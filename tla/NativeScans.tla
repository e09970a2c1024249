------------------------------ MODULE NativeScans ------------------------------
(***************************************************************************)
(* The native scans of libyara: threads, each with a scanner of its own,   *)
(* scan one file after the other with the same compiled rules.  What a     *)
(* scan finds is kept in the rules themselves, in arrays with one slot for *)
(* each running scan; the slots are handed out under a mutex and taken     *)
(* back when the scan ends, whatever ended it.  The scanner keeps its      *)
(* entry point, and after an exception its modules, for the next file.     *)
(***************************************************************************)
EXTENDS Integers, Sequences, FiniteSets

CONSTANTS
  Thread,      \* the threads that scan, each with its YR_SCANNER
  MaxThreads,  \* YR_MAX_THREADS
  Rules,       \* the compiled rules, in order
  Entry,       \* entry points of executables
  NoEntry,     \* UNDEFINED
  File,        \* what may be scanned
  Answers,     \* what the callback may answer
  MaxScans     \* bound: the scans of all threads

Slot == 0..(MaxThreads - 1)
Rule == 1..Len(Rules)

\* A rule asks for its own string, for an entry point or for module data.
RuleRecord == [asks : {"string", "entry", "module"}, global : BOOLEAN,
               private : BOOLEAN, ns : Nat]

\* A block holds the strings of some rules; fetching it may fail.
Block == [readable : BOOLEAN, strings : SUBSET Rule, entry : Entry \cup {NoEntry}]

ASSUME NativeAssumption ==
  /\ MaxThreads \in Nat /\ MaxScans \in Nat
  /\ Rules \in Seq(RuleRecord)
  /\ NoEntry \notin Entry /\ File # {}
  /\ \A f \in File : f.blocks \in Seq(Block) /\ f.data \in {"yes", "no"}
  /\ Answers \subseteq {"continue", "abort", "error"}

VARIABLES
  mask,         \* tidx_mask: the slots in use
  lists,        \* the strings whose match lists are not empty, by slot
  matched,      \* the rules with RULE_TFLAGS_MATCH, by slot
  unsatisfied,  \* the namespaces with UNSATISFIED_GLOBAL, by slot
  pc, file, at, \* where each thread is, in which file, at which block or rule
  slot,         \* the scanner's tidx
  touched,      \* the strings in its matching_strings_arena
  entry,        \* its entry_point
  modules,      \* the module data in its objects_table
  result,       \* what the scan returns
  reported,     \* the matches of the YSScanner
  scans,        \* the scans begun
  first,        \* the first entry point the scanner met
  crashed       \* it met an exception while it ran the rules

shared  == <<mask, lists, matched, unsatisfied>>
scanner == <<slot, touched, entry, modules>>
outcome == <<result, reported>>
place   == <<file, at, scans>>
past    == <<first, crashed>>
vars == <<shared, scanner, outcome, pc, place, past>>

Results == {"none", "success", "aborted", "too many threads", "error"}
Running == {"arenas", "blocks", "rules", "report", "clean", "release"}
Pcs     == {"idle", "tidx"} \cup Running

TypeOK ==
  /\ mask \in SUBSET Slot
  /\ lists \in [Slot -> SUBSET Rule] /\ matched \in [Slot -> SUBSET Rule]
  /\ unsatisfied \in [Slot -> SUBSET Nat]
  /\ pc \in [Thread -> Pcs] /\ file \in [Thread -> File]
  /\ at \in [Thread -> Nat] /\ scans \in Nat
  /\ slot \in [Thread -> Slot \cup {-1}] /\ touched \in [Thread -> SUBSET Rule]
  /\ entry \in [Thread -> Entry \cup {NoEntry}]
  /\ modules \in [Thread -> {"none", "yes", "no"}]
  /\ result \in [Thread -> Results] /\ reported \in [Thread -> SUBSET Rule]
  /\ first \in [Thread -> Entry \cup {NoEntry}] /\ crashed \in [Thread -> BOOLEAN]

Init ==
  /\ mask = {}
  /\ lists = [s \in Slot |-> {}] /\ matched = [s \in Slot |-> {}]
  /\ unsatisfied = [s \in Slot |-> {}]
  /\ pc = [t \in Thread |-> "idle"] /\ file = [t \in Thread |-> CHOOSE f \in File : TRUE]
  /\ at = [t \in Thread |-> 1] /\ scans = 0
  /\ slot = [t \in Thread |-> -1] /\ touched = [t \in Thread |-> {}]
  /\ entry = [t \in Thread |-> NoEntry] /\ modules = [t \in Thread |-> "none"]
  /\ result = [t \in Thread |-> "none"] /\ reported = [t \in Thread |-> {}]
  /\ first = [t \in Thread |-> NoEntry] /\ crashed = [t \in Thread |-> FALSE]

-----------------------------------------------------------------------------
GoTo(t, next) == pc' = [pc EXCEPT ![t] = next]

End(t, how) == result' = [result EXCEPT ![t] = how]

(* YSScanner.ScanMemory and the start of yr_scanner_scan_mem_blocks. *)

\* The list of matches is new for each file; without a first block there is
\* nothing to scan.
ScanMemory(t) ==
  /\ pc[t] = "idle" /\ scans < MaxScans
  /\ \E f \in File :
       /\ file' = [file EXCEPT ![t] = f]
       /\ GoTo(t, IF f.blocks = <<>> THEN "idle" ELSE "tidx")
  /\ End(t, "success")
  /\ reported' = [reported EXCEPT ![t] = {}]
  /\ scans' = scans + 1
  /\ UNCHANGED <<shared, scanner, at, past>>

\* Mutant of TakeSlot: the bit is tested in one step and set in another.
TakeSlotUnmarked(t) ==
  /\ pc[t] = "tidx"
  /\ \E s \in Slot \ mask :
       /\ \A lower \in Slot : lower < s => lower \in mask
       /\ slot' = [slot EXCEPT ![t] = s]
  /\ GoTo(t, "arenas")
  /\ UNCHANGED <<shared, touched, entry, modules, outcome, place, past>>

\* The lowest free slot is taken in one step, under rules->mutex.
TakeSlot(t) ==
  /\ pc[t] = "tidx"
  /\ \/ \E s \in Slot \ mask :
          /\ \A lower \in Slot : lower < s => lower \in mask
          /\ mask' = mask \cup {s}
          /\ slot' = [slot EXCEPT ![t] = s]
          /\ GoTo(t, "arenas")
          /\ UNCHANGED result
     \/ /\ Slot \subseteq mask
        /\ End(t, "too many threads")
        /\ GoTo(t, "idle")
        /\ UNCHANGED <<mask, slot>>
  /\ UNCHANGED <<lists, matched, unsatisfied, touched, entry, modules, reported, place, past>>

\* matches_arena and matching_strings_arena; either may want for memory.
CreateArenas(t) ==
  /\ pc[t] = "arenas"
  /\ \/ GoTo(t, "blocks") /\ UNCHANGED result
     \/ GoTo(t, "clean") /\ End(t, "error")
  /\ at' = [at EXCEPT ![t] = 1]
  /\ UNCHANGED <<shared, scanner, reported, file, scans, past>>

(* The blocks. *)

\* fetch_data returned NULL: the block is passed over.
SkipBlock(t) ==
  /\ pc[t] = "blocks" /\ at[t] <= Len(file[t].blocks)
  /\ ~file[t].blocks[at[t]].readable
  /\ at' = [at EXCEPT ![t] = @ + 1]
  /\ UNCHANGED <<shared, scanner, outcome, pc, file, scans, past>>

\* The entry point is looked for while it is UNDEFINED.  A string is put on
\* the list of strings to clean before its first match is.  The scan of the
\* block may stop early: too many matches, a timeout, an exception.
ScanBlock(t) ==
  LET block == file[t].blocks[at[t]]  s == slot[t] IN
  /\ pc[t] = "blocks" /\ at[t] <= Len(file[t].blocks) /\ block.readable
  /\ entry' = [entry EXCEPT ![t] = IF @ = NoEntry THEN block.entry ELSE @]
  /\ first' = [first EXCEPT ![t] = IF @ = NoEntry THEN block.entry ELSE @]
  /\ \E found \in SUBSET block.strings :
       /\ lists' = [lists EXCEPT ![s] = @ \cup found]
       /\ touched' = [touched EXCEPT ![t] = @ \cup found]
       /\ \/ /\ found = block.strings
             /\ at' = [at EXCEPT ![t] = @ + 1]
             /\ UNCHANGED <<pc, result>>
          \/ /\ GoTo(t, "clean") /\ End(t, "error")
             /\ UNCHANGED at
  /\ UNCHANGED <<mask, matched, unsatisfied, slot, modules, reported, file, scans, crashed>>

(* yr_execute_code. *)

\* A module that is in the objects table is not loaded again.
ImportModules(t) ==
  /\ pc[t] = "blocks" /\ at[t] > Len(file[t].blocks)
  /\ modules' = [modules EXCEPT ![t] = IF @ = "none" THEN file[t].data ELSE @]
  /\ GoTo(t, "rules")
  /\ at' = [at EXCEPT ![t] = 1]
  /\ UNCHANGED <<shared, slot, touched, entry, outcome, file, scans, past>>

Holds(t, r) ==
  CASE Rules[r].asks = "string" -> r \in lists[slot[t]]
    [] Rules[r].asks = "entry"  -> entry[t] # NoEntry
    [] Rules[r].asks = "module" -> modules[t] = "yes"

\* Mutant of RunRule: a global rule is recorded for its own rule only.
RunRuleWithoutGlobals(t) ==
  LET r == at[t]  s == slot[t] IN
  /\ pc[t] = "rules" /\ r <= Len(Rules)
  /\ matched' = [matched EXCEPT ![s] = IF Holds(t, r) THEN @ \cup {r} ELSE @]
  /\ at' = [at EXCEPT ![t] = @ + 1]
  /\ UNCHANGED <<mask, lists, unsatisfied, scanner, outcome, pc, file, scans, past>>

\* OP_MATCH_RULE.
RunRule(t) ==
  LET r == at[t]  s == slot[t] IN
  /\ pc[t] = "rules" /\ r <= Len(Rules)
  /\ \/ /\ Holds(t, r)
        /\ matched' = [matched EXCEPT ![s] = @ \cup {r}]
        /\ UNCHANGED unsatisfied
     \/ /\ ~Holds(t, r)
        /\ unsatisfied' = IF Rules[r].global
                          THEN [unsatisfied EXCEPT ![s] = @ \cup {Rules[r].ns}] ELSE unsatisfied
        /\ UNCHANGED matched
  /\ at' = [at EXCEPT ![t] = @ + 1]
  /\ UNCHANGED <<mask, lists, scanner, outcome, pc, file, scans, past>>

\* OP_HALT; the modules are unloaded.
RulesDone(t) ==
  /\ pc[t] = "rules" /\ at[t] > Len(Rules)
  /\ modules' = [modules EXCEPT ![t] = "none"]
  /\ GoTo(t, "report")
  /\ UNCHANGED <<shared, slot, touched, entry, outcome, place, past>>

\* An error of an instruction or of a module leaves by the end of the
\* function; an exception leaves by YR_TRYCATCH, past the unloading.
ExecutionFails(t) ==
  /\ pc[t] = "rules" \/ (pc[t] = "blocks" /\ at[t] > Len(file[t].blocks))
  /\ \/ /\ modules' = [modules EXCEPT ![t] = "none"]
        /\ UNCHANGED crashed
     \/ /\ \E data \in {modules[t], file[t].data} : modules' = [modules EXCEPT ![t] = data]
        /\ crashed' = [crashed EXCEPT ![t] = TRUE]
  /\ GoTo(t, "clean") /\ End(t, "error")
  /\ UNCHANGED <<shared, slot, touched, entry, reported, place, first>>

(* The callback for the rules, and the end of the scan. *)

\* YSScanner's callback adds the rules that match and goes on; others of the
\* library may end the scan at any rule that is not private.
Report(t) ==
  LET s == slot[t]
      matching == {r \in matched[s] : Rules[r].ns \notin unsatisfied[s] /\ ~Rules[r].private}
  IN
  /\ pc[t] = "report"
  /\ \/ /\ "continue" \in Answers
        /\ reported' = [reported EXCEPT ![t] = @ \cup matching]
        /\ End(t, "success")
     \/ \E r \in Rule, answer \in Answers \ {"continue"} :
          /\ ~Rules[r].private
          /\ reported' = [reported EXCEPT ![t] = @ \cup {q \in matching : q <= r}]
          /\ End(t, IF answer = "abort" THEN "aborted" ELSE "error")
  /\ GoTo(t, "clean")
  /\ UNCHANGED <<shared, scanner, place, past>>

\* Mutant of CleanMatches: the namespaces keep their flag.
CleanMatchesOfRules(t) ==
  LET s == slot[t] IN
  /\ pc[t] = "clean"
  /\ matched' = [matched EXCEPT ![s] = {}]
  /\ lists' = [lists EXCEPT ![s] = @ \ touched[t]]
  /\ touched' = [touched EXCEPT ![t] = {}]
  /\ GoTo(t, "release")
  /\ UNCHANGED <<mask, unsatisfied, slot, entry, modules, outcome, place, past>>

\* _yr_scanner_clean_matches: the flags of all rules, the lists of the strings
\* noted in the arena; then the arenas are destroyed.
CleanMatches(t) ==
  LET s == slot[t] IN
  /\ pc[t] = "clean"
  /\ matched' = [matched EXCEPT ![s] = {}]
  /\ unsatisfied' = [unsatisfied EXCEPT ![s] = @ \ {Rules[r].ns : r \in Rule}]
  /\ lists' = [lists EXCEPT ![s] = @ \ touched[t]]
  /\ touched' = [touched EXCEPT ![t] = {}]
  /\ GoTo(t, "release")
  /\ UNCHANGED <<mask, slot, entry, modules, outcome, place, past>>

ReleaseSlot(t) ==
  /\ pc[t] = "release"
  /\ mask' = mask \ {slot[t]}
  /\ GoTo(t, "idle")
  /\ UNCHANGED <<lists, matched, unsatisfied, scanner, outcome, place, past>>

Step(t) ==
  \/ ScanMemory(t) \/ TakeSlot(t) \/ CreateArenas(t)
  \/ SkipBlock(t) \/ ScanBlock(t)
  \/ ImportModules(t) \/ RunRule(t) \/ RulesDone(t) \/ ExecutionFails(t)
  \/ Report(t) \/ CleanMatches(t) \/ ReleaseSlot(t)

Next == \E t \in Thread : Step(t)

Spec == Init /\ [][Next]_vars

-----------------------------------------------------------------------------
InScan(t) == pc[t] \in Running

(* No two running scans write to one slot of the rules, and the slots in   *)
(* use are those of the running scans: none is lost to an error, or the    *)
(* rules would refuse every scan after the 32nd.                           *)
SlotsExclusive ==
  /\ \A t, u \in Thread : InScan(t) /\ InScan(u) /\ slot[t] = slot[u] => t = u
  /\ mask = {slot[t] : t \in {u \in Thread : InScan(u)}}

(* A scan never starts on what another left: whatever ended the scan that  *)
(* had the slot before, no match, no rule and no namespace is marked.      *)
FreeSlotsClean ==
  \A s \in Slot \ mask : lists[s] = {} /\ matched[s] = {} /\ unsatisfied[s] = {}

(* What a file is worth on its own: the entry point of its first block     *)
(* that has one, the strings of its blocks, the rules that hold of them.   *)
Readable(f) == {i \in 1..Len(f.blocks) : f.blocks[i].readable}

EntryOf(f) ==
  LET known == {i \in Readable(f) : f.blocks[i].entry # NoEntry}
  IN  IF known = {} THEN NoEntry
      ELSE f.blocks[CHOOSE i \in known : \A j \in known : i <= j].entry

HoldsOf(f, r) ==
  CASE Rules[r].asks = "string" -> \E i \in Readable(f) : r \in f.blocks[i].strings
    [] Rules[r].asks = "entry"  -> EntryOf(f) # NoEntry
    [] Rules[r].asks = "module" -> f.data = "yes"

Satisfied(f, ns) == \A q \in Rule : Rules[q].global /\ Rules[q].ns = ns => HoldsOf(f, q)

Expected(f) == {r \in Rule : HoldsOf(f, r) /\ Satisfied(f, Rules[r].ns) /\ ~Rules[r].private}

(* What a rule asks for comes from this file, not from an earlier one of   *)
(* the same scanner.                                                       *)
OfThisFile(t, r) ==
  CASE Rules[r].asks = "string" -> TRUE
    [] Rules[r].asks = "entry"  -> first[t] = EntryOf(file[t])
    [] Rules[r].asks = "module" -> ~crashed[t]

Judges(q, r) == q = r \/ (Rules[q].global /\ Rules[q].ns = Rules[r].ns)

Exact(t) ==
  \A r \in Rule : (\A q \in Rule : Judges(q, r) => OfThisFile(t, q)) =>
    (r \in reported[t] <=> r \in Expected(file[t]))

(* A scan that succeeds reports exactly the rules its file satisfies, for  *)
(* every rule that (with the global rules over it) asks for nothing the    *)
(* scanner kept from another file.                                         *)
ReportsExact ==
  \A t \in Thread :
    pc[t] = "idle" /\ result[t] = "success" /\ file[t].blocks # <<>> => Exact(t)

-----------------------------------------------------------------------------
(* The inductive invariant. *)

\* The slots in use are those of the running scans.
Slots ==
  /\ \A t \in Thread : InScan(t) => slot[t] \in mask
  /\ \A t, u \in Thread : InScan(t) /\ InScan(u) /\ slot[t] = slot[u] => t = u
  /\ \A s \in mask : \E t \in Thread : InScan(t) /\ slot[t] = s

\* What a scan may leave in its slot is what it cleans.
Dirt(t) ==
  LET s == slot[t] IN
  InScan(t) =>
    /\ lists[s] \subseteq touched[t]
    /\ unsatisfied[s] \subseteq {Rules[r].ns : r \in Rule}
    /\ pc[t] = "release" => lists[s] = {} /\ matched[s] = {} /\ unsatisfied[s] = {}

\* What the scanner keeps between files.
Kept(t) ==
  /\ entry[t] = first[t]
  /\ pc[t] = "rules" => modules[t] = file[t].data \/ crashed[t]
  /\ pc[t] # "rules" => modules[t] = "none" \/ crashed[t]

\* The strings of the readable blocks before block n.
StringsBefore(f, n) == UNION {f.blocks[i].strings : i \in {j \in Readable(f) : j < n}}

\* The rules before rule n have been executed.
Judged(t, n) ==
  LET s == slot[t] IN
  /\ lists[s] = StringsBefore(file[t], Len(file[t].blocks) + 1)
  /\ \A r \in matched[s] : r < n
  /\ \A r \in Rule : r < n /\ OfThisFile(t, r) => (r \in matched[s] <=> HoldsOf(file[t], r))
  /\ unsatisfied[s] = {Rules[r].ns : r \in {q \in Rule : q < n /\ Rules[q].global /\ q \notin matched[s]}}

\* How far the scan of a file has come.
Progress(t) ==
  LET s == slot[t] IN
  /\ pc[t] \in {"tidx", "arenas", "blocks", "rules", "report"} => reported[t] = {}
  /\ pc[t] = "arenas" => lists[s] = {} /\ matched[s] = {} /\ unsatisfied[s] = {}
  /\ pc[t] = "blocks" => /\ lists[s] = StringsBefore(file[t], at[t])
                         /\ matched[s] = {} /\ unsatisfied[s] = {}
  /\ pc[t] = "rules"  => Judged(t, at[t])
  /\ pc[t] = "report" => Judged(t, Len(Rules) + 1)
  /\ pc[t] \in {"idle", "clean", "release"} /\ result[t] = "success" /\ file[t].blocks # <<>> => Exact(t)

IInv ==
  /\ TypeOK /\ Slots /\ FreeSlotsClean
  /\ \A t \in Thread : at[t] > 0 /\ Dirt(t) /\ Kept(t) /\ Progress(t)

=============================================================================
