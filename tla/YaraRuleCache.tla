---------------------------- MODULE YaraRuleCache ----------------------------
(***************************************************************************)
(* FileProperties.GetCompiledYaraRules and CleanUp: the rule files a file   *)
(* is scanned with follow from the filters of the scan; every collection    *)
(* of rule files is compiled once and kept in a static dictionary, which    *)
(* outlives a scan that is cancelled.  Analysts edit the rule files at any  *)
(* time.                                                                    *)
(***************************************************************************)
EXTENDS Naturals, Sequences, FiniteSets

CONSTANTS
  RuleFile,     \* names of YARA rule files
  Clash,        \* pairs of rule files that define a rule of the same name
  File,         \* the kinds of file that are scanned
  FilterLists,  \* the lists of filters a scan may be given
  MaxScans, MaxEdits   \* bounds: scans in one process, edits of rule files

FilterType == {"AlwaysRun", "MimeType", "FileExtension", "IsPeFile", "ElseNoMatch"}

\* hits: the versions of rule files with a rule that matches the file
ASSUME YaraAssumption ==
  /\ MaxScans \in Nat /\ MaxEdits \in Nat /\ Clash \subseteq SUBSET RuleFile
  /\ \A f \in File : /\ {"ext", "mime", "pe", "size", "readable", "blocked", "hits"} \subseteq DOMAIN f
                     /\ f.hits \subseteq RuleFile \X (0..MaxEdits)
  /\ \A list \in FilterLists : \A filter \in list :
       /\ filter.FilterType \in FilterType /\ filter.OnMatchRules \subseteq RuleFile

VARIABLES
  ruleFile,     \* the rule files on the disk: version, and whether it compiles
  dictionary,   \* _yaraCompiledRulesDictionary, in the order of insertion
  pc,           \* "idle", "next", "select", "scan", "cleanup" or "faulted"
  filters,      \* parameters.YaraParameters of the scan
  file,         \* the FileProperties being populated
  using,        \* index of the scanner GetCompiledYaraRules returned
  matched,      \* _yaraRulesMatched, as the rule files that hit
  disposing,    \* index of the next scanner CleanUp disposes of
  scans, edits, \* counted against the bounds
  atStart,      \* history: the rule files' versions when the scan began
  cancelled     \* history: a scan was cancelled since the dictionary was last new

disk == <<ruleFile, edits>>
vars == <<disk, dictionary, pc, filters, file, using, matched, disposing, scans, atStart, cancelled>>

-----------------------------------------------------------------------------
Versions == [RuleFile -> 0..MaxEdits]

\* A value of the dictionary: null if the collection did not compile.
Entry == [rules : SUBSET RuleFile, scanner : {"null", "live", "disposed"}, compiled : Versions]

TypeOK ==
  /\ ruleFile \in [RuleFile -> [version : 0..MaxEdits, valid : BOOLEAN]]
  /\ dictionary \in Seq(Entry)
  /\ pc \in {"idle", "next", "select", "scan", "cleanup", "faulted"}
  /\ filters \in FilterLists /\ file \in File /\ using \in Nat
  /\ matched \subseteq RuleFile
  /\ disposing \in 1..Len(dictionary) + 1
  /\ scans \in 0..MaxScans /\ edits \in 0..MaxEdits
  /\ atStart \in Versions /\ cancelled \in BOOLEAN
  /\ \A r \in RuleFile : ruleFile[r].version <= edits

Init ==
  /\ ruleFile \in [RuleFile -> [version : {0}, valid : BOOLEAN]]
  /\ dictionary = <<>> /\ pc = "idle"
  /\ filters \in FilterLists /\ file \in File
  /\ using = 0 /\ matched = {} /\ disposing = 1
  /\ scans = 0 /\ edits = 0
  /\ atStart = [r \in RuleFile |-> 0] /\ cancelled = FALSE

\* An analyst saves a rule file.
EditRuleFile ==
  /\ edits < MaxEdits /\ edits' = edits + 1
  /\ \E r \in RuleFile, valid \in BOOLEAN :
       ruleFile' = [ruleFile EXCEPT ![r] = [version |-> @.version + 1, valid |-> valid]]
  /\ UNCHANGED <<dictionary, pc, filters, file, using, matched, disposing, scans, atStart, cancelled>>

-----------------------------------------------------------------------------
StartScan ==
  /\ pc = "idle" /\ scans < MaxScans
  /\ scans' = scans + 1 /\ pc' = "next"
  /\ filters' \in FilterLists
  /\ atStart' = [r \in RuleFile |-> ruleFile[r].version]
  /\ using' = 0 /\ matched' = {}
  /\ UNCHANGED <<disk, dictionary, file, disposing, cancelled>>

\* Files of no length are not scanned, nor small ones an anti-virus program
\* blocks, nor large ones that cannot be read.
ReachesYara(f) ==
  CASE f.size = "empty" -> FALSE
    [] f.size = "small" -> ~f.blocked
    [] f.size = "large" -> f.readable

\* Mutant of PopulateFile: the matches of the file before are kept.
PopulateKeepingMatches ==
  /\ pc = "next"
  /\ \E f \in File : file' = f /\ pc' = IF ReachesYara(f) THEN "select" ELSE "next"
  /\ using' = 0
  /\ UNCHANGED <<disk, dictionary, filters, matched, disposing, scans, atStart, cancelled>>

PopulateFile ==
  /\ pc = "next"
  /\ \E f \in File : file' = f /\ pc' = IF ReachesYara(f) THEN "select" ELSE "next"
  /\ matched' = {} /\ using' = 0
  /\ UNCHANGED <<disk, dictionary, filters, disposing, scans, atStart, cancelled>>

\* The shell tells the MIME type of readable files only.
FilterMatches(filter, f) ==
  CASE filter.FilterType = "AlwaysRun"     -> TRUE
    [] filter.FilterType = "IsPeFile"      -> f.pe
    [] filter.FilterType = "FileExtension" -> filter.FilterValue = f.ext
    [] filter.FilterType = "MimeType"      -> f.readable /\ filter.FilterValue = f.mime
    [] filter.FilterType = "ElseNoMatch"   -> FALSE

DistinctRulesToRun(list, f) ==
  LET matching == UNION {filter.OnMatchRules : filter \in {g \in list : FilterMatches(g, f)}}
      fallback == UNION {filter.OnMatchRules : filter \in {g \in list : g.FilterType = "ElseNoMatch"}}
  IN  IF matching # {} THEN matching ELSE fallback

NoRules ==
  /\ pc = "select" /\ DistinctRulesToRun(filters, file) = {}
  /\ pc' = "next"
  /\ UNCHANGED <<disk, dictionary, filters, file, using, matched, disposing, scans, atStart, cancelled>>

\* The dictionary has the collection: a null is returned like a scanner.
UseCompiled ==
  \E i \in 1..Len(dictionary) :
    /\ pc = "select" /\ DistinctRulesToRun(filters, file) # {}
    /\ dictionary[i].rules = DistinctRulesToRun(filters, file)
    /\ using' = i
    /\ pc' = IF dictionary[i].scanner = "null" THEN "next" ELSE "scan"
    /\ UNCHANGED <<disk, dictionary, filters, file, matched, disposing, scans, atStart, cancelled>>

\* One rule file with an error, or two that clash, and CompileRules throws.
Compiles(rules) ==
  /\ \A r \in rules : ruleFile[r].valid
  /\ \A pair \in Clash : ~(pair \subseteq rules)

CompileRules ==
  LET rules == DistinctRulesToRun(filters, file) IN
  /\ pc = "select" /\ rules # {}
  /\ \A i \in 1..Len(dictionary) : dictionary[i].rules # rules
  /\ dictionary' = Append(dictionary,
       [rules |-> rules, scanner |-> IF Compiles(rules) THEN "live" ELSE "null",
        compiled |-> [r \in RuleFile |-> ruleFile[r].version]])
  /\ using' = Len(dictionary) + 1
  /\ pc' = IF Compiles(rules) THEN "scan" ELSE "next"
  /\ UNCHANGED <<disk, filters, file, matched, disposing, scans, atStart, cancelled>>

\* The scan may throw, which is reported and leaves no matches.
Scan ==
  LET entry == dictionary[using] IN
  /\ pc = "scan"
  /\ \/ matched' = {r \in entry.rules : <<r, entry.compiled[r]>> \in file.hits}
     \/ matched' = {}
  /\ pc' = "next"
  /\ UNCHANGED <<disk, dictionary, filters, file, using, disposing, scans, atStart, cancelled>>

\* The exception of a cancellation passes Dispose and CleanUp by.
Cancel ==
  /\ pc \in {"next", "select"}
  /\ pc' = "idle" /\ cancelled' = TRUE
  /\ UNCHANGED <<disk, dictionary, filters, file, using, matched, disposing, scans, atStart>>

\* Mutant of FinishFiles: CleanUp is left out.
FinishWithoutCleanUp ==
  /\ pc = "next" /\ pc' = "idle"
  /\ disposing' = 1
  /\ UNCHANGED <<disk, dictionary, filters, file, using, matched, scans, atStart, cancelled>>

FinishFiles ==
  /\ pc = "next" /\ pc' = "cleanup"
  /\ disposing' = 1
  /\ UNCHANGED <<disk, dictionary, filters, file, using, matched, scans, atStart, cancelled>>

DisposeScanner ==
  /\ pc = "cleanup" /\ disposing <= Len(dictionary) /\ dictionary[disposing].scanner # "null"
  /\ dictionary' = [dictionary EXCEPT ![disposing].scanner = "disposed"]
  /\ disposing' = disposing + 1
  /\ UNCHANGED <<disk, pc, filters, file, using, matched, scans, atStart, cancelled>>

\* Mutant of DisposeNull: the exception is caught, and the scan ends well.
DisposeNullQuietly ==
  /\ pc = "cleanup" /\ disposing <= Len(dictionary) /\ dictionary[disposing].scanner = "null"
  /\ pc' = "idle"
  /\ UNCHANGED <<disk, dictionary, filters, file, using, matched, disposing, scans, atStart, cancelled>>

\* A null reference: the task faults, the toggle is never Ready again, and
\* no other scan starts in this process.
DisposeNull ==
  /\ pc = "cleanup" /\ disposing <= Len(dictionary) /\ dictionary[disposing].scanner = "null"
  /\ pc' = "faulted"
  /\ UNCHANGED <<disk, dictionary, filters, file, using, matched, disposing, scans, atStart, cancelled>>

\* A new dictionary, and YaraHelper.CleanUp's new context.
ClearDictionary ==
  /\ pc = "cleanup" /\ disposing > Len(dictionary)
  /\ dictionary' = <<>> /\ disposing' = 1 /\ pc' = "idle" /\ cancelled' = FALSE
  /\ UNCHANGED <<disk, filters, file, using, matched, scans, atStart>>

\* Another exception: of the data layer, say.
Fault ==
  /\ pc \in {"next", "select"} /\ pc' = "faulted"
  /\ UNCHANGED <<disk, dictionary, filters, file, using, matched, disposing, scans, atStart, cancelled>>

\* The process ends at any point and is started again.
Restart ==
  /\ dictionary' = <<>> /\ disposing' = 1 /\ pc' = "idle" /\ cancelled' = FALSE
  /\ using' = 0 /\ matched' = {}
  /\ UNCHANGED <<disk, filters, file, scans, atStart>>

Next ==
  \/ EditRuleFile \/ StartScan \/ PopulateFile
  \/ NoRules \/ UseCompiled \/ CompileRules \/ Scan
  \/ Cancel \/ FinishFiles \/ DisposeScanner \/ DisposeNull \/ ClearDictionary
  \/ Fault \/ Restart

Spec == Init /\ [][Next]_vars

-----------------------------------------------------------------------------
Running == pc \in {"next", "select", "scan"}

\* No scanner is used or disposed of after it was disposed of, although the
\* dictionary is static and CleanUp may stop halfway (FileProperties.cs:113-131):
\* the native scanner would be gone.
ScannersLive ==
  /\ pc = "scan" => using \in 1..Len(dictionary) /\ dictionary[using].scanner = "live"
  /\ pc = "cleanup" => \A i \in disposing..Len(dictionary) : dictionary[i].scanner # "disposed"

\* A file is scanned with the rule files its filters select, whatever other
\* collections earlier files and earlier scans have left (FileProperties.cs:430-480).
RightRules ==
  pc = "scan" => dictionary[using].rules = DistinctRulesToRun(filters, file)

\* A rule file saved before a scan began is in force in that scan, unless an
\* earlier scan of the process was cancelled and left its scanners behind
\* (FileEnumerator.cs:137-141, FileProperties.cs:467-469).
EditsTakeEffect ==
  pc = "scan" /\ ~cancelled =>
    \A r \in dictionary[using].rules : dictionary[using].compiled[r] >= atStart[r]

\* Between scans native scanners are left only by a cancelled one.
NothingLeaks == pc = "idle" /\ ~cancelled => dictionary = <<>>

\* The rule files in a row were selected for that file and match it in a version
\* that was on the disk (FileProperties.cs:383-395).
MatchesAreTrue ==
  Running => matched \subseteq {r \in DistinctRulesToRun(filters, file) :
                     \E v \in 0..ruleFile[r].version : <<r, v>> \in file.hits}

-----------------------------------------------------------------------------
\* The inductive invariant.
Collections ==
  /\ \A i, j \in 1..Len(dictionary) : i # j => dictionary[i].rules # dictionary[j].rules
  /\ \A i \in 1..Len(dictionary) : \A r \in RuleFile :
       dictionary[i].compiled[r] <= ruleFile[r].version
  /\ Running \/ pc = "idle" => \A i \in 1..Len(dictionary) : dictionary[i].scanner # "disposed"

NewCollections ==
  Running /\ ~cancelled =>
    \A i \in 1..Len(dictionary) : \A r \in RuleFile : dictionary[i].compiled[r] >= atStart[r]

Started == \A r \in RuleFile : atStart[r] <= ruleFile[r].version

IInv ==
  /\ TypeOK /\ Collections /\ NewCollections /\ Started
  /\ ScannersLive /\ RightRules /\ NothingLeaks /\ MatchesAreTrue
  /\ pc \in {"select", "scan"} => matched = {}
=============================================================================
