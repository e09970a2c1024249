--------------------------- MODULE SqlitePersistence ---------------------------
(***************************************************************************)
(* The SQLite layer: programs on one machine, consoles and forms, record   *)
(* the files they see in database files that they create if they find none.*)
(* Nothing but the tests for a file's existence keeps two programs apart,  *)
(* every statement commits by itself, and a program may die between any    *)
(* two of them.  A console looks for a name not in use, a user of the form *)
(* may choose any.                                                         *)
(***************************************************************************)
EXTENDS Integers, FiniteSets

CONSTANTS
  Process,       \* the running programs
  Console,       \* those of them that are consoles
  LastName,      \* the names of database files are 0 (the one asked for) to LastName
  Key,           \* <<MFTNumber, SequenceNumber, SHA256>>, the primary key
  Rule,          \* the names of YARA rules
  MaxScans,      \* bound: the scans of a process
  MaxCalls       \* bound: the calls of PersistFileProperties for one row

Name  == 0..LastName
Place == Name \X Key     \* where a row may be

ASSUME SqliteAssumption ==
  /\ IsFiniteSet(Process) /\ Console \subseteq Process
  /\ LastName \in Nat /\ MaxScans \in Nat /\ MaxCalls \in Nat

VARIABLES
  existing,   \* the names of files that exist
  tables,     \* the names of those with the table FileProperties
  row,        \* PrevalenceCount, 0 where there is no row
  listed,     \* YaraRulesMatched
  pc,         \* where each process is
  name,       \* the file of its scan
  connected,  \* the processes whose client has opened its connection
  leaked,     \* the files a process has still open through clients not disposed of
  key, rules, count,    \* the locals of its call of PersistFileProperties
  scans,      \* the scans begun by each process
  calls,      \* the calls begun for each place
  confirmed,  \* those that returned true
  hits,       \* the rules those brought
  raced,      \* the names two clients prepared at once
  disturbed   \* the places whose calls overlapped, failed or died

files   == <<existing, tables, row, listed>>
locals  == <<key, rules, count>>
handles == <<connected, leaked>>
history == <<calls, confirmed, hits, disturbed>>
vars    == <<files, pc, name, handles, locals, scans, history, raced>>

-----------------------------------------------------------------------------
Preparing == {"create", "table", "delete"}
Calling   == {"select", "merge", "insert", "update", "return"}
Pc        == {"idle", "naming", "test", "ready"} \cup Preparing \cup Calling

TypeOK ==
  /\ existing \in SUBSET Name /\ tables \in SUBSET Name
  /\ row \in [Place -> Nat] /\ listed \in [Place -> SUBSET Rule]
  /\ pc \in [Process -> Pc] /\ name \in [Process -> Name]
  /\ connected \in SUBSET Process /\ leaked \in [Process -> SUBSET Name]
  /\ key \in [Process -> Key] /\ rules \in [Process -> SUBSET Rule] /\ count \in [Process -> Nat]
  /\ scans \in [Process -> 0..MaxScans]
  /\ calls \in [Place -> 0..MaxCalls] /\ confirmed \in [Place -> Nat]
  /\ hits \in [Place -> SUBSET Rule]
  /\ raced \in SUBSET Name /\ disturbed \in SUBSET Place

Init ==
  /\ existing = {} /\ tables = {}
  /\ row = [i \in Place |-> 0] /\ listed = [i \in Place |-> {}]
  /\ pc = [p \in Process |-> "idle"] /\ name = [p \in Process |-> 0]
  /\ connected = {} /\ leaked = [p \in Process |-> {}]
  /\ key \in [Process -> Key]
  /\ rules = [p \in Process |-> {}] /\ count = [p \in Process |-> 0]
  /\ scans = [p \in Process |-> 0]
  /\ calls = [i \in Place |-> 0] /\ confirmed = [i \in Place |-> 0]
  /\ hits = [i \in Place |-> {}]
  /\ raced = {} /\ disturbed = {}

GoTo(p, next) == pc' = [pc EXCEPT ![p] = next]

At(p) == <<name[p], key[p]>>

InCall(p, i) == pc[p] \in Calling /\ At(p) = i

\* SQLite lets others read and write a file it has open, but not replace it.
Open(n) == \E p \in Process : n \in leaked[p] \/ (p \in connected /\ name[p] = n)

\* The rows of a file that is made anew or deleted are gone.
Emptied(n) ==
  /\ row' = [i \in Place |-> IF i[1] = n THEN 0 ELSE row[i]]
  /\ listed' = [i \in Place |-> IF i[1] = n THEN {} ELSE listed[i]]
  /\ tables' = tables \ {n}

-----------------------------------------------------------------------------
(* Choosing a file. *)

ScanBegins(p) ==
  /\ pc[p] = "idle" /\ scans[p] < MaxScans
  /\ scans' = [scans EXCEPT ![p] = @ + 1]

\* The user of the form was asked whether to add to a file that exists.
FormStarts(p) ==
  /\ p \notin Console /\ ScanBegins(p)
  /\ \E n \in Name : name' = [name EXCEPT ![p] = n]
  /\ GoTo(p, "test")
  /\ UNCHANGED <<files, handles, locals, history, raced>>

ConsoleStarts(p) ==
  /\ p \in Console /\ ScanBegins(p)
  /\ name' = [name EXCEPT ![p] = 0]
  /\ GoTo(p, IF 0 \in existing THEN "naming" ELSE "test")
  /\ UNCHANGED <<files, handles, locals, history, raced>>

\* One turn of SequentialFilename.GetNextAvailable.
NextName(p) ==
  /\ pc[p] = "naming"
  /\ IF name[p] \in existing
     THEN name[p] < LastName /\ name' = [name EXCEPT ![p] = @ + 1] /\ UNCHANGED pc
     ELSE GoTo(p, "test") /\ UNCHANGED name
  /\ UNCHANGED <<files, handles, locals, scans, history, raced>>

(* The constructor of SqliteDataClient: PrepareDatabase. *)

\* Mutant of TestFile: the database is always made.
TestNothing(p) ==
  /\ pc[p] = "test"
  /\ GoTo(p, "create")
  /\ raced' = IF \E q \in Process \ {p} : name[q] = name[p] /\ pc[q] \in Preparing
              THEN raced \cup {name[p]} ELSE raced
  /\ UNCHANGED <<files, name, handles, locals, scans, history>>

TestFile(p) ==
  /\ pc[p] = "test"
  /\ IF name[p] \in existing
     THEN GoTo(p, "ready") /\ UNCHANGED raced
     ELSE /\ GoTo(p, "create")
          /\ raced' = IF \E q \in Process \ {p} : name[q] = name[p] /\ pc[q] \in Preparing
                      THEN raced \cup {name[p]} ELSE raced
  /\ UNCHANGED <<files, name, handles, locals, scans, history>>

\* SQLiteConnection.CreateFile truncates what is there, and throws out of the
\* constructor if somebody has it open.
CreateFile(p) ==
  /\ pc[p] = "create"
  /\ IF Open(name[p])
     THEN GoTo(p, "idle") /\ UNCHANGED files
     ELSE GoTo(p, "table") /\ existing' = existing \cup {name[p]} /\ Emptied(name[p])
  /\ UNCHANGED <<name, handles, locals, scans, history, raced>>

\* The connection of CREATE TABLE is closed at once; the statement may fail.
CreateTable(p) ==
  /\ pc[p] = "table"
  /\ \/ /\ name[p] \notin tables
        /\ existing' = existing \cup {name[p]} /\ tables' = tables \cup {name[p]}
        /\ GoTo(p, "ready")
     \/ UNCHANGED <<existing, tables>> /\ GoTo(p, "delete")
  /\ UNCHANGED <<row, listed, name, handles, locals, scans, history, raced>>

\* The exception is forgotten with the file, unless the file is in use.
DeleteFile(p) ==
  /\ pc[p] = "delete"
  /\ IF Open(name[p])
     THEN GoTo(p, "idle") /\ UNCHANGED files
     ELSE GoTo(p, "ready") /\ existing' = existing \ {name[p]} /\ Emptied(name[p])
  /\ UNCHANGED <<name, handles, locals, scans, history, raced>>

-----------------------------------------------------------------------------
(* PersistFileProperties. *)

\* The first statement opens the connection, and that makes a file that is gone.
Persist(p) ==
  /\ pc[p] = "ready"
  /\ \E k \in Key, matched \in SUBSET Rule :
       LET i == <<name[p], k>> IN
       /\ calls[i] < MaxCalls
       /\ key' = [key EXCEPT ![p] = k] /\ rules' = [rules EXCEPT ![p] = matched]
       /\ calls' = [calls EXCEPT ![i] = @ + 1]
       /\ disturbed' = IF \E q \in Process \ {p} : InCall(q, i)
                       THEN disturbed \cup {i} ELSE disturbed
  /\ connected' = connected \cup {p} /\ existing' = existing \cup {name[p]}
  /\ GoTo(p, "select")
  /\ UNCHANGED <<tables, row, listed, name, leaked, count, scans, confirmed, hits, raced>>

GetPrevalenceCount(p) ==
  /\ pc[p] = "select" /\ name[p] \in tables
  /\ count' = [count EXCEPT ![p] = row[At(p)]]
  /\ GoTo(p, IF row[At(p)] = 0 THEN "insert" ELSE IF rules[p] # {} THEN "merge" ELSE "update")
  /\ UNCHANGED <<files, name, handles, key, rules, scans, history, raced>>

\* The parameters hold no YaraRulesMatched.
InsertRow(p) ==
  /\ pc[p] = "insert" /\ row[At(p)] = 0
  /\ row' = [row EXCEPT ![At(p)] = 1] /\ listed' = [listed EXCEPT ![At(p)] = {}]
  /\ GoTo(p, "return")
  /\ UNCHANGED <<existing, tables, name, handles, locals, scans, history, raced>>

\* Mutant of UpdatePrevalenceCount: every sighting is added twice.
UpdateCountTwice(p) ==
  /\ pc[p] = "update"
  /\ row' = [row EXCEPT ![At(p)] = count[p] + 2]
  /\ GoTo(p, "return")
  /\ UNCHANGED <<existing, tables, listed, name, handles, locals, scans, history, raced>>

\* Mutant of UpdatePrevalenceCount: the count that was read is written back.
UpdateCountAsRead(p) ==
  /\ pc[p] = "update"
  /\ row' = [row EXCEPT ![At(p)] = count[p]]
  /\ GoTo(p, "return")
  /\ UNCHANGED <<existing, tables, listed, name, handles, locals, scans, history, raced>>

UpdatePrevalenceCount(p) ==
  /\ pc[p] = "update"
  /\ row' = [row EXCEPT ![At(p)] = count[p] + 1]
  /\ GoTo(p, "return")
  /\ UNCHANGED <<existing, tables, listed, name, handles, locals, scans, history, raced>>

Return(p) ==
  /\ pc[p] = "return"
  /\ confirmed' = [confirmed EXCEPT ![At(p)] = @ + 1]
  /\ hits' = [hits EXCEPT ![At(p)] = @ \cup rules[p]]
  /\ GoTo(p, "ready")
  /\ UNCHANGED <<files, name, handles, locals, scans, calls, disturbed, raced>>

-----------------------------------------------------------------------------
(* The ends of a scan. *)

Disturb(p) == disturbed' = IF pc[p] \in Calling THEN disturbed \cup {At(p)} ELSE disturbed

\* Of a client that is not disposed of, the form keeps the connection open; a
\* console ends.
Abandon(p, mayLeak) ==
  /\ GoTo(p, "idle") /\ connected' = connected \ {p}
  /\ leaked' = [leaked EXCEPT ![p] =
       IF p \in Console THEN {} ELSE IF mayLeak /\ p \in connected THEN @ \cup {name[p]} ELSE @]
  /\ Disturb(p)
  /\ UNCHANGED <<files, name, locals, scans, calls, confirmed, hits, raced>>

\* Any statement may fail (the file is locked, there is no table, the key is
\* taken), and SELECT TOP is none that SQLite knows: Worker faults.
StatementFails(p) ==
  /\ pc[p] \in Calling \ {"return"}
  /\ \E opened \in {TRUE, pc[p] # "select"} : Abandon(p, opened)

Cancelled(p) == pc[p] = "ready" /\ p \notin Console /\ Abandon(p, TRUE)

\* Worker's loop ends and disposes of the layer.
Finish(p) == pc[p] = "ready" /\ Abandon(p, FALSE)

\* The garbage collector finds the clients nobody disposed of.
Collect(p) ==
  /\ leaked[p] # {} /\ leaked' = [leaked EXCEPT ![p] = {}]
  /\ UNCHANGED <<files, pc, name, connected, locals, scans, history, raced>>

\* The program is closed or killed.
Die(p) ==
  /\ pc[p] # "idle" /\ GoTo(p, "idle")
  /\ connected' = connected \ {p} /\ leaked' = [leaked EXCEPT ![p] = {}]
  /\ Disturb(p)
  /\ UNCHANGED <<files, name, locals, scans, calls, confirmed, hits, raced>>

Step(p) ==
  \/ FormStarts(p) \/ ConsoleStarts(p) \/ NextName(p)
  \/ TestFile(p) \/ CreateFile(p) \/ CreateTable(p) \/ DeleteFile(p)
  \/ Persist(p) \/ GetPrevalenceCount(p) \/ InsertRow(p) \/ UpdatePrevalenceCount(p) \/ Return(p)
  \/ StatementFails(p) \/ Cancelled(p) \/ Finish(p) \/ Collect(p) \/ Die(p)

Next == \E p \in Process : Step(p)

Spec == Init /\ [][Next]_vars

-----------------------------------------------------------------------------
(* Whatever programs share a file, and whatever fails or dies, a count is  *)
(* never more than the calls begun for the row.                            *)
NeverOvercounts == \A i \in Place : row[i] <= calls[i]

(* What returned true stays in its file: rows are lost only in a file that *)
(* two clients found missing and made at once, where the later one         *)
(* truncates or deletes what the earlier one has filled.                   *)
ConfirmedKept == \A i \in Place : i[1] \notin raced /\ confirmed[i] > 0 => row[i] > 0

(* A count is exact, even in a file that several programs add to, unless   *)
(* two made the file at once or calls for that very row overlapped, failed *)
(* or died: scans that were cancelled, that fault elsewhere or that leave  *)
(* their connection open harm no row.                                      *)
ExactUnlessDisturbed ==
  \A i \in Place :
    i[1] \in raced \/ i \in disturbed \/ (\E p \in Process : InCall(p, i))
    \/ (row[i] = calls[i] /\ row[i] = confirmed[i])

-----------------------------------------------------------------------------
(* The inductive invariant.  A file that is open is not replaced, so a call*)
(* keeps its table; a count leaves room for the calls that have yet to     *)
(* count; unless two clients race, the one that makes a file finds no      *)
(* table; and the only call for an undisturbed row knows what it holds.    *)

Held(p) ==
  /\ p \in connected => pc[p] \in {"ready"} \cup Calling
  /\ pc[p] \in Calling => p \in connected
  /\ pc[p] \in Calling \ {"select"} => name[p] \in tables

\* The calls for i that have not counted their sighting.
Pending(i) == {p \in Process : InCall(p, i) /\ pc[p] # "return"}

BoundedRow(i) ==
  /\ row[i] + Cardinality(Pending(i)) <= calls[i]
  /\ row[i] > 0 => i[1] \in tables
  /\ i[1] \notin raced /\ confirmed[i] > 0 => row[i] > 0

BoundedLocals(p) ==
  /\ pc[p] \in {"merge", "update"} => count[p] + Cardinality(Pending(At(p))) <= calls[At(p)]
  /\ pc[p] = "return" => row[At(p)] > 0

PreparedAlone(n) ==
  n \in raced
    \/ \A p \in Process : pc[p] \in Preparing /\ name[p] = n =>
         /\ n \notin tables
         /\ \A q \in Process : pc[q] \in Preparing /\ name[q] = n => p = q

Exact(i) == row[i] = calls[i] /\ row[i] = confirmed[i]

Progress(p, i) ==
  IF pc[p] = "return"
  THEN row[i] = calls[i] /\ row[i] = confirmed[i] + 1
  ELSE /\ row[i] + 1 = calls[i] /\ row[i] = confirmed[i]
       /\ pc[p] \in {"merge", "update"} => count[p] = row[i]

Undisturbed(i) ==
  i[1] \in raced \/ i \in disturbed
    \/ /\ \A p, q \in Process : InCall(p, i) /\ InCall(q, i) => p = q
       /\ \A p \in Process : InCall(p, i) => Progress(p, i)
       /\ (\A p \in Process : ~InCall(p, i)) => Exact(i)

IInv ==
  /\ TypeOK /\ tables \subseteq existing
  /\ \A p \in Process : Held(p) /\ BoundedLocals(p)
  /\ \A i \in Place : BoundedRow(i) /\ Undisturbed(i)
  /\ \A n \in Name : PreparedAlone(n)

-----------------------------------------------------------------------------
(* What the program says of itself and does not keep.                      *)

(* README: "Custom YARA rules (Lists the rule names that match)": a call   *)
(* that returned true has left the rules that matched in the row.          *)
MatchesListed == \A i \in Place : i[1] \notin raced => hits[i] \subseteq listed[i]
=============================================================================
