---------------------------- MODULE SqlPersistence ----------------------------
(***************************************************************************)
(* The SQL Server layer: scanners on several machines record the files     *)
(* they see in one table.  PersistFileProperties sends two commands, a     *)
(* query for the rules already recorded and a batch whose statements       *)
(* commit one by one; neither holds a lock or a transaction, so the        *)
(* statements of different scanners interleave.  A statement may fail, and *)
(* a scanner may die and be started again between any two of them.         *)
(***************************************************************************)
EXTENDS Integers, FiniteSets

CONSTANTS
  Scanner,       \* the running programs
  Key,           \* <<MFTNumber, SequenceNumber, SHA256>>, the primary key
  Rule,          \* the names of YARA rules
  MaxSightings   \* bound: the calls of PersistFileProperties for one key

ASSUME SqlAssumption == MaxSightings \in Nat /\ IsFiniteSet(Scanner)

VARIABLES
  created,    \* the table FileProperties exists
  table,      \* its rows; PrevalenceCount is 0 where there is no row
  pc,         \* where each scanner is
  call,       \* the locals of its call of PersistFileProperties
  seen,       \* the calls begun for each key
  matched,    \* the rules those calls brought
  confirmed,  \* the calls for each key that returned true
  disturbed   \* the keys with calls that overlapped, failed or died

history == <<seen, matched, confirmed>>
vars == <<created, table, pc, call, history, disturbed>>

-----------------------------------------------------------------------------
Row == [count : Nat, rules : SUBSET Rule]   \* PrevalenceCount, YaraRulesMatched

Batch   == {"select", "update", "merge", "insert"}
Calling == {"query"} \cup Batch \cup {"return"}
Pc      == {"check", "create", "ready"} \cup Calling

Call == [key : Key, rules : SUBSET Rule, existing : SUBSET Rule,
         count : Nat, affected : Nat]

TypeOK ==
  /\ created \in BOOLEAN
  /\ table \in [Key -> Row]
  /\ pc \in [Scanner -> Pc]
  /\ call \in [Scanner -> Call]
  /\ seen \in [Key -> 0..MaxSightings]
  /\ matched \in [Key -> SUBSET Rule]
  /\ confirmed \in [Key -> Nat]
  /\ disturbed \in SUBSET Key

Init ==
  /\ created = FALSE
  /\ table = [k \in Key |-> [count |-> 0, rules |-> {}]]
  /\ pc = [s \in Scanner |-> "check"]
  /\ call \in [Scanner -> [key : Key, rules : {{}}, existing : {{}}, count : {0}, affected : {0}]]
  /\ seen = [k \in Key |-> 0]
  /\ matched = [k \in Key |-> {}]
  /\ confirmed = [k \in Key |-> 0]
  /\ disturbed = {}

-----------------------------------------------------------------------------
GoTo(s, next) == pc' = [pc EXCEPT ![s] = next]

HasRow(k) == table[k].count # 0

InCall(s, k) == pc[s] \in Calling /\ call[s].key = k

(* The constructor. *)

\* CheckIfTableExists; a query that fails counts as "no table".
CheckIfTableExists(s) ==
  /\ pc[s] = "check"
  /\ \/ created /\ GoTo(s, "ready")
     \/ GoTo(s, "create")
  /\ UNCHANGED <<created, table, call, history, disturbed>>

\* CREATE TABLE fails if another scanner was first; the layer goes on anyway.
CreateTable(s) ==
  /\ pc[s] = "create"
  /\ created' \in {created, TRUE}
  /\ GoTo(s, "ready")
  /\ UNCHANGED <<table, call, history, disturbed>>

(* PersistFileProperties. *)

PersistFileProperties(s) ==
  /\ pc[s] = "ready"
  /\ \E k \in Key, rules \in SUBSET Rule :
       /\ seen[k] < MaxSightings
       /\ call' = [call EXCEPT ![s] = [key |-> k, rules |-> rules, existing |-> {},
                                       count |-> 0, affected |-> 0]]
       /\ GoTo(s, IF rules = {} THEN "select" ELSE "query")
       /\ seen' = [seen EXCEPT ![k] = @ + 1]
       /\ matched' = [matched EXCEPT ![k] = @ \cup rules]
       /\ disturbed' = IF \E t \in Scanner \ {s} : InCall(t, k)
                       THEN disturbed \cup {k} ELSE disturbed
  /\ UNCHANGED <<created, table, confirmed>>

\* Mutant of GetExistingYaraRules: the recorded rules are not looked up.
ForgetExistingYaraRules(s) ==
  /\ pc[s] = "query"
  /\ GoTo(s, "select")
  /\ UNCHANGED <<created, table, call, history, disturbed>>

\* The layer learns nothing of a query that failed: null, as for no rules.
GetExistingYaraRules(s) ==
  LET k == call[s].key IN
  /\ pc[s] = "query"
  /\ \/ /\ created
        /\ call' = [call EXCEPT ![s].existing = table[k].rules]
        /\ UNCHANGED disturbed
     \/ /\ UNCHANGED call
        /\ disturbed' = disturbed \cup {k}
  /\ GoTo(s, "select")
  /\ UNCHANGED <<created, table, history>>

\* SET @PREVALENCECOUNT = ( SELECT ... ) + 1, which is NULL where there is no row.
SelectPrevalenceCount(s) ==
  LET k == call[s].key IN
  /\ pc[s] = "select" /\ created
  /\ IF HasRow(k)
     THEN call' = [call EXCEPT ![s].count = table[k].count + 1] /\ GoTo(s, "update")
     ELSE UNCHANGED call /\ GoTo(s, "insert")
  /\ UNCHANGED <<created, table, history, disturbed>>

\* Mutant of UpdatePrevalenceCount: without the test for matched rules.
UpdateCountAlwaysMerge(s) ==
  LET k == call[s].key IN
  /\ pc[s] = "update"
  /\ table' = [table EXCEPT ![k].count = call[s].count]
  /\ call' = [call EXCEPT ![s].affected = @ + 1]
  /\ GoTo(s, "merge")
  /\ UNCHANGED <<created, history, disturbed>>

UpdatePrevalenceCount(s) ==
  LET k == call[s].key IN
  /\ pc[s] = "update"
  /\ table' = [table EXCEPT ![k].count = call[s].count]
  /\ call' = [call EXCEPT ![s].affected = @ + 1]
  /\ GoTo(s, IF call[s].rules = {} THEN "return" ELSE "merge")
  /\ UNCHANGED <<created, history, disturbed>>

\* The value was put together before the batch was sent.
UpdateYaraRules(s) ==
  LET k == call[s].key IN
  /\ pc[s] = "merge"
  /\ table' = [table EXCEPT ![k].rules = call[s].existing \cup call[s].rules]
  /\ call' = [call EXCEPT ![s].affected = @ + 1]
  /\ GoTo(s, "return")
  /\ UNCHANGED <<created, history, disturbed>>

\* A second INSERT of the same key violates PK_FileProperties.
Insert(s) ==
  LET k == call[s].key IN
  /\ pc[s] = "insert"
  /\ IF HasRow(k)
     THEN UNCHANGED <<table, call>>
     ELSE /\ table' = [table EXCEPT ![k] =
                         [count |-> 1, rules |-> call[s].existing \cup call[s].rules]]
          /\ call' = [call EXCEPT ![s].affected = @ + 1]
  /\ GoTo(s, "return")
  /\ UNCHANGED <<created, history, disturbed>>

\* Mutant of BatchFails: the batch is sent again.
BatchRetried(s) ==
  /\ pc[s] \in Batch
  /\ GoTo(s, "select")
  /\ UNCHANGED <<created, table, call, history, disturbed>>

\* The connection, or a statement, fails: the batch ends there, and with it
\* the count of affected rows.
BatchFails(s) ==
  /\ pc[s] \in Batch
  /\ call' = [call EXCEPT ![s].affected = 0]
  /\ GoTo(s, "return")
  /\ disturbed' = disturbed \cup {call[s].key}
  /\ UNCHANGED <<created, table, history>>

\* Mutant of Return: the number of affected rows is not looked at.
ReturnTrue(s) ==
  /\ pc[s] = "return"
  /\ confirmed' = [confirmed EXCEPT ![call[s].key] = @ + 1]
  /\ GoTo(s, "ready")
  /\ UNCHANGED <<created, table, call, seen, matched, disturbed>>

\* SQLHelper.ExecuteNonQuery: true if the batch affected exactly one row.
Return(s) ==
  LET k == call[s].key IN
  /\ pc[s] = "return"
  /\ confirmed' = IF call[s].affected = 1 THEN [confirmed EXCEPT ![k] = @ + 1] ELSE confirmed
  /\ GoTo(s, "ready")
  /\ UNCHANGED <<created, table, call, seen, matched, disturbed>>

\* The program is closed or killed, and started again later.
Restart(s) ==
  /\ pc[s] # "check"
  /\ GoTo(s, "check")
  /\ disturbed' = IF pc[s] \in Calling THEN disturbed \cup {call[s].key} ELSE disturbed
  /\ UNCHANGED <<created, table, call, history>>

Step(s) ==
  \/ CheckIfTableExists(s) \/ CreateTable(s)
  \/ PersistFileProperties(s) \/ GetExistingYaraRules(s)
  \/ SelectPrevalenceCount(s) \/ UpdatePrevalenceCount(s) \/ UpdateYaraRules(s)
  \/ Insert(s) \/ BatchFails(s) \/ Return(s) \/ Restart(s)

Next == \E s \in Scanner : Step(s)

Spec == Init /\ [][Next]_vars

-----------------------------------------------------------------------------
(* Whatever overlaps, fails or dies, a PrevalenceCount is never more than  *)
(* the number of times the file was seen: a retried or interrupted batch   *)
(* counts nothing twice.                                                   *)
NeverOvercounts ==
  \A k \in Key : table[k].count <= seen[k]

(* Rules of one file are never recorded for another, and a merge invents   *)
(* no name.                                                                *)
OnlyMatchedRules ==
  \A k \in Key : table[k].rules \subseteq matched[k]

(* PersistFileProperties returned true only for files that are in the      *)
(* table: the "OS database rows updated" of the report were.               *)
SuccessIsRecorded ==
  \A k \in Key : confirmed[k] > 0 => HasRow(k)

(* A row is exact, its count the number of sightings and its rules all     *)
(* that matched, unless calls for that very file overlapped or were cut    *)
(* off: calls for other files and orderly restarts never harm it.          *)
Exact(k) == table[k].count = seen[k] /\ table[k].rules = matched[k]

ExactUnlessDisturbed ==
  \A k \in Key : k \in disturbed \/ Exact(k) \/ \E s \in Scanner : InCall(s, k)

(* Merging may lose a rule name to another scanner, but a row that lists   *)
(* matches never goes back to listing none.                                *)
MatchesStayListed ==
  [][\A k \in Key : table[k].rules # {} => table'[k].rules # {}]_vars

-----------------------------------------------------------------------------
(* The inductive invariant.  A call counts its sighting at most once: the  *)
(* count of a row leaves room for the calls that have yet to count.  While *)
(* a call for an undisturbed key is under way it is the only one, and the  *)
(* row is what it was before the call, in part or in whole replaced by     *)
(* what the call will leave.                                               *)
Merged(s) == call[s].existing \cup call[s].rules

CallProgress(s) ==
  LET k == call[s].key  row == table[k]  before == row.count + 1 = seen[k]
                                          growing == row.rules \cup call[s].rules = matched[k]
                                          merging == call[s].rules # {} => Merged(s) = matched[k]
  IN
  /\ pc[s] = "query"  => before /\ growing
  /\ pc[s] = "select" => before /\ growing /\ merging
  /\ pc[s] = "update" => before /\ growing /\ merging /\ call[s].count = seen[k]
  /\ pc[s] = "merge"  => row.count = seen[k] /\ growing /\ merging /\ call[s].rules # {}
  /\ pc[s] = "insert" => before /\ growing /\ merging /\ row.count = 0
  /\ pc[s] = "return" => Exact(k)

\* The calls for k that have not counted their sighting.
Pending(k) == {s \in Scanner : InCall(s, k) /\ pc[s] \in {"query", "select", "update", "insert"}}

BoundedRow(k) ==
  /\ table[k].count + Cardinality(Pending(k)) <= seen[k]
  /\ table[k].rules \subseteq matched[k]
  /\ confirmed[k] > 0 \/ table[k].rules # {} => HasRow(k)

BoundedLocals(s) ==
  LET k == call[s].key IN
  pc[s] \in Calling =>
    /\ call[s].rules \subseteq matched[k] /\ call[s].existing \subseteq matched[k]
    /\ pc[s] = "update" => /\ HasRow(k) /\ call[s].count # 0
                           /\ call[s].count + Cardinality(Pending(k)) <= seen[k] + 1
    /\ pc[s] = "merge" => HasRow(k) /\ call[s].rules # {}
    /\ pc[s] = "return" /\ call[s].affected = 1 => HasRow(k)

Undisturbed(k) ==
  k \in disturbed
    \/ /\ \A s, t \in Scanner : InCall(s, k) /\ InCall(t, k) => s = t
       /\ \A s \in Scanner : InCall(s, k) => CallProgress(s)
       /\ (\A s \in Scanner : ~InCall(s, k)) => Exact(k)

IInv ==
  /\ TypeOK
  /\ \A k \in Key : BoundedRow(k) /\ Undisturbed(k)
  /\ \A s \in Scanner : BoundedLocals(s)

=============================================================================
