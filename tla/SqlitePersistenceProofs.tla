----------------------- MODULE SqlitePersistenceProofs -----------------------
(***************************************************************************)
(* IInv of SqlitePersistence is inductive for any processes, names, keys   *)
(* and rules: its types first, then what a step leaves of the other        *)
(* processes, then its parts one by one.                                   *)
(***************************************************************************)
EXTENDS SqlitePersistence, FiniteSetTheorems, TLAPS

LEMMA AtPlace == ASSUME TypeOK, NEW p \in Process PROVE At(p) \in Place /\ At(p)[1] = name[p]
BY DEF TypeOK, At, Place

LEMMA PendingFinite ==
  \A i : IsFiniteSet(Pending(i)) /\ Cardinality(Pending(i)) \in Nat
BY SqliteAssumption, FS_Subset, FS_CardinalityType DEF Pending

LEMMA InitStep == Init => IInv
<1> SUFFICES ASSUME Init PROVE IInv
  OBVIOUS
<1>1. TypeOK
  BY SqliteAssumption DEF Init, TypeOK, Pc, Name
<1>2. ASSUME NEW i \in Place PROVE BoundedRow(i) /\ Undisturbed(i)
  <2>1. Pending(i) = {}
    BY DEF Init, Pending, InCall, Calling
  <2> QED
    BY <2>1, FS_EmptySet DEF Init, BoundedRow, Undisturbed, InCall, Calling, Exact
<1> QED
  BY <1>1, <1>2 DEF Init, IInv, Held, BoundedLocals, PreparedAlone, Calling, Preparing

-----------------------------------------------------------------------------
(* Types. *)

LEMMA TypeStep == ASSUME IInv, NEW p \in Process, Step(p) PROVE TypeOK'
<1> USE DEF TypeOK, GoTo
<1>0. TypeOK /\ At(p) \in Place
  BY AtPlace DEF IInv
<1>1. CASE FormStarts(p) \/ ConsoleStarts(p)
  <2>1. scans' \in [Process -> 0..MaxScans]
    BY <1>0, <1>1, SqliteAssumption DEF FormStarts, ConsoleStarts, ScanBegins
  <2>2. PICK n \in Name : name' = [name EXCEPT ![p] = n]
    BY <1>1, SqliteAssumption DEF FormStarts, ConsoleStarts, Name
  <2>3. PICK next \in Pc : GoTo(p, next)
    BY <1>1 DEF FormStarts, ConsoleStarts, Pc
  <2> QED
    BY <1>0, <1>1, <2>1, <2>2, <2>3 DEF FormStarts, ConsoleStarts, files, handles, locals, history
<1>2. CASE NextName(p)
  <2>1. name' \in [Process -> Name]
    <3>1. name[p] \in 0..LastName /\ (name[p] < LastName => name[p] + 1 \in 0..LastName)
      BY <1>0, SqliteAssumption DEF Name
    <3> QED
      BY <1>0, <1>2, <3>1 DEF NextName, Name
  <2> QED
    BY <1>0, <1>2, <2>1 DEF NextName, files, handles, locals, history, Pc
<1>11. CASE TestFile(p)
  BY <1>0, <1>11 DEF TestFile, files, handles, locals, history, Pc, Preparing
<1>3. CASE CreateFile(p) \/ DeleteFile(p)
  BY <1>0, <1>3
     DEF CreateFile, DeleteFile, Emptied, files, handles, locals, history, Pc, Preparing
<1>4. CASE CreateTable(p)
  BY <1>0, <1>4 DEF CreateTable, handles, locals, history, Pc, Preparing
<1>5. CASE Persist(p)
  <2>1. PICK k \in Key, matched \in SUBSET Rule :
          /\ key' = [key EXCEPT ![p] = k] /\ rules' = [rules EXCEPT ![p] = matched]
          /\ calls[<<name[p], k>>] < MaxCalls
          /\ calls' = [calls EXCEPT ![<<name[p], k>>] = @ + 1]
          /\ disturbed' \in {disturbed, disturbed \cup {<<name[p], k>>}}
    BY <1>5 DEF Persist
  <2>2. <<name[p], k>> \in Place
    BY <1>0 DEF Place
  <2>3. calls' \in [Place -> 0..MaxCalls]
    BY <1>0, <2>1, <2>2, SqliteAssumption
  <2>4. disturbed' \in SUBSET Place
    BY <1>0, <2>1, <2>2
  <2> QED
    BY <1>0, <1>5, <2>1, <2>3, <2>4 DEF Persist, Pc, Calling
<1>6. CASE GetPrevalenceCount(p)
  BY <1>0, <1>6 DEF GetPrevalenceCount, files, handles, history, Pc, Calling
<1>7. CASE InsertRow(p) \/ UpdatePrevalenceCount(p)
  <2>1. row' \in [Place -> Nat] /\ listed' \in [Place -> SUBSET Rule]
    BY <1>0, <1>7 DEF InsertRow, UpdatePrevalenceCount
  <2> QED
    BY <1>0, <1>7, <2>1 DEF InsertRow, UpdatePrevalenceCount, handles, locals, history, Pc, Calling
<1>8. CASE Return(p)
  <2>1. confirmed' \in [Place -> Nat] /\ hits' \in [Place -> SUBSET Rule]
    BY <1>0, <1>8 DEF Return
  <2> QED
    BY <1>0, <1>8, <2>1 DEF Return, files, handles, locals, Pc
<1>9. CASE StatementFails(p) \/ Cancelled(p) \/ Finish(p)
  <2>1. PICK mayLeak \in BOOLEAN : Abandon(p, mayLeak)
    BY <1>9 DEF StatementFails, Cancelled, Finish
  <2>2. disturbed' \in SUBSET Place
    BY <1>0, <2>1 DEF Abandon, Disturb
  <2> QED
    BY <1>0, <2>1, <2>2 DEF Abandon, files, locals, Pc
<1>10. CASE Collect(p) \/ Die(p)
  <2>1. disturbed' \in SUBSET Place
    BY <1>0, <1>10 DEF Collect, Die, Disturb, history
  <2> QED
    BY <1>0, <1>10, <2>1 DEF Collect, Die, files, locals, history, Pc
<1> QED
  BY <1>1, <1>2, <1>3, <1>4, <1>5, <1>6, <1>7, <1>8, <1>9, <1>10, <1>11 DEF Step

-----------------------------------------------------------------------------
(* What a step leaves as it was. *)

Begins(p)   == FormStarts(p) \/ ConsoleStarts(p) \/ NextName(p) \/ TestFile(p)
Replaces(p) == (CreateFile(p) \/ DeleteFile(p)) /\ ~Open(name[p])
GivesUp(p)  == (CreateFile(p) \/ DeleteFile(p)) /\ Open(name[p])
Ends(p)     == StatementFails(p) \/ Cancelled(p) \/ Finish(p) \/ Die(p)
Writes(p)   == InsertRow(p) \/ UpdatePrevalenceCount(p)

LEMMA StepCases ==
  ASSUME NEW p \in Process, Step(p)
  PROVE  \/ Begins(p) \/ Replaces(p) \/ GivesUp(p) \/ CreateTable(p) \/ Persist(p)
         \/ GetPrevalenceCount(p) \/ Writes(p) \/ Return(p) \/ Ends(p) \/ Collect(p)
BY DEF Step, Begins, Replaces, GivesUp, Ends, Writes

\* The variables that a step of each kind does not change.
LEMMA Frames ==
  ASSUME NEW p \in Process
  PROVE  /\ Begins(p) => /\ UNCHANGED <<files, handles, locals, history>>
                         /\ pc[p] \notin Calling \cup Preparing \cup {"ready"}
                         /\ ~TestFile(p) => UNCHANGED raced
         /\ Replaces(p) => UNCHANGED <<name, handles, locals, scans, history, raced>>
         /\ GivesUp(p) => UNCHANGED <<files, name, handles, locals, scans, history, raced>>
         /\ CreateTable(p) => UNCHANGED <<row, listed, name, handles, locals, scans, history, raced>>
         /\ Persist(p) => UNCHANGED <<tables, row, listed, name, leaked, count, scans, confirmed, hits, raced>>
         /\ GetPrevalenceCount(p) => UNCHANGED <<files, name, handles, key, rules, scans, history, raced>>
         /\ Writes(p) => UNCHANGED <<existing, tables, name, handles, locals, scans, history, raced>>
         /\ Return(p) => UNCHANGED <<files, name, handles, locals, scans, calls, disturbed, raced>>
         /\ Ends(p) => /\ UNCHANGED <<files, name, locals, scans, calls, confirmed, hits, raced>>
                       /\ Disturb(p) /\ connected' = connected \ {p} /\ GoTo(p, "idle")
         /\ Collect(p) => UNCHANGED <<files, pc, name, connected, locals, scans, history, raced>>
<1>1. Begins(p) => /\ UNCHANGED <<files, handles, locals, history>>
                   /\ pc[p] \notin Calling \cup Preparing \cup {"ready"}
                   /\ ~TestFile(p) => UNCHANGED raced
  BY DEF Begins, FormStarts, ConsoleStarts, ScanBegins, NextName, TestFile, Calling, Preparing
<1>2. Ends(p) => /\ UNCHANGED <<files, name, locals, scans, calls, confirmed, hits, raced>>
                 /\ Disturb(p) /\ connected' = connected \ {p} /\ GoTo(p, "idle")
  BY DEF Ends, StatementFails, Cancelled, Finish, Die, Abandon
<1> QED
  BY <1>1, <1>2
     DEF Replaces, GivesUp, Writes, CreateFile, DeleteFile, Emptied, CreateTable, Persist,
         GetPrevalenceCount, InsertRow, UpdatePrevalenceCount, Return, Collect

\* A process is not touched by the steps of another.
LEMMA OthersKeep ==
  ASSUME IInv, NEW p \in Process, Step(p), NEW q \in Process, q # p
  PROVE  /\ pc'[q] = pc[q] /\ name'[q] = name[q] /\ key'[q] = key[q] /\ count'[q] = count[q]
         /\ q \in connected' <=> q \in connected
         /\ At(q)' = At(q)
<1> USE DEF IInv, TypeOK, GoTo
<1>1. pc'[q] = pc[q] /\ name'[q] = name[q]
  <2>1. CASE Begins(p)
    BY <2>1 DEF Begins, FormStarts, ConsoleStarts, NextName, TestFile
  <2>2. CASE CreateFile(p) \/ DeleteFile(p) \/ CreateTable(p) \/ Persist(p)
    BY <2>2 DEF CreateFile, DeleteFile, CreateTable, Persist
  <2>3. CASE GetPrevalenceCount(p) \/ Writes(p) \/ Return(p) \/ Collect(p)
    BY <2>3 DEF GetPrevalenceCount, Writes, InsertRow, UpdatePrevalenceCount, Return, Collect
  <2>4. CASE Ends(p)
    BY <2>4, Frames
  <2> QED
    BY <2>1, <2>2, <2>3, <2>4, StepCases DEF Replaces, GivesUp
<1>2. key'[q] = key[q] /\ count'[q] = count[q]
  <2>1. CASE Persist(p)
    BY <2>1 DEF Persist
  <2>2. CASE GetPrevalenceCount(p)
    BY <2>2 DEF GetPrevalenceCount
  <2> QED
    BY <2>1, <2>2, StepCases, Frames DEF locals
<1>3. q \in connected' <=> q \in connected
  BY StepCases, Frames DEF handles, Persist
<1> QED
  BY <1>1, <1>2, <1>3 DEF At

\* What a step makes of its own process.
LEMMA OwnPc ==
  ASSUME IInv, NEW p \in Process, Step(p)
  PROVE  /\ Begins(p) => pc'[p] \in {"naming", "test", "create", "ready"}
         /\ Replaces(p) => pc[p] \in Preparing /\ pc'[p] \in {"table", "ready"}
         /\ GivesUp(p) => pc[p] \in Preparing /\ pc'[p] = "idle"
         /\ CreateTable(p) => pc[p] = "table" /\ pc'[p] \in {"ready", "delete"}
         /\ Persist(p) => pc[p] = "ready" /\ pc'[p] = "select"
         /\ GetPrevalenceCount(p) => pc[p] = "select" /\ pc'[p] \in {"insert", "merge", "update"}
         /\ Writes(p) => pc[p] \in {"insert", "update"} /\ pc'[p] = "return"
         /\ Return(p) => pc[p] = "return" /\ pc'[p] = "ready"
         /\ Ends(p) => pc'[p] = "idle"
<1> USE DEF IInv, TypeOK, GoTo
<1>1. Begins(p) => pc'[p] \in {"naming", "test", "create", "ready"}
  BY DEF Begins, FormStarts, ConsoleStarts, ScanBegins, NextName, TestFile
<1>2. Ends(p) => pc'[p] = "idle"
  BY Frames
<1>3. /\ Replaces(p) => pc[p] \in Preparing /\ pc'[p] \in {"table", "ready"}
      /\ GivesUp(p) => pc[p] \in Preparing /\ pc'[p] = "idle"
      /\ CreateTable(p) => pc[p] = "table" /\ pc'[p] \in {"ready", "delete"}
  BY DEF Replaces, GivesUp, CreateFile, DeleteFile, CreateTable, Preparing
<1>4. /\ Persist(p) => pc[p] = "ready" /\ pc'[p] = "select"
      /\ GetPrevalenceCount(p) => pc[p] = "select" /\ pc'[p] \in {"insert", "merge", "update"}
      /\ Writes(p) => pc[p] \in {"insert", "update"} /\ pc'[p] = "return"
      /\ Return(p) => pc[p] = "return" /\ pc'[p] = "ready"
  BY DEF Persist, GetPrevalenceCount, Writes, InsertRow, UpdatePrevalenceCount, Return
<1> QED
  BY <1>1, <1>2, <1>3, <1>4

-----------------------------------------------------------------------------
(* Files that are open keep their table. *)

LEMMA TablesStep ==
  ASSUME IInv, NEW p \in Process, Step(p)
  PROVE  /\ tables' \subseteq existing'
         /\ \A n \in Name : n \in tables /\ n \notin tables' => ~Open(n) /\ Replaces(p) /\ name[p] = n
         /\ \A n \in Name : n \notin tables /\ n \in tables' => CreateTable(p) /\ name[p] = n /\ pc'[p] = "ready"
<1> USE DEF IInv, TypeOK
<1>1. CASE Replaces(p)
  BY <1>1 DEF Replaces, CreateFile, DeleteFile, Emptied
<1>2. CASE CreateTable(p)
  BY <1>2 DEF CreateTable, GoTo
<1>3. CASE Persist(p)
  BY <1>3 DEF Persist
<1>4. CASE ~Replaces(p) /\ ~CreateTable(p) /\ ~Persist(p)
  BY <1>4, StepCases, Frames DEF files
<1> QED
  BY <1>1, <1>2, <1>3, <1>4

LEMMA HeldStep ==
  ASSUME IInv, NEW p \in Process, Step(p), NEW q \in Process
  PROVE  Held(q)'
<1>1. Held(q) /\ TypeOK
  BY DEF IInv
<1>2. q \in connected /\ name[q] \in tables => name[q] \in tables'
  BY <1>1, TablesStep DEF Open, TypeOK
<1>3. CASE q # p
  BY <1>1, <1>2, <1>3, OthersKeep DEF Held, Calling
<1>4. CASE q = p
  <2>1. CASE Begins(p) \/ Replaces(p) \/ GivesUp(p) \/ CreateTable(p)
    BY <1>1, <1>4, <2>1, OwnPc, Frames DEF Held, handles, Calling, Preparing
  <2>2. CASE Persist(p)
    BY <1>1, <1>4, <2>2, OwnPc DEF Held, Persist, Calling
  <2>3. CASE GetPrevalenceCount(p) \/ Writes(p) \/ Return(p)
    <3>1. UNCHANGED <<tables, name, connected>>
      BY <2>3, Frames DEF files, handles
    <3>2. pc[p] \in Calling /\ pc'[p] \in {"ready"} \cup Calling
      BY <2>3, OwnPc DEF Calling
    <3>3. name[p] \in tables
      <4>1. CASE GetPrevalenceCount(p)
        BY <4>1 DEF GetPrevalenceCount
      <4>2. CASE ~GetPrevalenceCount(p)
        BY <1>1, <1>4, <2>3, <4>2, OwnPc DEF Held, Calling
      <4> QED
        BY <4>1, <4>2
    <3> QED
      BY <1>1, <1>4, <3>1, <3>2, <3>3 DEF Held
  <2>4. CASE Ends(p)
    BY <1>4, <2>4, OwnPc, Frames DEF Held, Calling
  <2>5. CASE Collect(p)
    BY <1>1, <1>2, <1>4, <2>5, Frames DEF Held, files
  <2> QED
    BY <2>1, <2>2, <2>3, <2>4, <2>5, StepCases
<1> QED
  BY <1>3, <1>4

LEMMA PreparedStep ==
  ASSUME IInv, NEW p \in Process, Step(p), NEW n \in Name
  PROVE  PreparedAlone(n)'
<1>1. TypeOK /\ PreparedAlone(n) /\ raced \subseteq raced'
  BY StepCases, Frames DEF IInv, Begins, TestFile, FormStarts, ConsoleStarts, NextName
<1> SUFFICES ASSUME n \notin raced',
                    NEW q \in Process, pc'[q] \in Preparing, name'[q] = n
             PROVE  /\ n \notin tables'
                    /\ \A r \in Process : pc'[r] \in Preparing /\ name'[r] = n => q = r
  BY DEF PreparedAlone
<1>2. \A r \in Process : pc[r] \in Preparing /\ name[r] = n =>
        n \notin tables /\ \A t \in Process : pc[t] \in Preparing /\ name[t] = n => r = t
  BY <1>1 DEF PreparedAlone
<1>3. CASE TestFile(p) /\ name[p] = n /\ pc'[p] \in Preparing
  <2>1. n \notin existing /\ \A r \in Process \ {p} : ~(name[r] = n /\ pc[r] \in Preparing)
    BY <1>1, <1>3 DEF TestFile, GoTo, TypeOK, Preparing
  <2>2. n \notin tables'
    BY <1>3, <2>1 DEF IInv, TestFile, files
  <2>3. \A r \in Process : pc'[r] \in Preparing /\ name'[r] = n => r = p
    BY <2>1, OthersKeep
  <2> QED
    BY <2>2, <2>3
<1>4. CASE ~(TestFile(p) /\ name[p] = n /\ pc'[p] \in Preparing)
  <2>1. \A r \in Process : pc'[r] \in Preparing /\ name'[r] = n => pc[r] \in Preparing /\ name[r] = n
    <3>1. CASE Begins(p)
      <4>1. pc'[p] \in Preparing => TestFile(p) /\ name'[p] = name[p]
        BY <1>1, <3>1 DEF Begins, FormStarts, ConsoleStarts, NextName, TestFile, GoTo, TypeOK, Preparing,
                          ScanBegins
      <4> QED
        BY <1>4, <4>1, OthersKeep
    <3>2. CASE Collect(p)
      BY <3>2, Frames
    <3>3. CASE ~Begins(p) /\ ~Collect(p)
      <4>1. pc'[p] \in Preparing => pc[p] \in Preparing /\ name'[p] = name[p]
        BY <3>3, StepCases, OwnPc, Frames DEF Preparing
      <4> QED
        BY <4>1, OthersKeep
    <3> QED
      BY <3>1, <3>2, <3>3
  <2>2. pc[q] \in Preparing /\ name[q] = n
    BY <2>1
  <2>3. n \notin tables'
    <3>1. n \in tables' => CreateTable(p) /\ name[p] = n /\ pc'[p] = "ready"
      BY <1>2, <2>2, TablesStep
    <3>2. CreateTable(p) => pc[p] \in Preparing
      BY OwnPc DEF Preparing
    <3>3. n \in tables' => q = p
      BY <1>2, <2>2, <3>1, <3>2
    <3> QED
      BY <3>1, <3>3 DEF Preparing
  <2> QED
    BY <1>2, <2>1, <2>2, <2>3
<1> QED
  BY <1>3, <1>4
-----------------------------------------------------------------------------
(* What holds of every row. *)

\* The place of a call changes only as the call begins.
LEMMA PlaceKept ==
  ASSUME IInv, NEW p \in Process, Step(p)
  PROVE  /\ pc'[p] \in Calling /\ ~Persist(p) => pc[p] \in Calling /\ At(p)' = At(p)
         /\ Persist(p) => /\ At(p)' \in Place
                          /\ calls' = [calls EXCEPT ![At(p)'] = @ + 1]
                          /\ \A q \in Process \ {p}, i \in Place :
                               At(p)' = i /\ InCall(q, i) => i \in disturbed'
<1> USE DEF IInv, TypeOK, GoTo
<1>1. CASE Persist(p)
  <2>1. PICK k \in Key :
          /\ key' = [key EXCEPT ![p] = k]
          /\ calls' = [calls EXCEPT ![<<name[p], k>>] = @ + 1]
          /\ disturbed' = IF \E q \in Process \ {p} : InCall(q, <<name[p], k>>)
                          THEN disturbed \cup {<<name[p], k>>} ELSE disturbed
          /\ name' = name
    BY <1>1 DEF Persist
  <2>2. At(p)' = <<name[p], k>>
    BY <2>1 DEF At
  <2>3. At(p)' \in Place
    BY <2>2 DEF Place
  <2>4. calls' = [calls EXCEPT ![At(p)'] = @ + 1]
    BY <2>1, <2>2
  <2>5. \A q \in Process \ {p}, i \in Place : At(p)' = i /\ InCall(q, i) => i \in disturbed'
    <3> SUFFICES ASSUME NEW q \in Process \ {p}, NEW i \in Place, At(p)' = i, InCall(q, i)
                 PROVE  i \in disturbed'
      OBVIOUS
    <3>1. InCall(q, <<name[p], k>>) /\ i = <<name[p], k>>
      BY <2>2
    <3> QED
      BY <2>1, <3>1
  <2> QED
    BY <1>1, <2>3, <2>4, <2>5
<1>2. CASE ~Persist(p) /\ pc'[p] \in Calling
  <2>1. GetPrevalenceCount(p) \/ Writes(p) \/ (Collect(p) /\ pc[p] \in Calling)
    BY <1>2, StepCases, OwnPc, Frames DEF Calling
  <2> QED
    BY <1>2, <2>1, OwnPc, Frames DEF At, Calling, locals
<1> QED
  BY <1>1, <1>2

\* How a step changes the calls that have yet to count.
LEMMA PendingStep ==
  ASSUME IInv, NEW p \in Process, Step(p), NEW i \in Place
  PROVE  /\ IsFiniteSet(Pending(i)') /\ Cardinality(Pending(i)') \in Nat
         /\ Cardinality(Pending(i)') + calls[i] <= Cardinality(Pending(i)) + calls'[i]
         /\ Writes(p) /\ At(p) = i =>
              /\ Cardinality(Pending(i)') + 1 = Cardinality(Pending(i)) /\ calls'[i] = calls[i]
<1>1. IsFiniteSet(Pending(i)) /\ Cardinality(Pending(i)) \in Nat /\ calls[i] \in Nat
  BY PendingFinite DEF IInv, TypeOK
<1>2. IsFiniteSet(Pending(i)') /\ Cardinality(Pending(i)') \in Nat
  <2>1. Pending(i)' \in SUBSET Process
    BY DEF Pending
  <2> QED
    BY <2>1, SqliteAssumption, FS_Subset, FS_CardinalityType
<1>3. \A q \in Process : q # p => (q \in Pending(i)' <=> q \in Pending(i))
  BY OthersKeep DEF Pending, InCall
<1>4. CASE Persist(p)
  <2>1. p \notin Pending(i)
    BY <1>4, OwnPc DEF Pending, InCall, Calling
  <2>2. CASE At(p)' = i
    <3>1. calls'[i] = calls[i] + 1
      BY <1>4, <2>2, PlaceKept DEF IInv, TypeOK
    <3>2. Pending(i)' \subseteq Pending(i) \cup {p}
      BY <1>3 DEF Pending
    <3>3. Cardinality(Pending(i) \cup {p}) = Cardinality(Pending(i)) + 1 /\ IsFiniteSet(Pending(i) \cup {p})
      BY <1>1, <2>1, FS_AddElement
    <3>4. Cardinality(Pending(i)') <= Cardinality(Pending(i)) + 1
      BY <3>2, <3>3, FS_Subset
    <3> QED
      BY <1>1, <1>2, <1>4, <3>1, <3>4, OwnPc DEF Writes, InsertRow, UpdatePrevalenceCount
  <2>3. CASE At(p)' # i
    <3>1. calls'[i] = calls[i]
      BY <1>4, <2>3, PlaceKept DEF IInv, TypeOK
    <3>2. Pending(i)' \subseteq Pending(i)
      BY <1>3, <2>3 DEF Pending, InCall
    <3>3. Cardinality(Pending(i)') <= Cardinality(Pending(i))
      BY <1>1, <3>2, FS_Subset
    <3> QED
      BY <1>1, <1>2, <1>4, <3>1, <3>3, OwnPc DEF Writes, InsertRow, UpdatePrevalenceCount
  <2> QED
    BY <2>2, <2>3
<1>5. CASE ~Persist(p)
  <2>1. calls' = calls
    BY <1>5, StepCases, Frames DEF history
  <2>2. p \in Pending(i)' => p \in Pending(i)
    <3>1. SUFFICES ASSUME pc'[p] \in Calling, At(p)' = i, pc'[p] # "return"
                   PROVE  pc[p] \in Calling /\ At(p) = i /\ pc[p] # "return"
      BY DEF Pending, InCall
    <3>2. pc[p] \in Calling /\ At(p) = i
      BY <1>5, <3>1, PlaceKept
    <3>3. pc[p] # "return"
      BY <1>5, <3>1, StepCases, OwnPc, Frames DEF Calling
    <3> QED
      BY <3>2, <3>3
  <2>3. Pending(i)' \subseteq Pending(i)
    BY <1>3, <2>2 DEF Pending
  <2>4. Cardinality(Pending(i)') <= Cardinality(Pending(i))
    BY <1>1, <2>3, FS_Subset
  <2>5. Writes(p) /\ At(p) = i => Cardinality(Pending(i)') + 1 = Cardinality(Pending(i))
    <3> SUFFICES ASSUME Writes(p), At(p) = i
                 PROVE  Cardinality(Pending(i)') + 1 = Cardinality(Pending(i))
      OBVIOUS
    <3>1. p \in Pending(i) /\ p \notin Pending(i)'
      BY OwnPc DEF Pending, InCall, Calling
    <3>2. Pending(i)' = Pending(i) \ {p}
      BY <1>3, <3>1 DEF Pending
    <3> QED
      BY <1>1, <1>2, <3>1, <3>2, FS_RemoveElement
  <2> QED
    BY <1>1, <1>2, <2>1, <2>4, <2>5
<1> QED
  BY <1>4, <1>5
\* What a step makes of a row.
LEMMA RowStep ==
  ASSUME IInv, NEW p \in Process, Step(p), NEW i \in Place
  PROVE  /\ Replaces(p) => row'[i] = IF i[1] = name[p] THEN 0 ELSE row[i]
         /\ Writes(p) => row'[i] = IF i = At(p) THEN row[i]' ELSE row[i]
         /\ Writes(p) /\ i = At(p) =>
              /\ pc[p] = "insert" => row'[i] = 1 /\ row[i] = 0
              /\ pc[p] = "update" => row'[i] = count[p] + 1
         /\ ~Replaces(p) /\ ~Writes(p) => row'[i] = row[i]
<1> USE DEF IInv, TypeOK
<1>1. Replaces(p) => row'[i] = IF i[1] = name[p] THEN 0 ELSE row[i]
  BY DEF Replaces, CreateFile, DeleteFile, Emptied
<1>2. Writes(p) => row'[i] = IF i = At(p) THEN row[i]' ELSE row[i]
  BY DEF Writes, InsertRow, UpdatePrevalenceCount
<1>3. Writes(p) /\ i = At(p) => /\ pc[p] = "insert" => row'[i] = 1 /\ row[i] = 0
                                /\ pc[p] = "update" => row'[i] = count[p] + 1
  BY DEF Writes, InsertRow, UpdatePrevalenceCount
<1>4. ~Replaces(p) /\ ~Writes(p) => row' = row
  BY StepCases, Frames DEF files
<1> QED
  BY <1>1, <1>2, <1>3, <1>4

LEMMA BoundedRowStep ==
  ASSUME IInv, NEW p \in Process, Step(p), NEW i \in Place
  PROVE  BoundedRow(i)'
<1>1. /\ BoundedRow(i) /\ row[i] \in Nat /\ calls[i] \in Nat /\ confirmed[i] \in Nat
      /\ TypeOK /\ TypeOK' /\ Held(p) /\ BoundedLocals(p)
  BY TypeStep DEF IInv, TypeOK
<1>2. row'[i] \in Nat /\ calls'[i] \in Nat /\ At(p) \in Place /\ At(p)[1] = name[p]
  BY <1>1, AtPlace DEF TypeOK
<1>3. Cardinality(Pending(i)) \in Nat /\ Cardinality(Pending(i)') \in Nat
  BY PendingFinite, PendingStep
<1>4. row'[i] + Cardinality(Pending(i)') <= calls'[i]
  <2>1. CASE Writes(p) /\ i = At(p)
    <3>1. Cardinality(Pending(i)') + 1 = Cardinality(Pending(i)) /\ calls'[i] = calls[i]
      BY <2>1, PendingStep
    <3>2. CASE pc[p] = "insert"
      BY <1>1, <1>3, <2>1, <3>1, <3>2, RowStep DEF BoundedRow
    <3>3. CASE pc[p] = "update"
      <4>1. count[p] \in Nat /\ count[p] + Cardinality(Pending(i)) <= calls[i]
        BY <1>1, <2>1, <3>3 DEF BoundedLocals, TypeOK
      <4> QED
        BY <1>1, <1>3, <2>1, <3>1, <3>3, <4>1, RowStep
    <3> QED
      BY <2>1, <3>2, <3>3, OwnPc
  <2>2. CASE ~(Writes(p) /\ i = At(p))
    <3>1. row'[i] <= row[i]
      BY <1>1, <1>2, <2>2, RowStep
    <3>2. Cardinality(Pending(i)') + calls[i] <= Cardinality(Pending(i)) + calls'[i]
      BY PendingStep
    <3> QED
      BY <1>1, <1>2, <1>3, <3>1, <3>2 DEF BoundedRow
  <2> QED
    BY <2>1, <2>2
<1>5. row'[i] > 0 => i[1] \in tables'
  <2>0. i[1] \in Name
    BY DEF Place
  <2>1. CASE Writes(p) /\ i = At(p)
    BY <1>1, <1>2, <2>1, OwnPc, Frames DEF Held, Calling
  <2>2. CASE ~(Writes(p) /\ i = At(p))
    BY <1>1, <2>0, <2>2, RowStep, TablesStep DEF BoundedRow
  <2> QED
    BY <2>1, <2>2
<1>6. i[1] \notin raced' /\ confirmed'[i] > 0 => row'[i] > 0
  <2> SUFFICES ASSUME i[1] \notin raced', confirmed'[i] > 0
               PROVE  row'[i] > 0
    OBVIOUS
  <2>0. i[1] \notin raced
    BY StepCases, Frames DEF Begins, TestFile, FormStarts, ConsoleStarts, NextName
  <2>1. CASE Return(p)
    <3>1. row[At(p)] > 0 /\ UNCHANGED row
      BY <1>1, <2>1, OwnPc, Frames DEF BoundedLocals, files
    <3>2. CASE i = At(p)
      BY <3>1, <3>2
    <3>3. CASE i # At(p)
      BY <1>1, <2>0, <2>1, <3>1, <3>3 DEF Return, BoundedRow, TypeOK
    <3> QED
      BY <3>2, <3>3
  <2>2. CASE ~Return(p)
    <3>1. confirmed' = confirmed
      BY <2>2, StepCases, Frames DEF history
    <3>2. row[i] > 0
      BY <1>1, <2>0, <3>1 DEF BoundedRow
    <3>3. CASE Replaces(p)
      <4>1. i[1] \in tables /\ i[1] \in Name
        BY <1>1, <3>2 DEF BoundedRow, Place
      <4>2. PreparedAlone(i[1]) /\ pc[p] \in Preparing
        BY <3>3, <4>1, OwnPc DEF IInv
      <4>3. i[1] # name[p]
        BY <2>0, <4>1, <4>2 DEF PreparedAlone
      <4> QED
        BY <3>2, <3>3, <4>3, RowStep
    <3>4. CASE Writes(p) /\ i = At(p)
      BY <1>1, <3>4, OwnPc, RowStep DEF TypeOK
    <3>5. CASE ~Replaces(p) /\ ~(Writes(p) /\ i = At(p))
      BY <3>2, <3>5, RowStep
    <3> QED
      BY <3>3, <3>4, <3>5
  <2> QED
    BY <2>1, <2>2
<1> QED
  BY <1>4, <1>5, <1>6 DEF BoundedRow

LEMMA BoundedLocalsStep ==
  ASSUME IInv, NEW p \in Process, Step(p), NEW q \in Process
  PROVE  BoundedLocals(q)'
<1>1. /\ TypeOK /\ BoundedLocals(q) /\ Held(q) /\ At(q) \in Place /\ At(q)[1] = name[q]
      /\ count[q] \in Nat /\ calls[At(q)] \in Nat
  BY AtPlace DEF IInv, TypeOK
<1>2. calls'[At(q)] \in Nat
  BY <1>1, TypeStep DEF TypeOK
<1>3. CASE q # p
  <2>1. pc'[q] = pc[q] /\ count'[q] = count[q] /\ At(q)' = At(q)
    BY <1>3, OthersKeep
  <2>2. ASSUME pc[q] \in {"merge", "update"}
        PROVE  count[q] + Cardinality(Pending(At(q))') <= calls'[At(q)]
    <3>1. PICK i \in Place : i = At(q)
      BY <1>1
    <3>2. count[q] + Cardinality(Pending(i)) <= calls[i] /\ calls[i] \in Nat /\ calls'[i] \in Nat
      BY <1>1, <1>2, <2>2, <3>1 DEF BoundedLocals
    <3>3. /\ Cardinality(Pending(i)) \in Nat /\ Cardinality(Pending(i)') \in Nat
          /\ Cardinality(Pending(i)') + calls[i] <= Cardinality(Pending(i)) + calls'[i]
      BY PendingFinite, PendingStep
    <3>4. count[q] + Cardinality(Pending(i)') <= calls'[i]
      BY <1>1, <3>2, <3>3
    <3>5. Pending(At(q))' = Pending(i)'
      BY <2>1, <3>1 DEF Pending
    <3> QED
      BY <2>1, <3>1, <3>4, <3>5
  <2>3. ASSUME pc[q] = "return"
        PROVE  row'[At(q)] > 0
    <3>1. row[At(q)] > 0 /\ q \in connected
      BY <1>1, <2>3 DEF BoundedLocals, Held, Calling
    <3>2. CASE Replaces(p)
      <4>1. name[q] # name[p]
        BY <3>1, <3>2 DEF Replaces, Open
      <4> QED
        BY <1>1, <3>1, <3>2, <4>1, RowStep
    <3>3. CASE Writes(p) /\ At(q) = At(p)
      BY <1>1, <3>3, OwnPc, RowStep DEF IInv, TypeOK
    <3>4. CASE ~Replaces(p) /\ ~(Writes(p) /\ At(q) = At(p))
      BY <1>1, <3>1, <3>4, RowStep
    <3> QED
      BY <3>2, <3>3, <3>4
  <2> QED
    BY <2>1, <2>2, <2>3 DEF BoundedLocals
<1>4. CASE q = p
  <2>1. CASE GetPrevalenceCount(p)
    <3>1. /\ pc[p] = "select" /\ pc'[p] # "return" /\ At(p)' = At(p) /\ row' = row
          /\ count'[p] = row[At(p)]
      BY <1>1, <1>4, <2>1, OwnPc, Frames DEF GetPrevalenceCount, At, files, TypeOK
    <3>2. PICK i \in Place : i = At(p)
      BY <1>1, <1>4
    <3>3. row'[i] + Cardinality(Pending(i)') <= calls'[i]
      BY BoundedRowStep DEF BoundedRow
    <3>4. Pending(At(p))' = Pending(i)'
      BY <3>1, <3>2 DEF Pending
    <3> QED
      BY <1>4, <3>1, <3>2, <3>3, <3>4 DEF BoundedLocals
  <2>2. CASE Writes(p)
    <3>1. pc'[p] = "return" /\ At(p)' = At(p) /\ pc[p] \in {"insert", "update"}
      BY <2>2, OwnPc, Frames DEF At, locals
    <3>2. row'[At(p)] > 0
      BY <1>1, <1>4, <2>2, <3>1, RowStep
    <3> QED
      BY <1>4, <3>1, <3>2 DEF BoundedLocals
  <2>3. CASE Collect(p)
    <3>1. UNCHANGED <<row, pc, name, key, count, calls>>
      BY <2>3, Frames DEF files, locals, history
    <3>2. Pending(At(p))' = Pending(At(p)) /\ At(p)' = At(p)
      BY <3>1 DEF Pending, InCall, At
    <3> QED
      BY <1>1, <1>4, <3>1, <3>2 DEF BoundedLocals
  <2>4. CASE ~GetPrevalenceCount(p) /\ ~Writes(p) /\ ~Collect(p)
    <3>1. pc'[p] \notin {"merge", "update", "return"}
      BY <2>4, StepCases, OwnPc
    <3> QED
      BY <1>4, <3>1 DEF BoundedLocals
  <2> QED
    BY <2>1, <2>2, <2>3, <2>4
<1> QED
  BY <1>3, <1>4
-----------------------------------------------------------------------------
(* What holds of the rows that nothing disturbed. *)

\* A file made alone had no rows, so making it changes none.
LEMMA RowKept ==
  ASSUME IInv, NEW p \in Process, Step(p), NEW i \in Place, i[1] \notin raced',
         ~(Writes(p) /\ At(p) = i)
  PROVE  row'[i] = row[i]
<1>1. i[1] \notin raced
  BY StepCases, Frames DEF Begins, TestFile, FormStarts, ConsoleStarts, NextName
<1>2. CASE Replaces(p) /\ i[1] = name[p]
  <2>1. PreparedAlone(i[1]) /\ pc[p] \in Preparing /\ BoundedRow(i) /\ row[i] \in Nat
    BY <1>2, OwnPc DEF IInv, TypeOK, Place
  <2>2. i[1] \notin tables
    BY <1>1, <1>2, <2>1 DEF PreparedAlone
  <2> QED
    BY <1>2, <2>1, <2>2, RowStep DEF BoundedRow
<1>3. CASE ~(Replaces(p) /\ i[1] = name[p])
  BY <1>3, RowStep
<1> QED
  BY <1>2, <1>3

\* A step outside the calls for i leaves its counts.
LEMMA OtherPlaceKept ==
  ASSUME IInv, NEW p \in Process, Step(p), NEW i \in Place, ~InCall(p, i), ~InCall(p, i)'
  PROVE  calls'[i] = calls[i] /\ confirmed'[i] = confirmed[i]
<1> USE DEF IInv, TypeOK
<1>1. CASE Persist(p)
  <2>1. At(p)' # i
    BY <1>1, OwnPc DEF InCall, Calling
  <2> QED
    BY <1>1, <2>1, PlaceKept, Frames
<1>2. CASE Return(p)
  <2>1. At(p) # i
    BY <1>2, OwnPc DEF InCall, Calling
  <2> QED
    BY <1>2, <2>1 DEF Return
<1>3. CASE ~Persist(p) /\ ~Return(p)
  BY <1>3, StepCases, Frames DEF history
<1> QED
  BY <1>1, <1>2, <1>3

\* The only call for an undisturbed i goes on, or ends.
LEMMA CallStep ==
  ASSUME IInv, NEW p \in Process, Step(p), NEW i \in Place, i \notin disturbed', i[1] \notin raced',
         InCall(p, i), Progress(p, i)
  PROVE  IF InCall(p, i)' THEN Progress(p, i)' ELSE Exact(i)'
<1>1. /\ At(p) = i /\ pc[p] \in Calling /\ TypeOK /\ BoundedRow(i) /\ BoundedLocals(p)
      /\ row[i] \in Nat /\ calls[i] \in Nat /\ confirmed[i] \in Nat
  BY DEF IInv, TypeOK, InCall
<1>2. CASE GetPrevalenceCount(p)
  <2>1. /\ UNCHANGED <<row, calls, confirmed>> /\ count'[p] = row[i] /\ pc[p] = "select"
        /\ pc'[p] \in {"insert", "merge", "update"} /\ (pc'[p] = "insert" <=> row[i] = 0)
        /\ At(p)' = i
    BY <1>1, <1>2, OwnPc, Frames DEF GetPrevalenceCount, GoTo, TypeOK, files, history, At
  <2> QED
    BY <1>1, <2>1 DEF InCall, Progress, Calling
<1>3. CASE Writes(p)
  <2>1. /\ UNCHANGED <<calls, confirmed>> /\ pc'[p] = "return" /\ pc[p] \in {"insert", "update"}
        /\ At(p)' = i
    BY <1>1, <1>3, OwnPc, Frames DEF history, locals, At
  <2>2. row'[i] = row[i] + 1
    BY <1>1, <1>3, <2>1, RowStep DEF Progress
  <2> QED
    BY <1>1, <2>1, <2>2 DEF InCall, Progress, Calling
<1>4. CASE Return(p)
  <2>1. pc[p] = "return" /\ pc'[p] = "ready" /\ UNCHANGED <<row, calls>>
        /\ confirmed'[i] = confirmed[i] + 1
    BY <1>1, <1>4, OwnPc, Frames DEF Return, files, TypeOK
  <2> QED
    BY <1>1, <2>1 DEF InCall, Progress, Exact, Calling
<1>5. CASE Collect(p)
  <2>1. UNCHANGED <<pc, name, key, count, row, calls, confirmed>>
    BY <1>5, Frames DEF files, locals, history
  <2> QED
    BY <1>1, <2>1 DEF InCall, Progress, At
<1>6. CASE Ends(p)
  <2>1. i \in disturbed'
    BY <1>1, <1>6, Frames DEF Disturb
  <2> QED
    BY <2>1
<1>7. CASE Begins(p) \/ Replaces(p) \/ GivesUp(p) \/ CreateTable(p) \/ Persist(p)
  BY <1>1, <1>7, OwnPc, Frames DEF Calling, Preparing
<1> QED
  BY <1>2, <1>3, <1>4, <1>5, <1>6, <1>7, StepCases

LEMMA UndisturbedStep ==
  ASSUME IInv, NEW p \in Process, Step(p), NEW i \in Place
  PROVE  Undisturbed(i)'
<1> SUFFICES ASSUME i \notin disturbed', i[1] \notin raced'
             PROVE  Undisturbed(i)'
  BY DEF Undisturbed
<1>1. i \notin disturbed /\ i[1] \notin raced
  <2>1. raced \subseteq raced'
    BY StepCases, Frames DEF Begins, TestFile, FormStarts, ConsoleStarts, NextName
  <2>2. disturbed \subseteq disturbed'
    BY StepCases, Frames DEF history, Persist, Disturb
  <2> QED
    BY <2>1, <2>2
<1>2. /\ \A q, r \in Process : InCall(q, i) /\ InCall(r, i) => q = r
      /\ \A q \in Process : InCall(q, i) => Progress(q, i)
      /\ (\A q \in Process : ~InCall(q, i)) => Exact(i)
  BY <1>1 DEF IInv, Undisturbed
<1>3. \A q \in Process : q # p => (InCall(q, i)' <=> InCall(q, i))
  BY OthersKeep DEF InCall
<1>4. CASE ~InCall(p, i) /\ ~InCall(p, i)'
  <2>0. ~(Writes(p) /\ At(p) = i)
    BY <1>4, OwnPc DEF InCall, Calling
  <2>1. row'[i] = row[i] /\ calls'[i] = calls[i] /\ confirmed'[i] = confirmed[i]
    BY <1>4, <2>0, RowKept, OtherPlaceKept
  <2>2. ASSUME NEW q \in Process, InCall(q, i)'
        PROVE  Progress(q, i)'
    <3>1. q # p /\ Progress(q, i)
      BY <1>2, <1>3, <1>4, <2>2
    <3>2. pc'[q] = pc[q] /\ count'[q] = count[q]
      BY <3>1, OthersKeep
    <3> QED
      BY <2>1, <3>1, <3>2 DEF Progress
  <2> QED
    BY <1>2, <1>3, <1>4, <2>1, <2>2 DEF Undisturbed, Exact
<1>5. CASE ~InCall(p, i) /\ InCall(p, i)'
  <2>1. Persist(p) /\ At(p)' = i
    BY <1>5, PlaceKept DEF InCall
  <2>2. \A q \in Process : ~InCall(q, i)
    BY <1>5, <2>1, PlaceKept
  <2>3. Exact(i) /\ calls[i] \in Nat
    BY <1>2, <2>2 DEF IInv, TypeOK
  <2>4. calls'[i] = calls[i] + 1 /\ row' = row /\ confirmed' = confirmed /\ pc'[p] = "select"
    BY <2>1, PlaceKept, OwnPc, Frames DEF IInv, TypeOK
  <2>5. Progress(p, i)'
    BY <2>3, <2>4 DEF Progress, Exact
  <2> QED
    BY <1>3, <1>5, <2>2, <2>5 DEF Undisturbed
<1>6. CASE InCall(p, i)
  <2>1. IF InCall(p, i)' THEN Progress(p, i)' ELSE Exact(i)'
    BY <1>2, <1>6, CallStep
  <2>2. \A q \in Process : q # p => ~InCall(q, i)'
    BY <1>2, <1>3, <1>6
  <2> QED
    BY <2>1, <2>2 DEF Undisturbed
<1> QED
  BY <1>4, <1>5, <1>6

-----------------------------------------------------------------------------
(* The theorems. *)

LEMMA NextStep == IInv /\ [Next]_vars => IInv'
<1> SUFFICES ASSUME IInv, [Next]_vars PROVE IInv'
  OBVIOUS
<1>1. CASE UNCHANGED vars
  <2>1. UNCHANGED <<existing, tables, row, pc, name, connected, leaked, key, count, calls, confirmed,
                    raced, disturbed>> /\ TypeOK'
    BY <1>1 DEF vars, files, handles, locals, history, IInv, TypeOK
  <2>2. \A i : Pending(i)' = Pending(i)
    BY <2>1 DEF Pending, InCall, At
  <2>3. ASSUME NEW i \in Place PROVE BoundedRow(i)' /\ Undisturbed(i)'
    <3>1. BoundedRow(i) /\ Undisturbed(i)
      BY DEF IInv
    <3>2. BoundedRow(i)'
      BY <2>1, <2>2, <3>1 DEF BoundedRow
    <3>3. Undisturbed(i)'
      BY <2>1, <3>1 DEF Undisturbed, InCall, At, Exact, Progress
    <3> QED
      BY <3>2, <3>3
  <2>4. ASSUME NEW p \in Process PROVE Held(p)' /\ BoundedLocals(p)'
    <3>1. Held(p) /\ BoundedLocals(p) /\ At(p)' = At(p)
      BY <2>1 DEF IInv, At
    <3>2. Pending(At(p))' = Pending(At(p))
      BY <2>1 DEF Pending, InCall, At
    <3> QED
      BY <2>1, <3>1, <3>2 DEF Held, BoundedLocals
  <2>5. ASSUME NEW n \in Name PROVE PreparedAlone(n)'
    BY <2>1 DEF IInv, PreparedAlone
  <2> QED
    BY <2>1, <2>3, <2>4, <2>5 DEF IInv
<1>2. ASSUME NEW p \in Process, Step(p) PROVE IInv'
  <2>1. TypeOK' /\ tables' \subseteq existing'
    BY <1>2, TypeStep, TablesStep
  <2>2. \A q \in Process : Held(q)' /\ BoundedLocals(q)'
    BY <1>2, HeldStep, BoundedLocalsStep
  <2>3. \A i \in Place : BoundedRow(i)' /\ Undisturbed(i)'
    BY <1>2, BoundedRowStep, UndisturbedStep
  <2>4. \A n \in Name : PreparedAlone(n)'
    BY <1>2, PreparedStep
  <2> QED
    BY <2>1, <2>2, <2>3, <2>4 DEF IInv, Place, Name
<1> QED
  BY <1>1, <1>2 DEF Next

(* The invariant holds for any processes, file names, keys and rules. *)
THEOREM Invariance == Spec => []IInv
BY InitStep, NextStep, PTL DEF Spec

(* Every variable keeps its type. *)
THEOREM TypeCorrect == Spec => []TypeOK
<1>1. IInv => TypeOK
  BY DEF IInv
<1> QED
  BY <1>1, Invariance, PTL

(* A PrevalenceCount never exceeds the calls of PersistFileProperties begun *)
(* for its row, whatever programs share the file, fail, die or make it anew.*)
THEOREM CountsBounded == Spec => []NeverOvercounts
<1>1. IInv => NeverOvercounts
  <2> SUFFICES ASSUME IInv, NEW i \in Place PROVE row[i] <= calls[i]
    BY DEF NeverOvercounts
  <2>1. row[i] \in Nat /\ calls[i] \in Nat /\ Cardinality(Pending(i)) \in Nat
    BY PendingFinite DEF IInv, TypeOK
  <2> QED
    BY <2>1 DEF IInv, BoundedRow
<1> QED
  BY <1>1, Invariance, PTL

(* No step of any program loses a row of a file that only one client made. *)
THEOREM RowsKept == Spec => []ConfirmedKept
<1>1. IInv => ConfirmedKept
  BY DEF IInv, BoundedRow, ConfirmedKept
<1> QED
  BY <1>1, Invariance, PTL

(* A row that no overlap, failure or death disturbed is exact. *)
THEOREM ExactRows == Spec => []ExactUnlessDisturbed
<1>1. IInv => ExactUnlessDisturbed
  BY DEF IInv, Undisturbed, Exact, ExactUnlessDisturbed
<1> QED
  BY <1>1, Invariance, PTL
=============================================================================
