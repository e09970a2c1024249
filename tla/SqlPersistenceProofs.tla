------------------------- MODULE SqlPersistenceProofs -------------------------
(***************************************************************************)
(* IInv of SqlPersistence is inductive for any sets of scanners, keys and  *)
(* rules: first its types, then what holds of every row whatever happens,  *)
(* then what holds of a row nothing disturbed.                             *)
(***************************************************************************)
EXTENDS SqlPersistence, FiniteSetTheorems, TLAPS

\* Replacing one local keeps the record of the locals.
LEMMA CallUpdate ==
  ASSUME NEW c \in Call
  PROVE  /\ \A r \in SUBSET Rule : [c EXCEPT !.existing = r] \in Call
         /\ \A n \in Nat : [c EXCEPT !.count = n] \in Call /\ [c EXCEPT !.affected = n] \in Call
BY DEF Call

LEMMA InitStep == Init => IInv
<1> SUFFICES ASSUME Init PROVE IInv
  OBVIOUS
<1>1. TypeOK
  <2>1. call \in [Scanner -> Call]
    BY DEF Init, Call
  <2>2. table \in [Key -> Row]
    BY DEF Init, Row
  <2>3. 0 \in 0..MaxSightings
    BY SqlAssumption
  <2> QED
    BY <2>1, <2>2, <2>3 DEF Init, TypeOK, Pc
<1>2. ASSUME NEW k \in Key PROVE BoundedRow(k) /\ Undisturbed(k)
  <2>1. Pending(k) = {}
    BY DEF Init, Pending, InCall, Calling, Batch
  <2> QED
    BY <2>1, FS_EmptySet
       DEF Init, BoundedRow, Undisturbed, InCall, Calling, Batch, Exact
<1>3. \A s \in Scanner : BoundedLocals(s)
  BY DEF Init, BoundedLocals, Calling, Batch
<1> QED
  BY <1>1, <1>2, <1>3 DEF IInv

-----------------------------------------------------------------------------
(* Types. *)

LEMMA TypeStep == ASSUME IInv, [Next]_vars PROVE TypeOK'
<1> USE DEF IInv, TypeOK
<1>1. CASE UNCHANGED vars
  BY <1>1 DEF vars, history
<1>2. ASSUME NEW s \in Scanner, CheckIfTableExists(s) \/ CreateTable(s) \/ Restart(s)
      PROVE TypeOK'
  BY <1>2 DEF CheckIfTableExists, CreateTable, Restart, GoTo, Pc, Call, history
<1>3. ASSUME NEW s \in Scanner, PersistFileProperties(s) PROVE TypeOK'
  <2>1. PICK k \in Key, rules \in SUBSET Rule :
          /\ seen[k] < MaxSightings
          /\ call' = [call EXCEPT ![s] = [key |-> k, rules |-> rules, existing |-> {},
                                          count |-> 0, affected |-> 0]]
          /\ GoTo(s, IF rules = {} THEN "select" ELSE "query")
          /\ seen' = [seen EXCEPT ![k] = @ + 1]
          /\ matched' = [matched EXCEPT ![k] = @ \cup rules]
          /\ disturbed' = IF \E t \in Scanner \ {s} : InCall(t, k)
                          THEN disturbed \cup {k} ELSE disturbed
    BY <1>3 DEF PersistFileProperties
  <2>2. call' \in [Scanner -> Call]
    BY <2>1 DEF Call
  <2>3. pc' \in [Scanner -> Pc] /\ matched' \in [Key -> SUBSET Rule] /\ disturbed' \in SUBSET Key
    BY <2>1 DEF GoTo, Pc, Calling, Batch
  <2>4. seen' \in [Key -> 0..MaxSightings]
    BY <2>1, SqlAssumption
  <2> QED
    BY <1>3, <2>2, <2>3, <2>4 DEF PersistFileProperties
<1>4. ASSUME NEW s \in Scanner, GetExistingYaraRules(s) \/ SelectPrevalenceCount(s)
      PROVE TypeOK'
  <2>1. call[s] \in Call /\ call[s].key \in Key /\ table[call[s].key] \in Row
    BY DEF Call
  <2>2. [call[s] EXCEPT !.existing = table[call[s].key].rules] \in Call
    BY <2>1, CallUpdate DEF Row
  <2>3. [call[s] EXCEPT !.count = table[call[s].key].count + 1] \in Call
    <3>1. table[call[s].key].count + 1 \in Nat
      BY <2>1 DEF Row
    <3> QED
      BY <2>1, <3>1, CallUpdate, Zenon
  <2>4. call' \in [Scanner -> Call] /\ disturbed' \in SUBSET Key
    BY <1>4, <2>1, <2>2, <2>3 DEF GetExistingYaraRules, SelectPrevalenceCount
  <2>5. pc' \in [Scanner -> Pc]
    BY <1>4 DEF GetExistingYaraRules, SelectPrevalenceCount, GoTo, Pc, Calling, Batch
  <2> QED
    BY <1>4, <2>4, <2>5 DEF GetExistingYaraRules, SelectPrevalenceCount, history
<1>5. ASSUME NEW s \in Scanner, UpdatePrevalenceCount(s) \/ UpdateYaraRules(s) PROVE TypeOK'
  <2>1. call[s] \in Call /\ table[call[s].key] \in Row
    BY DEF Call
  <2>2. call' \in [Scanner -> Call]
    BY <1>5, <2>1 DEF UpdatePrevalenceCount, UpdateYaraRules, Call
  <2>3. table' \in [Key -> Row]
    <3>1. call[s].count \in Nat /\ call[s].existing \cup call[s].rules \in SUBSET Rule
      BY <2>1 DEF Call
    <3>2. [table[call[s].key] EXCEPT !.count = call[s].count] \in Row
      BY <2>1, <3>1 DEF Row
    <3>3. [table[call[s].key] EXCEPT !.rules = call[s].existing \cup call[s].rules] \in Row
      BY <2>1, <3>1 DEF Row
    <3> QED
      BY <1>5, <2>1, <3>2, <3>3 DEF UpdatePrevalenceCount, UpdateYaraRules
  <2> QED
    BY <1>5, <2>2, <2>3
       DEF UpdatePrevalenceCount, UpdateYaraRules, GoTo, Pc, Calling, Batch, history
<1>6. ASSUME NEW s \in Scanner, Insert(s) PROVE TypeOK'
  <2>1. call[s] \in Call /\ table[call[s].key] \in Row
    BY DEF Call
  <2>2. [count |-> 1, rules |-> call[s].existing \cup call[s].rules] \in Row
    BY <2>1 DEF Call, Row
  <2>3. [call[s] EXCEPT !.affected = call[s].affected + 1] \in Call
    <3>1. call[s].affected + 1 \in Nat
      BY <2>1 DEF Call
    <3> QED
      BY <2>1, <3>1, CallUpdate, Zenon
  <2>4. call' \in [Scanner -> Call] /\ table' \in [Key -> Row]
    BY <1>6, <2>1, <2>2, <2>3 DEF Insert
  <2> QED
    BY <1>6, <2>4 DEF Insert, GoTo, Pc, Calling, Batch, history
<1>7. ASSUME NEW s \in Scanner, BatchFails(s) PROVE TypeOK'
  <2>1. call[s] \in Call /\ call[s].key \in Key
    BY DEF Call
  <2>2. [call[s] EXCEPT !.affected = 0] \in Call
    BY <2>1, CallUpdate
  <2> QED
    BY <1>7, <2>1, <2>2 DEF BatchFails, GoTo, Pc, Calling, history
<1>8. ASSUME NEW s \in Scanner, Return(s) PROVE TypeOK'
  <2>1. call[s].key \in Key
    BY DEF Call
  <2>2. confirmed' \in [Key -> Nat]
    BY <1>8, <2>1 DEF Return
  <2> QED
    BY <1>8, <2>2 DEF Return, GoTo, Pc
<1> QED
  BY <1>1, <1>2, <1>3, <1>4, <1>5, <1>6, <1>7, <1>8 DEF Next, Step

-----------------------------------------------------------------------------
(* What holds of every row. *)


LEMMA PendingFinite ==
  \A k : IsFiniteSet(Pending(k)) /\ Cardinality(Pending(k)) \in Nat
BY SqlAssumption, FS_Subset, FS_CardinalityType DEF Pending

CountsNothing(s) ==
  \/ CheckIfTableExists(s) \/ CreateTable(s) \/ GetExistingYaraRules(s)
  \/ SelectPrevalenceCount(s) \/ UpdateYaraRules(s) \/ BatchFails(s)
  \/ Return(s) \/ Restart(s)

\* How a step changes the calls that have yet to count.
LEMMA PendingStep ==
  ASSUME IInv, NEW s \in Scanner, Step(s), NEW k \in Key
  PROVE  /\ IsFiniteSet(Pending(k)') /\ Cardinality(Pending(k)') \in Nat
         /\ \/ /\ PersistFileProperties(s)
               /\ Cardinality(Pending(k)') + seen[k] <= Cardinality(Pending(k)) + seen'[k]
            \/ /\ UpdatePrevalenceCount(s) \/ Insert(s)
               /\ Cardinality(Pending(k)') <= Cardinality(Pending(k))
               /\ call[s].key = k => Cardinality(Pending(k)') + 1 = Cardinality(Pending(k))
            \/ /\ CountsNothing(s)
               /\ Cardinality(Pending(k)') <= Cardinality(Pending(k))
<1> USE DEF IInv, TypeOK
<1>1. IsFiniteSet(Pending(k)) /\ Cardinality(Pending(k)) \in Nat
  BY PendingFinite
<1>2. IsFiniteSet(Pending(k)') /\ Cardinality(Pending(k)') \in Nat
  <2>1. Pending(k)' \in SUBSET Scanner
    BY DEF Pending
  <2> QED
    BY <2>1, SqlAssumption, FS_Subset, FS_CardinalityType
<1>3. CASE PersistFileProperties(s)
  <2>1. Pending(k)' = Pending(k) \/ (Pending(k)' = Pending(k) \cup {s} /\ seen'[k] = seen[k] + 1)
    BY <1>3 DEF PersistFileProperties, GoTo, Pending, InCall, Calling, Batch
  <2>2. seen[k] \in Nat /\ seen'[k] \in Nat /\ seen[k] <= seen'[k]
    BY <1>3 DEF PersistFileProperties
  <2> QED
    BY <1>1, <1>2, <1>3, <2>1, <2>2, FS_AddElement
<1>4. CASE UpdatePrevalenceCount(s) \/ Insert(s)
  <2>1. Pending(k)' = Pending(k) \ {s} /\ (call[s].key = k => s \in Pending(k))
    BY <1>4 DEF UpdatePrevalenceCount, Insert, GoTo, Pending, InCall, Calling, Batch
  <2> QED
    BY <1>1, <1>2, <1>4, <2>1, FS_RemoveElement
<1>5. CASE CountsNothing(s)
  <2>1. /\ \A t \in Scanner : call'[t].key = call[t].key
        /\ \A t \in Scanner : pc'[t] = pc[t] \/ (t = s /\ pc'[t] \notin {"query"})
        /\ pc'[s] \in {"select", "update", "insert"} => pc[s] \in {"query", "select"}
    <3>1. CASE CheckIfTableExists(s) \/ CreateTable(s) \/ Return(s) \/ Restart(s)
      BY <3>1 DEF CheckIfTableExists, CreateTable, Return, Restart, GoTo
    <3>2. CASE GetExistingYaraRules(s)
      BY <3>2 DEF GetExistingYaraRules, GoTo, Call
    <3>3. CASE SelectPrevalenceCount(s)
      <4>1. pc[s] = "select" /\ pc' = [pc EXCEPT ![s] = IF HasRow(call[s].key) THEN "update" ELSE "insert"]
        BY <3>3 DEF SelectPrevalenceCount, GoTo
      <4>2. \A t \in Scanner : call'[t].key = call[t].key
        BY <3>3 DEF SelectPrevalenceCount, Call
      <4> QED
        BY <4>1, <4>2
    <3>4. CASE UpdateYaraRules(s) \/ BatchFails(s)
      BY <3>4 DEF UpdateYaraRules, BatchFails, GoTo, Call
    <3> QED
      BY <1>5, <3>1, <3>2, <3>3, <3>4 DEF CountsNothing
  <2>2. Pending(k)' \subseteq Pending(k)
    BY <2>1 DEF Pending, InCall, Calling, Batch
  <2> QED
    BY <1>1, <1>2, <1>5, <2>2, FS_Subset
<1> QED
  BY <1>3, <1>4, <1>5 DEF Step, CountsNothing

-----------------------------------------------------------------------------
(* What holds of every row. *)

\* Rows are never deleted, and what the scanners have seen only grows.
Growing(k) ==
  /\ HasRow(k) => HasRow(k)'
  /\ matched[k] \subseteq matched'[k]
  /\ seen[k] \in Nat /\ seen'[k] \in Nat
  /\ Cardinality(Pending(k)) \in Nat /\ Cardinality(Pending(k)') \in Nat
  /\ Cardinality(Pending(k)') + seen[k] <= Cardinality(Pending(k)) + seen'[k]

LEMMA RowStep ==
  ASSUME IInv, NEW s \in Scanner, Step(s), NEW k \in Key
  PROVE  Growing(k) /\ BoundedRow(k)'
<1> USE DEF Growing, BoundedRow, HasRow
<1>1. BoundedRow(k) /\ table[k] \in Row /\ table \in [Key -> Row] /\ call[s] \in Call /\ BoundedLocals(s)
      /\ seen[k] \in Nat /\ confirmed \in [Key -> Nat] /\ seen \in [Key -> 0..MaxSightings]
      /\ matched \in [Key -> SUBSET Rule] /\ Cardinality(Pending(k)) \in Nat
  BY PendingFinite DEF IInv, TypeOK
<1>2. Cardinality(Pending(k)') \in Nat
  BY PendingStep
<1>3. CASE CountsNothing(s) /\ Cardinality(Pending(k)') <= Cardinality(Pending(k))
  <2>1. UNCHANGED <<seen, matched>>
    BY <1>3 DEF CountsNothing, CheckIfTableExists, CreateTable, GetExistingYaraRules,
         SelectPrevalenceCount, UpdateYaraRules, BatchFails, Return, Restart, history
  <2>2. CASE UpdateYaraRules(s)
    <3>1. call[s].existing \cup call[s].rules \subseteq matched[call[s].key] /\ HasRow(call[s].key)
      BY <1>1, <2>2 DEF UpdateYaraRules, BoundedLocals, Calling, Batch
    <3> QED
      BY <1>1, <1>2, <1>3, <2>1, <2>2, <3>1 DEF UpdateYaraRules, history, Row, Call
  <2>3. CASE Return(s)
    <3>1. call[s].affected = 1 => HasRow(call[s].key)
      BY <1>1, <2>3 DEF Return, BoundedLocals, Calling, Batch
    <3> QED
      BY <1>1, <1>2, <1>3, <2>1, <2>3, <3>1 DEF Return, Row, Call
  <2>4. CASE ~UpdateYaraRules(s) /\ ~Return(s)
    <3>1. UNCHANGED <<table, confirmed>>
      BY <1>3, <2>4 DEF CountsNothing, CheckIfTableExists, CreateTable, GetExistingYaraRules,
           SelectPrevalenceCount, BatchFails, Restart, history
    <3> QED
      BY <1>1, <1>2, <1>3, <2>1, <3>1 DEF Row
  <2> QED
    BY <2>2, <2>3, <2>4
<1>4. CASE PersistFileProperties(s) /\ Cardinality(Pending(k)') + seen[k] <= Cardinality(Pending(k)) + seen'[k]
  <2>1. UNCHANGED <<table, confirmed>> /\ matched[k] \subseteq matched'[k] /\ seen'[k] \in Nat
    BY <1>1, <1>4 DEF PersistFileProperties
  <2> QED
    BY <1>1, <1>2, <1>4, <2>1 DEF Row
<1>5. CASE UpdatePrevalenceCount(s)
           /\ Cardinality(Pending(k)') <= Cardinality(Pending(k))
           /\ (call[s].key = k => Cardinality(Pending(k)') + 1 = Cardinality(Pending(k)))
  <2>1. call[s].count # 0 /\ call[s].count + Cardinality(Pending(call[s].key)) <= seen[call[s].key] + 1
    BY <1>1, <1>5 DEF UpdatePrevalenceCount, BoundedLocals, Calling, Batch
  <2>2. /\ UNCHANGED <<seen, matched, confirmed>>
        /\ table'[k] = IF call[s].key = k THEN [table[k] EXCEPT !.count = call[s].count] ELSE table[k]
    BY <1>1, <1>5 DEF UpdatePrevalenceCount, history
  <2> QED
    BY <1>1, <1>2, <1>5, <2>1, <2>2 DEF Row, Call
<1>6. CASE Insert(s)
           /\ Cardinality(Pending(k)') <= Cardinality(Pending(k))
           /\ (call[s].key = k => Cardinality(Pending(k)') + 1 = Cardinality(Pending(k)))
  <2>1. call[s].existing \cup call[s].rules \subseteq matched[call[s].key]
    BY <1>1, <1>6 DEF Insert, BoundedLocals, Calling, Batch
  <2>2. /\ UNCHANGED <<seen, matched, confirmed>>
        /\ table'[k] = IF call[s].key = k /\ ~HasRow(k)
                       THEN [count |-> 1, rules |-> call[s].existing \cup call[s].rules]
                       ELSE table[k]
    BY <1>1, <1>6 DEF Insert, history
  <2> QED
    BY <1>1, <1>2, <1>6, <2>1, <2>2 DEF Row, Call
<1> QED
  BY <1>3, <1>4, <1>5, <1>6, PendingStep

-----------------------------------------------------------------------------
(* What holds of the locals of every call. *)

\* A call is not touched by the steps of another scanner.
LEMMA OthersKeep ==
  ASSUME IInv, NEW s \in Scanner, Step(s), NEW t \in Scanner, t # s
  PROVE  pc'[t] = pc[t] /\ call'[t] = call[t]
BY DEF IInv, TypeOK, Step, CheckIfTableExists, CreateTable, PersistFileProperties,
       GetExistingYaraRules, SelectPrevalenceCount, UpdatePrevalenceCount, UpdateYaraRules,
       Insert, BatchFails, Return, Restart, GoTo

LEMMA LocalsStep ==
  ASSUME IInv, NEW s \in Scanner, Step(s), NEW t \in Scanner
  PROVE  BoundedLocals(t)'
<1>1. /\ \A u \in Scanner : BoundedLocals(u) /\ call[u] \in Call
      /\ \A k \in Key : BoundedRow(k) /\ table[k] \in Row
      /\ pc \in [Scanner -> Pc] /\ call \in [Scanner -> Call] /\ table \in [Key -> Row]
      /\ seen \in [Key -> 0..MaxSightings] /\ matched \in [Key -> SUBSET Rule]
  BY DEF IInv, TypeOK
<1>2. \A k \in Key : Growing(k) /\ BoundedRow(k)'
  BY RowStep
<1>3. CASE t # s
  <2>1. pc'[t] = pc[t] /\ call'[t] = call[t]
    BY <1>3, OthersKeep
  <2>2. call[t].key \in Key /\ call[t].count \in Nat
    BY <1>1 DEF Call
  <2> QED
    BY <1>1, <1>2, <2>1, <2>2 DEF BoundedLocals, Growing, HasRow
<1>4. CASE t = s
  <2>0. call[s].key \in Key /\ call[s].rules \in SUBSET Rule /\ call[s].count \in Nat
    BY <1>1 DEF Call
  <2>1. CASE CheckIfTableExists(s) \/ CreateTable(s) \/ Return(s) \/ Restart(s)
    BY <1>1, <1>4, <2>1
       DEF CheckIfTableExists, CreateTable, Return, Restart, GoTo, BoundedLocals, Calling, Batch
  <2>2. CASE PersistFileProperties(s)
    BY <1>1, <1>4, <2>2
       DEF PersistFileProperties, GoTo, BoundedLocals, Calling, Batch
  <2>3. CASE GetExistingYaraRules(s)
    <3>1. call'[s].key = call[s].key /\ call'[s].rules = call[s].rules /\ pc'[s] = "select"
          /\ call'[s].existing \in {call[s].existing, table[call[s].key].rules} /\ pc[s] = "query"
          /\ UNCHANGED matched
      BY <1>1, <2>3 DEF GetExistingYaraRules, GoTo, Call, history
    <3> QED
      BY <1>1, <1>4, <2>0, <3>1 DEF BoundedLocals, BoundedRow, Calling, Batch
  <2>4. CASE SelectPrevalenceCount(s)
    <3>1. /\ call'[s].key = call[s].key /\ call'[s].rules = call[s].rules
          /\ call'[s].existing = call[s].existing /\ pc[s] = "select"
          /\ \/ HasRow(call[s].key) /\ pc'[s] = "update" /\ call'[s].count = table[call[s].key].count + 1
             \/ pc'[s] = "insert"
          /\ UNCHANGED <<matched, seen, table>>
      BY <1>1, <2>4 DEF SelectPrevalenceCount, GoTo, Call, history
    <3>2. PICK k \in Key : k = call[s].key
      BY <2>0
    <3>3. table[k].count \in Nat
      BY <1>1 DEF Row
    <3>4. table[k].count + Cardinality(Pending(k)') <= seen'[k]
      BY <1>2, <3>1 DEF BoundedRow
    <3>5. Cardinality(Pending(k)') \in Nat /\ seen'[k] \in Nat
      BY <1>2 DEF Growing
    <3> QED
      BY <1>1, <1>4, <2>0, <3>1, <3>2, <3>3, <3>4, <3>5 DEF BoundedLocals, HasRow, Calling, Batch
  <2>5. CASE UpdatePrevalenceCount(s)
    <3>1. /\ call'[s].key = call[s].key /\ call'[s].rules = call[s].rules
          /\ call'[s].existing = call[s].existing /\ pc[s] = "update"
          /\ pc'[s] = IF call[s].rules = {} THEN "return" ELSE "merge"
          /\ UNCHANGED matched
      BY <1>1, <2>5 DEF UpdatePrevalenceCount, GoTo, Call, history
    <3>2. HasRow(call[s].key)'
      BY <1>1, <1>2, <2>0, <3>1 DEF BoundedLocals, Growing, Calling, Batch
    <3> QED
      BY <1>1, <1>4, <2>0, <3>1, <3>2 DEF BoundedLocals, HasRow, Calling, Batch
  <2>6. CASE UpdateYaraRules(s)
    <3>1. /\ call'[s].key = call[s].key /\ call'[s].rules = call[s].rules
          /\ call'[s].existing = call[s].existing /\ pc[s] = "merge" /\ pc'[s] = "return"
          /\ UNCHANGED matched
      BY <1>1, <2>6 DEF UpdateYaraRules, GoTo, Call, history
    <3>2. HasRow(call[s].key)'
      BY <1>1, <1>2, <2>0, <3>1 DEF BoundedLocals, Growing, Calling, Batch
    <3> QED
      BY <1>1, <1>4, <2>0, <3>1, <3>2 DEF BoundedLocals, HasRow, Calling, Batch
  <2>7. CASE Insert(s)
    <3>1. /\ call'[s].key = call[s].key /\ call'[s].rules = call[s].rules
          /\ call'[s].existing = call[s].existing /\ pc[s] = "insert" /\ pc'[s] = "return"
          /\ UNCHANGED matched
      BY <1>1, <2>7 DEF Insert, GoTo, Call, history
    <3>2. HasRow(call[s].key)'
      BY <1>1, <2>0, <2>7, <3>1 DEF Insert, HasRow
    <3> QED
      BY <1>1, <1>4, <2>0, <3>1, <3>2 DEF BoundedLocals, HasRow, Calling, Batch
  <2>8. CASE BatchFails(s)
    <3>1. /\ call'[s].key = call[s].key /\ call'[s].rules = call[s].rules
          /\ call'[s].existing = call[s].existing /\ call'[s].affected = 0
          /\ pc[s] \in Batch /\ pc'[s] = "return" /\ UNCHANGED matched
      BY <1>1, <2>8 DEF BatchFails, GoTo, Call, history
    <3> QED
      BY <1>1, <1>4, <2>0, <3>1 DEF BoundedLocals, Calling, Batch
  <2> QED
    BY <2>1, <2>2, <2>3, <2>4, <2>5, <2>6, <2>7, <2>8 DEF Step
<1> QED
  BY <1>3, <1>4

-----------------------------------------------------------------------------
(* What holds of the rows that nothing disturbed. *)

\* A step outside the calls for k leaves all there is to say of k.
LEMMA OtherKeyKept ==
  ASSUME IInv, NEW s \in Scanner, Step(s), NEW k \in Key, ~InCall(s, k), ~InCall(s, k)'
  PROVE  table'[k] = table[k] /\ seen'[k] = seen[k] /\ matched'[k] = matched[k]
<1> USE DEF IInv, TypeOK
<1>1. CASE PersistFileProperties(s)
  BY <1>1 DEF PersistFileProperties, GoTo, InCall, Calling, Batch
<1>2. CASE UpdatePrevalenceCount(s) \/ UpdateYaraRules(s) \/ Insert(s)
  BY <1>2 DEF UpdatePrevalenceCount, UpdateYaraRules, Insert, InCall, Calling, Batch, history
<1>3. CASE CheckIfTableExists(s) \/ CreateTable(s) \/ GetExistingYaraRules(s)
           \/ SelectPrevalenceCount(s) \/ BatchFails(s) \/ Return(s) \/ Restart(s)
  BY <1>3 DEF CheckIfTableExists, CreateTable, GetExistingYaraRules, SelectPrevalenceCount,
       BatchFails, Return, Restart, history
<1> QED
  BY <1>1, <1>2, <1>3 DEF Step

\* The only call for an undisturbed k begins, goes on, or ends.
LEMMA CallStep ==
  ASSUME IInv, NEW s \in Scanner, Step(s), NEW k \in Key, k \notin disturbed',
         InCall(s, k), CallProgress(s)
  PROVE  IF InCall(s, k)' THEN CallProgress(s)' ELSE Exact(k)'
<1>1. /\ call[s].key = k /\ pc[s] \in Calling /\ call[s] \in Call /\ BoundedLocals(s)
      /\ table[k] \in Row /\ seen[k] \in Nat /\ matched[k] \in SUBSET Rule
      /\ pc \in [Scanner -> Pc] /\ call \in [Scanner -> Call] /\ table \in [Key -> Row]
  BY DEF IInv, TypeOK, InCall
<1>2. CASE GetExistingYaraRules(s)
  <2>1. /\ pc[s] = "query" /\ pc'[s] = "select" /\ UNCHANGED <<table, seen, matched>>
        /\ call'[s].key = k /\ call'[s].rules = call[s].rules /\ call'[s].existing = table[k].rules
    BY <1>1, <1>2 DEF GetExistingYaraRules, GoTo, Call, history
  <2> QED
    BY <1>1, <2>1 DEF InCall, CallProgress, Merged, Calling, Batch
<1>3. CASE SelectPrevalenceCount(s)
  <2>1. /\ pc[s] = "select" /\ UNCHANGED <<table, seen, matched>>
        /\ call'[s].key = k /\ call'[s].rules = call[s].rules /\ call'[s].existing = call[s].existing
        /\ \/ pc'[s] = "update" /\ call'[s].count = table[k].count + 1
           \/ pc'[s] = "insert" /\ table[k].count = 0
    BY <1>1, <1>3 DEF SelectPrevalenceCount, HasRow, GoTo, Call, history
  <2> QED
    BY <1>1, <2>1 DEF InCall, CallProgress, Merged, Calling, Batch
<1>4. CASE UpdatePrevalenceCount(s)
  <2>1. /\ pc[s] = "update" /\ UNCHANGED <<seen, matched>>
        /\ call'[s].key = k /\ call'[s].rules = call[s].rules /\ call'[s].existing = call[s].existing
        /\ pc'[s] = IF call[s].rules = {} THEN "return" ELSE "merge"
        /\ table'[k].count = call[s].count /\ table'[k].rules = table[k].rules
    BY <1>1, <1>4 DEF UpdatePrevalenceCount, GoTo, Call, Row, history
  <2> QED
    BY <1>1, <2>1 DEF InCall, CallProgress, Exact, Merged, Calling, Batch, Call, Row
<1>5. CASE UpdateYaraRules(s)
  <2>1. /\ pc[s] = "merge" /\ UNCHANGED <<seen, matched>> /\ pc'[s] = "return"
        /\ call'[s].key = k
        /\ table'[k].count = table[k].count /\ table'[k].rules = call[s].existing \cup call[s].rules
    BY <1>1, <1>5 DEF UpdateYaraRules, GoTo, Call, Row, history
  <2> QED
    BY <1>1, <2>1 DEF InCall, CallProgress, Exact, Merged, Calling, Batch
<1>6. CASE Insert(s)
  <2>1. table[k].count = 0
    BY <1>1, <1>6 DEF Insert, CallProgress
  <2>2. Merged(s) = matched[k]
    <3>1. table[k].rules = {}
      BY <2>1 DEF IInv, BoundedRow, HasRow
    <3> QED
      BY <1>1, <1>6, <3>1 DEF Insert, CallProgress, BoundedLocals, Merged
  <2>3. /\ pc[s] = "insert" /\ UNCHANGED <<seen, matched>> /\ pc'[s] = "return"
        /\ call'[s].key = k
        /\ table'[k].count = 1 /\ table'[k].rules = call[s].existing \cup call[s].rules
    BY <1>1, <1>6, <2>1 DEF Insert, HasRow, GoTo, Call, Row, history
  <2> QED
    BY <1>1, <2>1, <2>2, <2>3 DEF InCall, CallProgress, Exact, Merged, Calling, Batch
<1>7. CASE BatchFails(s) \/ Restart(s)
  BY <1>1, <1>7 DEF BatchFails, Restart, Calling, Batch
<1>8. CASE Return(s)
  BY <1>1, <1>8 DEF Return, GoTo, InCall, CallProgress, Exact, Calling, Batch
<1>9. CASE CheckIfTableExists(s) \/ CreateTable(s) \/ PersistFileProperties(s)
  BY <1>1, <1>9 DEF CheckIfTableExists, CreateTable, PersistFileProperties, Calling, Batch
<1> QED
  BY <1>2, <1>3, <1>4, <1>5, <1>6, <1>7, <1>8, <1>9 DEF Step

\* Only PersistFileProperties begins a call or changes its key.
LEMMA KeyKept ==
  ASSUME IInv, NEW s \in Scanner, Step(s), ~PersistFileProperties(s)
  PROVE  call'[s].key = call[s].key /\ (pc'[s] \in Calling => pc[s] \in Calling)
<1> USE DEF IInv, TypeOK, GoTo
<1>1. CASE CheckIfTableExists(s) \/ CreateTable(s) \/ Return(s) \/ Restart(s)
  BY <1>1 DEF CheckIfTableExists, CreateTable, Return, Restart, Calling, Batch
<1>2. CASE GetExistingYaraRules(s) \/ SelectPrevalenceCount(s)
  BY <1>2 DEF GetExistingYaraRules, SelectPrevalenceCount, Call, Calling, Batch
<1>3. CASE UpdatePrevalenceCount(s) \/ UpdateYaraRules(s)
  BY <1>3 DEF UpdatePrevalenceCount, UpdateYaraRules, Call, Calling, Batch
<1>4. CASE Insert(s) \/ BatchFails(s)
  BY <1>4 DEF Insert, BatchFails, Call, Calling, Batch
<1> QED
  BY <1>1, <1>2, <1>3, <1>4 DEF Step

LEMMA UndisturbedStep ==
  ASSUME IInv, NEW s \in Scanner, Step(s), NEW k \in Key
  PROVE  Undisturbed(k)'
<1> SUFFICES ASSUME k \notin disturbed'
             PROVE  Undisturbed(k)'
  BY DEF Undisturbed
<1>1. k \notin disturbed
  BY DEF Step, CheckIfTableExists, CreateTable, PersistFileProperties, GetExistingYaraRules,
       SelectPrevalenceCount, UpdatePrevalenceCount, UpdateYaraRules, Insert, BatchFails, Return, Restart
<1>2. /\ \A t, u \in Scanner : InCall(t, k) /\ InCall(u, k) => t = u
      /\ \A t \in Scanner : InCall(t, k) => CallProgress(t)
      /\ (\A t \in Scanner : ~InCall(t, k)) => Exact(k)
  BY <1>1 DEF IInv, Undisturbed
<1>3. \A t \in Scanner : t # s => (InCall(t, k)' <=> InCall(t, k))
  BY OthersKeep DEF InCall
<1>4. CASE ~InCall(s, k) /\ ~InCall(s, k)'
  <2>1. table'[k] = table[k] /\ seen'[k] = seen[k] /\ matched'[k] = matched[k]
    BY <1>4, OtherKeyKept
  <2>2. ASSUME NEW t \in Scanner, InCall(t, k)'
        PROVE  CallProgress(t)'
    <3>1. t # s /\ InCall(t, k) /\ CallProgress(t) /\ call[t].key = k
      BY <1>2, <1>3, <1>4, <2>2 DEF InCall
    <3>2. pc'[t] = pc[t] /\ call'[t] = call[t]
      BY <3>1, OthersKeep
    <3> QED
      BY <2>1, <3>1, <3>2 DEF CallProgress, Exact, Merged
  <2> QED
    BY <1>2, <1>3, <1>4, <2>1, <2>2 DEF Undisturbed, Exact
<1>5. CASE ~InCall(s, k) /\ InCall(s, k)'
  <2>1. PersistFileProperties(s)
    BY <1>5, KeyKept DEF InCall
  <2>2. PICK j \in Key, rules \in SUBSET Rule :
          /\ call' = [call EXCEPT ![s] = [key |-> j, rules |-> rules, existing |-> {},
                                          count |-> 0, affected |-> 0]]
          /\ GoTo(s, IF rules = {} THEN "select" ELSE "query")
          /\ seen' = [seen EXCEPT ![j] = @ + 1]
          /\ matched' = [matched EXCEPT ![j] = @ \cup rules]
          /\ disturbed' = IF \E t \in Scanner \ {s} : InCall(t, j)
                          THEN disturbed \cup {j} ELSE disturbed
          /\ UNCHANGED table
    BY <2>1 DEF PersistFileProperties
  <2>3. call'[s].key = j /\ call'[s].rules = rules /\ j = k
    BY <1>5, <2>2 DEF InCall, IInv, TypeOK
  <2>4. \A t \in Scanner : ~InCall(t, k)
    BY <1>5, <2>2, <2>3
  <2>5. Exact(k)
    BY <1>2, <2>4
  <2>6. seen'[k] = seen[k] + 1 /\ matched'[k] = matched[k] \cup rules /\ table'[k] = table[k]
        /\ pc'[s] = IF rules = {} THEN "select" ELSE "query"
    BY <2>2, <2>3 DEF GoTo, IInv, TypeOK
  <2>7. CallProgress(s)'
    BY <2>3, <2>5, <2>6 DEF CallProgress, Exact, Merged
  <2> QED
    BY <1>3, <1>5, <2>4, <2>7 DEF Undisturbed
<1>6. CASE InCall(s, k)
  <2>1. IF InCall(s, k)' THEN CallProgress(s)' ELSE Exact(k)'
    BY <1>2, <1>6, CallStep
  <2>2. \A t \in Scanner : t # s => ~InCall(t, k)'
    BY <1>2, <1>3, <1>6
  <2> QED
    BY <2>1, <2>2 DEF Undisturbed
<1> QED
  BY <1>4, <1>5, <1>6

-----------------------------------------------------------------------------
(* The theorems. *)

LEMMA NextStep == IInv /\ [Next]_vars => IInv'
<1> SUFFICES ASSUME IInv, [Next]_vars PROVE IInv'
  OBVIOUS
<1>1. TypeOK'
  BY TypeStep
<1>2. CASE UNCHANGED vars
  <2>1. UNCHANGED <<created, table, pc, call, seen, matched, confirmed, disturbed>>
    BY <1>2 DEF vars, history
  <2>2. ASSUME NEW k \in Key PROVE BoundedRow(k)' /\ Undisturbed(k)'
    <3>1. Pending(k)' = Pending(k)
      BY <2>1 DEF Pending, InCall
    <3>2. BoundedRow(k) /\ Undisturbed(k)
      BY DEF IInv
    <3>3. BoundedRow(k)'
      BY <2>1, <3>1, <3>2 DEF BoundedRow, HasRow
    <3>4. Undisturbed(k)'
      BY <2>1, <3>2 DEF Undisturbed, InCall, Exact, CallProgress, Merged
    <3> QED
      BY <3>3, <3>4
  <2>3. ASSUME NEW t \in Scanner PROVE BoundedLocals(t)'
    <3>1. Pending(call[t].key)' = Pending(call[t].key)
      BY <2>1 DEF Pending, InCall
    <3> QED
      BY <2>1, <3>1 DEF IInv, BoundedLocals, HasRow
  <2> QED
    BY <1>1, <2>2, <2>3 DEF IInv
<1>3. ASSUME NEW s \in Scanner, Step(s)
      PROVE  /\ \A k \in Key : BoundedRow(k)' /\ Undisturbed(k)'
             /\ \A t \in Scanner : BoundedLocals(t)'
  BY <1>3, RowStep, UndisturbedStep, LocalsStep
<1> QED
  BY <1>1, <1>2, <1>3 DEF IInv, Next

(* The invariant holds for any number of scanners, keys and rules. *)
THEOREM Invariance == Spec => []IInv
BY InitStep, NextStep, PTL DEF Spec

(* Every variable keeps its type. *)
THEOREM TypeCorrect == Spec => []TypeOK
<1>1. IInv => TypeOK
  BY DEF IInv
<1> QED
  BY <1>1, Invariance, PTL

(* A PrevalenceCount never exceeds the sightings, whatever fails, dies or  *)
(* overlaps in the batches of PersistFileProperties.                       *)
THEOREM CountsBounded == Spec => []NeverOvercounts
<1>1. IInv => NeverOvercounts
  <2> SUFFICES ASSUME IInv, NEW k \in Key PROVE table[k].count <= seen[k]
    BY DEF NeverOvercounts
  <2>1. table[k].count \in Nat /\ seen[k] \in Nat /\ Cardinality(Pending(k)) \in Nat
    BY PendingFinite DEF IInv, TypeOK, Row
  <2> QED
    BY <2>1 DEF IInv, BoundedRow
<1> QED
  BY <1>1, Invariance, PTL

(* No file gets the rules of another one. *)
THEOREM RulesMatched == Spec => []OnlyMatchedRules
<1>1. IInv => OnlyMatchedRules
  BY DEF IInv, BoundedRow, OnlyMatchedRules
<1> QED
  BY <1>1, Invariance, PTL

(* PersistFileProperties returns true only for a file that is in the table. *)
THEOREM SuccessRecorded == Spec => []SuccessIsRecorded
<1>1. IInv => SuccessIsRecorded
  BY DEF IInv, BoundedRow, SuccessIsRecorded
<1> QED
  BY <1>1, Invariance, PTL

(* A row is exact unless calls for that very file overlapped or were cut off. *)
THEOREM ExactRows == Spec => []ExactUnlessDisturbed
<1>1. IInv => ExactUnlessDisturbed
  BY DEF IInv, Undisturbed, ExactUnlessDisturbed
<1> QED
  BY <1>1, Invariance, PTL

(* No step empties the list of matches of a row. *)
THEOREM RowsKeepMatches == Spec => MatchesStayListed
<1>1. IInv /\ [Next]_vars => [\A k \in Key : table[k].rules # {} => table'[k].rules # {}]_vars
  <2> SUFFICES ASSUME IInv, NEW s \in Scanner, Step(s), NEW k \in Key, table[k].rules # {}
               PROVE  table'[k].rules # {}
    BY DEF Next
  <2>1. table \in [Key -> Row] /\ HasRow(k) /\ BoundedLocals(s)
    BY DEF IInv, TypeOK, BoundedRow
  <2>2. CASE UpdateYaraRules(s)
    BY <2>1, <2>2 DEF UpdateYaraRules, BoundedLocals, Calling, Batch, Row
  <2>3. CASE UpdatePrevalenceCount(s)
    BY <2>1, <2>3 DEF UpdatePrevalenceCount, Row
  <2>4. CASE Insert(s)
    BY <2>1, <2>4 DEF Insert
  <2>5. CASE UNCHANGED table
    BY <2>5
  <2> QED
    BY <2>2, <2>3, <2>4, <2>5 DEF Step, CheckIfTableExists, CreateTable, PersistFileProperties,
         GetExistingYaraRules, SelectPrevalenceCount, BatchFails, Return, Restart
<1> QED
  BY <1>1, Invariance, PTL DEF Spec, MatchesStayListed
=============================================================================
