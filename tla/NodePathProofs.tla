---------------------------- MODULE NodePathProofs ----------------------------
(***************************************************************************)
(* For every set of records and any changes of the volume during the scan: *)
(* a finished list holds every named record under the parents that were    *)
(* read, and an exception for a loop means that there is one.              *)
(***************************************************************************)
EXTENDS NodePath, SequenceTheorems, TLAPS

\* Pushing the parent of the head of a chain leaves a chain with the same last node.
LEMMA PushChain ==
  ASSUME TypeOK, NEW p \in Seq(Record), p # <<>>, Chain(p), NEW q \in Record,
         q = parentIndex[p[1]]
  PROVE  LET pushed == <<q>> \o p IN
         /\ pushed \in Seq(Record) /\ pushed # <<>> /\ pushed[1] = q
         /\ pushed[Len(pushed)] = p[Len(p)]
         /\ Chain(pushed)
<1> DEFINE pushed == <<q>> \o p
<1>1. /\ Len(p) \in Nat \ {0} /\ pushed \in Seq(Record) /\ Len(pushed) = Len(p) + 1
      /\ pushed[1] = q /\ \A j \in 1..Len(p) : pushed[j + 1] = p[j]
  OBVIOUS
<1>2. ASSUME NEW j \in 1..Len(pushed) - 1
      PROVE  parentIndex[pushed[j + 1]] = pushed[j]
  <2>1. CASE j = 1
    BY <1>1, <2>1
  <2>2. CASE j # 1
    <3>1. j - 1 \in 1..Len(p) - 1 /\ j \in 1..Len(p)
      BY <1>1, <1>2, <2>2
    <3>2. parentIndex[p[(j - 1) + 1]] = p[j - 1]
      BY <3>1 DEF Chain
    <3> QED
      BY <1>1, <3>1, <3>2
  <2> QED
    BY <2>1, <2>2
<1> QED
  BY <1>1, <1>2 DEF Chain

LEMMA InitStep == Init => IInv
BY PathAssumption DEF Init, IInv, TypeOK, Volume, Walk, Listed, NoFalseAlarm, MftRecord, ROOTDIRECTORY

LEMMA TypeStep == ASSUME IInv, [Next]_vars PROVE TypeOK'
<1> USE PathAssumption DEF IInv, TypeOK
<1>1. CASE UNCHANGED vars
  BY <1>1 DEF vars, reading, walking
<1>2. CASE ChangeVolume
  BY <1>2 DEF ChangeVolume, reading, walking
<1>3. CASE ReadRecord
  <2>1. PICK r \in unread : unread' = unread \ {r} /\
          IF disk[r] # Free
          THEN /\ parentIndex' = [parentIndex EXCEPT ![r] = disk[r]]
               /\ named' = IF r = MftRecord THEN named ELSE named \cup {r}
          ELSE UNCHANGED <<parentIndex, named>>
    BY <1>3 DEF ReadRecord
  <2>2. disk[r] \in Record \cup {Free}
    BY <2>1 DEF Volume
  <2>3. parentIndex' \in [Record -> Record]
    <3>1. CASE disk[r] # Free
      <4>1. disk[r] \in Record /\ parentIndex' = [parentIndex EXCEPT ![r] = disk[r]]
        BY <2>1, <2>2, <3>1
      <4> QED
        BY <4>1
    <3>2. CASE disk[r] = Free
      BY <2>1, <3>2
    <3> QED
      BY <3>1, <3>2
  <2>4. named' \subseteq Record /\ unread' \subseteq Record
    BY <2>1
  <2> QED
    BY <1>3, <2>3, <2>4 DEF ReadRecord, walking
<1>4. CASE BeginList
  BY <1>4 DEF BeginList, reading
<1>5. CASE PickNode
  <2>1. CASE unlisted = {}
    BY <1>5, <2>1 DEF PickNode, reading, walking
  <2>2. CASE unlisted # {}
    <3>1. PICK r \in unlisted :
          /\ unlisted' = unlisted \ {r} /\ node' = r /\ lastNode' = r /\ fullPathNodes' = <<r>>
          /\ pc' = "walk" /\ UNCHANGED <<fullName, parentIndex, named>>
      BY <1>5, <2>2 DEF PickNode, reading
    <3>2. r \in Record /\ fullPathNodes' \in Seq(Record)
      BY <3>1
    <3> QED
      BY <1>5, <3>1, <3>2 DEF PickNode, reading
  <2> QED
    BY <2>1, <2>2
<1>6. CASE Climb
  <2>1. <<parentIndex[node]>> \o fullPathNodes \in Seq(Record)
    OBVIOUS
  <2> QED
    BY <1>6, <2>1 DEF Climb, reading
<1>7. CASE DetectLoop
  BY <1>7 DEF DetectLoop, reading, walking
<1>8. CASE ReachRoot
  BY <1>8 DEF ReachRoot, reading
<1> QED
  BY <1>1, <1>2, <1>3, <1>4, <1>5, <1>6, <1>7, <1>8 DEF Next

LEMMA WalkStep == ASSUME IInv, [Next]_vars PROVE Walk'
<1>1. TypeOK /\ Walk
  BY DEF IInv
<1>2. CASE UNCHANGED vars
  BY <1>1, <1>2 DEF vars, reading, walking, Walk, Chain
<1>3. CASE ChangeVolume \/ ReadRecord \/ BeginList \/ DetectLoop \/ ReachRoot
  BY <1>3 DEF ChangeVolume, ReadRecord, BeginList, DetectLoop, ReachRoot, Walk
<1>4. CASE PickNode
  <2>1. pc' # "walk" \/ (node' \in Record /\ lastNode' = node' /\ fullPathNodes' = <<node'>>)
    BY <1>1, <1>4 DEF PickNode, TypeOK
  <2>2. ASSUME NEW r, fullPathNodes' = <<r>>
        PROVE  fullPathNodes' # <<>> /\ fullPathNodes'[1] = r /\ Chain(fullPathNodes)'
    BY <2>2 DEF Chain
  <2> QED
    BY <2>1, <2>2 DEF Walk
<1>5. CASE Climb
  <2>1. /\ fullPathNodes \in Seq(Record) /\ fullPathNodes # <<>> /\ fullPathNodes[1] = node
        /\ Chain(fullPathNodes) /\ parentIndex[node] \in Record
        /\ fullPathNodes' = <<parentIndex[node]>> \o fullPathNodes
        /\ node' = parentIndex[node] /\ lastNode' = node /\ parentIndex' = parentIndex
        /\ node' # ROOTDIRECTORY
    BY <1>1, <1>5 DEF Climb, Walk, TypeOK, reading
  <2>2. fullPathNodes' # <<>> /\ fullPathNodes'[1] = node'
        /\ \A j \in 1..Len(fullPathNodes') - 1 : parentIndex[fullPathNodes'[j + 1]] = fullPathNodes'[j]
    BY <1>1, <2>1, PushChain DEF Chain
  <2> QED
    BY <2>1, <2>2 DEF Walk, Chain
<1> QED
  BY <1>2, <1>3, <1>4, <1>5 DEF Next

LEMMA ListedStep == ASSUME IInv, [Next]_vars PROVE Listed'
<1>1. TypeOK /\ Walk /\ Listed
  BY DEF IInv
<1>2. CASE UNCHANGED vars
  BY <1>1, <1>2 DEF vars, reading, walking, Listed, IsPath
<1>3. CASE ChangeVolume \/ ReadRecord \/ BeginList \/ DetectLoop
  BY <1>3 DEF ChangeVolume, ReadRecord, BeginList, DetectLoop, Listed, reading, walking
<1>4. CASE PickNode
  <2>1. CASE unlisted = {}
    BY <1>1, <1>4, <2>1 DEF PickNode, Listed, IsPath, reading, walking
  <2>2. CASE unlisted # {}
    <3>1. PICK r \in unlisted :
          /\ unlisted' = unlisted \ {r} /\ node' = r /\ lastNode' = r /\ fullPathNodes' = <<r>>
          /\ pc' = "walk" /\ UNCHANGED <<fullName, parentIndex, named>>
      BY <1>4, <2>2 DEF PickNode, reading
    <3>2. fullPathNodes'[Len(fullPathNodes')] = r
      BY <3>1
    <3> QED
      BY <1>1, <1>4, <3>1, <3>2 DEF PickNode, Listed, IsPath
  <2> QED
    BY <2>1, <2>2
<1>5. CASE Climb
  <2>1. /\ fullPathNodes \in Seq(Record) /\ fullPathNodes # <<>> /\ fullPathNodes[1] = node
        /\ Chain(fullPathNodes) /\ parentIndex[node] \in Record
    BY <1>1, <1>5 DEF Climb, Walk, TypeOK
  <2>2. fullPathNodes'[Len(fullPathNodes')] = fullPathNodes[Len(fullPathNodes)]
    BY <1>1, <1>5, <2>1, PushChain DEF Climb
  <2> QED
    BY <1>1, <1>5, <2>2 DEF Climb, Listed, IsPath, reading
<1>6. CASE ReachRoot
  <2>1. /\ fullPathNodes \in Seq(Record) /\ fullPathNodes # <<>> /\ fullPathNodes[1] = node
        /\ Chain(fullPathNodes) /\ parentIndex[node] = ROOTDIRECTORY /\ pc = "walk"
    BY <1>1, <1>6 DEF ReachRoot, Walk, TypeOK
  <2>2. PICK last \in Record : last = fullPathNodes[Len(fullPathNodes)]
    BY <2>1
  <2>3. IsPath(fullPathNodes, last, parentIndex)
    BY <2>1, <2>2 DEF IsPath, Chain
  <2>4. fullName' = [fullName EXCEPT ![last] = fullPathNodes] /\ UNCHANGED <<parentIndex, named, unlisted>>
        /\ pc' = "pick"
    BY <1>6, <2>2 DEF ReachRoot, reading
  <2>5. ASSUME NEW r \in named
        PROVE  r \in unlisted \/ IsPath(fullName'[r], r, parentIndex)
    <3>1. CASE r = last
      BY <1>1, <2>3, <2>4, <3>1 DEF TypeOK
    <3>2. CASE r # last
      BY <1>1, <2>1, <2>2, <2>4, <2>5, <3>2 DEF Listed, TypeOK
    <3> QED
      BY <3>1, <3>2
  <2> QED
    BY <2>4, <2>5 DEF Listed, IsPath
<1> QED
  BY <1>2, <1>3, <1>4, <1>5, <1>6 DEF Next

LEMMA AlarmStep == ASSUME IInv, [Next]_vars PROVE NoFalseAlarm'
<1>1. TypeOK /\ Walk /\ NoFalseAlarm
  BY DEF IInv
<1>2. CASE UNCHANGED vars
  BY <1>1, <1>2 DEF vars, reading, walking, NoFalseAlarm, Loop
<1>3. CASE ChangeVolume \/ ReadRecord \/ BeginList \/ PickNode \/ Climb \/ ReachRoot
  BY <1>3 DEF ChangeVolume, ReadRecord, BeginList, PickNode, Climb, ReachRoot, NoFalseAlarm
<1>4. CASE DetectLoop
  <2>1. parentIndex[node] = lastNode /\ (lastNode = node \/ parentIndex[lastNode] = node)
        /\ parentIndex' = parentIndex /\ node \in Record /\ lastNode \in Record
        /\ node # ROOTDIRECTORY /\ lastNode # ROOTDIRECTORY
    BY <1>1, <1>4 DEF DetectLoop, Walk, TypeOK, reading
  <2> QED
    BY <2>1 DEF NoFalseAlarm, Loop
<1> QED
  BY <1>2, <1>3, <1>4 DEF Next

LEMMA UnlistedStep ==
  ASSUME IInv, [Next]_vars
  PROVE  (pc' = "listed" => unlisted' = {}) /\ (pc' = "read" => unlisted' = {})
BY DEF IInv, Next, vars, reading, walking, ChangeVolume, ReadRecord, BeginList, PickNode, Climb,
       DetectLoop, ReachRoot

LEMMA QuietStep == ASSUME IInv, [Next]_vars PROVE Quiet'
<1>1. TypeOK /\ Walk /\ Quiet /\ UNCHANGED Record
  BY DEF IInv
<1>2. CASE UNCHANGED vars
  BY <1>1, <1>2 DEF vars, reading, walking, Quiet, Chain
<1>3. CASE ChangeVolume \/ BeginList \/ DetectLoop
  BY <1>1, <1>3 DEF ChangeVolume, BeginList, DetectLoop, Quiet, Chain, reading, walking
<1>4. CASE ReadRecord
  <2>1. PICK r \in unread : unread' = unread \ {r} /\ named' \in {named, named \cup {r}}
                         /\ (parentIndex' = parentIndex \/ parentIndex' = [parentIndex EXCEPT ![r] = disk[r]])
    BY <1>4 DEF ReadRecord
  <2>2. fullPathNodes = <<>> /\ UNCHANGED <<pc, walking>> /\ pc = "read"
    BY <1>1, <1>4 DEF ReadRecord, Quiet
  <2>3. Chain(fullPathNodes)'
    BY <2>2 DEF walking, Chain
  <2>4. \A s \in unread' : parentIndex'[s] = MftRecord
    BY <1>1, <2>1 DEF Quiet, TypeOK
  <2>5. \A s \in Record \ named' : fullName'[s] = <<>>
    BY <1>1, <2>1, <2>2 DEF Quiet, walking
  <2>6. named' \cap unread' = {} /\ unlisted' \subseteq named'
    BY <1>1, <2>1, <2>2 DEF Quiet, walking
  <2> QED
    BY <1>1, <2>2, <2>3, <2>4, <2>5, <2>6 DEF Quiet, walking
<1>5. CASE PickNode
  <2>1. CASE unlisted = {}
    BY <1>1, <1>5, <2>1 DEF PickNode, Quiet, Chain, reading, walking
  <2>2. CASE unlisted # {}
    <3>1. PICK r \in unlisted :
          /\ unlisted' = unlisted \ {r} /\ fullPathNodes' = <<r>>
          /\ pc' = "walk" /\ UNCHANGED <<fullName, parentIndex, named, unread>>
      BY <1>5, <2>2 DEF PickNode, reading
    <3>2. Len(fullPathNodes') = 1 /\ fullPathNodes'[1] = r
      BY <3>1
    <3>3. pc # "read"
      BY <1>5 DEF PickNode
    <3> QED
      BY <1>1, <3>1, <3>2, <3>3 DEF Quiet, Chain
  <2> QED
    BY <2>1, <2>2
<1>6. CASE Climb
  <2>1. /\ fullPathNodes \in Seq(Record) /\ fullPathNodes # <<>> /\ fullPathNodes[1] = node
        /\ Chain(fullPathNodes) /\ parentIndex[node] \in Record
        /\ fullPathNodes' = <<parentIndex[node]>> \o fullPathNodes
        /\ parentIndex[node] # ROOTDIRECTORY /\ pc' = "walk" /\ pc = "walk"
        /\ UNCHANGED <<named, unread, unlisted, parentIndex, fullName>>
    BY <1>1, <1>6 DEF Climb, Walk, TypeOK, reading
  <2>2. fullPathNodes'[Len(fullPathNodes')] = fullPathNodes[Len(fullPathNodes)]
        /\ \A j \in 1..Len(fullPathNodes') - 1 : parentIndex[fullPathNodes'[j + 1]] = fullPathNodes'[j]
    BY <1>1, <2>1, PushChain DEF Chain
  <2>3. Chain(fullPathNodes)'
    BY <2>1, <2>2 DEF Chain
  <2>4. ASSUME NEW j \in 1..Len(fullPathNodes') - 1
        PROVE  fullPathNodes'[j] # ROOTDIRECTORY
    <3>1. CASE j = 1
      BY <2>1, <3>1
    <3>2. CASE j # 1
      <4>1. j - 1 \in 1..Len(fullPathNodes) - 1 /\ fullPathNodes'[j] = fullPathNodes[j - 1]
        BY <2>1, <3>2
      <4> QED
        BY <1>1, <4>1 DEF Quiet
    <3> QED
      BY <3>1, <3>2
  <2> QED
    BY <1>1, <2>1, <2>2, <2>3, <2>4 DEF Quiet
<1>7. CASE ReachRoot
  <2>1. PICK last : last = fullPathNodes[Len(fullPathNodes)] /\ last \in named
                    /\ fullName' = [fullName EXCEPT ![last] = fullPathNodes]
    BY <1>1, <1>7 DEF ReachRoot, Quiet
  <2>2. UNCHANGED <<named, unread, unlisted, parentIndex, fullPathNodes>> /\ pc' = "pick" /\ pc = "walk"
    BY <1>7 DEF ReachRoot, reading
  <2>3. Chain(fullPathNodes)'
    BY <1>1, <2>2 DEF Quiet, Chain
  <2>4. \A r \in Record \ named : fullName'[r] = <<>>
    BY <1>1, <2>1 DEF Quiet, TypeOK
  <2> QED
    BY <1>1, <2>2, <2>3, <2>4 DEF Quiet
<1> QED
  BY <1>2, <1>3, <1>4, <1>5, <1>6, <1>7 DEF Next

-----------------------------------------------------------------------------
(* What is read while the volume changes at most once is one tree. *)

\* The last three parts of OneTree.
OfTree(d) ==
  /\ AsRead(d)
  /\ \A j \in 1..Len(fullPathNodes) : fullPathNodes[j] \in InUse(d)
  /\ \A r \in Record : \A j \in 1..Len(fullName[r]) : fullName[r][j] \in InUse(d)

NowOrBefore(d) ==
  d = disk \/ (changes = 1 /\ \E x \in Record \ unread : \A r \in Record \ {x} : d[r] = disk[r])

LEMMA TreeParents ==
  ASSUME NEW d \in Volume, NEW r \in InUse(d)
  PROVE  r \in Record /\ d[r] \in InUse(d) /\ d[r] # MftRecord /\ d[MftRecord] = ROOTDIRECTORY
         /\ d[ROOTDIRECTORY] = ROOTDIRECTORY
BY DEF Volume, IsTree, InUse

LEMMA OneTreeStep == ASSUME IInv, [Next]_vars PROVE OneTree'
<1>1. TypeOK /\ Walk /\ Quiet /\ OneTree /\ TypeOK'
  BY TypeStep DEF IInv
<1> SUFFICES ASSUME changes' <= 1
             PROVE  \E d \in Volume : NowOrBefore(d)' /\ OfTree(d)'
  BY DEF OneTree, NowOrBefore, OfTree
<1>2. changes <= 1 /\ changes \in Nat /\ changes' \in Nat
  BY <1>1, PathAssumption DEF Next, vars, TypeOK, ChangeVolume, ReadRecord, BeginList, PickNode,
     Climb, DetectLoop, ReachRoot
<1>3. PICK d \in Volume : NowOrBefore(d) /\ OfTree(d)
  BY <1>1, <1>2 DEF OneTree, NowOrBefore, OfTree
<1>4. CASE ChangeVolume
  <2>1. PICK x \in Record, p \in Record \cup {Free} :
          disk' = [disk EXCEPT ![x] = p] /\ disk' \in Volume /\ changes' = changes + 1
          /\ UNCHANGED <<reading, walking>>
    BY <1>4 DEF ChangeVolume
  <2>2. changes = 0 /\ d = disk /\ changes' = 1
    BY <1>2, <1>3, <2>1 DEF NowOrBefore
  <2>3. \A r \in Record \ {x} : disk'[r] = disk[r]
    BY <1>1, <2>1 DEF TypeOK, Volume
  <2>4. fullPathNodes = <<>> /\ \A r \in Record : fullName[r] = <<>>
    BY <1>1, <1>4 DEF Quiet, ChangeVolume
  <2>5. CASE x \in unread
    <3>1. PICK e \in Volume : e = disk'
      BY <2>1
    <3>2. \A r \in Record \ unread : e[r] = d[r]
      BY <2>2, <2>3, <2>5, <3>1
    <3>3. AsRead(e)'
      BY <1>3, <2>1, <3>2 DEF AsRead, OfTree, reading
    <3>4. NowOrBefore(e)'
      BY <3>1 DEF NowOrBefore
    <3>5. OfTree(e)'
      BY <2>1, <2>4, <3>3 DEF OfTree, walking
    <3> QED
      BY <3>4, <3>5
  <2>6. CASE x \notin unread
    <3>1. NowOrBefore(d)'
      BY <2>1, <2>2, <2>3, <2>6 DEF NowOrBefore, reading
    <3>2. OfTree(d)'
      BY <1>3, <2>1 DEF OfTree, AsRead, reading, walking
    <3> QED
      BY <3>1, <3>2
  <2> QED
    BY <2>5, <2>6
<1>5. CASE ReadRecord
  <2>1. PICK r \in unread : unread' = unread \ {r} /\
          IF disk[r] # Free
          THEN /\ parentIndex' = [parentIndex EXCEPT ![r] = disk[r]]
               /\ named' = IF r = MftRecord THEN named ELSE named \cup {r}
          ELSE UNCHANGED <<parentIndex, named>>
    BY <1>5 DEF ReadRecord
  <2>2. r \in Record /\ d[r] = disk[r] /\ r \notin named /\ parentIndex[r] = MftRecord
    BY <1>1, <1>3, <2>1 DEF NowOrBefore, Quiet, TypeOK
  <2>3. UNCHANGED <<disk, changes, walking>>
    BY <1>5 DEF ReadRecord
  <2>4. NowOrBefore(d)'
    BY <1>3, <2>1, <2>3 DEF NowOrBefore
  <2>5. ASSUME NEW s \in Record \ unread'
        PROVE  IF d[s] = Free THEN s \notin named' /\ parentIndex'[s] = MftRecord
               ELSE parentIndex'[s] = d[s] /\ (s \in named' <=> s # MftRecord)
    <3>1. CASE s = r
      <4>1. CASE d[r] = Free
        BY <2>1, <2>2, <3>1, <4>1
      <4>2. CASE d[r] # Free
        BY <1>1, <2>1, <2>2, <3>1, <4>2 DEF TypeOK
      <4> QED
        BY <4>1, <4>2
    <3>2. CASE s # r
      <4>1. s \in Record \ unread /\ (s \in named' <=> s \in named)
        BY <2>1, <3>2
      <4>2. parentIndex'[s] = parentIndex[s]
        BY <1>1, <2>1, <3>2 DEF TypeOK
      <4> QED
        BY <1>3, <4>1, <4>2 DEF OfTree, AsRead
    <3> QED
      BY <3>1, <3>2
  <2>6. AsRead(d)'
    BY <2>5 DEF AsRead
  <2>7. OfTree(d)'
    BY <1>3, <2>3, <2>6 DEF OfTree, walking
  <2> QED
    BY <2>4, <2>7
<1>6. CASE UNCHANGED vars \/ BeginList \/ DetectLoop
  BY <1>3, <1>6 DEF vars, BeginList, DetectLoop, NowOrBefore, OfTree, AsRead, reading, walking
<1>7. CASE PickNode \/ Climb \/ ReachRoot
  <2>1. UNCHANGED <<disk, changes, unread, parentIndex, named>> /\ unread = {}
    BY <1>1, <1>7 DEF PickNode, Climb, ReachRoot, reading, Quiet
  <2>2. NowOrBefore(d)' /\ AsRead(d)'
    BY <1>3, <2>1 DEF NowOrBefore, OfTree, AsRead
  <2>3. \A r \in named : r \in InUse(d)
    BY <1>1, <1>3, <2>1 DEF OfTree, AsRead, InUse, TypeOK
  <2>4. \A j \in 1..Len(fullPathNodes') : fullPathNodes'[j] \in InUse(d)
    <3>1. CASE PickNode
      <4>1. fullPathNodes' = fullPathNodes \/ \E r \in unlisted : fullPathNodes' = <<r>>
        BY <3>1 DEF PickNode, walking
      <4> QED
        BY <1>1, <1>3, <2>3, <4>1 DEF OfTree, Quiet
    <3>2. CASE Climb
      <4>1. /\ fullPathNodes \in Seq(Record) /\ fullPathNodes # <<>> /\ fullPathNodes[1] = node
            /\ fullPathNodes' = <<parentIndex[node]>> \o fullPathNodes
        BY <1>1, <3>2 DEF Climb, Walk, TypeOK
      <4>2. node \in InUse(d)
        BY <1>3, <4>1 DEF OfTree
      <4>3. parentIndex[node] = d[node]
        BY <1>3, <2>1, <4>2 DEF OfTree, AsRead, InUse
      <4>4. parentIndex[node] \in InUse(d)
        BY <4>2, <4>3, TreeParents
      <4>5. /\ parentIndex[node] \in Record /\ Len(fullPathNodes) \in Nat
            /\ Len(fullPathNodes') = Len(fullPathNodes) + 1 /\ fullPathNodes'[1] = parentIndex[node]
        BY <4>1, <4>4 DEF InUse
      <4>6. ASSUME NEW j \in 1..Len(fullPathNodes'), j # 1
            PROVE  fullPathNodes'[j] \in InUse(d)
        <5>1. j - 1 \in 1..Len(fullPathNodes)
          BY <4>5, <4>6
        <5>2. fullPathNodes'[j] = fullPathNodes[j - 1]
          BY <4>1, <4>5, <5>1
        <5> QED
          BY <1>3, <5>1, <5>2 DEF OfTree
      <4> QED
        BY <4>4, <4>5, <4>6
    <3>3. CASE ReachRoot
      BY <1>3, <3>3 DEF ReachRoot, OfTree
    <3> QED
      BY <1>7, <3>1, <3>2, <3>3
  <2>5. \A r \in Record : \A j \in 1..Len(fullName'[r]) : fullName'[r][j] \in InUse(d)
    <3>1. CASE PickNode \/ Climb
      BY <1>3, <3>1 DEF PickNode, Climb, walking, OfTree
    <3>2. CASE ReachRoot
      <4>1. \A r \in Record : fullName'[r] = fullName[r] \/ fullName'[r] = fullPathNodes
        BY <1>1, <3>2 DEF ReachRoot, TypeOK
      <4> QED
        BY <1>3, <4>1 DEF OfTree
    <3> QED
      BY <1>7, <3>1, <3>2
  <2> QED
    BY <2>2, <2>4, <2>5 DEF OfTree
<1> QED
  BY <1>4, <1>5, <1>6, <1>7 DEF Next

(* The invariant of the walks. *)
THEOREM Invariance == Spec => []IInv
<1>1. IInv /\ [Next]_vars => IInv'
  BY TypeStep, WalkStep, ListedStep, QuietStep, OneTreeStep, AlarmStep, UnlistedStep DEF IInv
<1> QED
  BY InitStep, <1>1, PTL DEF Spec

(* Every variable keeps its type. *)
THEOREM TypeCorrect == Spec => []TypeOK
<1>1. IInv => TypeOK
  BY DEF IInv
<1> QED
  BY <1>1, Invariance, PTL

(* GetNodeFullNameCore throws only where two nodes name each other as parent. *)
THEOREM AlarmsAreTrue == Spec => []NoFalseAlarm
<1>1. IInv => NoFalseAlarm
  BY DEF IInv
<1> QED
  BY <1>1, Invariance, PTL

(* However the volume changes, a finished list has every record that was in *)
(* use when it was read, under a path of the parents that were read.        *)
THEOREM EverybodyListed == Spec => []NobodyLost
<1>1. IInv => NobodyLost
  BY DEF IInv, Listed, NobodyLost
<1> QED
  BY <1>1, Invariance, PTL

-----------------------------------------------------------------------------
(* What follows from the one tree. *)

\* The parents in a tree that meet again on the way up would be a set without a way out.
LEMMA NoReturn ==
  ASSUME NEW d \in Volume, NEW p \in Seq(InUse(d)),
         \A j \in 1..Len(p) - 1 : d[p[j + 1]] = p[j] /\ p[j] # ROOTDIRECTORY,
         NEW a \in 1..Len(p), NEW b \in 1..Len(p), a < b
  PROVE  p[a] # p[b]
<1> SUFFICES ASSUME p[a] = p[b] PROVE FALSE
  OBVIOUS
<1> DEFINE S == {p[j] : j \in a..b - 1}
<1>1. S \in SUBSET (InUse(d) \ {ROOTDIRECTORY}) /\ S # {}
  OBVIOUS
<1>2. ASSUME NEW j \in a..b - 1
      PROVE  d[p[j]] \in S
  <2>1. CASE j = a
    <3>1. b - 1 \in 1..Len(p) - 1 /\ (b - 1) + 1 = b /\ b - 1 \in a..b - 1
      OBVIOUS
    <3>2. d[p[b]] = p[b - 1]
      BY <3>1
    <3> QED
      BY <2>1, <3>1, <3>2
  <2>2. CASE j # a
    <3>1. j - 1 \in 1..Len(p) - 1 /\ (j - 1) + 1 = j /\ j - 1 \in a..b - 1
      BY <2>2
    <3>2. d[p[j]] = p[j - 1]
      BY <3>1
    <3> QED
      BY <3>1, <3>2
  <2> QED
    BY <2>1, <2>2
<1>3. PICK r \in S : d[r] \notin S
  BY <1>1 DEF Volume, IsTree
<1> QED
  BY <1>2, <1>3

(* One change of the volume during the scan, at any moment and of any      *)
(* record, stops no walk and sends none round.                             *)
THEOREM OneChange == Spec => []OneChangeHarmless
<1>1. ASSUME IInv PROVE OneChangeHarmless
  <2>1. TypeOK /\ Quiet /\ OneTree /\ NoFalseAlarm
    BY <1>1 DEF IInv
  <2> SUFFICES ASSUME changes <= 1
               PROVE  /\ pc # "thrown"
                      /\ \A i, j \in 1..Len(fullPathNodes) : i # j => fullPathNodes[i] # fullPathNodes[j]
    BY DEF OneChangeHarmless
  <2>2. PICK d \in Volume : OfTree(d)
    BY <2>1 DEF OneTree, OfTree
  <2>3. fullPathNodes \in Seq(InUse(d))
    <3>1. Len(fullPathNodes) \in Nat /\ fullPathNodes \in [1..Len(fullPathNodes) -> InUse(d)]
      BY <2>1, <2>2 DEF OfTree, TypeOK
    <3> QED
      BY <3>1, SeqDef
  <2>4. ASSUME NEW j \in 1..Len(fullPathNodes) - 1
        PROVE  d[fullPathNodes[j + 1]] = fullPathNodes[j] /\ fullPathNodes[j] # ROOTDIRECTORY
    <3>1. j \in 1..Len(fullPathNodes) /\ j + 1 \in 1..Len(fullPathNodes) /\ unread = {}
      BY <2>1 DEF TypeOK, Quiet
    <3>2. fullPathNodes[j + 1] \in InUse(d)
      BY <2>2, <3>1 DEF OfTree
    <3>3. parentIndex[fullPathNodes[j + 1]] = d[fullPathNodes[j + 1]]
      BY <2>2, <3>1, <3>2 DEF OfTree, AsRead, InUse
    <3> QED
      BY <2>1, <3>3 DEF Quiet, Chain
  <2>5. ASSUME NEW i \in 1..Len(fullPathNodes), NEW j \in 1..Len(fullPathNodes), i # j
        PROVE  fullPathNodes[i] # fullPathNodes[j]
    <3>1. i < j \/ j < i
      BY <2>5, <2>3
    <3> QED
      BY <2>2, <2>3, <2>4, <3>1, NoReturn
  <2>6. ASSUME pc = "thrown" PROVE FALSE
    <3>1. PICK a \in Record \ {ROOTDIRECTORY}, b \in Record \ {ROOTDIRECTORY} : Loop(a, b)
      BY <2>1, <2>6 DEF NoFalseAlarm
    <3>2. unread = {}
      BY <2>1, <2>6 DEF Quiet
    <3>3. parentIndex[MftRecord] = ROOTDIRECTORY /\ MftRecord \in Record
      <4>1. d[MftRecord] = ROOTDIRECTORY /\ MftRecord \in Record
        BY <2>2, PathAssumption DEF Volume, IsTree
      <4>2. ROOTDIRECTORY # Free
        BY DEF Free, ROOTDIRECTORY
      <4> QED
        BY <2>2, <3>2, <4>1, <4>2 DEF OfTree, AsRead
    <3>4. ASSUME NEW r \in {a, b}
          PROVE  r \in InUse(d) /\ d[r] \in {a, b}
      <4>1. parentIndex[r] \in {a, b} \ {ROOTDIRECTORY} /\ parentIndex[parentIndex[r]] = r
        BY <3>1, <3>4 DEF Loop
      <4>2. d[r] # Free
        BY <2>2, <3>1, <3>2, <3>3, <3>4, <4>1 DEF OfTree, AsRead
      <4> QED
        BY <2>2, <3>1, <3>2, <4>1, <4>2 DEF OfTree, AsRead, InUse
    <3>5. {a, b} \in SUBSET (InUse(d) \ {ROOTDIRECTORY}) /\ {a, b} # {}
      BY <3>1, <3>4
    <3>6. PICK r \in {a, b} : d[r] \notin {a, b}
      BY <2>2, <3>5 DEF Volume, IsTree
    <3> QED
      BY <3>4, <3>6
  <2> QED
    BY <2>5, <2>6
<1> QED
  BY <1>1, Invariance, PTL

(* On a volume that nobody changes, the finished list is exact: every      *)
(* record in use but $MFT under its path on the volume, and no other.      *)
THEOREM QuietExact == Spec => []QuietVolumeExact
<1>1. ASSUME IInv PROVE QuietVolumeExact
  <2>1. TypeOK /\ Quiet /\ OneTree /\ Listed
    BY <1>1 DEF IInv
  <2> SUFFICES ASSUME pc = "listed", changes = 0, NEW r \in Record
               PROVE  IF r \in InUse(disk) \ {MftRecord} THEN IsPath(fullName[r], r, disk)
                      ELSE fullName[r] = <<>>
    BY DEF QuietVolumeExact
  <2>2. OfTree(disk) /\ disk \in Volume
    BY <2>1 DEF OneTree, OfTree, TypeOK
  <2>3. unread = {} /\ unlisted = {}
    BY <1>1, <2>1 DEF Quiet, IInv
  <2>4. r \in named <=> r \in InUse(disk) \ {MftRecord}
    BY <2>2, <2>3 DEF OfTree, AsRead, InUse
  <2>5. CASE r \notin named
    BY <2>1, <2>4, <2>5 DEF Quiet
  <2>6. CASE r \in named
    <3> DEFINE p == fullName[r]
    <3>1. IsPath(p, r, parentIndex) /\ p \in Seq(Record)
      BY <2>1, <2>3, <2>6 DEF Listed, TypeOK
    <3>2. \A j \in 1..Len(p) : p[j] \in InUse(disk)
      BY <2>2 DEF OfTree
    <3>3. \A j \in 1..Len(p) : disk[p[j]] = parentIndex[p[j]]
      BY <2>2, <2>3, <3>2 DEF OfTree, AsRead, InUse
    <3>4. Len(p) \in Nat \ {0} /\ 1 \in 1..Len(p)
          /\ \A j \in 1..Len(p) - 1 : j + 1 \in 1..Len(p)
      BY <3>1 DEF IsPath
    <3>5. disk[p[1]] = ROOTDIRECTORY
      BY <3>1, <3>3, <3>4 DEF IsPath
    <3>6. ASSUME NEW j \in 1..Len(p) - 1
          PROVE  disk[p[j + 1]] = p[j]
      BY <3>1, <3>3, <3>4 DEF IsPath
    <3>7. IsPath(p, r, disk)
      BY <3>1, <3>5, <3>6 DEF IsPath
    <3> QED
      BY <2>4, <2>6, <3>7
  <2> QED
    BY <2>5, <2>6
<1> QED
  BY <1>1, Invariance, PTL
=============================================================================
