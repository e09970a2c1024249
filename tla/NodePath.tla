------------------------------- MODULE NodePath -------------------------------
(***************************************************************************)
(* Names out of the Master File Table.  NtfsReader reads the records of a  *)
(* volume one after the other while the volume is in use, keeps the parent *)
(* number of each, and GetNodes then walks the parents of every named node *)
(* up to the root directory.  A parent read before, and one read after, a  *)
(* rename need not belong to one tree.                                     *)
(***************************************************************************)
EXTENDS Integers, Sequences

CONSTANTS
  Record,      \* the record numbers, $MFT and the root directory among them
  MaxChanges,  \* bound: the changes of the volume during the scan
  MaxDepth     \* bound: the memory for the stack of a walk

MftRecord     == 0
ROOTDIRECTORY == 5
Free          == -1   \* on disk: the record is not in use

ASSUME PathAssumption ==
  /\ Record \subseteq Nat /\ {MftRecord, ROOTDIRECTORY} \subseteq Record
  /\ MaxChanges \in Nat /\ MaxDepth \in Nat

VARIABLES
  disk,          \* the parent of each record on the volume, or Free
  changes,       \* the changes made since the scan began
  pc,            \* "read", "pick", "walk", "thrown" or "listed"
  unread,        \* the records that have not been read
  parentIndex,   \* _nodes[r].ParentNodeIndex
  named,         \* the records with _nodes[r].NameIndex # 0
  unlisted,      \* the named nodes GetNodes has not come to
  node, lastNode, fullPathNodes,   \* the locals of GetNodeFullNameCore
  fullName       \* the nodes of the full name of each listed node, from the root

reading == <<unread, parentIndex, named>>
walking == <<unlisted, node, lastNode, fullPathNodes, fullName>>
vars == <<disk, changes, pc, reading, walking>>

-----------------------------------------------------------------------------
(* The volume, which other programs change. *)

InUse(d) == {r \in Record : d[r] # Free}

\* Every parent is in use, and nothing is its own ancestor but the root.
IsTree(d) ==
  /\ {d[r] : r \in InUse(d)} \subseteq InUse(d) \ {MftRecord}
  /\ d[ROOTDIRECTORY] = ROOTDIRECTORY /\ d[MftRecord] = ROOTDIRECTORY
  /\ \A S \in SUBSET (InUse(d) \ {ROOTDIRECTORY}) : S # {} => \E r \in S : d[r] \notin S

Volume == {d \in [Record -> Record \cup {Free}] : IsTree(d)}

\* A record is created, moved to another directory, or deleted.
ChangeVolume ==
  /\ pc = "read" /\ changes < MaxChanges
  /\ \E r \in Record, p \in Record \cup {Free} :
       /\ p # disk[r]
       /\ disk' = [disk EXCEPT ![r] = p]
       /\ disk' \in Volume
  /\ changes' = changes + 1
  /\ UNCHANGED <<pc, reading, walking>>

-----------------------------------------------------------------------------
TypeOK ==
  /\ disk \in Volume /\ changes \in 0..MaxChanges
  /\ pc \in {"read", "pick", "walk", "thrown", "listed"}
  /\ unread \subseteq Record /\ named \subseteq Record /\ unlisted \subseteq Record
  /\ parentIndex \in [Record -> Record]
  /\ node \in Record /\ lastNode \in Record /\ fullPathNodes \in Seq(Record)
  /\ fullName \in [Record -> Seq(Record)]

Init ==
  /\ disk \in Volume /\ changes = 0
  /\ pc = "read" /\ unread = Record
  /\ parentIndex = [r \in Record |-> 0] /\ named = {}   \* new Node[maxInode]
  /\ unlisted = {} /\ node = 0 /\ lastNode = 0 /\ fullPathNodes = <<>>
  /\ fullName = [r \in Record |-> <<>>]

\* Mutant of ReadRecord: it does not look whether the record is in use.
ReadEveryRecord ==
  /\ pc = "read"
  /\ \E r \in unread :
       /\ \A other \in unread : r <= other
       /\ unread' = unread \ {r}
       /\ named' = named \cup {r}
       /\ parentIndex' = [parentIndex EXCEPT ![r] = IF disk[r] = Free THEN 0 ELSE disk[r]]
  /\ UNCHANGED <<disk, changes, pc, walking>>

\* GetNameIndex gives the first name of all, that of $MFT, the index 0, which
\* means "no name".
ReadRecord ==
  /\ pc = "read"
  /\ \E r \in unread :
       /\ \A other \in unread : r <= other
       /\ unread' = unread \ {r}
       /\ IF disk[r] # Free
          THEN /\ parentIndex' = [parentIndex EXCEPT ![r] = disk[r]]
               /\ named' = IF r = MftRecord THEN named ELSE named \cup {r}
          ELSE UNCHANGED <<parentIndex, named>>
  /\ UNCHANGED <<disk, changes, pc, walking>>

BeginList ==
  /\ pc = "read" /\ unread = {}
  /\ pc' = "pick" /\ unlisted' = named
  /\ UNCHANGED <<disk, changes, reading, node, lastNode, fullPathNodes, fullName>>

\* Mutant of PickNode: lastNode keeps its value from the walk before.
PickNodeOnly ==
  /\ pc = "pick"
  /\ IF unlisted = {} THEN pc' = "listed" /\ UNCHANGED walking
     ELSE \E r \in unlisted :
            /\ \A other \in unlisted : r <= other
            /\ unlisted' = unlisted \ {r}
            /\ node' = r /\ fullPathNodes' = <<r>>
            /\ pc' = "walk"
            /\ UNCHANGED <<fullName, lastNode>>
  /\ UNCHANGED <<disk, changes, reading>>

\* GetNodes: the next node with a name.
PickNode ==
  /\ pc = "pick"
  /\ IF unlisted = {} THEN pc' = "listed" /\ UNCHANGED walking
     ELSE \E r \in unlisted :
            /\ \A other \in unlisted : r <= other
            /\ unlisted' = unlisted \ {r}
            /\ node' = r /\ lastNode' = r /\ fullPathNodes' = <<r>>
            /\ pc' = "walk"
            /\ UNCHANGED fullName
  /\ UNCHANGED <<disk, changes, reading>>

\* Mutants of Climb: the node is pushed and not its parent; the node is not replaced.
ClimbPushingSelf ==
  LET parent == parentIndex[node] IN
  /\ pc = "walk" /\ parent # ROOTDIRECTORY /\ parent # lastNode /\ Len(fullPathNodes) < MaxDepth
  /\ fullPathNodes' = <<node>> \o fullPathNodes
  /\ lastNode' = node /\ node' = parent
  /\ UNCHANGED <<disk, changes, pc, reading, unlisted, fullName>>

ClimbInPlace ==
  LET parent == parentIndex[node] IN
  /\ pc = "walk" /\ parent # ROOTDIRECTORY /\ parent # lastNode /\ Len(fullPathNodes) < MaxDepth
  /\ fullPathNodes' = <<parent>> \o fullPathNodes
  /\ lastNode' = node /\ UNCHANGED node
  /\ UNCHANGED <<disk, changes, pc, reading, unlisted, fullName>>

\* One turn of the loop of GetNodeFullNameCore; the top of the stack is its head.
Climb ==
  LET parent == parentIndex[node] IN
  /\ pc = "walk" /\ parent # ROOTDIRECTORY /\ parent # lastNode /\ Len(fullPathNodes) < MaxDepth
  /\ fullPathNodes' = <<parent>> \o fullPathNodes
  /\ lastNode' = node /\ node' = parent
  /\ UNCHANGED <<disk, changes, pc, reading, unlisted, fullName>>

\* InvalidDataException, which nobody up to the task of the scan catches.
DetectLoop ==
  /\ pc = "walk" /\ parentIndex[node] # ROOTDIRECTORY /\ parentIndex[node] = lastNode
  /\ pc' = "thrown"
  /\ UNCHANGED <<disk, changes, reading, walking>>

\* The root: the names are popped into the path, and the node is added.
ReachRoot ==
  /\ pc = "walk" /\ parentIndex[node] = ROOTDIRECTORY
  /\ fullName' = [fullName EXCEPT ![fullPathNodes[Len(fullPathNodes)]] = fullPathNodes]
  /\ pc' = "pick"
  /\ UNCHANGED <<disk, changes, reading, unlisted, node, lastNode, fullPathNodes>>

Next ==
  ChangeVolume \/ ReadRecord \/ BeginList \/ PickNode \/ Climb \/ DetectLoop \/ ReachRoot

Scan == ReadRecord \/ BeginList \/ PickNode \/ Climb \/ DetectLoop \/ ReachRoot

Spec     == Init /\ [][Next]_vars
FairSpec == Spec /\ WF_vars(Scan)

-----------------------------------------------------------------------------
\* p leads from the root directory down to r, each node in the one before it.
IsPath(p, r, parents) ==
  /\ p # <<>> /\ p[Len(p)] = r /\ parents[p[1]] = ROOTDIRECTORY
  /\ \A j \in 1..Len(p) - 1 : parents[p[j + 1]] = p[j]

(* On a volume that nobody changes, exactly the records in use, $MFT       *)
(* excepted, are listed, each under its path.                              *)
QuietVolumeExact ==
  pc = "listed" /\ changes = 0 =>
    \A r \in Record :
      IF r \in InUse(disk) \ {MftRecord} THEN IsPath(fullName[r], r, disk)
                                         ELSE fullName[r] = <<>>

(* Whatever happened to the volume, a finished list holds every record     *)
(* that was in use when it was read, under a path of parents as they were  *)
(* read; a directory that was gone by then does not lose its files.        *)
NobodyLost ==
  pc = "listed" => \A r \in named : IsPath(fullName[r], r, parentIndex)

(* "Detected a loop" is true: the exception is thrown only where two nodes *)
(* below the root name each other as read, or one names itself.            *)
Loop(a, b) == parentIndex[a] = b /\ parentIndex[b] = a

NoFalseAlarm ==
  pc = "thrown" => \E a, b \in Record \ {ROOTDIRECTORY} : Loop(a, b)

(* One change of the volume during a scan is harmless: it takes two to     *)
(* make parents read at different times into a loop.                       *)
OneChangeHarmless ==
  changes <= 1 =>
    /\ pc # "thrown"
    /\ \A i, j \in 1..Len(fullPathNodes) : i # j => fullPathNodes[i] # fullPathNodes[j]

(* If the volume changes at most once, every node gets its name. *)
WalksEnd == [](changes <= 1) => <>(pc = "listed")

-----------------------------------------------------------------------------
(* The inductive invariant: the stack is the chain of parents from the     *)
(* current node, its head, down to the node whose name is wanted.          *)
Chain(p) == \A j \in 1..Len(p) - 1 : parentIndex[p[j + 1]] = p[j]

Walk ==
  pc = "walk" =>
    /\ fullPathNodes # <<>> /\ fullPathNodes[1] = node
    /\ Chain(fullPathNodes)
    /\ lastNode = node \/ (parentIndex[lastNode] = node /\ node # ROOTDIRECTORY)

Listed ==
  \A r \in named : pc \in {"pick", "walk", "listed"} =>
    \/ r \in unlisted
    \/ pc = "walk" /\ fullPathNodes[Len(fullPathNodes)] = r
    \/ IsPath(fullName[r], r, parentIndex)

\* The stack stays the chain it was when a walk is over.
Quiet ==
  /\ named \cap unread = {} /\ unlisted \subseteq named
  /\ pc # "read" => unread = {}
  /\ pc = "read" => fullPathNodes = <<>> /\ \A r \in Record : fullName[r] = <<>>
  /\ \A r \in unread : parentIndex[r] = MftRecord
  /\ pc = "walk" => fullPathNodes[Len(fullPathNodes)] \in named
  /\ Chain(fullPathNodes)
  /\ \A j \in 1..Len(fullPathNodes) - 1 : fullPathNodes[j] # ROOTDIRECTORY
  /\ \A r \in Record \ named : fullName[r] = <<>>

AsRead(d) ==
  \A r \in Record \ unread :
    IF d[r] = Free THEN r \notin named /\ parentIndex[r] = MftRecord
    ELSE parentIndex[r] = d[r] /\ (r \in named <=> r # MftRecord)

\* Up to one change, all that was read is of one tree: the volume as it is, or
\* as it was if the record that changed had been read before.
OneTree ==
  changes <= 1 =>
    \E d \in Volume :
      /\ \/ d = disk
         \/ changes = 1 /\ \E x \in Record \ unread : \A r \in Record \ {x} : d[r] = disk[r]
      /\ AsRead(d)
      /\ \A j \in 1..Len(fullPathNodes) : fullPathNodes[j] \in InUse(d)
      /\ \A r \in Record : \A j \in 1..Len(fullName[r]) : fullName[r][j] \in InUse(d)

IInv ==
  /\ TypeOK /\ Walk /\ Listed /\ Quiet /\ OneTree /\ NoFalseAlarm
  /\ pc = "listed" => unlisted = {}
  /\ pc = "read" => unlisted = {}

-----------------------------------------------------------------------------
(* What the program says of itself and does not keep.                      *)

(* "Detected a loop in the tree structure.": a walk that comes to a node   *)
(* a second time has been stopped.                                         *)
LoopsAreDetected ==
  pc = "walk" => \A i, j \in 1..Len(fullPathNodes) : i # j => fullPathNodes[i] # fullPathNodes[j]
=============================================================================
