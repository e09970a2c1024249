------------------------------ MODULE MftChunks ------------------------------
(***************************************************************************)
(* NtfsReader.ProcessMft: the records of a fragmented Master File Table    *)
(* are read in chunks into one buffer and decoded from it.  A read from    *)
(* the disk may fail or come short without anyone noticing.                *)
(***************************************************************************)
EXTENDS Integers, Sequences, FiniteSets

CONSTANTS
  ClusterSize,   \* BytesPerSector * SectorsPerCluster
  RecordSize,    \* BytesPerMftRecord
  BufferSize,    \* bytes in the buffer, 256 KB in the code
  Layout,        \* the lists of fragments considered, for $MFT's data
  Sizes,         \* the lengths of the data in bytes considered
  BitmapBits,    \* the numbers of bits of the bitmap considered
  MaxRecords     \* bound: the records of the largest table considered

ASSUME ChunksAssumption ==
  /\ {ClusterSize, RecordSize, BufferSize} \subseteq Nat \ {0} /\ RecordSize <= BufferSize
  /\ BitmapBits \subseteq Nat \ {0} /\ MaxRecords \in Nat \ {0}
  /\ \A bytes \in Sizes : bytes \in Nat /\ bytes \div RecordSize \in 1..MaxRecords

Fragment == [lcn : Nat, nextVcn : Nat]

\* The run list of $MFT: it is not sparse, and no record straddles two runs.
Vcn0(runs, i) == IF i = 1 THEN 0 ELSE runs[i - 1].nextVcn

ASSUME LayoutAssumption ==
  \A runs \in Layout :
    /\ runs \in Seq(Fragment) /\ Len(runs) > 0
    /\ \A i \in 1..Len(runs) :
         /\ Vcn0(runs, i) < runs[i].nextVcn
         /\ (runs[i].nextVcn * ClusterSize) % RecordSize = 0

VARIABLES
  fragments,              \* dataStream.Fragments
  size,                   \* dataStream.Size
  maxInode,               \* the length of the table of nodes
  bitmap,                 \* the records in use when the bitmap was read
  files,                  \* the records in use, and of no other base, when they are read
  pc,                     \* "node", "walk", "decode", "done" or "thrown"
  nodeIndex, blockStart, blockEnd, vcn, realVcn,   \* locals of ProcessMft
  fragmentIndex,          \* local of ReadNextChunk, counted from 1
  buffer,                 \* what each record of the buffer holds
  nodes,                  \* the disk address each node was decoded from
  failed                  \* some read failed or came short

disk   == <<fragments, size, maxInode, bitmap, files>>
locals == <<nodeIndex, blockStart, blockEnd, vcn, realVcn, fragmentIndex>>
vars   == <<disk, pc, locals, buffer, nodes, failed>>

-----------------------------------------------------------------------------
RecordsPerBuffer == BufferSize \div RecordSize

\* Slots of the buffer: zeros, or the record at a disk address, as it was
\* read or after FixupRawMftdata has replaced the ends of its sectors.
None  == -1
Zeros == [at |-> None, file |-> FALSE, fixed |-> FALSE]
Slot  == {Zeros} \cup [at : Nat, file : BOOLEAN, fixed : BOOLEAN]

Inodes == 0..MaxRecords - 1
Slots  == 0..RecordsPerBuffer - 1

TypeOK ==
  /\ fragments \in Layout /\ size \in Sizes /\ maxInode \in 1..MaxRecords
  /\ bitmap \subseteq Inodes /\ files \subseteq Inodes
  /\ pc \in {"node", "walk", "decode", "done", "thrown"}
  /\ nodeIndex \in Nat /\ blockStart \in Nat /\ blockEnd \in Nat
  /\ vcn \in Nat /\ realVcn \in Nat /\ fragmentIndex \in Nat \ {0}
  /\ buffer \in [Slots -> Slot]
  /\ nodes \in [Inodes -> Nat \cup {None}]
  /\ failed \in BOOLEAN

Min2(a, b) == IF a < b THEN a ELSE b

\* The $MFT record, still in the buffer, is node 0; the bitmap has been read.
Init ==
  /\ fragments \in Layout /\ size \in Sizes
  /\ \E bits \in BitmapBits : maxInode = Min2(bits, size \div RecordSize)
  /\ \E inUse \in SUBSET (Inodes \ {0}), found \in SUBSET (Inodes \ {0}) :
       bitmap = inUse \cup {0} /\ files = found \cup {0}
  /\ pc = "node" /\ nodeIndex = 1
  /\ blockStart = 0 /\ blockEnd = 0 /\ vcn = 0 /\ realVcn = 0 /\ fragmentIndex = 1
  /\ LET first == fragments[1].lcn * ClusterSize IN
       /\ buffer = [[s \in Slots |-> Zeros] EXCEPT ![0] = [at |-> first, file |-> TRUE, fixed |-> TRUE]]
       /\ nodes  = [[n \in Inodes |-> None] EXCEPT ![0] = first]
  /\ failed = FALSE

-----------------------------------------------------------------------------
Finish ==
  /\ pc = "node" /\ nodeIndex >= maxInode
  /\ pc' = "done"
  /\ UNCHANGED <<disk, locals, buffer, nodes, failed>>

SkipUnused ==
  /\ pc = "node" /\ nodeIndex < maxInode /\ nodeIndex \notin bitmap
  /\ nodeIndex' = nodeIndex + 1
  /\ UNCHANGED <<disk, pc, blockStart, blockEnd, vcn, realVcn, fragmentIndex, buffer, nodes, failed>>

InBlock ==
  /\ pc = "node" /\ nodeIndex < maxInode /\ nodeIndex \in bitmap /\ nodeIndex < blockEnd
  /\ pc' = "decode"
  /\ UNCHANGED <<disk, locals, buffer, nodes, failed>>

\* Mutant of EnterReadNextChunk: the chunks follow each other without a gap.
EnterNextToLast ==
  /\ pc = "node" /\ nodeIndex < maxInode /\ nodeIndex \in bitmap /\ nodeIndex >= blockEnd
  /\ blockStart' = blockEnd
  /\ blockEnd' = Min2(blockEnd + RecordsPerBuffer, size * 8)
  /\ fragmentIndex' = 1
  /\ pc' = "walk"
  /\ UNCHANGED <<disk, nodeIndex, vcn, realVcn, buffer, nodes, failed>>

\* ReadNextChunk begins; it is always given the fragment index 0.
EnterReadNextChunk ==
  /\ pc = "node" /\ nodeIndex < maxInode /\ nodeIndex \in bitmap /\ nodeIndex >= blockEnd
  /\ blockStart' = nodeIndex
  /\ blockEnd' = Min2(nodeIndex + RecordsPerBuffer, size * 8)
  /\ fragmentIndex' = 1
  /\ pc' = "walk"
  /\ UNCHANGED <<disk, nodeIndex, vcn, realVcn, buffer, nodes, failed>>

\* u1, the number of the record after the current fragment.
FragmentEnd ==
  ((realVcn + fragments[fragmentIndex].nextVcn - vcn) * ClusterSize) \div RecordSize

\* Mutant of SkipFragment: RealVcn is left behind.
SkipFragmentNotReal ==
  /\ pc = "walk" /\ fragmentIndex <= Len(fragments) /\ FragmentEnd <= nodeIndex
  /\ vcn' = fragments[fragmentIndex].nextVcn
  /\ fragmentIndex' = fragmentIndex + 1
  /\ UNCHANGED <<disk, pc, nodeIndex, blockStart, blockEnd, realVcn, buffer, nodes, failed>>

\* Mutant of SkipFragment: the same fragment is looked at again.
SkipFragmentInPlace ==
  /\ pc = "walk" /\ fragmentIndex <= Len(fragments) /\ FragmentEnd <= nodeIndex
  /\ realVcn' = realVcn + fragments[fragmentIndex].nextVcn - vcn
  /\ vcn' = fragments[fragmentIndex].nextVcn
  /\ UNCHANGED <<disk, pc, nodeIndex, blockStart, blockEnd, fragmentIndex, buffer, nodes, failed>>

\* A real fragment: RealVcn and Vcn both advance.
SkipFragment ==
  /\ pc = "walk" /\ fragmentIndex <= Len(fragments) /\ FragmentEnd <= nodeIndex
  /\ realVcn' = realVcn + fragments[fragmentIndex].nextVcn - vcn
  /\ vcn' = fragments[fragmentIndex].nextVcn
  /\ fragmentIndex' = fragmentIndex + 1
  /\ UNCHANGED <<disk, pc, nodeIndex, blockStart, blockEnd, buffer, nodes, failed>>

\* The fragments are used up: ReadNextChunk returns false, and the loop ends.
OutOfFragments ==
  /\ pc = "walk" /\ fragmentIndex > Len(fragments)
  /\ pc' = "done"
  /\ UNCHANGED <<disk, locals, buffer, nodes, failed>>

\* Mutant of ReadFile: the block is not cut where its fragment ends.
ReadFileUncut ==
  LET start == (fragments[fragmentIndex].lcn - realVcn) * ClusterSize + blockStart * RecordSize
  IN
  /\ pc = "walk" /\ fragmentIndex <= Len(fragments) /\ FragmentEnd > nodeIndex
  /\ buffer' = [s \in Slots |-> IF s < blockEnd - blockStart
                                THEN [at |-> start + s * RecordSize,
                                      file |-> blockStart + s \in files, fixed |-> FALSE]
                                ELSE buffer[s]]
  /\ pc' = "decode"
  /\ UNCHANGED <<disk, nodeIndex, blockStart, blockEnd, vcn, realVcn, fragmentIndex, nodes, failed>>

\* The end of ReadNextChunk.  Records beyond a failure keep what they held.
ReadFile ==
  LET end   == Min2(blockEnd, FragmentEnd)
      start == (fragments[fragmentIndex].lcn - realVcn) * ClusterSize + blockStart * RecordSize
  IN
  /\ pc = "walk" /\ fragmentIndex <= Len(fragments) /\ FragmentEnd > nodeIndex
  /\ blockEnd' = end
  /\ \E read \in 0..RecordsPerBuffer :
       /\ read <= end - blockStart
       /\ buffer' = [s \in Slots |-> IF s < read
                                     THEN [at |-> start + s * RecordSize,
                                           file |-> blockStart + s \in files, fixed |-> FALSE]
                                     ELSE buffer[s]]
       /\ failed' = (failed \/ read < end - blockStart)
  /\ pc' = "decode"
  /\ UNCHANGED <<disk, nodeIndex, blockStart, vcn, realVcn, fragmentIndex, nodes>>

\* FixupRawMftdata: no FILE record, or one whose ends were already replaced.
DecodeNoRecord ==
  /\ pc = "decode" /\ buffer[nodeIndex - blockStart] = Zeros
  /\ pc' = "node" /\ nodeIndex' = nodeIndex + 1
  /\ UNCHANGED <<disk, blockStart, blockEnd, vcn, realVcn, fragmentIndex, buffer, nodes, failed>>

FixupFails ==
  /\ pc = "decode" /\ buffer[nodeIndex - blockStart].fixed
  /\ pc' = "thrown"
  /\ UNCHANGED <<disk, locals, buffer, nodes, failed>>

\* ProcessMftRecord makes a node of a record in use.
ProcessMftRecord ==
  LET slot == nodeIndex - blockStart IN
  /\ pc = "decode" /\ buffer[slot] # Zeros /\ ~buffer[slot].fixed
  /\ buffer' = [buffer EXCEPT ![slot].fixed = TRUE]
  /\ nodes' = IF buffer[slot].file THEN [nodes EXCEPT ![nodeIndex] = buffer[slot].at] ELSE nodes
  /\ pc' = "node" /\ nodeIndex' = nodeIndex + 1
  /\ UNCHANGED <<disk, blockStart, blockEnd, vcn, realVcn, fragmentIndex, failed>>

Next ==
  \/ Finish \/ SkipUnused \/ InBlock
  \/ EnterReadNextChunk \/ SkipFragment \/ OutOfFragments \/ ReadFile
  \/ DecodeNoRecord \/ FixupFails \/ ProcessMftRecord

Spec     == Init /\ [][Next]_vars
FairSpec == Spec /\ WF_vars(Next)

-----------------------------------------------------------------------------
\* Where the disk holds the record with number n.
Address(n, a) ==
  \E i \in 1..Len(fragments) :
    /\ Vcn0(fragments, i) * ClusterSize <= n * RecordSize
    /\ n * RecordSize < fragments[i].nextVcn * ClusterSize
    /\ a = (fragments[i].lcn - Vcn0(fragments, i)) * ClusterSize + n * RecordSize

\* The bitmap was not overtaken by changes before the records were read.
BitmapFresh == files \subseteq bitmap

\* A record is decoded only from a slot that the last chunk covers, inside
\* the buffer: no read outside the 256 KB of unsafe code (NtfsReader.cs:858).
SlotInsideBuffer ==
  pc = "decode" => /\ blockStart <= nodeIndex /\ nodeIndex < blockEnd
                   /\ nodeIndex - blockStart < RecordsPerBuffer

\* No node carries another record's data, although ReadFile's failures are
\* not reported (NtfsReader.cs:206-216) and every chunk walks the fragments
\* from the first with positions left by the chunk before: what a failed read
\* leaves in the buffer has been fixed up, and stops the scan, or is in no file.
\* It takes a failed read AND a bitmap older than the records to break it.
OwnRecordOnly ==
  BitmapFresh \/ ~failed =>
    \A n \in Inodes : nodes[n] # None => Address(n, nodes[n])

\* When all the reads succeed and the fragments cover the table, every record
\* that is in use has its node, whatever the order of the fragments on the disk.
EveryRecordDecoded ==
  /\ pc = "done" /\ ~failed
  /\ maxInode * RecordSize <= fragments[Len(fragments)].nextVcn * ClusterSize
  => \A n \in bitmap \cap files : n < maxInode => nodes[n] # None

\* ProcessMft ends, with its nodes or with an exception.
Terminates == <>(pc \in {"done", "thrown"})

-----------------------------------------------------------------------------
\* The inductive invariant.
EndOf(i) == (fragments[i].nextVcn * ClusterSize) \div RecordSize

\* The positions agree, and the first fragment is behind when they have moved.
Positions ==
  /\ realVcn = vcn
  /\ vcn > 0 => EndOf(1) <= nodeIndex

\* The fragments before the current one are behind, and no further ones.
Walked ==
  pc = "walk" =>
    /\ fragmentIndex <= Len(fragments) + 1
    /\ fragmentIndex > 1 => vcn = Vcn0(fragments, fragmentIndex) /\ EndOf(fragmentIndex - 1) <= nodeIndex

Block ==
  /\ maxInode <= size \div RecordSize /\ blockEnd - blockStart <= RecordsPerBuffer
  /\ pc = "walk" => blockStart = nodeIndex
  /\ pc \in {"walk", "decode"} => nodeIndex < maxInode /\ nodeIndex < blockEnd /\ nodeIndex \in bitmap
  /\ nodeIndex < blockEnd => blockStart <= nodeIndex

\* Slot s holds the record the current block has there, as the last read left it.
Fresh(s) ==
  /\ Address(blockStart + s, buffer[s].at) /\ ~buffer[s].fixed /\ buffer[s].at # None
  /\ buffer[s].file = (blockStart + s \in files)

\* Slots of records the current block has not passed yet.
Ahead(s) == pc # "walk" /\ nodeIndex <= blockStart + s /\ blockStart + s < blockEnd

\* After the loop the buffer is not looked at again.
Reading == pc \in {"node", "walk", "decode"}

Buffered ==
  /\ Reading /\ ~failed => \A s \in Slots : Ahead(s) => Fresh(s)
  /\ Reading /\ BitmapFresh => \A s \in Slots :
       buffer[s].fixed \/ ~buffer[s].file \/ (Ahead(s) /\ Fresh(s))

Decoded ==
  /\ nodeIndex <= maxInode
  /\ pc = "done" => nodeIndex = maxInode \/ EndOf(Len(fragments)) <= nodeIndex
  /\ ~failed => \A n \in bitmap \cap files : n < nodeIndex => nodes[n] # None

IInv == TypeOK /\ Positions /\ Walked /\ Block /\ Buffered /\ OwnRecordOnly /\ Decoded
=============================================================================
