---------------------------- MODULE MftChunksProofs ----------------------------
(***************************************************************************)
(* For every size of clusters, records and buffer and every run list: no    *)
(* record is decoded outside the buffer, and none is taken for another one  *)
(* unless a read failed and the bitmap was older than the records.          *)
(***************************************************************************)
EXTENDS MftChunks, TLAPS

LEMMA DivFacts ==
  ASSUME NEW x \in Nat, NEW r \in Nat \ {0}
  PROVE  /\ x \div r \in Nat /\ x % r \in 0..r - 1
         /\ x = r * (x \div r) + (x % r)
OBVIOUS

LEMMA MulMono ==
  ASSUME NEW a \in Int, NEW b \in Int, NEW r \in Nat, a <= b
  PROVE  a * r <= b * r
OBVIOUS

LEMMA Distrib ==
  ASSUME NEW a \in Int, NEW b \in Int, NEW r \in Int
  PROVE  (a + b) * r = a * r + b * r
OBVIOUS

LEMMA MulNat ==
  ASSUME NEW a \in Nat, NEW b \in Nat
  PROVE  a * b \in Nat
OBVIOUS

\* Record n lies wholly below byte x when x is the end of a later record.
LEMMA DivAbove ==
  ASSUME NEW x \in Nat, NEW r \in Nat \ {0}, NEW n \in Nat, n < x \div r
  PROVE  n * r < x
<1> DEFINE q == x \div r
<1>1. q \in Nat /\ x = r * q + (x % r) /\ x % r \in Nat
  BY DivFacts
<1>2. (n + 1) * r <= q * r
  BY <1>1, MulMono
<1>3. q * r = r * q /\ (n + 1) * r = n * r + r /\ n * r \in Int /\ q * r \in Int
  BY <1>1
<1> QED
  BY <1>1, <1>2, <1>3

\* A whole number of records that ends at or before record n.
LEMMA DivBelow ==
  ASSUME NEW x \in Nat, NEW r \in Nat \ {0}, NEW n \in Nat, x % r = 0, x \div r <= n
  PROVE  x <= n * r
<1> DEFINE q == x \div r
<1>1. q \in Nat /\ x = r * q
  BY DivFacts
<1>2. q * r <= n * r
  BY <1>1, MulMono
<1>3. q * r = r * q
  BY <1>1
<1> QED
  BY <1>1, <1>2, <1>3

LEMMA ConstantFacts ==
  /\ ClusterSize \in Nat \ {0} /\ RecordSize \in Nat \ {0} /\ RecordsPerBuffer \in Nat
  /\ 0 \in Slots /\ MaxRecords \in Nat \ {0} /\ 0 \in Inodes
<1>1. ClusterSize \in Nat \ {0} /\ RecordSize \in Nat \ {0} /\ BufferSize \in Nat \ {0}
  BY ChunksAssumption
<1>2. RecordsPerBuffer \in Nat
  BY <1>1, DivFacts DEF RecordsPerBuffer
<1>3. RecordsPerBuffer # 0
  <2>1. SUFFICES ASSUME BufferSize \div RecordSize = 0 PROVE FALSE
    BY DEF RecordsPerBuffer
  <2>2. BufferSize = RecordSize * 0 + (BufferSize % RecordSize)
        /\ BufferSize % RecordSize \in 0..RecordSize - 1
    BY <1>1, <2>1, DivFacts
  <2> QED
    BY <1>1, <2>2, ChunksAssumption
<1> QED
  BY <1>1, <1>2, <1>3, ChunksAssumption DEF Slots, Inodes

LEMMA RunFacts ==
  ASSUME fragments \in Layout, NEW i \in 1..Len(fragments)
  PROVE  /\ fragments[i] \in Fragment /\ fragments[i].lcn \in Nat /\ fragments[i].nextVcn \in Nat
         /\ Vcn0(fragments, i) \in Nat /\ Vcn0(fragments, i) < fragments[i].nextVcn
         /\ fragments[i].nextVcn * ClusterSize \in Nat
         /\ (fragments[i].nextVcn * ClusterSize) % RecordSize = 0
         /\ EndOf(i) \in Nat
<1>1. fragments \in Seq(Fragment) /\ fragments[i] \in Fragment
  BY LayoutAssumption
<1>2. fragments[i].lcn \in Nat /\ fragments[i].nextVcn \in Nat
  BY <1>1 DEF Fragment
<1>3. Vcn0(fragments, i) \in Nat
  <2>1. CASE i = 1
    BY <2>1 DEF Vcn0
  <2>2. CASE i # 1
    <3>1. i - 1 \in 1..Len(fragments)
      BY <1>1, <2>2
    <3>2. fragments[i - 1] \in Fragment
      BY <1>1, <3>1
    <3> QED
      BY <2>2, <3>2 DEF Fragment, Vcn0
  <2> QED
    BY <2>1, <2>2
<1>4. fragments[i].nextVcn * ClusterSize \in Nat
  BY <1>2, MulNat, ConstantFacts
<1>5. EndOf(i) \in Nat
  BY <1>4, DivFacts, ConstantFacts DEF EndOf
<1> QED
  BY <1>1, <1>2, <1>3, <1>4, <1>5, LayoutAssumption

\* A record the walk stops at: the read gives it its own place on the disk.
LEMMA ReadAddress ==
  ASSUME fragments \in Layout, NEW i \in 1..Len(fragments),
         NEW b \in Nat, NEW s \in Nat, b + s < EndOf(i),
         i > 1 => EndOf(i - 1) <= b
  PROVE  LET at == (fragments[i].lcn - Vcn0(fragments, i)) * ClusterSize + b * RecordSize
                     + s * RecordSize
         IN  at \in Nat /\ Address(b + s, at)
<1> DEFINE v == Vcn0(fragments, i)  lcn == fragments[i].lcn  n == b + s
           at == (lcn - v) * ClusterSize + b * RecordSize + s * RecordSize
<1>1. /\ lcn \in Nat /\ v \in Nat /\ n \in Nat /\ ClusterSize \in Nat /\ RecordSize \in Nat \ {0}
      /\ fragments[i].nextVcn * ClusterSize \in Nat
  BY RunFacts, ConstantFacts
<1>2. v * ClusterSize <= n * RecordSize
  <2>1. CASE i = 1
    <3>1. v * ClusterSize = 0 /\ n * RecordSize \in Nat
      BY <1>1, <2>1, MulNat DEF Vcn0
    <3> QED
      BY <3>1
  <2>2. CASE i # 1
    <3>1. i - 1 \in 1..Len(fragments) /\ EndOf(i - 1) <= b /\ v = fragments[i - 1].nextVcn
      BY <2>2 DEF Vcn0
    <3>2. (fragments[i - 1].nextVcn * ClusterSize) % RecordSize = 0
          /\ fragments[i - 1].nextVcn * ClusterSize \in Nat /\ EndOf(i - 1) \in Nat
      BY <3>1, RunFacts
    <3>3. EndOf(i - 1) <= n
      BY <3>1, <3>2, <1>1
    <3> QED
      BY <3>1, <3>2, <3>3, <1>1, DivBelow DEF EndOf
  <2> QED
    BY <2>1, <2>2
<1>3. n * RecordSize < fragments[i].nextVcn * ClusterSize
  BY <1>1, DivAbove DEF EndOf
<1>4. at = (lcn - v) * ClusterSize + n * RecordSize
  <2>1. n * RecordSize = b * RecordSize + s * RecordSize
    BY <1>1, Distrib
  <2>2. (lcn - v) * ClusterSize \in Int /\ b * RecordSize \in Int /\ s * RecordSize \in Int
    BY <1>1
  <2> QED
    BY <2>1, <2>2
<1>5. at \in Nat
  <2>1. (lcn - v) * ClusterSize = lcn * ClusterSize - v * ClusterSize
    BY <1>1
  <2>2. lcn * ClusterSize \in Nat /\ v * ClusterSize \in Nat /\ n * RecordSize \in Nat
    BY <1>1, MulNat
  <2> QED
    BY <1>2, <1>4, <2>1, <2>2
<1>6. Address(n, at)
  BY <1>2, <1>3, <1>4 DEF Address
<1> QED
  BY <1>5, <1>6

\* With the positions in agreement, u1 is the end of the current fragment.
LEMMA FragmentEndIs ==
  ASSUME TypeOK, Positions, fragmentIndex <= Len(fragments)
  PROVE  FragmentEnd = EndOf(fragmentIndex) /\ fragmentIndex \in 1..Len(fragments)
         /\ FragmentEnd \in Nat
<1>1. fragmentIndex \in 1..Len(fragments) /\ realVcn = vcn /\ vcn \in Nat
  BY LayoutAssumption DEF TypeOK, Positions
<1>2. realVcn + fragments[fragmentIndex].nextVcn - vcn = fragments[fragmentIndex].nextVcn
  BY <1>1, RunFacts DEF TypeOK
<1> QED
  BY <1>1, <1>2, RunFacts DEF FragmentEnd, EndOf, TypeOK

\* A record the table has is below the cap of a chunk.
LEMMA BelowCap ==
  ASSUME TypeOK, NEW n \in Nat, n < maxInode, maxInode <= size \div RecordSize
  PROVE  n < size * 8
<1>1. size \in Nat /\ RecordSize \in Nat \ {0} /\ maxInode \in Nat
  BY ChunksAssumption, ConstantFacts DEF TypeOK
<1>2. n * RecordSize < size
  <2>1. n < size \div RecordSize
    BY <1>1, DivFacts
  <2> QED
    BY <1>1, <2>1, DivAbove
<1>3. n * 1 <= n * RecordSize
  BY <1>1
<1> QED
  BY <1>1, <1>2, <1>3

LEMMA SameAddress ==
  ASSUME UNCHANGED fragments
  PROVE  \A n, a : Address(n, a)' <=> Address(n, a)
BY DEF Address

LEMMA BlockStep == ASSUME IInv, [Next]_vars PROVE Block'
<1> USE DEF IInv, TypeOK, Block
<1>1. CASE UNCHANGED vars
  BY <1>1 DEF vars, disk, locals
<1>2. CASE Finish
  BY <1>2 DEF Finish, disk, locals
<1>3. CASE SkipUnused
  BY <1>3 DEF SkipUnused, disk
<1>4. CASE InBlock
  BY <1>4 DEF InBlock, disk, locals
<1>5. CASE EnterReadNextChunk
  <2>1. nodeIndex < size * 8
    BY <1>5, BelowCap DEF EnterReadNextChunk
  <2>2. size \in Nat /\ RecordsPerBuffer \in Nat \ {0}
    BY ChunksAssumption, ConstantFacts DEF Slots
  <2> QED
    BY <1>5, <2>1, <2>2 DEF EnterReadNextChunk, disk, Min2
<1>6. CASE SkipFragment
  BY <1>6 DEF SkipFragment, disk
<1>7. CASE OutOfFragments
  BY <1>7 DEF OutOfFragments, disk, locals
<1>8. CASE ReadFile
  <2>1. FragmentEnd \in Nat /\ FragmentEnd > nodeIndex /\ blockEnd' = Min2(blockEnd, FragmentEnd)
    BY <1>8, FragmentEndIs DEF ReadFile
  <2>2. pc = "walk" /\ pc' = "decode" /\ UNCHANGED <<disk, nodeIndex, blockStart>>
    BY <1>8 DEF ReadFile
  <2>3. RecordsPerBuffer \in Nat
    BY ConstantFacts
  <2> QED
    BY <2>1, <2>2, <2>3 DEF disk, Min2
<1>9. CASE DecodeNoRecord
  BY <1>9 DEF DecodeNoRecord, disk
<1>10. CASE FixupFails
  BY <1>10 DEF FixupFails, disk, locals
<1>11. CASE ProcessMftRecord
  BY <1>11 DEF ProcessMftRecord, disk
<1> QED
  BY <1>1, <1>2, <1>3, <1>4, <1>5, <1>6, <1>7, <1>8, <1>9, <1>10, <1>11 DEF Next

LEMMA PositionsStep == ASSUME IInv, [Next]_vars PROVE Positions' /\ Walked'
<1> USE DEF IInv, TypeOK, Positions, Walked, EndOf, Vcn0
<1>0. Len(fragments) \in Nat \ {0}
      /\ \A i \in 1..Len(fragments) : EndOf(i) \in Nat
  BY LayoutAssumption, RunFacts DEF TypeOK
<1>1. CASE UNCHANGED vars
  BY <1>1 DEF vars, disk, locals
<1>2. CASE Finish
  BY <1>2 DEF Finish, disk, locals
<1>3. CASE SkipUnused
  <2>1. EndOf(1) \in Nat
    BY <1>0
  <2> QED
    BY <1>3, <2>1 DEF SkipUnused, disk
<1>4. CASE InBlock
  BY <1>4 DEF InBlock, disk, locals
<1>5. CASE EnterReadNextChunk
  BY <1>0, <1>5 DEF EnterReadNextChunk, disk
<1>6. CASE SkipFragment
  <2> DEFINE i == fragmentIndex  next == fragments[i].nextVcn
  <2>1. i \in 1..Len(fragments) /\ FragmentEnd = EndOf(i) /\ FragmentEnd <= nodeIndex
    BY <1>6, FragmentEndIs DEF SkipFragment
  <2>2. next \in Nat /\ Vcn0(fragments, i) \in Nat /\ Vcn0(fragments, i) < next
    BY <2>1, RunFacts
  <2>3. /\ pc = "walk" /\ pc' = "walk" /\ vcn' = next /\ realVcn' = realVcn + next - vcn
        /\ fragmentIndex' = i + 1 /\ nodeIndex' = nodeIndex /\ fragments' = fragments
    BY <1>6 DEF SkipFragment, disk
  <2>4. realVcn' = vcn'
    BY <2>2, <2>3
  <2>5. EndOf(1) <= nodeIndex
    <3>1. CASE i = 1
      BY <2>1, <3>1
    <3>2. CASE i > 1
      <4>1. vcn = Vcn0(fragments, i) /\ i - 1 \in 1..Len(fragments)
        BY <2>1, <2>3, <3>2
      <4>2. vcn = fragments[i - 1].nextVcn
        BY <3>2, <4>1
      <4>3. fragments[i - 1].nextVcn \in Nat /\ Vcn0(fragments, i - 1) \in Nat
            /\ Vcn0(fragments, i - 1) < fragments[i - 1].nextVcn
        BY <4>1, RunFacts
      <4> HIDE DEF Vcn0
      <4>4. vcn > 0
        BY <4>2, <4>3
      <4> QED
        BY <4>4
    <3> QED
      BY <2>1, <3>1, <3>2
  <2>6. Walked'
    <3>1. i \in Nat \ {0} /\ i <= Len(fragments) /\ (i + 1) - 1 = i /\ i + 1 # 1
      BY <1>0, <2>1
    <3>2. fragmentIndex' <= Len(fragments') + 1
      BY <1>0, <2>3, <3>1
    <3>3. Vcn0(fragments, fragmentIndex)' = next
      BY <2>3, <3>1
    <3>4. EndOf(fragmentIndex - 1)' = EndOf(i)
      BY <2>3, <3>1
    <3> HIDE DEF Vcn0, EndOf
    <3> QED
      BY <2>1, <2>3, <3>2, <3>3, <3>4
  <2> QED
    BY <2>3, <2>4, <2>5, <2>6
<1>7. CASE OutOfFragments
  BY <1>7 DEF OutOfFragments, disk, locals
<1>8. CASE ReadFile
  BY <1>8 DEF ReadFile, disk
<1>9. CASE DecodeNoRecord
  <2>1. EndOf(1) \in Nat
    BY <1>0
  <2> QED
    BY <1>9, <2>1 DEF DecodeNoRecord, disk
<1>10. CASE FixupFails
  BY <1>10 DEF FixupFails, disk, locals
<1>11. CASE ProcessMftRecord
  <2>1. EndOf(1) \in Nat
    BY <1>0
  <2> QED
    BY <1>11, <2>1 DEF ProcessMftRecord, disk
<1> QED
  BY <1>1, <1>2, <1>3, <1>4, <1>5, <1>6, <1>7, <1>8, <1>9, <1>10, <1>11 DEF Next

\* What a read, however short, leaves in the buffer.
LEMMA ReadFileFacts ==
  ASSUME IInv, ReadFile
  PROVE  \E read \in 0..RecordsPerBuffer :
    /\ read <= blockEnd' - blockStart /\ failed' = (failed \/ read < blockEnd' - blockStart)
    /\ buffer' \in [Slots -> Slot]
    /\ \A s \in Slots : s < read =>
         /\ Address(blockStart + s, buffer'[s].at) /\ buffer'[s].at \in Nat
         /\ ~buffer'[s].fixed /\ buffer'[s].file = (blockStart + s \in files)
    /\ \A s \in Slots : s >= read => buffer'[s] = buffer[s]
<1> USE DEF IInv, TypeOK
<1> DEFINE i == fragmentIndex  v == Vcn0(fragments, i)
           end == Min2(blockEnd, FragmentEnd)
           at(s) == (fragments[i].lcn - v) * ClusterSize + blockStart * RecordSize + s * RecordSize
           new(s) == [at |-> at(s), file |-> blockStart + s \in files, fixed |-> FALSE]
<1>1. i \in 1..Len(fragments) /\ FragmentEnd = EndOf(i) /\ FragmentEnd \in Nat
  BY FragmentEndIs DEF ReadFile
<1>2. FragmentEnd > nodeIndex /\ pc = "walk" /\ blockStart = nodeIndex /\ blockEnd' = end
  BY DEF ReadFile, Block
<1>3. realVcn = v
  <2>1. CASE i = 1
    <3>1. vcn = 0
      BY <1>1, <1>2, <2>1 DEF Positions
    <3> QED
      BY <2>1, <3>1 DEF Positions, Vcn0
  <2>2. CASE i # 1
    BY <1>1, <1>2, <2>2 DEF Positions, Walked
  <2> QED
    BY <2>1, <2>2
<1>4. PICK read \in 0..RecordsPerBuffer :
        /\ read <= end - blockStart
        /\ buffer' = [s \in Slots |-> IF s < read THEN new(s) ELSE buffer[s]]
        /\ failed' = (failed \/ read < end - blockStart)
  BY <1>3 DEF ReadFile
<1>5. i > 1 => EndOf(i - 1) <= blockStart
  BY <1>2 DEF Walked
<1>6. ASSUME NEW s \in Slots, s < read
      PROVE  at(s) \in Nat /\ Address(blockStart + s, at(s))
  <2>1. s \in Nat /\ read \in Nat /\ blockEnd \in Nat
    BY ConstantFacts DEF Slots
  <2>2. blockStart + s < EndOf(i)
    BY <1>1, <1>2, <1>4, <1>6, <2>1 DEF Min2
  <2> QED
    BY <1>1, <1>5, <2>1, <2>2, ReadAddress
<1>7. \A s \in Slots : buffer'[s] = IF s < read THEN new(s) ELSE buffer[s]
  BY <1>4
<1>8. ASSUME NEW s \in Slots PROVE buffer'[s] \in Slot
  <2>1. CASE s < read
    <3>1. new(s) \in Slot
      <4> HIDE DEF at
      <4> QED
        BY <1>6, <2>1 DEF Slot
    <3> HIDE DEF new
    <3> QED
      BY <1>7, <2>1, <3>1
  <2>2. CASE ~(s < read)
    BY <1>7, <2>2
  <2> QED
    BY <2>1, <2>2
<1>9. buffer' \in [Slots -> Slot]
  BY <1>4, <1>7, <1>8
<1>10. \A s \in Slots : s >= read => ~(s < read)
  BY ConstantFacts DEF Slots
<1> QED
  BY <1>2, <1>4, <1>6, <1>7, <1>9, <1>10

LEMMA DecodeFacts ==
  ASSUME IInv, pc = "decode"
  PROVE  LET slot == nodeIndex - blockStart IN
    /\ slot \in Slots /\ nodeIndex \in Inodes /\ blockStart + slot = nodeIndex
    /\ ~failed => Fresh(slot)
    /\ BitmapFresh => buffer[slot].fixed \/ ~buffer[slot].file \/ Fresh(slot)
<1> DEFINE slot == nodeIndex - blockStart
<1>1. slot \in Slots /\ nodeIndex \in Inodes /\ blockStart + slot = nodeIndex
  BY ConstantFacts DEF IInv, TypeOK, Block, Slots, Inodes
<1>2. Ahead(slot)
  BY <1>1 DEF IInv, TypeOK, Block, Ahead
<1> HIDE DEF slot
<1>3. (~failed => Fresh(slot)) /\ (BitmapFresh => buffer[slot].fixed \/ ~buffer[slot].file \/ Fresh(slot))
  BY <1>1, <1>2 DEF IInv, Buffered, Reading
<1> QED
  BY <1>1, <1>3 DEF slot

LEMMA TypeStep == ASSUME IInv, [Next]_vars PROVE TypeOK'
<1> USE ConstantFacts DEF IInv, TypeOK
<1>1. CASE UNCHANGED vars
  BY <1>1 DEF vars, disk, locals
<1>2. CASE Finish
  BY <1>2 DEF Finish, disk, locals
<1>3. CASE SkipUnused
  BY <1>3 DEF SkipUnused, disk
<1>4. CASE InBlock
  BY <1>4 DEF InBlock, disk, locals
<1>5. CASE EnterReadNextChunk
  <2>1. size \in Nat
    BY ChunksAssumption
  <2>2. blockEnd' \in Nat
    BY <1>5, <2>1 DEF EnterReadNextChunk, Min2
  <2> QED
    BY <1>5, <2>2 DEF EnterReadNextChunk, disk
<1>6. CASE SkipFragment
  <2>1. fragments[fragmentIndex].nextVcn \in Nat
    BY <1>6, FragmentEndIs, RunFacts DEF SkipFragment
  <2>2. realVcn' = fragments[fragmentIndex].nextVcn
    BY <1>6, <2>1 DEF SkipFragment, Positions
  <2> QED
    BY <1>6, <2>1, <2>2 DEF SkipFragment, disk
<1>7. CASE OutOfFragments
  BY <1>7 DEF OutOfFragments, disk, locals
<1>8. CASE ReadFile
  <2>1. buffer' \in [Slots -> Slot] /\ failed' \in BOOLEAN
    BY <1>8, ReadFileFacts
  <2>2. blockEnd' \in Nat
    BY <1>8, FragmentEndIs DEF ReadFile, Min2
  <2> QED
    BY <1>8, <2>1, <2>2 DEF ReadFile, disk
<1>9. CASE DecodeNoRecord
  BY <1>9 DEF DecodeNoRecord, disk
<1>10. CASE FixupFails
  BY <1>10 DEF FixupFails, disk, locals
<1>11. CASE ProcessMftRecord
  <2> DEFINE slot == nodeIndex - blockStart
  <2>1. slot \in Slots /\ nodeIndex \in Inodes
    BY <1>11, DecodeFacts DEF ProcessMftRecord
  <2>2. buffer[slot] \in [at : Nat, file : BOOLEAN, fixed : BOOLEAN]
    BY <1>11, <2>1 DEF ProcessMftRecord, Slot
  <2>3. buffer' \in [Slots -> Slot]
    <3>1. [buffer[slot] EXCEPT !.fixed = TRUE] \in Slot
      BY <2>2 DEF Slot
    <3>2. buffer' = [buffer EXCEPT ![slot] = [buffer[slot] EXCEPT !.fixed = TRUE]]
      BY <1>11 DEF ProcessMftRecord
    <3> QED
      BY <2>1, <3>1, <3>2
  <2>4. nodes' \in [Inodes -> Nat \cup {None}]
    BY <1>11, <2>1, <2>2 DEF ProcessMftRecord
  <2> QED
    BY <1>11, <2>3, <2>4 DEF ProcessMftRecord, disk
<1> QED
  BY <1>1, <1>2, <1>3, <1>4, <1>5, <1>6, <1>7, <1>8, <1>9, <1>10, <1>11 DEF Next

LEMMA OwnStep == ASSUME IInv, [Next]_vars PROVE OwnRecordOnly'
<1> USE DEF IInv, OwnRecordOnly, BitmapFresh
<1>0. UNCHANGED <<nodes, failed, fragments, bitmap, files>> => OwnRecordOnly'
  BY SameAddress
<1>1. CASE UNCHANGED vars
  BY <1>0, <1>1 DEF vars, disk, locals
<1>2. CASE Finish
  BY <1>0, <1>2 DEF Finish, disk, locals
<1>3. CASE SkipUnused
  BY <1>0, <1>3 DEF SkipUnused, disk
<1>4. CASE InBlock
  BY <1>0, <1>4 DEF InBlock, disk, locals
<1>5. CASE EnterReadNextChunk
  BY <1>0, <1>5 DEF EnterReadNextChunk, disk
<1>6. CASE SkipFragment
  BY <1>0, <1>6 DEF SkipFragment, disk
<1>7. CASE OutOfFragments
  BY <1>0, <1>7 DEF OutOfFragments, disk, locals
<1>8. CASE ReadFile
  <2>1. UNCHANGED <<nodes, fragments, bitmap, files>>
    BY <1>8 DEF ReadFile, disk
  <2>2. ~failed' => ~failed
    BY <1>8, ReadFileFacts
  <2> QED
    BY <2>1, <2>2, SameAddress
<1>9. CASE DecodeNoRecord
  BY <1>0, <1>9 DEF DecodeNoRecord, disk
<1>10. CASE FixupFails
  BY <1>0, <1>10 DEF FixupFails, disk, locals
<1>11. CASE ProcessMftRecord
  <2> DEFINE slot == nodeIndex - blockStart
  <2>1. /\ pc = "decode" /\ ~buffer[slot].fixed
        /\ nodes' = IF buffer[slot].file THEN [nodes EXCEPT ![nodeIndex] = buffer[slot].at] ELSE nodes
        /\ UNCHANGED <<failed, fragments, bitmap, files>>
    BY <1>11 DEF ProcessMftRecord, disk
  <2>2. CASE ~buffer[slot].file
    BY <1>0, <2>1, <2>2
  <2>3. CASE buffer[slot].file /\ (BitmapFresh \/ ~failed)
    <3>1. Address(nodeIndex, buffer[slot].at)
      BY <2>1, <2>3, DecodeFacts DEF Fresh
    <3> HIDE DEF slot
    <3>2. \A n \in Inodes : nodes'[n] # None => Address(n, nodes'[n])
      BY <2>1, <2>3, <3>1 DEF TypeOK
    <3> QED
      BY <2>1, <3>2, SameAddress
  <2> QED
    BY <2>1, <2>2, <2>3
<1> QED
  BY <1>1, <1>2, <1>3, <1>4, <1>5, <1>6, <1>7, <1>8, <1>9, <1>10, <1>11 DEF Next

\* What is needed of a step after which fewer records are ahead.
LEMMA BufferedKept ==
  ASSUME IInv, UNCHANGED <<fragments, bitmap, files, blockStart, buffer, failed>>,
         Reading' => Reading,
         \A s \in Slots : Reading' /\ Ahead(s)' => Ahead(s),
         \A s \in Slots : Reading' /\ BitmapFresh /\ Ahead(s) /\ Fresh(s) /\ ~Ahead(s)' => ~buffer[s].file
  PROVE  Buffered'
<1>1. \A s \in Slots : Fresh(s)' <=> Fresh(s)
  BY SameAddress DEF Fresh
<1>2. BitmapFresh' <=> BitmapFresh
  BY DEF BitmapFresh
<1>3. \A s \in Slots : Reading' /\ ~failed' /\ Ahead(s)' => Fresh(s)'
  BY <1>1 DEF IInv, Buffered
<1>4. ASSUME NEW s \in Slots, Reading', BitmapFresh'
      PROVE  buffer'[s].fixed \/ ~buffer'[s].file \/ (Ahead(s)' /\ Fresh(s)')
  <2>1. buffer[s].fixed \/ ~buffer[s].file \/ (Ahead(s) /\ Fresh(s))
    BY <1>2, <1>4 DEF IInv, Buffered
  <2>2. CASE Ahead(s) /\ Fresh(s)
    BY <1>1, <1>2, <1>4, <2>2
  <2> QED
    BY <2>1, <2>2
<1> QED
  BY <1>3, <1>4 DEF Buffered

LEMMA BufferedStep == ASSUME IInv, [Next]_vars PROVE Buffered'
<1> USE DEF IInv, TypeOK
<1>0. RecordsPerBuffer \in Nat /\ Slots \subseteq Nat
  BY ConstantFacts DEF Slots
<1>1. CASE UNCHANGED vars
  BY <1>1, BufferedKept DEF vars, disk, locals, Ahead, Reading
<1>2. CASE Finish
  BY <1>2 DEF Finish, Buffered, Reading
<1>3. CASE SkipUnused
  <2>1. \A s \in Slots : Ahead(s)' => Ahead(s)
    BY <1>0, <1>3 DEF SkipUnused, Ahead
  <2>2. ASSUME NEW s \in Slots, BitmapFresh, Ahead(s), Fresh(s), ~Ahead(s)'
        PROVE  ~buffer[s].file
    <3>1. blockStart + s = nodeIndex
      BY <1>0, <1>3, <2>2 DEF SkipUnused, Ahead
    <3>2. nodeIndex \notin files
      BY <1>3, <2>2 DEF SkipUnused, BitmapFresh
    <3> QED
      BY <2>2, <3>1, <3>2 DEF Fresh
  <2>3. UNCHANGED <<fragments, bitmap, files, blockStart, buffer, failed, pc>>
    BY <1>3 DEF SkipUnused, disk
  <2> QED
    BY <2>1, <2>2, <2>3, BufferedKept DEF Reading
<1>4. CASE InBlock
  BY <1>4, BufferedKept DEF InBlock, disk, locals, Ahead, Reading
<1>5. CASE EnterReadNextChunk
  <2>1. /\ pc = "node" /\ pc' = "walk" /\ nodeIndex >= blockEnd
        /\ UNCHANGED <<bitmap, files, buffer>>
    BY <1>5 DEF EnterReadNextChunk, disk
  <2>2. \A s \in Slots : ~Ahead(s) /\ ~Ahead(s)'
    BY <1>0, <2>1 DEF Ahead
  <2>3. BitmapFresh => \A s \in Slots : buffer[s].fixed \/ ~buffer[s].file
    BY <2>1, <2>2 DEF Buffered, Reading
  <2>4. BitmapFresh' <=> BitmapFresh
    BY <2>1 DEF BitmapFresh
  <2> QED
    BY <2>1, <2>2, <2>3, <2>4 DEF Buffered
<1>6. CASE SkipFragment
  BY <1>6, BufferedKept DEF SkipFragment, disk, Ahead, Reading
<1>7. CASE OutOfFragments
  BY <1>7 DEF OutOfFragments, Buffered, Reading
<1>8. CASE ReadFile
  <2>1. /\ pc = "walk" /\ pc' = "decode" /\ blockStart = nodeIndex
        /\ UNCHANGED <<fragments, bitmap, files, nodeIndex, blockStart>>
    BY <1>8 DEF ReadFile, disk, Block
  <2>2. PICK read \in 0..RecordsPerBuffer :
          /\ read <= blockEnd' - blockStart /\ failed' = (failed \/ read < blockEnd' - blockStart)
          /\ \A s \in Slots : s < read =>
               /\ Address(blockStart + s, buffer'[s].at) /\ buffer'[s].at \in Nat
               /\ ~buffer'[s].fixed /\ buffer'[s].file = (blockStart + s \in files)
          /\ \A s \in Slots : s >= read => buffer'[s] = buffer[s]
    BY <1>8, ReadFileFacts
  <2>3. blockEnd' \in Nat
    BY <1>8, FragmentEndIs DEF ReadFile, Min2
  <2>4. ASSUME NEW s \in Slots, s < read PROVE Ahead(s)' /\ Fresh(s)'
    <3>1. Ahead(s)'
      BY <1>0, <2>1, <2>2, <2>3, <2>4 DEF Ahead
    <3>2. Fresh(s)'
      BY <2>1, <2>2, <2>4, SameAddress DEF Fresh, None
    <3> QED
      BY <3>1, <3>2
  <2>5. ASSUME NEW s \in Slots, s >= read, BitmapFresh
        PROVE  buffer'[s].fixed \/ ~buffer'[s].file
    <3>1. ~Ahead(s)
      BY <2>1 DEF Ahead
    <3> QED
      BY <2>1, <2>2, <2>5, <3>1 DEF Buffered, Reading
  <2>6. \A s \in Slots : s < read \/ s >= read
    BY <1>0
  <2>7. BitmapFresh' <=> BitmapFresh
    BY <2>1 DEF BitmapFresh
  <2>8. ASSUME NEW s \in Slots, ~failed', Ahead(s)' PROVE s < read
    <3>1. ~(read < blockEnd' - blockStart)
      BY <2>2, <2>8
    <3>2. blockStart + s < blockEnd'
      BY <2>1, <2>8 DEF Ahead
    <3>3. read \in Nat /\ s \in Nat /\ blockStart \in Nat
      BY <1>0
    <3>4. ASSUME NEW end \in Nat, blockStart + s < end, ~(read < end - blockStart) PROVE s < read
      BY <3>3, <3>4
    <3> QED
      BY <2>3, <3>1, <3>2, <3>4
  <2> QED
    BY <2>4, <2>5, <2>6, <2>7, <2>8 DEF Buffered
<1>9. CASE DecodeNoRecord
  <2>1. \A s \in Slots : Ahead(s)' => Ahead(s)
    BY <1>0, <1>9 DEF DecodeNoRecord, Ahead
  <2>2. ASSUME NEW s \in Slots, Ahead(s), Fresh(s), ~Ahead(s)'
        PROVE  ~buffer[s].file
    <3>1. s = nodeIndex - blockStart
      BY <1>0, <1>9, <2>2 DEF DecodeNoRecord, Ahead
    <3> QED
      BY <1>9, <3>1 DEF DecodeNoRecord, Zeros
  <2>3. UNCHANGED <<fragments, bitmap, files, blockStart, buffer, failed>> /\ Reading
    BY <1>9 DEF DecodeNoRecord, disk, Reading
  <2> QED
    BY <2>1, <2>2, <2>3, BufferedKept
<1>10. CASE FixupFails
  BY <1>10 DEF FixupFails, Buffered, Reading
<1>11. CASE ProcessMftRecord
  <2> DEFINE slot == nodeIndex - blockStart
  <2>1. /\ slot \in Slots /\ pc = "decode" /\ pc' = "node" /\ nodeIndex' = nodeIndex + 1
        /\ buffer' = [buffer EXCEPT ![slot] = [buffer[slot] EXCEPT !.fixed = TRUE]]
        /\ UNCHANGED <<fragments, bitmap, files, blockStart, blockEnd, failed>>
        /\ buffer[slot] # Zeros
    BY <1>11, DecodeFacts DEF ProcessMftRecord, disk
  <2>2. buffer'[slot].fixed
    <3>1. buffer[slot] \in [at : Nat, file : BOOLEAN, fixed : BOOLEAN]
      BY <2>1 DEF Slot
    <3> QED
      BY <2>1, <3>1
  <2>3. \A s \in Slots : s # slot => buffer'[s] = buffer[s]
    BY <2>1
  <2>4. \A s \in Slots : s # slot => (Ahead(s)' <=> Ahead(s)) /\ (Fresh(s)' <=> Fresh(s))
    <3>1. \A s \in Slots : s # slot => (Ahead(s)' <=> Ahead(s))
      BY <1>0, <2>1 DEF Ahead
    <3>2. \A s \in Slots : s # slot => (Fresh(s)' <=> Fresh(s))
      BY <2>1, <2>3, SameAddress DEF Fresh
    <3> QED
      BY <3>1, <3>2
  <2>5. ASSUME NEW s \in Slots, Ahead(s)' PROVE s # slot
    <3>1. nodeIndex + 1 <= blockStart + s
      BY <2>1, <2>5 DEF Ahead
    <3> QED
      BY <1>0, <3>1
  <2>6. Reading /\ (BitmapFresh' <=> BitmapFresh)
    BY <2>1 DEF Reading, BitmapFresh
  <2> HIDE DEF slot
  <2>7. ASSUME NEW s \in Slots, ~failed', Ahead(s)' PROVE Fresh(s)'
    <3>1. s # slot
      BY <2>5, <2>7 DEF slot
    <3> QED
      BY <2>1, <2>4, <2>6, <2>7, <3>1 DEF Buffered
  <2>8. ASSUME NEW s \in Slots, BitmapFresh
        PROVE  buffer'[s].fixed \/ ~buffer'[s].file \/ (Ahead(s)' /\ Fresh(s)')
    <3>1. CASE s = slot
      BY <2>2, <3>1
    <3>2. CASE s # slot
      BY <2>3, <2>4, <2>6, <2>8, <3>2 DEF Buffered
    <3> QED
      BY <3>1, <3>2
  <2> QED
    BY <2>6, <2>7, <2>8 DEF Buffered
<1> QED
  BY <1>1, <1>2, <1>3, <1>4, <1>5, <1>6, <1>7, <1>8, <1>9, <1>10, <1>11 DEF Next

LEMMA DecodedStep == ASSUME IInv, [Next]_vars PROVE Decoded'
<1> USE DEF IInv, TypeOK, Decoded
<1>0. /\ Len(fragments) \in Nat \ {0}
      /\ EndOf(Len(fragments)) \in Nat
  BY LayoutAssumption, RunFacts
<1>1. CASE UNCHANGED vars
  BY <1>1 DEF vars, disk, locals, EndOf
<1>2. CASE Finish
  BY <1>2 DEF Finish, disk, locals
<1>3. CASE SkipUnused
  <2>1. nodeIndex \notin bitmap /\ nodeIndex < maxInode /\ nodeIndex' = nodeIndex + 1
        /\ UNCHANGED <<pc, maxInode, bitmap, files, nodes, failed>> /\ pc = "node"
    BY <1>3 DEF SkipUnused, disk
  <2>2. \A n \in bitmap : n < nodeIndex + 1 => n < nodeIndex
    BY <2>1, ConstantFacts DEF Inodes
  <2> QED
    BY <2>1, <2>2
<1>4. CASE InBlock
  BY <1>4 DEF InBlock, disk, locals
<1>5. CASE EnterReadNextChunk
  BY <1>5 DEF EnterReadNextChunk, disk
<1>6. CASE SkipFragment
  BY <1>6 DEF SkipFragment, disk
<1>7. CASE OutOfFragments
  <2>1. fragmentIndex = Len(fragments) + 1 /\ fragmentIndex > 1
    BY <1>0, <1>7 DEF OutOfFragments, Walked
  <2>2. EndOf(Len(fragments)) <= nodeIndex
    <3>1. EndOf(fragmentIndex - 1) <= nodeIndex
      BY <1>7, <2>1 DEF OutOfFragments, Walked
    <3>2. fragmentIndex - 1 = Len(fragments)
      BY <1>0, <2>1
    <3> QED
      BY <3>1, <3>2
  <2>3. UNCHANGED <<disk, nodeIndex, nodes, failed>>
    BY <1>7 DEF OutOfFragments, locals
  <2>4. EndOf(Len(fragments))' = EndOf(Len(fragments))
    BY <2>3 DEF disk, EndOf
  <2> QED
    BY <2>2, <2>3, <2>4 DEF disk
<1>8. CASE ReadFile
  <2>1. ~failed' => ~failed
    BY <1>8, ReadFileFacts
  <2> QED
    BY <1>8, <2>1 DEF ReadFile, disk
<1>9. CASE DecodeNoRecord
  <2>1. pc = "decode" /\ buffer[nodeIndex - blockStart] = Zeros
    BY <1>9 DEF DecodeNoRecord
  <2>2. failed
    BY <2>1, DecodeFacts DEF Fresh, Zeros
  <2> QED
    BY <1>9, <2>2 DEF DecodeNoRecord, Block, disk
<1>10. CASE FixupFails
  BY <1>10 DEF FixupFails, disk, locals
<1>11. CASE ProcessMftRecord
  <2> DEFINE slot == nodeIndex - blockStart
  <2>1. /\ pc = "decode" /\ pc' = "node" /\ nodeIndex' = nodeIndex + 1 /\ nodeIndex < maxInode
        /\ nodes' = IF buffer[slot].file THEN [nodes EXCEPT ![nodeIndex] = buffer[slot].at] ELSE nodes
        /\ UNCHANGED <<failed, maxInode, bitmap, files>>
    BY <1>11 DEF ProcessMftRecord, disk, Block
  <2>2. ASSUME ~failed, nodeIndex \in files
        PROVE  nodeIndex \in Inodes /\ nodes' = [nodes EXCEPT ![nodeIndex] = buffer[slot].at]
               /\ buffer[slot].at # None
    BY <2>1, <2>2, DecodeFacts DEF Fresh
  <2> HIDE DEF slot
  <2>3. ASSUME ~failed', NEW n \in bitmap' \cap files', n < nodeIndex'
        PROVE  nodes'[n] # None
    <3>1. n \in Inodes /\ n \in Nat /\ n \in bitmap \cap files /\ ~failed
      BY <2>1, <2>3, ConstantFacts DEF Inodes
    <3>2. CASE n = nodeIndex
      BY <2>2, <3>1, <3>2
    <3>3. CASE n # nodeIndex
      <4>1. n < nodeIndex
        BY <2>1, <2>3, <3>1, <3>3
      <4>2. nodes[n] # None
        BY <3>1, <4>1
      <4>3. nodes'[n] = nodes[n]
        <5>1. nodes' = nodes \/ nodes' = [nodes EXCEPT ![nodeIndex] = buffer[slot].at]
          BY <2>1
        <5> QED
          BY <3>1, <3>3, <5>1
      <4> QED
        BY <4>2, <4>3
    <3> QED
      BY <3>2, <3>3
  <2>4. nodeIndex' <= maxInode'
    BY <2>1
  <2> QED
    BY <2>1, <2>3, <2>4
<1> QED
  BY <1>1, <1>2, <1>3, <1>4, <1>5, <1>6, <1>7, <1>8, <1>9, <1>10, <1>11 DEF Next

LEMMA InitStep == Init => IInv
<1> SUFFICES ASSUME Init PROVE IInv
  OBVIOUS
<1> DEFINE first == fragments[1].lcn * ClusterSize
           inBuffer == [at |-> first, file |-> TRUE, fixed |-> TRUE]
<1>1. /\ Len(fragments) \in Nat \ {0} /\ 1 \in 1..Len(fragments) /\ fragments \in Layout
  BY LayoutAssumption DEF Init
<1>2. fragments[1].lcn \in Nat /\ fragments[1].nextVcn \in Nat \ {0}
      /\ fragments[1].nextVcn * ClusterSize \in Nat
  BY <1>1, RunFacts DEF Vcn0
<1>3. first \in Nat
  BY <1>2, MulNat, ConstantFacts
<1>4. size \in Nat /\ size \div RecordSize \in 1..MaxRecords
  BY ChunksAssumption DEF Init
<1>5. maxInode \in 1..MaxRecords /\ maxInode <= size \div RecordSize
  BY <1>4, ChunksAssumption DEF Init, Min2
<1>6. bitmap \subseteq Inodes /\ files \subseteq Inodes
  BY ConstantFacts DEF Init
<1>7. buffer = [[s \in Slots |-> Zeros] EXCEPT ![0] = inBuffer]
      /\ nodes = [[n \in Inodes |-> None] EXCEPT ![0] = first]
  BY DEF Init
<1>8. inBuffer \in Slot /\ Zeros \in Slot
  BY <1>3 DEF Slot
<1>9. buffer \in [Slots -> Slot] /\ nodes \in [Inodes -> Nat \cup {None}]
  BY <1>3, <1>7, <1>8
<1>10. \A s \in Slots : buffer[s] = Zeros \/ buffer[s] = inBuffer
  BY <1>7
<1>11. /\ \A n \in Inodes : nodes[n] # None => n = 0 /\ nodes[n] = first
       /\ nodes[0] # None
  BY <1>3, <1>7, ConstantFacts DEF None
<1>12. Address(0, first)
  <2>1. 0 * RecordSize = 0 /\ 0 * ClusterSize = 0
        /\ (fragments[1].lcn - 0) * ClusterSize = first
    BY <1>2, ConstantFacts
  <2>2. 0 < fragments[1].nextVcn * ClusterSize
    BY <1>2, ConstantFacts
  <2>3. Vcn0(fragments, 1) = 0
    BY DEF Vcn0
  <2>4. first = first + 0
    BY <1>3
  <2> HIDE DEF first
  <2> QED
    BY <1>1, <2>1, <2>2, <2>3, <2>4 DEF Address
<1>13. TypeOK
  <2>1. /\ pc = "node" /\ nodeIndex = 1 /\ blockStart = 0 /\ blockEnd = 0 /\ vcn = 0
        /\ realVcn = 0 /\ fragmentIndex = 1 /\ failed = FALSE /\ size \in Sizes
    BY DEF Init
  <2>2. maxInode \in 1..MaxRecords
    BY <1>5
  <2>3. /\ nodeIndex \in Nat /\ blockStart \in Nat /\ blockEnd \in Nat /\ vcn \in Nat
        /\ realVcn \in Nat /\ fragmentIndex \in Nat \ {0}
    BY <2>1
  <2>4. failed \in BOOLEAN
    BY <2>1, Zenon
  <2> QED
    BY <1>1, <1>6, <1>9, <2>1, <2>2, <2>3, <2>4 DEF TypeOK
<1>14. Positions /\ Walked /\ Block
  BY <1>5, ConstantFacts DEF Init, Positions, Walked, Block
<1>15. OwnRecordOnly
  BY <1>11, <1>12 DEF OwnRecordOnly
<1>16. Buffered
  <2>1. \A s \in Slots : ~Ahead(s)
    BY ConstantFacts DEF Init, Ahead, Slots
  <2>2. \A s \in Slots : buffer[s].fixed \/ ~buffer[s].file
    BY <1>10 DEF Zeros
  <2> QED
    BY <2>1, <2>2 DEF Buffered
<1>17. Decoded
  <2>1. \A n \in bitmap \cap files : n < nodeIndex => n = 0
    BY <1>6, ConstantFacts DEF Init, Inodes
  <2> QED
    BY <1>5, <1>11, <2>1 DEF Init, Decoded
<1> QED
  BY <1>13, <1>14, <1>15, <1>16, <1>17 DEF IInv

-----------------------------------------------------------------------------
\* The buffer, the positions of the walk and the nodes stay as described by
\* IInv through every step of ProcessMft (NtfsReader.cs:834-882).
THEOREM Invariance == Spec => []IInv
<1>1. IInv /\ [Next]_vars => IInv'
  BY TypeStep, PositionsStep, BlockStep, BufferedStep, OwnStep, DecodedStep DEF IInv
<1> QED
  BY InitStep, <1>1, PTL DEF Spec

\* Every variable keeps its type (NtfsReader.cs:817-833).
THEOREM TypeCorrect == Spec => []TypeOK
<1>1. IInv => TypeOK
  BY DEF IInv
<1> QED
  BY Invariance, <1>1, PTL

\* The unsafe code decodes only what lies inside the block it has read
\* (NtfsReader.cs:858-869).
THEOREM InsideTheBuffer == Spec => []SlotInsideBuffer
<1>1. IInv => SlotInsideBuffer
  <2> SUFFICES ASSUME IInv, pc = "decode"
               PROVE  /\ blockStart <= nodeIndex /\ nodeIndex < blockEnd
                      /\ nodeIndex - blockStart < RecordsPerBuffer
    BY DEF SlotInsideBuffer
  <2>1. nodeIndex < blockEnd /\ blockStart <= nodeIndex /\ blockEnd - blockStart <= RecordsPerBuffer
    BY DEF IInv, Block
  <2>2. RecordsPerBuffer \in Nat /\ nodeIndex \in Nat /\ blockStart \in Nat /\ blockEnd \in Nat
    BY ConstantFacts DEF IInv, TypeOK
  <2> QED
    BY <2>1, <2>2
<1> QED
  BY Invariance, <1>1, PTL

\* No node gets another record's data unless a read failed and the bitmap was
\* older than the records (NtfsReader.cs:206-216, 849).
THEOREM NoStrangersRecord == Spec => []OwnRecordOnly
<1>1. IInv => OwnRecordOnly
  BY DEF IInv
<1> QED
  BY Invariance, <1>1, PTL

\* If every read succeeds and the runs cover the table, every record in use
\* is decoded (NtfsReader.cs:834-882).
THEOREM NoneForgotten == Spec => []EveryRecordDecoded
<1>1. IInv => EveryRecordDecoded
  <2> SUFFICES ASSUME IInv, pc = "done", ~failed,
                      maxInode * RecordSize <= fragments[Len(fragments)].nextVcn * ClusterSize,
                      NEW n \in bitmap \cap files, n < maxInode
               PROVE  nodes[n] # None
    BY DEF EveryRecordDecoded
  <2> DEFINE last == fragments[Len(fragments)].nextVcn * ClusterSize
  <2>1. Len(fragments) \in 1..Len(fragments) /\ fragments \in Layout
    BY LayoutAssumption DEF IInv, TypeOK
  <2>2. last \in Nat /\ last % RecordSize = 0 /\ EndOf(Len(fragments)) \in Nat
    BY <2>1, RunFacts
  <2>3. maxInode \in Nat /\ nodeIndex \in Nat /\ n \in Nat /\ RecordSize \in Nat \ {0}
    BY ConstantFacts DEF IInv, TypeOK, Inodes
  <2>4. maxInode <= nodeIndex
    <3>1. CASE nodeIndex = maxInode
      BY <2>3, <3>1
    <3>2. CASE EndOf(Len(fragments)) <= nodeIndex
      <4>1. last <= nodeIndex * RecordSize
        BY <2>2, <2>3, <3>2, DivBelow DEF EndOf
      <4>2. maxInode * RecordSize <= nodeIndex * RecordSize
        BY <2>2, <2>3, <4>1
      <4> QED
        BY <2>3, <4>2
    <3> QED
      BY <3>1, <3>2 DEF IInv, Decoded
  <2>5. n < nodeIndex
    BY <2>3, <2>4
  <2> QED
    BY <2>5 DEF IInv, Decoded
<1> QED
  BY Invariance, <1>1, PTL
=============================================================================
