----------------------------- MODULE FileContents -----------------------------
(***************************************************************************)
(* How the contents of a file are found on the volume and read: the runs   *)
(* of its attributes are decoded into the fragments of its streams, and    *)
(* ReadFileSafe reads the clusters of the fragments, as many at a time as  *)
(* one array takes.  What it yields is hashed, and the hash is part of the *)
(* key under which the file is recorded.                                   *)
(*                                                                         *)
(* A byte of the volume is named by its address.  A run is a number of     *)
(* clusters from lcn on; NTFS stores it as two little-endian numbers of as *)
(* few bytes as will do, the length and the distance to the run before,    *)
(* and a sparse run without a distance.                                    *)
(***************************************************************************)
EXTENDS Integers, Sequences, SequencesExt

CONSTANTS
  File,               \* the non-resident attributes of files, in their order
  ClusterSize,        \* bytes of a cluster
  LastCluster,        \* of the volume
  MaxClustersToRead,  \* what one array takes
  Base,               \* the values of a byte
  Word                \* the values of a UInt64

VirtualFragment == -1   \* VIRTUALFRAGMENT, and the lcn of a sparse run

\* What the digit at a place counts.
Power[n \in 0..8] == IF n = 0 THEN 1 ELSE Base * Power[n - 1]

\* The clusters of the first n runs.
Total(runs, n) ==
  LET total[i \in 0..Len(runs)] == IF i = 0 THEN 0 ELSE total[i - 1] + runs[i].length IN total[n]

Same(a, b) == a.type = b.type /\ a.name = b.name

\* A number of a run has at most eight bytes, with its sign.
IsRun(r) ==
  /\ r.length \in Nat \ {0} /\ 2 * r.length < Power[8]
  /\ r.lcn \in Nat \cup {VirtualFragment} /\ 2 * r.lcn < Power[8]

IsAttribute(a) ==
  /\ a.type \in STRING /\ a.name \in STRING /\ a.size \in 0..(Word - 1) /\ a.start \in Nat
  /\ Len(a.runs) \in Nat /\ DOMAIN a.runs = 1..Len(a.runs)
  /\ \A i \in DOMAIN a.runs : IsRun(a.runs[i])

ASSUME ContentsAssumption ==
  /\ ClusterSize \in Nat \ {0} /\ LastCluster \in Nat /\ MaxClustersToRead \in Nat \ {0}
  /\ Base \in Nat \ {0, 1} /\ Base % 2 = 0 /\ Word \in Nat \ {0}

\* A stream that is spread over several attributes goes on, in a later one,
\* behind the clusters of the earlier ones.
ASSUME FilesAssumption ==
  \A f \in File :
    /\ Len(f) \in Nat /\ DOMAIN f = 1..Len(f)
    /\ \A a \in DOMAIN f : IsAttribute(f[a])
    /\ \A a, b \in DOMAIN f :
         a < b /\ Same(f[a], f[b]) => f[a].start + Total(f[a].runs, Len(f[a].runs)) <= f[b].start

VARIABLES
  file,        \* the attributes of the file
  pc,
  streams,     \* the streams of the node, with their fragments
  attribute, run, target,    \* what is decoded, and the stream it goes to
  lcn, vcn,                  \* the locals of ProcessFragments
  garbled,     \* a run without a distance was given one
  stream, fragment, lastVcn, clustersToRead, currentLcn,   \* of ReadFileSafe
  fileBytesRemaining, streamBytesRemaining,
  content      \* the addresses of the bytes yielded

decoder == <<attribute, run, target, lcn, vcn>>
reader  == <<stream, fragment, lastVcn, clustersToRead, currentLcn,
             fileBytesRemaining, streamBytesRemaining, content>>
vars == <<file, pc, streams, decoder, garbled, reader>>

-----------------------------------------------------------------------------
(* The runs as they are stored. *)

\* The n lowest digits of x.
Digits(x, n) == [i \in 1..n |-> (x \div Power[i - 1]) % Base]

\* The fewest digits that hold x with its sign.
Holds(x, n) == -Power[n] <= 2 * x /\ 2 * x < Power[n]
Width(x) == CHOOSE n \in 1..8 : Holds(x, n) /\ \A m \in 1..(n - 1) : ~Holds(x, m)

\* Where the last run before i that is not sparse begins.
LcnBefore(runs, i) ==
  LET real == {j \in 1..(i - 1) : runs[j].lcn # VirtualFragment}
  IN  IF real = {} THEN 0 ELSE runs[CHOOSE j \in real : \A k \in real : k <= j].lcn

Stored(runs, i) ==
  LET distance == runs[i].lcn - LcnBefore(runs, i) IN
  [length |-> Digits(runs[i].length, Width(runs[i].length)),
   offset |-> IF runs[i].lcn = VirtualFragment THEN << >>
              ELSE Digits(distance, Width(distance))]

(* ProcessRunLength and ProcessRunOffset. *)

Number(digits) ==
  LET number[i \in 0..Len(digits)] == IF i = 0 THEN 0 ELSE number[i - 1] + digits[i] * Power[i - 1]
  IN  number[Len(digits)]

RunLength(digits) == Number(digits)

\* Mutant of RunOffset: the sign is not extended.
RunOffsetUnsigned(digits) == {Number(digits)}

\* A number whose highest byte has its highest bit set is negative.  Of no
\* bytes at all the byte below the number is asked: whatever is there.
RunOffset(digits) ==
  IF digits = << >> THEN {0, -1}
  ELSE {IF Last(digits) >= Base \div 2 THEN Number(digits) - Power[Len(digits)] ELSE Number(digits)}

-----------------------------------------------------------------------------
Init ==
  /\ file \in File
  /\ pc = "attribute" /\ streams = << >> /\ garbled = FALSE
  /\ attribute = 1 /\ run = 1 /\ target = 0 /\ lcn = 0 /\ vcn = 0
  /\ stream = 1 /\ fragment = 1 /\ lastVcn = 0 /\ clustersToRead = 0 /\ currentLcn = 0
  /\ fileBytesRemaining = 0 /\ streamBytesRemaining = 0 /\ content = << >>

(* ProcessAttributes and ProcessFragments. *)

SearchStream(a) == {s \in DOMAIN streams : Same(streams[s], a)}

\* The stream of a non-resident attribute is found or made.
EnterAttribute ==
  /\ pc = "attribute" /\ attribute <= Len(file)
  /\ LET a == file[attribute]  found == SearchStream(a) IN
     /\ IF found = {}
        THEN /\ streams' = Append(streams, [type |-> a.type, name |-> a.name,
                                            size |-> a.size, fragments |-> << >>])
             /\ target' = Len(streams) + 1
        ELSE \E s \in found :
               /\ streams' = [streams EXCEPT ![s].size = IF @ = 0 THEN a.size ELSE @]
               /\ target' = s
     /\ vcn' = a.start
  /\ lcn' = 0 /\ run' = 1
  /\ pc' = "runs"
  /\ UNCHANGED <<file, attribute, garbled, reader>>

DecodeRun ==
  LET runs == file[attribute].runs IN
  /\ pc = "runs" /\ run <= Len(runs)
  /\ \E offset \in RunOffset(Stored(runs, run).offset) :
       /\ lcn' = lcn + offset
       /\ vcn' = vcn + RunLength(Stored(runs, run).length)
       /\ streams' = [streams EXCEPT ![target].fragments =
            Append(@, [lcn |-> IF offset = 0 THEN VirtualFragment ELSE lcn', nextVcn |-> vcn'])]
       /\ garbled' = (garbled \/ (runs[run].lcn = VirtualFragment /\ offset # 0))
  /\ run' = run + 1
  /\ UNCHANGED <<file, pc, attribute, target, reader>>

NextAttribute ==
  /\ pc = "runs" /\ run > Len(file[attribute].runs)
  /\ attribute' = attribute + 1
  /\ pc' = "attribute"
  /\ UNCHANGED <<file, streams, run, target, lcn, vcn, garbled, reader>>

(* ReadFileSafe. *)

\* The size of a node is that of its first stream.
BeginReading ==
  /\ pc = "attribute" /\ attribute > Len(file)
  /\ IF streams = << >> \/ streams[1].size = 0
     THEN pc' = "done" /\ UNCHANGED fileBytesRemaining
     ELSE pc' = "stream" /\ fileBytesRemaining' = streams[1].size
  /\ UNCHANGED <<file, streams, decoder, garbled, stream, fragment, lastVcn, clustersToRead,
                 currentLcn, streamBytesRemaining, content>>

\* The fragments of a stream that has none are null.
EnterStream ==
  /\ pc = "stream" /\ stream <= Len(streams)
  /\ streamBytesRemaining' = streams[stream].size
  /\ lastVcn' = 0 /\ fragment' = 1
  /\ pc' = IF streams[stream].fragments = << >> THEN "failed" ELSE "fragment"
  /\ UNCHANGED <<file, streams, decoder, garbled, stream, clustersToRead, currentLcn,
                 fileBytesRemaining, content>>

EndOfStreams ==
  /\ pc = "stream" /\ stream > Len(streams)
  /\ pc' = "done"
  /\ UNCHANGED <<file, streams, decoder, garbled, reader>>

Fragments == streams[stream].fragments

SkipFragment ==
  /\ pc = "fragment" /\ fragment <= Len(Fragments) /\ Fragments[fragment].lcn = VirtualFragment
  /\ fragment' = fragment + 1
  /\ UNCHANGED <<file, pc, streams, decoder, garbled, stream, lastVcn, clustersToRead, currentLcn,
                 fileBytesRemaining, streamBytesRemaining, content>>

EnterFragment ==
  /\ pc = "fragment" /\ fragment <= Len(Fragments) /\ Fragments[fragment].lcn # VirtualFragment
  /\ clustersToRead' = Fragments[fragment].nextVcn - lastVcn
  /\ currentLcn' = Fragments[fragment].lcn
  /\ pc' = "chunk"
  /\ UNCHANGED <<file, streams, decoder, garbled, stream, fragment, lastVcn,
                 fileBytesRemaining, streamBytesRemaining, content>>

EndOfFragments ==
  /\ pc = "fragment" /\ fragment > Len(Fragments)
  /\ stream' = stream + 1
  /\ pc' = "stream"
  /\ UNCHANGED <<file, streams, decoder, garbled, fragment, lastVcn, clustersToRead, currentLcn,
                 fileBytesRemaining, streamBytesRemaining, content>>

Clusters == IF clustersToRead > MaxClustersToRead THEN MaxClustersToRead ELSE clustersToRead

\* Mutant of Yield: the next chunk begins where this one did.
YieldInPlace(bytes) ==
  /\ content' = content \o [i \in 1..bytes |-> currentLcn * ClusterSize + i - 1]
  /\ fileBytesRemaining' = fileBytesRemaining - bytes
  /\ streamBytesRemaining' = (streamBytesRemaining - bytes) % Word
  /\ clustersToRead' = clustersToRead - Clusters
  /\ UNCHANGED <<currentLcn, pc>>

Yield(bytes) ==
  /\ content' = content \o [i \in 1..bytes |-> currentLcn * ClusterSize + i - 1]
  /\ fileBytesRemaining' = fileBytesRemaining - bytes
  /\ streamBytesRemaining' = (streamBytesRemaining - bytes) % Word
  /\ clustersToRead' = clustersToRead - Clusters
  /\ currentLcn' = currentLcn + Clusters
  /\ UNCHANGED pc

\* A chunk is read, cut at the end of the file and yielded.  One that is longer
\* than the rest of its stream, but not of the file, is an exception.
ReadChunk ==
  LET chunkSize == Clusters * ClusterSize IN
  /\ pc = "chunk" /\ clustersToRead > 0
  /\ currentLcn >= 0 /\ currentLcn + Clusters <= LastCluster + 1
  /\ \/ chunkSize > fileBytesRemaining /\ Yield(fileBytesRemaining)
     \/ chunkSize <= fileBytesRemaining /\ chunkSize <= streamBytesRemaining /\ Yield(chunkSize)
     \/ /\ chunkSize <= fileBytesRemaining /\ chunkSize > streamBytesRemaining
        /\ pc' = "failed"
        /\ UNCHANGED <<content, fileBytesRemaining, streamBytesRemaining, clustersToRead, currentLcn>>
  /\ UNCHANGED <<file, streams, decoder, garbled, stream, fragment, lastVcn>>

\* What is not on the volume cannot be read, and other clusters may fail.
ReadFails ==
  /\ pc = "chunk" /\ clustersToRead > 0
  /\ pc' = "failed"
  /\ UNCHANGED <<file, streams, decoder, garbled, reader>>

LeaveFragment ==
  /\ pc = "chunk" /\ clustersToRead = 0
  /\ lastVcn' = Fragments[fragment].nextVcn
  /\ fragment' = fragment + 1
  /\ pc' = "fragment"
  /\ UNCHANGED <<file, streams, decoder, garbled, stream, clustersToRead, currentLcn,
                 fileBytesRemaining, streamBytesRemaining, content>>

Next ==
  \/ EnterAttribute \/ DecodeRun \/ NextAttribute
  \/ BeginReading \/ EnterStream \/ EndOfStreams
  \/ SkipFragment \/ EnterFragment \/ EndOfFragments
  \/ ReadChunk \/ ReadFails \/ LeaveFragment

Spec == Init /\ [][Next]_vars

-----------------------------------------------------------------------------
\* A run that begins where the run before does is stored like a sparse one:
\* this is how the first run looks of the file at the volume's first cluster.
LooksSparse(runs, i) == runs[i].lcn \in {VirtualFragment, LcnBefore(runs, i)}

\* What the volume has of an attribute.
Extents(a) ==
  [i \in DOMAIN a.runs |->
     [lcn     |-> IF LooksSparse(a.runs, i) THEN VirtualFragment ELSE a.runs[i].lcn,
      nextVcn |-> a.start + Total(a.runs, i)]]

\* What of it has been decoded.
Decoded(a) ==
  IF a < attribute THEN Extents(file[a])
  ELSE IF a = attribute /\ pc = "runs" THEN SubSeq(Extents(file[a]), 1, run - 1)
  ELSE << >>

\* The fragments that the attributes of a stream have given it.
Parts(s) == [a \in DOMAIN file |-> IF s \in SearchStream(file[a]) THEN Decoded(a) ELSE << >>]

(* Whatever the lengths, distances and directions of its runs, a stream has*)
(* the fragments that the volume has for it - unless the distance of a     *)
(* sparse run was made up from what lies below the number.                 *)
FragmentsExact ==
  ~garbled => \A s \in DOMAIN streams : streams[s].fragments = FlattenSeq(Parts(s))

StartVcn(fragments, i) == IF i = 1 THEN 0 ELSE fragments[i - 1].nextVcn

\* The first i fragments are on the volume.
Solid(fragments, i) == \A j \in 1..i : fragments[j].lcn # VirtualFragment

\* As far as they are on the volume, their clusters in order.
RightBytes(fragments) ==
  \A i \in DOMAIN fragments : Solid(fragments, i) =>
    \A p \in (StartVcn(fragments, i) * ClusterSize)..(fragments[i].nextVcn * ClusterSize - 1) :
      p < Len(content) =>
        content[p + 1] = (fragments[i].lcn - StartVcn(fragments, i)) * ClusterSize + p

(* The bytes yielded are those of the file's first stream, at any time of  *)
(* a reading, also of one that fails, up to the first fragment that is not *)
(* on the volume; and if there is none, a reading that ends has yielded    *)
(* all of them, and of other streams nothing.                              *)
ContentExact ==
  streams # << >> =>
    LET first == streams[1].fragments  size == streams[1].size IN
    /\ Len(content) <= size
    /\ RightBytes(first)
    /\ pc = "done" /\ Solid(first, Len(first)) /\ first # << >>
       /\ size <= first[Len(first)].nextVcn * ClusterSize => Len(content) = size

-----------------------------------------------------------------------------
(* The inductive invariant of the decoding: every attribute entered has    *)
(* the one stream of its name, the locals are where the runs decoded end,  *)
(* and every fragment ends before the attributes to come begin.            *)

Fragment == [lcn : Int, nextVcn : Nat]
Stream   == [type : STRING, name : STRING, size : Nat, fragments : Seq(Fragment)]

Ordered ==
  /\ streams \in Seq(Stream)
  /\ \A s \in DOMAIN streams : \A i, j \in DOMAIN streams[s].fragments :
       i <= j => streams[s].fragments[i].nextVcn <= streams[s].fragments[j].nextVcn

Entered(a) == a < attribute \/ (a = attribute /\ pc = "runs")

Located ==
  /\ file \in File /\ attribute \in 1..(Len(file) + 1) /\ lcn \in Int /\ garbled \in BOOLEAN
  /\ pc \notin {"attribute", "runs"} => attribute > Len(file)

OneStream ==
  /\ \A s, t \in DOMAIN streams : Same(streams[s], streams[t]) => s = t
  /\ \A a \in DOMAIN file : Entered(a) => SearchStream(file[a]) # {}

AtRun ==
  pc = "runs" =>
    LET a == file[attribute] IN
    /\ attribute \in DOMAIN file /\ target \in SearchStream(a)
    /\ run \in 1..(Len(a.runs) + 1)
    /\ vcn = a.start + Total(a.runs, run - 1)
    /\ ~garbled => lcn = LcnBefore(a.runs, run)

Behind ==
  \A s \in DOMAIN streams : \A i \in DOMAIN streams[s].fragments :
    /\ pc = "runs" /\ s = target => streams[s].fragments[i].nextVcn <= vcn
    /\ \A a \in DOMAIN file :
         ~Entered(a) /\ s \in SearchStream(file[a]) => streams[s].fragments[i].nextVcn <= file[a].start

Decoding == Located /\ Ordered /\ OneStream /\ AtRun /\ Behind /\ FragmentsExact

(* The inductive invariant of the reading, for fragments in order.  The    *)
(* bytes yielded follow the clusters that have been read: a fragment that  *)
(* was passed is in the content, or the content is complete.               *)

Fresh == content = << >> /\ stream = 1 /\ fileBytesRemaining = 0

\* The content ends with the first n clusters, or with the file.
Reached(n) ==
  Len(content) = IF n * ClusterSize <= streams[1].size THEN n * ClusterSize ELSE streams[1].size

Counted ==
  /\ content \in Seq(Int) /\ fileBytesRemaining \in Nat /\ stream \in Nat \ {0}
  /\ Len(content) + fileBytesRemaining = streams[1].size
  /\ pc = "stream" /\ stream = 1 => content = << >>

Placed ==
  /\ pc \in {"fragment", "chunk"} =>
       stream \in DOMAIN streams /\ fragment \in 1..(Len(Fragments) + 1) /\ lastVcn \in Nat
  /\ pc = "chunk" => fragment \in DOMAIN Fragments /\ clustersToRead \in Int /\ currentLcn \in Int

Covered ==
  \A i \in DOMAIN streams[1].fragments :
    (stream > 1 \/ (pc \in {"fragment", "chunk"} /\ i < fragment)) /\ Solid(streams[1].fragments, i) =>
      Len(content) >= streams[1].size \/ Len(content) >= streams[1].fragments[i].nextVcn * ClusterSize

AtFragment ==
  LET first == streams[1].fragments IN
  pc = "fragment" /\ stream = 1 /\ Solid(first, fragment - 1) =>
    lastVcn = StartVcn(first, fragment) /\ Reached(lastVcn)

InFragment ==
  LET first == streams[1].fragments  n == first[fragment].nextVcn - clustersToRead IN
  pc = "chunk" /\ stream = 1 /\ Solid(first, fragment) =>
    /\ clustersToRead >= 0 /\ n >= StartVcn(first, fragment)
    /\ currentLcn = first[fragment].lcn + n - StartVcn(first, fragment)
    /\ Reached(n)

Finished == pc = "done" /\ streams[1].size > 0 => stream > 1

Reading == Counted /\ Placed /\ Covered /\ AtFragment /\ InFragment /\ Finished /\ RightBytes(streams[1].fragments)

IInv ==
  IF pc \in {"attribute", "runs"} THEN Fresh
  ELSE streams # << >> /\ Ordered => Reading
=============================================================================
