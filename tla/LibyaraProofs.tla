---------------------------- MODULE LibyaraProofs ----------------------------
(***************************************************************************)
(* Proofs about libyara, in two parts: the automaton that finds the atoms  *)
(* (AhoCorasick, AtomScan), and the slots of the threads that scan with    *)
(* the same rules (NativeScans).                                           *)
(*                                                                         *)
(* The first part goes from walks along a function and the suffixes of     *)
(* sequences, over the order of the cells and what a list of them goes on  *)
(* with, to the walk along the failure links that finds the longest suffix *)
(* of a child, the queue of states, and one lemma for each action; then    *)
(* from shortened links and the entries of states in the table to the walk *)
(* of a scan along the table, and the atoms found after each byte.         *)
(***************************************************************************)
EXTENDS NativeScans, AtomScan, FiniteSetTheorems, SequenceTheorems, TLAPS

(***************************************************************************)
(* PART 1: the automaton, how it is built and how data are read with it.   *)
(***************************************************************************)

\* If some number were left out, adding 1 would map the finite set of the
\* numbers before it into itself without zero.
LEMMA Induction ==
  ASSUME NEW S, 0 \in S, \A n \in Nat : n \in S => n + 1 \in S
  PROVE  \A n \in Nat : n \in S
<1> SUFFICES ASSUME NEW n \in Nat, n \notin S
             PROVE  FALSE
  OBVIOUS
<1> DEFINE T == {i \in 0..n : i \in S}
           next == [i \in T |-> i + 1]
<1>1. IsFiniteSet(T)
  <2>1. IsFiniteSet(0..n)
    BY FS_Interval
  <2> QED
    BY <2>1, FS_Subset
<1>2. 0 \in T
  OBVIOUS
<1>3. IsFiniteSet(T \ {0}) /\ Cardinality(T \ {0}) = Cardinality(T) - 1
  BY <1>1, <1>2, FS_RemoveElement
<1>4. Cardinality(T) \in Nat
  BY <1>1, FS_CardinalityType
<1>5. Cardinality(T \ {0}) < Cardinality(T)
  BY <1>3, <1>4
<1>6. next \in [T -> T \ {0}]
  OBVIOUS
<1>7. \A i, j \in T : i # j => next[i] # next[j]
  OBVIOUS
<1> HIDE DEF T, next
<1> QED
  BY <1>1, <1>3, <1>5, <1>6, <1>7, FS_PigeonHole

\* The same up to a bound.
LEMMA InductionTo ==
  ASSUME NEW n \in Nat, NEW S, 0 \in S, \A i \in 0..(n - 1) : i \in S => i + 1 \in S
  PROVE  \A i \in 0..n : i \in S
<1> DEFINE T == {i \in Nat : i \in S \/ i > n}
<1>1. 0 \in T /\ \A i \in Nat : i \in T => i + 1 \in T
  OBVIOUS
<1> HIDE DEF T
<1>2. \A i \in Nat : i \in T
  BY <1>1, Induction
<1> QED
  BY <1>2 DEF T

\* A function may be defined by its value at each number from that before.
Defines(n, V, base, step) ==
  \E f \in [0..n -> V] : f[0] = base /\ \A i \in 1..n : f[i] = step[i][f[i - 1]]

\* By induction: a beginning of such a function can be made one longer.
LEMMA Recursion ==
  ASSUME NEW n \in Nat, NEW V, NEW base \in V, NEW step \in [1..n -> [V -> V]]
  PROVE  Defines(n, V, base, step)
<1> DEFINE Good(m, f) == f \in [0..m -> V] /\ f[0] = base /\ \A i \in 1..m : f[i] = step[i][f[i - 1]]
           S == {m \in 0..n : \E f : Good(m, f)}
<1>1. 0 \in S
  <2>1. [i \in 0..0 |-> base] \in [0..0 -> V] /\ [i \in 0..0 |-> base][0] = base
    OBVIOUS
  <2>2. Good(0, [i \in 0..0 |-> base])
    BY <2>1
  <2> HIDE DEF Good
  <2> QED
    BY <2>2
<1>2. \A m \in 0..(n - 1) : m \in S => m + 1 \in S
  <2> SUFFICES ASSUME NEW m \in 0..(n - 1), m \in S
               PROVE  m + 1 \in S
    OBVIOUS
  <2>1. PICK f : Good(m, f)
    OBVIOUS
  <2> DEFINE g == [i \in 0..(m + 1) |-> IF i = m + 1 THEN step[m + 1][f[m]] ELSE f[i]]
  <2>2. f[m] \in V /\ m + 1 \in 1..n /\ m + 1 \in 0..n
    BY <2>1
  <2>3. step[m + 1][f[m]] \in V
    BY <2>2
  <2>4. g \in [0..(m + 1) -> V]
    BY <2>1, <2>3
  <2>5. g[0] = base /\ \A i \in 1..(m + 1) : g[i] = step[i][g[i - 1]]
    BY <2>1
  <2>6. Good(m + 1, g)
    BY <2>4, <2>5
  <2> HIDE DEF Good
  <2> QED
    BY <2>2, <2>6
<1> HIDE DEF S
<1>3. \A m \in 0..n : m \in S
  BY <1>1, <1>2, InductionTo
<1> QED
  BY <1>3 DEF S, Defines

\* Beginnings of a walk.
Begins(f, x, V, m, g) == g \in [0..m -> V] /\ g[0] = x /\ \A i \in 1..m : g[i] = f[g[i - 1]]

Goes(f, walk) == \A n \in Nat : walk[n + 1] = f[walk[n]]

\* The places of a walk, which Iterated names and does not show to exist.
LEMMA Walks ==
  ASSUME NEW f, NEW V, \A v \in V : f[v] \in V, NEW x \in V
  PROVE  /\ Iterated(f, x)[0] = x
         /\ \A n \in Nat : Iterated(f, x)[n] \in V
         /\ Goes(f, Iterated(f, x))
<1>1. \A m \in Nat : \E g : Begins(f, x, V, m, g)
  <2> SUFFICES ASSUME NEW m \in Nat PROVE \E g : Begins(f, x, V, m, g)
    OBVIOUS
  <2> DEFINE step == [i \in 1..m |-> [v \in V |-> f[v]]]
  <2>1. step \in [1..m -> [V -> V]]
    OBVIOUS
  <2>2. Defines(m, V, x, step)
    <3> HIDE DEF step
    <3> QED
      BY <2>1, Recursion, Zenon
  <2>3. PICK g \in [0..m -> V] : g[0] = x /\ \A i \in 1..m : g[i] = step[i][g[i - 1]]
    BY <2>2 DEF Defines
  <2>4. \A i \in 1..m : g[i] = f[g[i - 1]]
    <3> TAKE i \in 1..m
    <3>1. i - 1 \in 0..m
      OBVIOUS
    <3>2. g[i - 1] \in V
      BY <2>3, <3>1
    <3> QED
      BY <2>3, <3>2
  <2>5. Begins(f, x, V, m, g)
    BY <2>3, <2>4 DEF Begins
  <2> QED
    BY <2>5
<1> DEFINE G(m) == CHOOSE g : Begins(f, x, V, m, g)
           walk == [n \in Nat |-> G(n)[n]]
<1>2. \A m \in Nat : Begins(f, x, V, m, G(m))
  BY <1>1
<1>3. \A m \in Nat : G(m)[0] = x /\ \A i \in 0..m : G(m)[i] \in V
  BY <1>2 DEF Begins
<1> HIDE DEF G
<1>4. \A m \in Nat : G(m + 1)[m] = G(m)[m]
  <2> SUFFICES ASSUME NEW m \in Nat PROVE G(m + 1)[m] = G(m)[m]
    OBVIOUS
  <2> DEFINE S == {i \in 0..m : G(m + 1)[i] = G(m)[i]}
  <2>1. 0 \in S
    BY <1>3
  <2>2. \A i \in 0..(m - 1) : i \in S => i + 1 \in S
    <3> SUFFICES ASSUME NEW i \in 0..(m - 1), G(m + 1)[i] = G(m)[i]
                 PROVE  i + 1 \in 0..m /\ G(m + 1)[i + 1] = G(m)[i + 1]
      OBVIOUS
    <3>1. i + 1 \in 1..m /\ i + 1 \in 1..(m + 1) /\ (i + 1) - 1 = i
      OBVIOUS
    <3>2. G(m + 1)[i + 1] = f[G(m + 1)[i]]
      BY <1>2, <3>1 DEF Begins
    <3>3. G(m)[i + 1] = f[G(m)[i]]
      BY <1>2, <3>1 DEF Begins
    <3> QED
      BY <3>1, <3>2, <3>3
  <2> HIDE DEF S
  <2>3. \A i \in 0..m : i \in S
    BY <2>1, <2>2, InductionTo
  <2>4. m \in 0..m
    OBVIOUS
  <2> QED
    BY <2>3, <2>4 DEF S
<1>5. walk[0] = x /\ \A n \in Nat : walk[n] \in V
  BY <1>3
<1>6. \A n \in Nat : walk[n + 1] = f[walk[n]]
  <2> TAKE n \in Nat
  <2>1. n + 1 \in 1..(n + 1) /\ (n + 1) - 1 = n
    OBVIOUS
  <2>2. G(n + 1)[n + 1] = f[G(n + 1)[n]]
    BY <1>2, <2>1 DEF Begins
  <2> QED
    BY <1>4, <2>2
<1> HIDE DEF walk
<1>7. walk = [n \in Nat |-> IF n = 0 THEN x ELSE f[walk[n - 1]]]
  <2>1. \A n \in Nat : walk[n] = IF n = 0 THEN x ELSE f[walk[n - 1]]
    <3> TAKE n \in Nat
    <3>1. n # 0 => n - 1 \in Nat /\ (n - 1) + 1 = n
      OBVIOUS
    <3> QED
      BY <1>5, <1>6, <3>1
  <2> QED
    BY <2>1 DEF walk
<1> DEFINE it == Iterated(f, x)
<1>8. it = [n \in Nat |-> IF n = 0 THEN x ELSE f[it[n - 1]]]
  BY <1>7 DEF Iterated
<1> HIDE DEF it
<1>9. it[0] = x /\ \A n \in Nat : it[n + 1] = f[it[n]]
  BY <1>8
<1>10. \A n \in Nat : it[n] \in V
  <2> DEFINE S == {n \in Nat : it[n] \in V}
  <2>1. 0 \in S /\ \A n \in Nat : n \in S => n + 1 \in S
    BY <1>9
  <2> HIDE DEF S
  <2>2. \A n \in Nat : n \in S
    BY <2>1, Induction
  <2> QED
    BY <2>2 DEF S
<1> QED
  BY <1>9, <1>10 DEF it, Goes

\* A walk that comes to S has a first place there.
LEMMA FirstPlace ==
  ASSUME NEW S, NEW walk, NEW bound \in Nat, NEW k \in 0..bound, walk[k] \in S
  PROVE  /\ FirstIn(S, walk, bound) \in 0..bound
         /\ walk[FirstIn(S, walk, bound)] \in S
         /\ \A m \in 0..(FirstIn(S, walk, bound) - 1) : walk[m] \notin S
<1> DEFINE First(n) == walk[n] \in S /\ \A m \in 0..(n - 1) : walk[m] \notin S
           T == {i \in 0..bound : (\E m \in 0..i : walk[m] \in S) => \E n \in 0..i : First(n)}
<1>1. 0 \in T
  OBVIOUS
<1>2. \A i \in 0..(bound - 1) : i \in T => i + 1 \in T
  <2> SUFFICES ASSUME NEW i \in 0..(bound - 1), i \in T, NEW m \in 0..(i + 1), walk[m] \in S
               PROVE  i + 1 \in 0..bound /\ \E n \in 0..(i + 1) : First(n)
    OBVIOUS
  <2>1. CASE \E j \in 0..i : walk[j] \in S
    <3>1. PICK n \in 0..i : First(n)
      BY <2>1
    <3> QED
      BY <3>1
  <2>2. CASE \A j \in 0..i : walk[j] \notin S
    <3>1. m = i + 1
      BY <2>2
    <3>2. First(m)
      BY <2>2, <3>1
    <3> QED
      BY <3>1, <3>2
  <2> QED
    BY <2>1, <2>2
<1> HIDE DEF T
<1>3. k \in T
  BY <1>1, <1>2, InductionTo
<1>4. \E n \in 0..bound : First(n)
  <2>1. PICK n \in 0..k : First(n)
    BY <1>3 DEF T
  <2> QED
    BY <2>1
<1> DEFINE it == CHOOSE n \in 0..bound : First(n)
<1>5. it \in 0..bound /\ First(it)
  BY <1>4
<1>6. it = FirstIn(S, walk, bound)
  BY DEF FirstIn
<1> QED
  BY <1>5, <1>6

-----------------------------------------------------------------------------
(* Beginnings and ends of sequences of bytes. *)

\* What beginnings and ends are, byte by byte.
LEMMA PrefixIs ==
  ASSUME NEW s \in Seq(Byte), NEW t \in Seq(Byte)
  PROVE  IsPrefix(s, t) <=> Len(s) <= Len(t) /\ \A i \in 1..Len(s) : s[i] = t[i]
<1>1. SubSeq(s, 1, Len(s)) = s
  BY SubSeqFull
<1>2. Len(s) \in Nat /\ Len(t) \in Nat
  BY LenProperties
<1>3. CASE Len(s) <= Len(t)
  <2> DEFINE h == SubSeq(t, 1, Len(s))
  <2>1. \A i \in 1..Len(s) : t[i] \in Byte
    BY <1>2, <1>3, LenProperties
  <2>2. h \in Seq(Byte) /\ Len(h) = IF 1 <= Len(s) THEN Len(s) - 1 + 1 ELSE 0
    BY <1>2, <2>1, SubSeqProperties
  <2>3. \A i \in 1..(Len(s) - 1 + 1) : h[i] = t[1 + i - 1]
    BY <1>2, <2>1, SubSeqProperties
  <2>4. Len(h) = Len(s) /\ \A i \in 1..Len(s) : h[i] = t[i]
    BY <1>2, <2>2, <2>3
  <2> HIDE DEF h
  <2>5. (\A i \in 1..Len(s) : s[i] = h[i]) => s = h
    BY <2>2, <2>4, SeqEqual
  <2>6. s = h <=> \A i \in 1..Len(s) : s[i] = t[i]
    BY <2>4, <2>5
  <2> QED
    BY <1>1, <1>3, <2>6 DEF IsPrefix, h
<1> QED
  BY <1>2, <1>3 DEF IsPrefix

LEMMA Reversed ==
  ASSUME NEW s \in Seq(Byte)
  PROVE  /\ Reverse(s) \in Seq(Byte) /\ Len(Reverse(s)) = Len(s)
         /\ \A i \in 1..Len(s) : Reverse(s)[i] = s[(Len(s) - i) + 1]
<1>1. Len(s) \in Nat /\ \A i \in 1..Len(s) : s[i] \in Byte
  BY LenProperties
<1>2. \A i \in 1..Len(s) : s[(Len(s) - i) + 1] \in Byte
  BY <1>1
<1>3. Reverse(s) \in [1..Len(s) -> Byte]
  BY <1>2 DEF Reverse
<1>4. Reverse(s) \in Seq(Byte)
  BY <1>1, <1>3, SeqDef
<1>5. Len(Reverse(s)) = Len(s)
  <2>1. DOMAIN Reverse(s) = 1..Len(s) /\ DOMAIN Reverse(s) = 1..Len(Reverse(s)) /\ Len(Reverse(s)) \in Nat
    BY <1>3, <1>4, LenProperties
  <2> QED
    BY <1>1, <2>1
<1> QED
  BY <1>4, <1>5 DEF Reverse

LEMMA SuffixIs ==
  ASSUME NEW s \in Seq(Byte), NEW t \in Seq(Byte)
  PROVE  IsSuffix(s, t) <=> /\ Len(s) <= Len(t)
                            /\ \A i \in 1..Len(s) : s[i] = t[(Len(t) - Len(s)) + i]
<1> DEFINE n == Len(s)
           m == Len(t)
<1>1. n \in Nat /\ m \in Nat
  BY LenProperties
<1>2. IsSuffix(s, t) <=> n <= m /\ \A i \in 1..n : Reverse(s)[i] = Reverse(t)[i]
  BY Reversed, PrefixIs DEF IsSuffix
<1>3. n <= m => \A i \in 1..n : Reverse(s)[i] = s[(n - i) + 1] /\ Reverse(t)[i] = t[(m - i) + 1]
  <2>1. \A i \in 1..n : n <= m => i \in 1..m
    BY <1>1
  <2> QED
    BY <2>1, Reversed
<1> HIDE DEF n, m
<1>4. CASE n <= m
  <2>1. ASSUME \A i \in 1..n : s[(n - i) + 1] = t[(m - i) + 1], NEW i \in 1..n
        PROVE  s[i] = t[(m - n) + i]
    <3> DEFINE j == (n - i) + 1
    <3>1. j \in 1..n /\ (n - j) + 1 = i /\ (m - j) + 1 = (m - n) + i
      BY <1>1
    <3> QED
      BY <2>1, <3>1
  <2>2. ASSUME \A i \in 1..n : s[i] = t[(m - n) + i], NEW i \in 1..n
        PROVE  s[(n - i) + 1] = t[(m - i) + 1]
    <3> DEFINE j == (n - i) + 1
    <3>1. j \in 1..n /\ (m - n) + j = (m - i) + 1
      BY <1>1
    <3> QED
      BY <2>2, <3>1
  <2> QED
    BY <1>2, <1>3, <1>4, <2>1, <2>2 DEF n, m
<1> QED
  BY <1>1, <1>2, <1>4 DEF n, m

\* The ends of one sequence are ends of each other by their lengths.
LEMMA SuffixOrder ==
  ASSUME NEW s \in Seq(Byte), NEW t \in Seq(Byte), NEW u \in Seq(Byte)
  PROVE  /\ IsSuffix(s, s) /\ IsSuffix(Root, s)
         /\ IsSuffix(s, t) => Len(s) <= Len(t)
         /\ IsSuffix(s, t) /\ Len(s) = Len(t) => s = t
         /\ IsSuffix(s, t) /\ IsSuffix(t, u) => IsSuffix(s, u)
         /\ IsSuffix(s, u) /\ IsSuffix(t, u) /\ Len(s) <= Len(t) => IsSuffix(s, t)
<1>1. Len(s) \in Nat /\ Len(t) \in Nat /\ Len(u) \in Nat
  BY LenProperties
<1>2. Root \in Seq(Byte) /\ Len(Root) = 0
  BY EmptySeq DEF Root
<1>3. IsSuffix(s, s) /\ IsSuffix(Root, s)
  <2>1. \A i \in 1..Len(s) : (Len(s) - Len(s)) + i = i
    BY <1>1
  <2>2. IsSuffix(s, s)
    BY <1>1, <2>1, SuffixIs
  <2>3. Len(Root) <= Len(s) /\ \A i \in 1..Len(Root) : Root[i] = s[(Len(s) - Len(Root)) + i]
    BY <1>1, <1>2
  <2> QED
    BY <1>2, <2>2, <2>3, SuffixIs
<1>4. IsSuffix(s, t) => Len(s) <= Len(t)
  BY SuffixIs
<1>5. IsSuffix(s, t) /\ Len(s) = Len(t) => s = t
  <2> SUFFICES ASSUME IsSuffix(s, t), Len(s) = Len(t) PROVE s = t
    OBVIOUS
  <2>1. \A i \in 1..Len(s) : s[i] = t[(Len(t) - Len(s)) + i] /\ (Len(t) - Len(s)) + i = i
    BY <1>1, SuffixIs
  <2> QED
    BY <2>1, SeqEqual
<1>6. ASSUME IsSuffix(s, t), IsSuffix(t, u) PROVE IsSuffix(s, u)
  <2>1. Len(s) <= Len(t) /\ \A i \in 1..Len(s) : s[i] = t[(Len(t) - Len(s)) + i]
    BY <1>6, SuffixIs
  <2>2. Len(t) <= Len(u) /\ \A i \in 1..Len(t) : t[i] = u[(Len(u) - Len(t)) + i]
    BY <1>6, SuffixIs
  <2>3. \A i \in 1..Len(s) : s[i] = u[(Len(u) - Len(s)) + i]
    <3> TAKE i \in 1..Len(s)
    <3> DEFINE j == (Len(t) - Len(s)) + i
    <3>1. j \in 1..Len(t) /\ (Len(u) - Len(t)) + j = (Len(u) - Len(s)) + i
      BY <1>1, <2>1
    <3> QED
      BY <2>1, <2>2, <3>1
  <2>4. Len(s) <= Len(u)
    BY <1>1, <2>1, <2>2
  <2> QED
    BY <2>3, <2>4, SuffixIs
<1>7. ASSUME IsSuffix(s, u), IsSuffix(t, u), Len(s) <= Len(t) PROVE IsSuffix(s, t)
  <2>1. Len(s) <= Len(u) /\ \A i \in 1..Len(s) : s[i] = u[(Len(u) - Len(s)) + i]
    BY <1>7, SuffixIs
  <2>2. Len(t) <= Len(u) /\ \A i \in 1..Len(t) : t[i] = u[(Len(u) - Len(t)) + i]
    BY <1>7, SuffixIs
  <2>3. \A i \in 1..Len(s) : s[i] = t[(Len(t) - Len(s)) + i]
    <3> TAKE i \in 1..Len(s)
    <3> DEFINE j == (Len(t) - Len(s)) + i
    <3>1. j \in 1..Len(t) /\ (Len(u) - Len(t)) + j = (Len(u) - Len(s)) + i
      BY <1>1, <1>7
    <3> QED
      BY <2>1, <2>2, <3>1
  <2> QED
    BY <1>7, <2>3, SuffixIs
<1>8. IsSuffix(s, t) /\ IsSuffix(t, u) => IsSuffix(s, u)
  BY <1>6
<1>9. IsSuffix(s, u) /\ IsSuffix(t, u) /\ Len(s) <= Len(t) => IsSuffix(s, t)
  BY <1>7
<1> QED
  BY <1>3, <1>4, <1>5, <1>8, <1>9

LEMMA Appended ==
  ASSUME NEW S, NEW s \in Seq(S), NEW b \in S
  PROVE  /\ Append(s, b) \in Seq(S) /\ Len(Append(s, b)) = Len(s) + 1
         /\ \A i \in 1..Len(s) : Append(s, b)[i] = s[i]
         /\ Append(s, b)[Len(s) + 1] = b
OBVIOUS

\* A sequence is that of its parent and its last byte.
LEMMA Fronts ==
  ASSUME NEW s \in Seq(Byte), s # Root
  PROVE  /\ Front(s) \in Seq(Byte) /\ Len(Front(s)) = Len(s) - 1 /\ s[Len(s)] \in Byte
         /\ s = Append(Front(s), s[Len(s)])
<1>1. Len(s) \in Nat \ {0} /\ \A i \in 1..Len(s) : s[i] \in Byte
  BY EmptySeq, LenProperties DEF Root
<1> DEFINE f == SubSeq(s, 1, Len(s) - 1)
           n == Len(s) - 1
<1>2. n \in Nat /\ \A i \in 1..n : s[i] \in Byte
  BY <1>1
<1>3. f \in Seq(Byte) /\ Len(f) = n
  <2>1. f \in Seq(Byte) /\ Len(f) = IF 1 <= n THEN n - 1 + 1 ELSE 0
    BY <1>2, SubSeqProperties
  <2>2. n \in Nat
    BY <1>2
  <2> HIDE DEF f, n
  <2>3. (IF 1 <= n THEN n - 1 + 1 ELSE 0) = n
    BY <2>2
  <2> QED
    BY <2>1, <2>3
<1>4. \A i \in 1..(n - 1 + 1) : f[i] = s[1 + i - 1]
  BY <1>2, SubSeqProperties
<1> HIDE DEF f
<1>5. Len(f) = n /\ \A i \in 1..n : f[i] = s[i]
  <2>1. n - 1 + 1 = n /\ \A i \in 1..n : 1 + i - 1 = i
    BY <1>2
  <2>2. \A i \in 1..n : f[i] = s[i]
    BY <1>4, <2>1
  <2> QED
    BY <1>3, <2>2
<1>6. s[Len(s)] \in Byte
  BY <1>1
<1> DEFINE t == Append(f, s[Len(s)])
<1>7. t \in Seq(Byte) /\ Len(t) = n + 1 /\ (\A i \in 1..n : t[i] = f[i]) /\ t[n + 1] = s[Len(s)]
  BY <1>3, <1>5, <1>6, Appended
<1> HIDE DEF t
<1>8. Len(t) = Len(s) /\ \A i \in 1..Len(s) : s[i] = t[i]
  <2>1. \A i \in 1..Len(s) : i \in 1..n \/ i = n + 1
    BY <1>1
  <2> QED
    BY <1>1, <1>5, <1>7, <2>1
<1>9. s = t
  BY <1>7, <1>8, SeqEqual
<1> QED
  BY <1>3, <1>5, <1>6, <1>9 DEF f, t, Front

LEMMA SuffixOfAppended ==
  ASSUME NEW v \in Seq(Byte), NEW u \in Seq(Byte), NEW b \in Byte, NEW c \in Byte
  PROVE  IsSuffix(Append(v, c), Append(u, b)) <=> c = b /\ IsSuffix(v, u)
<1> DEFINE x == Append(v, c)
           y == Append(u, b)
           n == Len(v)
           m == Len(u)
<1>1. n \in Nat /\ m \in Nat
  BY LenProperties
<1>2. x \in Seq(Byte) /\ Len(x) = n + 1 /\ (\A i \in 1..n : x[i] = v[i]) /\ x[n + 1] = c
  BY Appended
<1>3. y \in Seq(Byte) /\ Len(y) = m + 1 /\ (\A i \in 1..m : y[i] = u[i]) /\ y[m + 1] = b
  BY Appended
<1> HIDE DEF x, y
<1>4. IsSuffix(x, y) <=> Len(x) <= Len(y) /\ \A i \in 1..Len(x) : x[i] = y[(Len(y) - Len(x)) + i]
  BY <1>2, <1>3, SuffixIs
<1>5. IsSuffix(v, u) <=> n <= m /\ \A i \in 1..n : v[i] = u[(m - n) + i]
  BY SuffixIs
<1> HIDE DEF n, m
<1>6. Len(y) - Len(x) = m - n /\ (Len(x) <= Len(y) <=> n <= m)
  BY <1>1, <1>2, <1>3
<1>7. CASE n <= m
  <2>1. \A i \in 1..n : (m - n) + i \in 1..m
    BY <1>1, <1>7
  <2>2. \A i \in 1..n : x[i] = v[i] /\ y[(m - n) + i] = u[(m - n) + i]
    BY <1>2, <1>3, <2>1
  <2>3. \A i \in 1..(n + 1) : i \in 1..n \/ i = n + 1
    BY <1>1
  <2>4. (m - n) + (n + 1) = m + 1 /\ n + 1 \in 1..(n + 1) /\ \A i \in 1..n : i \in 1..(n + 1)
    BY <1>1
  <2>5. (\A i \in 1..(n + 1) : x[i] = y[(m - n) + i])
          <=> x[n + 1] = y[m + 1] /\ \A i \in 1..n : v[i] = u[(m - n) + i]
    BY <2>2, <2>3, <2>4
  <2> QED
    BY <1>2, <1>3, <1>4, <1>5, <1>6, <1>7, <2>5 DEF x, y
<1> QED
  BY <1>4, <1>5, <1>6, <1>7 DEF x, y

LEMMA PrefixOrder ==
  ASSUME NEW s \in Seq(Byte), NEW t \in Seq(Byte), NEW u \in Seq(Byte)
  PROVE  /\ IsPrefix(s, s)
         /\ IsPrefix(s, t) => Len(s) <= Len(t)
         /\ IsPrefix(s, t) /\ Len(s) = Len(t) => s = t
         /\ IsPrefix(s, t) /\ IsPrefix(t, u) => IsPrefix(s, u)
         /\ IsPrefix(s, u) /\ IsPrefix(t, u) /\ Len(s) <= Len(t) => IsPrefix(s, t)
<1>1. Len(s) \in Nat /\ Len(t) \in Nat /\ Len(u) \in Nat
  BY LenProperties
<1>2. IsPrefix(s, s)
  BY <1>1, PrefixIs
<1>3. IsPrefix(s, t) => Len(s) <= Len(t)
  BY PrefixIs
<1>4. IsPrefix(s, t) /\ Len(s) = Len(t) => s = t
  BY PrefixIs, SeqEqual
<1>5. IsPrefix(s, t) /\ IsPrefix(t, u) => IsPrefix(s, u)
  BY <1>1, PrefixIs
<1>6. IsPrefix(s, u) /\ IsPrefix(t, u) /\ Len(s) <= Len(t) => IsPrefix(s, t)
  BY <1>1, PrefixIs
<1> QED
  BY <1>2, <1>3, <1>4, <1>5, <1>6

LEMMA AppendedOnce ==
  ASSUME NEW s \in Seq(Byte), NEW t \in Seq(Byte), NEW b \in Byte, NEW c \in Byte, Append(s, b) = Append(t, c)
  PROVE  s = t /\ b = c
<1> DEFINE x == Append(s, b)
<1>1. Len(x) = Len(s) + 1 /\ (\A i \in 1..Len(s) : x[i] = s[i]) /\ x[Len(s) + 1] = b
  BY Appended
<1>2. Len(x) = Len(t) + 1 /\ (\A i \in 1..Len(t) : x[i] = t[i]) /\ x[Len(t) + 1] = c
  BY Appended
<1>3. Len(s) \in Nat /\ Len(t) \in Nat
  BY LenProperties
<1> HIDE DEF x
<1>4. Len(s) = Len(t) /\ \A i \in 1..Len(s) : s[i] = t[i]
  BY <1>1, <1>2, <1>3
<1> QED
  BY <1>1, <1>2, <1>4, SeqEqual

\* Above a child are its parent, and what is above that.
LEMMA PrefixOfAppended ==
  ASSUME NEW q \in Seq(Byte), NEW s \in Seq(Byte), NEW b \in Byte
  PROVE  IsPrefix(q, Append(s, b)) <=> IsPrefix(q, s) \/ q = Append(s, b)
<1> DEFINE x == Append(s, b)
<1>1. x \in Seq(Byte) /\ Len(x) = Len(s) + 1 /\ \A i \in 1..Len(s) : x[i] = s[i]
  BY Appended
<1>2. Len(s) \in Nat /\ Len(q) \in Nat
  BY LenProperties
<1> HIDE DEF x
<1>3. Len(q) <= Len(s) => (IsPrefix(q, x) <=> IsPrefix(q, s))
  BY <1>1, <1>2, PrefixIs
<1>4. Len(q) > Len(s) => (IsPrefix(q, x) <=> q = x)
  BY <1>1, <1>2, PrefixOrder
<1>5. IsPrefix(q, s) => Len(q) <= Len(s)
  BY PrefixOrder
<1>6. q = x => IsPrefix(q, x)
  BY <1>1, PrefixOrder
<1> QED
  BY <1>2, <1>3, <1>4, <1>5, <1>6 DEF x

\* What AddAtom makes states of.
LEMMA Beginnings ==
  ASSUME NEW u \in Seq(Byte), NEW n \in 0..Len(u)
  PROVE  /\ SubSeq(u, 1, n) \in Seq(Byte) /\ Len(SubSeq(u, 1, n)) = n
         /\ \A i \in 1..n : SubSeq(u, 1, n)[i] = u[i]
         /\ IsPrefix(SubSeq(u, 1, n), u)
<1>1. Len(u) \in Nat /\ \A i \in 1..Len(u) : u[i] \in Byte
  BY LenProperties
<1>2. n \in Nat /\ n <= Len(u) /\ \A i \in 1..n : u[i] \in Byte
  BY <1>1
<1> DEFINE h == SubSeq(u, 1, n)
<1>3. h \in Seq(Byte) /\ Len(h) = IF 1 <= n THEN n - 1 + 1 ELSE 0
  BY <1>2, SubSeqProperties
<1>4. \A i \in 1..(n - 1 + 1) : h[i] = u[1 + i - 1]
  BY <1>2, SubSeqProperties
<1> HIDE DEF h
<1>5. Len(h) = n
  BY <1>2, <1>3
<1>6. \A i \in 1..n : h[i] = u[i]
  BY <1>2, <1>4
<1>7. IsPrefix(h, u)
  BY <1>2, <1>3, <1>5, <1>6, PrefixIs
<1> QED
  BY <1>3, <1>5, <1>6, <1>7 DEF h

\* Below a state, the first step leads to one of its children.
LEMMA NextByte ==
  ASSUME NEW s \in Seq(Byte), NEW u \in Seq(Byte), IsPrefix(s, u), s # u
  PROVE  /\ Len(s) < Len(u) /\ u[Len(s) + 1] \in Byte
         /\ IsPrefix(Append(s, u[Len(s) + 1]), u)
         /\ Append(s, u[Len(s) + 1]) = SubSeq(u, 1, Len(s) + 1)
<1>1. Len(s) \in Nat /\ Len(u) \in Nat /\ \A i \in 1..Len(u) : u[i] \in Byte
  BY LenProperties
<1>2. Len(s) < Len(u)
  BY <1>1, PrefixOrder
<1>3. Len(s) + 1 \in 1..Len(u) /\ Len(s) + 1 \in 0..Len(u)
  BY <1>1, <1>2
<1>4. u[Len(s) + 1] \in Byte
  BY <1>1, <1>3
<1> DEFINE x == Append(s, u[Len(s) + 1])
           n == Len(s) + 1
           h == SubSeq(u, 1, n)
<1>5. x \in Seq(Byte) /\ Len(x) = n /\ (\A i \in 1..Len(s) : x[i] = s[i]) /\ x[n] = u[n]
  BY <1>4, Appended
<1>6. h \in Seq(Byte) /\ Len(h) = n /\ (\A i \in 1..n : h[i] = u[i]) /\ IsPrefix(h, u)
  BY <1>3, Beginnings
<1> HIDE DEF x, h
<1>7. \A i \in 1..n : x[i] = h[i]
  <2> TAKE i \in 1..n
  <2>1. CASE i = n
    BY <1>5, <1>6, <2>1
  <2>2. CASE i # n
    <3>1. i \in 1..Len(s)
      BY <1>1, <2>2
    <3>2. s[i] = u[i]
      BY <3>1, PrefixIs
    <3> QED
      BY <1>5, <1>6, <3>1, <3>2
  <2> QED
    BY <2>1, <2>2
<1>8. x = h
  BY <1>5, <1>6, <1>7, SeqEqual
<1> QED
  BY <1>2, <1>4, <1>6, <1>8 DEF x, h

LEMMA PrefixBegins ==
  ASSUME NEW s \in Seq(Byte), NEW u \in Seq(Byte), IsPrefix(s, u)
  PROVE  Len(s) \in 0..Len(u) /\ s = SubSeq(u, 1, Len(s))
<1>1. Len(s) \in Nat /\ Len(u) \in Nat
  BY LenProperties
<1>2. SubSeq(s, 1, Len(s)) = s
  BY SubSeqFull
<1> QED
  BY <1>1, <1>2 DEF IsPrefix

-----------------------------------------------------------------------------
(* Lists that go down.                                                     *)

\* Cells are in a linear order.
LEMMA UnderOrder ==
  ASSUME NEW cs, \A c \in 1..Len(cs) : Len(cs[c].bytes) \in Nat, Len(cs) \in Nat,
         NEW c \in 1..Len(cs), NEW d \in 1..Len(cs), NEW e \in 1..Len(cs)
  PROVE  /\ ~Under(cs, c, c)
         /\ Under(cs, d, c) => ~Under(cs, c, d)
         /\ Under(cs, d, c) /\ Under(cs, e, d) => Under(cs, e, c)
         /\ c = d \/ Under(cs, c, d) \/ Under(cs, d, c)
<1>1. Len(cs[c].bytes) \in Nat /\ Len(cs[d].bytes) \in Nat /\ Len(cs[e].bytes) \in Nat
  OBVIOUS
<1> QED
  BY <1>1 DEF Under

\* What links cells of a list leads down.
Descends(cs) ==
  /\ Len(cs) \in Nat
  /\ \A c \in 1..Len(cs) :
       /\ Len(cs[c].bytes) \in Nat
       /\ cs[c].next \in 0..Len(cs) /\ (cs[c].next # 0 => Under(cs, cs[c].next, c))

WalkOf(cs, h) == Iterated(NextCell(cs), h)

LEMMA ListWalk ==
  ASSUME NEW cs, Descends(cs), NEW h \in 0..Len(cs)
  PROVE  /\ WalkOf(cs, h)[0] = h
         /\ \A n \in Nat : WalkOf(cs, h)[n] \in 0..Len(cs)
         /\ \A n \in Nat : WalkOf(cs, h)[n + 1] =
                            IF WalkOf(cs, h)[n] = 0 THEN 0 ELSE cs[WalkOf(cs, h)[n]].next
<1> DEFINE f == NextCell(cs)
           V == 0..Len(cs)
           walk == Iterated(f, h)
<1>1. \A v \in V : f[v] = (IF v = 0 THEN 0 ELSE cs[v].next) /\ f[v] \in V
  BY DEF Descends, NextCell
<1> HIDE DEF f, V
<1>2. h \in V
  BY DEF V
<1>3. walk[0] = h /\ \A n \in Nat : walk[n] \in V /\ walk[n + 1] = f[walk[n]]
  <2>1. \A v \in V : f[v] \in V
    BY <1>1
  <2> HIDE DEF walk
  <2>2. walk = Iterated(f, h)
    BY DEF walk
  <2>3. walk[0] = h
    BY <1>2, <2>1, <2>2, Walks
  <2>4. \A n \in Nat : walk[n] \in V /\ walk[n + 1] = f[walk[n]]
    <3>1. \A n \in Nat : walk[n] \in V
      BY <1>2, <2>1, <2>2, Walks
    <3>2. \A n \in Nat : walk[n + 1] = f[walk[n]]
      <4>1. Goes(f, walk)
        BY <1>2, <2>1, <2>2, Walks
      <4> QED
        BY <4>1 DEF Goes
    <3> QED
      BY <3>1, <3>2
  <2> QED
    BY <2>3, <2>4
<1>5. walk = WalkOf(cs, h)
  BY DEF f, WalkOf
<1> HIDE DEF walk
<1>4. \A n \in Nat : walk[n + 1] = IF walk[n] = 0 THEN 0 ELSE cs[walk[n]].next
  BY <1>1, <1>3
<1> QED
  BY <1>3, <1>4, <1>5 DEF V

\* On a list no cell comes again.
LEMMA ListDescends ==
  ASSUME NEW cs, Descends(cs), NEW h \in 0..Len(cs), NEW k \in Nat,
         \A n \in 0..k : WalkOf(cs, h)[n] # 0
  PROVE  \A i, j \in 0..k : i < j => Under(cs, WalkOf(cs, h)[j], WalkOf(cs, h)[i])
<1> DEFINE walk == WalkOf(cs, h)
<1>1. \A n \in 0..k : walk[n] \in 1..Len(cs)
  <2>1. \A n \in Nat : walk[n] \in 0..Len(cs)
    BY ListWalk
  <2>2. Len(cs) \in Nat /\ \A n \in 0..k : n \in Nat /\ walk[n] # 0
    BY DEF Descends
  <2> HIDE DEF walk
  <2> QED
    BY <2>1, <2>2
<1>2. \A n \in 0..(k - 1) : Under(cs, walk[n + 1], walk[n])
  <2> TAKE n \in 0..(k - 1)
  <2>1. n \in 0..k /\ n + 1 \in 0..k /\ n \in Nat
    OBVIOUS
  <2>2. walk[n] # 0 /\ walk[n + 1] # 0
    BY <2>1
  <2>3. walk[n + 1] = cs[walk[n]].next
    <3>1. \A i \in Nat : walk[i + 1] = IF walk[i] = 0 THEN 0 ELSE cs[walk[i]].next
      BY ListWalk
    <3> HIDE DEF walk
    <3> QED
      BY <2>1, <2>2, <3>1
  <2> HIDE DEF walk
  <2> QED
    BY <1>1, <2>1, <2>2, <2>3 DEF Descends
<1> HIDE DEF walk
<1> SUFFICES ASSUME NEW i \in 0..k
             PROVE  \A j \in 0..k : i < j => Under(cs, walk[j], walk[i])
  BY DEF walk
<1> DEFINE S == {j \in 0..k : i < j => Under(cs, walk[j], walk[i])}
<1>3. 0 \in S
  OBVIOUS
<1>4. \A j \in 0..(k - 1) : j \in S => j + 1 \in S
  <2> SUFFICES ASSUME NEW j \in 0..(k - 1), i < j => Under(cs, walk[j], walk[i]), i < j + 1
               PROVE  j + 1 \in 0..k /\ Under(cs, walk[j + 1], walk[i])
    OBVIOUS
  <2>1. j \in 0..k /\ j + 1 \in 0..k
    OBVIOUS
  <2>2. i = j \/ i < j
    OBVIOUS
  <2>3. walk[i] \in 1..Len(cs) /\ walk[j] \in 1..Len(cs) /\ walk[j + 1] \in 1..Len(cs)
    BY <1>1, <2>1
  <2>4. Len(cs) \in Nat /\ \A c \in 1..Len(cs) : Len(cs[c].bytes) \in Nat
    BY DEF Descends
  <2>5. i < j => Under(cs, walk[j + 1], walk[i])
    BY <1>2, <2>3, <2>4, UnderOrder
  <2> QED
    BY <1>2, <2>1, <2>2, <2>5
<1> HIDE DEF S
<1>5. \A j \in 0..k : j \in S
  BY <1>3, <1>4, InductionTo
<1> QED
  BY <1>5 DEF S

\* So it ends within as many steps as there are cells.
LEMMA ListEnds ==
  ASSUME NEW cs, Descends(cs), NEW h \in 0..Len(cs)
  PROVE  \E n \in 0..Len(cs) : WalkOf(cs, h)[n] = 0
<1> SUFFICES ASSUME \A n \in 0..Len(cs) : WalkOf(cs, h)[n] # 0
             PROVE  FALSE
  OBVIOUS
<1> DEFINE walk == WalkOf(cs, h)
           k == Len(cs)
           g == [n \in 0..k |-> walk[n]]
<1>1. k \in Nat /\ \A c \in 1..k : Len(cs[c].bytes) \in Nat
  BY DEF Descends
<1>2. \A n \in 0..k : walk[n] \in 0..k
  <2>1. \A n \in Nat : walk[n] \in 0..k
    BY ListWalk
  <2> QED
    BY <1>1, <2>1
<1>3. \A i, j \in 0..k : i < j => Under(cs, walk[j], walk[i])
  BY <1>1, ListDescends
<1>4. \A n \in 0..k : walk[n] # 0
  OBVIOUS
<1> HIDE DEF walk
<1>5. \A n \in 0..k : walk[n] \in 1..k
  BY <1>1, <1>2, <1>4
<1>6. g \in [0..k -> 1..k]
  BY <1>5
<1>7. \A i, j \in 0..k : i # j => g[i] # g[j]
  <2> SUFFICES ASSUME NEW i \in 0..k, NEW j \in 0..k, i < j PROVE walk[i] # walk[j]
    OBVIOUS
  <2>1. Under(cs, walk[j], walk[i])
    BY <1>3
  <2> QED
    BY <1>1, <1>5, <2>1, UnderOrder
<1>8. IsFiniteSet(0..k) /\ Cardinality(0..k) = k + 1
  <2>1. 0 \in Int /\ k \in Int /\ 0 <= k
    BY <1>1
  <2>2. Cardinality(0..k) = k - 0 + 1
    BY <2>1, FS_Interval
  <2> QED
    BY <1>1, <2>1, <2>2, FS_Interval
<1>9. IsFiniteSet(1..k) /\ Cardinality(1..k) = k
  <2>1. 1 \in Int /\ k \in Int
    BY <1>1
  <2>2. IsFiniteSet(1..k) /\ Cardinality(1..k) = IF 1 > k THEN 0 ELSE k - 1 + 1
    BY <2>1, FS_Interval
  <2> QED
    BY <1>1, <2>2
<1>10. Cardinality(1..k) < Cardinality(0..k)
  BY <1>1, <1>8, <1>9
<1> HIDE DEF g, k
<1> QED
  BY <1>6, <1>7, <1>8, <1>9, <1>10, FS_PigeonHole

Length(cs, h) == FirstIn({0}, WalkOf(cs, h), Len(cs))

\* A list is the places of its walk before it comes to 0.
LEMMA ListIs ==
  ASSUME NEW cs, Descends(cs), NEW h \in 0..Len(cs)
  PROVE  /\ Length(cs, h) \in 0..Len(cs) /\ WalkOf(cs, h)[Length(cs, h)] = 0
         /\ \A m \in 0..(Length(cs, h) - 1) : WalkOf(cs, h)[m] # 0
         /\ Length(cs, h) = 0 <=> h = 0
         /\ Cells(cs, h) = [i \in 1..Length(cs, h) |-> WalkOf(cs, h)[i - 1]]
<1> DEFINE walk == WalkOf(cs, h)
           n == Length(cs, h)
<1>1. PICK m \in 0..Len(cs) : walk[m] \in {0}
  BY ListEnds
<1>2. Len(cs) \in Nat
  BY DEF Descends
<1> HIDE DEF walk
<1>3. n \in 0..Len(cs) /\ walk[n] \in {0} /\ \A i \in 0..(n - 1) : walk[i] \notin {0}
  <2> HIDE DEF n
  <2>1. n = FirstIn({0}, walk, Len(cs))
    BY DEF n, Length, walk
  <2> QED
    BY <1>1, <1>2, <2>1, FirstPlace
<1>4. walk[0] = h
  BY ListWalk DEF walk
<1>5. Cells(cs, h) = [i \in 1..n |-> walk[i - 1]]
  BY DEF Cells, Length, walk, WalkOf
<1> HIDE DEF n
<1>6. n = 0 <=> h = 0
  <2>1. h = 0 => n = 0
    <3> SUFFICES ASSUME h = 0, n # 0 PROVE FALSE
      OBVIOUS
    <3>1. 0 \in 0..(n - 1)
      BY <1>2, <1>3
    <3> QED
      BY <1>3, <1>4, <3>1
  <2> QED
    BY <1>3, <1>4, <2>1
<1> QED
  BY <1>3, <1>5, <1>6 DEF n, walk

\* The cells of a list lie in every set that holds its first one and with a
\* cell the next.
Closed(cs, T) == \A c \in 1..Len(cs) : c \in T /\ cs[c].next # 0 => cs[c].next \in T

LEMMA ListWithin ==
  ASSUME NEW cs, Descends(cs), NEW h \in 1..Len(cs), NEW T, Closed(cs, T), h \in T
  PROVE  /\ \A i \in 0..(Length(cs, h) - 1) : WalkOf(cs, h)[i] \in T
         /\ LastCell(cs, h) \in T /\ LastCell(cs, h) \in 1..Len(cs) /\ cs[LastCell(cs, h)].next = 0
<1> DEFINE walk == WalkOf(cs, h)
           n == Length(cs, h)
<1>1. Len(cs) \in Nat
  BY DEF Descends
<1>2. h \in 0..Len(cs) /\ h # 0
  BY <1>1
<1>3. walk[0] = h /\ (\A i \in Nat : walk[i] \in 0..Len(cs))
        /\ \A i \in Nat : walk[i + 1] = IF walk[i] = 0 THEN 0 ELSE cs[walk[i]].next
  <2>1. walk[0] = h
    BY <1>2, ListWalk
  <2>2. \A i \in Nat : walk[i] \in 0..Len(cs)
    BY <1>2, ListWalk
  <2>3. \A i \in Nat : walk[i + 1] = IF walk[i] = 0 THEN 0 ELSE cs[walk[i]].next
    BY <1>2, ListWalk
  <2> HIDE DEF walk
  <2> QED
    BY <2>1, <2>2, <2>3
<1>4. n \in 0..Len(cs) /\ walk[n] = 0 /\ (\A m \in 0..(n - 1) : walk[m] # 0) /\ n # 0
        /\ Cells(cs, h) = [i \in 1..n |-> walk[i - 1]]
  BY <1>2, ListIs
<1> HIDE DEF walk, n
<1>5. n - 1 \in Nat /\ \A i \in 0..(n - 1) : i \in Nat /\ walk[i] \in 1..Len(cs)
  <2>1. n \in Nat /\ n # 0
    BY <1>1, <1>4
  <2>3. n - 1 \in Nat
    BY <2>1
  <2>2. \A i \in 0..(n - 1) : i \in Nat /\ walk[i] # 0
    BY <1>4, <2>1
  <2>4. \A i \in Nat : walk[i] \in 0..Len(cs)
    BY <1>3
  <2>5. ASSUME NEW i \in 0..(n - 1) PROVE i \in Nat /\ walk[i] \in 1..Len(cs)
    BY <1>1, <2>2, <2>4
  <2> QED
    BY <2>3, <2>5
<1>6. \A i \in 0..(n - 1) : walk[i] \in T
  <2> DEFINE S == {i \in 0..(n - 1) : walk[i] \in T}
  <2>1. 0 \in S
    <3>1. 0 \in 0..(n - 1)
      BY <1>5
    <3> QED
      BY <1>3, <3>1
  <2>2. \A i \in 0..((n - 1) - 1) : i \in S => i + 1 \in S
    <3> SUFFICES ASSUME NEW i \in 0..((n - 1) - 1), walk[i] \in T PROVE i + 1 \in S
      OBVIOUS
    <3>1. i \in 0..(n - 1) /\ i + 1 \in 0..(n - 1) /\ i \in Nat
      BY <1>5
    <3>2. walk[i] # 0 /\ walk[i + 1] # 0 /\ walk[i] \in 1..Len(cs)
      BY <1>4, <1>5, <3>1
    <3>3. walk[i + 1] = cs[walk[i]].next
      BY <1>3, <3>1, <3>2
    <3> QED
      BY <3>1, <3>2, <3>3 DEF Closed
  <2> HIDE DEF S
  <2>3. \A i \in 0..(n - 1) : i \in S
    BY <1>5, <2>1, <2>2, InductionTo
  <2> QED
    BY <2>3 DEF S
<1>7. LastCell(cs, h) = walk[n - 1]
  <2> DEFINE list == Cells(cs, h)
  <2>1. Len(list) = n
    BY <1>1, <1>4
  <2>2. n \in 1..n
    BY <1>1, <1>4
  <2>3. list[n] = walk[n - 1]
    BY <1>4, <2>2
  <2> HIDE DEF list
  <2> QED
    BY <2>1, <2>3 DEF LastCell, Last, list
<1>8. n - 1 \in 0..(n - 1) /\ n - 1 \in Nat /\ (n - 1) + 1 = n
  BY <1>5, <1>4
<1>9. walk[n - 1] \in 1..Len(cs) /\ cs[walk[n - 1]].next = 0
  BY <1>3, <1>4, <1>5, <1>8
<1> QED
  BY <1>6, <1>7, <1>8, <1>9 DEF walk, n

-----------------------------------------------------------------------------
(* Sequences of anything.                                                  *)

LEMMA Sequences ==
  ASSUME NEW n \in Nat, NEW s, s = [i \in 1..n |-> s[i]]
  PROVE  s \in Seq(ToSet(s)) /\ Len(s) = n
<1>1. DOMAIN s = 1..n
  OBVIOUS
<1>2. \A i \in 1..n : s[i] \in ToSet(s)
  BY <1>1 DEF ToSet
<1>3. s \in [1..n -> ToSet(s)]
  BY <1>2
<1> QED
  BY <1>3, SeqDef, LenProperties

LEMMA Elements ==
  ASSUME NEW s, s \in Seq(ToSet(s))
  PROVE  /\ Len(s) \in Nat /\ s = [i \in 1..Len(s) |-> s[i]]
         /\ \A i \in 1..Len(s) : s[i] \in ToSet(s)
         /\ \A x \in ToSet(s) : \E i \in 1..Len(s) : x = s[i]
<1>1. Len(s) \in Nat /\ s \in [1..Len(s) -> ToSet(s)] /\ DOMAIN s = 1..Len(s)
  BY LenProperties
<1> QED
  BY <1>1 DEF ToSet

Relink(cs, d, x) == [cs EXCEPT ![d].next = x]

IsRelinked(cs, ds, d, x) ==
  /\ ds \in Seq(ToSet(ds)) /\ Len(ds) = Len(cs)
  /\ IsCell(ds[d]) /\ ds[d].next = x
  /\ ds[d].bytes = cs[d].bytes /\ ds[d].backtrack = cs[d].backtrack
  /\ \A c \in 1..Len(cs) : c # d => ds[c] = cs[c]

\* What an assignment to the link of a cell changes.
LEMMA Relinked ==
  ASSUME NEW cs, cs \in Seq(ToSet(cs)), NEW d \in 1..Len(cs), IsCell(cs[d]), NEW x
  PROVE  IsRelinked(cs, Relink(cs, d, x), d, x)
<1> DEFINE ds == Relink(cs, d, x)
<1>1. Len(cs) \in Nat /\ cs = [i \in 1..Len(cs) |-> cs[i]]
  BY Elements
<1>2. ds = [i \in 1..Len(cs) |-> IF i = d THEN [cs[d] EXCEPT !.next = x] ELSE cs[i]]
  BY <1>1 DEF Relink
<1> HIDE DEF ds
<1>3. ds = [i \in 1..Len(cs) |-> ds[i]]
  BY <1>2
<1>4. ds \in Seq(ToSet(ds)) /\ Len(ds) = Len(cs)
  <2> DEFINE n == Len(cs)
  <2>1. n \in Nat /\ ds = [i \in 1..n |-> ds[i]]
    BY <1>1, <1>3
  <2> HIDE DEF n
  <2>2. ds \in Seq(ToSet(ds)) /\ Len(ds) = n
    BY <2>1, Sequences
  <2> QED
    BY <2>2 DEF n
<1>5. ds[d] = [cs[d] EXCEPT !.next = x] /\ \A c \in 1..Len(cs) : c # d => ds[c] = cs[c]
  BY <1>2
<1> DEFINE e == cs[d]
<1>6. e = [backtrack |-> e.backtrack, owner |-> e.owner, bytes |-> e.bytes, code |-> e.code, next |-> e.next]
  BY DEF IsCell
<1> HIDE DEF e
<1>7. [e EXCEPT !.next = x] =
        [backtrack |-> e.backtrack, owner |-> e.owner, bytes |-> e.bytes, code |-> e.code, next |-> x]
  BY <1>6
<1>8. ds[d] = [backtrack |-> e.backtrack, owner |-> e.owner, bytes |-> e.bytes, code |-> e.code, next |-> x]
  BY <1>5, <1>7 DEF e
<1>9. IsCell(ds[d]) /\ ds[d].next = x /\ ds[d].bytes = e.bytes /\ ds[d].backtrack = e.backtrack
  BY <1>8 DEF IsCell
<1> QED
  BY <1>4, <1>5, <1>9 DEF e, ds, IsRelinked

-----------------------------------------------------------------------------
(* First cells. *)

LEMMA CellTypes ==
  ASSUME Trie, NEW cs, Matches(cs)
  PROVE  /\ Len(cs) \in Nat
         /\ \A c \in 1..Len(cs) : /\ cs[c].bytes \in State /\ cs[c].bytes \in Seq(Byte)
                                  /\ Len(cs[c].bytes) \in Nat /\ cs[c].next \in 0..Len(cs)
<1>1. \A c \in 1..Len(cs) : cs[c].bytes \in State /\ cs[c].bytes \in Seq(Byte) /\ cs[c].next \in 0..Len(cs)
  BY DEF Matches, Trie
<1>2. \A c \in 1..Len(cs) : Len(cs[c].bytes) \in Nat
  BY <1>1, LenProperties
<1>3. Len(cs) \in Nat
  BY Elements DEF Matches
<1> QED
  BY <1>1, <1>2, <1>3

LEMMA CellOrder ==
  ASSUME Trie, NEW cs, Matches(cs), NEW c \in 1..Len(cs), NEW d \in 1..Len(cs), NEW e \in 1..Len(cs)
  PROVE  /\ ~Under(cs, c, c)
         /\ Under(cs, d, c) => ~Under(cs, c, d)
         /\ Under(cs, d, c) /\ Under(cs, e, d) => Under(cs, e, c)
         /\ c = d \/ Under(cs, c, d) \/ Under(cs, d, c)
BY CellTypes, UnderOrder

\* The cells of the root belong to every list and come last.
LEMMA RootCells ==
  ASSUME Trie, NEW cs, Matches(cs)
  PROVE  /\ Ending(cs, Root) = Own(cs, Root)
         /\ \A u \in State : Own(cs, Root) \subseteq Ending(cs, u)
         /\ \A u \in State : Own(cs, u) \subseteq Ending(cs, u)
         /\ \A u \in State : u # Root => Own(cs, u) \subseteq Proper(cs, u)
         /\ \A r \in Own(cs, Root), c \in 1..Len(cs) : cs[c].bytes # Root => Under(cs, r, c)
<1>1. Root \in State /\ State \subseteq Seq(Byte) /\ Len(Root) = 0
  BY EmptySeq DEF Trie, Root
<1>2. \A c \in 1..Len(cs) : cs[c].bytes \in Seq(Byte)
  BY CellTypes
<1>3. Ending(cs, Root) = Own(cs, Root)
  <2>1. ASSUME NEW c \in 1..Len(cs), IsSuffix(cs[c].bytes, Root) PROVE cs[c].bytes = Root
    <3>1. Len(cs[c].bytes) <= Len(Root) /\ Len(cs[c].bytes) \in Nat
      BY <1>1, <1>2, <2>1, SuffixOrder, CellTypes
    <3> QED
      BY <1>1, <1>2, <3>1, <2>1, SuffixOrder
  <2>2. IsSuffix(Root, Root)
    BY <1>1, SuffixOrder
  <2> QED
    BY <2>1, <2>2 DEF Ending, Own
<1>4. \A u \in State : Own(cs, Root) \subseteq Ending(cs, u) /\ Own(cs, u) \subseteq Ending(cs, u)
  <2> TAKE u \in State
  <2>1. IsSuffix(Root, u) /\ IsSuffix(u, u)
    BY <1>1, SuffixOrder
  <2> QED
    BY <2>1 DEF Ending, Own
<1>5. \A u \in State : u # Root => Own(cs, u) \subseteq Proper(cs, u)
  BY <1>4 DEF Proper, Own
<1>6. ASSUME NEW r \in Own(cs, Root), NEW c \in 1..Len(cs), cs[c].bytes # Root PROVE Under(cs, r, c)
  <2>1. Len(cs[r].bytes) = 0
    BY <1>1 DEF Own
  <2>2. Len(cs[c].bytes) # 0 /\ Len(cs[c].bytes) \in Nat
    BY <1>2, <1>6, EmptySeq, CellTypes DEF Root
  <2> QED
    BY <2>1, <2>2 DEF Under
<1> QED
  BY <1>3, <1>4, <1>5, <1>6

\* There is one first cell at most, and one unless there is no cell.
LEMMA FirstIs ==
  ASSUME Trie, NEW cs, Matches(cs), NEW S, S \subseteq 1..Len(cs), NEW x, IsFirst(cs, x, S)
  PROVE  /\ x \in 0..Len(cs) /\ (x = 0 <=> S = {}) /\ (x # 0 => x \in S)
         /\ \A y : IsFirst(cs, y, S) => x = y
<1>1. Len(cs) \in Nat
  BY CellTypes
<1>2. CASE S = {}
  BY <1>1, <1>2 DEF IsFirst
<1>3. CASE S # {}
  <2>1. x \in S /\ x \in 1..Len(cs) /\ \A d \in S \ {x} : Under(cs, d, x)
    BY <1>3 DEF IsFirst
  <2>2. ASSUME NEW y, IsFirst(cs, y, S) PROVE x = y
    <3> SUFFICES ASSUME x # y PROVE FALSE
      OBVIOUS
    <3>1. y \in S /\ \A d \in S \ {y} : Under(cs, d, y)
      BY <1>3, <2>2 DEF IsFirst
    <3>2. Under(cs, x, y) /\ Under(cs, y, x)
      BY <2>1, <3>1
    <3> QED
      BY <2>1, <3>1, <3>2, CellOrder
  <2> QED
    BY <1>1, <1>3, <2>1, <2>2
<1> QED
  BY <1>2, <1>3

\* What lies under the first one does not matter.
LEMMA FirstOfMore ==
  ASSUME Trie, NEW cs, Matches(cs), NEW S, S \subseteq 1..Len(cs), S # {},
         NEW R, R \subseteq 1..Len(cs), \A r \in R, c \in S : Under(cs, r, c), NEW x
  PROVE  IsFirst(cs, x, S) <=> IsFirst(cs, x, S \cup R)
<1>1. ASSUME IsFirst(cs, x, S) PROVE IsFirst(cs, x, S \cup R)
  BY <1>1 DEF IsFirst
<1>2. ASSUME IsFirst(cs, x, S \cup R) PROVE IsFirst(cs, x, S)
  <2>1. x \in S \cup R /\ \A d \in (S \cup R) \ {x} : Under(cs, d, x)
    BY <1>2 DEF IsFirst
  <2>2. PICK c \in S : TRUE
    OBVIOUS
  <2>3. x \in S
    <3> SUFFICES ASSUME x \notin S PROVE FALSE
      OBVIOUS
    <3>1. x \in R /\ Under(cs, x, c) /\ Under(cs, c, x)
      BY <2>1, <2>2
    <3> QED
      BY <2>2, <3>1, CellOrder
  <2> QED
    BY <2>1, <2>3 DEF IsFirst
<1> QED
  BY <1>1, <1>2

LEMMA FirstProper ==
  ASSUME Trie, NEW cs, Matches(cs), NEW u \in State, NEW S, S \subseteq 1..Len(cs),
         S \cap Proper(cs, u) # {}, NEW x
  PROVE  IsFirst(cs, x, S \cap Proper(cs, u)) <=> IsFirst(cs, x, S \cap Ending(cs, u))
<1> DEFINE A == S \cap Proper(cs, u)
           R == S \cap Own(cs, Root)
<1>1. S \cap Ending(cs, u) = A \cup R
  BY RootCells DEF Proper
<1>2. A \subseteq 1..Len(cs) /\ R \subseteq 1..Len(cs) /\ \A c \in A : cs[c].bytes # Root
  BY DEF Proper, Own, Ending
<1>3. \A r \in R, c \in A : Under(cs, r, c)
  BY <1>2, RootCells
<1> HIDE DEF A, R
<1>4. IsFirst(cs, x, A) <=> IsFirst(cs, x, A \cup R)
  BY <1>2, <1>3, FirstOfMore DEF A
<1> QED
  BY <1>1, <1>4 DEF A

-----------------------------------------------------------------------------
(* What is linked and what is not. *)

Linking(cs, hs, unlinked, rooted) ==
  /\ Matches(cs) /\ hs = [u \in State |-> hs[u]]
  /\ Listing(cs, hs, unlinked, rooted)
  /\ Root \in unlinked \cup rooted

\* The root's list has its own cells only, in every phase.
LEMMA RootHead ==
  ASSUME Trie, NEW cs, NEW hs, NEW U, NEW P, Linking(cs, hs, U, P)
  PROVE  IsFirst(cs, hs[Root], Own(cs, Root))
<1>1. Root \in State /\ GoesOn(cs, hs, U, P, hs[Root], Root, 1..Len(cs))
  BY DEF Trie, Linking, Listing
<1>2. (1..Len(cs)) \cap Own(cs, Root) = Own(cs, Root) /\ Ending(cs, Root) = Own(cs, Root)
  BY RootCells DEF Own, Linking
<1> QED
  BY <1>1, <1>2 DEF GoesOn, Linking

\* A list goes on with a cell that belongs to it.
LEMMA GoesOnIn ==
  ASSUME Trie, NEW cs, NEW hs, NEW U, NEW P, Linking(cs, hs, U, P), NEW u \in State,
         NEW S, S \subseteq 1..Len(cs), NEW x, GoesOn(cs, hs, U, P, x, u, S)
  PROVE  /\ x \in 0..Len(cs)
         /\ x # 0 => x \in Ending(cs, u)
         /\ x # 0 => x \in S \/ (x \in Own(cs, Root) /\ u # Root)
         /\ u \in U /\ x # 0 => x \in Own(cs, u)
<1>1. Matches(cs)
  BY DEF Linking
<1>2. Own(cs, u) \subseteq Ending(cs, u) /\ Proper(cs, u) \subseteq Ending(cs, u) /\ Own(cs, Root) \subseteq Ending(cs, u)
  BY <1>1, RootCells DEF Proper
<1>3. CASE u \in U
  <2>1. IsFirst(cs, x, S \cap Own(cs, u)) /\ S \cap Own(cs, u) \subseteq 1..Len(cs)
    BY <1>3 DEF GoesOn
  <2> QED
    BY <1>1, <1>2, <2>1, FirstIs
<1>4. CASE u \notin U /\ IsFirst(cs, x, S \cap Ending(cs, u))
  <2>1. S \cap Ending(cs, u) \subseteq 1..Len(cs)
    OBVIOUS
  <2> QED
    BY <1>1, <1>4, <2>1, FirstIs
<1>5. CASE u \notin U /\ IsFirst(cs, x, S \cap Proper(cs, u))
  <2>1. S \cap Proper(cs, u) \subseteq 1..Len(cs)
    OBVIOUS
  <2> QED
    BY <1>1, <1>2, <1>5, <2>1, FirstIs
<1>6. CASE u \notin U /\ u \notin P /\ x = hs[Root]
  <2>1. Own(cs, Root) \subseteq 1..Len(cs)
    BY DEF Own
  <2>2. u # Root
    BY <1>6 DEF Linking
  <2> QED
    BY <1>1, <1>2, <1>6, <2>1, <2>2, RootHead, FirstIs
<1> QED
  BY <1>3, <1>4, <1>5, <1>6 DEF GoesOn

LEMMA Heads ==
  ASSUME Trie, NEW cs, NEW hs, NEW U, NEW P, Linking(cs, hs, U, P), NEW u \in State
  PROVE  hs[u] \in 0..Len(cs) /\ (hs[u] # 0 => hs[u] \in Ending(cs, u)) /\ (u \in U /\ hs[u] # 0 => hs[u] \in Own(cs, u))
<1>1. GoesOn(cs, hs, U, P, hs[u], u, 1..Len(cs))
  BY DEF Linking, Listing
<1> QED
  BY <1>1, GoesOnIn

LEMMA Nexts ==
  ASSUME Trie, NEW cs, NEW hs, NEW U, NEW P, Linking(cs, hs, U, P), NEW c \in 1..Len(cs)
  PROVE  LET x == cs[c].next IN
         /\ x \in 0..Len(cs)
         /\ x # 0 => x \in Ending(cs, cs[c].bytes) /\ Under(cs, x, c)
         /\ cs[c].bytes \in U /\ x # 0 => x \in Own(cs, cs[c].bytes)
<1> DEFINE u == cs[c].bytes
           x == cs[c].next
<1>1. Matches(cs)
  BY DEF Linking
<1>2. u \in State /\ GoesOn(cs, hs, U, P, x, u, Below(cs, c))
  BY <1>1, CellTypes DEF Linking, Listing
<1>3. Below(cs, c) \subseteq 1..Len(cs)
  BY DEF Below
<1> HIDE DEF u, x
<1>4. /\ x \in 0..Len(cs)
      /\ x # 0 => x \in Ending(cs, u)
      /\ x # 0 => x \in Below(cs, c) \/ (x \in Own(cs, Root) /\ u # Root)
      /\ u \in U /\ x # 0 => x \in Own(cs, u)
  BY <1>2, <1>3, GoesOnIn
<1>5. x \in Own(cs, Root) /\ u # Root => Under(cs, x, c)
  BY <1>1, RootCells DEF u
<1> QED
  BY <1>4, <1>5 DEF u, x, Below

\* Links lead down, so lists end.
LEMMA Descending ==
  ASSUME Trie, NEW cs, NEW hs, NEW U, NEW P, Linking(cs, hs, U, P)
  PROVE  Descends(cs)
<1>1. Matches(cs)
  BY DEF Linking
<1>2. Len(cs) \in Nat /\ \A c \in 1..Len(cs) : Len(cs[c].bytes) \in Nat
  BY <1>1, CellTypes
<1>3. \A c \in 1..Len(cs) : cs[c].next \in 0..Len(cs) /\ (cs[c].next # 0 => Under(cs, cs[c].next, c))
  BY Nexts
<1> QED
  BY <1>2, <1>3 DEF Descends

\* The list of a state stays among the cells that belong to it.
LEMMA EndingClosed ==
  ASSUME Trie, NEW cs, NEW hs, NEW U, NEW P, Linking(cs, hs, U, P), NEW u \in State
  PROVE  Closed(cs, Ending(cs, u))
<1> SUFFICES ASSUME NEW c \in 1..Len(cs), c \in Ending(cs, u), cs[c].next # 0
             PROVE  cs[c].next \in Ending(cs, u)
  BY DEF Closed
<1> DEFINE x == cs[c].next
<1>1. Matches(cs) /\ u \in Seq(Byte)
  BY DEF Linking, Trie
<1>2. x \in Ending(cs, cs[c].bytes)
  BY Nexts
<1> HIDE DEF x
<1>3. x \in 1..Len(cs) /\ IsSuffix(cs[x].bytes, cs[c].bytes) /\ IsSuffix(cs[c].bytes, u)
  BY <1>2 DEF Ending
<1>4. cs[x].bytes \in Seq(Byte) /\ cs[c].bytes \in Seq(Byte)
  BY <1>1, <1>3, CellTypes
<1>5. IsSuffix(cs[x].bytes, u)
  BY <1>1, <1>3, <1>4, SuffixOrder
<1> QED
  BY <1>3, <1>5 DEF Ending, x

\* The links of cells may change, and these do not.
SameAtoms(cs, ds) ==
  Len(ds) = Len(cs) /\ \A c \in 1..Len(cs) : ds[c].bytes = cs[c].bytes

LEMMA SameSets ==
  ASSUME NEW cs, NEW ds, SameAtoms(cs, ds)
  PROVE  /\ \A u : Own(ds, u) = Own(cs, u) /\ Ending(ds, u) = Ending(cs, u) /\ Proper(ds, u) = Proper(cs, u)
         /\ \A c \in 1..Len(cs), d \in 1..Len(cs) : Under(ds, d, c) <=> Under(cs, d, c)
         /\ \A c \in 1..Len(cs) : Below(ds, c) = Below(cs, c)
         /\ \A x, S : S \subseteq 1..Len(cs) => (IsFirst(ds, x, S) <=> IsFirst(cs, x, S))
<1>1. \A u : Own(ds, u) = Own(cs, u) /\ Ending(ds, u) = Ending(cs, u)
  BY DEF SameAtoms, Own, Ending
<1>2. \A u : Proper(ds, u) = Proper(cs, u)
  BY <1>1 DEF Proper
<1>3. \A c \in 1..Len(cs), d \in 1..Len(cs) : Under(ds, d, c) <=> Under(cs, d, c)
  BY DEF SameAtoms, Under
<1>4. \A c \in 1..Len(cs) : Below(ds, c) = Below(cs, c)
  BY <1>3 DEF Below, SameAtoms
<1>5. ASSUME NEW x, NEW S, S \subseteq 1..Len(cs)
      PROVE  IsFirst(ds, x, S) <=> IsFirst(cs, x, S)
  BY <1>3, <1>5 DEF IsFirst
<1> QED
  BY <1>1, <1>2, <1>3, <1>4, <1>5

-----------------------------------------------------------------------------
(* A state of the queue gets the root's matches. *)

\* Where there is a cell but the root's, the list of a linked state goes on with
\* the first.
LEMMA Settled ==
  ASSUME Trie, NEW cs, NEW hs, NEW U, NEW P, Linking(cs, hs, U, P), NEW u \in State, u \notin U,
         NEW S, S \subseteq 1..Len(cs), NEW x, GoesOn(cs, hs, U, P, x, u, S), S \cap Proper(cs, u) # {}
  PROVE  IsFirst(cs, x, S \cap Ending(cs, u)) /\ IsFirst(cs, x, S \cap Proper(cs, u))
<1>1. IsFirst(cs, x, S \cap Ending(cs, u)) \/ IsFirst(cs, x, S \cap Proper(cs, u))
  BY DEF GoesOn
<1> QED
  BY <1>1, FirstProper DEF Linking

LEMMA Unsettled ==
  ASSUME NEW cs, NEW hs, NEW U, NEW P, NEW u, u \notin U,
         NEW S, NEW x, GoesOn(cs, hs, U, P, x, u, S), S \cap Proper(cs, u) = {}
  PROVE  /\ u \in P => IsFirst(cs, x, S \cap Ending(cs, u))
         /\ u \notin P => x \in {0, hs[Root]}
BY DEF GoesOn, IsFirst

\* A list may be changed where it goes on from the head and the cells of s.
LEMMA Relisted ==
  ASSUME Trie, NEW cs, NEW hs, NEW U, NEW P, Linking(cs, hs, U, P),
         NEW s \in State, s # Root, NEW V, NEW Q,
         \A u : u # s => (u \in V <=> u \in U) /\ (u \in Q <=> u \in P),
         NEW ds, Matches(ds), SameAtoms(cs, ds), NEW gs, gs = [u \in State |-> gs[u]],
         \A u \in State : u # s => gs[u] = hs[u],
         GoesOn(cs, hs, V, Q, gs[s], s, 1..Len(cs)),
         \A c \in 1..Len(cs) :
           IF cs[c].bytes = s THEN GoesOn(cs, hs, V, Q, ds[c].next, s, Below(cs, c))
           ELSE GoesOn(cs, hs, U, P, ds[c].next, cs[c].bytes, Below(cs, c))
  PROVE  Linking(ds, gs, V, Q)
<1>1. Root \in State /\ gs[Root] = hs[Root] /\ Root \in V \cup Q
  BY DEF Trie, Linking
<1>2. Matches(cs) /\ Len(ds) = Len(cs) /\ \A c \in 1..Len(cs) : ds[c].bytes = cs[c].bytes
  BY DEF Linking, SameAtoms
<1>3. ASSUME NEW u, NEW S, NEW x, S \subseteq 1..Len(cs), GoesOn(cs, hs, V, Q, x, u, S)
      PROVE  GoesOn(ds, gs, V, Q, x, u, S)
  <2>1. /\ S \cap Own(cs, u) \subseteq 1..Len(cs) /\ S \cap Ending(cs, u) \subseteq 1..Len(cs)
        /\ S \cap Proper(cs, u) \subseteq 1..Len(cs)
    BY <1>3
  <2>2. /\ IsFirst(ds, x, S \cap Own(ds, u)) <=> IsFirst(cs, x, S \cap Own(cs, u))
        /\ IsFirst(ds, x, S \cap Ending(ds, u)) <=> IsFirst(cs, x, S \cap Ending(cs, u))
        /\ IsFirst(ds, x, S \cap Proper(ds, u)) <=> IsFirst(cs, x, S \cap Proper(cs, u))
        /\ Proper(ds, u) = Proper(cs, u)
    BY <2>1, SameSets
  <2> QED
    BY <1>1, <1>3, <2>2 DEF GoesOn
<1>4. ASSUME NEW u, NEW S, NEW x, u # s, GoesOn(cs, hs, U, P, x, u, S)
      PROVE  GoesOn(cs, hs, V, Q, x, u, S)
  <2>1. (u \in V <=> u \in U) /\ (u \in Q <=> u \in P)
    BY <1>4
  <2> QED
    BY <1>4, <2>1 DEF GoesOn
<1>5. \A u \in State : GoesOn(ds, gs, V, Q, gs[u], u, 1..Len(ds))
  <2> TAKE u \in State
  <2>1. CASE u = s
    BY <1>2, <1>3, <2>1
  <2>2. CASE u # s
    <3>1. GoesOn(cs, hs, U, P, gs[u], u, 1..Len(cs))
      BY <2>2 DEF Linking, Listing
    <3>2. GoesOn(cs, hs, V, Q, gs[u], u, 1..Len(cs))
      BY <1>4, <2>2, <3>1
    <3> QED
      BY <1>2, <1>3, <3>2
  <2> QED
    BY <2>1, <2>2
<1>6. \A c \in 1..Len(ds) : GoesOn(ds, gs, V, Q, ds[c].next, ds[c].bytes, Below(ds, c))
  <2> TAKE c \in 1..Len(ds)
  <2>1. /\ c \in 1..Len(cs) /\ ds[c].bytes = cs[c].bytes
        /\ Below(cs, c) \subseteq 1..Len(cs)
        /\ Below(ds, c) = Below(cs, c)
    BY <1>2, SameSets DEF Below
  <2>2. GoesOn(cs, hs, V, Q, ds[c].next, cs[c].bytes, Below(cs, c))
    BY <1>4, <2>1
  <2> QED
    BY <1>3, <2>1, <2>2
<1> QED
  BY <1>1, <1>5, <1>6 DEF Linking, Listing

LEMMA WithRootLinking ==
  ASSUME Trie, NEW cs, NEW hs, NEW U, NEW P, Linking(cs, hs, U, P),
         NEW s \in State, s # Root, s \notin U,
         NEW ds, Matches(ds), SameAtoms(cs, ds), NEW gs, gs = [u \in State |-> gs[u]],
         \A u \in State : u # s => gs[u] = hs[u],
         IsFirst(cs, gs[s], Ending(cs, s)),
         \A c \in 1..Len(cs) :
           IF cs[c].bytes = s THEN IsFirst(cs, ds[c].next, Below(cs, c) \cap Ending(cs, s))
           ELSE GoesOn(cs, hs, U, P, ds[c].next, cs[c].bytes, Below(cs, c))
  PROVE  Linking(ds, gs, U, P \cup {s})
<1> DEFINE Q == P \cup {s}
<1>1. (s \in Q) /\ \A u : u # s => (u \in U <=> u \in U) /\ (u \in Q <=> u \in P)
  OBVIOUS
<1>2. (1..Len(cs)) \cap Ending(cs, s) = Ending(cs, s)
  BY DEF Ending
<1> HIDE DEF Q
<1>3. \A S, x : IsFirst(cs, x, S \cap Ending(cs, s)) => GoesOn(cs, hs, U, Q, x, s, S)
  BY <1>1 DEF GoesOn
<1>4. GoesOn(cs, hs, U, Q, gs[s], s, 1..Len(cs))
  BY <1>2, <1>3
<1>5. \A c \in 1..Len(cs) :
        IF cs[c].bytes = s THEN GoesOn(cs, hs, U, Q, ds[c].next, s, Below(cs, c))
        ELSE GoesOn(cs, hs, U, P, ds[c].next, cs[c].bytes, Below(cs, c))
  BY <1>3
<1>6. Linking(ds, gs, U, Q)
  BY <1>1, <1>4, <1>5, Relisted
<1> QED
  BY <1>6 DEF Q

\* The last cell of the list of s.
LEMMA Lowest ==
  ASSUME Trie, NEW cs, NEW hs, NEW U, NEW P, Linking(cs, hs, U, P),
         NEW s \in State, s # Root, \A v \in State : Len(v) <= Len(s) => v \notin U,
         NEW d \in Proper(cs, s), cs[d].next = 0
  PROVE  /\ cs[d].bytes \notin U
         /\ Below(cs, d) \cap Proper(cs, cs[d].bytes) = {}
         /\ \A e \in Proper(cs, s) : e # d => Under(cs, d, e)
<1> DEFINE v == cs[d].bytes
<1>1. Matches(cs) /\ d \in 1..Len(cs) /\ IsSuffix(v, s) /\ v \in State /\ v # Root
  BY CellTypes DEF Linking, Proper, Ending, Own
<1>2. v \in Seq(Byte) /\ s \in Seq(Byte) /\ State \subseteq Seq(Byte)
  BY <1>1 DEF Trie
<1>3. v \notin U
  BY <1>1, <1>2, SuffixOrder
<1>4. GoesOn(cs, hs, U, P, 0, v, Below(cs, d)) /\ Below(cs, d) \subseteq 1..Len(cs)
  BY <1>1 DEF Linking, Listing, Below
<1> HIDE DEF v
<1>5. Below(cs, d) \cap Proper(cs, v) = {}
  <2> SUFFICES ASSUME Below(cs, d) \cap Proper(cs, v) # {} PROVE FALSE
    OBVIOUS
  <2>1. IsFirst(cs, 0, Below(cs, d) \cap Proper(cs, v))
    BY <1>1, <1>3, <1>4, Settled
  <2> DEFINE A == Below(cs, d) \cap Proper(cs, v)
  <2>2. A \subseteq 1..Len(cs) /\ A # {} /\ IsFirst(cs, 0, A)
    BY <1>4, <2>1
  <2> HIDE DEF A
  <2> QED
    BY <1>1, <2>2, FirstIs
<1>6. ASSUME NEW e \in Proper(cs, s), e # d PROVE Under(cs, d, e)
  <2> SUFFICES ASSUME ~Under(cs, d, e) PROVE FALSE
    OBVIOUS
  <2>1. e \in 1..Len(cs) /\ IsSuffix(cs[e].bytes, s) /\ cs[e].bytes # Root
    BY DEF Proper, Ending, Own
  <2>2. Under(cs, e, d)
    BY <1>1, <1>6, <2>1, CellOrder
  <2>3. Len(cs[e].bytes) <= Len(v) /\ cs[e].bytes \in Seq(Byte)
    BY <1>1, <2>1, <2>2, CellTypes DEF Under, v
  <2>4. IsSuffix(cs[e].bytes, v)
    BY <1>1, <1>2, <2>1, <2>3, SuffixOrder
  <2>5. e \in Below(cs, d) /\ e \in Proper(cs, v)
    BY <2>1, <2>2, <2>4 DEF Below, Proper, Ending, Own
  <2> QED
    BY <1>5, <2>5
<1> QED
  BY <1>3, <1>5, <1>6 DEF v

LEMMA RootFirst ==
  ASSUME Trie, NEW cs, NEW hs, NEW U, NEW P, Linking(cs, hs, U, P), NEW u \in State,
         NEW S, Own(cs, Root) \subseteq S, S \cap Proper(cs, u) = {}
  PROVE  S \cap Ending(cs, u) = Own(cs, Root) /\ IsFirst(cs, hs[Root], S \cap Ending(cs, u))
<1>1. S \cap Ending(cs, u) = Own(cs, Root)
  BY RootCells DEF Linking, Proper
<1> QED
  BY <1>1, RootHead

\* While a cell of s is the lowest but the root's and ends its list, all of
\* the list are cells but the root's.
LEMMA ProperClosed ==
  ASSUME Trie, NEW cs, NEW hs, NEW U, NEW P, Linking(cs, hs, U, P),
         NEW s \in State, s # Root, \A v \in State : Len(v) <= Len(s) => v \notin U,
         NEW c \in Own(cs, s), Below(cs, c) \cap Proper(cs, s) = {}, cs[c].next = 0
  PROVE  Closed(cs, Proper(cs, s)) /\ hs[s] \in Proper(cs, s)
<1>1. /\ Matches(cs) /\ c \in 1..Len(cs) /\ cs[c].bytes = s
      /\ s \in Seq(Byte) /\ State \subseteq Seq(Byte) /\ c \in Proper(cs, s)
  BY RootCells DEF Linking, Own, Trie
<1>2. ASSUME NEW e \in 1..Len(cs), e \in Proper(cs, s), cs[e].next # 0
      PROVE  cs[e].next \in Proper(cs, s)
  <2> DEFINE v == cs[e].bytes
  <2>1. v \in State /\ v \in Seq(Byte) /\ IsSuffix(v, s) /\ v # Root
    BY <1>1, <1>2, CellTypes DEF Proper, Ending, Own
  <2>2. e # c
    BY <1>1, <1>2
  <2>3. Under(cs, c, e)
    <3> SUFFICES ASSUME ~Under(cs, c, e) PROVE FALSE
      OBVIOUS
    <3>1. Under(cs, e, c)
      BY <1>1, <2>2, CellOrder
    <3> QED
      BY <1>2, <3>1 DEF Below
  <2>4. v = s
    <3>1. Len(s) <= Len(v) /\ Len(v) <= Len(s) /\ Len(v) \in Nat /\ Len(s) \in Nat
      BY <1>1, <2>1, <2>3, CellTypes, SuffixOrder DEF Under
    <3> QED
      BY <1>1, <2>1, <3>1, SuffixOrder
  <2>5. GoesOn(cs, hs, U, P, cs[e].next, s, Below(cs, e)) /\ Below(cs, e) \subseteq 1..Len(cs)
    BY <2>4 DEF Linking, Listing, Below
  <2>6. c \in Below(cs, e) \cap Proper(cs, s)
    BY <1>1, <2>3 DEF Below
  <2>7. s \notin U
    BY <1>1, LenProperties
  <2> DEFINE A == Below(cs, e) \cap Proper(cs, s)
  <2>8. A # {} /\ A \subseteq 1..Len(cs) /\ IsFirst(cs, cs[e].next, A)
    BY <2>5, <2>6, <2>7, Settled
  <2> QED
    BY <2>8 DEF IsFirst
<1>3. hs[s] \in Proper(cs, s)
  <2>1. GoesOn(cs, hs, U, P, hs[s], s, 1..Len(cs)) /\ s \notin U
    BY <1>1, LenProperties DEF Linking, Listing
  <2> DEFINE A == (1..Len(cs)) \cap Proper(cs, s)
  <2>2. A # {} /\ IsFirst(cs, hs[s], A)
    BY <1>1, <2>1, Settled
  <2> QED
    BY <2>2 DEF IsFirst
<1> QED
  BY <1>2, <1>3 DEF Closed

\* WithRoot: what is linked stays so, and s has the root's matches too.
LEMMA Rooting ==
  ASSUME Trie, NEW cs, NEW hs, NEW U, NEW P, Linking(cs, hs, U, P),
         NEW s \in State, s # Root, \A v \in State : Len(v) <= Len(s) => v \notin U
  PROVE  Linking(WithRoot(cs, hs, s).cells, WithRoot(cs, hs, s).heads, U, P \cup {s})
<1> DEFINE r == WithRoot(cs, hs, s)
           all == 1..Len(cs)
<1>1. Matches(cs) /\ s \in Seq(Byte) /\ s \notin U /\ Root \in State
  BY LenProperties DEF Linking, Trie
<1>2. GoesOn(cs, hs, U, P, hs[s], s, all)
  BY DEF Linking, Listing
<1>3. all \cap Ending(cs, s) = Ending(cs, s) /\ all \cap Proper(cs, s) = Proper(cs, s) /\ Own(cs, Root) \subseteq all
  BY DEF Ending, Proper, Own
<1>4. SameAtoms(cs, cs)
  BY DEF SameAtoms
<1>5. hs = [u \in State |-> hs[u]]
  BY DEF Linking
<1>6. \A c \in all : GoesOn(cs, hs, U, P, cs[c].next, cs[c].bytes, Below(cs, c))
  BY DEF Linking, Listing
<1>7. CASE hs[s] = 0
  <2> DEFINE gs == [hs EXCEPT ![s] = hs[Root]]
  <2>1. r.cells = cs /\ r.heads = gs
    BY <1>7 DEF WithRoot
  <2>2. Proper(cs, s) = {}
    <3> SUFFICES ASSUME all \cap Proper(cs, s) # {} PROVE FALSE
      BY <1>3
    <3>1. GoesOn(cs, hs, U, P, 0, s, all) /\ all \subseteq 1..Len(cs)
      BY <1>2, <1>7
    <3>2. IsFirst(cs, 0, all \cap Proper(cs, s))
      BY <1>1, <3>1, Settled
    <3> QED
      BY <3>2 DEF IsFirst, Proper, Ending
  <2>3. gs = [u \in State |-> gs[u]] /\ gs[s] = hs[Root] /\ \A u \in State : u # s => gs[u] = hs[u]
    <3>1. gs = [u \in State |-> IF u = s THEN hs[Root] ELSE hs[u]]
      BY <1>5
    <3> QED
      BY <3>1
  <2>4. IsFirst(cs, gs[s], Ending(cs, s))
    <3>1. all \cap Proper(cs, s) = {}
      BY <1>3, <2>2
    <3>2. IsFirst(cs, hs[Root], all \cap Ending(cs, s))
      BY <1>3, <3>1, RootFirst
    <3> HIDE DEF all, gs
    <3> QED
      BY <1>3, <2>3, <3>2
  <2>5. \A c \in all : cs[c].bytes # s
    BY <1>1, <2>2, RootCells DEF Own
  <2> HIDE DEF gs, r
  <2>6. Linking(cs, gs, U, P \cup {s})
    BY <1>1, <1>4, <1>6, <2>3, <2>4, <2>5, WithRootLinking
  <2> QED
    BY <2>1, <2>6 DEF r
<1>8. CASE hs[s] # 0
  <2> DEFINE d == LastCell(cs, hs[s])
             ds == [cs EXCEPT ![d].next = hs[Root]]
  <2>1. r.cells = (IF cs[d].backtrack > 0 THEN ds ELSE cs) /\ r.heads = hs
    BY <1>8 DEF WithRoot
  <2>2. Descends(cs) /\ Closed(cs, Ending(cs, s)) /\ hs[s] \in Ending(cs, s) /\ hs[s] \in 1..Len(cs)
    BY <1>8, Descending, EndingClosed, Heads DEF Ending
  <2> HIDE DEF r, d
  <2>3. d \in Ending(cs, s) /\ d \in all /\ cs[d].next = 0
    BY <2>2, ListWithin DEF d
  <2>4. IsFirst(cs, hs[s], Ending(cs, s))
    <3>1. CASE all \cap Proper(cs, s) # {}
      <4>1. IsFirst(cs, hs[s], all \cap Ending(cs, s))
        <5> all \subseteq 1..Len(cs)
          OBVIOUS
        <5> HIDE DEF all
        <5> QED
          BY <1>1, <1>2, <3>1, Settled
      <4> HIDE DEF all
      <4> QED
        BY <1>3, <4>1
    <3>2. CASE all \cap Proper(cs, s) = {}
      <4>1. IsFirst(cs, hs[Root], all \cap Ending(cs, s))
        BY <1>3, <3>2, RootFirst
      <4> HIDE DEF all
      <4>2. /\ s \in P => IsFirst(cs, hs[s], all \cap Ending(cs, s))
            /\ s \notin P => hs[s] \in {0, hs[Root]}
        BY <1>1, <1>2, <3>2, Unsettled
      <4> QED
        BY <1>3, <1>8, <4>1, <4>2
    <3> QED
      BY <3>1, <3>2
  <2>5. CASE cs[d].backtrack > 0
    <3>1. d \in Proper(cs, s)
      <4>1. cs[d].bytes # Root
        <5>1. cs[d].bytes = Root => cs[d].backtrack = 0
          BY <1>1, <2>3 DEF Matches
        <5>2. ~(0 > 0)
          OBVIOUS
        <5> QED
          BY <2>5, <5>1, <5>2
      <4> QED
        BY <2>3, <4>1 DEF Proper, Own
    <3>2. /\ cs[d].bytes \notin U
          /\ Below(cs, d) \cap Proper(cs, cs[d].bytes) = {}
          /\ \A e \in Proper(cs, s) : e # d => Under(cs, d, e)
      BY <2>3, <3>1, Lowest
    <3>3. IsCell(cs[d]) /\ cs \in Seq(ToSet(cs))
      BY <1>1, <2>3 DEF Matches
    <3>4. /\ ds \in Seq(ToSet(ds)) /\ Len(ds) = Len(cs)
          /\ IsCell(ds[d]) /\ ds[d].next = hs[Root]
          /\ ds[d].bytes = cs[d].bytes /\ ds[d].backtrack = cs[d].backtrack
          /\ \A c \in 1..Len(cs) : c # d => ds[c] = cs[c]
      <4>1. ds = Relink(cs, d, hs[Root])
        BY DEF Relink
      <4> HIDE DEF ds
      <4>2. IsRelinked(cs, ds, d, hs[Root])
        BY <2>3, <3>3, <4>1, Relinked
      <4> QED
        BY <4>2 DEF IsRelinked
    <3> HIDE DEF ds
    <3>5. hs[Root] \in 0..Len(cs)
      BY <1>1, Heads
    <3>6. SameAtoms(cs, ds)
      BY <3>4 DEF SameAtoms
    <3>7. Matches(ds)
      BY <1>1, <2>3, <3>4, <3>5 DEF Matches
    <3>8. ASSUME NEW c \in all, cs[c].bytes = s
          PROVE  IsFirst(cs, ds[c].next, Below(cs, c) \cap Ending(cs, s))
      <4>1. CASE c = d
        <5>1. Own(cs, Root) \subseteq Below(cs, d)
          BY <1>1, <2>3, <3>1, RootCells DEF Below, Proper, Own
        <5> QED
          BY <3>2, <3>4, <3>8, <4>1, <5>1, RootFirst
      <4>2. CASE c # d
        <5>1. c \in Proper(cs, s)
          BY <1>1, <3>8, RootCells DEF Own
        <5>2. d \in Below(cs, c) \cap Proper(cs, s) /\ Below(cs, c) \subseteq 1..Len(cs)
          BY <2>3, <3>1, <3>2, <4>2, <5>1 DEF Below
        <5>3. GoesOn(cs, hs, U, P, cs[c].next, s, Below(cs, c))
          BY <1>6, <3>8
        <5>4. IsFirst(cs, cs[c].next, Below(cs, c) \cap Ending(cs, s))
          BY <1>1, <5>2, <5>3, Settled
        <5> QED
          BY <3>4, <4>2, <5>4
      <4> QED
        BY <4>1, <4>2
    <3>9. ASSUME NEW c \in all, cs[c].bytes # s
          PROVE  GoesOn(cs, hs, U, P, ds[c].next, cs[c].bytes, Below(cs, c))
      <4>1. CASE c # d
        BY <1>6, <3>4, <4>1
      <4>2. CASE c = d
        <5> DEFINE v == cs[d].bytes
                   S == Below(cs, d)
        <5>1. Own(cs, Root) \subseteq S
          BY <1>1, <2>3, <3>1, RootCells DEF Below, Proper, Own
        <5>2. v \in State
          BY <1>1, <2>3, CellTypes
        <5>3. IsFirst(cs, hs[Root], S \cap Ending(cs, v))
          BY <3>2, <5>1, <5>2, RootFirst
        <5>4. GoesOn(cs, hs, U, P, hs[Root], v, S)
          BY <3>2, <5>3 DEF GoesOn
        <5> QED
          BY <3>4, <4>2, <5>4
      <4> QED
        BY <4>1, <4>2
    <3>10. Linking(ds, hs, U, P \cup {s})
      BY <1>1, <1>5, <2>4, <3>6, <3>7, <3>8, <3>9, WithRootLinking
    <3> QED
      BY <2>1, <2>5, <3>10 DEF ds, r
  <2>6. CASE ~(cs[d].backtrack > 0)
    <3>1. cs[d].bytes = Root
      <4>1. cs[d].backtrack \in Nat /\ (cs[d].backtrack = 0 <=> cs[d].bytes = Root)
        BY <1>1, <2>3 DEF Matches
      <4>2. cs[d].backtrack = 0
        BY <2>6, <4>1
      <4> QED
        BY <4>1, <4>2
    <3>2. ASSUME NEW c \in all, cs[c].bytes = s
          PROVE  IsFirst(cs, cs[c].next, Below(cs, c) \cap Ending(cs, s))
      <4>1. GoesOn(cs, hs, U, P, cs[c].next, s, Below(cs, c)) /\ Below(cs, c) \subseteq 1..Len(cs)
        BY <1>6, <3>2 DEF Below
      <4>2. CASE Below(cs, c) \cap Proper(cs, s) # {}
        BY <1>1, <4>1, <4>2, Settled
      <4>3. CASE Below(cs, c) \cap Proper(cs, s) = {}
        <5>1. Own(cs, Root) \subseteq Below(cs, c)
          BY <1>1, <3>2, RootCells DEF Below, Own
        <5>2. IsFirst(cs, hs[Root], Below(cs, c) \cap Ending(cs, s))
          BY <4>3, <5>1, RootFirst
        <5>3. cs[c].next # 0
          <6> SUFFICES ASSUME cs[c].next = 0 PROVE FALSE
            OBVIOUS
          <6>1. c \in Own(cs, s)
            BY <3>2 DEF Own
          <6>2. Closed(cs, Proper(cs, s)) /\ hs[s] \in Proper(cs, s)
            BY <4>3, <6>1, ProperClosed
          <6>3. d \in Proper(cs, s)
            BY <2>2, <6>2, ListWithin DEF d
          <6> QED
            BY <3>1, <6>3 DEF Proper, Own, Ending
        <5>4. /\ s \in P => IsFirst(cs, cs[c].next, Below(cs, c) \cap Ending(cs, s))
              /\ s \notin P => cs[c].next \in {0, hs[Root]}
          BY <1>1, <4>1, <4>3, Unsettled
        <5> QED
          BY <5>2, <5>3, <5>4
      <4> QED
        BY <4>2, <4>3
    <3>3. Linking(cs, hs, U, P \cup {s})
      BY <1>1, <1>4, <1>5, <1>6, <2>4, <3>2, WithRootLinking
    <3> QED
      BY <2>1, <2>6, <3>3 DEF r
  <2> QED
    BY <2>5, <2>6
<1> QED
  BY <1>7, <1>8

-----------------------------------------------------------------------------
(* The list of a child goes on with that of the state it fails to. *)

\* What belongs to a list: its own cells, and those of the state it fails to.
LEMMA ProperOf ==
  ASSUME Trie, NEW cs, Matches(cs), NEW u \in State, u # Root, NEW f, Fails(f, u)
  PROVE  /\ Proper(cs, u) = Own(cs, u) \cup Proper(cs, f)
         /\ \A e \in Proper(cs, f), c \in Own(cs, u) : Under(cs, e, c)
<1>1. /\ State \subseteq Seq(Byte) /\ u \in Seq(Byte) /\ f \in State /\ f \in Seq(Byte)
      /\ f # u /\ IsSuffix(f, u)
  BY DEF Trie, Fails
<1>2. Len(f) < Len(u) /\ Len(f) \in Nat /\ Len(u) \in Nat
  <2>1. Len(f) <= Len(u) /\ Len(f) # Len(u)
    BY <1>1, SuffixOrder
  <2> QED
    BY <1>1, <2>1, LenProperties
<1>3. ASSUME NEW c \in 1..Len(cs), cs[c].bytes # Root
      PROVE  IsSuffix(cs[c].bytes, u) <=> cs[c].bytes = u \/ IsSuffix(cs[c].bytes, f)
  <2> DEFINE v == cs[c].bytes
  <2>1. v \in State /\ v \in Seq(Byte)
    BY CellTypes
  <2> HIDE DEF v
  <2>2. IsSuffix(u, u) /\ (IsSuffix(v, f) => IsSuffix(v, u))
    BY <1>1, <2>1, SuffixOrder
  <2>3. v # u /\ IsSuffix(v, u) => IsSuffix(v, f)
    BY <2>1 DEF Fails
  <2> QED
    BY <2>2, <2>3 DEF v
<1>4. Proper(cs, u) = Own(cs, u) \cup Proper(cs, f)
  BY <1>3 DEF Proper, Ending, Own
<1>5. ASSUME NEW e \in Proper(cs, f), NEW c \in Own(cs, u)
      PROVE  Under(cs, e, c)
  <2>1. e \in 1..Len(cs) /\ IsSuffix(cs[e].bytes, f) /\ cs[c].bytes = u
    BY <1>5 DEF Proper, Ending, Own
  <2>2. cs[e].bytes \in Seq(Byte) /\ Len(cs[e].bytes) \in Nat
    BY <2>1, CellTypes
  <2>3. Len(cs[e].bytes) <= Len(f)
    BY <1>1, <2>1, <2>2, SuffixOrder
  <2> QED
    BY <1>2, <2>1, <2>2, <2>3 DEF Under
<1> QED
  BY <1>4, <1>5

\* Where the list of a linked state goes on.
Continues(cs, hs, x, S) == IsFirst(cs, x, S) \/ (S = {} /\ x = hs[Root])

\* Where the list of a linked state starts.
LEMMA HeadContinues ==
  ASSUME Trie, NEW cs, NEW hs, NEW U, NEW P, Linking(cs, hs, U, P), NEW t \in State, t \notin U
  PROVE  Continues(cs, hs, hs[t], Proper(cs, t)) /\ hs[t] \in 0..Len(cs)
<1> DEFINE all == 1..Len(cs)
<1>1. GoesOn(cs, hs, U, P, hs[t], t, all)
  BY DEF Linking, Listing
<1>2. Matches(cs) /\ all \cap Proper(cs, t) = Proper(cs, t) /\ Own(cs, Root) \subseteq all /\ all \subseteq 1..Len(cs)
  BY DEF Linking, Proper, Ending, Own
<1>3. hs[t] \in 0..Len(cs)
  BY Heads
<1> HIDE DEF all
<1>4. CASE all \cap Proper(cs, t) # {}
  <2>1. IsFirst(cs, hs[t], all \cap Proper(cs, t))
    BY <1>1, <1>2, <1>4, Settled
  <2> QED
    BY <1>2, <1>3, <2>1 DEF Continues
<1>5. CASE all \cap Proper(cs, t) = {} /\ t \notin P
  BY <1>1, <1>2, <1>3, <1>5 DEF GoesOn, Continues
<1>6. CASE all \cap Proper(cs, t) = {} /\ t \in P
  <2>1. IsFirst(cs, hs[t], all \cap Ending(cs, t))
    BY <1>1, <1>6 DEF GoesOn
  <2>2. all \cap Ending(cs, t) = Own(cs, Root) /\ IsFirst(cs, hs[Root], all \cap Ending(cs, t))
    BY <1>2, <1>6, RootFirst
  <2>3. all \cap Ending(cs, t) \subseteq 1..Len(cs)
    BY <1>2
  <2>4. hs[t] = hs[Root]
    BY <1>2, <2>1, <2>2, <2>3, FirstIs
  <2> QED
    BY <1>2, <1>3, <1>6, <2>4 DEF Continues
<1> QED
  BY <1>4, <1>5, <1>6

\* What LinkChild does to the lists of the child u that fails to t.
JoinedCells(cs, hs, u, t) ==
  IF t = Root \/ hs[u] = 0 THEN cs ELSE Relink(cs, LastCell(cs, hs[u]), hs[t])

JoinedHeads(cs, hs, u, t) ==
  IF t = Root \/ hs[u] # 0 THEN hs ELSE [hs EXCEPT ![u] = hs[t]]

\* The last of its own cells is what the list of an unlinked state ends with.
LEMMA LastOfOwn ==
  ASSUME Trie, NEW cs, NEW hs, NEW U, NEW P, Linking(cs, hs, U, P),
         NEW u \in State, u \in U, hs[u] # 0, NEW d, d = LastCell(cs, hs[u])
  PROVE  /\ d \in Own(cs, u) /\ Below(cs, d) \cap Own(cs, u) = {}
         /\ \A c \in Own(cs, u) : c # d => Under(cs, d, c)
<1>1. Matches(cs) /\ Descends(cs) /\ hs[u] \in 1..Len(cs) /\ hs[u] \in Own(cs, u)
  BY Heads, Descending DEF Linking, Own
<1>2. Closed(cs, Own(cs, u))
  <2> SUFFICES ASSUME NEW c \in 1..Len(cs), c \in Own(cs, u), cs[c].next # 0
               PROVE  cs[c].next \in Own(cs, u)
    BY DEF Closed
  <2>1. cs[c].bytes = u
    BY DEF Own
  <2> QED
    BY <2>1, Nexts
<1>3. d \in Own(cs, u) /\ d \in 1..Len(cs) /\ cs[d].next = 0
  BY <1>1, <1>2, ListWithin
<1>4. cs[d].bytes = u
  BY <1>3 DEF Own
<1>5. GoesOn(cs, hs, U, P, 0, u, Below(cs, d))
  BY <1>3, <1>4 DEF Linking, Listing
<1>6. IsFirst(cs, 0, Below(cs, d) \cap Own(cs, u))
  BY <1>5 DEF GoesOn
<1>7. Below(cs, d) \cap Own(cs, u) = {}
  BY <1>6 DEF IsFirst, Below
<1>8. ASSUME NEW c \in Own(cs, u), c # d
      PROVE  Under(cs, d, c)
  <2>1. c \in 1..Len(cs) /\ ~Under(cs, c, d)
    BY <1>7, <1>8 DEF Below, Own
  <2> QED
    BY <1>1, <1>3, <1>8, <2>1, CellOrder
<1> QED
  BY <1>3, <1>7, <1>8

\* With the cells of the state it fails to under its own, a list goes on the
\* same as long as there are own cells.
LEMMA OwnFirst ==
  ASSUME Trie, NEW cs, Matches(cs), NEW u \in State, u # Root, NEW t, Fails(t, u),
         NEW hs, NEW U, NEW P, u \in U, u \notin P,
         NEW S, S \subseteq 1..Len(cs), S \cap Own(cs, u) # {}, NEW x, GoesOn(cs, hs, U, P, x, u, S)
  PROVE  GoesOn(cs, hs, U \ {u}, P, x, u, S)
<1>1. /\ Proper(cs, u) = Own(cs, u) \cup Proper(cs, t)
      /\ \A e \in Proper(cs, t), c \in Own(cs, u) : Under(cs, e, c)
  BY ProperOf
<1> DEFINE A == S \cap Own(cs, u)
           R == S \cap Proper(cs, t)
<1>2. A # {} /\ A \subseteq 1..Len(cs) /\ R \subseteq 1..Len(cs) /\ \A r \in R, c \in A : Under(cs, r, c)
  BY <1>1
<1>3. IsFirst(cs, x, A)
  BY DEF GoesOn
<1>4. S \cap Proper(cs, u) = A \cup R
  BY <1>1
<1> HIDE DEF A, R
<1>5. IsFirst(cs, x, A \cup R)
  BY <1>2, <1>3, FirstOfMore
<1> QED
  BY <1>4, <1>5 DEF GoesOn

\* And where those end with what the other list starts with.
LEMMA OwnLast ==
  ASSUME Trie, NEW cs, Matches(cs), NEW u \in State, u # Root, NEW t, Fails(t, u),
         NEW hs, NEW U, NEW P, u \notin P,
         NEW S, Own(cs, u) \cap S = {}, Proper(cs, t) \subseteq S, NEW x, Continues(cs, hs, x, Proper(cs, t))
  PROVE  GoesOn(cs, hs, U \ {u}, P, x, u, S)
<1>1. Proper(cs, u) = Own(cs, u) \cup Proper(cs, t)
  BY ProperOf
<1>2. S \cap Proper(cs, u) = Proper(cs, t)
  BY <1>1
<1> QED
  BY <1>2 DEF GoesOn, Continues

\* What LinkChild does to the lists makes the child one that is linked.
LEMMA ChildLinking ==
  ASSUME Trie, NEW cs, NEW hs, NEW U, NEW P, Linking(cs, hs, U, P),
         NEW u \in State, u # Root, u \in U, u \notin P, NEW t, Fails(t, u), t \notin U
  PROVE  Linking(JoinedCells(cs, hs, u, t), JoinedHeads(cs, hs, u, t), U \ {u}, P)
<1> DEFINE V   == U \ {u}
           all == 1..Len(cs)
<1>1. /\ Matches(cs) /\ SameAtoms(cs, cs) /\ t \in State
      /\ hs = [v \in State |-> hs[v]] /\ Descends(cs)
  BY Descending DEF Linking, SameAtoms, Fails
<1>2. /\ GoesOn(cs, hs, U, P, hs[u], u, all)
      /\ \A c \in all : GoesOn(cs, hs, U, P, cs[c].next, cs[c].bytes, Below(cs, c)) /\ Below(cs, c) \subseteq all
  BY DEF Linking, Listing, Below
<1>3. Proper(cs, Root) = {} /\ Own(cs, u) \subseteq all /\ Proper(cs, t) \subseteq all
  BY <1>1, RootCells DEF Proper, Own, Ending
<1>4. Continues(cs, hs, hs[t], Proper(cs, t)) /\ hs[t] \in 0..Len(cs)
  BY <1>1, HeadContinues
<1>5. \A v : v # u => (v \in V <=> v \in U) /\ (v \in P <=> v \in P)
  OBVIOUS
<1>6. \A S, x : S \subseteq all /\ S \cap Own(cs, u) # {} /\ GoesOn(cs, hs, U, P, x, u, S)
                 => GoesOn(cs, hs, V, P, x, u, S)
  BY <1>1, OwnFirst
<1>7. \A S, x : Own(cs, u) \cap S = {} /\ Proper(cs, t) \subseteq S /\ Continues(cs, hs, x, Proper(cs, t))
                 => GoesOn(cs, hs, V, P, x, u, S)
  BY <1>1, OwnLast
<1> HIDE DEF V, all
<1>8. CASE t = Root
  <2>1. ASSUME NEW S, NEW x, S \subseteq all, GoesOn(cs, hs, U, P, x, u, S)
        PROVE  GoesOn(cs, hs, V, P, x, u, S)
    <3>1. CASE Own(cs, u) \cap S = {}
      <4>1. IsFirst(cs, x, {})
        BY <2>1, <3>1 DEF GoesOn
      <4>2. Continues(cs, hs, x, Proper(cs, t))
        BY <1>3, <1>8, <4>1 DEF Continues
      <4> QED
        BY <1>3, <1>7, <1>8, <3>1, <4>2
    <3>2. CASE Own(cs, u) \cap S # {}
      BY <1>6, <2>1, <3>2
    <3> QED
      BY <3>1, <3>2
  <2>2. Linking(cs, hs, V, P)
    <3>1. GoesOn(cs, hs, V, P, hs[u], u, 1..Len(cs))
      BY <1>2, <2>1 DEF all
    <3>2. \A c \in 1..Len(cs) :
            IF cs[c].bytes = u THEN GoesOn(cs, hs, V, P, cs[c].next, u, Below(cs, c))
            ELSE GoesOn(cs, hs, U, P, cs[c].next, cs[c].bytes, Below(cs, c))
      BY <1>2, <2>1 DEF all
    <3> QED
      BY <1>1, <1>5, <3>1, <3>2, Relisted
  <2> QED
    BY <1>8, <2>2 DEF JoinedCells, JoinedHeads, V
<1>9. CASE t # Root /\ hs[u] = 0
  <2> DEFINE gs == JoinedHeads(cs, hs, u, t)
  <2>1. gs = [v \in State |-> IF v = u THEN hs[t] ELSE hs[v]]
    BY <1>1, <1>9 DEF JoinedHeads
  <2> HIDE DEF gs
  <2>2. gs = [v \in State |-> gs[v]] /\ gs[u] = hs[t] /\ \A v \in State : v # u => gs[v] = hs[v]
    BY <2>1
  <2>3. Own(cs, u) = {}
    <3>1. IsFirst(cs, 0, all \cap Own(cs, u))
      BY <1>2, <1>9 DEF GoesOn
    <3> QED
      BY <1>3, <3>1 DEF IsFirst, Own
  <2>4. GoesOn(cs, hs, V, P, gs[u], u, 1..Len(cs))
    BY <1>3, <1>4, <1>7, <2>2, <2>3 DEF all
  <2>5. \A c \in 1..Len(cs) :
          IF cs[c].bytes = u THEN GoesOn(cs, hs, V, P, cs[c].next, u, Below(cs, c))
          ELSE GoesOn(cs, hs, U, P, cs[c].next, cs[c].bytes, Below(cs, c))
    BY <1>2, <2>3 DEF all, Own
  <2>6. Linking(cs, gs, V, P)
    BY <1>1, <1>5, <2>2, <2>4, <2>5, Relisted
  <2> QED
    BY <1>9, <2>6 DEF JoinedCells, V, gs
<1>10. CASE t # Root /\ hs[u] # 0
  <2> DEFINE d  == LastCell(cs, hs[u])
             ds == JoinedCells(cs, hs, u, t)
  <2> HIDE DEF d, ds
  <2>1. /\ d \in Own(cs, u) /\ Below(cs, d) \cap Own(cs, u) = {}
        /\ \A c \in Own(cs, u) : c # d => Under(cs, d, c)
    BY <1>10, LastOfOwn DEF d
  <2>2. d \in 1..Len(cs) /\ cs[d].bytes = u /\ IsCell(cs[d]) /\ cs \in Seq(ToSet(cs))
    BY <1>1, <2>1 DEF Own, Matches
  <2>3. ds = Relink(cs, d, hs[t])
    BY <1>10 DEF JoinedCells, ds, d
  <2>4. IsRelinked(cs, ds, d, hs[t])
    BY <2>2, <2>3, Relinked
  <2>5. SameAtoms(cs, ds)
    BY <2>4 DEF IsRelinked, SameAtoms
  <2>6. Matches(ds)
    BY <1>1, <1>4, <2>2, <2>4 DEF Matches, IsRelinked
  <2>7. GoesOn(cs, hs, V, P, hs[u], u, 1..Len(cs))
    <3>1. all \cap Own(cs, u) # {} /\ all \subseteq all
      BY <1>3, <2>1
    <3> QED
      BY <1>2, <1>6, <3>1 DEF all
  <2>8. ASSUME NEW c \in 1..Len(cs), cs[c].bytes = u
        PROVE  GoesOn(cs, hs, V, P, ds[c].next, u, Below(cs, c))
    <3>1. CASE c = d
      <4>1. ds[d].next = hs[t]
        BY <2>4 DEF IsRelinked
      <4>2. Proper(cs, t) \subseteq Below(cs, d)
        <5>1. \A e \in Proper(cs, t) : Under(cs, e, d) /\ e \in 1..Len(cs)
          BY <1>1, <2>1, ProperOf DEF Proper, Ending
        <5> QED
          BY <5>1 DEF Below
      <4> QED
        BY <1>4, <1>7, <2>1, <3>1, <4>1, <4>2
    <3>2. CASE c # d
      <4>1. ds[c].next = cs[c].next
        BY <2>4, <3>2 DEF IsRelinked
      <4>2. d \in Below(cs, c) \cap Own(cs, u)
        BY <2>1, <2>2, <2>8, <3>2 DEF Below, Own
      <4>3. GoesOn(cs, hs, U, P, cs[c].next, u, Below(cs, c)) /\ Below(cs, c) \subseteq all
        BY <1>2, <2>8 DEF all
      <4> QED
        BY <1>6, <4>1, <4>2, <4>3
    <3> QED
      BY <3>1, <3>2
  <2>9. ASSUME NEW c \in 1..Len(cs), cs[c].bytes # u
        PROVE  GoesOn(cs, hs, U, P, ds[c].next, cs[c].bytes, Below(cs, c))
    <3>1. ds[c].next = cs[c].next
      BY <2>2, <2>4, <2>9 DEF IsRelinked
    <3> QED
      BY <1>2, <3>1 DEF all
  <2>10. Linking(ds, hs, V, P)
    BY <1>1, <1>5, <2>5, <2>6, <2>7, <2>8, <2>9, Relisted
  <2> QED
    BY <1>10, <2>10 DEF JoinedHeads, V, ds
<1> QED
  BY <1>8, <1>9, <1>10

-----------------------------------------------------------------------------
(* The failure links of shorter states lead to that of a child. *)

\* The states up to the length of s are linked.
LinkedTo(s) ==
  /\ failure[Root] = Root
  /\ \A v \in State : v # Root /\ Len(v) <= Len(s) => Fails(failure[v], v)

\* A place of the walk that no state with the child is longer than.
Passes(s, b, w) ==
  /\ w \in State /\ w # s /\ IsSuffix(w, s)
  /\ \A v \in State : v # s /\ IsSuffix(v, s) /\ HasChild(v, b) => IsSuffix(v, w)

Goals(b) == {Root} \cup {t \in State : HasChild(t, b)}

\* A failure link goes to the next place that is as good.
LEMMA PassesOn ==
  ASSUME Trie, NEW s \in State, LinkedTo(s), NEW b \in Byte,
         NEW w, Passes(s, b, w), w \notin Goals(b)
  PROVE  Passes(s, b, failure[w]) /\ Len(failure[w]) < Len(w)
<1> DEFINE f == failure[w]
<1>1. State \subseteq Seq(Byte) /\ s \in Seq(Byte) /\ w \in State /\ w \in Seq(Byte) /\ w # Root /\ IsSuffix(w, s) /\ w # s
  BY DEF Trie, Passes, Goals
<1>2. Len(w) <= Len(s)
  BY <1>1, SuffixOrder
<1>3. Fails(f, w)
  BY <1>1, <1>2 DEF LinkedTo
<1> HIDE DEF f
<1>4. f \in State /\ f \in Seq(Byte) /\ f # w /\ IsSuffix(f, w)
  BY <1>1, <1>3 DEF Fails
<1>5. Len(f) <= Len(w) /\ Len(f) # Len(w) /\ IsSuffix(f, s)
  BY <1>1, <1>4, SuffixOrder
<1>6. Len(f) < Len(w) /\ Len(w) \in Nat /\ Len(f) \in Nat /\ Len(s) \in Nat
  BY <1>1, <1>4, <1>5, LenProperties
<1>7. f # s
  BY <1>2, <1>6
<1>8. ASSUME NEW v \in State, v # s, IsSuffix(v, s), HasChild(v, b)
      PROVE  IsSuffix(v, f)
  <2>1. IsSuffix(v, w)
    BY <1>8 DEF Passes
  <2>2. v # w
    BY <1>1, <1>8 DEF Goals
  <2> QED
    BY <1>3, <2>1, <2>2 DEF Fails
<1> QED
  BY <1>4, <1>5, <1>6, <1>7, <1>8 DEF Passes, f

WalkFrom(s) == Iterated(failure, failure[s])

StopOf(s, b) == WalkFrom(s)[FirstIn(Goals(b), WalkFrom(s), Len(failure[s]))]

\* The walk of _yr_ac_create_failure_links stops at the longest state that has
\* the child, if one has it.
LEMMA StopPasses ==
  ASSUME Trie, NEW s \in State, s # Root, LinkedTo(s), NEW b \in Byte
  PROVE  Passes(s, b, StopOf(s, b)) /\ StopOf(s, b) \in Goals(b)
<1> DEFINE f    == failure[s]
           L    == Len(f)
           V    == {v \in State : Len(v) <= Len(s)}
           walk == WalkFrom(s)
           G    == Goals(b)
<1>1. State \subseteq Seq(Byte) /\ s \in Seq(Byte) /\ Len(s) \in Nat /\ Root \in State /\ Len(Root) = 0
  BY LenProperties DEF Trie, Root
<1>2. \A v \in State : Len(v) \in Nat
  BY <1>1, LenProperties
<1>3. ASSUME NEW v \in V
      PROVE  failure[v] \in V
  <2>1. CASE v = Root
    BY <1>1, <2>1 DEF LinkedTo
  <2>2. CASE v # Root
    <3> DEFINE w == failure[v]
    <3>1. Fails(w, v)
      BY <2>2 DEF LinkedTo
    <3> HIDE DEF w
    <3>2. w \in State /\ IsSuffix(w, v) /\ w \in Seq(Byte) /\ v \in Seq(Byte)
      BY <1>1, <3>1 DEF Fails
    <3>3. Len(w) <= Len(v) /\ Len(w) \in Nat /\ Len(v) \in Nat
      BY <1>2, <3>2, SuffixOrder
    <3> QED
      BY <1>1, <3>2, <3>3 DEF w
  <2> QED
    BY <2>1, <2>2
<1>4. s \in V
  BY <1>1
<1>5. f \in V /\ Fails(f, s)
  BY <1>1, <1>3, <1>4 DEF LinkedTo
<1> HIDE DEF V
<1>6. walk[0] = f /\ Goes(failure, walk)
  BY <1>3, <1>5, Walks DEF WalkFrom
<1>7. Passes(s, b, f) /\ L \in Nat
  <2>1. f \in State /\ f # s /\ IsSuffix(f, s)
    BY <1>5 DEF Fails
  <2> QED
    BY <1>2, <1>5, <2>1 DEF Fails, Passes
<1> HIDE DEF f, walk, G, L
<1>8. ASSUME NEW n \in Nat, \A i \in 0..(n - 1) : walk[i] \notin G
      PROVE  \A i \in 0..n : Passes(s, b, walk[i]) /\ Len(walk[i]) + i <= L
  <2> DEFINE D == {i \in 0..n : Passes(s, b, walk[i]) /\ Len(walk[i]) + i <= L}
  <2>1. 0 \in D
    BY <1>6, <1>7 DEF L
  <2>2. ASSUME NEW i \in 0..(n - 1), i \in D
        PROVE  i + 1 \in D
    <3> DEFINE w == walk[i]
               g == walk[i + 1]
    <3>1. Passes(s, b, w) /\ w \notin Goals(b) /\ Len(w) + i <= L /\ g = failure[w]
      BY <1>6, <1>8, <2>2 DEF G, Goes
    <3> HIDE DEF w, g
    <3>2. Passes(s, b, g) /\ Len(g) < Len(w)
      BY <3>1, PassesOn
    <3>3. Len(g) \in Nat /\ Len(w) \in Nat
      BY <1>2, <3>1, <3>2 DEF Passes
    <3>4. Len(g) + (i + 1) <= L
      <4>1. \A x, y \in Nat : y < x /\ x + i <= L => y + (i + 1) <= L
        BY <1>7
      <4> QED
        BY <3>1, <3>2, <3>3, <4>1
    <3>5. i + 1 \in 0..n
      OBVIOUS
    <3> QED
      BY <3>2, <3>4, <3>5 DEF g
  <2> HIDE DEF D
  <2>3. \A i \in 0..n : i \in D
    BY <2>1, <2>2, InductionTo
  <2> QED
    BY <2>3 DEF D
<1>9. \E k \in 0..L : walk[k] \in G
  <2> SUFFICES ASSUME \A k \in 0..L : walk[k] \notin G
               PROVE  FALSE
    OBVIOUS
  <2>1. Passes(s, b, walk[L]) /\ Len(walk[L]) + L <= L
    <3>1. L \in 0..L /\ \A i \in 0..(L - 1) : walk[i] \notin G
      BY <1>7
    <3> QED
      BY <1>7, <1>8, <3>1
  <2>2. walk[L] \in State /\ walk[L] \in Seq(Byte) /\ Len(walk[L]) \in Nat
    BY <1>1, <1>2, <2>1 DEF Passes
  <2>3. Len(walk[L]) = 0
    BY <1>7, <2>1, <2>2
  <2>4. walk[L] = Root
    BY <2>2, <2>3, EmptySeq DEF Root
  <2> QED
    BY <1>7, <2>4 DEF G, Goals
<1> DEFINE n == FirstIn(G, walk, L)
<1>10. n \in 0..L /\ walk[n] \in G /\ \A m \in 0..(n - 1) : walk[m] \notin G
  <2>1. PICK k \in 0..L : walk[k] \in G
    BY <1>9
  <2> QED
    BY <1>7, <2>1, FirstPlace
<1> HIDE DEF n
<1>11. Passes(s, b, walk[n])
  BY <1>7, <1>8, <1>10
<1> QED
  BY <1>10, <1>11 DEF StopOf, n, walk, G, L, f

Target(s, b) == IF HasChild(StopOf(s, b), b) THEN Append(StopOf(s, b), b) ELSE Root

LEMMA TargetIs ==
  ASSUME NEW s, NEW b
  PROVE  FailureTarget(failure[s], b) = IF HasChild(StopOf(s, b), b) THEN <<Target(s, b)>> ELSE << >>
BY DEF FailureTarget, StopOf, WalkFrom, Goals, Target

\* So it finds the longest suffix of the child that is a state.
LEMMA TargetFails ==
  ASSUME Trie, NEW s \in State, s # Root, LinkedTo(s), NEW b \in Byte, Append(s, b) \in State
  PROVE  /\ Fails(Target(s, b), Append(s, b))
         /\ HasChild(StopOf(s, b), b) <=> Target(s, b) # Root
<1> DEFINE u == Append(s, b)
           f == StopOf(s, b)
           t == Target(s, b)
<1>1. /\ State \subseteq Seq(Byte) /\ s \in Seq(Byte) /\ Root \in State /\ Root \in Seq(Byte)
      /\ \A v \in State : HasChild(v, b) <=> Append(v, b) \in State
  BY DEF Trie
<1>2. u \in State /\ u \in Seq(Byte) /\ u # Root /\ Len(u) = Len(s) + 1 /\ Len(s) \in Nat
  <2>1. u \in Seq(Byte) /\ Len(u) = Len(s) + 1 /\ Len(s) \in Nat
    BY <1>1, Appended, LenProperties
  <2>2. Len(Root) = 0
    BY DEF Root
  <2> QED
    BY <2>1, <2>2
<1>3. t = IF HasChild(f, b) THEN Append(f, b) ELSE Root
  BY DEF Target
<1>4. Passes(s, b, f) /\ f \in Goals(b)
  BY StopPasses
<1>5. f \in State /\ f \in Seq(Byte) /\ f # s /\ IsSuffix(f, s)
  BY <1>1, <1>4 DEF Passes
<1>6. \A v \in State : v # u /\ v # Root /\ IsSuffix(v, u)
        => /\ Front(v) \in State /\ Front(v) \in Seq(Byte) /\ HasChild(Front(v), b)
           /\ IsSuffix(Front(v), f) /\ v = Append(Front(v), b)
  <2> SUFFICES ASSUME NEW v \in State, v # u, v # Root, IsSuffix(v, u)
               PROVE  /\ Front(v) \in State /\ Front(v) \in Seq(Byte) /\ HasChild(Front(v), b)
                      /\ IsSuffix(Front(v), f) /\ v = Append(Front(v), b)
    OBVIOUS
  <2> DEFINE g == Front(v)
             c == v[Len(v)]
  <2>1. v \in Seq(Byte) /\ g \in Seq(Byte) /\ Len(g) = Len(v) - 1 /\ c \in Byte /\ v = Append(g, c)
    BY <1>1, Fronts
  <2>2. g \in State
    <3>1. Len(v) \in Nat /\ Len(g) \in Nat
      BY <2>1, LenProperties
    <3>2. IsPrefix(g, v)
      <4>1. IsPrefix(g, Append(g, c))
        BY <2>1, PrefixOrder, PrefixOfAppended
      <4> QED
        BY <2>1, <4>1
    <3>3. Len(g) \in 0..Len(v) /\ g = SubSeq(v, 1, Len(g))
      BY <2>1, <3>2, PrefixBegins
    <3>4. SubSeq(v, 1, Len(g)) \in State
      BY <3>3 DEF Trie
    <3> QED
      BY <3>3, <3>4
  <2> HIDE DEF g, c
  <2>3. c = b /\ IsSuffix(g, s)
    BY <1>1, <2>1, SuffixOfAppended
  <2>4. HasChild(g, b)
    BY <1>1, <2>1, <2>2, <2>3
  <2>5. g # s
    BY <2>1, <2>3
  <2>6. IsSuffix(g, f)
    BY <1>4, <2>2, <2>3, <2>4, <2>5 DEF Passes
  <2> QED
    BY <2>1, <2>2, <2>3, <2>4, <2>6 DEF g
<1> HIDE DEF u, f, t
<1>7. CASE HasChild(f, b)
  <2>1. t = Append(f, b) /\ t \in State /\ t \in Seq(Byte) /\ t # Root
    <3>1. t = Append(f, b) /\ t \in State
      BY <1>1, <1>3, <1>5, <1>7
    <3>2. Len(t) = Len(f) + 1 /\ Len(f) \in Nat
      BY <1>5, <3>1, Appended, LenProperties
    <3>3. Len(Root) = 0
      BY DEF Root
    <3>4. Len(t) # 0
      BY <3>2
    <3>5. t # Root
      BY <3>3, <3>4
    <3>6. t \in Seq(Byte)
      BY <1>1, <3>1
    <3> QED
      BY <3>1, <3>5, <3>6
  <2>2. t # u
    BY <1>1, <1>5, <2>1, AppendedOnce DEF u
  <2>3. IsSuffix(t, u)
    BY <1>1, <1>5, <2>1, SuffixOfAppended DEF u
  <2>4. ASSUME NEW v \in State, v # u, IsSuffix(v, u)
        PROVE  IsSuffix(v, t)
    <3>1. CASE v = Root
      BY <2>1, <3>1, SuffixOrder
    <3>2. CASE v # Root
      <4>1. Front(v) \in Seq(Byte) /\ IsSuffix(Front(v), f) /\ v = Append(Front(v), b)
        BY <1>6, <2>4, <3>2
      <4>2. IsSuffix(Append(Front(v), b), Append(f, b))
        BY <1>5, <4>1, SuffixOfAppended
      <4> QED
        BY <2>1, <4>1, <4>2
    <3> QED
      BY <3>1, <3>2
  <2> QED
    BY <1>7, <2>1, <2>2, <2>3, <2>4 DEF Fails, u, f, t
<1>8. CASE ~HasChild(f, b)
  <2>1. t = Root /\ f = Root
    BY <1>3, <1>4, <1>8 DEF Goals
  <2>2. IsSuffix(Root, u) /\ IsSuffix(Root, Root)
    BY <1>1, <1>2, SuffixOrder
  <2>3. ASSUME NEW v \in State, v # u, v # Root, IsSuffix(v, u)
        PROVE  FALSE
    <3>1. Front(v) \in Seq(Byte) /\ IsSuffix(Front(v), Root) /\ HasChild(Front(v), b)
      BY <1>6, <2>1, <2>3
    <3>2. Len(Front(v)) <= Len(Root) /\ Len(Root) = 0 /\ Len(Front(v)) \in Nat
      <4>1. Len(Root) = 0
        BY DEF Root
      <4> QED
        BY <1>1, <3>1, <4>1, SuffixOrder, LenProperties
    <3>3. Front(v) = Root
      BY <3>1, <3>2, EmptySeq DEF Root
    <3> QED
      BY <1>8, <2>1, <3>1, <3>3
  <2> QED
    BY <1>1, <1>2, <1>8, <2>1, <2>2, <2>3 DEF Fails, u, f, t
<1> QED
  BY <1>7, <1>8

-----------------------------------------------------------------------------
(* The children of a state are linked in turn.                             *)

InTurn(s, base, m, g) ==
  g = [i \in 0..m |-> IF i = 0 THEN base ELSE LinkChild(s, g[i - 1], children[s][i])]

\* LinkChildren takes the children one by one.
LEMMA ChildrenInTurn ==
  ASSUME NEW s, NEW base, NEW n \in Nat
  PROVE  \E g : /\ g[0] = base /\ \A i \in 1..n : g[i] = LinkChild(s, g[i - 1], children[s][i])
                /\ LinkChildren(s, base, n) = g[n]
<1> DEFINE D == {m \in 0..n : \E g : InTurn(s, base, m, g)}
<1>1. 0 \in D
  <2> DEFINE g == [i \in 0..0 |-> base]
  <2>1. g = [i \in 0..0 |-> IF i = 0 THEN base ELSE LinkChild(s, g[i - 1], children[s][i])]
    OBVIOUS
  <2> HIDE DEF g
  <2> QED
    BY <2>1 DEF InTurn
<1>2. ASSUME NEW m \in 0..(n - 1), m \in D
      PROVE  m + 1 \in D
  <2>1. PICK g : InTurn(s, base, m, g)
    BY <1>2
  <2>2. g = [i \in 0..m |-> IF i = 0 THEN base ELSE LinkChild(s, g[i - 1], children[s][i])]
    BY <2>1 DEF InTurn
  <2> DEFINE h == [i \in 0..(m + 1) |-> IF i <= m THEN g[i] ELSE LinkChild(s, g[m], children[s][m + 1])]
             next(i) == LinkChild(s, h[i - 1], children[s][i])
  <2>3. \A i \in 0..m : h[i] = g[i]
    OBVIOUS
  <2>4. \A i \in 0..(m + 1) : h[i] = IF i = 0 THEN base ELSE LinkChild(s, h[i - 1], children[s][i])
    <3> TAKE i \in 0..(m + 1)
    <3>1. CASE i = 0
      BY <2>2, <2>3, <3>1
    <3>2. CASE i # 0 /\ i <= m
      <4>1. i \in 0..m /\ i - 1 \in 0..m
        BY <3>2
      <4>2. h[i] = g[i] /\ h[i - 1] = g[i - 1]
        BY <2>3, <4>1
      <4>3. g[i] = LinkChild(s, g[i - 1], children[s][i])
        BY <2>2, <3>2, <4>1
      <4> HIDE DEF h
      <4> QED
        BY <3>2, <4>2, <4>3
    <3>3. CASE i = m + 1
      <4>1. h[i] = LinkChild(s, g[m], children[s][i])
        BY <3>3
      <4>2. h[m] = g[m] /\ i - 1 = m /\ i # 0
        BY <2>3, <3>3
      <4> HIDE DEF h
      <4> QED
        BY <4>1, <4>2
    <3> QED
      BY <3>1, <3>2, <3>3
  <2>5. h = [i \in 0..(m + 1) |-> h[i]]
    OBVIOUS
  <2> HIDE DEF h
  <2>6. InTurn(s, base, m + 1, h)
    BY <2>4, <2>5 DEF InTurn
  <2>7. m + 1 \in 0..n
    OBVIOUS
  <2> QED
    BY <2>6, <2>7
<1>3. n \in D
  <2> HIDE DEF D
  <2>1. \A m \in 0..n : m \in D
    BY <1>1, <1>2, InductionTo
  <2> QED
    BY <2>1
<1> DEFINE after == CHOOSE g : InTurn(s, base, n, g)
<1>4. InTurn(s, base, n, after)
  BY <1>3
<1>5. LinkChildren(s, base, n) = after[n]
  BY DEF LinkChildren, InTurn
<1> HIDE DEF after
<1>6. after = [i \in 0..n |-> IF i = 0 THEN base ELSE LinkChild(s, after[i - 1], children[s][i])]
  BY <1>4 DEF InTurn
<1>7. after[0] = base /\ \A i \in 1..n : after[i] = LinkChild(s, after[i - 1], children[s][i])
  BY <1>6
<1> QED
  BY <1>5, <1>7

Unlinking(c, h, f) == [cells |-> c, heads |-> h, failure |-> f]

\* The ways a child is linked.
Failing(acc, u, t)         == [acc EXCEPT !.failure[u] = t]
Heading(acc, u, t, x)      == [acc EXCEPT !.failure[u] = t, !.heads[u] = x]
Appending(acc, u, t, d, x) == [acc EXCEPT !.failure[u] = t, !.cells[d].next = x]
Setting(f, u, x)           == [f EXCEPT ![u] = x]

\* Assignments to two fields of the automaton are one to each.
LEMMA Updates ==
  ASSUME NEW c, NEW h, NEW f, NEW acc, acc = [cells |-> c, heads |-> h, failure |-> f],
         NEW u, NEW x, NEW y, NEW d
  PROVE  /\ Failing(acc, u, x) = Unlinking(c, h, Setting(f, u, x))
         /\ Heading(acc, u, x, y) = Unlinking(c, Setting(h, u, y), Setting(f, u, x))
         /\ Appending(acc, u, x, d, y) = Unlinking(Relink(c, d, y), h, Setting(f, u, x))
<1> DEFINE e == [acc EXCEPT !.failure[u] = x]
<1>1. e = [cells |-> c, heads |-> h, failure |-> [f EXCEPT ![u] = x]]
  OBVIOUS
<1>2. [acc EXCEPT !.failure[u] = x, !.heads[u] = y] = [e EXCEPT !.heads[u] = y]
  OBVIOUS
<1>3. [acc EXCEPT !.failure[u] = x, !.cells[d].next = y] = [e EXCEPT !.cells[d].next = y]
  OBVIOUS
<1>4. [e EXCEPT !.heads[u] = y] = Unlinking(c, [h EXCEPT ![u] = y], [f EXCEPT ![u] = x])
  <2> HIDE DEF e
  <2> QED
    BY <1>1 DEF Unlinking
<1>5. [e EXCEPT !.cells[d].next = y] = Unlinking([c EXCEPT ![d].next = y], h, [f EXCEPT ![u] = x])
  <2> HIDE DEF e
  <2> QED
    BY <1>1 DEF Unlinking
<1>6. [acc EXCEPT !.failure[u] = x] = Unlinking(c, h, [f EXCEPT ![u] = x])
  BY <1>1 DEF Unlinking
<1> HIDE DEF e
<1> QED
  BY <1>2, <1>3, <1>4, <1>5, <1>6 DEF Failing, Heading, Appending, Setting, Relink

\* LinkChild, as those assignments.
LEMMA ChildIs ==
  ASSUME NEW s, NEW b, NEW c, NEW h, NEW f,
         HasChild(StopOf(s, b), b) <=> Target(s, b) # Root
  PROVE  LinkChild(s, Unlinking(c, h, f), b) =
           Unlinking(JoinedCells(c, h, Append(s, b), Target(s, b)),
                     JoinedHeads(c, h, Append(s, b), Target(s, b)),
                     [f EXCEPT ![Append(s, b)] = Target(s, b)])
<1> DEFINE u      == Append(s, b)
           t      == Target(s, b)
           acc    == Unlinking(c, h, f)
           target == FailureTarget(failure[s], b)
<1>1. target = IF t = Root THEN << >> ELSE <<t>>
  BY TargetIs
<1>2. acc.cells = c /\ acc.heads = h /\ acc.failure = f
  BY DEF Unlinking
<1>3. acc = [cells |-> c, heads |-> h, failure |-> f]
  BY DEF Unlinking
<1> DEFINE joined == LinkChild(s, acc, b)
<1>6. joined = IF target = << >> THEN Failing(acc, u, Root)
               ELSE IF acc.heads[u] = 0
                    THEN Heading(acc, u, target[1], acc.heads[target[1]])
                    ELSE Appending(acc, u, target[1], LastCell(acc.cells, acc.heads[u]), acc.heads[target[1]])
  BY DEF LinkChild, Failing, Heading, Appending
<1> HIDE DEF joined, acc, target, u, t
<1>7. CASE t = Root
  <2>1. target = << >>
    BY <1>1, <1>7
  <2>2. joined = Unlinking(c, h, Setting(f, u, t))
    BY <1>3, <1>6, <1>7, <2>1, Updates
  <2> QED
    BY <1>7, <2>2 DEF JoinedCells, JoinedHeads, Setting, joined, acc, u, t
<1>8. CASE t # Root
  <2>1. target # << >> /\ target[1] = t
    BY <1>1, <1>8
  <2>2. CASE h[u] = 0
    <3>1. joined = Heading(acc, u, t, h[t])
      BY <1>2, <1>6, <2>1, <2>2
    <3>2. joined = Unlinking(c, Setting(h, u, h[t]), Setting(f, u, t))
      BY <1>3, <3>1, Updates
    <3> QED
      BY <1>8, <2>2, <3>2 DEF JoinedCells, JoinedHeads, Setting, joined, acc, u, t
  <2>3. CASE h[u] # 0
    <3> DEFINE d == LastCell(c, h[u])
    <3> HIDE DEF d
    <3>1. joined = Appending(acc, u, t, d, h[t])
      BY <1>2, <1>6, <2>1, <2>3 DEF d
    <3>2. joined = Unlinking(Relink(c, d, h[t]), h, Setting(f, u, t))
      BY <1>3, <3>1, Updates
    <3> QED
      BY <1>8, <2>3, <3>2 DEF JoinedCells, JoinedHeads, Setting, joined, acc, u, t, d
  <2> QED
    BY <2>2, <2>3
<1> QED
  BY <1>7, <1>8

ChildrenTo(s, n) == {Append(s, children[s][j]) : j \in 1..n}

\* The first n children of s are linked.
LinkedSome(s, acc, U, P, n) ==
  /\ acc = Unlinking(acc.cells, acc.heads, acc.failure)
  /\ Linking(acc.cells, acc.heads, U \ ChildrenTo(s, n), P)
  /\ acc.failure = [v \in State |-> acc.failure[v]]
  /\ \A v \in State : IF v \in ChildrenTo(s, n) THEN Fails(acc.failure[v], v) ELSE acc.failure[v] = failure[v]

LEMMA ChildrenAre ==
  ASSUME Trie, NEW s \in State
  PROVE  /\ Len(children[s]) \in Nat
         /\ \A i \in 1..Len(children[s]) : children[s][i] \in Byte /\ Append(s, children[s][i]) \in State
         /\ \A i, j \in 1..Len(children[s]) : Append(s, children[s][i]) = Append(s, children[s][j]) => i = j
         /\ \A v \in State, b \in Byte : v = Append(s, b) => v \in ChildrenTo(s, Len(children[s]))
<1> DEFINE k == children[s]
           n == Len(k)
<1>1. s \in Seq(Byte) /\ k \in Seq(Byte) /\ IsInjective(k)
      /\ \A b \in Byte : HasChild(s, b) <=> Append(s, b) \in State
  BY DEF Trie
<1> HIDE DEF k
<1>2. n \in Nat /\ DOMAIN k = 1..n /\ \A i \in 1..n : k[i] \in Byte
  BY <1>1, LenProperties
<1> HIDE DEF n
<1>3. \A b \in Byte : HasChild(s, b) <=> \E i \in 1..n : k[i] = b
  BY DEF HasChild, k, n
<1>4. \A i \in 1..n : Append(s, k[i]) \in State
  BY <1>1, <1>2, <1>3
<1>5. ASSUME NEW i \in 1..n, NEW j \in 1..n, Append(s, k[i]) = Append(s, k[j])
      PROVE  i = j
  <2>1. k[i] = k[j]
    BY <1>1, <1>2, <1>5, AppendedOnce
  <2> QED
    BY <1>1, <1>2, <2>1 DEF IsInjective
<1>6. ASSUME NEW v \in State, NEW b \in Byte, v = Append(s, b)
      PROVE  v \in ChildrenTo(s, n)
  BY <1>1, <1>3, <1>6 DEF ChildrenTo, k
<1> QED
  BY <1>2, <1>4, <1>5, <1>6 DEF k, n

\* One more child is linked,
LEMMA LinkNext ==
  ASSUME Trie, NEW s \in State, s # Root, LinkedTo(s),
         NEW U, NEW P, \A v \in State : Len(v) <= Len(s) => v \notin U,
         \A j \in 1..Len(children[s]) : Append(s, children[s][j]) \in U /\ Append(s, children[s][j]) \notin P,
         NEW n \in 1..Len(children[s]), NEW acc, LinkedSome(s, acc, U, P, n - 1)
  PROVE  LinkedSome(s, LinkChild(s, acc, children[s][n]), U, P, n)
<1> DEFINE b  == children[s][n]
           u  == Append(s, b)
           t  == Target(s, b)
           V  == U \ ChildrenTo(s, n - 1)
           cs == acc.cells
           hs == acc.heads
           fs == acc.failure
           ds == JoinedCells(cs, hs, u, t)
           gs == JoinedHeads(cs, hs, u, t)
           es == [fs EXCEPT ![u] = t]
<1>1. /\ b \in Byte /\ u \in State /\ u \in U /\ u \notin P
      /\ s \in Seq(Byte) /\ State \subseteq Seq(Byte)
      /\ Len(children[s]) \in Nat
      /\ \A j \in 1..Len(children[s]) : Append(s, children[s][j]) = u => j = n
  BY ChildrenAre DEF Trie
<1> HIDE DEF b
<1>2. u \notin ChildrenTo(s, n - 1) /\ ChildrenTo(s, n) = ChildrenTo(s, n - 1) \cup {u}
  <2>1. 1..n = (1..(n - 1)) \cup {n} /\ \A j \in 1..(n - 1) : j \in 1..Len(children[s]) /\ j # n
    BY <1>1
  <2> QED
    BY <1>1, <2>1 DEF ChildrenTo, b
<1>3. Len(u) = Len(s) + 1 /\ Len(s) \in Nat /\ u # Root /\ u \in Seq(Byte)
  <2>1. Len(u) = Len(s) + 1 /\ Len(s) \in Nat
    BY <1>1, Appended, LenProperties
  <2>2. Len(Root) = 0
    BY DEF Root
  <2> QED
    BY <1>1, <2>1, <2>2
<1>4. Fails(t, u) /\ (HasChild(StopOf(s, b), b) <=> t # Root)
  BY <1>1, TargetFails
<1> HIDE DEF u, t
<1>5. t \in State /\ t \notin V
  <2>1. t \in State /\ t \in Seq(Byte) /\ t # u /\ IsSuffix(t, u)
    BY <1>1, <1>4 DEF Fails
  <2>2. Len(t) <= Len(u) /\ Len(t) # Len(u) /\ Len(t) \in Nat
    BY <1>1, <1>3, <2>1, SuffixOrder, LenProperties
  <2>3. Len(t) <= Len(s)
    BY <1>3, <2>2
  <2> QED
    BY <2>1, <2>3
<1>6. /\ acc = Unlinking(cs, hs, fs) /\ Linking(cs, hs, V, P)
      /\ fs = [v \in State |-> fs[v]]
      /\ \A v \in State : IF v \in ChildrenTo(s, n - 1) THEN Fails(fs[v], v) ELSE fs[v] = failure[v]
  BY DEF LinkedSome
<1>7. u \in V
  BY <1>1, <1>2
<1> HIDE DEF V, cs, hs, fs
<1>8. Linking(ds, gs, V \ {u}, P)
  BY <1>1, <1>3, <1>4, <1>5, <1>6, <1>7, ChildLinking
<1> HIDE DEF ds, gs
<1>9. V \ {u} = U \ ChildrenTo(s, n)
  BY <1>2 DEF V
<1>10. LinkChild(s, acc, b) = Unlinking(ds, gs, es)
  <2>1. LinkChild(s, Unlinking(cs, hs, fs), b) = Unlinking(ds, gs, es)
    BY <1>4, ChildIs DEF ds, gs, u, t
  <2> QED
    BY <1>6, <2>1
<1>11. es = [v \in State |-> IF v = u THEN t ELSE fs[v]]
  BY <1>6
<1> HIDE DEF es
<1>12. es = [v \in State |-> es[v]] /\ es[u] = t /\ \A v \in State : v # u => es[v] = fs[v]
  BY <1>1, <1>11
<1>13. \A v \in State : IF v \in ChildrenTo(s, n) THEN Fails(es[v], v) ELSE es[v] = failure[v]
  BY <1>2, <1>4, <1>6, <1>12
<1> DEFINE new == Unlinking(ds, gs, es)
<1>14. new.cells = ds /\ new.heads = gs /\ new.failure = es
  BY DEF Unlinking
<1>15. new = Unlinking(new.cells, new.heads, new.failure)
  BY <1>14
<1> HIDE DEF new
<1>16. LinkedSome(s, new, U, P, n)
  BY <1>8, <1>9, <1>12, <1>13, <1>14, <1>15 DEF LinkedSome
<1> QED
  BY <1>10, <1>16 DEF new, b

\* and so are all.
LEMMA LinkAll ==
  ASSUME Trie, NEW s \in State, s # Root, LinkedTo(s),
         NEW U, NEW P, \A v \in State : Len(v) <= Len(s) => v \notin U,
         \A j \in 1..Len(children[s]) : Append(s, children[s][j]) \in U /\ Append(s, children[s][j]) \notin P,
         NEW acc, LinkedSome(s, acc, U, P, 0)
  PROVE  LinkedSome(s, LinkChildren(s, acc, Len(children[s])), U, P, Len(children[s]))
<1> DEFINE n == Len(children[s])
<1>1. n \in Nat
  BY ChildrenAre
<1> HIDE DEF n
<1>2. PICK g : /\ g[0] = acc /\ \A i \in 1..n : g[i] = LinkChild(s, g[i - 1], children[s][i])
               /\ LinkChildren(s, acc, n) = g[n]
  BY <1>1, ChildrenInTurn
<1> DEFINE D == {i \in 0..n : LinkedSome(s, g[i], U, P, i)}
<1>3. 0 \in D
  BY <1>1, <1>2
<1>4. ASSUME NEW i \in 0..(n - 1), i \in D
      PROVE  i + 1 \in D
  <2> DEFINE j == i + 1
  <2>1. j \in 1..n /\ j \in 0..n /\ j - 1 = i
    BY <1>1
  <2>2. LinkedSome(s, g[j - 1], U, P, j - 1) /\ g[j] = LinkChild(s, g[j - 1], children[s][j])
    BY <1>2, <1>4, <2>1
  <2> HIDE DEF j
  <2>3. LinkedSome(s, g[j], U, P, j)
    BY <2>1, <2>2, LinkNext DEF n
  <2> QED
    BY <2>1, <2>3 DEF j
<1> HIDE DEF D
<1>5. \A i \in 0..n : i \in D
  BY <1>1, <1>3, <1>4, InductionTo
<1>6. n \in D
  BY <1>1, <1>5
<1> QED
  BY <1>2, <1>6 DEF n, D

-----------------------------------------------------------------------------
(* The queue.                                                              *)

Hanging(q) == {u \in State : \E i \in 1..Len(q) : IsPrefix(q[i], u) /\ u # q[i]}
Outside(q) == {u \in State : \A i \in 1..Len(q) : ~IsPrefix(q[i], u)}

InOrder(q) ==
  /\ q \in Seq(State \ {Root})
  /\ \A i, j \in 1..Len(q) :
       i < j => /\ Len(q[i]) <= Len(q[j]) /\ Len(q[j]) <= Len(q[1]) + 1
                /\ ~IsPrefix(q[i], q[j]) /\ ~IsPrefix(q[j], q[i])

IsPopped(S, q, k, r) ==
  /\ r \in Seq(S) /\ Len(r) = (Len(q) - 1) + Len(k)
  /\ Len(q) \in Nat /\ Len(k) \in Nat /\ Len(q) >= 1 /\ Head(q) = q[1]
  /\ \A i \in 1..(Len(q) - 1) : r[i] = q[i + 1]
  /\ \A i \in 1..Len(k) : r[(Len(q) - 1) + i] = k[i]

\* The places of a queue whose first state was taken and whose end got more.
LEMMA Popped ==
  ASSUME NEW S, NEW q \in Seq(S), q # << >>, NEW k \in Seq(S)
  PROVE  IsPopped(S, q, k, Tail(q) \o k)
<1> DEFINE r == Tail(q) \o k
<1>1. Len(q) \in Nat /\ Len(k) \in Nat /\ Len(q) >= 1
  BY EmptySeq, LenProperties
<1>2. Tail(q) \in Seq(S) /\ Len(Tail(q)) = Len(q) - 1 /\ Head(q) = q[1]
      /\ \A i \in 1..(Len(q) - 1) : Tail(q)[i] = q[i + 1]
  BY <1>1
<1> DEFINE t == Tail(q)
<1> HIDE DEF t
<1>3. t \in Seq(S) /\ Len(t) = Len(q) - 1 /\ \A i \in 1..(Len(q) - 1) : t[i] = q[i + 1]
  BY <1>2 DEF t
<1>4. r = t \o k
  BY DEF t
<1> HIDE DEF r
<1>5. r \in Seq(S) /\ Len(r) = Len(t) + Len(k)
  BY <1>3, <1>4, ConcatProperties
<1>6. \A i \in 1..Len(t) : r[i] = t[i]
  BY <1>1, <1>3, <1>4
<1>7. \A i \in 1..Len(k) : r[Len(t) + i] = k[i]
  BY <1>1, <1>3, <1>4
<1> QED
  BY <1>1, <1>2, <1>3, <1>5, <1>6, <1>7 DEF IsPopped, r

LEMMA ChildSequence ==
  ASSUME Trie, NEW s \in State
  PROVE  /\ Children(s) \in Seq(State \ {Root}) /\ Len(Children(s)) = Len(children[s])
         /\ \A i \in 1..Len(children[s]) : Children(s)[i] = Append(s, children[s][i])
<1> DEFINE k == Children(s)
           n == Len(children[s])
           e(i) == Append(s, children[s][i])
<1>1. n \in Nat /\ \A i \in 1..n : children[s][i] \in Byte /\ e(i) \in State
  BY ChildrenAre
<1>2. s \in Seq(Byte)
  BY DEF Trie
<1> HIDE DEF n
<1>3. \A i \in 1..n : e(i) # Root
  <2> TAKE i \in 1..n
  <2>1. Len(e(i)) = Len(s) + 1 /\ Len(s) \in Nat
    BY <1>1, <1>2, Appended, LenProperties
  <2>2. Len(Root) = 0
    BY DEF Root
  <2> QED
    BY <2>1, <2>2
<1>4. k = [i \in 1..n |-> e(i)]
  BY DEF Children, n
<1>5. \A i \in 1..n : e(i) \in State \ {Root}
  BY <1>1, <1>3
<1> HIDE DEF k, e
<1>6. k \in [1..n -> State \ {Root}]
  BY <1>4, <1>5
<1>7. k \in Seq(State \ {Root}) /\ Len(k) = n
  BY <1>1, <1>6
<1> QED
  BY <1>4, <1>7 DEF k, n, e

LEMMA InQueue ==
  ASSUME Trie, NEW q, InOrder(q)
  PROVE  /\ Len(q) \in Nat
         /\ \A i \in 1..Len(q) : q[i] \in State /\ q[i] # Root /\ q[i] \in Seq(Byte) /\ Len(q[i]) \in Nat
<1>1. Len(q) \in Nat /\ \A i \in 1..Len(q) : q[i] \in State \ {Root}
  BY DEF InOrder
<1> QED
  BY <1>1, LenProperties DEF Trie

\* The first state of the queue is a shortest one; its children are unlinked.
LEMMA FirstOfQueue ==
  ASSUME Trie, NEW q, InOrder(q), q # << >>, NEW s, s = Head(q)
  PROVE  /\ s \in State /\ s # Root /\ s = q[1] /\ Len(q) >= 1
         /\ \A v \in State : Len(v) <= Len(s) => v \notin Hanging(q)
         /\ \A j \in 1..Len(children[s]) :
              Append(s, children[s][j]) \in Hanging(q) /\ Append(s, children[s][j]) \notin Outside(q)
<1>1. /\ State \subseteq Seq(Byte) /\ Len(q) \in Nat
      /\ \A i \in 1..Len(q) : q[i] \in State /\ q[i] # Root /\ q[i] \in Seq(Byte) /\ Len(q[i]) \in Nat
  BY InQueue DEF Trie
<1>2. Len(q) >= 1 /\ s = q[1] /\ 1 \in 1..Len(q)
  <2>1. q \in Seq(State \ {Root})
    BY DEF InOrder
  <2>2. Len(q) >= 1 /\ s = q[1]
    BY <2>1, EmptySeq
  <2> QED
    BY <1>1, <2>2
<1>3. s \in State /\ s # Root /\ s \in Seq(Byte) /\ Len(s) \in Nat
  BY <1>1, <1>2
<1>4. ASSUME NEW v \in State, Len(v) <= Len(s), NEW i \in 1..Len(q), IsPrefix(q[i], v), v # q[i]
      PROVE  FALSE
  <2>1. Len(s) <= Len(q[i])
    <3>1. CASE i = 1
      BY <1>2, <1>3, <3>1
    <3>2. CASE i # 1
      BY <1>1, <1>2, <3>2 DEF InOrder
    <3> QED
      BY <3>1, <3>2
  <2>2. v \in Seq(Byte) /\ Len(q[i]) <= Len(v) /\ Len(q[i]) # Len(v) /\ Len(v) \in Nat /\ Len(q[i]) \in Nat
    BY <1>1, <1>4, PrefixOrder, LenProperties
  <2> QED
    BY <1>3, <1>4, <2>1, <2>2
<1>5. ASSUME NEW j \in 1..Len(children[s])
      PROVE  Append(s, children[s][j]) \in Hanging(q) /\ Append(s, children[s][j]) \notin Outside(q)
  <2> DEFINE b == children[s][j]
             u == Append(s, b)
  <2>1. b \in Byte /\ u \in State
    BY <1>3, ChildrenAre
  <2> HIDE DEF b
  <2>2. IsPrefix(s, u) /\ u # s
    <3>1. IsPrefix(s, u)
      BY <1>3, <2>1, PrefixOfAppended, PrefixOrder
    <3>2. Len(u) = Len(s) + 1
      BY <1>3, <2>1, Appended
    <3> HIDE DEF u
    <3> QED
      BY <1>3, <3>1, <3>2
  <2> HIDE DEF u
  <2> QED
    BY <1>2, <2>1, <2>2 DEF Hanging, Outside, u, b
<1> QED
  BY <1>2, <1>3, <1>4, <1>5 DEF Hanging

\* What there is after the first state made way for its children.
Entries(q, r, s) ==
  /\ \A i \in 1..Len(r) : \/ i + 1 \in 2..Len(q) /\ r[i] = q[i + 1]
                          \/ \E j \in 1..Len(children[s]) : i = (Len(q) - 1) + j /\ r[i] = Append(s, children[s][j])
  /\ \A i \in 2..Len(q) : i - 1 \in 1..Len(r) /\ r[i - 1] = q[i]
  /\ \A v \in ChildrenTo(s, Len(children[s])) : \E i \in 1..Len(r) : r[i] = v
  /\ r \in Seq(State \ {Root}) /\ Len(r) \in Nat

LEMMA QueuePopped ==
  ASSUME Trie, NEW q, InOrder(q), q # << >>, NEW s, s = Head(q)
  PROVE  Entries(q, Tail(q) \o Children(s), s)
<1> DEFINE r == Tail(q) \o Children(s)
<1>1. s \in State
  BY FirstOfQueue
<1> DEFINE k == Children(s)
           n == Len(children[s])
<1>2. /\ k \in Seq(State \ {Root}) /\ Len(k) = n
      /\ \A i \in 1..n : k[i] = Append(s, children[s][i])
  BY <1>1, ChildSequence
<1>3. q \in Seq(State \ {Root})
  BY DEF InOrder
<1> HIDE DEF k, n
<1>4. /\ r \in Seq(State \ {Root}) /\ Len(r) = (Len(q) - 1) + Len(k)
      /\ Len(q) \in Nat /\ Len(k) \in Nat /\ Len(q) >= 1
      /\ \A i \in 1..(Len(q) - 1) : r[i] = q[i + 1]
      /\ \A i \in 1..Len(k) : r[(Len(q) - 1) + i] = k[i]
  <2>1. r = Tail(q) \o k
    BY DEF k
  <2>2. IsPopped(State \ {Root}, q, k, r)
    BY <1>2, <1>3, <2>1, Popped
  <2> HIDE DEF r
  <2> QED
    BY <2>2 DEF IsPopped
<1> HIDE DEF r
<1>5. ASSUME NEW i \in 1..Len(r)
      PROVE  \/ i + 1 \in 2..Len(q) /\ r[i] = q[i + 1]
             \/ \E j \in 1..n : i = (Len(q) - 1) + j /\ r[i] = Append(s, children[s][j])
  <2>1. CASE i <= Len(q) - 1
    BY <1>4, <2>1
  <2>2. CASE ~(i <= Len(q) - 1)
    <3> DEFINE j == i - (Len(q) - 1)
    <3>1. j \in 1..n /\ i = (Len(q) - 1) + j
      BY <1>2, <1>4, <2>2
    <3> HIDE DEF j
    <3>2. r[i] = Append(s, children[s][j])
      BY <1>2, <1>4, <3>1
    <3> QED
      BY <3>1, <3>2
  <2> QED
    BY <2>1, <2>2
<1>6. ASSUME NEW i \in 2..Len(q)
      PROVE  i - 1 \in 1..Len(r) /\ r[i - 1] = q[i]
  <2>1. i - 1 \in 1..(Len(q) - 1) /\ (i - 1) + 1 = i
    BY <1>4
  <2>2. i - 1 \in 1..Len(r)
    BY <1>4, <2>1
  <2>3. r[i - 1] = q[(i - 1) + 1]
    BY <1>4, <2>1
  <2> QED
    BY <2>1, <2>2, <2>3
<1>7. ASSUME NEW v \in ChildrenTo(s, n)
      PROVE  \E i \in 1..Len(r) : r[i] = v
  <2>1. PICK j \in 1..n : v = Append(s, children[s][j])
    BY DEF ChildrenTo
  <2> DEFINE i == (Len(q) - 1) + j
  <2>2. i \in 1..Len(r) /\ r[i] = k[j]
    BY <1>2, <1>4
  <2> HIDE DEF i
  <2>3. r[i] = v
    BY <1>2, <2>1, <2>2
  <2> QED
    BY <2>2, <2>3
<1>8. Len(r) \in Nat
  BY <1>4
<1> QED
  BY <1>4, <1>5, <1>6, <1>7, <1>8 DEF n, Entries, r

\* In the queue nothing but the first state itself is above or below it.
LEMMA ApartFromFirst ==
  ASSUME Trie, NEW q, InOrder(q), NEW i \in 2..Len(q), NEW s, s = q[1], NEW b \in Byte
  PROVE  /\ ~IsPrefix(q[i], s) /\ ~IsPrefix(s, q[i])
         /\ ~IsPrefix(q[i], Append(s, b)) /\ ~IsPrefix(Append(s, b), q[i])
<1>1. /\ Len(q) \in Nat /\ 1 \in 1..Len(q) /\ i \in 1..Len(q)
      /\ \A j \in 1..Len(q) : q[j] \in State /\ q[j] \in Seq(Byte)
  BY InQueue
<1>2. ~IsPrefix(q[i], s) /\ ~IsPrefix(s, q[i])
  BY <1>1 DEF InOrder
<1>3. s \in Seq(Byte) /\ q[i] \in Seq(Byte)
  BY <1>1
<1> DEFINE u == Append(s, b)
           v == q[i]
<1>4. u \in Seq(Byte) /\ IsPrefix(s, u)
  BY <1>3, Appended, PrefixOrder, PrefixOfAppended
<1>5. ~IsPrefix(u, v)
  <2> HIDE DEF u, v
  <2> SUFFICES ASSUME IsPrefix(u, v) PROVE FALSE
    OBVIOUS
  <2>1. v \in Seq(Byte) /\ ~IsPrefix(s, v)
    BY <1>2, <1>3 DEF v
  <2> QED
    BY <1>3, <1>4, <2>1, PrefixOrder
<1>6. ~IsPrefix(v, u)
  <2> SUFFICES ASSUME IsPrefix(v, u) PROVE FALSE
    OBVIOUS
  <2>1. v = u
    BY <1>2, <1>3, PrefixOfAppended
  <2> QED
    BY <1>2, <1>4, <2>1
<1> QED
  BY <1>2, <1>5, <1>6

\* What is below the queue loses the children taken up.
LEMMA HangingPopped ==
  ASSUME Trie, NEW q, InOrder(q), q # << >>, NEW s, s = Head(q), NEW r, r = Tail(q) \o Children(s)
  PROVE  /\ Hanging(r) = Hanging(q) \ ChildrenTo(s, Len(children[s]))
         /\ Outside(r) = Outside(q) \cup {s}
<1> DEFINE C == ChildrenTo(s, Len(children[s]))
           n == Len(children[s])
<1>1. /\ State \subseteq Seq(Byte) /\ s \in State /\ s \in Seq(Byte) /\ s = q[1] /\ 1 \in 1..Len(q) /\ Len(q) \in Nat
      /\ Len(s) \in Nat
      /\ \A i \in 1..Len(q) : q[i] \in State /\ q[i] \in Seq(Byte)
      /\ \A i \in 2..Len(q) : i \in 1..Len(q)
      /\ \A i \in 1..Len(q) : i = 1 \/ i \in 2..Len(q)
  <2>1. State \subseteq Seq(Byte) /\ s \in State /\ s = q[1] /\ Len(q) >= 1 /\ Len(q) \in Nat
        /\ \A i \in 1..Len(q) : q[i] \in State /\ q[i] \in Seq(Byte)
    BY FirstOfQueue, InQueue DEF Trie
  <2>2. s \in Seq(Byte) /\ Len(s) \in Nat
    BY <2>1, LenProperties
  <2> QED
    BY <2>1, <2>2
<1>2. /\ \A i \in 1..Len(r) : \/ i + 1 \in 2..Len(q) /\ r[i] = q[i + 1]
                              \/ \E j \in 1..Len(children[s]) : i = (Len(q) - 1) + j /\ r[i] = Append(s, children[s][j])
      /\ \A i \in 2..Len(q) : i - 1 \in 1..Len(r) /\ r[i - 1] = q[i]
      /\ \A v \in C : \E i \in 1..Len(r) : r[i] = v
  <2>1. Entries(q, r, s)
    BY QueuePopped
  <2> HIDE DEF C
  <2> QED
    BY <2>1 DEF Entries, C
<1>3. /\ \A i \in 1..n : children[s][i] \in Byte /\ Append(s, children[s][i]) \in State
      /\ \A v \in State, b \in Byte : v = Append(s, b) => v \in C
  BY <1>1, ChildrenAre
<1>4. \A v \in C : \E b \in Byte : v = Append(s, b) /\ v \in State
  BY <1>3 DEF ChildrenTo
<1> HIDE DEF C, n
  \* The children are below s, and what is below s is a child or below one.
<1>5. ASSUME NEW v \in C
      PROVE  v \in Seq(Byte) /\ IsPrefix(s, v) /\ Len(v) = Len(s) + 1
  <2>1. PICK b \in Byte : v = Append(s, b) /\ v \in State
    BY <1>4
  <2> QED
    BY <1>1, <2>1, Appended, PrefixOrder, PrefixOfAppended
<1>6. ASSUME NEW u \in State
      PROVE  IsPrefix(s, u) /\ u # s <=> \E v \in C : IsPrefix(v, u)
  <2>0. u \in Seq(Byte) /\ Len(u) \in Nat
    BY <1>1, LenProperties
  <2>1. ASSUME NEW v \in C, IsPrefix(v, u)
        PROVE  IsPrefix(s, u) /\ u # s
    <3>1. IsPrefix(s, u) /\ Len(v) <= Len(u)
      BY <1>1, <1>5, <2>0, <2>1, PrefixOrder
    <3>2. Len(v) = Len(s) + 1
      BY <1>5
    <3> QED
      BY <1>1, <2>0, <3>1, <3>2
  <2>2. ASSUME IsPrefix(s, u), u # s
        PROVE  \E v \in C : IsPrefix(v, u)
    <3> DEFINE b == u[Len(s) + 1]
               v == Append(s, b)
    <3>1. b \in Byte /\ IsPrefix(v, u) /\ v = SubSeq(u, 1, Len(s) + 1) /\ Len(s) < Len(u)
      BY <1>1, <2>0, <2>2, NextByte
    <3>2. Len(s) + 1 \in 0..Len(u)
      BY <1>1, <2>0, <3>1
    <3>3. v \in State
      BY <3>1, <3>2 DEF Trie
    <3> HIDE DEF b
    <3>4. v \in C
      BY <1>3, <3>1, <3>3
    <3> QED
      BY <3>1, <3>4
  <2> QED
    BY <2>1, <2>2
<1>7. ASSUME NEW i \in 2..Len(q), NEW v \in C
      PROVE  ~IsPrefix(q[i], v) /\ ~IsPrefix(v, q[i])
  <2>1. PICK b \in Byte : v = Append(s, b)
    BY <1>4
  <2> QED
    BY <1>1, <2>1, ApartFromFirst
<1>8. \A i \in 2..Len(q) : ~IsPrefix(q[i], s) /\ ~IsPrefix(s, q[i])
  BY <1>1, <1>4, InQueue DEF InOrder
<1>9. \A v \in C : \A w \in C : IsPrefix(v, w) => v = w
  BY <1>1, <1>5, PrefixOrder
  \* Members of r.
<1>10. \A x : (\E i \in 1..Len(r) : r[i] = x) <=> (\E i \in 2..Len(q) : q[i] = x) \/ x \in C
  <2>1. ASSUME NEW i \in 1..Len(r)
        PROVE  (\E j \in 2..Len(q) : q[j] = r[i]) \/ r[i] \in C
    <3>1. CASE i + 1 \in 2..Len(q) /\ r[i] = q[i + 1]
      BY <3>1
    <3>2. CASE \E j \in 1..Len(children[s]) : i = (Len(q) - 1) + j /\ r[i] = Append(s, children[s][j])
      BY <3>2 DEF ChildrenTo, C
    <3> QED
      BY <1>2, <3>1, <3>2
  <2>2. ASSUME NEW j \in 2..Len(q)
        PROVE  \E i \in 1..Len(r) : r[i] = q[j]
    BY <1>2
  <2>3. \A v \in C : \E i \in 1..Len(r) : r[i] = v
    BY <1>2
  <2> TAKE x
  <2>4. ASSUME NEW i \in 1..Len(r), r[i] = x
        PROVE  (\E j \in 2..Len(q) : q[j] = x) \/ x \in C
    BY <2>1, <2>4
  <2>5. ASSUME NEW j \in 2..Len(q), q[j] = x
        PROVE  \E i \in 1..Len(r) : r[i] = x
    BY <2>2, <2>5
  <2> QED
    BY <2>3, <2>4, <2>5
<1>11. ASSUME NEW u \in State
       PROVE  u \in Hanging(r) <=> u \in Hanging(q) /\ u \notin C
  <2>1. u \in Hanging(r) <=> \/ \E i \in 2..Len(q) : IsPrefix(q[i], u) /\ u # q[i]
                             \/ \E v \in C : IsPrefix(v, u) /\ u # v
    <3>1. u \in Hanging(r) <=> \E x : (\E i \in 1..Len(r) : r[i] = x) /\ IsPrefix(x, u) /\ u # x
      BY DEF Hanging
    <3>2. u \in Hanging(r) <=> \E x : ((\E i \in 2..Len(q) : q[i] = x) \/ x \in C) /\ IsPrefix(x, u) /\ u # x
      BY <1>10, <3>1
    <3> QED
      BY <3>2
  <2>2. u \in Hanging(q) <=> \/ \E i \in 2..Len(q) : IsPrefix(q[i], u) /\ u # q[i]
                             \/ IsPrefix(s, u) /\ u # s
    BY <1>1 DEF Hanging
  <2>3. (\E v \in C : IsPrefix(v, u) /\ u # v) <=> (\E v \in C : IsPrefix(v, u)) /\ u \notin C
    <3>1. ASSUME NEW v \in C, IsPrefix(v, u), u \in C
          PROVE  u = v
      BY <1>9, <3>1
    <3> QED
      BY <3>1
  <2>4. (\E i \in 2..Len(q) : IsPrefix(q[i], u)) => u \notin C
    BY <1>7
  <2>5. u \in C => IsPrefix(s, u) /\ u # s
    BY <1>5, <1>1
  <2> QED
    BY <1>6, <2>1, <2>2, <2>3, <2>4, <2>5
<1>12. ASSUME NEW u \in State
       PROVE  u \in Outside(r) <=> u \in Outside(q) \/ u = s
  <2>1. u \in Outside(r) <=> /\ \A i \in 2..Len(q) : ~IsPrefix(q[i], u)
                             /\ \A v \in C : ~IsPrefix(v, u)
    BY <1>10 DEF Outside
  <2>2. u \in Outside(q) <=> /\ \A i \in 2..Len(q) : ~IsPrefix(q[i], u)
                             /\ ~IsPrefix(s, u)
    BY <1>1 DEF Outside
  <2>3. IsPrefix(s, s)
    BY <1>1, PrefixOrder
  <2> QED
    BY <1>6, <1>8, <2>1, <2>2, <2>3
<1>13. Hanging(r) \subseteq State /\ Hanging(q) \subseteq State /\ Outside(r) \subseteq State /\ Outside(q) \subseteq State
  BY DEF Hanging, Outside
<1> QED
  BY <1>1, <1>11, <1>12, <1>13 DEF C

\* The queue stays breadth first.
LEMMA InOrderPopped ==
  ASSUME Trie, NEW q, InOrder(q), q # << >>, NEW s, s = Head(q), NEW r, r = Tail(q) \o Children(s)
  PROVE  InOrder(r)
<1> DEFINE n == Len(children[s])
           c(j) == Append(s, children[s][j])
<1>1. s \in State /\ s \in Seq(Byte) /\ s = q[1] /\ Len(q) >= 1 /\ Len(q) \in Nat /\ Len(s) \in Nat
  BY FirstOfQueue, InQueue DEF Trie
<1>2. \A j \in 1..n : children[s][j] \in Byte /\ c(j) \in Seq(Byte) /\ Len(c(j)) = Len(s) + 1
  BY <1>1, ChildrenAre, Appended
<1>3. n \in Nat /\ \A i, j \in 1..n : c(i) = c(j) => i = j
  BY <1>1, ChildrenAre
<1>4. Entries(q, r, s)
  BY QueuePopped
<1>5. /\ \A i \in 1..Len(r) : \/ i + 1 \in 2..Len(q) /\ r[i] = q[i + 1]
                              \/ \E j \in 1..n : i = (Len(q) - 1) + j /\ r[i] = c(j)
      /\ r \in Seq(State \ {Root}) /\ Len(r) \in Nat
  BY <1>4 DEF Entries
<1> HIDE DEF n, c
<1>6. \A i \in 2..Len(q) : Len(q[i]) \in Nat /\ Len(s) <= Len(q[i]) /\ Len(q[i]) <= Len(s) + 1
  <2> TAKE i \in 2..Len(q)
  <2>1. i \in 1..Len(q) /\ 1 \in 1..Len(q) /\ 1 < i
    BY <1>1
  <2> QED
    BY <1>1, <2>1, InQueue DEF InOrder
<1>7. \A i \in 1..Len(r) : Len(r[i]) \in Nat /\ Len(s) <= Len(r[i]) /\ Len(r[i]) <= Len(s) + 1
  <2> TAKE i \in 1..Len(r)
  <2>1. CASE i + 1 \in 2..Len(q) /\ r[i] = q[i + 1]
    BY <1>6, <2>1
  <2>2. CASE \E j \in 1..n : i = (Len(q) - 1) + j /\ r[i] = c(j)
    <3>1. PICK j \in 1..n : r[i] = c(j)
      BY <2>2
    <3>2. Len(r[i]) = Len(s) + 1
      BY <1>2, <3>1
    <3> QED
      BY <1>1, <3>2
  <2> QED
    BY <1>5, <2>1, <2>2
<1>8. ASSUME NEW i \in 1..Len(r), NEW j \in 1..Len(r), i < j
      PROVE  Len(r[i]) <= Len(r[j]) /\ ~IsPrefix(r[i], r[j]) /\ ~IsPrefix(r[j], r[i])
  <2>1. CASE i + 1 \in 2..Len(q) /\ r[i] = q[i + 1] /\ j + 1 \in 2..Len(q) /\ r[j] = q[j + 1]
    <3> DEFINE k == i + 1
               l == j + 1
    <3>1. k \in 1..Len(q) /\ l \in 1..Len(q) /\ k < l
      BY <1>1, <1>8, <2>1
    <3> HIDE DEF k, l
    <3>2. Len(q[k]) <= Len(q[l]) /\ ~IsPrefix(q[k], q[l]) /\ ~IsPrefix(q[l], q[k])
      BY <3>1 DEF InOrder
    <3> QED
      BY <2>1, <3>2 DEF k, l
  <2>2. CASE i + 1 \in 2..Len(q) /\ r[i] = q[i + 1] /\ \E l \in 1..n : j = (Len(q) - 1) + l /\ r[j] = c(l)
    <3> DEFINE k == i + 1
    <3>1. k \in 2..Len(q) /\ r[i] = q[k]
      BY <2>2
    <3> HIDE DEF k
    <3>2. PICK l \in 1..n : r[j] = c(l)
      BY <2>2
    <3>3. Len(r[i]) <= Len(r[j])
      <4>1. Len(c(l)) = Len(s) + 1
        BY <1>2
      <4> QED
        BY <1>6, <3>1, <3>2, <4>1
    <3>4. ~IsPrefix(q[k], c(l)) /\ ~IsPrefix(c(l), q[k])
      <4> DEFINE b == children[s][l]
      <4>1. b \in Byte /\ c(l) = Append(s, b)
        BY <1>2 DEF c
      <4> HIDE DEF b
      <4> QED
        BY <1>1, <3>1, <4>1, ApartFromFirst
    <3> QED
      BY <3>1, <3>2, <3>3, <3>4
  <2>3. CASE /\ \E k \in 1..n : i = (Len(q) - 1) + k /\ r[i] = c(k)
             /\ \E l \in 1..n : j = (Len(q) - 1) + l /\ r[j] = c(l)
    <3>1. PICK k \in 1..n : i = (Len(q) - 1) + k /\ r[i] = c(k)
      BY <2>3
    <3>2. PICK l \in 1..n : j = (Len(q) - 1) + l /\ r[j] = c(l)
      BY <2>3
    <3>3. k # l
      BY <1>1, <1>3, <1>8, <3>1, <3>2
    <3>4. c(k) # c(l) /\ Len(c(k)) = Len(s) + 1 /\ Len(c(l)) = Len(s) + 1 /\ c(k) \in Seq(Byte) /\ c(l) \in Seq(Byte)
      BY <1>2, <1>3, <3>3
    <3>5. ~IsPrefix(c(k), c(l)) /\ ~IsPrefix(c(l), c(k))
      BY <3>4, PrefixOrder
    <3>6. Len(c(k)) <= Len(c(l))
      BY <1>1, <3>4
    <3> QED
      BY <3>1, <3>2, <3>5, <3>6
  <2>4. CASE /\ \E k \in 1..n : i = (Len(q) - 1) + k /\ r[i] = c(k)
             /\ j + 1 \in 2..Len(q)
    BY <1>1, <1>3, <1>8, <2>4
  <2> QED
    BY <1>5, <2>1, <2>2, <2>3, <2>4
<1>9. ASSUME NEW i \in 1..Len(r), NEW j \in 1..Len(r), i < j
      PROVE  Len(r[j]) <= Len(r[1]) + 1
  <2>1. 1 \in 1..Len(r)
    BY <1>5
  <2>2. /\ Len(r[j]) \in Nat /\ Len(r[j]) <= Len(s) + 1
        /\ Len(r[1]) \in Nat /\ Len(s) <= Len(r[1])
    BY <1>7, <2>1
  <2>3. \A x, y, z \in Nat : x <= z + 1 /\ z <= y => x <= y + 1
    OBVIOUS
  <2> QED
    BY <1>1, <2>2, <2>3
<1>10. r \in Seq(State \ {Root})
  BY <1>5
<1> QED
  BY ZenonT(60), <1>8, <1>9, <1>10 DEF InOrder

\* The queue starts with the children of the root.
LEMMA FirstQueue ==
  ASSUME Trie, NEW q, q = Children(Root)
  PROVE  /\ InOrder(q)
         /\ Outside(q) = {Root}
         /\ \A u \in State : u # Root => IF Len(u) = 1 THEN u \notin Hanging(q) ELSE u \in Hanging(q)
<1> DEFINE n == Len(children[Root])
<1>1. /\ Root \in State /\ State \subseteq Seq(Byte) /\ Root \in Seq(Byte) /\ Len(Root) = 0
      /\ n \in Nat
      /\ \A i \in 1..n : children[Root][i] \in Byte /\ Append(Root, children[Root][i]) \in State
      /\ \A i, j \in 1..n : Append(Root, children[Root][i]) = Append(Root, children[Root][j]) => i = j
      /\ \A v \in State, b \in Byte : v = Append(Root, b) => v \in ChildrenTo(Root, n)
  <2>1. Len(Root) = 0
    BY DEF Root
  <2>2. Root \in State /\ State \subseteq Seq(Byte)
    BY DEF Trie
  <2> QED
    BY <2>1, <2>2, ChildrenAre
<1>2. /\ q \in Seq(State \ {Root}) /\ Len(q) = n
      /\ \A i \in 1..n : q[i] = Append(Root, children[Root][i])
  BY <1>1, ChildSequence
<1> HIDE DEF n
<1>3. \A i \in 1..n : q[i] \in Seq(Byte) /\ Len(q[i]) = 1 /\ q[i] \in State
  <2> TAKE i \in 1..n
  <2> DEFINE b == children[Root][i]
  <2>1. b \in Byte /\ q[i] = Append(Root, b) /\ q[i] \in State
    BY <1>1, <1>2
  <2> HIDE DEF b
  <2>2. Len(q[i]) = Len(Root) + 1 /\ q[i] \in Seq(Byte)
    BY <1>1, <2>1, Appended
  <2> QED
    BY <1>1, <2>1, <2>2
<1>4. \A i, j \in 1..n : IsPrefix(q[i], q[j]) => i = j
  <2> TAKE i, j \in 1..n
  <2>1. IsPrefix(q[i], q[j]) => q[i] = q[j]
    BY <1>3, PrefixOrder
  <2>2. Append(Root, children[Root][i]) = Append(Root, children[Root][j]) => i = j
    BY <1>1
  <2> QED
    BY <1>2, <2>1, <2>2
<1>5. InOrder(q)
  <2>1. \A i, j \in 1..Len(q) : i < j => /\ Len(q[i]) <= Len(q[j]) /\ Len(q[j]) <= Len(q[1]) + 1
                                        /\ ~IsPrefix(q[i], q[j]) /\ ~IsPrefix(q[j], q[i])
    <3> TAKE i, j \in 1..Len(q)
    <3>1. 1 \in 1..Len(q) /\ i \in 1..n /\ j \in 1..n
      BY <1>1, <1>2
    <3>2. Len(q[i]) = 1 /\ Len(q[j]) = 1 /\ Len(q[1]) = 1
      BY <1>2, <1>3, <3>1
    <3>3. i < j => ~IsPrefix(q[i], q[j]) /\ ~IsPrefix(q[j], q[i])
      BY <1>4, <3>1
    <3> QED
      BY <3>2, <3>3
  <2> QED
    BY <1>2, <2>1 DEF InOrder
<1>6. ASSUME NEW u \in State, u # Root
      PROVE  \E i \in 1..n : IsPrefix(q[i], u)
  <2>1. IsPrefix(Root, u) /\ u \in Seq(Byte)
    <3>1. u \in Seq(Byte)
      BY <1>1
    <3> QED
      BY <1>1, <3>1, PrefixIs, LenProperties
  <2> DEFINE b == u[Len(Root) + 1]
             v == Append(Root, b)
  <2>2. b \in Byte /\ IsPrefix(v, u) /\ v = SubSeq(u, 1, Len(Root) + 1) /\ Len(Root) < Len(u)
    BY <1>1, <1>6, <2>1, NextByte
  <2>3. v \in State
    <3>1. Len(Root) + 1 \in 0..Len(u)
      BY <1>1, <2>1, <2>2, LenProperties
    <3> QED
      BY <2>2, <3>1 DEF Trie
  <2> HIDE DEF b
  <2>4. v \in ChildrenTo(Root, n)
    BY <1>1, <2>2, <2>3
  <2> QED
    BY <1>2, <2>2, <2>4 DEF ChildrenTo
<1>7. ASSUME NEW i \in 1..n, IsPrefix(q[i], Root)
      PROVE  FALSE
  BY <1>1, <1>3, <1>7, PrefixOrder
<1>8. Outside(q) = {Root}
  BY <1>1, <1>2, <1>6, <1>7 DEF Outside
<1>9. ASSUME NEW u \in State, u # Root
      PROVE  IF Len(u) = 1 THEN u \notin Hanging(q) ELSE u \in Hanging(q)
  <2>1. u \in Seq(Byte)
    BY <1>1
  <2>2. CASE Len(u) = 1
    <3>1. \A i \in 1..n : IsPrefix(q[i], u) => u = q[i]
      BY <1>3, <2>1, <2>2, PrefixOrder
    <3> QED
      BY <1>2, <2>2, <3>1 DEF Hanging
  <2>3. CASE Len(u) # 1
    <3>1. PICK i \in 1..n : IsPrefix(q[i], u)
      BY <1>6, <1>9
    <3>2. u # q[i]
      BY <1>3, <2>3
    <3> QED
      BY <1>2, <2>3, <3>1, <3>2 DEF Hanging
  <2> QED
    BY <2>2, <2>3
<1> QED
  BY <1>5, <1>8, <1>9

-----------------------------------------------------------------------------
(* An atom is added.                                                       *)

IsTrie(ch) ==
  /\ DOMAIN ch \subseteq Seq(Byte) /\ Root \in DOMAIN ch
  /\ \A u \in DOMAIN ch : \A n \in 0..Len(u) : SubSeq(u, 1, n) \in DOMAIN ch
  /\ \A u \in DOMAIN ch :
       /\ ch[u] \in Seq(Byte) /\ IsInjective(ch[u])
       /\ \A b \in Byte : (\E i \in 1..Len(ch[u]) : ch[u][i] = b) <=> Append(u, b) \in DOMAIN ch

HasToo(l, k, x) ==
  /\ l \in Seq(Byte) /\ IsInjective(l)
  /\ \A b : (\E i \in 1..Len(l) : l[i] = b) <=> b = x \/ \E i \in 1..Len(k) : k[i] = b

\* A child that is new goes in front.
LEMMA InFront ==
  ASSUME NEW k \in Seq(Byte), IsInjective(k), NEW x \in Byte, \A i \in 1..Len(k) : k[i] # x
  PROVE  HasToo(<<x>> \o k, k, x)
<1> DEFINE l == <<x>> \o k
<1>1. Len(k) \in Nat /\ DOMAIN k = 1..Len(k) /\ <<x>> \in Seq(Byte) /\ Len(<<x>>) = 1 /\ <<x>>[1] = x
  BY LenProperties
<1>2. l \in Seq(Byte) /\ Len(l) = 1 + Len(k) /\ DOMAIN l = 1..Len(l)
  BY <1>1, ConcatProperties
<1>3. l[1] = x /\ \A i \in 1..Len(k) : l[i + 1] = k[i]
  <2>1. \A i \in 1..(1 + Len(k)) : l[i] = IF i <= 1 THEN <<x>>[i] ELSE k[i - 1]
    BY <1>1, ConcatProperties
  <2>2. l[1] = x
    BY <1>1, <2>1
  <2>3. ASSUME NEW i \in 1..Len(k)
        PROVE  l[i + 1] = k[i]
    <3>1. i + 1 \in 1..(1 + Len(k)) /\ ~(i + 1 <= 1) /\ (i + 1) - 1 = i
      BY <1>1
    <3> QED
      BY <2>1, <3>1
  <2> QED
    BY <2>2, <2>3
<1> HIDE DEF l
<1>4. \A j \in 1..Len(l) : j = 1 \/ \E i \in 1..Len(k) : j = i + 1 /\ l[j] = k[i]
  <2> TAKE j \in 1..Len(l)
  <2>1. CASE j # 1
    <3>1. j - 1 \in 1..Len(k) /\ j = (j - 1) + 1
      BY <1>1, <1>2, <2>1
    <3> QED
      BY <1>3, <3>1
  <2> QED
    BY <2>1
<1>5. \A i \in 1..Len(k) : i + 1 \in 1..Len(l)
  BY <1>1, <1>2
<1>6. 1 \in 1..Len(l)
  BY <1>1, <1>2
<1>7. \A b : (\E i \in 1..Len(l) : l[i] = b) <=> b = x \/ \E i \in 1..Len(k) : k[i] = b
  BY <1>3, <1>4, <1>5, <1>6
<1>8. ASSUME NEW i \in 1..Len(l), NEW j \in 1..Len(l), l[i] = l[j]
      PROVE  i = j
  <2>1. CASE i = 1
    BY <1>3, <1>4, <1>8, <2>1
  <2>2. CASE j = 1
    BY <1>3, <1>4, <1>8, <2>2
  <2>3. CASE i # 1 /\ j # 1
    <3>1. PICK p \in 1..Len(k) : i = p + 1 /\ l[i] = k[p]
      BY <1>4, <2>3
    <3>2. PICK m \in 1..Len(k) : j = m + 1 /\ l[j] = k[m]
      BY <1>4, <2>3
    <3>3. k[p] = k[m]
      BY <1>8, <3>1, <3>2
    <3> QED
      BY <1>1, <3>1, <3>2, <3>3 DEF IsInjective
  <2> QED
    BY <2>1, <2>2, <2>3
<1> QED
  BY <1>2, <1>7, <1>8 DEF IsInjective, HasToo, l

Grown(ch, path) ==
  [s \in DOMAIN ch \cup {SubSeq(path, 1, n) : n \in 0..Len(path)} |->
     IF Len(s) < Len(path) /\ IsPrefix(s, path) /\ SubSeq(path, 1, Len(s) + 1) \notin DOMAIN ch
     THEN <<path[Len(s) + 1]>> \o (IF s \in DOMAIN ch THEN ch[s] ELSE << >>)
     ELSE IF s \in DOMAIN ch THEN ch[s] ELSE << >>]

\* yr_ac_add_string leaves a trie.
LEMMA GrownTrie ==
  ASSUME NEW ch, IsTrie(ch), NEW path \in Seq(Byte)
  PROVE  IsTrie(Grown(ch, path)) /\ path \in DOMAIN Grown(ch, path) /\ DOMAIN ch \subseteq DOMAIN Grown(ch, path)
<1> DEFINE T      == DOMAIN ch
           B      == {SubSeq(path, 1, n) : n \in 0..Len(path)}
           G      == Grown(ch, path)
           old(s) == IF s \in T THEN ch[s] ELSE << >>
           Lacks(s) == Len(s) < Len(path) /\ IsPrefix(s, path) /\ SubSeq(path, 1, Len(s) + 1) \notin T
<1>1. /\ T \subseteq Seq(Byte) /\ Root \in T
      /\ \A u \in T : \A n \in 0..Len(u) : SubSeq(u, 1, n) \in T
      /\ \A u \in T : /\ ch[u] \in Seq(Byte) /\ IsInjective(ch[u])
                      /\ \A b \in Byte : (\E i \in 1..Len(ch[u]) : ch[u][i] = b) <=> Append(u, b) \in T
  BY DEF IsTrie
<1>2. G = [s \in T \cup B |-> IF Lacks(s) THEN <<path[Len(s) + 1]>> \o old(s) ELSE old(s)]
  BY DEF Grown
<1>3. DOMAIN G = T \cup B /\ \A s \in T \cup B : G[s] = IF Lacks(s) THEN <<path[Len(s) + 1]>> \o old(s) ELSE old(s)
  BY <1>2
<1>4. \A s : s \in B <=> s \in Seq(Byte) /\ IsPrefix(s, path)
  <2> TAKE s
  <2>1. s \in B => s \in Seq(Byte) /\ IsPrefix(s, path)
    BY Beginnings
  <2>2. s \in Seq(Byte) /\ IsPrefix(s, path) => s \in B
    BY PrefixBegins
  <2> QED
    BY <2>1, <2>2
<1>5. path \in B /\ Len(path) \in Nat
  BY <1>4, PrefixOrder, LenProperties
<1> HIDE DEF G, T, B
<1>6. T \cup B \subseteq Seq(Byte)
  BY <1>1, <1>4
<1>7. ASSUME NEW u \in T \cup B, NEW n \in 0..Len(u)
      PROVE  SubSeq(u, 1, n) \in T \cup B
  <2>1. CASE u \in T
    BY <1>1, <2>1
  <2>2. CASE u \in B
    <3> DEFINE v == SubSeq(u, 1, n)
    <3>1. u \in Seq(Byte) /\ IsPrefix(u, path)
      BY <1>4, <2>2
    <3>2. v \in Seq(Byte) /\ IsPrefix(v, u)
      BY <3>1, Beginnings
    <3> HIDE DEF v
    <3>3. IsPrefix(v, path)
      BY <3>1, <3>2, PrefixOrder
    <3> QED
      BY <1>4, <3>2, <3>3 DEF v
  <2> QED
    BY <2>1, <2>2
<1>8. ASSUME NEW u \in T \cup B
      PROVE  /\ old(u) \in Seq(Byte) /\ IsInjective(old(u))
             /\ \A b \in Byte : (\E i \in 1..Len(old(u)) : old(u)[i] = b) <=> Append(u, b) \in T
  <2>1. CASE u \in T
    BY <1>1, <2>1
  <2>2. CASE u \notin T
    <3> DEFINE e == << >>
    <3>1. old(u) = e
      BY <2>2
    <3>2. e \in Seq(Byte) /\ Len(e) = 0 /\ DOMAIN e = {}
      BY EmptySeq
    <3>3. IsInjective(e)
      BY <3>2 DEF IsInjective
    <3>4. ASSUME NEW b \in Byte, Append(u, b) \in T
          PROVE  FALSE
      <4> DEFINE v == Append(u, b)
      <4>1. u \in Seq(Byte) /\ v \in Seq(Byte)
        BY <1>6, Appended
      <4>2. IsPrefix(u, v)
        BY <4>1, PrefixOrder, PrefixOfAppended
      <4>3. Len(u) \in 0..Len(v) /\ u = SubSeq(v, 1, Len(u))
        BY <4>1, <4>2, PrefixBegins
      <4> QED
        BY <1>1, <2>2, <3>4, <4>3
    <3> HIDE DEF e, old
    <3> QED
      BY <3>1, <3>2, <3>3, <3>4
  <2> QED
    BY <2>1, <2>2
<1> HIDE DEF old
<1>9. ASSUME NEW u \in T \cup B, NEW b \in Byte
      PROVE  Append(u, b) \in B <=> Len(u) < Len(path) /\ IsPrefix(u, path) /\ Append(u, b) = SubSeq(path, 1, Len(u) + 1)
  <2> DEFINE v == Append(u, b)
  <2>1. u \in Seq(Byte) /\ v \in Seq(Byte) /\ Len(v) = Len(u) + 1 /\ Len(u) \in Nat /\ IsPrefix(u, v)
    BY <1>6, Appended, LenProperties, PrefixOrder, PrefixOfAppended
  <2> HIDE DEF v
  <2>2. ASSUME v \in B
        PROVE  Len(u) < Len(path) /\ IsPrefix(u, path) /\ v = SubSeq(path, 1, Len(u) + 1)
    <3>1. IsPrefix(v, path)
      BY <1>4, <2>2
    <3>2. IsPrefix(u, path)
      BY <2>1, <3>1, PrefixOrder
    <3>3. Len(v) \in 0..Len(path) /\ v = SubSeq(path, 1, Len(v))
      BY <2>1, <3>1, PrefixBegins
    <3> QED
      BY <1>5, <2>1, <3>2, <3>3
  <2>3. ASSUME Len(u) < Len(path), IsPrefix(u, path), v = SubSeq(path, 1, Len(u) + 1)
        PROVE  v \in B
    <3>1. Len(u) + 1 \in 0..Len(path)
      BY <1>5, <2>1, <2>3
    <3> QED
      BY <2>3, <3>1 DEF B
  <2> QED
    BY <2>2, <2>3 DEF v
<1>10. ASSUME NEW u \in T \cup B
       PROVE  /\ G[u] \in Seq(Byte) /\ IsInjective(G[u])
              /\ \A b \in Byte : (\E i \in 1..Len(G[u]) : G[u][i] = b) <=> Append(u, b) \in T \cup B
  <2>1. CASE Lacks(u)
    <3> DEFINE x == path[Len(u) + 1]
               w == SubSeq(path, 1, Len(u) + 1)
    <3>1. u \in Seq(Byte) /\ u # path
      BY <1>5, <1>6, <2>1
    <3>2. x \in Byte /\ Append(u, x) = w /\ w \notin T
      BY <2>1, <3>1, NextByte
    <3>3. \A i \in 1..Len(old(u)) : old(u)[i] # x
      BY <1>8, <3>2
    <3>4. G[u] = <<x>> \o old(u)
      BY <1>3, <2>1
    <3> HIDE DEF x, w
    <3>5. /\ G[u] \in Seq(Byte) /\ IsInjective(G[u])
          /\ \A b : (\E i \in 1..Len(G[u]) : G[u][i] = b) <=> b = x \/ \E i \in 1..Len(old(u)) : old(u)[i] = b
      <4>1. HasToo(G[u], old(u), x)
        BY <1>8, <3>2, <3>3, <3>4, InFront
      <4> QED
        BY <4>1 DEF HasToo
    <3>6. ASSUME NEW b \in Byte
          PROVE  Append(u, b) \in B <=> b = x
      <4>1. Append(u, b) \in B <=> Append(u, b) = w
        BY <1>9, <2>1 DEF w
      <4>2. Append(u, b) = Append(u, x) => b = x
        BY <3>1, <3>2, AppendedOnce
      <4> QED
        BY <3>2, <4>1, <4>2
    <3> QED
      BY <1>8, <3>5, <3>6
  <2>2. CASE ~Lacks(u)
    <3>1. G[u] = old(u)
      BY <1>3, <2>2
    <3>2. \A b \in Byte : Append(u, b) \in B => Append(u, b) \in T
      BY <1>9, <2>2
    <3> QED
      BY <1>8, <3>1, <3>2
  <2> QED
    BY <2>1, <2>2
<1> QED
  BY <1>1, <1>3, <1>5, <1>6, <1>7, <1>10 DEF IsTrie, G, T

MatchesIn(T, cs) ==
  /\ cs \in Seq(ToSet(cs))
  /\ \A c \in 1..Len(cs) :
       /\ IsCell(cs[c])
       /\ cs[c].bytes \in T /\ cs[c].next \in 0..Len(cs)
       /\ cs[c].backtrack \in Nat /\ (cs[c].backtrack = 0 <=> cs[c].bytes = Root)

\* Before the links each state lists its own cells.
OwnLists(T, cs, hs) ==
  /\ \A u \in T : IsFirst(cs, hs[u], Own(cs, u))
  /\ \A c \in 1..Len(cs) : IsFirst(cs, cs[c].next, Below(cs, c) \cap Own(cs, cs[c].bytes))

LEMMA OneMore ==
  ASSUME NEW cs, cs \in Seq(ToSet(cs)), NEW x
  PROVE  /\ Append(cs, x) \in Seq(ToSet(Append(cs, x))) /\ Len(Append(cs, x)) = Len(cs) + 1 /\ Len(cs) \in Nat
         /\ Append(cs, x)[Len(cs) + 1] = x /\ \A c \in 1..Len(cs) : Append(cs, x)[c] = cs[c]
<1> DEFINE n == Len(cs)
           S == ToSet(cs) \cup {x}
           ds == Append(cs, x)
<1>1. n \in Nat /\ cs \in [1..n -> S] /\ x \in S
  BY Elements
<1> HIDE DEF S
<1>2. cs \in Seq(S)
  BY <1>1
<1>3. ds \in Seq(S) /\ Len(ds) = n + 1 /\ (\A i \in 1..n : ds[i] = cs[i]) /\ ds[n + 1] = x
  BY <1>1, <1>2, Appended
<1>4. DOMAIN ds = 1..(n + 1) /\ ds = [i \in 1..(n + 1) |-> ds[i]]
  <2> HIDE DEF ds
  <2>1. ds \in [1..Len(ds) -> S]
    BY <1>3, LenProperties
  <2> QED
    BY <1>3, <2>1
<1> HIDE DEF ds, n
<1>5. n + 1 \in Nat
  BY <1>1
<1>6. ds \in Seq(ToSet(ds))
  <2> DEFINE m == n + 1
  <2>1. m \in Nat /\ ds = [i \in 1..m |-> ds[i]]
    BY <1>4, <1>5
  <2> HIDE DEF m
  <2> QED
    BY <2>1, Sequences
<1> QED
  BY <1>1, <1>3, <1>6 DEF ds, n

\* The cell of a new match of the state at path, and the heads with it.
IsNewCell(T, hs, path, cell) ==
  /\ IsCell(cell) /\ cell.bytes = path /\ cell.backtrack \in Nat
  /\ cell.backtrack = 0 <=> path = Root
  /\ cell.next = IF path \in T THEN hs[path] ELSE 0

HeadsWith(T, V, cs, hs, path) ==
  [s \in V |-> IF s = path THEN Len(cs) + 1 ELSE IF s \in T THEN hs[s] ELSE 0]

\* The match that is added comes before those the state has.
LEMMA AddedCell ==
  ASSUME NEW T, T \subseteq Seq(Byte), NEW cs, MatchesIn(T, cs), NEW hs, OwnLists(T, cs, hs),
         NEW V, T \subseteq V, V \subseteq Seq(Byte), NEW path, path \in V,
         NEW cell, IsNewCell(T, hs, path, cell)
  PROVE  /\ MatchesIn(V, Append(cs, cell))
         /\ OwnLists(V, Append(cs, cell), HeadsWith(T, V, cs, hs, path))
<1> DEFINE ds == Append(cs, cell)
           gs == HeadsWith(T, V, cs, hs, path)
<1>0. /\ IsCell(cell) /\ cell.bytes = path /\ cell.backtrack \in Nat
      /\ cell.backtrack = 0 <=> path = Root
      /\ cell.next = IF path \in T THEN hs[path] ELSE 0
      /\ \A s \in V : gs[s] = IF s = path THEN Len(cs) + 1 ELSE IF s \in T THEN hs[s] ELSE 0
  BY DEF IsNewCell, HeadsWith
<1> DEFINE n == Len(cs)
<1>1. cs \in Seq(ToSet(cs)) /\ n \in Nat
  BY Elements DEF MatchesIn
<1>2. /\ ds \in Seq(ToSet(ds)) /\ Len(ds) = n + 1
      /\ ds[n + 1] = cell /\ \A c \in 1..n : ds[c] = cs[c]
  BY <1>1, OneMore
<1> HIDE DEF ds, gs
<1>3. 1..(n + 1) = (1..n) \cup {n + 1} /\ n + 1 \notin 1..n /\ \A c \in 1..n : c < n + 1
  BY <1>1
<1>4. \A c \in 1..n : /\ IsCell(cs[c]) /\ cs[c].bytes \in T /\ cs[c].next \in 0..n /\ Len(cs[c].bytes) \in Nat
                      /\ cs[c].backtrack \in Nat /\ (cs[c].backtrack = 0 <=> cs[c].bytes = Root)
  BY LenProperties DEF MatchesIn
<1> HIDE DEF n
<1>5. Own(ds, path) = Own(cs, path) \cup {n + 1} /\ \A u : u # path => Own(ds, u) = Own(cs, u)
  BY <1>0, <1>2, <1>3 DEF Own, n
<1>6. \A c \in 1..n, d \in 1..n : Under(ds, d, c) <=> Under(cs, d, c)
  BY <1>2 DEF Under
<1>7. \A d \in Own(cs, path) : Under(ds, d, n + 1) /\ ~Under(ds, n + 1, d) /\ d \in 1..n
  <2> TAKE d \in Own(cs, path)
  <2>1. d \in 1..n /\ ds[d].bytes = path /\ ds[n + 1].bytes = path /\ Len(path) \in Nat
    BY <1>0, <1>2, LenProperties DEF Own, n
  <2>2. d < n + 1 /\ ~(n + 1 < d) /\ ~(Len(path) < Len(path))
    BY <1>1, <2>1
  <2> QED
    BY <2>1, <2>2 DEF Under
<1>8. \A u : Own(cs, u) \subseteq 1..n
  BY DEF Own, n
<1>9. \A x, S : S \subseteq 1..n /\ IsFirst(cs, x, S) => IsFirst(ds, x, S) /\ x \in 0..n
  <2> TAKE x, S
  <2> SUFFICES ASSUME S \subseteq 1..n, IsFirst(cs, x, S) PROVE IsFirst(ds, x, S) /\ x \in 0..n
    OBVIOUS
  <2>1. CASE S = {}
    BY <1>1, <2>1 DEF IsFirst
  <2>2. CASE S # {}
    <3>1. x \in S /\ x \in 1..n /\ \A d \in S \ {x} : Under(cs, d, x)
      BY <2>2 DEF IsFirst
    <3>2. x \in 0..n
      BY <3>1
    <3> QED
      BY <1>6, <2>2, <3>1, <3>2 DEF IsFirst
  <2> QED
    BY <2>1, <2>2
<1>10. \A u \in T : IsFirst(cs, hs[u], Own(cs, u))
  BY DEF OwnLists
<1>11. \A u : u \notin T => Own(cs, u) = {}
  BY <1>4 DEF Own, n
<1>12. cell.next \in 0..n /\ IsFirst(ds, cell.next, Own(cs, path))
  <2>1. CASE path \in T
    BY <1>0, <1>8, <1>9, <1>10, <2>1
  <2>2. CASE path \notin T
    BY <1>0, <1>1, <1>11, <2>2 DEF IsFirst
  <2> QED
    BY <2>1, <2>2
<1>13. MatchesIn(V, ds)
  <2> SUFFICES ASSUME NEW c \in 1..Len(ds)
               PROVE  /\ IsCell(ds[c]) /\ ds[c].bytes \in V /\ ds[c].next \in 0..Len(ds)
                      /\ ds[c].backtrack \in Nat /\ (ds[c].backtrack = 0 <=> ds[c].bytes = Root)
    BY <1>2 DEF MatchesIn
  <2>1. 0..n \subseteq 0..Len(ds)
    BY <1>1, <1>2
  <2>2. CASE c \in 1..n
    BY <1>2, <1>4, <2>1, <2>2
  <2>3. CASE c = n + 1
    BY <1>0, <1>2, <1>12, <2>1, <2>3
  <2> QED
    BY <1>2, <1>3, <2>2, <2>3
<1>14. ASSUME NEW u \in V
       PROVE  IsFirst(ds, gs[u], Own(ds, u))
  <2>1. CASE u = path
    <3>1. gs[u] = n + 1
      BY <1>0, <2>1 DEF n
    <3> QED
      BY <1>5, <1>7, <2>1, <3>1 DEF IsFirst
  <2>2. CASE u # path
    <3>1. gs[u] = IF u \in T THEN hs[u] ELSE 0
      BY <1>0, <2>2
    <3>2. IsFirst(cs, gs[u], Own(cs, u))
      BY <1>10, <1>11, <3>1 DEF IsFirst
    <3> QED
      BY <1>5, <1>8, <1>9, <2>2, <3>2
  <2> QED
    BY <2>1, <2>2
<1>15. ASSUME NEW c \in 1..Len(ds)
       PROVE  IsFirst(ds, ds[c].next, Below(ds, c) \cap Own(ds, ds[c].bytes))
  <2>1. CASE c \in 1..n
    <3> DEFINE v == cs[c].bytes
               S == Below(cs, c) \cap Own(cs, v)
    <3>1. ds[c] = cs[c] /\ IsFirst(cs, cs[c].next, S) /\ S \subseteq 1..n
      BY <1>2, <1>8, <2>1 DEF OwnLists, n
    <3>2. Below(ds, c) \cap Own(ds, v) = S
      <4>1. ASSUME NEW d \in 1..n
            PROVE  d \in Below(ds, c) /\ d \in Own(ds, v) <=> d \in S
        BY <1>2, <1>3, <1>5, <1>6, <2>1 DEF Below, n
      <4>2. n + 1 \in Own(ds, v) => n + 1 \notin Below(ds, c)
        <5>1. n + 1 \in Own(ds, v) => v = path
          BY <1>3, <1>5, <1>8
        <5>2. v = path => c \in Own(cs, path)
          BY <2>1 DEF Own, n
        <5> QED
          BY <1>7, <5>1, <5>2 DEF Below
      <4> QED
        BY <1>2, <1>3, <1>8, <4>1, <4>2 DEF Own
    <3> HIDE DEF S, v
    <3>3. IsFirst(ds, cs[c].next, S)
      BY <1>9, <3>1
    <3>4. ds[c].next = cs[c].next /\ ds[c].bytes = v
      BY <3>1 DEF v
    <3> QED
      BY <3>2, <3>3, <3>4
  <2>2. CASE c = n + 1
    <3>1. Below(ds, c) \cap Own(ds, path) = Own(cs, path)
      <4>1. ~Under(ds, n + 1, n + 1)
        <5>1. Len(path) \in Nat /\ ds[n + 1].bytes = path
          BY <1>0, <1>2, LenProperties
        <5>2. ~(Len(path) < Len(path)) /\ ~(n + 1 < n + 1)
          BY <1>1, <5>1
        <5> QED
          BY <5>1, <5>2 DEF Under
      <4> QED
        BY <1>2, <1>3, <1>5, <1>7, <2>2, <4>1 DEF Below
    <3>2. ds[c].next = cell.next /\ ds[c].bytes = path
      BY <1>0, <1>2, <2>2
    <3> QED
      BY <1>12, <3>1, <3>2
  <2>3. c \in 1..n \/ c = n + 1
    BY <1>2, <1>3
  <2> QED
    BY <2>1, <2>2, <2>3
<1> QED
  BY <1>13, <1>14, <1>15 DEF OwnLists, ds, gs

-----------------------------------------------------------------------------
(* Every step keeps the invariant of the construction.                     *)

\* Before the links, Listing is about own cells.
LEMMA OwnListing ==
  ASSUME NEW cs, NEW hs, \A c \in 1..Len(cs) : cs[c].bytes \in State
  PROVE  Listing(cs, hs, State, {}) <=> OwnLists(State, cs, hs)
<1>1. \A u : (1..Len(cs)) \cap Own(cs, u) = Own(cs, u)
  BY DEF Own
<1>2. \A u \in State : \A x, S : GoesOn(cs, hs, State, {}, x, u, S) <=> IsFirst(cs, x, S \cap Own(cs, u))
  BY DEF GoesOn
<1> QED
  BY <1>1, <1>2 DEF Listing, OwnLists

LEMMA AddStep ==
  ASSUME Construction, AddAtom
  PROVE  Construction'
<1> DEFINE atom == Head(todo)
           path == atom.bytes
           cell == [backtrack |-> Len(path) + atom.backtrack, owner |-> atom.owner,
                    bytes |-> path, code |-> atom.code,
                    next |-> IF path \in State THEN heads[path] ELSE 0]
<1>1. /\ phase = "add" /\ todo # << >> /\ phase' = "add"
      /\ Trie /\ Matches(cells) /\ Atoms(todo) /\ Listing(cells, heads, State, {})
  BY DEF Construction, AddAtom
<1>2. todo \in Seq(ToSet(todo)) /\ \A a \in ToSet(todo) : IsAtom(a)
  BY <1>1 DEF Atoms
<1>3. IsAtom(atom)
  <2>1. atom \in ToSet(todo)
    BY <1>1, <1>2, HeadTailProperties
  <2> QED
    BY <1>2, <2>1
<1>4. path \in Seq(Byte) /\ atom.backtrack \in Nat /\ (path = Root => atom.backtrack = 0)
  BY <1>3 DEF IsAtom
<1>5. Atoms(todo')
  <2> DEFINE t == Tail(todo)
  <2>1. todo' = t
    BY DEF AddAtom
  <2>2. t \in Seq(ToSet(todo)) /\ t = [i \in 1..Len(t) |-> t[i]] /\ Len(t) \in Nat
        /\ \A i \in 1..Len(t) : t[i] \in ToSet(todo)
    BY <1>1, <1>2, HeadTailProperties, LenProperties
  <2> HIDE DEF t
  <2>3. t \in Seq(ToSet(t))
    <3> DEFINE n == Len(t)
    <3>1. n \in Nat /\ t = [i \in 1..n |-> t[i]]
      BY <2>2
    <3> HIDE DEF n
    <3> QED
      BY <3>1, Sequences
  <2>4. \A a \in ToSet(t) : \E i \in 1..Len(t) : a = t[i]
    BY <2>3, Elements
  <2>5. \A a \in ToSet(t) : IsAtom(a)
    BY <1>2, <2>2, <2>4
  <2> QED
    BY <2>1, <2>3, <2>5 DEF Atoms
<1>6. children' = Grown(children, path)
  BY DEF AddAtom, Grown, State
<1>7. IsTrie(children)
  BY <1>1 DEF Trie, IsTrie, State, HasChild
<1>8. IsTrie(children') /\ path \in State' /\ State \subseteq State'
  <2> HIDE DEF path
  <2> QED
    BY <1>4, <1>6, <1>7, GrownTrie DEF State
<1>9. State' = State \cup {SubSeq(path, 1, n) : n \in 0..Len(path)}
  BY DEF AddAtom, State
<1>10. /\ failure' = [s \in State' |-> Root]
       /\ heads' = [s \in State' |-> IF s = path THEN Len(cells) + 1 ELSE IF s \in State THEN heads[s] ELSE 0]
  BY <1>9 DEF AddAtom
<1>11. cells' = Append(cells, cell)
  BY DEF AddAtom
<1>12. /\ IsCell(cell) /\ cell.bytes = path /\ cell.backtrack = Len(path) + atom.backtrack
       /\ cell.next = IF path \in State THEN heads[path] ELSE 0
  <2> HIDE DEF path, atom
  <2> QED
    BY DEF IsCell
<1>13. cell.backtrack \in Nat /\ (cell.backtrack = 0 <=> path = Root)
  <2>1. Len(path) \in Nat /\ (Len(path) = 0 <=> path = Root)
    BY <1>4, EmptySeq, LenProperties DEF Root
  <2> HIDE DEF cell, path
  <2> QED
    BY <1>4, <1>12, <2>1
<1> HIDE DEF cell, path, atom
<1>14. MatchesIn(State, cells) /\ OwnLists(State, cells, heads)
  <2>1. MatchesIn(State, cells)
    BY <1>1 DEF Matches, MatchesIn
  <2>2. OwnLists(State, cells, heads)
    BY <1>1, <2>1, OwnListing DEF MatchesIn
  <2> QED
    BY <2>1, <2>2
<1>15. State \subseteq Seq(Byte) /\ State' \subseteq Seq(Byte)
  BY <1>7, <1>8 DEF IsTrie, State
<1>16. MatchesIn(State', cells') /\ OwnLists(State', cells', heads')
  <2>1. IsNewCell(State, heads, path, cell)
    BY <1>12, <1>13 DEF IsNewCell
  <2>2. heads' = HeadsWith(State, State', cells, heads, path)
    BY <1>10 DEF HeadsWith
  <2> QED
    BY <1>8, <1>11, <1>14, <1>15, <2>1, <2>2, AddedCell
<1>17. Matches(cells)'
  BY <1>16 DEF Matches, MatchesIn
<1>18. Listing(cells, heads, State, {})'
  <2>1. \A u : (1..Len(cells')) \cap Own(cells', u) = Own(cells', u)
    BY DEF Own
  <2>2. \A c \in 1..Len(cells') : cells'[c].bytes \in State'
    BY <1>16 DEF MatchesIn
  <2> QED
    BY <1>16, <2>1, <2>2 DEF Listing, GoesOn, OwnLists
<1>19. Trie'
  <2>1. failure' = [s \in State' |-> failure'[s]] /\ heads' = [s \in State' |-> heads'[s]]
    BY <1>10
  <2> QED
    BY <1>8, <2>1 DEF Trie, IsTrie, State, HasChild
<1>20. \A u \in State' : failure'[u] = Root
  BY <1>10
<1> QED
  BY <1>1, <1>5, <1>17, <1>18, <1>19, <1>20 DEF Construction

LEMMA SameTrie ==
  ASSUME Trie, Matches(cells), UNCHANGED <<children, heads, cells>>,
         failure' = [u \in State |-> failure'[u]]
  PROVE  Trie' /\ Matches(cells)'
BY DEF Trie, Matches, State, HasChild

LEMMA ShortFails ==
  ASSUME Trie, NEW u \in State, Len(u) = 1
  PROVE  Fails(Root, u)
<1>1. Root \in State /\ State \subseteq Seq(Byte) /\ u \in Seq(Byte) /\ Len(Root) = 0
  BY DEF Trie, Root
<1>2. Root # u
  BY <1>1
<1>3. ASSUME NEW v \in State, v # u, IsSuffix(v, u)
      PROVE  v = Root
  <2>1. v \in Seq(Byte) /\ Len(v) <= 1 /\ Len(v) # 1 /\ Len(v) \in Nat
    BY <1>1, <1>3, SuffixOrder, LenProperties
  <2>2. \A n \in Nat : n <= 1 /\ n # 1 => n = 0
    OBVIOUS
  <2>3. Len(v) = 0
    BY <2>1, <2>2
  <2> QED
    BY <2>1, <2>3, EmptySeq DEF Root
<1>4. IsSuffix(Root, u) /\ IsSuffix(Root, Root)
  BY <1>1, SuffixOrder
<1> QED
  BY <1>1, <1>2, <1>3, <1>4 DEF Fails

LEMMA RootOutside ==
  ASSUME Trie, NEW q, InOrder(q)
  PROVE  Root \in Outside(q)
<1>1. Root \in State /\ Root \in Seq(Byte)
  BY DEF Trie
<1>2. ASSUME NEW i \in 1..Len(q), IsPrefix(q[i], Root)
      PROVE  FALSE
  <2>1. q[i] \in Seq(Byte) /\ q[i] # Root
    BY InQueue
  <2>2. Len(q[i]) <= Len(Root) /\ Len(Root) = 0 /\ Len(q[i]) \in Nat
    <3>1. Len(Root) = 0
      BY DEF Root
    <3> QED
      BY <1>1, <1>2, <2>1, <3>1, PrefixOrder, LenProperties
  <2>3. Len(q[i]) = 0
    BY <2>2
  <2> QED
    BY <2>1, <2>3, EmptySeq DEF Root
<1> QED
  BY <1>1, <1>2 DEF Outside

\* StartLinks: the children of the root have their lists already.
LEMMA FirstListing ==
  ASSUME Trie, NEW cs, Matches(cs), NEW hs, Listing(cs, hs, State, {}), NEW q, q = Children(Root)
  PROVE  Listing(cs, hs, Hanging(q), Outside(q))
<1>1. /\ Outside(q) = {Root}
      /\ \A u \in State : u # Root => IF Len(u) = 1 THEN u \notin Hanging(q) ELSE u \in Hanging(q)
  BY FirstQueue
<1>2. ASSUME NEW u \in State, NEW S, NEW x, GoesOn(cs, hs, State, {}, x, u, S)
      PROVE  GoesOn(cs, hs, Hanging(q), Outside(q), x, u, S)
  <2>1. IsFirst(cs, x, S \cap Own(cs, u))
    BY <1>2 DEF GoesOn
  <2>2. CASE u \in Hanging(q)
    BY <2>1, <2>2 DEF GoesOn
  <2>3. CASE u \notin Hanging(q) /\ u = Root
    <3>1. Own(cs, u) = Ending(cs, u)
      BY <2>3, RootCells
    <3> QED
      BY <1>1, <2>1, <2>3, <3>1 DEF GoesOn
  <2>4. CASE u \notin Hanging(q) /\ u # Root
    <3>1. Len(u) = 1
      BY <1>1, <2>4
    <3>2. Proper(cs, u) = Own(cs, u) \cup Proper(cs, Root)
      BY <2>4, <3>1, ShortFails, ProperOf
    <3>3. Proper(cs, Root) = {}
      BY RootCells DEF Proper
    <3>4. Own(cs, u) = Proper(cs, u)
      BY <3>2, <3>3
    <3> QED
      BY <1>1, <2>1, <2>4, <3>4 DEF GoesOn
  <2> QED
    BY <2>2, <2>3, <2>4
<1>3. \A c \in 1..Len(cs) : cs[c].bytes \in State
  BY DEF Matches
<1> QED
  BY <1>2, <1>3 DEF Listing

LEMMA StartLinksStep ==
  ASSUME Construction, StartLinks
  PROVE  Construction'
<1> DEFINE q == Children(Root)
<1>1. /\ phase = "add" /\ phase' = "link" /\ queue' = q
      /\ children' = children /\ failure' = failure /\ heads' = heads /\ cells' = cells
      /\ Trie /\ Matches(cells) /\ Listing(cells, heads, State, {}) /\ \A u \in State : failure[u] = Root
  BY DEF Construction, StartLinks, Enter
<1>2. Trie' /\ Matches(cells)' /\ State' = State
  <2>1. failure' = [u \in State |-> failure'[u]]
    BY <1>1 DEF Trie
  <2> QED
    BY <1>1, <2>1, SameTrie DEF State
<1>3. /\ InOrder(q) /\ Outside(q) = {Root}
      /\ \A u \in State : u # Root => IF Len(u) = 1 THEN u \notin Hanging(q) ELSE u \in Hanging(q)
  BY <1>1, FirstQueue
<1>4. Listing(cells, heads, Hanging(q), Outside(q))
  BY <1>1, FirstListing
<1> HIDE DEF q
<1>5. Breadth' /\ Unlinked' = Hanging(q) /\ Rooted' = Outside(q)
  BY <1>1, <1>2, <1>3 DEF Breadth, InOrder, Unlinked, Rooted, Hanging, Outside
<1>6. Listing(cells, heads, Unlinked, Rooted)'
  BY <1>1, <1>2, <1>4, <1>5 DEF Listing, GoesOn
<1>7. failure'[Root] = Root
  BY <1>1 DEF Trie
<1>8. \A u \in State' \ (Unlinked' \cup {Root}) : Fails(failure[u], u)'
  <2> SUFFICES ASSUME NEW u \in State, u \notin Hanging(q), u # Root
               PROVE  Fails(failure[u], u)'
    BY <1>2, <1>5
  <2>1. Fails(Root, u) /\ failure'[u] = Root
    BY <1>1, <1>3, ShortFails
  <2> QED
    BY <1>2, <2>1 DEF Fails
<1> QED
  BY <1>1, <1>2, <1>5, <1>6, <1>7, <1>8 DEF Construction

\* One state of the queue: its list gets the root's matches, then its children
\* are linked, then they take its place in the queue.
LEMMA LinkStep ==
  ASSUME Construction, LinkState
  PROVE  Construction'
<1> DEFINE s      == Head(queue)
           n      == Len(children[s])
           rooted == WithRoot(cells, heads, s)
           acc    == [cells |-> rooted.cells, heads |-> rooted.heads, failure |-> failure]
           linked == LinkChildren(s, acc, n)
           r      == Tail(queue) \o Children(s)
           U      == Hanging(queue)
           P      == Outside(queue)
           Q      == P \cup {s}
           V      == U \ ChildrenTo(s, n)
<1>1. /\ phase = "link" /\ phase' = "link" /\ queue # << >> /\ queue' = r /\ children' = children
      /\ cells' = linked.cells /\ heads' = linked.heads /\ failure' = linked.failure
      /\ State' = State
  BY DEF LinkState, State
<1>2. /\ Trie /\ Matches(cells) /\ Breadth /\ Listing(cells, heads, Unlinked, Rooted)
      /\ failure[Root] = Root
      /\ \A u \in State \ (Unlinked \cup {Root}) : Fails(failure[u], u)
  BY <1>1 DEF Construction
<1>3. InOrder(queue) /\ Unlinked = U /\ Rooted = P
  BY <1>2 DEF Breadth, InOrder, Unlinked, Rooted, Hanging, Outside
<1>4. Linking(cells, heads, U, P)
  <2>1. Root \in P
    BY <1>2, <1>3, RootOutside
  <2>2. heads = [u \in State |-> heads[u]]
    BY <1>2 DEF Trie
  <2> HIDE DEF U, P
  <2> QED
    BY <1>2, <1>3, <2>1, <2>2 DEF Linking
<1> HIDE DEF s
<1>5. /\ s \in State /\ s # Root
      /\ \A v \in State : Len(v) <= Len(s) => v \notin U
      /\ \A j \in 1..n : Append(s, children[s][j]) \in U /\ Append(s, children[s][j]) \notin P
  BY <1>1, <1>2, <1>3, FirstOfQueue DEF s
<1>6. /\ Hanging(r) = V /\ Outside(r) = Q /\ InOrder(r)
  BY <1>1, <1>2, <1>3, HangingPopped, InOrderPopped DEF s
<1> HIDE DEF U, P, n, rooted, r
<1>7. Linking(rooted.cells, rooted.heads, U, Q)
  BY <1>2, <1>4, <1>5, Rooting DEF rooted
<1>8. LinkedTo(s)
  BY <1>2, <1>3, <1>5 DEF LinkedTo
<1>9. \A j \in 1..n : Append(s, children[s][j]) \in U /\ Append(s, children[s][j]) \notin Q
  <2> TAKE j \in 1..n
  <2> DEFINE b == children[s][j]
             u == Append(s, b)
  <2>1. b \in Byte /\ s \in Seq(Byte)
    BY <1>2, <1>5, ChildrenAre DEF n, Trie
  <2>2. Len(u) = Len(s) + 1 /\ Len(s) \in Nat
    BY <2>1, Appended, LenProperties
  <2>3. u # s
    <3> HIDE DEF u
    <3> QED
      BY <2>2
  <2> QED
    BY <1>5, <2>3
<1>10. LinkedSome(s, acc, U, Q, 0)
  <2>1. acc.cells = rooted.cells /\ acc.heads = rooted.heads /\ acc.failure = failure
    OBVIOUS
  <2>2. acc = Unlinking(acc.cells, acc.heads, acc.failure)
    BY DEF Unlinking
  <2>3. ChildrenTo(s, 0) = {}
    BY DEF ChildrenTo
  <2>4. U \ ChildrenTo(s, 0) = U
    BY <2>3
  <2>5. failure = [v \in State |-> failure[v]]
    BY <1>2 DEF Trie
  <2> HIDE DEF acc, Q
  <2> QED
    BY <1>7, <2>1, <2>2, <2>3, <2>4, <2>5 DEF LinkedSome
<1> HIDE DEF acc, Q
<1>11. LinkedSome(s, linked, U, Q, n)
  BY <1>2, <1>5, <1>8, <1>9, <1>10, LinkAll DEF n
<1> HIDE DEF linked
<1>12. /\ Linking(cells', heads', V, Q)
       /\ failure' = [v \in State |-> failure'[v]]
       /\ \A v \in State : IF v \in ChildrenTo(s, n) THEN Fails(failure'[v], v) ELSE failure'[v] = failure[v]
  BY <1>1, <1>11 DEF LinkedSome
<1>13. Breadth' /\ Unlinked' = V /\ Rooted' = Q
  BY <1>1, <1>6 DEF Breadth, InOrder, Unlinked, Rooted, Hanging, Outside
<1> HIDE DEF V
<1>14. /\ Matches(cells') /\ heads' = [u \in State |-> heads'[u]]
       /\ Listing(cells', heads', V, Q)
  BY <1>12 DEF Linking
<1>15. Matches(cells)'
  BY <1>1, <1>14 DEF Matches
<1>16. Trie'
  BY <1>1, <1>2, <1>12, <1>14 DEF Trie, HasChild
<1>17. Listing(cells, heads, Unlinked, Rooted)'
  BY <1>1, <1>13, <1>14 DEF Listing, GoesOn
<1>18. Root \notin ChildrenTo(s, n)
  <2>1. \A i \in 1..n : Append(s, children[s][i]) # Root
    <3> DEFINE k == Children(s)
    <3>1. /\ k \in Seq(State \ {Root}) /\ Len(k) = n
          /\ \A i \in 1..n : k[i] = Append(s, children[s][i])
      BY <1>2, <1>5, ChildSequence DEF n
    <3> HIDE DEF k
    <3>2. \A i \in 1..n : k[i] \in State \ {Root}
      BY <3>1
    <3> QED
      BY <3>1, <3>2
  <2> QED
    BY <2>1 DEF ChildrenTo
<1>19. failure'[Root] = Root
  BY <1>2, <1>12, <1>18 DEF Trie
<1>20. \A u \in State' \ (Unlinked' \cup {Root}) : Fails(failure[u], u)'
  <2> SUFFICES ASSUME NEW u \in State, u \notin V, u # Root
               PROVE  Fails(failure'[u], u)
    BY <1>1, <1>13 DEF Fails
  <2>1. CASE u \in ChildrenTo(s, n)
    BY <1>12, <2>1
  <2>2. CASE u \notin ChildrenTo(s, n)
    <3>1. u \notin U
      BY <2>2 DEF V
    <3> QED
      BY <1>2, <1>3, <1>12, <2>2, <3>1
  <2> QED
    BY <2>1, <2>2
<1> QED
  BY <1>1, <1>13, <1>15, <1>16, <1>17, <1>19, <1>20 DEF Construction

\* Once the links are made, the lists are left alone.
LEMMA LaterStep ==
  ASSUME Construction, phase \notin {"add", "link"},
         UNCHANGED <<children, heads, cells>>, failure' = [u \in State |-> failure'[u]],
         phase' \in {"optimize", "table", "ready"}
  PROVE  Construction'
<1>1. Trie /\ Matches(cells) /\ Listing(cells, heads, {}, State)
  BY DEF Construction
<1>2. Trie' /\ Matches(cells)' /\ State' = State
  BY <1>1, SameTrie DEF State
<1>3. Listing(cells, heads, {}, State)'
  BY <1>1, <1>2 DEF Listing, GoesOn
<1> QED
  BY <1>2, <1>3 DEF Construction

LEMMA StartOptimizeStep ==
  ASSUME Construction, StartOptimize
  PROVE  Construction'
<1>1. /\ phase = "link" /\ queue = << >> /\ phase' = "optimize"
      /\ UNCHANGED <<children, heads, cells, failure>>
      /\ Trie /\ Matches(cells) /\ Listing(cells, heads, Unlinked, Rooted)
  BY DEF Construction, StartOptimize, Enter
<1>2. Unlinked = {} /\ Rooted = State
  <2>1. 1..Len(queue) = {}
    BY <1>1
  <2> QED
    BY <2>1 DEF Unlinked, Rooted
<1>3. failure' = [u \in State |-> failure'[u]]
  BY <1>1 DEF Trie
<1>4. Trie' /\ Matches(cells)' /\ State' = State
  BY <1>1, <1>3, SameTrie DEF State
<1>5. Listing(cells, heads, {}, State)'
  <2>1. Listing(cells, heads, {}, State)
    BY <1>1, <1>2
  <2> QED
    BY <1>1, <1>4, <2>1 DEF Listing, GoesOn
<1> QED
  BY <1>1, <1>4, <1>5 DEF Construction

\* Nothing else changes what the invariant is about.
LEMMA SteadyStep ==
  ASSUME Construction, UNCHANGED automaton
  PROVE  Construction'
<1>1. /\ phase' = phase /\ todo' = todo /\ children' = children /\ failure' = failure
      /\ cells' = cells /\ heads' = heads /\ queue' = queue /\ State' = State
  BY DEF automaton, State
<1>2. Trie' <=> Trie
  BY <1>1 DEF Trie, HasChild
<1>3. Matches(cells)' <=> Matches(cells)
  BY <1>1 DEF Matches
<1>4. Atoms(todo)' <=> Atoms(todo)
  BY <1>1 DEF Atoms
<1>5. (Breadth' <=> Breadth) /\ Unlinked' = Unlinked /\ Rooted' = Rooted
  BY <1>1 DEF Breadth, Unlinked, Rooted
<1>6. /\ Listing(cells, heads, State, {})' <=> Listing(cells, heads, State, {})
      /\ Listing(cells, heads, Unlinked, Rooted)' <=> Listing(cells, heads, Unlinked, Rooted)
      /\ Listing(cells, heads, {}, State)' <=> Listing(cells, heads, {}, State)
  BY <1>1, <1>5 DEF Listing, GoesOn
<1>7. (\A u \in State : failure[u] = Root)' <=> (\A u \in State : failure[u] = Root)
  BY <1>1
<1>8. \A u : Fails(failure[u], u)' <=> Fails(failure[u], u)
  BY <1>1 DEF Fails
<1> QED
  BY <1>1, <1>2, <1>3, <1>4, <1>5, <1>6, <1>7, <1>8 DEF Construction

LEMMA FirstConstruction ==
  ASSUME NEW atoms, Atoms(atoms), InitAutomaton(atoms)
  PROVE  Construction
<1>1. /\ phase = "add" /\ todo = atoms /\ cells = << >>
      /\ children = [u \in {Root} |-> << >>] /\ failure = [u \in {Root} |-> Root] /\ heads = [u \in {Root} |-> 0]
  BY DEF InitAutomaton
<1>2. State = {Root}
  BY <1>1 DEF State
<1>3. Root \in Seq(Byte) /\ Len(Root) = 0 /\ SubSeq(Root, 1, 0) = Root
  BY DEF Root
<1>4. ASSUME NEW b \in Byte
      PROVE  ~HasChild(Root, b) /\ Append(Root, b) # Root
  <2>1. Len(Append(Root, b)) = 1
    BY <1>3, Appended
  <2>2. children[Root] = << >>
    BY <1>1
  <2>3. ~HasChild(Root, b)
    BY <2>2 DEF HasChild
  <2> QED
    BY <1>3, <2>1, <2>3
<1>5. Trie
  <2>1. children[Root] \in Seq(Byte) /\ IsInjective(children[Root])
    BY <1>1 DEF IsInjective
  <2> QED
    BY <1>1, <1>2, <1>3, <1>4, <2>1 DEF Trie
<1>6. Matches(cells) /\ Len(cells) = 0
  BY <1>1 DEF Matches
<1>7. Listing(cells, heads, State, {})
  <2>1. OwnLists(State, cells, heads)
    BY <1>1, <1>2, <1>6 DEF OwnLists, IsFirst, Own
  <2> QED
    BY <1>6, <2>1, OwnListing
<1> QED
  BY <1>1, <1>2, <1>5, <1>6, <1>7 DEF Construction

LEMMA BuildStep ==
  ASSUME Construction, [Build]_automaton
  PROVE  Construction'
<1>1. CASE AddAtom
  BY <1>1, AddStep
<1>2. CASE StartLinks
  BY <1>2, StartLinksStep
<1>3. CASE LinkState
  BY <1>3, LinkStep
<1>4. CASE StartOptimize
  BY <1>4, StartOptimizeStep
<1>5. CASE OptimizeState
  <2>1. failure = [u \in State |-> failure[u]] /\ phase = "optimize"
    BY <1>5 DEF Construction, Trie, OptimizeState
  <2>2. failure' = [u \in State |-> failure'[u]]
    BY <1>5, <2>1 DEF OptimizeState
  <2> QED
    BY <1>5, <2>1, <2>2, LaterStep DEF OptimizeState
<1>6. CASE StartTable
  <2>1. failure = [u \in State |-> failure[u]] /\ phase = "optimize"
    BY <1>6 DEF Construction, Trie, StartTable
  <2> QED
    BY <1>6, <2>1, LaterStep DEF StartTable, Enter
<1>7. CASE PlaceState
  <2>1. failure = [u \in State |-> failure[u]] /\ phase = "table"
    BY <1>7 DEF Construction, Trie, PlaceState
  <2> QED
    BY <1>7, <2>1, LaterStep DEF PlaceState
<1>8. CASE TableDone
  <2>1. failure = [u \in State |-> failure[u]] /\ phase = "table"
    BY <1>8 DEF Construction, Trie, TableDone
  <2> QED
    BY <1>8, <2>1, LaterStep DEF TableDone
<1>9. CASE UNCHANGED automaton
  BY <1>9, SteadyStep
<1> QED
  BY <1>1, <1>2, <1>3, <1>4, <1>5, <1>6, <1>7, <1>8, <1>9 DEF Build

-----------------------------------------------------------------------------

\* What belongs to the list of u and is under one of its cells is the next, or
\* under the next.
LEMMA NextOfAll ==
  ASSUME Trie, NEW cs, NEW hs, Linking(cs, hs, {}, State), NEW u \in State,
         NEW c \in Ending(cs, u), NEW e \in Ending(cs, u), Under(cs, e, c)
  PROVE  cs[c].next # 0 /\ (e = cs[c].next \/ Under(cs, e, cs[c].next))
<1>1. Matches(cs) /\ c \in 1..Len(cs) /\ e \in 1..Len(cs)
  BY DEF Linking, Ending
<1>2. /\ u \in Seq(Byte) /\ cs[c].bytes \in State
      /\ cs[c].bytes \in Seq(Byte) /\ cs[e].bytes \in Seq(Byte)
      /\ Len(cs[c].bytes) \in Nat /\ Len(cs[e].bytes) \in Nat
  BY <1>1, CellTypes DEF Trie
<1>3. e \in Below(cs, c) \cap Ending(cs, cs[c].bytes)
  <2>1. Len(cs[e].bytes) <= Len(cs[c].bytes)
    BY <1>2 DEF Under
  <2>2. IsSuffix(cs[e].bytes, u) /\ IsSuffix(cs[c].bytes, u)
    BY DEF Ending
  <2>3. IsSuffix(cs[e].bytes, cs[c].bytes)
    BY <1>2, <2>1, <2>2, SuffixOrder
  <2> QED
    BY <1>1, <2>3 DEF Below, Ending
<1>4. IsFirst(cs, cs[c].next, Below(cs, c) \cap Ending(cs, cs[c].bytes))
  BY <1>1, <1>2 DEF Linking, Listing, GoesOn
<1>5. cs[c].next \in Below(cs, c) \cap Ending(cs, cs[c].bytes)
  BY <1>3, <1>4 DEF IsFirst
<1>6. cs[c].next # 0
  BY <1>1, <1>5, CellTypes DEF Below
<1>7. e # cs[c].next => Under(cs, e, cs[c].next)
  BY <1>3, <1>4 DEF IsFirst
<1> QED
  BY <1>6, <1>7

Steps(cs, walk) == \A n \in Nat : walk[n] # 0 => walk[n + 1] = cs[walk[n]].next

LEMMA ListSteps ==
  ASSUME NEW cs, Descends(cs), NEW h \in 0..Len(cs)
  PROVE  Steps(cs, WalkOf(cs, h))
<1> DEFINE walk == WalkOf(cs, h)
<1>1. \A n \in Nat : walk[n + 1] = IF walk[n] = 0 THEN 0 ELSE cs[walk[n]].next
  BY ListWalk
<1> HIDE DEF walk
<1>2. Steps(cs, walk)
  BY <1>1 DEF Steps
<1> QED
  BY <1>2 DEF walk

\* So a list whose cells all belong to it leaves none of them out.
LEMMA AllListed ==
  ASSUME Trie, NEW cs, NEW hs, Linking(cs, hs, {}, State), NEW u \in State, NEW h, h = hs[u],
         NEW e \in Ending(cs, u)
  PROVE  \E i \in 0..(Length(cs, h) - 1) : WalkOf(cs, h)[i] = e
<1> DEFINE W == WalkOf(cs, h)
           N == Length(cs, h)
<1>1. Descends(cs) /\ h \in 0..Len(cs) /\ e \in 1..Len(cs) /\ Len(cs) \in Nat
  BY Descending, Heads DEF Descends, Ending
<1>2. IsFirst(cs, h, Ending(cs, u))
  <2>1. Ending(cs, u) = (1..Len(cs)) \cap Ending(cs, u)
    BY DEF Ending
  <2> QED
    BY <2>1 DEF Linking, Listing, GoesOn
<1>3. h \in Ending(cs, u) /\ h \in 1..Len(cs)
  BY <1>2 DEF IsFirst, Ending
<1>4. N \in Nat /\ N >= 1 /\ W[N] = 0 /\ \A m \in 0..(N - 1) : W[m] # 0
  <2>1. N \in 0..Len(cs) /\ N # 0
    BY <1>1, <1>3, ListIs
  <2> QED
    BY <1>1, <2>1, ListIs
<1>5. \A i \in 0..(N - 1) : W[i] \in Ending(cs, u)
  BY <1>1, <1>3, EndingClosed, ListWithin
<1>6. W[0] = h /\ \A n \in Nat : W[n] # 0 => W[n + 1] = cs[W[n]].next
  <2>1. W[0] = h
    BY <1>1, ListWalk
  <2>2. Steps(cs, W)
    BY <1>1, ListSteps
  <2> HIDE DEF W
  <2> QED
    BY <2>1, <2>2 DEF Steps
<1> HIDE DEF W, N
<1>7. SUFFICES ASSUME \A i \in 0..(N - 1) : W[i] # e
               PROVE  FALSE
  BY DEF W, N
<1>8. \A i \in 0..(N - 1) : W[i] \in Ending(cs, u) /\ W[i] # 0 /\ W[i] # e
  BY <1>4, <1>5, <1>7
<1> DEFINE S == {i \in 0..(N - 1) : Under(cs, e, W[i])}
<1>9. 0 \in S
  <2>1. 0 \in 0..(N - 1)
    BY <1>4
  <2>2. e # h
    BY <1>6, <1>7, <2>1
  <2>3. Under(cs, e, h)
    BY <1>2, <2>2 DEF IsFirst
  <2> QED
    BY <1>6, <2>1, <2>3
<1>10. \A i \in 0..((N - 1) - 1) : i \in S => i + 1 \in S
  <2> SUFFICES ASSUME NEW i \in 0..((N - 1) - 1), i \in S
               PROVE  i + 1 \in S
    OBVIOUS
  <2>1. i \in 0..(N - 1) /\ i + 1 \in 0..(N - 1) /\ i \in Nat
    BY <1>4
  <2>2. W[i] \in Ending(cs, u) /\ W[i] # 0 /\ Under(cs, e, W[i])
    BY <1>8, <2>1
  <2>3. W[i + 1] = cs[W[i]].next
    BY <1>6, <2>1, <2>2
  <2>4. e = W[i + 1] \/ Under(cs, e, W[i + 1])
    BY <2>2, <2>3, NextOfAll
  <2> QED
    BY <1>8, <2>1, <2>4
<1>11. N - 1 \in S
  <2>1. N - 1 \in Nat /\ N - 1 \in 0..(N - 1)
    BY <1>4
  <2> HIDE DEF S
  <2>2. \A i \in 0..(N - 1) : i \in S
    BY <1>9, <1>10, <2>1, InductionTo
  <2> QED
    BY <2>1, <2>2
<1>12. N - 1 \in Nat /\ (N - 1) + 1 = N /\ N - 1 \in 0..(N - 1)
  BY <1>4
<1>13. W[N - 1] \in Ending(cs, u) /\ W[N - 1] # 0 /\ Under(cs, e, W[N - 1])
  BY <1>8, <1>11, <1>12
<1>14. W[N] = cs[W[N - 1]].next
  BY <1>6, <1>12, <1>13
<1> QED
  BY <1>4, <1>13, <1>14, NextOfAll

\* Nor does one come twice.
LEMMA ListIsExact ==
  ASSUME Trie, NEW cs, NEW hs, Linking(cs, hs, {}, State), NEW u \in State, NEW h, h = hs[u]
  PROVE  ToSet(Cells(cs, h)) = Ending(cs, u) /\ IsInjective(Cells(cs, h))
<1> DEFINE W == WalkOf(cs, h)
           N == Length(cs, h)
<1>1. Descends(cs) /\ h \in 0..Len(cs) /\ Len(cs) \in Nat
  BY Descending, Heads DEF Descends
<1>2. /\ N \in 0..Len(cs) /\ \A m \in 0..(N - 1) : W[m] # 0
      /\ Cells(cs, h) = [i \in 1..N |-> W[i - 1]]
      /\ N # 0 => h # 0
  <2>1. /\ N \in 0..Len(cs) /\ \A m \in 0..(N - 1) : W[m] # 0
        /\ N = 0 <=> h = 0
    BY <1>1, ListIs
  <2>2. Cells(cs, h) = [i \in 1..Length(cs, h) |-> WalkOf(cs, h)[i - 1]]
    BY DEF Cells, Length, WalkOf
  <2> QED
    BY <2>1, <2>2
<1>3. N \in Nat
  BY <1>1, <1>2
<1>4. \A i \in 0..(N - 1) : W[i] \in Ending(cs, u)
  <2>1. CASE h = 0
    BY <1>2, <1>3, <2>1
  <2>2. CASE h # 0
    <3>1. h \in 1..Len(cs) /\ h \in Ending(cs, u)
      BY <1>1, <2>2, Heads
    <3> QED
      BY <1>1, <3>1, EndingClosed, ListWithin
  <2> QED
    BY <2>1, <2>2
<1>5. \A e \in Ending(cs, u) : \E i \in 0..(N - 1) : W[i] = e
  BY AllListed
<1>6. \A i, j \in 0..(N - 1) : i < j => W[i] # W[j]
  <2> SUFFICES ASSUME NEW i \in 0..(N - 1), NEW j \in 0..(N - 1), i < j
               PROVE  W[i] # W[j]
    OBVIOUS
  <2>1. N - 1 \in Nat
    BY <1>3
  <2>2. Under(cs, W[j], W[i])
    BY <1>1, <1>2, <2>1, ListDescends
  <2>3. Matches(cs) /\ W[i] \in 1..Len(cs)
    BY <1>4 DEF Linking, Ending
  <2>4. ~Under(cs, W[i], W[i])
    BY <2>3, CellOrder
  <2> QED
    BY <2>2, <2>4
<1> HIDE DEF W, N
<1> DEFINE list == [i \in 1..N |-> W[i - 1]]
<1>7. Cells(cs, h) = list /\ DOMAIN list = 1..N
  BY <1>2
<1>8. ToSet(list) = Ending(cs, u)
  <2>1. ASSUME NEW x \in ToSet(list)
        PROVE  x \in Ending(cs, u)
    <3>1. PICK i \in 1..N : x = W[i - 1]
      BY <2>1 DEF ToSet
    <3>2. i - 1 \in 0..(N - 1)
      BY <1>3
    <3> QED
      BY <1>4, <3>1, <3>2
  <2>2. ASSUME NEW x \in Ending(cs, u)
        PROVE  x \in ToSet(list)
    <3>1. PICK i \in 0..(N - 1) : W[i] = x
      BY <1>5
    <3>2. i + 1 \in 1..N /\ (i + 1) - 1 = i
      BY <1>3
    <3>3. list[i + 1] = x
      BY <3>1, <3>2
    <3> QED
      BY <3>2, <3>3 DEF ToSet
  <2> QED
    BY <2>1, <2>2
<1>9. IsInjective(list)
  <2> SUFFICES ASSUME NEW i \in 1..N, NEW j \in 1..N, list[i] = list[j]
               PROVE  i = j
    BY DEF IsInjective
  <2>1. i - 1 \in 0..(N - 1) /\ j - 1 \in 0..(N - 1) /\ W[i - 1] = W[j - 1]
    BY <1>3
  <2>2. ~(i - 1 < j - 1) /\ ~(j - 1 < i - 1)
    BY <1>6, <2>1
  <2> QED
    BY <2>2
<1> QED
  BY <1>7, <1>8, <1>9

\* In every phase the links are in some state of linking.
LEMMA InLinking ==
  ASSUME Construction
  PROVE  Trie /\ \E U, P : Linking(cells, heads, U, P)
<1>1. Trie /\ Matches(cells) /\ heads = [u \in State |-> heads[u]] /\ Root \in State
  BY DEF Construction, Trie
<1>2. CASE phase = "add"
  BY <1>1, <1>2 DEF Construction, Linking
<1>3. CASE phase = "link"
  <2>1. InOrder(queue) /\ Unlinked = Hanging(queue) /\ Rooted = Outside(queue)
    BY <1>3 DEF Construction, Breadth, InOrder, Unlinked, Hanging, Rooted, Outside
  <2>2. Root \in Rooted
    BY <1>1, <2>1, RootOutside
  <2> QED
    BY <1>1, <1>3, <2>2 DEF Construction, Linking
<1>4. CASE phase \notin {"add", "link"}
  BY <1>1, <1>4 DEF Construction, Linking
<1> QED
  BY <1>1, <1>2, <1>3, <1>4

\* Where the links are complete, each state lists what ends where it stands.
LEMMA ConstructionLists ==
  ASSUME Construction
  PROVE  ListsEnd /\ ListsComplete
<1>1. ListsEnd
  <2> SUFFICES ASSUME NEW s \in State
               PROVE  \E n \in 0..Len(cells) : WalkOf(cells, heads[s])[n] = 0
    BY DEF ListsEnd, WalkOf
  <2>1. PICK U, P : Linking(cells, heads, U, P)
    BY InLinking
  <2>2. Descends(cells) /\ heads[s] \in 0..Len(cells)
    BY <2>1, InLinking, Descending, Heads
  <2> QED
    BY <2>2, ListEnds
<1>2. ListsComplete
  <2> SUFFICES ASSUME phase \notin {"add", "link"}, NEW s \in State
               PROVE  /\ ToSet(Cells(cells, heads[s])) = Ending(cells, s)
                      /\ IsInjective(Cells(cells, heads[s]))
    BY DEF ListsComplete, Ending
  <2>1. Trie /\ Linking(cells, heads, {}, State)
    BY DEF Construction, Linking, Trie
  <2> QED
    BY <2>1, ListIsExact
<1> QED
  BY <1>1, <1>2

-----------------------------------------------------------------------------

\* Each step of the construction of the automaton, from any atoms, leaves the
\* trie, the lists of matches and the failure links as yr_ac_add_string and
\* _yr_ac_create_failure_links mean them to be at that step.
THEOREM ConstructionInvariance ==
  ASSUME NEW CONSTANT atoms, Atoms(atoms)
  PROVE  InitAutomaton(atoms) /\ [][Build]_automaton => []Construction
<1>1. InitAutomaton(atoms) => Construction
  BY FirstConstruction
<1>2. Construction /\ [Build]_automaton => Construction'
  BY BuildStep
<1> QED
  BY <1>1, <1>2, PTL

\* Linking never closes a list of matches into a ring, whatever the atoms.
THEOREM ListsAlwaysEnd ==
  ASSUME NEW CONSTANT atoms, Atoms(atoms)
  PROVE  InitAutomaton(atoms) /\ [][Build]_automaton => []ListsEnd
<1>1. Construction => ListsEnd
  BY ConstructionLists
<1> QED
  BY <1>1, ConstructionInvariance, PTL

\* Once the links are made, each state lists each atom that ends where it
\* stands, once.
THEOREM ListsAreComplete ==
  ASSUME NEW CONSTANT atoms, Atoms(atoms)
  PROVE  InitAutomaton(atoms) /\ [][Build]_automaton => []ListsComplete
<1>1. Construction => ListsComplete
  BY ConstructionLists
<1> QED
  BY <1>1, ConstructionInvariance, PTL

-----------------------------------------------------------------------------
(* Failure links are shortened. *)

\* A link that leads to the longest suffix skips nothing.
LEMMA FailsSkips ==
  ASSUME Trie, NEW u \in State, NEW f, Fails(f, u)
  PROVE  Skips(f, u)
<1>1. f \in Seq(Byte) /\ \A v \in State : v \in Seq(Byte) /\ Len(v) \in Nat
  BY DEF Trie, Fails
<1>2. ASSUME NEW v \in State, v # u, IsSuffix(v, u)
      PROVE  Len(v) <= Len(f)
  BY <1>1, <1>2, SuffixOrder DEF Fails
<1>3. \A v \in State : v # u /\ IsSuffix(v, u) => ~(Len(f) < Len(v))
  BY <1>1, <1>2
<1> QED
  BY <1>3 DEF Fails, Skips

\* One more state may be skipped if it accepts nothing more.
LEMMA SkipsOn ==
  ASSUME Trie, Shortened, NEW s \in State, failure[s] # Root, TransitionsSubset(s, failure[s])
  PROVE  s # Root /\ Skips(failure[failure[s]], s)
<1> DEFINE f == failure[s]
           g == failure[f]
<1>1. s # Root
  BY DEF Shortened
<1>2. Skips(f, s)
  BY <1>1 DEF Shortened
<1>3. f \in State /\ f # Root /\ IsSuffix(f, s)
  BY <1>2 DEF Skips
<1>4. Skips(g, f)
  BY <1>3 DEF Shortened
<1>5. g \in State /\ IsSuffix(g, f) /\ g # f
  BY <1>4 DEF Skips
<1>6. \A v \in State : v \in Seq(Byte) /\ Len(v) \in Nat
  BY DEF Trie
<1> HIDE DEF f, g
<1>7. IsSuffix(g, s) /\ Len(g) < Len(f) /\ Len(f) <= Len(s)
  <2>1. /\ IsSuffix(g, s) /\ Len(g) <= Len(f) /\ Len(f) <= Len(s)
        /\ Len(g) = Len(f) => g = f
    BY <1>3, <1>5, <1>6, SuffixOrder
  <2> QED
    BY <1>3, <1>5, <1>6, <2>1
<1>8. ASSUME NEW v \in State, v # s, IsSuffix(v, s), Len(g) < Len(v)
      PROVE  TransitionsSubset(s, v)
  <2>1. CASE Len(f) < Len(v)
    BY <1>2, <1>8, <2>1 DEF Skips
  <2>2. CASE v = f
    BY <2>2 DEF f
  <2>3. CASE ~(Len(f) < Len(v)) /\ v # f
    <3>1. IsSuffix(v, f)
      BY <1>3, <1>6, <1>8, <2>3, SuffixOrder
    <3>2. TransitionsSubset(f, v)
      BY <1>4, <1>8, <2>3, <3>1 DEF Skips
    <3>3. TransitionsSubset(s, f)
      BY DEF f
    <3> QED
      BY <3>2, <3>3 DEF TransitionsSubset
  <2> QED
    BY <2>1, <2>2, <2>3
<1>9. g # s
  BY <1>3, <1>5, <1>6, <1>7
<1>10. Skips(g, s)
  BY <1>5, <1>7, <1>8, <1>9 DEF Skips
<1> QED
  BY <1>1, <1>10 DEF f, g

\* What is skipped depends on the trie alone.
LEMMA SameSkips ==
  ASSUME UNCHANGED children
  PROVE  State' = State /\ \A f, u : Skips(f, u)' <=> Skips(f, u)
<1>1. State' = State
  BY DEF State
<1> QED
  BY <1>1 DEF Skips, TransitionsSubset

\* The links of all states, made in StartLinks and LinkState.
LEMMA StartShortened ==
  ASSUME Construction, StartOptimize
  PROVE  Shortened'
<1>1. /\ phase = "link" /\ queue = << >> /\ failure' = failure /\ children' = children
      /\ Trie /\ failure[Root] = Root
      /\ \A u \in State \ (Unlinked \cup {Root}) : Fails(failure[u], u)
  BY DEF Construction, StartOptimize, Enter
<1>2. Unlinked = {}
  <2>1. 1..Len(queue) = {}
    BY <1>1
  <2> QED
    BY <2>1 DEF Unlinked
<1>3. \A u \in State \ {Root} : Skips(failure[u], u)
  BY <1>1, <1>2, FailsSkips
<1> QED
  BY <1>1, <1>3, SameSkips DEF Shortened

\* OptimizeState shortens the link of one state.
LEMMA OptimizeShortened ==
  ASSUME Trie, Shortened, Breadth, OptimizeState
  PROVE  Shortened'
<1> DEFINE s == Head(queue)
<1>1. children' = children /\ failure = [u \in State |-> failure[u]]
  BY DEF OptimizeState, Trie
<1>2. CASE failure' = failure
  BY <1>1, <1>2, SameSkips DEF Shortened
<1>3. CASE /\ failure[s] # Root /\ TransitionsSubset(s, failure[s])
           /\ failure' = [failure EXCEPT ![s] = failure[failure[s]]]
  <2>1. InOrder(queue) /\ queue # << >>
    BY DEF Breadth, InOrder, OptimizeState
  <2>2. s \in State
    BY <2>1, FirstOfQueue
  <2>3. s # Root /\ Skips(failure[failure[s]], s)
    BY <1>3, <2>2, SkipsOn
  <2>4. failure'[Root] = Root
    BY <1>1, <1>3, <2>3 DEF Shortened, Trie
  <2>5. \A u \in State \ {Root} : Skips(failure'[u], u)
    BY <1>1, <1>3, <2>2, <2>3 DEF Shortened
  <2> QED
    BY <1>1, <2>4, <2>5, SameSkips DEF Shortened
<1> QED
  BY <1>2, <1>3 DEF OptimizeState

-----------------------------------------------------------------------------
(* Entries of the table. *)

\* Sizes of a row of the table.
LEMMA Widths ==
  /\ Width \in Nat /\ Width >= 1 /\ InitialSize \in Nat /\ InitialSize >= 2 * Width
  /\ \A b \in Byte : b \in Nat /\ b + 1 < Width
<1>1. Cardinality(Byte) \in Nat
  BY AutomatonAssumption, FS_CardinalityType
<1>2. \A b \in Byte : b \in 0..(Cardinality(Byte) - 1)
  BY AutomatonAssumption
<1> QED
  BY <1>1, <1>2, AutomatonAssumption DEF Width

\* The bytes of the children, as a set.
LEMMA ChildBytes ==
  ASSUME Trie, NEW u \in State
  PROVE  \A b : b \in ToSet(children[u]) <=> b \in Byte /\ HasChild(u, b)
<1>1. children[u] \in Seq(Byte)
  BY DEF Trie
<1>2. DOMAIN children[u] = 1..Len(children[u]) /\ \A i \in 1..Len(children[u]) : children[u][i] \in Byte
  BY <1>1
<1> QED
  BY <1>2 DEF ToSet, HasChild

\* What a state takes at k: the first entry, and one for each child.
TakenAre(u, k) ==
  /\ \A e \in Taken(u, k) : e \in Nat /\ k <= e /\ e < k + Width
  /\ \A e : e \in Taken(u, k) <=> e = k \/ \E b \in Byte : HasChild(u, b) /\ e = k + b + 1

\* Those entries lie within a row.
LEMMA TakenEntries ==
  ASSUME Trie, NEW u \in State, NEW k \in Nat
  PROVE  TakenAre(u, k)
<1>1. \A e : e \in Taken(u, k) <=> e = k \/ \E b \in Byte : HasChild(u, b) /\ e = k + b + 1
  BY ChildBytes DEF Taken
<1>2. \A b \in Byte : k + b + 1 \in Nat /\ k <= k + b + 1 /\ k + b + 1 < k + Width
  BY Widths
<1>3. k < k + Width
  BY Widths
<1> QED
  BY <1>1, <1>2, <1>3 DEF TakenAre

\* yr_bitmask_find_non_colliding_offset finds a slot, at the end at the latest.
LEMMA SuitableSlotIs ==
  ASSUME Trie, NEW s \in State, TableSize \in Nat, used \subseteq 0..(TableSize - 1)
  PROVE  SuitableSlot(s) \in 0..TableSize /\ Taken(s, SuitableSlot(s)) \cap used = {}
<1> DEFINE free == [k \in 0..TableSize |-> Taken(s, k) \cap used = {}]
           k    == FirstIn({TRUE}, free, TableSize)
<1>1. TableSize \in 0..TableSize
  OBVIOUS
<1>2. free[TableSize] \in {TRUE}
  <2>1. \A e \in Taken(s, TableSize) : e \in Nat /\ TableSize <= e
    BY TakenEntries DEF TakenAre
  <2>2. Taken(s, TableSize) \cap used = {}
    BY <2>1
  <2> QED
    BY <1>1, <2>2
<1> HIDE DEF free
<1>3. k \in 0..TableSize /\ free[k] \in {TRUE} /\ \A m \in 0..(k - 1) : free[m] \notin {TRUE}
  BY <1>1, <1>2, FirstPlace
<1> HIDE DEF k
<1>4. \A m \in 0..(k - 1) : m \in 0..TableSize
  BY <1>3
<1>5. /\ k \in 0..TableSize /\ Taken(s, k) \cap used = {}
      /\ \A lower \in 0..(k - 1) : Taken(s, lower) \cap used # {}
  BY <1>3, <1>4 DEF free
<1> QED
  BY <1>5 DEF SuitableSlot, TableSize

TableEntry == [to : Nat, offset : Nat]

\* The entries of the state s with a child each, at k.
IsWritten(n, t, s, k, w) ==
  /\ w \in [0..(n - 1) -> TableEntry]
  /\ \A b \in Byte : HasChild(s, b) => w[k + b + 1].offset = b + 1
  /\ \A e \in 0..(n - 1) : e \notin Taken(s, k) \/ e = k => w[e] = t[e]

\* WithChildren changes those entries, and no others.
LEMMA Written ==
  ASSUME Trie, NEW s \in State, NEW n \in Nat, NEW k \in Nat, k + Width <= n, NEW t \in [0..(n - 1) -> TableEntry]
  PROVE  IsWritten(n, t, s, k, WithChildren(t, s, k))
<1> DEFINE w == WithChildren(t, s, k)
           C == {e \in 0..(n - 1) : \E b \in Byte : HasChild(s, b) /\ e = k + b + 1}
<1>1. w = [e \in 0..(n - 1) |-> IF e \in C THEN [to |-> 0, offset |-> e - k] ELSE t[e]]
  <2>1. DOMAIN t = 0..(n - 1)
    OBVIOUS
  <2>2. \A e : (\E b \in ToSet(children[s]) : e = k + b + 1) <=> \E b \in Byte : HasChild(s, b) /\ e = k + b + 1
    BY ChildBytes
  <2>3. \A e \in 0..(n - 1) : (\E b \in ToSet(children[s]) : e = k + b + 1) <=> e \in C
    BY <2>2
  <2> HIDE DEF C
  <2> QED
    BY <2>1, <2>3 DEF WithChildren
<1>2. \A b \in Byte : HasChild(s, b) => k + b + 1 \in C /\ (k + b + 1) - k = b + 1 /\ k + b + 1 \in 0..(n - 1)
  BY Widths
<1>3. \A e \in C : e - k \in Nat
  BY Widths
<1>4. w \in [0..(n - 1) -> TableEntry]
  <2> HIDE DEF C
  <2>1. \A e \in C : [to |-> 0, offset |-> e - k] \in TableEntry
    BY <1>3 DEF TableEntry
  <2> HIDE DEF w
  <2> QED
    BY <1>1, <2>1
<1>5. \A b \in Byte : HasChild(s, b) => w[k + b + 1].offset = b + 1
  <2> SUFFICES ASSUME NEW b \in Byte, HasChild(s, b)
               PROVE  w[k + b + 1].offset = b + 1
    OBVIOUS
  <2> DEFINE e == k + b + 1
  <2>1. e \in C /\ e \in 0..(n - 1) /\ e - k = b + 1
    BY <1>2
  <2> HIDE DEF w, C, e
  <2>2. w[e] = [to |-> 0, offset |-> e - k]
    BY <1>1, <2>1
  <2>3. w[e].offset = b + 1
    BY <2>1, <2>2
  <2> QED
    BY <2>3 DEF e
<1>6. \A e \in 0..(n - 1) : e \notin Taken(s, k) \/ e = k => e \notin C
  <2>1. \A e \in C : e \in Taken(s, k) /\ e # k
    <3>1. \A b \in Byte : k + b + 1 # k
      BY Widths
    <3> QED
      BY <3>1, TakenEntries DEF TakenAre
  <2> QED
    BY <2>1
<1>7. \A e \in 0..(n - 1) : e \notin Taken(s, k) \/ e = k => w[e] = t[e]
  <2> HIDE DEF w, C
  <2> QED
    BY <1>1, <1>6
<1> QED
  BY <1>4, <1>5, <1>7 DEF IsWritten

-----------------------------------------------------------------------------

RowWith(n, t, m, sl, P, u) ==
  LET k == sl[u] IN
  /\ k \in Nat /\ k + Width <= n /\ failure[u] \in P
  /\ t[k] = [to |-> sl[failure[u]], offset |-> 0]
  /\ m[k] = heads[u]
  /\ \A b \in Byte : HasChild(u, b) =>
       /\ t[k + b + 1].offset = b + 1
       /\ Append(u, b) \in P => t[k + b + 1].to = sl[Append(u, b)]

\* The table t of n entries with the states of P, the slots sl, the heads m,
\* the entries us taken; those of Q are to come.
PackedWith(n, t, m, us, sl, P, Q) ==
  /\ n \in Nat /\ n >= Width
  /\ t \in [0..(n - 1) -> TableEntry]
  /\ sl[Root] = 0 /\ \A u \in P : RowWith(n, t, m, sl, P, u)
  /\ us = UNION {Taken(u, sl[u]) : u \in P}
  /\ \A u, v \in P : u # v => Taken(u, sl[u]) \cap Taken(v, sl[v]) = {}
  /\ \A e \in (0..(n - 1)) \ us : t[e].offset = 0
  /\ DOMAIN sl = P \cup Q
  /\ \A u \in P : \A b \in Byte :
       HasChild(u, b) /\ Append(u, b) \notin P => sl[Append(u, b)] = sl[u] + b + 1

\* The invariant of the table with its parts as parameters.
LEMMA PackedIs ==
  Packed <=> PackedWith(TableSize, table, matchTable, used, tableSlot, Placed, ToSet(queue))
<1>1. \A u : Row(u) <=> RowWith(TableSize, table, matchTable, tableSlot, Placed, u)
  BY DEF Row, RowWith
<1>2. \A u : TakenBy(u) = Taken(u, tableSlot[u])
  BY DEF TakenBy
<1> QED
  BY <1>1, <1>2 DEF Packed, PackedWith, TableEntry

\* The same after a step that leaves the trie, the links and the lists alone.
LEMMA PackedNext ==
  ASSUME UNCHANGED <<children, failure, heads>>
  PROVE  /\ State' = State /\ Placed' = Outside(queue')
         /\ Packed' <=> PackedWith(TableSize', table', matchTable', used', tableSlot', Outside(queue'), ToSet(queue'))
<1>1. State' = State /\ children' = children /\ failure' = failure /\ heads' = heads
  BY DEF State
<1>2. Placed' = Outside(queue')
  BY <1>1 DEF Placed, Rooted, Outside
<1>3. \A u, k : Taken(u, k)' = Taken(u, k)
  BY <1>1 DEF Taken
<1>4. \A u, b : HasChild(u, b)' <=> HasChild(u, b)
  BY <1>1 DEF HasChild
<1>5. \A u : Row(u)' <=> RowWith(TableSize', table', matchTable', tableSlot', Outside(queue'), u)
  BY <1>1, <1>2, <1>4 DEF Row, RowWith
<1>6. \A u : TakenBy(u)' = Taken(u, tableSlot'[u])
  BY <1>1 DEF TakenBy, Taken
<1>7. (UNION {TakenBy(u) : u \in Placed})' = UNION {Taken(u, tableSlot'[u]) : u \in Outside(queue')}
  BY <1>2, <1>6
<1>8. (\A u, v \in Placed : u # v => TakenBy(u) \cap TakenBy(v) = {})' <=>
        \A u, v \in Outside(queue') : u # v => Taken(u, tableSlot'[u]) \cap Taken(v, tableSlot'[v]) = {}
  BY <1>2, <1>6
<1>9. (\A u \in Placed : Row(u))' <=>
        \A u \in Outside(queue') : RowWith(TableSize', table', matchTable', tableSlot', Outside(queue'), u)
  BY <1>2, <1>5
<1>10. (\A u \in Placed : \A b \in Byte :
          HasChild(u, b) /\ Append(u, b) \notin Placed => tableSlot[Append(u, b)] = tableSlot[u] + b + 1)' <=>
        \A u \in Outside(queue') : \A b \in Byte :
          HasChild(u, b) /\ Append(u, b) \notin Outside(queue') => tableSlot'[Append(u, b)] = tableSlot'[u] + b + 1
  BY <1>2, <1>4
<1> QED
  BY <1>1, <1>2, <1>7, <1>8, <1>9, <1>10 DEF Packed, PackedWith, TableEntry

Wider(t, n, n2) == [e \in 0..(n2 - 1) |-> IF e < n THEN t[e] ELSE Empty]

\* A state gets its place k: the entry at p leads there, the one at k on.
Hung(o, p, k, link) == [o EXCEPT ![p].to = k, ![k] = [to |-> link, offset |-> 0]]

IsHung(D, o, p, k, link, h) ==
  /\ h \in [D -> TableEntry]
  /\ h[k] = [to |-> link, offset |-> 0]
  /\ h[p].to = k /\ h[p].offset = o[p].offset
  /\ \A e \in D : e # p /\ e # k => h[e] = o[e]

\* PlaceState changes two entries,
LEMMA HungEntries ==
  ASSUME NEW D, NEW o \in [D -> TableEntry], NEW p \in D, NEW k \in D, p # k, k \in Nat, NEW link \in Nat
  PROVE  IsHung(D, o, p, k, link, Hung(o, p, k, link))
<1> DEFINE mid == [o EXCEPT ![p].to = k]
           h   == [mid EXCEPT ![k] = [to |-> link, offset |-> 0]]
<1>1. Hung(o, p, k, link) = h
  BY DEF Hung
<1>2. o[p] \in TableEntry
  OBVIOUS
<1>3. o[p] = [to |-> o[p].to, offset |-> o[p].offset] /\ o[p].offset \in Nat
  BY <1>2 DEF TableEntry
<1>4. mid[p] = [to |-> k, offset |-> o[p].offset] /\ \A e \in D : e # p => mid[e] = o[e]
  BY <1>3
<1>5. mid \in [D -> TableEntry]
  <2>1. [to |-> k, offset |-> o[p].offset] \in TableEntry
    BY <1>3 DEF TableEntry
  <2>2. DOMAIN mid = D /\ mid = [e \in D |-> mid[e]]
    OBVIOUS
  <2> HIDE DEF mid
  <2> QED
    BY <1>4, <2>1, <2>2
<1>6. [to |-> link, offset |-> 0] \in TableEntry
  BY DEF TableEntry
<1> HIDE DEF mid
<1>7. h \in [D -> TableEntry] /\ h[k] = [to |-> link, offset |-> 0] /\ \A e \in D : e # k => h[e] = mid[e]
  BY <1>5, <1>6
<1> HIDE DEF h
<1>8. h[p].to = k /\ h[p].offset = o[p].offset
  BY <1>4, <1>7
<1>9. \A e \in D : e # p /\ e # k => h[e] = o[e]
  BY <1>4, <1>7
<1> QED
  BY <1>1, <1>7, <1>8, <1>9 DEF IsHung

IsGrown(n, t, us, s, k, p, link, n2, t2) ==
  /\ n2 \in Nat /\ n <= n2 /\ k + Width <= n2
  /\ t2 \in [0..(n2 - 1) -> TableEntry]
  /\ t2[k] = [to |-> link, offset |-> 0]
  /\ t2[p].to = k /\ t2[p].offset = t[p].offset
  /\ \A e \in us : e # p => t2[e] = t[e]
  /\ \A b \in Byte : HasChild(s, b) => t2[k + b + 1].offset = b + 1
  /\ \A e \in 0..(n2 - 1) : e \notin us /\ e \notin Taken(s, k) => t2[e].offset = 0

\* then those of the children; what others have taken stays.
LEMMA GrownTable ==
  ASSUME Trie, NEW s \in State, NEW n \in Nat, n >= Width, NEW t \in [0..(n - 1) -> TableEntry],
         NEW us, us \subseteq 0..(n - 1), \A e \in (0..(n - 1)) \ us : t[e].offset = 0,
         NEW k \in 0..n, Taken(s, k) \cap us = {}, NEW p \in us, NEW link \in Nat,
         NEW n2, n2 = IF k > n - Width THEN 2 * n ELSE n
  PROVE  IsGrown(n, t, us, s, k, p, link, n2, WithChildren(Hung(Wider(t, n, n2), p, k, link), s, k))
<1> DEFINE o == Wider(t, n, n2)
           h == Hung(o, p, k, link)
           w == WithChildren(h, s, k)
<1>1. n2 \in Nat /\ n <= n2 /\ k + Width <= n2 /\ k \in Nat /\ k \in 0..(n2 - 1)
  BY Widths
<1>2. o \in [0..(n2 - 1) -> TableEntry]
  <2>1. Empty \in TableEntry
    BY DEF Empty, TableEntry
  <2>2. \A e \in 0..(n2 - 1) : e < n => e \in 0..(n - 1)
    BY <1>1
  <2> QED
    BY <2>1, <2>2 DEF Wider
<1>3. /\ \A e \in us : e \in 0..(n2 - 1) /\ o[e] = t[e]
      /\ \A e \in 0..(n2 - 1) : e \notin us => o[e].offset = 0
  <2>1. \A e \in us : e \in 0..(n - 1) /\ e \in 0..(n2 - 1) /\ e < n
    BY <1>1
  <2>2. \A e \in us : e \in 0..(n2 - 1) /\ o[e] = t[e]
    BY <2>1 DEF Wider
  <2>3. ASSUME NEW e \in 0..(n2 - 1), e \notin us
        PROVE  o[e].offset = 0
    <3>1. CASE e < n
      <4>1. e \in (0..(n - 1)) \ us
        BY <1>1, <2>3, <3>1
      <4>2. o[e] = t[e]
        BY <3>1 DEF Wider
      <4> QED
        BY <4>1, <4>2
    <3>2. CASE ~(e < n)
      BY <3>2 DEF Wider, Empty
    <3> QED
      BY <3>1, <3>2
  <2> QED
    BY <2>2, <2>3
<1>4. k \notin us /\ p # k /\ p \in 0..(n2 - 1)
  <2>1. k \in Taken(s, k)
    BY DEF Taken
  <2> QED
    BY <1>3, <2>1
<1> HIDE DEF o
<1>5. IsHung(0..(n2 - 1), o, p, k, link, h)
  BY <1>1, <1>2, <1>4, HungEntries
<1> HIDE DEF h
<1>6. h \in [0..(n2 - 1) -> TableEntry]
  BY <1>5 DEF IsHung
<1>7. IsWritten(n2, h, s, k, w)
  BY <1>1, <1>6, Written
<1> HIDE DEF w
<1>8. w \in [0..(n2 - 1) -> TableEntry] /\ \A b \in Byte : HasChild(s, b) => w[k + b + 1].offset = b + 1
  BY <1>7 DEF IsWritten
<1>9. w[k] = h[k] /\ \A e \in 0..(n2 - 1) : e \notin Taken(s, k) => w[e] = h[e]
  BY <1>1, <1>7 DEF IsWritten
<1>10. w[p].to = k /\ w[p].offset = t[p].offset
  <2>1. p \notin Taken(s, k)
    OBVIOUS
  <2>2. w[p] = h[p]
    BY <1>4, <1>9, <2>1
  <2> QED
    BY <1>3, <1>5, <2>2 DEF IsHung
<1>11. \A e \in us : e # p => w[e] = t[e]
  <2> SUFFICES ASSUME NEW e \in us, e # p
               PROVE  w[e] = t[e]
    OBVIOUS
  <2>1. e \notin Taken(s, k) /\ e # k /\ e \in 0..(n2 - 1)
    BY <1>3, <1>4
  <2> QED
    BY <1>3, <1>5, <1>9, <2>1 DEF IsHung
<1>12. \A e \in 0..(n2 - 1) : e \notin us /\ e \notin Taken(s, k) => w[e].offset = 0
  <2> SUFFICES ASSUME NEW e \in 0..(n2 - 1), e \notin us, e \notin Taken(s, k)
               PROVE  w[e].offset = 0
    OBVIOUS
  <2>1. e # k /\ e # p
    BY DEF Taken
  <2>2. w[e] = o[e]
    BY <1>5, <1>9, <2>1 DEF IsHung
  <2> QED
    BY <1>3, <2>2
<1>13. w[k] = [to |-> link, offset |-> 0]
  BY <1>5, <1>9 DEF IsHung
<1>14. IsGrown(n, t, us, s, k, p, link, n2, w)
  BY <1>1, <1>8, <1>10, <1>11, <1>12, <1>13 DEF IsGrown
<1> QED
  BY <1>14 DEF w, h, o

\* The children of a state, as a set.
LEMMA ChildSet ==
  ASSUME Trie, NEW s \in State
  PROVE  \A c : c \in ToSet(Children(s)) <=> \E b \in Byte : HasChild(s, b) /\ c = Append(s, b)
<1>1. /\ DOMAIN Children(s) = 1..Len(children[s])
      /\ \A i \in 1..Len(children[s]) : Children(s)[i] = Append(s, children[s][i]) /\ children[s][i] \in Byte
  <2>1. Children(s) = [i \in 1..Len(children[s]) |-> Append(s, children[s][i])]
    BY DEF Children
  <2>2. \A i \in 1..Len(children[s]) : children[s][i] \in Byte
    BY ChildrenAre
  <2> QED
    BY <2>1, <2>2
<1> DEFINE k == Children(s)
<1>2. \A c : c \in ToSet(k) <=> \E i \in 1..Len(children[s]) : c = k[i]
  <2>1. DOMAIN k = 1..Len(children[s])
    BY <1>1
  <2> HIDE DEF k
  <2> QED
    BY <2>1 DEF ToSet
<1>3. \A i \in 1..Len(children[s]) : k[i] = Append(s, children[s][i]) /\ children[s][i] \in Byte
  BY <1>1
<1> HIDE DEF k
<1>4. ASSUME NEW c, c \in ToSet(k)
      PROVE  \E b \in Byte : HasChild(s, b) /\ c = Append(s, b)
  <2>1. PICK i \in 1..Len(children[s]) : c = k[i]
    BY <1>2, <1>4
  <2>2. HasChild(s, children[s][i])
    BY DEF HasChild
  <2> QED
    BY <2>1, <2>2, <1>3
<1>5. ASSUME NEW b \in Byte, HasChild(s, b)
      PROVE  Append(s, b) \in ToSet(k)
  <2>1. PICK i \in 1..Len(children[s]) : children[s][i] = b
    BY <1>5 DEF HasChild
  <2>2. k[i] = Append(s, b)
    BY <2>1, <1>3
  <2> QED
    BY <2>2, <1>2
<1>6. \A c : c \in ToSet(k) <=> \E b \in Byte : HasChild(s, b) /\ c = Append(s, b)
  BY <1>4, <1>5
<1> QED
  BY <1>6 DEF k

\* The state s gets the slot k, its children the entries behind.
IsMoved(sl, s, k, sl2) ==
  /\ DOMAIN sl2 = DOMAIN sl \cup ToSet(Children(s))
  /\ sl2[s] = k
  /\ \A b \in Byte : HasChild(s, b) => sl2[Append(s, b)] = k + b + 1
  /\ \A u \in DOMAIN sl : u # s /\ u \notin ToSet(Children(s)) => sl2[u] = sl[u]

\* SlotsWithChildren changes the slots of a state and its children.
LEMMA MovedSlots ==
  ASSUME Trie, NEW s \in State, NEW sl, s \in DOMAIN sl, NEW k
  PROVE  IsMoved(sl, s, k, SlotsWithChildren([sl EXCEPT ![s] = k], s, k))
<1> DEFINE at1 == [sl EXCEPT ![s] = k]
           C   == ToSet(Children(s))
           sl2 == SlotsWithChildren(at1, s, k)
<1>1. DOMAIN at1 = DOMAIN sl /\ at1[s] = k /\ \A u \in DOMAIN sl : u # s => at1[u] = sl[u]
  OBVIOUS
<1> HIDE DEF at1
<1>2. sl2 = [c \in DOMAIN sl \cup C |-> IF c \in C THEN k + Last(c) + 1 ELSE at1[c]]
  BY <1>1 DEF SlotsWithChildren
<1>3. s \in Seq(Byte)
  BY DEF Trie
<1>4. \A b \in Byte : HasChild(s, b) => Append(s, b) \in C
  BY ChildSet
<1>5. \A b \in Byte : Last(Append(s, b)) = b
  <2> SUFFICES ASSUME NEW b \in Byte
               PROVE  Last(Append(s, b)) = b
    OBVIOUS
  <2>1. Len(Append(s, b)) = Len(s) + 1 /\ Append(s, b)[Len(s) + 1] = b
    BY <1>3, Appended
  <2> QED
    BY <2>1 DEF Last
<1>6. s \notin C
  <2>1. \A b \in Byte : Append(s, b) # s
    <3> SUFFICES ASSUME NEW b \in Byte
                 PROVE  Append(s, b) # s
      OBVIOUS
    <3>1. Len(Append(s, b)) = Len(s) + 1 /\ Len(s) \in Nat
      BY <1>3, Appended
    <3> QED
      BY <3>1
  <2> QED
    BY <2>1, ChildSet
<1> HIDE DEF C
<1>7. \A b \in Byte : HasChild(s, b) => sl2[Append(s, b)] = k + b + 1
  BY <1>2, <1>4, <1>5
<1>8. DOMAIN sl2 = DOMAIN sl \cup C /\ sl2[s] = k
  BY <1>1, <1>2, <1>6
<1>9. \A u \in DOMAIN sl : u # s /\ u \notin C => sl2[u] = sl[u]
  BY <1>1, <1>2
<1>10. IsMoved(sl, s, k, sl2)
  BY <1>7, <1>8, <1>9 DEF IsMoved, C
<1> QED
  BY <1>10 DEF at1

\* The place of the state s among those placed and those to come.
IsNext(s, P, Q) ==
  /\ P \subseteq State /\ Q \subseteq State /\ Root \in P
  /\ s \in Q /\ s \notin P /\ s # Root /\ failure[s] \in P
  /\ \A b \in Byte : HasChild(s, b) => Append(s, b) \notin P \cup Q
  /\ \A u \in P : \A b \in Byte : HasChild(u, b) => Append(u, b) \in P \cup Q

\* The parent of s is placed, and its entry for s holds the place of s so far.
IsParent(s, f, b, P, sl, us) ==
  /\ f \in P /\ b \in Byte /\ HasChild(f, b) /\ s = Append(f, b)
  /\ sl[s] = sl[f] + b + 1 /\ sl[s] \in us

\* What the entries of placed states are after another one was placed.
KeptRows(t, t2, sl, sl2, P, us, s, k) ==
  /\ \A u \in P : /\ sl2[u] = sl[u] /\ sl[u] \in Nat /\ sl[u] # k /\ t2[sl[u]] = t[sl[u]]
                  /\ \A b \in Byte : HasChild(u, b) =>
                       /\ t2[sl[u] + b + 1].offset = t[sl[u] + b + 1].offset
                       /\ Append(u, b) = s => t2[sl[u] + b + 1].to = k
                       /\ Append(u, b) \in P => t2[sl[u] + b + 1] = t[sl[u] + b + 1]

\* Only the entry that leads to the new state changes, in the row of its parent.
LEMMA KeptEntries ==
  ASSUME Trie, NEW n, NEW t, NEW m, NEW us, NEW sl, NEW P, NEW Q, PackedWith(n, t, m, us, sl, P, Q),
         NEW s, IsNext(s, P, Q), NEW f, NEW c, IsParent(s, f, c, P, sl, us),
         NEW k \in 0..n, Taken(s, k) \cap us = {},
         NEW n2, NEW t2, IsGrown(n, t, us, s, k, sl[s], sl[failure[s]], n2, t2),
         NEW sl2, IsMoved(sl, s, k, sl2)
  PROVE  KeptRows(t, t2, sl, sl2, P, us, s, k)
<1> DEFINE p == sl[s]
<1>1. /\ P \subseteq State /\ s \notin P /\ DOMAIN sl = P \cup Q /\ s \in State
      /\ \A u \in P : sl[u] \in Nat
      /\ \A u \in P : Taken(u, sl[u]) \subseteq us
      /\ \A u, v \in P : u # v => Taken(u, sl[u]) \cap Taken(v, sl[v]) = {}
  <2>1. P \subseteq State /\ s \notin P /\ DOMAIN sl = P \cup Q /\ s \in State
    BY DEF PackedWith, IsNext
  <2>2. \A u \in P : RowWith(n, t, m, sl, P, u)
    BY DEF PackedWith
  <2>3. \A u \in P : sl[u] \in Nat
    BY <2>2 DEF RowWith
  <2>4. us = UNION {Taken(u, sl[u]) : u \in P}
    BY DEF PackedWith
  <2>5. \A u \in P : Taken(u, sl[u]) \subseteq us
    BY <2>4
  <2>6. \A u, v \in P : u # v => Taken(u, sl[u]) \cap Taken(v, sl[v]) = {}
    BY DEF PackedWith
  <2> QED
    BY <2>1, <2>3, <2>5, <2>6
<1>2. \A u \in P : /\ sl[u] \in Taken(u, sl[u])
                   /\ \A b \in Byte : HasChild(u, b) => sl[u] + b + 1 \in Taken(u, sl[u])
  BY <1>1, TakenEntries DEF TakenAre
<1>3. k \in Taken(s, k)
  BY DEF Taken
<1>4. \A u \in P : u # s /\ u \notin ToSet(Children(s))
  <2>1. \A u : u \in ToSet(Children(s)) => u \notin P
    <3>1. \A b \in Byte : HasChild(s, b) => Append(s, b) \notin P
      BY DEF IsNext
    <3> SUFFICES ASSUME NEW u, u \in ToSet(Children(s))
                 PROVE  u \notin P
      OBVIOUS
    <3>2. \E b \in Byte : HasChild(s, b) /\ u = Append(s, b)
      BY <1>1, ChildSet
    <3> QED
      BY <3>1, <3>2
  <2> QED
    BY <1>1, <2>1
<1>5. \A u \in P : sl2[u] = sl[u] /\ sl[u] # k
  BY <1>1, <1>2, <1>3, <1>4 DEF IsMoved
<1>6. f \in P /\ c \in Byte /\ HasChild(f, c) /\ s = Append(f, c) /\ p = sl[f] + c + 1
  BY DEF IsParent
<1>7. t2[p].to = k /\ t2[p].offset = t[p].offset /\ \A e \in us : e # p => t2[e] = t[e]
  BY DEF IsGrown
<1>8. \A b \in Byte : b \in Nat
  BY Widths
<1>9. \A u \in P : sl[u] # p
  <2> SUFFICES ASSUME NEW u \in P
               PROVE  sl[u] # p
    OBVIOUS
  <2>1. CASE u = f
    BY <1>1, <1>6, <1>8, <2>1
  <2>2. CASE u # f
    BY <1>1, <1>2, <1>6, <2>2
  <2> QED
    BY <2>1, <2>2
<1> SUFFICES ASSUME NEW u \in P
             PROVE  /\ sl2[u] = sl[u] /\ sl[u] \in Nat /\ sl[u] # k /\ t2[sl[u]] = t[sl[u]]
                    /\ \A b \in Byte : HasChild(u, b) =>
                         /\ t2[sl[u] + b + 1].offset = t[sl[u] + b + 1].offset
                         /\ Append(u, b) = s => t2[sl[u] + b + 1].to = k
                         /\ Append(u, b) \in P => t2[sl[u] + b + 1] = t[sl[u] + b + 1]
  BY DEF KeptRows
<1>10. t2[sl[u]] = t[sl[u]]
  BY <1>1, <1>2, <1>7, <1>9
<1>11. ASSUME NEW b \in Byte, HasChild(u, b)
       PROVE  /\ t2[sl[u] + b + 1].offset = t[sl[u] + b + 1].offset
              /\ Append(u, b) = s => t2[sl[u] + b + 1].to = k
              /\ Append(u, b) \in P => t2[sl[u] + b + 1] = t[sl[u] + b + 1]
  <2> DEFINE e == sl[u] + b + 1
  <2>1. e \in us
    BY <1>1, <1>2, <1>11
  <2>2. Append(u, b) = s => u = f /\ b = c
    <3>1. u \in Seq(Byte) /\ f \in Seq(Byte)
      BY <1>1, <1>6 DEF Trie
    <3> QED
      BY <3>1, <1>6, AppendedOnce
  <2>3. e = p => Append(u, b) = s
    <3>1. e \in Taken(u, sl[u]) /\ p \in Taken(f, sl[f])
      BY <1>2, <1>6, <1>11
    <3>2. e = p => u = f
      BY <3>1, <1>1, <1>6
    <3>3. u = f /\ e = p => b = c
      BY <1>1, <1>6, <1>8
    <3> QED
      BY <3>2, <3>3, <1>6
  <2>4. Append(u, b) = s => e = p
    BY <2>2, <1>6
  <2> HIDE DEF e, p
  <2>5. t2[e].offset = t[e].offset
    BY <2>1, <1>7
  <2>6. Append(u, b) = s => t2[e].to = k
    BY <2>4, <1>7
  <2>7. Append(u, b) \in P => t2[e] = t[e]
    BY <1>1, <1>7, <2>1, <2>3
  <2> QED
    BY <2>5, <2>6, <2>7 DEF e
<1> QED
  BY <1>1, <1>5, <1>10, <1>11

\* So one more state has its own entries.
LEMMA Placing ==
  ASSUME Trie, NEW n, NEW t, NEW m, NEW us, NEW sl, NEW P, NEW Q, PackedWith(n, t, m, us, sl, P, Q),
         NEW s, IsNext(s, P, Q), NEW f, NEW c, IsParent(s, f, c, P, sl, us),
         NEW k \in 0..n, Taken(s, k) \cap us = {},
         NEW n2, NEW t2, IsGrown(n, t, us, s, k, sl[s], sl[failure[s]], n2, t2),
         NEW sl2, IsMoved(sl, s, k, sl2),
         NEW m2, m2[k] = heads[s], \A e \in 0..(n - 1) : e # k => m2[e] = m[e]
  PROVE  PackedWith(n2, t2, m2, us \cup Taken(s, k), sl2, P \cup {s}, (Q \ {s}) \cup ToSet(Children(s)))
<1> DEFINE P2 == P \cup {s}
           C  == ToSet(Children(s))
<1>1. /\ P \subseteq State /\ Q \subseteq State /\ s \notin P /\ s \in Q /\ DOMAIN sl = P \cup Q /\ s \in State /\ s # Root
      /\ Root \in P /\ failure[s] \in P
      /\ \A b \in Byte : HasChild(s, b) => Append(s, b) \notin P \cup Q
      /\ \A u \in P : \A b \in Byte : HasChild(u, b) => Append(u, b) \in P \cup Q
  BY DEF PackedWith, IsNext
<1>2. /\ n \in Nat /\ n >= Width /\ sl[Root] = 0
      /\ us = UNION {Taken(u, sl[u]) : u \in P}
      /\ \A u, v \in P : u # v => Taken(u, sl[u]) \cap Taken(v, sl[v]) = {}
      /\ \A u \in P : \A b \in Byte : HasChild(u, b) /\ Append(u, b) \notin P => sl[Append(u, b)] = sl[u] + b + 1
  BY DEF PackedWith
<1>3. \A u \in P : RowWith(n, t, m, sl, P, u)
  BY DEF PackedWith
<1>4. KeptRows(t, t2, sl, sl2, P, us, s, k)
  BY KeptEntries
<1>5. /\ n2 \in Nat /\ n <= n2 /\ k + Width <= n2 /\ k \in Nat
      /\ t2 \in [0..(n2 - 1) -> TableEntry]
      /\ t2[k] = [to |-> sl[failure[s]], offset |-> 0]
      /\ \A b \in Byte : HasChild(s, b) => t2[k + b + 1].offset = b + 1
      /\ \A e \in 0..(n2 - 1) : e \notin us /\ e \notin Taken(s, k) => t2[e].offset = 0
  BY DEF IsGrown
<1>6. /\ DOMAIN sl2 = DOMAIN sl \cup C /\ sl2[s] = k
      /\ \A b \in Byte : HasChild(s, b) => sl2[Append(s, b)] = k + b + 1
      /\ \A u \in DOMAIN sl : u # s /\ u \notin C => sl2[u] = sl[u]
  BY DEF IsMoved
<1>7. Width \in Nat /\ Width >= 1 /\ \A b \in Byte : b \in Nat
  BY Widths
<1>8. \A u \in P : sl2[u] = sl[u]
  BY <1>4 DEF KeptRows
<1>9. ASSUME NEW u \in P
      PROVE  RowWith(n2, t2, m2, sl2, P2, u)
  <2> DEFINE j == sl[u]
  <2>1. j \in Nat /\ j + Width <= n /\ failure[u] \in P
        /\ t[j] = [to |-> sl[failure[u]], offset |-> 0]
        /\ m[j] = heads[u]
        /\ \A b \in Byte : HasChild(u, b) =>
             /\ t[j + b + 1].offset = b + 1
             /\ Append(u, b) \in P => t[j + b + 1].to = sl[Append(u, b)]
    BY <1>3 DEF RowWith
  <2>2. sl2[u] = j /\ j # k /\ t2[j] = t[j]
        /\ \A b \in Byte : HasChild(u, b) =>
                       /\ t2[j + b + 1].offset = t[j + b + 1].offset
                       /\ Append(u, b) = s => t2[j + b + 1].to = k
                       /\ Append(u, b) \in P => t2[j + b + 1] = t[j + b + 1]
    BY <1>4 DEF KeptRows
  <2> HIDE DEF j
  <2>3. j + Width <= n2 /\ j \in 0..(n - 1)
    BY <1>2, <1>5, <1>7, <2>1
  <2>4. sl2[failure[u]] = sl[failure[u]] /\ failure[u] \in P2
    BY <1>8, <2>1
  <2>5. m2[j] = heads[u]
    BY <2>1, <2>2, <2>3
  <2>6. ASSUME NEW b \in Byte, HasChild(u, b)
        PROVE  /\ t2[j + b + 1].offset = b + 1
               /\ Append(u, b) \in P2 => t2[j + b + 1].to = sl2[Append(u, b)]
    <3> DEFINE e == j + b + 1
    <3>1. t[e].offset = b + 1 /\ t2[e].offset = t[e].offset
          /\ (Append(u, b) \in P => t[e].to = sl[Append(u, b)])
          /\ (Append(u, b) = s => t2[e].to = k)
          /\ (Append(u, b) \in P => t2[e] = t[e])
      BY <2>1, <2>2, <2>6
    <3> HIDE DEF e
    <3>2. Append(u, b) \in P2 => t2[e].to = sl2[Append(u, b)]
      BY <3>1, <1>6, <1>8
    <3> QED
      BY <3>1, <3>2 DEF e
  <2>7. t2[j] = [to |-> sl2[failure[u]], offset |-> 0]
    BY <2>1, <2>2, <2>4
  <2> HIDE DEF P2
  <2> QED
    BY <2>1, <2>2, <2>3, <2>4, <2>5, <2>6, <2>7 DEF RowWith
<1>10. RowWith(n2, t2, m2, sl2, P2, s)
  <2>1. \A b \in Byte : HasChild(s, b) => Append(s, b) \notin P2
    BY <1>1
  <2>2. sl2[failure[s]] = sl[failure[s]] /\ failure[s] \in P2
    BY <1>1, <1>8
  <2> HIDE DEF P2
  <2>3. t2[k] = [to |-> sl2[failure[s]], offset |-> 0]
    BY <1>5, <2>2
  <2> QED
    BY <1>5, <1>6, <2>1, <2>2, <2>3 DEF RowWith
<1>11. us \cup Taken(s, k) = UNION {Taken(u, sl2[u]) : u \in P2}
  <2>1. UNION {Taken(u, sl2[u]) : u \in P2} = (UNION {Taken(u, sl2[u]) : u \in P}) \cup Taken(s, sl2[s])
    OBVIOUS
  <2>2. UNION {Taken(u, sl2[u]) : u \in P} = UNION {Taken(u, sl[u]) : u \in P}
    BY <1>8
  <2> QED
    BY <2>1, <2>2, <1>2, <1>6
<1>12. \A u, v \in P2 : u # v => Taken(u, sl2[u]) \cap Taken(v, sl2[v]) = {}
  <2>1. \A u \in P : Taken(u, sl2[u]) = Taken(u, sl[u]) /\ Taken(u, sl[u]) \subseteq us
    BY <1>2, <1>8
  <2>2. Taken(s, sl2[s]) \cap us = {}
    BY <1>6
  <2> SUFFICES ASSUME NEW u \in P2, NEW v \in P2, u # v
               PROVE  Taken(u, sl2[u]) \cap Taken(v, sl2[v]) = {}
    OBVIOUS
  <2>3. CASE u \in P /\ v \in P
    BY <2>1, <2>3, <1>2
  <2>4. CASE u = s /\ v \in P
    BY <2>1, <2>2, <2>4
  <2>5. CASE u \in P /\ v = s
    BY <2>1, <2>2, <2>5
  <2> QED
    BY <2>3, <2>4, <2>5
<1>13. \A e \in (0..(n2 - 1)) \ (us \cup Taken(s, k)) : t2[e].offset = 0
  BY <1>5
<1>14. DOMAIN sl2 = P2 \cup ((Q \ {s}) \cup C)
  BY <1>1, <1>6
<1>15. \A u \in P2 : \A b \in Byte :
         HasChild(u, b) /\ Append(u, b) \notin P2 => sl2[Append(u, b)] = sl2[u] + b + 1
  <2> SUFFICES ASSUME NEW u \in P2, NEW b \in Byte, HasChild(u, b), Append(u, b) \notin P2
               PROVE  sl2[Append(u, b)] = sl2[u] + b + 1
    OBVIOUS
  <2>1. CASE u = s
    BY <1>6, <2>1
  <2>2. CASE u \in P
    <3> DEFINE v == Append(u, b)
    <3>1. v \in Q /\ v # s /\ v \notin P
      BY <1>1, <2>2
    <3>2. v \notin C
      <4> SUFFICES ASSUME v \in C
                   PROVE  FALSE
        OBVIOUS
      <4>1. \E d \in Byte : HasChild(s, d) /\ v = Append(s, d)
        BY <1>1, ChildSet
      <4> QED
        BY <4>1, <1>1, <3>1
    <3> HIDE DEF C
    <3>3. sl2[v] = sl[v]
      BY <3>1, <3>2, <1>1, <1>6
    <3>4. sl[v] = sl[u] + b + 1
      BY <2>2, <3>1, <1>2
    <3> QED
      BY <3>3, <3>4, <2>2, <1>8
  <2> QED
    BY <2>1, <2>2
<1>16. n2 >= Width /\ sl2[Root] = 0
  BY <1>1, <1>2, <1>5, <1>7, <1>8
<1>17. \A u \in P2 : RowWith(n2, t2, m2, sl2, P2, u)
  BY <1>9, <1>10
<1> HIDE DEF P2, C
<1>18. PackedWith(n2, t2, m2, us \cup Taken(s, k), sl2, P2, (Q \ {s}) \cup C)
  BY <1>5, <1>11, <1>12, <1>13, <1>14, <1>15, <1>16, <1>17 DEF PackedWith
<1> QED
  BY <1>18 DEF P2, C

-----------------------------------------------------------------------------
(* What the queue holds.                                                   *)

\* What a sequence holds.
LEMMA InSet ==
  ASSUME NEW S, NEW q \in Seq(S)
  PROVE  \A x : x \in ToSet(q) <=> \E i \in 1..Len(q) : x = q[i]
BY DEF ToSet

\* A state shorter than the first of the queue has left it.
LEMMA ShorterOutside ==
  ASSUME Trie, NEW q, InOrder(q), q # << >>, NEW s, s = Head(q), NEW v \in State, Len(v) < Len(s)
  PROVE  v \in Outside(q)
<1>1. s \in State /\ s = q[1] /\ Len(q) >= 1
  BY FirstOfQueue
<1>2. Len(q) \in Nat /\ \A i \in 1..Len(q) : q[i] \in Seq(Byte) /\ Len(q[i]) \in Nat
  BY InQueue
<1>3. \A i \in 1..Len(q) : Len(s) <= Len(q[i])
  <2>1. \A i \in 2..Len(q) : Len(q[1]) <= Len(q[i])
    BY <1>1, <1>2 DEF InOrder
  <2> QED
    BY <1>1, <1>2, <2>1
<1>4. v \in Seq(Byte) /\ Len(v) \in Nat /\ Len(s) \in Nat
  BY <1>1 DEF Trie
<1>5. \A i \in 1..Len(q) : ~IsPrefix(q[i], v)
  <2> SUFFICES ASSUME NEW i \in 1..Len(q), IsPrefix(q[i], v)
               PROVE  FALSE
    OBVIOUS
  <2>1. Len(q[i]) <= Len(v)
    BY <1>2, <1>4, PrefixOrder
  <2> QED
    BY <2>1, <1>2, <1>3, <1>4
<1> QED
  BY <1>5 DEF Outside

\* A child of a state that left the queue left it, or is in it.
LEMMA ChildOfOutside ==
  ASSUME Trie, NEW q, InOrder(q), NEW u \in Outside(q), NEW b \in Byte, HasChild(u, b)
  PROVE  Append(u, b) \in Outside(q) \cup ToSet(q)
<1> DEFINE v == Append(u, b)
<1>1. u \in State /\ u \in Seq(Byte) /\ v \in State
  BY DEF Trie, Outside
<1>2. Len(q) \in Nat /\ \A i \in 1..Len(q) : q[i] \in Seq(Byte)
  BY InQueue
<1>3. q \in Seq(State \ {Root})
  BY DEF InOrder
<1>4. CASE \A i \in 1..Len(q) : ~IsPrefix(q[i], v)
  BY <1>1, <1>4 DEF Outside
<1>5. CASE \E i \in 1..Len(q) : IsPrefix(q[i], v)
  <2>1. PICK i \in 1..Len(q) : IsPrefix(q[i], v)
    BY <1>5
  <2>2. ~IsPrefix(q[i], u)
    BY DEF Outside
  <2>3. q[i] = v
    BY <1>1, <1>2, <2>1, <2>2, PrefixOfAppended
  <2> QED
    BY <1>3, <2>3, InSet
<1> QED
  BY <1>4, <1>5

\* The queue loses its first state and gets its children.
LEMMA PoppedSet ==
  ASSUME Trie, NEW q, InOrder(q), q # << >>, NEW s, s = Head(q)
  PROVE  ToSet(Tail(q) \o Children(s)) = (ToSet(q) \ {s}) \cup ToSet(Children(s))
<1> DEFINE r == Tail(q) \o Children(s)
<1>1. s \in State /\ s # Root /\ s = q[1] /\ Len(q) >= 1
  BY FirstOfQueue
<1>2. Len(q) \in Nat /\ \A i \in 1..Len(q) : q[i] \in State /\ q[i] \in Seq(Byte) /\ Len(q[i]) \in Nat
  BY InQueue
<1>3. Entries(q, r, s)
  BY QueuePopped
<1>4. /\ \A x : x \in ToSet(q) <=> \E i \in 1..Len(q) : x = q[i]
      /\ \A x : x \in ToSet(r) <=> \E i \in 1..Len(r) : x = r[i]
      /\ \A x : x \in ToSet(Children(s)) <=> \E j \in 1..Len(children[s]) : x = Append(s, children[s][j])
  <2>1. q \in Seq(State \ {Root}) /\ r \in Seq(State \ {Root})
    BY <1>3 DEF InOrder, Entries
  <2>2. /\ Children(s) \in Seq(State \ {Root}) /\ Len(Children(s)) = Len(children[s])
        /\ \A i \in 1..Len(children[s]) : Children(s)[i] = Append(s, children[s][i])
    BY <1>1, ChildSequence
  <2>3. \A x : x \in ToSet(Children(s)) <=> \E j \in 1..Len(Children(s)) : x = Children(s)[j]
    BY <2>2, InSet
  <2> HIDE DEF r
  <2>4. \A x : x \in ToSet(q) <=> \E i \in 1..Len(q) : x = q[i]
    BY <2>1, InSet
  <2>5. \A x : x \in ToSet(r) <=> \E i \in 1..Len(r) : x = r[i]
    BY <2>1, InSet
  <2> DEFINE k == Children(s)
  <2>6. Len(k) = Len(children[s]) /\ (\A i \in 1..Len(children[s]) : k[i] = Append(s, children[s][i]))
        /\ \A x : x \in ToSet(k) <=> \E j \in 1..Len(k) : x = k[j]
    BY <2>2, <2>3
  <2> HIDE DEF k
  <2>7. \A x : x \in ToSet(k) <=> \E j \in 1..Len(children[s]) : x = Append(s, children[s][j])
    <3> TAKE x
    <3>1. x \in ToSet(k) => \E j \in 1..Len(children[s]) : x = Append(s, children[s][j])
      <4> SUFFICES ASSUME x \in ToSet(k)
                   PROVE  \E j \in 1..Len(children[s]) : x = Append(s, children[s][j])
        OBVIOUS
      <4>1. PICK j \in 1..Len(k) : x = k[j]
        BY <2>6
      <4>2. j \in 1..Len(children[s]) /\ k[j] = Append(s, children[s][j])
        BY <2>6
      <4> QED
        BY <4>1, <4>2
    <3>2. ASSUME NEW j \in 1..Len(children[s]), x = Append(s, children[s][j])
          PROVE  x \in ToSet(k)
      <4>1. j \in 1..Len(k) /\ x = k[j]
        BY <2>6, <3>2
      <4> QED
        BY <4>1, <2>6
    <3> QED
      BY <3>1, <3>2
  <2> QED
    BY <2>4, <2>5, <2>7 DEF k
<1> HIDE DEF r
<1>5. \A i \in 2..Len(q) : q[i] # s
  <2> SUFFICES ASSUME NEW i \in 2..Len(q), q[i] = s
               PROVE  FALSE
    OBVIOUS
  <2>1. IsPrefix(s, s)
    BY <1>1, <1>2, PrefixOrder
  <2>2. ~IsPrefix(q[1], q[i])
    BY <1>1, <1>2 DEF InOrder
  <2> QED
    BY <2>1, <2>2, <1>1
<1>6. \A x : x \in ToSet(r) => x \in (ToSet(q) \ {s}) \cup ToSet(Children(s))
  <2> SUFFICES ASSUME NEW x, x \in ToSet(r)
               PROVE  x \in (ToSet(q) \ {s}) \cup ToSet(Children(s))
    OBVIOUS
  <2>1. PICK i \in 1..Len(r) : x = r[i]
    BY <1>4
  <2>2. CASE i + 1 \in 2..Len(q) /\ r[i] = q[i + 1]
    BY <1>2, <1>4, <1>5, <2>1, <2>2
  <2>3. CASE \E j \in 1..Len(children[s]) : i = (Len(q) - 1) + j /\ r[i] = Append(s, children[s][j])
    BY <1>4, <2>1, <2>3
  <2> QED
    BY <2>2, <2>3, <1>3 DEF Entries
<1>7. \A x : x \in ToSet(q) /\ x # s => x \in ToSet(r)
  <2> SUFFICES ASSUME NEW x, x \in ToSet(q), x # s
               PROVE  x \in ToSet(r)
    OBVIOUS
  <2>1. PICK i \in 1..Len(q) : x = q[i]
    BY <1>4
  <2>2. i \in 2..Len(q)
    BY <1>1, <1>2, <2>1
  <2>3. i - 1 \in 1..Len(r) /\ r[i - 1] = q[i]
    BY <2>2, <1>3 DEF Entries
  <2> QED
    BY <2>1, <2>3, <1>4
<1>8. \A x : x \in ToSet(Children(s)) => x \in ToSet(r)
  <2> SUFFICES ASSUME NEW x, x \in ToSet(Children(s))
               PROVE  x \in ToSet(r)
    OBVIOUS
  <2>1. x \in ChildrenTo(s, Len(children[s]))
    BY <1>4 DEF ChildrenTo
  <2>2. \E i \in 1..Len(r) : r[i] = x
    BY <2>1, <1>3 DEF Entries
  <2> QED
    BY <2>2, <1>4
<1>9. ToSet(r) = (ToSet(q) \ {s}) \cup ToSet(Children(s))
  BY <1>6, <1>7, <1>8
<1> QED
  BY <1>9 DEF r

\* The first of the queue: its parent and the state it fails to are placed.
LEMMA NextState ==
  ASSUME Trie, NEW q, InOrder(q), q # << >>, NEW s, s = Head(q), Skips(failure[s], s)
  PROVE  /\ IsNext(s, Outside(q), ToSet(q))
         /\ \E f \in Outside(q) : \E b \in Byte : HasChild(f, b) /\ s = Append(f, b)
<1>1. /\ s \in State /\ s # Root /\ s = q[1] /\ Len(q) >= 1 /\ s \in Seq(Byte)
      /\ \A j \in 1..Len(children[s]) : Append(s, children[s][j]) \notin Outside(q)
  BY FirstOfQueue DEF Trie
<1>2. Len(q) \in Nat /\ \A i \in 1..Len(q) : q[i] \in State /\ q[i] \in Seq(Byte) /\ Len(q[i]) \in Nat
  BY InQueue
<1>3. \A x : x \in ToSet(q) <=> \E i \in 1..Len(q) : x = q[i]
  BY InSet DEF InOrder
<1>4. Outside(q) \subseteq State /\ ToSet(q) \subseteq State /\ s \in ToSet(q)
  BY <1>1, <1>2, <1>3 DEF Outside
<1>5. Root \in Outside(q)
  BY RootOutside
<1>6. s \notin Outside(q)
  <2>1. IsPrefix(q[1], s)
    BY <1>1, PrefixOrder
  <2> QED
    BY <1>1, <1>2, <2>1 DEF Outside
<1>7. failure[s] \in Outside(q)
  <2>1. failure[s] \in State /\ failure[s] # s /\ IsSuffix(failure[s], s) /\ failure[s] \in Seq(Byte)
    BY DEF Skips, Trie
  <2>2. Len(failure[s]) <= Len(s) /\ Len(failure[s]) # Len(s)
    BY <1>1, <2>1, SuffixOrder
  <2>3. Len(failure[s]) \in Nat /\ Len(s) \in Nat
    BY <1>1, <2>1
  <2> QED
    BY <2>1, <2>2, <2>3, ShorterOutside
<1>8. \A b \in Byte : HasChild(s, b) => Append(s, b) \notin Outside(q) \cup ToSet(q)
  <2> SUFFICES ASSUME NEW b \in Byte, HasChild(s, b)
               PROVE  Append(s, b) \notin Outside(q) \cup ToSet(q)
    OBVIOUS
  <2>1. Append(s, b) \notin Outside(q)
    BY <1>1 DEF HasChild
  <2>2. \A i \in 1..Len(q) : q[i] # Append(s, b)
    <3> SUFFICES ASSUME NEW i \in 1..Len(q), q[i] = Append(s, b)
                 PROVE  FALSE
      OBVIOUS
    <3>1. CASE i = 1
      <4>1. Len(Append(s, b)) = Len(s) + 1 /\ Len(s) \in Nat
        BY <1>1, Appended
      <4> QED
        BY <4>1, <3>1, <1>1
    <3>2. CASE i \in 2..Len(q)
      <4>1. ~IsPrefix(q[i], Append(s, b))
        BY <1>1, <3>2, ApartFromFirst
      <4>2. IsPrefix(q[i], q[i])
        BY <1>2, PrefixOrder
      <4> QED
        BY <4>1, <4>2
    <3> QED
      BY <1>2, <3>1, <3>2
  <2> QED
    BY <2>1, <2>2, <1>3
<1>9. \A u \in Outside(q) : \A b \in Byte : HasChild(u, b) => Append(u, b) \in Outside(q) \cup ToSet(q)
  BY ChildOfOutside
<1>10. \E f \in Outside(q) : \E b \in Byte : HasChild(f, b) /\ s = Append(f, b)
  <2> DEFINE f == Front(s)
             b == s[Len(s)]
  <2>1. f \in Seq(Byte) /\ Len(f) = Len(s) - 1 /\ b \in Byte /\ s = Append(f, b)
    BY <1>1, Fronts
  <2>2. IsPrefix(f, s)
    <3>1. IsPrefix(f, Append(f, b))
      BY <2>1, PrefixOfAppended, PrefixOrder
    <3> QED
      BY <3>1, <2>1
  <2>3. Len(f) \in 0..Len(s) /\ f = SubSeq(s, 1, Len(f))
    BY <1>1, <2>1, <2>2, PrefixBegins
  <2>4. f \in State
    BY <1>1, <2>3 DEF Trie
  <2>5. HasChild(f, b)
    BY <1>1, <2>1, <2>4 DEF Trie
  <2> HIDE DEF f, b
  <2>6. Len(f) < Len(s)
    BY <1>1, <2>1
  <2>7. f \in Outside(q)
    BY <2>4, <2>6, ShorterOutside
  <2> QED
    BY <2>1, <2>5, <2>7
<1> QED
  BY <1>1, <1>4, <1>5, <1>6, <1>7, <1>8, <1>9, <1>10 DEF IsNext

-----------------------------------------------------------------------------
(* The table starts and grows.                                             *)

\* The size of a table.
LEMMA Sizes ==
  ASSUME NEW n \in Nat, NEW S, NEW t \in [0..(n - 1) -> S]
  PROVE  DOMAIN t = 0..(n - 1) /\ Cardinality(DOMAIN t) = n
<1>1. DOMAIN t = 0..(n - 1)
  OBVIOUS
<1>2. Cardinality(0..(n - 1)) = n
  BY FS_Interval
<1> QED
  BY <1>1, <1>2

\* StartTable: the root is placed.
LEMMA StartPacked ==
  ASSUME Trie, Shortened, StartTable
  PROVE  Packed'
<1> DEFINE n  == InitialSize
           t0 == [e \in 0..(n - 1) |-> Empty]
           Q  == ToSet(Children(Root))
<1>1. /\ queue' = Children(Root)
      /\ table' = WithChildren(t0, Root, 0)
      /\ matchTable' = [e \in 0..(n - 1) |-> IF e = 0 THEN heads[Root] ELSE 0]
      /\ used' = Taken(Root, 0)
      /\ tableSlot' = SlotsWithChildren([s \in {Root} |-> 0], Root, 0)
      /\ UNCHANGED <<children, failure, heads>>
  BY DEF StartTable, Enter
<1>2. n \in Nat /\ n >= Width /\ Width \in Nat /\ Width >= 1
  BY Widths
<1>3. Root \in State /\ failure[Root] = Root
  BY DEF Trie, Shortened
<1>4. t0 \in [0..(n - 1) -> TableEntry] /\ \A e \in 0..(n - 1) : t0[e] = Empty
  BY DEF Empty, TableEntry
<1> HIDE DEF t0
<1>5. IsWritten(n, t0, Root, 0, table')
  BY <1>1, <1>2, <1>3, <1>4, Written
<1>6. table' \in [0..(n - 1) -> TableEntry]
  BY <1>5 DEF IsWritten
<1>7. TableSize' = n
  <2>1. Cardinality(DOMAIN table') = n
    BY <1>2, <1>6, Sizes
  <2> QED
    BY <2>1 DEF TableSize
<1>8. IsMoved([s \in {Root} |-> 0], Root, 0, tableSlot')
  <2> DEFINE sl == [s \in {Root} |-> 0]
  <2>1. Root \in DOMAIN sl /\ [sl EXCEPT ![Root] = 0] = sl
    OBVIOUS
  <2> HIDE DEF sl
  <2>2. IsMoved(sl, Root, 0, SlotsWithChildren([sl EXCEPT ![Root] = 0], Root, 0))
    BY <2>1, <1>3, MovedSlots
  <2>3. tableSlot' = SlotsWithChildren(sl, Root, 0)
    BY <1>1 DEF sl
  <2>4. IsMoved(sl, Root, 0, tableSlot')
    BY <2>1, <2>2, <2>3
  <2> QED
    BY <2>4 DEF sl
<1>9. Outside(queue') = {Root}
  BY <1>1, FirstQueue
<1>10. /\ DOMAIN tableSlot' = {Root} \cup Q /\ tableSlot'[Root] = 0
       /\ \A b \in Byte : HasChild(Root, b) => tableSlot'[Append(Root, b)] = 0 + b + 1
  BY <1>8 DEF IsMoved
<1>11. \A b \in Byte : HasChild(Root, b) => Append(Root, b) \notin {Root}
  <2> SUFFICES ASSUME NEW b \in Byte
               PROVE  Append(Root, b) # Root
    OBVIOUS
  <2>1. Root \in Seq(Byte) /\ Len(Root) = 0
    BY DEF Root
  <2>2. Len(Append(Root, b)) = Len(Root) + 1
    BY <2>1, Appended
  <2> QED
    BY <2>1, <2>2
<1>12. RowWith(n, table', matchTable', tableSlot', {Root}, Root)
  <2>1. 0 \in 0..(n - 1)
    BY <1>2
  <2>2. table'[0] = [to |-> 0, offset |-> 0]
    <3>1. table'[0] = t0[0]
      BY <1>5, <2>1 DEF IsWritten
    <3> QED
      BY <3>1, <1>4, <2>1 DEF Empty
  <2>3. matchTable'[0] = heads[Root]
    BY <1>1, <2>1
  <2>4. \A b \in Byte : HasChild(Root, b) => table'[0 + b + 1].offset = b + 1
    BY <1>5 DEF IsWritten
  <2> QED
    BY <1>2, <1>3, <1>10, <1>11, <2>2, <2>3, <2>4 DEF RowWith
<1>13. \A e \in (0..(n - 1)) \ used' : table'[e].offset = 0
  <2>1. \A e \in (0..(n - 1)) \ used' : table'[e] = t0[e]
    BY <1>1, <1>5 DEF IsWritten
  <2> QED
    BY <2>1, <1>4 DEF Empty
<1>14. used' = UNION {Taken(u, tableSlot'[u]) : u \in {Root}}
  BY <1>1, <1>10
<1> HIDE DEF n, Q
<1>15. PackedWith(n, table', matchTable', used', tableSlot', {Root}, Q)
  BY <1>2, <1>6, <1>10, <1>12, <1>13, <1>14 DEF PackedWith
<1>16. PackedWith(TableSize', table', matchTable', used', tableSlot', Outside(queue'), ToSet(queue'))
  BY <1>1, <1>7, <1>9, <1>15 DEF Q
<1> QED
  BY <1>1, <1>16, PackedNext

\* PlaceState: the first state of the queue is placed.
LEMMA PlacePacked ==
  ASSUME Trie, Shortened, Breadth, Packed, PlaceState
  PROVE  Packed'
<1> DEFINE s   == Head(queue)
           n   == TableSize
           k   == SuitableSlot(s)
           p   == tableSlot[s]
           g   == tableSlot[failure[s]]
           n2  == IF k > n - Width THEN 2 * n ELSE n
           P   == Outside(queue)
           Q   == ToSet(queue)
<1>1. /\ queue # << >>
      /\ queue' = Tail(queue) \o Children(s)
      /\ table' = WithChildren(Hung(Wider(table, n, n2), p, k, g), s, k)
      /\ matchTable' = [e \in 0..(n2 - 1) |-> IF e = k THEN heads[s] ELSE IF e < n THEN matchTable[e] ELSE 0]
      /\ used' = used \cup Taken(s, k)
      /\ tableSlot' = SlotsWithChildren([tableSlot EXCEPT ![s] = k], s, k)
      /\ UNCHANGED <<children, failure, heads>>
  BY DEF PlaceState, TableSize, Hung, Wider
<1>2. InOrder(queue)
  BY DEF Breadth, InOrder
<1>3. s \in State /\ s # Root
  BY <1>1, <1>2, FirstOfQueue
<1>4. Skips(failure[s], s)
  BY <1>3 DEF Shortened
<1>5. /\ IsNext(s, P, Q)
      /\ \E f \in P : \E b \in Byte : HasChild(f, b) /\ s = Append(f, b)
  BY <1>1, <1>2, <1>4, NextState
<1>6. PackedWith(n, table, matchTable, used, tableSlot, P, Q)
  <2>1. Placed = P
    BY DEF Placed, Rooted, Outside
  <2> QED
    BY <2>1, PackedIs
<1> HIDE DEF n, s, P, Q
<1>7. /\ P \subseteq State /\ s \in Q /\ s \notin P /\ failure[s] \in P
      /\ n \in Nat /\ n >= Width /\ table \in [0..(n - 1) -> TableEntry]
      /\ used = UNION {Taken(u, tableSlot[u]) : u \in P}
      /\ \A e \in (0..(n - 1)) \ used : table[e].offset = 0
      /\ DOMAIN tableSlot = P \cup Q
      /\ \A u \in P : \A b \in Byte :
           HasChild(u, b) /\ Append(u, b) \notin P => tableSlot[Append(u, b)] = tableSlot[u] + b + 1
      /\ \A u \in P : RowWith(n, table, matchTable, tableSlot, P, u)
  BY <1>5, <1>6 DEF PackedWith, IsNext
<1>8. \A u \in P : tableSlot[u] \in Nat /\ tableSlot[u] + Width <= n
  BY <1>7 DEF RowWith
<1>9. \A u \in P : TakenAre(u, tableSlot[u])
  BY <1>7, <1>8, TakenEntries
<1>10. used \subseteq 0..(n - 1)
  <2> SUFFICES ASSUME NEW e \in used
               PROVE  e \in 0..(n - 1)
    OBVIOUS
  <2>1. PICK u \in P : e \in Taken(u, tableSlot[u])
    BY <1>7
  <2>2. e \in Nat /\ e < tableSlot[u] + Width
    BY <1>9, <2>1 DEF TakenAre
  <2>3. Width \in Nat
    BY Widths
  <2> QED
    BY <2>2, <2>3, <1>7, <1>8
<1>11. k \in 0..n /\ Taken(s, k) \cap used = {}
  BY <1>3, <1>7, <1>10, SuitableSlotIs DEF n, s
<1>12. PICK f \in P, c \in Byte : HasChild(f, c) /\ s = Append(f, c)
  BY <1>5
<1>13. p = tableSlot[f] + c + 1
  BY <1>7, <1>12
<1>14. p \in used
  <2>1. p \in Taken(f, tableSlot[f])
    BY <1>9, <1>12, <1>13 DEF TakenAre
  <2> QED
    BY <2>1, <1>7
<1>15. IsParent(s, f, c, P, tableSlot, used)
  BY <1>12, <1>13, <1>14 DEF IsParent
<1>16. g \in Nat
  BY <1>7, <1>8
<1> HIDE DEF k, p, g
<1>17. n2 = IF k > n - Width THEN 2 * n ELSE n
  OBVIOUS
<1> HIDE DEF n2
<1>18. IsGrown(n, table, used, s, k, p, g, n2, table')
  <2>1. s \in State
    BY <1>3 DEF s
  <2> QED
    BY <1>1, <1>7, <1>10, <1>11, <1>14, <1>16, <1>17, <2>1, GrownTable
<1>19. IsMoved(tableSlot, s, k, tableSlot')
  BY <1>1, <1>3, <1>7, MovedSlots DEF s
<1>20. n2 \in Nat /\ n <= n2 /\ k + Width <= n2 /\ table' \in [0..(n2 - 1) -> TableEntry]
  BY <1>18 DEF IsGrown
<1>21. TableSize' = n2
  <2>1. Cardinality(DOMAIN table') = n2
    BY <1>20, Sizes
  <2> QED
    BY <2>1 DEF TableSize
<1>22. matchTable'[k] = heads[s] /\ \A e \in 0..(n - 1) : e # k => matchTable'[e] = matchTable[e]
  <2>1. k \in 0..(n2 - 1) /\ \A e \in 0..(n - 1) : e \in 0..(n2 - 1) /\ e < n
    <3>1. Width \in Nat /\ Width >= 1
      BY Widths
    <3> QED
      BY <3>1, <1>7, <1>11, <1>20
  <2> QED
    BY <1>1, <2>1
<1>23. PackedWith(n2, table', matchTable', used \cup Taken(s, k), tableSlot', P \cup {s}, (Q \ {s}) \cup ToSet(Children(s)))
  <2>1. IsGrown(n, table, used, s, k, tableSlot[s], tableSlot[failure[s]], n2, table')
    BY <1>18 DEF p, g
  <2>2. k \in 0..n /\ Taken(s, k) \cap used = {} /\ matchTable'[k] = heads[s]
    BY <1>11, <1>22
  <2>3. \A e \in 0..(n - 1) : e # k => matchTable'[e] = matchTable[e]
    BY <1>22
  <2>4. IsNext(s, P, Q)
    BY <1>5
  <2> QED
    BY <2>1, <2>2, <2>3, <2>4, <1>6, <1>15, <1>19, Placing
<1>24. Outside(queue') = P \cup {s} /\ ToSet(queue') = (Q \ {s}) \cup ToSet(Children(s))
  BY <1>1, <1>2, HangingPopped, PoppedSet DEF P, Q, s
<1>25. PackedWith(TableSize', table', matchTable', used', tableSlot', Outside(queue'), ToSet(queue'))
  BY <1>1, <1>21, <1>23, <1>24
<1> QED
  BY <1>1, <1>25, PackedNext

-----------------------------------------------------------------------------
(* Every step keeps the invariant of the tables.                           *)

\* The order of the queue with the queue as a parameter.
LEMMA BreadthIs ==
  /\ Breadth <=> InOrder(queue)
  /\ UNCHANGED children => (Breadth' <=> InOrder(queue'))
BY DEF Breadth, InOrder, State

\* The queue goes breadth first from the children of the root on.
LEMMA BreadthStarts ==
  ASSUME Trie, UNCHANGED children, queue' = Children(Root)
  PROVE  Breadth'
BY FirstQueue, BreadthIs

\* It stays so.
LEMMA BreadthGoesOn ==
  ASSUME Trie, Breadth, queue # << >>, UNCHANGED children, queue' = Tail(queue) \o Children(Head(queue))
  PROVE  Breadth'
BY InOrderPopped, BreadthIs

\* Steps that leave the trie and the links leave them shortened,
LEMMA SameShortened ==
  ASSUME Shortened, UNCHANGED <<children, failure>>
  PROVE  Shortened'
BY SameSkips DEF Shortened, Root

\* and steps that leave the table leave it packed.
LEMMA SamePacked ==
  ASSUME Packed, UNCHANGED <<children, failure, heads, queue, table, matchTable, used, tableSlot>>
  PROVE  Packed'
<1>1. TableSize' = TableSize /\ Placed = Outside(queue')
  BY DEF TableSize, Placed, Rooted, Outside
<1>2. PackedWith(TableSize, table, matchTable, used, tableSlot, Placed, ToSet(queue))
  BY PackedIs
<1>3. PackedWith(TableSize', table', matchTable', used', tableSlot', Outside(queue'), ToSet(queue'))
  BY <1>1, <1>2
<1> QED
  BY <1>3, PackedNext

\* One case for each action.
LEMMA PackingStep ==
  ASSUME Construction, Packing, [Build]_automaton
  PROVE  Packing'
<1>1. Trie
  BY DEF Construction
<1>2. CASE AddAtom \/ StartLinks \/ LinkState
  <2>1. phase' \in {"add", "link"}
    BY <1>2 DEF AddAtom, StartLinks, LinkState, Enter
  <2> QED
    BY <2>1 DEF Packing
<1>3. CASE StartOptimize
  <2>1. phase' = "optimize" /\ queue' = Children(Root) /\ UNCHANGED children
    BY <1>3 DEF StartOptimize, Enter
  <2>2. Shortened'
    BY <1>3, StartShortened
  <2>3. Breadth'
    BY <1>1, <2>1, BreadthStarts
  <2> QED
    BY <2>1, <2>2, <2>3 DEF Packing
<1>4. CASE OptimizeState
  <2>1. /\ phase = "optimize" /\ phase' = "optimize" /\ queue # << >> /\ UNCHANGED children
        /\ queue' = Tail(queue) \o Children(Head(queue))
    BY <1>4 DEF OptimizeState
  <2>2. Breadth /\ Shortened
    BY <2>1 DEF Packing
  <2>3. Shortened'
    BY <1>1, <1>4, <2>2, OptimizeShortened
  <2>4. Breadth'
    BY <1>1, <2>1, <2>2, BreadthGoesOn
  <2> QED
    BY <2>1, <2>3, <2>4 DEF Packing
<1>5. CASE StartTable
  <2>1. phase = "optimize" /\ phase' = "table" /\ queue' = Children(Root) /\ UNCHANGED <<children, failure>>
    BY <1>5 DEF StartTable, Enter
  <2>2. Shortened
    BY <2>1 DEF Packing
  <2>3. Shortened'
    BY <2>1, <2>2, SameShortened
  <2>4. Packed'
    BY <1>1, <1>5, <2>2, StartPacked
  <2>5. Breadth'
    BY <1>1, <2>1, BreadthStarts
  <2> QED
    BY <2>1, <2>3, <2>4, <2>5 DEF Packing
<1>6. CASE PlaceState
  <2>1. /\ phase = "table" /\ phase' = "table" /\ queue # << >> /\ UNCHANGED <<children, failure>>
        /\ queue' = Tail(queue) \o Children(Head(queue))
    BY <1>6 DEF PlaceState
  <2>2. Breadth /\ Shortened /\ Packed
    BY <2>1 DEF Packing
  <2>3. Shortened'
    BY <2>1, <2>2, SameShortened
  <2>4. Packed'
    BY <1>1, <1>6, <2>2, PlacePacked
  <2>5. Breadth'
    BY <1>1, <2>1, <2>2, BreadthGoesOn
  <2> QED
    BY <2>1, <2>3, <2>4, <2>5 DEF Packing
<1>7. CASE TableDone
  <2>1. phase = "table" /\ phase' = "ready" /\ queue = << >>
        /\ UNCHANGED <<children, failure, heads, queue, table, matchTable, used, tableSlot>>
    BY <1>7 DEF TableDone
  <2>2. Shortened /\ Packed
    BY <2>1 DEF Packing
  <2>3. Shortened'
    BY <2>1, <2>2, SameShortened
  <2>4. Packed'
    BY <2>1, <2>2, SamePacked
  <2> QED
    BY <2>1, <2>3, <2>4 DEF Packing
<1>8. CASE UNCHANGED automaton
  <2>1. UNCHANGED <<phase, children, failure, heads, queue, table, matchTable, used, tableSlot>>
    BY <1>8 DEF automaton
  <2>2. Shortened => Shortened'
    BY <2>1, SameShortened
  <2>3. Packed => Packed'
    BY <2>1, SamePacked
  <2>4. Breadth => Breadth'
    BY <2>1, BreadthIs
  <2> QED
    BY <2>1, <2>2, <2>3, <2>4 DEF Packing
<1> QED
  BY <1>2, <1>3, <1>4, <1>5, <1>6, <1>7, <1>8 DEF Build

\* Each step of the construction leaves the queue breadth first, the failure
\* links shortened only past states that accept nothing more, and the states
\* of the table in entries of their own, as _yr_ac_optimize_failure_links and
\* _yr_ac_build_transition_table mean them to be at that step.
THEOREM PackingInvariance ==
  ASSUME NEW CONSTANT atoms, Atoms(atoms)
  PROVE  InitAutomaton(atoms) /\ [][Build]_automaton => []Packing
<1>1. InitAutomaton(atoms) => Packing
  BY DEF InitAutomaton, Packing
<1>2. Construction /\ Packing /\ [Build]_automaton => Packing'
  BY PackingStep
<1> QED
  BY <1>1, <1>2, ConstructionInvariance, PTL

-----------------------------------------------------------------------------
(* The finished table is read.                                             *)

\* What the slot k of the state u and the entries behind it say.
Reads(u, k) ==
  /\ k \in Nat /\ k + Width <= TableSize /\ failure[u] \in State
  /\ table[k].to = tableSlot[failure[u]] /\ matchTable[k] = heads[u]
  /\ \A b \in Byte : table[k + b + 1].offset = b + 1 <=> HasChild(u, b)
  /\ \A b \in Byte : HasChild(u, b) => table[k + b + 1].to = tableSlot[Append(u, b)]

Legible ==
  /\ TableSize \in Nat /\ TableSize >= Width /\ DOMAIN table = 0..(TableSize - 1)
  /\ tableSlot[Root] = 0 /\ \A u \in State : Reads(u, tableSlot[u])
  /\ \A u, v \in State : tableSlot[u] = tableSlot[v] => u = v

\* No entry is mistaken for that of another state.
LEMMA TableReads ==
  ASSUME Trie, Packed, queue = << >>
  PROVE  Legible
<1> DEFINE n == TableSize
<1>1. Placed = State
  <2>1. Len(queue) = 0
    OBVIOUS
  <2> QED
    BY <2>1 DEF Placed, Rooted
<1>2. PackedWith(n, table, matchTable, used, tableSlot, State, ToSet(queue))
  BY <1>1, PackedIs
<1> HIDE DEF n
<1>3. /\ n \in Nat /\ n >= Width /\ table \in [0..(n - 1) -> TableEntry] /\ tableSlot[Root] = 0
      /\ \A u \in State : RowWith(n, table, matchTable, tableSlot, State, u)
      /\ used = UNION {Taken(u, tableSlot[u]) : u \in State}
      /\ \A u, v \in State : u # v => Taken(u, tableSlot[u]) \cap Taken(v, tableSlot[v]) = {}
      /\ \A e \in (0..(n - 1)) \ used : table[e].offset = 0
  BY <1>2 DEF PackedWith
<1>4. \A u \in State :
        LET k == tableSlot[u] IN
        /\ k \in Nat /\ k + Width <= n /\ failure[u] \in State
        /\ table[k] = [to |-> tableSlot[failure[u]], offset |-> 0]
        /\ matchTable[k] = heads[u]
        /\ \A b \in Byte : HasChild(u, b) =>
             /\ table[k + b + 1].offset = b + 1
             /\ Append(u, b) \in State => table[k + b + 1].to = tableSlot[Append(u, b)]
  BY <1>3 DEF RowWith
<1>12. \A u \in State : tableSlot[u] \in Nat /\ tableSlot[u] + Width <= n /\ table[tableSlot[u]].offset = 0
  <2> SUFFICES ASSUME NEW u \in State
               PROVE  tableSlot[u] \in Nat /\ tableSlot[u] + Width <= n /\ table[tableSlot[u]].offset = 0
    OBVIOUS
  <2>1. tableSlot[u] \in Nat /\ tableSlot[u] + Width <= n
    BY <1>4
  <2>2. table[tableSlot[u]] = [to |-> tableSlot[failure[u]], offset |-> 0]
    BY <1>4
  <2> QED
    BY <2>1, <2>2
<1>13. \A u \in State : \A b \in Byte : HasChild(u, b) => table[tableSlot[u] + b + 1].offset = b + 1
  BY <1>4
<1>5. \A u \in State : TakenAre(u, tableSlot[u])
  BY <1>4, TakenEntries
<1>6. Width \in Nat /\ Width >= 1 /\ \A b \in Byte : b \in Nat /\ b + 1 < Width
  BY Widths
<1>7. \A u \in State : tableSlot[u] \in Taken(u, tableSlot[u])
  BY DEF Taken
<1>8. \A u, v \in State : tableSlot[u] = tableSlot[v] => u = v
  BY <1>3, <1>7
<1>9. ASSUME NEW u \in State, NEW b \in Byte, ~HasChild(u, b)
      PROVE  table[tableSlot[u] + b + 1].offset # b + 1
  <2> DEFINE e == tableSlot[u] + b + 1
  <2>1. e \in 0..(n - 1)
    BY <1>3, <1>12, <1>6
  <2>2. CASE e \notin used
    <3>1. table[e].offset = 0
      BY <1>3, <2>1, <2>2
    <3> QED
      BY <3>1, <1>6
  <2>3. CASE e \in used
    <3>1. PICK v \in State : e \in Taken(v, tableSlot[v])
      BY <1>3, <2>3
    <3>2. CASE e = tableSlot[v]
      <4>1. table[e].offset = 0
        BY <1>12, <3>2
      <4> QED
        BY <4>1, <1>6
    <3>3. CASE \E d \in Byte : HasChild(v, d) /\ e = tableSlot[v] + d + 1
      <4>1. PICK d \in Byte : HasChild(v, d) /\ e = tableSlot[v] + d + 1
        BY <3>3
      <4>2. table[e].offset = d + 1
        BY <1>13, <4>1
      <4> SUFFICES ASSUME d = b
                   PROVE  FALSE
        BY <4>2, <1>6
      <4>3. tableSlot[v] = tableSlot[u]
        BY <1>12, <1>6, <4>1
      <4>4. u = v
        BY <1>8, <4>3
      <4> QED
        BY <4>1, <4>4, <1>9
    <3>4. e = tableSlot[v] \/ \E d \in Byte : HasChild(v, d) /\ e = tableSlot[v] + d + 1
      <4>1. TakenAre(v, tableSlot[v])
        BY <1>5
      <4>2. \A x : x \in Taken(v, tableSlot[v])
                    <=> x = tableSlot[v] \/ \E d \in Byte : HasChild(v, d) /\ x = tableSlot[v] + d + 1
        BY <4>1 DEF TakenAre
      <4> HIDE DEF e
      <4> QED
        BY <3>1, <4>2
    <3> QED
      BY <3>2, <3>3, <3>4
  <2> QED
    BY <2>2, <2>3
<1>10. ASSUME NEW u \in State
       PROVE  Reads(u, tableSlot[u])
  <2> DEFINE k == tableSlot[u]
  <2>1. \A b \in Byte : HasChild(u, b) => Append(u, b) \in State
    BY DEF Trie
  <2>2. k \in Nat /\ k + Width <= n /\ failure[u] \in State
        /\ table[k] = [to |-> tableSlot[failure[u]], offset |-> 0]
        /\ matchTable[k] = heads[u]
        /\ \A b \in Byte : HasChild(u, b) =>
             /\ table[k + b + 1].offset = b + 1
             /\ Append(u, b) \in State => table[k + b + 1].to = tableSlot[Append(u, b)]
    BY <1>4
  <2>3. \A b \in Byte : ~HasChild(u, b) => table[k + b + 1].offset # b + 1
    BY <1>9
  <2> HIDE DEF k
  <2>4. table[k].to = tableSlot[failure[u]]
    BY <2>2
  <2>5. Reads(u, k)
    BY <2>1, <2>2, <2>3, <2>4 DEF Reads, n
  <2> QED
    BY <2>5 DEF k
<1>11. DOMAIN table = 0..(n - 1)
  BY <1>3
<1> QED
  BY <1>3, <1>8, <1>10, <1>11 DEF Legible, n

-----------------------------------------------------------------------------
(* The walk along the links of the table goes along those of the states.   *)

LinkOf == [k \in DOMAIN table |-> table[k].to]

StateWalk(s) == Iterated(failure, s)
TableWalk(s) == Iterated(LinkOf, tableSlot[s])

\* The place of a state on the walk.
OnWalk(s, m) ==
  /\ StateWalk(s)[m] \in State
  /\ TableWalk(s)[m] = tableSlot[StateWalk(s)[m]]
  /\ StateWalk(s)[m + 1] = failure[StateWalk(s)[m]]

\* Each step along the table is the step of the state whose slot it is.
LEMMA WalksTogether ==
  ASSUME Trie, Legible, NEW s \in State
  PROVE  StateWalk(s)[0] = s /\ \A m \in Nat : OnWalk(s, m)
<1> DEFINE A == StateWalk(s)
           B == TableWalk(s)
           V == {tableSlot[u] : u \in State}
<1>1. \A u \in State : failure[u] \in State /\ tableSlot[u] \in DOMAIN table /\ table[tableSlot[u]].to = tableSlot[failure[u]]
  <2>1. Width \in Nat /\ Width >= 1
    BY Widths
  <2>2. \A u \in State : tableSlot[u] \in Nat /\ tableSlot[u] + Width <= TableSize
    BY DEF Legible, Reads
  <2>3. \A u \in State : failure[u] \in State /\ table[tableSlot[u]].to = tableSlot[failure[u]]
    BY DEF Legible, Reads
  <2>4. TableSize \in Nat /\ DOMAIN table = 0..(TableSize - 1)
    BY DEF Legible
  <2> QED
    BY <2>1, <2>2, <2>3, <2>4
<1>2. \A u \in State : LinkOf[tableSlot[u]] = tableSlot[failure[u]]
  BY <1>1 DEF LinkOf
<1>3. \A v \in V : LinkOf[v] \in V
  BY <1>1, <1>2
<1>4. tableSlot[s] \in V
  OBVIOUS
<1>5. A[0] = s /\ (\A m \in Nat : A[m] \in State) /\ Goes(failure, A)
  BY <1>1, Walks DEF StateWalk
<1> HIDE DEF V
<1>6. B[0] = tableSlot[s] /\ Goes(LinkOf, B)
  BY <1>3, <1>4, Walks DEF TableWalk
<1> HIDE DEF A, B
<1> DEFINE S == {m \in Nat : B[m] = tableSlot[A[m]]}
<1>7. 0 \in S
  BY <1>5, <1>6
<1>8. ASSUME NEW m \in Nat, m \in S
      PROVE  m + 1 \in S
  <2>1. A[m + 1] = failure[A[m]]
    BY <1>5 DEF Goes
  <2>2. B[m + 1] = LinkOf[B[m]]
    BY <1>6 DEF Goes
  <2>3. B[m] = tableSlot[A[m]] /\ A[m] \in State
    BY <1>8, <1>5
  <2> QED
    BY <2>1, <2>2, <2>3, <1>2
<1> HIDE DEF S
<1>9. \A m \in Nat : m \in S
  BY <1>7, <1>8, Induction
<1>10. \A m \in Nat : A[m] \in State /\ B[m] = tableSlot[A[m]] /\ A[m + 1] = failure[A[m]]
  BY <1>5, <1>9 DEF S, Goes
<1> QED
  BY <1>5, <1>10 DEF A, B, OnWalk

\* The beginnings of a state have slots of their own, so there is room for as
\* many steps as it is long.
LEMMA LengthInTable ==
  ASSUME Trie, Legible, NEW s \in State
  PROVE  Len(s) \in 0..TableSize
<1> DEFINE S == 0..Len(s)
           T == 0..(TableSize - 1)
           f == [i \in S |-> tableSlot[SubSeq(s, 1, i)]]
<1>1. s \in Seq(Byte) /\ Len(s) \in Nat /\ TableSize \in Nat
  BY DEF Trie, Legible
<1>2. \A u \in State : tableSlot[u] \in T
  <2>1. Width \in Nat /\ Width >= 1
    BY Widths
  <2>2. \A u \in State : tableSlot[u] \in Nat /\ tableSlot[u] + Width <= TableSize
    BY DEF Legible, Reads
  <2> QED
    BY <1>1, <2>1, <2>2
<1>3. \A i \in S : SubSeq(s, 1, i) \in State /\ Len(SubSeq(s, 1, i)) = i
  BY <1>1, Beginnings DEF Trie
<1>4. f \in [S -> T]
  BY <1>2, <1>3
<1>5. \A i, j \in S : f[i] = f[j] => i = j
  <2> SUFFICES ASSUME NEW i \in S, NEW j \in S, f[i] = f[j]
               PROVE  i = j
    OBVIOUS
  <2>1. tableSlot[SubSeq(s, 1, i)] = tableSlot[SubSeq(s, 1, j)]
    OBVIOUS
  <2>2. SubSeq(s, 1, i) = SubSeq(s, 1, j)
    BY <1>3, <2>1 DEF Legible
  <2> QED
    BY <1>3, <2>2
<1>6. /\ IsFiniteSet(S) /\ Cardinality(S) = Len(s) + 1
      /\ IsFiniteSet(T) /\ Cardinality(T) = TableSize
  <2>1. IsFiniteSet(S) /\ Cardinality(S) = Len(s) + 1
    BY <1>1, FS_Interval
  <2>2. IsFiniteSet(T) /\ Cardinality(T) = TableSize
    <3>1. 0 \in Int /\ TableSize - 1 \in Int
      BY <1>1
    <3>2. IsFiniteSet(0..(TableSize - 1)) /\ Cardinality(0..(TableSize - 1)) = IF 0 > TableSize - 1 THEN 0 ELSE (TableSize - 1) - 0 + 1
      BY <3>1, FS_Interval
    <3> QED
      BY <1>1, <3>2
  <2> QED
    BY <2>1, <2>2
<1> HIDE DEF f, S, T
<1>7. ~(Cardinality(T) < Cardinality(S))
  <2> SUFFICES ASSUME Cardinality(T) < Cardinality(S)
               PROVE  FALSE
    OBVIOUS
  <2>1. \E i, j \in S : i # j /\ f[i] = f[j]
    BY <1>4, <1>6, FS_PigeonHole
  <2> QED
    BY <2>1, <1>5
<1> QED
  BY <1>1, <1>6, <1>7

\* A failure link leads to a shorter state.
LEMMA LinkIsShorter ==
  ASSUME Trie, Shortened, NEW u \in State, u # Root
  PROVE  /\ failure[u] \in State /\ IsSuffix(failure[u], u)
         /\ Len(failure[u]) \in Nat /\ Len(u) \in Nat /\ Len(failure[u]) < Len(u)
<1>1. failure[u] \in State /\ failure[u] # u /\ IsSuffix(failure[u], u)
  BY DEF Shortened, Skips
<1>2. failure[u] \in Seq(Byte) /\ u \in Seq(Byte)
  BY <1>1 DEF Trie
<1>3. Len(failure[u]) <= Len(u) /\ Len(failure[u]) # Len(u)
  BY <1>1, <1>2, SuffixOrder
<1>4. Len(failure[u]) \in Nat /\ Len(u) \in Nat
  BY <1>2
<1> QED
  BY <1>1, <1>3, <1>4

\* So the walk comes to the root.
LEMMA WalkEnds ==
  ASSUME Trie, Shortened, Legible, NEW s \in State
  PROVE  StateWalk(s)[Len(s)] = Root
<1> DEFINE A == StateWalk(s)
           S == {m \in Nat : A[m] = Root \/ Len(A[m]) + m <= Len(s)}
<1>1. A[0] = s /\ \A m \in Nat : A[m] \in State /\ A[m + 1] = failure[A[m]]
  BY WalksTogether DEF OnWalk
<1>2. Len(s) \in Nat /\ \A u \in State : Len(u) \in Nat /\ (Len(u) = 0 => u = Root)
  BY DEF Trie, Root
<1> HIDE DEF A
<1>3. 0 \in S
  BY <1>1, <1>2
<1>4. ASSUME NEW m \in Nat, m \in S
      PROVE  m + 1 \in S
  <2>1. CASE A[m] = Root
    <3>1. A[m + 1] = Root
      BY <1>1, <2>1 DEF Shortened
    <3> QED
      BY <3>1
  <2>2. CASE A[m] # Root
    <3>1. Len(A[m]) + m <= Len(s)
      BY <1>4, <2>2
    <3>2. A[m] \in State /\ A[m + 1] = failure[A[m]]
      BY <1>1
    <3>3. Len(A[m + 1]) \in Nat /\ Len(A[m]) \in Nat /\ Len(A[m + 1]) < Len(A[m])
      BY <2>2, <3>2, LinkIsShorter
    <3> QED
      BY <3>1, <3>3, <1>2
  <2> QED
    BY <2>1, <2>2
<1> HIDE DEF S
<1>5. \A m \in Nat : m \in S
  BY <1>3, <1>4, Induction
<1>6. A[Len(s)] = Root \/ Len(A[Len(s)]) + Len(s) <= Len(s)
  BY <1>2, <1>5 DEF S
<1>7. A[Len(s)] \in State
  BY <1>1, <1>2
<1>8. A[Len(s)] = Root
  BY <1>2, <1>6, <1>7
<1> QED
  BY <1>8 DEF A

-----------------------------------------------------------------------------
(* Where the walk for a byte stops. *)

\* The walk from s stops for b at its step n.
StopsAt(s, b, n) ==
  /\ n \in Nat /\ StateWalk(s)[n] \in Goals(b)
  /\ \A m \in 0..(n - 1) : StateWalk(s)[m] \notin Goals(b)

\* The test of a scan at an entry is the test for the child.
LEMMA SlotStops ==
  ASSUME Trie, Legible, NEW u \in State, NEW b \in Byte, NEW k, k = tableSlot[u]
  PROVE  /\ k = 0 \/ table[k + (b + 1)].offset = b + 1 <=> u \in Goals(b)
         /\ table[k + (b + 1)].offset = b + 1 <=> HasChild(u, b)
         /\ HasChild(u, b) => table[k + (b + 1)].to = tableSlot[Append(u, b)]
<1>1. k \in Nat /\ b \in Nat /\ k + (b + 1) = k + b + 1
  <2>1. k \in Nat
    BY DEF Legible, Reads
  <2>2. b \in Nat
    BY Widths
  <2> QED
    BY <2>1, <2>2
<1>2. /\ table[k + b + 1].offset = b + 1 <=> HasChild(u, b)
      /\ HasChild(u, b) => table[k + b + 1].to = tableSlot[Append(u, b)]
  BY DEF Legible, Reads
<1>3. k = 0 <=> u = Root
  BY DEF Legible, Trie
<1> QED
  BY <1>1, <1>2, <1>3 DEF Goals

\* Follow goes on from the first place that has the child.
LEMMA FollowIs ==
  ASSUME Trie, Shortened, Legible, NEW s \in State, NEW b \in Byte
  PROVE  \E n : /\ StopsAt(s, b, n)
                /\ LET w == StateWalk(s)[n] IN
                   Follow(tableSlot[s], b + 1) = IF HasChild(w, b) THEN tableSlot[Append(w, b)] ELSE 0
<1> DEFINE A == StateWalk(s)
           B == TableWalk(s)
           N == Cardinality(DOMAIN table)
           Has(k) == table[k + (b + 1)].offset = b + 1
           Stops(k) == k = 0 \/ Has(k)
           First(n) == Stops(B[n]) /\ \A m \in 0..(n - 1) : ~Stops(B[m])
           last == CHOOSE n \in 0..N : First(n)
<1>1. \A m \in Nat : A[m] \in State /\ B[m] = tableSlot[A[m]]
  BY WalksTogether DEF OnWalk
<1>2. N \in Nat /\ Len(s) \in 0..N
  BY LengthInTable DEF Legible, TableSize
<1>3. \A m \in Nat : Stops(B[m]) <=> A[m] \in Goals(b)
  <2> HIDE DEF A, B
  <2> TAKE m \in Nat
  <2>1. A[m] \in State /\ B[m] = tableSlot[A[m]]
    BY <1>1
  <2> QED
    BY <2>1, SlotStops
<1>4. A[Len(s)] \in Goals(b)
  BY WalkEnds DEF Goals
<1> DEFINE n0 == FirstIn(Goals(b), A, N)
<1>5. n0 \in 0..N /\ A[n0] \in Goals(b) /\ \A m \in 0..(n0 - 1) : A[m] \notin Goals(b)
  <2> HIDE DEF A, N
  <2> QED
    BY <1>2, <1>4, FirstPlace
<1> HIDE DEF A, B, N, Stops, n0
<1>6. \E n \in 0..N : First(n)
  <2>1. n0 \in Nat /\ \A m \in 0..(n0 - 1) : m \in Nat
    BY <1>2, <1>5
  <2>2. First(n0)
    BY <2>1, <1>3, <1>5
  <2> QED
    BY <1>5, <2>2
<1>7. last \in 0..N /\ First(last)
  <2> HIDE DEF First
  <2> QED
    BY <1>6
<1> HIDE DEF last
<1>8. last \in Nat /\ \A m \in 0..(last - 1) : m \in Nat
  BY <1>2, <1>7
<1>9. StopsAt(s, b, last)
  <2>1. A[last] \in Goals(b) /\ \A m \in 0..(last - 1) : A[m] \notin Goals(b)
    BY <1>3, <1>7, <1>8
  <2> QED
    BY <2>1, <1>8 DEF StopsAt, A
<1>10. Follow(tableSlot[s], b + 1) = IF Has(B[last]) THEN table[B[last] + (b + 1)].to ELSE 0
  BY DEF Follow, TableWalk, LinkOf, last, B, N, Stops
<1>11. B[last] = tableSlot[A[last]] /\ A[last] \in State
  BY <1>1, <1>8
<1>12. Follow(tableSlot[s], b + 1) = IF HasChild(A[last], b) THEN tableSlot[Append(A[last], b)] ELSE 0
  BY <1>10, <1>11, SlotStops
<1> QED
  BY <1>9, <1>12 DEF A

\* A place of the walk from s that no state with a child by b is longer than.
Covers(s, b, w) ==
  /\ w \in State /\ IsSuffix(w, s)
  /\ \A v \in State : IsSuffix(v, s) /\ HasChild(v, b) => IsSuffix(v, w)

\* No state with the child is skipped.
LEMMA CoversOn ==
  ASSUME Trie, Shortened, NEW s \in State, NEW b \in Byte, NEW w, Covers(s, b, w), w \notin Goals(b)
  PROVE  Covers(s, b, failure[w])
<1>1. w \in State /\ IsSuffix(w, s) /\ w # Root /\ ~HasChild(w, b)
  BY DEF Covers, Goals
<1>2. Skips(failure[w], w)
  BY <1>1 DEF Shortened
<1>3. failure[w] \in State /\ IsSuffix(failure[w], w)
  BY <1>2 DEF Skips
<1>4. s \in Seq(Byte) /\ w \in Seq(Byte) /\ failure[w] \in Seq(Byte)
  BY <1>1, <1>3 DEF Trie
<1>5. IsSuffix(failure[w], s)
  BY <1>1, <1>3, <1>4, SuffixOrder
<1>6. ASSUME NEW v \in State, IsSuffix(v, s), HasChild(v, b)
      PROVE  IsSuffix(v, failure[w])
  <2>1. v \in Seq(Byte)
    BY DEF Trie
  <2>2. IsSuffix(v, w) /\ v # w
    BY <1>1, <1>6 DEF Covers
  <2>3. ~(Len(failure[w]) < Len(v))
    <3> SUFFICES ASSUME Len(failure[w]) < Len(v)
                 PROVE  FALSE
      OBVIOUS
    <3>1. TransitionsSubset(w, v)
      BY <1>2, <2>2 DEF Skips
    <3>2. b \in ToSet(children[v])
      BY <1>6, ChildBytes
    <3>3. b \in ToSet(children[w])
      BY <3>1, <3>2 DEF TransitionsSubset
    <3> QED
      BY <3>3, <1>1, ChildBytes
  <2>4. Len(v) <= Len(failure[w])
    <3>1. Len(v) \in Nat /\ Len(failure[w]) \in Nat
      BY <1>4, <2>1
    <3> QED
      BY <2>3, <3>1
  <2> QED
    BY <1>3, <1>4, <2>1, <2>2, <2>4, SuffixOrder
<1> QED
  BY <1>3, <1>5, <1>6 DEF Covers

\* So no state with the child is longer than where the walk stops.
LEMMA StopCovers ==
  ASSUME Trie, Shortened, Legible, NEW s \in State, NEW b \in Byte, NEW n, StopsAt(s, b, n)
  PROVE  Covers(s, b, StateWalk(s)[n])
<1> DEFINE A == StateWalk(s)
           S == {m \in 0..n : Covers(s, b, A[m])}
<1>1. n \in Nat /\ \A m \in 0..(n - 1) : A[m] \notin Goals(b)
  BY DEF StopsAt
<1>2. A[0] = s /\ \A m \in Nat : A[m + 1] = failure[A[m]]
  BY WalksTogether DEF OnWalk
<1>3. Covers(s, b, s)
  <2>1. IsSuffix(s, s)
    BY SuffixOrder DEF Trie
  <2> QED
    BY <2>1 DEF Covers
<1> HIDE DEF A
<1>4. 0 \in S
  BY <1>1, <1>2, <1>3
<1>5. ASSUME NEW m \in 0..(n - 1), m \in S
      PROVE  m + 1 \in S
  <2>1. A[m] \notin Goals(b) /\ Covers(s, b, A[m]) /\ A[m + 1] = failure[A[m]]
    BY <1>1, <1>2, <1>5
  <2>2. Covers(s, b, A[m + 1])
    BY <2>1, CoversOn
  <2> QED
    BY <1>1, <2>2
<1> HIDE DEF S
<1>6. \A m \in 0..n : m \in S
  BY <1>1, <1>4, <1>5, InductionTo
<1>7. Covers(s, b, A[n])
  BY <1>1, <1>6 DEF S
<1> QED
  BY <1>7 DEF A

\* A state that ends what was read and a byte is the root, or a child of a
\* state that ends what was read.
LEMMA EndsAppended ==
  ASSUME Trie, NEW read \in Seq(Byte), NEW b \in Byte, NEW t \in State, t # Root
  PROVE  IsSuffix(t, Append(read, b)) <=>
           \E v \in State : t = Append(v, b) /\ HasChild(v, b) /\ IsSuffix(v, read)
<1>1. t \in Seq(Byte)
  BY DEF Trie
<1> DEFINE v == Front(t)
           c == t[Len(t)]
<1>2. v \in Seq(Byte) /\ Len(v) = Len(t) - 1 /\ c \in Byte /\ t = Append(v, c)
  BY <1>1, Fronts
<1>3. v \in State
  <2>1. IsPrefix(v, Append(v, c))
    BY <1>2, PrefixOfAppended, PrefixOrder
  <2>2. Len(v) \in 0..Len(t) /\ v = SubSeq(t, 1, Len(v))
    BY <1>1, <1>2, <2>1, PrefixBegins
  <2> QED
    BY <2>2 DEF Trie
<1>4. HasChild(v, c)
  BY <1>2, <1>3 DEF Trie
<1> HIDE DEF v, c
<1>5. IsSuffix(t, Append(read, b)) => c = b /\ IsSuffix(v, read)
  BY <1>2, SuffixOfAppended
<1>6. ASSUME NEW u \in State, t = Append(u, b), IsSuffix(u, read)
      PROVE  IsSuffix(t, Append(read, b))
  <2>1. u \in Seq(Byte)
    BY DEF Trie
  <2> QED
    BY <2>1, <1>6, SuffixOfAppended
<1>7. IsSuffix(t, Append(read, b)) => \E u \in State : t = Append(u, b) /\ HasChild(u, b) /\ IsSuffix(u, read)
  BY <1>2, <1>3, <1>4, <1>5
<1> QED
  BY <1>6, <1>7

\* The next state is the longest that ends what was read.
LEMMA FollowLongest ==
  ASSUME Trie, Shortened, Legible, NEW read \in Seq(Byte), NEW k, AtLongest(read, k), NEW b \in Byte
  PROVE  AtLongest(Append(read, b), Follow(k, b + 1))
<1>1. PICK s \in State : /\ tableSlot[s] = k /\ IsSuffix(s, read)
                         /\ \A t \in State : IsSuffix(t, read) => Len(t) <= Len(s)
  BY DEF AtLongest
<1>2. PICK n : /\ StopsAt(s, b, n)
               /\ LET w == StateWalk(s)[n] IN
                  Follow(tableSlot[s], b + 1) = IF HasChild(w, b) THEN tableSlot[Append(w, b)] ELSE 0
  BY FollowIs
<1> DEFINE w == StateWalk(s)[n]
           next == Append(read, b)
<1>3. Covers(s, b, w)
  BY <1>2, StopCovers
<1>4. Follow(k, b + 1) = IF HasChild(w, b) THEN tableSlot[Append(w, b)] ELSE 0
  BY <1>1, <1>2
<1>5. w \in Goals(b)
  BY <1>2 DEF StopsAt
<1> HIDE DEF w
<1>6. w \in State /\ w \in Seq(Byte) /\ s \in Seq(Byte) /\ \A u \in State : u \in Seq(Byte) /\ Len(u) \in Nat
  BY <1>3 DEF Covers, Trie
<1>7. Root \in Seq(Byte) /\ Root \in State /\ Len(Root) = 0
  BY DEF Root, Trie
<1>8. ASSUME NEW v \in State, IsSuffix(v, read), HasChild(v, b)
      PROVE  IsSuffix(v, w) /\ Len(v) <= Len(w)
  <2>1. Len(v) <= Len(s)
    BY <1>1, <1>8
  <2>2. IsSuffix(v, s)
    BY <1>1, <1>6, <1>8, <2>1, SuffixOrder
  <2>3. IsSuffix(v, w)
    BY <1>3, <1>8, <2>2 DEF Covers
  <2> QED
    BY <2>3, <1>6, SuffixOrder
<1>9. next \in Seq(Byte)
  BY Appended
<1>10. CASE HasChild(w, b)
  <2> DEFINE t == Append(w, b)
  <2>1. t \in State
    BY <1>6, <1>10 DEF Trie
  <2>2. IsSuffix(t, next)
    <3>1. IsSuffix(w, read)
      BY <1>1, <1>3, <1>6, SuffixOrder DEF Covers
    <3> QED
      BY <3>1, <1>6, SuffixOfAppended
  <2>3. Len(t) = Len(w) + 1 /\ Len(w) \in Nat
    BY <1>6, Appended
  <2>4. ASSUME NEW u \in State, IsSuffix(u, next)
        PROVE  Len(u) <= Len(t)
    <3>1. CASE u = Root
      BY <3>1, <2>3, <1>7
    <3>2. CASE u # Root
      <4>1. PICK v \in State : u = Append(v, b) /\ HasChild(v, b) /\ IsSuffix(v, read)
        BY <3>2, <2>4, EndsAppended
      <4>2. Len(v) <= Len(w) /\ Len(u) = Len(v) + 1 /\ Len(v) \in Nat
        BY <4>1, <1>6, <1>8, Appended
      <4> QED
        BY <4>2, <2>3
    <3> QED
      BY <3>1, <3>2
  <2>5. Follow(k, b + 1) = tableSlot[t]
    BY <1>4, <1>10
  <2> HIDE DEF t
  <2> QED
    BY <2>1, <2>2, <2>4, <2>5 DEF AtLongest
<1>11. CASE ~HasChild(w, b)
  <2>1. w = Root /\ Follow(k, b + 1) = tableSlot[Root]
    BY <1>4, <1>5, <1>11 DEF Goals, Legible
  <2>2. IsSuffix(Root, next)
    BY <1>9, SuffixOrder
  <2>3. ASSUME NEW u \in State, IsSuffix(u, next)
        PROVE  Len(u) <= Len(Root)
    <3>1. u = Root
      <4> SUFFICES ASSUME u # Root
                   PROVE  FALSE
        OBVIOUS
      <4>1. PICK v \in State : u = Append(v, b) /\ HasChild(v, b) /\ IsSuffix(v, read)
        BY <2>3, EndsAppended
      <4>2. IsSuffix(v, Root) /\ Len(v) <= Len(Root)
        BY <4>1, <1>8, <2>1
      <4>3. v = Root
        BY <4>2, <1>6, <1>7, SuffixOrder
      <4> QED
        BY <4>1, <4>3, <1>11, <2>1
    <3> QED
      BY <3>1, <1>7
  <2> QED
    BY <1>7, <2>1, <2>2, <2>3 DEF AtLongest
<1> QED
  BY <1>10, <1>11

-----------------------------------------------------------------------------
(* Blocks are read. *)

Longest(T, sl, read, k) ==
  \E s \in T : /\ sl[s] = k /\ IsSuffix(s, read)
               /\ \A t \in T : IsSuffix(t, read) => Len(t) <= Len(s)

\* The same of the next state.
LEMMA LongestIs ==
  /\ \A read, k : AtLongest(read, k) <=> Longest(State, tableSlot, read, k)
  /\ LongestSuffix' <=> (phase' = "ready" => Longest(State', tableSlot', SubSeq(data', 1, position'), state'))
BY DEF AtLongest, Longest, LongestSuffix, State

ReadingInv ==
  /\ data \in Seq(Byte) /\ position \in 0..Len(data)
  /\ phase # "ready" => data = << >> /\ position = 0 /\ state = 0
  /\ LongestSuffix

\* When the table is ready, both invariants say what it says.
LEMMA ReadyTable ==
  ASSUME Construction, Packing, phase = "ready"
  PROVE  Trie /\ Shortened /\ Legible
<1>1. Trie /\ Shortened /\ Packed /\ queue = << >>
  BY DEF Construction, Packing
<1> QED
  BY <1>1, TableReads

\* At the start of a block the root is all that was read.
LEMMA AtRoot ==
  Construction /\ Packing /\ phase = "ready" => Longest(State, tableSlot, << >>, 0)
<1> DEFINE read == << >>
<1> SUFFICES ASSUME Construction, Packing, phase = "ready"
             PROVE  Longest(State, tableSlot, read, 0)
  OBVIOUS
<1>1. Trie /\ Legible
  BY ReadyTable
<1>2. read = Root
  BY DEF Root
<1>3. Root \in State /\ tableSlot[Root] = 0 /\ Root \in Seq(Byte) /\ Len(Root) = 0
  BY <1>1 DEF Trie, Legible, Root
<1>4. IsSuffix(Root, Root)
  BY <1>3, SuffixOrder
<1>5. ASSUME NEW t \in State, IsSuffix(t, Root)
      PROVE  Len(t) <= Len(Root)
  <2>1. t \in Seq(Byte)
    BY <1>1 DEF Trie
  <2> QED
    BY <2>1, <1>3, <1>5, SuffixOrder
<1> QED
  BY <1>2, <1>3, <1>4, <1>5 DEF Longest

\* The same of the next state.
LEMMA AtRootNext ==
  Construction' /\ Packing' /\ phase' = "ready" => Longest(State', tableSlot', << >>, 0)
<1>1. (Construction /\ Packing /\ phase = "ready" => Longest(State, tableSlot, << >>, 0))'
  BY AtRoot, PTL
<1> QED
  BY <1>1

\* One case for each step of the reading.
LEMMA ReadStep ==
  ASSUME Construction, Packing, Construction', Packing', ReadingInv, [ReadingNext]_<<automaton, reading>>
  PROVE  ReadingInv'
<1>1. /\ data \in Seq(Byte) /\ position \in 0..Len(data)
      /\ phase # "ready" => data = << >> /\ position = 0 /\ state = 0
      /\ phase = "ready" => AtLongest(SubSeq(data, 1, position), state)
  BY DEF ReadingInv, LongestSuffix
<1>2. phase' = "ready" => Longest(State', tableSlot', << >>, 0)
  BY AtRootNext
<1>3. ASSUME data' \in Seq(Byte), position' = 0, state' = 0, phase' # "ready" => data' = << >>
      PROVE  ReadingInv'
  <2>1. SubSeq(data', 1, position') = << >> /\ position' \in 0..Len(data')
    BY <1>3
  <2>2. LongestSuffix'
    BY <1>2, <1>3, <2>1, LongestIs
  <2> QED
    BY <1>3, <2>1, <2>2 DEF ReadingInv
<1>4. CASE Build /\ UNCHANGED reading
  <2>1. phase # "ready"
    BY Zenon, <1>4 DEF Build, AddAtom, StartLinks, LinkState, StartOptimize, OptimizeState, StartTable, PlaceState, TableDone
  <2>2. data' = data /\ position' = position /\ state' = state
    BY <1>4 DEF reading
  <2> QED
    BY <1>1, <1>3, <2>1, <2>2
<1>5. ASSUME NEW block \in Seq(Byte), StartBlock(block), UNCHANGED automaton
      PROVE  ReadingInv'
  <2>1. data' = block /\ position' = 0 /\ state' = 0 /\ phase' = "ready"
    BY <1>5 DEF StartBlock, automaton
  <2> QED
    BY <1>3, <2>1
<1>6. CASE UNCHANGED automaton /\ ReadByte
  <2> DEFINE p == position
             b == data[p + 1]
             read == SubSeq(data, 1, p)
  <2>1. /\ p < Len(data) /\ position' = p + 1 /\ state' = Follow(state, b + 1) /\ data' = data
        /\ phase' = phase /\ State' = State /\ tableSlot' = tableSlot
    BY <1>6 DEF ReadByte, automaton, State
  <2>2. p \in Nat /\ p + 1 \in 1..Len(data) /\ b \in Byte
    BY <1>1, <2>1
  <2>3. phase = "ready"
    BY <1>1, <2>1
  <2>4. read \in Seq(Byte) /\ Append(read, b) = SubSeq(data', 1, position')
    <3>1. read \in Seq(Byte) /\ Len(read) = p /\ \A i \in 1..p : read[i] = data[i]
      BY <1>1, Beginnings
    <3>2. /\ SubSeq(data, 1, p + 1) \in Seq(Byte) /\ Len(SubSeq(data, 1, p + 1)) = p + 1
          /\ \A i \in 1..(p + 1) : SubSeq(data, 1, p + 1)[i] = data[i]
      BY <1>1, <2>2, Beginnings
    <3> DEFINE w == SubSeq(data, 1, p + 1)
    <3> HIDE DEF read, w, b
    <3>3. /\ Append(read, b) \in Seq(Byte) /\ Len(Append(read, b)) = p + 1
          /\ \A i \in 1..p : Append(read, b)[i] = read[i]
          /\ Append(read, b)[p + 1] = b
      BY <3>1, <2>2, Appended
    <3>4. w \in Seq(Byte) /\ Len(w) = p + 1 /\ \A i \in 1..(p + 1) : w[i] = data[i]
      BY <3>2 DEF w
    <3>5. \A i \in 1..(p + 1) : Append(read, b)[i] = w[i]
      BY <2>2, <3>1, <3>3, <3>4 DEF b
    <3>6. Append(read, b) = w
      BY <3>3, <3>4, <3>5, <2>2
    <3> QED
      BY <3>1, <3>6, <2>1 DEF w
  <2>5. AtLongest(Append(read, b), Follow(state, b + 1))
    <3>1. Trie /\ Shortened /\ Legible
      BY <2>3, ReadyTable
    <3>2. AtLongest(read, state)
      BY <1>1, <2>3
    <3> HIDE DEF read, b
    <3> QED
      BY <2>2, <2>4, <3>1, <3>2, FollowLongest
  <2>6. Longest(State', tableSlot', SubSeq(data', 1, position'), state')
    BY <2>1, <2>4, <2>5, LongestIs
  <2>7. LongestSuffix'
    BY <2>6, LongestIs
  <2>8. data' \in Seq(Byte) /\ position' \in 0..Len(data') /\ phase' = "ready"
    BY <1>1, <2>1, <2>2, <2>3
  <2> QED
    BY <2>7, <2>8 DEF ReadingInv
<1>7. CASE UNCHANGED <<automaton, reading>>
  <2>1. data' = data /\ position' = position /\ state' = state /\ phase' = phase
        /\ State' = State /\ tableSlot' = tableSlot
    BY <1>7 DEF automaton, reading, State
  <2>2. LongestSuffix'
    BY <1>1, <2>1, LongestIs
  <2> QED
    BY <1>1, <2>1, <2>2 DEF ReadingInv
<1> QED
  BY <1>4, <1>5, <1>6, <1>7 DEF ReadingNext

\* Each step of the construction and of the reading keeps the three invariants.
THEOREM ReadingInvariance ==
  ASSUME NEW CONSTANT atoms, Atoms(atoms)
  PROVE  InitAutomaton(atoms) /\ InitReading /\ [][ReadingNext]_<<automaton, reading>> => [](Construction /\ Packing /\ ReadingInv)
<1>1. InitAutomaton(atoms) /\ InitReading => ReadingInv
  <2> SUFFICES ASSUME InitAutomaton(atoms), InitReading
               PROVE  ReadingInv
    OBVIOUS
  <2>1. phase = "add" /\ data = << >> /\ position = 0 /\ state = 0
    BY DEF InitAutomaton, InitReading
  <2> QED
    BY <2>1 DEF ReadingInv, LongestSuffix
<1>2. [ReadingNext]_<<automaton, reading>> => [Build]_automaton
  BY DEF ReadingNext, automaton
<1>3. Construction /\ Packing /\ Construction' /\ Packing' /\ ReadingInv /\ [ReadingNext]_<<automaton, reading>> => ReadingInv'
  BY ReadStep
<1>4. InitAutomaton(atoms) /\ [][Build]_automaton => []Construction
  BY ConstructionInvariance
<1>5. InitAutomaton(atoms) /\ [][Build]_automaton => []Packing
  BY PackingInvariance
<1> QED
  BY <1>1, <1>2, <1>3, <1>4, <1>5, PTL

\* At each position of each block, whatever the atoms and the bytes, the
\* automaton stands where the longest state is that the bytes read end in.
THEOREM LongestSuffixInvariance ==
  ASSUME NEW CONSTANT atoms, Atoms(atoms)
  PROVE  InitAutomaton(atoms) /\ InitReading /\ [][ReadingNext]_<<automaton, reading>> => []LongestSuffix
<1>1. ReadingInv => LongestSuffix
  BY DEF ReadingInv
<1> QED
  BY <1>1, ReadingInvariance, PTL

\* The atoms that end what was read end the longest state.
LEMMA FoundHere ==
  ASSUME Construction, Packing, ReadingInv
  PROVE  AtomsFound
<1> SUFFICES ASSUME phase = "ready"
             PROVE  /\ ToSet(AtomsHere) = {c \in 1..Len(cells) : IsSuffix(cells[c].bytes, SubSeq(data, 1, position))}
                    /\ IsInjective(AtomsHere)
  BY DEF AtomsFound
<1> DEFINE read == SubSeq(data, 1, position)
<1>1. Trie /\ Legible
  BY ReadyTable
<1>2. read \in Seq(Byte)
  BY Beginnings DEF ReadingInv
<1>3. PICK s \in State : /\ tableSlot[s] = state /\ IsSuffix(s, read)
                         /\ \A t \in State : IsSuffix(t, read) => Len(t) <= Len(s)
  BY DEF ReadingInv, LongestSuffix, AtLongest
<1> HIDE DEF read
<1>4. AtomsHere = Cells(cells, heads[s])
  BY <1>1, <1>3 DEF AtomsHere, Legible, Reads
<1>5. /\ ToSet(Cells(cells, heads[s])) = {c \in 1..Len(cells) : IsSuffix(cells[c].bytes, s)}
      /\ IsInjective(Cells(cells, heads[s]))
  BY ConstructionLists DEF ListsComplete
<1>6. s \in Seq(Byte) /\ \A c \in 1..Len(cells) : cells[c].bytes \in State /\ cells[c].bytes \in Seq(Byte)
  BY DEF Construction, Matches, Trie
<1>7. \A c \in 1..Len(cells) : IsSuffix(cells[c].bytes, s) <=> IsSuffix(cells[c].bytes, read)
  <2> SUFFICES ASSUME NEW c \in 1..Len(cells)
               PROVE  IsSuffix(cells[c].bytes, s) <=> IsSuffix(cells[c].bytes, read)
    OBVIOUS
  <2> DEFINE a == cells[c].bytes
  <2>1. a \in State /\ a \in Seq(Byte)
    BY <1>6
  <2> HIDE DEF a
  <2>2. IsSuffix(a, s) => IsSuffix(a, read)
    BY <1>2, <1>3, <1>6, <2>1, SuffixOrder
  <2>3. IsSuffix(a, read) => IsSuffix(a, s)
    BY <1>2, <1>3, <1>6, <2>1, SuffixOrder
  <2> QED
    BY <2>2, <2>3 DEF a
<1>8. {c \in 1..Len(cells) : IsSuffix(cells[c].bytes, s)} = {c \in 1..Len(cells) : IsSuffix(cells[c].bytes, read)}
  BY <1>7
<1> QED
  BY <1>4, <1>5, <1>8 DEF read

\* At each position of each block, whatever the atoms and the bytes, the
\* matches looked at are those of the atoms that end there, each once.
THEOREM AtomsAreFound ==
  ASSUME NEW CONSTANT atoms, Atoms(atoms)
  PROVE  InitAutomaton(atoms) /\ InitReading /\ [][ReadingNext]_<<automaton, reading>> => []AtomsFound
<1>1. Construction /\ Packing /\ ReadingInv => AtomsFound
  BY FoundHere
<1> QED
  BY <1>1, ReadingInvariance, PTL

(***************************************************************************)
(* PART 2: the slots of the scans.                                         *)
(*                                                                         *)
(* For any number of threads and slots, any rules and files, and however   *)
(* scans end: slots are exclusive and clean when free, and a scan that     *)
(* succeeds reports the rules its file satisfies.                          *)
(***************************************************************************)

LEMMA RuleTypes ==
  /\ Len(Rules) \in Nat
  /\ \A r \in Rule : r \in Nat \ {0} /\ r <= Len(Rules) /\ Rules[r] \in RuleRecord /\ Rules[r].ns \in Nat
       /\ Rules[r].asks \in {"string", "entry", "module"} /\ Rules[r].global \in BOOLEAN
<1>1. Len(Rules) \in Nat /\ \A r \in Rule : r \in Nat \ {0} /\ r <= Len(Rules) /\ Rules[r] \in RuleRecord
  BY NativeAssumption DEF Rule
<1>2. \A q \in RuleRecord : q.ns \in Nat /\ q.asks \in {"string", "entry", "module"} /\ q.global \in BOOLEAN
  BY DEF RuleRecord
<1> QED
  BY <1>1, <1>2

LEMMA FileTypes ==
  ASSUME NEW f \in File
  PROVE  /\ f.data \in {"yes", "no"} /\ Len(f.blocks) \in Nat
         /\ \A i \in 1..Len(f.blocks) : f.blocks[i] \in Block
BY NativeAssumption

LEMMA InitStep == Init => IInv
<1> SUFFICES ASSUME Init PROVE IInv
  OBVIOUS
<1>1. (CHOOSE f \in File : TRUE) \in File
  BY NativeAssumption
<1>2. TypeOK
  BY <1>1 DEF Init, TypeOK, Pcs, Running, Results
<1>3. \A t \in Thread : ~InScan(t) /\ pc[t] = "idle" /\ result[t] = "none"
  BY DEF Init, InScan, Running
<1>4. Slots /\ FreeSlotsClean
  BY <1>3 DEF Init, Slots, FreeSlotsClean
<1>5. \A t \in Thread : at[t] > 0 /\ Dirt(t) /\ Kept(t) /\ Progress(t)
  BY <1>3 DEF Init, Dirt, Kept, Progress
<1> QED
  BY <1>2, <1>4, <1>5 DEF IInv

\* A block read is one of the file's.
LEMMA BlockTypes ==
  ASSUME TypeOK, NEW t \in Thread, at[t] > 0, at[t] <= Len(file[t].blocks)
  PROVE  file[t].blocks[at[t]].strings \subseteq Rule /\ file[t].blocks[at[t]].entry \in Entry \cup {NoEntry}
<1>1. file[t] \in File /\ at[t] \in Nat
  BY DEF TypeOK
<1>2. at[t] \in 1..Len(file[t].blocks) /\ file[t].blocks[at[t]] \in Block
  BY <1>1, FileTypes
<1> QED
  BY <1>2 DEF Block

-----------------------------------------------------------------------------
(* Types. *)

LEMMA PcsAre ==
  /\ "idle" \in Pcs /\ "tidx" \in Pcs /\ "arenas" \in Pcs /\ "blocks" \in Pcs /\ "rules" \in Pcs
  /\ "report" \in Pcs /\ "clean" \in Pcs /\ "release" \in Pcs
  /\ "success" \in Results /\ "aborted" \in Results /\ "too many threads" \in Results /\ "error" \in Results
BY DEF Pcs, Running, Results

LEMMA TypeStep == ASSUME IInv, NEW t \in Thread, Step(t) PROVE TypeOK' /\ at'[t] > 0
<1> USE DEF GoTo, End
<1>0. TypeOK /\ at[t] \in Nat /\ at[t] > 0 /\ (InScan(t) => slot[t] \in Slot)
  BY DEF IInv, TypeOK, Slots
<1>pc. pc \in [Thread -> Pcs]
  BY <1>0 DEF TypeOK
<1>re. result \in [Thread -> Results]
  BY <1>0 DEF TypeOK
<1>at. at \in [Thread -> Nat]
  BY <1>0 DEF TypeOK
<1>1. CASE ScanMemory(t)
  <2>1. PICK f \in File : /\ file' = [file EXCEPT ![t] = f]
                         /\ \/ pc' = [pc EXCEPT ![t] = "idle"]
                            \/ pc' = [pc EXCEPT ![t] = "tidx"]
    BY <1>1 DEF ScanMemory
  <2>2. file' \in [Thread -> File] /\ pc' \in [Thread -> Pcs]
    BY <1>0, <2>1, PcsAre DEF TypeOK
  <2>3. result' \in [Thread -> Results]
    BY <1>re, <1>1, PcsAre DEF ScanMemory
  <2>4. reported' \in [Thread -> SUBSET Rule] /\ scans' \in Nat
    BY <1>0, <1>1 DEF ScanMemory, TypeOK
  <2> QED
    BY <1>0, <1>1, <2>2, <2>3, <2>4 DEF ScanMemory, TypeOK, shared, scanner, past
<1>2. CASE TakeSlot(t)
  <2>0. mask \in SUBSET Slot /\ slot \in [Thread -> Slot \cup {-1}]
    BY <1>0 DEF TypeOK
  <2>1. \/ UNCHANGED <<mask, slot>>
        \/ \E s \in Slot \ mask : mask' = mask \cup {s} /\ slot' = [slot EXCEPT ![t] = s]
    BY <1>2 DEF TakeSlot
  <2>2. mask' \in SUBSET Slot /\ slot' \in [Thread -> Slot \cup {-1}]
    BY <2>0, <2>1
  <2>3. pc' = [pc EXCEPT ![t] = "arenas"] \/ pc' = [pc EXCEPT ![t] = "idle"]
    BY <1>2 DEF TakeSlot
  <2>4. result' = result \/ result' = [result EXCEPT ![t] = "too many threads"]
    BY <1>2 DEF TakeSlot
  <2>5. pc' \in [Thread -> Pcs]
    BY <1>pc, <2>3, PcsAre
  <2>6. result' \in [Thread -> Results]
    BY <1>re, <2>4, PcsAre
  <2> QED
    BY <1>0, <1>2, <2>2, <2>5, <2>6 DEF TakeSlot, TypeOK, place, past
<1>3. CASE CreateArenas(t)
  <2>1. pc' \in [Thread -> Pcs]
    <3>1. pc' = [pc EXCEPT ![t] = "blocks"] \/ pc' = [pc EXCEPT ![t] = "clean"]
      BY <1>3 DEF CreateArenas
    <3> QED
      BY <1>pc, <3>1, PcsAre
  <2>3. result' \in [Thread -> Results]
    <3>1. result' = result \/ result' = [result EXCEPT ![t] = "error"]
      BY <1>3 DEF CreateArenas
    <3> QED
      BY <1>re, <3>1, PcsAre
  <2>2. at' \in [Thread -> Nat] /\ at'[t] > 0
    BY <1>0, <1>3 DEF CreateArenas, TypeOK
  <2> QED
    BY <1>0, <1>3, <2>1, <2>2, <2>3 DEF CreateArenas, TypeOK, shared, scanner, past
<1>4. CASE SkipBlock(t)
  <2>1. at' \in [Thread -> Nat] /\ at'[t] > 0
    BY <1>0, <1>4 DEF SkipBlock, TypeOK
  <2> QED
    BY <1>0, <1>4, <2>1 DEF SkipBlock, TypeOK, shared, scanner, outcome, past
<1>5. CASE ScanBlock(t)
  <2>1. PICK found \in SUBSET file[t].blocks[at[t]].strings :
          /\ lists' = [lists EXCEPT ![slot[t]] = @ \cup found]
          /\ touched' = [touched EXCEPT ![t] = @ \cup found]
          /\ \/ at' = [at EXCEPT ![t] = @ + 1] /\ UNCHANGED <<pc, result>>
             \/ pc' = [pc EXCEPT ![t] = "clean"] /\ result' = [result EXCEPT ![t] = "error"] /\ UNCHANGED at
    BY <1>5 DEF ScanBlock
  <2>2. found \subseteq Rule /\ file[t].blocks[at[t]].entry \in Entry \cup {NoEntry}
    BY <1>0, <1>5, BlockTypes DEF ScanBlock
  <2>3. lists' \in [Slot -> SUBSET Rule] /\ touched' \in [Thread -> SUBSET Rule]
    BY <1>0, <2>1, <2>2 DEF TypeOK
  <2>4. entry' \in [Thread -> Entry \cup {NoEntry}] /\ first' \in [Thread -> Entry \cup {NoEntry}]
    BY <1>0, <1>5, <2>2 DEF ScanBlock, TypeOK
  <2>5. pc' \in [Thread -> Pcs]
    BY <1>pc, <2>1, PcsAre
  <2>7. result' \in [Thread -> Results]
    BY <1>re, <2>1, PcsAre
  <2>6. at' \in [Thread -> Nat] /\ at'[t] > 0
    BY <1>0, <2>1 DEF TypeOK
  <2> QED
    BY <1>0, <1>5, <2>3, <2>4, <2>5, <2>6, <2>7 DEF ScanBlock, TypeOK
<1>6. CASE ImportModules(t)
  <2>1. file[t].data \in {"yes", "no"}
    BY <1>0, FileTypes DEF TypeOK
  <2>2. modules' \in [Thread -> {"none", "yes", "no"}]
    BY <1>0, <1>6, <2>1 DEF ImportModules, TypeOK
  <2>3. pc' \in [Thread -> Pcs]
    BY <1>pc, <1>6, PcsAre DEF ImportModules
  <2>4. at' \in [Thread -> Nat] /\ at'[t] > 0
    BY <1>at, <1>6 DEF ImportModules
  <2> QED
    BY <1>0, <1>6, <2>2, <2>3, <2>4 DEF ImportModules, TypeOK, shared, outcome, past
<1>7. CASE RunRule(t)
  <2>1. at[t] \in Rule /\ Rules[at[t]].ns \in Nat
    BY <1>0, <1>7, RuleTypes DEF RunRule, Rule
  <2>2. slot[t] \in Slot
    BY <1>0, <1>7 DEF RunRule, InScan, Running
  <2>3. unsatisfied' \in [Slot -> SUBSET Nat]
    <3>1. unsatisfied' = unsatisfied \/ unsatisfied' = [unsatisfied EXCEPT ![slot[t]] = @ \cup {Rules[at[t]].ns}]
      BY <1>7 DEF RunRule
    <3> QED
      BY <1>0, <2>1, <2>2, <3>1 DEF TypeOK
  <2>4. matched' \in [Slot -> SUBSET Rule]
    <3>1. matched' = matched \/ matched' = [matched EXCEPT ![slot[t]] = @ \cup {at[t]}]
      BY <1>7 DEF RunRule
    <3>2. matched \in [Slot -> SUBSET Rule]
      BY <1>0 DEF TypeOK
    <3> QED
      BY <2>1, <2>2, <3>1, <3>2
  <2>5. at' \in [Thread -> Nat] /\ at'[t] > 0
    BY <1>0, <1>7 DEF RunRule, TypeOK
  <2> QED
    BY <1>0, <1>7, <2>3, <2>4, <2>5 DEF RunRule, TypeOK, scanner, outcome, past
<1>8. CASE RulesDone(t)
  <2>1. modules' \in [Thread -> {"none", "yes", "no"}] /\ pc' \in [Thread -> Pcs]
    BY <1>0, <1>8, PcsAre DEF RulesDone, TypeOK
  <2> QED
    BY <1>0, <1>8, <2>1 DEF RulesDone, TypeOK, shared, outcome, place, past
<1>9. CASE ExecutionFails(t)
  <2>1. file[t].data \in {"yes", "no"} /\ modules[t] \in {"none", "yes", "no"}
    BY <1>0, FileTypes DEF TypeOK
  <2>2. PICK known \in {"none", "yes", "no"} : modules' = [modules EXCEPT ![t] = known]
    BY <1>9, <2>1 DEF ExecutionFails
  <2>3. modules' \in [Thread -> {"none", "yes", "no"}]
    BY <1>0, <2>2 DEF TypeOK
  <2>4. crashed' \in [Thread -> BOOLEAN]
    BY <1>0, <1>9 DEF ExecutionFails, TypeOK
  <2>5. pc' \in [Thread -> Pcs] /\ result' \in [Thread -> Results]
    BY <1>0, <1>9, PcsAre DEF ExecutionFails, TypeOK
  <2> QED
    BY <1>0, <1>9, <2>3, <2>4, <2>5 DEF ExecutionFails, TypeOK, shared, place
<1>10. CASE Report(t)
  <2>1. matched[slot[t]] \subseteq Rule
    BY <1>0, <1>10 DEF Report, InScan, Running, TypeOK
  <2>2. PICK more \in SUBSET Rule : reported' = [reported EXCEPT ![t] = @ \cup more]
    BY <1>10, <2>1 DEF Report
  <2>3. reported' \in [Thread -> SUBSET Rule]
    BY <1>0, <2>2 DEF TypeOK
  <2>4. pc' \in [Thread -> Pcs]
    BY <1>pc, <1>10, PcsAre DEF Report
  <2>5. PICK how \in {"success", "aborted", "error"} : result' = [result EXCEPT ![t] = how]
    BY <1>10 DEF Report
  <2>6. result' \in [Thread -> Results]
    BY <1>re, <2>5, PcsAre
  <2> QED
    BY <1>0, <1>10, <2>3, <2>4, <2>6 DEF Report, TypeOK, shared, scanner, place, past
<1>11. CASE CleanMatches(t)
  <2>1. matched' \in [Slot -> SUBSET Rule] /\ unsatisfied' \in [Slot -> SUBSET Nat]
    BY <1>0, <1>11 DEF CleanMatches, TypeOK
  <2>2. lists' \in [Slot -> SUBSET Rule] /\ touched' \in [Thread -> SUBSET Rule] /\ pc' \in [Thread -> Pcs]
    BY <1>0, <1>11, PcsAre DEF CleanMatches, TypeOK
  <2> QED
    BY <1>0, <1>11, <2>1, <2>2 DEF CleanMatches, TypeOK, outcome, place, past
<1>12. CASE ReleaseSlot(t)
  BY <1>0, <1>12, PcsAre DEF ReleaseSlot, TypeOK, scanner, outcome, place, past
<1> QED
  BY <1>1, <1>2, <1>3, <1>4, <1>5, <1>6, <1>7, <1>8, <1>9, <1>10, <1>11, <1>12 DEF Step
-----------------------------------------------------------------------------
(* A step of one scan changes what is its own, and its slot. *)

LEMMA OwnOnly ==
  ASSUME IInv, NEW t \in Thread, Step(t), NEW u \in Thread, u # t
  PROVE  /\ pc'[u] = pc[u] /\ file'[u] = file[u] /\ at'[u] = at[u] /\ slot'[u] = slot[u]
         /\ touched'[u] = touched[u] /\ entry'[u] = entry[u] /\ modules'[u] = modules[u]
         /\ result'[u] = result[u] /\ reported'[u] = reported[u] /\ first'[u] = first[u]
         /\ crashed'[u] = crashed[u]
<1> USE DEF GoTo, End
<1>0. \A f \in {pc, file, at, slot, touched, entry, modules, result, reported, first, crashed} :
        \A v : [f EXCEPT ![t] = v][u] = f[u]
  <2>1. \A S : \A f \in [Thread -> S] : \A v : [f EXCEPT ![t] = v][u] = f[u]
    OBVIOUS
  <2> QED
    BY <2>1 DEF IInv, TypeOK
<1>1. CASE ScanMemory(t)
  BY <1>0, <1>1 DEF ScanMemory, shared, scanner, past
<1>2. CASE TakeSlot(t)
  <2>1. pc'[u] = pc[u]
    <3>1. pc' = pc \/ \E v : pc' = [pc EXCEPT ![t] = v]
      BY <1>2 DEF TakeSlot
    <3> QED
      BY <1>0, <3>1
  <2>2. slot'[u] = slot[u]
    <3>1. slot' = slot \/ \E v : slot' = [slot EXCEPT ![t] = v]
      BY <1>2 DEF TakeSlot
    <3> QED
      BY <1>0, <3>1
  <2>3. result'[u] = result[u]
    <3>1. result' = result \/ \E v : result' = [result EXCEPT ![t] = v]
      BY <1>2 DEF TakeSlot
    <3> QED
      BY <1>0, <3>1
  <2> QED
    BY <1>2, <2>1, <2>2, <2>3 DEF TakeSlot, place, past
<1>3. CASE CreateArenas(t)
  <2>1. pc'[u] = pc[u]
    <3>1. pc' = pc \/ \E v : pc' = [pc EXCEPT ![t] = v]
      BY <1>3 DEF CreateArenas
    <3> QED
      BY <1>0, <3>1
  <2>2. result'[u] = result[u]
    <3>1. result' = result \/ \E v : result' = [result EXCEPT ![t] = v]
      BY <1>3 DEF CreateArenas
    <3> QED
      BY <1>0, <3>1
  <2>3. at'[u] = at[u]
    BY <1>0, <1>3 DEF CreateArenas
  <2> QED
    BY <1>3, <2>1, <2>2, <2>3 DEF CreateArenas, shared, scanner, past
<1>4. CASE SkipBlock(t)
  BY <1>0, <1>4 DEF SkipBlock, shared, scanner, outcome, past
<1>5. CASE ScanBlock(t)
  <2>1. pc'[u] = pc[u]
    <3>1. pc' = pc \/ \E v : pc' = [pc EXCEPT ![t] = v]
      BY <1>5 DEF ScanBlock
    <3> QED
      BY <1>0, <3>1
  <2>2. result'[u] = result[u]
    <3>1. result' = result \/ \E v : result' = [result EXCEPT ![t] = v]
      BY <1>5 DEF ScanBlock
    <3> QED
      BY <1>0, <3>1
  <2>3. at'[u] = at[u]
    <3>1. at' = at \/ \E v : at' = [at EXCEPT ![t] = v]
      BY <1>5 DEF ScanBlock
    <3> QED
      BY <1>0, <3>1
  <2>4. touched'[u] = touched[u]
    <3>1. touched' = touched \/ \E v : touched' = [touched EXCEPT ![t] = v]
      BY <1>5 DEF ScanBlock
    <3> QED
      BY <1>0, <3>1
  <2>5. entry'[u] = entry[u]
    <3>1. entry' = entry \/ \E v : entry' = [entry EXCEPT ![t] = v]
      BY <1>5 DEF ScanBlock
    <3> QED
      BY <1>0, <3>1
  <2>6. first'[u] = first[u]
    <3>1. first' = first \/ \E v : first' = [first EXCEPT ![t] = v]
      BY <1>5 DEF ScanBlock
    <3> QED
      BY <1>0, <3>1
  <2> QED
    BY <1>5, <2>1, <2>2, <2>3, <2>4, <2>5, <2>6 DEF ScanBlock
<1>6. CASE ImportModules(t)
  BY <1>0, <1>6 DEF ImportModules, shared, outcome, past
<1>7. CASE RunRule(t)
  BY <1>0, <1>7 DEF RunRule, scanner, outcome, past
<1>8. CASE RulesDone(t)
  BY <1>0, <1>8 DEF RulesDone, shared, outcome, place, past
<1>9. CASE ExecutionFails(t)
  BY ZenonT(60), <1>0, <1>9 DEF ExecutionFails, shared, place
<1>10. CASE Report(t)
  <2>1. result'[u] = result[u]
    <3>1. result' = result \/ \E v : result' = [result EXCEPT ![t] = v]
      BY <1>10 DEF Report
    <3> QED
      BY <1>0, <3>1
  <2>2. reported'[u] = reported[u]
    <3>1. reported' = reported \/ \E v : reported' = [reported EXCEPT ![t] = v]
      BY <1>10 DEF Report
    <3> QED
      BY <1>0, <3>1
  <2>3. pc'[u] = pc[u]
    BY <1>0, <1>10 DEF Report
  <2> QED
    BY <1>10, <2>1, <2>2, <2>3 DEF Report, shared, scanner, place, past
<1>11. CASE CleanMatches(t)
  BY <1>0, <1>11 DEF CleanMatches, outcome, place, past
<1>12. CASE ReleaseSlot(t)
  BY <1>0, <1>12 DEF ReleaseSlot, scanner, outcome, place, past
<1> QED
  BY <1>1, <1>2, <1>3, <1>4, <1>5, <1>6, <1>7, <1>8, <1>9, <1>10, <1>11, <1>12 DEF Step

LEMMA OwnSlot ==
  ASSUME IInv, NEW t \in Thread, Step(t), NEW s \in Slot, s # slot[t] \/ ~InScan(t)
  PROVE  lists'[s] = lists[s] /\ matched'[s] = matched[s] /\ unsatisfied'[s] = unsatisfied[s]
<1>1. CASE ScanMemory(t) \/ TakeSlot(t) \/ CreateArenas(t) \/ SkipBlock(t) \/ ImportModules(t)
           \/ RulesDone(t) \/ ExecutionFails(t) \/ Report(t) \/ ReleaseSlot(t)
  BY <1>1 DEF ScanMemory, TakeSlot, CreateArenas, SkipBlock, ImportModules, RulesDone, ExecutionFails, Report,
              ReleaseSlot, shared
<1>2. ASSUME ScanBlock(t) \/ RunRule(t) \/ CleanMatches(t)
      PROVE  s # slot[t]
  BY <1>2 DEF ScanBlock, RunRule, CleanMatches, InScan, Running
<1>3. /\ \A v : [lists EXCEPT ![slot[t]] = v][s] = lists[s] \/ s = slot[t]
      /\ \A v : [matched EXCEPT ![slot[t]] = v][s] = matched[s] \/ s = slot[t]
      /\ \A v : [unsatisfied EXCEPT ![slot[t]] = v][s] = unsatisfied[s] \/ s = slot[t]
  BY DEF IInv, TypeOK
<1>4. CASE ScanBlock(t)
  BY <1>2, <1>3, <1>4 DEF ScanBlock
<1>5. CASE RunRule(t)
  BY <1>2, <1>3, <1>5 DEF RunRule
<1>6. CASE CleanMatches(t)
  BY <1>2, <1>3, <1>6 DEF CleanMatches
<1> QED
  BY <1>1, <1>4, <1>5, <1>6 DEF Step

LEMMA OthersKeep ==
  ASSUME IInv, NEW t \in Thread, Step(t), NEW u \in Thread, u # t
  PROVE  at'[u] > 0 /\ Dirt(u)' /\ Kept(u)' /\ Progress(u)'
<1>1. at[u] > 0 /\ Dirt(u) /\ Kept(u) /\ Progress(u) /\ Slots /\ mask \subseteq Slot
  BY DEF IInv, TypeOK
<1>2. /\ pc'[u] = pc[u] /\ file'[u] = file[u] /\ at'[u] = at[u] /\ slot'[u] = slot[u]
      /\ touched'[u] = touched[u] /\ entry'[u] = entry[u] /\ modules'[u] = modules[u]
      /\ result'[u] = result[u] /\ reported'[u] = reported[u] /\ first'[u] = first[u]
      /\ crashed'[u] = crashed[u]
  BY OwnOnly
<1>3. InScan(u) => /\ lists'[slot[u]] = lists[slot[u]] /\ matched'[slot[u]] = matched[slot[u]]
                   /\ unsatisfied'[slot[u]] = unsatisfied[slot[u]]
  BY <1>1, OwnSlot DEF Slots
<1>4. Dirt(u)' /\ Kept(u)'
  BY <1>1, <1>2, <1>3 DEF Dirt, Kept, InScan
<1>5. \A r : OfThisFile(u, r)' = OfThisFile(u, r)
  BY <1>2 DEF OfThisFile
<1>6. Exact(u)' = Exact(u)
  BY <1>2, <1>5 DEF Exact
<1>7. InScan(u) => \A n : Judged(u, n)' = Judged(u, n)
  BY <1>2, <1>3, <1>5 DEF Judged
<1>8. Progress(u)'
  BY <1>1, <1>2, <1>3, <1>6, <1>7 DEF Progress, InScan, Running
<1> QED
  BY <1>1, <1>2, <1>4, <1>8

-----------------------------------------------------------------------------
(* The slots. *)

LEMMA SlotsStep == ASSUME IInv, NEW t \in Thread, Step(t) PROVE Slots' /\ FreeSlotsClean'
<1>0. Slots /\ FreeSlotsClean /\ Dirt(t) /\ mask \subseteq Slot /\ pc \in [Thread -> Pcs]
      /\ slot \in [Thread -> Slot \cup {-1}]
  BY DEF IInv, TypeOK
<1>1. \A u \in Thread \ {t} : slot'[u] = slot[u] /\ (InScan(u)' <=> InScan(u))
  BY OwnOnly DEF InScan
<1>2. CASE mask' = mask /\ slot' = slot /\ (InScan(t)' <=> InScan(t))
  <2>1. \A u \in Thread : InScan(u)' <=> InScan(u)
    BY <1>1, <1>2
  <2>2. Slots'
    BY <1>0, <1>2, <2>1 DEF Slots
  <2>3. \A s \in Slot \ mask : s # slot[t] \/ ~InScan(t)
    BY <1>0 DEF Slots
  <2>4. FreeSlotsClean'
    BY <1>0, <1>2, <2>3, OwnSlot DEF FreeSlotsClean
  <2> QED
    BY <2>2, <2>4
<1>3. ASSUME Step(t), ~TakeSlot(t), ~ReleaseSlot(t)
      PROVE  mask' = mask /\ slot' = slot /\ (InScan(t)' <=> InScan(t))
  <2>1. mask' = mask /\ slot' = slot
    BY Zenon, <1>3 DEF Step, ScanMemory, CreateArenas, SkipBlock, ScanBlock, ImportModules, RunRule, RulesDone,
       ExecutionFails, Report, CleanMatches, shared, scanner
  <2>2. CASE ScanMemory(t)
    <3>1. pc[t] = "idle" /\ pc'[t] \in {"idle", "tidx"}
      BY <1>0, <2>2 DEF ScanMemory, GoTo
    <3> QED
      BY <2>1, <3>1 DEF InScan, Running
  <2>3. CASE ~ScanMemory(t)
    <3>1. pc[t] \in Running
      BY ZenonT(60), <1>3, <2>3 DEF Step, CreateArenas, SkipBlock, ScanBlock, ImportModules, RunRule, RulesDone,
         ExecutionFails, Report, CleanMatches, Running
    <3>2. pc' = pc \/ \E p \in Running : pc' = [pc EXCEPT ![t] = p]
      BY ZenonT(60), <1>3, <2>3 DEF Step, CreateArenas, SkipBlock, ScanBlock, ImportModules, RunRule, RulesDone,
         ExecutionFails, Report, CleanMatches, Running, GoTo, outcome
    <3>3. pc'[t] \in Running
      BY <1>0, <3>1, <3>2
    <3> QED
      BY <2>1, <3>1, <3>3 DEF InScan
  <2> QED
    BY <2>2, <2>3
<1>4. CASE TakeSlot(t)
  <2>1. ~InScan(t) /\ pc[t] = "tidx"
    BY <1>4 DEF TakeSlot, InScan, Running
  <2>2. CASE mask' = mask
    <3>1. slot' = slot /\ pc'[t] = "idle"
      BY <1>0, <1>4, <2>2 DEF TakeSlot, GoTo
    <3> QED
      BY <1>2, <2>1, <2>2, <3>1 DEF InScan, Running
  <2>3. CASE mask' # mask
    <3>1. PICK s \in Slot \ mask : mask' = mask \cup {s} /\ slot' = [slot EXCEPT ![t] = s]
                                /\ pc' = [pc EXCEPT ![t] = "arenas"]
      BY <1>4, <2>3 DEF TakeSlot, GoTo
    <3>2. slot'[t] = s /\ InScan(t)'
      BY <1>0, <3>1 DEF InScan, Running
    <3>3. \A u \in Thread \ {t} : InScan(u)' => slot'[u] \in mask /\ slot'[u] # s
      BY <1>0, <1>1, <3>1 DEF Slots
    <3>4. \A u \in Thread : InScan(u)' => slot'[u] \in mask'
      BY <3>1, <3>2, <3>3
    <3>5. \A u, v \in Thread : InScan(u)' /\ InScan(v)' /\ slot'[u] = slot'[v] => u = v
      BY <1>0, <1>1, <3>2, <3>3 DEF Slots
    <3>6. \A r \in mask' : \E u \in Thread : InScan(u)' /\ slot'[u] = r
      BY <1>0, <1>1, <2>1, <3>1, <3>2 DEF Slots
    <3>7. Slots'
      BY <3>4, <3>5, <3>6 DEF Slots
    <3>8. FreeSlotsClean'
      BY <1>0, <1>4, <3>1 DEF FreeSlotsClean, TakeSlot
    <3> QED
      BY <3>7, <3>8
  <2> QED
    BY <2>2, <2>3
<1>5. CASE ReleaseSlot(t)
  <2>1. InScan(t) /\ mask' = mask \ {slot[t]} /\ slot' = slot /\ pc' = [pc EXCEPT ![t] = "idle"]
        /\ pc[t] = "release" /\ UNCHANGED <<lists, matched, unsatisfied>>
    BY <1>5 DEF ReleaseSlot, InScan, Running, GoTo, scanner
  <2>2. ~InScan(t)'
    BY <1>0, <2>1 DEF InScan, Running
  <2>3. \A u \in Thread : InScan(u)' => u # t /\ InScan(u) /\ slot[u] # slot[t]
    BY <1>0, <1>1, <2>1, <2>2 DEF Slots
  <2>4. Slots'
    BY <1>0, <1>1, <2>1, <2>2, <2>3 DEF Slots
  <2>5. FreeSlotsClean'
    BY <1>0, <2>1 DEF FreeSlotsClean, Dirt
  <2> QED
    BY <2>4, <2>5
<1> QED
  BY <1>2, <1>3, <1>4, <1>5
-----------------------------------------------------------------------------
(* The scan of one file. *)

LEMMA StringsGrow ==
  ASSUME NEW f \in File, NEW n \in Nat \ {0}
  PROVE  /\ StringsBefore(f, 1) = {}
         /\ n \notin Readable(f) => StringsBefore(f, n + 1) = StringsBefore(f, n)
         /\ n \in Readable(f) => StringsBefore(f, n + 1) = StringsBefore(f, n) \cup f.blocks[n].strings
         /\ n > Len(f.blocks) => StringsBefore(f, n) = StringsBefore(f, Len(f.blocks) + 1)
<1>1. Len(f.blocks) \in Nat /\ Readable(f) \subseteq 1..Len(f.blocks)
  BY FileTypes DEF Readable
<1>2. {j \in Readable(f) : j < 1} = {}
  BY <1>1
<1>3. n \notin Readable(f) => {j \in Readable(f) : j < n + 1} = {j \in Readable(f) : j < n}
  BY <1>1
<1>4. n \in Readable(f) => {j \in Readable(f) : j < n + 1} = {j \in Readable(f) : j < n} \cup {n}
  BY <1>1
<1>5. n > Len(f.blocks) => {j \in Readable(f) : j < n} = {j \in Readable(f) : j < Len(f.blocks) + 1}
  BY <1>1
<1> QED
  BY <1>2, <1>3, <1>4, <1>5 DEF StringsBefore

LEMMA AllStrings ==
  ASSUME NEW f \in File, NEW r
  PROVE  r \in StringsBefore(f, Len(f.blocks) + 1) <=> \E i \in Readable(f) : r \in f.blocks[i].strings
<1>1. {j \in Readable(f) : j < Len(f.blocks) + 1} = Readable(f)
  BY FileTypes DEF Readable
<1> QED
  BY <1>1 DEF StringsBefore

\* A condition that asks for nothing of another file is true of this one.
LEMMA HoldsOfFile ==
  ASSUME IInv, NEW t \in Thread, pc[t] = "rules", NEW r \in Rule, OfThisFile(t, r)
  PROVE  Holds(t, r) <=> HoldsOf(file[t], r)
<1>1. Kept(t) /\ Progress(t) /\ file[t] \in File
  BY DEF IInv, TypeOK
<1>2. lists[slot[t]] = StringsBefore(file[t], Len(file[t].blocks) + 1)
  BY <1>1 DEF Progress, Judged
<1>3. r \in lists[slot[t]] <=> \E i \in Readable(file[t]) : r \in file[t].blocks[i].strings
  BY <1>1, <1>2, AllStrings
<1>4. CASE Rules[r].asks = "string"
  BY <1>3, <1>4 DEF Holds, HoldsOf
<1>5. CASE Rules[r].asks = "entry"
  BY <1>1, <1>5 DEF Holds, HoldsOf, Kept, OfThisFile
<1>6. CASE Rules[r].asks = "module"
  BY <1>1, <1>6 DEF Holds, HoldsOf, Kept, OfThisFile
<1> QED
  BY <1>4, <1>5, <1>6, RuleTypes

LEMMA BeginningKeeps ==
  ASSUME IInv, NEW t \in Thread, ScanMemory(t) \/ TakeSlot(t) \/ CreateArenas(t)
  PROVE  Dirt(t)' /\ Kept(t)' /\ Progress(t)'
<1> USE DEF GoTo, End
<1>0. TypeOK /\ Slots /\ FreeSlotsClean /\ Dirt(t) /\ Kept(t) /\ Progress(t)
  BY DEF IInv
<1>pc. pc \in [Thread -> Pcs] /\ result \in [Thread -> Results] /\ file[t] \in File
  BY <1>0 DEF TypeOK
<1>1. CASE ScanMemory(t)
  <2>1. PICK f \in File : file' = [file EXCEPT ![t] = f]
                         /\ pc' = [pc EXCEPT ![t] = IF f.blocks = <<>> THEN "idle" ELSE "tidx"]
    BY <1>1 DEF ScanMemory
  <2>2. file'[t] = f /\ pc'[t] \in {"idle", "tidx"} /\ (pc'[t] = "idle" => f.blocks = <<>>)
    BY <1>0, <2>1 DEF TypeOK
  <2>3. reported'[t] = {} /\ pc[t] = "idle" /\ UNCHANGED <<entry, modules, first, crashed>>
    BY <1>0, <1>1 DEF ScanMemory, TypeOK, scanner, past
  <2> QED
    BY <1>0, <2>2, <2>3 DEF Dirt, Kept, Progress, InScan, Running
<1>2. CASE TakeSlot(t)
  <2>1. pc[t] = "tidx" /\ UNCHANGED <<lists, matched, unsatisfied, entry, modules, touched, reported, first, crashed, file>>
    BY <1>2 DEF TakeSlot, place, past
  <2>2. CASE Slot \subseteq mask /\ pc' = [pc EXCEPT ![t] = "idle"]
                /\ result' = [result EXCEPT ![t] = "too many threads"]
    <3>1. pc'[t] = "idle" /\ result'[t] = "too many threads"
      BY <1>pc, <2>2
    <3> QED
      BY <1>0, <2>1, <3>1 DEF Dirt, Kept, Progress, InScan, Running
  <2>3. ASSUME NEW s \in Slot \ mask, slot' = [slot EXCEPT ![t] = s], pc' = [pc EXCEPT ![t] = "arenas"]
        PROVE  Dirt(t)' /\ Kept(t)' /\ Progress(t)'
    <3>1. pc'[t] = "arenas" /\ slot'[t] = s
      BY <1>0, <2>3 DEF TypeOK
    <3>2. lists[s] = {} /\ matched[s] = {} /\ unsatisfied[s] = {}
      BY <1>0 DEF FreeSlotsClean
    <3>3. Dirt(t)'
      BY <2>1, <3>1, <3>2 DEF Dirt
    <3>4. Kept(t)' /\ Progress(t)'
      BY <1>0, <2>1, <3>1, <3>2 DEF Kept, Progress
    <3> QED
      BY <3>3, <3>4
  <2> QED
    BY <1>2, <2>2, <2>3 DEF TakeSlot
<1>3. CASE CreateArenas(t)
  <2>1. /\ pc[t] = "arenas" /\ at'[t] = 1
        /\ UNCHANGED <<lists, matched, unsatisfied, slot, entry, modules, touched, reported, first, crashed, file>>
    BY <1>0, <1>3 DEF CreateArenas, shared, scanner, past, TypeOK
  <2>2. InScan(t)
    BY <2>1 DEF InScan, Running
  <2>3. CASE pc' = [pc EXCEPT ![t] = "blocks"]
    <3>1. pc'[t] = "blocks"
      BY <1>pc, <2>3
    <3>2. StringsBefore(file[t], 1) = {}
      BY <1>pc, StringsGrow
    <3> QED
      BY <1>0, <2>1, <2>2, <3>1, <3>2 DEF Dirt, Kept, Progress
  <2>4. CASE pc' = [pc EXCEPT ![t] = "clean"] /\ result' = [result EXCEPT ![t] = "error"]
    <3>1. pc'[t] = "clean" /\ result'[t] = "error"
      BY <1>pc, <2>4
    <3> QED
      BY <1>0, <2>1, <2>2, <3>1 DEF Dirt, Kept, Progress
  <2> QED
    BY <1>3, <2>3, <2>4 DEF CreateArenas
<1> QED
  BY <1>1, <1>2, <1>3

LEMMA BlocksKeep ==
  ASSUME IInv, NEW t \in Thread, SkipBlock(t) \/ ScanBlock(t) \/ ImportModules(t)
  PROVE  Dirt(t)' /\ Kept(t)' /\ Progress(t)'
<1> USE DEF GoTo, End
<1>0. TypeOK /\ Slots /\ Dirt(t) /\ Kept(t) /\ Progress(t)
  BY DEF IInv
<1>ty. /\ pc \in [Thread -> Pcs] /\ result \in [Thread -> Results] /\ file[t] \in File
       /\ at \in [Thread -> Nat] /\ at[t] \in Nat \ {0}
  BY <1>0 DEF TypeOK, IInv
<1>bl. pc[t] = "blocks" /\ InScan(t) /\ slot[t] \in Slot
  BY <1>0 DEF SkipBlock, ScanBlock, ImportModules, InScan, Running, Slots, TypeOK
<1>so. /\ lists[slot[t]] = StringsBefore(file[t], at[t])
       /\ matched[slot[t]] = {} /\ unsatisfied[slot[t]] = {} /\ reported[t] = {}
  BY <1>0, <1>bl DEF Progress
<1>1. CASE SkipBlock(t)
  <2>1. /\ at'[t] = at[t] + 1 /\ at[t] \notin Readable(file[t])
        /\ UNCHANGED <<pc, lists, matched, unsatisfied, slot, entry, modules, touched, reported, first, crashed, file>>
    BY <1>ty, <1>1 DEF SkipBlock, shared, scanner, past, outcome, Readable
  <2>2. StringsBefore(file[t], at'[t]) = StringsBefore(file[t], at[t])
    BY <1>ty, <2>1, StringsGrow
  <2> QED
    BY <1>0, <1>bl, <1>so, <2>1, <2>2 DEF Dirt, Kept, Progress, InScan
<1>2. CASE ScanBlock(t)
  <2>1. PICK found \in SUBSET file[t].blocks[at[t]].strings :
          /\ lists' = [lists EXCEPT ![slot[t]] = @ \cup found]
          /\ touched' = [touched EXCEPT ![t] = @ \cup found]
          /\ \/ /\ found = file[t].blocks[at[t]].strings
                /\ at' = [at EXCEPT ![t] = @ + 1] /\ UNCHANGED <<pc, result>>
             \/ pc' = [pc EXCEPT ![t] = "clean"] /\ result' = [result EXCEPT ![t] = "error"] /\ UNCHANGED at
    BY <1>2 DEF ScanBlock
  <2>2. lists'[slot[t]] = lists[slot[t]] \cup found /\ touched'[t] = touched[t] \cup found
    BY <1>0, <1>bl, <2>1 DEF TypeOK
  <2>3. UNCHANGED <<matched, unsatisfied, slot, modules, reported, crashed, file>>
    BY <1>2 DEF ScanBlock
  <2>4. entry'[t] = first'[t]
    BY <1>0, <1>2 DEF ScanBlock, TypeOK, Kept
  <2>5. CASE found = file[t].blocks[at[t]].strings /\ at' = [at EXCEPT ![t] = @ + 1] /\ UNCHANGED <<pc, result>>
    <3>1. at'[t] = at[t] + 1 /\ pc'[t] = "blocks"
      BY <1>ty, <1>bl, <2>5
    <3>2. at[t] \in Readable(file[t])
      BY <1>2, <1>ty, FileTypes DEF ScanBlock, Readable
    <3>3. StringsBefore(file[t], at'[t]) = StringsBefore(file[t], at[t]) \cup found
      BY <1>ty, <2>5, <3>1, <3>2, StringsGrow
    <3>4. Dirt(t)' /\ Kept(t)'
      BY <1>0, <1>bl, <2>2, <2>3, <2>4, <3>1 DEF Dirt, Kept
    <3>5. Progress(t)'
      BY <1>so, <2>2, <2>3, <3>1, <3>3 DEF Progress
    <3> QED
      BY <3>4, <3>5
  <2>6. CASE pc' = [pc EXCEPT ![t] = "clean"] /\ result' = [result EXCEPT ![t] = "error"]
    <3>1. pc'[t] = "clean" /\ result'[t] = "error"
      BY <1>ty, <2>6
    <3>2. Dirt(t)' /\ Kept(t)'
      BY <1>0, <1>bl, <2>2, <2>3, <2>4, <3>1 DEF Dirt, Kept
    <3>3. Progress(t)'
      BY <3>1 DEF Progress
    <3> QED
      BY <3>2, <3>3
  <2> QED
    BY <2>1, <2>5, <2>6
<1>3. CASE ImportModules(t)
  <2>1. /\ at'[t] = 1 /\ pc'[t] = "rules" /\ at[t] > Len(file[t].blocks)
        /\ UNCHANGED <<lists, matched, unsatisfied, slot, entry, touched, reported, first, crashed, file>>
    BY <1>ty, <1>3 DEF ImportModules, shared, outcome, past
  <2>2. modules'[t] = IF modules[t] = "none" THEN file[t].data ELSE modules[t]
    BY <1>0, <1>3 DEF ImportModules, TypeOK
  <2>3. Kept(t)' /\ Dirt(t)'
    BY <1>0, <1>bl, <2>1, <2>2 DEF Kept, Dirt
  <2>4. lists[slot[t]] = StringsBefore(file[t], Len(file[t].blocks) + 1)
    BY <1>ty, <1>so, <2>1, StringsGrow
  <2>5. \A r \in Rule : ~(r < 1)
    BY RuleTypes
  <2>6. Judged(t, 1)'
    BY <1>so, <2>1, <2>4, <2>5 DEF Judged
  <2>7. Progress(t)'
    BY <1>so, <2>1, <2>6 DEF Progress
  <2> QED
    BY <2>3, <2>7
<1> QED
  BY <1>1, <1>2, <1>3

\* The namespaces of some rules and of one more.
LEMMA NamespacesOfMore ==
  ASSUME NEW S, NEW r
  PROVE  {Rules[q].ns : q \in S \cup {r}} = {Rules[q].ns : q \in S} \cup {Rules[r].ns}
OBVIOUS

LEMMA RulesKeep ==
  ASSUME IInv, NEW t \in Thread, RunRule(t) \/ RulesDone(t) \/ ExecutionFails(t)
  PROVE  Dirt(t)' /\ Kept(t)' /\ Progress(t)'
<1> USE DEF GoTo, End
<1>0. TypeOK /\ Slots /\ Dirt(t) /\ Kept(t) /\ Progress(t)
  BY DEF IInv
<1>ty. /\ pc \in [Thread -> Pcs] /\ result \in [Thread -> Results] /\ file[t] \in File
       /\ at \in [Thread -> Nat] /\ at[t] \in Nat \ {0} /\ modules \in [Thread -> {"none", "yes", "no"}]
  BY <1>0 DEF TypeOK, IInv
<1>sc. InScan(t) /\ slot[t] \in Slot /\ matched[slot[t]] \subseteq Rule
  BY <1>0 DEF RunRule, RulesDone, ExecutionFails, InScan, Running, Slots, TypeOK
<1>1. CASE RunRule(t)
  <2> DEFINE s == slot[t]  r == at[t]
  <2>1. /\ at'[t] = r + 1 /\ r \in Rule /\ pc[t] = "rules"
        /\ UNCHANGED <<pc, lists, slot, entry, modules, touched, reported, first, crashed, file>>
    BY <1>ty, <1>1 DEF RunRule, scanner, outcome, past, Rule
  <2>2. \/ Holds(t, r) /\ matched'[s] = matched[s] \cup {r} /\ unsatisfied'[s] = unsatisfied[s]
        \/ ~Holds(t, r) /\ matched'[s] = matched[s]
           /\ unsatisfied'[s] = unsatisfied[s] \cup (IF Rules[r].global THEN {Rules[r].ns} ELSE {})
    BY <1>0, <1>1, <1>sc DEF RunRule, TypeOK
  <2>3. Judged(t, r) /\ reported[t] = {}
    BY <1>0, <2>1 DEF Progress
  <2>4. OfThisFile(t, r) => (Holds(t, r) <=> HoldsOf(file[t], r))
    BY <2>1, HoldsOfFile
  <2>5. \A q \in Rule : q < r + 1 <=> q < r \/ q = r
    BY <1>ty, RuleTypes
  <2>6. r \notin matched[s] /\ (r \in matched'[s] <=> Holds(t, r)) /\ \A q \in Rule \ {r} : q \in matched'[s] <=> q \in matched[s]
    BY <1>ty, <2>2, <2>3 DEF Judged
  <2>7. \A q \in matched'[s] : q < r + 1
    BY <1>ty, <1>sc, <2>2, <2>3, <2>5 DEF Judged
  <2>8. \A q \in Rule : q < r + 1 /\ OfThisFile(t, q) => (q \in matched'[s] <=> HoldsOf(file[t], q))
    BY <2>3, <2>4, <2>5, <2>6 DEF Judged
  <2>9. unsatisfied'[s] = {Rules[q].ns : q \in {p \in Rule : p < r + 1 /\ Rules[p].global /\ p \notin matched'[s]}}
    <3> DEFINE Before == {p \in Rule : p < r /\ Rules[p].global /\ p \notin matched[s]}
               After  == {p \in Rule : p < r + 1 /\ Rules[p].global /\ p \notin matched'[s]}
    <3>1. unsatisfied[s] = {Rules[q].ns : q \in Before}
      BY <2>3 DEF Judged
    <3>2. CASE Holds(t, r)
      <4>1. After = Before
        BY <2>5, <2>6, <3>2, <1>ty
      <4>2. unsatisfied'[s] = unsatisfied[s]
        BY <2>2, <3>2
      <4> QED
        BY <3>1, <4>1, <4>2
    <3>3. CASE ~Holds(t, r)
      <4>1. CASE Rules[r].global
        <5>1. After = Before \cup {r}
          BY <2>1, <2>5, <2>6, <3>3, <4>1, RuleTypes
        <5>2. unsatisfied'[s] = unsatisfied[s] \cup {Rules[r].ns}
          BY <2>2, <3>3, <4>1
        <5> QED
          BY <3>1, <5>1, <5>2, NamespacesOfMore
      <4>2. CASE ~Rules[r].global
        <5>1. After = Before
          BY <2>5, <2>6, <3>3, <4>2, <1>ty
        <5>2. unsatisfied'[s] = unsatisfied[s]
          BY <2>2, <3>3, <4>2
        <5> QED
          BY <3>1, <5>1, <5>2
      <4> QED
        BY <4>1, <4>2
    <3> QED
      BY <3>2, <3>3
  <2>10. \A q : OfThisFile(t, q)' = OfThisFile(t, q)
    BY <2>1 DEF OfThisFile
  <2>11. Judged(t, at[t])'
    BY <2>1, <2>3, <2>7, <2>8, <2>9, <2>10 DEF Judged
  <2>12. Progress(t)'
    BY <2>1, <2>3, <2>11 DEF Progress
  <2>13. unsatisfied'[s] \subseteq {Rules[q].ns : q \in Rule}
    BY <2>9
  <2>14. Dirt(t)' /\ Kept(t)'
    BY <1>0, <1>sc, <2>1, <2>13 DEF Dirt, Kept
  <2> QED
    BY <2>12, <2>14
<1>2. CASE RulesDone(t)
  <2>1. /\ pc[t] = "rules" /\ at[t] > Len(Rules) /\ pc'[t] = "report" /\ modules'[t] = "none"
        /\ UNCHANGED <<shared, slot, touched, entry, outcome, place, past>>
    BY <1>ty, <1>2 DEF RulesDone
  <2>2. Judged(t, at[t]) /\ reported[t] = {}
    BY <1>0, <2>1 DEF Progress
  <2>3. \A r \in Rule : r < at[t] /\ r < Len(Rules) + 1
    BY <1>ty, <2>1, RuleTypes
  <2>4. Judged(t, Len(Rules) + 1)
    BY <1>sc, <2>2, <2>3 DEF Judged
  <2>5. \A q : OfThisFile(t, q)' = OfThisFile(t, q)
    BY <2>1 DEF OfThisFile, past, place
  <2>6. Judged(t, Len(Rules) + 1)'
    BY <2>1, <2>4, <2>5 DEF Judged, shared, place
  <2>7. Progress(t)'
    BY <2>1, <2>2, <2>6 DEF Progress, outcome
  <2>8. Dirt(t)' /\ Kept(t)'
    BY <1>0, <1>sc, <2>1 DEF Dirt, Kept, shared, past, place
  <2> QED
    BY <2>7, <2>8
<1>3. CASE ExecutionFails(t)
  <2>1. pc'[t] = "clean" /\ result'[t] = "error" /\ pc[t] \in {"blocks", "rules"}
    BY <1>ty, <1>3 DEF ExecutionFails
  <2>2. modules'[t] = "none" \/ crashed'[t]
    BY <1>0, <1>3 DEF ExecutionFails, TypeOK
  <2>3. UNCHANGED <<shared, slot, touched, entry, first>>
    BY <1>3 DEF ExecutionFails
  <2>4. Dirt(t)' /\ Kept(t)'
    BY <1>0, <1>sc, <2>1, <2>2, <2>3 DEF Dirt, Kept, shared
  <2>5. Progress(t)'
    BY <2>1 DEF Progress
  <2> QED
    BY <2>4, <2>5
<1> QED
  BY <1>1, <1>2, <1>3

LEMMA EndKeeps ==
  ASSUME IInv, NEW t \in Thread, Report(t) \/ CleanMatches(t) \/ ReleaseSlot(t)
  PROVE  Dirt(t)' /\ Kept(t)' /\ Progress(t)'
<1> USE DEF GoTo, End
<1>0. TypeOK /\ Slots /\ Dirt(t) /\ Kept(t) /\ Progress(t)
  BY DEF IInv
<1>ty. /\ pc \in [Thread -> Pcs] /\ result \in [Thread -> Results] /\ reported \in [Thread -> SUBSET Rule]
  BY <1>0 DEF TypeOK
<1>sc. InScan(t) /\ slot[t] \in Slot /\ matched[slot[t]] \subseteq Rule
  BY <1>0 DEF Report, CleanMatches, ReleaseSlot, InScan, Running, Slots, TypeOK
<1>1. CASE Report(t)
  <2> DEFINE s == slot[t]
             matching == {r \in matched[s] : Rules[r].ns \notin unsatisfied[s] /\ ~Rules[r].private}
  <2>1. /\ pc[t] = "report" /\ pc'[t] = "clean"
        /\ UNCHANGED <<shared, scanner, place, past>>
    BY <1>ty, <1>1 DEF Report
  <2>2. Judged(t, Len(Rules) + 1) /\ reported[t] = {}
    BY <1>0, <2>1 DEF Progress
  <2>3. result'[t] = "success" => reported'[t] = matching
    BY <1>ty, <1>1, <2>2 DEF Report
  <2>4. ASSUME NEW r \in Rule, \A q \in Rule : Judges(q, r) => OfThisFile(t, q)
        PROVE  r \in matching <=> r \in Expected(file[t])
    <3>1. \A q \in Rule : q < Len(Rules) + 1
      BY RuleTypes
    <3>2. r \in matched[s] <=> HoldsOf(file[t], r)
      BY <2>2, <2>4, <3>1 DEF Judged, Judges
    <3>3. \A q \in Rule : Rules[q].global /\ Rules[q].ns = Rules[r].ns =>
            (q \in matched[s] <=> HoldsOf(file[t], q))
      BY <2>2, <2>4, <3>1 DEF Judged, Judges
    <3>4. unsatisfied[s] = {Rules[q].ns : q \in {p \in Rule : p < Len(Rules) + 1 /\ Rules[p].global /\ p \notin matched[s]}}
      BY <2>2 DEF Judged
    <3>5. Rules[r].ns \notin unsatisfied[s] <=> Satisfied(file[t], Rules[r].ns)
      BY <3>1, <3>3, <3>4 DEF Satisfied
    <3> QED
      BY <3>2, <3>5 DEF Expected
  <2>5. \A q : OfThisFile(t, q)' = OfThisFile(t, q)
    BY <2>1 DEF OfThisFile, past, place
  <2>6. result'[t] = "success" => Exact(t)'
    BY <2>1, <2>3, <2>4, <2>5 DEF Exact, place
  <2>7. Progress(t)'
    BY <2>1, <2>6 DEF Progress
  <2>8. Dirt(t)' /\ Kept(t)'
    BY <1>0, <1>sc, <2>1 DEF Dirt, Kept, shared, scanner, past, place
  <2> QED
    BY <2>7, <2>8
<1>2. CASE CleanMatches(t)
  <2>1. pc'[t] = "release" /\ pc[t] = "clean" /\ UNCHANGED <<slot, entry, modules, outcome, place, past>>
    BY <1>ty, <1>2 DEF CleanMatches
  <2>2. /\ lists'[slot[t]] = lists[slot[t]] \ touched[t] /\ matched'[slot[t]] = {}
        /\ unsatisfied'[slot[t]] = unsatisfied[slot[t]] \ {Rules[r].ns : r \in Rule}
    BY <1>0, <1>sc, <1>2 DEF CleanMatches, TypeOK
  <2>3. lists'[slot[t]] = {} /\ unsatisfied'[slot[t]] = {}
    BY <1>0, <1>sc, <2>2 DEF Dirt
  <2>4. Dirt(t)' /\ Kept(t)'
    BY <1>0, <2>1, <2>2, <2>3 DEF Dirt, Kept, past, place
  <2>5. Exact(t)' = Exact(t)
    BY <2>1 DEF Exact, OfThisFile, outcome, place, past
  <2>6. Progress(t)'
    BY <1>0, <2>1, <2>5 DEF Progress, outcome, place
  <2> QED
    BY <2>4, <2>6
<1>3. CASE ReleaseSlot(t)
  <2>1. pc'[t] = "idle" /\ pc[t] = "release" /\ UNCHANGED <<scanner, outcome, place, past>>
    BY <1>ty, <1>3 DEF ReleaseSlot
  <2>2. Dirt(t)' /\ Kept(t)'
    BY <1>0, <2>1 DEF Dirt, Kept, InScan, Running, scanner, past, place
  <2>3. Exact(t)' = Exact(t)
    BY <2>1 DEF Exact, OfThisFile, outcome, place, past
  <2>4. Progress(t)'
    BY <1>0, <2>1, <2>3 DEF Progress, outcome, place
  <2> QED
    BY <2>2, <2>4
<1> QED
  BY <1>1, <1>2, <1>3

-----------------------------------------------------------------------------
(* IInv holds in every reachable state: the slots, what the scanner keeps  *)
(* and the progress of each scan.                                          *)
THEOREM Invariance == Spec => []IInv
<1>1. ASSUME IInv, NEW t \in Thread, Step(t) PROVE IInv'
  <2>1. TypeOK' /\ at'[t] > 0
    BY <1>1, TypeStep
  <2>2. Slots' /\ FreeSlotsClean'
    BY <1>1, SlotsStep
  <2>3. Dirt(t)' /\ Kept(t)' /\ Progress(t)'
    BY <1>1, BeginningKeeps, BlocksKeep, RulesKeep, EndKeeps DEF Step
  <2>4. \A u \in Thread \ {t} : at'[u] > 0 /\ Dirt(u)' /\ Kept(u)' /\ Progress(u)'
    BY <1>1, OthersKeep
  <2> QED
    BY <2>1, <2>2, <2>3, <2>4 DEF IInv
<1>2. ASSUME IInv, UNCHANGED vars PROVE IInv'
  <2> USE DEF vars, shared, scanner, outcome, place, past
  <2>1. TypeOK' /\ FreeSlotsClean'
    BY <1>2 DEF IInv, TypeOK, FreeSlotsClean
  <2>2. Slots' /\ \A t \in Thread : at'[t] > 0 /\ Dirt(t)' /\ Kept(t)'
    BY <1>2 DEF IInv, Slots, Dirt, Kept, InScan
  <2>3. \A t \in Thread : Exact(t)' = Exact(t) /\ \A n : Judged(t, n)' = Judged(t, n)
    BY <1>2 DEF Exact, Judged, OfThisFile
  <2>4. \A t \in Thread : Progress(t)'
    BY <1>2, <2>3 DEF IInv, Progress
  <2> QED
    BY <2>1, <2>2, <2>4 DEF IInv
<1>3. IInv /\ [Next]_vars => IInv'
  BY <1>1, <1>2 DEF Next
<1> QED
  BY InitStep, <1>3, PTL DEF Spec

(* Every variable keeps its type. *)
THEOREM TypeCorrect == Spec => []TypeOK
<1>1. IInv => TypeOK
  BY DEF IInv
<1> QED
  BY <1>1, Invariance, PTL

(* However many threads scan with the same rules and however their scans   *)
(* end, no two have one slot, and no slot is lost.                         *)
THEOREM SlotsAreExclusive == Spec => []SlotsExclusive
<1>1. IInv => SlotsExclusive
  BY DEF IInv, Slots, SlotsExclusive
<1> QED
  BY <1>1, Invariance, PTL

(* A slot that is free holds nothing of the scan that had it. *)
THEOREM SlotsAreClean == Spec => []FreeSlotsClean
<1>1. IInv => FreeSlotsClean
  BY DEF IInv
<1> QED
  BY <1>1, Invariance, PTL

(* A scan that succeeded reported the rules that its file satisfies, but   *)
(* for what the scanner kept of an earlier file.                           *)
THEOREM ReportsAreExact == Spec => []ReportsExact
<1>1. IInv => ReportsExact
  BY DEF IInv, Progress, ReportsExact
<1> QED
  BY <1>1, Invariance, PTL

=============================================================================
