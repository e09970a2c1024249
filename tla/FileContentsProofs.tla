-------------------------- MODULE FileContentsProofs --------------------------
(* What is decoded of any file and what a reading of it yields.  The first *)
(* half proves that the fragments of its streams are those of the volume:  *)
(* a number is stored and read digit by digit, runs add up, the fragments  *)
(* of attributes are put one after the other.  All of these are recursive  *)
(* functions, and Induction is what they are proved with.  The second half *)
(* proves that the bytes yielded are those of the fragments.               *)
EXTENDS FileContents, FiniteSetTheorems, TLAPS

-----------------------------------------------------------------------------
(* Induction, as a fact about sets of numbers. *)

\* If some number were left out, adding 1 would map the finite set of the
\* numbers before it into itself without zero.
LEMMA Induction ==
  ASSUME NEW S, 0 \in S, \A n \in Nat : n \in S => n + 1 \in S
  PROVE  \A n \in Nat : n \in S
<1> SUFFICES ASSUME NEW n \in Nat, n \notin S
             PROVE  FALSE
  OBVIOUS
<1> DEFINE T == {i \in 0..n : i \in S}
           next == [i \in T |-> i + 1]
<1>1. IsFiniteSet(T)
  <2>1. IsFiniteSet(0..n)
    BY FS_Interval
  <2> QED
    BY <2>1, FS_Subset
<1>2. 0 \in T
  OBVIOUS
<1>3. IsFiniteSet(T \ {0}) /\ Cardinality(T \ {0}) = Cardinality(T) - 1
  BY <1>1, <1>2, FS_RemoveElement
<1>4. Cardinality(T) \in Nat
  BY <1>1, FS_CardinalityType
<1>5. Cardinality(T \ {0}) < Cardinality(T)
  BY <1>3, <1>4
<1>6. next \in [T -> T \ {0}]
  OBVIOUS
<1>7. \A i, j \in T : i # j => next[i] # next[j]
  OBVIOUS
<1> HIDE DEF T, next
<1> QED
  BY <1>1, <1>3, <1>5, <1>6, <1>7, FS_PigeonHole

LEMMA InductionTo ==
  ASSUME NEW n \in Nat, NEW S, 0 \in S, \A i \in 0..(n - 1) : i \in S => i + 1 \in S
  PROVE  \A i \in 0..n : i \in S
<1> DEFINE T == {i \in Nat : i \in S \/ i > n}
<1>1. 0 \in T /\ \A i \in Nat : i \in T => i + 1 \in T
  OBVIOUS
<1> HIDE DEF T
<1>2. \A i \in Nat : i \in T
  BY <1>1, Induction
<1> QED
  BY <1>2 DEF T

\* A function may be defined by its value at each number from that before.
Defines(n, V, base, step) ==
  \E f \in [0..n -> V] : f[0] = base /\ \A i \in 1..n : f[i] = step[i][f[i - 1]]

LEMMA Recursion ==
  ASSUME NEW n \in Nat, NEW V, NEW base \in V, NEW step \in [1..n -> [V -> V]]
  PROVE  Defines(n, V, base, step)
<1> DEFINE Good(m, f) == f \in [0..m -> V] /\ f[0] = base /\ \A i \in 1..m : f[i] = step[i][f[i - 1]]
           S == {m \in 0..n : \E f : Good(m, f)}
<1>1. 0 \in S
  <2>1. [i \in 0..0 |-> base] \in [0..0 -> V] /\ [i \in 0..0 |-> base][0] = base
    OBVIOUS
  <2>2. Good(0, [i \in 0..0 |-> base])
    BY <2>1
  <2> HIDE DEF Good
  <2> QED
    BY <2>2
<1>2. \A m \in 0..(n - 1) : m \in S => m + 1 \in S
  <2> SUFFICES ASSUME NEW m \in 0..(n - 1), m \in S
               PROVE  m + 1 \in S
    OBVIOUS
  <2>1. PICK f : Good(m, f)
    OBVIOUS
  <2> DEFINE g == [i \in 0..(m + 1) |-> IF i = m + 1 THEN step[m + 1][f[m]] ELSE f[i]]
  <2>2. f[m] \in V /\ m + 1 \in 1..n /\ m + 1 \in 0..n
    BY <2>1
  <2>3. step[m + 1][f[m]] \in V
    BY <2>2
  <2>4. g \in [0..(m + 1) -> V]
    BY <2>1, <2>3
  <2>5. g[0] = base /\ \A i \in 1..(m + 1) : g[i] = step[i][g[i - 1]]
    BY <2>1
  <2>6. Good(m + 1, g)
    BY <2>4, <2>5
  <2> HIDE DEF Good
  <2> QED
    BY <2>2, <2>6
<1> HIDE DEF S
<1>3. \A m \in 0..n : m \in S
  BY <1>1, <1>2, InductionTo
<1> QED
  BY <1>3 DEF S, Defines

-----------------------------------------------------------------------------
(* Sums are sums. *)

LEMMA Powers ==
  Power \in [0..8 -> Nat \ {0}] /\ Power[0] = 1 /\ \A i \in 1..8 : Power[i] = Base * Power[i - 1]
<1> DEFINE N == Nat \ {0}
           step == [i \in 1..8 |-> [v \in N |-> Base * v]]
<1>1. Base \in Nat \ {0, 1} /\ \A v \in N : Base * v \in N
  BY ContentsAssumption
<1>2. step \in [1..8 -> [N -> N]]
  BY <1>1
<1>3. Defines(8, N, 1, step)
  <2>1. 1 \in N /\ 8 \in Nat
    OBVIOUS
  <2> HIDE DEF N, step
  <2> QED
    BY <1>2, <2>1, Recursion, Zenon
<1>4. PICK f \in [0..8 -> N] : f[0] = 1 /\ \A i \in 1..8 : f[i] = Base * f[i - 1]
  BY <1>3 DEF Defines
<1>5. f = [i \in 0..8 |-> IF i = 0 THEN 1 ELSE Base * f[i - 1]]
  BY <1>4
<1>6. Power = [i \in 0..8 |-> IF i = 0 THEN 1 ELSE Base * Power[i - 1]]
  BY <1>5 DEF Power
<1>7. Power[0] = 1 /\ \A i \in 1..8 : Power[i] = Base * Power[i - 1]
  BY <1>6
<1>8. \A i \in 0..8 : Power[i] \in N
  <2> DEFINE S == {i \in 0..8 : Power[i] \in N}
  <2>1. 0 \in S /\ \A i \in 0..(8 - 1) : i \in S => i + 1 \in S
    BY <1>1, <1>7
  <2> HIDE DEF S
  <2>2. \A i \in 0..8 : i \in S
    BY <2>1, InductionTo
  <2> QED
    BY <2>2 DEF S
<1> QED
  BY <1>6, <1>7, <1>8

\* The partial sums of a sequence of numbers.
LEMMA Sums ==
  ASSUME NEW n \in Nat, NEW term \in [1..n -> Int]
  PROVE  \E f \in [0..n -> Int] : f = [i \in 0..n |-> IF i = 0 THEN 0 ELSE f[i - 1] + term[i]]
<1> DEFINE step == [i \in 1..n |-> [v \in Int |-> v + term[i]]]
<1>1. step \in [1..n -> [Int -> Int]]
  OBVIOUS
<1>2. Defines(n, Int, 0, step)
  <2>1. 0 \in Int
    OBVIOUS
  <2> HIDE DEF step
  <2> QED
    BY <1>1, <2>1, Recursion, Zenon
<1>3. PICK f \in [0..n -> Int] : f[0] = 0 /\ \A i \in 1..n : f[i] = step[i][f[i - 1]]
  BY <1>2 DEF Defines
<1>4. \A i \in 1..n : i - 1 \in 0..n /\ \A v \in Int : step[i][v] = v + term[i]
  OBVIOUS
<1> HIDE DEF step
<1>5. \A i \in 1..n : f[i] = f[i - 1] + term[i]
  BY <1>3, <1>4
<1>6. f = [i \in 0..n |-> IF i = 0 THEN 0 ELSE f[i - 1] + term[i]]
  <2>1. \A i \in 0..n : f[i] = IF i = 0 THEN 0 ELSE f[i - 1] + term[i]
    BY <1>3, <1>5
  <2> QED
    BY <1>3, <2>1
<1> QED
  BY <1>6

LEMMA Totals ==
  ASSUME NEW runs, NEW n \in Nat, Len(runs) = n, \A i \in 1..n : runs[i].length \in Int
  PROVE  /\ \A i \in 0..n : Total(runs, i) \in Int
         /\ Total(runs, 0) = 0
         /\ \A i \in 1..n : Total(runs, i) = Total(runs, i - 1) + runs[i].length
<1> DEFINE term == [i \in 1..n |-> runs[i].length]
           total[i \in 0..n] == IF i = 0 THEN 0 ELSE total[i - 1] + runs[i].length
<1>1. \A i : Total(runs, i) = total[i]
  BY DEF Total
<1>2. PICK f \in [0..n -> Int] : f = [i \in 0..n |-> IF i = 0 THEN 0 ELSE f[i - 1] + term[i]]
  <2>1. term \in [1..n -> Int]
    OBVIOUS
  <2> HIDE DEF term
  <2> QED
    BY <2>1, Sums
<1>3. f = [i \in 0..n |-> IF i = 0 THEN 0 ELSE f[i - 1] + runs[i].length]
  <2>1. \A i \in 0..n : i # 0 => term[i] = runs[i].length
    OBVIOUS
  <2> HIDE DEF term
  <2>2. \A i \in 0..n : f[i] = IF i = 0 THEN 0 ELSE f[i - 1] + term[i]
    BY <1>2
  <2> QED
    BY <2>1, <2>2
<1>4. total = [i \in 0..n |-> IF i = 0 THEN 0 ELSE total[i - 1] + runs[i].length]
  BY <1>3
<1> HIDE DEF total
<1>5. total[0] = 0 /\ \A i \in 1..n : total[i] = total[i - 1] + runs[i].length
  BY <1>4
<1>6. \A i \in 0..n : total[i] \in Int
  <2> DEFINE S == {i \in 0..n : total[i] \in Int}
  <2>1. 0 \in S
    BY <1>5
  <2>2. \A i \in 0..(n - 1) : i \in S => i + 1 \in S
    <3> SUFFICES ASSUME NEW i \in 0..(n - 1), total[i] \in Int
                 PROVE  total[i + 1] \in Int
      OBVIOUS
    <3>1. i + 1 \in 1..n /\ (i + 1) - 1 = i
      OBVIOUS
    <3>2. total[i + 1] = total[(i + 1) - 1] + runs[i + 1].length /\ runs[i + 1].length \in Int
      BY <1>5, <3>1
    <3> QED
      BY <3>1, <3>2
  <2> HIDE DEF S
  <2>3. \A i \in 0..n : i \in S
    BY <2>1, <2>2, InductionTo
  <2> QED
    BY <2>3 DEF S
<1> QED
  BY <1>1, <1>5, <1>6

-----------------------------------------------------------------------------
(* What is stored of a number is the number. *)

LEMMA Numbers ==
  ASSUME NEW n \in 0..8, NEW digits \in [1..n -> Int]
  PROVE  \E f \in [0..n -> Int] :
           /\ f[0] = 0 /\ f[n] = Number(digits)
           /\ \A i \in 1..n : f[i] = f[i - 1] + digits[i] * Power[i - 1]
<1> DEFINE term == [i \in 1..n |-> digits[i] * Power[i - 1]]
           number[i \in 0..n] == IF i = 0 THEN 0 ELSE number[i - 1] + digits[i] * Power[i - 1]
<1>1. n \in Nat /\ Len(digits) = n
  OBVIOUS
<1>2. Number(digits) = number[n]
  BY <1>1, Zenon DEF Number
<1>3. \A i \in 1..n : digits[i] * Power[i - 1] \in Int
  <2>1. \A i \in 1..n : Power[i - 1] \in Int /\ digits[i] \in Int
    <3>1. \A i \in 1..n : i - 1 \in 0..8
      OBVIOUS
    <3>2. \A i \in 0..8 : Power[i] \in Int
      BY Powers
    <3> QED
      BY <3>1, <3>2
  <2>2. \A a, b \in Int : a * b \in Int
    OBVIOUS
  <2> QED
    BY <2>1, <2>2
<1>4. term \in [1..n -> Int] /\ \A i \in 0..n : i # 0 => term[i] = digits[i] * Power[i - 1]
  BY <1>3
<1> HIDE DEF term
<1>5. PICK f \in [0..n -> Int] : f = [i \in 0..n |-> IF i = 0 THEN 0 ELSE f[i - 1] + term[i]]
  BY <1>1, <1>4, Sums
<1>6. f = [i \in 0..n |-> IF i = 0 THEN 0 ELSE f[i - 1] + digits[i] * Power[i - 1]]
  <2>1. \A i \in 0..n : f[i] = IF i = 0 THEN 0 ELSE f[i - 1] + term[i]
    BY <1>5
  <2>2. \A i \in 0..n : f[i] = IF i = 0 THEN 0 ELSE f[i - 1] + digits[i] * Power[i - 1]
    BY <1>4, <2>1
  <2> QED
    BY <1>5, <2>2
<1>7. number = [i \in 0..n |-> IF i = 0 THEN 0 ELSE number[i - 1] + digits[i] * Power[i - 1]]
  BY <1>6
<1> HIDE DEF number
<1>8. number[0] = 0 /\ \A i \in 1..n : number[i] = number[i - 1] + digits[i] * Power[i - 1]
  BY <1>7
<1>9. \A i \in 0..n : number[i] \in Int
  <2> DEFINE S == {i \in 0..n : number[i] \in Int}
  <2>1. 0 \in S
    BY <1>8
  <2>2. \A i \in 0..(n - 1) : i \in S => i + 1 \in S
    <3> SUFFICES ASSUME NEW i \in 0..(n - 1), number[i] \in Int
                 PROVE  number[i + 1] \in Int
      OBVIOUS
    <3>1. i + 1 \in 1..n /\ (i + 1) - 1 = i
      OBVIOUS
    <3>2. number[i + 1] = number[(i + 1) - 1] + digits[i + 1] * Power[(i + 1) - 1]
      BY <1>8, <3>1
    <3>3. digits[i + 1] * Power[(i + 1) - 1] \in Int
      BY <1>3, <3>1
    <3> QED
      BY <3>1, <3>2, <3>3
  <2> HIDE DEF S
  <2>3. \A i \in 0..n : i \in S
    BY <1>1, <2>1, <2>2, InductionTo
  <2> QED
    BY <2>3 DEF S
<1>10. number \in [0..n -> Int]
  BY <1>7, <1>9
<1> QED
  BY <1>2, <1>8, <1>10

\* Division with its remainder, and what is determined by it.
LEMMA Division ==
  ASSUME NEW x \in Int, NEW d \in Nat \ {0}
  PROVE  /\ x \div d \in Int /\ x % d \in 0..(d - 1)
         /\ x = d * (x \div d) + (x % d)
  OBVIOUS

LEMMA Quotient ==
  ASSUME NEW x \in Int, NEW d \in Nat \ {0}, NEW q \in Int, NEW r \in 0..(d - 1), x = d * q + r
  PROVE  x \div d = q /\ x % d = r
<1>1. PICK p \in Int, s \in 0..(d - 1) : p = x \div d /\ s = x % d /\ x = d * p + s
  BY Division
<1>2. d * (q - p) = s - r
  BY <1>1
<1>3. q - p >= 1 => d * (q - p) >= d
  OBVIOUS
<1>4. q - p <= -1 => d * (q - p) <= -d
  OBVIOUS
<1>5. q = p
  BY <1>1, <1>2, <1>3, <1>4
<1> QED
  BY <1>1, <1>5

LEMMA DivisionTwice ==
  ASSUME NEW x \in Int, NEW c \in Nat \ {0}, NEW d \in Nat \ {0}
  PROVE  (x \div c) \div d = x \div (d * c)
<1>1. PICK q \in Int, r \in 0..(c - 1) : q = x \div c /\ x = c * q + r
  BY Division
<1>2. PICK p \in Int, s \in 0..(d - 1) : p = q \div d /\ q = d * p + s
  BY Division
<1>3. c * q = (d * c) * p + c * s
  BY <1>2
<1>4. c * s >= 0 /\ c * s <= c * (d - 1) /\ c * s \in Int
  OBVIOUS
<1>5. c * (d - 1) = d * c - c /\ d * c \in Nat \ {0}
  OBVIOUS
<1>6. x = (d * c) * p + (c * s + r) /\ c * s + r \in 0..(d * c - 1)
  BY <1>1, <1>3, <1>4, <1>5
<1>7. x \div (d * c) = p
  <2> DEFINE m == d * c
             t == c * s + r
  <2>1. m \in Nat \ {0} /\ t \in 0..(m - 1) /\ x = m * p + t
    BY <1>5, <1>6
  <2> HIDE DEF m, t
  <2>2. x \div m = p
    BY <2>1, Quotient
  <2> QED
    BY <2>2 DEF m
<1> QED
  BY <1>1, <1>2, <1>7

\* The digits of a number give its remainder.
LEMMA DigitsGive ==
  ASSUME NEW x \in Int, NEW n \in 0..8
  PROVE  /\ Digits(x, n) \in [1..n -> 0..(Base - 1)]
         /\ Number(Digits(x, n)) = x % Power[n]
<1> DEFINE digits == Digits(x, n)
<1>1. Base \in Nat \ {0, 1} /\ \A i \in 0..8 : Power[i] \in Nat \ {0}
  BY ContentsAssumption, Powers
<1>2. \A i \in 1..n : i - 1 \in 0..8 /\ i \in 1..8
  OBVIOUS
<1>3. \A i \in 0..8 : x \div Power[i] \in Int
  BY <1>1, Division
<1>4. digits \in [1..n -> 0..(Base - 1)] /\ digits \in [1..n -> Int]
  <2>1. \A i \in 1..n : (x \div Power[i - 1]) % Base \in 0..(Base - 1)
    BY <1>1, <1>2, <1>3, Division
  <2> QED
    BY <1>1, <2>1 DEF Digits
<1>5. \A i \in 1..n : digits[i] = (x \div Power[i - 1]) % Base
  BY DEF Digits
<1> HIDE DEF digits
<1>6. PICK f \in [0..n -> Int] :
        /\ f[0] = 0 /\ f[n] = Number(digits)
        /\ \A i \in 1..n : f[i] = f[i - 1] + digits[i] * Power[i - 1]
  BY <1>4, Numbers
<1> DEFINE S == {i \in 0..n : x = Power[i] * (x \div Power[i]) + f[i]}
<1>7. 0 \in S
  <2>1. x \div 1 = x
    OBVIOUS
  <2> QED
    BY <1>6, <2>1, Powers
<1>8. \A i \in 0..(n - 1) : i \in S => i + 1 \in S
  <2> SUFFICES ASSUME NEW i \in 0..(n - 1), i \in S
               PROVE  x = Power[i + 1] * (x \div Power[i + 1]) + f[i + 1]
    OBVIOUS
  <2> DEFINE p == Power[i]
             q == x \div p
  <2>1. i \in 0..8 /\ i + 1 \in 1..n /\ i + 1 \in 1..8 /\ (i + 1) - 1 = i
    OBVIOUS
  <2>2. p \in Nat \ {0} /\ q \in Int /\ f[i] \in Int /\ x = p * q + f[i]
    BY <1>1, <1>3, <1>6, <2>1
  <2>3. Power[i + 1] = Base * p
    BY <2>1, Powers
  <2>4. f[i + 1] = f[i] + (q % Base) * p
    BY <1>5, <1>6, <2>1
  <2> HIDE DEF p, q
  <2>5. (q \div Base) \in Int /\ (q % Base) \in Int /\ q = Base * (q \div Base) + (q % Base)
    <3>1. Base \in Nat \ {0}
      BY <1>1
    <3> QED
      BY <2>2, <3>1
  <2>6. x \div (Base * p) = q \div Base
    <3>1. (x \div p) \div Base = x \div (Base * p)
      BY <1>1, <2>2, DivisionTwice
    <3> QED
      BY <3>1 DEF q
  <2>7. x = (Base * p) * (q \div Base) + (f[i] + (q % Base) * p)
    <3>1. PICK k \in Int, r \in Int : k = q \div Base /\ r = q % Base /\ q = Base * k + r
      BY <2>5
    <3>2. p * (Base * k + r) = (Base * p) * k + r * p
      BY <1>1, <2>2
    <3>3. (Base * p) * k \in Int /\ r * p \in Int
      BY <1>1, <2>2
    <3>4. x = ((Base * p) * k + r * p) + f[i]
      BY <2>2, <3>1, <3>2
    <3>5. x = (Base * p) * k + (f[i] + r * p)
      BY <2>2, <3>3, <3>4
    <3> QED
      BY <3>1, <3>5
  <2> QED
    BY <2>3, <2>4, <2>6, <2>7 DEF q
<1> HIDE DEF S
<1>9. n \in S
  <2>1. n \in Nat
    OBVIOUS
  <2>2. \A i \in 0..n : i \in S
    BY <1>7, <1>8, <2>1, InductionTo
  <2> QED
    BY <2>2
<1>10. x = Power[n] * (x \div Power[n]) + Number(digits)
  BY <1>6, <1>9 DEF S
<1>11. x = Power[n] * (x \div Power[n]) + (x % Power[n]) /\ x % Power[n] \in Int /\ Power[n] * (x \div Power[n]) \in Int
  <2> DEFINE p == Power[n]
  <2>1. p \in Nat \ {0}
    BY <1>1
  <2> HIDE DEF p
  <2>2. x = p * (x \div p) + (x % p) /\ x % p \in Int /\ x \div p \in Int
    BY <2>1, Division
  <2>3. p * (x \div p) \in Int
    BY <2>1, <2>2
  <2> QED
    BY <2>2, <2>3 DEF p
<1>12. Number(digits) \in Int
  BY <1>6
<1> QED
  BY <1>4, <1>10, <1>11, <1>12 DEF digits

\* A number with its sign, in as many digits as hold it.
LEMMA Signed ==
  ASSUME NEW x \in Int, NEW n \in 1..8, Holds(x, n)
  PROVE  /\ Digits(x, n) \in [1..n -> 0..(Base - 1)]
         /\ x >= 0 => Number(Digits(x, n)) = x /\ Digits(x, n)[n] < Base \div 2
         /\ x < 0 => Number(Digits(x, n)) = x + Power[n] /\ Digits(x, n)[n] >= Base \div 2
<1> DEFINE p == Power[n]
           c == Power[n - 1]
           t == x \div c
           half == Base \div 2
<1>1. Base \in Nat \ {0} /\ Base # 1 /\ half \in Nat \ {0} /\ Base = 2 * half
  BY ContentsAssumption
<1>2. p \in Nat \ {0} /\ c \in Nat \ {0} /\ p = Base * c
  <2>1. n - 1 \in 0..8 /\ n \in 0..8
    OBVIOUS
  <2> QED
    BY <2>1, Powers
<1>3. Digits(x, n) \in [1..n -> 0..(Base - 1)] /\ Number(Digits(x, n)) = x % p
  <2>1. n \in 0..8
    OBVIOUS
  <2> QED
    BY <2>1, DigitsGive
<1>4. Digits(x, n)[n] = t % Base
  BY DEF Digits
<1>5. -p <= 2 * x /\ 2 * x < p
  BY DEF Holds
<1> HIDE DEF p, c, half
<1>6. PICK r \in 0..(c - 1) : t \in Int /\ x = c * t + r
  BY <1>2, Division
<1>7. p = 2 * (half * c)
  BY <1>1, <1>2
<1> HIDE DEF t
<1>8. half * c \in Nat \ {0} /\ -(half * c) <= x /\ x < half * c
  BY <1>1, <1>2, <1>5, <1>7
<1>9. -half <= t /\ t < half
  <2>1. t >= half => c * t >= half * c
    BY <1>1, <1>2, <1>6
  <2>2. t <= -half - 1 => c * t <= -(half * c) - c
    <3>1. t <= -half - 1 => c * t <= c * (-half - 1)
      BY <1>1, <1>2, <1>6
    <3>2. c * (-half - 1) = -(half * c) - c
      BY <1>1, <1>2
    <3> QED
      BY <3>1, <3>2
  <2>3. c * t \in Int
    BY <1>2, <1>6
  <2> QED
    BY <1>1, <1>2, <1>6, <1>8, <2>1, <2>2, <2>3
<1>10. CASE x >= 0
  <2>1. t >= 0
    <3>1. t <= -1 => c * t <= -c
      BY <1>2, <1>6
    <3>2. c * t \in Int
      BY <1>2, <1>6
    <3> QED
      BY <1>2, <1>6, <1>10, <3>1, <3>2
  <2>2. t % Base = t
    <3>1. t = Base * 0 + t /\ t \in 0..(Base - 1)
      BY <1>1, <1>6, <1>9, <2>1
    <3> QED
      BY <1>1, <1>6, <3>1, Quotient
  <2>3. x % p = x
    <3>1. x = p * 0 + x /\ x \in 0..(p - 1)
      BY <1>2, <1>5, <1>10
    <3> QED
      BY <1>2, <3>1, Quotient
  <2> QED
    BY <1>1, <1>3, <1>4, <1>9, <1>10, <2>2, <2>3 DEF half
<1>11. CASE x < 0
  <2>1. t <= -1
    <3>1. t >= 0 => c * t >= 0
      BY <1>2, <1>6
    <3> QED
      BY <1>2, <1>6, <1>11, <3>1
  <2>2. t % Base = t + Base
    <3>1. PICK q \in Int, u \in 0..(Base - 1) : q = -1 /\ u = t + Base /\ t = Base * q + u
      BY <1>1, <1>6, <1>9, <2>1
    <3>2. t \in Int /\ Base \in Nat \ {0}
      BY <1>1, <1>6
    <3>3. t % Base = u
      BY <3>1, <3>2, Quotient
    <3> QED
      BY <3>1, <3>3
  <2>3. x % p = x + p
    <3>1. PICK q \in Int, u \in 0..(p - 1) : q = -1 /\ u = x + p /\ x = p * q + u
      BY <1>2, <1>5, <1>11
    <3> QED
      BY <1>2, <3>1, Quotient
  <2> QED
    BY <1>1, <1>3, <1>4, <1>6, <1>9, <1>11, <2>2, <2>3 DEF half, p
<1> QED
  BY <1>10, <1>11

\* A number that eight digits hold is held by a fewest number of digits.
LEMMA Widths ==
  ASSUME NEW x \in Int, Holds(x, 8)
  PROVE  Width(x) \in 1..8 /\ Holds(x, Width(x))
<1> DEFINE Least(i) == Holds(x, i) /\ \A m \in 1..(i - 1) : ~Holds(x, m)
           S == {k \in 0..8 : (\E i \in 1..k : Holds(x, i)) => \E i \in 1..k : Least(i)}
<1>1. 0 \in S
  OBVIOUS
<1>2. \A k \in 0..(8 - 1) : k \in S => k + 1 \in S
  <2> SUFFICES ASSUME NEW k \in 0..(8 - 1), k \in S, \E i \in 1..(k + 1) : Holds(x, i)
               PROVE  \E i \in 1..(k + 1) : Least(i)
    OBVIOUS
  <2>1. CASE \E i \in 1..k : Holds(x, i)
    <3>1. PICK i \in 1..k : Least(i)
      BY <2>1
    <3>2. i \in 1..(k + 1)
      OBVIOUS
    <3> HIDE DEF Least
    <3> QED
      BY <3>1, <3>2
  <2>2. CASE \A i \in 1..k : ~Holds(x, i)
    <3>1. \A i \in 1..(k + 1) : i \in 1..k \/ i = k + 1
      OBVIOUS
    <3>2. Holds(x, k + 1) /\ k + 1 \in 1..(k + 1)
      BY <2>2, <3>1
    <3>3. (k + 1) - 1 = k
      OBVIOUS
    <3>4. Least(k + 1)
      BY <2>2, <3>2, <3>3
    <3> HIDE DEF Least
    <3> QED
      BY <3>2, <3>4
  <2> QED
    BY <2>1, <2>2
<1> HIDE DEF S
<1>3. 8 \in S
  <2>1. \A k \in 0..8 : k \in S
    BY <1>1, <1>2, InductionTo
  <2> QED
    BY <2>1
<1>4. \E i \in 1..8 : Least(i)
  BY <1>3 DEF S
<1> QED
  BY <1>4 DEF Width

\* Runs are stored and decoded.
LEMMA LengthDecoded ==
  ASSUME NEW runs, NEW i \in DOMAIN runs, IsRun(runs[i])
  PROVE  RunLength(Stored(runs, i).length) = runs[i].length
<1> DEFINE x == runs[i].length
<1>1. x \in Nat \ {0} /\ 2 * x < Power[8] /\ Power[8] \in Nat
  BY Powers DEF IsRun
<1>2. Holds(x, 8) /\ x \in Int /\ x >= 0
  BY <1>1 DEF Holds
<1>3. Stored(runs, i).length = Digits(x, Width(x))
  BY DEF Stored
<1> HIDE DEF x
<1>4. Number(Digits(x, Width(x))) = x
  <2>1. Width(x) \in 1..8 /\ Holds(x, Width(x))
    BY <1>2, Widths
  <2> QED
    BY <1>2, <2>1, Signed
<1> QED
  BY <1>3, <1>4 DEF RunLength, x

LEMMA OffsetDecoded ==
  ASSUME NEW runs, NEW i \in DOMAIN runs, IsRun(runs[i]), runs[i].lcn # VirtualFragment,
         LcnBefore(runs, i) \in Nat, 2 * LcnBefore(runs, i) < Power[8]
  PROVE  RunOffset(Stored(runs, i).offset) = {runs[i].lcn - LcnBefore(runs, i)}
<1> DEFINE x == runs[i].lcn - LcnBefore(runs, i)
           w == Width(x)
           digits == Digits(x, w)
<1>1. runs[i].lcn \in Nat /\ 2 * runs[i].lcn < Power[8] /\ Power[8] \in Nat
  BY Powers DEF IsRun
<1>2. Holds(x, 8) /\ x \in Int
  BY <1>1 DEF Holds
<1>3. Stored(runs, i).offset = digits
  BY DEF Stored
<1> HIDE DEF x
<1>4. w \in 1..8 /\ Holds(x, w)
  BY <1>2, Widths
<1> HIDE DEF w
<1>5. /\ digits \in [1..w -> 0..(Base - 1)]
      /\ x >= 0 => Number(digits) = x /\ digits[w] < Base \div 2
      /\ x < 0 => Number(digits) = x + Power[w] /\ digits[w] >= Base \div 2
  BY <1>2, <1>4, Signed
<1> HIDE DEF digits
<1>6. Len(digits) = w /\ Last(digits) = digits[w] /\ digits # << >>
  BY <1>4, <1>5 DEF Last
<1>7. Power[w] \in Nat /\ digits[w] \in Int /\ Base \div 2 \in Int
  <2>1. w \in 0..8 /\ w \in 1..w
    BY <1>4
  <2>2. Power[w] \in Nat
    BY <2>1, Powers
  <2>3. Base \in Nat /\ Base \div 2 \in Int
    BY ContentsAssumption
  <2>4. digits[w] \in 0..(Base - 1)
    BY <1>5, <2>1
  <2> QED
    BY <2>2, <2>3, <2>4
<1>8. RunOffset(digits) =
        {IF digits[w] >= Base \div 2 THEN Number(digits) - Power[w] ELSE Number(digits)}
  BY <1>6 DEF RunOffset
<1>9. CASE x >= 0
  <2>1. ~(digits[w] >= Base \div 2) /\ Number(digits) = x
    BY <1>5, <1>7, <1>9
  <2> QED
    BY <1>3, <1>8, <2>1 DEF x
<1>10. CASE x < 0
  <2>1. digits[w] >= Base \div 2 /\ Number(digits) - Power[w] = x
    BY <1>2, <1>5, <1>7, <1>10
  <2> QED
    BY <1>3, <1>8, <2>1 DEF x
<1> QED
  BY <1>2, <1>9, <1>10

-----------------------------------------------------------------------------
(* Sequences of sequences. *)

\* The concatenations of the first of n sequences, up to all of them.
Concatenates(f, S, n, q) ==
  /\ f \in [0..n -> Seq(S)] /\ f[0] = << >> /\ f[n] = FlattenSeq(q)
  /\ \A i \in 1..n : f[i] = f[i - 1] \o q[i]

LEMMA Flattened ==
  ASSUME NEW S, NEW n \in Nat, NEW q \in [1..n -> Seq(S)]
  PROVE  \E f : Concatenates(f, S, n, q)
<1> DEFINE step == [i \in 1..n |-> [v \in Seq(S) |-> v \o q[i]]]
<1>1. step \in [1..n -> [Seq(S) -> Seq(S)]]
  OBVIOUS
<1>2. Defines(n, Seq(S), << >>, step)
  <2>1. << >> \in Seq(S)
    OBVIOUS
  <2> HIDE DEF step
  <2> QED
    BY <1>1, <2>1, Recursion, Zenon
<1>3. PICK f \in [0..n -> Seq(S)] : f[0] = << >> /\ \A i \in 1..n : f[i] = step[i][f[i - 1]]
  BY <1>2 DEF Defines
<1>4. \A i \in 1..n : i - 1 \in 0..n /\ \A v \in Seq(S) : step[i][v] = v \o q[i]
  OBVIOUS
<1> HIDE DEF step
<1>5. \A i \in 1..n : f[i] = f[i - 1] \o q[i]
  BY <1>3, <1>4
<1>6. f[n] = FlattenSeq(q)
  <2>1. CASE n = 0
    <3>1. q = << >> /\ Len(q) = 0
      BY <2>1
    <3> QED
      BY <1>3, <2>1, <3>1 DEF FlattenSeq
  <2>2. CASE n # 0
    <3> DEFINE flatten[i \in 1..n] == IF i = 1 THEN q[i] ELSE flatten[i - 1] \o q[i]
               g == [i \in 1..n |-> f[i]]
    <3>1. Len(q) = n /\ n \in 1..n
      BY <2>2
    <3>2. FlattenSeq(q) = flatten[n]
      BY <2>2, <3>1, Zenon DEF FlattenSeq
    <3>3. g = [i \in 1..n |-> IF i = 1 THEN q[i] ELSE g[i - 1] \o q[i]]
      <4>1. f[1] = q[1]
        <5>1. 1 \in 1..n /\ 1 - 1 = 0
          BY <2>2
        <5>2. q[1] \in Seq(S) /\ f[1] = f[0] \o q[1]
          BY <1>5, <5>1
        <5> QED
          BY <1>3, <5>2
      <4>2. \A i \in 1..n : i # 1 => i - 1 \in 1..n
        OBVIOUS
      <4> QED
        BY <1>5, <4>1, <4>2
    <3>4. flatten = [i \in 1..n |-> IF i = 1 THEN q[i] ELSE flatten[i - 1] \o q[i]]
      <4> HIDE DEF g
      <4> QED
        BY <3>3
    <3> HIDE DEF flatten
    <3>8. \A i \in 1..n : flatten[i] = IF i = 1 THEN q[i] ELSE flatten[i - 1] \o q[i]
      BY <3>4
    <3> DEFINE T == {i \in 0..n : i # 0 => flatten[i] = f[i]}
    <3>5. 0 \in T
      OBVIOUS
    <3>6. \A i \in 0..(n - 1) : i \in T => i + 1 \in T
      <4> SUFFICES ASSUME NEW i \in 0..(n - 1), i \in T
                   PROVE  flatten[i + 1] = f[i + 1]
        OBVIOUS
      <4>1. i + 1 \in 1..n /\ (i + 1) - 1 = i
        OBVIOUS
      <4>2. f[i + 1] = f[i] \o q[i + 1]
        BY <1>5, <4>1
      <4>3. CASE i = 0
        <5>1. q[1] \in Seq(S) /\ flatten[1] = q[1] /\ f[1] = f[0] \o q[1]
          BY <3>8, <4>1, <4>2, <4>3
        <5> QED
          BY <1>3, <4>3, <5>1
      <4>4. CASE i # 0
        <5>1. flatten[i + 1] = IF i + 1 = 1 THEN q[i + 1] ELSE flatten[(i + 1) - 1] \o q[i + 1]
          BY <3>8, <4>1
        <5>2. i + 1 # 1
          BY <4>4
        <5>3. flatten[i + 1] = flatten[i] \o q[i + 1]
          BY <4>1, <5>1, <5>2
        <5> QED
          BY <4>2, <4>4, <5>3
      <4> QED
        BY <4>3, <4>4
    <3> HIDE DEF T
    <3>7. \A i \in 0..n : i \in T
      BY <3>5, <3>6, InductionTo
    <3> QED
      BY <2>2, <3>2, <3>7 DEF T
  <2> QED
    BY <2>1, <2>2
<1> QED
  BY <1>3, <1>5, <1>6 DEF Concatenates

\* Names for the two operations, whose definitions are not expanded below.
Joined(s, t) == s \o t
Longer(s, e) == Append(s, e)

\* What is appended to the last sequence that is not empty is appended to all.
LEMMA FlattenAppend ==
  ASSUME NEW S, NEW n \in Nat, NEW q \in [1..n -> Seq(S)], NEW r \in [1..n -> Seq(S)],
         NEW k \in 1..n, NEW e \in S, r[k] = Append(q[k], e),
         \A i \in 1..n : i # k => r[i] = q[i],
         \A i \in 1..n : i > k => q[i] = << >>
  PROVE  FlattenSeq(r) = Append(FlattenSeq(q), e)
<1>1. PICK f : Concatenates(f, S, n, q)
  BY Flattened
<1>2. PICK g : Concatenates(g, S, n, r)
  BY Flattened
<1> DEFINE both(i) == IF i < k THEN f[i] ELSE Longer(f[i], e)
           T == {i \in 0..n : g[i] = both(i)}
<1>3. /\ \A i \in 0..n : f[i] \in Seq(S) /\ g[i] \in Seq(S)
      /\ \A i \in 1..n : f[i] = Joined(f[i - 1], q[i]) /\ g[i] = Joined(g[i - 1], r[i])
  BY <1>1, <1>2 DEF Concatenates, Joined
<1>9. (\A s \in Seq(S) : Joined(s, << >>) = s) /\ r[k] = Longer(q[k], e)
  BY DEF Joined, Longer
<1>10. \A s, t \in Seq(S) : Joined(s, Longer(t, e)) = Longer(Joined(s, t), e)
  <2> SUFFICES ASSUME NEW s \in Seq(S), NEW t \in Seq(S)
               PROVE  s \o Append(t, e) = Append(s \o t, e)
    BY DEF Joined, Longer
  <2> QED
    OBVIOUS
<1>4. 0 \in T
  BY <1>1, <1>2 DEF Concatenates
<1>5. \A i \in 0..(n - 1) : i \in T => i + 1 \in T
  <2> SUFFICES ASSUME NEW i \in 0..(n - 1), g[i] = both(i)
               PROVE  g[i + 1] = both(i + 1)
    <3> HIDE DEF both
    <3> QED
      OBVIOUS
  <2>1. i \in 0..n /\ i + 1 \in 1..n /\ (i + 1) - 1 = i
    OBVIOUS
  <2>2. f[i + 1] = Joined(f[i], q[i + 1]) /\ g[i + 1] = Joined(g[i], r[i + 1])
    BY <1>3, <2>1
  <2>3. CASE i + 1 < k
    BY <2>1, <2>2, <2>3
  <2>4. CASE i + 1 = k
    <3>1. g[i + 1] = Joined(f[i], Longer(q[i + 1], e))
      BY <1>3, <1>9, <2>1, <2>2, <2>4
    <3>2. q[i + 1] \in Seq(S) /\ f[i] \in Seq(S)
      BY <1>3, <2>1
    <3>3. g[i + 1] = Longer(f[i + 1], e)
      BY <1>10, <2>2, <3>1, <3>2, Zenon
    <3> QED
      BY <2>1, <2>4, <3>3
  <2>5. CASE i + 1 > k
    <3>1. ~(i < k) /\ ~(i + 1 < k) /\ i + 1 # k
      BY <2>1, <2>5
    <3>2. q[i + 1] = << >> /\ r[i + 1] = q[i + 1]
      BY <2>1, <2>5, <3>1
    <3>3. f[i] \in Seq(S) /\ g[i] \in Seq(S)
      BY <1>3, <2>1
    <3>4. f[i + 1] = Joined(f[i], << >>) /\ g[i + 1] = Joined(g[i], << >>)
      BY <2>2, <3>2
    <3>5. f[i + 1] = f[i] /\ g[i + 1] = g[i]
      BY <1>9, <3>3, <3>4
    <3> QED
      BY <3>1, <3>5
  <2>6. i + 1 < k \/ i + 1 = k \/ i + 1 > k
    OBVIOUS
  <2> QED
    BY <2>3, <2>4, <2>5, <2>6
<1> HIDE DEF T
<1>6. \A i \in 0..n : i \in T
  BY <1>4, <1>5, InductionTo
<1>7. n \in T /\ ~(n < k)
  BY <1>6
<1>8. g[n] = Longer(f[n], e)
  BY <1>7 DEF T
<1> QED
  BY <1>1, <1>2, <1>8 DEF Concatenates, Longer

LEMMA FlattenEmpty ==
  ASSUME NEW S, NEW n \in Nat, NEW q \in [1..n -> Seq(S)], \A i \in 1..n : q[i] = << >>
  PROVE  FlattenSeq(q) = << >>
<1>1. PICK f : Concatenates(f, S, n, q)
  BY Flattened
<1> DEFINE T == {i \in 0..n : f[i] = << >>}
<1>2. 0 \in T
  BY <1>1 DEF Concatenates
<1>3. \A i \in 0..(n - 1) : i \in T => i + 1 \in T
  <2> SUFFICES ASSUME NEW i \in 0..(n - 1), f[i] = << >>
               PROVE  f[i + 1] = << >>
    OBVIOUS
  <2>1. i + 1 \in 1..n /\ (i + 1) - 1 = i
    OBVIOUS
  <2>2. f[i + 1] = f[i] \o q[i + 1] /\ q[i + 1] = << >>
    BY <1>1, <2>1 DEF Concatenates
  <2> QED
    BY <2>2
<1> HIDE DEF T
<1>4. \A i \in 0..n : i \in T
  BY <1>2, <1>3, InductionTo
<1> QED
  BY <1>1, <1>4 DEF T, Concatenates

-----------------------------------------------------------------------------
(* The runs of an attribute. *)

LEMMA LastLcn ==
  ASSUME NEW runs, NEW n \in Nat, DOMAIN runs = 1..n, \A i \in 1..n : IsRun(runs[i])
  PROVE  /\ LcnBefore(runs, 1) = 0
         /\ \A i \in 1..n : LcnBefore(runs, i + 1) =
              IF runs[i].lcn = VirtualFragment THEN LcnBefore(runs, i) ELSE runs[i].lcn
<1> DEFINE Real(i) == {j \in 1..(i - 1) : runs[j].lcn # VirtualFragment}
           Latest(R) == IF R = {} THEN 0 ELSE runs[CHOOSE j \in R : \A k \in R : k <= j].lcn
<1>1. LcnBefore(runs, 1) = 0
  <2>1. {j \in 1..(1 - 1) : runs[j].lcn # VirtualFragment} = {}
    OBVIOUS
  <2> QED
    BY <2>1 DEF LcnBefore
<1>2. ASSUME NEW i \in 1..n
      PROVE  LcnBefore(runs, i + 1) =
               IF runs[i].lcn = VirtualFragment THEN LcnBefore(runs, i) ELSE runs[i].lcn
  <2>1. 1..((i + 1) - 1) = 1..(i - 1) \cup {i}
    OBVIOUS
  <2>2. CASE runs[i].lcn = VirtualFragment
    <3>1. Real(i + 1) = Real(i)
      BY <2>1, <2>2, Zenon
    <3>2. LcnBefore(runs, i + 1) = Latest(Real(i + 1)) /\ LcnBefore(runs, i) = Latest(Real(i))
      BY Zenon DEF LcnBefore
    <3> HIDE DEF Latest, Real
    <3> QED
      BY <2>2, <3>1, <3>2
  <2>3. CASE runs[i].lcn # VirtualFragment
    <3> DEFINE real == {j \in 1..((i + 1) - 1) : runs[j].lcn # VirtualFragment}
               last == CHOOSE j \in real : \A k \in real : k <= j
    <3>1. i \in real /\ \A k \in real : k <= i
      BY <2>3
    <3>2. \A j \in real : (\A k \in real : k <= j) => j = i
      BY <3>1
    <3>3. LcnBefore(runs, i + 1) = runs[last].lcn
      <4>1. real # {}
        BY <3>1
      <4> QED
        BY <4>1, Zenon DEF LcnBefore
    <3> HIDE DEF real
    <3>4. last \in real /\ \A k \in real : k <= last
      BY <3>1
    <3> HIDE DEF last
    <3>5. last = i
      BY <3>2, <3>4
    <3>6. LcnBefore(runs, i + 1) = runs[i].lcn
      BY <3>3, <3>5
    <3> QED
      BY <2>3, <3>6, Zenon
  <2> QED
    BY <2>2, <2>3
<1> QED
  BY <1>1, <1>2

LEMMA LcnBounds ==
  ASSUME NEW runs, NEW n \in Nat, DOMAIN runs = 1..n, \A i \in 1..n : IsRun(runs[i]),
         Power[8] \in Nat \ {0}
  PROVE  \A i \in 1..(n + 1) : LcnBefore(runs, i) \in Nat /\ 2 * LcnBefore(runs, i) < Power[8]
<1> DEFINE Good(i) == LcnBefore(runs, i + 1) \in Nat /\ 2 * LcnBefore(runs, i + 1) < Power[8]
           T == {i \in 0..n : Good(i)}
<1>1. 0 \in T
  BY LastLcn
<1>2. \A i \in 0..(n - 1) : i \in T => i + 1 \in T
  <2> SUFFICES ASSUME NEW i \in 0..(n - 1), Good(i)
               PROVE  Good(i + 1)
    OBVIOUS
  <2>1. i + 1 \in 1..n
    OBVIOUS
  <2>2. LcnBefore(runs, (i + 1) + 1) =
          IF runs[i + 1].lcn = VirtualFragment THEN LcnBefore(runs, i + 1) ELSE runs[i + 1].lcn
    BY <2>1, LastLcn
  <2>3. IsRun(runs[i + 1])
    BY <2>1
  <2> QED
    BY <2>2, <2>3 DEF IsRun
<1> HIDE DEF T
<1>3. \A i \in 0..n : i \in T
  BY <1>1, <1>2, InductionTo
<1>4. \A i \in 1..(n + 1) : i - 1 \in 0..n /\ (i - 1) + 1 = i
  OBVIOUS
<1>5. \A i \in 1..(n + 1) : Good(i - 1)
  BY <1>3, <1>4 DEF T
<1> QED
  BY <1>4, <1>5

LEMMA TotalsGrow ==
  ASSUME NEW runs, NEW n \in Nat, Len(runs) = n, \A i \in 1..n : runs[i].length \in Nat
  PROVE  \A i \in 0..n : 0 <= Total(runs, i) /\ Total(runs, i) <= Total(runs, n)
<1>1. \A i \in 1..n : runs[i].length \in Int
  OBVIOUS
<1>2. /\ \A i \in 0..n : Total(runs, i) \in Int
      /\ Total(runs, 0) = 0
      /\ \A i \in 1..n : Total(runs, i) = Total(runs, i - 1) + runs[i].length
  BY <1>1, Totals
<1> DEFINE T == {i \in 0..n : 0 <= Total(runs, i) /\ \A j \in 0..i : Total(runs, j) <= Total(runs, i)}
<1>3. 0 \in T
  BY <1>2
<1>4. \A i \in 0..(n - 1) : i \in T => i + 1 \in T
  <2> SUFFICES ASSUME NEW i \in 0..(n - 1), i \in T
               PROVE  0 <= Total(runs, i + 1) /\ \A j \in 0..(i + 1) : Total(runs, j) <= Total(runs, i + 1)
    OBVIOUS
  <2>1. i + 1 \in 1..n /\ (i + 1) - 1 = i
    OBVIOUS
  <2>2. Total(runs, i + 1) = Total(runs, (i + 1) - 1) + runs[i + 1].length /\ runs[i + 1].length \in Nat
    BY <1>2, <2>1
  <2>3. Total(runs, i) <= Total(runs, i + 1) /\ Total(runs, i) \in Int /\ Total(runs, i + 1) \in Int
    BY <1>2, <2>1, <2>2
  <2>4. \A j \in 0..(i + 1) : j \in 0..i \/ j = i + 1
    OBVIOUS
  <2>5. \A j \in 0..i : Total(runs, j) \in Int
    BY <1>2
  <2> QED
    BY <2>3, <2>4, <2>5
<1> HIDE DEF T
<1>5. \A i \in 0..n : i \in T
  BY <1>3, <1>4, InductionTo
<1> QED
  BY <1>5 DEF T

\* What is known of an attribute, and of the fragments the volume has for it.
LEMMA Attributes ==
  ASSUME NEW a, IsAttribute(a)
  PROVE  LET runs == a.runs  n == Len(runs) IN
         /\ n \in Nat /\ DOMAIN runs = 1..n /\ a.start \in Nat
         /\ a.type \in STRING /\ a.name \in STRING /\ a.size \in Nat
         /\ \A i \in 0..n : /\ Total(runs, i) \in Nat /\ Total(runs, i) <= Total(runs, n)
                            /\ LcnBefore(runs, i + 1) \in Nat
         /\ Total(runs, 0) = 0 /\ LcnBefore(runs, 1) = 0
         /\ \A i \in 1..n :
              /\ IsRun(runs[i])
              /\ Total(runs, i) = Total(runs, i - 1) + runs[i].length
              /\ RunLength(Stored(runs, i).length) = runs[i].length
<1> DEFINE runs == a.runs
           n == Len(runs)
<1>1. /\ n \in Nat /\ DOMAIN runs = 1..n /\ a.start \in Nat
      /\ a.type \in STRING /\ a.name \in STRING
      /\ \A i \in 1..n : IsRun(runs[i])
  BY DEF IsAttribute
<1>2. a.size \in Nat
  BY ContentsAssumption DEF IsAttribute
<1> HIDE DEF runs
<1>3. \A i \in 1..n : runs[i].length \in Nat /\ runs[i].length \in Int
  BY <1>1 DEF IsRun
<1>4. /\ \A i \in 0..n : Total(runs, i) \in Int
      /\ Total(runs, 0) = 0
      /\ \A i \in 1..n : Total(runs, i) = Total(runs, i - 1) + runs[i].length
  BY <1>1, <1>3, Totals
<1>5. \A i \in 0..n : 0 <= Total(runs, i) /\ Total(runs, i) <= Total(runs, n)
  BY <1>1, <1>3, TotalsGrow
<1>6. LcnBefore(runs, 1) = 0
  BY <1>1, LastLcn
<1>7. \A i \in 0..n : LcnBefore(runs, i + 1) \in Nat
  <2>1. Power[8] \in Nat \ {0}
    BY Powers
  <2>2. \A i \in 1..(n + 1) : LcnBefore(runs, i) \in Nat
    BY <1>1, <2>1, LcnBounds
  <2>3. \A i \in 0..n : i + 1 \in 1..(n + 1)
    BY <1>1
  <2> QED
    BY <2>2, <2>3
<1>8. \A i \in 1..n : RunLength(Stored(runs, i).length) = runs[i].length
  BY <1>1, LengthDecoded
<1>9. \A i \in 0..n : Total(runs, i) \in Nat
  BY <1>4, <1>5
<1> QED
  BY <1>1, <1>2, <1>4, <1>5, <1>6, <1>7, <1>8, <1>9 DEF runs

\* A distance that is decoded leads from where the runs before left lcn to
\* where the run begins; the distance of a sparse run is 0, or was made up.
LEMMA Distances ==
  ASSUME NEW a, IsAttribute(a), NEW i \in 1..Len(a.runs), NEW offset \in RunOffset(Stored(a.runs, i).offset)
  PROVE  LET runs == a.runs IN
         /\ offset \in Int
         /\ runs[i].lcn # VirtualFragment \/ offset = 0 =>
              /\ LcnBefore(runs, i) + offset = LcnBefore(runs, i + 1)
              /\ Extents(a)[i].lcn = IF offset = 0 THEN VirtualFragment ELSE LcnBefore(runs, i + 1)
<1> DEFINE runs == a.runs
           n == Len(runs)
           before == LcnBefore(runs, i)
<1>1. n \in Nat /\ DOMAIN runs = 1..n /\ \A j \in 1..n : IsRun(runs[j])
  BY DEF IsAttribute
<1>2. Extents(a)[i].lcn = IF LooksSparse(runs, i) THEN VirtualFragment ELSE runs[i].lcn
  BY <1>1 DEF Extents
<1> HIDE DEF runs
<1>3. LcnBefore(runs, i + 1) = IF runs[i].lcn = VirtualFragment THEN before ELSE runs[i].lcn
  BY <1>1, LastLcn DEF runs
<1>4. before \in Nat /\ 2 * before < Power[8]
  <2>1. Power[8] \in Nat \ {0}
    BY Powers
  <2>2. \A j \in 1..(n + 1) : LcnBefore(runs, j) \in Nat /\ 2 * LcnBefore(runs, j) < Power[8]
    BY <1>1, <2>1, LcnBounds
  <2>3. i \in 1..(n + 1)
    BY <1>1 DEF runs
  <2> QED
    BY <2>2, <2>3
<1>5. LooksSparse(runs, i) <=> runs[i].lcn = VirtualFragment \/ runs[i].lcn = before
  BY DEF LooksSparse
<1>6. CASE runs[i].lcn = VirtualFragment
  <2>1. Stored(runs, i).offset = << >>
    BY <1>6 DEF Stored
  <2>2. offset \in {0, -1}
    BY <2>1 DEF RunOffset, runs
  <2>3. LcnBefore(runs, i + 1) = before /\ Extents(a)[i].lcn = VirtualFragment
    BY <1>2, <1>3, <1>5, <1>6
  <2> HIDE DEF before
  <2>4. offset \in Int /\ (offset = 0 => before + offset = before)
    BY <1>4, <2>2
  <2> QED
    BY <1>6, <2>3, <2>4 DEF runs, before
<1>7. CASE runs[i].lcn # VirtualFragment
  <2>1. IsRun(runs[i]) /\ runs[i].lcn \in Nat /\ i \in DOMAIN runs
    BY <1>1, <1>7 DEF IsRun, runs
  <2>2. RunOffset(Stored(runs, i).offset) = {runs[i].lcn - before}
    BY <1>4, <1>7, <2>1, OffsetDecoded
  <2>3. offset = runs[i].lcn - before
    BY <2>2 DEF runs
  <2> HIDE DEF before
  <2>4. offset \in Int /\ before + offset = runs[i].lcn /\ (offset = 0 <=> runs[i].lcn = before)
    BY <1>4, <2>1, <2>3
  <2> QED
    BY <1>2, <1>3, <1>5, <1>7, <2>4 DEF runs, before
<1> QED
  BY <1>6, <1>7

LEMMA ExtentsExact ==
  ASSUME NEW a, IsAttribute(a)
  PROVE  /\ Extents(a) \in Seq(Fragment) /\ Len(Extents(a)) = Len(a.runs)
         /\ \A i \in 1..Len(a.runs) : Extents(a)[i].nextVcn = a.start + Total(a.runs, i)
         /\ \A i \in 1..Len(a.runs) : SubSeq(Extents(a), 1, i) = Append(SubSeq(Extents(a), 1, i - 1), Extents(a)[i])
         /\ \A i \in 0..Len(a.runs) : SubSeq(Extents(a), 1, i) \in Seq(Fragment)
         /\ SubSeq(Extents(a), 1, 0) = << >> /\ SubSeq(Extents(a), 1, Len(a.runs)) = Extents(a)
<1> DEFINE runs == a.runs
           n == Len(runs)
           extents == Extents(a)
<1>1. n \in Nat /\ DOMAIN runs = 1..n /\ a.start \in Nat /\ \A i \in 0..n : Total(runs, i) \in Nat
  BY Attributes
<1>2. \A i \in 1..n : IsRun(runs[i])
  BY DEF IsAttribute
<1> HIDE DEF runs
<1>3. extents = [i \in 1..n |-> [lcn |-> IF LooksSparse(runs, i) THEN VirtualFragment ELSE runs[i].lcn,
                                 nextVcn |-> a.start + Total(runs, i)]]
  BY <1>1 DEF Extents, runs
<1> HIDE DEF n
<1>4. \A i \in 1..n : extents[i] \in Fragment
  <2> SUFFICES ASSUME NEW i \in 1..n
               PROVE  extents[i] \in Fragment
    OBVIOUS
  <2>1. a.start + Total(runs, i) \in Nat
    BY <1>1
  <2>2. runs[i].lcn \in Int /\ VirtualFragment \in Int
    BY <1>2 DEF IsRun, VirtualFragment
  <2> HIDE DEF extents
  <2> QED
    BY <1>3, <2>1, <2>2 DEF Fragment
<1>5. \A i \in 1..n : extents[i].nextVcn = a.start + Total(runs, i)
  BY <1>3
<1> HIDE DEF extents
<1>6. extents \in Seq(Fragment) /\ Len(extents) = n
  BY <1>1, <1>3, <1>4
<1>7. \A i \in 1..n : SubSeq(extents, 1, i) = Append(SubSeq(extents, 1, i - 1), extents[i])
  BY <1>1, <1>6
<1>8. \A i \in 0..n : SubSeq(extents, 1, i) \in Seq(Fragment)
  BY <1>1, <1>6
<1>9. SubSeq(extents, 1, 0) = << >> /\ SubSeq(extents, 1, n) = extents
  BY <1>1, <1>6
<1> QED
  BY <1>5, <1>6, <1>7, <1>8, <1>9 DEF extents, n, runs

-----------------------------------------------------------------------------
(* The steps of the decoding. *)

LEMMA FileKnown ==
  ASSUME Located
  PROVE  /\ Len(file) \in Nat /\ DOMAIN file = 1..Len(file) /\ attribute \in Nat
         /\ \A a \in DOMAIN file : IsAttribute(file[a])
         /\ \A a, b \in DOMAIN file : a < b /\ Same(file[a], file[b]) =>
              file[a].start + Total(file[a].runs, Len(file[a].runs)) <= file[b].start
<1>1. file \in File /\ attribute \in 1..(Len(file) + 1)
  BY DEF Located
<1>2. Len(file) \in Nat /\ DOMAIN file = 1..Len(file)
  BY <1>1, FilesAssumption
<1>3. attribute \in Nat
  BY <1>1, <1>2
<1> QED
  BY <1>1, <1>2, <1>3, FilesAssumption

LEMMA StreamsKnown ==
  ASSUME streams \in Seq(Stream)
  PROVE  /\ Len(streams) \in Nat /\ DOMAIN streams = 1..Len(streams)
         /\ \A s \in DOMAIN streams :
              /\ streams[s] \in Stream
              /\ streams[s].type \in STRING /\ streams[s].name \in STRING /\ streams[s].size \in Nat
              /\ streams[s].fragments \in Seq(Fragment)
<1>1. \A s \in DOMAIN streams : streams[s] \in Stream
  OBVIOUS
<1> QED
  BY <1>1 DEF Stream

\* What attributes have given a stream.
LEMMA PartsTyped ==
  ASSUME Located, AtRun, NEW s
  PROVE  /\ Parts(s) \in [1..Len(file) -> Seq(Fragment)]
         /\ \A a \in 1..Len(file) : ~Entered(a) => Parts(s)[a] = << >>
<1>1. /\ Len(file) \in Nat /\ DOMAIN file = 1..Len(file) /\ attribute \in Nat
      /\ \A a \in DOMAIN file : IsAttribute(file[a])
  BY FileKnown
<1>2. ASSUME NEW a \in 1..Len(file)
      PROVE  Decoded(a) \in Seq(Fragment) /\ (~Entered(a) => Decoded(a) = << >>)
  <2>1. IsAttribute(file[a])
    BY <1>1
  <2>2. CASE a < attribute
    BY <2>1, <2>2, ExtentsExact DEF Decoded, Entered
  <2>3. CASE a = attribute /\ pc = "runs"
    <3>1. run - 1 \in 0..Len(file[a].runs)
      BY <2>1, <2>3, Attributes DEF AtRun
    <3>2. SubSeq(Extents(file[a]), 1, run - 1) \in Seq(Fragment)
      BY <2>1, <3>1, ExtentsExact
    <3> QED
      BY <1>1, <2>3, <3>2 DEF Decoded, Entered
  <2>4. CASE ~(a < attribute) /\ ~(a = attribute /\ pc = "runs")
    <3>1. Decoded(a) = << >>
      BY <2>4 DEF Decoded
    <3> QED
      BY <3>1
  <2> QED
    BY <2>2, <2>3, <2>4
<1>3. \A a \in 1..Len(file) : Parts(s)[a] = IF s \in SearchStream(file[a]) THEN Decoded(a) ELSE << >>
  BY <1>1 DEF Parts
<1>4. Parts(s) = [a \in 1..Len(file) |-> Parts(s)[a]]
  BY <1>1 DEF Parts
<1>5. ASSUME NEW a \in 1..Len(file)
      PROVE  Parts(s)[a] \in Seq(Fragment) /\ (~Entered(a) => Parts(s)[a] = << >>)
  <2>1. << >> \in Seq(Fragment)
    OBVIOUS
  <2>2. Parts(s)[a] = Decoded(a) \/ Parts(s)[a] = << >>
    BY <1>3
  <2> QED
    BY <1>2, <2>1, <2>2, Zenon
<1> QED
  BY <1>4, <1>5

LEMMA Grown ==
  ASSUME streams \in Seq(Stream), NEW t \in DOMAIN streams, NEW e \in Fragment,
         streams' = [streams EXCEPT ![t].fragments = Append(@, e)]
  PROVE  /\ streams' \in Seq(Stream) /\ DOMAIN streams' = DOMAIN streams
         /\ \A s \in DOMAIN streams : /\ Same(streams'[s], streams[s])
                                      /\ s # t => streams'[s].fragments = streams[s].fragments
         /\ streams'[t].fragments = Append(streams[t].fragments, e)
         /\ \A a : SearchStream(a)' = SearchStream(a)
<1>1. /\ Len(streams) \in Nat /\ DOMAIN streams = 1..Len(streams)
      /\ \A s \in DOMAIN streams : streams[s] \in Stream
      /\ streams[t].fragments \in Seq(Fragment)
  BY StreamsKnown
<1> DEFINE new == [streams[t] EXCEPT !.fragments = Append(@, e)]
<1>2. streams' = [streams EXCEPT ![t] = new]
  OBVIOUS
<1>3. /\ new \in Stream /\ new.type = streams[t].type /\ new.name = streams[t].name
      /\ new.fragments = Append(streams[t].fragments, e)
  <2>1. Append(streams[t].fragments, e) \in Seq(Fragment)
    BY <1>1
  <2>2. streams[t] \in [type : STRING, name : STRING, size : Nat, fragments : Seq(Fragment)]
    BY <1>1 DEF Stream
  <2> QED
    BY <2>1, <2>2 DEF Stream
<1> HIDE DEF new
<1>4. streams' \in Seq(Stream) /\ DOMAIN streams' = DOMAIN streams
  <2>1. streams \in [1..Len(streams) -> Stream]
    BY <1>1
  <2>2. streams' \in [1..Len(streams) -> Stream]
    BY <1>2, <1>3, <2>1
  <2> QED
    BY <1>1, <2>2
<1>5. \A s \in DOMAIN streams : streams'[s] = IF s = t THEN new ELSE streams[s]
  BY <1>1, <1>2
<1>6. \A s \in DOMAIN streams : streams'[s].type = streams[s].type /\ streams'[s].name = streams[s].name
  BY <1>3, <1>5
<1>7. \A a : SearchStream(a)' = SearchStream(a)
  BY <1>4, <1>6 DEF SearchStream, Same
<1> QED
  BY <1>3, <1>4, <1>5, <1>6, <1>7 DEF Same

LEMMA DecodeRunStep ==
  ASSUME Decoding, DecodeRun
  PROVE  Decoding'
<1> DEFINE a == file[attribute]
           runs == a.runs
<1>1. /\ attribute \in DOMAIN file /\ target \in DOMAIN streams /\ Same(streams[target], a)
      /\ run \in 1..Len(runs) /\ lcn \in Int /\ garbled \in BOOLEAN /\ pc = "runs"
      /\ vcn = a.start + Total(runs, run - 1)
      /\ ~garbled => lcn = LcnBefore(runs, run)
      /\ streams \in Seq(Stream)
  BY DEF Decoding, Located, AtRun, Ordered, SearchStream, DecodeRun
<1>2. /\ Len(file) \in Nat /\ DOMAIN file = 1..Len(file) /\ attribute \in Nat
      /\ IsAttribute(a)
      /\ \A b \in DOMAIN file : attribute < b /\ Same(a, file[b]) =>
              a.start + Total(runs, Len(runs)) <= file[b].start
  BY <1>1, FileKnown DEF Decoding
<1>3. PICK offset \in RunOffset(Stored(runs, run).offset) :
       /\ lcn' = lcn + offset
       /\ vcn' = vcn + RunLength(Stored(runs, run).length)
       /\ streams' = [streams EXCEPT ![target].fragments =
            Append(@, [lcn |-> IF offset = 0 THEN VirtualFragment ELSE lcn', nextVcn |-> vcn'])]
       /\ garbled' = (garbled \/ (runs[run].lcn = VirtualFragment /\ offset # 0))
  BY DEF DecodeRun
<1> DEFINE e == [lcn |-> IF offset = 0 THEN VirtualFragment ELSE lcn', nextVcn |-> vcn']
<1>4. /\ run' = run + 1 /\ pc' = "runs" /\ file' = file /\ attribute' = attribute /\ target' = target
      /\ a' = a
  BY <1>1 DEF DecodeRun
<1>5. /\ Len(runs) \in Nat /\ a.start \in Nat
      /\ \A i \in 0..Len(runs) : /\ Total(runs, i) \in Nat /\ Total(runs, i) <= Total(runs, Len(runs))
                                 /\ LcnBefore(runs, i + 1) \in Nat
      /\ Total(runs, run) = Total(runs, run - 1) + runs[run].length
      /\ runs[run].length \in Nat
      /\ RunLength(Stored(runs, run).length) = runs[run].length
  BY <1>1, <1>2, Attributes DEF IsRun
<1>6. offset \in Int
  BY <1>1, <1>2, Distances
<1>7. /\ vcn \in Nat /\ vcn' \in Nat /\ vcn <= vcn' /\ vcn' = a.start + Total(runs, run)
      /\ vcn' <= a.start + Total(runs, Len(runs)) /\ lcn' \in Int
  <2>1. run - 1 \in 0..Len(runs) /\ run \in 0..Len(runs)
    BY <1>1, <1>5
  <2>2. /\ Total(runs, run - 1) \in Nat /\ Total(runs, run) \in Nat
        /\ Total(runs, run) <= Total(runs, Len(runs)) /\ Total(runs, Len(runs)) \in Nat
    <3>1. Len(runs) \in 0..Len(runs)
      BY <1>5
    <3> QED
      BY <1>5, <2>1, <3>1
  <2>3. /\ vcn = a.start + Total(runs, run - 1) /\ vcn' = vcn + runs[run].length
        /\ Total(runs, run) = Total(runs, run - 1) + runs[run].length
        /\ runs[run].length \in Nat /\ a.start \in Nat
    BY <1>1, <1>3, <1>5
  <2>4. lcn' \in Int
    BY <1>1, <1>3, <1>6
  <2>5. PICK t0 \in Nat, t1 \in Nat, t2 \in Nat :
          t0 = Total(runs, run - 1) /\ t1 = Total(runs, run) /\ t2 = Total(runs, Len(runs)) /\ t1 <= t2
    BY <2>2, Zenon
  <2>6. PICK start \in Nat, length \in Nat :
          /\ start = a.start /\ length = runs[run].length
          /\ vcn = start + t0 /\ vcn' = vcn + length /\ t1 = t0 + length
    BY <2>3, <2>5, Zenon
  <2>7. vcn \in Nat /\ vcn' \in Nat /\ vcn <= vcn' /\ vcn' = start + t1 /\ vcn' <= start + t2
    <3>1. t1 <= t2 /\ vcn = start + t0 /\ vcn' = vcn + length /\ t1 = t0 + length
      BY <2>5, <2>6, Zenon
    <3> QED
      BY <3>1
  <2> HIDE DEF a, runs
  <2> QED
    BY <2>4, <2>5, <2>6, <2>7, Zenon
<1>8. e \in Fragment /\ e.nextVcn = vcn'
  BY <1>6, <1>7 DEF Fragment, VirtualFragment
<1>9. ~garbled' => ~garbled /\ lcn' = LcnBefore(runs, run + 1) /\ e = Extents(a)[run]
  <2> SUFFICES ASSUME ~garbled'
               PROVE  ~garbled /\ lcn' = LcnBefore(runs, run + 1) /\ e = Extents(a)[run]
    OBVIOUS
  <2>1. ~garbled /\ (runs[run].lcn # VirtualFragment \/ offset = 0)
    BY <1>1, <1>3
  <2>2. /\ LcnBefore(runs, run) + offset = LcnBefore(runs, run + 1)
        /\ Extents(a)[run].lcn = IF offset = 0 THEN VirtualFragment ELSE LcnBefore(runs, run + 1)
    BY <1>1, <1>2, <2>1, Distances
  <2>3. lcn' = LcnBefore(runs, run + 1)
    BY <1>1, <1>3, <2>1, <2>2
  <2>4. Extents(a)[run] \in Fragment /\ Extents(a)[run].nextVcn = a.start + Total(runs, run)
    BY <1>1, <1>2, ExtentsExact
  <2> HIDE DEF a, runs
  <2> QED
    BY <1>7, <2>1, <2>2, <2>3, <2>4 DEF Fragment, runs
<1> HIDE DEF e
<1>10. /\ streams' \in Seq(Stream) /\ DOMAIN streams' = DOMAIN streams
       /\ \A s \in DOMAIN streams : /\ Same(streams'[s], streams[s])
                                    /\ s # target => streams'[s].fragments = streams[s].fragments
       /\ streams'[target].fragments = Append(streams[target].fragments, e)
       /\ \A x : SearchStream(x)' = SearchStream(x)
  <2>1. streams' = [streams EXCEPT ![target].fragments = Append(@, e)]
    BY <1>3 DEF e
  <2> QED
    BY <1>1, <1>8, <2>1, Grown
<1>11. \A b : Entered(b)' = Entered(b)
  BY <1>1, <1>4 DEF Entered
<1>12. \A s \in DOMAIN streams :
          Len(streams[s].fragments) \in Nat /\ DOMAIN streams[s].fragments = 1..Len(streams[s].fragments)
  BY <1>1, StreamsKnown
<1>13. /\ DOMAIN streams'[target].fragments = 1..(Len(streams[target].fragments) + 1)
       /\ streams'[target].fragments[Len(streams[target].fragments) + 1].nextVcn = vcn'
       /\ \A i \in DOMAIN streams[target].fragments :
            streams'[target].fragments[i].nextVcn = streams[target].fragments[i].nextVcn
  <2>1. streams[target].fragments \in Seq(Fragment)
    BY <1>1, StreamsKnown
  <2> QED
    BY <1>8, <1>10, <2>1
<1>14. \A i \in DOMAIN streams[target].fragments :
         streams[target].fragments[i].nextVcn <= vcn /\ streams[target].fragments[i].nextVcn \in Nat
  <2>1. streams[target].fragments \in Seq(Fragment)
    BY <1>1, StreamsKnown
  <2>2. \A i \in DOMAIN streams[target].fragments : streams[target].fragments[i] \in Fragment
    BY <2>1
  <2>3. \A i \in DOMAIN streams[target].fragments : streams[target].fragments[i].nextVcn \in Nat
    BY <2>2 DEF Fragment
  <2> QED
    BY <1>1, <2>3 DEF Decoding, Behind
<1> HIDE DEF a, runs
<1>15. Located'
  BY <1>3, <1>4, <1>7, <1>1 DEF Decoding, Located
<1>16. OneStream'
  BY <1>4, <1>10, <1>11 DEF Decoding, OneStream, Same
<1>17. AtRun'
  <2>1. run + 1 \in 1..(Len(runs) + 1) /\ (run + 1) - 1 = run
    BY <1>1, <1>5
  <2>2. target \in SearchStream(a)
    BY <1>1 DEF Decoding, AtRun, a
  <2> QED
    BY <1>1, <1>4, <1>7, <1>9, <1>10, <2>1, <2>2 DEF AtRun, a, runs
<1>18. Ordered'
  <2> SUFFICES ASSUME NEW s \in DOMAIN streams, NEW i \in DOMAIN streams'[s].fragments,
                      NEW j \in DOMAIN streams'[s].fragments, i <= j
               PROVE  streams'[s].fragments[i].nextVcn <= streams'[s].fragments[j].nextVcn
    BY <1>10 DEF Ordered
  <2>1. CASE s # target
    BY <1>10, <2>1 DEF Decoding, Ordered
  <2>2. CASE s = target /\ j <= Len(streams[target].fragments)
    <3>1. i \in DOMAIN streams[target].fragments /\ j \in DOMAIN streams[target].fragments
      BY <1>1, <1>12, <1>13, <2>2
    <3> QED
      BY <1>1, <1>13, <2>2, <3>1 DEF Decoding, Ordered
  <2>3. CASE s = target /\ j = Len(streams[target].fragments) + 1 /\ i # j
    <3>1. i \in DOMAIN streams[target].fragments
      BY <1>1, <1>12, <1>13, <2>3
    <3> QED
      BY <1>7, <1>13, <1>14, <2>3, <3>1
  <2>4. CASE s = target /\ j = Len(streams[target].fragments) + 1 /\ i = j
    BY <1>7, <1>13, <2>4
  <2> QED
    <3>1. s = target => j <= Len(streams[target].fragments) \/ j = Len(streams[target].fragments) + 1
      BY <1>1, <1>12, <1>13
    <3> QED
      BY <2>1, <2>2, <2>3, <2>4, <3>1
<1>19. Behind'
  <2> SUFFICES ASSUME NEW s \in DOMAIN streams, NEW i \in DOMAIN streams'[s].fragments
               PROVE  /\ s = target => streams'[s].fragments[i].nextVcn <= vcn'
                      /\ \A b \in DOMAIN file : ~Entered(b) /\ s \in SearchStream(file[b]) =>
                           streams'[s].fragments[i].nextVcn <= file[b].start
    BY <1>4, <1>10, <1>11 DEF Behind
  <2>1. CASE s # target
    BY <1>10, <2>1 DEF Decoding, Behind
  <2>2. CASE s = target
    <3>1. streams'[s].fragments[i].nextVcn <= vcn' /\ streams'[s].fragments[i].nextVcn \in Nat
      <4>1. i \in DOMAIN streams[target].fragments \/ i = Len(streams[target].fragments) + 1
        BY <1>1, <1>12, <1>13, <2>2
      <4> QED
        BY <1>7, <1>13, <1>14, <2>2, <4>1
    <3>2. \A b \in DOMAIN file : ~Entered(b) /\ s \in SearchStream(file[b]) =>
            attribute < b /\ Same(a, file[b])
      BY <1>1, <1>2, <2>2 DEF Entered, SearchStream, Same
    <3>3. \A b \in DOMAIN file : ~Entered(b) /\ s \in SearchStream(file[b]) =>
            a.start + Total(runs, Len(runs)) <= file[b].start /\ file[b].start \in Nat
      <4>1. \A b \in DOMAIN file : file[b].start \in Nat
        BY FileKnown, Attributes DEF Decoding
      <4> QED
        BY <1>2, <3>2, <4>1 DEF a, runs
    <3>4. a.start \in Nat /\ Total(runs, Len(runs)) \in Nat
      BY <1>5
    <3> QED
      BY <1>7, <3>1, <3>3, <3>4
  <2> QED
    BY <2>1, <2>2
<1>20. FragmentsExact'
  <2> SUFFICES ASSUME ~garbled', NEW s \in DOMAIN streams
               PROVE  streams'[s].fragments = FlattenSeq(Parts(s)')
    BY <1>10 DEF FragmentsExact
  <2>1. streams[s].fragments = FlattenSeq(Parts(s))
    BY <1>9 DEF Decoding, FragmentsExact
  <2>2. \A b \in DOMAIN file : b # attribute => Decoded(b)' = Decoded(b)
    BY <1>4 DEF Decoded, Extents, LooksSparse
  <2>3. \A b \in DOMAIN file : Parts(s)'[b] = IF s \in SearchStream(file[b]) THEN Decoded(b)' ELSE << >>
    BY <1>4, <1>10 DEF Parts
  <2>4. \A b \in DOMAIN file : Parts(s)[b] = IF s \in SearchStream(file[b]) THEN Decoded(b) ELSE << >>
    BY DEF Parts
  <2>5. DOMAIN Parts(s) = DOMAIN file /\ DOMAIN Parts(s)' = DOMAIN file
    BY <1>4 DEF Parts
  <2>6. CASE s # target
    <3>1. s \notin SearchStream(file[attribute])
      BY <1>1, <2>6 DEF Decoding, OneStream, SearchStream, Same, a
    <3>2. Parts(s)' = Parts(s)
      <4>1. \A b \in DOMAIN file : Parts(s)'[b] = Parts(s)[b]
        BY <2>2, <2>3, <2>4, <3>1
      <4>2. Parts(s) = [b \in DOMAIN file |-> Parts(s)[b]] /\ Parts(s)' = [b \in DOMAIN file |-> Parts(s)'[b]]
        BY <1>4 DEF Parts
      <4> QED
        BY <4>1, <4>2
    <3> QED
      BY <1>10, <2>1, <2>6, <3>2
  <2>7. CASE s = target
    <3>1. Parts(s) \in [1..Len(file) -> Seq(Fragment)] /\ \A b \in 1..Len(file) : ~Entered(b) => Parts(s)[b] = << >>
      BY PartsTyped DEF Decoding
    <3>2. Parts(s)' \in [1..Len(file) -> Seq(Fragment)]
      <4>1. (Parts(s) \in [1..Len(file) -> Seq(Fragment)])'
        BY <1>15, <1>17, PartsTyped, PTL
      <4> QED
        BY <1>4, <4>1
    <3>3. Parts(s)'[attribute] = Append(Parts(s)[attribute], e)
      <4>1. s \in SearchStream(file[attribute])
        BY <1>1, <2>7 DEF SearchStream, a
      <4>2. Parts(s)[attribute] = SubSeq(Extents(a), 1, run - 1)
        <5>1. Decoded(attribute) = SubSeq(Extents(a), 1, run - 1)
          BY <1>1, <1>2 DEF Decoded, a
        <5> QED
          BY <1>1, <2>4, <4>1, <5>1
      <4>3. Parts(s)'[attribute] = SubSeq(Extents(a), 1, run)
        <5>1. run' - 1 = run
          <6>1. run \in Int
            BY <1>1, <1>5
          <6> QED
            BY <1>4, <6>1
        <5>2. PICK k \in DOMAIN file : k = attribute
          BY <1>1
        <5>3. Decoded(k)' = SubSeq(Extents(a), 1, run' - 1)
          BY <1>2, <1>4, <5>2 DEF Decoded, Extents, LooksSparse, a
        <5>4. Decoded(k)' = SubSeq(Extents(a), 1, run)
          BY <5>1, <5>3, Zenon
        <5>5. Parts(s)'[k] = Decoded(k)'
          BY <2>3, <4>1, <5>2
        <5> QED
          BY <5>2, <5>4, <5>5, Zenon
      <4>4. SubSeq(Extents(a), 1, run) = Append(SubSeq(Extents(a), 1, run - 1), Extents(a)[run])
        BY <1>1, <1>2, ExtentsExact DEF runs
      <4> QED
        BY <1>9, <4>2, <4>3, <4>4
    <3>4. \A b \in 1..Len(file) : b # attribute => Parts(s)'[b] = Parts(s)[b]
      BY <1>2, <2>2, <2>3, <2>4
    <3>5. \A b \in 1..Len(file) : b > attribute => Parts(s)[b] = << >>
      BY <1>2, <3>1 DEF Entered
    <3>6. FlattenSeq(Parts(s)') = Append(FlattenSeq(Parts(s)), e)
      <4> DEFINE q == Parts(s)
                 r == Parts(s)'
      <4>1. q \in [1..Len(file) -> Seq(Fragment)] /\ r \in [1..Len(file) -> Seq(Fragment)]
        BY <3>1, <3>2
      <4>2. r[attribute] = Append(q[attribute], e) /\ attribute \in 1..Len(file)
        BY <1>1, <1>2, <3>3
      <4>3. /\ \A b \in 1..Len(file) : b # attribute => r[b] = q[b]
            /\ \A b \in 1..Len(file) : b > attribute => q[b] = << >>
        BY <3>4, <3>5
      <4> HIDE DEF q, r
      <4>4. FlattenSeq(r) = Append(FlattenSeq(q), e)
        BY <1>2, <1>8, <4>1, <4>2, <4>3, FlattenAppend
      <4> QED
        BY <4>4 DEF q, r
    <3> QED
      BY <1>10, <2>1, <2>7, <3>6
  <2> QED
    BY <2>6, <2>7
<1> QED
  BY <1>15, <1>16, <1>17, <1>18, <1>19, <1>20 DEF Decoding

\* The stream of an attribute is the one found, or a new one.
LEMMA Found ==
  ASSUME Decoding, EnterAttribute
  PROVE  LET a == file[attribute] IN
         /\ streams' \in Seq(Stream) /\ target' \in DOMAIN streams' /\ Same(streams'[target'], a)
         /\ \A s \in DOMAIN streams : /\ s \in DOMAIN streams' /\ Same(streams'[s], streams[s])
                                      /\ streams'[s].fragments = streams[s].fragments
         /\ \A s \in DOMAIN streams' : s \notin DOMAIN streams =>
              /\ s = target' /\ SearchStream(a) = {} /\ streams'[s].fragments = << >>
<1> DEFINE a == file[attribute]
<1>1. /\ streams \in Seq(Stream) /\ Len(streams) \in Nat /\ DOMAIN streams = 1..Len(streams)
      /\ \A s \in DOMAIN streams : streams[s] \in Stream
  BY StreamsKnown DEF Decoding, Ordered
<1>2. IsAttribute(a)
  BY FileKnown DEF Decoding, Located, EnterAttribute
<1>3. a.type \in STRING /\ a.name \in STRING /\ a.size \in Nat
  BY <1>2, Attributes
<1>4. CASE SearchStream(a) = {}
  <2> DEFINE new == [type |-> a.type, name |-> a.name, size |-> a.size, fragments |-> << >>]
  <2>1. streams' = Append(streams, new) /\ target' = Len(streams) + 1
    BY <1>4 DEF EnterAttribute
  <2>2. new \in Stream /\ new.fragments = << >> /\ Same(new, a)
    BY <1>3 DEF Stream, Same
  <2> HIDE DEF new
  <2>3. /\ streams' \in Seq(Stream) /\ DOMAIN streams' = 1..(Len(streams) + 1)
        /\ streams'[Len(streams) + 1] = new
        /\ \A s \in DOMAIN streams : streams'[s] = streams[s]
    BY <1>1, <2>1, <2>2
  <2>4. \A s \in DOMAIN streams : s \in DOMAIN streams'
    BY <1>1, <2>3
  <2>5. \A s \in DOMAIN streams' : s \notin DOMAIN streams => s = target'
    BY <1>1, <2>1, <2>3
  <2>6. target' \in DOMAIN streams'
    BY <1>1, <2>1, <2>3
  <2> QED
    BY <1>4, <2>1, <2>2, <2>3, <2>4, <2>5, <2>6 DEF Same
<1>5. CASE SearchStream(a) # {}
  <2>1. PICK t \in SearchStream(a) :
          /\ streams' = [streams EXCEPT ![t].size = IF @ = 0 THEN a.size ELSE @]
          /\ target' = t
    BY <1>5 DEF EnterAttribute
  <2>2. t \in DOMAIN streams /\ Same(streams[t], a)
    BY DEF SearchStream
  <2> DEFINE new == [streams[t] EXCEPT !.size = IF @ = 0 THEN a.size ELSE @]
  <2>3. streams' = [streams EXCEPT ![t] = new]
    BY <2>1
  <2>4. /\ new \in Stream /\ new.type = streams[t].type /\ new.name = streams[t].name
        /\ new.fragments = streams[t].fragments
    <3>1. streams[t] \in [type : STRING, name : STRING, size : Nat, fragments : Seq(Fragment)]
      BY <1>1, <2>2 DEF Stream
    <3> QED
      BY <1>3, <3>1 DEF Stream
  <2> HIDE DEF new
  <2>5. streams' \in Seq(Stream) /\ DOMAIN streams' = DOMAIN streams
    <3>1. streams \in [1..Len(streams) -> Stream]
      BY <1>1
    <3>2. streams' \in [1..Len(streams) -> Stream]
      BY <2>3, <2>4, <3>1
    <3> QED
      BY <1>1, <3>2
  <2>6. \A s \in DOMAIN streams : streams'[s] = IF s = t THEN new ELSE streams[s]
    BY <1>1, <2>3
  <2> QED
    BY <2>1, <2>2, <2>4, <2>5, <2>6 DEF Same
<1> QED
  BY <1>4, <1>5

LEMMA EnterAttributeStep ==
  ASSUME Decoding, EnterAttribute
  PROVE  Decoding'
<1> DEFINE a == file[attribute]
<1>1. /\ streams' \in Seq(Stream) /\ target' \in DOMAIN streams' /\ Same(streams'[target'], a)
      /\ \A s \in DOMAIN streams : /\ s \in DOMAIN streams' /\ Same(streams'[s], streams[s])
                                   /\ streams'[s].fragments = streams[s].fragments
      /\ \A s \in DOMAIN streams' : s \notin DOMAIN streams =>
           /\ s = target' /\ SearchStream(a) = {} /\ streams'[s].fragments = << >>
  BY Found
<1>2. /\ Len(file) \in Nat /\ DOMAIN file = 1..Len(file) /\ attribute \in Nat
      /\ attribute \in DOMAIN file /\ IsAttribute(a) /\ pc = "attribute"
  <2>1. /\ Len(file) \in Nat /\ DOMAIN file = 1..Len(file) /\ attribute \in Nat
        /\ \A b \in DOMAIN file : IsAttribute(file[b])
    BY FileKnown DEF Decoding
  <2>2. attribute \in 1..Len(file) /\ pc = "attribute"
    BY <2>1 DEF Decoding, Located, EnterAttribute
  <2> QED
    BY <2>1, <2>2
<1>3. /\ vcn' = a.start /\ lcn' = 0 /\ run' = 1 /\ pc' = "runs"
      /\ file' = file /\ attribute' = attribute /\ garbled' = garbled /\ a' = a
  BY DEF EnterAttribute
<1>4. /\ Len(a.runs) \in Nat /\ a.start \in Nat
      /\ Total(a.runs, 0) = 0 /\ LcnBefore(a.runs, 1) = 0
  BY <1>2, Attributes
<1>5. \A b \in DOMAIN file : Entered(b)' <=> Entered(b) \/ b = attribute
  BY <1>2, <1>3 DEF Entered
<1>6. ~Entered(attribute)
  BY <1>2 DEF Entered
<1>7. \A x : \A s \in DOMAIN streams : s \in SearchStream(x)' <=> s \in SearchStream(x)
  BY <1>1 DEF SearchStream, Same
<1>8. target' \in SearchStream(a)'
  BY <1>1, <1>3 DEF SearchStream
<1> HIDE DEF a
<1>9. Located'
  BY <1>3 DEF Decoding, Located
<1>10. OneStream'
  <2>1. \A s, t \in DOMAIN streams' : Same(streams'[s], streams'[t]) => s = t
    <3> SUFFICES ASSUME NEW s \in DOMAIN streams', NEW t \in DOMAIN streams', Same(streams'[s], streams'[t])
                 PROVE  s = t
      OBVIOUS
    <3>1. CASE s \in DOMAIN streams /\ t \in DOMAIN streams
      BY <1>1, <3>1 DEF Decoding, OneStream, Same
    <3>2. CASE s \notin DOMAIN streams /\ t \notin DOMAIN streams
      BY <1>1, <3>2
    <3>3. CASE s \in DOMAIN streams /\ t \notin DOMAIN streams
      BY <1>1, <3>3 DEF SearchStream, Same
    <3>4. CASE s \notin DOMAIN streams /\ t \in DOMAIN streams
      BY <1>1, <3>4 DEF SearchStream, Same
    <3> QED
      BY <3>1, <3>2, <3>3, <3>4
  <2>2. \A b \in DOMAIN file : Entered(b)' => SearchStream(file[b])' # {}
    <3> SUFFICES ASSUME NEW b \in DOMAIN file, Entered(b)'
                 PROVE  SearchStream(file[b])' # {}
      OBVIOUS
    <3>1. CASE b = attribute
      BY <1>3, <1>8, <3>1 DEF a
    <3>2. CASE b # attribute
      <4>1. PICK s \in DOMAIN streams : s \in SearchStream(file[b])
        BY <1>5, <3>2 DEF Decoding, OneStream, SearchStream
      <4>2. s \in DOMAIN streams' /\ Same(streams'[s], file[b])
        BY <1>1, <4>1 DEF SearchStream, Same
      <4> QED
        BY <1>3, <4>2 DEF SearchStream
    <3> QED
      BY <3>1, <3>2
  <2> QED
    BY <1>3, <2>1, <2>2 DEF OneStream
<1>11. AtRun'
  <2>1. 1 \in 1..(Len(a.runs) + 1) /\ a.start + Total(a.runs, 1 - 1) = a.start
    BY <1>4
  <2> QED
    BY <1>2, <1>3, <1>4, <1>8, <2>1 DEF AtRun, a
<1>12. Ordered'
  BY <1>1 DEF Decoding, Ordered
<1>13. Behind'
  <2> SUFFICES ASSUME NEW s \in DOMAIN streams', NEW i \in DOMAIN streams'[s].fragments
               PROVE  /\ s = target' => streams'[s].fragments[i].nextVcn <= vcn'
                      /\ \A b \in DOMAIN file : ~Entered(b)' /\ s \in SearchStream(file[b])' =>
                           streams'[s].fragments[i].nextVcn <= file[b].start
    BY <1>3 DEF Behind
  <2>1. s \in DOMAIN streams /\ i \in DOMAIN streams[s].fragments
    BY <1>1
  <2>2. \A b \in DOMAIN file : ~Entered(b) /\ s \in SearchStream(file[b]) =>
          streams[s].fragments[i].nextVcn <= file[b].start
    BY <2>1 DEF Decoding, Behind
  <2>3. s = target' => s \in SearchStream(a)
    BY <1>1, <2>1 DEF SearchStream, Same, a
  <2>4. \A b \in DOMAIN file : s \in SearchStream(file[b])' => s \in SearchStream(file[b])
    BY <1>1, <1>3, <2>1 DEF SearchStream, Same
  <2> QED
    BY <1>1, <1>2, <1>3, <1>5, <1>6, <2>1, <2>2, <2>3, <2>4 DEF a
<1>14. FragmentsExact'
  <2> SUFFICES ASSUME ~garbled, NEW s \in DOMAIN streams'
               PROVE  streams'[s].fragments = FlattenSeq(Parts(s)')
    BY <1>3 DEF FragmentsExact
  <2>1. \A b \in DOMAIN file : Decoded(b)' = Decoded(b)
    <3> SUFFICES ASSUME NEW b \in DOMAIN file
                 PROVE  Decoded(b)' = Decoded(b)
      OBVIOUS
    <3>1. CASE b = attribute
      <4>1. Decoded(b)' = SubSeq(Extents(a), 1, run' - 1)
        BY <1>2, <1>3, <3>1 DEF Decoded, Extents, LooksSparse, a
      <4>2. run' - 1 = 0
        BY <1>3
      <4>3. SubSeq(Extents(a), 1, 0) = << >>
        BY <1>2, ExtentsExact
      <4>4. Decoded(b) = << >>
        BY <1>2, <3>1 DEF Decoded
      <4> QED
        BY <4>1, <4>2, <4>3, <4>4, Zenon
    <3>2. CASE b # attribute
      BY <1>2, <1>3, <3>2 DEF Decoded, Extents, LooksSparse
    <3> QED
      BY <3>1, <3>2
  <2>2. \A b \in DOMAIN file : Parts(s)'[b] = IF s \in SearchStream(file[b])' THEN Decoded(b) ELSE << >>
    BY <1>3, <2>1 DEF Parts, SearchStream
  <2>3. CASE s \in DOMAIN streams
    <3>1. \A b \in DOMAIN file : s \in SearchStream(file[b])' <=> s \in SearchStream(file[b])
      BY <1>1, <1>3, <2>3 DEF SearchStream, Same
    <3>2. \A b \in DOMAIN file : Parts(s)'[b] = Parts(s)[b]
      BY <2>2, <3>1 DEF Parts
    <3>3. Parts(s) = [b \in DOMAIN file |-> Parts(s)[b]] /\ Parts(s)' = [b \in DOMAIN file |-> Parts(s)'[b]]
      BY <1>3 DEF Parts
    <3>4. Parts(s)' = Parts(s)
      BY <3>2, <3>3
    <3> QED
      BY <1>1, <2>3, <3>4 DEF Decoding, FragmentsExact
  <2>4. CASE s \notin DOMAIN streams
    <3>1. \A b \in DOMAIN file : Parts(s)'[b] = << >>
      <4> SUFFICES ASSUME NEW b \in DOMAIN file, s \in SearchStream(file[b])'
                   PROVE  Decoded(b) = << >>
        BY <2>2
      <4>1. Same(file[b], a)
        BY <1>1, <1>3, <2>4 DEF SearchStream, Same
      <4>2. SearchStream(a) = {}
        BY <1>1, <2>4
      <4>3. SearchStream(file[b]) = {}
        BY <4>1, <4>2 DEF SearchStream, Same
      <4>4. ~Entered(b)
        BY <4>3 DEF Decoding, OneStream
      <4> QED
        BY <4>4 DEF Decoded, Entered
    <3>2. FlattenSeq(Parts(s)') = << >>
      <4> DEFINE q == Parts(s)'
      <4>1. DOMAIN q = 1..Len(file) /\ q = [b \in DOMAIN file |-> q[b]]
        BY <1>2, <1>3 DEF Parts
      <4>2. \A b \in 1..Len(file) : q[b] = << >>
        BY <1>2, <3>1
      <4> HIDE DEF q
      <4>3. q \in [1..Len(file) -> Seq(Fragment)]
        <5>1. << >> \in Seq(Fragment)
          OBVIOUS
        <5>2. q = [b \in 1..Len(file) |-> q[b]] /\ \A b \in 1..Len(file) : q[b] \in Seq(Fragment)
          BY <1>2, <4>1, <4>2, <5>1
        <5> QED
          BY <5>2
      <4>4. FlattenSeq(q) = << >>
        BY <1>2, <4>2, <4>3, FlattenEmpty
      <4> QED
        BY <4>4 DEF q
    <3> QED
      BY <1>1, <2>4, <3>2
  <2> QED
    BY <2>3, <2>4
<1> QED
  BY <1>9, <1>10, <1>11, <1>12, <1>13, <1>14 DEF Decoding

LEMMA NextAttributeStep ==
  ASSUME Decoding, NextAttribute
  PROVE  Decoding'
<1> DEFINE a == file[attribute]
<1>1. /\ Len(file) \in Nat /\ DOMAIN file = 1..Len(file) /\ attribute \in Nat
      /\ attribute \in DOMAIN file /\ IsAttribute(a)
  BY FileKnown DEF Decoding, AtRun, NextAttribute
<1>2. /\ attribute' = attribute + 1 /\ pc = "runs" /\ pc' = "attribute"
      /\ file' = file /\ streams' = streams /\ lcn' = lcn /\ garbled' = garbled
  BY DEF NextAttribute
<1>3. \A b \in DOMAIN file : Entered(b)' <=> Entered(b)
  BY <1>1, <1>2 DEF Entered
<1>4. \A x : SearchStream(x)' = SearchStream(x)
  BY <1>2 DEF SearchStream
<1>5. run - 1 = Len(a.runs)
  <2>1. run \in 1..(Len(a.runs) + 1) /\ run > Len(a.runs) /\ Len(a.runs) \in Nat
    BY <1>1, <1>2, Attributes DEF Decoding, AtRun, NextAttribute
  <2> QED
    BY <2>1
<1>6. \A b \in DOMAIN file : Decoded(b)' = Decoded(b)
  <2> SUFFICES ASSUME NEW b \in DOMAIN file
               PROVE  Decoded(b)' = Decoded(b)
    OBVIOUS
  <2>1. CASE b = attribute
    <3>1. Decoded(b) = SubSeq(Extents(a), 1, run - 1)
      <4>1. ~(b < attribute)
        BY <1>1, <2>1
      <4> QED
        BY <1>2, <2>1, <4>1, Zenon DEF Decoded
    <3>2. Decoded(b)' = Extents(a)
      BY <1>1, <1>2, <2>1 DEF Decoded, Extents, LooksSparse
    <3>3. SubSeq(Extents(a), 1, Len(a.runs)) = Extents(a)
      BY <1>1, ExtentsExact
    <3> QED
      BY <1>5, <3>1, <3>2, <3>3, Zenon
  <2>2. CASE b # attribute
    <3>1. b < attribute + 1 <=> b < attribute
      BY <1>1, <2>2
    <3>2. Decoded(b) = IF b < attribute THEN Extents(file[b]) ELSE << >>
      BY <2>2 DEF Decoded
    <3>3. Decoded(b)' = IF b < attribute THEN Extents(file[b]) ELSE << >>
      BY <1>2, <3>1 DEF Decoded, Extents, LooksSparse
    <3> QED
      BY <3>2, <3>3
  <2> QED
    BY <2>1, <2>2
<1>7. Located'
  BY <1>1, <1>2 DEF Decoding, Located
<1>8. OneStream' /\ AtRun' /\ Ordered'
  BY <1>2, <1>3, <1>4 DEF Decoding, OneStream, AtRun, Ordered
<1>9. Behind'
  BY <1>2, <1>3, <1>4 DEF Decoding, Behind
<1>10. FragmentsExact'
  <2>1. \A s : Parts(s)' = Parts(s)
    BY <1>2, <1>4, <1>6 DEF Parts
  <2> QED
    BY <1>2, <2>1 DEF Decoding, FragmentsExact
<1> QED
  BY <1>7, <1>8, <1>9, <1>10 DEF Decoding

\* The reading leaves the streams as they are.
LEMMA ReadingSteps ==
  ASSUME Decoding, UNCHANGED <<file, streams, decoder, garbled>>,
         \/ pc' = pc
         \/ pc # "runs" /\ pc' # "runs" /\ attribute > Len(file)
  PROVE  Decoding'
<1>1. /\ file' = file /\ streams' = streams /\ garbled' = garbled
      /\ attribute' = attribute /\ run' = run /\ target' = target /\ lcn' = lcn /\ vcn' = vcn
      /\ pc' = "runs" <=> pc = "runs"
  BY DEF decoder
<1>2. \A x : SearchStream(x)' = SearchStream(x)
  BY <1>1 DEF SearchStream
<1>3. \A b : Entered(b)' <=> Entered(b)
  BY <1>1 DEF Entered
<1>4. \A b : Decoded(b)' = Decoded(b)
  BY <1>1 DEF Decoded, Extents, LooksSparse
<1>5. Located'
  BY <1>1 DEF Decoding, Located
<1>6. OneStream' /\ AtRun' /\ Ordered'
  BY <1>1, <1>2, <1>3 DEF Decoding, OneStream, AtRun, Ordered
<1>7. Behind'
  BY <1>1, <1>2, <1>3 DEF Decoding, Behind
<1>8. FragmentsExact'
  <2>1. \A s : Parts(s)' = Parts(s)
    BY <1>1, <1>2, <1>4 DEF Parts
  <2> QED
    BY <1>1, <2>1 DEF Decoding, FragmentsExact
<1> QED
  BY <1>5, <1>6, <1>7, <1>8 DEF Decoding

LEMMA DecodingBegins ==
  ASSUME Init
  PROVE  Decoding
<1>1. /\ file \in File /\ pc = "attribute" /\ streams = << >> /\ garbled = FALSE
      /\ attribute = 1 /\ lcn = 0
  BY DEF Init
<1>2. Len(file) \in Nat /\ DOMAIN file = 1..Len(file)
  BY <1>1, FilesAssumption
<1>3. Located
  <2>1. 1 \in 1..(Len(file) + 1) /\ 0 \in Int
    BY <1>2
  <2>2. attribute \in 1..(Len(file) + 1) /\ lcn \in Int
    BY <1>1, <2>1, Zenon
  <2> QED
    BY <1>1, <2>2 DEF Located
<1>4. DOMAIN streams = {} /\ streams \in Seq(Stream)
  BY <1>1
<1>5. \A b \in DOMAIN file : ~Entered(b)
  BY <1>1, <1>2 DEF Entered
<1> QED
  BY <1>1, <1>3, <1>4, <1>5 DEF Decoding, Ordered, OneStream, AtRun, Behind, FragmentsExact

(* One step per action; those of the reading do not concern the decoding.  *)
THEOREM DecodingInvariance == Spec => []Decoding
<1>1. Init => Decoding
  BY DecodingBegins
<1>2. Decoding /\ [Next]_vars => Decoding'
  <2> SUFFICES ASSUME Decoding, [Next]_vars
               PROVE  Decoding'
    OBVIOUS
  <2>1. CASE EnterAttribute
    BY <2>1, EnterAttributeStep
  <2>2. CASE DecodeRun
    BY <2>2, DecodeRunStep
  <2>3. CASE NextAttribute
    BY <2>3, NextAttributeStep
  <2>4. CASE BeginReading
    <3>1. pc # "runs" /\ pc' # "runs" /\ attribute > Len(file)
      BY <2>4 DEF BeginReading
    <3> QED
      BY <2>4, <3>1, ReadingSteps DEF BeginReading
  <2>5. CASE \/ EnterStream \/ EndOfStreams \/ SkipFragment \/ EnterFragment
             \/ EndOfFragments \/ ReadChunk \/ ReadFails \/ LeaveFragment
    <3>1. /\ pc \notin {"attribute", "runs"} /\ pc' # "runs"
          /\ UNCHANGED <<file, streams, decoder, garbled>>
      BY <2>5 DEF EnterStream, EndOfStreams, SkipFragment, EnterFragment, EndOfFragments,
                  ReadChunk, Yield, ReadFails, LeaveFragment
    <3>2. attribute > Len(file)
      BY <3>1 DEF Decoding, Located
    <3> QED
      BY <3>1, <3>2, ReadingSteps
  <2>6. CASE UNCHANGED vars
    BY <2>6, ReadingSteps DEF vars
  <2> QED
    BY <2>1, <2>2, <2>3, <2>4, <2>5, <2>6 DEF Next
<1> QED
  BY <1>1, <1>2, PTL DEF Spec

(* Whatever runs a file has, however long and far apart, and however many  *)
(* attributes they are spread over, its streams have the fragments that    *)
(* the volume has, unless a sparse run was given a distance.               *)
THEOREM FragmentsAreExact == Spec => []FragmentsExact
<1>1. Decoding => FragmentsExact
  BY DEF Decoding
<1> QED
  BY <1>1, DecodingInvariance, PTL

-----------------------------------------------------------------------------
(* The arithmetic of clusters and bytes. *)

LEMMA ClusterOrder ==
  ASSUME NEW a \in Int, NEW b \in Int, a <= b
  PROVE  a * ClusterSize <= b * ClusterSize
<1>1. ClusterSize \in Nat
  BY ContentsAssumption
<1>2. a * ClusterSize \in Int /\ b * ClusterSize \in Int
  BY <1>1
<1> QED
  BY <1>1, <1>2, Z3

LEMMA ClusterSum ==
  ASSUME NEW a \in Int, NEW b \in Int
  PROVE  (a + b) * ClusterSize = a * ClusterSize + b * ClusterSize
  BY ContentsAssumption, Z3

LEMMA ClusterDifference ==
  ASSUME NEW a \in Int, NEW b \in Int
  PROVE  (a - b) * ClusterSize = a * ClusterSize - b * ClusterSize
  BY ContentsAssumption, Z3

LEMMA ClusterBytes ==
  ASSUME NEW a \in Int
  PROVE  /\ a * ClusterSize \in Int
         /\ 0 * ClusterSize = 0
         /\ a >= 0 => a * ClusterSize >= 0
         /\ a > 0 => a * ClusterSize > 0
  BY ContentsAssumption, Z3

\* Appending leaves what is there and puts the new after it.
LEMMA Appended ==
  ASSUME NEW c \in Seq(Int), NEW n \in Nat, NEW d \in [1..n -> Int]
  PROVE  /\ c \o d \in Seq(Int)
         /\ Len(c \o d) = Len(c) + n
         /\ \A q \in 1..Len(c) : (c \o d)[q] = c[q]
         /\ \A q \in (Len(c) + 1)..(Len(c) + n) : (c \o d)[q] = d[q - Len(c)]
<1>1. d \in Seq(Int) /\ Len(d) = n
  OBVIOUS
<1>2. c \o d \in Seq(Int) /\ Len(c \o d) = Len(c) + n
  BY <1>1
<1>3. \A q \in 1..Len(c) : (c \o d)[q] = c[q]
  BY <1>1
<1>4. \A q \in (Len(c) + 1)..(Len(c) + n) : (c \o d)[q] = d[q - Len(c)]
  BY <1>1
<1> QED
  BY <1>2, <1>3, <1>4

-----------------------------------------------------------------------------
(* The streams of a node, their fragments and where these begin. *)

LEMMA Streams ==
  ASSUME Ordered, NEW s \in DOMAIN streams
  PROVE  /\ streams[s].size \in Nat
         /\ Len(streams[s].fragments) \in Nat
         /\ DOMAIN streams[s].fragments = 1..Len(streams[s].fragments)
         /\ \A i \in DOMAIN streams[s].fragments :
              streams[s].fragments[i].lcn \in Int /\ streams[s].fragments[i].nextVcn \in Nat
<1>1. streams[s] \in Stream
  BY DEF Ordered
<1>2. streams[s].size \in Nat /\ streams[s].fragments \in Seq(Fragment)
  BY <1>1 DEF Stream
<1>3. \A i \in DOMAIN streams[s].fragments : streams[s].fragments[i] \in Fragment
  BY <1>2
<1> QED
  BY <1>2, <1>3 DEF Fragment

LEMMA First ==
  ASSUME Ordered, streams # << >>
  PROVE  1 \in DOMAIN streams /\ Len(streams) \in Nat \ {0} /\ DOMAIN streams = 1..Len(streams)
BY DEF Ordered

LEMMA Starts ==
  ASSUME Ordered, NEW s \in DOMAIN streams
  PROVE  LET fragments == streams[s].fragments IN
         /\ \A i \in 1..(Len(fragments) + 1) : StartVcn(fragments, i) \in Nat
         /\ \A i \in DOMAIN fragments : StartVcn(fragments, i) <= fragments[i].nextVcn
         /\ \A i, j \in DOMAIN fragments : i < j => fragments[i].nextVcn <= StartVcn(fragments, j)
<1> DEFINE fragments == streams[s].fragments
<1>1. /\ Len(fragments) \in Nat /\ DOMAIN fragments = 1..Len(fragments)
      /\ \A i \in DOMAIN fragments : fragments[i].nextVcn \in Nat
  BY Streams
<1>2. \A i, j \in DOMAIN fragments : i <= j => fragments[i].nextVcn <= fragments[j].nextVcn
  BY DEF Ordered
<1> HIDE DEF fragments
<1>3. \A i \in 1..(Len(fragments) + 1) : i = 1 \/ i - 1 \in DOMAIN fragments
  BY <1>1
<1>4. \A i \in 1..(Len(fragments) + 1) : StartVcn(fragments, i) \in Nat
  BY <1>1, <1>3 DEF StartVcn
<1>5. \A i \in DOMAIN fragments : StartVcn(fragments, i) <= fragments[i].nextVcn
  BY <1>1, <1>2, <1>3 DEF StartVcn
<1>6. \A i, j \in DOMAIN fragments : i < j => fragments[i].nextVcn <= StartVcn(fragments, j)
  <2> SUFFICES ASSUME NEW i \in DOMAIN fragments, NEW j \in DOMAIN fragments, i < j
               PROVE  fragments[i].nextVcn <= StartVcn(fragments, j)
    OBVIOUS
  <2>1. j # 1 /\ j - 1 \in DOMAIN fragments /\ i <= j - 1
    BY <1>1
  <2> QED
    BY <2>1, <1>2 DEF StartVcn
<1> QED
  BY <1>4, <1>5, <1>6 DEF fragments
\* All this of the first stream.
LEMMA FirstFragments ==
  ASSUME Ordered, streams # << >>
  PROVE  LET first == streams[1].fragments IN
         /\ streams[1].size \in Nat /\ Len(first) \in Nat /\ DOMAIN first = 1..Len(first)
         /\ \A i \in DOMAIN first :
              first[i].lcn \in Int /\ first[i].nextVcn \in Nat /\ StartVcn(first, i) \in Nat
<1>1. 1 \in DOMAIN streams
  BY First
<1> DEFINE first == streams[1].fragments
<1>2. /\ streams[1].size \in Nat /\ Len(first) \in Nat /\ DOMAIN first = 1..Len(first)
      /\ \A i \in DOMAIN first : first[i].lcn \in Int /\ first[i].nextVcn \in Nat
  BY <1>1, Streams
<1>3. \A i \in 1..(Len(first) + 1) : StartVcn(first, i) \in Nat
  BY <1>1, Starts
<1>4. \A i \in DOMAIN first : i \in 1..(Len(first) + 1)
  BY <1>2
<1> QED
  BY <1>2, <1>3, <1>4

-----------------------------------------------------------------------------
(* The decoding of runs leaves the reader as it was, and the reading begins*)
(* with nothing. *)

LEMMA DecodingStep ==
  ASSUME Fresh, EnterAttribute \/ DecodeRun \/ NextAttribute
  PROVE  IInv'
<1>1. pc' \in {"attribute", "runs"}
  BY DEF EnterAttribute, DecodeRun, NextAttribute
<1>2. Fresh'
  BY DEF Fresh, EnterAttribute, DecodeRun, NextAttribute, reader
<1> QED
  BY <1>1, <1>2 DEF IInv

LEMMA BeginStep ==
  ASSUME Fresh, BeginReading
  PROVE  IInv'
<1>1. pc' \in {"stream", "done"} /\ streams' = streams /\ content' = << >> /\ stream' = 1
  BY DEF BeginReading, Fresh
<1> SUFFICES ASSUME streams # << >>, Ordered
             PROVE  Reading'
  BY <1>1 DEF IInv, Ordered
<1> DEFINE first == streams[1].fragments
<1>2. /\ streams[1].size \in Nat /\ Len(first) \in Nat /\ DOMAIN first = 1..Len(first)
      /\ \A i \in DOMAIN first : StartVcn(first, i) \in Nat
  BY FirstFragments
<1>3. fileBytesRemaining' = streams[1].size /\ (pc' = "done" => streams[1].size = 0)
  BY <1>2 DEF BeginReading, Fresh
<1>4. Counted'
  BY <1>1, <1>2, <1>3 DEF Counted
<1>5. RightBytes(streams[1].fragments)'
  <2>1. \A i \in DOMAIN first : StartVcn(first, i) * ClusterSize >= 0 /\ StartVcn(first, i) * ClusterSize \in Int
    BY <1>2, ClusterBytes
  <2>2. Len(content') = 0
    BY <1>1
  <2>3. \A i \in DOMAIN first : first[i].nextVcn * ClusterSize \in Int
    <3>1. \A i \in DOMAIN first : first[i].nextVcn \in Int
      BY First, Streams
    <3> QED
      BY <3>1, ClusterBytes
  <2>4. \A i \in DOMAIN first :
          \A p \in (StartVcn(first, i) * ClusterSize)..(first[i].nextVcn * ClusterSize - 1) : ~(p < 0)
    BY <2>1, <2>3
  <2>5. first' = first
    BY <1>1
  <2> HIDE DEF first
  <2>6. RightBytes(first)'
    BY <2>2, <2>4, <2>5 DEF RightBytes, StartVcn
  <2> QED
    BY <2>6 DEF first
<1>6. Placed' /\ Covered' /\ AtFragment' /\ InFragment' /\ Finished'
  BY <1>1, <1>3 DEF Placed, Covered, AtFragment, InFragment, Finished
<1> QED
  BY <1>4, <1>5, <1>6 DEF Reading

-----------------------------------------------------------------------------
(* The steps from fragment to fragment. *)

\* What these steps leave alone.
LEMMA SameBytes ==
  ASSUME Reading, UNCHANGED <<streams, content, fileBytesRemaining>>,
         stream' \in Nat \ {0}, pc' = "stream" /\ stream' = 1 => content = << >>
  PROVE  Counted' /\ RightBytes(streams[1].fragments)'
<1>1. RightBytes(streams[1].fragments)'
  BY DEF Reading, RightBytes, StartVcn, Solid
<1>2. Counted'
  BY DEF Reading, Counted
<1> QED
  BY <1>1, <1>2

LEMMA EnterStreamStep ==
  ASSUME streams # << >>, Ordered, Reading, EnterStream
  PROVE  Reading'
<1>1. /\ stream \in DOMAIN streams /\ Len(Fragments) \in Nat
      /\ 1 \in DOMAIN streams /\ streams[1].size \in Nat
  BY First, Streams DEF EnterStream, Reading, Counted, Fragments
<1>2. Counted' /\ RightBytes(streams[1].fragments)'
  BY SameBytes DEF EnterStream, Reading, Counted
<1>3. Placed'
  BY <1>1 DEF EnterStream, Placed, Fragments
<1>4. Covered'
  <2>1. DOMAIN streams[1].fragments \subseteq Nat \ {0}
    BY First, Streams
  <2> QED
    BY <2>1 DEF EnterStream, Reading, Covered, Solid
<1>5. AtFragment'
  BY <1>1, ClusterBytes DEF EnterStream, Reading, Counted, AtFragment, StartVcn, Reached
<1>6. InFragment' /\ Finished'
  BY DEF EnterStream, InFragment, Finished
<1> QED
  BY <1>2, <1>3, <1>4, <1>5, <1>6 DEF Reading

LEMMA EndOfStreamsStep ==
  ASSUME streams # << >>, Ordered, Reading, EndOfStreams
  PROVE  Reading'
<1>1. Counted' /\ RightBytes(streams[1].fragments)'
  BY SameBytes DEF EndOfStreams, Reading, Counted, reader
<1>2. Placed' /\ AtFragment' /\ InFragment'
  BY DEF EndOfStreams, Placed, AtFragment, InFragment
<1>3. Covered'
  BY DEF EndOfStreams, Reading, Covered, Solid, reader
<1>4. Finished'
  BY First DEF EndOfStreams, Reading, Counted, Finished, reader
<1> QED
  BY <1>1, <1>2, <1>3, <1>4 DEF Reading

LEMMA SkipFragmentStep ==
  ASSUME streams # << >>, Ordered, Reading, SkipFragment
  PROVE  Reading'
<1>1. /\ stream \in DOMAIN streams /\ fragment \in DOMAIN Fragments /\ fragment \in Nat \ {0}
      /\ Len(Fragments) \in Nat /\ DOMAIN Fragments = 1..Len(Fragments)
      /\ Fragments[fragment].lcn = VirtualFragment
  BY Streams DEF SkipFragment, Reading, Placed, Fragments
<1>2. Counted' /\ RightBytes(streams[1].fragments)'
  BY SameBytes DEF SkipFragment, Reading, Counted
<1>3. Placed'
  BY <1>1 DEF SkipFragment, Reading, Placed, Fragments
<1>4. stream = 1 => ~Solid(streams[1].fragments, fragment)
  BY <1>1 DEF Solid, Fragments
<1>5. Covered'
  <2>1. \A i \in Nat : i < fragment + 1 => i < fragment \/ i = fragment
    BY <1>1
  <2>2. DOMAIN streams[1].fragments \subseteq Nat
    BY First, Streams
  <2> QED
    BY <1>1, <1>4, <2>1, <2>2 DEF SkipFragment, Reading, Covered, Solid, Counted
<1>6. AtFragment'
  BY <1>1, <1>4 DEF SkipFragment, AtFragment, Solid
<1>7. InFragment' /\ Finished'
  BY DEF SkipFragment, InFragment, Finished
<1> QED
  BY <1>2, <1>3, <1>5, <1>6, <1>7 DEF Reading

LEMMA EnterFragmentStep ==
  ASSUME streams # << >>, Ordered, Reading, EnterFragment
  PROVE  Reading'
<1>1. /\ stream \in DOMAIN streams /\ fragment \in DOMAIN Fragments /\ fragment \in Nat \ {0}
      /\ Len(Fragments) \in Nat /\ DOMAIN Fragments = 1..Len(Fragments) /\ lastVcn \in Nat
      /\ Fragments[fragment].lcn \in Int /\ Fragments[fragment].nextVcn \in Nat
  BY Streams DEF EnterFragment, Reading, Placed, Fragments
<1>2. Counted' /\ RightBytes(streams[1].fragments)'
  BY SameBytes DEF EnterFragment, Reading, Counted
<1>3. Placed'
  BY <1>1 DEF EnterFragment, Reading, Placed, Fragments
<1>4. Covered'
  BY DEF EnterFragment, Reading, Covered, Solid
<1>5. InFragment'
  <2> DEFINE first == streams[1].fragments
  <2> SUFFICES ASSUME stream = 1, Solid(first, fragment)
               PROVE  InFragment'
    BY DEF EnterFragment, InFragment, Solid
  <2>1. lastVcn = StartVcn(first, fragment) /\ Reached(lastVcn)
    BY <1>1 DEF EnterFragment, Reading, AtFragment, Solid
  <2>2. StartVcn(first, fragment) <= first[fragment].nextVcn
    BY <1>1, Starts DEF Fragments
  <2>3. Reached(lastVcn)' /\ StartVcn(first, fragment)' = lastVcn /\ lastVcn' = lastVcn
    BY <2>1 DEF EnterFragment, Reached, StartVcn
  <2>4. /\ clustersToRead' = first[fragment].nextVcn - lastVcn
        /\ currentLcn' = first[fragment].lcn /\ fragment' = fragment /\ streams' = streams
    BY DEF EnterFragment, Fragments
  <2>5. first[fragment].nextVcn - clustersToRead' = lastVcn
    BY <1>1, <2>4 DEF Fragments
  <2>6. clustersToRead' >= 0 /\ first[fragment].lcn + lastVcn - lastVcn = first[fragment].lcn
    BY <1>1, <2>1, <2>2, <2>4 DEF Fragments
  <2>7. (first[fragment].nextVcn - clustersToRead)' = lastVcn
    BY <2>4, <2>5
  <2> QED
    BY <1>1, <2>1, <2>3, <2>4, <2>6, <2>7 DEF InFragment
<1>6. AtFragment' /\ Finished'
  BY DEF EnterFragment, AtFragment, Finished
<1> QED
  BY <1>2, <1>3, <1>4, <1>5, <1>6 DEF Reading

LEMMA EndOfFragmentsStep ==
  ASSUME streams # << >>, Ordered, Reading, EndOfFragments
  PROVE  Reading'
<1>1. stream' = stream + 1 /\ stream \in Nat \ {0} /\ pc' = "stream" /\ fragment > Len(Fragments)
  BY DEF EndOfFragments, Reading, Counted
<1>2. Counted' /\ RightBytes(streams[1].fragments)'
  BY <1>1, SameBytes DEF EndOfFragments
<1>3. Placed' /\ AtFragment' /\ InFragment' /\ Finished'
  BY <1>1 DEF Placed, AtFragment, InFragment, Finished
<1>4. Covered'
  <2>1. \A i \in DOMAIN streams[1].fragments : stream = 1 => i < fragment
    BY <1>1, First, Streams DEF Reading, Placed, EndOfFragments, Fragments
  <2> QED
    BY <1>1, <2>1 DEF EndOfFragments, Reading, Covered, Solid
<1> QED
  BY <1>2, <1>3, <1>4 DEF Reading

LEMMA ReadFailsStep ==
  ASSUME streams # << >>, Ordered, Reading, ReadFails
  PROVE  Reading'
<1>1. Counted' /\ RightBytes(streams[1].fragments)'
  BY SameBytes DEF ReadFails, Reading, Counted, reader
<1>2. Placed' /\ AtFragment' /\ InFragment' /\ Finished'
  BY DEF ReadFails, Placed, AtFragment, InFragment, Finished
<1>3. Covered'
  BY DEF ReadFails, Reading, Covered, Solid, reader
<1> QED
  BY <1>1, <1>2, <1>3 DEF Reading

LEMMA LeaveFragmentStep ==
  ASSUME streams # << >>, Ordered, Reading, LeaveFragment
  PROVE  Reading'
<1>1. /\ stream \in DOMAIN streams /\ fragment \in DOMAIN Fragments /\ fragment \in Nat \ {0}
      /\ Len(Fragments) \in Nat /\ DOMAIN Fragments = 1..Len(Fragments)
      /\ Fragments[fragment].nextVcn \in Nat
  BY Streams DEF LeaveFragment, Reading, Placed, Fragments
<1>2. Counted' /\ RightBytes(streams[1].fragments)'
  BY SameBytes DEF LeaveFragment, Reading, Counted
<1>3. Placed'
  BY <1>1 DEF LeaveFragment, Reading, Placed, Fragments
<1> DEFINE first == streams[1].fragments
<1>4. stream = 1 /\ Solid(first, fragment) => Reached(first[fragment].nextVcn)
  BY <1>1 DEF LeaveFragment, Reading, InFragment, Fragments
<1>5. stream = 1 => /\ first[fragment].nextVcn * ClusterSize \in Int /\ streams[1].size \in Nat
  <2>1. stream = 1 => first[fragment].nextVcn \in Int
    BY <1>1 DEF Fragments
  <2>2. stream = 1 => streams[1].size \in Nat
    BY <1>1, Streams
  <2> QED
    BY <2>1, <2>2, ClusterBytes
<1>6. Covered'
  <2> SUFFICES ASSUME stream = 1, NEW i \in DOMAIN first, i < fragment + 1, Solid(first, i)
               PROVE  Len(content) >= streams[1].size \/ Len(content) >= first[i].nextVcn * ClusterSize
    <3>1. stream = 1 \/ stream > 1
      BY DEF Reading, Counted
    <3> QED
      BY <3>1 DEF LeaveFragment, Reading, Covered, Solid
  <2>1. CASE i < fragment
    BY <2>1 DEF LeaveFragment, Reading, Covered
  <2>2. CASE i = fragment
    BY <2>2, <1>4, <1>5 DEF Reached
  <2> QED
    BY <1>1, <2>1, <2>2 DEF Fragments
<1>7. AtFragment'
  <2> SUFFICES ASSUME stream = 1, Solid(first, fragment)
               PROVE  AtFragment'
    BY <1>1 DEF LeaveFragment, AtFragment, Solid
  <2>1. StartVcn(first, fragment + 1) = first[fragment].nextVcn
    BY <1>1 DEF StartVcn
  <2> QED
    BY <1>1, <1>4, <2>1 DEF LeaveFragment, AtFragment, Reached, Fragments, StartVcn
<1>8. InFragment' /\ Finished'
  BY DEF LeaveFragment, InFragment, Finished
<1> QED
  BY <1>2, <1>3, <1>6, <1>7, <1>8 DEF Reading
-----------------------------------------------------------------------------
(* The chunks of a fragment. *)

\* A chunk is of some clusters, and no more than are left.
LEMMA ChunkSize ==
  ASSUME clustersToRead \in Int, clustersToRead > 0
  PROVE  /\ Clusters \in Nat \ {0} /\ Clusters <= clustersToRead
         /\ Clusters * ClusterSize \in Nat \ {0}
<1>1. Clusters \in Nat \ {0} /\ Clusters <= clustersToRead
  BY ContentsAssumption DEF Clusters
<1> QED
  BY <1>1, ClusterBytes

\* Where the new bytes lie: nowhere behind a fragment that was passed, and in
\* the one that is read.
LEMMA NewBytes ==
  ASSUME streams # << >>, Ordered, Reading, pc = "chunk", clustersToRead > 0,
         NEW bytes \in Nat, bytes <= fileBytesRemaining, bytes <= Clusters * ClusterSize,
         NEW i \in DOMAIN streams[1].fragments, Solid(streams[1].fragments, i),
         NEW p \in Int,
         p >= StartVcn(streams[1].fragments, i) * ClusterSize,
         p < streams[1].fragments[i].nextVcn * ClusterSize,
         p >= Len(content), p < Len(content) + bytes
  PROVE  currentLcn * ClusterSize + p - Len(content)
           = (streams[1].fragments[i].lcn - StartVcn(streams[1].fragments, i)) * ClusterSize + p
<1> DEFINE first == streams[1].fragments
           size == streams[1].size
<1>1. /\ size \in Nat /\ Len(first) \in Nat /\ DOMAIN first = 1..Len(first) /\ i \in Nat
      /\ \A j \in DOMAIN first : first[j].lcn \in Int /\ first[j].nextVcn \in Nat /\ StartVcn(first, j) \in Nat
  BY FirstFragments
<1>2. /\ fragment \in DOMAIN Fragments /\ clustersToRead \in Int /\ currentLcn \in Int
      /\ stream \in Nat \ {0} /\ Len(content) \in Nat /\ fileBytesRemaining = size - Len(content)
      /\ fragment \in Nat
  <2>1. fragment \in DOMAIN Fragments /\ stream \in DOMAIN streams
    BY DEF Reading, Placed
  <2>2. fragment \in Nat
    BY <2>1, Streams DEF Fragments
  <2>3. Len(content) \in Nat
    BY DEF Reading, Counted
  <2> QED
    BY <1>1, <2>1, <2>2, <2>3 DEF Reading, Placed, Counted
<1>3. Len(content) < size
  BY <1>1, <1>2
<1>4. ~(stream > 1 \/ i < fragment)
  <2> SUFFICES ASSUME stream > 1 \/ i < fragment
               PROVE  FALSE
    OBVIOUS
  <2>1. Len(content) >= size \/ Len(content) >= first[i].nextVcn * ClusterSize
    BY DEF Reading, Covered
  <2>2. first[i].nextVcn \in Int
    BY <1>1
  <2>3. first[i].nextVcn * ClusterSize \in Int
    BY <2>2, ClusterBytes
  <2>4. size \in Int /\ Len(content) \in Int /\ bytes \in Int /\ p \in Int
        /\ Len(content) < size /\ p < first[i].nextVcn * ClusterSize /\ p >= Len(content)
    BY <1>1, <1>2, <1>3
  <2> HIDE DEF first, size
  <2> QED
    BY <2>1, <2>3, <2>4
<1>5. stream = 1 /\ i >= fragment /\ fragment \in DOMAIN first
  BY <1>1, <1>2, <1>4 DEF Fragments
<1>6. Solid(first, fragment)
  BY <1>1, <1>2, <1>5 DEF Solid
<1> DEFINE start == StartVcn(first, fragment)
           next == first[fragment].nextVcn
           n == next - clustersToRead
           low == StartVcn(first, i)
<1>7. /\ n >= start /\ currentLcn = first[fragment].lcn + n - start /\ Reached(n)
      /\ n \in Int /\ start \in Int /\ next \in Int /\ first[fragment].lcn \in Int
      /\ low \in Int /\ next = n + clustersToRead
  <2>1. start \in Nat /\ next \in Nat /\ first[fragment].lcn \in Int /\ low \in Nat
    BY <1>1, <1>5
  <2>2. n >= start /\ currentLcn = first[fragment].lcn + n - start /\ Reached(n)
    BY <1>5, <1>6 DEF Reading, InFragment
  <2>3. n \in Int /\ next = n + clustersToRead
    <3> HIDE DEF next
    <3> QED
      BY <1>2, <2>1
  <2> QED
    BY <2>1, <2>2, <2>3
<1> HIDE DEF start, next, n, low
<1>8. Len(content) = n * ClusterSize /\ n * ClusterSize \in Int
  <2>1. n * ClusterSize \in Int
    BY <1>7, ClusterBytes
  <2>2. Len(content) = n * ClusterSize
    BY <1>3, <1>7 DEF Reached
  <2> QED
    BY <2>1, <2>2
<1>9. p < next * ClusterSize
  <2>1. n + Clusters <= next /\ Clusters \in Int /\ n + Clusters \in Int
    BY <1>2, <1>7, ChunkSize
  <2>2. /\ (n + Clusters) * ClusterSize <= next * ClusterSize
        /\ (n + Clusters) * ClusterSize = n * ClusterSize + Clusters * ClusterSize
    BY <1>7, <2>1, ClusterOrder, ClusterSum
  <2>3. Clusters * ClusterSize \in Int /\ next * ClusterSize \in Int
    BY <1>7, <2>1, ClusterBytes
  <2> QED
    BY <1>8, <2>2, <2>3
<1>10. i = fragment
  <2> SUFFICES ASSUME i > fragment
               PROVE  FALSE
    BY <1>1, <1>2, <1>5
  <2>1. next <= low
    BY <1>2, <1>5, First, Starts DEF next, low
  <2>2. next * ClusterSize <= low * ClusterSize
    BY <1>7, <2>1, ClusterOrder
  <2>3. next * ClusterSize \in Int /\ low * ClusterSize \in Int
    BY <1>7, ClusterBytes
  <2> QED
    BY <1>9, <2>2, <2>3 DEF low
<1> HIDE DEF first, size
<1>11. currentLcn * ClusterSize = (first[fragment].lcn - start) * ClusterSize + n * ClusterSize
  <2> DEFINE shift == first[fragment].lcn - start
  <2>1. currentLcn = shift + n /\ shift \in Int
    BY <1>7
  <2> HIDE DEF shift
  <2>2. currentLcn * ClusterSize = shift * ClusterSize + n * ClusterSize
    BY <1>7, <2>1, ClusterSum
  <2> QED
    BY <2>2 DEF shift
<1>12. currentLcn * ClusterSize \in Int /\ (first[fragment].lcn - start) * ClusterSize \in Int
  <2>1. first[fragment].lcn - start \in Int
    BY <1>7
  <2> QED
    BY <1>2, <2>1, ClusterBytes
<1>13. currentLcn * ClusterSize + p - Len(content) = (first[fragment].lcn - start) * ClusterSize + p
  BY <1>8, <1>11, <1>12
<1> QED
  BY <1>10, <1>13 DEF first, start
\* A chunk that is cut at the end of the file ends the content, another one
\* fits.
LEMMA YieldStep ==
  ASSUME streams # << >>, Ordered, Reading, pc = "chunk", clustersToRead > 0,
         UNCHANGED <<streams, stream, fragment, lastVcn>>,
         NEW bytes \in Nat, Yield(bytes),
         \/ bytes = fileBytesRemaining /\ Clusters * ClusterSize > fileBytesRemaining
         \/ bytes = Clusters * ClusterSize /\ bytes <= fileBytesRemaining
  PROVE  Reading'
<1> DEFINE first == streams[1].fragments
           size == streams[1].size
           new == [i \in 1..bytes |-> currentLcn * ClusterSize + i - 1]
<1>1. /\ size \in Nat /\ Len(first) \in Nat /\ DOMAIN first = 1..Len(first)
      /\ \A j \in DOMAIN first : first[j].lcn \in Int /\ first[j].nextVcn \in Nat /\ StartVcn(first, j) \in Nat
  BY FirstFragments
<1>2. /\ fragment \in DOMAIN Fragments /\ clustersToRead \in Int /\ currentLcn \in Int
      /\ content \in Seq(Int) /\ Len(content) \in Nat
      /\ fileBytesRemaining \in Nat /\ fileBytesRemaining = size - Len(content)
  <2>1. /\ fragment \in DOMAIN Fragments /\ clustersToRead \in Int /\ currentLcn \in Int
        /\ content \in Seq(Int) /\ fileBytesRemaining \in Nat
        /\ Len(content) + fileBytesRemaining = size
    BY DEF Reading, Placed, Counted
  <2>2. Len(content) \in Nat
    BY <2>1
  <2> QED
    BY <1>1, <2>1, <2>2
<1>3. /\ Clusters \in Nat \ {0} /\ Clusters <= clustersToRead
      /\ Clusters * ClusterSize \in Nat \ {0}
  BY <1>2, ChunkSize
<1>4. bytes <= fileBytesRemaining /\ bytes <= Clusters * ClusterSize
  BY <1>2, <1>3
<1>5. /\ content' \in Seq(Int) /\ Len(content') = Len(content) + bytes
      /\ \A q \in 1..Len(content) : content'[q] = content[q]
      /\ \A q \in (Len(content) + 1)..(Len(content) + bytes) : content'[q] = new[q - Len(content)]
  <2>1. currentLcn * ClusterSize \in Int
    BY <1>2, ClusterBytes
  <2>2. new \in [1..bytes -> Int]
    BY <2>1
  <2>3. content' = content \o new
    BY DEF Yield
  <2> HIDE DEF new
  <2> QED
    BY <1>2, <2>2, <2>3, Appended
<1>6. /\ fileBytesRemaining' = fileBytesRemaining - bytes /\ pc' = pc
      /\ clustersToRead' = clustersToRead - Clusters /\ currentLcn' = currentLcn + Clusters
  BY DEF Yield
<1>7. Counted'
  <2>1. Len(content') + fileBytesRemaining' = size /\ fileBytesRemaining' \in Nat
    <3> HIDE DEF size, new
    <3> QED
      BY <1>1, <1>2, <1>4, <1>5, <1>6
  <2>2. stream \in Nat \ {0}
    BY DEF Reading, Counted
  <2>3. content' \in Seq(Int)
    BY <1>5
  <2> QED
    BY <1>6, <2>1, <2>2, <2>3 DEF Counted
<1>8. Placed'
  BY <1>2, <1>3, <1>6 DEF Reading, Placed, Fragments
<1>9. Covered'
  <2> SUFFICES ASSUME NEW i \in DOMAIN first, stream > 1 \/ i < fragment, Solid(first, i)
               PROVE  Len(content') >= size \/ Len(content') >= first[i].nextVcn * ClusterSize
    BY <1>6 DEF Covered, Solid
  <2>1. Len(content) >= size \/ Len(content) >= first[i].nextVcn * ClusterSize
    BY DEF Reading, Covered
  <2>2. first[i].nextVcn \in Int
    BY <1>1
  <2>3. first[i].nextVcn * ClusterSize \in Int
    BY <2>2, ClusterBytes
  <2>4. Len(content') \in Int /\ Len(content) \in Int /\ Len(content') >= Len(content)
    BY <1>2, <1>5
  <2> HIDE DEF first, size
  <2> QED
    BY <1>1, <2>1, <2>3, <2>4
<1>10. RightBytes(streams[1].fragments)'
  <2>1. first' = first /\ \A i : Solid(first, i)' = Solid(first, i) /\ StartVcn(first, i)' = StartVcn(first, i)
    BY DEF Solid, StartVcn
  <2> SUFFICES ASSUME NEW i \in DOMAIN first, Solid(first, i),
                      NEW p \in (StartVcn(first, i) * ClusterSize)..(first[i].nextVcn * ClusterSize - 1),
                      p < Len(content')
               PROVE  content'[p + 1] = (first[i].lcn - StartVcn(first, i)) * ClusterSize + p
    BY <2>1 DEF RightBytes
  <2>2. /\ StartVcn(first, i) \in Nat /\ first[i].nextVcn \in Int
    BY <1>1
  <2>3. /\ StartVcn(first, i) * ClusterSize \in Int /\ StartVcn(first, i) * ClusterSize >= 0
        /\ first[i].nextVcn * ClusterSize \in Int
    <3> HIDE DEF first
    <3>1. StartVcn(first, i) * ClusterSize \in Int /\ StartVcn(first, i) * ClusterSize >= 0
      BY <2>2, ClusterBytes
    <3>2. first[i].nextVcn * ClusterSize \in Int
      BY <2>2, ClusterBytes
    <3> QED
      BY <3>1, <3>2
  <2>4. /\ p \in Int /\ p >= StartVcn(first, i) * ClusterSize /\ p >= 0
        /\ p < first[i].nextVcn * ClusterSize
    BY <2>3
  <2>5. CASE p < Len(content)
    <3>1. content[p + 1] = (first[i].lcn - StartVcn(first, i)) * ClusterSize + p
      BY <2>5 DEF Reading, RightBytes
    <3>2. p + 1 \in 1..Len(content)
      BY <1>2, <2>4, <2>5
    <3> QED
      BY <1>5, <3>1, <3>2
  <2>6. CASE p >= Len(content)
    <3>1. p < Len(content) + bytes
      BY <1>5
    <3>2. currentLcn * ClusterSize + p - Len(content) = (first[i].lcn - StartVcn(first, i)) * ClusterSize + p
      BY <1>4, <2>4, <2>6, <3>1, NewBytes
    <3>3. p + 1 \in (Len(content) + 1)..(Len(content) + bytes) /\ p + 1 - Len(content) \in 1..bytes
      BY <1>2, <2>4, <2>6, <3>1
    <3>4. content'[p + 1] = currentLcn * ClusterSize + (p + 1 - Len(content)) - 1
      <4>1. \A q \in 1..bytes : new[q] = currentLcn * ClusterSize + q - 1
        OBVIOUS
      <4> HIDE DEF new
      <4>2. content'[p + 1] = new[p + 1 - Len(content)]
        BY <1>5, <3>3
      <4> QED
        BY <3>3, <4>1, <4>2
    <3>5. currentLcn * ClusterSize \in Int
      BY <1>2, ClusterBytes
    <3> QED
      BY <1>2, <2>4, <3>2, <3>4, <3>5
  <2> QED
    BY <1>2, <2>4, <2>5, <2>6
<1>11. InFragment'
  <2> SUFFICES ASSUME stream = 1, Solid(first, fragment)
               PROVE  InFragment'
    BY DEF InFragment, Solid
  <2> DEFINE start == StartVcn(first, fragment)
             next == first[fragment].nextVcn
             at == first[fragment].lcn
             n == next - clustersToRead
  <2>1. start \in Int /\ next \in Int /\ at \in Int
    BY <1>1, <1>2 DEF Fragments
  <2>2. n >= start /\ currentLcn = at + n - start /\ Reached(n)
    BY DEF Reading, InFragment
  <2>3. /\ start' = start /\ next' = next /\ at' = at /\ size' = size /\ stream' = 1
        /\ n' = next - clustersToRead'
    BY DEF StartVcn
  <2>4. n \in Int /\ (n + Clusters) * ClusterSize = n * ClusterSize + Clusters * ClusterSize
        /\ n * ClusterSize \in Int
    <3>1. n \in Int
      <4> HIDE DEF next
      <4> QED
        BY <1>2, <2>1
    <3> HIDE DEF n
    <3>2. n * ClusterSize \in Int
      BY <3>1, ClusterBytes
    <3>3. (n + Clusters) * ClusterSize = n * ClusterSize + Clusters * ClusterSize
      <4>1. Clusters \in Int
        BY <1>3
      <4> QED
        BY <3>1, <4>1, ClusterSum
    <3> QED
      BY <3>1, <3>2, <3>3
  <2>5. n' = n + Clusters
    <3> HIDE DEF next
    <3> QED
      BY <1>2, <1>3, <1>6, <2>1, <2>3
  <2> HIDE DEF start, next, at, size, first
  <2>6. n' >= start' /\ currentLcn' = at' + n' - start' /\ clustersToRead' >= 0
    BY <1>2, <1>3, <1>6, <2>1, <2>2, <2>3, <2>4, <2>5
  <2>7. Len(content) = IF n * ClusterSize <= size THEN n * ClusterSize ELSE size
    BY <2>2 DEF Reached, size
  <2> HIDE DEF n
  <2>8. Len(content') = IF (n + Clusters) * ClusterSize <= size THEN (n + Clusters) * ClusterSize ELSE size
    <3>1. /\ Len(content') = Len(content) + bytes /\ fileBytesRemaining = size - Len(content)
          /\ Len(content) \in Int /\ size \in Int /\ Clusters * ClusterSize \in Nat \ {0}
          /\ bytes \in Nat /\ fileBytesRemaining \in Nat
      BY <1>1, <1>2, <1>3, <1>5
    <3>2. \/ bytes = fileBytesRemaining /\ Clusters * ClusterSize > fileBytesRemaining
          \/ bytes = Clusters * ClusterSize /\ bytes <= fileBytesRemaining
      OBVIOUS
    <3> DEFINE here == n * ClusterSize
               more == Clusters * ClusterSize
               there == (n + Clusters) * ClusterSize
    <3>3. here \in Int /\ there = here + more
      BY <2>4
    <3>4. Len(content) = IF here <= size THEN here ELSE size
      BY <2>7
    <3> HIDE DEF here, there
    <3>5. more \in Nat \ {0}
      BY <3>1
    <3>6. \/ bytes = fileBytesRemaining /\ more > fileBytesRemaining
          \/ bytes = more /\ bytes <= fileBytesRemaining
      BY <3>2
    <3> HIDE DEF more
    <3>7. Len(content') = IF there <= size THEN there ELSE size
      <4>1. CASE here > size
        BY <3>1, <3>3, <3>4, <3>5, <3>6, <4>1
      <4>2. CASE here <= size
        BY <3>1, <3>3, <3>4, <3>5, <3>6, <4>2
      <4> QED
        BY <3>1, <3>3, <4>1, <4>2
    <3> QED
      BY <3>7 DEF there
  <2>9. Reached(n)'
    BY <2>3, <2>5, <2>8 DEF Reached, size
  <2> QED
    BY <2>6, <2>9 DEF InFragment, n, start, next, at, first
<1>12. AtFragment' /\ Finished'
  BY <1>6 DEF AtFragment, Finished
<1> QED
  BY <1>7, <1>8, <1>9, <1>10, <1>11, <1>12 DEF Reading

LEMMA ReadChunkStep ==
  ASSUME streams # << >>, Ordered, Reading, ReadChunk
  PROVE  Reading'
<1>1. /\ clustersToRead \in Int /\ clustersToRead > 0 /\ fileBytesRemaining \in Nat
      /\ pc = "chunk" /\ UNCHANGED <<streams, stream, fragment, lastVcn>>
  BY DEF ReadChunk, Reading, Placed, Counted
<1>2. Clusters * ClusterSize \in Nat
  BY <1>1, ChunkSize
<1>3. CASE Clusters * ClusterSize > fileBytesRemaining /\ Yield(fileBytesRemaining)
  BY <1>1, <1>3, YieldStep
<1>4. CASE Clusters * ClusterSize <= fileBytesRemaining /\ Yield(Clusters * ClusterSize)
  BY <1>1, <1>2, <1>4, YieldStep
<1>5. CASE pc' = "failed" /\ UNCHANGED <<content, fileBytesRemaining, streamBytesRemaining, clustersToRead, currentLcn>>
  <2>1. Counted' /\ RightBytes(streams[1].fragments)'
    BY <1>1, <1>5, SameBytes DEF Reading, Counted
  <2>2. Placed' /\ AtFragment' /\ InFragment' /\ Finished'
    BY <1>5 DEF Placed, AtFragment, InFragment, Finished
  <2>3. Covered'
    BY <1>1, <1>5 DEF Reading, Covered, Solid
  <2> QED
    BY <2>1, <2>2, <2>3 DEF Reading
<1> QED
  BY <1>3, <1>4, <1>5 DEF ReadChunk

-----------------------------------------------------------------------------
\* One step per action: those of the decoding and the first of the reading need
\* Fresh, the others Reading.
LEMMA Step ==
  ASSUME IInv, Next
  PROVE  IInv'
<1>1. CASE EnterAttribute \/ DecodeRun \/ NextAttribute
  <2>1. Fresh
    BY <1>1 DEF IInv, EnterAttribute, DecodeRun, NextAttribute
  <2> QED
    BY <1>1, <2>1, DecodingStep
<1>2. CASE BeginReading
  BY <1>2, BeginStep DEF IInv, BeginReading
<1>3. CASE \/ EnterStream \/ EndOfStreams \/ SkipFragment \/ EnterFragment
           \/ EndOfFragments \/ ReadChunk \/ ReadFails \/ LeaveFragment
  <2>1. /\ pc \notin {"attribute", "runs"} /\ pc' \notin {"attribute", "runs"}
        /\ streams' = streams
    BY <1>3 DEF EnterStream, EndOfStreams, SkipFragment, EnterFragment, EndOfFragments,
                ReadChunk, Yield, ReadFails, LeaveFragment
  <2> SUFFICES ASSUME streams # << >>, Ordered
               PROVE  Reading'
    BY <2>1 DEF IInv, Ordered
  <2>2. Reading
    BY <2>1 DEF IInv
  <2> QED
    BY <1>3, <2>2, EnterStreamStep, EndOfStreamsStep, SkipFragmentStep, EnterFragmentStep,
       EndOfFragmentsStep, ReadChunkStep, ReadFailsStep, LeaveFragmentStep
<1> QED
  BY <1>1, <1>2, <1>3 DEF Next

(* A reading yields the bytes up to where it is, or all of the file. *)
THEOREM Invariance == Spec => []IInv
<1>1. Init => IInv
  BY DEF Init, IInv, Fresh
<1>2. IInv /\ [Next]_vars => IInv'
  <2> SUFFICES ASSUME IInv, [Next]_vars PROVE IInv'
    OBVIOUS
  <2>1. CASE Next
    BY <2>1, Step
  <2>2. CASE UNCHANGED vars
    BY <2>2 DEF vars, decoder, reader, IInv, Fresh, Ordered, Reading, Counted, Placed, Fragments,
                Covered, AtFragment, InFragment, Finished, RightBytes, Reached, StartVcn, Solid
  <2> QED
    BY <2>1, <2>2
<1> QED
  BY <1>1, <1>2, PTL DEF Spec

(* Whatever is read for a file, however many fragments it has and however  *)
(* they are cut into arrays, is the file's: no byte is out of place before *)
(* the first fragment that is not on the volume, and none is missing when  *)
(* a reading ends.                                                         *)
THEOREM ContentIsExact == Spec => []ContentExact
<1>1. IInv /\ Ordered => ContentExact
  <2> SUFFICES ASSUME IInv, Ordered, streams # << >>
               PROVE  ContentExact
    BY DEF ContentExact
  <2> DEFINE first == streams[1].fragments
             size == streams[1].size
  <2>1. /\ size \in Nat /\ Len(first) \in Nat /\ DOMAIN first = 1..Len(first)
        /\ \A i \in DOMAIN first : first[i].nextVcn \in Nat /\ StartVcn(first, i) \in Nat
    BY FirstFragments
  <2>2. CASE pc \in {"attribute", "runs"}
    <3>1. content = << >> /\ Len(content) = 0
      BY <2>2 DEF IInv, Fresh
    <3>2. \A i \in DOMAIN first : StartVcn(first, i) * ClusterSize \in Int /\ StartVcn(first, i) * ClusterSize >= 0
      BY <2>1, ClusterBytes
    <3>3. \A i \in DOMAIN first : first[i].nextVcn * ClusterSize \in Int
      <4>1. \A i \in DOMAIN first : first[i].nextVcn \in Int
        BY <2>1
      <4> QED
        BY <4>1, ClusterBytes
    <3>4. \A i \in DOMAIN first :
            \A p \in (StartVcn(first, i) * ClusterSize)..(first[i].nextVcn * ClusterSize - 1) : ~(p < 0)
      BY <3>2, <3>3
    <3>5. RightBytes(first)
      BY <3>1, <3>4 DEF RightBytes
    <3> QED
      BY <2>1, <2>2, <3>1, <3>5 DEF ContentExact
  <2>3. CASE pc \notin {"attribute", "runs"}
    <3>1. Reading
      BY <2>3 DEF IInv
    <3>2. Len(content) \in Nat /\ Len(content) <= size
      <4>1. content \in Seq(Int) /\ fileBytesRemaining \in Nat /\ Len(content) + fileBytesRemaining = size
        BY <3>1 DEF Reading, Counted
      <4> QED
        BY <2>1, <4>1
    <3>3. RightBytes(first)
      BY <3>1 DEF Reading
    <3>4. ASSUME pc = "done", Solid(first, Len(first)), first # << >>, size <= first[Len(first)].nextVcn * ClusterSize
          PROVE  Len(content) = size
      <4>1. CASE size = 0
        BY <3>2, <4>1
      <4>2. CASE size > 0
        <5>1. stream > 1
          BY <3>1, <3>4, <4>2 DEF Reading, Finished
        <5>2. Len(first) \in DOMAIN first
          <6>1. Len(first) # 0
            BY <3>4, <2>1, First DEF Ordered, Stream
          <6> QED
            BY <2>1, <6>1
        <5>3. Len(content) >= size \/ Len(content) >= first[Len(first)].nextVcn * ClusterSize
          BY <3>1, <3>4, <5>1, <5>2 DEF Reading, Covered
        <5>4. first[Len(first)].nextVcn \in Int
          BY <2>1, <5>2
        <5>5. first[Len(first)].nextVcn * ClusterSize \in Int
          BY <5>4, ClusterBytes
        <5> QED
          BY <2>1, <3>2, <3>4, <5>3, <5>5
      <4> QED
        BY <2>1, <4>1, <4>2
    <3> QED
      BY <3>2, <3>3, <3>4 DEF ContentExact
  <2> QED
    BY <2>2, <2>3
<1>2. Decoding => Ordered
  BY DEF Decoding
<1> QED
  BY <1>1, <1>2, Invariance, DecodingInvariance, PTL
=============================================================================
