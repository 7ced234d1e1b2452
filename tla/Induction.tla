------------------------------ MODULE Induction ------------------------------
(***************************************************************************)
(* Induction without an operator parameter.  The provers cannot            *)
(* instantiate the library's induction theorems, which take the formula as *)
(* an operator; here it is a set of numbers, and the step of a recursive   *)
(* definition is a function.                                               *)
(***************************************************************************)
EXTENDS Integers, Sequences, SequencesExt, FiniteSetsExt, SequenceTheorems,
        WellFoundedInduction, TLAPS

-------------------------------------------------------------------------------
(* Sets of numbers.                                                        *)

LEMMA LeastNumber ==
  ASSUME NEW S \in SUBSET Nat, S # {}
  PROVE  \E n \in S : \A m \in S : n <= m
<1> DEFINE R == {ss \in Nat \X Nat : ss[1] < ss[2]}
<1>1. IsWellFoundedOn(R, Nat)
  BY NatLessThanWellFounded, Zenon DEF OpToRel
<1>2. PICK n \in S : \A m \in S : <<m, n>> \notin R
  BY <1>1, WFMin, Zenon
<1>3. \A m \in S : ~(m < n)
  BY <1>2
<1> QED BY <1>3

LEMMA NumbersFromZero ==
  ASSUME NEW S, 0 \in S, \A n \in Nat : n \in S => n + 1 \in S
  PROVE  Nat \subseteq S
<1> SUFFICES ASSUME Nat \ S # {} PROVE FALSE
  OBVIOUS
<1>1. PICK n \in Nat \ S : \A m \in Nat \ S : n <= m
  BY LeastNumber
<1>2. n # 0 /\ n - 1 \in Nat /\ ~(n <= n - 1)
  OBVIOUS
<1>3. n - 1 \in S
  BY <1>1, <1>2
<1> QED BY <1>2, <1>3

LEMMA MinOfIndices ==
  ASSUME NEW S \in SUBSET Nat, S # {}
  PROVE  Min(S) \in S /\ \A m \in S : Min(S) <= m
<1>1. \E n \in S : \A m \in S : n <= m
  BY LeastNumber
<1> QED BY <1>1, Zenon DEF Min

LEMMA MaxOfIndices ==
  ASSUME NEW n \in Nat, NEW S \in SUBSET (1..n), S # {}
  PROVE  Max(S) \in S /\ \A m \in S : m <= Max(S)
<1> DEFINE T == {k \in Nat : \E m \in S : k = n - m}
<1>1. PICK k \in T : \A l \in T : k <= l
  <2>1. T # {}
    <3>1. PICK m \in S : TRUE
      OBVIOUS
    <3>2. n - m \in Nat
      OBVIOUS
    <3> QED BY <3>2
  <2> QED BY <2>1, LeastNumber
<1>2. PICK x \in S : k = n - x
  BY <1>1
<1>3. \A m \in S : x >= m
  <2> TAKE m \in S
  <2>1. n - m \in T
    OBVIOUS
  <2> QED BY <1>1, <1>2, <2>1
<1>4. Max(S) \in S /\ \A m \in S : Max(S) >= m
  BY <1>3, Zenon DEF Max
<1> QED BY <1>4

-------------------------------------------------------------------------------
(* Recursive functions.                                                    *)

\* A function that starts with base and takes a step to each number up to n.
HasRecursion(n, A, base, step) ==
  \E f \in [0..n -> A] : f[0] = base /\ \A i \in 1..n : f[i] = step[i][f[i - 1]]

\* A recursive function over an initial segment of the numbers exists.
LEMMA RecursionExists ==
  ASSUME NEW A, NEW base \in A, NEW step \in [Nat -> [A -> A]]
  PROVE  \A n \in Nat : HasRecursion(n, A, base, step)
<1> USE DEF HasRecursion
<1> DEFINE Good(n) == HasRecursion(n, A, base, step)
           S == {n \in Nat : Good(n)}
<1>1. Good(0)
  <2> DEFINE f == [i \in 0..0 |-> base]
  <2>1. f \in [0..0 -> A] /\ f[0] = base /\ \A i \in 1..0 : f[i] = step[i][f[i - 1]]
    OBVIOUS
  <2> QED BY <2>1
<1>2. ASSUME NEW n \in Nat, Good(n) PROVE Good(n + 1)
  <2>1. PICK f \in [0..n -> A] : f[0] = base /\ \A i \in 1..n : f[i] = step[i][f[i - 1]]
    BY <1>2
  <2> DEFINE last == step[n + 1][f[n]]
             g == [i \in 0..(n + 1) |-> IF i = n + 1 THEN last ELSE f[i]]
  <2>2. last \in A
    OBVIOUS
  <2> HIDE DEF last
  <2>3. g \in [0..(n + 1) -> A]
    BY <2>1, <2>2
  <2>4. \A i \in 0..n : g[i] = f[i]
    OBVIOUS
  <2>5. g[n + 1] = last
    OBVIOUS
  <2> HIDE DEF g
  <2>6. g[n + 1] = step[n + 1][g[n]]
    BY <2>4, <2>5 DEF last
  <2>7. g[0] = base
    BY <2>1, <2>4
  <2>8. \A i \in 1..n : g[i] = step[i][g[i - 1]]
    BY <2>1, <2>4
  <2>9. \A i \in 1..(n + 1) : g[i] = step[i][g[i - 1]]
    <3> TAKE i \in 1..(n + 1)
    <3>1. CASE i = n + 1
      <4>1. i - 1 = n
        BY <3>1
      <4> QED BY <2>6, <3>1, <4>1
    <3>2. CASE i # n + 1
      <4>1. i \in 1..n
        BY <3>2
      <4> QED BY <2>8, <4>1
    <3> QED BY <3>1, <3>2
  <2>10. \E h \in [0..(n + 1) -> A] : h[0] = base /\ \A i \in 1..(n + 1) : h[i] = step[i][h[i - 1]]
    BY <2>3, <2>7, <2>9
  <2> QED BY <2>10
<1>3. Nat \subseteq S
  <2> HIDE DEF Good
  <2>1. 0 \in S /\ \A n \in Nat : n \in S => n + 1 \in S
    BY <1>1, <1>2
  <2> QED BY <2>1, NumbersFromZero
<1> QED BY <1>3

\* A function that satisfies its recursive definition.
Recursive(n, base, step, f) ==
  f = [i \in 0..n |-> IF i = 0 THEN base ELSE step[i][f[i - 1]]]

LEMMA RecursiveFunction ==
  ASSUME NEW A, NEW base \in A, NEW step \in [Nat -> [A -> A]], NEW n \in Nat
  PROVE  \E f \in [0..n -> A] : Recursive(n, base, step, f)
<1>1. HasRecursion(n, A, base, step)
  BY RecursionExists, Zenon
<1>2. PICK f \in [0..n -> A] : f[0] = base /\ \A i \in 1..n : f[i] = step[i][f[i - 1]]
  BY <1>1, Zenon DEF HasRecursion
<1> DEFINE h == [i \in 0..n |-> IF i = 0 THEN base ELSE step[i][f[i - 1]]]
<1>3. \A i \in 0..n : i # 0 => i \in 1..n
  OBVIOUS
<1>4. \A i \in 0..n : f[i] = h[i]
  BY <1>2, <1>3, Zenon
<1>5. h = [i \in 0..n |-> h[i]] /\ f = [i \in 0..n |-> f[i]]
  BY Zenon
<1>6. f = h
  <2> HIDE DEF h
  <2> QED BY <1>4, <1>5, Zenon
<1> QED BY <1>6, Zenon DEF Recursive

-------------------------------------------------------------------------------
(* FlattenSeq.                                                             *)

FlattenStep(seqs, g) ==
  [i \in 1..Len(seqs) |-> IF i = 1 THEN seqs[i] ELSE g[i-1] \o seqs[i]]

LEMMA FlatteningExists ==
  ASSUME NEW A, NEW seqs \in Seq(Seq(A)), Len(seqs) # 0
  PROVE  \E g : g = FlattenStep(seqs, g)
<1> DEFINE n == Len(seqs)
           step == [i \in Nat |-> [t \in Seq(A) |-> IF i \in 1..n THEN t \o seqs[i] ELSE t]]
<1>2. n \in Nat \ {0} /\ \A i \in 1..n : seqs[i] \in Seq(A)
  OBVIOUS
<1>3. <<>> \in Seq(A) /\ step \in [Nat -> [Seq(A) -> Seq(A)]]
  BY <1>2
<1>14. ASSUME NEW i \in 1..n, NEW t \in Seq(A) PROVE step[i][t] = t \o seqs[i]
  <2>1. i \in Nat
    BY <1>2
  <2> QED BY <2>1, Zenon
<1> HIDE DEF step, n
<1>4. PICK f \in [0..n -> Seq(A)] : f[0] = <<>> /\ \A i \in 1..n : f[i] = step[i][f[i - 1]]
  <2>1. HasRecursion(n, Seq(A), <<>>, step)
    BY <1>2, <1>3, RecursionExists, Zenon
  <2> QED BY <2>1, Zenon DEF HasRecursion
<1>5. \A i \in 1..n : i - 1 \in 0..n /\ f[i] = f[i - 1] \o seqs[i]
  <2>1. \A i \in 1..n : i - 1 \in 0..n
    BY <1>2
  <2>2. \A i \in 1..n : f[i - 1] \in Seq(A)
    BY <2>1
  <2> QED BY <1>4, <1>14, <2>1, <2>2, Zenon
<1> DEFINE g == [i \in 1..n |-> f[i]]
<1>6. \A i \in 1..n : g[i] = IF i = 1 THEN seqs[i] ELSE g[i-1] \o seqs[i]
  <2> TAKE i \in 1..n
  <2>1. CASE i = 1
    <3>0. i - 1 = 0
      BY <2>1
    <3>1. f[i] = <<>> \o seqs[i]
      BY <1>4, <1>5, <3>0, Zenon
    <3>2. <<>> \o seqs[i] = seqs[i]
      BY <1>2, ConcatEmptySeq
    <3> QED BY <2>1, <3>1, <3>2, Zenon
  <2>2. CASE i # 1
    <3>1. i - 1 \in 1..n
      BY <1>2, <2>2
    <3> QED BY <1>5, <2>2, <3>1, Zenon
  <2> QED BY <2>1, <2>2
<1>7. g = [i \in 1..n |-> IF i = 1 THEN seqs[i] ELSE g[i-1] \o seqs[i]]
  <2> DEFINE h == [i \in 1..n |-> IF i = 1 THEN seqs[i] ELSE g[i-1] \o seqs[i]]
  <2>1. \A i \in 1..n : f[i] = h[i]
    BY <1>6, Zenon
  <2>2. DOMAIN h = 1..n
    OBVIOUS
  <2> HIDE DEF h
  <2>3. h = [i \in 1..n |-> h[i]]
    BY DEF h
  <2>4. g = h
    BY <2>1, <2>3, Zenon
  <2> QED BY <2>4 DEF h
<1> QED BY <1>7, Zenon DEF FlattenStep, n

LEMMA Flattening ==
  ASSUME NEW A, NEW seqs \in Seq(Seq(A)), Len(seqs) # 0
  PROVE  \E g \in [1..Len(seqs) -> Seq(A)] :
           /\ g[1] = seqs[1]
           /\ \A i \in 2..Len(seqs) : g[i] = g[i - 1] \o seqs[i]
           /\ FlattenSeq(seqs) = g[Len(seqs)]
<1> DEFINE n == Len(seqs)
           flatten == CHOOSE g : g = FlattenStep(seqs, g)
<1>1. FlattenSeq(seqs) = flatten[n]
  BY Zenon DEF FlattenSeq, FlattenStep
<1>2. n \in Nat \ {0} /\ \A i \in 1..n : seqs[i] \in Seq(A)
  OBVIOUS
<1>3. flatten = FlattenStep(seqs, flatten)
  BY FlatteningExists, Zenon
<1> HIDE DEF flatten, n
<1>4. flatten = [i \in 1..n |-> IF i = 1 THEN seqs[i] ELSE flatten[i-1] \o seqs[i]]
  BY <1>3, Zenon DEF FlattenStep, n
<1>5. \A i \in 1..n : flatten[i] = IF i = 1 THEN seqs[i] ELSE flatten[i-1] \o seqs[i]
  BY <1>4, Zenon
<1>6. flatten[1] = seqs[1] /\ \A i \in 2..n : flatten[i] = flatten[i - 1] \o seqs[i]
  <2>1. 1 \in 1..n /\ \A i \in 2..n : i \in 1..n /\ i # 1
    BY <1>2
  <2> QED BY <1>5, <2>1, Zenon
<1>7. \A i \in 1..n : flatten[i] \in Seq(A)
  <2> DEFINE S == {k \in Nat : k + 1 \in 1..n => flatten[k + 1] \in Seq(A)}
  <2>1. 0 \in S
    BY <1>2, <1>6
  <2>2. ASSUME NEW k \in Nat, k \in S PROVE k + 1 \in S
    <3> DEFINE j == k + 1
    <3> SUFFICES ASSUME j + 1 \in 1..n PROVE flatten[j + 1] \in Seq(A)
      OBVIOUS
    <3>1. j \in 1..n /\ j + 1 \in 2..n /\ (j + 1) - 1 = j
      BY <1>2
    <3>2. flatten[j] \in Seq(A) /\ seqs[j + 1] \in Seq(A)
      BY <1>2, <2>2, <3>1
    <3> HIDE DEF j
    <3>3. flatten[j + 1] = flatten[j] \o seqs[j + 1]
      BY <1>6, <3>1
    <3> QED BY <3>2, <3>3
  <2>3. Nat \subseteq S
    <3> HIDE DEF S
    <3> QED BY <2>1, <2>2, NumbersFromZero
  <2> TAKE i \in 1..n
  <2>4. i - 1 \in Nat /\ (i - 1) + 1 = i
    BY <1>2
  <2>5. i - 1 \in S
    BY <2>3, <2>4
  <2> QED BY <2>4, <2>5
<1>8. flatten \in [1..n -> Seq(A)]
  BY <1>4, <1>7, Zenon
<1> QED BY <1>1, <1>6, <1>8, Zenon DEF n

\* The sequence so far, after each of the sequences, from none of them on.
LEMMA FlattenedByOne ==
  ASSUME NEW A, NEW seqs \in Seq(Seq(A))
  PROVE  \E h \in [0..Len(seqs) -> Seq(A)] :
           /\ h[0] = <<>>
           /\ \A i \in 1..Len(seqs) : h[i] = h[i - 1] \o seqs[i]
           /\ FlattenSeq(seqs) = h[Len(seqs)]
<1> DEFINE n == Len(seqs)
<1>1. n \in Nat /\ <<>> \in Seq(A) /\ \A i \in 1..n : seqs[i] \in Seq(A)
  OBVIOUS
<1>2. CASE n = 0
  <2> DEFINE h == [i \in 0..n |-> <<>>]
  <2>1. FlattenSeq(seqs) = seqs
    BY <1>2, Zenon DEF FlattenSeq
  <2>2. seqs = <<>> /\ h \in [0..n -> Seq(A)] /\ h[0] = <<>> /\ h[n] = <<>>
    BY <1>1, <1>2
  <2>3. \A i \in 1..n : h[i] = h[i - 1] \o seqs[i]
    BY <1>2
  <2> QED BY <2>1, <2>2, <2>3
<1>3. CASE n # 0
  <2>1. PICK g \in [1..n -> Seq(A)] :
          /\ g[1] = seqs[1]
          /\ \A i \in 2..n : g[i] = g[i - 1] \o seqs[i]
          /\ FlattenSeq(seqs) = g[n]
    BY <1>3, Flattening
  <2> DEFINE h == [i \in 0..n |-> IF i = 0 THEN <<>> ELSE g[i]]
  <2> HIDE DEF n
  <2>2. \A i \in 0..n : i # 0 => i \in 1..n
    BY <1>1
  <2>3. \A i \in 0..n : h[i] \in Seq(A)
    BY <1>1, <2>1, <2>2, Zenon
  <2>4. h \in [0..n -> Seq(A)]
    BY <2>3, Zenon
  <2>5. h[0] = <<>> /\ \A i \in 1..n : h[i] = g[i]
    BY <1>1
  <2> HIDE DEF h
  <2>6. ASSUME NEW i \in 1..n PROVE h[i] = h[i - 1] \o seqs[i]
    <3>1. CASE i = 1
      <4>1. h[i] = seqs[1] /\ i - 1 = 0
        BY <2>1, <2>5, <3>1
      <4>2. <<>> \o seqs[1] = seqs[1]
        BY <1>1, <3>1, ConcatEmptySeq
      <4> QED BY <2>5, <3>1, <4>1, <4>2
    <3>2. CASE i # 1
      <4>1. i \in 2..n /\ i - 1 \in 1..n
        BY <1>1, <3>2
      <4> QED BY <2>1, <2>5, <4>1
    <3> QED BY <3>1, <3>2
  <2>7. FlattenSeq(seqs) = h[n]
    <3>1. n \in 1..n
      BY <1>1, <1>3
    <3> QED BY <2>1, <2>5, <3>1
  <2> QED BY <2>4, <2>5, <2>6, <2>7 DEF n
<1> QED BY <1>2, <1>3

LEMMA LongerByConcat ==
  ASSUME NEW A, NEW s \in Seq(A), NEW t \in Seq(A)
  PROVE  /\ Len(s) <= Len(s \o t)
         /\ \A j \in 1..Len(s) : j \in 1..Len(s \o t) /\ (s \o t)[j] = s[j]
<1>1. Len(s) \in Nat /\ Len(t) \in Nat /\ Len(s \o t) = Len(s) + Len(t)
  OBVIOUS
<1>2. \A j \in 1..Len(s) : (s \o t)[j] = s[j]
  OBVIOUS
<1> QED BY <1>1, <1>2

\* t starts as s.
StartsAs(t, s) == Len(s) <= Len(t) /\ \A j \in 1..Len(s) : t[j] = s[j]

\* What is there after some of the sequences stays in its place.
LEMMA FlattenedPrefix ==
  ASSUME NEW A, NEW n \in Nat, NEW seqs \in [1..n -> Seq(A)], NEW h \in [0..n -> Seq(A)],
         \A i \in 1..n : h[i] = h[i - 1] \o seqs[i]
  PROVE  \A i \in 0..n : StartsAs(h[n], h[i])
<1> USE DEF StartsAs
<1> DEFINE P(i) == StartsAs(h[n], h[i])
           S == {k \in Nat : n - k \in 0..n => P(n - k)}
<1>1. 0 \in S
  OBVIOUS
<1>2. ASSUME NEW k \in Nat, k \in S, n - (k + 1) \in 0..n PROVE P(n - (k + 1))
  <2> DEFINE i == n - k
  <2>1. i \in 1..n /\ n - (k + 1) = i - 1 /\ i - 1 \in 0..n /\ i \in 0..n
    BY <1>2
  <2>2. P(i)
    BY <1>2, <2>1
  <2> HIDE DEF i
  <2>3. h[i - 1] \in Seq(A) /\ seqs[i] \in Seq(A) /\ h[i] = h[i - 1] \o seqs[i]
    BY <2>1
  <2>4. /\ Len(h[i - 1]) <= Len(h[i])
        /\ \A j \in 1..Len(h[i - 1]) : j \in 1..Len(h[i]) /\ h[i][j] = h[i - 1][j]
    <3> DEFINE a == h[i - 1]
               b == seqs[i]
               c == h[i]
    <3>1. a \in Seq(A) /\ b \in Seq(A) /\ c = a \o b
      BY <2>3
    <3> HIDE DEF a, b, c
    <3>2. /\ Len(a) <= Len(c)
          /\ \A j \in 1..Len(a) : j \in 1..Len(c) /\ c[j] = a[j]
      BY <3>1, LongerByConcat
    <3> QED BY <3>2, Zenon DEF a, c
  <2>5. Len(h[i - 1]) \in Nat /\ Len(h[i]) \in Nat /\ Len(h[n]) \in Nat
    BY <2>1
  <2>6. P(i - 1)
    BY <2>2, <2>4, <2>5
  <2> QED BY <2>1, <2>6
<1>3. Nat \subseteq S
  <2> HIDE DEF P
  <2>1. \A k \in Nat : k \in S => k + 1 \in S
    BY <1>2
  <2> HIDE DEF S
  <2> QED BY <1>1, <2>1, NumbersFromZero
<1>4. ASSUME NEW i \in 0..n PROVE P(i)
  <2> HIDE DEF P
  <2>1. n - i \in Nat /\ n - (n - i) = i
    OBVIOUS
  <2>2. n - i \in S
    BY <1>3, <2>1
  <2> QED BY <2>1, <2>2
<1> QED BY <1>4

LEMMA FlattenedType ==
  ASSUME NEW A, NEW seqs \in Seq(Seq(A))
  PROVE  FlattenSeq(seqs) \in Seq(A)
<1>1. CASE Len(seqs) = 0
  <2>1. FlattenSeq(seqs) = seqs
    BY <1>1, Zenon DEF FlattenSeq
  <2>2. seqs = <<>>
    BY <1>1
  <2> QED BY <2>1, <2>2
<1>2. CASE Len(seqs) # 0
  <2>1. PICK g \in [1..Len(seqs) -> Seq(A)] : FlattenSeq(seqs) = g[Len(seqs)]
    BY <1>2, Flattening, Zenon
  <2>2. Len(seqs) \in 1..Len(seqs)
    BY <1>2
  <2> QED BY <2>1, <2>2, Zenon
<1> QED BY <1>1, <1>2

\* One sequence more.
LEMMA FlattenAppend ==
  ASSUME NEW A, NEW seqs \in Seq(Seq(A)), NEW t \in Seq(A)
  PROVE  FlattenSeq(Append(seqs, t)) = FlattenSeq(seqs) \o t
<1> DEFINE n == Len(seqs)
           longer == Append(seqs, t)
<1>1. /\ n \in Nat /\ longer \in Seq(Seq(A)) /\ Len(longer) = n + 1
      /\ longer[n + 1] = t /\ \A i \in 1..n : longer[i] = seqs[i]
  OBVIOUS
<1> HIDE DEF n, longer
<1>2. PICK h \in [0..n -> Seq(A)] :
        /\ h[0] = <<>>
        /\ \A i \in 1..n : h[i] = h[i - 1] \o seqs[i]
        /\ FlattenSeq(seqs) = h[n]
  BY FlattenedByOne DEF n
<1>3. PICK g \in [0..(n + 1) -> Seq(A)] :
        /\ g[0] = <<>>
        /\ \A i \in 1..(n + 1) : g[i] = g[i - 1] \o longer[i]
        /\ FlattenSeq(longer) = g[n + 1]
  <2>1. \E g \in [0..Len(longer) -> Seq(A)] :
          /\ g[0] = <<>>
          /\ \A i \in 1..Len(longer) : g[i] = g[i - 1] \o longer[i]
          /\ FlattenSeq(longer) = g[Len(longer)]
    BY <1>1, FlattenedByOne, Zenon
  <2> QED BY <1>1, <2>1, Zenon
<1> DEFINE S == {k \in Nat : k \in 0..n => g[k] = h[k]}
<1>4. 0 \in S
  BY <1>2, <1>3
<1>5. ASSUME NEW k \in Nat, k \in S, k + 1 \in 0..n PROVE g[k + 1] = h[k + 1]
  <2> DEFINE i == k + 1
  <2>1. i \in 1..n /\ i \in 1..(n + 1) /\ i - 1 = k /\ k \in 0..n
    BY <1>1, <1>5
  <2>2. g[k] = h[k]
    BY <1>5, <2>1
  <2> HIDE DEF i
  <2>3. g[i] = g[k] \o longer[i] /\ h[i] = h[k] \o seqs[i]
    BY <1>2, <1>3, <2>1, Zenon
  <2>4. longer[i] = seqs[i]
    BY <1>1, <2>1
  <2> QED BY <2>2, <2>3, <2>4, Zenon DEF i
<1>6. \A k \in Nat : k \in S => k + 1 \in S
  BY <1>5
<1>7. n \in S
  <2> HIDE DEF S
  <2> QED BY <1>1, <1>4, <1>6, NumbersFromZero
<1>8. n \in 0..n /\ n + 1 \in 1..(n + 1) /\ (n + 1) - 1 = n
  BY <1>1
<1>9. g[n] = h[n]
  BY <1>7, <1>8
<1>10. g[n + 1] = g[n] \o longer[n + 1]
  BY <1>3, <1>8, Zenon
<1> QED BY <1>1, <1>2, <1>3, <1>9, <1>10, Zenon DEF longer

-------------------------------------------------------------------------------
(* Sequences, one element at a time.                                       *)

LEMMA SequencesFromEmpty ==
  ASSUME NEW A, NEW S, <<>> \in S,
         \A s \in Seq(A), a \in A : s \in S => Append(s, a) \in S
  PROVE  Seq(A) \subseteq S
<1> DEFINE P(n) == \A s \in Seq(A) : Len(s) = n => s \in S
           N == {n \in Nat : P(n)}
<1>1. 0 \in N
  <2>1. \A s \in Seq(A) : Len(s) = 0 => s = <<>>
    OBVIOUS
  <2> QED BY <2>1
<1>2. ASSUME NEW n \in Nat, P(n) PROVE P(n + 1)
  <2> SUFFICES ASSUME NEW s \in Seq(A), Len(s) = n + 1 PROVE s \in S
    OBVIOUS
  <2> DEFINE t == SubSeq(s, 1, n)
             a == s[n + 1]
  <2>1. t \in Seq(A) /\ Len(t) = n /\ a \in A
    OBVIOUS
  <2>2. s = Append(t, a)
    OBVIOUS
  <2> HIDE DEF t, a
  <2>3. t \in S
    BY <1>2, <2>1
  <2>4. Append(t, a) \in S
    BY <2>1, <2>3
  <2> QED BY <2>2, <2>4
<1>3. Nat \subseteq N
  <2> HIDE DEF P
  <2>1. \A n \in Nat : n \in N => n + 1 \in N
    BY <1>2
  <2> HIDE DEF N
  <2> QED BY <1>1, <2>1, NumbersFromZero, Zenon
<1>4. ASSUME NEW s \in Seq(A) PROVE s \in S
  <2>1. Len(s) \in Nat
    OBVIOUS
  <2>2. Len(s) \in N
    BY <1>3, <2>1
  <2> QED BY <2>2
<1> QED BY <1>4

LEMMA IndicesFromZero ==
  ASSUME NEW n \in Nat, NEW S, 0 \in S, \A i \in 1..n : i - 1 \in S => i \in S
  PROVE  0..n \subseteq S
<1> DEFINE T == {k \in Nat : k \in 0..n => k \in S}
<1>1. ASSUME NEW k \in Nat, k \in T PROVE k + 1 \in T
  <2>1. k + 1 \in 0..n => k \in S /\ k + 1 \in 1..n /\ (k + 1) - 1 = k
    BY <1>1
  <2> QED BY <2>1
<1>2. 0 \in T
  OBVIOUS
<1>3. Nat \subseteq T
  <2> HIDE DEF T
  <2> QED BY <1>1, <1>2, NumbersFromZero, Zenon
<1> QED BY <1>3

\* A recursive function over the elements of a sequence exists.
LEMMA FunctionByOne ==
  ASSUME NEW A, NEW n \in Nat, NEW base \in A, NEW step \in [1..n -> [A -> A]]
  PROVE  \E f \in [0..n -> A] : Recursive(n, base, step, f)
<1> DEFINE more == [i \in Nat |-> [a \in A |-> IF i \in 1..n THEN step[i][a] ELSE a]]
<1>1. more \in [Nat -> [A -> A]]
  OBVIOUS
<1>2. ASSUME NEW i \in 1..n PROVE more[i] = step[i]
  <2>1. i \in Nat
    OBVIOUS
  <2>2. more[i] = [a \in A |-> step[i][a]]
    BY <2>1
  <2> QED BY <2>2
<1> HIDE DEF more
<1>3. PICK f \in [0..n -> A] : Recursive(n, base, more, f)
  BY <1>1, RecursiveFunction, Zenon
<1>4. \A i \in 0..n : i # 0 => i \in 1..n
  OBVIOUS
<1>5. [i \in 0..n |-> IF i = 0 THEN base ELSE more[i][f[i - 1]]]
        = [i \in 0..n |-> IF i = 0 THEN base ELSE step[i][f[i - 1]]]
  BY <1>2, <1>4, Zenon
<1> QED BY <1>3, <1>5, Zenon DEF Recursive
===============================================================================
