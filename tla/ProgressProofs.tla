---------------------------- MODULE ProgressProofs ----------------------------
(***************************************************************************)
(* What the worker makes of demucs' stderr, for every output, every way to *)
(* cut it into pieces, and every choice of the limits.                     *)
(***************************************************************************)
EXTENDS ProgressProperties, Induction, FiniteSetTheorems

-------------------------------------------------------------------------------
(* Lengths in bytes.                                                       *)

OffsetsStep(s, g) ==
  [i \in 0..Len(s) |-> IF i = 0 THEN 0 ELSE g[i - 1] + Width(s[i])]

LEMMA Widths == \A c : Width(c) \in 1..3
BY DEF Width

LEMMA OffsetsExist ==
  ASSUME NEW A, NEW s \in Seq(A)
  PROVE  \E g : g = OffsetsStep(s, g)
<1> DEFINE n == Len(s)
           step == [i \in 1..n |-> [k \in Nat |-> k + Width(s[i])]]
<1>1. n \in Nat /\ \A i \in 0..n : i # 0 => i \in 1..n /\ i - 1 \in 0..n
  OBVIOUS
<1>2. step \in [1..n -> [Nat -> Nat]]
  <2>1. \A i \in 1..n, k \in Nat : k + Width(s[i]) \in Nat
    BY Widths
  <2> QED BY <2>1, Zenon
<1>3. \A i \in 1..n, k \in Nat : step[i][k] = k + Width(s[i])
  BY Zenon
<1> HIDE DEF n, step
<1>4. PICK f \in [0..n -> Nat] : Recursive(n, 0, step, f)
  <2>1. 0 \in Nat
    OBVIOUS
  <2> QED BY <1>1, <1>2, <2>1, FunctionByOne, Zenon
<1>5. \A i \in 0..n : i # 0 => step[i][f[i - 1]] = f[i - 1] + Width(s[i])
  BY <1>1, <1>3, Zenon
<1>6. [i \in 0..n |-> IF i = 0 THEN 0 ELSE step[i][f[i - 1]]] = OffsetsStep(s, f)
  BY <1>5, Zenon DEF OffsetsStep, n
<1> QED BY <1>4, <1>6, Zenon DEF Recursive

LEMMA OffsetsRead ==
  ASSUME NEW A, NEW s \in Seq(A)
  PROVE  /\ Offsets(s) \in [0..Len(s) -> Nat]
         /\ Offsets(s)[0] = 0
         /\ \A i \in 1..Len(s) : Offsets(s)[i] = Offsets(s)[i - 1] + Width(s[i])
<1> DEFINE e == CHOOSE g : g = OffsetsStep(s, g)
           n == Len(s)
<1>1. Offsets(s) = e
  BY Zenon DEF Offsets, OffsetsStep
<1>2. e = OffsetsStep(s, e)
  BY OffsetsExist, Zenon
<1> HIDE DEF e
<1>3. n \in Nat /\ 0 \in 0..n /\ \A i \in 1..n : i \in 0..n /\ i # 0
  OBVIOUS
<1>4. e = [i \in 0..n |-> IF i = 0 THEN 0 ELSE e[i - 1] + Width(s[i])]
  BY <1>2, Zenon DEF OffsetsStep
<1>5. e[0] = 0 /\ \A i \in 1..n : e[i] = e[i - 1] + Width(s[i])
  BY <1>3, <1>4, Zenon
<1> DEFINE S == {k \in 0..n : e[k] \in Nat}
<1>6. 0..n \subseteq S
  <2>1. 0 \in S
    BY <1>3, <1>5
  <2>2. ASSUME NEW i \in 1..n, i - 1 \in S PROVE i \in S
    <3>1. e[i] = e[i - 1] + Width(s[i]) /\ i \in 0..n
      BY <1>3, <1>5
    <3> QED BY <2>2, <3>1, Widths
  <2> HIDE DEF S, n
  <2> QED BY <1>3, <2>1, <2>2, IndicesFromZero, Zenon
<1>7. \A i \in 0..n : e[i] \in Nat
  BY <1>6
<1>8. e \in [0..n -> Nat]
  BY <1>4, <1>7, Zenon
<1> QED BY <1>1, <1>5, <1>8, Zenon DEF n

LEMMA BytesIsNumber ==
  ASSUME NEW A, NEW s \in Seq(A)
  PROVE  Bytes(s) \in Nat
<1>1. Offsets(s) \in [0..Len(s) -> Nat]
  BY OffsetsRead, Zenon
<1>2. Len(s) \in 0..Len(s)
  OBVIOUS
<1> QED BY <1>1, <1>2, Zenon DEF Bytes

LEMMA OffsetsIncrease ==
  ASSUME NEW A, NEW s \in Seq(A), NEW i \in 0..Len(s), NEW j \in 0..Len(s), i < j
  PROVE  Offsets(s)[i] < Offsets(s)[j]
<1> DEFINE n == Len(s)
           o == Offsets(s)
           S == {k \in 0..n : i < k => o[i] < o[k]}
<1>1. /\ n \in Nat /\ o \in [0..n -> Nat]
      /\ \A k \in 1..n : o[k] = o[k - 1] + Width(s[k])
  BY OffsetsRead
<1> HIDE DEF n, o
<1>2. i \in 0..n /\ j \in 0..n
  BY DEF n
<1>3. 0 \in S
  BY <1>1, <1>2
<1>4. ASSUME NEW k \in 1..n, k - 1 \in S PROVE k \in S
  <2>1. o[k] = o[k - 1] + Width(s[k]) /\ o[k - 1] \in Nat /\ k \in 0..n
    BY <1>1
  <2>2. o[k - 1] < o[k]
    BY <2>1, Widths
  <2>3. o[i] \in Nat /\ o[k] \in Nat
    BY <1>1, <1>2, <2>1
  <2>4. i < k => i = k - 1 \/ i < k - 1
    BY <1>1, <1>2
  <2>5. i < k => o[i] < o[k]
    BY <1>4, <2>1, <2>2, <2>3, <2>4
  <2> QED BY <2>1, <2>5
<1>5. 0..n \subseteq S
  <2> HIDE DEF S
  <2> QED BY <1>1, <1>3, <1>4, IndicesFromZero, Zenon
<1> QED BY <1>2, <1>5 DEF o

\* t is what s has after k characters.
PartOf(t, s, k) == k + Len(t) <= Len(s) /\ \A i \in 1..Len(t) : t[i] = s[k + i]

LEMMA OffsetsOfPart ==
  ASSUME NEW A, NEW s \in Seq(A), NEW B, NEW t \in Seq(B), NEW k \in Nat,
         PartOf(t, s, k)
  PROVE  \A i \in 0..Len(t) : Offsets(s)[k + i] = Offsets(s)[k] + Offsets(t)[i]
<1> DEFINE n == Len(t)
           o == Offsets(s)
           p == Offsets(t)
           S == {i \in 0..n : o[k + i] = o[k] + p[i]}
<1>1. /\ n \in Nat /\ Len(s) \in Nat /\ o \in [0..Len(s) -> Nat] /\ p \in [0..n -> Nat]
      /\ \A i \in 1..Len(s) : o[i] = o[i - 1] + Width(s[i])
      /\ p[0] = 0 /\ \A i \in 1..n : p[i] = p[i - 1] + Width(t[i])
  BY OffsetsRead
<1>0. k + n <= Len(s) /\ n \in Nat /\ Len(s) \in Nat
  BY DEF PartOf
<1>a. \A i \in 1..n : t[i] = s[k + i]
  BY Zenon DEF PartOf
<1> HIDE DEF n, o, p
<1>2. 0 \in S
  <2>1. k + 0 = k /\ k \in 0..Len(s)
    BY <1>0, <1>1
  <2>2. o[k] \in Nat
    BY <1>1, <2>1
  <2> QED BY <1>1, <2>1, <2>2
<1>3. ASSUME NEW i \in 1..n, i - 1 \in S PROVE i \in S
  <2>1. k + i \in 1..Len(s) /\ (k + i) - 1 = k + (i - 1) /\ i \in 0..n /\ i - 1 \in 0..n
        /\ k \in 0..Len(s)
    BY <1>0
  <2>2. o[k + i] = o[k + (i - 1)] + Width(s[k + i])
    BY <1>1, <2>1, Zenon
  <2>3. p[i] = p[i - 1] + Width(s[k + i])
    BY <1>a, <1>1, Zenon
  <2>4. o[k + (i - 1)] = o[k] + p[i - 1]
    BY <1>3
  <2>5. o[k] \in Nat /\ p[i - 1] \in Nat /\ Width(s[k + i]) \in Nat
    <3>1. o[k] \in Nat /\ p[i - 1] \in Nat
      BY <1>1, <2>1, Zenon
    <3>2. Width(s[k + i]) \in 1..3
      BY Widths, Zenon
    <3> QED BY <3>1, <3>2
  <2>6. o[k + i] = o[k] + p[i]
    BY <2>2, <2>3, <2>4, <2>5
  <2> QED BY <2>1, <2>6
<1>4. 0..n \subseteq S
  <2> HIDE DEF S
  <2> QED BY <1>1, <1>2, <1>3, IndicesFromZero, Zenon
<1>5. \A i \in 0..n : o[k + i] = o[k] + p[i]
  BY <1>4
<1> QED BY <1>5, Zenon DEF n, o, p

\* What comes after the first k characters.
Ending(s, k) == SubSeq(s, k + 1, Len(s))

LEMMA EndingIs ==
  ASSUME NEW A, NEW s \in Seq(A), NEW k \in 0..Len(s)
  PROVE  /\ Ending(s, k) \in Seq(A) /\ Len(Ending(s, k)) = Len(s) - k
         /\ \A i \in 1..(Len(s) - k) : Ending(s, k)[i] = s[k + i]
<1>1. Len(s) \in Nat /\ \A i \in (k + 1)..Len(s) : s[i] \in A
  OBVIOUS
<1>2. /\ SubSeq(s, k + 1, Len(s)) \in Seq(A)
      /\ Len(SubSeq(s, k + 1, Len(s))) = Len(s) - k
      /\ \A i \in 1..(Len(s) - k) : SubSeq(s, k + 1, Len(s))[i] = s[k + i]
  OBVIOUS
<1> QED BY <1>2, Zenon DEF Ending

LEMMA OffsetsOfEnding ==
  ASSUME NEW A, NEW s \in Seq(A), NEW k \in 0..Len(s)
  PROVE  /\ \A i \in 0..(Len(s) - k) :
              Offsets(s)[k + i] = Offsets(s)[k] + Offsets(Ending(s, k))[i]
         /\ Bytes(s) = Offsets(s)[k] + Bytes(Ending(s, k))
<1> DEFINE t == Ending(s, k)
           n == Len(s)
<1>1. t \in Seq(A) /\ Len(t) = n - k /\ \A i \in 1..(n - k) : t[i] = s[k + i]
  BY EndingIs, Zenon
<1>2. n \in Nat /\ k \in 0..n
  OBVIOUS
<1> HIDE DEF t, n
<1>3. k \in Nat /\ k + (n - k) = n /\ k + Len(t) <= n /\ n - k \in 0..(n - k)
  BY <1>1, <1>2
<1>4. \A i \in 0..(n - k) : Offsets(s)[k + i] = Offsets(s)[k] + Offsets(t)[i]
  <2>1. PartOf(t, s, k)
    BY <1>1, <1>3, Zenon DEF PartOf, n
  <2>2. \A i \in 0..Len(t) : Offsets(s)[k + i] = Offsets(s)[k] + Offsets(t)[i]
    <3>1. s \in Seq(A) /\ t \in Seq(A) /\ k \in Nat
      BY <1>1, <1>3
    <3> QED BY <2>1, <3>1, OffsetsOfPart
  <2> QED BY <1>1, <2>2, Zenon
<1>5. Offsets(s)[n] = Offsets(s)[k] + Offsets(t)[n - k]
  BY <1>3, <1>4, Zenon
<1> QED BY <1>1, <1>4, <1>5, Zenon DEF Bytes, n, t

\* What comes after the first k characters has at most n bytes.
Fits(s, n, k) == Bytes(s) - Offsets(s)[k] <= n

LongestFit(s, n, k) ==
  k \in 0..Len(s) /\ Fits(s, n, k) /\ \A i \in 0..Len(s) : Fits(s, n, i) => k <= i

\* tail keeps as many characters as fit.
LEMMA TailIs ==
  ASSUME NEW A, NEW s \in Seq(A), NEW n \in Nat
  PROVE  \E k \in 0..Len(s) : LongestFit(s, n, k) /\ TailOf(s, n) = Ending(s, k)
<1> DEFINE l == Len(s)
           o == Offsets(s)
<1>1. l \in Nat /\ 0 \in 0..l /\ l \in 0..l
  OBVIOUS
<1>2. o \in [0..l -> Nat] /\ o[0] = 0 /\ Bytes(s) = o[l]
  <2>1. Bytes(s) = o[l]
    BY Zenon DEF Bytes
  <2> QED BY <2>1, OffsetsRead
<1>3. Bytes(s) \in Nat
  BY BytesIsNumber
<1> HIDE DEF l, o
<1>4. CASE Bytes(s) <= n
  <2>1. TailOf(s, n) = s
    BY <1>4, Zenon DEF TailOf
  <2>2. s = Ending(s, 0)
    BY DEF Ending
  <2>3. Fits(s, n, 0)
    BY <1>2, <1>3, <1>4 DEF Fits, o
  <2>4. \A i \in 0..l : 0 <= i
    BY <1>1
  <2>5. LongestFit(s, n, 0)
    BY <1>1, <2>3, <2>4, Zenon DEF LongestFit, l
  <2> QED BY <1>1, <2>1, <2>2, <2>5, Zenon DEF l
<1>5. CASE ~(Bytes(s) <= n)
  <2> DEFINE M == {i \in DOMAIN o : o[i] >= Bytes(s) - n}
             k == Min(M)
  <2>1. TailOf(s, n) = SubSeq(s, 1 + k, l)
    BY <1>5, Zenon DEF TailOf, FromByte, o, l
  <2>2. DOMAIN o = 0..l /\ M \in SUBSET Nat
    BY <1>1, <1>2
  <2>3. l \in M
    BY <1>1, <1>2, <1>3, <2>2
  <2>4. k \in M /\ \A i \in M : k <= i
    <3> HIDE DEF M
    <3> QED BY <2>2, <2>3, MinOfIndices
  <2>5. \A i \in 0..l : i \in M <=> Fits(s, n, i)
    <3> TAKE i \in 0..l
    <3>1. o[i] \in Nat
      BY <1>2
    <3>2. o[i] >= Bytes(s) - n <=> Bytes(s) - o[i] <= n
      BY <1>3, <3>1
    <3> QED BY <2>2, <3>2, Zenon DEF Fits, o
  <2>6. k \in 0..l
    BY <2>2, <2>4
  <2> HIDE DEF M, k
  <2>7. LongestFit(s, n, k)
    BY <2>4, <2>5, <2>6, Zenon DEF LongestFit, l
  <2>8. 1 + k = k + 1
    BY <2>6
  <2>9. TailOf(s, n) = Ending(s, k)
    BY <2>1, <2>8, Zenon DEF Ending, l
  <2> QED BY <2>6, <2>7, <2>9, Zenon DEF l
<1> QED BY <1>4, <1>5

LEMMA TailFits ==
  ASSUME NEW A, NEW s \in Seq(A), NEW n \in Nat
  PROVE  TailOf(s, n) \in Seq(A) /\ Bytes(TailOf(s, n)) \in 0..n
<1>1. PICK k \in 0..Len(s) : LongestFit(s, n, k) /\ TailOf(s, n) = Ending(s, k)
  BY TailIs, Zenon
<1>2. /\ Ending(s, k) \in Seq(A)
      /\ Bytes(s) = Offsets(s)[k] + Bytes(Ending(s, k))
  BY EndingIs, OffsetsOfEnding, Zenon
<1>3. Offsets(s)[k] \in Nat
  BY OffsetsRead
<1>4. Bytes(Ending(s, k)) \in Nat
  BY <1>2, BytesIsNumber, Zenon
<1>5. Bytes(s) - Offsets(s)[k] <= n
  BY <1>1, Zenon DEF LongestFit, Fits
<1>6. Bytes(Ending(s, k)) \in 0..n
  BY <1>2, <1>3, <1>4, <1>5
<1> QED BY <1>1, <1>2, <1>6, Zenon

\* t is an ending of s, and every ending of at most n bytes is in it.
Covers(t, s, n) ==
  \E k \in 0..Len(s) :
    t = Ending(s, k) /\ \A i \in 0..Len(s) : Fits(s, n, i) => k <= i

LEMMA CoversTail ==
  ASSUME NEW A, NEW s \in Seq(A), NEW n \in Nat
  PROVE  Covers(s, s, n) /\ Covers(TailOf(s, n), s, n)
<1>1. s = Ending(s, 0) /\ 0 \in 0..Len(s) /\ \A i \in 0..Len(s) : 0 <= i
  BY DEF Ending
<1>2. Covers(s, s, n)
  BY <1>1, Zenon DEF Covers
<1>3. PICK k \in 0..Len(s) : LongestFit(s, n, k) /\ TailOf(s, n) = Ending(s, k)
  BY TailIs, Zenon
<1> QED BY <1>2, <1>3, Zenon DEF Covers, LongestFit

\* What has been cut off makes no difference to a shorter tail.
LEMMA SameTail ==
  ASSUME NEW A, NEW s \in Seq(A), NEW n \in Nat, NEW m \in Nat, m <= n,
         NEW t, Covers(t, s, n)
  PROVE  TailOf(t, m) = TailOf(s, m)
<1> DEFINE l == Len(s)
           o == Offsets(s)
           p == Offsets(t)
<1>1. PICK k \in 0..l : t = Ending(s, k) /\ \A i \in 0..l : Fits(s, n, i) => k <= i
  BY Zenon DEF Covers
<1>2. t \in Seq(A) /\ Len(t) = l - k
  BY <1>1, EndingIs, Zenon
<1>3. /\ \A i \in 0..(l - k) : o[k + i] = o[k] + p[i]
      /\ Bytes(s) = o[k] + Bytes(t)
  BY <1>1, OffsetsOfEnding, Zenon
<1>4. PICK a \in 0..Len(t) : LongestFit(t, m, a) /\ TailOf(t, m) = Ending(t, a)
  BY <1>2, TailIs, Zenon
<1>5. PICK b \in 0..l : LongestFit(s, m, b) /\ TailOf(s, m) = Ending(s, b)
  BY TailIs, Zenon
<1>6. l \in Nat /\ o \in [0..l -> Nat] /\ p \in [0..(l - k) -> Nat]
  <2>1. o \in [0..l -> Nat] /\ p \in [0..Len(t) -> Nat]
    BY <1>2, OffsetsRead, Zenon
  <2> QED BY <1>2, <2>1
<1>7. Bytes(s) \in Nat /\ Bytes(t) \in Nat
  BY <1>2, BytesIsNumber, Zenon
<1> HIDE DEF l, o, p
<1>8. ASSUME NEW i \in 0..(l - k) PROVE Fits(s, m, k + i) <=> Fits(t, m, i)
  <2>1. o[k + i] = o[k] + p[i] /\ o[k] \in Nat /\ p[i] \in Nat
    BY <1>3, <1>6, Zenon
  <2>2. Bytes(s) - o[k + i] = Bytes(t) - p[i]
    BY <1>3, <1>7, <2>1, SMTT(60)
  <2> QED BY <2>2, Zenon DEF Fits, o, p
<1>9. b <= k + a
  <2>1. a \in 0..(l - k) /\ k + a \in 0..l
    BY <1>2, <1>4, <1>6
  <2>2. Fits(s, m, k + a)
    BY <1>4, <1>8, <2>1, Zenon DEF LongestFit
  <2> QED BY <1>5, <2>1, <2>2, Zenon DEF LongestFit, l
<1>10. k + a <= b
  <2>1. Fits(s, n, b)
    <3>1. Bytes(s) - o[b] <= m /\ o[b] \in Nat
      BY <1>5, <1>6, Zenon DEF LongestFit, Fits, o
    <3>2. Bytes(s) - o[b] <= n
      BY <1>7, <3>1
    <3> QED BY <3>2, Zenon DEF Fits, o
  <2>2. k <= b
    BY <1>1, <2>1, Zenon DEF l
  <2>3. b - k \in 0..(l - k) /\ k + (b - k) = b
    BY <1>6, <2>2
  <2>4. Fits(s, m, b)
    BY <1>5, Zenon DEF LongestFit
  <2>5. Fits(t, m, b - k)
    BY <1>8, <2>3, <2>4
  <2>6. a <= b - k
    BY <1>2, <1>4, <2>3, <2>5, Zenon DEF LongestFit
  <2> QED BY <1>4, <1>2, <1>6, <2>3, <2>6
<1>11. b = k + a
  BY <1>2, <1>4, <1>6, <1>9, <1>10
<1>12. Ending(t, a) = Ending(s, k + a)
  <2>1. a \in 0..(l - k) /\ k + a \in 0..l /\ (l - k) - a = l - (k + a)
    BY <1>2, <1>4, <1>6
  <2>2. /\ Ending(t, a) \in Seq(A) /\ Len(Ending(t, a)) = (l - k) - a
        /\ \A i \in 1..((l - k) - a) : Ending(t, a)[i] = t[a + i]
    <3>1. /\ Ending(t, a) \in Seq(A) /\ Len(Ending(t, a)) = Len(t) - a
          /\ \A i \in 1..(Len(t) - a) : Ending(t, a)[i] = t[a + i]
      BY <1>2, <1>4, EndingIs, Zenon
    <3> QED BY <1>2, <3>1, Zenon
  <2>3. /\ Ending(s, k + a) \in Seq(A) /\ Len(Ending(s, k + a)) = l - (k + a)
        /\ \A i \in 1..(l - (k + a)) : Ending(s, k + a)[i] = s[(k + a) + i]
    BY <2>1, EndingIs DEF l
  <2>4. \A i \in 1..(l - k) : t[i] = s[k + i]
    BY <1>1, EndingIs DEF l
  <2>5. \A i \in 1..((l - k) - a) : t[a + i] = s[(k + a) + i]
    <3> TAKE i \in 1..((l - k) - a)
    <3>1. a + i \in 1..(l - k) /\ k + (a + i) = (k + a) + i
      BY <1>6, <2>1
    <3> QED BY <2>4, <3>1, Zenon
  <2> DEFINE u == Ending(t, a)
             v == Ending(s, k + a)
  <2>6. /\ u \in Seq(A) /\ v \in Seq(A) /\ Len(u) = Len(v)
        /\ \A i \in 1..Len(u) : u[i] = v[i]
    BY <2>1, <2>2, <2>3, <2>5
  <2> HIDE DEF u, v
  <2>7. u = v
    BY <2>6
  <2> QED BY <2>7 DEF u, v
<1> QED BY <1>4, <1>5, <1>11, <1>12, Zenon

LEMMA BytesOfConcat ==
  ASSUME NEW A, NEW s \in Seq(A), NEW t \in Seq(A)
  PROVE  /\ \A i \in 0..Len(s) : Offsets(s \o t)[i] = Offsets(s)[i]
         /\ Bytes(s \o t) = Bytes(s) + Bytes(t)
<1> DEFINE u == s \o t
<1>1. /\ u \in Seq(A) /\ Len(u) = Len(s) + Len(t) /\ Len(s) \in Nat /\ Len(t) \in Nat
      /\ \A i \in 1..Len(s) : u[i] = s[i]
      /\ \A i \in 1..Len(t) : u[Len(s) + i] = t[i]
  OBVIOUS
<1> HIDE DEF u
<1>2. PartOf(s, u, 0) /\ PartOf(t, u, Len(s)) /\ 0 \in Nat
  BY <1>1 DEF PartOf
<1>3. s \in Seq(A) /\ t \in Seq(A) /\ Offsets(u)[0] = 0 /\ Offsets(s) \in [0..Len(s) -> Nat]
  BY <1>1, OffsetsRead
<1>4. \A i \in 0..Len(s) : Offsets(u)[0 + i] = Offsets(u)[0] + Offsets(s)[i]
  <2>1. u \in Seq(A) /\ 0 \in Nat /\ PartOf(s, u, 0)
    BY <1>1, <1>2, Zenon
  <2> QED BY <2>1, OffsetsOfPart
<1>5. \A i \in 0..Len(s) : Offsets(u)[i] = Offsets(s)[i]
  <2> TAKE i \in 0..Len(s)
  <2>1. 0 + i = i /\ Offsets(s)[i] \in Nat
    <3>1. Offsets(s)[i] \in Nat
      BY <1>3, Zenon
    <3> QED BY <3>1
  <2>2. Offsets(u)[0 + i] = Offsets(u)[0] + Offsets(s)[i]
    BY <1>4
  <2> QED BY <1>3, <2>1, <2>2
<1>6. \A i \in 0..Len(t) : Offsets(u)[Len(s) + i] = Offsets(u)[Len(s)] + Offsets(t)[i]
  BY <1>1, <1>2, <1>3, OffsetsOfPart
<1>7. Len(t) \in 0..Len(t) /\ Len(s) \in 0..Len(s)
  BY <1>1
<1>8. Offsets(u)[Len(u)] = Offsets(s)[Len(s)] + Offsets(t)[Len(t)]
  BY <1>1, <1>5, <1>6, <1>7, Zenon
<1> QED BY <1>5, <1>8, Zenon DEF Bytes, u

\* Text that comes in after the cut belongs to both.
LEMMA CoversLonger ==
  ASSUME NEW A, NEW s \in Seq(A), NEW n \in Nat, NEW t, Covers(t, s, n), NEW u \in Seq(A)
  PROVE  Covers(t \o u, s \o u, n)
<1> DEFINE l == Len(s)
           w == s \o u
<1>1. PICK k \in 0..l : t = Ending(s, k) /\ \A i \in 0..l : Fits(s, n, i) => k <= i
  BY Zenon DEF Covers
<1>2. /\ w \in Seq(A) /\ Len(w) = l + Len(u) /\ l \in Nat /\ Len(u) \in Nat
      /\ \A i \in 1..l : w[i] = s[i]
      /\ \A i \in 1..Len(u) : w[l + i] = u[i]
  OBVIOUS
<1>3. t \in Seq(A) /\ Len(t) = l - k /\ \A i \in 1..(l - k) : t[i] = s[k + i]
  BY <1>1, EndingIs
<1>4. t \o u = Ending(w, k)
  <2> DEFINE a == t \o u
             b == Ending(w, k)
  <2> HIDE DEF l, w
  <2>1. k \in 0..Len(w)
    BY <1>2
  <2>2. /\ b \in Seq(A) /\ Len(b) = Len(w) - k
        /\ \A i \in 1..(Len(w) - k) : b[i] = w[k + i]
    BY <1>2, <2>1, EndingIs, ZenonT(60)
  <2>3. /\ a \in Seq(A) /\ Len(a) = (l - k) + Len(u)
        /\ \A i \in 1..(l - k) : a[i] = t[i]
        /\ \A i \in 1..Len(u) : a[(l - k) + i] = u[i]
    <3>1. /\ a \in Seq(A) /\ Len(a) = Len(t) + Len(u)
          /\ \A i \in 1..Len(t) : a[i] = t[i]
          /\ \A i \in 1..Len(u) : a[Len(t) + i] = u[i]
      <4>1. t \in Seq(A) /\ u \in Seq(A)
        BY <1>3
      <4> QED BY <4>1
    <3> QED BY <1>3, <3>1, Zenon
  <2> HIDE DEF a, b
  <2>4. ASSUME NEW i \in 1..Len(a) PROVE a[i] = b[i]
    <3>1. i \in 1..(Len(w) - k)
      BY <1>2, <2>3
    <3>2. b[i] = w[k + i]
      BY <2>2, <3>1, Zenon
    <3>3. CASE i <= l - k
      <4>1. i \in 1..(l - k) /\ k + i \in 1..l
        BY <1>2, <3>3, <3>1
      <4> QED BY <1>2, <1>3, <2>3, <3>2, <4>1, Zenon
    <3>4. CASE ~(i <= l - k)
      <4> DEFINE j == i - (l - k)
      <4>1. j \in 1..Len(u) /\ (l - k) + j = i /\ l + j = k + i
        BY <1>2, <2>3, <3>4, <3>1
      <4> HIDE DEF j
      <4> QED BY <1>2, <2>3, <3>2, <4>1, Zenon
    <3> QED BY <3>3, <3>4
  <2>5. Len(a) = Len(b)
    BY <1>2, <2>2, <2>3
  <2>6. a \in Seq(A) /\ b \in Seq(A)
    BY <2>2, <2>3
  <2>7. a = b
    BY <2>4, <2>5, <2>6
  <2> QED BY <2>7 DEF a, b
<1>5. /\ \A i \in 0..l : Offsets(w)[i] = Offsets(s)[i]
      /\ Bytes(w) = Bytes(s) + Bytes(u)
  BY BytesOfConcat
<1>6. Bytes(s) \in Nat /\ Bytes(u) \in Nat /\ Offsets(s) \in [0..l -> Nat]
  BY BytesIsNumber, OffsetsRead
<1> HIDE DEF l, w
<1>7. ASSUME NEW i \in 0..Len(w), Fits(w, n, i) PROVE k <= i
  <2>1. CASE i <= l
    <3>1. i \in 0..l
      BY <1>2, <2>1
    <3>2. Bytes(w) - Offsets(s)[i] <= n /\ Offsets(s)[i] \in Nat
      BY <1>5, <1>6, <1>7, <3>1, Zenon DEF Fits
    <3>3. Bytes(s) - Offsets(s)[i] <= n
      BY <1>5, <1>6, <3>2
    <3> QED BY <1>1, <3>1, <3>3, Zenon DEF Fits
  <2>2. CASE ~(i <= l)
    BY <1>2, <2>2
  <2> QED BY <2>1, <2>2
<1>8. k \in 0..Len(w)
  BY <1>2
<1> QED BY <1>4, <1>7, <1>8, Zenon DEF Covers, w

-------------------------------------------------------------------------------
(* Lines.                                                                  *)

\* A text cut into lines.
Lines(A) == [lines : Seq(Seq(A)), rest : Seq(A)]

Uncut == [lines |-> <<>>, rest |-> <<>>]

LEMMA CutType ==
  ASSUME NEW A, NEW b \in Lines(A), NEW c \in A
  PROVE  Cut(b, c) \in Lines(A)
<1>1. b.lines \in Seq(Seq(A)) /\ b.rest \in Seq(A)
  BY Zenon DEF Lines
<1>2. /\ Append(b.lines, b.rest) \in Seq(Seq(A)) /\ Append(b.rest, c) \in Seq(A)
      /\ <<>> \in Seq(A)
  BY <1>1, AppendProperties, EmptySeq
<1>3. /\ [lines |-> Append(b.lines, b.rest), rest |-> <<>>] \in Lines(A)
      /\ [lines |-> b.lines, rest |-> Append(b.rest, c)] \in Lines(A)
  BY <1>1, <1>2, Zenon DEF Lines
<1> QED BY <1>3, Zenon DEF Cut

LEMMA UncutType == \A A : Uncut \in Lines(A)
<1>1. \A A : <<>> \in Seq(A)
  BY EmptySeq
<1> QED BY <1>1, Zenon DEF Uncut, Lines

SplitStep(s, g) == [i \in 0..Len(s) |-> IF i = 0 THEN Uncut ELSE Cut(g[i - 1], s[i])]

LEMMA SplitExists ==
  ASSUME NEW A, NEW s \in Seq(A)
  PROVE  \E g : g = SplitStep(s, g)
<1> DEFINE n == Len(s)
           step == [i \in 1..n |-> [b \in Lines(A) |-> Cut(b, s[i])]]
<1>1. n \in Nat /\ \A i \in 1..n : s[i] \in A
  OBVIOUS
<1>2. \A i \in 0..n : i # 0 => i \in 1..n /\ i - 1 \in 0..n
  OBVIOUS
<1>3. step \in [1..n -> [Lines(A) -> Lines(A)]]
  BY <1>1, CutType, Zenon
<1>4. \A i \in 1..n, b \in Lines(A) : step[i][b] = Cut(b, s[i])
  BY Zenon
<1> HIDE DEF n, step
<1>5. PICK f \in [0..n -> Lines(A)] : Recursive(n, Uncut, step, f)
  BY <1>1, <1>3, UncutType, FunctionByOne, Zenon
<1>6. \A i \in 0..n : i # 0 => step[i][f[i - 1]] = Cut(f[i - 1], s[i])
  BY <1>2, <1>4, Zenon
<1>7. [i \in 0..n |-> IF i = 0 THEN Uncut ELSE step[i][f[i - 1]]] = SplitStep(s, f)
  BY <1>6, Zenon DEF SplitStep, n
<1> QED BY <1>5, <1>7, Zenon DEF Recursive

\* The function Split is taken from.
Cutting(s, e) ==
  /\ e[0] = Uncut
  /\ \A i \in 1..Len(s) : e[i] = Cut(e[i - 1], s[i])
  /\ Split(s) = e[Len(s)]

LEMMA SplitIsCutting ==
  ASSUME NEW A, NEW s \in Seq(A)
  PROVE  \E e : Cutting(s, e)
<1> DEFINE e == CHOOSE g : g = SplitStep(s, g)
<1>1. Split(s) = e[Len(s)]
  BY Zenon DEF Split, SplitStep, Uncut
<1>2. e = SplitStep(s, e)
  BY SplitExists, Zenon
<1> HIDE DEF e
<1>3. 0 \in 0..Len(s) /\ \A i \in 1..Len(s) : i \in 0..Len(s) /\ i # 0
  OBVIOUS
<1>4. e = [i \in 0..Len(s) |-> IF i = 0 THEN Uncut ELSE Cut(e[i - 1], s[i])]
  BY <1>2, Zenon DEF SplitStep
<1>5. e[0] = Uncut /\ \A i \in 1..Len(s) : e[i] = Cut(e[i - 1], s[i])
  BY <1>3, <1>4, Zenon
<1> QED BY <1>1, <1>5, Zenon DEF Cutting

LEMMA SplitByOne ==
  /\ Split(<<>>) = Uncut
  /\ \A A : \A s \in Seq(A), c \in A : Split(Append(s, c)) = Cut(Split(s), c)
<1>1. Split(<<>>) = Uncut
  <2>1. <<>> \in Seq({}) /\ Len(<<>>) = 0
    BY EmptySeq
  <2> QED BY <2>1, SplitIsCutting, Zenon DEF Cutting
<1>2. ASSUME NEW A, NEW s \in Seq(A), NEW c \in A
      PROVE  Split(Append(s, c)) = Cut(Split(s), c)
  <2> DEFINE t == Append(s, c)
             n == Len(s)
  <2>1. /\ n \in Nat /\ t \in Seq(A) /\ Len(t) = n + 1 /\ t[n + 1] = c
        /\ \A i \in 1..n : t[i] = s[i]
    OBVIOUS
  <2> HIDE DEF t, n
  <2>2. PICK e : Cutting(s, e)
    BY SplitIsCutting, Zenon
  <2>3. PICK f : Cutting(t, f)
    BY <2>1, SplitIsCutting, Zenon
  <2> DEFINE S == {k \in 0..n : e[k] = f[k]}
  <2>4. 0 \in S
    <3>1. e[0] = f[0]
      BY <2>2, <2>3, Zenon DEF Cutting
    <3> QED BY <2>1, <3>1
  <2>5. ASSUME NEW i \in 1..n, i - 1 \in S PROVE i \in S
    <3>1. i \in 0..n /\ i \in 1..Len(t)
      BY <2>1
    <3>2. e[i - 1] = f[i - 1]
      BY <2>5
    <3>3. e[i] = Cut(e[i - 1], s[i])
      BY <2>2, Zenon DEF Cutting, n
    <3>4. f[i] = Cut(f[i - 1], s[i])
      BY <2>1, <2>3, <3>1, Zenon DEF Cutting
    <3> QED BY <3>1, <3>2, <3>3, <3>4
  <2>6. 0..n \subseteq S
    <3> HIDE DEF S
    <3> QED BY <2>1, <2>4, <2>5, IndicesFromZero, Zenon
  <2>7. n \in 0..n /\ n + 1 \in 1..Len(t) /\ (n + 1) - 1 = n
    BY <2>1
  <2>8. e[n] = f[n]
    BY <2>6, <2>7
  <2>9. f[n + 1] = Cut(f[n], c)
    BY <2>1, <2>3, <2>7, Zenon DEF Cutting
  <2>10. Split(s) = e[n] /\ Split(t) = f[n + 1]
    BY <2>1, <2>2, <2>3, Zenon DEF Cutting, n
  <2> QED BY <2>8, <2>9, <2>10, Zenon DEF t
<1> QED BY <1>1, <1>2

LEMMA SplitType ==
  ASSUME NEW A, NEW s \in Seq(A)
  PROVE  /\ Split(s) \in Lines(A)
         /\ Complete(s) \in Seq(Seq(A)) /\ Remainder(s) \in Seq(A)
<1> DEFINE S == {t \in Seq(A) : Split(t) \in Lines(A)}
<1>1. <<>> \in S
  <2>1. <<>> \in Seq(A)
    BY EmptySeq
  <2> QED BY <2>1, SplitByOne, UncutType, Zenon
<1>2. ASSUME NEW t \in Seq(A), NEW c \in A, t \in S PROVE Append(t, c) \in S
  <2>1. Append(t, c) \in Seq(A)
    BY AppendProperties
  <2>2. Split(Append(t, c)) \in Lines(A)
    BY <1>2, SplitByOne, CutType, Zenon
  <2> QED BY <2>1, <2>2, Zenon
<1>3. Seq(A) \subseteq S
  <2> HIDE DEF S
  <2> QED BY <1>1, <1>2, SequencesFromEmpty, Zenon
<1>4. Split(s) \in Lines(A)
  BY <1>3
<1> QED BY <1>4, Zenon DEF Lines, Complete, Remainder

LEMMA AppendAfter ==
  ASSUME NEW A, NEW s \in Seq(A), NEW t \in Seq(A), NEW c \in A
  PROVE  s \o Append(t, c) = Append(s \o t, c) /\ s \o t \in Seq(A)
OBVIOUS

LEMMA CutIs ==
  ASSUME NEW A, NEW s \in Seq(A), NEW c \in A
  PROVE  /\ c = EndOfLine => /\ Complete(Append(s, c)) = Append(Complete(s), Remainder(s))
                             /\ Remainder(Append(s, c)) = <<>>
         /\ c # EndOfLine => /\ Complete(Append(s, c)) = Complete(s)
                             /\ Remainder(Append(s, c)) = Append(Remainder(s), c)
<1>1. Split(Append(s, c)) = Cut(Split(s), c)
  BY SplitByOne, Zenon
<1>2. CASE c = EndOfLine
  <2>1. Split(Append(s, c)) = [lines |-> Append(Split(s).lines, Split(s).rest), rest |-> <<>>]
    BY <1>1, <1>2, Zenon DEF Cut
  <2> QED BY <1>2, <2>1 DEF Complete, Remainder
<1>3. CASE c # EndOfLine
  <2>1. Split(Append(s, c)) = [lines |-> Split(s).lines, rest |-> Append(Split(s).rest, c)]
    BY <1>1, <1>3, Zenon DEF Cut
  <2> QED BY <1>3, <2>1 DEF Complete, Remainder
<1> QED BY <1>2, <1>3

LEMMA NothingCut == Complete(<<>>) = <<>> /\ Remainder(<<>>) = <<>>
BY SplitByOne DEF Complete, Remainder, Uncut

\* An unfinished line is one.
LEMMA RemainderIsUncut ==
  ASSUME NEW A, NEW s \in Seq(A)
  PROVE  Complete(Remainder(s)) = <<>> /\ Remainder(Remainder(s)) = Remainder(s)
<1> DEFINE P(t) == Complete(Remainder(t)) = <<>> /\ Remainder(Remainder(t)) = Remainder(t)
           S == {t \in Seq(A) : P(t)}
<1>1. <<>> \in S
  <2>1. <<>> \in Seq(A)
    BY EmptySeq
  <2> QED BY <2>1, NothingCut, Zenon
<1>2. ASSUME NEW t \in Seq(A), NEW c \in A, t \in S PROVE Append(t, c) \in S
  <2>1. Append(t, c) \in Seq(A) /\ Remainder(t) \in Seq(A) /\ P(t)
    BY <1>2, AppendProperties, SplitType
  <2>2. CASE c = EndOfLine
    BY <2>1, <2>2, CutIs, NothingCut, Zenon
  <2>3. CASE c # EndOfLine
    <3> DEFINE r == Remainder(t)
    <3>1. Remainder(Append(t, c)) = Append(r, c)
      BY <2>3, CutIs, Zenon
    <3>2. Complete(Append(r, c)) = Complete(r) /\ Remainder(Append(r, c)) = Append(Remainder(r), c)
      BY <2>1, <2>3, CutIs
    <3> QED BY <2>1, <3>1, <3>2, Zenon
  <2> QED BY <2>2, <2>3
<1>3. Seq(A) \subseteq S
  <2> HIDE DEF S
  <2> QED BY <1>1, <1>2, SequencesFromEmpty, Zenon
<1> QED BY <1>3, Zenon

\* A piece that comes in finishes the pending line and no other.
LEMMA SplitOfConcat ==
  ASSUME NEW A, NEW s \in Seq(A), NEW u \in Seq(A)
  PROVE  /\ Complete(s \o u) = Complete(s) \o Complete(Remainder(s) \o u)
         /\ Remainder(s \o u) = Remainder(Remainder(s) \o u)
<1> DEFINE r == Remainder(s)
           P(t) == /\ Complete(s \o t) = Complete(s) \o Complete(r \o t)
                   /\ Remainder(s \o t) = Remainder(r \o t)
           S == {t \in Seq(A) : P(t)}
<1>0. r \in Seq(A) /\ Complete(s) \in Seq(Seq(A))
  BY SplitType
<1>1. <<>> \in S
  <2>1. <<>> \in Seq(A) /\ s \o <<>> = s
    BY EmptySeq, ConcatEmptySeq
  <2>2. r \o <<>> = r
    BY <1>0, ConcatEmptySeq
  <2>3. Complete(s) \o <<>> = Complete(s)
    BY <1>0, ConcatEmptySeq
  <2> QED BY <2>1, <2>2, <2>3, RemainderIsUncut, Zenon
<1> HIDE DEF r
<1>2. ASSUME NEW t \in Seq(A), NEW c \in A, t \in S PROVE Append(t, c) \in S
  <2> DEFINE a == s \o t
             b == r \o t
  <2>1. /\ Append(t, c) \in Seq(A)
        /\ s \o Append(t, c) = Append(a, c) /\ a \in Seq(A)
    BY AppendProperties, AppendAfter
  <2>2. r \o Append(t, c) = Append(b, c) /\ b \in Seq(A)
    BY <1>0, AppendAfter
  <2>3. Complete(a) = Complete(s) \o Complete(b) /\ Remainder(a) = Remainder(b)
    BY <1>2
  <2>4. Complete(b) \in Seq(Seq(A)) /\ Remainder(b) \in Seq(A)
    BY <2>2, SplitType
  <2> HIDE DEF a, b
  <2>5. CASE c = EndOfLine
    <3>1. /\ Complete(Append(a, c)) = Append(Complete(a), Remainder(a))
          /\ Remainder(Append(a, c)) = <<>>
      BY <2>1, <2>5, CutIs
    <3>2. /\ Complete(Append(b, c)) = Append(Complete(b), Remainder(b))
          /\ Remainder(Append(b, c)) = <<>>
      BY <2>2, <2>5, CutIs
    <3>3. Complete(s) \o Append(Complete(b), Remainder(b))
            = Append(Complete(s) \o Complete(b), Remainder(b))
      <4>1. \A L \in Seq(Seq(A)), M \in Seq(Seq(A)), m \in Seq(A) :
              L \o Append(M, m) = Append(L \o M, m)
        BY SMTT(60)
      <4> QED BY <1>0, <2>4, <4>1, Zenon
    <3> QED BY <2>1, <2>2, <2>3, <3>1, <3>2, <3>3, Zenon
  <2>6. CASE c # EndOfLine
    <3>1. /\ Complete(Append(a, c)) = Complete(a)
          /\ Remainder(Append(a, c)) = Append(Remainder(a), c)
      BY <2>1, <2>6, CutIs
    <3>2. /\ Complete(Append(b, c)) = Complete(b)
          /\ Remainder(Append(b, c)) = Append(Remainder(b), c)
      BY <2>2, <2>6, CutIs
    <3> QED BY <2>1, <2>2, <2>3, <3>1, <3>2, Zenon
  <2> QED BY <2>5, <2>6
<1>3. Seq(A) \subseteq S
  <2> HIDE DEF S
  <2> QED BY <1>1, <1>2, SequencesFromEmpty, Zenon
<1> QED BY <1>3, Zenon DEF r

LEMMA RemainderIsEnding ==
  ASSUME NEW A, NEW s \in Seq(A)
  PROVE  /\ \E k \in 0..Len(s) : Remainder(s) = Ending(s, k)
         /\ EndOfLine \notin Range(Remainder(s))
<1> DEFINE P(t) == /\ \E k \in 0..Len(t) : Remainder(t) = Ending(t, k)
                   /\ \A i \in DOMAIN Remainder(t) : Remainder(t)[i] # EndOfLine
           S == {t \in Seq(A) : P(t)}
<1>1. <<>> \in S
  <2>1. /\ <<>> \in Seq(A) /\ Ending(<<>>, 0) = <<>> /\ 0 \in 0..Len(<<>>)
        /\ DOMAIN <<>> = {}
    BY EmptySeq DEF Ending
  <2> QED BY <2>1, NothingCut, Zenon
<1>2. ASSUME NEW t \in Seq(A), NEW c \in A, t \in S PROVE Append(t, c) \in S
  <2> DEFINE a == Append(t, c)
  <2>1. a \in Seq(A) /\ Len(a) = Len(t) + 1 /\ Len(t) \in Nat
    OBVIOUS
  <2>2. CASE c = EndOfLine
    <3>1. Remainder(a) = <<>>
      BY <2>2, CutIs
    <3>2. Ending(a, Len(a)) = <<>> /\ Len(a) \in 0..Len(a)
      BY <2>1 DEF Ending
    <3>3. DOMAIN <<>> = {}
      OBVIOUS
    <3> QED BY <2>1, <3>1, <3>2, <3>3, Zenon
  <2>3. CASE c # EndOfLine
    <3>1. Remainder(a) = Append(Remainder(t), c)
      BY <2>3, CutIs
    <3>2. PICK k \in 0..Len(t) : Remainder(t) = Ending(t, k)
      BY <1>2
    <3>3. Append(Ending(t, k), c) = Ending(a, k) /\ k \in 0..Len(a)
      BY <2>1 DEF Ending
    <3>4. ASSUME NEW i \in DOMAIN Remainder(a) PROVE Remainder(a)[i] # EndOfLine
      <4>1. /\ Remainder(t) \in Seq(A)
            /\ \A m \in DOMAIN Remainder(t) : Remainder(t)[m] # EndOfLine
        BY <1>2, SplitType
      <4> DEFINE r == Remainder(t)
                 b == Append(r, c)
      <4> HIDE DEF r
      <4>2. r \in Seq(A) /\ b = Remainder(a)
        BY <3>1, <4>1 DEF r
      <4>3. /\ DOMAIN b = 1..(Len(r) + 1) /\ Len(r) \in Nat /\ DOMAIN r = 1..Len(r)
            /\ b[Len(r) + 1] = c /\ \A m \in 1..Len(r) : b[m] = r[m]
        BY <4>2
      <4> HIDE DEF b
      <4>4. i = Len(r) + 1 \/ i \in 1..Len(r)
        BY <3>4, <4>2, <4>3
      <4>5. CASE i = Len(r) + 1
        BY <2>3, <4>2, <4>3, <4>5, Zenon
      <4>6. CASE i \in 1..Len(r)
        BY <4>1, <4>2, <4>3, <4>6, Zenon DEF r
      <4> QED BY <4>4, <4>5, <4>6
    <3> QED BY <2>1, <3>1, <3>2, <3>3, <3>4, Zenon
  <2> QED BY <2>2, <2>3
<1>3. Seq(A) \subseteq S
  <2> HIDE DEF S
  <2> QED BY <1>1, <1>2, SequencesFromEmpty, Zenon
<1>4. P(s)
  BY <1>3
<1> QED BY <1>4, Zenon DEF Range

-------------------------------------------------------------------------------
(* Percentages.                                                            *)

Kinds == {EndOfLine, Percent, Lead, Cont, Wide, Bad}

LEMMA KindsDiffer ==
  /\ \A c \in Kinds : ~IsDigit(c)
  /\ Percent # EndOfLine
  /\ \A c \in {Lead, Cont, Wide, Bad} : c # Percent /\ c # EndOfLine
BY DEF Kinds, IsDigit, EndOfLine, Percent, Lead, Cont, Wide, Bad

\* Digits from a on, and a percent sign at b.
MatchAt(seg, a, b) ==
  /\ a \in 1..Len(seg) /\ b \in 1..Len(seg)
  /\ seg[b] = Percent
  /\ b - a \in 1..3
  /\ \A i \in a..(b - 1) : IsDigit(seg[i])

Leads(seg, a, b) ==
  MatchAt(seg, a, b) /\ \A k, l \in 1..Len(seg) : MatchAt(seg, k, l) => a <= k

LEMMA LeftmostAre ==
  ASSUME NEW A, NEW seg \in Seq(A)
  PROVE  /\ \A a, b \in 1..Len(seg) : Leads(seg, a, b) <=> <<a, b>> \in Leftmost(seg)
         /\ \A m \in Leftmost(seg) :
              m[1] \in 1..Len(seg) /\ m[2] \in 1..Len(seg) /\ Leads(seg, m[1], m[2])
<1>1. DOMAIN seg = 1..Len(seg)
  OBVIOUS
<1>2. \A a, b \in 1..Len(seg) : <<a, b>>[1] = a /\ <<a, b>>[2] = b
  OBVIOUS
<1>3. \A a, b \in 1..Len(seg) : <<a, b>> \in Matches(seg) <=> MatchAt(seg, a, b)
  BY <1>1, <1>2, Zenon DEF Matches, MatchAt
<1>4. \A m \in Matches(seg) :
        m[1] \in 1..Len(seg) /\ m[2] \in 1..Len(seg) /\ m = <<m[1], m[2]>>
  BY <1>1 DEF Matches
<1>5. \A m \in Matches(seg) : MatchAt(seg, m[1], m[2])
  BY <1>1, <1>4, Zenon DEF Matches, MatchAt
<1>6. ASSUME NEW a \in 1..Len(seg), NEW b \in 1..Len(seg), Leads(seg, a, b)
      PROVE  <<a, b>> \in Leftmost(seg)
  <2>1. <<a, b>> \in Matches(seg) /\ <<a, b>>[1] = a
    BY <1>2, <1>3, <1>6, Zenon DEF Leads
  <2>2. ASSUME NEW o \in Matches(seg) PROVE <<a, b>>[1] <= o[1]
    <3>1. MatchAt(seg, o[1], o[2]) /\ o[1] \in 1..Len(seg) /\ o[2] \in 1..Len(seg)
      BY <1>4, <1>5, Zenon
    <3>2. a <= o[1]
      BY <1>6, <3>1, Zenon DEF Leads
    <3> QED BY <2>1, <3>2, Zenon
  <2> QED BY <2>1, <2>2, Zenon DEF Leftmost
<1>7. ASSUME NEW m \in Leftmost(seg)
      PROVE  m[1] \in 1..Len(seg) /\ m[2] \in 1..Len(seg) /\ Leads(seg, m[1], m[2])
  <2>1. m \in Matches(seg) /\ \A o \in Matches(seg) : m[1] <= o[1]
    BY Zenon DEF Leftmost
  <2>2. m[1] \in 1..Len(seg) /\ m[2] \in 1..Len(seg) /\ MatchAt(seg, m[1], m[2])
    BY <1>4, <1>5, <2>1, Zenon
  <2>3. ASSUME NEW k \in 1..Len(seg), NEW l \in 1..Len(seg), MatchAt(seg, k, l)
        PROVE  m[1] <= k
    <3>1. <<k, l>> \in Matches(seg) /\ <<k, l>>[1] = k
      BY <1>2, <1>3, <2>3, Zenon
    <3>2. m[1] <= <<k, l>>[1]
      BY <2>1, <3>1, Zenon
    <3> QED BY <3>1, <3>2, Zenon
  <2> QED BY <2>2, <2>3, Zenon DEF Leads
<1>8. ASSUME NEW a \in 1..Len(seg), NEW b \in 1..Len(seg), <<a, b>> \in Leftmost(seg)
      PROVE  Leads(seg, a, b)
  <2>1. Leads(seg, <<a, b>>[1], <<a, b>>[2])
    BY <1>7, <1>8, Zenon
  <2> QED BY <1>2, <2>1, Zenon
<1> QED BY <1>6, <1>7, <1>8, Zenon

LEMMA CapturesAre ==
  ASSUME NEW A, NEW seg \in Seq(A), NEW v
  PROVE  v \in Captures(seg) <=>
           \E a, b \in 1..Len(seg) :
             Leads(seg, a, b) /\ v = Number(SubSeq(seg, a, b - 1))
<1>1. ASSUME v \in Captures(seg)
      PROVE  \E a, b \in 1..Len(seg) :
               Leads(seg, a, b) /\ v = Number(SubSeq(seg, a, b - 1))
  <2>1. PICK m \in Leftmost(seg) : v = Number(SubSeq(seg, m[1], m[2] - 1))
    BY <1>1, Zenon DEF Captures
  <2> QED BY <2>1, LeftmostAre, Zenon
<1>2. ASSUME NEW a \in 1..Len(seg), NEW b \in 1..Len(seg), Leads(seg, a, b),
             v = Number(SubSeq(seg, a, b - 1))
      PROVE  v \in Captures(seg)
  <2>1. <<a, b>> \in Leftmost(seg)
    BY <1>2, LeftmostAre, Zenon
  <2>2. <<a, b>>[1] = a /\ <<a, b>>[2] = b
    OBVIOUS
  <2> QED BY <1>2, <2>1, <2>2, Zenon DEF Captures
<1> QED BY <1>1, <1>2, Zenon

LEMMA LeaderIsOne ==
  ASSUME NEW A, NEW seg \in Seq(A), NEW a, NEW b, NEW k, NEW l,
         Leads(seg, a, b), Leads(seg, k, l)
  PROVE  a = k /\ b = l
<1>1. /\ a \in 1..Len(seg) /\ b \in 1..Len(seg) /\ seg[b] = Percent /\ b - a \in 1..3
      /\ \A i \in a..(b - 1) : IsDigit(seg[i])
  BY Zenon DEF Leads, MatchAt
<1>2. /\ k \in 1..Len(seg) /\ l \in 1..Len(seg) /\ seg[l] = Percent /\ l - k \in 1..3
      /\ \A i \in k..(l - 1) : IsDigit(seg[i])
  BY Zenon DEF Leads, MatchAt
<1>3. a <= k /\ k <= a
  BY <1>1, <1>2, Zenon DEF Leads
<1>4. a = k
  BY <1>1, <1>2, <1>3
<1>5. ~IsDigit(Percent)
  BY KindsDiffer, Zenon DEF Kinds
<1>6. ~(b \in k..(l - 1)) /\ ~(l \in a..(b - 1))
  BY <1>1, <1>2, <1>5, Zenon
<1> QED BY <1>1, <1>2, <1>4, <1>6

\* A line has one percentage at most.
LEMMA OneCapture ==
  ASSUME NEW A, NEW seg \in Seq(A), NEW v \in Captures(seg), NEW w \in Captures(seg)
  PROVE  v = w
<1>1. PICK a, b \in 1..Len(seg) : Leads(seg, a, b) /\ v = Number(SubSeq(seg, a, b - 1))
  BY CapturesAre, Zenon
<1>2. PICK k, l \in 1..Len(seg) : Leads(seg, k, l) /\ w = Number(SubSeq(seg, k, l - 1))
  BY CapturesAre, Zenon
<1>3. a = k /\ b = l
  BY <1>1, <1>2, LeaderIsOne, Zenon
<1> QED BY <1>1, <1>2, <1>3, Zenon

LEMMA SomeCapture ==
  ASSUME NEW A, NEW seg \in Seq(A)
  PROVE  Captures(seg) = {} <=> \A a, b \in 1..Len(seg) : ~MatchAt(seg, a, b)
<1>1. ASSUME NEW a \in 1..Len(seg), NEW b \in 1..Len(seg), MatchAt(seg, a, b)
      PROVE  Captures(seg) # {}
  <2> DEFINE M == {k \in 1..Len(seg) : \E l \in 1..Len(seg) : MatchAt(seg, k, l)}
  <2>1. M \in SUBSET Nat /\ a \in M
    <3>1. a \in M
      BY <1>1, Zenon
    <3>2. M \in SUBSET (1..Len(seg)) /\ 1..Len(seg) \in SUBSET Nat
      OBVIOUS
    <3> QED BY <3>1, <3>2, Zenon
  <2>2. PICK k \in M : \A m \in M : k <= m
    <3> HIDE DEF M
    <3>1. M # {}
      BY <2>1
    <3> QED BY <2>1, <3>1, LeastNumber, Zenon
  <2>3. PICK l \in 1..Len(seg) : MatchAt(seg, k, l)
    BY Zenon
  <2>4. Leads(seg, k, l) /\ k \in 1..Len(seg)
    BY <2>2, <2>3, Zenon DEF Leads
  <2>5. Number(SubSeq(seg, k, l - 1)) \in Captures(seg)
    BY <2>4, CapturesAre, Zenon
  <2> QED BY <2>5
<1>2. ASSUME NEW v \in Captures(seg) PROVE \E a, b \in 1..Len(seg) : MatchAt(seg, a, b)
  BY CapturesAre, Zenon DEF Leads
<1> QED BY <1>1, <1>2

-------------------------------------------------------------------------------
(* Endings as the community modules know them.                             *)

LEMMA SuffixIs ==
  ASSUME NEW A, NEW s \in Seq(A), NEW t \in Seq(A), NEW k \in Nat,
         PartOf(t, s, k), Len(s) = k + Len(t)
  PROVE  IsSuffix(t, s)
<1> DEFINE n == Len(t)
           a == Reverse(t)
           b == Reverse(s)
<1>1. /\ n \in Nat /\ Len(s) = k + n /\ \A i \in 1..n : t[i] = s[k + i]
      /\ \A i \in 1..n : t[i] \in A
      /\ \A i \in 1..(k + n) : s[i] \in A
  BY DEF PartOf
<1>2. a = [i \in 1..n |-> t[(n - i) + 1]] /\ b = [i \in 1..(k + n) |-> s[((k + n) - i) + 1]]
  BY <1>1, Zenon DEF Reverse
<1>3. \A i \in 1..n : (n - i) + 1 \in 1..n
  BY <1>1
<1>4. \A i \in 1..(k + n) : ((k + n) - i) + 1 \in 1..(k + n)
  BY <1>1
<1>5. a \in [1..n -> A]
  <2>1. \A i \in 1..n : t[(n - i) + 1] \in A
    BY <1>1, <1>3
  <2> QED BY <1>2, <2>1, Zenon
<1>6. b \in [1..(k + n) -> A]
  <2>1. \A i \in 1..(k + n) : s[((k + n) - i) + 1] \in A
    <3>1. \A j \in 1..Len(s) : s[j] \in A
      OBVIOUS
    <3> QED BY <1>1, <1>4, <3>1, Zenon
  <2> QED BY <1>2, <2>1, Zenon
<1>7. \A i \in 1..n : a[i] = b[i]
  <2> SUFFICES ASSUME NEW i \in 1..n PROVE a[i] = b[i]
    OBVIOUS
  <2>1. i \in 1..(k + n)
    BY <1>1
  <2>2. a[i] = t[(n - i) + 1] /\ b[i] = s[((k + n) - i) + 1]
    BY <1>2, <2>1, Zenon
  <2>3. t[(n - i) + 1] = s[k + ((n - i) + 1)]
    BY <1>1, <1>3
  <2>4. k + ((n - i) + 1) = ((k + n) - i) + 1
    BY <1>1
  <2> QED BY <2>2, <2>3, <2>4
<1> HIDE DEF n, a, b
<1>8. a \in Seq(A) /\ Len(a) = n
  BY <1>1, <1>5
<1>9. b \in Seq(A) /\ Len(b) = k + n
  BY <1>1, <1>6
<1>10. SubSeq(a, 1, n) = SubSeq(b, 1, n)
  <2>1. SubSeq(a, 1, n) = [i \in 1..n |-> a[i]]
    BY <1>1, <1>8
  <2>2. SubSeq(b, 1, n) = [i \in 1..n |-> b[i]]
    BY <1>1, <1>9
  <2> QED BY <1>7, <2>1, <2>2, Zenon
<1>11. Len(a) <= Len(b)
  BY <1>1, <1>8, <1>9
<1> QED BY <1>8, <1>10, <1>11, Zenon DEF IsSuffix, IsPrefix, a, b

LEMMA EndingIsSuffix ==
  ASSUME NEW A, NEW s \in Seq(A), NEW k \in 0..Len(s)
  PROVE  IsSuffix(Ending(s, k), s)
<1>1. /\ Ending(s, k) \in Seq(A) /\ Len(Ending(s, k)) = Len(s) - k
      /\ \A i \in 1..(Len(s) - k) : Ending(s, k)[i] = s[k + i]
  BY EndingIs, Zenon
<1>2. k \in Nat /\ Len(s) = k + Len(Ending(s, k))
  BY <1>1
<1>3. PartOf(Ending(s, k), s, k)
  BY <1>1, <1>2 DEF PartOf
<1> QED BY <1>1, <1>2, <1>3, SuffixIs

-------------------------------------------------------------------------------
(* Bytes into text.                                                        *)

Glyph == Byte \cup {Wide, Bad}

\* What is heard of the i-th byte of a piece.
HeardAt(piece, i) ==
  IF piece[i] = Lead /\ i < Len(piece) /\ piece[i + 1] = Cont THEN <<Wide>>
  ELSE IF piece[i] = Cont /\ i > 1 /\ piece[i - 1] = Lead THEN <<>>
  ELSE IF piece[i] \in {Lead, Cont} THEN <<Bad>> ELSE <<piece[i]>>

HeardOf(piece) == [i \in 1..Len(piece) |-> HeardAt(piece, i)]

LEMMA LossyIs ==
  ASSUME NEW A, NEW piece \in Seq(A)
  PROVE  Lossy(piece) = FlattenSeq(HeardOf(piece))
<1>1. DOMAIN piece = 1..Len(piece)
  OBVIOUS
<1> QED BY <1>1, Zenon DEF Lossy, HeardOf, HeardAt

LEMMA LossyType ==
  ASSUME NEW piece \in Seq(Byte)
  PROVE  HeardOf(piece) \in Seq(Seq(Glyph)) /\ Lossy(piece) \in Seq(Glyph)
<1>1. \A c \in Glyph : <<c>> \in Seq(Glyph)
  OBVIOUS
<1>2. <<>> \in Seq(Glyph)
  BY EmptySeq
<1>3. ASSUME NEW i \in 1..Len(piece) PROVE HeardAt(piece, i) \in Seq(Glyph)
  <2>1. piece[i] \in Glyph /\ Wide \in Glyph /\ Bad \in Glyph
    <3>1. piece[i] \in Byte
      OBVIOUS
    <3> QED BY <3>1, Zenon DEF Glyph
  <2> QED BY <1>1, <1>2, <2>1, Zenon DEF HeardAt
<1>4. HeardOf(piece) \in [1..Len(piece) -> Seq(Glyph)]
  BY <1>3, Zenon DEF HeardOf
<1>5. HeardOf(piece) \in Seq(Seq(Glyph))
  <2>1. Len(piece) \in Nat
    OBVIOUS
  <2> QED BY <1>4, <2>1
<1> QED BY <1>5, LossyIs, FlattenedType

-------------------------------------------------------------------------------
(* Reports.                                                                *)

LEMMA FewInSequence == SetToSeq({}) = <<>> /\ \A p : SetToSeq({p}) = <<p>>
<1>1. Cardinality({}) = 0 /\ \A p : Cardinality({p}) = 1
  BY FS_EmptySet, FS_Singleton
<1>2. SetToSeq({}) = <<>>
  <2>1. \A f \in [1..0 -> {}] : f = <<>>
    OBVIOUS
  <2>2. \E f \in [1..0 -> {}] : IsInjective(f)
    <3>1. <<>> \in [1..0 -> {}] /\ DOMAIN <<>> = {}
      OBVIOUS
    <3> QED BY <3>1, Zenon DEF IsInjective
  <2> DEFINE f == CHOOSE f \in [1..0 -> {}] : IsInjective(f)
  <2>3. f \in [1..0 -> {}]
    BY <2>2, Zenon
  <2> QED BY <1>1, <2>1, <2>3, Zenon DEF SetToSeq
<1>3. ASSUME NEW p PROVE SetToSeq({p}) = <<p>>
  <2>1. \A f \in [1..1 -> {p}] : f = <<p>>
    OBVIOUS
  <2>2. \E f \in [1..1 -> {p}] : IsInjective(f)
    <3>1. <<p>> \in [1..1 -> {p}] /\ DOMAIN <<p>> = 1..1
      OBVIOUS
    <3>2. \A i, j \in 1..1 : i = j
      OBVIOUS
    <3>3. IsInjective(<<p>>)
      BY <3>1, <3>2, Zenon DEF IsInjective
    <3> QED BY <3>1, <3>3
  <2> DEFINE f == CHOOSE f \in [1..1 -> {p}] : IsInjective(f)
  <2>3. f \in [1..1 -> {p}]
    BY <2>2, Zenon
  <2> QED BY <1>1, <2>1, <2>3, Zenon DEF SetToSeq
<1> QED BY <1>2, <1>3

Percentage == 0..100
Latest == (-1)..100

LEMMA PercentagesAreLatest == Percentage \subseteq Latest /\ -1 \in Latest
BY DEF Percentage, Latest

Reported == [last : Latest, reports : Seq(Percentage)]

\* What a line shows.
ShownIn(seg) == SetToSeq(Captures(seg) \cap Percentage)

LEMMA OneOrNone ==
  ASSUME NEW A, NEW seg \in Seq(A)
  PROVE  \/ Captures(seg) \cap Percentage = {} /\ ShownIn(seg) = <<>>
         \/ \E p \in Percentage : Captures(seg) \cap Percentage = {p} /\ ShownIn(seg) = <<p>>
<1>1. CASE Captures(seg) \cap Percentage = {}
  BY <1>1, FewInSequence, Zenon DEF ShownIn
<1>2. CASE Captures(seg) \cap Percentage # {}
  <2>1. PICK p : p \in Captures(seg) \cap Percentage
    BY <1>2, Zenon
  <2>2. \A q \in Captures(seg) \cap Percentage : q = p
    BY <2>1, OneCapture, Zenon
  <2>3. Captures(seg) \cap Percentage = {p} /\ p \in Percentage
    BY <2>1, <2>2, Zenon
  <2> QED BY <2>3, FewInSequence, Zenon DEF ShownIn
<1> QED BY <1>1, <1>2

NewIn(st, seg) == {p \in Captures(seg) \cap Percentage : p # st.last}

\* A percentage that is the last one again is not reported.
LEMMA ScanIs ==
  ASSUME NEW A, NEW seg \in Seq(A), NEW st
  PROVE  \/ /\ NewIn(st, seg) = {}
            /\ Scan(st, seg) = [last |-> st.last, reports |-> st.reports \o <<>>]
         \/ \E p \in Percentage :
              /\ NewIn(st, seg) = {p}
              /\ Scan(st, seg) = [last |-> p, reports |-> st.reports \o <<p>>]
<1> DEFINE new == NewIn(st, seg)
<1>1. Scan(st, seg) = [last    |-> IF new = {} THEN st.last ELSE CHOOSE p \in new : TRUE,
                       reports |-> st.reports \o SetToSeq(new)]
  <2>1. {p \in Captures(seg) : p # st.last /\ p \in Percentage} = new
    BY Zenon DEF NewIn
  <2> HIDE DEF new
  <2> QED BY <2>1 DEF Scan, Percentage
<1>2. CASE new = {}
  <2> HIDE DEF new
  <2>1. (IF new = {} THEN st.last ELSE CHOOSE p \in new : TRUE) = st.last
    BY <1>2, Zenon
  <2>2. Scan(st, seg) = [last |-> st.last, reports |-> st.reports \o <<>>]
    BY <1>1, <1>2, <2>1, FewInSequence, Zenon
  <2> QED BY <1>2, <2>2, Zenon DEF new
<1>3. CASE new # {}
  <2>1. PICK p \in Percentage : p \in new
    BY <1>3, Zenon DEF NewIn
  <2>2. \A q \in new : q = p
    BY <2>1, OneCapture, Zenon DEF NewIn
  <2>3. new = {p}
    BY <2>1, <2>2, Zenon
  <2> HIDE DEF new
  <2>4. (CHOOSE q \in new : TRUE) = p
    BY <2>1, <2>2, Zenon
  <2>5. (IF new = {} THEN st.last ELSE CHOOSE q \in new : TRUE) = p
    BY <1>3, <2>4, Zenon
  <2>6. SetToSeq(new) = <<p>>
    BY <2>3, FewInSequence, Zenon
  <2>7. Scan(st, seg) = [last |-> p, reports |-> st.reports \o <<p>>]
    BY <1>1, <2>5, <2>6, Zenon
  <2> QED BY <2>3, <2>7, Zenon DEF new
<1> QED BY <1>2, <1>3

LEMMA ReportedType ==
  ASSUME NEW p \in Latest, NEW r \in Seq(Percentage)
  PROVE  [last |-> p, reports |-> r] \in Reported
BY Zenon DEF Reported

LEMMA ScanType ==
  ASSUME NEW A, NEW seg \in Seq(A), NEW st \in Reported
  PROVE  Scan(st, seg) \in Reported
<1>1. st.last \in Latest /\ st.reports \in Seq(Percentage)
  BY Zenon DEF Reported
<1>2. st.reports \o <<>> \in Seq(Percentage)
  BY <1>1
<1>3. CASE Scan(st, seg) = [last |-> st.last, reports |-> st.reports \o <<>>]
  BY <1>1, <1>2, <1>3, ReportedType, Zenon
<1>4. ASSUME NEW p \in Percentage, Scan(st, seg) = [last |-> p, reports |-> st.reports \o <<p>>]
      PROVE  Scan(st, seg) \in Reported
  <2>1. st.reports \o <<p>> \in Seq(Percentage) /\ p \in Latest
    BY <1>1, PercentagesAreLatest
  <2> QED BY <1>4, <2>1, ReportedType, Zenon
<1> QED BY <1>3, <1>4, ScanIs, Zenon

ScanStep(state, lines, g) ==
  [k \in 0..Len(lines) |-> IF k = 0 THEN state ELSE Scan(g[k - 1], lines[k])]

LEMMA ScanExists ==
  ASSUME NEW A, NEW lines \in Seq(Seq(A)), NEW st \in Reported
  PROVE  \E g \in [0..Len(lines) -> Reported] : g = ScanStep(st, lines, g)
<1> DEFINE n == Len(lines)
           step == [i \in 1..n |-> [b \in Reported |-> Scan(b, lines[i])]]
<1>1. n \in Nat /\ \A i \in 1..n : lines[i] \in Seq(A)
  OBVIOUS
<1>2. \A i \in 0..n : i # 0 => i \in 1..n /\ i - 1 \in 0..n
  OBVIOUS
<1>3. step \in [1..n -> [Reported -> Reported]]
  BY <1>1, ScanType, Zenon
<1>4. \A i \in 1..n, b \in Reported : step[i][b] = Scan(b, lines[i])
  BY Zenon
<1> HIDE DEF n, step
<1>5. PICK f \in [0..n -> Reported] : Recursive(n, st, step, f)
  BY <1>1, <1>3, FunctionByOne, Zenon
<1>6. \A i \in 0..n : i # 0 => step[i][f[i - 1]] = Scan(f[i - 1], lines[i])
  BY <1>2, <1>4, Zenon
<1>7. [i \in 0..n |-> IF i = 0 THEN st ELSE step[i][f[i - 1]]] = ScanStep(st, lines, f)
  BY <1>6, Zenon DEF ScanStep, n
<1>8. f = ScanStep(st, lines, f)
  BY <1>5, <1>7, Zenon DEF Recursive
<1> QED BY <1>8, Zenon DEF n

Scanning(st, lines, e) ==
  /\ e \in [0..Len(lines) -> Reported]
  /\ e[0] = st
  /\ \A i \in 1..Len(lines) : e[i] = Scan(e[i - 1], lines[i])
  /\ ScanAll(st, lines) = e[Len(lines)]

LEMMA ScanAllIsScanning ==
  ASSUME NEW A, NEW lines \in Seq(Seq(A)), NEW st \in Reported
  PROVE  \E e : Scanning(st, lines, e)
<1> DEFINE e == CHOOSE g : g = ScanStep(st, lines, g)
<1>1. ScanAll(st, lines) = e[Len(lines)]
  BY Zenon DEF ScanAll, ScanStep
<1>2. e = ScanStep(st, lines, e)
  BY ScanExists, Zenon
<1> HIDE DEF e
<1> DEFINE n == Len(lines)
<1>3. /\ n \in Nat /\ 0 \in 0..n
      /\ \A i \in 1..n : i \in 0..n /\ i # 0 /\ lines[i] \in Seq(A)
  OBVIOUS
<1>4. e = [i \in 0..n |-> IF i = 0 THEN st ELSE Scan(e[i - 1], lines[i])]
  BY <1>2, Zenon DEF ScanStep
<1> HIDE DEF n
<1>5. e[0] = st /\ \A i \in 1..n : e[i] = Scan(e[i - 1], lines[i])
  BY <1>3, <1>4, Zenon
<1> DEFINE S == {i \in 0..n : e[i] \in Reported}
<1>6. 0 \in S
  BY <1>3, <1>5, Zenon
<1>7. ASSUME NEW i \in 1..n, i - 1 \in S PROVE i \in S
  <2>1. e[i] \in Reported
    BY <1>3, <1>5, <1>7, ScanType, Zenon
  <2> QED BY <1>3, <2>1, Zenon
<1>8. 0..n \subseteq S
  <2> HIDE DEF S
  <2> QED BY <1>3, <1>6, <1>7, IndicesFromZero, Zenon
<1>9. e \in [0..n -> Reported]
  <2>1. \A i \in 0..n : e[i] \in Reported
    BY <1>8, Zenon
  <2> QED BY <1>4, <2>1, Zenon
<1> QED BY <1>1, <1>5, <1>9, Zenon DEF Scanning, n

LEMMA ScanAllByOne ==
  ASSUME NEW A, NEW st \in Reported
  PROVE  /\ ScanAll(st, <<>>) = st
         /\ \A lines \in Seq(Seq(A)) : ScanAll(st, lines) \in Reported
         /\ \A lines \in Seq(Seq(A)), seg \in Seq(A) :
              ScanAll(st, Append(lines, seg)) = Scan(ScanAll(st, lines), seg)
<1>1. ScanAll(st, <<>>) = st
  <2>1. <<>> \in Seq(Seq(A)) /\ Len(<<>>) = 0
    BY EmptySeq
  <2>2. PICK e : Scanning(st, <<>>, e)
    BY <2>1, ScanAllIsScanning, Zenon
  <2>3. e[0] = st /\ ScanAll(st, <<>>) = e[Len(<<>>)]
    BY <2>2, Zenon DEF Scanning
  <2> QED BY <2>1, <2>3, Zenon
<1>2. ASSUME NEW lines \in Seq(Seq(A)) PROVE ScanAll(st, lines) \in Reported
  <2>1. PICK e : Scanning(st, lines, e)
    BY ScanAllIsScanning, Zenon
  <2>2. Len(lines) \in 0..Len(lines)
    OBVIOUS
  <2> QED BY <2>1, <2>2, Zenon DEF Scanning
<1>3. ASSUME NEW lines \in Seq(Seq(A)), NEW seg \in Seq(A)
      PROVE  ScanAll(st, Append(lines, seg)) = Scan(ScanAll(st, lines), seg)
  <2> DEFINE t == Append(lines, seg)
             n == Len(lines)
  <2>1. /\ n \in Nat /\ t \in Seq(Seq(A)) /\ Len(t) = n + 1 /\ t[n + 1] = seg
        /\ \A i \in 1..n : t[i] = lines[i]
    OBVIOUS
  <2> HIDE DEF t, n
  <2>2. PICK e : Scanning(st, lines, e)
    BY ScanAllIsScanning, Zenon
  <2>3. PICK f : Scanning(st, t, f)
    BY <2>1, ScanAllIsScanning, Zenon
  <2> DEFINE S == {k \in 0..n : e[k] = f[k]}
  <2>4. 0 \in S
    <3>1. e[0] = f[0]
      BY <2>2, <2>3, Zenon DEF Scanning
    <3>2. 0 \in 0..n
      BY <2>1
    <3> QED BY <3>1, <3>2, Zenon
  <2>5. ASSUME NEW i \in 1..n, i - 1 \in S PROVE i \in S
    <3>1. i \in 0..n /\ i \in 1..Len(t)
      BY <2>1
    <3>2. e[i - 1] = f[i - 1]
      BY <2>5
    <3>3. e[i] = Scan(e[i - 1], lines[i])
      BY <2>2, Zenon DEF Scanning, n
    <3>4. f[i] = Scan(f[i - 1], lines[i])
      BY <2>1, <2>3, <3>1, Zenon DEF Scanning
    <3> QED BY <3>1, <3>2, <3>3, <3>4, Zenon
  <2>6. 0..n \subseteq S
    <3> HIDE DEF S
    <3> QED BY <2>1, <2>4, <2>5, IndicesFromZero, Zenon
  <2>7. n \in 0..n /\ n + 1 \in 1..Len(t) /\ (n + 1) - 1 = n
    BY <2>1
  <2>8. e[n] = f[n]
    BY <2>6, <2>7, Zenon
  <2>9. f[n + 1] = Scan(f[n], seg)
    BY <2>1, <2>3, <2>7, Zenon DEF Scanning
  <2>10. ScanAll(st, lines) = e[n] /\ ScanAll(st, t) = f[n + 1]
    BY <2>1, <2>2, <2>3, Zenon DEF Scanning, n
  <2> QED BY <2>8, <2>9, <2>10, Zenon DEF t
<1> QED BY <1>1, <1>2, <1>3

-------------------------------------------------------------------------------
(* What is reported are the changes of what is shown.                      *)

ChangeAt(s, i) == IF i > 1 /\ s[i] = s[i - 1] THEN <<>> ELSE <<s[i]>>

ChangesOf(s) == [i \in 1..Len(s) |-> ChangeAt(s, i)]

LEMMA ChangesIs ==
  ASSUME NEW A, NEW s \in Seq(A)
  PROVE  /\ Changes(s) = FlattenSeq(ChangesOf(s))
         /\ ChangesOf(s) \in Seq(Seq(A))
<1>1. DOMAIN s = 1..Len(s) /\ Len(s) \in Nat /\ \A i \in 1..Len(s) : <<s[i]>> \in Seq(A)
  OBVIOUS
<1>2. <<>> \in Seq(A)
  BY EmptySeq
<1>3. ChangesOf(s) \in [1..Len(s) -> Seq(A)]
  BY <1>1, <1>2, Zenon DEF ChangesOf, ChangeAt
<1>4. ChangesOf(s) \in Seq(Seq(A))
  BY <1>1, <1>3
<1>5. Changes(s) = FlattenSeq(ChangesOf(s))
  BY <1>1, Zenon DEF Changes, ChangesOf, ChangeAt
<1> QED BY <1>4, <1>5

\* The last one, or -1.
LastOf(s) == IF s = <<>> THEN -1 ELSE s[Len(s)]

LEMMA AppendIs ==
  ASSUME NEW A, NEW s \in Seq(A), NEW p \in A
  PROVE  /\ Len(s) \in Nat /\ Append(s, p) \in Seq(A)
         /\ Len(Append(s, p)) = Len(s) + 1 /\ Append(s, p)[Len(s) + 1] = p
         /\ \A i \in 1..Len(s) : Append(s, p)[i] = s[i] /\ s[i] \in A
OBVIOUS

LEMMA ChangesByOne ==
  ASSUME NEW s \in Seq(Percentage), NEW p \in Percentage
  PROVE  /\ p = LastOf(s) => Changes(Append(s, p)) = Changes(s) \o <<>>
         /\ p # LastOf(s) => Changes(Append(s, p)) = Changes(s) \o <<p>>
<1> DEFINE n == Len(s)
           t == Append(s, p)
           A == Percentage
<1>0. s \in Seq(A) /\ p \in A /\ A \subseteq Int /\ -1 \notin A
  BY DEF Percentage
<1> HIDE DEF A
<1>1. /\ n \in Nat /\ t \in Seq(A) /\ Len(t) = n + 1 /\ t[n + 1] = p
      /\ \A i \in 1..n : t[i] = s[i] /\ s[i] \in A
  BY <1>0, AppendIs
<1>2. s = <<>> <=> n = 0
  BY <1>0
<1>3. LastOf(s) = p <=> n + 1 > 1 /\ t[n + 1] = t[n]
  <2>1. CASE n = 0
    BY <1>0, <1>1, <1>2, <2>1 DEF LastOf
  <2>2. CASE n # 0
    BY <1>0, <1>1, <1>2, <2>2 DEF LastOf
  <2> QED BY <2>1, <2>2
<1> HIDE DEF n, t
<1>4. (n + 1) - 1 = n
  BY <1>1
<1>5. /\ p = LastOf(s) => ChangeAt(t, n + 1) = <<>>
      /\ p # LastOf(s) => ChangeAt(t, n + 1) = <<p>>
  BY <1>1, <1>3, <1>4, Zenon DEF ChangeAt
<1>6. ChangesOf(s) \in Seq(Seq(A)) /\ ChangesOf(t) \in Seq(Seq(A))
  BY <1>1, ChangesIs, Zenon DEF A
<1>7. /\ Len(ChangesOf(s)) = n /\ Len(ChangesOf(t)) = n + 1
      /\ \A i \in 1..n : ChangesOf(s)[i] = ChangeAt(s, i)
      /\ \A i \in 1..(n + 1) : ChangesOf(t)[i] = ChangeAt(t, i)
  BY <1>1 DEF ChangesOf, n
<1>8. \A i \in 1..n : ChangeAt(t, i) = ChangeAt(s, i)
  <2>1. ASSUME NEW i \in 1..n PROVE ChangeAt(t, i) = ChangeAt(s, i)
    <3>1. t[i] = s[i] /\ (i > 1 => t[i - 1] = s[i - 1])
      BY <1>1
    <3> QED BY <3>1, Zenon DEF ChangeAt
  <2> QED BY <2>1
<1> DEFINE a == ChangesOf(s)
           b == ChangesOf(t)
           c == ChangeAt(t, n + 1)
<1>9. c \in Seq(A) /\ b[n + 1] = c
  <2>1. n + 1 \in 1..(n + 1)
    BY <1>1
  <2>2. b[n + 1] \in Seq(A)
    BY <1>6, <1>7, <2>1
  <2> QED BY <1>7, <2>1, <2>2, Zenon
<1>10. \A i \in 1..n : b[i] = a[i]
  <2>1. \A i \in 1..n : i \in 1..(n + 1)
    BY <1>1
  <2> QED BY <1>7, <1>8, <2>1, Zenon
<1>11. Changes(s) = FlattenSeq(a) /\ Changes(t) = FlattenSeq(b)
  BY <1>1, ChangesIs, Zenon DEF A
<1> HIDE DEF a, b, c
<1>12. b = Append(a, c)
  <2>1. a \in Seq(Seq(A)) /\ b \in Seq(Seq(A)) /\ Len(a) = n /\ Len(b) = n + 1
    BY <1>6, <1>7 DEF a, b
  <2> QED BY <1>1, <1>9, <1>10, <2>1
<1>13. FlattenSeq(b) = FlattenSeq(a) \o c
  BY <1>6, <1>9, <1>12, FlattenAppend, Zenon DEF a
<1>14. Changes(t) = Changes(s) \o c
  BY <1>11, <1>13, Zenon
<1> QED BY <1>5, <1>14, Zenon DEF c, t

LEMMA ChangesType ==
  ASSUME NEW A, NEW s \in Seq(A)
  PROVE  Changes(s) \in Seq(A)
BY ChangesIs, FlattenedType, Zenon

\* What has been reported of the percentages sh.
Seen(sh) == [last |-> LastOf(sh), reports |-> Changes(sh)]

LEMMA SeenType ==
  ASSUME NEW sh \in Seq(Percentage)
  PROVE  Seen(sh) \in Reported
<1>1. LastOf(sh) \in Latest
  <2>1. sh # <<>> => Len(sh) \in 1..Len(sh)
    OBVIOUS
  <2>2. sh # <<>> => sh[Len(sh)] \in Percentage
    BY <2>1
  <2> QED BY <2>2, PercentagesAreLatest, Zenon DEF LastOf
<1> QED BY <1>1, ChangesType, ReportedType, Zenon DEF Seen

LEMMA SeenNothing ==
  Seen(<<>>) = [last |-> -1, reports |-> <<>>]
<1>1. Changes(<<>>) = <<>>
  <2>1. <<>> \in Seq({}) /\ Len(<<>>) = 0
    BY EmptySeq
  <2>2. Changes(<<>>) = FlattenSeq(ChangesOf(<<>>)) /\ ChangesOf(<<>>) \in Seq(Seq({}))
    BY <2>1, ChangesIs, Zenon
  <2>3. ChangesOf(<<>>) = <<>>
    BY <2>1 DEF ChangesOf
  <2>4. FlattenSeq(<<>>) = <<>>
    BY <2>1, Zenon DEF FlattenSeq
  <2> QED BY <2>2, <2>3, <2>4, Zenon
<1>2. LastOf(<<>>) = -1
  BY Zenon DEF LastOf
<1> QED BY <1>1, <1>2, Zenon DEF Seen

LEMMA ScanSeen ==
  ASSUME NEW A, NEW seg \in Seq(A), NEW sh \in Seq(Percentage)
  PROVE  Scan(Seen(sh), seg) = Seen(sh \o ShownIn(seg))
<1> DEFINE l == LastOf(sh)
           r == Changes(sh)
<1>1. Seen(sh).last = l /\ Seen(sh).reports = r
  BY DEF Seen
<1>2. r \in Seq(Percentage) /\ r \o <<>> = r /\ sh \o <<>> = sh
  BY ChangesType, ConcatEmptySeq, Zenon
<1> HIDE DEF l, r
<1>3. CASE Captures(seg) \cap Percentage = {} /\ ShownIn(seg) = <<>>
  <2>1. NewIn(Seen(sh), seg) = {}
    BY <1>3, Zenon DEF NewIn
  <2>2. Scan(Seen(sh), seg) = [last |-> l, reports |-> r]
    BY <1>1, <1>2, <2>1, ScanIs, Zenon
  <2> QED BY <1>2, <1>3, <2>2, Zenon DEF Seen, l, r
<1>4. ASSUME NEW p \in Percentage, Captures(seg) \cap Percentage = {p}, ShownIn(seg) = <<p>>
      PROVE  Scan(Seen(sh), seg) = Seen(sh \o ShownIn(seg))
  <2>1. sh \o <<p>> = Append(sh, p)
    OBVIOUS
  <2>2. LastOf(Append(sh, p)) = p
    <3>1. Append(sh, p) # <<>> /\ Append(sh, p)[Len(Append(sh, p))] = p
      OBVIOUS
    <3> QED BY <3>1, Zenon DEF LastOf
  <2>3. CASE p = l
    <3>1. NewIn(Seen(sh), seg) = {}
      BY <1>1, <1>4, <2>3, Zenon DEF NewIn
    <3>2. Scan(Seen(sh), seg) = [last |-> l, reports |-> r]
      BY <1>1, <1>2, <3>1, ScanIs, Zenon
    <3>3. Changes(Append(sh, p)) = r
      BY <1>2, <2>3, ChangesByOne, Zenon DEF l, r
    <3>4. Seen(Append(sh, p)) = [last |-> l, reports |-> r]
      BY <2>2, <2>3, <3>3, Zenon DEF Seen
    <3> QED BY <1>4, <2>1, <3>2, <3>4, Zenon
  <2>4. CASE p # l
    <3>1. NewIn(Seen(sh), seg) = {p}
      BY <1>1, <1>4, <2>4, Zenon DEF NewIn
    <3>2. \A q : NewIn(Seen(sh), seg) = {q} => q = p
      BY <3>1, Zenon
    <3>3. Scan(Seen(sh), seg) = [last |-> p, reports |-> r \o <<p>>]
      BY <1>1, <3>1, <3>2, ScanIs, Zenon
    <3>4. Changes(Append(sh, p)) = r \o <<p>>
      BY <2>4, ChangesByOne, Zenon DEF l, r
    <3>5. Seen(Append(sh, p)) = [last |-> p, reports |-> r \o <<p>>]
      BY <2>2, <3>4, Zenon DEF Seen
    <3> QED BY <1>4, <2>1, <3>3, <3>5, Zenon
  <2> QED BY <2>3, <2>4
<1> QED BY <1>3, <1>4, OneOrNone, Zenon

ShownEach(lines) == [k \in 1..Len(lines) |-> ShownIn(lines[k])]

ShownOf(lines) == FlattenSeq(ShownEach(lines))

LEMMA ShownInType ==
  ASSUME NEW A, NEW seg \in Seq(A)
  PROVE  ShownIn(seg) \in Seq(Percentage)
<1>1. <<>> \in Seq(Percentage) /\ \A p \in Percentage : <<p>> \in Seq(Percentage)
  OBVIOUS
<1> QED BY <1>1, OneOrNone, Zenon

LEMMA ShownType ==
  ASSUME NEW A, NEW lines \in Seq(Seq(A))
  PROVE  ShownEach(lines) \in Seq(Seq(Percentage)) /\ ShownOf(lines) \in Seq(Percentage)
<1>1. Len(lines) \in Nat /\ \A k \in 1..Len(lines) : lines[k] \in Seq(A)
  OBVIOUS
<1>2. ShownEach(lines) \in [1..Len(lines) -> Seq(Percentage)]
  BY <1>1, ShownInType, Zenon DEF ShownEach
<1>3. ShownEach(lines) \in Seq(Seq(Percentage))
  <2> DEFINE n == Len(lines)
             B == Seq(Percentage)
             f == ShownEach(lines)
  <2>1. n \in Nat /\ f \in [1..n -> B]
    BY <1>1, <1>2, Zenon
  <2> HIDE DEF n, B, f
  <2>2. f \in Seq(B)
    BY <2>1
  <2> QED BY <2>2, Zenon DEF B, f
<1>4. FlattenSeq(ShownEach(lines)) \in Seq(Percentage)
  BY <1>3, FlattenedType
<1> QED BY <1>3, <1>4, Zenon DEF ShownOf

LEMMA ShownByOne ==
  /\ ShownOf(<<>>) = <<>>
  /\ \A A : \A lines \in Seq(Seq(A)), seg \in Seq(A) :
       ShownOf(Append(lines, seg)) = ShownOf(lines) \o ShownIn(seg)
<1>1. ShownOf(<<>>) = <<>>
  <2>1. Len(<<>>) = 0
    OBVIOUS
  <2>2. ShownEach(<<>>) = <<>>
    BY <2>1 DEF ShownEach
  <2> QED BY <2>1, <2>2, Zenon DEF FlattenSeq, ShownOf
<1>2. ASSUME NEW A, NEW lines \in Seq(Seq(A)), NEW seg \in Seq(A)
      PROVE  ShownOf(Append(lines, seg)) = ShownOf(lines) \o ShownIn(seg)
  <2> DEFINE n == Len(lines)
             t == Append(lines, seg)
             a == ShownEach(lines)
             b == ShownEach(t)
  <2>1. /\ n \in Nat /\ t \in Seq(Seq(A)) /\ Len(t) = n + 1 /\ t[n + 1] = seg
        /\ \A i \in 1..n : t[i] = lines[i]
    OBVIOUS
  <2> HIDE DEF n, t
  <2>2. a \in Seq(Seq(Percentage)) /\ b \in Seq(Seq(Percentage)) /\ ShownIn(seg) \in Seq(Percentage)
    BY <2>1, ShownType, ShownInType, Zenon
  <2>3. /\ a = [k \in 1..n |-> ShownIn(lines[k])]
        /\ b = [k \in 1..(n + 1) |-> ShownIn(t[k])]
    BY <2>1, Zenon DEF ShownEach, n
  <2> HIDE DEF a, b
  <2>4. n + 1 \in 1..(n + 1) /\ \A k \in 1..n : k \in 1..(n + 1)
    BY <2>1
  <2>5. b[n + 1] = ShownIn(seg) /\ \A k \in 1..n : b[k] = a[k]
    BY <2>1, <2>3, <2>4, Zenon
  <2>6. Len(a) = n /\ Len(b) = n + 1
    BY <2>1, <2>2, <2>3
  <2>7. b = Append(a, ShownIn(seg))
    BY <2>1, <2>2, <2>5, <2>6
  <2>8. FlattenSeq(b) = FlattenSeq(a) \o ShownIn(seg)
    BY <2>2, <2>7, FlattenAppend, Zenon
  <2> QED BY <2>8, Zenon DEF ShownOf, a, b, t
<1> QED BY <1>1, <1>2

LEMMA ConcatIs ==
  ASSUME NEW A, NEW s \in Seq(A), NEW t \in Seq(A), NEW u \in Seq(A)
  PROVE  s \o t \in Seq(A) /\ (s \o t) \o u = s \o (t \o u)
OBVIOUS

LEMMA PercentagesConcat ==
  \A p, q, r \in Seq(Percentage) :
     p \o q \in Seq(Percentage) /\ (p \o q) \o r = p \o (q \o r)
BY SMTT(60)

LEMMA ScanAllSeen ==
  ASSUME NEW A, NEW lines \in Seq(Seq(A)), NEW sh \in Seq(Percentage)
  PROVE  ScanAll(Seen(sh), lines) = Seen(sh \o ShownOf(lines))
<1> DEFINE P(t) == ScanAll(Seen(sh), t) = Seen(sh \o ShownOf(t))
           S == {t \in Seq(Seq(A)) : P(t)}
<1>1. <<>> \in S
  <2>1. ScanAll(Seen(sh), <<>>) = Seen(sh)
    BY SeenType, ScanAllByOne, Zenon
  <2>2. sh \o ShownOf(<<>>) = sh
    BY ShownByOne, ConcatEmptySeq, Zenon
  <2>3. <<>> \in Seq(Seq(A))
    BY EmptySeq
  <2> QED BY <2>1, <2>2, <2>3, Zenon
<1>2. ASSUME NEW t \in Seq(Seq(A)), NEW seg \in Seq(A), t \in S PROVE Append(t, seg) \in S
  <2>1. ShownOf(t) \in Seq(Percentage) /\ ShownIn(seg) \in Seq(Percentage)
    BY ShownType, ShownInType, Zenon
  <2>2. /\ sh \o ShownOf(t) \in Seq(Percentage)
        /\ (sh \o ShownOf(t)) \o ShownIn(seg) = sh \o (ShownOf(t) \o ShownIn(seg))
    BY <2>1, PercentagesConcat, Zenon
  <2>3. ScanAll(Seen(sh), Append(t, seg)) = Scan(ScanAll(Seen(sh), t), seg)
    <3>1. Seen(sh) \in Reported
      BY SeenType, Zenon
    <3> QED BY <3>1, ScanAllByOne
  <2>4. ScanAll(Seen(sh), t) = Seen(sh \o ShownOf(t))
    BY <1>2, Zenon
  <2>5. Scan(Seen(sh \o ShownOf(t)), seg) = Seen((sh \o ShownOf(t)) \o ShownIn(seg))
    BY <2>2, ScanSeen, Zenon
  <2>6. ShownOf(Append(t, seg)) = ShownOf(t) \o ShownIn(seg)
    BY ShownByOne, Zenon
  <2>7. P(Append(t, seg))
    BY <2>2, <2>3, <2>4, <2>5, <2>6, Zenon
  <2>8. Append(t, seg) \in Seq(Seq(A))
    OBVIOUS
  <2> QED BY <2>7, <2>8, Zenon
<1>3. Seq(Seq(A)) \subseteq S
  <2> HIDE DEF S
  <2> QED BY <1>1, <1>2, SequencesFromEmpty, Zenon
<1> QED BY <1>3, Zenon

LEMMA ShownOfConcat ==
  ASSUME NEW A, NEW a \in Seq(Seq(A)), NEW b \in Seq(Seq(A))
  PROVE  ShownOf(a \o b) = ShownOf(a) \o ShownOf(b)
<1> DEFINE P(t) == ShownOf(a \o t) = ShownOf(a) \o ShownOf(t)
           S == {t \in Seq(Seq(A)) : P(t)}
<1>1. <<>> \in S
  <2>1. a \o <<>> = a /\ ShownOf(a) \in Seq(Percentage)
    BY ConcatEmptySeq, ShownType, Zenon
  <2>2. ShownOf(a) \o ShownOf(<<>>) = ShownOf(a)
    BY <2>1, ShownByOne, ConcatEmptySeq, Zenon
  <2>3. <<>> \in Seq(Seq(A))
    BY EmptySeq
  <2> QED BY <2>1, <2>2, <2>3, Zenon
<1>2. ASSUME NEW t \in Seq(Seq(A)), NEW seg \in Seq(A), t \in S PROVE Append(t, seg) \in S
  <2>1. /\ ShownOf(a) \in Seq(Percentage) /\ ShownOf(t) \in Seq(Percentage)
        /\ ShownIn(seg) \in Seq(Percentage)
    BY ShownType, ShownInType, Zenon
  <2>2. (ShownOf(a) \o ShownOf(t)) \o ShownIn(seg) = ShownOf(a) \o (ShownOf(t) \o ShownIn(seg))
    <3> DEFINE x == ShownOf(a)
               y == ShownOf(t)
               z == ShownIn(seg)
    <3>1. x \in Seq(Percentage) /\ y \in Seq(Percentage) /\ z \in Seq(Percentage)
      BY <2>1
    <3> HIDE DEF x, y, z
    <3>2. (x \o y) \o z = x \o (y \o z)
      BY <3>1, SMTT(60)
    <3> QED BY <3>2, Zenon DEF x, y, z
  <2>3. a \o Append(t, seg) = Append(a \o t, seg) /\ a \o t \in Seq(Seq(A))
    BY AppendAfter
  <2>4. /\ ShownOf(Append(a \o t, seg)) = ShownOf(a \o t) \o ShownIn(seg)
        /\ ShownOf(Append(t, seg)) = ShownOf(t) \o ShownIn(seg)
    BY <2>3, ShownByOne, Zenon
  <2>5. ShownOf(a \o t) = ShownOf(a) \o ShownOf(t)
    BY <1>2, Zenon
  <2>6. P(Append(t, seg))
    BY <2>2, <2>3, <2>4, <2>5, Zenon
  <2>7. Append(t, seg) \in Seq(Seq(A))
    OBVIOUS
  <2> QED BY <2>6, <2>7, Zenon
<1>3. Seq(Seq(A)) \subseteq S
  <2> HIDE DEF S
  <2> QED BY <1>1, <1>2, SequencesFromEmpty, Zenon
<1> QED BY <1>3, Zenon

-------------------------------------------------------------------------------
(* A line with one character more.                                         *)

\* The last d characters, and whether they are digits.
LastOnes(x, d) == Ending(x, Len(x) - d)
AtEnd(x, d) == d <= Len(x) /\ \A i \in (Len(x) - d + 1)..Len(x) : IsDigit(x[i])

LEMMA NoneAtEnd ==
  ASSUME NEW A, NEW x \in Seq(A)
  PROVE  AtEnd(x, 0) /\ LastOnes(x, 0) = <<>>
<1>1. Len(x) \in Nat
  OBVIOUS
<1>2. 0 <= Len(x) /\ \A i : i \notin (Len(x) - 0 + 1)..Len(x)
  BY <1>1
<1>3. AtEnd(x, 0)
  BY <1>2, Zenon DEF AtEnd
<1>4. LastOnes(x, 0) = <<>>
  BY <1>1 DEF LastOnes, Ending
<1> QED BY <1>3, <1>4

LEMMA AtEndByOne ==
  ASSUME NEW A, NEW x \in Seq(A), NEW c \in A, NEW d \in Nat
  PROVE  /\ AtEnd(Append(x, c), d + 1) <=> IsDigit(c) /\ AtEnd(x, d)
         /\ AtEnd(x, d) => LastOnes(Append(x, c), d + 1) = Append(LastOnes(x, d), c)
<1> DEFINE n == Len(x)
           y == Append(x, c)
<1>1. /\ n \in Nat /\ y \in Seq(A) /\ Len(y) = n + 1 /\ y[n + 1] = c
      /\ \A i \in 1..n : y[i] = x[i] /\ x[i] \in A
  BY AppendIs, ZenonT(60)
<1> HIDE DEF n, y
<1>2. AtEnd(x, d) <=> d <= n /\ \A i \in (n - d + 1)..n : IsDigit(x[i])
  BY Zenon DEF AtEnd, n
<1>3. /\ AtEnd(y, d + 1) => d + 1 <= Len(y)
      /\ d + 1 <= Len(y) =>
           (AtEnd(y, d + 1) <=> \A i \in (Len(y) - (d + 1) + 1)..Len(y) : IsDigit(y[i]))
  BY Zenon DEF AtEnd
<1>4. d + 1 <= Len(y) <=> d <= n
  BY <1>1
<1>5. ASSUME d <= n
      PROVE  /\ \A i : i \in (Len(y) - (d + 1) + 1)..Len(y) <=> i \in (n - d + 1)..n \/ i = n + 1
             /\ \A i \in (n - d + 1)..n : y[i] = x[i]
  BY <1>1, <1>5
<1>6. AtEnd(y, d + 1) <=> IsDigit(c) /\ AtEnd(x, d)
  <2>1. CASE d <= n
    BY <1>1, <1>2, <1>3, <1>4, <1>5, <2>1, Zenon
  <2>2. CASE ~(d <= n)
    BY <1>2, <1>3, <1>4, <2>2, Zenon
  <2> QED BY <2>1, <2>2
<1>7. ASSUME AtEnd(x, d) PROVE LastOnes(y, d + 1) = Append(LastOnes(x, d), c)
  <2>1. d <= n
    BY <1>2, <1>7, Zenon
  <2>2. n - d \in 0..n /\ n - d \in 0..(n + 1) /\ n + 1 - (d + 1) = n - d
    BY <1>1, <2>1
  <2> DEFINE k == n - d
             a == Ending(x, k)
             b == Ending(y, k)
  <2>3. /\ a \in Seq(A) /\ Len(a) = n - k /\ \A i \in 1..(n - k) : a[i] = x[k + i]
    BY <2>2, EndingIs, Zenon DEF n
  <2>4. /\ b \in Seq(A) /\ Len(b) = n + 1 - k
        /\ \A i \in 1..(n + 1 - k) : b[i] = y[k + i]
    <3> HIDE DEF k
    <3>1. k \in 0..Len(y)
      BY <1>1, <2>2 DEF k
    <3>2. /\ b \in Seq(A) /\ Len(b) = Len(y) - k
          /\ \A i \in 1..(Len(y) - k) : b[i] = y[k + i]
      <4>1. y \in Seq(A)
        BY <1>1
      <4> QED BY <3>1, <4>1, EndingIs, Zenon
    <3>3. Len(y) = n + 1 /\ n \in Nat /\ k \in Nat /\ Len(y) - k = n + 1 - k
      BY <1>1, <3>1
    <3> HIDE DEF b
    <3> QED BY <3>2, <3>3
  <2> HIDE DEF k, a, b
  <2>5. k \in 0..n
    BY <2>2 DEF k
  <2>6. \A i \in 1..(n - k) : b[i] = a[i]
    <3> SUFFICES ASSUME NEW i \in 1..(n - k) PROVE b[i] = a[i]
      OBVIOUS
    <3>1. k + i \in 1..n /\ i \in 1..(n + 1 - k)
      BY <1>1, <2>5
    <3> QED BY <1>1, <2>3, <2>4, <3>1
  <2>7. b[n - k + 1] = c
    <3>1. n - k + 1 \in 1..(n + 1 - k) /\ k + (n - k + 1) = n + 1
      BY <1>1, <2>5
    <3> QED BY <1>1, <2>4, <3>1
  <2>8. b = Append(a, c)
    <3>1. n - k \in Nat /\ Len(b) = Len(a) + 1
      BY <1>1, <2>3, <2>4, <2>5
    <3> QED BY <2>3, <2>4, <2>6, <2>7, <3>1
  <2>9. LastOnes(x, d) = a
    BY Zenon DEF LastOnes, a, k, n
  <2>10. Len(y) - (d + 1) = k
    BY <1>1, <2>2 DEF k
  <2>11. LastOnes(y, d + 1) = b
    BY <2>10, Zenon DEF LastOnes, b
  <2> QED BY <2>8, <2>9, <2>11, Zenon
<1> QED BY <1>6, <1>7, Zenon DEF y

LEMMA MatchByOne ==
  ASSUME NEW A, NEW x \in Seq(A), NEW c \in A
  PROVE  /\ \A a, b \in 1..Len(x) : MatchAt(Append(x, c), a, b) <=> MatchAt(x, a, b)
         /\ \A a, b \in 1..(Len(x) + 1) :
              MatchAt(Append(x, c), a, b) /\ ~(a \in 1..Len(x) /\ b \in 1..Len(x)) =>
                /\ c = Percent /\ b = Len(x) + 1 /\ a \in 1..Len(x)
                /\ Len(x) + 1 - a \in 1..3 /\ AtEnd(x, Len(x) + 1 - a)
         /\ \A d \in 1..3 : c = Percent /\ AtEnd(x, d) =>
              /\ Len(x) + 1 - d \in 1..Len(x)
              /\ MatchAt(Append(x, c), Len(x) + 1 - d, Len(x) + 1)
<1> DEFINE n == Len(x)
           y == Append(x, c)
<1>1. /\ n \in Nat /\ y \in Seq(A) /\ Len(y) = n + 1 /\ y[n + 1] = c
      /\ \A i \in 1..n : y[i] = x[i] /\ x[i] \in A
  BY AppendIs, ZenonT(60)
<1> HIDE DEF n, y
<1>2. ASSUME NEW a \in 1..n, NEW b \in 1..n PROVE MatchAt(y, a, b) <=> MatchAt(x, a, b)
  <2>1. \A i \in a..(b - 1) : i \in 1..n
    BY <1>1
  <2>2. \A i \in a..(b - 1) : y[i] = x[i]
    BY <1>1, <2>1, Zenon
  <2>3. a \in 1..(n + 1) /\ b \in 1..(n + 1) /\ y[b] = x[b]
    BY <1>1
  <2>4. (\A i \in a..(b - 1) : IsDigit(y[i])) <=> (\A i \in a..(b - 1) : IsDigit(x[i]))
    BY <2>2, Zenon
  <2> QED BY <1>1, <2>3, <2>4, Zenon DEF MatchAt, n
<1>3. ASSUME NEW a \in 1..(n + 1), NEW b \in 1..(n + 1), MatchAt(y, a, b),
             ~(a \in 1..n /\ b \in 1..n)
      PROVE  /\ c = Percent /\ b = n + 1 /\ a \in 1..n
             /\ n + 1 - a \in 1..3 /\ AtEnd(x, n + 1 - a)
  <2>1. y[b] = Percent /\ b - a \in 1..3 /\ \A i \in a..(b - 1) : IsDigit(y[i])
    BY <1>3, Zenon DEF MatchAt
  <2>2. b = n + 1 /\ a \in 1..n
    BY <1>1, <1>3, <2>1
  <2>3. c = Percent
    BY <1>1, <2>1, <2>2, Zenon
  <2>4. \A i \in a..n : IsDigit(x[i])
    <3>1. \A i \in a..n : i \in a..(b - 1) /\ i \in 1..n
      BY <1>1, <2>2
    <3> QED BY <1>1, <2>1, <3>1, Zenon
  <2>5. n + 1 - a \in 1..3 /\ n + 1 - a <= n /\ n - (n + 1 - a) + 1 = a
    BY <1>1, <2>1, <2>2
  <2>6. AtEnd(x, n + 1 - a)
    BY <2>4, <2>5, Zenon DEF AtEnd, n
  <2> QED BY <2>2, <2>3, <2>5, <2>6
<1>4. ASSUME NEW d \in 1..3, c = Percent, AtEnd(x, d)
      PROVE  n + 1 - d \in 1..n /\ MatchAt(y, n + 1 - d, n + 1)
  <2>1. d <= n /\ \A i \in (n - d + 1)..n : IsDigit(x[i])
    BY <1>4, Zenon DEF AtEnd, n
  <2>2. /\ n + 1 - d \in 1..n /\ n + 1 - d \in 1..(n + 1) /\ n + 1 \in 1..(n + 1)
        /\ (n + 1) - (n + 1 - d) \in 1..3
        /\ \A i \in (n + 1 - d)..((n + 1) - 1) : i \in (n - d + 1)..n /\ i \in 1..n
    BY <1>1, <2>1
  <2>3. \A i \in (n + 1 - d)..((n + 1) - 1) : IsDigit(y[i])
    BY <1>1, <2>1, <2>2, Zenon
  <2> QED BY <1>1, <1>4, <2>2, <2>3, Zenon DEF MatchAt
<1> QED BY <1>2, <1>3, <1>4, Zenon DEF n, y

LEMMA SubSeqOfLonger ==
  ASSUME NEW A, NEW x \in Seq(A), NEW c \in A, NEW a \in 1..Len(x), NEW b \in 1..(Len(x) + 1)
  PROVE  SubSeq(Append(x, c), a, b - 1) = SubSeq(x, a, b - 1)
<1> DEFINE n == Len(x)
           y == Append(x, c)
<1>1. /\ n \in Nat /\ y \in Seq(A) /\ Len(y) = n + 1 /\ x \in Seq(A)
      /\ \A i \in 1..n : y[i] = x[i]
  BY AppendIs
<1>2. a \in 1..n /\ b \in 1..(n + 1)
  OBVIOUS
<1> HIDE DEF n, y
<1>3. \A i \in a..(b - 1) : i \in 1..n /\ y[i] = x[i]
  BY <1>1, <1>2
<1> DEFINE s == SubSeq(x, a, b - 1)
           t == SubSeq(y, a, b - 1)
<1>4. b - 1 \in 0..n
  BY <1>1, <1>2
<1>5. CASE b - 1 < a
  <2>1. s = <<>> /\ t = <<>>
    BY <1>1, <1>2, <1>4, <1>5
  <2> QED BY <2>1, Zenon DEF y
<1>6. CASE a <= b - 1
  <2>1. /\ s \in Seq(A) /\ Len(s) = b - a /\ \A i \in 1..(b - a) : s[i] = x[a + i - 1]
    BY <1>1, <1>2, <1>4, <1>6 DEF n
  <2>2. /\ t \in Seq(A) /\ Len(t) = b - a /\ \A i \in 1..(b - a) : t[i] = y[a + i - 1]
    BY <1>1, <1>2, <1>4, <1>6
  <2> HIDE DEF s, t
  <2>3. \A i \in 1..(b - a) : t[i] = s[i]
    <3>1. \A i \in 1..(b - a) : a + i - 1 \in a..(b - 1)
      BY <1>2, <1>1
    <3>2. \A i \in 1..(b - a) : y[a + i - 1] = x[a + i - 1]
      BY <1>3, <3>1, Zenon
    <3> QED BY <2>1, <2>2, <3>2, Zenon
  <2>4. t = s
    BY <2>1, <2>2, <2>3
  <2> QED BY <2>4, Zenon DEF s, t, y
<1> QED BY <1>1, <1>2, <1>4, <1>5, <1>6

\* A percentage of the line stays its percentage.
LEMMA CapturesKept ==
  ASSUME NEW A, NEW x \in Seq(A), NEW c \in A, c # Percent \/ Captures(x) # {}
  PROVE  Captures(Append(x, c)) = Captures(x)
<1> DEFINE n == Len(x)
           y == Append(x, c)
<1>1. n \in Nat /\ y \in Seq(A) /\ Len(y) = n + 1 /\ \A i \in 1..n : i \in 1..(n + 1)
  BY AppendIs
<1>2. ASSUME NEW v \in Captures(x) PROVE v \in Captures(y)
  <2>1. PICK a, b \in 1..n : Leads(x, a, b) /\ v = Number(SubSeq(x, a, b - 1))
    BY CapturesAre, Zenon
  <2>2. MatchAt(x, a, b) /\ MatchAt(y, a, b)
    BY <2>1, MatchByOne, Zenon DEF Leads
  <2>3. x[b] = Percent /\ b - a \in 1..3
    BY <2>2, Zenon DEF MatchAt
  <2> HIDE DEF n, y
  <2>4. ASSUME NEW k \in 1..(n + 1), NEW l \in 1..(n + 1), MatchAt(y, k, l)
        PROVE  a <= k
    <3>1. CASE k \in 1..n /\ l \in 1..n
      <4>1. MatchAt(x, k, l)
        BY <2>4, <3>1, MatchByOne, Zenon DEF n, y
      <4> QED BY <2>1, <3>1, <4>1, Zenon DEF Leads, n
    <3>2. CASE ~(k \in 1..n /\ l \in 1..n)
      <4>1. k \in 1..n /\ AtEnd(x, n + 1 - k)
        BY <2>4, <3>2, MatchByOne, Zenon DEF n, y
      <4>2. \A i \in (n - (n + 1 - k) + 1)..n : IsDigit(x[i])
        BY <4>1, Zenon DEF AtEnd, n
      <4>3. \A i \in k..n : IsDigit(x[i])
        <5>1. n - (n + 1 - k) + 1 = k
          BY <1>1, <4>1
        <5> QED BY <4>2, <5>1
      <4>4. ~(b \in k..n)
        <5>1. ~IsDigit(Percent)
          BY KindsDiffer, Zenon DEF Kinds
        <5> QED BY <2>3, <4>3, <5>1, Zenon
      <4> QED BY <1>1, <2>1, <2>3, <4>1, <4>4
    <3> QED BY <3>1, <3>2
  <2>5. Leads(y, a, b)
    <3>1. \A k, l \in 1..Len(y) : MatchAt(y, k, l) => a <= k
      BY <1>1, <2>4, Zenon
    <3> QED BY <2>2, <3>1, Zenon DEF Leads
  <2>6. SubSeq(y, a, b - 1) = SubSeq(x, a, b - 1)
    BY <1>1, <2>1, SubSeqOfLonger, Zenon DEF n, y
  <2>7. a \in 1..Len(y) /\ b \in 1..Len(y)
    BY <1>1, <2>1
  <2> QED BY <1>1, <2>1, <2>5, <2>6, <2>7, CapturesAre, Zenon
<1>3. ASSUME NEW v \in Captures(y) PROVE v \in Captures(x)
  <2>1. CASE Captures(x) # {}
    <3>1. PICK w : w \in Captures(x)
      BY <2>1, Zenon
    <3>2. w \in Captures(y)
      BY <1>2, <3>1, Zenon
    <3>3. v = w
      BY <1>1, <1>3, <3>2, OneCapture, Zenon
    <3> QED BY <3>1, <3>3, Zenon
  <2>2. CASE Captures(x) = {}
    <3>1. PICK a, b \in 1..Len(y) : MatchAt(y, a, b)
      BY <1>1, <1>3, SomeCapture, Zenon
    <3>2. a \in 1..(n + 1) /\ b \in 1..(n + 1)
      BY <1>1, <3>1, Zenon
    <3>3. a \in 1..n /\ b \in 1..n
      BY <2>2, <3>1, <3>2, MatchByOne, Zenon
    <3>4. MatchAt(x, a, b)
      BY <3>1, <3>3, MatchByOne, Zenon
    <3> QED BY <2>2, <3>3, <3>4, SomeCapture, Zenon
  <2> QED BY <2>1, <2>2
<1> QED BY <1>2, <1>3

LEMMA FewerAtEnd ==
  ASSUME NEW A, NEW x \in Seq(A), NEW d \in 1..3, AtEnd(x, d)
  PROVE  AtEnd(x, 1)
<1> DEFINE n == Len(x)
<1>1. n \in Nat
  OBVIOUS
<1>2. d <= n /\ \A i \in (n - d + 1)..n : IsDigit(x[i])
  BY Zenon DEF AtEnd
<1> HIDE DEF n
<1>3. 1 <= n /\ \A i \in (n - 1 + 1)..n : i \in (n - d + 1)..n
  BY <1>1, <1>2
<1> QED BY <1>2, <1>3, Zenon DEF AtEnd, n

\* All the digits at the end, three at most.
Longest(x, d) == AtEnd(x, d) /\ \A e \in 1..3 : AtEnd(x, e) => e <= d

LEMMA CapturesOfPercent ==
  ASSUME NEW A, NEW x \in Seq(A), Percent \in A, Captures(x) = {}
  PROVE  /\ ~AtEnd(x, 1) => Captures(Append(x, Percent)) = {}
         /\ \A d \in 1..3 :
              Longest(x, d) => Captures(Append(x, Percent)) = {Number(LastOnes(x, d))}
<1> DEFINE n == Len(x)
           y == Append(x, Percent)
<1>1. n \in Nat /\ y \in Seq(A) /\ Len(y) = n + 1
  BY AppendIs
<1> HIDE DEF n, y
<1>2. ASSUME NEW k \in 1..Len(y), NEW l \in 1..Len(y), MatchAt(y, k, l)
      PROVE  l = n + 1 /\ k \in 1..n /\ n + 1 - k \in 1..3 /\ AtEnd(x, n + 1 - k)
  <2>1. k \in 1..(n + 1) /\ l \in 1..(n + 1)
    BY <1>1
  <2>2. ~(k \in 1..n /\ l \in 1..n)
    <3> SUFFICES ASSUME k \in 1..n, l \in 1..n PROVE FALSE
      OBVIOUS
    <3>1. MatchAt(x, k, l)
      BY <1>2, MatchByOne, Zenon DEF n, y
    <3> QED BY <3>1, SomeCapture, Zenon DEF n
  <2> QED BY <1>2, <2>1, <2>2, MatchByOne, Zenon DEF n, y
<1>3. ASSUME ~AtEnd(x, 1) PROVE Captures(y) = {}
  <2>1. \A d \in 1..3 : ~AtEnd(x, d)
    BY <1>3, FewerAtEnd, Zenon
  <2> QED BY <1>1, <1>2, <2>1, SomeCapture, Zenon
<1>4. ASSUME NEW d \in 1..3, Longest(x, d) PROVE Captures(y) = {Number(LastOnes(x, d))}
  <2> DEFINE a == n + 1 - d
  <2>1. a \in 1..n /\ MatchAt(y, a, n + 1)
    BY <1>4, MatchByOne, Zenon DEF Longest, n, y
  <2>2. a \in 1..Len(y) /\ n + 1 \in 1..Len(y)
    BY <1>1, <2>1
  <2>3. ASSUME NEW k \in 1..Len(y), NEW l \in 1..Len(y), MatchAt(y, k, l)
        PROVE  a <= k
    <3>1. k \in 1..n /\ n + 1 - k \in 1..3 /\ AtEnd(x, n + 1 - k)
      BY <1>2, <2>3, Zenon
    <3>2. n + 1 - k <= d
      BY <1>4, <3>1, Zenon DEF Longest
    <3> QED BY <1>1, <3>1, <3>2
  <2>4. Leads(y, a, n + 1)
    BY <2>1, <2>3, Zenon DEF Leads
  <2>5. SubSeq(y, a, (n + 1) - 1) = LastOnes(x, d)
    <3>1. n + 1 \in 1..(n + 1)
      BY <1>1
    <3>2. SubSeq(y, a, (n + 1) - 1) = SubSeq(x, a, (n + 1) - 1)
      BY <2>1, <3>1, SubSeqOfLonger, Zenon DEF n, y
    <3>3. (n + 1) - 1 = n /\ a = (n - d) + 1
      BY <1>1
    <3> HIDE DEF a
    <3> QED BY <3>2, <3>3, Zenon DEF LastOnes, Ending, n
  <2>6. Number(LastOnes(x, d)) \in Captures(y)
    <3> HIDE DEF a
    <3> QED BY <1>1, <2>2, <2>4, <2>5, CapturesAre, Zenon
  <2>7. \A v \in Captures(y) : v = Number(LastOnes(x, d))
    BY <1>1, <2>6, OneCapture, Zenon
  <2> QED BY <2>6, <2>7, Zenon
<1> QED BY <1>3, <1>4, Zenon DEF y

\* Two lines that show the same, now and with the same characters to come.
SameEnd(x, y, d) == (AtEnd(x, d) <=> AtEnd(y, d)) /\ (AtEnd(x, d) => LastOnes(x, d) = LastOnes(y, d))

Alike(x, y) == Captures(x) = Captures(y) /\ \A d \in 1..3 : SameEnd(x, y, d)

\* A character that is neither a digit nor the percent sign.
Dull(c) == ~IsDigit(c) /\ c # Percent

LEMMA SameEndByOne ==
  ASSUME NEW A, NEW x \in Seq(A), NEW y \in Seq(A), Alike(x, y), NEW c \in A, NEW d \in 1..3
  PROVE  SameEnd(Append(x, c), Append(y, c), d)
<1> DEFINE e == d - 1
<1>1. e \in 0..3 /\ e \in Nat /\ d = e + 1 /\ (e = 0 \/ e \in 1..3)
  OBVIOUS
<1> HIDE DEF e
<1>2. SameEnd(x, y, e)
  <2>1. CASE e = 0
    BY <2>1, NoneAtEnd, Zenon DEF SameEnd
  <2>2. CASE e \in 1..3
    BY <2>2, Zenon DEF Alike
  <2> QED BY <1>1, <2>1, <2>2
<1>3. /\ AtEnd(Append(x, c), e + 1) <=> IsDigit(c) /\ AtEnd(x, e)
      /\ AtEnd(x, e) => LastOnes(Append(x, c), e + 1) = Append(LastOnes(x, e), c)
  BY <1>1, AtEndByOne, Zenon
<1>4. /\ AtEnd(Append(y, c), e + 1) <=> IsDigit(c) /\ AtEnd(y, e)
      /\ AtEnd(y, e) => LastOnes(Append(y, c), e + 1) = Append(LastOnes(y, e), c)
  BY <1>1, AtEndByOne, Zenon
<1>5. SameEnd(Append(x, c), Append(y, c), e + 1)
  BY <1>2, <1>3, <1>4, Zenon DEF SameEnd
<1> QED BY <1>1, <1>5, Zenon

LEMMA NoDigitAtEnd ==
  ASSUME NEW A, NEW x \in Seq(A), NEW c \in A, ~IsDigit(c), NEW d \in 1..3
  PROVE  ~AtEnd(Append(x, c), d)
<1> DEFINE e == d - 1
<1>1. e \in Nat /\ d = e + 1
  OBVIOUS
<1> HIDE DEF e
<1>2. ~AtEnd(Append(x, c), e + 1)
  BY <1>1, AtEndByOne, Zenon
<1> QED BY <1>1, <1>2, Zenon

LEMMA SomeLongest ==
  ASSUME NEW A, NEW x \in Seq(A), AtEnd(x, 1)
  PROVE  \E d \in 1..3 : Longest(x, d)
<1>1. CASE AtEnd(x, 3)
  <2>1. 3 \in 1..3 /\ \A e \in 1..3 : e <= 3
    OBVIOUS
  <2> QED BY <1>1, <2>1, Zenon DEF Longest
<1>2. CASE ~AtEnd(x, 3) /\ AtEnd(x, 2)
  <2>1. 2 \in 1..3 /\ \A e \in 1..3 : e = 3 \/ e <= 2
    OBVIOUS
  <2> QED BY <1>2, <2>1, Zenon DEF Longest
<1>3. CASE ~AtEnd(x, 3) /\ ~AtEnd(x, 2)
  <2>1. 1 \in 1..3 /\ \A e \in 1..3 : e = 3 \/ e = 2 \/ e <= 1
    OBVIOUS
  <2> QED BY <1>3, <2>1, Zenon DEF Longest
<1> QED BY <1>1, <1>2, <1>3

LEMMA AlikeWithSame ==
  ASSUME NEW A, NEW x \in Seq(A), NEW y \in Seq(A), Alike(x, y), NEW c \in A
  PROVE  Alike(Append(x, c), Append(y, c))
<1>1. \A d \in 1..3 : SameEnd(Append(x, c), Append(y, c), d)
  BY SameEndByOne, Zenon
<1>2. Captures(x) = Captures(y) /\ \A d \in 1..3 : SameEnd(x, y, d)
  BY Zenon DEF Alike
<1>3. Captures(Append(x, c)) = Captures(Append(y, c))
  <2>1. CASE c # Percent \/ Captures(x) # {}
    <3>1. Captures(Append(x, c)) = Captures(x)
      BY <2>1, CapturesKept, Zenon
    <3>2. Captures(Append(y, c)) = Captures(y)
      BY <1>2, <2>1, CapturesKept, Zenon
    <3> QED BY <1>2, <3>1, <3>2, Zenon
  <2>2. CASE c = Percent /\ Captures(x) = {}
    <3>1. Captures(y) = {} /\ Percent \in A
      BY <1>2, <2>2, Zenon
    <3>2. CASE ~AtEnd(x, 1)
      <4>1. 1 \in 1..3
        OBVIOUS
      <4>2. ~AtEnd(y, 1)
        BY <1>2, <3>2, <4>1, Zenon DEF SameEnd
      <4>3. Captures(Append(x, Percent)) = {}
        BY <2>2, <3>1, <3>2, CapturesOfPercent, Zenon
      <4>4. Captures(Append(y, Percent)) = {}
        BY <3>1, <4>2, CapturesOfPercent, Zenon
      <4> QED BY <2>2, <4>3, <4>4, Zenon
    <3>3. CASE AtEnd(x, 1)
      <4>1. PICK d \in 1..3 : Longest(x, d)
        BY <3>3, SomeLongest, Zenon
      <4>2. Longest(y, d) /\ LastOnes(x, d) = LastOnes(y, d)
        BY <1>2, <4>1, Zenon DEF Longest, SameEnd
      <4>3. Captures(Append(x, Percent)) = {Number(LastOnes(x, d))}
        BY <2>2, <3>1, <4>1, CapturesOfPercent, Zenon
      <4>4. Captures(Append(y, Percent)) = {Number(LastOnes(y, d))}
        BY <3>1, <4>2, CapturesOfPercent, Zenon
      <4> QED BY <2>2, <4>2, <4>3, <4>4, Zenon
    <3> QED BY <3>2, <3>3
  <2> QED BY <2>1, <2>2, Zenon
<1> QED BY <1>1, <1>3, Zenon DEF Alike

LEMMA AlikeWithDull ==
  ASSUME NEW A, NEW x \in Seq(A), NEW y \in Seq(A), Alike(x, y), NEW c \in A, Dull(c)
  PROVE  /\ \A g \in A : Dull(g) => Alike(Append(x, c), Append(y, g))
         /\ ~AtEnd(x, 1) => Alike(Append(x, c), y)
<1>1. Captures(x) = Captures(y) /\ \A d \in 1..3 : SameEnd(x, y, d)
  BY Zenon DEF Alike
<1>2. Captures(Append(x, c)) = Captures(x)
  BY CapturesKept, Zenon DEF Dull
<1>3. \A d \in 1..3 : ~AtEnd(Append(x, c), d)
  BY NoDigitAtEnd, Zenon DEF Dull
<1>4. ASSUME NEW g \in A, Dull(g) PROVE Alike(Append(x, c), Append(y, g))
  <2>1. Captures(Append(y, g)) = Captures(y)
    BY <1>4, CapturesKept, Zenon DEF Dull
  <2>2. \A d \in 1..3 : ~AtEnd(Append(y, g), d)
    BY <1>4, NoDigitAtEnd, Zenon DEF Dull
  <2> QED BY <1>1, <1>2, <1>3, <2>1, <2>2, Zenon DEF Alike, SameEnd
<1>5. ASSUME ~AtEnd(x, 1) PROVE Alike(Append(x, c), y)
  <2>1. 1 \in 1..3
    OBVIOUS
  <2>2. ~AtEnd(y, 1)
    BY <1>1, <1>5, <2>1, Zenon DEF SameEnd
  <2>3. \A d \in 1..3 : ~AtEnd(y, d)
    BY <2>2, FewerAtEnd, Zenon
  <2> QED BY <1>1, <1>2, <1>3, <2>3, Zenon DEF Alike, SameEnd
<1> QED BY <1>4, <1>5

-------------------------------------------------------------------------------
(* The bytes and the text show the same.                                   *)

SameLines(o, h) ==
  /\ Len(Complete(o)) = Len(Complete(h))
  /\ \A k \in 1..Len(Complete(o)) : Captures(Complete(o)[k]) = Captures(Complete(h)[k])
  /\ Alike(Remainder(o), Remainder(h))

Quiet(c) == Dull(c) /\ c # EndOfLine

LEMMA LinesAreSequences ==
  ASSUME NEW A, NEW s \in Seq(A)
  PROVE  /\ Complete(s) \in Seq(Seq(A)) /\ Remainder(s) \in Seq(A)
         /\ Len(Complete(s)) \in Nat
<1>1. Complete(s) \in Seq(Seq(A)) /\ Remainder(s) \in Seq(A)
  BY SplitType, Zenon
<1> QED BY <1>1

LEMMA SameLinesWithSame ==
  ASSUME NEW A, NEW o \in Seq(A), NEW h \in Seq(A), SameLines(o, h), NEW c \in A
  PROVE  SameLines(Append(o, c), Append(h, c))
<1> DEFINE a == Complete(o)
           b == Complete(h)
           x == Remainder(o)
           y == Remainder(h)
<1>1. /\ Len(a) = Len(b) /\ Alike(x, y)
      /\ \A k \in 1..Len(a) : Captures(a[k]) = Captures(b[k])
  BY Zenon DEF SameLines
<1>2. /\ a \in Seq(Seq(A)) /\ x \in Seq(A) /\ Len(a) \in Nat
      /\ b \in Seq(Seq(A)) /\ y \in Seq(A) /\ Len(b) \in Nat
  BY LinesAreSequences, Zenon
<1>3. CASE c = EndOfLine
  <2>1. /\ Complete(Append(o, c)) = Append(a, x) /\ Remainder(Append(o, c)) = <<>>
        /\ Complete(Append(h, c)) = Append(b, y) /\ Remainder(Append(h, c)) = <<>>
    BY <1>3, CutIs, Zenon
  <2> HIDE DEF a, b, x, y
  <2>2. /\ Len(Append(a, x)) = Len(a) + 1 /\ Append(a, x)[Len(a) + 1] = x
        /\ \A i \in 1..Len(a) : Append(a, x)[i] = a[i]
    BY <1>2, AppendIs
  <2>3. /\ Len(Append(b, y)) = Len(b) + 1 /\ Append(b, y)[Len(b) + 1] = y
        /\ \A i \in 1..Len(b) : Append(b, y)[i] = b[i]
    BY <1>2, AppendIs
  <2>4. \A k \in 1..(Len(a) + 1) : k \in 1..Len(a) \/ k = Len(a) + 1
    BY <1>2
  <2>5. Captures(x) = Captures(y) /\ Alike(<<>>, <<>>)
    BY <1>1, Zenon DEF Alike, SameEnd
  <2>6. \A k \in 1..(Len(a) + 1) : Captures(Append(a, x)[k]) = Captures(Append(b, y)[k])
    BY <1>1, <2>2, <2>3, <2>4, <2>5, Zenon
  <2> QED BY <1>1, <2>1, <2>2, <2>3, <2>5, <2>6, Zenon DEF SameLines
<1>4. CASE c # EndOfLine
  <2>1. /\ Complete(Append(o, c)) = a /\ Remainder(Append(o, c)) = Append(x, c)
        /\ Complete(Append(h, c)) = b /\ Remainder(Append(h, c)) = Append(y, c)
    BY <1>4, CutIs, Zenon
  <2>2. Alike(Append(x, c), Append(y, c))
    BY <1>1, <1>2, AlikeWithSame, Zenon
  <2> QED BY <1>1, <2>1, <2>2, Zenon DEF SameLines
<1> QED BY <1>3, <1>4

LEMMA SameLinesWithQuiet ==
  ASSUME NEW A, NEW o \in Seq(A), NEW h \in Seq(A), SameLines(o, h), NEW c \in A, Quiet(c)
  PROVE  /\ \A g \in A : Quiet(g) => SameLines(Append(o, c), Append(h, g))
         /\ ~AtEnd(Remainder(o), 1) => SameLines(Append(o, c), h)
         /\ ~AtEnd(Remainder(Append(o, c)), 1)
<1> DEFINE a == Complete(o)
           b == Complete(h)
           x == Remainder(o)
           y == Remainder(h)
<1>1. /\ Len(a) = Len(b) /\ Alike(x, y)
      /\ \A k \in 1..Len(a) : Captures(a[k]) = Captures(b[k])
  BY Zenon DEF SameLines
<1>2. x \in Seq(A) /\ y \in Seq(A)
  BY LinesAreSequences, Zenon
<1>3. Complete(Append(o, c)) = a /\ Remainder(Append(o, c)) = Append(x, c)
  BY CutIs, Zenon DEF Quiet
<1>4. ASSUME NEW g \in A, Quiet(g) PROVE SameLines(Append(o, c), Append(h, g))
  <2>1. Complete(Append(h, g)) = b /\ Remainder(Append(h, g)) = Append(y, g)
    BY <1>4, CutIs, Zenon DEF Quiet
  <2>2. Alike(Append(x, c), Append(y, g))
    BY <1>1, <1>2, <1>4, AlikeWithDull, Zenon DEF Quiet
  <2> QED BY <1>1, <1>3, <2>1, <2>2, Zenon DEF SameLines
<1>5. ASSUME ~AtEnd(x, 1) PROVE SameLines(Append(o, c), h)
  <2>1. Alike(Append(x, c), y)
    BY <1>1, <1>2, <1>5, AlikeWithDull, Zenon DEF Quiet
  <2> QED BY <1>1, <1>3, <2>1, Zenon DEF SameLines
<1>6. ~AtEnd(Append(x, c), 1)
  <2>1. 1 \in 1..3
    OBVIOUS
  <2> QED BY <1>2, <2>1, NoDigitAtEnd, Zenon DEF Quiet, Dull
<1> QED BY <1>3, <1>4, <1>5, <1>6, Zenon

LEMMA BytesAreGlyphs ==
  /\ Byte \subseteq Glyph /\ Wide \in Glyph /\ Bad \in Glyph
  /\ EndOfLine \in Byte
  /\ \A c \in {Lead, Cont, Wide, Bad} : Quiet(c)
<1>1. \A c \in {Lead, Cont, Wide, Bad} : Quiet(c)
  BY KindsDiffer, Zenon DEF Quiet, Dull, Kinds
<1> QED BY <1>1, Zenon DEF Glyph, Byte

LEMMA Beginnings ==
  ASSUME NEW A, NEW s \in Seq(A)
  PROVE  /\ SubSeq(s, 1, 0) = <<>> /\ SubSeq(s, 1, Len(s)) = s
         /\ \A i \in 0..Len(s) : SubSeq(s, 1, i) \in Seq(A)
         /\ \A i \in 1..Len(s) : SubSeq(s, 1, i) = Append(SubSeq(s, 1, i - 1), s[i])
<1>1. Len(s) \in Nat
  OBVIOUS
<1>2. SubSeq(s, 1, 0) = <<>> /\ SubSeq(s, 1, Len(s)) = s
  BY <1>1
<1>3. ASSUME NEW i \in 0..Len(s)
      PROVE  /\ SubSeq(s, 1, i) \in Seq(A) /\ Len(SubSeq(s, 1, i)) = i
             /\ \A j \in 1..i : SubSeq(s, 1, i)[j] = s[j]
  BY <1>1
<1>4. ASSUME NEW i \in 1..Len(s) PROVE SubSeq(s, 1, i) = Append(SubSeq(s, 1, i - 1), s[i])
  <2> DEFINE a == SubSeq(s, 1, i)
             b == SubSeq(s, 1, i - 1)
  <2>1. i \in 0..Len(s) /\ i - 1 \in 0..Len(s) /\ s[i] \in A
    BY <1>1
  <2>2. /\ a \in Seq(A) /\ Len(a) = i /\ \A j \in 1..i : a[j] = s[j]
        /\ b \in Seq(A) /\ Len(b) = i - 1 /\ \A j \in 1..(i - 1) : b[j] = s[j]
    BY <1>3, <2>1
  <2> HIDE DEF a, b
  <2>3. a = Append(b, s[i])
    BY <2>1, <2>2
  <2> QED BY <2>3, Zenon DEF a, b
<1> QED BY <1>2, <1>3, <1>4

\* One byte more: what is heard of it shows as much as it does.
LEMMA SameLinesOfByte ==
  ASSUME NEW o \in Seq(Glyph), NEW h \in Seq(Glyph), SameLines(o, h),
         NEW piece \in Seq(Byte), NEW i \in 1..Len(piece),
         i > 1 /\ piece[i - 1] = Lead => ~AtEnd(Remainder(o), 1)
  PROVE  /\ SameLines(Append(o, piece[i]), h \o HeardAt(piece, i))
         /\ piece[i] = Lead => ~AtEnd(Remainder(Append(o, piece[i])), 1)
<1> DEFINE c == piece[i]
           heardHere == HeardAt(piece, i)
<1>1. c \in Glyph
  <2>1. c \in Byte
    OBVIOUS
  <2> QED BY <2>1, BytesAreGlyphs, Zenon
<1>2. \A g \in Glyph : h \o <<g>> = Append(h, g)
  OBVIOUS
<1>3. h \o <<>> = h
  OBVIOUS
<1>4. \/ c = Lead /\ heardHere = <<Wide>>
      \/ c = Cont /\ heardHere = <<>> /\ i > 1 /\ piece[i - 1] = Lead
      \/ c \in {Lead, Cont} /\ heardHere = <<Bad>>
      \/ heardHere = <<c>>
  BY Zenon DEF HeardAt
<1> HIDE DEF c, heardHere
<1>5. ASSUME c = Lead, heardHere = <<Wide>> PROVE SameLines(Append(o, c), h \o heardHere)
  <2>1. Quiet(c) /\ Quiet(Wide) /\ Wide \in Glyph
    BY <1>5, BytesAreGlyphs, Zenon
  <2>2. SameLines(Append(o, c), Append(h, Wide))
    BY <1>1, <2>1, SameLinesWithQuiet, Zenon
  <2> QED BY <1>2, <1>5, <2>1, <2>2, Zenon
<1>6. ASSUME c = Cont, heardHere = <<>>, i > 1, piece[i - 1] = Lead
      PROVE  SameLines(Append(o, c), h \o heardHere)
  <2>1. Quiet(c)
    BY <1>6, BytesAreGlyphs, Zenon
  <2>2. SameLines(Append(o, c), h)
    BY <1>1, <1>6, <2>1, SameLinesWithQuiet, Zenon
  <2> QED BY <1>3, <1>6, <2>2, Zenon
<1>7. ASSUME c \in {Lead, Cont}, heardHere = <<Bad>>
      PROVE  SameLines(Append(o, c), h \o heardHere)
  <2>1. Quiet(c) /\ Quiet(Bad) /\ Bad \in Glyph
    BY <1>7, BytesAreGlyphs, Zenon
  <2>2. SameLines(Append(o, c), Append(h, Bad))
    BY <1>1, <2>1, SameLinesWithQuiet, Zenon
  <2> QED BY <1>2, <1>7, <2>1, <2>2, Zenon
<1>8. ASSUME heardHere = <<c>> PROVE SameLines(Append(o, c), h \o heardHere)
  <2>1. SameLines(Append(o, c), Append(h, c))
    BY <1>1, SameLinesWithSame, Zenon
  <2> QED BY <1>1, <1>2, <1>8, <2>1, Zenon
<1>9. c = Lead => ~AtEnd(Remainder(Append(o, c)), 1)
  BY <1>1, BytesAreGlyphs, SameLinesWithQuiet, Zenon
<1>10. SameLines(Append(o, c), h \o heardHere)
  BY <1>4, <1>5, <1>6, <1>7, <1>8, Zenon
<1> QED BY <1>9, <1>10, Zenon DEF c, heardHere

LEMMA SameLinesOfPiece ==
  ASSUME NEW o \in Seq(Glyph), NEW h \in Seq(Glyph), SameLines(o, h), NEW piece \in Seq(Byte)
  PROVE  /\ SameLines(o \o piece, h \o Lossy(piece))
         /\ o \o piece \in Seq(Glyph) /\ h \o Lossy(piece) \in Seq(Glyph)
<1> DEFINE n == Len(piece)
           each == HeardOf(piece)
           Begun(i) == o \o SubSeq(piece, 1, i)
<1>0. \A u, v \in Seq(Glyph) : (h \o u) \o v = h \o (u \o v)
  BY ConcatIs, SMTT(60)
<1>1. n \in Nat /\ each \in Seq(Seq(Glyph)) /\ Len(each) = n /\ Lossy(piece) = FlattenSeq(each)
  <2>1. each \in Seq(Seq(Glyph)) /\ Lossy(piece) = FlattenSeq(each)
    BY LossyType, LossyIs, Zenon
  <2>2. n \in Nat
    OBVIOUS
  <2>3. Len(each) = n
    BY <2>2 DEF HeardOf
  <2> QED BY <2>1, <2>2, <2>3
<1>2. PICK f \in [0..n -> Seq(Glyph)] :
        /\ f[0] = <<>>
        /\ \A i \in 1..n : f[i] = f[i - 1] \o each[i]
        /\ Lossy(piece) = f[n]
  <2> HIDE DEF each, n
  <2> QED BY <1>1, FlattenedByOne
<1>3. \A i \in 1..n : each[i] = HeardAt(piece, i) /\ each[i] \in Seq(Glyph)
  <2>1. \A i \in 1..n : each[i] = HeardAt(piece, i)
    BY Zenon DEF HeardOf
  <2>2. \A i \in 1..n : each[i] \in Seq(Glyph)
    <3> HIDE DEF each, n
    <3> QED BY <1>1
  <2> QED BY <2>1, <2>2, Zenon
<1>4. piece \in Seq(Glyph)
  <2>1. \A i \in 1..Len(piece) : piece[i] \in Byte
    OBVIOUS
  <2>2. \A i \in 1..Len(piece) : piece[i] \in Glyph
    BY <2>1, BytesAreGlyphs, Zenon
  <2> QED BY <2>2
<1>5. /\ SubSeq(piece, 1, 0) = <<>> /\ SubSeq(piece, 1, n) = piece
      /\ \A i \in 0..n : SubSeq(piece, 1, i) \in Seq(Glyph)
      /\ \A i \in 1..n : SubSeq(piece, 1, i) = Append(SubSeq(piece, 1, i - 1), piece[i])
  BY <1>4, Beginnings, Zenon
<1>6. \A i \in 1..n : piece[i] \in Glyph /\ i \in 0..n /\ i - 1 \in 0..n
  BY <1>4
<1>7. /\ Begun(0) = o /\ Begun(n) = o \o piece
      /\ \A i \in 0..n : Begun(i) \in Seq(Glyph)
      /\ \A i \in 1..n : Begun(i) = Append(Begun(i - 1), piece[i])
  <2>1. Begun(0) = o /\ Begun(n) = o \o piece
    BY <1>5, ConcatEmptySeq, Zenon
  <2>2. ASSUME NEW i \in 0..n PROVE Begun(i) \in Seq(Glyph)
    <3>1. SubSeq(piece, 1, i) \in Seq(Glyph)
      BY <1>5
    <3> QED BY <3>1
  <2>3. ASSUME NEW i \in 1..n PROVE Begun(i) = Append(Begun(i - 1), piece[i])
    <3> DEFINE t == SubSeq(piece, 1, i - 1)
    <3>1. t \in Seq(Glyph) /\ SubSeq(piece, 1, i) = Append(t, piece[i]) /\ piece[i] \in Glyph
      BY <1>5, <1>6, Zenon
    <3> HIDE DEF t
    <3>2. o \o Append(t, piece[i]) = Append(o \o t, piece[i])
      BY <3>1, AppendAfter
    <3> QED BY <3>1, <3>2, Zenon DEF t
  <2> QED BY <2>1, <2>2, <2>3
<1> HIDE DEF n, each, Begun
<1> DEFINE P(i) == /\ SameLines(Begun(i), h \o f[i])
                   /\ i # 0 /\ piece[i] = Lead => ~AtEnd(Remainder(Begun(i)), 1)
           S == {i \in 0..n : P(i)}
<1>8. 0 \in S
  <2>1. h \o f[0] = h
    BY <1>2, ConcatEmptySeq, Zenon
  <2>2. P(0)
    BY <1>7, <2>1, Zenon
  <2>3. 0 \in 0..n
    BY <1>1
  <2> QED BY <2>2, <2>3, Zenon
<1>9. ASSUME NEW i \in 1..n, i - 1 \in S PROVE i \in S
  <2> DEFINE x == Begun(i - 1)
             y == h \o f[i - 1]
  <2>1. P(i - 1)
    BY <1>9, Zenon
  <2>2. x \in Seq(Glyph) /\ f[i - 1] \in Seq(Glyph)
    BY <1>2, <1>6, <1>7, Zenon
  <2>3. y \in Seq(Glyph)
    BY <2>2
  <2>4. i > 1 /\ piece[i - 1] = Lead => ~AtEnd(Remainder(x), 1)
    <3>1. i > 1 => i - 1 # 0
      OBVIOUS
    <3> QED BY <2>1, <3>1, Zenon
  <2>5. SameLines(x, y)
    BY <2>1, Zenon
  <2>6. Begun(i) = Append(x, piece[i])
    BY <1>7, Zenon
  <2>7. h \o f[i] = y \o HeardAt(piece, i)
    <3>1. f[i] = f[i - 1] \o HeardAt(piece, i) /\ HeardAt(piece, i) \in Seq(Glyph)
      BY <1>2, <1>3, Zenon
    <3>2. (h \o f[i - 1]) \o HeardAt(piece, i) = h \o (f[i - 1] \o HeardAt(piece, i))
      BY <1>0, <2>2, <3>1, Zenon
    <3> QED BY <3>1, <3>2, Zenon
  <2> HIDE DEF x, y
  <2>8. i \in 1..Len(piece)
    BY Zenon DEF n
  <2>9. /\ SameLines(Append(x, piece[i]), y \o HeardAt(piece, i))
        /\ piece[i] = Lead => ~AtEnd(Remainder(Append(x, piece[i])), 1)
    BY <2>2, <2>3, <2>4, <2>5, <2>8, SameLinesOfByte, Zenon
  <2>10. P(i)
    BY <2>6, <2>7, <2>9, Zenon
  <2> QED BY <1>6, <2>10, Zenon
<1>10. 0..n \subseteq S
  <2> HIDE DEF S
  <2> QED BY <1>1, <1>8, <1>9, IndicesFromZero, Zenon
<1>11. P(n)
  <2>1. n \in 0..n
    BY <1>1
  <2> QED BY <1>10, <2>1, Zenon
<1>12. SameLines(o \o piece, h \o Lossy(piece))
  BY <1>2, <1>7, <1>11, Zenon
<1>13. o \o piece \in Seq(Glyph) /\ h \o Lossy(piece) \in Seq(Glyph)
  BY <1>4, LossyType
<1> QED BY <1>12, <1>13

LEMMA SameLinesShowTheSame ==
  ASSUME NEW A, NEW o \in Seq(A), NEW h \in Seq(A), SameLines(o, h)
  PROVE  ShownOf(Complete(o)) = ShownOf(Complete(h))
<1> DEFINE a == Complete(o)
           b == Complete(h)
<1>1. Len(a) = Len(b) /\ \A k \in 1..Len(a) : Captures(a[k]) = Captures(b[k])
  BY Zenon DEF SameLines
<1> HIDE DEF a, b
<1>2. \A k \in 1..Len(a) : ShownIn(a[k]) = ShownIn(b[k])
  BY <1>1, Zenon DEF ShownIn
<1>3. ShownEach(a) = ShownEach(b)
  BY <1>1, <1>2, Zenon DEF ShownEach
<1> QED BY <1>3, Zenon DEF ShownOf, a, b

LEMMA ShownIs ==
  ASSUME NEW A, output \in Seq(A)
  PROVE  Shown = ShownOf(Complete(output))
<1> DEFINE lines == Complete(output)
<1>1. lines \in Seq(Seq(A))
  BY SplitType, Zenon
<1>2. DOMAIN lines = 1..Len(lines)
  BY <1>1
<1>3. Shown = FlattenSeq([k \in DOMAIN lines |-> ShownIn(lines[k])])
  BY DEF Shown, ShownIn, Percentage
<1> HIDE DEF lines
<1>4. Shown = ShownOf(lines)
  BY <1>2, <1>3, Zenon DEF ShownOf, ShownEach
<1> QED BY <1>4, Zenon DEF lines

-------------------------------------------------------------------------------
(* The invariant.                                                          *)

\* What comes before the text in the message: "demucs exited with ...: ".
Opening == [i \in 1..Preamble |-> EndOfLine]

LEMMA OpeningIs ==
  /\ Opening \in Seq(Glyph) /\ Len(Opening) = Preamble /\ Bytes(Opening) = Preamble
<1>1. Preamble \in Nat
  BY ProgressAssumption
<1>2. EndOfLine \in Glyph
  BY BytesAreGlyphs, Zenon
<1>3. Opening \in Seq(Glyph) /\ Len(Opening) = Preamble
  BY <1>1, <1>2 DEF Opening
<1>4. Width(EndOfLine) = 1
  BY DEF Width, EndOfLine, Wide, Bad
<1>5. \A i \in 1..Preamble : Opening[i] = EndOfLine
  BY Zenon DEF Opening
<1> DEFINE o == Offsets(Opening)
           S == {i \in 0..Preamble : o[i] = i}
<1>6. /\ o \in [0..Preamble -> Nat] /\ o[0] = 0
      /\ \A i \in 1..Preamble : o[i] = o[i - 1] + Width(Opening[i])
  BY <1>3, OffsetsRead
<1>7. 0 \in S
  BY <1>1, <1>6
<1>8. ASSUME NEW i \in 1..Preamble, i - 1 \in S PROVE i \in S
  <2>1. o[i - 1] = i - 1 /\ i \in 0..Preamble
    BY <1>1, <1>8
  <2>2. o[i] = o[i - 1] + 1
    BY <1>4, <1>5, <1>6, Zenon
  <2> QED BY <2>1, <2>2
<1>9. 0..Preamble \subseteq S
  <2> HIDE DEF S
  <2> QED BY <1>1, <1>7, <1>8, IndicesFromZero, Zenon
<1>10. o[Preamble] = Preamble
  BY <1>1, <1>9
<1> QED BY <1>3, <1>10, Zenon DEF Bytes

\* What is kept of the text is an end of it that has its last FullKeep bytes.
KeptInv ==
  /\ heard \in Seq(Glyph)
  /\ Covers(full, heard, FullKeep) /\ Bytes(full) <= FullMax

\* The unfinished line is that of the text, and the text shows what the bytes
\* do, of which the changes are reported.
ShownInv ==
  /\ output \in Seq(Byte)
  /\ SameLines(output, heard)
  /\ pending = Remainder(heard)
  /\ [last |-> lastReported, reports |-> reports] = Seen(ShownOf(Complete(heard)))

MessageInv ==
  /\ at \in {"pump", "exit", "done", "failed"}
  /\ at = "failed" => message = Opening \o TailOf(full, TailKeep)

ProgressInv == KeptInv /\ ShownInv /\ MessageInv

LEMMA FullIsText ==
  ASSUME KeptInv
  PROVE  /\ full \in Seq(Glyph) /\ IsSuffix(full, heard)
         /\ TailOf(full, TailKeep) = TailOf(heard, TailKeep)
         /\ TailOf(full, TailKeep) \in Seq(Glyph)
         /\ Bytes(TailOf(full, TailKeep)) \in 0..TailKeep
<1>1. heard \in Seq(Glyph) /\ Covers(full, heard, FullKeep)
  BY Zenon DEF KeptInv
<1>2. TailKeep \in Nat /\ FullKeep \in Nat /\ TailKeep <= FullKeep
  BY ProgressAssumption
<1>3. PICK k \in 0..Len(heard) : full = Ending(heard, k)
  BY <1>1, Zenon DEF Covers
<1>4. full \in Seq(Glyph) /\ IsSuffix(full, heard)
  BY <1>1, <1>3, EndingIs, EndingIsSuffix, Zenon
<1>5. TailOf(full, TailKeep) = TailOf(heard, TailKeep)
  BY <1>1, <1>2, SameTail, ZenonT(60)
<1>6. /\ TailOf(full, TailKeep) \in Seq(Glyph)
      /\ Bytes(TailOf(full, TailKeep)) \in 0..TailKeep
  BY <1>2, <1>4, TailFits, Zenon
<1> QED BY <1>4, <1>5, <1>6

\* The message is whole: mark_failed has nothing to cut.
LEMMA MessageFits ==
  ASSUME KeptInv
  PROVE  LET text == Opening \o TailOf(full, TailKeep)
         IN  /\ Bytes(text) <= ErrorMax
             /\ ~SlicePanics(text) /\ Trimmed(text) = text
<1> DEFINE tail == TailOf(full, TailKeep)
           text == Opening \o tail
<1>1. tail \in Seq(Glyph) /\ Bytes(tail) \in 0..TailKeep
  BY FullIsText, Zenon
<1>2. Opening \in Seq(Glyph) /\ Bytes(Opening) = Preamble
  BY OpeningIs, Zenon
<1> HIDE DEF tail
<1>3. Bytes(text) = Bytes(Opening) + Bytes(tail)
  BY <1>1, <1>2, BytesOfConcat, Zenon
<1>4. Bytes(text) <= ErrorMax /\ ~(Bytes(text) > ErrorMax)
  BY <1>1, <1>2, <1>3, ProgressAssumption
<1>5. ~SlicePanics(text) /\ Trimmed(text) = text
  BY <1>4, Zenon DEF SlicePanics, Trimmed
<1> QED BY <1>4, <1>5, Zenon DEF tail

LEMMA InitEstablishes ==
  Init => ProgressInv
<1> SUFFICES ASSUME Init PROVE ProgressInv
  OBVIOUS
<1>1. /\ at = "pump" /\ output = <<>> /\ heard = <<>> /\ full = <<>> /\ pending = <<>>
      /\ lastReported = -1 /\ reports = <<>>
  BY Zenon DEF Init
<1>2. <<>> \in Seq(Glyph) /\ <<>> \in Seq(Byte)
  BY EmptySeq
<1>3. KeptInv
  <2>1. FullKeep \in Nat /\ FullMax \in Nat
    BY ProgressAssumption
  <2>2. Covers(<<>>, <<>>, FullKeep)
    BY <1>2, <2>1, CoversTail, Zenon
  <2>3. Bytes(<<>>) = 0
    <3>1. Offsets(<<>>)[0] = 0 /\ Len(<<>>) = 0
      BY <1>2, OffsetsRead
    <3> QED BY <3>1, Zenon DEF Bytes
  <2>4. Bytes(<<>>) <= FullMax
    BY <2>1, <2>3
  <2> QED BY <1>1, <1>2, <2>2, <2>4, Zenon DEF KeptInv
<1>4. ShownInv
  <2>1. SameLines(<<>>, <<>>)
    BY Zenon DEF SameLines, Alike, SameEnd
  <2>2. ShownOf(Complete(<<>>)) = <<>> /\ Remainder(<<>>) = <<>>
    BY NothingCut, ShownByOne, Zenon
  <2>3. [last |-> -1, reports |-> <<>>] = Seen(ShownOf(Complete(<<>>)))
    BY <2>2, SeenNothing, Zenon
  <2> QED BY <1>1, <1>2, <2>1, <2>2, <2>3, Zenon DEF ShownInv
<1>5. MessageInv
  BY <1>1, Zenon DEF MessageInv
<1> QED BY <1>3, <1>4, <1>5, Zenon DEF ProgressInv

\* A piece more.
LEMMA ReadKeeps ==
  ASSUME KeptInv, NEW chunk \in Seq(Glyph)
  PROVE  /\ heard \o chunk \in Seq(Glyph)
         /\ Covers(Kept(full \o chunk), heard \o chunk, FullKeep)
         /\ Bytes(Kept(full \o chunk)) <= FullMax
<1> DEFINE text == full \o chunk
           all == heard \o chunk
<1>1. /\ heard \in Seq(Glyph) /\ full \in Seq(Glyph)
      /\ Covers(full, heard, FullKeep) /\ Bytes(full) <= FullMax
  BY FullIsText, Zenon DEF KeptInv
<1>2. text \in Seq(Glyph) /\ all \in Seq(Glyph)
  BY <1>1
<1>3. FullKeep \in Nat /\ FullMax \in Nat /\ FullKeep <= FullMax /\ FullKeep <= FullKeep
  BY ProgressAssumption
<1>4. Covers(text, all, FullKeep)
  BY <1>1, <1>3, CoversLonger, Zenon
<1> HIDE DEF text, all
<1>5. Bytes(text) \in Nat
  BY <1>2, BytesIsNumber, Zenon
<1>6. CASE Bytes(text) > FullMax
  <2>1. Kept(text) = TailOf(text, FullKeep)
    BY <1>6, Zenon DEF Kept
  <2>2. TailOf(text, FullKeep) = TailOf(all, FullKeep)
    BY <1>2, <1>3, <1>4, SameTail, Zenon
  <2>3. Covers(TailOf(all, FullKeep), all, FullKeep)
    BY <1>2, <1>3, CoversTail, Zenon
  <2>4. Bytes(TailOf(text, FullKeep)) \in 0..FullKeep
    BY <1>2, <1>3, TailFits, Zenon
  <2>5. Bytes(Kept(text)) <= FullMax
    BY <1>3, <2>1, <2>4
  <2>6. Covers(Kept(text), all, FullKeep)
    BY <2>1, <2>2, <2>3, Zenon
  <2> QED BY <1>2, <2>5, <2>6, Zenon DEF text, all
<1>7. CASE ~(Bytes(text) > FullMax)
  <2>1. Kept(text) = text
    BY <1>7, Zenon DEF Kept
  <2>2. Bytes(text) <= FullMax
    BY <1>3, <1>5, <1>7
  <2> QED BY <1>2, <1>4, <2>1, <2>2, Zenon DEF text, all
<1> QED BY <1>6, <1>7

LEMMA ReadShows ==
  ASSUME KeptInv, ShownInv, NEW chunk \in Seq(Glyph)
  PROVE  LET lines == pending \o chunk
         IN  /\ Remainder(lines) = Remainder(heard \o chunk)
             /\ ScanAll([last |-> lastReported, reports |-> reports], Complete(lines))
                  = Seen(ShownOf(Complete(heard \o chunk)))
<1> DEFINE rest == Remainder(heard)
           lines == rest \o chunk
           all == heard \o chunk
           before == ShownOf(Complete(heard))
<1>1. /\ heard \in Seq(Glyph) /\ pending = rest
      /\ [last |-> lastReported, reports |-> reports] = Seen(before)
  BY Zenon DEF KeptInv, ShownInv
<1>2. Complete(heard) \in Seq(Seq(Glyph)) /\ rest \in Seq(Glyph)
  BY <1>1, SplitType, Zenon
<1>3. lines \in Seq(Glyph)
  BY <1>2
<1>4. Complete(all) = Complete(heard) \o Complete(lines) /\ Remainder(all) = Remainder(lines)
  BY <1>1, SplitOfConcat, Zenon
<1> HIDE DEF rest, lines, all
<1>5. Complete(lines) \in Seq(Seq(Glyph))
  BY <1>3, SplitType, Zenon
<1>6. before \in Seq(Percentage)
  BY <1>2, ShownType, Zenon
<1>7. ShownOf(Complete(all)) = before \o ShownOf(Complete(lines))
  BY <1>2, <1>4, <1>5, ShownOfConcat, Zenon
<1> HIDE DEF before
<1>8. ScanAll(Seen(before), Complete(lines)) = Seen(before \o ShownOf(Complete(lines)))
  BY <1>5, <1>6, ScanAllSeen, Zenon
<1> QED BY <1>1, <1>4, <1>7, <1>8, Zenon DEF lines, all

LEMMA ReadPreserves ==
  ASSUME ProgressInv, NEW piece \in Seq(Byte), Read(piece)
  PROVE  ProgressInv'
<1> DEFINE chunk == Lossy(piece)
           lines == pending \o chunk
           state == [last |-> lastReported, reports |-> reports]
           after == ScanAll(state, Complete(lines))
<1>1. /\ at = "pump" /\ at' = at
      /\ output' = output \o piece
      /\ heard' = heard \o chunk
      /\ full' = Kept(full \o chunk)
      /\ pending' = Remainder(lines)
      /\ lastReported' = after.last /\ reports' = after.reports
  BY Zenon DEF Read
<1>2. KeptInv /\ ShownInv
  BY Zenon DEF ProgressInv
<1>3. chunk \in Seq(Glyph)
  BY LossyType, Zenon
<1>4. KeptInv'
  BY <1>1, <1>2, <1>3, ReadKeeps, Zenon DEF KeptInv
<1>5. ShownInv'
  <2>1. output \in Seq(Byte) /\ heard \in Seq(Glyph) /\ SameLines(output, heard)
    BY <1>2, Zenon DEF KeptInv, ShownInv
  <2>2. output' \in Seq(Byte)
    BY <1>1, <2>1
  <2>3. output \in Seq(Glyph)
    <3>1. \A i \in 1..Len(output) : output[i] \in Byte
      BY <2>1
    <3>2. \A i \in 1..Len(output) : output[i] \in Glyph
      BY <3>1, BytesAreGlyphs, Zenon
    <3> QED BY <2>1, <3>2
  <2>4. SameLines(output', heard')
    BY <1>1, <2>1, <2>3, SameLinesOfPiece, Zenon
  <2>5. /\ Remainder(lines) = Remainder(heard \o chunk)
        /\ after = Seen(ShownOf(Complete(heard \o chunk)))
    BY <1>2, <1>3, ReadShows, Zenon
  <2> HIDE DEF after, lines, chunk
  <2>6. pending' = Remainder(heard')
    BY <1>1, <2>5, Zenon
  <2>7. after = Seen(ShownOf(Complete(heard')))
    BY <1>1, <2>5, Zenon
  <2>8. after = [last |-> after.last, reports |-> after.reports]
    BY <2>7 DEF Seen
  <2>9. [last |-> lastReported', reports |-> reports'] = Seen(ShownOf(Complete(heard')))
    BY <1>1, <2>7, <2>8, Zenon
  <2> QED BY <2>2, <2>4, <2>6, <2>9, Zenon DEF ShownInv
<1>6. MessageInv'
  BY <1>1, Zenon DEF MessageInv
<1> QED BY <1>4, <1>5, <1>6, Zenon DEF ProgressInv

LEMMA EndPreserves ==
  ASSUME ProgressInv, PumpEnds \/ ExitedWell \/ ExitedBadly \/ UNCHANGED vars
  PROVE  ProgressInv'
<1>1. KeptInv /\ ShownInv /\ MessageInv
  BY Zenon DEF ProgressInv
<1>2. /\ output' = output /\ heard' = heard /\ full' = full /\ pending' = pending
      /\ lastReported' = lastReported /\ reports' = reports
  BY Zenon DEF PumpEnds, ExitedWell, ExitedBadly, vars
<1>3. KeptInv' /\ ShownInv'
  BY <1>1, <1>2, Zenon DEF KeptInv, ShownInv
<1>4. CASE PumpEnds
  <2>1. MessageInv'
    BY <1>4, Zenon DEF PumpEnds, MessageInv
  <2> QED BY <1>3, <2>1, Zenon DEF ProgressInv
<1>5. CASE ExitedWell
  <2>1. MessageInv'
    BY <1>5, Zenon DEF ExitedWell, MessageInv
  <2> QED BY <1>3, <2>1, Zenon DEF ProgressInv
<1>6. CASE ExitedBadly
  <2> DEFINE text == Opening \o TailOf(full, TailKeep)
  <2>1. ~SlicePanics(text) /\ Trimmed(text) = text
    BY <1>1, MessageFits, Zenon
  <2>2. at' = "failed" /\ message' = Trimmed(text)
    BY <1>6, <2>1, Zenon DEF ExitedBadly, Opening
  <2>3. MessageInv'
    BY <1>2, <2>1, <2>2, Zenon DEF MessageInv
  <2> QED BY <1>3, <2>3, Zenon DEF ProgressInv
<1>7. CASE UNCHANGED vars
  <2>1. at' = at /\ message' = message
    BY <1>7, Zenon DEF vars
  <2>2. MessageInv'
    BY <1>1, <1>2, <2>1, Zenon DEF MessageInv
  <2> QED BY <1>3, <2>2, Zenon DEF ProgressInv
<1> QED BY <1>4, <1>5, <1>6, <1>7

\* The invariant of pump_progress and of the failure that follows it holds
\* however the pipe cuts the output.
THEOREM ProgressInvariance == Spec => []ProgressInv
<1>1. ASSUME ProgressInv, [Next]_vars PROVE ProgressInv'
  <2>1. ASSUME NEW piece \in BoundedSeq(Byte, MaxOutput - Len(output)), Read(piece)
        PROVE  ProgressInv'
    <3>1. piece \in Seq(Byte)
      <4>1. piece \in BoundedSeq(Byte, MaxOutput - Len(output))
        OBVIOUS
      <4>2. \E m \in 0..(MaxOutput - Len(output)) : piece \in [1..m -> Byte]
        BY <4>1, Zenon DEF BoundedSeq, SeqOf
      <4> QED BY <4>2
    <3> QED BY <1>1, <2>1, <3>1, ReadPreserves, Zenon
  <2> QED BY <1>1, <2>1, EndPreserves, Zenon DEF Next
<1> QED BY <1>1, InitEstablishes, PTL DEF Spec

\* The text kept is an end of what was heard and within its limit; the
\* unfinished line is an end of it too and holds no end of a line.
THEOREM ProgressTypes == Spec => []ProgressTypeOK
<1>1. ASSUME ProgressInv PROVE ProgressTypeOK
  <2>1. KeptInv /\ ShownInv /\ MessageInv
    BY <1>1, Zenon DEF ProgressInv
  <2>2. /\ heard \in Seq(Glyph) /\ Bytes(full) <= FullMax
        /\ output \in Seq(Byte) /\ pending = Remainder(heard)
        /\ at \in {"pump", "exit", "done", "failed", "panicked"}
    BY <2>1, Zenon DEF KeptInv, ShownInv, MessageInv
  <2>3. IsSuffix(full, heard)
    BY <2>1, FullIsText, Zenon
  <2>4. IsSuffix(pending, heard) /\ EndOfLine \notin Range(pending)
    <3>1. PICK k \in 0..Len(heard) : Remainder(heard) = Ending(heard, k)
      BY <2>2, RemainderIsEnding, Zenon
    <3>2. IsSuffix(Ending(heard, k), heard)
      BY <2>2, EndingIsSuffix, Zenon
    <3>3. EndOfLine \notin Range(Remainder(heard))
      BY <2>2, RemainderIsEnding, Zenon
    <3> QED BY <2>2, <3>1, <3>2, <3>3, Zenon
  <2>5. lastReported \in (-1)..100
    <3> DEFINE shown == ShownOf(Complete(heard))
    <3>1. Complete(heard) \in Seq(Seq(Glyph))
      BY <2>2, SplitType, Zenon
    <3>2. shown \in Seq(Percentage)
      BY <3>1, ShownType, Zenon
    <3>3. Seen(shown) \in Reported
      BY <3>2, SeenType, Zenon
    <3>4. [last |-> lastReported, reports |-> reports] = Seen(shown)
      BY <2>1, Zenon DEF ShownInv
    <3> HIDE DEF shown
    <3>5. [last |-> lastReported, reports |-> reports] \in Reported
      BY <3>3, <3>4, Zenon
    <3>6. lastReported \in Latest
      BY <3>5 DEF Reported
    <3> QED BY <3>6 DEF Latest
  <2> QED BY <2>2, <2>3, <2>4, <2>5, Zenon DEF ProgressTypeOK
<1> QED BY <1>1, ProgressInvariance, PTL

\* However the pipe cuts the output, within a number, a character or a line,
\* set_progress is called for the changes of the percentages the whole output
\* shows, each once, whole and in order (pump_progress).
THEOREM PiecesDoNotMatter == Spec => []ReportsIgnoreThePieces
<1>1. ASSUME ProgressInv PROVE ReportsIgnoreThePieces
  <2>1. KeptInv /\ ShownInv
    BY <1>1, Zenon DEF ProgressInv
  <2>2. /\ heard \in Seq(Glyph) /\ output \in Seq(Byte) /\ SameLines(output, heard)
        /\ [last |-> lastReported, reports |-> reports] = Seen(ShownOf(Complete(heard)))
    BY <2>1, Zenon DEF KeptInv, ShownInv
  <2>3. output \in Seq(Glyph)
    <3>1. \A i \in 1..Len(output) : output[i] \in Byte
      BY <2>2
    <3>2. \A i \in 1..Len(output) : output[i] \in Glyph
      BY <3>1, BytesAreGlyphs, Zenon
    <3> QED BY <2>2, <3>2
  <2>4. Shown = ShownOf(Complete(heard))
    BY <2>2, <2>3, ShownIs, SameLinesShowTheSame, Zenon
  <2> DEFINE shown == ShownOf(Complete(heard))
  <2>5. Seen(shown).reports = Changes(shown)
    BY DEF Seen
  <2> HIDE DEF shown
  <2>6. [last |-> lastReported, reports |-> reports] = Seen(shown)
    BY <2>2, Zenon DEF shown
  <2>7. reports = Seen(shown).reports
    BY <2>6
  <2> QED BY <2>4, <2>5, <2>7, Zenon DEF ReportsIgnoreThePieces, shown
<1> QED BY <1>1, ProgressInvariance, PTL

\* A failed attempt never takes the worker with it: whatever demucs prints,
\* the byte at which mark_failed would slice the message is never reached.
THEOREM FailuresDoNotPanic == Spec => []NeverPanics
<1>1. ProgressInv => NeverPanics
  BY Zenon DEF ProgressInv, MessageInv, NeverPanics
<1> QED BY <1>1, ProgressInvariance, PTL

\* The message of a failure ends with as much of the output's end as fits,
\* though pump_progress has cut the text before tail does, and mark_failed
\* keeps it whole.
THEOREM TheBottomIsKept == Spec => []MessageHasTheBottom
<1>1. ASSUME ProgressInv PROVE MessageHasTheBottom
  <2> SUFFICES ASSUME at = "failed"
               PROVE  LET bottom == TailOf(heard, TailKeep)
                      IN  /\ IsSuffix(bottom, message)
                          /\ Len(message) = Preamble + Len(bottom)
                          /\ Bytes(message) <= ErrorMax
    BY Zenon DEF MessageHasTheBottom
  <2> DEFINE bottom == TailOf(heard, TailKeep)
             text == Opening \o bottom
  <2>1. KeptInv /\ message = Opening \o TailOf(full, TailKeep)
    BY <1>1, Zenon DEF ProgressInv, MessageInv
  <2>2. TailOf(full, TailKeep) = bottom /\ bottom \in Seq(Glyph)
    BY <2>1, FullIsText, Zenon
  <2>3. message = text /\ Bytes(text) <= ErrorMax
    BY <2>1, <2>2, MessageFits, Zenon
  <2>4. Opening \in Seq(Glyph) /\ Len(Opening) = Preamble /\ Preamble \in Nat
    BY OpeningIs, ProgressAssumption
  <2> HIDE DEF bottom
  <2>5. /\ text \in Seq(Glyph) /\ Len(text) = Preamble + Len(bottom)
        /\ \A i \in 1..Len(bottom) : bottom[i] = text[Preamble + i]
    BY <2>2, <2>4
  <2> HIDE DEF text
  <2>6. PartOf(bottom, text, Preamble)
    <3>1. Preamble + Len(bottom) <= Len(text)
      BY <2>2, <2>4, <2>5
    <3> QED BY <2>5, <3>1, Zenon DEF PartOf
  <2>7. IsSuffix(bottom, text)
    BY <2>2, <2>4, <2>5, <2>6, SuffixIs, Zenon
  <2> QED BY <2>3, <2>5, <2>7, Zenon DEF bottom
<1> QED BY <1>1, ProgressInvariance, PTL
===============================================================================
