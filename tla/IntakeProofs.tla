---------------------------- MODULE IntakeProofs -----------------------------
(***************************************************************************)
(* What becomes of a name, for every name, and of an upload, for every     *)
(* form, size and limit.                                                   *)
(***************************************************************************)
EXTENDS IntakeProperties, Induction

-------------------------------------------------------------------------------
(* What Trim leaves of a sequence.                                         *)

\* t is s without symbols of out at either end.
CutFrom(t, s, out) ==
  \E k \in Nat :
    /\ k + Len(t) <= Len(s)
    /\ \A i \in 1..Len(t) : t[i] = s[k + i]
    /\ \A i \in 1..Len(s) : i <= k \/ i > k + Len(t) => s[i] \in out

LEMMA TrimCuts ==
  ASSUME NEW A, NEW s \in Seq(A), NEW out
  PROVE  LET t == Trim(s, out)
         IN  /\ t \in Seq(A) /\ CutFrom(t, s, out)
             /\ t # <<>> => t[1] \notin out /\ t[Len(t)] \notin out
<1> DEFINE kept == {i \in DOMAIN s : s[i] \notin out}
           t    == Trim(s, out)
<1>1. CASE kept = {}
  <2>1. t = <<>>
    BY <1>1 DEF Trim
  <2>2. \A i \in 1..Len(s) : s[i] \in out
    BY <1>1
  <2>3. CutFrom(<<>>, s, out)
    BY <2>2 DEF CutFrom
  <2> QED BY <2>1, <2>3
<1>2. CASE kept # {}
  <2> DEFINE a == Min(kept)
             b == Max(kept)
  <2>1. kept \in SUBSET (1..Len(s)) /\ Len(s) \in Nat /\ kept \in SUBSET Nat
    OBVIOUS
  <2>2. a \in kept /\ \A i \in kept : a <= i
    BY <1>2, <2>1, MinOfIndices
  <2>3. b \in kept /\ \A i \in kept : i <= b
    BY <1>2, <2>1, MaxOfIndices
  <2>4. t = SubSeq(s, a, b)
    BY <1>2, Zenon DEF Trim
  <2> HIDE DEF a, b, t
  <2>5. /\ a \in 1..Len(s) /\ b \in 1..Len(s) /\ a <= b
        /\ s[a] \notin out /\ s[b] \notin out
        /\ \A i \in 1..Len(s) : i < a \/ i > b => s[i] \in out
    BY <2>1, <2>2, <2>3
  <2>6. t \in Seq(A) /\ Len(t) = b - a + 1 /\ \A i \in 1..Len(t) : t[i] = s[a + i - 1]
    BY <2>4, <2>5
  <2>7. CutFrom(t, s, out)
    <3>1. /\ a - 1 \in Nat /\ (a - 1) + Len(t) = b
          /\ \A i \in 1..Len(t) : t[i] = s[(a - 1) + i]
      BY <2>5, <2>6
    <3>2. \A i \in 1..Len(s) : i <= a - 1 \/ i > b => s[i] \in out
      BY <2>5
    <3> DEFINE k == a - 1
    <3>3. /\ k \in Nat /\ k + Len(t) <= Len(s)
          /\ \A i \in 1..Len(t) : t[i] = s[k + i]
          /\ \A i \in 1..Len(s) : i <= k \/ i > k + Len(t) => s[i] \in out
      BY <2>5, <3>1, <3>2
    <3> QED BY <3>3, Zenon DEF CutFrom
  <2>8. t[1] = s[a] /\ t[Len(t)] = s[b]
    BY <2>5, <2>6
  <2> QED BY <2>5, <2>6, <2>7, <2>8 DEF t
<1> QED BY <1>1, <1>2

LEMMA CutTwice ==
  ASSUME NEW A, NEW s \in Seq(A), NEW t \in Seq(A), NEW u \in Seq(A),
         NEW P, NEW Q, CutFrom(t, s, P), CutFrom(u, t, Q)
  PROVE  CutFrom(u, s, P \cup Q)
<1>1. PICK k \in Nat :
        /\ k + Len(t) <= Len(s)
        /\ \A i \in 1..Len(t) : t[i] = s[k + i]
        /\ \A i \in 1..Len(s) : i <= k \/ i > k + Len(t) => s[i] \in P
  BY DEF CutFrom
<1>2. PICK l \in Nat :
        /\ l + Len(u) <= Len(t)
        /\ \A i \in 1..Len(u) : u[i] = t[l + i]
        /\ \A i \in 1..Len(t) : i <= l \/ i > l + Len(u) => t[i] \in Q
  BY DEF CutFrom
<1> DEFINE m == k + l
<1>3. m \in Nat /\ m + Len(u) <= Len(s)
  BY <1>1, <1>2
<1>4. \A i \in 1..Len(u) : u[i] = s[m + i]
  BY <1>1, <1>2
<1>5. ASSUME NEW i \in 1..Len(s), i <= m \/ i > m + Len(u)
      PROVE  s[i] \in P \cup Q
  <2>1. CASE i <= k \/ i > k + Len(t)
    BY <1>1, <2>1
  <2>2. CASE i > k /\ i <= k + Len(t)
    <3>1. i - k \in 1..Len(t) /\ (i - k <= l \/ i - k > l + Len(u))
      BY <1>2, <1>5, <2>2
    <3>2. t[i - k] \in Q
      BY <1>2, <3>1
    <3>3. t[i - k] = s[k + (i - k)] /\ k + (i - k) = i
      BY <1>1, <3>1
    <3> QED BY <3>2, <3>3
  <2> QED BY <2>1, <2>2
<1> QED BY <1>3, <1>4, <1>5 DEF CutFrom

\* What is cut off and cannot be cut any further is what Trim leaves.
LEMMA CutIsTrim ==
  ASSUME NEW A, NEW s \in Seq(A), NEW t \in Seq(A), NEW out,
         CutFrom(t, s, out), t # <<>>, t[1] \notin out, t[Len(t)] \notin out
  PROVE  Trim(s, out) = t
<1>1. PICK k \in Nat :
        /\ k + Len(t) <= Len(s)
        /\ \A i \in 1..Len(t) : t[i] = s[k + i]
        /\ \A i \in 1..Len(s) : i <= k \/ i > k + Len(t) => s[i] \in out
  BY DEF CutFrom
<1> DEFINE v == Trim(s, out)
<1>2. /\ v \in Seq(A) /\ CutFrom(v, s, out)
      /\ v # <<>> => v[1] \notin out /\ v[Len(v)] \notin out
  BY TrimCuts
<1> HIDE DEF v
<1>3. PICK l \in Nat :
        /\ l + Len(v) <= Len(s)
        /\ \A i \in 1..Len(v) : v[i] = s[l + i]
        /\ \A i \in 1..Len(s) : i <= l \/ i > l + Len(v) => s[i] \in out
  BY <1>2 DEF CutFrom
<1>4. Len(t) \in Nat \ {0} /\ t[1] = s[k + 1] /\ t[Len(t)] = s[k + Len(t)]
  BY <1>1
<1>5. l <= k /\ k + Len(t) <= l + Len(v)
  BY <1>1, <1>3, <1>4
<1>6. Len(v) \in Nat \ {0} /\ v # <<>> /\ v[1] = s[l + 1] /\ v[Len(v)] = s[l + Len(v)]
  BY <1>2, <1>3, <1>4, <1>5
<1>7. k <= l /\ l + Len(v) <= k + Len(t)
  BY <1>1, <1>2, <1>3, <1>6
<1>8. k = l /\ Len(v) = Len(t)
  BY <1>2, <1>5, <1>7
<1>9. \A i \in 1..Len(t) : v[i] = t[i]
  BY <1>1, <1>3, <1>8
<1>10. v = t
  BY <1>2, <1>8, <1>9, SeqEqual
<1> QED BY <1>10 DEF v

-------------------------------------------------------------------------------
(* What sanitize and clean_display_name make of a name.                    *)

Clean == Alnum \cup {"dot", "dash", "under", "space"}

Ends == {"space", "dot"}

LEMMA SegmentOfTitle ==
  ASSUME NEW s \in Title
  PROVE  /\ LastSegment(s) \in Seq(Symbol \ {"slash"})
         /\ (\A i \in 1..Len(s) : s[i] # "slash") => LastSegment(s) = s
<1> DEFINE cuts == {i \in DOMAIN s : s[i] = "slash"}
<1>1. CASE cuts = {}
  <2>1. LastSegment(s) = s
    BY <1>1 DEF LastSegment
  <2>2. \A i \in 1..Len(s) : s[i] \in Symbol \ {"slash"}
    BY <1>1 DEF Title
  <2> QED BY <2>1, <2>2 DEF Title
<1>2. CASE cuts # {}
  <2>1. cuts \in SUBSET (1..Len(s)) /\ Len(s) \in Nat
    BY DEF Title
  <2> DEFINE b == Max(cuts)
  <2>2. b \in cuts /\ \A i \in cuts : i <= b
    BY <1>2, <2>1, MaxOfIndices
  <2>3. LastSegment(s) = SubSeq(s, b + 1, Len(s))
    BY <1>2, Zenon DEF LastSegment
  <2> HIDE DEF b
  <2>4. \A i \in (b + 1)..Len(s) : s[i] \in Symbol \ {"slash"}
    BY <2>1, <2>2 DEF Title
  <2>5. SubSeq(s, b + 1, Len(s)) \in Seq(Symbol \ {"slash"})
    BY <2>1, <2>2, <2>4 DEF Title
  <2>6. ~(\A i \in 1..Len(s) : s[i] # "slash")
    BY <2>1, <2>2
  <2> QED BY <2>3, <2>5, <2>6
<1> QED BY <1>1, <1>2

LEMMA FlattenedSegment ==
  ASSUME NEW s \in Seq(Symbol)
  PROVE  /\ Flatten(s) \in Seq(Clean) /\ Len(Flatten(s)) = Len(s)
         /\ \A i \in 1..Len(s) :
              /\ s[i] \in Clean => Flatten(s)[i] = s[i]
              /\ s[i] \notin Clean => Flatten(s)[i] = "under"
<1>1. DOMAIN s = 1..Len(s) /\ Len(s) \in Nat
  OBVIOUS
<1>2. Flatten(s) = [i \in 1..Len(s) |-> IF s[i] \in Clean THEN s[i] ELSE "under"]
  BY <1>1, Zenon DEF Flatten, Clean
<1>3. \A i \in 1..Len(s) : Flatten(s)[i] = IF s[i] \in Clean THEN s[i] ELSE "under"
  BY <1>2, Zenon
<1>4. "under" \in Clean
  BY DEF Clean
<1>5. \A i \in 1..Len(s) : Flatten(s)[i] \in Clean
  BY <1>3, <1>4, Zenon
<1>6. Flatten(s) \in [1..Len(s) -> Clean]
  BY <1>2, <1>5, Zenon
<1>7. Flatten(s) \in Seq(Clean) /\ Len(Flatten(s)) = Len(s)
  BY <1>1, <1>6
<1> QED BY <1>3, <1>7, Zenon

\* The key made of a name is what is left of its last segment, or a name that
\* a segment of blanks and dots falls back to.
LEMMA SanitizeCuts ==
  ASSUME NEW name \in Title
  PROVE  LET y == Sanitize(name)
             f == Flatten(LastSegment(name))
         IN  /\ y \in Seq(Clean) /\ y # <<>> /\ y[1] # "dot" /\ y[Len(y)] # "dot"
             /\ CutFrom(y, f, Ends) \/ (y = Fallback /\ \A i \in 1..Len(f) : f[i] \in Ends)
<1> DEFINE y == Sanitize(name)
           f == Flatten(LastSegment(name))
           g == Trim(f, Blanks)
           h == Trim(g, {"dot"})
<1>1. f \in Seq(Clean)
  <2>1. LastSegment(name) \in Seq(Symbol)
    BY SegmentOfTitle
  <2> QED BY <2>1, FlattenedSegment
<1>2. g \in Seq(Clean) /\ CutFrom(g, f, Blanks)
  BY <1>1, TrimCuts
<1>3. /\ h \in Seq(Clean) /\ CutFrom(h, g, {"dot"})
      /\ h # <<>> => h[1] \notin {"dot"} /\ h[Len(h)] \notin {"dot"}
  BY <1>2, TrimCuts
<1>4. y = IF h = <<>> THEN Fallback ELSE h
  BY Zenon DEF Sanitize
<1> HIDE DEF y, f, g, h
<1>5. CutFrom(h, f, Blanks \cup {"dot"})
  BY <1>1, <1>2, <1>3, CutTwice
<1>6. CutFrom(h, f, Ends)
  <2>1. \A i \in 1..Len(f) : f[i] \in Blanks \cup {"dot"} => f[i] \in Ends
    BY <1>1 DEF Clean, Blanks, Ends, Alnum
  <2> QED BY <1>5, <2>1 DEF CutFrom
<1>7. CASE h = <<>>
  <2>1. y = Fallback
    BY <1>4, <1>7
  <2>2. \A i \in 1..Len(f) : f[i] \in Ends
    BY <1>6, <1>7 DEF CutFrom
  <2>3. /\ Fallback \in Seq(Clean) /\ Fallback # <<>>
        /\ Fallback[1] # "dot" /\ Fallback[Len(Fallback)] # "dot"
    BY DEF Fallback, Clean, Alnum
  <2> QED BY <2>1, <2>2, <2>3 DEF f, y
<1>8. CASE h # <<>>
  <2>1. y = h
    BY <1>4, <1>8
  <2> QED BY <1>3, <1>6, <1>8, <2>1 DEF f, y
<1> QED BY <1>7, <1>8

LEMMA SanitizeType ==
  ASSUME NEW name \in Title
  PROVE  Sanitize(name) \in Title /\ Sanitize(name) # None
<1>1. Sanitize(name) \in Seq(Clean) /\ Sanitize(name) # <<>>
  BY SanitizeCuts
<1>2. Clean \subseteq Symbol
  BY DEF Clean, Symbol, Ascii
<1> QED BY <1>1, <1>2, SeqMonotonic DEF Title, None

Shown == Symbol \ {"slash", "quote"}

\* A title is what the header and the console can show.
LEMMA CleanShape ==
  ASSUME NEW name \in Title
  PROVE  CleanDisplayName(name) \in Seq(Shown)
<1> DEFINE base == LastSegment(name)
           parts == [i \in DOMAIN base |-> IF base[i] = "quote" THEN <<>> ELSE <<base[i]>>]
           t == Trim(Unquoted(base), Blanks)
           u == Trim(t, {"dot"})
           v == SubSeq(u, 1, Min({MaxTitle, Len(u)}))
<1>1. base \in Seq(Symbol \ {"slash"})
  BY SegmentOfTitle
<1> HIDE DEF base
<1>2. parts \in Seq(Seq(Shown))
  <2>1. DOMAIN base = 1..Len(base) /\ Len(base) \in Nat
    BY <1>1
  <2>2. ASSUME NEW i \in 1..Len(base)
        PROVE  (IF base[i] = "quote" THEN <<>> ELSE <<base[i]>>) \in Seq(Shown)
    <3>1. CASE base[i] = "quote"
      BY <3>1
    <3>2. CASE base[i] # "quote"
      <4>1. base[i] \in Shown
        BY <1>1, <3>2 DEF Shown
      <4>2. <<base[i]>> \in Seq(Shown)
        BY <4>1
      <4> QED BY <3>2, <4>2, Zenon
    <3> QED BY <3>1, <3>2
  <2>3. parts = [i \in 1..Len(base) |-> IF base[i] = "quote" THEN <<>> ELSE <<base[i]>>]
    BY <2>1, Zenon
  <2>4. parts \in [1..Len(base) -> Seq(Shown)]
    BY <2>2, <2>3, Zenon
  <2> HIDE DEF parts
  <2> QED BY <2>1, <2>4
<1>3. Unquoted(base) \in Seq(Shown)
  BY <1>2, FlattenedType, Zenon DEF Unquoted
<1>4. t \in Seq(Shown)
  BY <1>3, TrimCuts
<1>5. u \in Seq(Shown)
  BY <1>4, TrimCuts
<1> HIDE DEF t, u
<1>6. v \in Seq(Shown)
  <2> DEFINE m == Min({MaxTitle, Len(u)})
  <2>1. {MaxTitle, Len(u)} \in SUBSET Nat
    BY <1>5, NamesAssumption
  <2>2. m \in {MaxTitle, Len(u)} /\ m <= Len(u)
    BY <2>1, MinOfIndices
  <2>3. m \in Nat /\ m <= Len(u)
    BY <2>1, <2>2
  <2>4. v = SubSeq(u, 1, m)
    OBVIOUS
  <2> HIDE DEF m, v
  <2>5. \A i \in 1..m : u[i] \in Shown
    BY <1>5, <2>3
  <2>6. SubSeq(u, 1, m) \in Seq(Shown)
    BY <1>5, <2>3, <2>5, SubSeqProperties
  <2> QED BY <2>4, <2>6
<1> HIDE DEF v
<1>7. Trim(v, Blanks) \in Seq(Shown)
  BY <1>6, TrimCuts
<1>8. CleanDisplayName(name) = Trim(v, Blanks)
  BY Zenon DEF CleanDisplayName, base, t, u, v
<1> QED BY <1>7, <1>8

LEMMA CleanType ==
  ASSUME NEW name \in Title
  PROVE  CleanDisplayName(name) \in Title
<1>1. Shown \subseteq Symbol
  BY DEF Shown
<1>2. CleanDisplayName(name) \in Seq(Shown)
  BY CleanShape
<1> QED BY <1>1, <1>2, SeqMonotonic DEF Title

LEMMA TitleOfShape ==
  ASSUME NEW name \in Title
  PROVE  TitleOf(name) \in Seq(Shown) /\ TitleOf(name) # None
<1>1. Sanitize(name) \in Seq(Clean) /\ Sanitize(name) # <<>>
  BY SanitizeCuts
<1>2. Clean \subseteq Shown
  BY DEF Clean, Shown, Symbol, Ascii, Alnum
<1>3. Sanitize(name) \in Seq(Shown)
  BY <1>1, <1>2, SeqMonotonic
<1> QED BY <1>1, <1>3, CleanShape DEF TitleOf, None

-------------------------------------------------------------------------------
(* The upload.  At every await of the handler, what it holds belongs to    *)
(* one file: the one being read, the last one sent to its end, the one     *)
(* stored.                                                                 *)

Chosen == [name |-> filename, field |-> sent.field, size |-> sent.size]

FromSent == filename = Sanitize(sent.raw) /\ display = CleanDisplayName(sent.raw)

SentType == sent.raw \in Title

Limits == written <= body /\ body <= MaxUpload

FileBeingRead ==
  at = "file" =>
    /\ dest = Sanitize(raw) /\ display = CleanDisplayName(raw)
    /\ fields \in 1..MaxFields
    /\ dest \in DOMAIN dir
    /\ dir[dest] = [name |-> dest, field |-> fields, size |-> written]

FileRead ==
  at \in {"fields", "put"} /\ filename # None =>
    FromSent /\ filename \in DOMAIN dir /\ dir[filename] = Chosen

FileStored ==
  /\ at = "create" => filename = None
  /\ at \in {"create", "fields", "file", "put"} => object = NoFile
  /\ at \in {"put", "insert"} => filename # None
  /\ at = "insert" => FromSent /\ object = Chosen

RowInserted ==
  /\ row # NoRow => at \in {"notify", "answered", "dropped"}
  /\ at = "notify" => row # NoRow

AnswerGiven ==
  /\ BodyLimitComesFirst
  /\ at = "answered" => outcome # "none"
  /\ at = "answered" => (outcome = "accepted" <=> row # NoRow)
  /\ at = "answered" /\ outcome \in BadRequest => object = NoFile

ScratchGone ==
  /\ at \in {"create", "insert", "notify"} => ~dirThere
  /\ at \in {"fields", "file", "put"} => dirThere
  /\ ScratchIsCleared

InputFetched ==
  /\ localIn # NotFetched => row # NoRow
  /\ localIn.holds = "sealed" => localIn.sealed /\ ~localIn.keyed
  /\ localIn.holds = "lost" =>
       localIn.sealed /\ localIn.keyed /\ Sanitize(row.key) = FetchedAs
  /\ localIn.sealed /\ localIn.keyed /\ Sanitize(row.key) = FetchedAs =>
       localIn.holds = "lost"

IntakeInv ==
  /\ IntakeTypeOK /\ SentType /\ Limits
  /\ FileBeingRead /\ FileRead /\ FileStored /\ RowInserted
  /\ RowKeepsItsFile /\ AnswerGiven /\ ScratchGone /\ InputFetched

LEMMA InputsAreTitles ==
  /\ RawName \subseteq Title
  /\ None \in Title
  /\ \A name \in Title : /\ Sanitize(name) \in Title /\ Sanitize(name) # None
                         /\ CleanDisplayName(name) \in Title
<1>1. None \in Title
  BY DEF None, Title
<1> QED BY <1>1, SanitizeType, CleanType, IntakeAssumption

LEMMA OpenFileKeeps ==
  ASSUME IntakeInv, NEW name \in RawName, OpenFile(name)
  PROVE  IntakeInv'
<1> USE DEF IntakeInv
<1>1. /\ name \in Title /\ Sanitize(name) \in Title /\ Sanitize(name) # None
      /\ CleanDisplayName(name) \in Title
  BY InputsAreTitles
<1>2. /\ at = "fields" /\ raw' = name /\ dest' = Sanitize(name)
      /\ display' = CleanDisplayName(name) /\ written' = 0
      /\ UNCHANGED <<sent, dirThere, filename, model, twoStems, object, row, localIn>>
  BY DEF OpenFile, stores
<1>3. /\ body \in Nat /\ body' \in Nat /\ body' <= MaxUpload
      /\ fields' \in 1..MaxFields
  BY IntakeAssumption DEF OpenFile, FitsBody, IntakeTypeOK, Limits
<1> DEFINE new == [name |-> dest', field |-> fields', size |-> 0]
<1>4. \/ /\ at' = "file" /\ UNCHANGED outcome
         /\ dir' = DirWith(dest', new)
      \/ at' = "answered" /\ outcome' = "disk" /\ UNCHANGED dir
  BY DEF OpenFile, GoTo, Refuse
<1>5. \/ UNCHANGED dir /\ at' # "file"
      \/ /\ at' = "file"
         /\ DOMAIN dir' = {dest'} \cup DOMAIN dir /\ dir'[dest'] = new
         /\ \A n \in DOMAIN dir \ {dest'} : dir'[n] = dir[n]
  BY <1>4 DEF DirWith
<1>6. IntakeTypeOK'
  <2>1. at' \in {"file", "answered"} /\ (outcome' = outcome \/ outcome' = "disk")
    BY <1>4
  <2>2. \A n \in DOMAIN dir' : dir'[n].name = n /\ dir'[n].field \in 1..MaxFields
    BY <1>3, <1>5 DEF IntakeTypeOK
  <2>3. dirThere
    BY <1>2 DEF ScratchGone
  <2> QED BY <1>1, <1>2, <1>3, <2>1, <2>2, <2>3, IntakeAssumption DEF IntakeTypeOK, Other
<1>7. SentType' /\ Limits'
  BY <1>2, <1>3 DEF SentType, Limits
<1>8. FileBeingRead'
  BY <1>2, <1>3, <1>5 DEF FileBeingRead
<1>9. FileRead' /\ FileStored' /\ RowInserted' /\ InputFetched'
  BY <1>2, <1>4 DEF FileRead, FileStored, RowInserted, InputFetched
<1>10. row = NoRow
  BY <1>2 DEF RowInserted
<1>11. RowKeepsItsFile'
  BY <1>2, <1>10 DEF RowKeepsItsFile, NoRow
<1>12. AnswerGiven' /\ ScratchGone'
  BY <1>2, <1>4, <1>10
     DEF AnswerGiven, BodyLimitComesFirst, ScratchGone, ScratchIsCleared,
                              BadRequest, NoRow
<1> QED BY <1>6, <1>7, <1>8, <1>9, <1>11, <1>12

LEMMA ReadPartKeeps ==
  ASSUME IntakeInv, NEW n \in Part, ReadPart(n)
  PROVE  IntakeInv'
<1> USE DEF IntakeInv
<1>0. /\ at = "file" /\ body' = body + n /\ body + n <= MaxUpload
      /\ UNCHANGED <<fields, sent, raw, dest, filename, display, model, twoStems,
                     object, row, localIn>>
  BY DEF ReadPart, FitsBody, locals, stores
<1>1. /\ at = "file" /\ body \in Nat /\ written \in Nat /\ n \in Nat
      /\ written + n <= MaxUpload /\ body' = body + n /\ body' <= MaxUpload
      /\ UNCHANGED <<fields, sent, raw, dest, filename, display, model, twoStems,
                     object, row, localIn>>
  <2>1. body \in Nat /\ written \in Nat /\ n \in Nat /\ MaxUpload \in Nat /\ written <= body
    BY IntakeAssumption DEF IntakeTypeOK, Limits
  <2> QED BY <1>0, <2>1
<1> DEFINE Taken ==
      /\ written' = written + n
      /\ \/ GoTo("file") /\ dir' = [dir EXCEPT ![dest].size = @ + n]
         \/ Refuse("disk") /\ UNCHANGED dir
      /\ UNCHANGED dirThere
<1>12. Taken
  <2>1. IF written + n > MaxUpload
          THEN Refuse("too large") /\ RemoveScratch /\ UNCHANGED written
          ELSE Taken
    BY Zenon DEF ReadPart
  <2>2. ~(written + n > MaxUpload)
    BY <1>1, IntakeAssumption
  <2> QED BY <2>1, <2>2, Zenon
<1>2. /\ written' = written + n
      /\ UNCHANGED dirThere
      /\ \/ at' = "file" /\ outcome' = outcome /\ dir' = [dir EXCEPT ![dest].size = @ + n]
         \/ at' = "answered" /\ outcome' = "disk" /\ UNCHANGED dir
  BY <1>12, Zenon DEF GoTo, Refuse
<1>3. /\ dest = Sanitize(raw) /\ display = CleanDisplayName(raw)
      /\ fields \in 1..MaxFields /\ dest \in DOMAIN dir
      /\ dir[dest] = [name |-> dest, field |-> fields, size |-> written]
  BY <1>1 DEF FileBeingRead
<1>4. at' = "file" =>
        /\ DOMAIN dir' = DOMAIN dir
        /\ dir'[dest] = [name |-> dest, field |-> fields, size |-> written + n]
        /\ \A name \in DOMAIN dir \ {dest} : dir'[name] = dir[name]
  BY <1>2, <1>3
<1>5. IntakeTypeOK'
  <2>1. at' \in {"file", "answered"} /\ (outcome' = outcome \/ outcome' = "disk")
    BY <1>2
  <2>2. \A name \in DOMAIN dir' : dir'[name].name = name /\ dir'[name].field \in 1..MaxFields
    BY <1>2, <1>3, <1>4 DEF IntakeTypeOK
  <2>3. dirThere
    BY <1>1 DEF ScratchGone
  <2>4. written' \in 0..MaxUpload /\ body' \in Nat
    BY <1>1, <1>2, IntakeAssumption
  <2> QED BY <1>1, <1>2, <2>1, <2>2, <2>3, <2>4 DEF IntakeTypeOK, Other
<1>6. SentType' /\ Limits'
  BY <1>1, <1>2 DEF SentType, Limits
<1>7. FileBeingRead'
  BY <1>1, <1>2, <1>3, <1>4 DEF FileBeingRead
<1>8. FileRead' /\ FileStored' /\ RowInserted' /\ InputFetched'
  BY <1>1, <1>2 DEF FileRead, FileStored, RowInserted, InputFetched
<1>9. row = NoRow
  BY <1>1 DEF RowInserted
<1>10. RowKeepsItsFile'
  BY <1>1, <1>9 DEF RowKeepsItsFile, NoRow
<1>11. AnswerGiven' /\ ScratchGone'
  BY <1>1, <1>2, <1>9
     DEF AnswerGiven, BodyLimitComesFirst, ScratchGone, ScratchIsCleared,
                              BadRequest, NoRow
<1> QED BY <1>5, <1>6, <1>7, <1>8, <1>10, <1>11

LEMMA EndFileKeeps ==
  ASSUME IntakeInv, EndFile
  PROVE  IntakeInv'
<1> USE DEF IntakeInv
<1>1. /\ at = "file"
      /\ UNCHANGED <<body, fields, raw, dest, written, display, model, twoStems,
                     dirThere, dir, object, row, localIn>>
  BY DEF EndFile, scratch, stores
<1>2. \/ /\ at' = "fields" /\ outcome' = outcome /\ filename' = dest
         /\ sent' = [raw |-> raw, field |-> fields, size |-> written]
      \/ at' = "answered" /\ outcome' = "disk" /\ UNCHANGED <<filename, sent>>
  BY DEF EndFile, GoTo, Refuse
<1>3. /\ dest = Sanitize(raw) /\ display = CleanDisplayName(raw) /\ dest \in DOMAIN dir
      /\ dir[dest] = [name |-> dest, field |-> fields, size |-> written]
      /\ dest \in Title /\ raw \in Title
  BY <1>1 DEF FileBeingRead, IntakeTypeOK
<1>4. IntakeTypeOK'
  <2>1. at' \in {"fields", "answered"} /\ (outcome' = outcome \/ outcome' = "disk")
    BY <1>2
  <2>2. filename' \in Title
    BY <1>2, <1>3 DEF IntakeTypeOK
  <2> QED BY <1>1, <2>1, <2>2 DEF IntakeTypeOK, Other
<1>5. SentType' /\ Limits'
  <2>1. sent'.raw \in Title
    BY <1>2, <1>3 DEF SentType
  <2> QED BY <1>1, <2>1 DEF SentType, Limits
<1>6. FileBeingRead' /\ FileStored' /\ RowInserted' /\ InputFetched'
  BY <1>1, <1>2 DEF FileBeingRead, FileStored, RowInserted, InputFetched
<1>7. FileRead'
  <2> SUFFICES ASSUME at' = "fields"
               PROVE  FromSent' /\ filename' \in DOMAIN dir' /\ dir'[filename'] = Chosen'
    BY <1>2 DEF FileRead
  <2>1. filename' = dest /\ sent'.raw = raw /\ sent'.field = fields /\ sent'.size = written
    BY <1>2
  <2> QED BY <1>1, <1>3, <2>1 DEF FromSent, Chosen
<1>8. row = NoRow
  BY <1>1 DEF RowInserted
<1>9. RowKeepsItsFile'
  BY <1>1, <1>8 DEF RowKeepsItsFile, NoRow
<1>10. AnswerGiven' /\ ScratchGone'
  BY <1>1, <1>2, <1>8
     DEF AnswerGiven, BodyLimitComesFirst, ScratchGone, ScratchIsCleared,
                              BadRequest, NoRow
<1> QED BY <1>4, <1>5, <1>6, <1>7, <1>9, <1>10

\* The steps that leave every file alone: the handler goes on, or ends.
LEMMA AsideKeeps ==
  ASSUME IntakeInv,
         \/ \E isModel, blank \in BOOLEAN : ReadText(isModel, blank)
         \/ BodyFails \/ Accept \/ Dropped
  PROVE  IntakeInv'
<1> USE DEF IntakeInv
<1>1. /\ UNCHANGED <<dirThere, dir, sent, raw, dest, written, filename, display,
                     object, row, localIn>>
      /\ \/ /\ at = "fields" /\ UNCHANGED <<at, outcome>>
            /\ fields' = fields + 1 /\ fields < MaxFields
         \/ /\ at \in {"fields", "file"} /\ at' = "answered" /\ outcome' = "broken body"
            /\ UNCHANGED fields
         \/ /\ at = "notify" /\ at' = "answered" /\ outcome' = "accepted"
            /\ UNCHANGED fields
         \/ at' = "dropped" /\ UNCHANGED <<outcome, fields>>
  BY Zenon DEF ReadText, BodyFails, Accept, Dropped, Refuse, scratch, form, reading,
               locals, stores
<1>2. body' \in Nat /\ body <= body' /\ body' <= MaxUpload
  <2>1. body \in Nat /\ MaxUpload \in Nat /\ FieldCost \in Nat /\ body <= MaxUpload
    BY IntakeAssumption DEF IntakeTypeOK, Limits
  <2>2. UNCHANGED body \/ (body' = body + FieldCost /\ body + FieldCost <= MaxUpload)
    BY Zenon DEF ReadText, BodyFails, Accept, Dropped, FitsBody, form
  <2> QED BY <2>1, <2>2
<1>3. model' \in {"default", "given"} /\ twoStems' \in BOOLEAN
  BY Zenon DEF ReadText, BodyFails, Accept, Dropped, locals, IntakeTypeOK
<1>4. IntakeTypeOK'
  <2>3. /\ at' = at \/ at' \in {"answered", "dropped"}
        /\ outcome' = outcome \/ outcome' \in {"broken body", "accepted"}
    BY <1>1, Zenon
  <2>1. /\ at' \in {"create", "fields", "file", "put", "insert", "notify", "answered",
                    "dropped"}
        /\ outcome' \in BadRequest \cup Other \cup {"none", "accepted"}
    BY <2>3 DEF IntakeTypeOK, BadRequest
  <2>4. fields' = fields \/ (fields' = fields + 1 /\ fields < MaxFields)
    BY <1>1, Zenon
  <2>2. fields' \in 0..MaxFields
    <3>1. fields \in 0..MaxFields /\ MaxFields \in Nat
      BY IntakeAssumption DEF IntakeTypeOK
    <3> QED BY <2>4, <3>1
  <2>5. /\ UNCHANGED <<dirThere, dir, raw, dest, written, filename, display,
                       object, row, localIn>>
    BY <1>1, Zenon
  <2> QED BY <1>2, <1>3, <2>1, <2>2, <2>5 DEF IntakeTypeOK
<1>5. SentType' /\ Limits'
  <2>1. written \in Nat /\ body \in Nat /\ written <= body
    BY DEF IntakeTypeOK, Limits
  <2>2. UNCHANGED <<sent, written>>
    BY <1>1, Zenon
  <2> QED BY <1>2, <2>1, <2>2 DEF SentType, Limits
<1>6. FileBeingRead' /\ FileRead' /\ FileStored' /\ RowInserted' /\ InputFetched'
  BY <1>1 DEF FileBeingRead, FileRead, FileStored, RowInserted, InputFetched, FromSent, Chosen
<1>7. RowKeepsItsFile'
  BY <1>1 DEF RowKeepsItsFile
<1>8. AnswerGiven' /\ ScratchGone'
  BY <1>1 DEF AnswerGiven, BodyLimitComesFirst, ScratchGone, ScratchIsCleared,
                              BadRequest,
              RowInserted, FileStored
<1> QED BY <1>4, <1>5, <1>6, <1>7, <1>8

LEMMA CreateScratchKeeps ==
  ASSUME IntakeInv, CreateScratch
  PROVE  IntakeInv'
<1> USE DEF IntakeInv
<1>1. /\ at = "create"
      /\ UNCHANGED <<dir, body, fields, sent, raw, dest, written, filename, display,
                     model, twoStems, object, row, localIn>>
      /\ \/ at' = "fields" /\ outcome' = outcome /\ dirThere' = TRUE
         \/ at' = "answered" /\ outcome' = "disk" /\ dirThere' = dirThere
  BY Zenon DEF CreateScratch, GoTo, Refuse, form, reading, locals, stores
<1>2. IntakeTypeOK'
  <2>1. /\ at' \in {"fields", "answered"} /\ dirThere' \in BOOLEAN
        /\ (outcome' = outcome \/ outcome' = "disk")
        /\ (~dirThere' => dir = Empty)
    BY <1>1 DEF IntakeTypeOK
  <2> QED BY <1>1, <2>1 DEF IntakeTypeOK, Other
<1>3. SentType' /\ Limits'
  BY <1>1 DEF SentType, Limits
<1>4. row = NoRow /\ object = NoFile /\ ~dirThere
  BY <1>1 DEF RowInserted, FileStored, ScratchGone
<1>5. FileBeingRead' /\ FileStored' /\ RowInserted' /\ InputFetched'
  BY <1>1 DEF FileBeingRead, FileStored, RowInserted, InputFetched
<1>6. FileRead'
  BY <1>1 DEF FileRead, FileStored
<1>7. RowKeepsItsFile'
  BY <1>1, <1>4 DEF RowKeepsItsFile
<1>8. AnswerGiven' /\ ScratchGone'
  <2>1. AnswerGiven'
    BY <1>1, <1>4 DEF AnswerGiven, BodyLimitComesFirst, BadRequest
  <2>2. at' = "fields" \/ (at' = "answered" /\ outcome' = "disk")
    BY <1>1
  <2>3. at' = "fields" => dirThere'
    BY <1>1, Zenon
  <2> QED BY <2>1, <2>2, <2>3 DEF ScratchGone, ScratchIsCleared
<1> QED BY <1>2, <1>3, <1>5, <1>6, <1>7, <1>8

LEMMA EndOfFormKeeps ==
  ASSUME IntakeInv, EndOfForm
  PROVE  IntakeInv'
<1> USE DEF IntakeInv
<1>1. /\ at = "fields"
      /\ UNCHANGED <<body, fields, sent, raw, dest, written, filename, display,
                     model, twoStems, object, row, localIn>>
      /\ \/ at' = "answered" /\ outcome' = "no file" /\ dirThere' = FALSE /\ dir' = Empty
         \/ at' = "put" /\ UNCHANGED <<outcome, dirThere, dir>> /\ filename # None
  BY Zenon DEF EndOfForm, GoTo, Refuse, RemoveScratch, scratch, form, reading, locals, stores
<1>2. IntakeTypeOK'
  <2>1. /\ at' \in {"put", "answered"} /\ dirThere' \in BOOLEAN
        /\ (outcome' = outcome \/ outcome' = "no file")
        /\ (~dirThere' => dir' = Empty)
    BY <1>1 DEF IntakeTypeOK
  <2>2. \A name \in DOMAIN dir' : dir'[name].name = name /\ dir'[name].field \in 1..MaxFields
    BY <1>1 DEF IntakeTypeOK, Empty
  <2> QED BY <1>1, <2>1, <2>2 DEF IntakeTypeOK, BadRequest
<1>3. SentType' /\ Limits'
  BY <1>1 DEF SentType, Limits
<1>4. row = NoRow /\ object = NoFile
  BY <1>1 DEF RowInserted, FileStored
<1>5. FileBeingRead' /\ FileStored' /\ RowInserted' /\ InputFetched'
  BY <1>1 DEF FileBeingRead, FileStored, RowInserted, InputFetched
<1>6. FileRead'
  BY <1>1 DEF FileRead, FromSent, Chosen
<1>7. RowKeepsItsFile'
  BY <1>1, <1>4 DEF RowKeepsItsFile
<1>8. AnswerGiven' /\ ScratchGone'
  BY <1>1, <1>4 DEF AnswerGiven, BodyLimitComesFirst, ScratchGone, ScratchIsCleared,
                              BadRequest
<1> QED BY <1>2, <1>3, <1>5, <1>6, <1>7, <1>8

LEMMA PutKeeps ==
  ASSUME IntakeInv, Put
  PROVE  IntakeInv'
<1> USE DEF IntakeInv
<1>1. /\ at = "put" /\ dirThere' = FALSE /\ dir' = Empty
      /\ UNCHANGED <<body, fields, sent, raw, dest, written, filename, display,
                     model, twoStems, row, localIn>>
      /\ \/ at' = "insert" /\ outcome' = outcome /\ object' = dir[filename]
         \/ at' = "answered" /\ outcome' = "store" /\ UNCHANGED object
  BY Zenon DEF Put, GoTo, Refuse, RemoveScratch, form, reading, locals
<1>2. FromSent /\ dir[filename] = Chosen /\ filename # None
  BY <1>1 DEF FileRead, FileStored
<1>3. IntakeTypeOK'
  <2>1. /\ at' \in {"insert", "answered"}
        /\ (outcome' = outcome \/ outcome' = "store")
    BY <1>1
  <2>2. DOMAIN dir' = {}
    BY <1>1 DEF Empty
  <2>3. object'.name \in Title
    BY <1>1, <1>2 DEF Chosen, IntakeTypeOK
  <2> QED BY <1>1, <2>1, <2>2, <2>3 DEF IntakeTypeOK, Other
<1>4. SentType' /\ Limits'
  BY <1>1 DEF SentType, Limits
<1>5. row = NoRow
  BY <1>1 DEF RowInserted
<1>6. FileBeingRead' /\ FileRead' /\ RowInserted' /\ InputFetched'
  BY <1>1 DEF FileBeingRead, FileRead, RowInserted, InputFetched
<1>7. FileStored'
  BY <1>1, <1>2 DEF FileStored, FromSent, Chosen
<1>8. RowKeepsItsFile'
  BY <1>1, <1>5 DEF RowKeepsItsFile
<1>9. AnswerGiven' /\ ScratchGone'
  BY <1>1, <1>5 DEF AnswerGiven, BodyLimitComesFirst, ScratchGone, ScratchIsCleared,
                              BadRequest
<1> QED BY <1>3, <1>4, <1>6, <1>7, <1>8, <1>9

LEMMA InsertJobKeeps ==
  ASSUME IntakeInv, InsertJob
  PROVE  IntakeInv'
<1> USE DEF IntakeInv
<1>1. /\ at = "insert"
      /\ UNCHANGED <<dirThere, dir, body, fields, sent, raw, dest, written, filename,
                     display, model, twoStems, object, localIn>>
      /\ \/ /\ at' = "notify" /\ outcome' = outcome
            /\ row' = [filename |-> IF display = None THEN filename ELSE display,
                       key |-> filename]
         \/ at' = "answered" /\ outcome' = "store" /\ UNCHANGED row
  BY Zenon DEF InsertJob, GoTo, Refuse, scratch, form, reading, locals
<1>2. FromSent /\ object = Chosen /\ filename # None /\ ~dirThere
  BY <1>1 DEF FileStored, ScratchGone
<1>3. row = NoRow
  BY <1>1 DEF RowInserted
<1>4. at' = "notify" => row'.key = filename /\ row' # NoRow
  BY <1>1, <1>2 DEF NoRow
<1>5. IntakeTypeOK'
  <2>1. /\ at' \in {"notify", "answered"}
        /\ (outcome' = outcome \/ outcome' = "store")
    BY <1>1
  <2>2. row'.key \in Title
    BY <1>1, <1>4 DEF IntakeTypeOK
  <2> QED BY <1>1, <2>1, <2>2 DEF IntakeTypeOK, Other
<1>6. SentType' /\ Limits'
  BY <1>1 DEF SentType, Limits
<1>7. FileBeingRead' /\ FileRead' /\ FileStored'
  BY <1>1 DEF FileBeingRead, FileRead, FileStored
<1>8. RowInserted' /\ InputFetched'
  <2>1. RowInserted'
    BY <1>1, <1>3, <1>4 DEF RowInserted
  <2>2. localIn = NotFetched
    BY <1>3 DEF InputFetched
  <2> QED BY <1>1, <2>1, <2>2 DEF InputFetched, NotFetched
<1>9. RowKeepsItsFile'
  <2>1. CASE at' = "notify"
    <3>1. row' = [filename |-> TitleOf(sent.raw), key |-> Sanitize(sent.raw)]
      BY <1>1, <1>2, <2>1 DEF FromSent, TitleOf
    <3>2. object = [name |-> row'.key, field |-> sent.field, size |-> sent.size]
      BY <1>2, <1>4, <2>1 DEF Chosen
    <3> QED BY <1>1, <3>1, <3>2 DEF RowKeepsItsFile
  <2>2. CASE at' # "notify"
    BY <1>1, <1>3, <2>2 DEF RowKeepsItsFile
  <2> QED BY <2>1, <2>2
<1>10. AnswerGiven' /\ ScratchGone'
  BY <1>1, <1>2, <1>3 DEF AnswerGiven, BodyLimitComesFirst, ScratchGone, ScratchIsCleared,
                              BadRequest
<1> QED BY <1>5, <1>6, <1>7, <1>8, <1>9, <1>10

LEMMA FetchInputKeeps ==
  ASSUME IntakeInv, FetchInput
  PROVE  IntakeInv'
<1> USE DEF IntakeInv
<1>1. /\ row # NoRow
      /\ UNCHANGED <<at, outcome, dirThere, dir, body, fields, sent, raw, dest, written,
                     filename, display, model, twoStems, object, row>>
  BY Zenon DEF FetchInput, scratch, form, reading, locals, stores
<1> DEFINE there(sealed, keyed) == LocalName \in DOMAIN InDir(sealed, keyed)
<1>11. PICK sealed \in BOOLEAN, keyed \in BOOLEAN :
         localIn' = [sealed |-> sealed, keyed |-> keyed,
                     holds |-> IF there(sealed, keyed) THEN InDir(sealed, keyed)[LocalName]
                                                      ELSE "lost"]
  BY Zenon DEF FetchInput
<1>2. /\ localIn' \in Input
      /\ localIn'.holds = "sealed" => localIn'.sealed /\ ~localIn'.keyed
      /\ localIn'.holds = "lost" <=>
           localIn'.sealed /\ localIn'.keyed /\ Sanitize(row.key) = FetchedAs
  <2>1. CASE sealed /\ keyed
    <3>1. /\ DOMAIN InDir(sealed, keyed) = {LocalName} \ {FetchedAs}
          /\ LocalName # FetchedAs => InDir(sealed, keyed)[LocalName] = "audio"
      BY <2>1, Zenon DEF InDir
    <3> QED BY <1>11, <2>1, <3>1 DEF LocalName, Input
  <2>2. CASE ~(sealed /\ keyed)
    <3>1. /\ DOMAIN InDir(sealed, keyed) = {LocalName}
          /\ InDir(sealed, keyed)[LocalName] = IF sealed THEN "sealed" ELSE "audio"
      BY <2>2, Zenon DEF InDir
    <3> QED BY <1>11, <2>2, <3>1 DEF Input
  <2> QED BY <2>1, <2>2
<1>3. IntakeTypeOK'
  BY <1>1, <1>2 DEF IntakeTypeOK
<1>4. SentType' /\ Limits' /\ FileBeingRead' /\ FileRead' /\ FileStored' /\ RowInserted'
  BY <1>1 DEF SentType, Limits, FileBeingRead, FileRead, FileStored, RowInserted,
              FromSent, Chosen
<1>5. RowKeepsItsFile' /\ AnswerGiven' /\ ScratchGone'
  BY <1>1 DEF RowKeepsItsFile, AnswerGiven, BodyLimitComesFirst, ScratchGone, ScratchIsCleared
<1>6. InputFetched'
  BY <1>1, <1>2, Zenon DEF InputFetched
<1> QED BY <1>3, <1>4, <1>5, <1>6

LEMMA InitKeeps ==
  ASSUME Init
  PROVE  IntakeInv
<1> USE IntakeAssumption DEF Init
<1>1. None \in Title
  BY InputsAreTitles
<1>2. DOMAIN dir = {}
  BY DEF Empty
<1>3. object.name = None /\ row.key = None
  BY DEF NoFile, NoRow
<1>4. IntakeTypeOK
  <2>1. dirThere \in BOOLEAN /\ (~dirThere => dir = Empty) /\ twoStems \in BOOLEAN
    OBVIOUS
  <2>2. \A name \in DOMAIN dir : dir[name].name = name /\ dir[name].field \in 1..MaxFields
    BY <1>2
  <2>3. body \in Nat /\ fields \in 0..MaxFields /\ written \in 0..MaxUpload
    OBVIOUS
  <2>4. /\ at = "create" /\ outcome = "none" /\ model = "default"
        /\ raw = None /\ dest = None /\ filename = None /\ display = None
    OBVIOUS
  <2>5. localIn \in Input
    BY DEF NotFetched, Input
  <2> QED BY ONLY <1>1, <1>3, <2>1, <2>2, <2>3, <2>4, <2>5 DEF IntakeTypeOK
<1>5. SentType /\ Limits
  <2>1. sent.raw = None
    BY DEF Nothing
  <2>2. SentType
    BY <1>1, <2>1 DEF SentType
  <2>3. Limits
    BY DEF Limits
  <2> QED BY <2>2, <2>3
<1>6. /\ at = "create" /\ outcome = "none" /\ ~dirThere /\ localIn = NotFetched
      /\ filename = None /\ object = NoFile /\ row = NoRow
  BY Zenon
<1>7. FileBeingRead /\ FileRead /\ FileStored /\ RowInserted /\ RowKeepsItsFile
  <2> USE ONLY <1>6
  <2> QED BY DEF FileBeingRead, FileRead, FileStored, RowInserted, RowKeepsItsFile
<1>8. AnswerGiven /\ ScratchGone /\ InputFetched
  BY DEF AnswerGiven, BodyLimitComesFirst, ScratchGone, ScratchIsCleared, InputFetched,
         NotFetched
<1> QED BY <1>4, <1>5, <1>7, <1>8 DEF IntakeInv

LEMMA StepKeeps ==
  ASSUME IntakeInv, [Next]_vars
  PROVE  IntakeInv'
<1>1. CASE CreateScratch
  BY <1>1, CreateScratchKeeps
<1>2. CASE \E name \in RawName : OpenFile(name)
  BY <1>2, OpenFileKeeps
<1>3. CASE \E n \in Part : ReadPart(n)
  BY <1>3, ReadPartKeeps
<1>4. CASE EndFile
  BY <1>4, EndFileKeeps
<1>5. CASE \/ \E isModel, blank \in BOOLEAN : ReadText(isModel, blank)
           \/ BodyFails \/ Accept \/ Dropped
  BY <1>5, AsideKeeps
<1>6. CASE EndOfForm
  BY <1>6, EndOfFormKeeps
<1>7. CASE Put
  BY <1>7, PutKeeps
<1>8. CASE InsertJob
  BY <1>8, InsertJobKeeps
<1>9. CASE FetchInput
  BY <1>9, FetchInputKeeps
<1>10. CASE UNCHANGED vars
  <2>1. UNCHANGED <<at, outcome, dirThere, dir, body, fields, sent, raw, dest, written,
                    filename, display, model, twoStems, object, row, localIn>>
    BY <1>10, Zenon DEF vars, scratch, form, reading, locals, stores
  <2>2. /\ IntakeTypeOK' <=> IntakeTypeOK
        /\ SentType' /\ Limits'
    BY <2>1 DEF IntakeInv, IntakeTypeOK, SentType, Limits
  <2>3. FileBeingRead' /\ FileRead' /\ FileStored' /\ RowInserted'
    BY <2>1 DEF IntakeInv, FileBeingRead, FileRead, FileStored, RowInserted, FromSent, Chosen
  <2>4. RowKeepsItsFile' /\ AnswerGiven' /\ ScratchGone' /\ InputFetched'
    BY <2>1 DEF IntakeInv, RowKeepsItsFile, AnswerGiven, BodyLimitComesFirst, ScratchGone,
                ScratchIsCleared, InputFetched
  <2> QED BY <2>2, <2>3, <2>4 DEF IntakeInv
<1> QED BY <1>1, <1>2, <1>3, <1>4, <1>5, <1>6, <1>7, <1>8, <1>9, <1>10 DEF Next

\* The invariant of the upload: at every await the handler's locals, the
\* directory and the stores are about one file (create_job).
THEOREM IntakeInvariance == Spec => []IntakeInv
<1>1. Init => IntakeInv
  BY InitKeeps
<1>2. IntakeInv /\ [Next]_vars => IntakeInv'
  BY StepKeeps
<1> QED BY <1>1, <1>2, PTL DEF Spec

\* Every name the intake handles is a text, every file in the directory bears
\* its name, and no count leaves its range (create_job).
THEOREM IntakeTypes == Spec => []IntakeTypeOK
<1>1. IntakeInv => IntakeTypeOK
  BY DEF IntakeInv
<1> QED BY <1>1, IntakeInvariance, PTL

\* Whatever fields a form has, in any order and under any names, the row, the
\* object and the title are those of its last file (create_job).
THEOREM RowsKeepTheirFile == Spec => []RowKeepsItsFile
<1>1. IntakeInv => RowKeepsItsFile
  BY DEF IntakeInv
<1> QED BY <1>1, IntakeInvariance, PTL

\* The status of an answer is true of the stores (create_job, with error.rs).
THEOREM AnswersAreTrue == Spec => []AnswerTellsTheTruth
<1>1. IntakeInv => AnswerTellsTheTruth
  <2> SUFFICES ASSUME IntakeInv, at = "answered"
               PROVE  CASE StatusOf(outcome) = 202 -> row # NoRow /\ object # NoFile
                        [] StatusOf(outcome) = 400 -> row = NoRow /\ object = NoFile
                        [] StatusOf(outcome) = 500 -> row = NoRow
    BY Zenon DEF AnswerTellsTheTruth
  <2>1. AnswerGiven /\ RowKeepsItsFile /\ outcome \in BadRequest \cup Other \cup {"accepted"}
    BY DEF IntakeInv, AnswerGiven, IntakeTypeOK
  <2>2. CASE outcome = "accepted"
    <3>1. StatusOf(outcome) = 202
      <4>1. outcome \notin BadRequest /\ outcome \notin Other
        BY <2>2 DEF BadRequest, Other
      <4> QED BY <2>2, <4>1, Zenon DEF StatusOf
    <3>2. row # NoRow
      BY <2>1, <2>2 DEF AnswerGiven
    <3>3. object.name = Sanitize(sent.raw)
      BY <2>1, <3>2 DEF RowKeepsItsFile
    <3>4. object # NoFile
      BY <3>3, InputsAreTitles DEF IntakeInv, SentType, NoFile
    <3> QED BY <3>1, <3>2, <3>4
  <2>3. CASE outcome \in BadRequest
    <3>1. StatusOf(outcome) = 400
      <4>1. outcome \notin Other /\ outcome # "accepted"
        BY <2>3 DEF BadRequest, Other
      <4> QED BY <2>3, <4>1, Zenon DEF StatusOf
    <3>2. row = NoRow /\ object = NoFile
      BY <2>1, <2>3 DEF AnswerGiven, BodyLimitComesFirst, BadRequest
    <3> QED BY <3>1, <3>2
  <2>4. CASE outcome \in Other
    <3>1. StatusOf(outcome) = 500
      <4>1. outcome \notin BadRequest /\ outcome # "accepted"
        BY <2>4 DEF BadRequest, Other
      <4> QED BY <2>4, <4>1, Zenon DEF StatusOf
    <3>2. row = NoRow
      BY <2>1, <2>4 DEF AnswerGiven, Other
    <3> QED BY <3>1, <3>2
  <2> QED BY <2>1, <2>2, <2>3, <2>4
<1> QED BY <1>1, IntakeInvariance, PTL

\* A directory survives the answer only where the body broke off or the disk
\* failed (the calls of remove_dir_all in create_job).
THEOREM ScratchIsGone == Spec => []ScratchIsCleared
<1>1. IntakeInv => ScratchIsCleared
  BY DEF IntakeInv, ScratchGone
<1> QED BY <1>1, IntakeInvariance, PTL

\* For every limit and every size of the pieces, the handler's own limit never
\* answers: what was written is part of a body that is not above the same
\* number (create_job, main.rs).
THEOREM FileLimitNeverAnswers == Spec => []BodyLimitComesFirst
<1>1. IntakeInv => BodyLimitComesFirst
  BY DEF IntakeInv, AnswerGiven
<1> QED BY <1>1, IntakeInvariance, PTL

-------------------------------------------------------------------------------
(* The names.  A key is sanitized twice: once as the client's name, once   *)
(* as the name of the local file.                                          *)

LEMMA CleanIsKept ==
  ASSUME NEW y \in Seq(Clean)
  PROVE  /\ y \in Title /\ LastSegment(y) = y /\ Flatten(y) = y
<1>1. y \in Seq(Symbol) /\ \A i \in 1..Len(y) : y[i] # "slash"
  <2>1. \A i \in 1..Len(y) : y[i] \in Symbol /\ y[i] # "slash"
    BY DEF Clean, Symbol, Ascii, Alnum
  <2> QED BY <2>1
<1>2. LastSegment(y) = y
  BY <1>1, SegmentOfTitle DEF Title
<1>3. /\ Flatten(y) \in Seq(Clean) /\ Len(Flatten(y)) = Len(y)
      /\ \A i \in 1..Len(y) : Flatten(y)[i] = y[i]
  BY <1>1, FlattenedSegment
<1>4. Flatten(y) = y
  BY <1>3, SeqEqual
<1> QED BY <1>1, <1>2, <1>4 DEF Title

LEMMA KeyIsPathName ==
  ASSUME NEW name \in Title
  PROVE  PathName(Sanitize(name))
<1> DEFINE y == Sanitize(name)
           t == Trim(y, {"dot"})
<1>1. y \in Seq(Clean) /\ y # <<>> /\ y[1] # "dot"
  BY SanitizeCuts
<1>2. t \in Seq(Clean) /\ CutFrom(t, y, {"dot"})
  BY <1>1, TrimCuts
<1>3. t # <<>>
  <2> HIDE DEF t, y
  <2> SUFFICES ASSUME t = <<>> PROVE FALSE
    OBVIOUS
  <2>1. 1 \in 1..Len(y)
    BY <1>1
  <2>2. \A i \in 1..Len(y) : y[i] \in {"dot"}
    BY <1>2 DEF CutFrom
  <2> QED BY <1>1, <2>1, <2>2
<1>4. \A i \in DOMAIN y : y[i] \in Ascii \ {"slash", "quote", "pct"}
  <2>1. \A i \in 1..Len(y) : y[i] \in Clean
    BY <1>1
  <2>2. Clean \subseteq Ascii \ {"slash", "quote", "pct"}
    BY DEF Clean, Ascii, Alnum
  <2>3. DOMAIN y = 1..Len(y)
    BY <1>1
  <2> QED BY <2>1, <2>2, <2>3
<1> QED BY <1>1, <1>3, <1>4 DEF PathName, None

\* The second to last symbol is the last dot of a name with an extension.
LEMMA ExtensionForm ==
  ASSUME NEW s \in Seq(Symbol)
  PROVE  HasExtension(s) <=>
           /\ Len(s) >= 3 /\ s[Len(s) - 1] = "dot" /\ s[Len(s)] \in Alnum
           /\ \E i \in 1..(Len(s) - 2) : s[i] \in Symbol \ {"dot", "space", "wide"}
<1> DEFINE n == Len(s)
<1>1. n \in Nat /\ DOMAIN s = 1..n
  OBVIOUS
<1>2. Dots(s) = {i \in 1..n : s[i] = "dot"} /\ Dots(s) \in SUBSET (1..n)
  BY <1>1 DEF Dots
<1>3. ASSUME HasExtension(s)
      PROVE  n >= 3 /\ s[n - 1] = "dot"
  <2>1. Dots(s) # {} /\ Max(Dots(s)) = n - 1 /\ \E i \in 1..(n - 2) : TRUE
    BY <1>3, Zenon DEF HasExtension
  <2>2. n - 1 \in Dots(s)
    BY <1>1, <1>2, <2>1, MaxOfIndices
  <2> QED BY <1>1, <1>2, <2>1, <2>2
<1>4. ASSUME n >= 3, s[n - 1] = "dot", s[n] \in Alnum
      PROVE  Dots(s) # {} /\ Max(Dots(s)) = n - 1
  <2>1. n - 1 \in Dots(s)
    BY <1>1, <1>2, <1>4
  <2>2. Max(Dots(s)) \in Dots(s) /\ n - 1 <= Max(Dots(s))
    BY <1>1, <1>2, <2>1, MaxOfIndices
  <2>3. Max(Dots(s)) # n
    <3>1. s[n] # "dot"
      BY <1>4 DEF Alnum
    <3> QED BY <1>2, <2>2, <3>1
  <2> QED BY <1>1, <1>2, <2>1, <2>2, <2>3
<1> QED BY <1>3, <1>4 DEF HasExtension

LEMMA ExtensionSurvives ==
  ASSUME NEW name \in Title, HasExtension(LastSegment(name))
  PROVE  /\ HasExtension(Sanitize(name))
         /\ Sanitize(name)[Len(Sanitize(name))] = LastSegment(name)[Len(LastSegment(name))]
<1> DEFINE b == LastSegment(name)
           f == Flatten(b)
           y == Sanitize(name)
           n == Len(b)
           m == Len(y)
<1>1. b \in Seq(Symbol)
  BY SegmentOfTitle
<1>2. /\ f \in Seq(Clean) /\ Len(f) = n
      /\ \A i \in 1..n : /\ b[i] \in Clean => f[i] = b[i]
                         /\ b[i] \notin Clean => f[i] = "under"
  BY <1>1, FlattenedSegment
<1>3. /\ y \in Seq(Clean) /\ y # <<>>
      /\ CutFrom(y, f, Ends) \/ \A i \in 1..Len(f) : f[i] \in Ends
  BY SanitizeCuts
<1>4. /\ n >= 3 /\ b[n - 1] = "dot" /\ b[n] \in Alnum
      /\ \E i \in 1..(n - 2) : b[i] \in Symbol \ {"dot", "space", "wide"}
  BY <1>1, ExtensionForm
<1>5. PICK i \in 1..(n - 2) : b[i] \in Symbol \ {"dot", "space", "wide"}
  BY <1>4
<1>6. n \in Nat /\ m \in Nat \ {0}
  BY <1>1, <1>3
<1> HIDE DEF b, f, y, n, m
<1>7. f[n - 1] = "dot" /\ f[n] = b[n] /\ b[n] \notin Ends
  <2>1. n - 1 \in 1..n /\ n \in 1..n
    BY <1>4, <1>6
  <2>2. b[n - 1] \in Clean /\ b[n] \in Clean /\ b[n] \notin Ends
    BY <1>4 DEF Clean, Ends, Alnum
  <2> QED BY <1>2, <1>4, <2>1, <2>2
<1>8. f[i] \in Clean /\ f[i] \notin Ends
  <2>1. i \in 1..n
    BY <1>4, <1>6
  <2>2. f[i] \notin Ends
    <3>1. CASE b[i] \in Clean
      BY <1>2, <1>5, <2>1, <3>1 DEF Ends
    <3>2. CASE b[i] \notin Clean
      BY <1>2, <2>1, <3>2 DEF Ends
    <3> QED BY <3>1, <3>2
  <2> QED BY <1>2, <2>1, <2>2
<1>9. CutFrom(y, f, Ends)
  <2>1. n \in 1..n
    BY <1>4, <1>6
  <2> QED BY <1>2, <1>3, <1>7, <2>1
<1>10. PICK k \in Nat :
         /\ k + m <= n
         /\ \A j \in 1..m : y[j] = f[k + j]
         /\ \A j \in 1..n : j <= k \/ j > k + m => f[j] \in Ends
  BY <1>2, <1>9 DEF CutFrom, m
<1>11. k + m = n /\ k < i
  <2>1. n \in 1..n /\ i \in 1..n
    BY <1>4, <1>6
  <2>2. ~(n <= k \/ n > k + m) /\ ~(i <= k)
    BY <1>7, <1>8, <1>10, <2>1
  <2> QED BY <1>6, <1>10, <2>2
<1>12. m >= 3 /\ y[m] = f[n] /\ y[m - 1] = f[n - 1]
  <2>1. m >= 3
    BY <1>6, <1>11
  <2>2. m \in 1..m /\ m - 1 \in 1..m /\ k + m = n /\ k + (m - 1) = n - 1
    BY <1>6, <1>11, <2>1
  <2>3. y[m] = f[k + m] /\ y[m - 1] = f[k + (m - 1)]
    BY <1>10, <2>2
  <2> QED BY <2>1, <2>2, <2>3
<1>13. i - k \in 1..(m - 2) /\ y[i - k] = f[i]
  <2>1. i - k \in 1..(m - 2) /\ i - k \in 1..m /\ k + (i - k) = i
    BY <1>6, <1>11
  <2>2. y[i - k] = f[k + (i - k)]
    BY <1>10, <2>1
  <2> QED BY <2>1, <2>2
<1>14. f[i] \in Symbol \ {"dot", "space", "wide"}
  BY <1>8 DEF Clean, Ends, Symbol, Ascii, Alnum
<1>15. y \in Seq(Symbol)
  <2>1. Clean \subseteq Symbol
    BY DEF Clean, Symbol, Ascii
  <2> QED BY <1>3, <2>1, SeqMonotonic
<1>16. HasExtension(y)
  BY <1>4, <1>7, <1>12, <1>13, <1>14, <1>15, ExtensionForm DEF m
<1>17. y[m] = b[n]
  BY <1>7, <1>12
<1> QED BY <1>16, <1>17 DEF y, b, m, n

\* A name that is object.bin after two turns of sanitize was that name between
\* blanks and dots.
LEMMA OnlyObjectBin ==
  ASSUME NEW name \in Title, Sanitize(Sanitize(name)) = FetchedAs
  PROVE  Trim(LastSegment(name), Ends) = FetchedAs
<1> DEFINE b == LastSegment(name)
           f == Flatten(b)
           y == Sanitize(name)
           z == FetchedAs
<1>1. b \in Seq(Symbol)
  BY SegmentOfTitle
<1>2. /\ f \in Seq(Clean) /\ Len(f) = Len(b)
      /\ \A i \in 1..Len(b) : /\ b[i] \in Clean => f[i] = b[i]
                              /\ b[i] \notin Clean => f[i] = "under"
  BY <1>1, FlattenedSegment
<1>3. y \in Seq(Clean) /\ (CutFrom(y, f, Ends) \/ y = Fallback)
  BY SanitizeCuts
<1>4. /\ z \in Seq(Clean) /\ Len(z) = 3
      /\ z[1] = "object" /\ z[2] = "dot" /\ z[3] = "bin"
  BY DEF FetchedAs, Clean, Alnum
<1>5. /\ Fallback \in Seq(Clean) /\ Len(Fallback) = 3 /\ Fallback[1] = "upload"
  BY DEF Fallback, Clean, Alnum
<1>6. CutFrom(z, y, Ends)
  <2>1. y \in Title /\ Flatten(LastSegment(y)) = y
    BY <1>3, CleanIsKept
  <2>2. CutFrom(z, y, Ends) \/ z = Fallback
    BY <2>1, SanitizeCuts
  <2>3. z[1] # Fallback[1]
    BY <1>4, <1>5
  <2> QED BY <2>2, <2>3
<1> HIDE DEF b, f, y, z
<1>7. y # Fallback
  <2> SUFFICES ASSUME y = Fallback PROVE FALSE
    OBVIOUS
  <2>1. PICK k \in Nat : k + Len(z) <= Len(y) /\ \A i \in 1..Len(z) : z[i] = y[k + i]
    BY <1>6, Zenon DEF CutFrom
  <2>2. k = 0
    BY <1>4, <1>5, <2>1
  <2>3. z[1] = y[1]
    BY <1>4, <2>1, <2>2
  <2> QED BY <1>4, <1>5, <2>3
<1>8. CutFrom(z, f, Ends)
  <2>1. CutFrom(z, f, Ends \cup Ends)
    BY <1>2, <1>3, <1>4, <1>6, <1>7, CutTwice
  <2>2. Ends \cup Ends = Ends
    OBVIOUS
  <2> QED BY <2>1, <2>2
<1>9. PICK k \in Nat :
        /\ k + 3 <= Len(f)
        /\ \A i \in 1..3 : z[i] = f[k + i]
        /\ \A i \in 1..Len(f) : i <= k \/ i > k + 3 => f[i] \in Ends
  BY <1>4, <1>8 DEF CutFrom
<1>10. \A i \in 1..Len(b) : f[i] # "under" => b[i] = f[i]
  BY <1>2
<1>11. \A i \in 1..3 : z[i] = b[k + i]
  <2> TAKE i \in 1..3
  <2>1. k + i \in 1..Len(b) /\ z[i] = f[k + i]
    BY <1>1, <1>2, <1>9
  <2>2. z[i] # "under"
    BY <1>4
  <2> QED BY <1>10, <2>1, <2>2
<1>12. \A i \in 1..Len(b) : i <= k \/ i > k + 3 => b[i] \in Ends
  <2> TAKE i \in 1..Len(b)
  <2> SUFFICES ASSUME i <= k \/ i > k + 3 PROVE b[i] \in Ends
    OBVIOUS
  <2>1. f[i] \in Ends
    BY <1>2, <1>9
  <2>2. f[i] # "under"
    BY <2>1 DEF Ends
  <2> QED BY <1>10, <2>1, <2>2
<1>13. CutFrom(z, b, Ends)
  <2>1. k + Len(z) <= Len(b) /\ Len(z) = 3
    BY <1>2, <1>4, <1>9
  <2> QED BY <1>11, <1>12, <2>1 DEF CutFrom
<1>14. z \in Seq(Symbol)
  <2>1. Clean \subseteq Symbol
    BY DEF Clean, Symbol, Ascii
  <2> QED BY <1>4, <2>1, SeqMonotonic
<1>15. z # <<>> /\ z[1] \notin Ends /\ z[Len(z)] \notin Ends
  <2>1. z[1] \notin Ends /\ z[3] \notin Ends
    BY <1>4 DEF Ends
  <2>2. z # <<>>
    BY <1>4, EmptySeq
  <2> QED BY <1>4, <2>1, <2>2, Zenon
<1>16. Trim(b, Ends) = z
  BY <1>1, <1>13, <1>14, <1>15, CutIsTrim
<1> QED BY <1>16 DEF b, z

\* For every name a client can give a file: the key, and the path demucs gets
\* after the key was sanitized once more, are ASCII, no directory, and keep the
\* extension; the title is what a header can quote (create_job, process).
THEOREM EveryNameIsUsable == Spec => []NamesAreUsable
<1>1. IntakeInv => NamesAreUsable
  <2> SUFFICES ASSUME IntakeInv, row # NoRow
               PROVE  /\ PathName(row.key) /\ PathName(LocalName)
                      /\ HasExtension(LastSegment(sent.raw)) =>
                           /\ HasExtension(LocalName)
                           /\ LocalName[Len(LocalName)]
                                = LastSegment(sent.raw)[Len(LastSegment(sent.raw))]
                      /\ row.filename # None
                      /\ \A i \in DOMAIN row.filename :
                           row.filename[i] \notin {"slash", "quote"}
    BY Zenon DEF NamesAreUsable
  <2> DEFINE key == Sanitize(sent.raw)
  <2>1. sent.raw \in Title /\ row.key = key /\ row.filename = TitleOf(sent.raw)
    BY DEF IntakeInv, SentType, RowKeepsItsFile
  <2>2. key \in Title /\ key \in Seq(Clean) /\ LastSegment(key) = key
    BY <2>1, SanitizeCuts, CleanIsKept
  <2>3. LocalName = Sanitize(key)
    BY <2>1 DEF LocalName
  <2>4. PathName(row.key) /\ PathName(LocalName)
    BY <2>1, <2>2, <2>3, KeyIsPathName
  <2>5. ASSUME HasExtension(LastSegment(sent.raw))
        PROVE  /\ HasExtension(LocalName)
               /\ LocalName[Len(LocalName)]
                    = LastSegment(sent.raw)[Len(LastSegment(sent.raw))]
    <3>1. /\ HasExtension(key)
          /\ key[Len(key)] = LastSegment(sent.raw)[Len(LastSegment(sent.raw))]
      BY <2>1, <2>5, ExtensionSurvives
    <3>2. /\ HasExtension(Sanitize(key))
          /\ Sanitize(key)[Len(Sanitize(key))] = key[Len(key)]
      <4>1. HasExtension(LastSegment(key))
        BY <2>2, <3>1, Zenon
      <4>2. /\ HasExtension(Sanitize(key))
            /\ Sanitize(key)[Len(Sanitize(key))] = LastSegment(key)[Len(LastSegment(key))]
        BY <2>2, <4>1, ExtensionSurvives, Zenon
      <4> QED BY <2>2, <4>2, Zenon
    <3> QED BY <2>3, <3>1, <3>2, Zenon
  <2>6. /\ row.filename # None
        /\ \A i \in DOMAIN row.filename : row.filename[i] \notin {"slash", "quote"}
    <3> DEFINE t == TitleOf(sent.raw)
    <3>1. t \in Seq(Shown) /\ t # None
      BY <2>1, TitleOfShape
    <3> HIDE DEF t
    <3>2. \A i \in DOMAIN t : t[i] \in Shown
      BY <3>1
    <3>3. \A i \in DOMAIN t : t[i] \notin {"slash", "quote"}
      BY <3>2 DEF Shown
    <3> QED BY <2>1, <3>1, <3>3 DEF t
  <2> QED BY <2>4, <2>5, <2>6
<1> QED BY <1>1, IntakeInvariance, PTL

\* A file called object.bin keeps that name however often it is sanitized.
LEMMA ObjectBinStays ==
  ASSUME NEW name \in Title, LastSegment(name) = FetchedAs
  PROVE  Sanitize(Sanitize(name)) = FetchedAs
<1> DEFINE z == FetchedAs
<1>1. /\ z \in Seq(Clean) /\ Len(z) = 3 /\ z # <<>>
      /\ z[1] = "object" /\ z[3] = "bin"
  BY DEF FetchedAs, Clean, Alnum
<1>2. LastSegment(z) = z /\ Flatten(z) = z
  BY <1>1, CleanIsKept
<1> HIDE DEF z
<1>3. ASSUME NEW out, "object" \notin out, "bin" \notin out PROVE Trim(z, out) = z
  <2>1. CutFrom(z, z, out)
    <3>1. /\ 0 \in Nat /\ 0 + Len(z) <= Len(z)
          /\ \A i \in 1..Len(z) : z[i] = z[0 + i]
          /\ \A i \in 1..Len(z) : i <= 0 \/ i > 0 + Len(z) => z[i] \in out
      BY <1>1
    <3> QED BY <3>1, Zenon DEF CutFrom
  <2> QED BY <1>1, <1>3, <2>1, CutIsTrim
<1>4. Trim(z, Blanks) = z /\ Trim(z, {"dot"}) = z
  BY <1>3 DEF Blanks
<1>5. \A s \in {name, z} : Sanitize(s) = z
  <2>1. \A s \in {name, z} : LastSegment(s) = z
    BY <1>2 DEF z
  <2> QED BY <1>1, <1>2, <1>4, <2>1, Zenon DEF Sanitize
<1> QED BY <1>5, Zenon DEF z

\* Demucs is given something else than the client's audio by a worker without
\* the key, and under a name that is object.bin between blanks and dots, which
\* object.bin itself always is: by nothing else and under no other (process).
THEOREM AudioMissesDemucsTwice == Spec => []WhatDemucsIsGiven
<1>1. IntakeInv => WhatDemucsIsGiven
  <2> SUFFICES ASSUME IntakeInv PROVE WhatDemucsIsGiven
    OBVIOUS
  <2>1. ASSUME localIn # NotFetched
        PROVE  sent.raw \in Title /\ row.key = Sanitize(sent.raw)
    BY <2>1 DEF IntakeInv, InputFetched, SentType, RowKeepsItsFile
  <2>2. ASSUME localIn.holds = "lost" PROVE Trim(LastSegment(sent.raw), Ends) = FetchedAs
    <3>1. localIn # NotFetched /\ Sanitize(row.key) = FetchedAs
      BY <2>2 DEF IntakeInv, InputFetched, NotFetched
    <3> QED BY <2>1, <3>1, OnlyObjectBin
  <2>3. ASSUME localIn.sealed, localIn.keyed, LastSegment(sent.raw) = FetchedAs
        PROVE  localIn.holds = "lost"
    <3>1. localIn # NotFetched
      BY <2>3 DEF NotFetched
    <3>2. Sanitize(row.key) = FetchedAs
      BY <2>1, <2>3, <3>1, ObjectBinStays
    <3> QED BY <2>3, <3>2 DEF IntakeInv, InputFetched
  <2>4. /\ localIn.holds = "sealed" => localIn.sealed /\ ~localIn.keyed
        /\ localIn.holds = "lost" => localIn.sealed /\ localIn.keyed
    BY DEF IntakeInv, InputFetched
  <2> QED BY <2>2, <2>3, <2>4, Zenon DEF WhatDemucsIsGiven, Ends, FetchedAs
<1> QED BY <1>1, IntakeInvariance, PTL

-------------------------------------------------------------------------------
(* The header.  Reading the starred form stops, after every symbol of the  *)
(* name, with that much of the name read and nothing escaped.              *)

Read == [text : Seq(Symbol), escaped : BOOLEAN]

LEMMA ReadSymbolType ==
  ASSUME NEW r \in Read, NEW c \in Symbol
  PROVE  ReadSymbol(r, c) \in Read
<1>1. r.text \in Seq(Symbol) /\ r.escaped \in BOOLEAN
  BY DEF Read
<1>2. Append(r.text, c) \in Seq(Symbol)
  BY <1>1
<1>3. [text |-> Append(r.text, c), escaped |-> FALSE] \in Read
  BY <1>2, Zenon DEF Read
<1>4. [r EXCEPT !.escaped = TRUE] \in Read
  BY <1>1, Zenon DEF Read
<1>5. [r EXCEPT !.text = Append(@, c)] \in Read
  BY <1>1, <1>2, Zenon DEF Read
<1> QED BY <1>3, <1>4, <1>5, Zenon DEF ReadSymbol

ReadStep(s, g) ==
  [i \in 0..Len(s) |-> IF i = 0 THEN Unread ELSE ReadSymbol(g[i - 1], s[i])]

LEMMA ReadingExists ==
  ASSUME NEW s \in Seq(Symbol)
  PROVE  \E g \in [0..Len(s) -> Read] : g = ReadStep(s, g)
<1> DEFINE n == Len(s)
           step == [i \in Nat |->
                      [r \in Read |-> IF i \in 1..n THEN ReadSymbol(r, s[i]) ELSE r]]
<1>1. n \in Nat /\ \A i \in 1..n : s[i] \in Symbol
  OBVIOUS
<1>2. Unread \in Read
  <2>1. <<>> \in Seq(Symbol)
    OBVIOUS
  <2> QED BY <2>1, Zenon DEF Unread, Read
<1>3. step \in [Nat -> [Read -> Read]]
  <2>1. ASSUME NEW i \in Nat, NEW r \in Read
        PROVE  (IF i \in 1..n THEN ReadSymbol(r, s[i]) ELSE r) \in Read
    BY <1>1, ReadSymbolType, Zenon
  <2> QED BY <2>1, Zenon
<1>4. ASSUME NEW i \in 1..n, NEW r \in Read PROVE step[i][r] = ReadSymbol(r, s[i])
  <2>1. i \in Nat
    BY <1>1
  <2> QED BY <2>1, Zenon
<1> HIDE DEF step, n
<1>5. PICK f \in [0..n -> Read] : f[0] = Unread /\ \A i \in 1..n : f[i] = step[i][f[i - 1]]
  <2>1. HasRecursion(n, Read, Unread, step)
    BY <1>1, <1>2, <1>3, RecursionExists, Zenon
  <2> QED BY <2>1, Zenon DEF HasRecursion
<1>6. \A i \in 0..n : f[i] = IF i = 0 THEN Unread ELSE ReadSymbol(f[i - 1], s[i])
  <2> TAKE i \in 0..n
  <2>1. CASE i = 0
    BY <1>5, <2>1, Zenon
  <2>2. CASE i # 0
    <3>1. i \in 1..n /\ i - 1 \in 0..n
      BY <1>1, <2>2
    <3> QED BY <1>4, <1>5, <2>2, <3>1, Zenon
  <2> QED BY <2>1, <2>2
<1>7. f = ReadStep(s, f)
  <2> DEFINE h == [i \in 0..n |-> IF i = 0 THEN Unread ELSE ReadSymbol(f[i - 1], s[i])]
  <2>1. \A i \in 0..n : f[i] = h[i]
    BY <1>6, Zenon
  <2>2. f = [i \in 0..n |-> f[i]]
    BY Zenon
  <2>3. f = h
    <3>1. h = [i \in 0..n |-> h[i]]
      BY Zenon
    <3> HIDE DEF h
    <3> QED BY <2>1, <2>2, <3>1, Zenon
  <2> QED BY <2>3, Zenon DEF ReadStep, n
<1> QED BY <1>7, Zenon DEF n

LEMMA Reading ==
  ASSUME NEW s \in Seq(Symbol)
  PROVE  \E g : /\ g[0] = Unread
                /\ \A i \in 1..Len(s) : g[i] = ReadSymbol(g[i - 1], s[i])
                /\ PercentDecoded(s) = g[Len(s)].text
<1> DEFINE read == CHOOSE g : g = ReadStep(s, g)
<1>1. PercentDecoded(s) = read[Len(s)].text
  BY Zenon DEF PercentDecoded, ReadStep
<1>2. read = ReadStep(s, read)
  BY ReadingExists, Zenon
<1> HIDE DEF read
<1>3. \A i \in 0..Len(s) : read[i] = IF i = 0 THEN Unread ELSE ReadSymbol(read[i - 1], s[i])
  BY <1>2, Zenon DEF ReadStep
<1>4. 0 \in 0..Len(s) /\ \A i \in 1..Len(s) : i \in 0..Len(s) /\ i # 0
  OBVIOUS
<1>5. read[0] = Unread /\ \A i \in 1..Len(s) : read[i] = ReadSymbol(read[i - 1], s[i])
  BY <1>3, <1>4, Zenon
<1> QED BY <1>1, <1>5, Zenon

\* What one symbol of the name becomes.
Encoded(c) == IF AttrChar(c) THEN <<c>> ELSE <<"pct", c>>

LEMMA EncodedParts ==
  ASSUME NEW name \in Title
  PROVE  LET parts == [i \in DOMAIN name |-> Encoded(name[i])]
         IN  /\ parts \in Seq(Seq(Symbol)) /\ Len(parts) = Len(name)
             /\ parts \in [1..Len(name) -> Seq(Symbol)]
             /\ PercentEncoded(name) = FlattenSeq(parts)
<1> DEFINE parts == [i \in DOMAIN name |-> Encoded(name[i])]
<1>1. /\ Len(name) \in Nat /\ DOMAIN name = 1..Len(name)
      /\ \A i \in 1..Len(name) : name[i] \in Symbol
  BY DEF Title
<1>2. ASSUME NEW c \in Symbol PROVE Encoded(c) \in Seq(Symbol)
  <2>1. <<c>> \in Seq(Symbol)
    OBVIOUS
  <2>2. "pct" \in Symbol
    BY DEF Symbol, Ascii
  <2>3. <<"pct", c>> \in Seq(Symbol)
    BY <2>2
  <2> QED BY <2>1, <2>3, Zenon DEF Encoded
<1>3. parts \in [1..Len(name) -> Seq(Symbol)]
  BY <1>1, <1>2, Zenon
<1>4. PercentEncoded(name) = FlattenSeq(parts)
  BY Zenon DEF PercentEncoded, Encoded
<1> HIDE DEF parts
<1>5. parts \in Seq(Seq(Symbol)) /\ Len(parts) = Len(name)
  BY <1>1, <1>3
<1> QED BY <1>3, <1>4, <1>5 DEF parts

\* Reading an encoded symbol appends the symbol.
LEMMA EncodedIsRead ==
  ASSUME NEW t \in Seq(Symbol), NEW c \in Symbol,
         NEW e \in Seq(Symbol), NEW p \in Nat, NEW g,
         p + Len(Encoded(c)) <= Len(e),
         \A j \in 1..Len(Encoded(c)) : e[p + j] = Encoded(c)[j],
         \A i \in 1..Len(e) : g[i] = ReadSymbol(g[i - 1], e[i]),
         g[p] = [text |-> t, escaped |-> FALSE]
  PROVE  g[p + Len(Encoded(c))] = [text |-> Append(t, c), escaped |-> FALSE]
<1> DEFINE r == [text |-> t, escaped |-> FALSE]
           s == [text |-> t, escaped |-> TRUE]
           u == [text |-> Append(t, c), escaped |-> FALSE]
<1>1. c # "pct" => ReadSymbol(r, c) = u
  BY Zenon DEF ReadSymbol
<1>2. ReadSymbol(r, "pct") = s
  BY Zenon DEF ReadSymbol
<1>3. ReadSymbol(s, c) = u
  BY Zenon DEF ReadSymbol
<1> HIDE DEF r, s, u
<1>4. CASE AttrChar(c)
  <2>1. Encoded(c) = <<c>> /\ c # "pct"
    BY <1>4 DEF Encoded, AttrChar, Alnum
  <2>2. Len(Encoded(c)) = 1 /\ Encoded(c)[1] = c
    BY <2>1
  <2>3. p + 1 \in 1..Len(e) /\ e[p + 1] = c /\ (p + 1) - 1 = p
    BY <2>2
  <2>4. g[p + 1] = ReadSymbol(g[p], c)
    BY <2>3
  <2>5. g[p + 1] = u
    BY <1>1, <2>1, <2>4 DEF r
  <2> QED BY <2>2, <2>5 DEF u
<1>5. CASE ~AttrChar(c)
  <2>1. Encoded(c) = <<"pct", c>>
    BY <1>5 DEF Encoded
  <2>2. Len(Encoded(c)) = 2 /\ Encoded(c)[1] = "pct" /\ Encoded(c)[2] = c
    BY <2>1
  <2>3. /\ p + 1 \in 1..Len(e) /\ p + 2 \in 1..Len(e)
        /\ e[p + 1] = "pct" /\ e[p + 2] = c
        /\ (p + 1) - 1 = p /\ (p + 2) - 1 = p + 1
    BY <2>2
  <2>4. g[p + 1] = ReadSymbol(g[p], "pct")
    BY <2>3
  <2>5. g[p + 1] = s
    BY <1>2, <2>4 DEF r
  <2>6. g[p + 2] = ReadSymbol(g[p + 1], c)
    BY <2>3
  <2>7. g[p + 2] = u
    BY <1>3, <2>5, <2>6
  <2> QED BY <2>2, <2>7 DEF u
<1> QED BY <1>4, <1>5

LEMMA DecodingUndoesEncoding ==
  ASSUME NEW name \in Title
  PROVE  PercentDecoded(PercentEncoded(name)) = name
<1> DEFINE n == Len(name)
           parts == [i \in DOMAIN name |-> Encoded(name[i])]
           e == PercentEncoded(name)
<1>1. /\ n \in Nat /\ name \in Seq(Symbol) /\ \A i \in 1..n : name[i] \in Symbol
      /\ DOMAIN name = 1..n
  BY DEF Title
<1>2. /\ parts \in Seq(Seq(Symbol)) /\ Len(parts) = n
      /\ parts \in [1..n -> Seq(Symbol)] /\ e = FlattenSeq(parts)
  BY EncodedParts, Zenon
<1>3. \A i \in 1..n : parts[i] = Encoded(name[i])
  BY <1>1, Zenon
<1> HIDE DEF parts, e, n
<1>4. PICK h \in [0..n -> Seq(Symbol)] :
        /\ h[0] = <<>>
        /\ \A i \in 1..n : h[i] = h[i - 1] \o parts[i]
        /\ e = h[n]
  BY <1>2, FlattenedByOne, Zenon
<1>5. \A i \in 0..n : Len(h[i]) <= Len(e) /\ \A j \in 1..Len(h[i]) : e[j] = h[i][j]
  <2>1. \A i \in 0..n : StartsAs(h[n], h[i])
    <3>1. parts \in [1..n -> Seq(Symbol)] /\ \A i \in 1..n : h[i] = h[i - 1] \o parts[i]
      BY <1>2, <1>4, Zenon
    <3> QED BY <1>1, <3>1, FlattenedPrefix, Zenon
  <2> QED BY <1>4, <2>1, Zenon DEF StartsAs
<1>6. e \in Seq(Symbol)
  BY <1>1, <1>4
<1>7. PICK g : /\ g[0] = Unread
               /\ \A i \in 1..Len(e) : g[i] = ReadSymbol(g[i - 1], e[i])
               /\ PercentDecoded(e) = g[Len(e)].text
  BY <1>6, Reading
<1> DEFINE P(i) == g[Len(h[i])] = [text |-> SubSeq(name, 1, i), escaped |-> FALSE]
           S == {i \in Nat : i \in 0..n => P(i)}
<1>8. P(0)
  <2>1. SubSeq(name, 1, 0) = <<>> /\ Len(h[0]) = 0
    BY <1>1, <1>4
  <2> QED BY <1>7, <2>1, Zenon DEF Unread
<1>9. ASSUME NEW i \in Nat, i + 1 \in 0..n, P(i) PROVE P(i + 1)
  <2> DEFINE c == name[i + 1]
             t == SubSeq(name, 1, i)
             p == Len(h[i])
             q == Len(h[i + 1])
  <2>1. i \in 0..n /\ i + 1 \in 1..n /\ (i + 1) - 1 = i
    BY <1>1, <1>9
  <2>2. c \in Symbol /\ parts[i + 1] = Encoded(c) /\ Encoded(c) \in Seq(Symbol)
    BY <1>1, <1>2, <1>3, <2>1
  <2>3. h[i] \in Seq(Symbol) /\ h[i + 1] \in Seq(Symbol) /\ h[i + 1] = h[i] \o Encoded(c)
    <3>1. h[i + 1] = h[(i + 1) - 1] \o parts[i + 1] /\ i + 1 \in 0..n
      <4>1. i + 1 \in 0..n
        BY <1>9
      <4> QED BY <1>4, <2>1, <4>1, Zenon
    <3>2. h[(i + 1) - 1] = h[i]
      BY <2>1, Zenon
    <3> HIDE DEF c
    <3> QED BY <2>1, <2>2, <3>1, <3>2, Zenon
  <2>4. t \in Seq(Symbol) /\ SubSeq(name, 1, i + 1) = Append(t, c)
    BY <1>1, <2>1 DEF n
  <2> HIDE DEF c, t
  <2>5. /\ p \in Nat /\ q = p + Len(Encoded(c)) /\ Len(Encoded(c)) \in Nat
        /\ \A j \in 1..Len(Encoded(c)) : p + j \in 1..q /\ h[i + 1][p + j] = Encoded(c)[j]
    BY <2>2, <2>3
  <2>6. q <= Len(e) /\ \A j \in 1..q : e[j] = h[i + 1][j]
    BY <1>5, <1>9
  <2>7. \A j \in 1..Len(Encoded(c)) : e[p + j] = Encoded(c)[j]
    BY <2>5, <2>6
  <2>8. g[p] = [text |-> t, escaped |-> FALSE]
    BY <1>9, Zenon DEF t
  <2> HIDE DEF p, q, P
  <2>9. g[p + Len(Encoded(c))] = [text |-> Append(t, c), escaped |-> FALSE]
    <3>1. p + Len(Encoded(c)) <= Len(e)
      BY <2>5, <2>6
    <3> QED BY <1>6, <1>7, <2>2, <2>4, <2>5, <2>7, <2>8, <3>1,
                 EncodedIsRead, ZenonT(60)
  <2>10. g[q] = [text |-> SubSeq(name, 1, i + 1), escaped |-> FALSE]
    BY <2>4, <2>5, <2>9
  <2> QED BY <2>10, Zenon DEF P, q
<1>10. P(n)
  <2> HIDE DEF P
  <2>1. 0 \in S
    BY <1>8
  <2>2. \A i \in Nat : i \in S => i + 1 \in S
    BY <1>1, <1>9
  <2>3. Nat \subseteq S
    <3> HIDE DEF S
    <3> QED BY <2>1, <2>2, NumbersFromZero
  <2> QED BY <1>1, <2>3
<1>11. g[Len(e)].text = SubSeq(name, 1, n)
  <2> DEFINE t == SubSeq(name, 1, n)
  <2>1. g[Len(h[n])] = [text |-> t, escaped |-> FALSE]
    BY <1>10, Zenon
  <2> HIDE DEF t
  <2>2. g[Len(h[n])].text = t
    BY <2>1
  <2> QED BY <1>4, <2>2, Zenon DEF t
<1>12. SubSeq(name, 1, n) = name
  BY <1>1, SubSeqFull DEF n
<1> QED BY <1>7, <1>11, <1>12 DEF e

LEMMA DownloadNameType ==
  ASSUME NEW title \in Title
  PROVE  DownloadName(title) \in Title
<1> DEFINE b == BeforeLastDot(title)
           dots == {i \in DOMAIN title : title[i] = "dot"}
           end == <<"space", "dash", "space", "song", "dot", "mp3">>
<1>1. b \in Seq(Symbol)
  <2>1. CASE dots = {}
    BY <2>1, Zenon DEF BeforeLastDot, Title
  <2>2. CASE dots # {}
    <3>1. dots \in SUBSET (1..Len(title)) /\ Len(title) \in Nat
      BY DEF Title
    <3> DEFINE m == Max(dots)
    <3>2. m \in 1..Len(title)
      BY <2>2, <3>1, MaxOfIndices
    <3>3. b = SubSeq(title, 1, m - 1)
      BY <2>2, Zenon DEF BeforeLastDot
    <3> HIDE DEF m, b
    <3>4. \A i \in 1..(m - 1) : title[i] \in Symbol
      BY <3>1, <3>2 DEF Title
    <3>5. SubSeq(title, 1, m - 1) \in Seq(Symbol)
      BY <3>1, <3>2, <3>4, SubSeqProperties DEF Title
    <3> QED BY <3>3, <3>5
  <2> QED BY <2>1, <2>2
<1>2. end \in Seq(Symbol)
  BY DEF Symbol, Ascii, Alnum
<1>3. DownloadName(title) = b \o end
  BY Zenon DEF DownloadName
<1> HIDE DEF b, end
<1> QED BY <1>1, <1>2, <1>3 DEF Title

\* For every name of a file, what the header's starred form decodes to is the
\* name of the download, and the quoted form is ASCII that no quote ends early
\* (content_disposition).
THEOREM HeadersCarryTitles == Spec => []HeaderCarriesTitle
<1>1. IntakeInv => HeaderCarriesTitle
  <2> SUFFICES ASSUME IntakeInv, row # NoRow
               PROVE  LET name   == DownloadName(row.filename)
                          header == ContentDisposition(name)
                      IN  /\ PercentDecoded(header.starred) = name
                          /\ \A i \in DOMAIN header.filename :
                               header.filename[i] \in Ascii \ {"quote"}
    BY Zenon DEF HeaderCarriesTitle
  <2> DEFINE name == DownloadName(row.filename)
  <2>1. row.filename \in Title
    <3>1. sent.raw \in Title /\ row.filename = TitleOf(sent.raw)
      BY DEF IntakeInv, SentType, RowKeepsItsFile
    <3>2. row.filename \in Seq(Shown) /\ Shown \subseteq Symbol
      BY <3>1, TitleOfShape DEF Shown
    <3> QED BY <3>2, SeqMonotonic DEF Title
  <2>2. name \in Title
    BY <2>1, DownloadNameType
  <2> HIDE DEF name
  <2>3. /\ ContentDisposition(name).starred = PercentEncoded(name)
        /\ ContentDisposition(name).filename = Sanitize(name)
    BY DEF ContentDisposition
  <2>4. PercentDecoded(PercentEncoded(name)) = name
    BY <2>2, DecodingUndoesEncoding
  <2>5. \A i \in DOMAIN Sanitize(name) : Sanitize(name)[i] \in Ascii \ {"quote"}
    <3>1. PathName(Sanitize(name))
      BY <2>2, KeyIsPathName
    <3> QED BY <3>1 DEF PathName
  <2> QED BY <2>3, <2>4, <2>5, Zenon DEF name
<1> QED BY <1>1, IntakeInvariance, PTL
===============================================================================
