------------------------------- MODULE JobList -------------------------------
(***************************************************************************)
(* What db.rs answers to a search: the filters, the order, the page and    *)
(* the total, over the rows of JobStore.  The page and the total come from *)
(* two statements; what may happen between them is in module Console.      *)
(*                                                                         *)
(* A text is a sequence of characters.  "pct", "under" and "back" are the  *)
(* three that LIKE treats specially; "A" and "a" are one letter.           *)
(***************************************************************************)
EXTENDS JobStore

CONSTANTS
  Char,     \* the characters of names and search terms, in byte order
  Query     \* the terms searched for, trimmed; <<>> is none

ASSUME JobListAssumption ==
  /\ Char \in Seq(STRING) /\ IsInjective(Char)
  /\ \A text \in Name \cup Query : text \in Seq(Range(Char))
  /\ <<>> \in Query

Wild   == "pct"
AnyOne    == "under"
Escape == "back"

Lower(c) == IF c = "A" THEN "a" ELSE c

-------------------------------------------------------------------------------

\* Whether the character of a pattern that was read last escapes the next.
Escapes(pattern) ==
  LET e[i \in 0..Len(pattern)] == i # 0 /\ pattern[i] = Escape /\ ~e[i - 1]
  IN  e

\* Where one more character of the pattern can end that begins after k
\* characters of the text.
EndsOf(c, escaped, text, k) ==
  CASE c = Wild /\ ~escaped   -> k..Len(text)
    [] c = Escape /\ ~escaped -> {k}
    [] OTHER -> {e \in {k + 1} :
                   /\ e <= Len(text)
                   /\ (c = AnyOne /\ ~escaped) \/ Lower(c) = Lower(text[e])}

\* text LIKE pattern ESCAPE '\', as SQLite has it: a pattern that ends in its
\* escape character matches nothing.
Like(pattern, text) ==
  LET escapes == Escapes(pattern)
      ends[i \in 0..Len(pattern)] ==
        IF i = 0 THEN {0}
        ELSE UNION {EndsOf(pattern[i], escapes[i - 1], text, k) : k \in ends[i - 1]}
  IN  Len(text) \in ends[Len(pattern)] /\ ~escapes[Len(pattern)]

Replaced(s, c) ==
  FlattenSeq([i \in DOMAIN s |-> IF s[i] = c THEN <<Escape, c>> ELSE <<s[i]>>])

\* Mutated form of Escaped: the escape character itself is escaped last.
EscapedLast(term) == Replaced(Replaced(Replaced(term, Wild), AnyOne), Escape)

Escaped(term) == Replaced(Replaced(Replaced(term, Escape), Wild), AnyOne)

\* A blank term is none: the query and the client both trim it.
Finds(term, name) ==
  term = <<>> \/ Like(<<Wild>> \o Escaped(term) \o <<Wild>>, name)

\* Tabulated, as neither depends on the rows.
Found == {asked \in Query \X Name : Finds(asked[1], asked[2])}

Matches(p) ==
  {j \in Job : /\ Exists(j)
               /\ p.status # Null => Is(j, p.status)
               /\ <<p.q, jobs[j].filename>> \in Found
               /\ p.favorite => jobs[j].favorite}

-------------------------------------------------------------------------------

Rank(c) == CHOOSE i \in DOMAIN Char : Char[i] = c

\* COLLATE NOCASE.
Folded(name) == [i \in DOMAIN name |-> Rank(Lower(name[i]))]

NameBefore == {pair \in Name \X Name : TextBefore(Folded(pair[1]), Folded(pair[2]))}

\* Tabulated like the others.
CreatedBefore ==
  {pair \in Instants \X Instants : TextBefore(Rfc3339(pair[1]), Rfc3339(pair[2]))}

\* Whether the ORDER BY of a sort puts one row before another.
OrderBy(sort, j, k) ==
  CASE sort = "oldest"    -> <<jobs[j].created, jobs[k].created>> \in CreatedBefore
    [] sort = "name"      -> <<jobs[j].filename, jobs[k].filename>> \in NameBefore
    [] sort = "name_desc" -> <<jobs[k].filename, jobs[j].filename>> \in NameBefore
    [] OTHER              -> <<jobs[k].created, jobs[j].created>> \in CreatedBefore

\* Starred first, whatever the sort.
Before(p, j, k) ==
  IF jobs[j].favorite # jobs[k].favorite THEN jobs[j].favorite
  ELSE OrderBy(p.sort, j, k)

\* The rows in an order the statement may return: ties come in any.
Orders(p) ==
  {s \in SetToSeqs(Matches(p)) :
     \A i, k \in DOMAIN s : i < k => ~Before(p, s[k], s[i])}

\* list_jobs takes any numbers and makes these of them.
Limit(p)  == Min({200, Max({1, p.limit})})
Offset(p) == Max({0, p.offset})

Pages(p) == {SubSeq(s, Offset(p) + 1, Min({Len(s), Offset(p) + Limit(p)})) : s \in Orders(p)}

Total(p) == Cardinality(Matches(p))

QueueDepth == Cardinality(Queued)
===============================================================================
