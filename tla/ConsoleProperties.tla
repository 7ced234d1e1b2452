-------------------------- MODULE ConsoleProperties --------------------------
(***************************************************************************)
(* What must hold of the console's job list.                               *)
(***************************************************************************)
EXTENDS Console

\* The console shows what a search with its filters would answer now.
Accurate ==
  /\ online
  /\ queueDepth = QueueDepth
  /\ total = Total(filters)
  /\ page \in {Views(rows) : rows \in Pages(filters)}

\* When nothing changes any more the poll puts everything right: a page and a
\* total read on two sides of a change, an answer to filters that are no longer
\* set, a star drawn for a write that failed ("the poll corrects it", refresh
\* and toggleFavorite of +page.svelte, list of db.rs).
PollCorrects == <>[]Accurate

\* However an edit ends, by Enter (which saves twice), Escape or a click
\* elsewhere, it sends one PATCH at most (saveName of +page.svelte).
EditSendsOnce == patched <= 1

\* A search finds the names that contain the term as it was typed, in either
\* case, whatever it is made of (push_filters of db.rs).
ContainsText(name, term) ==
  \E k \in 0..(Len(name) - Len(term)) :
    \A i \in DOMAIN term : Lower(name[k + i]) = Lower(term[i])

ShortText == UNION {[1..n -> Range(Char)] : n \in 0..3}

FoundAsTyped ==
  {name \in Name : \A term \in ShortText : Finds(term, name) <=> ContainsText(name, term)}

SearchIsLiteral == \A j \in Job : Exists(j) => jobs[j].filename \in FoundAsTyped

\* The text of a list without rows, "No jobs yet" (i18n.svelte.ts), goes away
\* when there are jobs.
SaysNoJobs == loaded /\ page = <<>> /\ filters.q = <<>> /\ ~filters.favorite

EmptyMeansNoJobs ==
  SaysNoJobs ~> (~SaysNoJobs \/ \A j \in Job : ~Exists(j))
===============================================================================
