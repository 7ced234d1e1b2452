------------------------------- MODULE JobStore -------------------------------
(***************************************************************************)
(* The jobs table and one action per SQL statement of db.rs.  SQLite runs  *)
(* each statement atomically, so a statement is a step; what a caller does *)
(* between two statements is in module Service.                            *)
(***************************************************************************)
EXTENDS Timestamps

CONSTANTS
  Job,        \* the ids uploads can draw
  Stem,       \* the stems one separation produces
  Name,       \* display names
  Star,       \* the values a client sets `favorite` to
  Percent,    \* progress values demucs prints
  Instants,   \* the instants at which now() may read the clock
  Null        \* SQL NULL, None

ASSUME StoreAssumption ==
  /\ Percent \subseteq 0..100 /\ Star \subseteq BOOLEAN
  /\ Name # {} /\ Instants # {} /\ Instants \subseteq Nat
  /\ Null \notin Job /\ Null \notin Name /\ Null \notin BOOLEAN

VARIABLE jobs

Status == {"none", "queued", "running", "done", "failed"}

\* "none" is the absence of a row.  started, finished and error only say
\* whether the column is NULL; the instants and texts in them decide nothing.
Row == [status : Status, progress : 0..100, stems : SUBSET Stem,
        error : BOOLEAN, started : BOOLEAN, finished : BOOLEAN,
        favorite : BOOLEAN, filename : Name, created : Instants]

NoRow == [status |-> "none", progress |-> 0, stems |-> {},
          error |-> FALSE, started |-> FALSE, finished |-> FALSE,
          favorite |-> FALSE, filename |-> CHOOSE n \in Name : TRUE,
          created |-> CHOOSE t \in Instants : TRUE]

StoreTypeOK == jobs \in [Job -> Row]

StoreInit == jobs = [j \in Job |-> NoRow]

Exists(j)   == jobs[j].status # "none"
Is(j, s)    == jobs[j].status = s
Queued      == {j \in Job : Is(j, "queued")}
Coalesce(x, old) == IF x = Null THEN old ELSE x

\* UPDATE ... WHERE id = j: a statement that matches no row changes nothing.
Update(j, row) == jobs' = [jobs EXCEPT ![j] = IF Exists(j) THEN row ELSE @]

-------------------------------------------------------------------------------

Insert(j, name, t) ==
  /\ ~Exists(j)
  /\ jobs' = [jobs EXCEPT ![j] =
       [NoRow EXCEPT !.status = "queued", !.filename = name, !.created = t]]

\* Mutated form of FirstInLine: the order the other way round.
LastInLine(j) ==
  /\ j \in Queued
  /\ \A k \in Queued :
       ~TextBefore(Rfc3339(jobs[j].created), Rfc3339(jobs[k].created))

\* ORDER BY created_at ASC LIMIT 1; rows with equal texts come in any order.
FirstInLine(j) ==
  /\ j \in Queued
  /\ \A k \in Queued :
       ~TextBefore(Rfc3339(jobs[k].created), Rfc3339(jobs[j].created))

ClaimNext(j) ==
  /\ FirstInLine(j)
  /\ jobs' = [jobs EXCEPT ![j] = [@ EXCEPT !.status = "running",
                !.started = TRUE, !.progress = 0, !.error = FALSE]]

SetProgress(j, p) == Update(j, [jobs[j] EXCEPT !.progress = p])

\* Neither verdict looks at the status the row has.
SetDone(j, stems) ==
  Update(j, [jobs[j] EXCEPT !.status = "done", !.progress = 100,
                            !.stems = stems, !.finished = TRUE])

\* Mutated form of SetFailed: a status nothing else knows.
SetFailedAsError(j) ==
  Update(j, [jobs[j] EXCEPT !.status = "error", !.error = TRUE,
                            !.finished = TRUE])

SetFailed(j) ==
  Update(j, [jobs[j] EXCEPT !.status = "failed", !.error = TRUE,
                            !.finished = TRUE])

SetNameAndStar(j, name, star) ==
  /\ Exists(j)
  /\ jobs' = [jobs EXCEPT ![j] = [jobs[j] EXCEPT
                !.filename = Coalesce(name, jobs[j].filename),
                !.favorite = Coalesce(star, jobs[j].favorite)]]

\* Mutated forms of Delete: any row, and the wrong status refused.
DeleteAny(j) ==
  /\ Exists(j)
  /\ jobs' = [jobs EXCEPT ![j] = NoRow]

DeleteUnlessQueued(j) ==
  /\ Exists(j) /\ ~Is(j, "queued")
  /\ jobs' = [jobs EXCEPT ![j] = NoRow]

Delete(j) ==
  /\ Exists(j) /\ ~Is(j, "running")
  /\ jobs' = [jobs EXCEPT ![j] = NoRow]

\* Mutated form of RequeueOrphans: the orphan is inserted afresh.
ReinsertOrphans ==
  jobs' = [j \in Job |->
    IF Is(j, "running") THEN [NoRow EXCEPT !.status = "queued"] ELSE jobs[j]]

RequeueOrphans ==
  jobs' = [j \in Job |->
    IF Is(j, "running")
      THEN [jobs[j] EXCEPT !.status = "queued", !.progress = 0, !.started = FALSE]
      ELSE jobs[j]]
===============================================================================
