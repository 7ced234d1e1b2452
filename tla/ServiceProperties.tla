-------------------------- MODULE ServiceProperties --------------------------
(***************************************************************************)
(* What must hold of the service.                                          *)
(***************************************************************************)
EXTENDS Service

\* The job in the worker's hands has a running row until its verdict is
\* written: no delete, no requeue and no second claim takes it away
\* (worker.rs process, against db.rs delete and requeue_orphans).
WorkerOwnsRunning ==
  wpc \in Processing => wjob \in Job /\ Is(wjob, "running")

\* A row always points at a stored input: the promise of the comment in
\* create_job, which a delete must not break either (it removes the row first).
RowHasInput ==
  \A j \in Job : Exists(j) => objects[j][Input] = "whole"

\* A job the console shows as done has all its stems, each one complete in
\* the bucket; in particular neither a killed child's half-written files nor
\* those left by an attempt before a crash are ever published.
DoneIsComplete ==
  \A j \in Job : Is(j, "done") =>
    /\ jobs[j].stems = Stem
    /\ \A s \in Stem : objects[j][s] = "whole"

\* The columns of a row tell one story: a queued row shows nothing of an
\* earlier attempt, a done one is at 100 per cent whatever the pump still had
\* to report, and only a failed one has an error.
QueuedRow(row)  == row.progress = 0 /\ ~row.started /\ ~row.finished /\ row.stems = {}
RunningRow(row) == row.started /\ ~row.finished /\ row.stems = {}
DoneRow(row)    == row.progress = 100 /\ row.started /\ row.finished
FailedRow(row)  == row.started /\ row.finished /\ row.stems = {}

RowConsistent(j) ==
  /\ Is(j, "queued")  => QueuedRow(jobs[j])
  /\ Is(j, "running") => RunningRow(jobs[j])
  /\ Is(j, "done")    => DoneRow(jobs[j])
  /\ Is(j, "failed")  => FailedRow(jobs[j])
  /\ jobs[j].error    <=> Is(j, "failed")

RowsConsistent == \A j \in Job : RowConsistent(j)

\* The worker never waits for its poll timer while a job whose upload was
\* acknowledged is in line: the permit is there to wake it.
NoLostWakeup ==
  /\ wpc \in {"empty", "idle"}
  /\ \E j \in Queued : upload[j] = "accepted"
  => permit

\* Once the row is gone nothing of the job is stored again, neither by its
\* upload nor by the worker, so that what a delete sweeps stays swept.
Stored(j) == {i \in Item : objects[j][i] # "none"}

NothingComesBack ==
  [][\A j \in Job : removal[j] # "idle" => Stored(j)' \subseteq Stored(j)]_vars

\* claim_next takes the oldest queued job, by the instants of the uploads.
ClaimsOldest ==
  [][\A j \in Job : Is(j, "queued") /\ Is(j, "running")' =>
       \A k \in Queued : jobs[j].created <= jobs[k].created]_vars

\* A rename or a star is kept through claims, verdicts, requeues and progress
\* reports: only another patch of the job changes it, only a delete drops it.
PatchKept ==
  [][\A j \in Job :
       /\ Exists(j) /\ Exists(j)'
       /\ ~\E name \in Name \cup {Null}, star \in Star \cup {Null} :
            Patch(j, name, star)
       => /\ jobs'[j].filename = jobs[j].filename
          /\ jobs'[j].favorite = jobs[j].favorite]_vars

\* The service implements the life cycle its users rely on.
Phase(j) ==
  IF Exists(j) THEN jobs[j].status
  ELSE IF upload[j] \in {"notify", "accepted", "unnotified"} THEN "deleted"
  ELSE "new"

Lifecycle == INSTANCE JobLifecycle WITH
  phase     <- [j \in Job |-> Phase(j)],
  active    <- IF wpc \in Processing THEN wjob ELSE Null,
  published <- [j \in Job |-> {s \in jobs[j].stems : objects[j][s] = "whole"}]

ImplementsLifecycle == Lifecycle!LifecycleSpec

-------------------------------------------------------------------------------

StaysUp == <>[]Up

\* A running row that no worker holds, while the process is up.
Stranded(j) == Up /\ Is(j, "running") /\ wjob # j

\* Once the process stays up every queued job is claimed or deleted: uploads
\* whose handler died before the notification and requeued orphans included.
QueuedIsClaimed ==
  StaysUp => \A j \in Job : Is(j, "queued") ~> ~Is(j, "queued")

\* Once the process stays up every job gets its verdict or is deleted, even
\* if demucs hangs (JOB_TIMEOUT_SECS is for that), unless the table refuses
\* the verdict: that error is only logged and the row stays running.
EveryJobSettles ==
  StaysUp /\ <>[](\A j \in Job : ~Stranded(j)) =>
    \A j \in Job : Exists(j) ~> (~Exists(j) \/ Is(j, "done") \/ Is(j, "failed"))

\* The README of a delete: it "removes the row and every object under
\* jobs/{id}/"; an acknowledged one should have left nothing.
DeletedMeansGone ==
  \A j \in Job : removal[j] = "ok" => Stored(j) = {}
===============================================================================
