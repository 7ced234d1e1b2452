------------------------------- MODULE Service -------------------------------
(***************************************************************************)
(* The running service: the HTTP handlers that create, rename and delete   *)
(* jobs, the one worker with its demucs child and the task that pumps the  *)
(* child's progress, and the three stores they share: the jobs table       *)
(* (JobStore), the bucket and the worker's scratch directory.              *)
(*                                                                         *)
(* A step is the code between two awaits.  The process may die at any      *)
(* moment; the table, the bucket and the scratch directory outlive it.     *)
(***************************************************************************)
EXTENDS JobStore

CONSTANTS
  Input,      \* the uploaded file's place among a job's objects
  Silent      \* jobs whose track demucs skips, exiting 0 without output

ASSUME ServiceAssumption == Input \notin Stem /\ Silent \subseteq Job

VARIABLES
  objects,    \* the bucket: what is stored under jobs/{id}/
  scratch,    \* the worker's output directory of each job
  wpc, wjob,  \* where the worker is, and the job it works on
  uploaded,   \* stems pushed to the bucket so far
  demucs,     \* the child: none, running, or how it exited
  unwritten,  \* stems the child has still to write
  pumps,      \* jobs with a live pump_progress task
  permit,     \* the permit a tokio Notify stores
  upload,     \* where create_job is, for each id
  removal,    \* where delete_job is, for each id
  sweep       \* the listed objects delete_prefix has still to delete

storeVars  == <<jobs>>
workerVars == <<wpc, wjob, uploaded>>
childVars  == <<scratch, demucs, unwritten, pumps>>
httpVars   == <<upload, removal, sweep>>
vars == <<jobs, objects, permit, workerVars, childVars, httpVars>>

Item    == Stem \cup {Input}
Content == {"none", "partial", "whole"}

\* The worker's program counter.  From "fetch" to "upload" it is in process(),
\* in "failing" it is about to write the failure, in "clean" the verdict is
\* behind it.
Processing == {"fetch", "spawn", "wait", "drain", "collect", "upload", "failing"}
WorkerPC   == Processing \cup {"down", "claim", "empty", "idle", "backoff", "clean"}
UploadPC   == {"idle", "put", "insert", "notify", "accepted", "unnotified", "rejected"}
RemovalPC  == {"idle", "list", "sweep", "ok", "error"}

TypeOK ==
  /\ StoreTypeOK
  /\ objects \in [Job -> [Item -> Content]]
  /\ scratch \in [Job -> [Stem -> Content]]
  /\ wpc \in WorkerPC
  /\ wjob \in Job \cup {Null}
  /\ uploaded \in SUBSET Stem
  /\ demucs \in {"none", "running", "ok", "bad"}
  /\ unwritten \in SUBSET Stem
  /\ pumps \in SUBSET Job
  /\ permit \in BOOLEAN
  /\ upload \in [Job -> UploadPC]
  /\ removal \in [Job -> RemovalPC]
  /\ sweep \in [Job -> SUBSET Item]

Init ==
  /\ StoreInit
  /\ objects = [j \in Job |-> [i \in Item |-> "none"]]
  /\ scratch = [j \in Job |-> [s \in Stem |-> "none"]]
  /\ wpc = "down" /\ wjob = Null /\ uploaded = {}
  /\ demucs = "none" /\ unwritten = {} /\ pumps = {}
  /\ permit = FALSE
  /\ upload = [j \in Job |-> "idle"]
  /\ removal = [j \in Job |-> "idle"]
  /\ sweep = [j \in Job |-> {}]

Up == wpc # "down"

WorkerAt(pc)    == wpc = pc
WorkerTo(pc)    == wpc' = pc /\ UNCHANGED <<wjob, uploaded>>
UploadAt(j, pc) == Up /\ upload[j] = pc
UploadTo(j, pc) == upload' = [upload EXCEPT ![j] = pc] /\ UNCHANGED <<removal, sweep>>
RemovalAt(j, pc) == Up /\ removal[j] = pc
RemovalTo(j, pc) == removal' = [removal EXCEPT ![j] = pc] /\ UNCHANGED upload
Store(j, item, content) == objects' = [objects EXCEPT ![j][item] = content]

-------------------------------------------------------------------------------
(* The worker: taking a job, or waiting for one.                           *)

Claim(j) ==
  /\ WorkerAt("claim")
  /\ ClaimNext(j)
  /\ wpc' = "fetch" /\ wjob' = j /\ UNCHANGED uploaded
  /\ UNCHANGED <<objects, permit, childVars, httpVars>>

ClaimNone ==
  /\ WorkerAt("claim") /\ Queued = {}
  /\ WorkerTo("empty")
  /\ UNCHANGED <<jobs, objects, permit, childVars, httpVars>>

ClaimErr ==
  /\ WorkerAt("claim")
  /\ WorkerTo("backoff")
  /\ UNCHANGED <<jobs, objects, permit, childVars, httpVars>>

BackoffOver ==
  /\ WorkerAt("backoff")
  /\ WorkerTo("claim")
  /\ UNCHANGED <<jobs, objects, permit, childVars, httpVars>>

\* Between the answer "nothing queued" and the select there is no await, but
\* handlers run on other threads.
StartWaiting ==
  /\ WorkerAt("empty")
  /\ WorkerTo("idle")
  /\ UNCHANGED <<jobs, objects, permit, childVars, httpVars>>

Wake ==
  /\ WorkerAt("idle") /\ permit
  /\ permit' = FALSE
  /\ WorkerTo("claim")
  /\ UNCHANGED <<jobs, objects, childVars, httpVars>>

\* Mutated form of PollTimer: the worker waits for notifications only.
NoPollTimer == FALSE

\* A Notified dropped by the select hands its notification back, so the timer
\* leaves the permit as it is.
PollTimer ==
  /\ WorkerAt("idle")
  /\ WorkerTo("claim")
  /\ UNCHANGED <<jobs, objects, permit, childVars, httpVars>>

-------------------------------------------------------------------------------
(* The worker: one job.                                                    *)

Fetch ==
  /\ WorkerAt("fetch") /\ objects[wjob][Input] # "none"
  /\ WorkerTo("spawn")
  /\ UNCHANGED <<jobs, objects, permit, childVars, httpVars>>

Spawn ==
  /\ WorkerAt("spawn")
  /\ demucs' = "running"
  /\ unwritten' = IF wjob \in Silent THEN {} ELSE Stem
  /\ pumps' = pumps \cup {wjob}
  /\ WorkerTo("wait")
  /\ UNCHANGED <<jobs, objects, permit, scratch, httpVars>>

\* A `?` anywhere in process() but the wait: a directory, the download, the
\* decryption, the spawn, sealing or pushing a stem (the store may have taken
\* the object whose put reports an error, so the last one included).
ProcessFails ==
  /\ wpc \in {"fetch", "spawn", "collect", "upload"}
  /\ WorkerTo("failing")
  /\ UNCHANGED <<jobs, objects, permit, childVars, httpVars>>

WaitReturns ==
  /\ WorkerAt("wait") /\ demucs # "running"
  /\ WorkerTo("drain")
  /\ UNCHANGED <<jobs, objects, permit, childVars, httpVars>>

\* Mutated form of Timeout: the wait has no limit.
NoTimeout == FALSE

\* The timeout drops the child, which kills it; the pump is a task of its own
\* and goes on until it has read the pipe to its end.
Timeout ==
  /\ WorkerAt("wait")
  /\ demucs' = "none" /\ unwritten' = {}
  /\ WorkerTo("failing")
  /\ UNCHANGED <<jobs, objects, permit, scratch, pumps, httpVars>>

\* Mutated forms of Drained: the pump is not awaited, and the exit status is
\* not looked at.
NotDrained ==
  /\ WorkerAt("drain")
  /\ demucs' = "none" /\ unwritten' = {}
  /\ WorkerTo(IF demucs = "ok" THEN "collect" ELSE "failing")
  /\ UNCHANGED <<jobs, objects, permit, scratch, pumps, httpVars>>

DrainedWhateverTheStatus ==
  /\ WorkerAt("drain") /\ wjob \notin pumps
  /\ demucs' = "none" /\ unwritten' = {}
  /\ WorkerTo("collect")
  /\ UNCHANGED <<jobs, objects, permit, scratch, pumps, httpVars>>

\* The exit status is looked at only once the pump has ended.
Drained ==
  /\ WorkerAt("drain") /\ wjob \notin pumps
  /\ demucs' = "none" /\ unwritten' = {}
  /\ WorkerTo(IF demucs = "ok" THEN "collect" ELSE "failing")
  /\ UNCHANGED <<jobs, objects, permit, scratch, pumps, httpVars>>

Produced(j) == {s \in Stem : scratch[j][s] # "none"}

Collect ==
  /\ WorkerAt("collect")
  /\ wpc' = IF Produced(wjob) = {} THEN "failing" ELSE "upload"
  /\ uploaded' = {}
  /\ UNCHANGED <<wjob, jobs, objects, permit, childVars, httpVars>>

UploadStem(s) ==
  /\ WorkerAt("upload") /\ s \in Produced(wjob) \ uploaded
  /\ Store(wjob, s, scratch[wjob][s])
  /\ uploaded' = uploaded \cup {s}
  /\ UNCHANGED <<wpc, wjob, jobs, permit, childVars, httpVars>>

\* Mutated form of MarkDone: the row is done before every stem is pushed.
MarkDoneEarly ==
  /\ WorkerAt("upload")
  /\ SetDone(wjob, Produced(wjob))
  /\ WorkerTo("clean")
  /\ UNCHANGED <<objects, permit, childVars, httpVars>>

MarkDone ==
  /\ WorkerAt("upload") /\ uploaded = Produced(wjob)
  /\ SetDone(wjob, uploaded)
  /\ WorkerTo("clean")
  /\ UNCHANGED <<objects, permit, childVars, httpVars>>

\* The error is logged and the row stays as it was.
MarkDoneFails ==
  /\ WorkerAt("upload") /\ uploaded = Produced(wjob)
  /\ WorkerTo("clean")
  /\ UNCHANGED <<jobs, objects, permit, childVars, httpVars>>

MarkFailed ==
  /\ WorkerAt("failing")
  /\ SetFailed(wjob)
  /\ WorkerTo("clean")
  /\ UNCHANGED <<objects, permit, childVars, httpVars>>

MarkFailedFails ==
  /\ WorkerAt("failing")
  /\ WorkerTo("clean")
  /\ UNCHANGED <<jobs, objects, permit, childVars, httpVars>>

\* Best effort: any part of the directory may be left behind.
Clean ==
  /\ WorkerAt("clean")
  /\ \E left \in SUBSET Stem :
       scratch' = [scratch EXCEPT ![wjob] =
                     [s \in Stem |-> IF s \in left THEN @[s] ELSE "none"]]
  /\ wpc' = "claim" /\ wjob' = Null /\ uploaded' = {}
  /\ UNCHANGED <<jobs, objects, permit, demucs, unwritten, pumps, httpVars>>

-------------------------------------------------------------------------------
(* The demucs child and the pump on its stderr.                            *)

DemucsOpens(s) ==
  /\ demucs = "running" /\ s \in unwritten /\ scratch[wjob][s] # "partial"
  /\ scratch' = [scratch EXCEPT ![wjob][s] = "partial"]
  /\ UNCHANGED <<jobs, objects, permit, workerVars, demucs, unwritten, pumps, httpVars>>

DemucsCloses(s) ==
  /\ demucs = "running" /\ s \in unwritten /\ scratch[wjob][s] = "partial"
  /\ scratch' = [scratch EXCEPT ![wjob][s] = "whole"]
  /\ unwritten' = unwritten \ {s}
  /\ UNCHANGED <<jobs, objects, permit, workerVars, demucs, pumps, httpVars>>

\* Status 0 means the child did all it set out to do; it may fail or be killed
\* at any moment.
DemucsExits ==
  /\ demucs = "running"
  /\ demucs' \in {"bad"} \cup IF unwritten = {} THEN {"ok"} ELSE {}
  /\ UNCHANGED <<jobs, objects, permit, workerVars, scratch, unwritten, pumps, httpVars>>

\* What is left in the pipe is still reported after the child is gone.
PumpReport(j, p) ==
  /\ j \in pumps
  /\ SetProgress(j, p)
  /\ UNCHANGED <<objects, permit, workerVars, childVars, httpVars>>

PumpEof(j) ==
  /\ j \in pumps /\ ~(j = wjob /\ demucs = "running")
  /\ pumps' = pumps \ {j}
  /\ UNCHANGED <<jobs, objects, permit, workerVars, scratch, demucs, unwritten, httpVars>>

-------------------------------------------------------------------------------
(* The process dies and starts again.                                      *)

Crash ==
  /\ Up
  /\ wpc' = "down" /\ wjob' = Null /\ uploaded' = {}
  /\ demucs' = "none" /\ unwritten' = {} /\ pumps' = {}
  /\ permit' = FALSE
  /\ upload' = [j \in Job |-> CASE upload[j] \in {"put", "insert"} -> "rejected"
                                [] upload[j] = "notify" -> "unnotified"
                                [] OTHER -> upload[j]]
  /\ removal' = [j \in Job |-> IF removal[j] \in {"list", "sweep"}
                                 THEN "error" ELSE removal[j]]
  /\ sweep' = [j \in Job |-> {}]
  /\ UNCHANGED <<jobs, objects, scratch>>

\* Nothing is served and no worker runs before the orphans are requeued.
Boot ==
  /\ ~Up
  /\ RequeueOrphans
  /\ WorkerTo("claim")
  /\ UNCHANGED <<objects, permit, childVars, httpVars>>

-------------------------------------------------------------------------------
(* create_job: store the input, insert the row, nudge the worker.          *)

Receive(j) ==
  /\ UploadAt(j, "idle")
  /\ UploadTo(j, "put")
  /\ UNCHANGED <<jobs, objects, permit, workerVars, childVars>>

\* Mutated form of PutInput: the result of the put is thrown away.
PutInputUnchecked(j) ==
  /\ UploadAt(j, "put")
  /\ Store(j, Input, "whole") \/ UNCHANGED objects
  /\ UploadTo(j, "insert")
  /\ UNCHANGED <<jobs, permit, workerVars, childVars>>

PutInput(j) ==
  /\ UploadAt(j, "put")
  /\ Store(j, Input, "whole")
  /\ UploadTo(j, "insert")
  /\ UNCHANGED <<jobs, permit, workerVars, childVars>>

InsertRow(j, name, t) ==
  /\ UploadAt(j, "insert")
  /\ Insert(j, name, t)
  /\ UploadTo(j, "notify")
  /\ UNCHANGED <<objects, permit, workerVars, childVars>>

\* Mutated form of Notify: notify_waiters, which stores no permit.
NotifyWaiters(j) ==
  /\ UploadAt(j, "notify")
  /\ permit' = (permit \/ wpc = "idle")
  /\ UploadTo(j, "accepted")
  /\ UNCHANGED <<jobs, objects, workerVars, childVars>>

Notify(j) ==
  /\ UploadAt(j, "notify")
  /\ permit' = TRUE
  /\ UploadTo(j, "accepted")
  /\ UNCHANGED <<jobs, objects, workerVars, childVars>>

\* An error of the put or the insert, or the client hanging up, which drops
\* the handler: after the insert the row stays and nobody is notified.
UploadEnds(j) ==
  /\ Up
  /\ \/ /\ upload[j] \in {"put", "insert"}
        /\ UploadTo(j, "rejected")
     \/ /\ upload[j] = "notify"
        /\ UploadTo(j, "unnotified")
  /\ UNCHANGED <<jobs, objects, permit, workerVars, childVars>>

-------------------------------------------------------------------------------
(* patch_job and delete_job.                                               *)

Patch(j, name, star) ==
  /\ Up
  /\ name # Null \/ star # Null
  /\ SetNameAndStar(j, name, star)
  /\ UNCHANGED <<objects, permit, workerVars, childVars, httpVars>>

\* The row goes first.  A delete that matches no row is answered with an
\* error and changes nothing.
DeleteRow(j) ==
  /\ Up
  /\ Delete(j)
  /\ RemovalTo(j, "list")
  /\ UNCHANGED <<sweep, objects, permit, workerVars, childVars>>

ListObjects(j) ==
  /\ RemovalAt(j, "list")
  /\ sweep' = [sweep EXCEPT ![j] = {i \in Item : objects[j][i] # "none"}]
  /\ RemovalTo(j, "sweep")
  /\ UNCHANGED <<jobs, objects, permit, workerVars, childVars>>

\* The result of delete_object is thrown away.
SweepObject(j, i) ==
  /\ RemovalAt(j, "sweep") /\ i \in sweep[j]
  /\ Store(j, i, "none") \/ UNCHANGED objects
  /\ sweep' = [sweep EXCEPT ![j] = @ \ {i}]
  /\ UNCHANGED <<upload, removal, jobs, permit, workerVars, childVars>>

SweepDone(j) ==
  /\ RemovalAt(j, "sweep") /\ sweep[j] = {}
  /\ RemovalTo(j, "ok")
  /\ UNCHANGED <<sweep, jobs, objects, permit, workerVars, childVars>>

\* list_objects_v2 fails, or the client hangs up.
RemovalAborts(j) ==
  /\ Up /\ removal[j] \in {"list", "sweep"}
  /\ sweep' = [sweep EXCEPT ![j] = {}]
  /\ RemovalTo(j, "error")
  /\ UNCHANGED <<jobs, objects, permit, workerVars, childVars>>

-------------------------------------------------------------------------------

Claims == (\E j \in Job : Claim(j)) \/ ClaimNone

Verdict == MarkDone \/ MarkDoneFails \/ MarkFailed \/ MarkFailedFails

WorkerStep ==
  \/ Claims \/ ClaimErr \/ BackoffOver
  \/ StartWaiting \/ Wake \/ PollTimer
  \/ Fetch \/ Spawn \/ ProcessFails
  \/ WaitReturns \/ Timeout \/ Drained \/ Collect
  \/ \E s \in Stem : UploadStem(s)
  \/ Verdict \/ Clean

DemucsStep ==
  \/ \E s \in Stem : DemucsOpens(s) \/ DemucsCloses(s)
  \/ DemucsExits

PumpStep(j) ==
  \/ \E p \in Percent : PumpReport(j, p)
  \/ PumpEof(j)

HandlerStep(j) ==
  \/ Receive(j) \/ PutInput(j)
  \/ \E name \in Name, t \in Instants : InsertRow(j, name, t)
  \/ Notify(j) \/ UploadEnds(j)
  \/ \E name \in Name \cup {Null}, star \in Star \cup {Null} : Patch(j, name, star)
  \/ DeleteRow(j) \/ ListObjects(j)
  \/ \E i \in Item : SweepObject(j, i)
  \/ SweepDone(j) \/ RemovalAborts(j)

Next ==
  \/ WorkerStep \/ DemucsStep
  \/ \E j \in Job : PumpStep(j) \/ HandlerStep(j)
  \/ Crash \/ Boot

\* The runtime polls the worker and the pumps; a dead child closes its end of
\* the pipe; the table does not refuse the claim for ever.  Nothing is assumed
\* of demucs, the clients, crashes or restarts.
Fairness ==
  /\ WF_vars(WorkerStep)
  /\ SF_vars(Claims)
  /\ \A j \in Job : WF_vars(PumpEof(j))

Spec     == Init /\ [][Next]_vars
FairSpec == Spec /\ Fairness
===============================================================================
