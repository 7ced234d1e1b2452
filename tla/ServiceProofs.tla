---------------------------- MODULE ServiceProofs ----------------------------
(***************************************************************************)
(* The service, for every value of the constants: its type invariant and   *)
(* its safety invariants; that it implements the life cycle of a job, step *)
(* by step; what its steps may never do to a row, drop what a user set or  *)
(* claim a job out of turn; and what a client that downloads is served.    *)
(***************************************************************************)
EXTENDS ServiceInvariant, Download, JobStoreProofs

-------------------------------------------------------------------------------
(* Types.                                                                  *)

\* Writing one cell of a table of tables: an object, or a file of the scratch
\* directory.
LEMMA CellWrite ==
  ASSUME NEW A, NEW B, NEW C, NEW f \in [A -> [B -> C]],
         NEW a \in A, NEW b \in B, NEW c \in C
  PROVE  /\ [f EXCEPT ![a][b] = c] \in [A -> [B -> C]]
         /\ \A x \in A, y \in B :
              [f EXCEPT ![a][b] = c][x][y] = IF x = a /\ y = b THEN c ELSE f[x][y]
OBVIOUS

BucketTypeOK == objects \in [Job -> [Item -> Content]]

LEMMA StoreEffect ==
  ASSUME BucketTypeOK, NEW j \in Job, NEW i \in Item, NEW c \in Content, Store(j, i, c)
  PROVE  /\ BucketTypeOK'
         /\ \A x \in Job, y \in Item :
              objects'[x][y] = IF x = j /\ y = i THEN c ELSE objects[x][y]
BY CellWrite, ZenonT(60) DEF Store, BucketTypeOK

ScratchTypeOK == scratch \in [Job -> [Stem -> Content]]

LEMMA FileEffect ==
  ASSUME ScratchTypeOK, NEW j \in Job, NEW s \in Stem, NEW c \in Content,
         scratch' = [scratch EXCEPT ![j][s] = c]
  PROVE  /\ ScratchTypeOK'
         /\ \A x \in Job, y \in Stem :
              scratch'[x][y] = IF x = j /\ y = s THEN c ELSE scratch[x][y]
BY CellWrite, ZenonT(60) DEF ScratchTypeOK

LEMMA Contents == "none" \in Content /\ "partial" \in Content /\ "whole" \in Content
BY DEF Content

LEMMA TypeInit == StoreAssumption => (Init => TypeOK /\ WorkerHolds)
<1> SUFFICES ASSUME StoreAssumption, Init PROVE TypeOK /\ WorkerHolds
  OBVIOUS
<1>1. NoRow \in Row
  BY Percentages, Zenon DEF NoRow, Row, Status, StoreAssumption
<1>2. StoreTypeOK
  BY <1>1 DEF Init, StoreInit, StoreTypeOK
<1> QED
  BY <1>2 DEF Init, TypeOK, WorkerHolds, Processing, WorkerPC, UploadPC, RemovalPC, Content

LEMMA TypeStep ==
  ASSUME StoreAssumption, ServiceAssumption, TypeOK, WorkerHolds, [Next]_vars
  PROVE  TypeOK' /\ WorkerHolds'
<1> USE DEF TypeOK, WorkerHolds, Processing, WorkerPC, UploadPC, RemovalPC,
            WorkerAt, WorkerTo, UploadAt, UploadTo, RemovalAt, RemovalTo, Up,
            workerVars, childVars, httpVars
<1>1. ASSUME NEW j \in Job, Claim(j) PROVE TypeOK' /\ WorkerHolds'
  BY <1>1, ClaimEffect DEF Claim
<1>2. CASE ClaimNone \/ ClaimErr \/ BackoffOver \/ StartWaiting \/ Wake \/ PollTimer
  BY <1>2 DEF ClaimNone, ClaimErr, BackoffOver, StartWaiting, Wake, PollTimer, StoreTypeOK
<1>3. CASE Fetch \/ ProcessFails \/ WaitReturns \/ MarkDoneFails \/ MarkFailedFails
  BY <1>3 DEF Fetch, ProcessFails, WaitReturns, MarkDoneFails, MarkFailedFails, StoreTypeOK
<1>4. CASE Spawn
  BY <1>4 DEF Spawn, StoreTypeOK
<1>5. CASE Timeout \/ Drained
  BY <1>5 DEF Timeout, Drained, StoreTypeOK
<1>6. CASE Collect
  BY <1>6 DEF Collect, StoreTypeOK
<1>7. ASSUME NEW s \in Stem, UploadStem(s) PROVE TypeOK' /\ WorkerHolds'
  <2>1. wjob \in Job /\ s \in Item /\ scratch[wjob][s] \in Content
    BY <1>7 DEF UploadStem, Item
  <2>2. objects' \in [Job -> [Item -> Content]]
    BY <1>7, <2>1, StoreEffect DEF UploadStem, BucketTypeOK
  <2> QED
    BY <1>7, <2>2 DEF UploadStem, StoreTypeOK
<1>8. CASE MarkDone
  BY <1>8, DoneEffect DEF MarkDone
<1>9. CASE MarkFailed
  BY <1>9, FailedEffect DEF MarkFailed
<1>10. CASE Clean
  <2>1. scratch' \in [Job -> [Stem -> Content]]
    BY <1>10, Contents DEF Clean
  <2> QED
    BY <1>10, <2>1 DEF Clean, StoreTypeOK
<1>11. CASE DemucsStep
  <2>1. ASSUME NEW s \in Stem, DemucsOpens(s) \/ DemucsCloses(s)
        PROVE  TypeOK' /\ WorkerHolds'
    <3>1. scratch' \in [Job -> [Stem -> Content]]
      <4>1. CASE wjob \in Job
        BY <2>1, <4>1, FileEffect, Contents DEF DemucsOpens, DemucsCloses, ScratchTypeOK
      <4>2. CASE wjob \notin Job
        BY <2>1, <4>2 DEF DemucsOpens, DemucsCloses
      <4> QED
        BY <4>1, <4>2
    <3> QED
      BY <2>1, <3>1 DEF DemucsOpens, DemucsCloses, StoreTypeOK
  <2>2. CASE DemucsExits
    BY <2>2 DEF DemucsExits, StoreTypeOK
  <2> QED
    BY <1>11, <2>1, <2>2 DEF DemucsStep
<1>12. ASSUME NEW j \in Job, PumpStep(j) PROVE TypeOK' /\ WorkerHolds'
  BY <1>12, ProgressEffect DEF PumpStep, PumpReport, PumpEof, StoreTypeOK
<1>13. ASSUME NEW j \in Job, Receive(j) \/ PutInput(j) \/ Notify(j) \/ UploadEnds(j)
       PROVE  TypeOK' /\ WorkerHolds'
  <2>1. objects' \in [Job -> [Item -> Content]]
    <3>1. CASE PutInput(j)
      BY <3>1, StoreEffect, Contents DEF PutInput, Item, BucketTypeOK
    <3>2. CASE ~PutInput(j)
      BY <1>13, <3>2 DEF Receive, Notify, UploadEnds
    <3> QED
      BY <3>1, <3>2
  <2> QED
    <3>1. upload' \in [Job -> UploadPC]
      BY <1>13, ZenonT(60) DEF Receive, PutInput, Notify, UploadEnds
    <3> QED
      <4>1. CASE Notify(j)
        BY <2>1, <3>1, <4>1 DEF Notify, StoreTypeOK
      <4>2. CASE Receive(j) \/ PutInput(j)
        BY <2>1, <3>1, <4>2 DEF Receive, PutInput, StoreTypeOK
      <4>3. CASE UploadEnds(j)
        BY <2>1, <3>1, <4>3 DEF UploadEnds, StoreTypeOK
      <4> QED
        BY <1>13, <4>1, <4>2, <4>3
<1>14. ASSUME NEW j \in Job, NEW name \in Name, NEW t \in Instants, InsertRow(j, name, t)
       PROVE  TypeOK' /\ WorkerHolds'
  BY <1>14, InsertEffect DEF InsertRow
<1>15. ASSUME NEW j \in Job, NEW name \in Name \cup {Null}, NEW star \in Star \cup {Null},
              Patch(j, name, star)
       PROVE  TypeOK' /\ WorkerHolds'
  BY <1>15, PatchEffect DEF Patch
<1>16. ASSUME NEW j \in Job, DeleteRow(j) PROVE TypeOK' /\ WorkerHolds'
  BY <1>16, DeleteEffect DEF DeleteRow
<1>17. ASSUME NEW j \in Job, ListObjects(j) \/ SweepDone(j) \/ RemovalAborts(j)
       PROVE  TypeOK' /\ WorkerHolds'
  <2>1. sweep' \in [Job -> SUBSET Item]
    BY <1>17 DEF ListObjects, SweepDone, RemovalAborts
  <2>2. removal' \in [Job -> RemovalPC]
    BY <1>17 DEF ListObjects, SweepDone, RemovalAborts
  <2> QED
    BY <1>17, <2>1, <2>2 DEF ListObjects, SweepDone, RemovalAborts, StoreTypeOK
<1>18. ASSUME NEW j \in Job, NEW i \in Item, SweepObject(j, i)
       PROVE  TypeOK' /\ WorkerHolds'
  <2>1. objects' \in [Job -> [Item -> Content]]
    BY <1>18, StoreEffect, Contents DEF SweepObject, BucketTypeOK
  <2>2. sweep' \in [Job -> SUBSET Item]
    BY <1>18 DEF SweepObject
  <2> QED
    BY <1>18, <2>1, <2>2 DEF SweepObject, StoreTypeOK
<1>19. CASE Crash
  BY <1>19 DEF Crash, StoreTypeOK
<1>20. CASE Boot
  BY <1>20, RequeueEffect DEF Boot
<1>21. CASE UNCHANGED vars
  BY <1>21 DEF vars, StoreTypeOK
<1> QED
  <2> HIDE DEF TypeOK, WorkerHolds
  <2> QED
    BY <1>1, <1>2, <1>3, <1>4, <1>5, <1>6, <1>7, <1>8, <1>9, <1>10, <1>11, <1>12,
       <1>13, <1>14, <1>15, <1>16, <1>17, <1>18, <1>19, <1>20, <1>21
    DEF Next, WorkerStep, Claims, Verdict, HandlerStep

\* Every variable keeps its type, and the worker has a job exactly while it
\* works on one.
THEOREM TypeCorrect == Spec => []TypeOK
<1>1. Init => TypeOK /\ WorkerHolds
  BY TypeInit, StoreAssumption
<1>2. TypeOK /\ WorkerHolds /\ [Next]_vars => (TypeOK /\ WorkerHolds)'
  BY TypeStep, StoreAssumption, ServiceAssumption
<1> QED
  BY <1>1, <1>2, PTL DEF Spec

-------------------------------------------------------------------------------
(* Requests: rows, inputs and the handlers that make and remove them.      *)

\* What a verdict of the worker does to the table.
LEMMA MarkDoneEffect ==
  ASSUME TypeOK, WorkerOwnsRunning, MarkDone
  PROVE  /\ wjob \in Job /\ Is(wjob, "running")
         /\ \A k \in Job \ {wjob} : jobs'[k] = jobs[k]
         /\ jobs'[wjob].status = "done" /\ jobs'[wjob].stems = uploaded
         /\ jobs'[wjob].progress = 100 /\ jobs'[wjob].finished
         /\ jobs'[wjob].error = jobs[wjob].error
         /\ jobs'[wjob].started = jobs[wjob].started
         /\ SameByUser(wjob)
<1>1. wjob \in Job /\ Is(wjob, "running") /\ Exists(wjob)
  BY DEF MarkDone, WorkerAt, WorkerOwnsRunning, Processing, Is, Exists
<1>2. StoreTypeOK /\ uploaded \in SUBSET Stem /\ SetDone(wjob, uploaded)
  BY DEF MarkDone, TypeOK
<1> QED
  BY <1>1, <1>2, DoneEffect DEF OthersStay, Is

LEMMA MarkFailedEffect ==
  ASSUME TypeOK, WorkerOwnsRunning, MarkFailed
  PROVE  /\ wjob \in Job /\ Is(wjob, "running")
         /\ \A k \in Job \ {wjob} : jobs'[k] = jobs[k]
         /\ jobs'[wjob].status = "failed" /\ jobs'[wjob].stems = jobs[wjob].stems
         /\ jobs'[wjob].error /\ jobs'[wjob].finished
         /\ jobs'[wjob].started = jobs[wjob].started
         /\ SameByUser(wjob)
<1>1. wjob \in Job /\ Is(wjob, "running") /\ Exists(wjob)
  BY DEF MarkFailed, WorkerAt, WorkerOwnsRunning, Processing, Is, Exists
<1>2. StoreTypeOK /\ SetFailed(wjob)
  BY DEF MarkFailed, TypeOK
<1> QED
  BY <1>1, <1>2, FailedEffect DEF OthersStay, Is

SameRows   == \A k \in Job : Exists(k)' <=> Exists(k)
SameInputs == \A k \in Job : objects'[k][Input] = objects[k][Input]

\* Neither the worker nor a pump nor a restart makes or removes a row, or
\* touches an input.
LEMMA OnlyHandlersMakeRows ==
  ASSUME StoreAssumption, ServiceAssumption, TypeOK, WorkerHolds, WorkerOwnsRunning,
         WorkerStep \/ DemucsStep \/ (\E j \in Job : PumpStep(j)) \/ Boot
  PROVE  SameRows /\ SameInputs /\ UNCHANGED httpVars
<1> USE DEF SameRows, SameInputs, Exists, Is
<1>1. ASSUME NEW j \in Job, Claim(j) PROVE SameRows /\ SameInputs /\ UNCHANGED httpVars
  <2>1. OthersStay(j) /\ Is(j, "queued") /\ Is(j, "running")'
    BY <1>1, ClaimEffect DEF Claim, TypeOK
  <2> QED
    BY <1>1, <2>1 DEF Claim, OthersStay
<1>2. CASE jobs' = jobs /\ objects' = objects /\ UNCHANGED httpVars
  BY <1>2
<1>3. ASSUME NEW s \in Stem, UploadStem(s)
      PROVE  SameRows /\ SameInputs /\ UNCHANGED httpVars
  <2>1. wjob \in Job /\ s \in Item /\ Input \in Item /\ s # Input
    BY <1>3 DEF UploadStem, WorkerAt, WorkerHolds, Processing, Item, ServiceAssumption
  <2>2. scratch[wjob][s] \in Content
    BY <2>1 DEF TypeOK
  <2>3. SameInputs
    BY <1>3, <2>1, <2>2, StoreEffect DEF UploadStem, TypeOK, BucketTypeOK
  <2> QED
    BY <1>3, <2>3 DEF UploadStem
<1>4. CASE MarkDone \/ MarkFailed
  <2>1. /\ wjob \in Job /\ Exists(wjob)
        /\ \A k \in Job \ {wjob} : jobs'[k] = jobs[k]
        /\ jobs'[wjob].status # "none"
    BY <1>4, MarkDoneEffect, MarkFailedEffect
  <2>2. SameRows
    BY <2>1
  <2> QED
    BY <1>4, <2>2 DEF MarkDone, MarkFailed
<1>5. ASSUME NEW j \in Job, PumpStep(j)
      PROVE  SameRows /\ SameInputs /\ UNCHANGED httpVars
  <2>1. ASSUME NEW p \in Percent, PumpReport(j, p)
        PROVE  SameRows /\ SameInputs /\ UNCHANGED httpVars
    <3>1. OthersStay(j) /\ jobs'[j].status = jobs[j].status
      BY <2>1, ProgressEffect DEF PumpReport, TypeOK
    <3> QED
      BY <2>1, <3>1 DEF PumpReport, OthersStay
  <2>2. CASE PumpEof(j)
    BY <2>2, <1>2 DEF PumpEof
  <2> QED
    BY <1>5, <2>1, <2>2 DEF PumpStep
<1>6. CASE Boot
  <2>1. \A k \in Job : Exists(k)' <=> Exists(k)
    BY <1>6, RequeueEffect DEF Boot, TypeOK
  <2> QED
    BY <1>6, <2>1 DEF Boot
<1>7. CASE DemucsStep
  BY <1>7, <1>2 DEF DemucsStep, DemucsOpens, DemucsCloses, DemucsExits
<1>8. CASE \/ ClaimNone \/ ClaimErr \/ BackoffOver \/ StartWaiting \/ Wake \/ PollTimer
           \/ Fetch \/ Spawn \/ ProcessFails \/ WaitReturns \/ Timeout \/ Drained
           \/ Collect \/ MarkDoneFails \/ MarkFailedFails \/ Clean
  BY <1>8, <1>2 DEF ClaimNone, ClaimErr, BackoffOver, StartWaiting, Wake, PollTimer,
     Fetch, Spawn, ProcessFails, WaitReturns, Timeout, Drained, Collect,
     MarkDoneFails, MarkFailedFails, Clean
<1> QED
  BY <1>1, <1>3, <1>4, <1>5, <1>6, <1>7, <1>8 DEF WorkerStep, Claims, Verdict

LEMMA RequestsStep ==
  ASSUME StoreAssumption, ServiceAssumption, TypeOK, WorkerHolds, WorkerOwnsRunning,
         RequestsInOrder, RowHasInput, [Next]_vars
  PROVE  RequestsInOrder' /\ RowHasInput'
<1> USE DEF RequestsInOrder, RowHasInput, Inserted, UploadAt, UploadTo, RemovalAt,
            RemovalTo
<1>1. CASE WorkerStep \/ DemucsStep \/ (\E j \in Job : PumpStep(j)) \/ Boot
  <2>1. SameRows /\ SameInputs /\ UNCHANGED httpVars
    BY <1>1, OnlyHandlersMakeRows
  <2> QED
    BY <2>1 DEF SameRows, SameInputs, httpVars
<1>2. CASE Crash
  BY <1>2 DEF Crash, TypeOK, UploadPC, Exists
<1>3. CASE UNCHANGED vars
  BY <1>3 DEF vars, httpVars, Exists
<1>4. ASSUME NEW j \in Job, Receive(j) \/ Notify(j) \/ UploadEnds(j)
      PROVE  RequestsInOrder' /\ RowHasInput'
  BY <1>4 DEF Receive, Notify, UploadEnds, TypeOK, Exists
<1>5. ASSUME NEW j \in Job, PutInput(j) PROVE RequestsInOrder' /\ RowHasInput'
  <2>1. \A k \in Job : objects'[k][Input] = IF k = j THEN "whole" ELSE objects[k][Input]
    <3>1. Input \in Item /\ BucketTypeOK
      BY DEF Item, TypeOK, BucketTypeOK
    <3> QED
      BY <1>5, <3>1, StoreEffect, Contents DEF PutInput
  <2> QED
    BY <1>5, <2>1 DEF PutInput, TypeOK, Exists
<1>6. ASSUME NEW j \in Job, NEW name \in Name, NEW t \in Instants, InsertRow(j, name, t)
      PROVE  RequestsInOrder' /\ RowHasInput'
  <2>1. OthersStay(j)
    BY <1>6, InsertEffect DEF InsertRow, TypeOK
  <2> QED
    BY <1>6, <2>1, ZenonT(60) DEF InsertRow, TypeOK, Exists, OthersStay
<1>7. ASSUME NEW j \in Job, NEW name \in Name \cup {Null}, NEW star \in Star \cup {Null},
             Patch(j, name, star)
      PROVE  RequestsInOrder' /\ RowHasInput'
  <2>1. OthersStay(j) /\ jobs'[j].status = jobs[j].status
    BY <1>7, PatchEffect DEF Patch, TypeOK
  <2> QED
    BY <1>7, <2>1 DEF Patch, httpVars, Exists, OthersStay
<1>8. ASSUME NEW j \in Job, DeleteRow(j) PROVE RequestsInOrder' /\ RowHasInput'
  <2>1. OthersStay(j) /\ Exists(j) /\ ~Exists(j)'
    BY <1>8, DeleteEffect DEF DeleteRow, TypeOK
  <2> QED
    BY <1>8, <2>1 DEF DeleteRow, TypeOK, Exists, OthersStay
<1>9. ASSUME NEW j \in Job, ListObjects(j) \/ SweepDone(j) \/ RemovalAborts(j)
      PROVE  RequestsInOrder' /\ RowHasInput'
  BY <1>9 DEF ListObjects, SweepDone, RemovalAborts, TypeOK, Exists
<1>10. ASSUME NEW j \in Job, NEW i \in Item, SweepObject(j, i)
       PROVE  RequestsInOrder' /\ RowHasInput'
  <2>1. ~Exists(j) /\ upload[j] # "insert"
    BY <1>10 DEF SweepObject
  <2>2. \A k \in Job \ {j} : objects'[k][Input] = objects[k][Input]
    <3>1. Input \in Item /\ BucketTypeOK
      BY DEF Item, TypeOK, BucketTypeOK
    <3> QED
      BY <1>10, <3>1, StoreEffect, Contents DEF SweepObject
  <2> QED
    BY <1>10, <2>1, <2>2 DEF SweepObject, Exists
<1> QED
  BY <1>1, <1>2, <1>3, <1>4, <1>5, <1>6, <1>7, <1>8, <1>9, <1>10 DEF Next, HandlerStep

-------------------------------------------------------------------------------
(* The worker, its child and the pumps.                                    *)

\* Steps of the worker that leave the table alone.
Silently ==
  \/ ClaimNone \/ ClaimErr \/ BackoffOver \/ StartWaiting \/ Wake \/ PollTimer
  \/ Fetch \/ Spawn \/ ProcessFails \/ WaitReturns \/ Timeout \/ Drained
  \/ Collect \/ (\E s \in Stem : UploadStem(s))
  \/ MarkDoneFails \/ MarkFailedFails \/ Clean

\* Steps of a handler that leave the table alone.
Aside(j) ==
  \/ Receive(j) \/ PutInput(j) \/ Notify(j) \/ UploadEnds(j) \/ ListObjects(j)
  \/ (\E i \in Item : SweepObject(j, i)) \/ SweepDone(j) \/ RemovalAborts(j)

LEMMA AsideEffect ==
  ASSUME NEW j \in Job, Aside(j)
  PROVE  UNCHANGED <<jobs, workerVars, childVars>> /\ Up
BY DEF Aside, Receive, PutInput, Notify, UploadEnds, ListObjects, SweepObject,
   SweepDone, RemovalAborts, UploadAt, RemovalAt

LEMMA AsideKeepsInserted ==
  ASSUME TypeOK, NEW j \in Job, Aside(j)
  PROVE  \A k \in Job : Inserted(k) => Inserted(k)'
BY DEF Aside, Receive, PutInput, Notify, UploadEnds, ListObjects, SweepObject,
   SweepDone, RemovalAborts, UploadAt, UploadTo, RemovalTo, Inserted, TypeOK

\* The actions of Next, grouped as the proofs below take them.
LEMMA Cases ==
  ASSUME [Next]_vars
  PROVE  \/ \E j \in Job : Claim(j)
         \/ Silently \/ MarkDone \/ MarkFailed \/ DemucsStep
         \/ \E j \in Job, p \in Percent : PumpReport(j, p)
         \/ \E j \in Job : PumpEof(j)
         \/ \E j \in Job : Aside(j)
         \/ \E j \in Job, name \in Name, t \in Instants : InsertRow(j, name, t)
         \/ \E j \in Job, name \in Name \cup {Null}, star \in Star \cup {Null} :
              Patch(j, name, star)
         \/ \E j \in Job : DeleteRow(j)
         \/ Crash \/ Boot \/ UNCHANGED vars
BY DEF Next, WorkerStep, Claims, Verdict, PumpStep, HandlerStep, Silently, Aside

LEMMA OwnsStep ==
  ASSUME StoreAssumption, TypeOK, WorkerHolds, WorkerOwnsRunning, [Next]_vars
  PROVE  WorkerOwnsRunning'
<1> USE DEF WorkerOwnsRunning, Is, WorkerAt, WorkerTo
<1>1. ASSUME NEW j \in Job, Claim(j) PROVE WorkerOwnsRunning'
  BY <1>1, ClaimEffect DEF Claim, TypeOK
<1>2. CASE Silently
  BY <1>2 DEF Silently, ClaimNone, ClaimErr, BackoffOver, StartWaiting, Wake, PollTimer,
     Fetch, Spawn, ProcessFails, WaitReturns, Timeout, Drained, Collect, UploadStem,
     MarkDoneFails, MarkFailedFails, Clean, Processing
<1>3. CASE MarkDone \/ MarkFailed
  BY <1>3 DEF MarkDone, MarkFailed, Processing
<1>4. CASE DemucsStep
  BY <1>4 DEF DemucsStep, DemucsOpens, DemucsCloses, DemucsExits, workerVars
<1>5. ASSUME NEW j \in Job, NEW p \in Percent, PumpReport(j, p) PROVE WorkerOwnsRunning'
  <2>1. OthersStay(j) /\ jobs'[j].status = jobs[j].status
    BY <1>5, ProgressEffect DEF PumpReport, TypeOK
  <2> QED
    BY <1>5, <2>1 DEF PumpReport, workerVars, OthersStay
<1>6. ASSUME NEW j \in Job, PumpEof(j) PROVE WorkerOwnsRunning'
  BY <1>6 DEF PumpEof, workerVars
<1>7. ASSUME NEW j \in Job, Aside(j) PROVE WorkerOwnsRunning'
  BY <1>7, AsideEffect DEF workerVars
<1>8. ASSUME NEW j \in Job, NEW name \in Name, NEW t \in Instants, InsertRow(j, name, t)
      PROVE  WorkerOwnsRunning'
  <2>1. OthersStay(j) /\ ~Exists(j)
    BY <1>8, InsertEffect DEF InsertRow, TypeOK
  <2> QED
    BY <1>8, <2>1 DEF InsertRow, workerVars, OthersStay, Exists
<1>9. ASSUME NEW j \in Job, NEW name \in Name \cup {Null}, NEW star \in Star \cup {Null},
             Patch(j, name, star)
      PROVE  WorkerOwnsRunning'
  <2>1. OthersStay(j) /\ jobs'[j].status = jobs[j].status
    BY <1>9, PatchEffect DEF Patch, TypeOK
  <2> QED
    BY <1>9, <2>1 DEF Patch, workerVars, OthersStay
<1>10. ASSUME NEW j \in Job, DeleteRow(j) PROVE WorkerOwnsRunning'
  <2>1. OthersStay(j) /\ jobs[j].status # "running"
    BY <1>10, DeleteEffect DEF DeleteRow, TypeOK
  <2> QED
    BY <1>10, <2>1 DEF DeleteRow, workerVars, OthersStay
<1>11. CASE Crash \/ Boot
  BY <1>11 DEF Crash, Boot, Processing
<1>12. CASE UNCHANGED vars
  BY <1>12 DEF vars, workerVars
<1> QED
  BY <1>1, <1>2, <1>3, <1>4, <1>5, <1>6, <1>7, <1>8, <1>9, <1>10, <1>11, <1>12, Cases

LEMMA ChildStep ==
  ASSUME ChildInPlace, TypeOK, [Next]_vars
  PROVE  ChildInPlace'
<1> USE DEF ChildInPlace, WorkerAt, WorkerTo
<1>1. ASSUME NEW j \in Job, Claim(j) PROVE ChildInPlace'
  BY <1>1 DEF Claim, childVars
<1>2. CASE Silently \/ MarkDone \/ MarkFailed
  BY <1>2 DEF Silently, ClaimNone, ClaimErr, BackoffOver, StartWaiting, Wake, PollTimer,
     Fetch, Spawn, ProcessFails, WaitReturns, Timeout, Drained, Collect, UploadStem,
     MarkDoneFails, MarkFailedFails, Clean, MarkDone, MarkFailed, childVars
<1>3. CASE DemucsStep
  BY <1>3 DEF DemucsStep, DemucsOpens, DemucsCloses, DemucsExits, workerVars
<1>4. CASE UNCHANGED <<workerVars, demucs>>
  BY <1>4 DEF workerVars
<1>5. CASE Crash \/ Boot
  BY <1>5 DEF Crash, Boot, Up, childVars
<1> QED
  <2>1. ASSUME NEW j \in Job, Aside(j) PROVE UNCHANGED <<workerVars, demucs>>
    BY <2>1, AsideEffect DEF childVars
  <2> QED
    BY <1>1, <1>2, <1>3, <1>4, <1>5, <2>1, Cases
    DEF PumpReport, PumpEof, InsertRow, Patch, DeleteRow, vars, childVars

\* A pump stays harmless: it must be gone before its job can be done, and a
\* job it could still write to is never put back in line while it lives.
LEMMA PumpsStep ==
  ASSUME StoreAssumption, TypeOK, WorkerHolds, WorkerOwnsRunning, RequestsInOrder,
         ChildInPlace, PumpsHarmless, [Next]_vars
  PROVE  PumpsHarmless'
<1> USE DEF PumpsHarmless, Is, WorkerAt, WorkerTo
<1>1. ASSUME NEW j \in Job, Claim(j) PROVE PumpsHarmless'
  <2>1. /\ OthersStay(j) /\ jobs[j].status = "queued" /\ jobs'[j].status = "running"
    BY <1>1, ClaimEffect DEF Claim, TypeOK
  <2> QED
    BY <1>1, <2>1 DEF Claim, childVars, httpVars, OthersStay, Inserted, TypeOK
<1>2. CASE Silently
  <2>1. wpc \in Processing => Inserted(wjob)
    BY DEF WorkerOwnsRunning, RequestsInOrder, Exists
  <2>2. CASE Spawn
    BY <2>1, <2>2 DEF Spawn, httpVars, Inserted, WorkerOwnsRunning, Processing
  <2>3. CASE Drained \/ Timeout
    BY <2>3 DEF Drained, Timeout, httpVars, Inserted
  <2>4. CASE ~(Spawn \/ Drained \/ Timeout)
    <3>1. UNCHANGED <<jobs, pumps, httpVars>> /\ wpc # "down" /\ wpc' # "down"
      BY <1>2, <2>4 DEF Silently, ClaimNone, ClaimErr, BackoffOver, StartWaiting, Wake,
         PollTimer, Fetch, ProcessFails, WaitReturns, Collect, UploadStem,
         MarkDoneFails, MarkFailedFails, Clean, childVars
    <3>2. ASSUME NEW j \in pumps, wjob' = j
          PROVE  wpc' \in {"wait", "drain", "failing", "clean"}
      <4>1. j \in Job /\ j # Null
        BY DEF TypeOK, StoreAssumption
      <4> QED
        BY <1>2, <2>4, <3>2, <4>1
        DEF Silently, ClaimNone, ClaimErr, BackoffOver, StartWaiting, Wake,
            PollTimer, Fetch, ProcessFails, WaitReturns, Collect, UploadStem,
            MarkDoneFails, MarkFailedFails, Clean, WorkerHolds, Processing
    <3> QED
      BY <3>1, <3>2 DEF httpVars, Inserted
  <2> QED
    BY <2>2, <2>3, <2>4
<1>3. CASE MarkDone \/ MarkFailed
  <2>1. /\ \A k \in Job \ {wjob} : jobs'[k] = jobs[k]
        /\ jobs'[wjob].status \in {"done", "failed"}
        /\ jobs'[wjob].status = "done" => wjob \notin pumps
    BY <1>3, MarkDoneEffect, MarkFailedEffect DEF MarkDone
  <2>2. wpc' = "clean" /\ UNCHANGED <<pumps, httpVars>> /\ wjob' = wjob
    BY <1>3 DEF MarkDone, MarkFailed, childVars
  <2> QED
    BY <2>1, <2>2 DEF TypeOK, httpVars, Inserted
<1>4. CASE DemucsStep
  BY <1>4 DEF DemucsStep, DemucsOpens, DemucsCloses, DemucsExits, workerVars,
     httpVars, Inserted
<1>5. ASSUME NEW j \in Job, NEW p \in Percent, PumpReport(j, p) PROVE PumpsHarmless'
  <2>1. OthersStay(j) /\ jobs'[j].status = jobs[j].status
    BY <1>5, ProgressEffect DEF PumpReport, TypeOK
  <2> QED
    BY <1>5, <2>1 DEF PumpReport, workerVars, childVars, httpVars, OthersStay, Inserted, TypeOK
<1>6. ASSUME NEW j \in Job, PumpEof(j) PROVE PumpsHarmless'
  BY <1>6 DEF PumpEof, workerVars, httpVars, Inserted
<1>7. ASSUME NEW j \in Job, Aside(j) PROVE PumpsHarmless'
  <2>1. \A k \in Job : Inserted(k) => Inserted(k)'
    BY <1>7, AsideKeepsInserted
  <2>2. UNCHANGED <<jobs, wpc, wjob, pumps>>
    BY <1>7, AsideEffect DEF workerVars, childVars
  <2> QED
    BY <2>1, <2>2 DEF TypeOK
<1>8. ASSUME NEW j \in Job, NEW name \in Name, NEW t \in Instants, InsertRow(j, name, t)
      PROVE  PumpsHarmless'
  <2>1. OthersStay(j) /\ ~Inserted(j) /\ Inserted(j)'
    BY <1>8, InsertEffect DEF InsertRow, TypeOK, UploadAt, UploadTo, Inserted
  <2>2. \A k \in Job \ {j} : Inserted(k) => Inserted(k)'
    BY <1>8 DEF InsertRow, UploadTo, Inserted, TypeOK
  <2> QED
    BY <1>8, <2>1, <2>2 DEF InsertRow, workerVars, childVars, OthersStay, TypeOK
<1>9. ASSUME NEW j \in Job, NEW name \in Name \cup {Null}, NEW star \in Star \cup {Null},
             Patch(j, name, star)
      PROVE  PumpsHarmless'
  <2>1. OthersStay(j) /\ jobs'[j].status = jobs[j].status
    BY <1>9, PatchEffect DEF Patch, TypeOK
  <2> QED
    BY <1>9, <2>1 DEF Patch, workerVars, childVars, httpVars, OthersStay, Inserted, TypeOK
<1>10. ASSUME NEW j \in Job, DeleteRow(j) PROVE PumpsHarmless'
  <2>1. OthersStay(j) /\ jobs'[j].status = "none"
    BY <1>10, DeleteEffect DEF DeleteRow, TypeOK, Exists
  <2> QED
    BY <1>10, <2>1
    DEF DeleteRow, RemovalTo, workerVars, childVars, OthersStay, Inserted, TypeOK
<1>11. CASE Crash \/ Boot
  BY <1>11 DEF Crash, Boot, Up, childVars
<1>12. CASE UNCHANGED vars
  BY <1>12 DEF vars, workerVars, childVars, httpVars, Inserted
<1> QED
  BY <1>1, <1>2, <1>3, <1>4, <1>5, <1>6, <1>7, <1>8, <1>9, <1>10, <1>11, <1>12, Cases

\* The columns of a row.  The interesting steps are the report of a pump, which
\* must not meet a queued or a done row, and the verdicts.
LEMMA RowsStep ==
  ASSUME StoreAssumption, TypeOK, WorkerOwnsRunning, PumpsHarmless, RowsConsistent,
         [Next]_vars
  PROVE  RowsConsistent'
<1> USE DEF RowsConsistent, RowConsistent, Is, QueuedRow, RunningRow, DoneRow, FailedRow
<1>0. ASSUME NEW j \in Job, OthersStay(j), RowConsistent(j)' PROVE RowsConsistent'
  BY <1>0 DEF OthersStay
<1>1. ASSUME NEW j \in Job, Claim(j) PROVE RowsConsistent'
  <2>1. /\ OthersStay(j) /\ jobs[j].status = "queued" /\ jobs'[j].status = "running"
        /\ jobs'[j].started /\ ~jobs'[j].error
        /\ jobs'[j].finished = jobs[j].finished /\ jobs'[j].stems = jobs[j].stems
    BY <1>1, ClaimEffect DEF Claim, TypeOK
  <2>2. RowConsistent(j)'
    BY <2>1
  <2> QED
    BY <1>0, <2>1, <2>2
<1>2. CASE UNCHANGED jobs
  BY <1>2
<1>3. CASE MarkDone
  BY <1>3, MarkDoneEffect
<1>4. CASE MarkFailed
  BY <1>4, MarkFailedEffect
<1>5. ASSUME NEW j \in Job, NEW p \in Percent, PumpReport(j, p) PROVE RowsConsistent'
  <2>1. jobs[j].status # "queued" /\ jobs[j].status # "done"
    BY <1>5 DEF PumpReport, PumpsHarmless
  <2>2. /\ OthersStay(j)
        /\ jobs'[j].status = jobs[j].status /\ jobs'[j].stems = jobs[j].stems
        /\ jobs'[j].error = jobs[j].error /\ jobs'[j].started = jobs[j].started
        /\ jobs'[j].finished = jobs[j].finished
    BY <1>5, ProgressEffect DEF PumpReport, TypeOK
  <2>3. RowConsistent(j)'
    BY <2>1, <2>2
  <2> QED
    BY <1>0, <2>2, <2>3
<1>6. ASSUME NEW j \in Job, NEW name \in Name, NEW t \in Instants, InsertRow(j, name, t)
      PROVE  RowsConsistent'
  <2>1. /\ OthersStay(j) /\ jobs'[j].status = "queued"
        /\ QueuedRow(jobs'[j]) /\ ~jobs'[j].error
    BY <1>6, InsertEffect DEF InsertRow, TypeOK
  <2>2. RowConsistent(j)'
    BY <2>1
  <2> QED
    BY <1>0, <2>1, <2>2
<1>7. ASSUME NEW j \in Job, NEW name \in Name \cup {Null}, NEW star \in Star \cup {Null},
             Patch(j, name, star)
      PROVE  RowsConsistent'
  <2>1. /\ OthersStay(j)
        /\ jobs'[j].status = jobs[j].status /\ jobs'[j].stems = jobs[j].stems
        /\ jobs'[j].error = jobs[j].error /\ jobs'[j].started = jobs[j].started
        /\ jobs'[j].finished = jobs[j].finished
        /\ jobs'[j].progress = jobs[j].progress
    BY <1>7, PatchEffect DEF Patch, TypeOK
  <2>2. RowConsistent(j)'
    BY <2>1
  <2> QED
    BY <1>0, <2>1, <2>2
<1>8. ASSUME NEW j \in Job, DeleteRow(j) PROVE RowsConsistent'
  <2>1. OthersStay(j) /\ jobs'[j].status = "none" /\ ~jobs'[j].error
    BY <1>8, DeleteEffect DEF DeleteRow, TypeOK, Exists
  <2>2. RowConsistent(j)'
    BY <2>1
  <2> QED
    BY <1>0, <2>1, <2>2
<1>9. CASE Boot
  <2>1. ASSUME NEW j \in Job, ~Is(j, "running") PROVE RowConsistent(j)'
    BY <1>9, <2>1, RequeueEffect DEF Boot, TypeOK
  <2>2. ASSUME NEW j \in Job, Is(j, "running") PROVE RowConsistent(j)'
    BY <1>9, <2>2, RequeueEffect DEF Boot, TypeOK
  <2> QED
    BY <2>1, <2>2
<1>10. CASE Silently \/ DemucsStep \/ Crash \/ UNCHANGED vars
  BY <1>2, <1>10 DEF Silently, ClaimNone, ClaimErr, BackoffOver, StartWaiting, Wake,
     PollTimer, Fetch, Spawn, ProcessFails, WaitReturns, Timeout, Drained, Collect,
     UploadStem, MarkDoneFails, MarkFailedFails, Clean, DemucsStep, DemucsOpens,
     DemucsCloses, DemucsExits, Crash, vars
<1>11. ASSUME NEW j \in Job, Aside(j) \/ PumpEof(j) PROVE RowsConsistent'
  BY <1>2, <1>11, AsideEffect DEF PumpEof
<1> QED
  BY <1>1, <1>3, <1>4, <1>5, <1>6, <1>7, <1>8, <1>9, <1>10, <1>11, Cases

-------------------------------------------------------------------------------
(* Stems: from the scratch directory to the bucket.                        *)

\* A stem stored whole stays whole as long as its row exists: the worker only
\* writes whole ones, and a sweep runs only when the row is gone.
LEMMA StemsKept ==
  ASSUME ServiceAssumption, TypeOK, WorkerHolds, RequestsInOrder, ScratchInPlace,
         [Next]_vars
  PROVE  \A k \in Job, s \in Stem :
           Exists(k) /\ objects[k][s] = "whole" => objects'[k][s] = "whole"
<1> SUFFICES ASSUME NEW k \in Job, NEW s \in Stem, Exists(k), objects[k][s] = "whole"
             PROVE  objects'[k][s] = "whole"
  OBVIOUS
<1>1. BucketTypeOK /\ s \in Item /\ s # Input /\ Input \in Item
  BY DEF BucketTypeOK, TypeOK, Item, ServiceAssumption
<1>2. ASSUME NEW r \in Stem, UploadStem(r) PROVE objects'[k][s] = "whole"
  <2>1. wjob \in Job /\ r \in Item /\ scratch[wjob][r] = "whole"
    BY <1>2 DEF UploadStem, WorkerAt, WorkerHolds, Processing, ScratchInPlace,
       ScratchWhole, Item
  <2> QED
    BY <1>1, <1>2, <2>1, StoreEffect, Contents DEF UploadStem
<1>3. ASSUME NEW j \in Job, PutInput(j) PROVE objects'[k][s] = "whole"
  BY <1>1, <1>3, StoreEffect, Contents DEF PutInput
<1>4. ASSUME NEW j \in Job, NEW i \in Item, SweepObject(j, i)
      PROVE  objects'[k][s] = "whole"
  <2>1. j # k
    BY <1>4 DEF SweepObject, RemovalAt, RequestsInOrder
  <2> QED
    BY <1>1, <1>4, <2>1, StoreEffect, Contents DEF SweepObject
<1>5. CASE UNCHANGED objects
  BY <1>5
<1> QED
  BY <1>2, <1>3, <1>4, <1>5, Cases
  DEF Claim, Silently, ClaimNone, ClaimErr, BackoffOver, StartWaiting, Wake, PollTimer,
      Fetch, Spawn, ProcessFails, WaitReturns, Timeout, Drained, Collect, MarkDoneFails,
      MarkFailedFails, Clean, MarkDone, MarkFailed, DemucsStep, DemucsOpens,
      DemucsCloses, DemucsExits, PumpReport, PumpEof, Aside, Receive, Notify,
      UploadEnds, ListObjects, SweepDone, RemovalAborts, InsertRow, Patch, DeleteRow,
      Crash, Boot, vars

\* What the worker is about to publish is complete.
LEMMA UploadComplete ==
  ASSUME TypeOK, WorkerHolds, ScratchInPlace, wpc = "upload"
  PROVE  Produced(wjob) = Stem
<1>1. \A s \in Stem : scratch[wjob][s] = "whole"
  BY DEF ScratchInPlace, ScratchWhole
<1> QED
  BY <1>1 DEF Produced

LEMMA ScratchStep ==
  ASSUME StoreAssumption, ServiceAssumption, TypeOK, WorkerHolds, WorkerOwnsRunning,
         RequestsInOrder, ChildInPlace, ScratchInPlace, [Next]_vars
  PROVE  ScratchInPlace'
<1> USE DEF ScratchWhole, WorkerAt, WorkerTo
<1>0. ASSUME UNCHANGED <<scratch, demucs, unwritten, wpc, wjob, uploaded>>
      PROVE  ScratchInPlace'
  <2>1. wpc = "upload" => \A s \in uploaded : objects'[wjob][s] = "whole"
    <3>1. wpc = "upload" => wjob \in Job /\ Exists(wjob) /\ uploaded \subseteq Stem
      BY DEF WorkerOwnsRunning, Processing, Is, Exists, TypeOK
    <3> QED
      BY <3>1, StemsKept DEF ScratchInPlace
  <2> QED
    BY <1>0, <2>1 DEF ScratchInPlace
<1>1. ASSUME NEW j \in Job, Claim(j) PROVE ScratchInPlace'
  BY <1>1 DEF Claim, childVars, ScratchInPlace, ChildInPlace
<1>2. CASE \/ ClaimNone \/ ClaimErr \/ BackoffOver \/ StartWaiting \/ Wake \/ PollTimer
           \/ Fetch \/ ProcessFails \/ WaitReturns \/ MarkDoneFails
           \/ MarkFailedFails \/ MarkDone \/ MarkFailed
  BY <1>2 DEF ClaimNone, ClaimErr, BackoffOver, StartWaiting, Wake, PollTimer, Fetch,
     ProcessFails, WaitReturns, MarkDoneFails, MarkFailedFails, MarkDone, MarkFailed,
     childVars, ScratchInPlace
<1>3. CASE Spawn
  BY <1>3 DEF Spawn, ScratchInPlace
<1>4. CASE Timeout
  BY <1>4 DEF Timeout, ScratchInPlace
<1>5. CASE Drained
  BY <1>5 DEF Drained, ScratchInPlace
<1>6. CASE Collect
  <2>1. wjob \in Job /\ (wjob \in Silent => Produced(wjob) = {})
    BY <1>6 DEF Collect, Produced, ScratchInPlace, WorkerHolds, Processing
  <2> QED
    BY <1>6, <2>1 DEF Collect, childVars, ScratchInPlace, ChildInPlace
<1>7. ASSUME NEW s \in Stem, UploadStem(s) PROVE ScratchInPlace'
  <2>1. /\ wjob \in Job /\ Exists(wjob) /\ uploaded \subseteq Stem /\ s \in Item
        /\ scratch[wjob][s] = "whole" /\ wpc = "upload"
    BY <1>7 DEF UploadStem, ScratchInPlace, WorkerHolds, WorkerOwnsRunning, Processing,
       Is, Exists, TypeOK, Item
  <2>2. objects'[wjob][s] = "whole"
    BY <1>7, <2>1, StoreEffect, Contents DEF UploadStem, TypeOK, BucketTypeOK
  <2>3. \A r \in uploaded : objects'[wjob][r] = "whole"
    BY <2>1, StemsKept DEF ScratchInPlace
  <2> QED
    BY <1>7, <2>1, <2>2, <2>3 DEF UploadStem, childVars, ScratchInPlace
<1>8. CASE Clean
  <2>1. \A j \in Silent, s \in Stem : scratch'[j][s] = "none"
    BY <1>8 DEF Clean, ScratchInPlace, TypeOK, ServiceAssumption
  <2> QED
    BY <1>8, <2>1 DEF Clean, ScratchInPlace, ChildInPlace
<1>9. ASSUME NEW s \in Stem, DemucsOpens(s) \/ DemucsCloses(s) PROVE ScratchInPlace'
  <2>1. /\ wpc = "wait" /\ wjob \in Job /\ wjob \notin Silent /\ s \in unwritten
        /\ demucs = "running"
    BY <1>9 DEF DemucsOpens, DemucsCloses, ScratchInPlace, ChildInPlace, WorkerHolds,
       Processing
  <2>2. \A x \in Job, y \in Stem :
          scratch'[x][y] = IF x = wjob /\ y = s
                             THEN IF DemucsOpens(s) THEN "partial" ELSE "whole"
                             ELSE scratch[x][y]
    BY <1>9, <2>1, FileEffect, Contents DEF DemucsOpens, DemucsCloses, TypeOK, ScratchTypeOK
  <2>3. UNCHANGED <<wpc, wjob, uploaded, demucs, objects>>
    BY <1>9 DEF DemucsOpens, DemucsCloses, workerVars
  <2>4. /\ unwritten' = IF DemucsOpens(s) THEN unwritten ELSE unwritten \ {s}
        /\ unwritten \subseteq Stem
    BY <1>9 DEF DemucsOpens, DemucsCloses, TypeOK
  <2> QED
    BY <2>1, <2>2, <2>3, <2>4 DEF ScratchInPlace, ServiceAssumption
<1>10. CASE DemucsExits
  BY <1>10 DEF DemucsExits, workerVars, ScratchInPlace
<1>11. CASE Crash \/ Boot
  BY <1>11 DEF Crash, Boot, Up, childVars, ScratchInPlace
<1>12. ASSUME NEW j \in Job, Aside(j) PROVE ScratchInPlace'
  BY <1>0, <1>12, AsideEffect DEF workerVars, childVars
<1> QED
  <2>1. CASE \/ \E j \in Job, p \in Percent : PumpReport(j, p)
             \/ \E j \in Job : PumpEof(j)
             \/ \E j \in Job, name \in Name, t \in Instants : InsertRow(j, name, t)
             \/ \E j \in Job, name \in Name \cup {Null}, star \in Star \cup {Null} :
                  Patch(j, name, star)
             \/ \E j \in Job : DeleteRow(j)
             \/ UNCHANGED vars
    BY <1>0, <2>1 DEF PumpReport, PumpEof, InsertRow, Patch, DeleteRow, vars,
       workerVars, childVars
  <2> QED
    BY <1>1, <1>2, <1>3, <1>4, <1>5, <1>6, <1>7, <1>8, <1>9, <1>10, <1>11, <1>12, <2>1,
       Cases DEF Silently, DemucsStep

LEMMA DoneStep ==
  ASSUME StoreAssumption, ServiceAssumption, TypeOK, WorkerHolds, WorkerOwnsRunning,
         RequestsInOrder, ScratchInPlace, DoneIsComplete, [Next]_vars
  PROVE  DoneIsComplete'
<1> USE DEF DoneIsComplete, Is
<1>0. ASSUME NEW j \in Job, jobs[j].status = "done"
      PROVE  \A s \in Stem : objects'[j][s] = "whole"
  BY <1>0, StemsKept DEF Exists
\* A step that keeps status and stems of the rows it leaves or makes done.
<1>1. ASSUME \A j \in Job : jobs'[j].status = "done" =>
                jobs[j].status = "done" /\ jobs'[j].stems = jobs[j].stems
      PROVE  DoneIsComplete'
  BY <1>0, <1>1
<1>2. ASSUME NEW j \in Job, OthersStay(j), jobs'[j].status # "done"
      PROVE  DoneIsComplete'
  BY <1>1, <1>2 DEF OthersStay
<1>3. ASSUME NEW j \in Job, OthersStay(j), jobs'[j].status = jobs[j].status,
             jobs'[j].stems = jobs[j].stems
      PROVE  DoneIsComplete'
  BY <1>1, <1>3 DEF OthersStay
<1>4. ASSUME NEW j \in Job, Claim(j) PROVE DoneIsComplete'
  BY <1>2, <1>4, ClaimEffect DEF Claim, TypeOK
<1>5. CASE MarkDone
  <2>1. wpc = "upload" /\ uploaded = Stem
    BY <1>5, UploadComplete DEF MarkDone, WorkerAt
  <2>2. UNCHANGED objects /\ \A s \in Stem : objects[wjob][s] = "whole"
    BY <1>5, <2>1 DEF MarkDone, ScratchInPlace
  <2>3. \A k \in Job \ {wjob} : jobs'[k] = jobs[k]
    BY <1>5, MarkDoneEffect
  <2>4. jobs'[wjob].stems = Stem
    BY <1>5, <2>1, MarkDoneEffect
  <2> QED
    BY <2>2, <2>3, <2>4
<1>6. CASE MarkFailed
  BY <1>1, <1>6, MarkFailedEffect
<1>7. ASSUME NEW j \in Job, NEW p \in Percent, PumpReport(j, p) PROVE DoneIsComplete'
  BY <1>3, <1>7, ProgressEffect DEF PumpReport, TypeOK
<1>8. ASSUME NEW j \in Job, NEW name \in Name, NEW t \in Instants, InsertRow(j, name, t)
      PROVE  DoneIsComplete'
  BY <1>2, <1>8, InsertEffect DEF InsertRow, TypeOK
<1>9. ASSUME NEW j \in Job, NEW name \in Name \cup {Null}, NEW star \in Star \cup {Null},
             Patch(j, name, star)
      PROVE  DoneIsComplete'
  BY <1>3, <1>9, PatchEffect DEF Patch, TypeOK
<1>10. ASSUME NEW j \in Job, DeleteRow(j) PROVE DoneIsComplete'
  BY <1>2, <1>10, DeleteEffect DEF DeleteRow, TypeOK, Exists
<1>11. CASE Boot
  BY <1>1, <1>11, RequeueEffect DEF Boot, TypeOK
<1>12. CASE Silently \/ DemucsStep \/ Crash \/ UNCHANGED vars
  BY <1>1, <1>12 DEF Silently, ClaimNone, ClaimErr, BackoffOver, StartWaiting, Wake,
     PollTimer, Fetch, Spawn, ProcessFails, WaitReturns, Timeout, Drained, Collect,
     UploadStem, MarkDoneFails, MarkFailedFails, Clean, DemucsStep, DemucsOpens,
     DemucsCloses, DemucsExits, Crash, vars
<1>13. ASSUME NEW j \in Job, Aside(j) \/ PumpEof(j) PROVE DoneIsComplete'
  BY <1>1, <1>13, AsideEffect DEF PumpEof
<1> QED
  BY <1>4, <1>5, <1>6, <1>7, <1>8, <1>9, <1>10, <1>11, <1>12, <1>13, Cases

-------------------------------------------------------------------------------
(* The invariants of the specification.                                    *)

LEMMA IInvInit == StoreAssumption => (Init => IInv)
<1> SUFFICES ASSUME StoreAssumption, Init PROVE IInv
  OBVIOUS
<1>1. TypeOK /\ WorkerHolds
  BY TypeInit
<1>2. \A j \in Job : jobs[j].status = "none" /\ ~jobs[j].error
  BY DEF Init, StoreInit, NoRow
<1>3. RequestsInOrder /\ RowHasInput
  BY <1>2 DEF Init, RequestsInOrder, RowHasInput, Exists
<1>4. WorkerOwnsRunning /\ ChildInPlace /\ PumpsHarmless
  BY DEF Init, WorkerOwnsRunning, ChildInPlace, PumpsHarmless, Processing
<1>5. RowsConsistent /\ DoneIsComplete
  BY <1>2 DEF RowsConsistent, RowConsistent, DoneIsComplete, Is
<1>6. ScratchInPlace
  BY ServiceAssumption DEF Init, ScratchInPlace
<1> QED
  BY <1>1, <1>3, <1>4, <1>5, <1>6 DEF IInv

LEMMA IInvStep ==
  ASSUME StoreAssumption, ServiceAssumption, IInv, [Next]_vars
  PROVE  IInv'
BY TypeStep, RequestsStep, OwnsStep, ChildStep, PumpsStep, RowsStep, ScratchStep,
   DoneStep DEF IInv

\* The conjunction of what makes each property inductive is an invariant.
THEOREM Invariance == Spec => []IInv
<1>1. Init => IInv
  BY IInvInit, StoreAssumption
<1>2. IInv /\ [Next]_vars => IInv'
  BY IInvStep, StoreAssumption, ServiceAssumption
<1> QED
  BY <1>1, <1>2, PTL DEF Spec

\* Nothing takes a job away from the worker that separates it: a delete is
\* refused, and only a restart requeues.
THEOREM WorkerOwnsItsJob == Spec => []WorkerOwnsRunning
<1>1. IInv => WorkerOwnsRunning
  BY DEF IInv
<1> QED
  BY <1>1, Invariance, PTL

\* Every row points at a stored input, whatever fails or crashes around the
\* upload and the delete.
THEOREM InputsArePresent == Spec => []RowHasInput
<1>1. IInv => RowHasInput
  BY DEF IInv
<1> QED
  BY <1>1, Invariance, PTL

\* A done job has every stem, whole, in the bucket.
THEOREM DoneJobsAreComplete == Spec => []DoneIsComplete
<1>1. IInv => DoneIsComplete
  BY DEF IInv
<1> QED
  BY <1>1, Invariance, PTL

\* The columns of every row agree with its status.
THEOREM RowsStayConsistent == Spec => []RowsConsistent
<1>1. IInv => RowsConsistent
  BY DEF IInv
<1> QED
  BY <1>1, Invariance, PTL

\* The permit: the job of an acknowledged upload that is in line has been
\* there, notified, since before the worker last looked, or the permit is set.
LEMMA WakeupStep ==
  ASSUME StoreAssumption, TypeOK, RequestsInOrder, NoLostWakeup, [Next]_vars
  PROVE  NoLostWakeup'
<1> USE DEF NoLostWakeup, Queued, Is, WorkerAt, WorkerTo
<1>0. ASSUME UNCHANGED <<wpc, permit, upload>>,
             \A j \in Job : jobs'[j].status = "queued" /\ upload[j] = "accepted" =>
                jobs[j].status = "queued"
      PROVE  NoLostWakeup'
  BY <1>0
<1>1. ASSUME NEW j \in Job, Claim(j) PROVE NoLostWakeup'
  BY <1>1 DEF Claim
<1>2. CASE ClaimNone
  BY <1>2 DEF ClaimNone, httpVars
<1>3. CASE StartWaiting
  BY <1>3 DEF StartWaiting, httpVars
<1>4. CASE UNCHANGED <<wpc, permit, upload, jobs>>
  BY <1>0, <1>4
<1>5. CASE wpc' \notin {"empty", "idle"}
  BY <1>5
<1>6. CASE Silently \/ MarkDone \/ MarkFailed \/ Crash \/ Boot
  BY <1>2, <1>3, <1>4, <1>5, <1>6
  DEF Silently, ClaimErr, BackoffOver, Wake, PollTimer, Fetch, Spawn, ProcessFails,
      WaitReturns, Timeout, Drained, Collect, UploadStem, MarkDoneFails,
      MarkFailedFails, Clean, MarkDone, MarkFailed, Crash, Boot, httpVars
<1>7. CASE DemucsStep \/ UNCHANGED vars
  BY <1>4, <1>7 DEF DemucsStep, DemucsOpens, DemucsCloses, DemucsExits, workerVars,
     httpVars, vars
<1>8. ASSUME NEW j \in Job, NEW p \in Percent, PumpReport(j, p) PROVE NoLostWakeup'
  <2>1. OthersStay(j) /\ jobs'[j].status = jobs[j].status
    BY <1>8, ProgressEffect DEF PumpReport, TypeOK
  <2> QED
    BY <1>0, <1>8, <2>1 DEF PumpReport, workerVars, httpVars, OthersStay
<1>9. ASSUME NEW j \in Job, PumpEof(j) PROVE NoLostWakeup'
  BY <1>4, <1>9 DEF PumpEof, workerVars, httpVars
<1>10. ASSUME NEW j \in Job, Aside(j) PROVE NoLostWakeup'
  <2>1. UNCHANGED <<wpc, jobs>>
    BY <1>10, AsideEffect DEF workerVars
  <2>2. \/ permit'
        \/ permit' = permit /\ \A k \in Job : upload'[k] = "accepted" => upload[k] = "accepted"
    BY <1>10 DEF Aside, Receive, PutInput, Notify, UploadEnds, ListObjects, SweepObject,
       SweepDone, RemovalAborts, UploadTo, RemovalTo, TypeOK
  <2> QED
    BY <2>1, <2>2
<1>11. ASSUME NEW j \in Job, NEW name \in Name, NEW t \in Instants, InsertRow(j, name, t)
       PROVE  NoLostWakeup'
  <2>1. OthersStay(j)
    BY <1>11, InsertEffect DEF InsertRow, TypeOK
  <2>2. upload'[j] = "notify" /\ \A k \in Job \ {j} : upload'[k] = upload[k]
    BY <1>11 DEF InsertRow, UploadTo, TypeOK
  <2> QED
    BY <1>11, <2>1, <2>2 DEF InsertRow, workerVars, OthersStay
<1>12. ASSUME NEW j \in Job, NEW name \in Name \cup {Null}, NEW star \in Star \cup {Null},
              Patch(j, name, star)
       PROVE  NoLostWakeup'
  <2>1. OthersStay(j) /\ jobs'[j].status = jobs[j].status
    BY <1>12, PatchEffect DEF Patch, TypeOK
  <2> QED
    BY <1>0, <1>12, <2>1 DEF Patch, workerVars, httpVars, OthersStay
<1>13. ASSUME NEW j \in Job, DeleteRow(j) PROVE NoLostWakeup'
  <2>1. OthersStay(j) /\ jobs'[j].status = "none"
    BY <1>13, DeleteEffect DEF DeleteRow, TypeOK, Exists
  <2> QED
    BY <1>0, <1>13, <2>1 DEF DeleteRow, RemovalTo, workerVars, OthersStay
<1> QED
  BY <1>1, <1>6, <1>7, <1>8, <1>9, <1>10, <1>11, <1>12, <1>13, Cases

\* The worker never sleeps on an acknowledged upload.
THEOREM WakeupsAreNotLost == Spec => []NoLostWakeup
<1>1. Init => NoLostWakeup
  BY DEF Init, NoLostWakeup
<1>2. IInv /\ NoLostWakeup /\ [Next]_vars => NoLostWakeup'
  BY WakeupStep, StoreAssumption DEF IInv
<1> QED
  BY <1>1, <1>2, Invariance, PTL DEF Spec

\* Of a job whose row is gone an object is kept as it is or deleted.
LEMMA OnlySwept ==
  ASSUME ServiceAssumption, IInv, [Next]_vars,
         NEW j \in Job, removal[j] # "idle", NEW i \in Item
  PROVE  objects'[j][i] \in {objects[j][i], "none"}
<1>0. /\ TypeOK /\ BucketTypeOK /\ WorkerOwnsRunning /\ ~Exists(j) /\ Inserted(j)
  BY DEF IInv, TypeOK, BucketTypeOK, RequestsInOrder
<1>1. CASE UNCHANGED objects
  BY <1>1
<1>2. ASSUME NEW s \in Stem, UploadStem(s) PROVE objects'[j][i] = objects[j][i]
  <2>1. wjob \in Job /\ wjob # j /\ s \in Item /\ scratch[wjob][s] \in Content
    BY <1>0, <1>2 DEF UploadStem, WorkerAt, WorkerOwnsRunning, Processing, Is, Exists,
       Item, TypeOK
  <2> QED
    BY <1>0, <1>2, <2>1, StoreEffect DEF UploadStem
<1>3. ASSUME NEW k \in Job, PutInput(k) PROVE objects'[j][i] = objects[j][i]
  <2>1. k # j /\ Input \in Item
    BY <1>0, <1>3 DEF PutInput, UploadAt, Inserted, Item
  <2> QED
    BY <1>0, <1>3, <2>1, StoreEffect, Contents DEF PutInput
<1>4. ASSUME NEW k \in Job, NEW o \in Item, SweepObject(k, o)
      PROVE  objects'[j][i] \in {objects[j][i], "none"}
  BY <1>0, <1>4, StoreEffect, Contents DEF SweepObject
<1> QED
  BY <1>1, <1>2, <1>3, <1>4, Cases
  DEF Claim, Silently, ClaimNone, ClaimErr, BackoffOver, StartWaiting, Wake, PollTimer,
      Fetch, Spawn, ProcessFails, WaitReturns, Timeout, Drained, Collect, MarkDoneFails,
      MarkFailedFails, Clean, MarkDone, MarkFailed, DemucsStep, DemucsOpens,
      DemucsCloses, DemucsExits, PumpReport, PumpEof, Aside, Receive, Notify,
      UploadEnds, ListObjects, SweepDone, RemovalAborts, InsertRow, Patch, DeleteRow,
      Crash, Boot, vars

\* After its delete nothing of a job is stored again.
LEMMA NothingStored ==
  ASSUME ServiceAssumption, IInv, [Next]_vars,
         NEW j \in Job, removal[j] # "idle"
  PROVE  Stored(j)' \subseteq Stored(j)
BY OnlySwept DEF Stored

\* What a delete has swept stays swept.
THEOREM DeletedStaysDeleted == Spec => NothingComesBack
<1>1. IInv /\ [Next]_vars =>
        [\A j \in Job : removal[j] # "idle" => Stored(j)' \subseteq Stored(j)]_vars
  BY NothingStored, ServiceAssumption
<1> QED
  BY <1>1, Invariance, PTL DEF Spec, NothingComesBack

-------------------------------------------------------------------------------
(* What is seen of the service from outside depends only on the status of  *)
(* the rows, on which ids have been inserted and on where the worker is.   *)

AbsentRows == \A j \in Job : ~Exists(j) => jobs[j].stems = {}

LInv == IInv /\ AbsentRows

LEMMA AbsentStep ==
  ASSUME StoreAssumption, TypeOK, WorkerOwnsRunning, AbsentRows, [Next]_vars
  PROVE  AbsentRows'
<1> USE DEF AbsentRows, Exists
<1>1. ASSUME NEW j \in Job, OthersStay(j),
             jobs'[j].status = "none" => jobs'[j].stems = {}
      PROVE  AbsentRows'
  BY <1>1 DEF OthersStay
<1>2. CASE UNCHANGED jobs
  BY <1>2
<1>3. ASSUME NEW j \in Job, Claim(j) PROVE AbsentRows'
  BY <1>1, <1>3, ClaimEffect DEF Claim, TypeOK, Is
<1>4. CASE MarkDone \/ MarkFailed
  BY <1>1, <1>4, MarkDoneEffect, MarkFailedEffect DEF OthersStay
<1>5. ASSUME NEW j \in Job, NEW p \in Percent, PumpReport(j, p) PROVE AbsentRows'
  <2>1. /\ OthersStay(j)
        /\ jobs'[j].status = jobs[j].status /\ jobs'[j].stems = jobs[j].stems
    BY <1>5, ProgressEffect DEF PumpReport, TypeOK
  <2> QED
    BY <1>1, <2>1
<1>6. ASSUME NEW j \in Job, NEW name \in Name, NEW t \in Instants, InsertRow(j, name, t)
      PROVE  AbsentRows'
  BY <1>1, <1>6, InsertEffect DEF InsertRow, TypeOK, Is
<1>7. ASSUME NEW j \in Job, NEW name \in Name \cup {Null}, NEW star \in Star \cup {Null},
             Patch(j, name, star)
      PROVE  AbsentRows'
  <2>1. /\ OthersStay(j)
        /\ jobs'[j].status = jobs[j].status /\ jobs'[j].stems = jobs[j].stems
    BY <1>7, PatchEffect DEF Patch, TypeOK
  <2> QED
    BY <1>1, <2>1
<1>8. ASSUME NEW j \in Job, DeleteRow(j) PROVE AbsentRows'
  BY <1>1, <1>8, DeleteEffect DEF DeleteRow, TypeOK
<1>9. CASE Boot
  BY <1>9, RequeueEffect DEF Boot, TypeOK, Is
<1>10. CASE Silently \/ DemucsStep \/ Crash \/ UNCHANGED vars
  BY <1>2, <1>10 DEF Silently, ClaimNone, ClaimErr, BackoffOver, StartWaiting, Wake,
     PollTimer, Fetch, Spawn, ProcessFails, WaitReturns, Timeout, Drained, Collect,
     UploadStem, MarkDoneFails, MarkFailedFails, Clean, DemucsStep, DemucsOpens,
     DemucsCloses, DemucsExits, Crash, vars
<1>11. ASSUME NEW j \in Job, Aside(j) \/ PumpEof(j) PROVE AbsentRows'
  BY <1>2, <1>11, AsideEffect DEF PumpEof
<1> QED
  BY <1>3, <1>4, <1>5, <1>6, <1>7, <1>8, <1>9, <1>10, <1>11, Cases

LEMMA LInvInit == StoreAssumption => (Init => LInv)
BY IInvInit DEF LInv, AbsentRows, Init, StoreInit, NoRow

LEMMA LInvStep ==
  ASSUME StoreAssumption, ServiceAssumption, LInv, [Next]_vars
  PROVE  LInv'
BY IInvStep, AbsentStep DEF LInv, IInv

Phases    == [j \in Job |-> Phase(j)]
Active    == IF wpc \in Processing THEN wjob ELSE Null
Published == [j \in Job |-> {s \in jobs[j].stems : objects[j][s] = "whole"}]

\* All the stems of a done job can be fetched, and none of any other.
LEMMA PublishedIsDone ==
  ASSUME LInv
  PROVE  Published = [j \in Job |-> IF Is(j, "done") THEN Stem ELSE {}]
<1> DEFINE set(j) == {s \in jobs[j].stems : objects[j][s] = "whole"}
<1>1. ASSUME NEW j \in Job, Is(j, "done") PROVE set(j) = Stem
  BY <1>1 DEF LInv, IInv, DoneIsComplete
<1>2. ASSUME NEW j \in Job, ~Is(j, "done") PROVE set(j) = {}
  <2>1. jobs[j].status \in Status
    BY DEF LInv, IInv, TypeOK, StoreTypeOK, Row
  <2>2. jobs[j].stems = {}
    BY <1>2, <2>1 DEF LInv, IInv, AbsentRows, RowsConsistent, RowConsistent, QueuedRow,
       RunningRow, FailedRow, Status, Is, Exists
  <2> QED
    BY <2>2
<1> QED
  BY <1>1, <1>2 DEF Published

DoneStems == [j \in Job |-> IF Is(j, "done") THEN Stem ELSE {}]

LEMMA PublishedIsDoneNext == LInv' => (Published = DoneStems)'
<1>1. LInv => Published = DoneStems
  BY PublishedIsDone DEF DoneStems
<1> QED
  BY <1>1, PTL

SameStatus(j) == jobs'[j].status = jobs[j].status /\ (Inserted(j)' <=> Inserted(j))

LEMMA SamePhase ==
  ASSUME NEW j \in Job, SameStatus(j)
  PROVE  Phase(j)' = Phase(j)
BY DEF SameStatus, Phase, Exists, Inserted

\* A step that moves no job and leaves the worker its job is not seen.
LEMMA Unseen ==
  ASSUME LInv, LInv', \A j \in Job : SameStatus(j), UNCHANGED Active
  PROVE  UNCHANGED Lifecycle!lifecycleVars
<1>1. Phases' = Phases
  BY SamePhase DEF Phases
<1>2. \A j \in Job : Is(j, "done")' <=> Is(j, "done")
  BY DEF SameStatus, Is
<1>3. DoneStems' = DoneStems
  BY <1>2 DEF DoneStems
<1>4. Published = DoneStems /\ Published' = DoneStems'
  BY PublishedIsDone, PublishedIsDoneNext DEF DoneStems
<1>5. Published' = Published
  BY <1>3, <1>4
<1> QED
  BY <1>1, <1>5 DEF Lifecycle!lifecycleVars, Phases, Active, Published

\* A step that moves one job leaves the others where they are, and shows stems
\* only of the job it makes done.
LEMMA OneMove ==
  ASSUME NEW j \in Job, OthersStay(j), \A k \in Job \ {j} : Inserted(k)' <=> Inserted(k)
  PROVE  Phases' = [Phases EXCEPT ![j] = Phase(j)']
<1>1. ASSUME NEW k \in Job \ {j} PROVE Phase(k)' = Phase(k)
  BY SamePhase DEF OthersStay, SameStatus
<1> QED
  BY <1>1 DEF Phases

LEMMA StemsOfOne ==
  ASSUME LInv, LInv', NEW j \in Job, OthersStay(j)
  PROVE  /\ Published' = [Published EXCEPT ![j] = IF Is(j, "done")' THEN Stem ELSE {}]
         /\ Published[j] = IF Is(j, "done") THEN Stem ELSE {}
<1>1. Published = DoneStems /\ Published' = DoneStems'
  BY PublishedIsDone, PublishedIsDoneNext DEF DoneStems
<1>2. \A k \in Job \ {j} : Is(k, "done")' <=> Is(k, "done")
  BY DEF OthersStay, Is
<1> QED
  BY <1>1, <1>2 DEF DoneStems

LEMMA InsertedKept ==
  ASSUME UNCHANGED upload
  PROVE  \A j \in Job : Inserted(j)' <=> Inserted(j)
BY DEF Inserted

-------------------------------------------------------------------------------
(* The steps that are seen.                                                *)

\* The claim is the start of a job: the worker had none.
LEMMA ClaimStarts ==
  ASSUME LInv, LInv', NEW j \in Job, Claim(j)
  PROVE  Lifecycle!Start(j)
<1>1. OthersStay(j) /\ jobs[j].status = "queued" /\ jobs'[j].status = "running"
  BY ClaimEffect DEF Claim, LInv, IInv, TypeOK, Is
<1>2. Active = Null /\ Active' = j
  BY DEF Claim, WorkerAt, Active, Processing
<1>3. Phases[j] = "queued" /\ Phases' = [Phases EXCEPT ![j] = "running"]
  <2>1. Phase(j) = "queued" /\ Phase(j)' = "running"
    BY <1>1 DEF Phase, Exists
  <2>2. UNCHANGED upload
    BY DEF Claim, httpVars
  <2> QED
    BY <1>1, <2>1, <2>2, OneMove, InsertedKept DEF Phases
<1>4. Published' = Published
  BY <1>1, StemsOfOne DEF Is, Published
<1> QED
  BY <1>2, <1>3, <1>4 DEF Lifecycle!Start, Lifecycle!Move, Phases, Active, Published

\* Either verdict ends the attempt; done shows every stem at once.
LEMMA VerdictFinishes ==
  ASSUME LInv, LInv', NEW j \in Job, j = wjob, MarkDone \/ MarkFailed
  PROVE  Lifecycle!Finish(j)
<1>1. /\ OthersStay(j) /\ jobs[j].status = "running"
      /\ \/ jobs'[j].status = "done"
         \/ jobs'[j].status = "failed"
  BY MarkDoneEffect, MarkFailedEffect DEF LInv, IInv, Is, OthersStay
<1>2. Active = j /\ Active' = Null
  BY DEF MarkDone, MarkFailed, WorkerAt, WorkerTo, Active, Processing
<1>3. Phases[j] = "running" /\ Phases' = [Phases EXCEPT ![j] = jobs'[j].status]
  <2>1. Phase(j) = "running" /\ Phase(j)' = jobs'[j].status
    BY <1>1 DEF Phase, Exists
  <2>2. UNCHANGED upload
    BY DEF MarkDone, MarkFailed, httpVars
  <2> QED
    BY <1>1, <2>1, <2>2, OneMove, InsertedKept DEF Phases
<1>4. CASE jobs'[j].status = "done"
  <2>1. Published' = [Published EXCEPT ![j] = Stem]
    BY <1>1, <1>4, StemsOfOne DEF Is
  <2> QED
    BY <1>2, <1>3, <1>4, <2>1
    DEF Lifecycle!Finish, Lifecycle!Move, Phases, Active, Published
<1>5. CASE jobs'[j].status = "failed"
  <2>1. Published' = Published
    BY <1>1, <1>5, StemsOfOne DEF Is, Published
  <2> QED
    BY <1>2, <1>3, <1>5, <2>1
    DEF Lifecycle!Finish, Lifecycle!Move, Phases, Active, Published
<1> QED
  BY <1>1, <1>4, <1>5

\* The insert is the submission of a job nobody has seen.
LEMMA InsertSubmits ==
  ASSUME StoreAssumption, LInv, LInv', NEW j \in Job, NEW name \in Name,
         NEW t \in Instants, InsertRow(j, name, t)
  PROVE  Lifecycle!Submit(j)
<1>1. OthersStay(j) /\ jobs[j].status = "none" /\ jobs'[j].status = "queued"
  BY InsertEffect DEF InsertRow, LInv, IInv, TypeOK, Is, Exists
<1>2. Active' = Active
  BY DEF InsertRow, workerVars, Active
<1>3. Phases[j] = "new" /\ Phases' = [Phases EXCEPT ![j] = "queued"]
  <2>1. Phase(j) = "new" /\ Phase(j)' = "queued"
    BY <1>1 DEF Phase, Exists, InsertRow, UploadAt
  <2>2. \A k \in Job \ {j} : Inserted(k)' <=> Inserted(k)
    BY DEF InsertRow, UploadTo, Inserted, LInv, IInv, TypeOK
  <2> QED
    BY <1>1, <2>1, <2>2, OneMove DEF Phases
<1>4. Published' = Published
  BY <1>1, StemsOfOne DEF Is, Published
<1> QED
  BY <1>2, <1>3, <1>4 DEF Lifecycle!Submit, Lifecycle!Move, Phases, Active, Published

\* The row's delete is the removal: what the sweep does later is not seen.
LEMMA DeleteRemoves ==
  ASSUME StoreAssumption, LInv, LInv', NEW j \in Job, DeleteRow(j)
  PROVE  Lifecycle!Remove(j)
<1>1. /\ OthersStay(j) /\ jobs[j].status \in {"queued", "done", "failed"}
      /\ jobs'[j].status = "none"
  BY DeleteEffect
  DEF DeleteRow, LInv, IInv, TypeOK, StoreTypeOK, Row, Status, Is, Exists
<1>2. Active' = Active
  BY DEF DeleteRow, workerVars, Active
<1>3. UNCHANGED upload
  BY DEF DeleteRow, RemovalTo
<1>4. Phases[j] = jobs[j].status /\ Phases' = [Phases EXCEPT ![j] = "deleted"]
  <2>1. Inserted(j)
    BY <1>1 DEF LInv, IInv, RequestsInOrder, Exists
  <2>2. Phase(j) = jobs[j].status /\ Phase(j)' = "deleted"
    BY <1>1, <1>3, <2>1 DEF Phase, Exists, Inserted
  <2> QED
    BY <1>1, <1>3, <2>2, OneMove, InsertedKept DEF Phases
<1>5. Published' = [Published EXCEPT ![j] = {}]
  BY <1>1, StemsOfOne DEF Is
<1> QED
  BY <1>1, <1>2, <1>4, <1>5 DEF Lifecycle!Remove, Phases, Active, Published

\* A lost verdict and the death of the process abandon the attempt.
LEMMA LostIsAbandoned ==
  ASSUME LInv, LInv', \A j \in Job : SameStatus(j), Active' = Null
  PROVE  Lifecycle!Abandon \/ UNCHANGED Lifecycle!lifecycleVars
<1>1. CASE Active = Null
  BY <1>1, Unseen
<1>2. CASE Active # Null
  <2>1. Phases' = Phases
    BY SamePhase DEF Phases
  <2>2. DoneStems' = DoneStems
    BY DEF DoneStems, SameStatus, Is
  <2>3. Published' = Published
    BY <2>2, PublishedIsDone, PublishedIsDoneNext DEF DoneStems
  <2> QED
    BY <1>2, <2>1, <2>3 DEF Lifecycle!Abandon, Phases, Active, Published
<1> QED
  BY <1>1, <1>2

\* Boot puts every running job back in line, and no other.
LEMMA BootRecovers ==
  ASSUME LInv, LInv', Boot
  PROVE  Lifecycle!Recover
<1>1. Active = Null /\ Active' = Null
  BY DEF Boot, Up, WorkerTo, Active, Processing
<1>2. \A j \in Job : jobs'[j].status = IF Is(j, "running") THEN "queued"
                                                            ELSE jobs[j].status
  BY RequeueEffect DEF Boot, LInv, IInv, TypeOK, Is
<1>3. Phases' = [j \in Job |-> IF Phases[j] = "running" THEN "queued" ELSE Phases[j]]
  <2>1. UNCHANGED upload
    BY DEF Boot, httpVars
  <2>2. \A j \in Job : Phase(j)' = IF Phase(j) = "running" THEN "queued" ELSE Phase(j)
    BY <1>2, <2>1 DEF Phase, Exists, Is
  <2> QED
    BY <2>2 DEF Phases
<1>4. Published' = Published
  <2>1. DoneStems' = DoneStems
    BY <1>2 DEF DoneStems, Is
  <2> QED
    BY <2>1, PublishedIsDone, PublishedIsDoneNext DEF DoneStems
<1> QED
  BY <1>1, <1>3, <1>4 DEF Lifecycle!Recover, Phases, Active, Published

LEMMA CrashKeepsStatus ==
  ASSUME TypeOK, Crash
  PROVE  \A j \in Job : SameStatus(j)
BY DEF Crash, TypeOK, UploadPC, SameStatus, Inserted

Lived == [Lifecycle!LifecycleNext]_(Lifecycle!lifecycleVars)

\* Every step of the service is a step of the life cycle, or is not seen.
LEMMA LifecycleStep ==
  ASSUME StoreAssumption, LInv, LInv', [Next]_vars
  PROVE  Lived
<1> USE DEF Lived
<1>0. TypeOK /\ WorkerHolds
  BY DEF LInv, IInv
<1>1. ASSUME NEW j \in Job, Claim(j) PROVE Lived
  BY <1>1, ClaimStarts DEF Lifecycle!LifecycleNext
<1>2. ASSUME UNCHANGED <<jobs, upload, Active>> PROVE Lived
  <2>1. \A j \in Job : SameStatus(j)
    BY <1>2 DEF SameStatus, Inserted
  <2> QED
    BY <1>2, <2>1, Unseen
<1>3. CASE MarkDoneFails \/ MarkFailedFails
  <2>1. Active' = Null
    BY <1>3 DEF MarkDoneFails, MarkFailedFails, WorkerTo, Active, Processing
  <2>2. \A j \in Job : SameStatus(j)
    BY <1>3 DEF MarkDoneFails, MarkFailedFails, httpVars, SameStatus, Inserted
  <2> QED
    BY <2>1, <2>2, LostIsAbandoned DEF Lifecycle!LifecycleNext
<1>4. CASE Silently /\ ~(MarkDoneFails \/ MarkFailedFails)
  <2>1. UNCHANGED <<jobs, upload>>
    BY <1>4 DEF Silently, ClaimNone, ClaimErr, BackoffOver, StartWaiting, Wake,
       PollTimer, Fetch, Spawn, ProcessFails, WaitReturns, Timeout, Drained, Collect,
       UploadStem, Clean, httpVars
  <2>2. Active' = Active
    BY <1>0, <1>4 DEF Silently, ClaimNone, ClaimErr, BackoffOver, StartWaiting, Wake,
       PollTimer, Fetch, Spawn, ProcessFails, WaitReturns, Timeout, Drained, Collect,
       UploadStem, Clean, WorkerAt, WorkerTo, WorkerHolds, Active, Processing
  <2> QED
    BY <1>2, <2>1, <2>2
<1>5. CASE MarkDone \/ MarkFailed
  <2>1. wjob \in Job
    BY <1>5, MarkDoneEffect, MarkFailedEffect DEF LInv, IInv
  <2>2. \E j \in Job : Lifecycle!Finish(j)
    BY <1>5, <2>1, VerdictFinishes
  <2> QED
    BY <2>2 DEF Lifecycle!LifecycleNext
<1>6. ASSUME NEW j \in Job, NEW p \in Percent, PumpReport(j, p) PROVE Lived
  <2>1. OthersStay(j) /\ jobs'[j].status = jobs[j].status
    BY <1>0, <1>6, ProgressEffect DEF PumpReport, TypeOK
  <2>2. \A k \in Job : SameStatus(k)
    BY <1>6, <2>1 DEF PumpReport, httpVars, SameStatus, Inserted, OthersStay
  <2> QED
    BY <1>6, <2>2, Unseen DEF PumpReport, workerVars, Active
<1>7. ASSUME NEW j \in Job, NEW name \in Name \cup {Null}, NEW star \in Star \cup {Null},
             Patch(j, name, star)
      PROVE  Lived
  <2>1. OthersStay(j) /\ jobs'[j].status = jobs[j].status
    BY <1>0, <1>7, PatchEffect DEF Patch, TypeOK
  <2>2. \A k \in Job : SameStatus(k)
    BY <1>7, <2>1 DEF Patch, httpVars, SameStatus, Inserted, OthersStay
  <2> QED
    BY <1>7, <2>2, Unseen DEF Patch, workerVars, Active
<1>8. ASSUME NEW j \in Job, Aside(j) PROVE Lived
  <2>1. \A k \in Job : Inserted(k)' <=> Inserted(k)
    BY <1>0, <1>8 DEF Aside, Receive, PutInput, Notify, UploadEnds, ListObjects,
       SweepObject, SweepDone, RemovalAborts, UploadAt, UploadTo, RemovalTo, Inserted,
       TypeOK
  <2>2. UNCHANGED <<jobs, Active>>
    BY <1>8, AsideEffect DEF workerVars, Active
  <2> QED
    BY <2>1, <2>2, Unseen DEF SameStatus
<1>9. ASSUME NEW j \in Job, NEW name \in Name, NEW t \in Instants, InsertRow(j, name, t)
      PROVE  Lived
  BY <1>9, InsertSubmits DEF Lifecycle!LifecycleNext
<1>10. ASSUME NEW j \in Job, DeleteRow(j) PROVE Lived
  BY <1>10, DeleteRemoves DEF Lifecycle!LifecycleNext
<1>11. CASE DemucsStep \/ UNCHANGED vars \/ \E j \in Job : PumpEof(j)
  BY <1>2, <1>11 DEF DemucsStep, DemucsOpens, DemucsCloses, DemucsExits, PumpEof,
     vars, workerVars, httpVars, Active
<1>12. CASE Crash
  <2>1. Active' = Null
    BY <1>12 DEF Crash, Active, Processing
  <2> QED
    BY <1>0, <1>12, <2>1, CrashKeepsStatus, LostIsAbandoned DEF Lifecycle!LifecycleNext
<1>13. CASE Boot
  BY <1>13, BootRecovers DEF Lifecycle!LifecycleNext
<1> QED
  <2> HIDE DEF Lived
  <2> QED
    BY <1>1, <1>3, <1>4, <1>5, <1>6, <1>7, <1>8, <1>9, <1>10, <1>11, <1>12, <1>13, Cases

LEMMA LifecycleStart == Init => Lifecycle!LifecycleInit
<1> SUFFICES ASSUME Init PROVE Lifecycle!LifecycleInit
  OBVIOUS
<1>1. \A j \in Job : jobs[j].status = "none" /\ jobs[j].stems = {}
  BY DEF Init, StoreInit, NoRow
<1>2. \A j \in Job : Phase(j) = "new"
  BY <1>1 DEF Init, Phase, Exists
<1> QED
  BY <1>1, <1>2 DEF Init, Lifecycle!LifecycleInit, Processing

\* The service implements the life cycle its users rely on: whatever fails,
\* races or crashes, a job is separated by one worker at a time, its verdict
\* is final, a done job shows all its stems until it is deleted, and what a
\* crash interrupts is repeated from the start.
THEOREM ServiceImplementsLifecycle == Spec => ImplementsLifecycle
<1>1. Init => LInv /\ Lifecycle!LifecycleInit
  BY LInvInit, LifecycleStart, StoreAssumption
<1>2. LInv /\ [Next]_vars => LInv'
  BY LInvStep, StoreAssumption, ServiceAssumption
<1>3. LInv /\ LInv' /\ [Next]_vars => [Lifecycle!LifecycleNext]_(Lifecycle!lifecycleVars)
  BY LifecycleStep, StoreAssumption DEF Lived
<1> QED
  BY <1>1, <1>2, <1>3, PTL DEF Spec, ImplementsLifecycle, Lifecycle!LifecycleSpec

-------------------------------------------------------------------------------
(* What a user sets, and whose turn it is.                                 *)

ByUserKept(j) ==
  /\ Exists(j) /\ Exists(j)'
  /\ ~\E name \in Name \cup {Null}, star \in Star \cup {Null} : Patch(j, name, star)
  => SameByUser(j)

LEMMA ByUserStep ==
  ASSUME StoreAssumption, TypeOK, WorkerOwnsRunning, [Next]_vars, NEW j \in Job
  PROVE  ByUserKept(j)
<1> USE DEF ByUserKept
<1>1. ASSUME NEW k \in Job, OthersStay(k), k # j \/ SameByUser(j)
      PROVE  ByUserKept(j)
  BY <1>1 DEF OthersStay, SameByUser
<1>2. CASE UNCHANGED jobs
  BY <1>2 DEF SameByUser
<1>3. ASSUME NEW k \in Job, Claim(k) PROVE ByUserKept(j)
  BY <1>1, <1>3, ClaimEffect DEF Claim, TypeOK
<1>4. CASE MarkDone \/ MarkFailed
  BY <1>1, <1>4, MarkDoneEffect, MarkFailedEffect DEF OthersStay
<1>5. ASSUME NEW k \in Job, NEW p \in Percent, PumpReport(k, p) PROVE ByUserKept(j)
  BY <1>1, <1>5, ProgressEffect DEF PumpReport, TypeOK
<1>6. ASSUME NEW k \in Job, NEW name \in Name, NEW t \in Instants, InsertRow(k, name, t)
      PROVE  ByUserKept(j)
  BY <1>1, <1>6, InsertEffect DEF InsertRow, TypeOK
<1>7. ASSUME NEW k \in Job, NEW name \in Name \cup {Null}, NEW star \in Star \cup {Null},
             Patch(k, name, star)
      PROVE  ByUserKept(j)
  BY <1>1, <1>7, PatchEffect DEF Patch, TypeOK
<1>8. ASSUME NEW k \in Job, DeleteRow(k) PROVE ByUserKept(j)
  BY <1>1, <1>8, DeleteEffect DEF DeleteRow, TypeOK
<1>9. CASE Boot
  BY <1>9, RequeueEffect DEF Boot, TypeOK, SameByUser
<1>10. CASE Silently \/ DemucsStep \/ Crash \/ UNCHANGED vars
  BY <1>2, <1>10 DEF Silently, ClaimNone, ClaimErr, BackoffOver, StartWaiting, Wake,
     PollTimer, Fetch, Spawn, ProcessFails, WaitReturns, Timeout, Drained, Collect,
     UploadStem, MarkDoneFails, MarkFailedFails, Clean, DemucsStep, DemucsOpens,
     DemucsCloses, DemucsExits, Crash, vars
<1>11. ASSUME NEW k \in Job, Aside(k) \/ PumpEof(k) PROVE ByUserKept(j)
  BY <1>2, <1>11, AsideEffect DEF PumpEof
<1> QED
  <2> HIDE DEF ByUserKept
  <2> QED
    BY <1>3, <1>4, <1>5, <1>6, <1>7, <1>8, <1>9, <1>10, <1>11, Cases

\* A rename or a star survives claims, verdicts, requeues and progress
\* reports: every statement but the patch names the columns it sets, and the
\* two of the user are not among them.
THEOREM PatchesAreKept == Spec => PatchKept
<1>1. IInv /\ [Next]_vars =>
        [\A j \in Job :
           /\ Exists(j) /\ Exists(j)'
           /\ ~\E name \in Name \cup {Null}, star \in Star \cup {Null} :
                Patch(j, name, star)
           => /\ jobs'[j].filename = jobs[j].filename
              /\ jobs'[j].favorite = jobs[j].favorite]_vars
  BY ByUserStep, StoreAssumption DEF IInv, ByUserKept, SameByUser
<1> QED
  BY <1>1, Invariance, PTL DEF Spec, PatchKept

\* Only a claim takes a job out of the line and into the worker's hands.
LEMMA OnlyClaimsRun ==
  ASSUME StoreAssumption, TypeOK, WorkerOwnsRunning, [Next]_vars,
         NEW j \in Job, Is(j, "queued"), Is(j, "running")'
  PROVE  Claim(j)
<1> USE DEF Is
<1>1. ASSUME NEW k \in Job, OthersStay(k),
             jobs[k].status # "queued" \/ jobs'[k].status # "running"
      PROVE  FALSE
  BY <1>1 DEF OthersStay
<1>2. CASE UNCHANGED jobs
  BY <1>2
<1>3. ASSUME NEW k \in Job, Claim(k) PROVE Claim(j)
  BY <1>3, ClaimEffect DEF Claim, TypeOK, OthersStay
<1>4. CASE MarkDone \/ MarkFailed
  BY <1>1, <1>4, MarkDoneEffect, MarkFailedEffect DEF OthersStay
<1>5. ASSUME NEW k \in Job, NEW p \in Percent, PumpReport(k, p) PROVE FALSE
  <2>1. OthersStay(k) /\ jobs'[k].status = jobs[k].status
    BY <1>5, ProgressEffect DEF PumpReport, TypeOK
  <2> QED
    BY <1>1, <2>1
<1>6. ASSUME NEW k \in Job, NEW name \in Name, NEW t \in Instants, InsertRow(k, name, t)
      PROVE  FALSE
  BY <1>1, <1>6, InsertEffect DEF InsertRow, TypeOK
<1>7. ASSUME NEW k \in Job, NEW name \in Name \cup {Null}, NEW star \in Star \cup {Null},
             Patch(k, name, star)
      PROVE  FALSE
  <2>1. OthersStay(k) /\ jobs'[k].status = jobs[k].status
    BY <1>7, PatchEffect DEF Patch, TypeOK
  <2> QED
    BY <1>1, <2>1
<1>8. ASSUME NEW k \in Job, DeleteRow(k) PROVE FALSE
  BY <1>1, <1>8, DeleteEffect DEF DeleteRow, TypeOK, Exists
<1>9. CASE Boot
  BY <1>9, RequeueEffect DEF Boot, TypeOK
<1>10. CASE Silently \/ DemucsStep \/ Crash \/ UNCHANGED vars
  BY <1>2, <1>10 DEF Silently, ClaimNone, ClaimErr, BackoffOver, StartWaiting, Wake,
     PollTimer, Fetch, Spawn, ProcessFails, WaitReturns, Timeout, Drained, Collect,
     UploadStem, MarkDoneFails, MarkFailedFails, Clean, DemucsStep, DemucsOpens,
     DemucsCloses, DemucsExits, Crash, vars
<1>11. ASSUME NEW k \in Job, Aside(k) \/ PumpEof(k) PROVE FALSE
  BY <1>2, <1>11, AsideEffect DEF PumpEof
<1> QED
  BY <1>3, <1>4, <1>5, <1>6, <1>7, <1>8, <1>9, <1>10, <1>11, Cases

\* The texts of two instants compare as the instants do.
InOrder(a, b) == a < b => TextBefore(Rfc3339(a), Rfc3339(b))

LEMMA OldestStep ==
  ASSUME StoreAssumption, TypeOK, WorkerOwnsRunning, [Next]_vars,
         \A a, b \in Instants : InOrder(a, b),
         NEW j \in Job, Is(j, "queued"), Is(j, "running")', NEW k \in Queued
  PROVE  jobs[j].created <= jobs[k].created
<1>1. FirstInLine(j)
  BY OnlyClaimsRun DEF Claim, ClaimNext
<1>2. ~TextBefore(Rfc3339(jobs[k].created), Rfc3339(jobs[j].created))
  BY <1>1 DEF FirstInLine
<1>3. jobs[j].created \in Instants /\ jobs[k].created \in Instants
  BY DEF TypeOK, StoreTypeOK, Row, Queued
<1>4. ~(jobs[k].created < jobs[j].created)
  BY <1>2, <1>3 DEF InOrder
<1>5. jobs[j].created \in Nat /\ jobs[k].created \in Nat
  BY <1>3, StoreAssumption
<1> QED
  BY <1>4, <1>5

\* claim_next takes the oldest queued job whenever the texts of the upload
\* instants sort as the instants do: that they may not is the one thing that
\* can make it take another.
THEOREM OldestIsClaimed ==
  (\A a, b \in Instants : InOrder(a, b)) => (Spec => ClaimsOldest)
<1> SUFFICES ASSUME \A a, b \in Instants : InOrder(a, b)
             PROVE  Spec => ClaimsOldest
  OBVIOUS
<1>1. IInv /\ [Next]_vars =>
        [\A j \in Job : Is(j, "queued") /\ Is(j, "running")' =>
           \A k \in Queued : jobs[j].created <= jobs[k].created]_vars
  BY OldestStep, StoreAssumption DEF IInv
<1> QED
  BY <1>1, Invariance, PTL DEF Spec, ClaimsOldest

\* A whole second is written without a fraction.
LEMMA WholeText ==
  ASSUME NEW a \in Nat, a % TicksPerSecond = 0
  PROVE  /\ Rfc3339(a) \in Seq(Int) /\ Len(Rfc3339(a)) = 2
         /\ Rfc3339(a)[1] = a \div TicksPerSecond
<1> DEFINE q == a \div TicksPerSecond
           text == Rfc3339(a)
<1>1. q \in Int /\ Zulu \in Int
  BY TicksAssumption, TimestampsAssumption DEF Zulu
<1>2. text = <<q>> \o <<>> \o <<Zulu>>
  BY DEF Rfc3339, FractionText
<1> HIDE DEF q, text
<1>3. <<q>> \o <<>> = <<q>>
  OBVIOUS
<1>4. <<q>> \in Seq(Int) /\ <<Zulu>> \in Seq(Int)
  BY <1>1
<1>5. text = <<q>> \o <<Zulu>>
  BY <1>2, <1>3
<1>6. text \in Seq(Int) /\ Len(text) = 2
  BY <1>4, <1>5
<1>7. text[1] = <<q>>[1]
  BY <1>4, <1>5
<1> QED
  BY <1>6, <1>7 DEF q, text

LEMMA WholeSecondsInOrder ==
  ASSUME NEW a \in Nat, NEW b \in Nat,
         a % TicksPerSecond = 0, b % TicksPerSecond = 0
  PROVE  InOrder(a, b)
<1> DEFINE T == TicksPerSecond
           q == a \div T
           r == b \div T
           s == Rfc3339(a)
           t == Rfc3339(b)
<1>1. q \in Int /\ r \in Int /\ T \in Nat \ {0}
  BY TicksAssumption
<1>2. a = T * q /\ b = T * r
  BY TicksAssumption, Z3
<1>3. /\ s \in Seq(Int) /\ Len(s) = 2 /\ s[1] = q
      /\ t \in Seq(Int) /\ Len(t) = 2 /\ t[1] = r
  BY WholeText
<1> HIDE DEF T, q, r, s, t
<1>4. a < b => q < r
  <2>1. r <= q => T * r <= T * q
    BY <1>1, Z3
  <2> QED
    BY <1>1, <1>2, <2>1
<1>5. q < r => TextBefore(s, t)
  BY <1>1, <1>3 DEF TextBefore
<1> QED
  BY <1>4, <1>5 DEF InOrder, s, t

\* So uploads are claimed oldest first as long as the clock reads whole
\* seconds, and it is the fraction of now()'s text that breaks the order.
THEOREM OldestIsClaimedInSeconds ==
  (\A t \in Instants : t % TicksPerSecond = 0) => (Spec => ClaimsOldest)
BY OldestIsClaimed, WholeSecondsInOrder, StoreAssumption

-------------------------------------------------------------------------------
(* What the rest of the service can do to a job that has been offered.     *)

\* A verdict is final: only its delete takes a done job away.
LEMMA DoneStays ==
  ASSUME StoreAssumption, IInv, [Next]_vars, NEW j \in Job, Is(j, "done")
  PROVE  Is(j, "done")' \/ DeleteRow(j)
<1> USE DEF Is
<1>0. TypeOK /\ WorkerOwnsRunning
  BY DEF IInv
<1>1. ASSUME NEW k \in Job, OthersStay(k),
             jobs[k].status # "done" \/ jobs'[k].status = jobs[k].status
      PROVE  Is(j, "done")'
  BY <1>1 DEF OthersStay
<1>2. CASE UNCHANGED jobs
  BY <1>2
<1>3. ASSUME NEW k \in Job, Claim(k) PROVE Is(j, "done")'
  BY <1>0, <1>1, <1>3, ClaimEffect DEF Claim, TypeOK
<1>4. CASE MarkDone \/ MarkFailed
  BY <1>0, <1>1, <1>4, MarkDoneEffect, MarkFailedEffect DEF OthersStay
<1>5. ASSUME NEW k \in Job, NEW p \in Percent, PumpReport(k, p) PROVE Is(j, "done")'
  <2>1. OthersStay(k) /\ jobs'[k].status = jobs[k].status
    BY <1>0, <1>5, ProgressEffect DEF PumpReport, TypeOK
  <2> QED
    BY <1>1, <2>1
<1>6. ASSUME NEW k \in Job, NEW name \in Name, NEW t \in Instants, InsertRow(k, name, t)
      PROVE  Is(j, "done")'
  BY <1>0, <1>1, <1>6, InsertEffect DEF InsertRow, TypeOK, Exists
<1>7. ASSUME NEW k \in Job, NEW name \in Name \cup {Null}, NEW star \in Star \cup {Null},
             Patch(k, name, star)
      PROVE  Is(j, "done")'
  <2>1. OthersStay(k) /\ jobs'[k].status = jobs[k].status
    BY <1>0, <1>7, PatchEffect DEF Patch, TypeOK
  <2> QED
    BY <1>1, <2>1
<1>8. ASSUME NEW k \in Job, DeleteRow(k), k # j PROVE Is(j, "done")'
  BY <1>0, <1>8, DeleteEffect DEF DeleteRow, TypeOK, OthersStay
<1>9. CASE Boot
  BY <1>0, <1>9, RequeueEffect DEF Boot, TypeOK
<1>10. CASE Silently \/ DemucsStep \/ Crash \/ UNCHANGED vars
  BY <1>2, <1>10 DEF Silently, ClaimNone, ClaimErr, BackoffOver, StartWaiting, Wake,
     PollTimer, Fetch, Spawn, ProcessFails, WaitReturns, Timeout, Drained, Collect,
     UploadStem, MarkDoneFails, MarkFailedFails, Clean, DemucsStep, DemucsOpens,
     DemucsCloses, DemucsExits, Crash, vars
<1>11. ASSUME NEW k \in Job, Aside(k) \/ PumpEof(k) PROVE Is(j, "done")'
  BY <1>2, <1>11, AsideEffect DEF PumpEof
<1> QED
  BY <1>3, <1>4, <1>5, <1>6, <1>7, <1>8, <1>9, <1>10, <1>11, Cases

\* A delete is never forgotten.
LEMMA RemovalStays ==
  ASSUME TypeOK, [Next]_vars, NEW j \in Job, removal[j] # "idle"
  PROVE  removal'[j] # "idle"
<1>1. CASE UNCHANGED removal
  BY <1>1
<1>2. CASE Crash
  BY <1>2 DEF Crash
<1>3. ASSUME NEW k \in Job, DeleteRow(k) \/ Aside(k) PROVE removal'[j] # "idle"
  BY <1>3 DEF DeleteRow, Aside, Receive, PutInput, Notify, UploadEnds, ListObjects,
     SweepObject, SweepDone, RemovalAborts, UploadTo, RemovalTo, TypeOK
<1>4. CASE Silently \/ MarkDone \/ MarkFailed \/ DemucsStep \/ Boot \/ UNCHANGED vars
  BY <1>1, <1>4 DEF Silently, ClaimNone, ClaimErr, BackoffOver, StartWaiting, Wake,
     PollTimer, Fetch, Spawn, ProcessFails, WaitReturns, Timeout, Drained, Collect,
     UploadStem, MarkDone, MarkDoneFails, MarkFailed, MarkFailedFails, Clean,
     DemucsStep, DemucsOpens, DemucsCloses, DemucsExits, Boot, httpVars, vars
<1> QED
  BY <1>1, <1>2, <1>3, <1>4, Cases
  DEF Claim, PumpReport, PumpEof, InsertRow, UploadTo, Patch, httpVars

-------------------------------------------------------------------------------
(* The client.                                                             *)

\* The stem is whole, and missing only once its job is being deleted.
Offered(j, s) ==
  \/ Is(j, "done") /\ objects[j][s] = "whole"
  \/ removal[j] # "idle" /\ objects[j][s] \in {"none", "whole"}

\* What was offered stays on offer until the client comes for it.
OfferStands ==
  /\ transfer # "partial"
  /\ transfer \in {"row", "redirected"} =>
       wanted \in Job \X Stem /\ Offered(WantedJob, WantedStem)
  /\ transfer = "missing" => WantedJob \in Job /\ removal[WantedJob] # "idle"

DInv == IInv /\ OfferStands

LEMMA OfferedStays ==
  ASSUME StoreAssumption, ServiceAssumption, IInv, IInv', [Next]_vars,
         NEW j \in Job, NEW s \in Stem, Offered(j, s)
  PROVE  Offered(j, s)'
<1>1. s \in Item
  BY DEF Item
<1>2. CASE removal[j] # "idle"
  <2>1. removal'[j] # "idle"
    BY <1>2, RemovalStays DEF IInv
  <2>2. objects'[j][s] \in {objects[j][s], "none"}
    BY <1>1, <1>2, OnlySwept
  <2>3. ~Is(j, "done")
    BY <1>2 DEF IInv, RequestsInOrder, Exists, Is
  <2> QED
    BY <2>1, <2>2, <2>3 DEF Offered
<1>3. CASE removal[j] = "idle"
  <2>1. Is(j, "done") /\ objects[j][s] = "whole"
    BY <1>3 DEF Offered
  <2>2. CASE Is(j, "done")'
    BY <2>2 DEF Offered, IInv, DoneIsComplete
  <2>3. CASE DeleteRow(j)
    BY <2>1, <2>3 DEF DeleteRow, RemovalTo, IInv, TypeOK, Offered
  <2> QED
    BY <2>1, <2>2, <2>3, DoneStays
<1> QED
  BY <1>2, <1>3

LEMMA OfferStep ==
  ASSUME StoreAssumption, ServiceAssumption, DInv, IInv', [DownloadNext]_allVars
  PROVE  OfferStands'
<1> USE DEF OfferStands, WantedJob, WantedStem
<1>1. CASE [Next]_vars /\ UNCHANGED downloadVars
  <2>1. transfer' = transfer /\ wanted' = wanted
    BY <1>1 DEF downloadVars
  <2>2. CASE transfer \in {"row", "redirected"}
    <3>1. wanted[1] \in Job /\ wanted[2] \in Stem /\ Offered(wanted[1], wanted[2])
      BY <2>2 DEF DInv
    <3>2. ASSUME NEW j \in Job, NEW s \in Stem, j = wanted[1], s = wanted[2]
          PROVE  Offered(wanted[1], wanted[2])'
      <4>1. Offered(j, s)'
        BY <1>1, <3>1, <3>2, OfferedStays DEF DInv
      <4> QED
        BY <2>1, <3>2, <4>1 DEF Offered, Is
    <3> QED
      BY <2>1, <2>2, <3>1, <3>2 DEF DInv
  <2>3. CASE transfer = "missing"
    BY <1>1, <2>1, <2>3, RemovalStays DEF DInv, IInv
  <2> QED
    BY <2>1, <2>2, <2>3 DEF DInv
<1>2. ASSUME NEW j \in Job, NEW s \in Stem, ReadRow(j, s) PROVE OfferStands'
  <2>1. CASE Downloadable(j, s)
    <3>1. transfer' = "row" /\ wanted' = <<j, s>> /\ UNCHANGED vars
      BY <1>2, <2>1 DEF ReadRow
    <3>2. Offered(j, s)
      BY <2>1 DEF Downloadable, Offered, DInv, IInv, DoneIsComplete
    <3>3. Offered(j, s)'
      BY <3>1, <3>2 DEF Offered, Is, vars, httpVars
    <3> QED
      BY <3>1, <3>3 DEF Offered, Is
  <2>2. CASE ~Downloadable(j, s)
    BY <1>2, <2>2 DEF ReadRow
  <2> QED
    BY <2>1, <2>2
<1>3. CASE OpenStream \/ FollowUrl
  <2>1. /\ wanted \in Job \X Stem /\ Offered(wanted[1], wanted[2])
        /\ transfer' = Found /\ UNCHANGED <<wanted, vars>>
    BY <1>3 DEF OpenStream, FollowUrl, DInv
  <2>2. objects[wanted[1]][wanted[2]] \in {"none", "whole"}
    BY <2>1 DEF Offered
  <2>3. transfer' = "whole" \/ (transfer' = "missing" /\ removal[wanted[1]] # "idle")
    BY <2>1, <2>2 DEF Found, Offered
  <2> QED
    BY <2>1, <2>3 DEF vars, httpVars
<1>4. CASE RedirectClient
  BY <1>4 DEF RedirectClient, DInv, Offered, Is, vars, httpVars
<1>5. CASE TransferEnds
  BY <1>5 DEF TransferEnds
<1>6. CASE UNCHANGED allVars
  BY <1>1, <1>6 DEF allVars
<1> QED
  BY <1>1, <1>2, <1>3, <1>4, <1>5, <1>6 DEF DownloadNext, DownloadStep

\* A download changes nothing the rest of the service looks at.
LEMMA DownloadIsAside ==
  ASSUME [DownloadNext]_allVars
  PROVE  [Next]_vars
BY DEF DownloadNext, DownloadStep, ReadRow, OpenStream, RedirectClient, FollowUrl,
   TransferEnds, allVars

\* No client is served a stem cut short, and a stem of a job that was done
\* when its row was read is missing only if the job was deleted since, however
\* late the client follows the URL it was sent.
THEOREM DownloadsAreWhole == DownloadSpec => []ServesWholeStems
<1>1. DownloadInit => DInv
  BY IInvInit, StoreAssumption DEF DownloadInit, DInv, OfferStands
<1>2. DInv /\ [DownloadNext]_allVars => DInv'
  <2>1. DInv /\ [DownloadNext]_allVars => IInv'
    BY DownloadIsAside, IInvStep, StoreAssumption, ServiceAssumption DEF DInv
  <2> QED
    BY <2>1, OfferStep, StoreAssumption, ServiceAssumption DEF DInv
<1>3. DInv => ServesWholeStems
  BY DEF DInv, OfferStands, ServesWholeStems
<1> QED
  BY <1>1, <1>2, <1>3, PTL DEF DownloadSpec
=============================================================================
