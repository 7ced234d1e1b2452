--------------------------- MODULE JobStoreProofs ---------------------------
(***************************************************************************)
(* What each SQL statement of the store does to the jobs table.            *)
(***************************************************************************)
EXTENDS JobStore, TLAPS

\* The other rows stay as they are.
OthersStay(j) == \A k \in Job \ {j} : jobs'[k] = jobs[k]

\* The columns a user sets.
SameByUser(j) == /\ jobs'[j].filename = jobs[j].filename
                 /\ jobs'[j].favorite = jobs[j].favorite

LEMMA Percentages == 0 \in 0..100 /\ 100 \in 0..100
OBVIOUS

\* Writing one row leaves the others alone and the table well typed.
LEMMA OneRow ==
  ASSUME StoreTypeOK, NEW j \in Job, NEW row \in Row,
         jobs' = [jobs EXCEPT ![j] = row]
  PROVE  StoreTypeOK' /\ OthersStay(j) /\ jobs'[j] = row
BY DEF StoreTypeOK, OthersStay

\* A new upload starts out in line, with nothing of a verdict.
LEMMA InsertEffect ==
  ASSUME StoreAssumption, StoreTypeOK,
         NEW j \in Job, NEW name \in Name, NEW t \in Instants, Insert(j, name, t)
  PROVE  /\ StoreTypeOK' /\ OthersStay(j)
         /\ ~Exists(j) /\ Is(j, "queued")'
         /\ jobs'[j].progress = 0 /\ jobs'[j].stems = {} /\ ~jobs'[j].error
         /\ ~jobs'[j].started /\ ~jobs'[j].finished
<1> DEFINE row == [NoRow EXCEPT !.status = "queued", !.filename = name, !.created = t]
<1>1. NoRow \in Row
  BY Percentages, Zenon DEF NoRow, Row, Status, StoreAssumption
<1>2. row \in Row
  BY <1>1, Zenon DEF Row, Status
<1>3. /\ row.status = "queued" /\ row.progress = 0 /\ row.stems = {}
      /\ ~row.error /\ ~row.started /\ ~row.finished
  BY DEF NoRow
<1> QED
  BY <1>2, <1>3, OneRow DEF Insert, Is

\* The claimed row was queued and is running.
LEMMA ClaimEffect ==
  ASSUME StoreTypeOK, NEW j \in Job, ClaimNext(j)
  PROVE  /\ StoreTypeOK' /\ OthersStay(j)
         /\ Is(j, "queued") /\ Is(j, "running")'
         /\ jobs'[j].started /\ ~jobs'[j].error
         /\ jobs'[j].finished = jobs[j].finished /\ jobs'[j].stems = jobs[j].stems
         /\ SameByUser(j)
<1> DEFINE row == [jobs[j] EXCEPT !.status = "running", !.started = TRUE,
                                  !.progress = 0, !.error = FALSE]
<1>1. jobs[j] \in Row
  BY DEF StoreTypeOK
<1>2. row \in Row
  BY <1>1, Percentages, Zenon DEF Row, Status
<1>3. /\ row.status = "running" /\ row.started /\ ~row.error
      /\ row.finished = jobs[j].finished /\ row.stems = jobs[j].stems
      /\ row.filename = jobs[j].filename /\ row.favorite = jobs[j].favorite
  BY <1>1, Zenon DEF Row
<1> HIDE DEF row
<1>4. jobs' = [jobs EXCEPT ![j] = row]
  BY DEF ClaimNext, row
<1>5. StoreTypeOK' /\ OthersStay(j) /\ jobs'[j] = row
  BY <1>2, <1>4, OneRow
<1>6. Is(j, "queued")
  BY DEF ClaimNext, FirstInLine, Queued
<1> QED
  BY <1>3, <1>5, <1>6 DEF Is, SameByUser

\* A progress report touches nothing but the progress.
LEMMA ProgressEffect ==
  ASSUME StoreAssumption, StoreTypeOK, NEW j \in Job, NEW p \in Percent,
         SetProgress(j, p)
  PROVE  /\ StoreTypeOK' /\ OthersStay(j)
         /\ jobs'[j].status = jobs[j].status /\ jobs'[j].stems = jobs[j].stems
         /\ jobs'[j].error = jobs[j].error /\ jobs'[j].started = jobs[j].started
         /\ jobs'[j].finished = jobs[j].finished
         /\ SameByUser(j)
<1> DEFINE row == [jobs[j] EXCEPT !.progress = p]
           new == IF Exists(j) THEN row ELSE jobs[j]
<1>1. jobs[j] \in Row /\ p \in 0..100
  BY DEF StoreTypeOK, StoreAssumption
<1>2. row \in Row
  BY <1>1, Zenon DEF Row
<1>3. /\ row.status = jobs[j].status /\ row.stems = jobs[j].stems
      /\ row.error = jobs[j].error /\ row.started = jobs[j].started
      /\ row.finished = jobs[j].finished
      /\ row.filename = jobs[j].filename /\ row.favorite = jobs[j].favorite
  BY <1>1, Zenon DEF Row
<1> HIDE DEF row
<1>4. new \in Row /\ jobs' = [jobs EXCEPT ![j] = new]
  BY <1>1, <1>2 DEF SetProgress, Update, row
<1> HIDE DEF new
<1>5. StoreTypeOK' /\ OthersStay(j) /\ jobs'[j] = new
  BY <1>4, OneRow
<1> QED
  BY <1>3, <1>5 DEF new, SameByUser

\* mark_done, which changes a row only if there is one.
LEMMA DoneEffect ==
  ASSUME StoreTypeOK, NEW j \in Job, NEW S \in SUBSET Stem, SetDone(j, S)
  PROVE  /\ StoreTypeOK' /\ OthersStay(j)
         /\ Exists(j) =>
              /\ Is(j, "done")' /\ jobs'[j].stems = S /\ jobs'[j].progress = 100
              /\ jobs'[j].error = jobs[j].error /\ jobs'[j].started = jobs[j].started
              /\ jobs'[j].finished
         /\ SameByUser(j)
<1> DEFINE row == [jobs[j] EXCEPT !.status = "done", !.progress = 100,
                                  !.stems = S, !.finished = TRUE]
           new == IF Exists(j) THEN row ELSE jobs[j]
<1>1. jobs[j] \in Row
  BY DEF StoreTypeOK
<1>2. row \in Row
  BY <1>1, Percentages, Zenon DEF Row, Status
<1>3. /\ row.status = "done" /\ row.progress = 100 /\ row.stems = S
      /\ row.error = jobs[j].error /\ row.started = jobs[j].started
      /\ row.finished
      /\ row.filename = jobs[j].filename /\ row.favorite = jobs[j].favorite
  BY <1>1, Zenon DEF Row
<1> HIDE DEF row
<1>4. new \in Row /\ jobs' = [jobs EXCEPT ![j] = new]
  BY <1>1, <1>2 DEF SetDone, Update, row
<1>5. StoreTypeOK' /\ OthersStay(j) /\ jobs'[j] = new
  BY <1>4, OneRow
<1> QED
  BY <1>3, <1>5 DEF Is, SameByUser

\* mark_failed, likewise.
LEMMA FailedEffect ==
  ASSUME StoreTypeOK, NEW j \in Job, SetFailed(j)
  PROVE  /\ StoreTypeOK' /\ OthersStay(j)
         /\ Exists(j) =>
              /\ Is(j, "failed")' /\ jobs'[j].stems = jobs[j].stems
              /\ jobs'[j].error /\ jobs'[j].started = jobs[j].started
              /\ jobs'[j].finished
         /\ SameByUser(j)
<1> DEFINE row == [jobs[j] EXCEPT !.status = "failed", !.error = TRUE, !.finished = TRUE]
           new == IF Exists(j) THEN row ELSE jobs[j]
<1>1. jobs[j] \in Row
  BY DEF StoreTypeOK
<1>2. row \in Row
  BY <1>1, Zenon DEF Row, Status
<1>3. /\ row.status = "failed" /\ row.stems = jobs[j].stems /\ row.error
      /\ row.started = jobs[j].started /\ row.finished
      /\ row.filename = jobs[j].filename /\ row.favorite = jobs[j].favorite
  BY <1>1, Zenon DEF Row
<1> HIDE DEF row
<1>4. new \in Row /\ jobs' = [jobs EXCEPT ![j] = new]
  BY <1>1, <1>2 DEF SetFailed, Update, row
<1>5. StoreTypeOK' /\ OthersStay(j) /\ jobs'[j] = new
  BY <1>4, OneRow
<1> QED
  BY <1>3, <1>5 DEF Is, SameByUser

\* A rename or a star changes no column that another step looks at.
LEMMA AnyPatchEffect ==
  ASSUME StoreAssumption, StoreTypeOK, NEW j \in Job,
         NEW name \in Name \cup {Null}, NEW star \in BOOLEAN \cup {Null},
         SetNameAndStar(j, name, star)
  PROVE  /\ StoreTypeOK' /\ OthersStay(j)
         /\ jobs'[j].status = jobs[j].status /\ jobs'[j].stems = jobs[j].stems
         /\ jobs'[j].error = jobs[j].error /\ jobs'[j].started = jobs[j].started
         /\ jobs'[j].finished = jobs[j].finished
         /\ jobs'[j].progress = jobs[j].progress
<1> DEFINE n   == Coalesce(name, jobs[j].filename)
           b   == Coalesce(star, jobs[j].favorite)
           row == [jobs[j] EXCEPT !.filename = n, !.favorite = b]
<1>1. jobs[j] \in Row
  BY DEF StoreTypeOK
<1>2. n \in Name /\ b \in BOOLEAN
  BY <1>1, Zenon DEF Row, Coalesce, StoreAssumption
<1>3. jobs' = [jobs EXCEPT ![j] = row]
  BY DEF SetNameAndStar
<1> HIDE DEF n, b
<1>4. row \in Row
  BY <1>1, <1>2, Zenon DEF Row
<1>5. /\ row.status = jobs[j].status /\ row.stems = jobs[j].stems
      /\ row.error = jobs[j].error /\ row.started = jobs[j].started
      /\ row.finished = jobs[j].finished /\ row.progress = jobs[j].progress
  BY <1>1, Zenon DEF Row
<1> HIDE DEF row
<1> QED
  BY <1>3, <1>4, <1>5, OneRow

LEMMA PatchEffect ==
  ASSUME StoreAssumption, StoreTypeOK, NEW j \in Job,
         NEW name \in Name \cup {Null}, NEW star \in Star \cup {Null},
         SetNameAndStar(j, name, star)
  PROVE  /\ StoreTypeOK' /\ OthersStay(j)
         /\ jobs'[j].status = jobs[j].status /\ jobs'[j].stems = jobs[j].stems
         /\ jobs'[j].error = jobs[j].error /\ jobs'[j].started = jobs[j].started
         /\ jobs'[j].finished = jobs[j].finished
         /\ jobs'[j].progress = jobs[j].progress
<1>1. star \in BOOLEAN \cup {Null}
  BY DEF StoreAssumption
<1> QED
  BY <1>1, AnyPatchEffect, Zenon

\* The deleted row existed and was not running.
LEMMA DeleteEffect ==
  ASSUME StoreAssumption, StoreTypeOK, NEW j \in Job, Delete(j)
  PROVE  /\ StoreTypeOK' /\ OthersStay(j)
         /\ Exists(j) /\ ~Is(j, "running") /\ ~Exists(j)'
         /\ ~jobs'[j].error /\ jobs'[j].stems = {}
<1>1. NoRow \in Row
  BY Percentages, Zenon DEF NoRow, Row, Status, StoreAssumption
<1>2. ~NoRow.error /\ NoRow.status = "none" /\ NoRow.stems = {}
  BY DEF NoRow
<1>3. StoreTypeOK' /\ OthersStay(j) /\ jobs'[j] = NoRow
  BY <1>1, OneRow DEF Delete
<1> QED
  BY <1>2, <1>3 DEF Delete, Exists

\* Running rows go back in line as they were before their claim; the others
\* are left alone.
LEMMA RequeueEffect ==
  ASSUME StoreTypeOK, RequeueOrphans
  PROVE  /\ StoreTypeOK'
         /\ \A j \in Job : ~Is(j, "running") => jobs'[j] = jobs[j]
         /\ \A j \in Job : Is(j, "running") =>
              /\ Is(j, "queued")'
              /\ jobs'[j].progress = 0 /\ ~jobs'[j].started
              /\ jobs'[j].finished = jobs[j].finished /\ jobs'[j].stems = jobs[j].stems
              /\ jobs'[j].error = jobs[j].error
              /\ SameByUser(j)
<1> DEFINE back(j) == [jobs[j] EXCEPT !.status = "queued", !.progress = 0,
                                      !.started = FALSE]
<1>1. \A j \in Job : jobs[j] \in Row
  BY DEF StoreTypeOK
<1>2. ASSUME NEW j \in Job PROVE back(j) \in Row
  <2>1. jobs[j] \in Row
    BY <1>1
  <2>2. 0 \in 0..100 /\ "queued" \in Status
    BY Percentages DEF Status
  <2>3. back(j) = [[[jobs[j] EXCEPT !.status = "queued"]
                     EXCEPT !.progress = 0] EXCEPT !.started = FALSE]
    BY <2>1 DEF Row
  <2> QED
    BY <2>1, <2>2 DEF Row
<1>3. ASSUME NEW j \in Job
      PROVE  /\ back(j).status = "queued" /\ back(j).progress = 0
             /\ ~back(j).started /\ back(j).finished = jobs[j].finished
             /\ back(j).stems = jobs[j].stems /\ back(j).error = jobs[j].error
             /\ back(j).filename = jobs[j].filename /\ back(j).favorite = jobs[j].favorite
  <2>1. jobs[j] \in Row
    BY <1>1
  <2> QED
    BY <2>1, Zenon DEF Row
<1>4. jobs' = [j \in Job |-> IF Is(j, "running") THEN back(j) ELSE jobs[j]]
  BY DEF RequeueOrphans
<1> HIDE DEF back
<1>5. StoreTypeOK'
  BY <1>1, <1>2, <1>4 DEF StoreTypeOK
<1> QED
  BY <1>3, <1>4, <1>5 DEF Is, SameByUser
=============================================================================
