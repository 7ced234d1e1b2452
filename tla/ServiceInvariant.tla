-------------------------- MODULE ServiceInvariant --------------------------
(***************************************************************************)
(* The inductive invariant behind the safety properties of the service:    *)
(* what each property owes to the state of the other actors.               *)
(***************************************************************************)
EXTENDS ServiceProperties

\* The create_job of j has inserted its row.
Inserted(j) == upload[j] \in {"notify", "accepted", "unnotified"}

\* A row needs its insert, a removal the row it took; so an id is inserted
\* once, and never while its objects are being swept.
RequestsInOrder ==
  \A j \in Job :
    /\ Exists(j) => Inserted(j) /\ removal[j] = "idle"
    /\ removal[j] # "idle" => Inserted(j)
    /\ upload[j] = "insert" => objects[j][Input] = "whole"

WorkerHolds ==
  IF wpc \in Processing \cup {"clean"} THEN wjob \in Job ELSE wjob = Null

\* The child lives only while the worker waits for it, and its exit status
\* only until the worker has looked at it.
ChildInPlace ==
  /\ demucs # "none" <=> wpc \in {"wait", "drain"}
  /\ demucs = "running" => wpc = "wait"

\* A pump outlives its attempt only when that attempt failed: no row that is
\* queued or done can still be written to by one.
PumpsHarmless ==
  /\ wpc = "down" => pumps = {}
  /\ \A j \in pumps :
       /\ Inserted(j)
       /\ ~Is(j, "queued") /\ ~Is(j, "done")
       /\ wjob = j => wpc \in {"wait", "drain", "failing", "clean"}

\* What the child still has to write is all that can be missing or cut short.
ScratchWhole(j, stems) == \A s \in stems : scratch[j][s] = "whole"

ScratchInPlace ==
  /\ \A j \in Silent : \A s \in Stem : scratch[j][s] = "none"
  /\ demucs \in {"running", "ok"} =>
       IF wjob \in Silent THEN unwritten = {}
                          ELSE ScratchWhole(wjob, Stem \ unwritten)
  /\ demucs = "ok" => unwritten = {}
  /\ wpc \in {"collect", "upload"} /\ wjob \notin Silent => ScratchWhole(wjob, Stem)
  /\ wpc = "upload" => wjob \notin Silent
  /\ wpc = "upload" => \A s \in uploaded : objects[wjob][s] = "whole"

\* Together with the properties it is there for, the invariant is inductive.
IInv ==
  /\ TypeOK
  /\ RequestsInOrder /\ RowHasInput
  /\ WorkerHolds /\ WorkerOwnsRunning
  /\ ChildInPlace /\ PumpsHarmless /\ RowsConsistent
  /\ ScratchInPlace /\ DoneIsComplete
=============================================================================
