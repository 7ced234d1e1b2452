---------------------------- MODULE JobLifecycle ----------------------------
(***************************************************************************)
(* What the service promises of a job, seen from outside: an accepted job  *)
(* is separated by one worker at a time and ends with a verdict that       *)
(* never changes; the stems of a finished job can be fetched, all of them, *)
(* until it is deleted; a job is never deleted while it runs, and an       *)
(* attempt that is lost is repeated from the start.                        *)
(***************************************************************************)
CONSTANTS Job, Stem, Null

VARIABLES
  phase,      \* where each job is in its life
  active,     \* the job being separated
  published   \* the stems that can be fetched

lifecycleVars == <<phase, active, published>>

Phase == {"new", "queued", "running", "done", "failed", "deleted"}

LifecycleInit ==
  /\ phase = [j \in Job |-> "new"]
  /\ active = Null
  /\ published = [j \in Job |-> {}]

Move(j, from, to) == phase[j] = from /\ phase' = [phase EXCEPT ![j] = to]

Submit(j) ==
  /\ Move(j, "new", "queued")
  /\ UNCHANGED <<active, published>>

Start(j) ==
  /\ active = Null /\ active' = j
  /\ Move(j, "queued", "running")
  /\ UNCHANGED published

\* A verdict: every stem at once, or none.
Finish(j) ==
  /\ active = j /\ active' = Null
  /\ \/ /\ Move(j, "running", "done")
        /\ published' = [published EXCEPT ![j] = Stem]
     \/ /\ Move(j, "running", "failed")
        /\ UNCHANGED published

\* The attempt ends and its verdict is lost.
Abandon ==
  /\ active # Null /\ active' = Null
  /\ UNCHANGED <<phase, published>>

\* After a restart every job without a verdict is back in line.
Recover ==
  /\ active = Null /\ UNCHANGED active
  /\ phase' = [j \in Job |-> IF phase[j] = "running" THEN "queued" ELSE phase[j]]
  /\ UNCHANGED published

Remove(j) ==
  /\ phase[j] \in {"queued", "done", "failed"}
  /\ phase' = [phase EXCEPT ![j] = "deleted"]
  /\ published' = [published EXCEPT ![j] = {}]
  /\ UNCHANGED active

LifecycleNext ==
  \/ \E j \in Job : Submit(j) \/ Start(j) \/ Finish(j) \/ Remove(j)
  \/ Abandon \/ Recover

LifecycleSpec == LifecycleInit /\ [][LifecycleNext]_lifecycleVars
=============================================================================
