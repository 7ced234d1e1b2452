-------------------------- MODULE ProgressProperties --------------------------
(***************************************************************************)
(* What must hold of the progress and the message made of stderr.          *)
(***************************************************************************)
EXTENDS Progress

\* The reports are the changes of the percentages the whole output shows,
\* line by line: however the pipe cuts it, within a number, a character or a
\* line, each is reported once, whole and in order (pump_progress).
Shown ==
  LET lines == Complete(output)
  IN  FlattenSeq([k \in DOMAIN lines |-> SetToSeq(Captures(lines[k]) \cap (0..100))])

Changes(s) ==
  FlattenSeq([i \in DOMAIN s |-> IF i > 1 /\ s[i] = s[i - 1] THEN <<>> ELSE <<s[i]>>])

ReportsIgnoreThePieces == reports = Changes(Shown)

\* The slice of mark_failed never falls within a character, so a failed
\* attempt cannot take the worker with it (db.rs:226 against worker.rs:252).
NeverPanics == at # "panicked"

\* "The useful part is always at the bottom" (db.rs:223): the message ends
\* with the last of the output, as much as fits, though the text was cut on
\* the way (pump_progress, tail and mark_failed).
MessageHasTheBottom ==
  at = "failed" =>
    LET bottom == TailOf(heard, TailKeep)
    IN  /\ IsSuffix(bottom, message)
        /\ Len(message) = Preamble + Len(bottom)
        /\ Bytes(message) <= ErrorMax

ProgressTypeOK ==
  /\ at \in {"pump", "exit", "done", "failed", "panicked"}
  /\ output \in Seq(Byte)
  /\ lastReported \in -1..100
  /\ Bytes(full) <= FullMax /\ IsSuffix(full, heard)
  /\ EndOfLine \notin Range(pending) /\ IsSuffix(pending, heard)
===============================================================================
