------------------------------ MODULE Progress -------------------------------
(***************************************************************************)
(* What the worker makes of demucs' stderr: pump_progress, which reads it  *)
(* in pieces of any size, reports the percentages of the progress bar and  *)
(* keeps the text; then the message of a failure, cut once by tail and     *)
(* once by mark_failed.                                                    *)
(*                                                                         *)
(* The output is a sequence of bytes; "lead" and "cont" are the two halves *)
(* of a character outside ASCII, like the blocks of the bar.  Text is a    *)
(* sequence of characters, each so many bytes wide.                        *)
(***************************************************************************)
EXTENDS Integers, Sequences, SequencesExt, FiniteSetsExt

CONSTANTS
  Digit,       \* the digits demucs prints
  MaxOutput,   \* bound on the length of the output
  FullMax,     \* 200 000: when the text kept is cut ...
  FullKeep,    \* ... to its last 100 000 bytes
  TailKeep,    \* 1500, what the message has of the text
  Preamble,    \* bytes of "demucs exited with ...: "
  ErrorMax     \* 4000, what mark_failed keeps of the message

ASSUME ProgressAssumption ==
  /\ Digit \subseteq 0..9
  /\ MaxOutput \in Nat
  /\ TailKeep \in Nat /\ Preamble \in Nat /\ ErrorMax \in Nat
  /\ FullMax \in Nat /\ FullKeep \in Nat /\ FullKeep <= FullMax
  /\ TailKeep <= FullKeep
  /\ Preamble + TailKeep <= ErrorMax

Numeral == [d \in Digit |-> <<"digit", d>>]
EndOfLine == <<"end", 0>>     \* \r or \n
Percent   == <<"percent", 0>>
Lead      == <<"lead", 0>>
Cont      == <<"cont", 0>>
Wide      == <<"wide", 0>>    \* a character outside ASCII
Bad       == <<"bad", 0>>     \* the replacement character
Byte == {Numeral[d] : d \in Digit} \cup {EndOfLine, Percent, Lead, Cont}

VARIABLES
  at,          \* "pump", "exit", then how the attempt ends
  output,      \* what demucs has printed, all of it read
  heard,       \* the same as text, piece by piece
  full,        \* what is kept of that text
  pending,     \* the last, unfinished line
  lastReported,
  reports,     \* the calls of set_progress
  message      \* what mark_failed stores

vars == <<at, output, heard, full, pending, lastReported, reports, message>>

-------------------------------------------------------------------------------
(* Text.                                                                   *)

Width(c) == IF c = Wide THEN 2 ELSE IF c = Bad THEN 3 ELSE 1

\* Where each character of s ends, in bytes; the next one begins there.
Offsets(s) ==
  LET end[i \in 0..Len(s)] == IF i = 0 THEN 0 ELSE end[i - 1] + Width(s[i])
  IN  end

Bytes(s) == Offsets(s)[Len(s)]

\* from_utf8_lossy, of one piece: halves that are not together in it are bad.
Lossy(piece) ==
  LET Whole(i)  == piece[i] = Lead /\ i < Len(piece) /\ piece[i + 1] = Cont
      Second(i) == piece[i] = Cont /\ i > 1 /\ piece[i - 1] = Lead
      Char(i)   == IF Whole(i) THEN <<Wide>>
                   ELSE IF Second(i) THEN <<>>
                   ELSE IF piece[i] \in {Lead, Cont} THEN <<Bad>> ELSE <<piece[i]>>
  IN  FlattenSeq([i \in DOMAIN piece |-> Char(i)])

\* The offsets at which a character of s begins, and the one where s ends.
Boundaries(s) == Range(Offsets(s))

FromByte(s, offset) ==
  LET end == Offsets(s)
  IN  SubSeq(s, 1 + Min({i \in DOMAIN end : end[i] >= offset}), Len(s))

\* Mutated form of TailOf: the text as it is.
TailOfAll(s, n) == s

\* The first boundary at or after the offset; s[start..].
TailOf(s, n) == IF Bytes(s) <= n THEN s ELSE FromByte(s, Bytes(s) - n)

\* Mutated form of Kept: the beginning is kept.
KeptBeginning(text) ==
  IF Bytes(text) > FullMax
    THEN SubSeq(text, 1, Max({i \in 0..Len(text) : Offsets(text)[i] <= FullKeep}))
    ELSE text

\* What pump_progress keeps of runaway output.
Kept(text) == IF Bytes(text) > FullMax THEN TailOf(text, FullKeep) ELSE text

\* The slice of mark_failed is at a byte, wherever that falls.
SlicePanics(s) == Bytes(s) > ErrorMax /\ Bytes(s) - ErrorMax \notin Boundaries(s)
Trimmed(s)     == IF Bytes(s) > ErrorMax THEN FromByte(s, Bytes(s) - ErrorMax) ELSE s

-------------------------------------------------------------------------------
(* Percentages.                                                            *)

IsDigit(c) == c[1] = "digit"

\* (\d{1,3})% : one to three digits before a percent sign.
Matches(seg) ==
  {m \in (DOMAIN seg) \X (DOMAIN seg) :
     /\ seg[m[2]] = Percent
     /\ m[2] - m[1] \in 1..3
     /\ \A i \in m[1]..(m[2] - 1) : IsDigit(seg[i])}

Number(digits) == FoldLeft(LAMBDA n, c : 10 * n + c[2], 0, digits)

Leftmost(seg) == {m \in Matches(seg) : \A o \in Matches(seg) : m[1] <= o[1]}

\* The leftmost match, if there is one, as a number.
Captures(seg) == {Number(SubSeq(seg, m[1], m[2] - 1)) : m \in Leftmost(seg)}

\* The lines that have ended, and what comes after the last of them, with one
\* character more.
Cut(before, c) ==
  IF c = EndOfLine THEN [lines |-> Append(before.lines, before.rest), rest |-> <<>>]
                   ELSE [lines |-> before.lines, rest |-> Append(before.rest, c)]

Split(s) ==
  LET cut[i \in 0..Len(s)] ==
        IF i = 0 THEN [lines |-> <<>>, rest |-> <<>>] ELSE Cut(cut[i - 1], s[i])
  IN  cut[Len(s)]

Complete(s) == Split(s).lines

\* Mutated forms of Remainder: each piece is taken for itself, and the end of
\* the line is kept.
NoRemainder(s) == <<>>

RemainderWithEnd(s) == IF Complete(s) = <<>> THEN s ELSE <<EndOfLine>> \o Split(s).rest

Remainder(s) == Split(s).rest

\* One line: its percentage is reported if it is one and is not the last one.
Scan(state, seg) ==
  LET new == {p \in Captures(seg) : p # state.last /\ p \in 0..100}
  IN  [last    |-> IF new = {} THEN state.last ELSE CHOOSE p \in new : TRUE,
       reports |-> state.reports \o SetToSeq(new)]

ScanAll(state, lines) ==
  LET after[k \in 0..Len(lines)] ==
        IF k = 0 THEN state ELSE Scan(after[k - 1], lines[k])
  IN  after[Len(lines)]

-------------------------------------------------------------------------------

Init ==
  /\ at = "pump"
  /\ output = <<>> /\ heard = <<>> /\ full = <<>> /\ pending = <<>>
  /\ lastReported = -1 /\ reports = <<>>
  /\ message = <<>>

Read(piece) ==
  /\ at = "pump" /\ piece # <<>> /\ Len(output) + Len(piece) <= MaxOutput
  /\ output' = output \o piece
  /\ LET chunk == Lossy(piece)
         lines == pending \o chunk
         after == ScanAll([last |-> lastReported, reports |-> reports], Complete(lines))
     IN  /\ heard' = heard \o chunk
         /\ full' = Kept(full \o chunk)
         /\ pending' = Remainder(lines)
         /\ lastReported' = after.last /\ reports' = after.reports
  /\ UNCHANGED <<at, message>>

\* End of file, or an error of the pipe, which counts as one.
PumpEnds ==
  /\ at = "pump"
  /\ at' = "exit"
  /\ UNCHANGED <<output, heard, full, pending, lastReported, reports, message>>

ExitedWell ==
  /\ at = "exit"
  /\ at' = "done"
  /\ UNCHANGED <<output, heard, full, pending, lastReported, reports, message>>

\* A panic ends the worker's task, the only one there is.
ExitedBadly ==
  /\ at = "exit"
  /\ LET text == [i \in 1..Preamble |-> EndOfLine] \o TailOf(full, TailKeep)
     IN  IF SlicePanics(text)
           THEN at' = "panicked" /\ UNCHANGED message
           ELSE at' = "failed" /\ message' = Trimmed(text)
  /\ UNCHANGED <<output, heard, full, pending, lastReported, reports>>

Next ==
  \/ \E piece \in BoundedSeq(Byte, MaxOutput - Len(output)) : Read(piece)
  \/ PumpEnds \/ ExitedWell \/ ExitedBadly

Spec == Init /\ [][Next]_vars
===============================================================================
