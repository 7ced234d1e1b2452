------------------------------ MODULE Timestamps ------------------------------
(***************************************************************************)
(* The text of the timestamps the store writes and orders by.  now()       *)
(* formats the current instant as RFC 3339 and `ORDER BY created_at`       *)
(* compares those texts byte by byte.  The formatter drops the trailing    *)
(* zeros of the fraction (and the point when nothing is left of it), so    *)
(* the order of the texts is not always the order of the instants.         *)
(*                                                                         *)
(* An instant is a number of ticks; Base^Width ticks make a second         *)
(* (10^9 in the program).  A text is a sequence of numbers that compare as *)
(* the bytes do: '.' before every digit, every digit before 'Z'.           *)
(***************************************************************************)
EXTENDS Integers, Sequences, SequencesExt

CONSTANTS Base, Width

ASSUME TimestampsAssumption == Base \in Nat \ {0, 1} /\ Width \in Nat \ {0}

Dot  == -1
Zulu == Base

TicksPerSecond == Base^Width

\* Follows from the assumption above; the provers know nothing of powers.
ASSUME TicksAssumption == TicksPerSecond \in Nat \ {0}

Digits(fraction) ==
  [i \in 1..Width |-> (fraction \div Base^(Width - i)) % Base]

\* The digits up to the last one that is not zero.
Trimmed(fraction) ==
  SubSeq(Digits(fraction), 1, Max({i \in 1..Width : Digits(fraction)[i] # 0}))

FractionText(fraction) ==
  IF fraction = 0 THEN <<>> ELSE <<Dot>> \o Trimmed(fraction)

\* Everything before the fraction has a fixed width, so its order is that of
\* the whole seconds: one element stands for it.
Rfc3339(instant) ==
  <<instant \div TicksPerSecond>>
    \o FractionText(instant % TicksPerSecond) \o <<Zulu>>

\* SQLite's BINARY collation: memcmp, the shorter text first on a tie.
TextBefore(s, t) ==
  \/ IsStrictPrefix(s, t)
  \/ \E i \in DOMAIN s \cap DOMAIN t :
       s[i] < t[i] /\ \A k \in 1..(i - 1) : s[k] = t[k]
===============================================================================
