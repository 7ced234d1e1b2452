------------------------------- MODULE MCAudio -------------------------------
(***************************************************************************)
(* Instances of the audio format for TLC.                                  *)
(***************************************************************************)
EXTENDS AudioProperties

CONSTANT MaxLength    \* of a file

\* Every byte of a file is another, so that no two pieces of it can be taken
\* for each other.
Files == {[i \in 1..n |-> i] : n \in 0..MaxLength}
===============================================================================
