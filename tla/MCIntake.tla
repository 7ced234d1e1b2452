------------------------------ MODULE MCIntake -------------------------------
(***************************************************************************)
(* An instance of the intake for TLC.                                      *)
(***************************************************************************)
EXTENDS IntakeProperties

CONSTANTS
  Letter,    \* the symbols of names of up to two
  Plain      \* the symbols of names of up to three

\* Short names of every kind, and the names the code itself uses.
Names == BoundedSeq(Letter, 2) \cup BoundedSeq(Plain, 3)
           \cup {<<"object", "dot", "bin">>, <<"upload", "dot", "mp3">>,
                 <<"dot", "space", "object", "dot", "bin">>,
                 <<"thai", "slash", "thai", "dot", "mp3">>,
                 <<"song", "dot", "mp3", "dot">>}
===============================================================================
