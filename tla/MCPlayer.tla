------------------------------- MODULE MCPlayer ------------------------------
(***************************************************************************)
(* Instances of the player and of the audio key for TLC.                   *)
(***************************************************************************)
EXTENDS ConsoleAudio
===============================================================================
