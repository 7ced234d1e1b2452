----------------------------- MODULE MCProgress ------------------------------
(***************************************************************************)
(* An instance of the progress pump for TLC.                               *)
(***************************************************************************)
EXTENDS ProgressProperties
===============================================================================
