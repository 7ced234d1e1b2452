------------------------------ MODULE MCService ------------------------------
(***************************************************************************)
(* The instances of the service with one and with two jobs, for TLC.       *)
(***************************************************************************)
EXTENDS ServiceInvariant
===============================================================================
