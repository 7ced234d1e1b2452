------------------------------ MODULE MCDownload -----------------------------
(***************************************************************************)
(* The instance of the service with a client that downloads, for TLC.      *)
(***************************************************************************)
EXTENDS Download
===============================================================================
