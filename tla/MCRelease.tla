----------------------------- MODULE MCRelease -----------------------------
(***************************************************************************)
(* A few pushes, each of any kind, against every interleaving of the jobs. *)
(***************************************************************************)
EXTENDS Release
=============================================================================
