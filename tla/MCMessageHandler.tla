-------------------------- MODULE MCMessageHandler --------------------------
(***************************************************************************)
(* Two invocations at once; the adapter's operations and every callback of *)
(* the service may fail.                                                   *)
(***************************************************************************)
EXTENDS MessageHandler, TLC

Symmetry == Permutations(Slots)
=============================================================================
