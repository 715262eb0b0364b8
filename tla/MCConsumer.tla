----------------------------- MODULE MCConsumer -----------------------------
(***************************************************************************)
(* Small instances of Consumer.  Messages and loops are interchangeable.   *)
(***************************************************************************)
EXTENDS Consumer, TLC

Symmetry == Permutations(Messages) \cup Permutations(Loops)
=============================================================================
