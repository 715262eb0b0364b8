----------------------------- MODULE MCPipeline -----------------------------
(***************************************************************************)
(* One good and one poison message, and two loops that may run at once.    *)
(***************************************************************************)
EXTENDS Pipeline, TLC

CONSTANTS good, bad

OneOfEach == {good, bad}
OnlyBad == {bad}
Symmetry == Permutations(Loops)
=============================================================================
