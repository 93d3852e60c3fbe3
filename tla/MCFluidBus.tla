----------------------------- MODULE MCFluidBus -----------------------------
(* A small instance of FluidBus for TLC. *)
EXTENDS FluidBus, TLC
CONSTANTS b1, b2, b3, recipe1, recipe2, output1

MCBuses == {b1, b2, b3}
MCJobs == {recipe1, recipe2, output1}
MCNeed == recipe1 :> 2 @@ recipe2 :> 2 @@ output1 :> 1
MCKind == recipe1 :> "recipe" @@ recipe2 :> "recipe" @@ output1 :> "extract"
Symmetry == Permutations(MCBuses)
=============================================================================
