----------------------------- MODULE MCItemBus -----------------------------
(* Instances of ItemBus for TLC. *)
EXTENDS ItemBus, TLC

CONSTANTS j1, j2, j3, s1, s2, s3

\* A recipe of two inputs, a crafting grid of two, and an extraction.
NeedThree == j1 :> 2 @@ j2 :> 2 @@ j3 :> 1
KindThree == j1 :> "insert" @@ j2 :> "craft" @@ j3 :> "extract"

NeedTwo == j1 :> 2 @@ j2 :> 1
KindTwo == j1 :> "insert" @@ j2 :> "extract"
KindCraft == j1 :> "craft" @@ j2 :> "insert"

SlotSymmetry == Permutations(Slots)
=============================================================================
