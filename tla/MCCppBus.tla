------------------------------ MODULE MCCppBus ------------------------------
(***************************************************************************)
(* An instance of CppBus for TLC: three slots, and these bases.            *)
(*   Recipes   two recipes of two inputs and an extraction, with a failure *)
(*   Grid      a recipe, a crafting grid and an extraction, no failure     *)
(*   Grids     two crafting grids, no failure                              *)
(*   Failing   as Grid, with a failure                                     *)
(***************************************************************************)
EXTENDS CppBus, TLC

MCNeed == "r1" :> 2 @@ "r2" :> 2 @@ "x" :> 1 @@ "g1" :> 2 @@ "g2" :> 3
MCKind == "r1" :> "insert" @@ "r2" :> "insert" @@ "x" :> "extract" @@ "g1" :> "craft" @@ "g2" :> "craft"
MCJobs == DOMAIN MCNeed

Recipes == [processes |-> {"r1", "r2", "x"}, faults |-> 1]
Grid == [processes |-> {"r1", "g1", "x"}, faults |-> 0]
Grids == [processes |-> {"g1", "g2"}, faults |-> 0]
Failing == [processes |-> {"r1", "g1", "x"}, faults |-> 1]

MCBases == {Recipes, Grid, Grids}
MCFailing == {Failing}

\* Without failures every cycle of crafting grids ends, so that all waiters get
\* their slots, and what an earlier run left in the bus is stored away (CyclesEnd
\* and BusCleaned of CppBus).
GridsGoOn ==
    /\ []<>(base = Grids => bus.cycle = "delay")
    /\ \A s \in Slots : (base = Grids /\ s \in dirty) ~> s \notin dirty
=============================================================================
