--------------------------- MODULE MCCppProcesses ---------------------------
(***************************************************************************)
(* Instances of the storages and the processes of the C++ server for TLC.  *)
(* A behaviour is one of the storages or of a single process; the storages *)
(* are empty and idle in the others, where `goods' is what they hold, and  *)
(* the process that controls a block has not begun.  The processes that    *)
(* move items share their variables: a buffer takes the place of a         *)
(* machine, and so on.  Live chooses between the larger instances for      *)
(* safety and smaller ones for liveness, and Processes those of them to    *)
(* check.                                                                  *)
(***************************************************************************)
EXTENDS CppStorages, CppActuators, TLC

CONSTANTS Processes, Live

VARIABLES
    process,                                            \* the one of this behaviour
    goods, info, machine, listed, job, output, taken,   \* processes that move items
    step, broken                                        \* the same: phase and lost

itemVars == <<goods, info, machine, listed, job, output, taken>>
processVars == <<itemVars, step, broken>>
mcVars == <<process, vars, processVars, controlVars>>

Fn(i) == [kind |-> "fn", accepted |-> {i}]
In(i, size, data) ==
    [item |-> Fn(i), size |-> size, extraBackup |-> 0, allowBackup |-> FALSE, data |-> data]
Out(i, size) == [item |-> Fn(i), size |-> size]
Recipe(i, size, in, data) == [out |-> <<Out(i, size)>>, in |-> in, data |-> data]
Some(i, n) == [item |-> i, size |-> n]
NoStack == Some("NoItem", 0)

\* What is stored and may be stacked, when p and q are made of x, y and z.
Goods == {"x", "y", "z", "f", "p", "q"}
Same == [i \in Goods |-> i]
Stacked == "x" :> 4 @@ [i \in Goods |-> 2]
-----------------------------------------------------------------------------
(***************************************************************************)
(* Storages: a chest, a drawer for b and an ME network, and two slots of   *)
(* the bus.  A recipe may use up b, and one of a is to be kept.            *)
(***************************************************************************)
MCItems == {"a", "b"}
MCMaxSize == "a" :> 2 @@ "b" :> 1
MCBackup == "a" :> 1 @@ "b" :> 0
MCChests == <<"chest">>
MCStoredAtFirst == {Empty, Some("a", 2)}
MCProducts == {Some("a", 2), Some("b", 1)}
NoStorages == Init /\ \A p \in Places : stored[p].size = 0
-----------------------------------------------------------------------------
(***************************************************************************)
(* ProcessSlotted: recipe 1 needs x in slots 1 and 2 and y in slot 3,      *)
(* recipe 2 an x in slot 4.                                                *)
(***************************************************************************)
Slotted == INSTANCE CppSlotted WITH
    stored <- goods, phase <- step, Items <- Goods, NoItem <- "NoItem", Name <- Same, Label <- Same,
    MaxSize <- Stacked,
    Recipes <- <<Recipe("p", 4, <<In("x", 2, <<1, 2>>), In("y", 1, <<3>>)>>, 2),
                 Recipe("q", 3, <<In("x", 1, <<4>>)>>, 2)>>,
    InSlots <- {1, 2, 3, 4}, OutSlot <- 5, OutFilter <- ~Live,
    Stored0 <- "x" :> 12 @@ "y" :> 5 @@ [i \in Goods |-> 0],
    Backup <- "x" :> 1 @@ [i \in Goods |-> 0], CraftSize <- <<1, 2>>,
    MaxTaken <- IF Live THEN 0 ELSE 2, MaxLost <- 1, lost <- broken
(***************************************************************************)
(* ProcessBuffered: recipe 1 makes p of two x and a y, recipe 2 makes q of *)
(* a z, and a fuel f is to be stocked.                                     *)
(***************************************************************************)
Buffered == INSTANCE CppBuffered WITH
    stored <- goods, phase <- step, Items <- Goods, NoItem <- "NoItem", Name <- Same, Label <- Same,
    MaxSize <- "x" :> 3 @@ [i \in Goods |-> 2],
    Recipes <- IF Live
        THEN <<Recipe("p", 2, <<In("x", 2, <<>>), In("y", 1, <<>>)>>, 3),
               Recipe("q", 3, <<In("z", 1, <<>>)>>, 2)>>
        ELSE <<Recipe("p", 3, <<In("x", 2, <<>>), In("y", 1, <<>>)>>, 6),
               Recipe("q", 3, <<In("z", 1, <<>>)>>, 3)>>,
    StockList <- <<[item |-> Fn("f"), toStock |-> 1, allowBackup |-> FALSE, extraBackup |-> 0]>>,
    RecipeMaxInProc <- 5, Slots <- IF Live THEN 4 ELSE 5, SlotFilter <- {1, 2, 3, 4},
    OutItems <- IF Live THEN {} ELSE {"p", "q"},
    Stored0 <- IF Live THEN "x" :> 4 @@ "y" :> 2 @@ "z" :> 2 @@ "f" :> 1 @@ "p" :> 0 @@ "q" :> 0
               ELSE "x" :> 6 @@ "y" :> 3 @@ "z" :> 5 @@ "f" :> 2 @@ "p" :> 0 @@ "q" :> 0,
    Backup <- "z" :> 1 @@ [i \in Goods |-> 0], CraftSize <- <<1, 2>>, MaxUsed <- 1, MaxLost <- 1,
    buffer <- machine, jobs <- job, outputs <- output, used <- taken, lost <- broken
(***************************************************************************)
(* ProcessScatteringWorkingSet: two recipes for three input slots.         *)
(***************************************************************************)
Scattering == INSTANCE CppScattering WITH
    stored <- goods, phase <- step, Items <- Goods, NoItem <- "NoItem", Name <- Same, Label <- Same,
    MaxSize <- Stacked,
    Recipes <- <<Recipe("p", 4, <<In("x", 1, <<>>)>>, 0), Recipe("q", 3, <<In("y", 1, <<>>)>>, 0)>>,
    EachSlotMaxInProc <- 1, InSlots <- <<1, 2, 3>>, OutSlot <- 4,
    Stored0 <- "x" :> 6 @@ "y" :> 3 @@ [i \in Goods |-> 0],
    Backup <- "x" :> 1 @@ [i \in Goods |-> 0], CraftSize <- <<1, 2>>, moves <- job
(***************************************************************************)
(* ProcessInputless: three entries, two for the same item.                 *)
(***************************************************************************)
Inputless == INSTANCE CppInputless WITH
    stored <- goods, phase <- step, Items <- {"x", "y", "z"}, NoItem <- "NoItem", Name <- Same, Label <- Same,
    MaxSize <- [i \in {"x", "y", "z"} |-> 2],
    Entries <- <<[item |-> Fn("y"), needed |-> 2], [item |-> Fn("x"), needed |-> 2],
                 [item |-> [kind |-> "label", label |-> "y"], needed |-> 3]>>,
    Size <- 4, SlotFilter <- {1, 2, 3}, Stored0 <- [i \in {"x", "y", "z"} |-> 0],
    Produces <- <<"x", "y", "y", "z">>, MaxProduced <- IF Live THEN 4 ELSE 6,
    outputs <- output, produced <- taken
(***************************************************************************)
(* ProcessCraftingRobot and ProcessRFToolsControlWorkbench: recipe 2 needs *)
(* a hammer, the tool f.  The lossy robot loses calls.                     *)
(***************************************************************************)
Crafts == <<
    Recipe("p", 2, <<In("x", 2, <<1, 7>>), In("y", 1, <<4>>)>>, [maxSets |-> 3, tools |-> <<>>]),
    Recipe("q", 2, <<In("x", 1, <<9>>)>>,
           [maxSets |-> 1, tools |-> <<[storageSlot |-> 8, craftingGridSlot |-> 7]>>])>>
CraftStacked == "x" :> 4 @@ "p" :> 3 @@ "f" :> 1 @@ [i \in Goods |-> 2]
CraftStored == "x" :> 11 @@ "y" :> 5 @@ [i \in Goods |-> 0]
Hammer(n, place) == [p \in 1 .. n |-> IF p = place THEN Some("f", 1) ELSE NoStack]
Robot == INSTANCE CppCrafting WITH
    stored <- goods, phase <- step, Items <- Goods, NoItem <- "NoItem", Name <- Same, Label <- Same,
    MaxSize <- CraftStacked,
    Kind <- "robot", Devices <- IF Live THEN {"d1"} ELSE {"d1", "d2"}, Recipes <- Crafts,
    Tools0 <- Hammer(16, 8), Stored0 <- CraftStored, Backup <- [i \in Goods |-> 0],
    CraftSize <- <<1, 2>>, Product <- <<"p", "q">>, MaxTaken <- IF Live THEN 1 ELSE 6, MaxLost <- 0,
    held <- machine, selected <- listed, queue <- output, lost <- broken
Workbench == INSTANCE CppCrafting WITH
    stored <- goods, phase <- step, Items <- Goods, NoItem <- "NoItem", Name <- Same, Label <- Same,
    MaxSize <- CraftStacked,
    Kind <- "workbench", Devices <- {"d1", "d2"}, Recipes <- Crafts,
    Tools0 <- Hammer(18, 17), Stored0 <- CraftStored, Backup <- [i \in Goods |-> 0],
    CraftSize <- <<1, 2>>, Product <- <<"p", "q">>, MaxTaken <- 6, MaxLost <- 0,
    held <- machine, selected <- listed, queue <- output, lost <- broken
Lossy == INSTANCE CppCrafting WITH
    stored <- goods, phase <- step, Items <- Goods, NoItem <- "NoItem", Name <- Same, Label <- Same,
    MaxSize <- CraftStacked,
    Kind <- "robot", Devices <- {"d1"}, Recipes <- Crafts,
    Tools0 <- Hammer(16, 8), Stored0 <- CraftStored, Backup <- [i \in Goods |-> 0],
    CraftSize <- <<1, 2>>, Product <- <<"p", "q">>, MaxTaken <- 1, MaxLost <- 1,
    held <- machine, selected <- listed, queue <- output, lost <- broken
(***************************************************************************)
(* The seven kinds of controlling process.                                 *)
(***************************************************************************)
MCKinds == {"hysteresis", "proportional", "pid", "mixer", "emitter", "flux", "conditional"}
MCValues == [k \in MCKinds |->
    CASE k \in {"hysteresis", "proportional", "pid"} -> {20, 50, 60, 80} \X {0, 2}
      [] k = "mixer" -> {0, 2} \X {0, 1} \X {1, 2}
      [] OTHER -> {<<0>>, <<1>>, <<2>>}]
MCValueFn == << {0}, {0, 1} >>

ASSUME Slotted!RecipesAssumption /\ Slotted!ItemsAssumption /\ Slotted!RecipesApart
ASSUME Buffered!RecipesAssumption
ASSUME Buffered!ItemsAssumption /\ Scattering!RecipesAssumption /\ Scattering!ItemsAssumption
ASSUME Inputless!ItemsAssumption /\ Robot!RecipesAssumption /\ Robot!ItemsAssumption
ASSUME Inputless!InputlessAssumption
-----------------------------------------------------------------------------
\* A process that a behaviour is not about has not begun, or its variables have no
\* value.
NoControl == ControlInit /\ kind = "emitter" /\ value = <<0>>
NoItems ==
    /\ goods = "" /\ info = "" /\ machine = "" /\ listed = ""
    /\ job = "" /\ output = "" /\ taken = ""

MCInit ==
    /\ process \in Processes
    /\ \/ /\ process = "storages" /\ Init
          /\ \A p \in Places \ ChestPlaces : stored[p].size = IF p \in DrawerPlaces THEN 1 ELSE 0
          /\ NoItems /\ step = "" /\ broken = "" /\ NoControl
       \/ /\ NoStorages
          /\ \/ process = "slotted" /\ Slotted!Init /\ NoControl
             \/ process = "buffered" /\ Buffered!Init /\ NoControl
             \/ process = "scattering" /\ Scattering!Init /\ taken = "" /\ broken = "" /\ NoControl
             \/ process = "inputless" /\ Inputless!Init /\ job = "" /\ broken = "" /\ NoControl
             \/ process = "robot" /\ Robot!Init /\ NoControl
             \/ process = "workbench" /\ Workbench!Init /\ NoControl
             \/ process = "lossy" /\ Lossy!Init /\ NoControl
             \/ process = "control" /\ ControlInit /\ NoItems /\ step = "" /\ broken = ""

MCNext ==
    \/ process = "storages" /\ Next /\ UNCHANGED <<process, processVars, controlVars>>
    \/ process = "slotted" /\ Slotted!Next /\ UNCHANGED <<process, vars, controlVars>>
    \/ process = "buffered" /\ Buffered!Next /\ UNCHANGED <<process, vars, controlVars>>
    \/ process = "scattering" /\ Scattering!Next /\ UNCHANGED <<process, vars, taken, broken, controlVars>>
    \/ process = "inputless" /\ Inputless!Next /\ UNCHANGED <<process, vars, job, broken, controlVars>>
    \/ process = "robot" /\ Robot!Next /\ UNCHANGED <<process, vars, controlVars>>
    \/ process = "workbench" /\ Workbench!Next /\ UNCHANGED <<process, vars, controlVars>>
    \/ process = "lossy" /\ Lossy!Next /\ UNCHANGED <<process, vars, controlVars>>
    \/ process = "control" /\ ControlNext /\ UNCHANGED <<process, vars, processVars>>

MCSpec == MCInit /\ [][MCNext]_mcVars
-----------------------------------------------------------------------------
(***************************************************************************)
(* Fairness, as the modules state it.  Transfers do not fail for ever:     *)
(* what waits for one of these steps again and again takes it.  A group of *)
(* transfers waits for each of them anew.                                  *)
(***************************************************************************)
Waits(n) ==
    \/ process = "slotted" /\ n = 1 /\ job # Slotted!NoJob
    \/ process = "buffered" /\ n = 1 /\ job # {}
    \/ process = "inputless" /\ \E o \in output : o.slot = n
    \/ process = "robot" /\ n < 3 /\ job[n].state = "extracting"
    \/ process = "control" /\ n = 1 /\ phase = "asked"
    \/ process = "control" /\ n - 1 \in Outputs /\ sending[n - 1] = "sent"
Served(n) ==
    \/ process = "slotted" /\ n = 1 /\ Slotted!Load
    \/ process = "buffered" /\ n = 1 /\ \E j \in job : Buffered!Load(j)
    \/ process = "inputless" /\ \E o \in output : o.slot = n /\ Inputless!ProcessOutput(o)
    \/ process = "robot" /\ n < 3 /\ job'[n].state = "crafting"
    \/ process = "control" /\ n = 1 /\ Sense
    \/ process = "control" /\ n - 1 \in Outputs /\ SetOutput(n - 1)

SlottedFairness ==
    /\ WF_(Slotted!vars)(process = "slotted" /\ Slotted!Cycle)
    /\ WF_(Slotted!vars)(process = "slotted" /\ Slotted!List)
    /\ WF_(Slotted!vars)(process = "slotted" /\ Slotted!ProcessOutput)
    /\ WF_(Slotted!vars)(process = "slotted" /\ Slotted!EndOfCycle)
    /\ WF_(Slotted!vars)(process = "slotted" /\ Slotted!Eject)
    /\ \A r \in {1, 2} : WF_(Slotted!vars)(process = "slotted" /\ Slotted!Craft(r))
BufferedFairness ==
    /\ WF_(Buffered!vars)(process = "buffered" /\ Buffered!Cycle)
    /\ WF_(Buffered!vars)(process = "buffered" /\ Buffered!List)
    /\ WF_(Buffered!vars)(process = "buffered" /\ Buffered!EndOfCycle)
    /\ WF_(Buffered!vars)(process = "buffered" /\ \E slot \in output : Buffered!ProcessOutput(slot))
    /\ \A r \in {1, 2} : WF_(Buffered!vars)(process = "buffered" /\ Buffered!Craft(r))
InputlessFairness ==
    []<>(process = "inputless" => step = "idle") /\ []<>(process = "inputless" => step = "working")
RobotFairness ==
    /\ []<>(process \in {"robot", "lossy"} => step = "working")
    /\ []<>(process \in {"robot", "lossy"} => output["d1"] = <<>>)
    /\ WF_(Robot!vars)(process = "robot" /\ Robot!EndOfCycle)
    /\ WF_(Lossy!vars)(process = "lossy" /\ Lossy!EndOfCycle)
    /\ \A r \in {1, 2} :
         /\ []<>(process \in {"robot", "lossy"} => job[r].state # "extracting")
         /\ WF_(Robot!vars)(process = "robot" /\ Robot!Finish(r))
         /\ WF_(Lossy!vars)(process = "lossy" /\ Lossy!Finish(r))
ControlFairness ==
    /\ WF_controlVars(process = "control" /\ Cycle)
    /\ WF_controlVars(process = "control" /\ \E ts \in {1, 2} : Decide(ts))
    /\ WF_controlVars(process = "control" /\ CycleEnds)
    /\ WF_controlVars(process = "control" /\ Mix)
    /\ \A o \in {1, 2} :
         WF_controlVars(process = "control" /\ o \in Outputs /\ Answered(o))

MCFairSpec ==
    /\ MCSpec
    /\ \A n \in 1 .. 3 : []<>Waits(n) => []<><<Served(n)>>_mcVars
    /\ []<>(process \in {"slotted", "buffered"} => step # "listed")
    /\ SlottedFairness /\ BufferedFairness /\ InputlessFairness /\ RobotFairness /\ ControlFairness
-----------------------------------------------------------------------------
\* What is sent finds room where it goes, although machines have been working
\* since they were listed, and leaves nothing in slots of the bus that are given
\* back as empty (InputsFit of CppSlotted, TransfersFit, InsertionCoalesces of
\* CppBuffered, TransfersFit, OneBusSlot of CppScattering, HandsBackEmpty of
\* CppCrafting).
TransfersFit ==
    CASE process = "slotted" -> Slotted!TypeOK /\ Slotted!InputsFit
      [] process = "buffered" -> Buffered!TypeOK /\ Buffered!TransfersFit /\ Buffered!InsertionCoalesces
      [] process = "scattering" -> Scattering!TypeOK /\ Scattering!TransfersFit /\ Scattering!OneBusSlot
      [] process = "robot" -> Robot!TypeOK /\ Robot!HandsBackEmpty
      [] process = "workbench" -> Workbench!TypeOK /\ Workbench!HandsBackEmpty
      [] OTHER -> TRUE

\* Machines hold inputs of one recipe, whatever fails, and complete sets of them
\* until a group of transfers is cut short; every craft is the one that was planned,
\* on a device that the job before left clean (OneRecipe, CompleteSets of CppSlotted,
\* CompleteSets of CppBuffered, CraftsPlanned, CleanAtRest of CppCrafting).
CompleteSets ==
    CASE process = "slotted" -> Slotted!CompleteSets /\ Slotted!OneRecipe
      [] process = "buffered" -> Buffered!CompleteSets
      [] process = "robot" -> Robot!CraftsPlanned /\ Robot!CleanAtRest
      [] process = "workbench" -> Workbench!CraftsPlanned /\ Workbench!CleanAtRest
      [] OTHER -> TRUE

\* The limits of the buffer, of recipes and of stocked items hold at any time, and
\* no more is taken than is needed (BufferRegulated, RecipesRegulated,
\* StockRegulated of CppBuffered, NeverTooMuch of CppInputless).
Regulated ==
    CASE process = "buffered" ->
           Buffered!BufferRegulated /\ Buffered!RecipesRegulated /\ Buffered!StockRegulated
      [] process = "inputless" -> Inputless!TypeOK /\ Inputless!NeverTooMuch
      [] OTHER -> TRUE

\* A job gets all that it reserved, a cycle leaves the backup, spreads items over the
\* slots, switches a reactor only across its whole band, and sends nothing that is set
\* already (LoadsAll of CppStorages, LeavesBackup of CppSlotted and CppScattering,
\* SpreadsOut of CppScattering, CrossesBand, SendsNews of CppActuators).
StepsAsPromised ==
    [][CASE process = "storages" -> LoadsAll
         [] process = "slotted" -> Slotted!LeavesBackup
         [] process = "scattering" -> Scattering!SpreadsOut /\ Scattering!LeavesBackup
         [] process = "control" -> CrossesBand /\ SendsNews
         [] OTHER -> TRUE]_mcVars

\* In the end what is wanted is there or cannot be made, unless a group of transfers
\* that was cut short left part of a set in the way; what is needed and made is
\* taken, and outputs are what their inputs ask for (Kept of CppSlotted, CppBuffered
\* and CppCrafting, Taken of CppInputless, Follows of CppActuators).
StockIsKept ==
    /\ <>[](CASE process = "slotted" -> Slotted!Kept
              [] process = "buffered" -> Buffered!Kept
              [] process = "robot" -> Robot!Kept
              [] process = "control" -> Follows
              [] OTHER -> TRUE)
    /\ \A slot \in 1 .. 3 : []<>(process = "inputless" => Inputless!Taken(slot))

\* Every cycle ends, although connections are lost in the middle of a group of
\* calls (CyclesEnd of CppCrafting).
CyclesEnd == []<>(process = "lossy" => step = "idle")
=============================================================================
