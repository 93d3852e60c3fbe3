----------------------------- MODULE CppSlotted -----------------------------
(***************************************************************************)
(* ProcessSlotted of the C++ server and its machine: the process lists the *)
(* machine, plans with the answer, reserves inputs in the storages, and    *)
(* later sends a group of transfers, one for each slot, while the machine  *)
(* goes on working.  A computer executes them one by one and may be lost   *)
(* between any two.  Recipes are those of CppItems: data is                *)
(* eachSlotMaxInProc, the data of an ingredient the sequence of the slots  *)
(* it goes to.                                                             *)
(* How items get to the bus and back is module CppBus: here what was       *)
(* reserved is in the bus until it is in the machine or back in storage.   *)
(***************************************************************************)
EXTENDS CppItems

CONSTANTS
    Recipes,
    InSlots, OutSlot,   \* the slots of the machine
    OutFilter,          \* whether there is an outFilter: it accepts OutSlot
    Stored0,            \* what the storages hold at first
    Backup,             \* Backup[i]: what of item i is set aside
    CraftSize,          \* CraftSize[r]: how much a set makes of the first output
    MaxTaken,           \* bound: how often a player takes a stack from the machine
    MaxLost             \* bound: how many groups of transfers are cut short

\* What an instance has to satisfy.
RecipesAssumption ==
    /\ AreRecipes(Recipes) /\ OutSlot \notin InSlots /\ IsFiniteSet(InSlots) /\ OutFilter \in BOOLEAN
    /\ Stored0 \in [Items -> Nat] /\ Backup \in [Items -> Nat] /\ MaxTaken \in Nat /\ MaxLost \in Nat
    /\ \A r \in DOMAIN Recipes :
         /\ Recipes[r].data \in Int /\ CraftSize[r] \in Nat
         /\ \E i \in Items : Accepts(Recipes[r].out[1].item, i)
         /\ \A k \in DOMAIN Recipes[r].in :
              LET in == Recipes[r].in[k] IN
              /\ DOMAIN in.data = 1 .. Len(in.data) /\ Len(in.data) \in Nat \ {0} /\ ToSet(in.data) \subseteq InSlots
              /\ in.size % Len(in.data) = 0
         \* a slot gets one ingredient of a recipe, once
         /\ \A k, m \in DOMAIN Recipes[r].in :
              \A a \in DOMAIN Recipes[r].in[k].data, b \in DOMAIN Recipes[r].in[m].data :
                 Recipes[r].in[k].data[a] = Recipes[r].in[m].data[b] => k = m /\ a = b

VARIABLES
    stored,     \* what the storages hold of each item
    info,       \* Factory.items: what they held at the start of the cycle, less the reservations
    machine,    \* what the slots of the machine hold
    listed,     \* the answer to List, between its execution and the plan
    job,        \* the sets on their way into the machine
    output,     \* whether processOutput is under way, as 0 or 1
    phase,      \* of the cycle: idle, asked, listed, working
    taken,      \* how often the player took something
    lost        \* how many groups were cut short

vars == <<stored, info, machine, listed, job, output, phase, taken, lost>>

Slots == InSlots \cup {OutSlot}
Unknown == [i \in Items |-> [avail |-> 0, backup |-> 0]]
Nowhere == [slot \in Slots |-> Empty]
NoJob == [recipe |-> 0, sets |-> 0, in |-> <<>>, left |-> {}]

TypeOK ==
    /\ stored \in [Items -> Nat] /\ info \in [Items -> [avail : Nat, backup : Nat]]
    /\ \A contents \in {machine, listed} : \A slot \in Slots :
         \/ contents[slot] = Empty
         \/ contents[slot].item \in Items /\ contents[slot].size \in 1 .. MaxSize[contents[slot].item]
    /\ job.recipe \in DOMAIN Recipes \cup {0} /\ job.sets \in Nat
    /\ job.left \subseteq InSlots /\ (job = NoJob <=> job.left = {})
    /\ output \in {0, 1} /\ taken \in 0 .. MaxTaken /\ lost \in 0 .. MaxLost
    /\ phase \in {"idle", "asked", "listed", "working"}

Init ==
    /\ stored = Stored0 /\ info = Unknown
    /\ machine = Nowhere /\ listed = Nowhere
    /\ job = NoJob /\ output = 0 /\ phase = "idle" /\ taken = 0 /\ lost = 0
-----------------------------------------------------------------------------
Info == [i \in Items |-> [avail |-> stored[i], backup |-> Backup[i]]]
EachSize(in) == in.size \div Len(in.data)
IngredientAt(r, slot) == {k \in DOMAIN Recipes[r].in : slot \in ToSet(Recipes[r].in[k].data)}
UsedSlots(r) == {slot \in InSlots : IngredientAt(r, slot) # {}}

\* No machine that holds inputs of a recipe, and nothing else, could be one that
\* holds inputs of another.  The process cannot tell two that are not apart.
RecipesApart ==
    \A r, s \in DOMAIN Recipes :
        /\ UsedSlots(r) \subseteq UsedSlots(s)
        /\ \A slot \in UsedSlots(r) : \A k \in IngredientAt(r, slot), m \in IngredientAt(s, slot) :
             \E i \in Items : Accepts(Recipes[r].in[k].item, i) /\ Accepts(Recipes[s].in[m].item, i)
        => r = s

\* A mutant of Matches: what is in the slots of other recipes is not looked at.
MatchesPartly(contents, r, in) ==
    \A slot \in UsedSlots(r) : \A k \in IngredientAt(r, slot) : contents[slot].item \in {NoItem, in[k]}

\* Nothing but items of the recipe is in the machine, in their slots.
Matches(contents, r, in) ==
    /\ \A slot \in InSlots \ UsedSlots(r) : contents[slot] = Empty
    /\ \A slot \in UsedSlots(r) : \A k \in IngredientAt(r, slot) : contents[slot].item \in {NoItem, in[k]}

RoomFor(contents, r, in, slot, k) ==
    (Least(Recipes[r].data, MaxSize[in[k]]) - contents[slot].size) \div EachSize(Recipes[r].in[k])

Sets(contents, r, resolved) ==
    Min({resolved.inAvail} \cup
        UNION {{RoomFor(contents, r, resolved.in, slot, k) : k \in IngredientAt(r, slot)} : slot \in UsedSlots(r)})

\* What a recipe is started with, or nothing if the machine has no room for it;
\* left are the slots that its inputs have not reached.
Started(contents, r, resolved) ==
    [recipe |-> r, in |-> resolved.in, left |-> UsedSlots(r),
     sets |-> IF Matches(contents, r, resolved.in) THEN Sets(contents, r, resolved) ELSE 0]

\* The first demand that the machine has room for, none or one.
FirstStarted(starts) ==
    LET fits == {n \in DOMAIN starts : starts[n].sets > 0}
    IN IF fits = {} THEN NoJob ELSE starts[Min(fits)]
StartedAll(contents, demands) ==
    [n \in DOMAIN demands |->
        Started(contents, demands[n], ResolveRecipeInputs(info, Recipes[demands[n]], TRUE))]
Chosen(contents) == FirstStarted(StartedAll(contents, GetDemand(info, Recipes, TRUE)))

\* What of item i a job has reserved.
JobSize(j, i) ==
    IF j = NoJob THEN 0
    ELSE j.sets * Needed(Recipes[j.recipe], j.in, i)

\* The storages are listed; the process asks for the contents of the machine,
\* unless nothing is wanted.
Cycle ==
    /\ phase = "idle"
    /\ info' = Info
    /\ phase' = IF OutFilter \/ Demanded(info', Recipes, TRUE) # {} THEN "asked" ELSE "working"
    /\ UNCHANGED <<stored, machine, listed, job, output, taken, lost>>

\* A computer executes List.
List ==
    /\ phase = "asked"
    /\ phase' = "listed"
    /\ listed' = machine
    /\ UNCHANGED <<stored, info, machine, job, output, taken, lost>>

\* The continuation of List: outputs are sent for, one recipe is started.
Plan ==
    /\ phase = "listed"
    /\ phase' = "working"
    /\ output' = IF OutFilter /\ listed[OutSlot] # Empty THEN 1 ELSE 0
    /\ job' = Chosen(listed)
    /\ stored' = [i \in Items |-> stored[i] - JobSize(job', i)]
    /\ info' = [i \in Items |-> [info[i] EXCEPT !.avail = @ - JobSize(job', i)]]
    /\ listed' = Nowhere
    /\ UNCHANGED <<machine, taken, lost>>

\* The transfers of a group in their order: by ingredient, then as its slots are
\* listed.
Place(r, slot) ==
    LET k == Min(IngredientAt(r, slot))
    IN <<k, CHOOSE a \in DOMAIN Recipes[r].in[k].data : Recipes[r].in[k].data[a] = slot>>
Precedes(r, slot, other) ==
    \/ Place(r, slot)[1] < Place(r, other)[1]
    \/ Place(r, slot)[1] = Place(r, other)[1] /\ Place(r, slot)[2] < Place(r, other)[2]

\* What the transfer to a slot brings.
Brings(j, slot) == j.sets * EachSize(Recipes[j.recipe].in[Min(IngredientAt(j.recipe, slot))])
Loaded(contents, j, slot) ==
    [contents EXCEPT ![slot] = Stack(j.in[Min(IngredientAt(j.recipe, slot))], @.size + Brings(j, slot))]

\* A computer executes the next transfer of the group.
Load ==
    /\ \E slot \in job.left :
         /\ \A other \in job.left \ {slot} : Precedes(job.recipe, slot, other)
         /\ machine' = Loaded(machine, job, slot)
         /\ job' = IF job.left = {slot} THEN NoJob ELSE [job EXCEPT !.left = @ \ {slot}]
    /\ UNCHANGED <<stored, info, listed, output, phase, taken, lost>>

\* What of item i has not reached the machine.
Unloaded(j, i) ==
    SumFunctionOnSet([slot \in j.left |-> Brings(j, slot)],
                     {slot \in j.left : j.in[Min(IngredientAt(j.recipe, slot))] = i})

\* An extraction fails, or the computer is lost before the group or in the midst of
\* it: what is still in the bus goes back, what is in the machine stays.
LoadFails ==
    /\ job # NoJob
    /\ lost' = lost + IF job.left = UsedSlots(job.recipe) THEN 0 ELSE 1
    /\ lost' <= MaxLost
    /\ stored' = [i \in Items |-> stored[i] + Unloaded(job, i)]
    /\ job' = NoJob
    /\ UNCHANGED <<info, machine, listed, output, phase, taken>>

OutputStored ==
    /\ stored' = [i \in Items |-> stored[i] + IF machine[OutSlot].item = i THEN machine[OutSlot].size ELSE 0]
    /\ machine' = [machine EXCEPT ![OutSlot] = Empty]
    /\ UNCHANGED <<info, listed, job, phase, taken, lost>>

\* processOutput: whatever is in the slot by now goes to the storages.
ProcessOutput == output = 1 /\ output' = 0 /\ OutputStored

\* Without a filter the product leaves the machine by other means (external).
Eject == ~OutFilter /\ machine[OutSlot] # Empty /\ UNCHANGED output /\ OutputStored

EndOfCycle ==
    /\ phase = "working" /\ job = NoJob /\ output = 0
    /\ phase' = "idle" /\ info' = Unknown
    /\ UNCHANGED <<stored, machine, listed, job, output, taken, lost>>
-----------------------------------------------------------------------------
\* Inputs for at least n sets of r are in the machine, and nothing else.
HoldsSets(contents, r, n) ==
    /\ \A slot \in InSlots \ UsedSlots(r) : contents[slot] = Empty
    /\ \A slot \in UsedSlots(r) : \A k \in IngredientAt(r, slot) :
        /\ contents[slot].size >= n * EachSize(Recipes[r].in[k])
        /\ contents[slot] # Empty => Accepts(Recipes[r].in[k].item, contents[slot].item)

Product(r) == CHOOSE i \in Items : Accepts(Recipes[r].out[1].item, i)

\* The machine (external) turns a set into a product when it has room for it.
CanCraft(r) ==
    /\ HoldsSets(machine, r, 1)
    /\ machine[OutSlot].item \in {NoItem, Product(r)}
    /\ machine[OutSlot].size + CraftSize[r] <= MaxSize[Product(r)]

Craft(r) ==
    /\ CanCraft(r)
    /\ machine' = [slot \in Slots |->
         IF slot = OutSlot THEN Stack(Product(r), machine[slot].size + CraftSize[r])
         ELSE IF slot \in UsedSlots(r)
         THEN Stack(machine[slot].item,
                    machine[slot].size - EachSize(Recipes[r].in[Min(IngredientAt(r, slot))]))
         ELSE machine[slot]]
    /\ UNCHANGED <<stored, info, listed, job, output, phase, taken, lost>>

\* A player takes a stack out of the machine.
TakeStack(slot) ==
    /\ taken < MaxTaken /\ machine[slot] # Empty
    /\ taken' = taken + 1
    /\ machine' = [machine EXCEPT ![slot] = Empty]
    /\ UNCHANGED <<stored, info, listed, job, output, phase, lost>>

Next ==
    \/ Cycle \/ List \/ Plan \/ Load \/ LoadFails \/ ProcessOutput \/ EndOfCycle \/ Eject
    \/ \E r \in DOMAIN Recipes : Craft(r)
    \/ \E slot \in InSlots : TakeStack(slot)

Spec == Init /\ [][Next]_vars

\* Cycles follow each other and computers answer, the machine works when it can,
\* and transfers do not fail for ever: if the next one can be executed again and
\* again, it is.  The last conjunct is the weak fairness of Plan, which is enabled
\* as long as the answer is there and alone takes it away.
FairSpec ==
    /\ Spec
    /\ WF_vars(Cycle) /\ WF_vars(List) /\ WF_vars(ProcessOutput)
    /\ WF_vars(EndOfCycle) /\ WF_vars(Eject) /\ SF_vars(Load)
    /\ \A r \in DOMAIN Recipes : WF_vars(Craft(r))
    /\ []<>(phase # "listed")
-----------------------------------------------------------------------------
(***************************************************************************)
(* "The input items need to go into specific slot with the correct ratio.  *)
(* If there are already items in the machine, OCRemote will only send      *)
(* additional inputs that match the in-progress recipe."                   *)
(***************************************************************************)
\* The inputs under way fit into their slots, although the machine has been
\* working since it was listed, and whatever became of earlier groups: none of the
\* transfers leaves anything in the bus.
InputsFit ==
    \A slot \in job.left : \A k \in IngredientAt(job.recipe, slot) :
        /\ machine[slot].item \in {NoItem, job.in[k]}
        /\ machine[slot].size + job.sets * EachSize(Recipes[job.recipe].in[k])
             <= Least(Recipes[job.recipe].data, MaxSize[job.in[k]])

\* Nothing but inputs of one recipe is in the machine or on its way there, also
\* after groups were cut short and stacks taken out.
OneRecipe ==
    \/ job = NoJob /\ \A slot \in InSlots : machine[slot] = Empty
    \/ \E r \in DOMAIN Recipes : HoldsSets(machine, r, 0) /\ job.recipe \in {0, r}

\* Of each input of a single recipe there is as much in the machine and on its way
\* there as makes complete sets.
Coming(slot) == IF slot \in job.left THEN Brings(job, slot) ELSE 0
Complete ==
    \/ job = NoJob /\ \A slot \in InSlots : machine[slot] = Empty
    \/ \E r \in DOMAIN Recipes, n \in 1 .. Max({MaxSize[i] : i \in Items}) :
         /\ HoldsSets(machine, r, 0) /\ job.recipe \in {0, r}
         /\ \A slot \in UsedSlots(r) : \A k \in IngredientAt(r, slot) :
              machine[slot].size + Coming(slot) = n * EachSize(Recipes[r].in[k])

\* That is so until a group is cut short, which "may cause incomplete set of input
\* items to be sent to machines", or a player takes a stack out.
CompleteSets == taken = 0 /\ lost = 0 => Complete

\* The backup stays: what a cycle takes leaves it in the storages.
LeavesBackup ==
    \A i \in Items : stored'[i] < stored[i] =>
        stored'[i] >= Backup[i] \/ \E r \in DOMAIN Recipes : \E k \in DOMAIN Recipes[r].in :
            Recipes[r].in[k].allowBackup /\ Accepts(Recipes[r].in[k].item, i)
BackupStays == [][LeavesBackup]_vars

\* In the end there is enough of every output or not enough for a set, unless what
\* a group that was cut short left behind blocks the machine.
Kept ==
    \/ ~Complete
    \/ \A r \in DOMAIN Recipes :
         ~Wanted(Info, Recipes[r]) \/ ResolveRecipeInputs(Info, Recipes[r], TRUE).inAvail = 0
StockIsKept == <>[]Kept

\* "Even if someone manually takes inputs out from machines, auto-crafting still
\* won't get stuck": a recipe that is wanted and has inputs makes something.
\* The code does not keep this when a player takes one input of several.
NeverStuck ==
    \A r \in DOMAIN Recipes :
        (Wanted(Info, Recipes[r]) /\ ResolveRecipeInputs(Info, Recipes[r], TRUE).inAvail > 0)
            ~> (machine[OutSlot] # Empty \/ ~Wanted(Info, Recipes[r])
                  \/ ResolveRecipeInputs(Info, Recipes[r], TRUE).inAvail = 0)
=============================================================================
