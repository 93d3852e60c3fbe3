--------------------------- MODULE CppScattering ----------------------------
(***************************************************************************)
(* ProcessScatteringWorkingSet of the C++ server and its machine, which    *)
(* works on each of its input slots independently: the process spreads the *)
(* items of a recipe with one input over the slots.  Recipes are those of  *)
(* CppItems.  Items on their way are in the bus (CppBus).                  *)
(***************************************************************************)
EXTENDS CppItems

CONSTANTS
    Recipes,
    EachSlotMaxInProc,
    InSlots,            \* the input slots, in the order of the configuration
    OutSlot,            \* a slot outFilter accepts
    Stored0,            \* what the storages hold at first
    Backup,
    CraftSize           \* CraftSize[r]: what one input makes of the output

\* What an instance has to satisfy.
RecipesAssumption ==
    /\ AreRecipes(Recipes) /\ EachSlotMaxInProc \in Int
    /\ DOMAIN InSlots = 1 .. Len(InSlots) /\ Len(InSlots) \in Nat /\ OutSlot \notin ToSet(InSlots)
    /\ Stored0 \in [Items -> Nat] /\ Backup \in [Items -> Nat]
    /\ \A r \in DOMAIN Recipes :
         /\ Len(Recipes[r].in) = 1 /\ CraftSize[r] \in Nat
         /\ \E i \in Items : Accepts(Recipes[r].out[1].item, i)

VARIABLES
    stored,     \* what the storages hold of each item
    info,       \* Factory.items of the cycle
    machine,    \* what the slots of the machine hold
    listed,     \* the answer to List
    moves,      \* the transfers into the machine that were not executed yet
    output,     \* whether processOutput is under way, as 0 or 1
    phase       \* of the cycle: idle, asked, listed, working

vars == <<stored, info, machine, listed, moves, output, phase>>

Slots == ToSet(InSlots) \cup {OutSlot}
Unknown == [i \in Items |-> [avail |-> 0, backup |-> 0]]
Nowhere == [slot \in Slots |-> Empty]

TypeOK ==
    /\ stored \in [Items -> Nat] /\ info \in [Items -> [avail : Nat, backup : Nat]]
    /\ \A contents \in {machine, listed} : \A slot \in Slots :
         \/ contents[slot] = Empty
         \/ contents[slot].item \in Items /\ contents[slot].size \in 1 .. MaxSize[contents[slot].item]
    /\ \A m \in moves : m.recipe \in DOMAIN Recipes /\ m.item \in Items
                        /\ m.slot \in ToSet(InSlots) /\ m.size \in Nat \ {0}
    /\ output \in {0, 1}
    /\ phase \in {"idle", "asked", "listed", "working"}

Init ==
    /\ stored = Stored0 /\ info = Unknown
    /\ machine = Nowhere /\ listed = Nowhere
    /\ moves = {} /\ output = 0 /\ phase = "idle"
-----------------------------------------------------------------------------
(***************************************************************************)
(* The plan, as the continuation of List makes it.                         *)
(***************************************************************************)
FreeSlots(items) == {n \in DOMAIN InSlots : items[InSlots[n]] = Empty}
SlotsWith(items, i) == {n \in DOMAIN InSlots : items[InSlots[n]].item = i}
Smallest(items, i) ==
    {n \in SlotsWith(items, i) : \A m \in SlotsWith(items, i) :
        items[InSlots[n]].size <= items[InSlots[m]].size}

\* Mutant of Target: the first slot with the item, however full.
TargetFirst(items, i) ==
    IF SlotsWith(items, i) # {} THEN {InSlots[Min(SlotsWith(items, i))]}
    ELSE IF FreeSlots(items) # {} THEN {InSlots[Max(FreeSlots(items))]} ELSE {}

\* The slot the next item goes to: the last that is empty, or else the first of
\* those that hold least of the item.
Target(items, i) ==
    IF FreeSlots(items) # {} THEN {InSlots[Max(FreeSlots(items))]}
    ELSE IF SlotsWith(items, i) # {} THEN {InSlots[Min(Smallest(items, i))]} ELSE {}

\* The smallest stack of all, as the code computes it: starting from 0.
MinAny(items) == Min({0} \cup {items[InSlots[n]].size : n \in DOMAIN InSlots \ FreeSlots(items)})

HasRoom(items, slot, i) == items[slot].size < MaxSize[i]

\* One round of the loop: an item is added, or the loop ends.
AddOne(x, i) ==
    IF x.ended THEN x
    ELSE IF MinAny(x.items) >= EachSlotMaxInProc THEN [x EXCEPT !.ended = TRUE, !.full = TRUE]
    ELSE IF \E slot \in Target(x.items, i) : HasRoom(x.items, slot, i)
    THEN LET slot == CHOOSE s \in Target(x.items, i) : TRUE
         IN [x EXCEPT !.items[slot] = Stack(i, @.size + 1), !.added[slot] = @ + 1]
    ELSE [x EXCEPT !.ended = TRUE]

\* What is there after n rounds for item i.
Rounds(items, i, n) ==
    LET start == [items |-> items, added |-> [slot \in ToSet(InSlots) |-> 0], ended |-> FALSE, full |-> FALSE]
        after[k \in 0 .. n] == IF k = 0 THEN start ELSE AddOne(after[k - 1], i)
    IN after[n]

\* The items of a demand that find a slot, in x, are reserved and sent.
PlanAdded(p, r, i, x) ==
    LET total == SumFunctionOnSet(x.added, ToSet(InSlots))
    IN [items |-> x.items,
        info |-> IF total > 0 THEN Reserve(p.info, i, total) ELSE p.info,
        moves |-> p.moves \cup
           {[recipe |-> r, item |-> i, slot |-> slot, size |-> x.added[slot]] :
               slot \in {s \in ToSet(InSlots) : x.added[s] > 0}},
        full |-> x.full]

\* One demand.
PlanResolved(p, r, resolved) ==
    PlanAdded(p, r, resolved.in[1], Rounds(p.items, resolved.in[1], resolved.inAvail))
PlanRecipe(p, r) ==
    IF p.full THEN p ELSE PlanResolved(p, r, ResolveRecipeInputs(p.info, Recipes[r], TRUE))

\* One demand after the other.
PlanAll(contents) ==
    LET demands == GetDemand(info, Recipes, TRUE)
        start == [items |-> contents, info |-> info, moves |-> {}, full |-> FALSE]
        after[n \in 0 .. Len(demands)] == IF n = 0 THEN start ELSE PlanRecipe(after[n - 1], demands[n])
    IN after[Len(demands)]
-----------------------------------------------------------------------------
Total(ms) == SumFunctionOnSet([m \in ms |-> m.size], ms)
MovesSize(ms, i) == Total({m \in ms : m.item = i})

\* The storages are listed and the process asks for the contents of the machine.
Cycle ==
    /\ phase = "idle"
    /\ phase' = "asked"
    /\ info' = [i \in Items |-> [avail |-> stored[i], backup |-> Backup[i]]]
    /\ UNCHANGED <<stored, machine, listed, moves, output>>

List ==
    /\ phase = "asked"
    /\ phase' = "listed"
    /\ listed' = machine
    /\ UNCHANGED <<stored, info, machine, moves, output>>

Plan ==
    /\ phase = "listed"
    /\ phase' = "working"
    /\ LET plan == PlanAll(listed) IN moves' = plan.moves /\ info' = plan.info
    /\ output' = IF listed[OutSlot] = Empty THEN 0 ELSE 1
    /\ stored' = [i \in Items |-> stored[i] - MovesSize(moves', i)]
    /\ listed' = Nowhere
    /\ UNCHANGED machine

\* A computer executes a transfer.
Load(m) ==
    /\ moves' = moves \ {m}
    /\ machine' = [machine EXCEPT ![m.slot] = Stack(m.item, @.size + m.size)]
    /\ UNCHANGED <<stored, info, listed, output, phase>>

\* A transfer, or the extraction before it, fails: the items go back.
LoadFails(m) ==
    /\ moves' = moves \ {m}
    /\ stored' = [stored EXCEPT ![m.item] = @ + m.size]
    /\ UNCHANGED <<info, machine, listed, output, phase>>

ProcessOutput ==
    /\ output = 1
    /\ output' = 0
    /\ stored' = [i \in Items |-> stored[i] + IF machine[OutSlot].item = i THEN machine[OutSlot].size ELSE 0]
    /\ machine' = [machine EXCEPT ![OutSlot] = Empty]
    /\ UNCHANGED <<info, listed, moves, phase>>

EndOfCycle ==
    /\ phase = "working" /\ moves = {} /\ output = 0
    /\ phase' = "idle" /\ info' = Unknown
    /\ UNCHANGED <<stored, machine, listed, moves, output>>

\* The machine (external) works on one slot.
Product(r) == CHOOSE i \in Items : Accepts(Recipes[r].out[1].item, i)
Craft(r, slot) ==
    /\ machine[slot] # Empty /\ Accepts(Recipes[r].in[1].item, machine[slot].item)
    /\ machine[OutSlot].item \in {NoItem, Product(r)}
    /\ machine[OutSlot].size + CraftSize[r] <= MaxSize[Product(r)]
    /\ machine' = [machine EXCEPT ![slot] = Stack(@.item, @.size - 1),
                                  ![OutSlot] = Stack(Product(r), @.size + CraftSize[r])]
    /\ UNCHANGED <<stored, info, listed, moves, output, phase>>

Next ==
    \/ Cycle \/ List \/ Plan \/ ProcessOutput \/ EndOfCycle
    \/ \E m \in moves : Load(m) \/ LoadFails(m)
    \/ \E r \in DOMAIN Recipes, slot \in ToSet(InSlots) : Craft(r, slot)

Spec == Init /\ [][Next]_vars
-----------------------------------------------------------------------------
Into(slot) == {m \in moves : m.slot = slot}
Coming(slot) == Total(Into(slot))

\* Every transfer finds room in its slot, beside what is there and what else is
\* on its way, although the machine has been working since it was listed.
TransfersFit ==
    \A m \in moves :
        /\ \A n \in Into(m.slot) : n.item = m.item
        /\ machine[m.slot].item \in {NoItem, m.item}
        /\ machine[m.slot].size + Coming(m.slot) <= MaxSize[m.item]

\* "This process will try to spread out input items among slots": where items
\* are added, no other slot that could have had them stays two behind.
SpreadsOut ==
    phase = "listed" =>
        LET holds(slot) == listed[slot].size + Total({m \in moves' : m.slot = slot})
        IN \A m \in moves' : \A slot \in ToSet(InSlots) :
             listed[slot].item \in {NoItem, m.item} /\ (\A n \in moves' : n.slot = slot => n.item = m.item)
                => holds(slot) >= holds(m.slot) - 1
SpreadOut == [][SpreadsOut]_vars

\* The backup stays, as in CppSlotted.
LeavesBackup ==
    \A i \in Items : stored'[i] < stored[i] =>
        stored'[i] >= Backup[i] \/ \E r \in DOMAIN Recipes : \E k \in DOMAIN Recipes[r].in :
            Recipes[r].in[k].allowBackup /\ Accepts(Recipes[r].in[k].item, i)
BackupStays == [][LeavesBackup]_vars

\* An input never takes more from the storages than fits into one slot of the bus.
OneBusSlot ==
    \A r \in DOMAIN Recipes :
        LET own == {m \in moves : m.recipe = r}
        IN \A m \in own : Total(own) <= MaxSize[m.item]

\* "All processes can also regulate the amount of items in the machine buffer":
\* no slot gets more than the process may have in each slot.
\* The code does not keep this: it looks for the least filled slot from 0 on.
EachSlotRegulated ==
    \A slot \in ToSet(InSlots) : machine[slot].size <= EachSlotMaxInProc
=============================================================================
