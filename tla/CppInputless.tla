---------------------------- MODULE CppInputless ----------------------------
(***************************************************************************)
(* ProcessInputless of the C++ server: it takes finished items out of the  *)
(* slots of a machine that is supplied by others, but only as many as are  *)
(* needed in the storages.  Filters are those of CppItems.                 *)
(***************************************************************************)
EXTENDS CppItems

CONSTANTS
    Entries,        \* the sequence of [item, needed]
    Size,               \* how many slots the machine has
    SlotFilter,     \* the slots it may take from: all without a slotFilter
    Stored0,
    Produces,       \* Produces[slot]: the item the machine puts there
    MaxProduced     \* bound: how many items the machine makes

Slots == 1 .. Size

\* What an instance has to satisfy.
InputlessAssumption ==
    /\ Size \in Nat /\ Stored0 \in [Items -> Nat] /\ Produces \in [Slots -> Items] /\ MaxProduced \in Nat
    /\ IsFiniteSet(DOMAIN Entries) /\ \A n \in DOMAIN Entries : Entries[n].needed \in Int

VARIABLES
    stored, info,   \* the storages, and Factory.items of the cycle
    machine,        \* what the slots of the machine hold
    listed,         \* the answer to List
    outputs,        \* the transfers out of the machine, as [slot, item, size]
    phase,          \* of the cycle: idle, asked, listed, working
    produced

vars == <<stored, info, machine, listed, outputs, phase, produced>>

Unknown == [i \in Items |-> [avail |-> 0, backup |-> 0]]
Nowhere == [slot \in Slots |-> Empty]

TypeOK ==
    /\ stored \in [Items -> Nat] /\ info \in [Items -> [avail : Nat, backup : Nat]]
    /\ \A contents \in {machine, listed} : \A slot \in Slots :
         contents[slot] = Empty \/ contents[slot].size \in 1 .. MaxSize[contents[slot].item]
    /\ \A o \in outputs : o.slot \in Slots /\ o.item \in Items /\ o.size \in Nat \ {0}
    /\ phase \in {"idle", "asked", "listed", "working"} /\ produced \in 0 .. MaxProduced

Init ==
    /\ stored = Stored0 /\ info = Unknown
    /\ machine = Nowhere /\ listed = Nowhere
    /\ outputs = {} /\ phase = "idle" /\ produced = 0
-----------------------------------------------------------------------------
\* Of some entry too little is stored.
Lacking(items) ==
    \E n \in DOMAIN Entries : GetAvail(items, GetItem(items, Entries[n].item), TRUE) < Entries[n].needed

\* How much of an item shall be stored: what the greediest entry asks for.
NeededOf(i) ==
    Max({0} \cup {Entries[n].needed : n \in {m \in DOMAIN Entries : Accepts(Entries[m].item, i)}})

\* What is sent for counts as stored for the slots that follow.
Counted(x, i, n) == [x EXCEPT !.avail[i] = @ + n]

Worth(n) == n > 0

PlanSlot(x, slot) ==
    LET i == listed[slot].item
        n == Least(NeededOf(i) - x.avail[i], listed[slot].size)
    IN IF slot \notin SlotFilter \/ listed[slot] = Empty \/ ~Worth(n) THEN x
       ELSE [Counted(x, i, n) EXCEPT !.outputs = @ \cup {[slot |-> slot, item |-> i, size |-> n]}]

\* Slot by slot, from the first one on.
PlanSlots ==
    LET start == [avail |-> [i \in Items |-> GetAvail(info, i, TRUE)], outputs |-> {}]
        planned[n \in 0 .. Size] == IF n = 0 THEN start ELSE PlanSlot(planned[n - 1], n)
    IN planned[Size]

Cycle ==
    /\ phase = "idle"
    /\ info' = [i \in Items |-> [avail |-> stored[i], backup |-> 0]]
    /\ phase' = IF Lacking(info') THEN "asked" ELSE "working"
    /\ UNCHANGED <<stored, machine, listed, outputs, produced>>

List ==
    /\ phase = "asked"
    /\ phase' = "listed"
    /\ listed' = machine
    /\ UNCHANGED <<stored, info, machine, outputs, produced>>

Plan ==
    /\ phase = "listed"
    /\ phase' = "working"
    /\ outputs' = PlanSlots.outputs
    /\ listed' = Nowhere
    /\ UNCHANGED <<stored, info, machine, produced>>

\* processOutput: as much of the stack as was asked for goes to the storages.
ProcessOutput(o) ==
    LET stack == machine[o.slot] n == Least(o.size, stack.size) IN
    /\ outputs' = outputs \ {o}
    /\ machine' = [machine EXCEPT ![o.slot] = Stack(stack.item, stack.size - n)]
    /\ stored' = IF n = 0 THEN stored ELSE [stored EXCEPT ![stack.item] = @ + n]
    /\ UNCHANGED <<info, listed, phase, produced>>

\* The wait for a slot of the bus, or the transfer, fails.
OutputFails(o) ==
    /\ outputs' = outputs \ {o}
    /\ UNCHANGED <<stored, info, machine, listed, phase, produced>>

EndOfCycle ==
    /\ phase = "working" /\ outputs = {}
    /\ phase' = "idle" /\ info' = Unknown
    /\ UNCHANGED <<stored, machine, listed, outputs, produced>>

\* The machine (external) makes an item, unless the slot is full: it blocks.
Produce(slot) ==
    LET i == Produces[slot] IN
    /\ produced < MaxProduced /\ machine[slot].size < MaxSize[i]
    /\ produced' = produced + 1
    /\ machine' = [machine EXCEPT ![slot] = Stack(i, @.size + 1)]
    /\ UNCHANGED <<stored, info, listed, outputs, phase>>

\* Another process uses a stored item.
Use(i) ==
    /\ stored[i] > 0 /\ phase = "idle"
    /\ stored' = [stored EXCEPT ![i] = @ - 1]
    /\ UNCHANGED <<info, machine, listed, outputs, phase, produced>>

Next ==
    \/ Cycle \/ List \/ Plan \/ EndOfCycle
    \/ \E o \in outputs : ProcessOutput(o) \/ OutputFails(o)
    \/ \E slot \in Slots : Produce(slot)
    \/ \E i \in Items : Use(i)

Spec == Init /\ [][Next]_vars

\* Cycles go on, and transfers do not fail for ever.
FairSpec ==
    /\ Spec
    /\ []<>(phase = "idle") /\ []<>(phase = "working")
    /\ \A slot \in Slots :
         []<>(\E o \in outputs : o.slot = slot) => []<><<\E o \in outputs : o.slot = slot /\ ProcessOutput(o)>>_vars
-----------------------------------------------------------------------------
Transfers == [slot : Slots, item : Items, size : Nat]
Sizes == [o \in Transfers |-> o.size]
SentOf(T, i) == SumFunctionOnSet(Sizes, {o \in T : o.item = i})
Sent(i) == SentOf(outputs, i)

\* "only if we don't have enough of that item stored": several slots of one
\* cycle together never bring more than is needed.
NeverTooMuch ==
    \A i \in Items : stored[i] + Sent(i) <= Max({NeededOf(i), Stored0[i]})

\* What is needed and finished is taken in the end: while an item lacks, none
\* of it stays in the machine for ever.
Taken(slot) == machine[slot] = Empty \/ stored[machine[slot].item] >= NeededOf(machine[slot].item)
NeededIsTaken == \A slot \in SlotFilter : []<>Taken(slot)
=============================================================================
