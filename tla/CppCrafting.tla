---------------------------- MODULE CppCrafting -----------------------------
(***************************************************************************)
(* ProcessCraftingRobot and ProcessRFToolsControlWorkbench of the C++      *)
(* server.  A job takes its ingredients into slots of the bus, and sends   *)
(* one group of calls that lay them out on a crafting grid together with   *)
(* tools that are kept beside it, craft, and put everything back.          *)
(* Recipes are those of CppItems: data is [maxSets, tools], tools a        *)
(* sequence of [storageSlot, craftingGridSlot], the data of an ingredient  *)
(* the grid slots it goes to.  Which bus slots a job has is in CppBus.     *)
(***************************************************************************)
EXTENDS CppItems

CONSTANTS
    Kind,           \* "robot" or "workbench"
    Devices,        \* the accesses: robots or workbenches with their computers
    Recipes,
    Tools0,         \* what a device holds at first: its tools in their places
    Stored0, Backup,
    CraftSize,      \* CraftSize[r]: what a set makes of the first output
    Product,        \* Product[r]: the item of it
    MaxTaken,       \* bound: how often a product is taken
    MaxLost         \* bound: how many connections are lost

\* What an instance has to satisfy.
RecipesAssumption ==
    \A r \in DOMAIN Recipes : \A k \in DOMAIN Recipes[r].in :
        LET in == Recipes[r].in[k]
        IN in.data # <<>> /\ in.size \in Nat \ {0} /\ in.size % Len(in.data) = 0

VARIABLES
    stored, info,   \* the storages, and Factory.items of the cycle
    job,            \* job[r]: the job that crafts recipe r
    held,           \* held[d]: what the places of a device hold
    selected,       \* selected[d]: the slot a robot has selected
    queue,          \* queue[d]: the calls that the computer of d has to execute
    phase,          \* of the cycle: idle or working
    taken, lost     \* how often a product was taken, a connection lost

vars == <<stored, info, job, held, selected, queue, phase, taken, lost>>

Places == DOMAIN Tools0
Jobs == DOMAIN Recipes
NoJob == [state |-> "none", sets |-> 0, in |-> <<>>, bus |-> <<>>]
Unknown == [i \in Items |-> [avail |-> 0, backup |-> 0]]
IsStack(s) == s = Empty \/ (s.item \in Items /\ s.size \in 1 .. MaxSize[s.item])

TypeOK ==
    /\ stored \in [Items -> Nat] /\ info \in [Items -> [avail : Nat, backup : Nat]]
    /\ \A r \in Jobs : /\ job[r].state \in {"none", "extracting", "crafting", "done", "failed"}
                       /\ \A n \in DOMAIN job[r].bus : IsStack(job[r].bus[n])
    /\ \A d \in Devices : (\A p \in Places : IsStack(held[d][p])) /\ selected[d] \in Places
    /\ \A d \in Devices : \A n \in DOMAIN queue[d] : queue[d][n].job \in Jobs
    /\ phase \in {"idle", "working"} /\ taken \in 0 .. MaxTaken /\ lost \in 0 .. MaxLost

Init ==
    /\ stored = Stored0 /\ info = Unknown
    /\ job = [r \in Jobs |-> NoJob]
    /\ held = [d \in Devices |-> Tools0] /\ selected = [d \in Devices |-> 1]
    /\ queue = [d \in Devices |-> <<>>]
    /\ phase = "idle" /\ taken = 0 /\ lost = 0
-----------------------------------------------------------------------------
(***************************************************************************)
(* The groups of calls.  A workbench has its grid below and its tools in a *)
(* chest beside it: their slots are the places from 10 on.                 *)
(***************************************************************************)
\* Slots 4, 8, 12 of a robot are not in its crafting grid.
MapCraftingGridSlot(slot) == IF slot >= 7 THEN slot + 2 ELSE IF slot >= 4 THEN slot + 1 ELSE slot

ToolPlace(tool) == IF Kind = "robot" THEN tool.storageSlot ELSE 9 + tool.storageSlot
GridPlace(slot) == IF Kind = "robot" THEN MapCraftingGridSlot(slot) ELSE slot

Select(r, place) == [fn |-> "select", job |-> r, to |-> place]
TransferTo(r, place) == [fn |-> "transferTo", job |-> r, to |-> place]
Transfer(r, from, to) == [fn |-> "transferItem", job |-> r, from |-> from, to |-> to]

EachSize(in) == in.size \div Len(in.data)
ForEach(s, Ops(_)) == FlattenSeq([n \in DOMAIN s |-> Ops(s[n])])

Inputs(r, sets) ==
    FlattenSeq([k \in DOMAIN Recipes[r].in |->
        LET in == Recipes[r].in[k]
            Ops(slot) ==
                IF Kind = "robot"
                THEN <<Select(r, GridPlace(slot)),
                       [fn |-> "suckFromSlot", job |-> r, from |-> k, size |-> EachSize(in) * sets]>>
                ELSE <<[fn |-> "transferIn", job |-> r, from |-> k, size |-> EachSize(in) * sets,
                        to |-> slot]>>
        IN ForEach(in.data, Ops)])

LoadTools(r) ==
    LET Ops(tool) == IF Kind = "robot"
                     THEN <<Select(r, ToolPlace(tool)), TransferTo(r, GridPlace(tool.craftingGridSlot))>>
                     ELSE <<Transfer(r, ToolPlace(tool), tool.craftingGridSlot)>>
    IN ForEach(Recipes[r].data.tools, Ops)

StoreTools(r) ==
    LET Ops(tool) == IF Kind = "robot"
                     THEN <<Select(r, GridPlace(tool.craftingGridSlot)), TransferTo(r, ToolPlace(tool))>>
                     ELSE <<Transfer(r, tool.craftingGridSlot, ToolPlace(tool))>>
    IN ForEach(Recipes[r].data.tools, Ops)

\* A robot crafts all at once; each transfer out of a workbench crafts one set.
Outputs(r, sets) ==
    IF Kind = "robot"
    THEN <<Select(r, 16), [fn |-> "craft", job |-> r], [fn |-> "dropIntoSlot", job |-> r]>>
    ELSE [n \in 1 .. sets |-> [fn |-> "transferOut", job |-> r]]

Calls(r, sets) == Inputs(r, sets) \o LoadTools(r) \o Outputs(r, sets) \o StoreTools(r)
-----------------------------------------------------------------------------
(***************************************************************************)
(* The devices (external).  x is what a call reads and changes: the places *)
(* of the device, its selected slot and the bus slots of the job.          *)
(***************************************************************************)
GridPlaces == IF Kind = "robot" THEN <<1, 2, 3, 5, 6, 7, 9, 10, 11>> ELSE <<1, 2, 3, 4, 5, 6, 7, 8, 9>>
Grid(x) == [n \in 1 .. 9 |-> x.held[GridPlaces[n]]]

\* What a set of a recipe has in each slot of the grid, given the items.
Pattern(r, in) ==
    [n \in 1 .. 9 |->
        LET uses == {k \in DOMAIN in : n \in ToSet(Recipes[r].in[k].data)}
            tools == {m \in DOMAIN Recipes[r].data.tools : Recipes[r].data.tools[m].craftingGridSlot = n}
        IN IF uses # {} THEN LET k == Min(uses) IN Stack(in[k], EachSize(Recipes[r].in[k]))
           ELSE IF tools # {} THEN Tools0[ToolPlace(Recipes[r].data.tools[Min(tools)])]
           ELSE Empty]
IsTool(r, n) == \E m \in DOMAIN Recipes[r].data.tools : Recipes[r].data.tools[m].craftingGridSlot = n
Consumed(r, in) == {n \in 1 .. 9 : Pattern(r, in)[n] # Empty /\ ~IsTool(r, n)}
CanCraft(x, r, in) ==
    \A n \in 1 .. 9 : /\ Grid(x)[n].item = Pattern(r, in)[n].item
                      /\ Grid(x)[n].size >= Pattern(r, in)[n].size
SetsOn(x, r, in) == Min({Grid(x)[n].size \div Pattern(r, in)[n].size : n \in Consumed(r, in)})
Used(x, r, in, sets) ==
    [p \in Places |->
        IF \E n \in Consumed(r, in) : GridPlaces[n] = p
        THEN LET n == CHOOSE m \in Consumed(r, in) : GridPlaces[m] = p
             IN Stack(x.held[p].item, x.held[p].size - sets * Pattern(r, in)[n].size)
        ELSE x.held[p]]

\* What moves of a stack: as much as was asked for, is there and has room.
Moves(from, to, n) ==
    IF from = Empty \/ to.item \notin {NoItem, from.item} THEN 0
    ELSE Min({n, from.size, MaxSize[from.item] - to.size})
Less(s, n) == Stack(s.item, s.size - n)
Plus(s, from, n) == IF n = 0 THEN s ELSE Stack(from.item, s.size + n)

In(x, k, p, n) ==
    LET moved == Moves(x.bus[k], x.held[p], n)
    IN [x EXCEPT !.bus[k] = Less(@, moved), !.held[p] = Plus(@, x.bus[k], moved)]
Within(x, p, q) ==
    LET moved == Moves(x.held[p], x.held[q], 64)
    IN IF moved = 0 THEN x
       ELSE [x EXCEPT !.held[p] = Less(@, moved), !.held[q] = Plus(@, x.held[p], moved)]
Out(x, p) ==
    LET last == Len(x.bus) moved == Moves(x.held[p], x.bus[last], 64)
    IN [x EXCEPT !.held[p] = Less(@, moved), !.bus[last] = Plus(@, x.held[p], moved)]

Perform(x, c, r, in) ==
    CASE c.fn = "select" -> [x EXCEPT !.selected = c.to]
      [] c.fn = "suckFromSlot" -> In(x, c.from, x.selected, c.size)
      [] c.fn = "transferIn" -> In(x, c.from, c.to, c.size)
      [] c.fn = "transferTo" -> Within(x, x.selected, c.to)
      [] c.fn = "transferItem" -> Within(x, c.from, c.to)
      [] c.fn = "dropIntoSlot" -> Out(x, x.selected)
      [] c.fn = "craft" ->
            IF ~CanCraft(x, r, in) THEN x
            ELSE LET n == SetsOn(x, r, in)
                 IN [x EXCEPT !.held = [Used(x, r, in, n) EXCEPT ![x.selected] = Stack(Product[r], n * CraftSize[r])]]
      [] c.fn = "transferOut" ->
            IF ~CanCraft(x, r, in) THEN x
            ELSE [x EXCEPT !.held = Used(x, r, in, 1),
                           !.bus[Len(x.bus)] = Stack(Product[r], @.size + CraftSize[r])]
-----------------------------------------------------------------------------
Allowed(r, inAvail) == Least(inAvail, Recipes[r].data.maxSets)

\* One demand: all ingredients are reserved.
PlanSets(p, r, in, sets) ==
    LET size(k) == sets * Recipes[r].in[k].size
    IN IF sets <= 0 THEN p
       ELSE [info |-> FoldLeftDomain(LAMBDA y, k : Reserve(y, in[k], size(k)), p.info, in),
             job |-> [p.job EXCEPT ![r] = [state |-> "extracting", sets |-> sets, in |-> in,
                        bus |-> [k \in 1 .. Len(in) + 1 |->
                                    IF k <= Len(in) THEN Stack(in[k], size(k)) ELSE Empty]]]]
PlanResolved(p, r, resolved) == PlanSets(p, r, resolved.in, Allowed(r, resolved.inAvail))
PlanRecipe(p, r) == PlanResolved(p, r, ResolveRecipeInputs(p.info, Recipes[r], TRUE))
PlanAll(listed) ==
    FoldLeft(PlanRecipe, [info |-> listed, job |-> job], GetDemand(listed, Recipes, TRUE))

InBus(j, i) == MapThenSumSet(LAMBDA n : IF j.bus[n].item = i THEN j.bus[n].size ELSE 0, DOMAIN j.bus)
Returned(j) == [i \in Items |-> stored[i] + InBus(j, i)]

\* The storages are listed and every demand gets its job.
Cycle ==
    /\ phase = "idle"
    /\ phase' = "working"
    /\ \E plan \in {PlanAll([i \in Items |-> [avail |-> stored[i], backup |-> Backup[i]]])} :
          /\ info' = plan.info /\ job' = plan.job
          /\ stored' = [i \in Items |-> stored[i] - MapThenSumSet(LAMBDA r : InBus(plan.job[r], i), Jobs)]
    /\ UNCHANGED <<held, selected, queue, taken, lost>>

\* All slots of the job are granted and its inputs extracted: the group of its
\* calls goes to one of the computers.
Extracted(r, d) ==
    /\ job[r].state = "extracting"
    /\ job' = [job EXCEPT ![r].state = "crafting"]
    /\ queue' = [queue EXCEPT ![d] = @ \o Calls(r, job[r].sets)]
    /\ UNCHANGED <<stored, info, held, selected, phase, taken, lost>>

\* An extraction, or the wait for a slot, fails: what is in the bus goes back.
ExtractFails(r) ==
    /\ job[r].state = "extracting"
    /\ job' = [job EXCEPT ![r] = [NoJob EXCEPT !.state = "failed"]]
    /\ stored' = Returned(job[r])
    /\ UNCHANGED <<info, held, selected, queue, phase, taken, lost>>

\* A computer executes a call; with the answer to the last one the job ends:
\* its input slots are free at once, the output is put into the storages.
Execute(d) ==
    /\ queue[d] # <<>>
    /\ LET c == Head(queue[d])
           r == c.job
           last == \A n \in DOMAIN queue[d] \ {1} : queue[d][n].job # r
       IN \E x \in {Perform([held |-> held[d], selected |-> selected[d], bus |-> job[r].bus],
                            c, r, job[r].in)} :
          /\ held' = [held EXCEPT ![d] = x.held] /\ selected' = [selected EXCEPT ![d] = x.selected]
          /\ job' = [job EXCEPT ![r].bus = x.bus, ![r].state = IF last THEN "done" ELSE @]
    /\ queue' = [queue EXCEPT ![d] = Tail(@)]
    /\ UNCHANGED <<stored, info, phase, taken, lost>>

Finish(r) ==
    /\ job[r].state = "done"
    /\ job' = [job EXCEPT ![r] = NoJob]
    /\ stored' = Returned([job[r] EXCEPT !.bus = <<job[r].bus[Len(job[r].bus)]>>])
    /\ UNCHANGED <<info, held, selected, queue, phase, taken, lost>>

\* Mutant of Failing: only the job whose calls are being executed.
FailingFirst(d) == {Head(queue[d]).job}

Failing(d) == {queue[d][n].job : n \in DOMAIN queue[d]}

\* A connection is lost: the calls not executed fail, and so do their jobs.
Lose(d) ==
    /\ lost < MaxLost /\ queue[d] # <<>>
    /\ lost' = lost + 1
    /\ LET failed == Failing(d) IN
       /\ stored' = [i \in Items |-> stored[i] + MapThenSumSet(LAMBDA r : InBus(job[r], i), failed)]
       /\ job' = [r \in Jobs |-> IF r \in failed THEN [NoJob EXCEPT !.state = "failed"] ELSE job[r]]
    /\ queue' = [queue EXCEPT ![d] = <<>>]
    /\ UNCHANGED <<info, held, selected, phase, taken>>

EndOfCycle ==
    /\ phase = "working" /\ \A r \in Jobs : job[r].state \in {"none", "failed"}
    /\ phase' = "idle" /\ info' = Unknown /\ job' = [r \in Jobs |-> NoJob]
    /\ UNCHANGED <<stored, held, selected, queue, taken, lost>>

\* The environment takes the product from the storages.
Take(r) ==
    /\ phase = "idle" /\ taken < MaxTaken /\ stored[Product[r]] > 0
    /\ taken' = taken + 1
    /\ stored' = [stored EXCEPT ![Product[r]] = 0]
    /\ UNCHANGED <<info, job, held, selected, queue, phase, lost>>

Next ==
    \/ Cycle \/ EndOfCycle
    \/ \E r \in Jobs : ExtractFails(r) \/ Finish(r) \/ Take(r)
    \/ \E r \in Jobs, d \in Devices : Extracted(r, d)
    \/ \E d \in Devices : Execute(d) \/ Lose(d)

Spec == Init /\ [][Next]_vars

\* Cycles begin and end, calls are answered or time out, and if jobs are
\* started again and again, not all of them fail before they craft.
FairSpec ==
    /\ Spec
    /\ []<>(phase = "working") /\ WF_vars(EndOfCycle)
    /\ \A d \in Devices : []<>(queue[d] = <<>>)
    /\ \A r \in Jobs :
        /\ WF_vars(Finish(r)) /\ []<>(job[r].state # "extracting")
        /\ []<>(job[r].state = "extracting") => []<>(job[r].state = "crafting")
-----------------------------------------------------------------------------
\* Whenever a device crafts for a job, its grid holds what the recipe says, for
\* all sets of the job, and the tools: no call of another job comes between.
CraftsPlanned ==
    \A d \in Devices : queue[d] # <<>> /\ Head(queue[d]).fn \in {"craft", "transferOut"} =>
        LET r == Head(queue[d]).job
            out == job[r].bus[Len(job[r].bus)]
            sets == job[r].sets - out.size \div CraftSize[r]
            x == [held |-> held[d]]
        IN \A n \in 1 .. 9 :
             Grid(x)[n] = LET s == Pattern(r, job[r].in)[n]
                          IN IF IsTool(r, n) \/ s = Empty THEN s ELSE Stack(s.item, sets * s.size)

\* A device without calls has an empty grid and its tools in their places: the
\* next job, whichever it is, can use it.
CleanAtRest == \A d \in Devices : queue[d] = <<>> => held[d] = Tools0

\* The slots that a job gives back as empty are empty, and its output is all
\* that its sets make.
HandsBackEmpty ==
    \A r \in Jobs : job[r].state = "done" =>
        LET out == Len(job[r].bus) IN
        /\ \A k \in 1 .. out - 1 : job[r].bus[k] = Empty
        /\ job[r].bus[out] = Stack(Product[r], job[r].sets * CraftSize[r])

\* Every cycle ends, although connections are lost: no job is left waiting for
\* an answer.
CyclesEnd == []<>(phase = "idle")

\* What is wanted is made in the end, where inputs suffice for it.
Kept == \A r \in Jobs : stored[Product[r]] >= Recipes[r].out[1].size
StockIsKept == <>[]Kept
=============================================================================
