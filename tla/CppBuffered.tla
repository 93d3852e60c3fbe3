---------------------------- MODULE CppBuffered -----------------------------
(***************************************************************************)
(* ProcessBuffered of the C++ server and the buffer it fills: for every    *)
(* entry of the stock list and for every recipe that fits, the process     *)
(* plans in its picture of the buffer where the items go, reserves them    *)
(* and sends them later, while what the buffer feeds goes on working.  A   *)
(* computer executes the transfers of a recipe one by one and may be lost  *)
(* between any two.                                                        *)
(* Recipes are those of CppItems, with data maxInProc; a stock entry is    *)
(* [item, toStock, allowBackup, extraBackup].                              *)
(* Items on their way are in the bus (CppBus): a job holds them here.      *)
(***************************************************************************)
EXTENDS CppItems, TLC

CONSTANTS
    Recipes,
    StockList,
    RecipeMaxInProc,    \* how many items may be in the buffer for recipes
    Slots,              \* the number of slots of the buffer
    SlotFilter,         \* the slots the process may fill
    OutItems,           \* outFilter: the items that are output
    Stored0,            \* what the storages hold at first
    Backup,
    CraftSize,          \* CraftSize[r]: what a set makes of the first output
    MaxUsed,            \* bound: how many stocked items are used up
    MaxLost             \* bound: how many groups of transfers are cut short

\* What an instance has to satisfy.
RecipesAssumption ==
    \A r \in DOMAIN Recipes : \A k \in DOMAIN Recipes[r].in : Recipes[r].in[k].size \in Nat \ {0}

VARIABLES
    stored,     \* what the storages hold of each item
    info,       \* Factory.items of the cycle
    buffer,     \* what the buffer holds
    listed,     \* the answer to List
    jobs,       \* the items on their way into the buffer, one record per job
    outputs,    \* the slots processOutput is under way for
    phase,      \* of the cycle: idle, asked, listed, working
    used,       \* how many stocked items were used up
    lost        \* how many groups were cut short

vars == <<stored, info, buffer, listed, jobs, outputs, phase, used, lost>>

Unknown == [i \in Items |-> [avail |-> 0, backup |-> 0]]
Nowhere == [slot \in 1 .. Slots |-> Empty]
Blocked == [item |-> "placeholder", size |-> 1]

TypeOK ==
    /\ stored \in [Items -> Nat] /\ info \in [Items -> [avail : Nat, backup : Nat]]
    /\ \A contents \in {buffer, listed} : \A slot \in 1 .. Slots :
         \/ contents[slot] = Empty
         \/ contents[slot].item \in Items /\ contents[slot].size \in 1 .. MaxSize[contents[slot].item]
    /\ \A job \in jobs : \A k \in DOMAIN job.in :
         job.in[k] \in Items /\ \A n \in DOMAIN job.plans[k] : job.plans[k][n] \in (1 .. Slots) \X (Nat \ {0})
    /\ outputs \subseteq 1 .. Slots /\ used \in 0 .. MaxUsed /\ lost \in 0 .. MaxLost
    /\ phase \in {"idle", "asked", "listed", "working"}

Init ==
    /\ stored = Stored0 /\ info = Unknown
    /\ buffer = Nowhere /\ listed = Nowhere
    /\ jobs = {} /\ outputs = {} /\ phase = "idle" /\ used = 0 /\ lost = 0
-----------------------------------------------------------------------------
(***************************************************************************)
(* The plan, as the continuation of List makes it.                         *)
(***************************************************************************)
Stocked(i) == \E n \in DOMAIN StockList : Accepts(StockList[n].item, i)
Size(contents, i) == MapThenSumSet(LAMBDA slot : IF contents[slot].item = i THEN contents[slot].size ELSE 0, 1 .. Slots)
ListSum(r) == Sum([k \in DOMAIN Recipes[r].in |-> Recipes[r].in[k].size])
Planned(plan) == Sum([n \in DOMAIN plan |-> plan[n][2]])

\* The loop over the slots: what is output, and what may not be filled, is
\* covered by a placeholder in the picture.
Outputs(contents) == {slot \in 1 .. Slots : contents[slot].item \in OutItems}
Picture(contents) ==
    LET kept == {slot \in 1 .. Slots \ Outputs(contents) : slot \in SlotFilter}
        inProc == [i \in Items |-> MapThenSumSet(
            LAMBDA slot : IF contents[slot].item = i THEN contents[slot].size ELSE 0, kept)]
    IN [items |-> [slot \in 1 .. Slots |-> IF slot \in kept THEN contents[slot] ELSE Blocked],
        inProc |-> inProc,
        quota |-> RecipeMaxInProc - MapThenSumSet(LAMBDA i : inProc[i], {i \in Items : ~Stocked(i)}),
        info |-> info,
        jobs |-> {}]

Refill(p, entry, i) == entry.toStock - p.inProc[i]

\* One entry of the stock list: each of its transfers is sent on its own.
PlanStock(p, n) ==
    LET entry == StockList[n]
        i == GetItem(p.info, entry.item)
        toProc == Least(Refill(p, entry, i), GetAvail(p.info, i, entry.allowBackup) - entry.extraBackup)
        plan == InsertIntoInventory(p.items, i, toProc)
    IN IF i = NoItem \/ toProc <= 0 \/ plan.totalSize = 0 THEN p
       ELSE [p EXCEPT !.items = plan.inventory, !.inProc[i] = @ + plan.totalSize,
                      !.info = Reserve(@, i, plan.totalSize),
                      !.jobs = @ \cup {[recipe |-> -n, sets |-> 0, in |-> <<i>>, plans |-> <<<<action>>>>] :
                                            action \in ToSet(plan.actions)}]

\* All ingredients of some sets, one insertion after the other, up to the first
\* that does not fit: items is what the picture looks like then.
Insertions(items, r, in, sets) ==
    FoldLeftDomain(
        LAMBDA x, k :
            LET plan == InsertIntoInventory(x.items, in[k], sets * Recipes[r].in[k].size) IN
            IF ~x.fits THEN x
            ELSE [items |-> plan.inventory, plans |-> Append(x.plans, plan.actions),
                  fits |-> plan.totalSize = sets * Recipes[r].in[k].size],
        [items |-> items, plans |-> <<>>, fits |-> TRUE], in)

\* Mutants of QuotaSets: one of the limits is forgotten, or is never reached.
QuotaSetsBelow(p, r, in) ==
    Least((p.quota - 1) \div ListSum(r),
          (Recipes[r].data - 1 - Sum([k \in DOMAIN in |-> p.inProc[in[k]]])) \div ListSum(r))
QuotaSetsOne(p, r, in) ==
    (Recipes[r].data - Sum([k \in DOMAIN in |-> p.inProc[in[k]]])) \div ListSum(r)

\* How many sets the two limits leave.
QuotaSets(p, r, in) ==
    Least(p.quota \div ListSum(r),
          (Recipes[r].data - Sum([k \in DOMAIN in |-> p.inProc[in[k]]])) \div ListSum(r))

\* The largest number of sets that fits; if not even one does, the picture keeps
\* what was inserted of it.
Tried(p, r, in, sets) ==
    LET fitting == {n \in 1 .. sets : Insertions(p.items, r, in, n).fits}
    IN Insertions(p.items, r, in, IF fitting = {} THEN 1 ELSE Max(fitting))

\* What was tried of a demand is started if it fits.
PlanTried(p, r, in, tried) ==
    LET sent == Planned(tried.plans[1]) \div Recipes[r].in[1].size
        sizeOf(i) == Sum([k \in DOMAIN in |-> IF in[k] = i THEN Planned(tried.plans[k]) ELSE 0])
    IN IF ~tried.fits THEN [p EXCEPT !.items = tried.items]
       ELSE [items |-> tried.items,
             inProc |-> [i \in Items |-> p.inProc[i] + sizeOf(i)],
             quota |-> p.quota - sent * ListSum(r),
             info |-> [i \in Items |-> [p.info[i] EXCEPT !.avail = @ - sizeOf(i)]],
             jobs |-> p.jobs \cup {[recipe |-> r, sets |-> sent, in |-> in, plans |-> tried.plans]}]

\* One demand.
PlanResolved(p, r, resolved) ==
    LET sets == Least(resolved.inAvail, QuotaSets(p, r, resolved.in))
    IN IF p.quota <= 0 \/ resolved.inAvail <= 0 \/ sets <= 0 THEN p
       ELSE PlanTried(p, r, resolved.in, Tried(p, r, resolved.in, sets))
PlanRecipe(p, r) == PlanResolved(p, r, ResolveRecipeInputs(p.info, Recipes[r], TRUE))

PlanDemands(p) == FoldLeft(PlanRecipe, p, GetDemand(p.info, Recipes, TRUE))
PlanAll(contents) == PlanDemands(FoldLeftDomain(PlanStock, Picture(contents), StockList))

JobSize(job, i) ==
    Sum([k \in DOMAIN job.in |-> IF job.in[k] = i THEN Planned(job.plans[k]) ELSE 0])
JobsSize(js, i) == MapThenSumSet(LAMBDA job : JobSize(job, i), js)
-----------------------------------------------------------------------------
(***************************************************************************)
(* The steps of the cycle, of the computers and of the buffer.             *)
(***************************************************************************)
Info == [i \in Items |-> [avail |-> stored[i], backup |-> Backup[i]]]

\* The storages are listed; the process asks for the contents of the buffer,
\* unless there is nothing to do.
Cycle ==
    /\ phase = "idle"
    /\ info' = Info
    /\ phase' = IF OutItems # {} \/ StockList # <<>> \/ Demanded(info', Recipes, TRUE) # {}
                THEN "asked" ELSE "working"
    /\ UNCHANGED <<stored, buffer, listed, jobs, outputs, used, lost>>

List ==
    /\ phase = "asked"
    /\ phase' = "listed"
    /\ listed' = buffer
    /\ UNCHANGED <<stored, info, buffer, jobs, outputs, used, lost>>

Plan ==
    /\ phase = "listed"
    /\ phase' = "working"
    /\ \E plan \in {PlanAll(listed)} : jobs' = plan.jobs /\ info' = plan.info
    /\ outputs' = Outputs(listed)
    /\ stored' = [i \in Items |-> stored[i] - JobsSize(jobs', i)]
    /\ listed' = Nowhere
    /\ UNCHANGED <<buffer, used, lost>>

Put(contents, i, action) ==
    [contents EXCEPT ![action[1]] = Stack(i, @.size + action[2])]

\* The ingredient whose transfers come next, and the job without the next one.
Current(job) == Min({k \in DOMAIN job.in : job.plans[k] # <<>>})
Rest(job) == [job EXCEPT !.plans[Current(job)] = Tail(@)]

\* Some of the transfers of a recipe were executed.
Begun(job) ==
    /\ job.recipe \in DOMAIN Recipes
    /\ \E k \in DOMAIN job.in : Planned(job.plans[k]) < job.sets * Recipes[job.recipe].in[k].size

\* A computer executes the next transfer of a job.
Load(job) ==
    /\ buffer' = Put(buffer, job.in[Current(job)], Head(job.plans[Current(job)]))
    /\ jobs' = (jobs \ {job}) \cup {rest \in {Rest(job)} : \E k \in DOMAIN rest.in : rest.plans[k] # <<>>}
    /\ UNCHANGED <<stored, info, listed, outputs, phase, used, lost>>

\* An extraction fails, or the computer is lost before the transfers or in the midst
\* of them: what is still in the bus goes back, what is in the buffer stays.
LoadFails(job) ==
    /\ lost' = lost + IF Begun(job) THEN 1 ELSE 0
    /\ lost' <= MaxLost
    /\ jobs' = jobs \ {job}
    /\ stored' = [i \in Items |-> stored[i] + JobSize(job, i)]
    /\ UNCHANGED <<info, buffer, listed, outputs, phase, used>>

ProcessOutput(slot) ==
    /\ outputs' = outputs \ {slot}
    /\ stored' = [i \in Items |-> stored[i] + IF buffer[slot].item = i THEN buffer[slot].size ELSE 0]
    /\ buffer' = [buffer EXCEPT ![slot] = Empty]
    /\ UNCHANGED <<info, listed, jobs, phase, used, lost>>

EndOfCycle ==
    /\ phase = "working" /\ jobs = {} /\ outputs = {}
    /\ phase' = "idle" /\ info' = Unknown
    /\ UNCHANGED <<stored, buffer, listed, jobs, outputs, used, lost>>

\* What the buffer feeds (external) takes complete sets of a recipe and puts the
\* product into a slot of its own or into the storages.
Product(r) == CHOOSE i \in Items : Accepts(Recipes[r].out[1].item, i)
Feeds(r) ==
    LET in == Recipes[r].in
        needed(i) == Sum([k \in DOMAIN in |-> IF Accepts(in[k].item, i) THEN in[k].size ELSE 0])
        takes == {take \in [1 .. Slots -> 0 .. Max({in[k].size : k \in DOMAIN in})] :
            /\ \A slot \in 1 .. Slots : take[slot] <= buffer[slot].size
            /\ \A i \in Items : needed(i) =
                 MapThenSumSet(LAMBDA slot : IF buffer[slot].item = i THEN take[slot] ELSE 0, 1 .. Slots)}
    IN {[slot \in 1 .. Slots |-> Stack(buffer[slot].item, buffer[slot].size - take[slot])] : take \in takes}

Craft(r) ==
    /\ \/ /\ OutItems # {}
          /\ \E contents \in Feeds(r), slot \in 1 .. Slots :
               /\ slot \notin SlotFilter /\ contents[slot].item \in {NoItem, Product(r)}
               /\ contents[slot].size + CraftSize[r] <= MaxSize[Product(r)]
               /\ buffer' = [contents EXCEPT ![slot] = Stack(Product(r), @.size + CraftSize[r])]
          /\ UNCHANGED stored
       \/ /\ OutItems = {}
          /\ buffer' \in Feeds(r)
          /\ stored' = [stored EXCEPT ![Product(r)] = @ + CraftSize[r]]
    /\ UNCHANGED <<info, listed, jobs, outputs, phase, used, lost>>

\* A stocked item is used up.
Use(slot) ==
    /\ used < MaxUsed /\ buffer[slot] # Empty /\ Stocked(buffer[slot].item)
    /\ used' = used + 1
    /\ buffer' = [buffer EXCEPT ![slot] = Stack(@.item, @.size - 1)]
    /\ UNCHANGED <<stored, info, listed, jobs, outputs, phase, lost>>

Next ==
    \/ Cycle \/ List \/ Plan \/ EndOfCycle
    \/ \E job \in jobs : Load(job) \/ LoadFails(job)
    \/ \E slot \in outputs : ProcessOutput(slot)
    \/ \E r \in DOMAIN Recipes : Craft(r)
    \/ \E slot \in 1 .. Slots : Use(slot)

Spec == Init /\ [][Next]_vars

\* Cycles follow each other and computers answer, what the buffer feeds works,
\* and transfers do not fail for ever: if the next one can be executed again and
\* again, it is.  The last conjunct is the weak fairness of Plan, which is enabled
\* as long as the answer is there and alone takes it away.
FairSpec ==
    /\ Spec
    /\ WF_vars(Cycle) /\ WF_vars(List) /\ WF_vars(EndOfCycle)
    /\ WF_vars(\E slot \in outputs : ProcessOutput(slot))
    /\ SF_vars(\E job \in jobs : Load(job))
    /\ \A r \in DOMAIN Recipes : WF_vars(Craft(r))
    /\ []<>(phase # "listed")
-----------------------------------------------------------------------------
(***************************************************************************)
(* "This process can both regulate the total amount of items in the        *)
(* buffer, and limit each individual recipe's maximum number of items      *)
(* being processed.  This process respects the ratio of the input items    *)
(* and only sends complete sets of inputs."                                *)
(***************************************************************************)
InProc(i) == Size([slot \in SlotFilter |-> buffer[slot]] @@ Nowhere, i) + JobsSize(jobs, i)
ItemsOf(r) == {i \in Items : \E k \in DOMAIN Recipes[r].in : Accepts(Recipes[r].in[k].item, i)}

\* What is in the buffer for recipes and on its way there is within the quota.
BufferRegulated ==
    MapThenSumSet(InProc, {i \in Items : ~Stocked(i)} \ OutItems) <= RecipeMaxInProc

\* The same for each recipe that shares its inputs with no other.
RecipesRegulated ==
    \A r \in DOMAIN Recipes :
        \/ MapThenSumSet(InProc, ItemsOf(r)) <= Recipes[r].data
        \/ \E other \in DOMAIN Recipes \ {r} : ItemsOf(other) \cap ItemsOf(r) # {}

\* Of a stocked item there is never more than is to be stocked.
StockRegulated ==
    \A n \in DOMAIN StockList : \A i \in Items : Accepts(StockList[n].item, i) => InProc(i) <= StockList[n].toStock

\* Whatever the order in which jobs are executed, and although the buffer has
\* been working since it was listed, every transfer finds room where it goes.
TransfersFit ==
    LET into(slot) == UNION {UNION {{<<job.in[k], Planned(SelectSeq(job.plans[k], LAMBDA a : a[1] = slot)), job, k>>} :
                        k \in DOMAIN job.in} : job \in jobs}
    IN \A slot \in 1 .. Slots :
        LET moves == {m \in into(slot) : m[2] > 0}
            items == {m[1] : m \in moves} \cup ({buffer[slot].item} \ {NoItem})
        IN moves # {} =>
            /\ slot \in SlotFilter /\ Cardinality(items) = 1
            /\ \A i \in items : buffer[slot].size + MapThenSumSet(LAMBDA m : m[2], moves) <= MaxSize[i]

\* Of the inputs of a recipe that shares them with no other, complete sets are in
\* the buffer and on their way there.
Complete ==
    \A r \in DOMAIN Recipes :
        \/ \E n \in 0 .. RecipeMaxInProc : \A k \in DOMAIN Recipes[r].in : \A i \in Items :
             Accepts(Recipes[r].in[k].item, i) =>
                Size(buffer, i) + JobsSize(jobs, i) = n * Recipes[r].in[k].size
        \/ \E other \in DOMAIN Recipes \ {r} : ItemsOf(other) \cap ItemsOf(r) # {}

\* "The process ... only sends complete sets of inputs": so it is until a group is cut
\* short, which "may cause incomplete set of input items to be sent to machines".
CompleteSets == lost = 0 => Complete

\* insertIntoInventory inserts all that fits of one stack, loses nothing of what
\* was there, opens a slot only if the stacks of the item are full, and plans
\* what it changed.
InsertionCoalesces ==
    \A i \in Items : \A n \in 1 .. MaxSize[i] + 1 :
        LET plan == InsertIntoInventory(buffer, i, n)
            matching == {slot \in 1 .. Slots : buffer[slot].item = i}
            opened == {slot \in 1 .. Slots : buffer[slot] = Empty /\ plan.inventory[slot] # Empty}
            room == MapThenSumSet(LAMBDA slot : MaxSize[i] - buffer[slot].size, matching)
            free == \E slot \in 1 .. Slots : buffer[slot] = Empty
            stack == Least(n, MaxSize[i])
        IN /\ plan.totalSize = (IF free THEN stack ELSE Least(stack, room))
           /\ Cardinality(opened) = (IF stack > room /\ free THEN 1 ELSE 0)
           /\ \A slot \in 1 .. Slots :
                LET planned == {a \in DOMAIN plan.actions : plan.actions[a][1] = slot} IN
                IF planned = {} THEN plan.inventory[slot] = buffer[slot]
                ELSE /\ Cardinality(planned) = 1
                     /\ plan.inventory[slot] =
                          Stack(i, buffer[slot].size + plan.actions[Min(planned)][2])
           /\ Sum([a \in DOMAIN plan.actions |-> plan.actions[a][2]]) = plan.totalSize

\* A picture in which a job has been carried out.
PutAll(contents, job) ==
    FoldLeftDomain(LAMBDA x, k : FoldLeft(LAMBDA y, action : Put(y, job.in[k], action), x, job.plans[k]),
                   contents, job.in)

\* "It will simply start to craft an item if the amount stored of that item falls
\* below a set point and if all ingredients are available": when the plan is made,
\* no demanded recipe is left out that the limits admit and that has room.
\* The code does not keep this: what a skipped recipe put into the picture stays.
StartsWhatFits ==
    [][phase = "listed" =>
        LET start == Picture(listed)
            items == FoldLeft(PutAll, start.items, SetToSeq(jobs'))
            inProc == [i \in Items |-> start.inProc[i] + JobsSize(jobs', i)]
            quota == RecipeMaxInProc - MapThenSumSet(LAMBDA i : inProc[i], {i \in Items : ~Stocked(i)})
            p == [start EXCEPT !.items = items, !.inProc = inProc, !.quota = quota]
        IN \A r \in Demanded(info', Recipes, TRUE) :
             LET in == ResolveRecipeInputs(info', Recipes[r], TRUE).in
             IN (\A job \in jobs' : job.recipe # r) /\ QuotaSets(p, r, in) > 0
                    => ~Insertions(items, r, in, 1).fits]_vars

\* In the end there is enough of every output or not enough for a set, unless what
\* a group that was cut short left behind is in the way.
Kept ==
    \/ ~Complete
    \/ \A r \in DOMAIN Recipes :
         ~Wanted(Info, Recipes[r]) \/ ResolveRecipeInputs(Info, Recipes[r], TRUE).inAvail = 0
StockIsKept == <>[]Kept
=============================================================================
