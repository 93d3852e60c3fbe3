------------------------------- MODULE CppBus -------------------------------
(***************************************************************************)
(* The item bus of the C++ server: the bus update of Factory.cpp, the jobs *)
(* of Processes.cpp that allocate and free slots, and the cycle around     *)
(* them.                                                                   *)
(*                                                                         *)
(* An action is one handler of the io_context with all the continuations   *)
(* it runs: the last transfer of a job frees its slots, completes the      *)
(* process and ends the cycle in one go.  What is posted to the strand     *)
(* comes later: a granted slot, the failure of a waiter, the end of an     *)
(* update that inserts nothing.  Operators on the record bus are functions *)
(* of the code and are composed as the code calls them.                    *)
(***************************************************************************)
EXTENDS Integers, Sequences, FiniteSets, SequencesExt

CONSTANTS
    NSlots,         \* the number of slots of the bus inventory
    Jobs,           \* the jobs that processes may run, one in each cycle
    Need,           \* Need[j]: how many slots job j allocates
    Kind,           \* Kind[j]: "insert", "craft" or "extract"
    Bases           \* the bases to look at: the jobs of their processes, and
                    \* how many operations fail at most (a bound)

ASSUME JobsAssumption ==
    /\ IsFiniteSet(Jobs)
    /\ Need \in [Jobs -> Nat \ {0}]
    /\ Kind \in [Jobs -> {"insert", "craft", "extract"}]
ASSUME BasesAssumption ==
    /\ NSlots \in Nat \ {0}
    /\ \A b \in Bases : b.processes \subseteq Jobs /\ b.faults \in Nat

VARIABLES
    base,           \* the configuration of the server, one of Bases
    bus,            \* the members of Factory about the bus and the cycle
    stage,          \* stage[j]: where job j is
    part,           \* part[p]: where the promise of one slot is
    slotOf,         \* slotOf[p]: the slot it was given, or NoSlot
    dirty,          \* the slots that hold items in the game
    faults          \* failures still allowed

vars == <<base, bus, stage, part, slotOf, dirty, faults>>

Slots == 0 .. NSlots - 1
NoSlot == -1
Parts(j) == {j} \X (1 .. Need[j])
AllParts == UNION {Parts(j) : j \in Jobs}

\* What the strand holds: a slot or a failure for a waiter, or the promise of
\* an update that had nothing to insert; and marks that say behind which of
\* them an operation of a part, of a job or of the update was sent.
Posts ==
    ({"grant"} \X AllParts \X Slots) \cup ({"fail"} \X AllParts) \cup {<<"trivial">>}
        \cup ({"partSent"} \X AllParts) \cup ({"jobSent"} \X Jobs) \cup {<<"listSent">>}

BusType ==
    [busAllocations : SUBSET Slots, busWaitQueue : Seq(AllParts), busFreeQueue : SUBSET Slots,
     isBusRunning : BOOLEAN, endOfCycleAfterBusUpdate : BOOLEAN, nBusUpdates : {0, 1},
     update : {"none", "listing", "listed", "trivial", "inserting"},
     listed : SUBSET Slots, inserting : SUBSET Slots, failed : BOOLEAN,
     posted : Seq(Posts), cycle : {"update", "run", "drain", "delay"}]

TypeOK ==
    /\ base \in Bases /\ bus \in BusType
    /\ stage \in [Jobs -> {"off", "inv", "load", "insert", "done", "failed"}]
    /\ part \in [AllParts -> {"idle", "queued", "extracting", "loaded", "failed"}]
    /\ slotOf \in [AllParts -> Slots \cup {NoSlot}]
    /\ dirty \subseteq Slots /\ faults \in 0 .. base.faults

(***************************************************************************)
(* Items of an earlier run of the server may be left in the bus.           *)
(***************************************************************************)
Init ==
    /\ base \in Bases
    /\ bus = [busAllocations |-> {}, busWaitQueue |-> <<>>, busFreeQueue |-> {},
              isBusRunning |-> FALSE, endOfCycleAfterBusUpdate |-> FALSE,
              nBusUpdates |-> 0, update |-> "none", listed |-> {}, inserting |-> {},
              failed |-> FALSE, posted |-> <<>>, cycle |-> "update"]
    /\ stage = [j \in Jobs |-> "off"]
    /\ part = [p \in AllParts |-> "idle"]
    /\ slotOf = [p \in AllParts |-> NoSlot]
    /\ dirty \in SUBSET Slots
    /\ faults = base.faults

Fault == faults > 0 /\ faults' = faults - 1
-----------------------------------------------------------------------------
(***************************************************************************)
(* The operations of Factory on the bus.                                   *)
(***************************************************************************)

\* The io_context runs its handlers in order: what is sent while handlers are
\* posted is answered after them.
Sent(b, mark) == IF b.posted = <<>> THEN b ELSE [b EXCEPT !.posted = Append(@, mark)]
MayAnswer(mark) == mark \notin ToSet(bus.posted)

DoBusUpdate(b) ==
    Sent([b EXCEPT !.nBusUpdates = 1, !.isBusRunning = TRUE, !.update = "listing"], <<"listSent">>)

\* busAllocate for each of these parts: the first one starts an update.
BusAllocate(b, parts) ==
    LET queued == [b EXCEPT !.busWaitQueue = @ \o parts] IN
    IF b.isBusRunning THEN queued ELSE DoBusUpdate(queued)

\* The first of busWaitQueue get these slots, in handlers of their own.
Grant(b, slots) ==
    [b EXCEPT !.posted = @ \o [i \in DOMAIN slots |-> <<"grant", b.busWaitQueue[i], slots[i]>>],
              !.busWaitQueue = SubSeq(@, Len(slots) + 1, Len(@))]

\* How many of n slots there are waiters for.
Served(b, n) == IF n < Len(b.busWaitQueue) THEN n ELSE Len(b.busWaitQueue)

\* Mutant of HandOver: the slots are released and given away.
HandOverReleased(b, slots) ==
    [Grant(b, SubSeq(slots, 1, Served(b, Len(slots)))) EXCEPT !.busAllocations = @ \ ToSet(slots)]

\* busFree of empty slots: each to the first waiter, or released.
HandOver(b, slots) ==
    LET n == Served(b, Len(slots)) IN
    [Grant(b, SubSeq(slots, 1, n)) EXCEPT
        !.busAllocations = @ \ ToSet(SubSeq(slots, n + 1, Len(slots)))]

\* Mutant of BusFree: slots are released while an update runs.
BusFreeAtOnce(b, slots) ==
    LET released == [b EXCEPT !.busAllocations = @ \ slots] IN
    IF slots = {} THEN b ELSE IF b.isBusRunning THEN released ELSE DoBusUpdate(released)

\* busFree of slots that may hold items: an update has to store these.
BusFree(b, slots) ==
    IF slots = {} THEN b
    ELSE IF b.isBusRunning THEN [b EXCEPT !.busFreeQueue = @ \cup slots]
    ELSE DoBusUpdate([b EXCEPT !.busAllocations = @ \ slots])

EndOfBusUpdate(b) ==
    [b EXCEPT !.isBusRunning = FALSE, !.update = "none", !.endOfCycleAfterBusUpdate = FALSE,
              !.cycle = IF b.endOfCycleAfterBusUpdate THEN "delay" ELSE @]

\* Mutant of UpdateDone: only a slot freed meanwhile is a reason to go on.
UpdateDoneIfFreed(b, everInserted) ==
    LET released == [b EXCEPT !.busAllocations = @ \ b.busFreeQueue, !.busFreeQueue = {}] IN
    IF b.busFreeQueue # {} THEN DoBusUpdate(released) ELSE EndOfBusUpdate(b)

\* The last continuation of an update, and its TailListener.
UpdateDone(b, everInserted) ==
    LET released == [b EXCEPT !.busAllocations = @ \ b.busFreeQueue, !.busFreeQueue = {}] IN
    IF b.busFreeQueue # {} \/ (everInserted /\ b.busWaitQueue # <<>>)
    THEN DoBusUpdate(released) ELSE EndOfBusUpdate(b)

\* Mutant of UpdateFailed: busWaitQueue is not cleared.
UpdateFailedKept(b) ==
    EndOfBusUpdate([b EXCEPT
        !.posted = @ \o [i \in DOMAIN b.busWaitQueue |-> <<"fail", b.busWaitQueue[i]>>]])

\* TailListener::onFail
UpdateFailed(b) ==
    EndOfBusUpdate([b EXCEPT
        !.posted = @ \o [i \in DOMAIN b.busWaitQueue |-> <<"fail", b.busWaitQueue[i]>>],
        !.busWaitQueue = <<>>])

\* The TailListener of a cycle: a good cycle has at least one bus update.
CycleEnded(b, ok) ==
    LET draining == [b EXCEPT !.endOfCycleAfterBusUpdate = TRUE, !.cycle = "drain"] IN
    IF b.isBusRunning THEN draining
    ELSE IF ok /\ b.nBusUpdates = 0 THEN DoBusUpdate(draining)
    ELSE [b EXCEPT !.cycle = "delay"]
-----------------------------------------------------------------------------
(***************************************************************************)
(* The jobs.                                                               *)
(***************************************************************************)
\* The last part of a crafting grid gets the slot for its product.
Inputs(j) == IF Kind[j] = "craft" THEN Need[j] - 1 ELSE Need[j]
OutPart(j) == <<j, Need[j]>>

\* slotsToFree: the slots that were granted, in the order of the grants once
\* all of them have been.
SlotsToFree(j, slots) == [i \in 1 .. Inputs(j) |-> slots[<<j, i>>]]

\* slotToFreeOut is a number that is 0 until the slot is granted.
SlotToFreeOut(j, slots) == IF slots[OutPart(j)] = NoSlot THEN 0 ELSE slots[OutPart(j)]

\* The slots that finally() frees: slotsToFree, emptied after a success unless
\* it holds what a machine put out, and for a crafting grid slotToFreeOut.
FinallyFreed(j, slots, ok) ==
    (IF ok /\ Kind[j] # "extract" THEN {} ELSE ToSet(SlotsToFree(j, slots)) \ {NoSlot})
        \cup (IF Kind[j] = "craft" THEN {SlotToFreeOut(j, slots)} ELSE {})

\* The inputs left the bus (map).
Unloaded(b, j, slots, ok) ==
    IF ok /\ Kind[j] # "extract" THEN HandOver(b, SlotsToFree(j, slots)) ELSE b

\* Mutant of Returned: nothing is freed after a failure.
ReturnedIfOk(b, j, slots, ok) ==
    BusFree(Unloaded(b, j, slots, ok), IF ok THEN FinallyFreed(j, slots, ok) ELSE {})

\* map, then finally.
Returned(b, j, slots, ok) == BusFree(Unloaded(b, j, slots, ok), FinallyFreed(j, slots, ok))

\* A process completes; the last one completes the cycle.
Completed(b, ended) ==
    IF \A j \in Jobs : ended[j] \in {"off", "done", "failed"}
    THEN CycleEnded(b, \A j \in Jobs : ended[j] # "failed") ELSE b

\* Job j completes in the state b of the bus, with the slots it has by now.
JobEnds(b, j, slots, ok) ==
    LET ended == [stage EXCEPT ![j] = IF ok THEN "done" ELSE "failed"] IN
    /\ stage' = ended
    /\ bus' = Completed(Returned(b, j, slots, ok), ended)
    /\ part' = [p \in AllParts |-> IF p \in Parts(j) THEN "idle" ELSE part[p]]
    /\ slotOf' = [p \in AllParts |-> IF p \in Parts(j) THEN NoSlot ELSE slotOf[p]]

\* One slot of a job was filled, or it failed: Promise::all of the job goes on
\* once every one has, with the transfers or with the failure.
PartEnds(b, p, slots, result) ==
    LET j == p[1]
        parts == [part EXCEPT ![p] = result]
        loaded == \A q \in Parts(j) : parts[q] = "loaded"
        ended == \A q \in Parts(j) : parts[q] \in {"loaded", "failed"}
    IN IF ended /\ (~loaded \/ Kind[j] = "extract")
       THEN JobEnds(b, j, slots, loaded)
       ELSE /\ stage' = [stage EXCEPT ![j] = IF ended THEN "insert" ELSE @]
            /\ part' = parts /\ slotOf' = slots
            /\ bus' = IF ended THEN Sent(b, <<"jobSent", j>>) ELSE b

PartSeq(j) == [i \in 1 .. Need[j] |-> <<j, i>>]

\* The parts of these jobs, one job after the other.
InTurn(jobs) ==
    {q \in SetToSeqs(UNION {Parts(j) : j \in jobs}) :
        \A k \in DOMAIN q : q[k][2] > 1 => k > 1 /\ q[k - 1] = <<q[k][1], q[k][2] - 1>>}

\* The storages are updated: every process starts its cycle.  A crafting grid
\* allocates its slots at once, the others have to look at their machine.
StoragesUpdated ==
    /\ bus.cycle = "update"
    /\ \E crafts \in SUBSET {j \in base.processes : Kind[j] = "craft"} :
         /\ stage' = [j \in Jobs |-> IF j \in crafts THEN "load"
                                    ELSE IF j \in base.processes THEN "inv" ELSE "off"]
         /\ part' = [p \in AllParts |-> IF p[1] \in crafts THEN "queued" ELSE part[p]]
         /\ LET run == [bus EXCEPT !.cycle = "run"] IN
            IF crafts = {} THEN bus' = run
            ELSE \E parts \in InTurn(crafts) : bus' = BusAllocate(run, parts)
    /\ UNCHANGED <<base, slotOf, dirty, faults>>

StoragesFailed ==
    /\ bus.cycle = "update" /\ Fault
    /\ bus' = CycleEnded(bus, FALSE)
    /\ UNCHANGED <<base, stage, part, slotOf, dirty>>

\* The machine was looked at: the process has work for the bus, or none.
RunJob(j) ==
    /\ stage[j] = "inv" /\ Kind[j] # "craft"
    /\ stage' = [stage EXCEPT ![j] = "load"]
    /\ part' = [p \in AllParts |-> IF p \in Parts(j) THEN "queued" ELSE part[p]]
    /\ bus' = BusAllocate(bus, PartSeq(j))
    /\ UNCHANGED <<base, slotOf, dirty, faults>>

SkipJob(j) ==
    /\ stage[j] = "inv"
    /\ \E result \in {"done", "failed"} :
         /\ IF result = "failed" THEN Fault ELSE UNCHANGED faults
         /\ stage' = [stage EXCEPT ![j] = result]
    /\ bus' = Completed(bus, stage')
    /\ UNCHANGED <<base, part, slotOf, dirty>>

\* The items of one part are in its slot, or the transfer failed before or
\* after it moved them.
Extracted(p) ==
    /\ part[p] = "extracting" /\ MayAnswer(<<"partSent", p>>)
    /\ \/ /\ dirty' = dirty \cup {slotOf[p]} /\ UNCHANGED faults
          /\ PartEnds(bus, p, slotOf, "loaded")
       \/ /\ dirty' \in {dirty, dirty \cup {slotOf[p]}} /\ Fault
          /\ PartEnds(bus, p, slotOf, "failed")
    /\ UNCHANGED base

\* The transfers from the bus to the machine succeeded: only a product of a
\* crafting grid may be left.  Or one failed, with some of the slots emptied.
Inserted(j) ==
    LET out == IF Kind[j] = "craft" THEN {slotOf[OutPart(j)]} ELSE {} IN
    /\ stage[j] = "insert" /\ MayAnswer(<<"jobSent", j>>)
    /\ \/ /\ dirty' = (dirty \ {slotOf[p] : p \in Parts(j)}) \cup out /\ UNCHANGED faults
          /\ JobEnds(bus, j, slotOf, TRUE)
       \/ /\ \E emptied \in SUBSET {slotOf[p] : p \in Parts(j)} : dirty' = dirty \ emptied
          /\ Fault
          /\ JobEnds(bus, j, slotOf, FALSE)
    /\ UNCHANGED base

\* The strand runs its first handler.
RunPosted ==
    LET post == Head(bus.posted)
        b == [bus EXCEPT !.posted = Tail(@)]
    IN
    /\ bus.posted # <<>>
    /\ CASE post[1] \in {"partSent", "jobSent", "listSent"} ->
              bus' = b /\ UNCHANGED <<stage, part, slotOf>>
         [] post[1] = "trivial" ->
              bus' = UpdateDone(b, FALSE) /\ UNCHANGED <<stage, part, slotOf>>
         [] post[1] = "fail" -> PartEnds(b, post[2], slotOf, "failed")
         [] post[1] = "grant" ->
              LET slots == [slotOf EXCEPT ![post[2]] = post[3]] IN
              IF Kind[post[2][1]] = "craft" /\ post[2] = OutPart(post[2][1])
              THEN PartEnds(b, post[2], slots, "loaded")
              ELSE /\ slotOf' = slots /\ part' = [part EXCEPT ![post[2]] = "extracting"]
                   /\ bus' = Sent(b, <<"partSent", post[2]>>) /\ UNCHANGED stage
    /\ UNCHANGED <<base, dirty, faults>>
-----------------------------------------------------------------------------
(***************************************************************************)
(* The bus update and the cycle.                                           *)
(***************************************************************************)

\* A computer executes the List.
ListBus ==
    /\ bus.update = "listing" /\ MayAnswer(<<"listSent">>)
    /\ bus' = [bus EXCEPT !.update = "listed", !.listed = dirty]
    /\ UNCHANGED <<base, stage, part, slotOf, dirty, faults>>

Unallocated(S) == S \ bus.busAllocations

\* n of these slots, from the last one on: freeSlots.back() is given away first.
FromTheBack(slots, n) ==
    {q \in [1 .. n -> slots] :
        \A i \in 1 .. n : \A s \in slots : s > q[i] <=> \E k \in 1 .. i - 1 : q[k] = s}

\* The answer of the List: what is unallocated is inserted or granted.
GrantAndInsert ==
    LET occupied == Unallocated(bus.listed)
        free == Unallocated(Slots \ bus.listed)
    IN
    /\ bus.update = "listed"
    /\ \E given \in FromTheBack(free, Served(bus, Cardinality(free))) :
         LET granted == Grant([bus EXCEPT !.listed = {}, !.busAllocations = @ \cup ToSet(given)], given)
         IN bus' = IF occupied = {}
                   THEN [granted EXCEPT !.update = "trivial", !.posted = Append(@, <<"trivial">>)]
                   ELSE [granted EXCEPT !.update = "inserting", !.inserting = occupied]
    /\ UNCHANGED <<base, stage, part, slotOf, dirty, faults>>

\* One slot is emptied into the storages, or that failed; the last one ends
\* Promise::all.
Deposited(s) ==
    /\ s \in bus.inserting
    /\ \E ok \in BOOLEAN :
         LET failed == bus.failed \/ ~ok
             left == [bus EXCEPT !.inserting = @ \ {s}, !.failed = failed]
             all == [left EXCEPT !.failed = FALSE]
         IN
         /\ IF ok THEN dirty' = dirty \ {s} /\ UNCHANGED faults
            ELSE dirty' \in {dirty, dirty \ {s}} /\ Fault
         /\ bus' = IF left.inserting # {} THEN left
                   ELSE IF failed THEN UpdateFailed(all) ELSE UpdateDone(all, TRUE)
    /\ UNCHANGED <<base, stage, part, slotOf>>

ListFailed ==
    /\ bus.update \in {"listing", "listed"} /\ Fault
    /\ bus' = UpdateFailed([bus EXCEPT !.listed = {}])
    /\ UNCHANGED <<base, stage, part, slotOf, dirty>>

\* cycleDelayTimer
StartCycle ==
    /\ bus.cycle = "delay"
    /\ bus' = [bus EXCEPT !.cycle = "update", !.nBusUpdates = 0]
    /\ stage' = [j \in Jobs |-> "off"]
    /\ UNCHANGED <<base, part, slotOf, dirty, faults>>

Update == ListBus \/ GrantAndInsert \/ \E s \in Slots : Deposited(s)
JobStep(j) == RunJob(j) \/ SkipJob(j) \/ Inserted(j) \/ \E p \in Parts(j) : Extracted(p)
Cycle == StoragesUpdated \/ StartCycle

Next ==
    \/ Update \/ ListFailed
    \/ \E j \in Jobs : JobStep(j)
    \/ RunPosted
    \/ Cycle \/ StoragesFailed

(***************************************************************************)
(* The io_context runs what is ready, and each action is answered or fails *)
(* (ActionsComplete of CppServer).                                         *)
(***************************************************************************)
Fairness ==
    /\ WF_vars(Update) /\ WF_vars(RunPosted) /\ WF_vars(Cycle)
    /\ \A j \in Jobs : WF_vars(JobStep(j))

Spec == Init /\ [][Next]_vars
FairSpec == Spec /\ Fairness
-----------------------------------------------------------------------------
(***************************************************************************)
(* What the bus promises.                                                  *)
(***************************************************************************)
Posted(kind) == {post \in ToSet(bus.posted) : post[1] = kind}
PostedSlots == {post[3] : post \in Posted("grant")}
Held == {slotOf[p] : p \in AllParts} \ {NoSlot}
Active(j) == stage[j] \in {"inv", "load", "insert"}

\* A crafting grid that fails before it got its last slot frees slot 0, whoever
\* has it (SlotToFreeOut).  What follows holds of bases where that cannot be.
GridsNeverFail == \A b \in Bases : b.faults = 0 \/ \A j \in b.processes : Kind[j] # "craft"

\* A slot belongs to one promise at a time, including those whose slot is still
\* in the strand: no two jobs ever move items through the same slot.
ExclusiveSlots ==
    /\ \A p, q \in AllParts : slotOf[p] = slotOf[q] /\ slotOf[p] # NoSlot => p = q
    /\ \A x, y \in Posted("grant") : x[3] = y[3] => x = y
    /\ PostedSlots \cap Held = {}

\* busAllocations is exactly what jobs hold or are about to get and what waits
\* in busFreeQueue: none is lost, none in use can be inserted or granted.
NoSlotLost ==
    /\ bus.busAllocations = Held \cup PostedSlots \cup bus.busFreeQueue
    /\ (Held \cup PostedSlots) \cap bus.busFreeQueue = {}

\* A job finds its slot empty, however old the List it was granted from.
GrantedSlotIsEmpty ==
    /\ \A p \in AllParts : part[p] = "extracting" => slotOf[p] \notin dirty
    /\ PostedSlots \cap dirty = {}

\* A bus update runs within its cycle, while the account of the storages it
\* deposits into is valid, and the next cycle finds the bus at rest.
UpdatesWithinCycle ==
    /\ bus.isBusRunning <=> bus.update # "none"
    /\ bus.isBusRunning => bus.cycle \in {"run", "drain"}
    /\ bus.cycle \in {"drain", "delay", "update"} => \A j \in Jobs : ~Active(j)
    /\ bus.cycle \in {"delay", "update"} => bus.busWaitQueue = <<>> /\ Posted("grant") = {}

\* Each promise of busAllocate is in the queue or in the strand, once: it is
\* resolved exactly once, by a slot or by a failure, within its cycle.
InQueue(p) == {i \in DOMAIN bus.busWaitQueue : bus.busWaitQueue[i] = p}
InStrand(p) == {i \in DOMAIN bus.posted : bus.posted[i][1] \in {"grant", "fail"} /\ bus.posted[i][2] = p}
WaitersResolvedOnce ==
    /\ \A p \in AllParts :
         Cardinality(InQueue(p)) + Cardinality(InStrand(p)) = IF part[p] = "queued" THEN 1 ELSE 0
    /\ UpdatesWithinCycle

\* No circular wait: at most one job waits for a slot while it has another one.
\* The waiters of a job are next to each other in busWaitQueue and are served
\* in order, so jobs that share the bus do not block each other halfway.
Holds(j) == \E p \in Parts(j) : slotOf[p] # NoSlot \/ \E post \in Posted("grant") : post[2] = p
Waits(j) == \E p \in Parts(j) : p \in ToSet(bus.busWaitQueue)
OneJobHoldsAndWaits ==
    \A j, k \in Jobs : Holds(j) /\ Waits(j) /\ Holds(k) /\ Waits(k) => j = k

\* A request left in busWaitQueue when no update runs has a job to wait for:
\* one that has all of its slots, or still looks at its machine.
\* The code does not keep this (see README.md): an update that inserts nothing
\* ends without a look at busWaitQueue.
NoStrandedWaiter ==
    bus.busWaitQueue # <<>> /\ ~bus.isBusRunning =>
        \/ PostedSlots # {}
        \/ \E j \in Jobs : Active(j) /\ \A p \in Parts(j) : part[p] # "queued"

\* No waiter remains without a slot or an error.
WaitersResolved == \A p \in AllParts : part[p] = "queued" ~> part[p] # "queued"

\* The server never hangs: every cycle ends, whatever fails.
CyclesEnd == []<>(bus.cycle = "delay")

\* What a failure or an earlier run leaves in the bus is stored away.
BusCleaned == \A s \in Slots : s \in dirty ~> s \notin dirty
=============================================================================
