------------------------------ MODULE ItemBus ------------------------------
(***************************************************************************)
(* The item bus of the Rust server: the slots of one shared inventory      *)
(* through which every process moves its items (factory.rs), the jobs that *)
(* request slots (process/*.rs), the bus_main task that cleans and grants  *)
(* slots, and the cycle of factory_main around them.                       *)
(*                                                                         *)
(* The server is single threaded: what runs between two awaits is atomic,  *)
(* and an action is one such stretch of code.  A Minecraft operation takes *)
(* effect when its answer is handled, except the List of bus_update, whose *)
(* snapshot (ListBus) and whose answer (GrantAndClean) are two actions.    *)
(***************************************************************************)
EXTENDS Naturals, Sequences

CONSTANTS
    Slots,          \* the slots of the bus inventory
    NoSlot,         \* "no slot obtained yet"
    Jobs,           \* the jobs a cycle may run (one recipe or extraction each)
    Need,           \* Need[j]: how many slots job j requests
    Kind,           \* Kind[j]: "insert", "craft" or "extract"
    OneClient,      \* TRUE: a single computer executes every operation
    MaxFaults       \* bound on failures and restarts in a behaviour

ASSUME SlotsAssumption == NoSlot \notin Slots
ASSUME JobsAssumption ==
    /\ Need \in [Jobs -> Nat \ {0}]
    /\ Kind \in [Jobs -> {"insert", "craft", "extract"}]
ASSUME BoundsAssumption == OneClient \in BOOLEAN /\ MaxFaults \in Nat

VARIABLES
    bus_allocations,    \* Factory.bus_allocations
    bus_wait_queue,     \* Factory.bus_wait_queue: the parts whose sender waits
    bus_free_queue,     \* Factory.bus_free_queue
    bus_task,           \* Factory.bus_task, an Option
    bus_main,           \* where the bus_main task is, "idle" when there is none
    listed,             \* the occupied slots in the snapshot List took
    depositing,         \* the slots whose deposit tasks are not joined yet
    deposit_result,     \* the result of the deposit tasks joined so far
    n_bus_updates,      \* Factory.n_bus_updates, capped at 1: only 0 matters
    cycle,              \* where factory_main is
    stage,              \* stage[j]: where job j is
    part,               \* part[p]: where the sub-task of one input is
    slot_of,            \* slot_of[p]: the slot it obtained
    dirty,              \* the slots that hold items in the game
    faults              \* failures and restarts still allowed

busVars == <<bus_allocations, bus_wait_queue, bus_free_queue>>
taskVars == <<bus_task, bus_main, n_bus_updates>>
updateVars == <<listed, depositing, deposit_result>>
jobVars == <<stage, part, slot_of>>
vars == <<busVars, taskVars, updateVars, cycle, jobVars, dirty, faults>>

(***************************************************************************)
(* A job requests Need[j] slots, each from a sub-task of its own.          *)
(***************************************************************************)
Parts(j) == {j} \X (1 .. Need[j])
AllParts == UNION {Parts(j) : j \in Jobs}
\* Mutant of SlotsOf: a slot is noted as obtained before its wait has ended.
SlotsOfTooEarly(j) == {slot_of[p] : p \in Parts(j)}
SlotsOf(j) == {slot_of[p] : p \in Parts(j)} \ {NoSlot}
InQueue == {bus_wait_queue[i] : i \in DOMAIN bus_wait_queue}
Ended(j) == \A p \in Parts(j) : part[p] \in {"loaded", "failed"}
AllLoaded(j) == \A p \in Parts(j) : part[p] = "loaded"

TypeOK ==
    /\ bus_allocations \subseteq Slots
    /\ bus_wait_queue \in Seq(AllParts)
    /\ bus_free_queue \subseteq Slots
    /\ bus_task \in {"None", "Some"}
    /\ bus_main \in {"idle", "listing", "listed", "depositing"}
    /\ listed \subseteq Slots
    /\ depositing \subseteq Slots
    /\ deposit_result \in {"Ok", "Err"}
    /\ n_bus_updates \in {0, 1}
    /\ cycle \in {"update", "run", "drain", "sleep"}
    /\ stage \in [Jobs -> {"off", "inv", "load", "insert", "done", "failed"}]
    /\ part \in [AllParts -> {"idle", "queued", "extracting", "loaded", "failed"}]
    /\ slot_of \in [AllParts -> Slots \cup {NoSlot}]
    /\ dirty \subseteq Slots
    /\ faults \in 0 .. MaxFaults

(***************************************************************************)
(* Items of an earlier run of the server may be left in the bus.           *)
(***************************************************************************)
Init ==
    /\ bus_allocations = {} /\ bus_wait_queue = <<>> /\ bus_free_queue = {}
    /\ bus_task = "None" /\ bus_main = "idle" /\ n_bus_updates = 0
    /\ listed = {} /\ depositing = {} /\ deposit_result = "Ok"
    /\ cycle = "update"
    /\ stage = [j \in Jobs |-> "off"]
    /\ part = [p \in AllParts |-> "idle"]
    /\ slot_of = [p \in AllParts |-> NoSlot]
    /\ dirty \in SUBSET Slots
    /\ faults = MaxFaults

Fault == faults > 0 /\ faults' = faults - 1

-----------------------------------------------------------------------------
(***************************************************************************)
(* The operations of Factory on the bus.                                   *)
(***************************************************************************)

\* spawn(bus_main): its first poll counts the update and sends the List.
SpawnBusMain(handle) ==
    /\ bus_task' = handle
    /\ bus_main' = "listing"
    /\ n_bus_updates' = 1

\* The first n waiters take the slots h of F, until either run out.
Granted(n) == {bus_wait_queue[i] : i \in 1 .. n}
Image(n, h) == {h[p] : p \in Granted(n)}
HandOver(n, h, F) ==
    /\ h \in [Granted(n) -> F]
    /\ \A p, q \in Granted(n) : h[p] = h[q] => p = q
    /\ n = Len(bus_wait_queue) \/ Image(n, h) = F
    /\ bus_wait_queue' = SubSeq(bus_wait_queue, n + 1, Len(bus_wait_queue))

\* The parts in done end; those in granted start with the slot h gives them.
HandSlots(done, granted, h) ==
    /\ part' = [p \in AllParts |-> IF p \in granted THEN "extracting"
                                   ELSE IF p \in done THEN "idle" ELSE part[p]]
    /\ slot_of' = [p \in AllParts |-> IF p \in granted THEN h[p]
                                      ELSE IF p \in done THEN NoSlot ELSE slot_of[p]]

\* Mutant of BusAllocate: a new request goes before the waiting ones.
BusAllocateFirst(j) ==
    /\ bus_wait_queue' = [i \in 1 .. Need[j] |-> <<j, i>>] \o bus_wait_queue
    /\ IF bus_task = "Some" THEN UNCHANGED taskVars ELSE SpawnBusMain("Some")

BusAllocate(j) ==
    /\ bus_wait_queue' = bus_wait_queue \o [i \in 1 .. Need[j] |-> <<j, i>>]
    /\ IF bus_task = "Some" THEN UNCHANGED taskVars ELSE SpawnBusMain("Some")

\* Mutant of BusDeposit: the slots are released while an update may be on.
BusDepositAtOnce(S, alloc) ==
    /\ bus_allocations' = alloc \ S
    /\ IF bus_task = "Some"
       THEN bus_free_queue' = bus_free_queue \cup S /\ UNCHANGED taskVars
       ELSE /\ UNCHANGED bus_free_queue
            /\ IF S = {} THEN UNCHANGED taskVars ELSE SpawnBusMain("Some")

\* alloc: the allocations when bus_deposit is called.
BusDeposit(S, alloc) ==
    IF bus_task = "Some"
    THEN /\ bus_allocations' = alloc
         /\ bus_free_queue' = bus_free_queue \cup S
         /\ UNCHANGED taskVars
    ELSE /\ bus_allocations' = alloc \ S
         /\ UNCHANGED bus_free_queue
         /\ IF S = {} THEN UNCHANGED taskVars ELSE SpawnBusMain("Some")

-----------------------------------------------------------------------------
(***************************************************************************)
(* The jobs.                                                               *)
(***************************************************************************)

\* A process has the contents of its machine: it starts a job, or none.
RunJob(j) ==
    /\ cycle = "run" /\ stage[j] = "inv"
    /\ stage' = [stage EXCEPT ![j] = "load"]
    /\ part' = [p \in AllParts |-> IF p \in Parts(j) THEN "queued" ELSE part[p]]
    /\ BusAllocate(j)
    /\ UNCHANGED <<bus_allocations, bus_free_queue, updateVars, cycle, slot_of,
                   dirty, faults>>

SkipJob(j) ==
    /\ cycle = "run" /\ stage[j] = "inv"
    /\ \/ stage' = [stage EXCEPT ![j] = "done"] /\ UNCHANGED faults
       \/ stage' = [stage EXCEPT ![j] = "failed"] /\ Fault
    /\ UNCHANGED <<busVars, taskVars, updateVars, cycle, part, slot_of, dirty>>

\* With one computer no operation is executed after a List and answered
\* before it.
MayAnswer == ~(OneClient /\ bus_main = "listed")

\* The items of one input have arrived in the slot, or the transfer failed
\* before or after it moved them.
Extracted(p) ==
    /\ part[p] = "extracting" /\ MayAnswer
    /\ \/ /\ part' = [part EXCEPT ![p] = "loaded"]
          /\ dirty' = dirty \cup {slot_of[p]}
          /\ UNCHANGED faults
       \/ /\ part' = [part EXCEPT ![p] = "failed"]
          /\ dirty' \in {dirty, dirty \cup {slot_of[p]}}
          /\ Fault
    /\ UNCHANGED <<busVars, taskVars, updateVars, cycle, stage, slot_of>>

StartInsert(j) ==
    /\ stage[j] = "load" /\ Kind[j] # "extract" /\ AllLoaded(j)
    /\ stage' = [stage EXCEPT ![j] = "insert"]
    /\ UNCHANGED <<busVars, taskVars, updateVars, cycle, part, slot_of, dirty, faults>>

\* Mutant of ReturnSlots: a job that fails forgets its slots.
ReturnSlotsForgotten(j, result) ==
    /\ stage' = [stage EXCEPT ![j] = result]
    /\ HandSlots(Parts(j), {}, slot_of)
    /\ BusDeposit(IF result = "failed" THEN {} ELSE SlotsOf(j), bus_allocations)
    /\ UNCHANGED <<bus_wait_queue, updateVars, cycle>>

\* Every obtained slot goes to bus_deposit: an output in the bus, or an error.
ReturnSlots(j, result) ==
    /\ stage' = [stage EXCEPT ![j] = result]
    /\ HandSlots(Parts(j), {}, slot_of)
    /\ BusDeposit(SlotsOf(j), bus_allocations)
    /\ UNCHANGED <<bus_wait_queue, updateVars, cycle>>

JobLoaded(j) ==
    /\ stage[j] = "load" /\ Ended(j)
    /\ Kind[j] = "extract" \/ ~AllLoaded(j)
    /\ ReturnSlots(j, IF AllLoaded(j) THEN "done" ELSE "failed")
    /\ UNCHANGED <<dirty, faults>>

InsertFailed(j) ==
    /\ stage[j] = "insert" /\ MayAnswer /\ Fault
    /\ ReturnSlots(j, "failed")
    /\ \E emptied \in SUBSET SlotsOf(j) : dirty' = dirty \ emptied

\* The slot that received the product of a crafting grid is deposited.
Kept(j, p) == IF Kind[j] = "craft" THEN {slot_of[p]} ELSE {}
Freed(j, p) == SlotsOf(j) \ Kept(j, p)

\* The inputs have left the bus: bus_free for their slots, then bus_deposit.
Inserted(j) ==
    /\ stage[j] = "insert" /\ MayAnswer
    /\ \E p \in Parts(j), n \in 0 .. Len(bus_wait_queue) :
         \E h \in [Granted(n) -> Freed(j, p)] :
           /\ HandOver(n, h, Freed(j, p))
           /\ HandSlots(Parts(j), Granted(n), h)
           /\ BusDeposit(Kept(j, p), bus_allocations \ (Freed(j, p) \ Image(n, h)))
           /\ dirty' = dirty \ Freed(j, p)
    /\ stage' = [stage EXCEPT ![j] = "done"]
    /\ UNCHANGED <<updateVars, cycle, faults>>

-----------------------------------------------------------------------------
(***************************************************************************)
(* The task bus_main and its bus_update.                                   *)
(***************************************************************************)

\* Mutant of FinishUpdate: bus_main loops only when slots were freed.
FinishUpdateIfFreed(alloc, ever_deposited) ==
    /\ bus_allocations' = alloc \ bus_free_queue
    /\ bus_free_queue' = {}
    /\ IF bus_free_queue # {}
       THEN bus_main' = "listing" /\ n_bus_updates' = 1 /\ UNCHANGED bus_task
       ELSE bus_main' = "idle" /\ bus_task' = "None" /\ UNCHANGED n_bus_updates

\* The end of bus_update, and bus_main that loops or ends on its result.
FinishUpdate(alloc, ever_deposited) ==
    /\ bus_allocations' = alloc \ bus_free_queue
    /\ bus_free_queue' = {}
    /\ IF bus_free_queue # {} \/ (ever_deposited /\ bus_wait_queue' # <<>>)
       THEN bus_main' = "listing" /\ n_bus_updates' = 1 /\ UNCHANGED bus_task
       ELSE bus_main' = "idle" /\ bus_task' = "None" /\ UNCHANGED n_bus_updates

\* Mutant of FailWaiters: Factory.bus_task is not reset on an error.
FailWaitersTaskKept ==
    /\ part' = [p \in AllParts |-> IF p \in InQueue THEN "failed" ELSE part[p]]
    /\ bus_wait_queue' = <<>>
    /\ bus_main' = "idle"
    /\ UNCHANGED <<bus_allocations, bus_free_queue, bus_task, n_bus_updates, slot_of>>

\* An error in bus_update is sent to every waiter.
FailWaiters ==
    /\ part' = [p \in AllParts |-> IF p \in InQueue THEN "failed" ELSE part[p]]
    /\ bus_wait_queue' = <<>>
    /\ bus_main' = "idle" /\ bus_task' = "None"
    /\ UNCHANGED <<bus_allocations, bus_free_queue, n_bus_updates, slot_of>>

\* A computer executes the List.
ListBus ==
    /\ bus_main = "listing"
    /\ bus_main' = "listed"
    /\ listed' = dirty
    /\ UNCHANGED <<busVars, bus_task, n_bus_updates, depositing, deposit_result, cycle,
                   jobVars, dirty, faults>>

\* The slots of a List that bus_update may touch.
Unclaimed(S) == S \ bus_allocations

\* After the grants: wait for the deposits or, without any, end the update.
AfterGrants(alloc, occupied) ==
    IF occupied = {}
    THEN FinishUpdate(alloc, FALSE)
    ELSE /\ bus_allocations' = alloc
         /\ bus_main' = "depositing"
         /\ UNCHANGED <<bus_free_queue, bus_task, n_bus_updates>>

\* The answer of the List: unclaimed slots are emptied or granted.
GrantAndClean ==
    LET occupied == Unclaimed(listed)
        free == Unclaimed(Slots \ listed)
    IN
    /\ bus_main = "listed"
    /\ \E n \in 0 .. Len(bus_wait_queue) : \E h \in [Granted(n) -> free] :
         /\ HandOver(n, h, free)
         /\ HandSlots({}, Granted(n), h)
         /\ AfterGrants(bus_allocations \cup Image(n, h), occupied)
    /\ depositing' = occupied
    /\ deposit_result' = "Ok"
    /\ listed' = {}
    /\ UNCHANGED <<cycle, stage, dirty, faults>>

\* One slot is emptied into the storages, or its transfer failed.
Deposited(s) ==
    /\ bus_main = "depositing" /\ s \in depositing
    /\ depositing' = depositing \ {s}
    /\ \/ dirty' = dirty \ {s} /\ UNCHANGED <<deposit_result, faults>>
       \/ dirty' \in {dirty, dirty \ {s}} /\ deposit_result' = "Err" /\ Fault
    /\ UNCHANGED <<busVars, taskVars, listed, cycle, jobVars>>

DepositsJoined ==
    /\ bus_main = "depositing" /\ depositing = {}
    /\ \/ /\ deposit_result = "Ok"
          /\ UNCHANGED <<bus_wait_queue, part, slot_of>>
          /\ FinishUpdate(bus_allocations, TRUE)
       \/ deposit_result = "Err" /\ FailWaiters
    /\ deposit_result' = "Ok"
    /\ UNCHANGED <<listed, depositing, cycle, stage, dirty, faults>>

ListFailed ==
    /\ bus_main \in {"listing", "listed"} /\ Fault
    /\ FailWaiters
    /\ listed' = {}
    /\ UNCHANGED <<depositing, deposit_result, cycle, stage, dirty>>

-----------------------------------------------------------------------------
(***************************************************************************)
(* The cycle of factory_main.                                              *)
(***************************************************************************)

StoragesUpdated ==
    /\ cycle = "update"
    /\ cycle' = "run"
    /\ stage' \in [Jobs -> {"off", "inv"}]
    /\ UNCHANGED <<busVars, taskVars, updateVars, part, slot_of, dirty, faults>>

\* Without storages the cycle fails: no processes and no bus update.
StoragesFailed ==
    /\ cycle = "update" /\ Fault
    /\ cycle' = "drain"
    /\ bus_task' = "None"
    /\ UNCHANGED <<busVars, bus_main, n_bus_updates, updateVars, jobVars, dirty>>

\* Mutant of ProcessesJoined: no update in a cycle whose jobs needed none.
ProcessesJoinedNoUpdate ==
    /\ cycle = "run"
    /\ \A j \in Jobs : stage[j] \in {"off", "done", "failed"}
    /\ cycle' = "drain"
    /\ bus_task' = "None"
    /\ UNCHANGED <<busVars, bus_main, n_bus_updates, updateVars, jobVars, dirty, faults>>

\* factory_main takes the bus task; a good cycle has at least one update.
ProcessesJoined ==
    /\ cycle = "run"
    /\ \A j \in Jobs : stage[j] \in {"off", "done", "failed"}
    /\ cycle' = "drain"
    /\ IF (\A j \in Jobs : stage[j] # "failed") /\ bus_task = "None" /\ n_bus_updates = 0
       THEN SpawnBusMain("None")
       ELSE bus_task' = "None" /\ UNCHANGED <<bus_main, n_bus_updates>>
    /\ UNCHANGED <<busVars, updateVars, jobVars, dirty, faults>>

EndOfCycle ==
    /\ cycle = "drain" /\ bus_main = "idle"
    /\ cycle' = "sleep"
    /\ stage' = [j \in Jobs |-> "off"]
    /\ UNCHANGED <<busVars, taskVars, updateVars, part, slot_of, dirty, faults>>

StartCycle ==
    /\ cycle = "sleep"
    /\ cycle' = "update"
    /\ n_bus_updates' = 0
    /\ UNCHANGED <<busVars, bus_task, bus_main, updateVars, jobVars, dirty, faults>>

\* The server is terminated and started again: all of its state is lost,
\* and the transfers in flight are executed or not.
Restart ==
    LET loading == {slot_of[p] : p \in {q \in AllParts : part[q] = "extracting"}}
        leaving == depositing \cup UNION {SlotsOf(j) : j \in {i \in Jobs : stage[i] = "insert"}}
    IN
    /\ Fault
    /\ bus_allocations' = {} /\ bus_wait_queue' = <<>> /\ bus_free_queue' = {}
    /\ bus_task' = "None" /\ bus_main' = "idle" /\ n_bus_updates' = 0
    /\ listed' = {} /\ depositing' = {} /\ deposit_result' = "Ok"
    /\ cycle' = "update"
    /\ stage' = [j \in Jobs |-> "off"]
    /\ part' = [p \in AllParts |-> "idle"]
    /\ slot_of' = [p \in AllParts |-> NoSlot]
    /\ \E arrived \in SUBSET loading, gone \in SUBSET leaving :
         dirty' = (dirty \ gone) \cup arrived

Update == ListBus \/ GrantAndClean \/ DepositsJoined \/ \E s \in Slots : Deposited(s)
JobStep(j) ==
    \/ RunJob(j) \/ SkipJob(j) \/ StartInsert(j) \/ JobLoaded(j) \/ Inserted(j)
    \/ \E p \in Parts(j) : Extracted(p)
Cycle == StoragesUpdated \/ ProcessesJoined \/ EndOfCycle \/ StartCycle

Next ==
    \/ Update \/ ListFailed
    \/ \E j \in Jobs : JobStep(j) \/ InsertFailed(j)
    \/ Cycle \/ StoragesFailed
    \/ Restart

(***************************************************************************)
(* The tokio executor polls every ready task, every request is answered or *)
(* fails after the timeout of server.rs, and the sleep of a cycle ends.    *)
(***************************************************************************)
Fairness == WF_vars(Update) /\ WF_vars(Cycle) /\ \A j \in Jobs : WF_vars(JobStep(j))

Spec == Init /\ [][Next]_vars
FairSpec == Spec /\ Fairness
-----------------------------------------------------------------------------
(***************************************************************************)
(* What the bus promises.                                                  *)
(***************************************************************************)
Held == {slot_of[p] : p \in AllParts} \ {NoSlot}
Active(j) == stage[j] \in {"inv", "load", "insert"}

\* A slot belongs to one request at a time: no two sub-tasks ever move items
\* through the same slot, whatever way it reached them (bus_update, bus_free).
ExclusiveSlots ==
    \A p, q \in AllParts : slot_of[p] = slot_of[q] /\ slot_of[p] # NoSlot => p = q

\* bus_allocations is exactly what requests hold and what waits in
\* bus_free_queue: no slot is lost when a job or an update fails, and none
\* that is in use can be emptied or granted by bus_update.
NoSlotLost ==
    /\ bus_allocations = Held \cup bus_free_queue
    /\ Held \cap bus_free_queue = {}

\* A sub-task that obtains a slot finds it empty, so the items of two inputs
\* never mix, however old the snapshot that bus_update granted it from.
GrantedSlotIsEmpty ==
    \A p \in AllParts : part[p] = "extracting" => slot_of[p] \notin dirty

\* A request left in bus_wait_queue when no bus_main will look at it again
\* waits for slots that jobs hold: none is free or queued to be freed.
NoStrandedWaiter ==
    bus_wait_queue # <<>> /\ bus_task = "None" =>
        bus_allocations = Slots /\ bus_free_queue = {}

\* bus_update only deposits into storages that are up to date, while
\* factory_main still waits for it; and once factory_main took the task no
\* job is left that could start a second bus_main.
OneUpdater ==
    /\ bus_main # "idle" => cycle \in {"run", "drain"}
    /\ bus_task = "Some" => bus_main # "idle" /\ cycle = "run"
    /\ bus_main # "idle" /\ bus_task = "None" => \A j \in Jobs : ~Active(j)

\* Requests of one job are queued together, so at most one job both holds
\* slots and waits for more: jobs cannot block each other in a circle.
OneJobHoldsAndWaits ==
    \A j, k \in Jobs :
        (/\ \E p \in Parts(j), q \in Parts(k) : slot_of[p] # NoSlot /\ slot_of[q] # NoSlot
         /\ \E p \in Parts(j), q \in Parts(k) : part[p] = "queued" /\ part[q] = "queued")
        => j = k

\* What bus_update deposits is really in the bus: the accounts of the
\* storages are not credited with items that a job already took away.
NoPhantomDeposit == depositing \subseteq dirty

\* Every request gets a slot or an error, also when updates fail, when the
\* server restarts and when jobs compete for fewer slots than they need.
RequestsAnswered == \A p \in AllParts : part[p] = "queued" ~> part[p] # "queued"

\* factory_main never hangs: every cycle ends.
CyclesEnd == []<>(cycle = "sleep")

\* Items left in the bus by a failure or an earlier run are stored away.
BusCleaned == \A s \in Slots : s \in dirty ~> s \notin dirty

\* A slot whose update failed before bus_free_queue was taken is freed later.
FreeQueueDrained == \A s \in Slots : s \in bus_free_queue ~> s \notin bus_free_queue
=============================================================================
