------------------------------ MODULE FluidBus ------------------------------
(***************************************************************************)
(* The fluid bus of the Rust server: the shared tanks through which the    *)
(* processes move fluids (the fluid_bus_ operations of factory.rs and      *)
(* their callers fluid_slotted.rs and blocking_fluid_output.rs).           *)
(*                                                                         *)
(* It differs from the item bus (ItemBus) where an update ends: the tanks  *)
(* are read one by one, the buses that were emptied are granted after the  *)
(* deposits, and the update is repeated only when buses were freed.  The   *)
(* atomic steps are those of ItemBus.  A restart leads back to a state of  *)
(* Init, which is why there is no action for it.                           *)
(***************************************************************************)
EXTENDS Naturals, Sequences

CONSTANTS
    Buses,          \* the fluid buses (indices of FluidAccess.tanks)
    NoBus,          \* "no bus obtained yet"
    Jobs,           \* the jobs a cycle may run (one recipe or extraction each)
    Need,           \* Need[j]: how many buses job j requests
    Kind,           \* Kind[j]: "recipe" or "extract"
    MaxFaults       \* bound on failures in a behaviour

ASSUME BusesAssumption == Buses # {} /\ NoBus \notin Buses
ASSUME FluidJobsAssumption ==
    /\ Need \in [Jobs -> Nat \ {0}]
    /\ Kind \in [Jobs -> {"recipe", "extract"}]
    /\ \A j \in Jobs : Kind[j] = "extract" => Need[j] = 1
ASSUME FaultsAssumption == MaxFaults \in Nat

VARIABLES
    fluid_bus_allocations,  \* Factory.fluid_bus_allocations
    fluid_bus_wait_queue,   \* Factory.fluid_bus_wait_queue: the waiting parts
    fluid_bus_free_queue,   \* Factory.fluid_bus_free_queue
    fluid_bus_task,         \* Factory.fluid_bus_task, an Option
    fluid_bus_main,         \* where the fluid_bus_main task is, "idle": none
    unread,                 \* the buses whose tanks are not read yet
    filled,                 \* the buses whose tanks were read with fluid
    depositing,             \* the buses whose deposit tasks are not joined yet
    emptied,                \* empty_buses_after_deposit
    result,                 \* the result of the tasks joined so far
    n_updates,              \* n_fluid_bus_updates, capped at 1
    cycle,                  \* where factory_main is
    stage,                  \* stage[j]: where job j is
    part,                   \* part[p]: where the sub-task of one input is
    bus_of,                 \* bus_of[p]: the bus it obtained
    dirty,                  \* the buses that hold fluid in the game
    faults                  \* failures still allowed

busVars == <<fluid_bus_allocations, fluid_bus_wait_queue, fluid_bus_free_queue>>
taskVars == <<fluid_bus_task, fluid_bus_main, n_updates>>
updateVars == <<unread, filled, depositing, emptied, result>>
jobVars == <<stage, part, bus_of>>
vars == <<busVars, taskVars, updateVars, cycle, jobVars, dirty, faults>>

Parts(j) == {j} \X (1 .. Need[j])
AllParts == UNION {Parts(j) : j \in Jobs}
BusesOf(j) == {bus_of[p] : p \in Parts(j)} \ {NoBus}
InQueue == {fluid_bus_wait_queue[i] : i \in DOMAIN fluid_bus_wait_queue}
Ended(j) == \A p \in Parts(j) : part[p] \in {"loaded", "failed"}
AllLoaded(j) == \A p \in Parts(j) : part[p] = "loaded"
Over(j) == stage[j] \in {"off", "done", "failed"}

TypeOK ==
    /\ fluid_bus_allocations \subseteq Buses
    /\ fluid_bus_wait_queue \in Seq(AllParts)
    /\ fluid_bus_free_queue \subseteq Buses
    /\ fluid_bus_task \in {"None", "Some"}
    /\ fluid_bus_main \in {"idle", "reading", "depositing"}
    /\ unread \subseteq Buses /\ filled \subseteq Buses
    /\ depositing \subseteq emptied /\ emptied \subseteq Buses
    /\ result \in {"Ok", "Err"}
    /\ n_updates \in {0, 1}
    /\ cycle \in {"update", "run", "drain", "sleep"}
    /\ stage \in [Jobs -> {"off", "tanks", "load", "insert", "done", "failed"}]
    /\ part \in [AllParts -> {"idle", "queued", "extracting", "loaded", "failed"}]
    /\ bus_of \in [AllParts -> Buses \cup {NoBus}]
    /\ dirty \subseteq Buses
    /\ faults \in 0 .. MaxFaults

(***************************************************************************)
(* Fluids of an earlier run of the server may be left in the buses.        *)
(***************************************************************************)
Init ==
    /\ fluid_bus_allocations = {} /\ fluid_bus_wait_queue = <<>>
    /\ fluid_bus_free_queue = {}
    /\ fluid_bus_task = "None" /\ fluid_bus_main = "idle" /\ n_updates = 0
    /\ unread = {} /\ filled = {} /\ depositing = {} /\ emptied = {} /\ result = "Ok"
    /\ cycle = "update"
    /\ stage = [j \in Jobs |-> "off"]
    /\ part = [p \in AllParts |-> "idle"]
    /\ bus_of = [p \in AllParts |-> NoBus]
    /\ dirty \in SUBSET Buses
    /\ faults = MaxFaults

Fault == faults > 0 /\ faults' = faults - 1

-----------------------------------------------------------------------------
(***************************************************************************)
(* The operations of Factory on the fluid bus.                             *)
(***************************************************************************)

\* spawn(fluid_bus_main): its first poll sends a read of every bus.
SpawnBusMain(handle) ==
    /\ fluid_bus_task' = handle
    /\ fluid_bus_main' = "reading" /\ unread' = Buses /\ n_updates' = 1

\* The first n waiters take the buses h of F, until either run out.
Granted(n) == {fluid_bus_wait_queue[i] : i \in 1 .. n}
Image(n, h) == {h[p] : p \in Granted(n)}
HandOver(n, h, F) ==
    /\ h \in [Granted(n) -> F]
    /\ \A p, q \in Granted(n) : h[p] = h[q] => p = q
    /\ n = Len(fluid_bus_wait_queue) \/ Image(n, h) = F
    /\ fluid_bus_wait_queue' =
         SubSeq(fluid_bus_wait_queue, n + 1, Len(fluid_bus_wait_queue))

\* The parts in done end; those in granted start with the bus h gives them.
HandBuses(done, granted, h) ==
    /\ part' = [p \in AllParts |-> IF p \in granted THEN "extracting"
                                   ELSE IF p \in done THEN "idle" ELSE part[p]]
    /\ bus_of' = [p \in AllParts |-> IF p \in granted THEN h[p]
                                     ELSE IF p \in done THEN NoBus ELSE bus_of[p]]

FluidBusAllocate(j) ==
    /\ fluid_bus_wait_queue' = fluid_bus_wait_queue \o [i \in 1 .. Need[j] |-> <<j, i>>]
    /\ IF fluid_bus_task = "Some" THEN UNCHANGED <<taskVars, unread>> ELSE SpawnBusMain("Some")

\* Mutant of FluidBusDeposit: released at once, although an update may be on.
FluidBusDepositAtOnce(S) ==
    /\ fluid_bus_allocations' = fluid_bus_allocations \ S
    /\ UNCHANGED fluid_bus_free_queue
    /\ IF S = {} \/ fluid_bus_task = "Some"
       THEN UNCHANGED <<taskVars, unread>> ELSE SpawnBusMain("Some")

FluidBusDeposit(S) ==
    IF fluid_bus_task = "Some"
    THEN /\ fluid_bus_free_queue' = fluid_bus_free_queue \cup S
         /\ UNCHANGED <<fluid_bus_allocations, taskVars, unread>>
    ELSE /\ fluid_bus_allocations' = fluid_bus_allocations \ S
         /\ UNCHANGED fluid_bus_free_queue
         /\ IF S = {} THEN UNCHANGED <<taskVars, unread>> ELSE SpawnBusMain("Some")

-----------------------------------------------------------------------------
(***************************************************************************)
(* The jobs: fluid recipes and extractions of fluid outputs.               *)
(***************************************************************************)

\* A process has read its machine: it requests buses, or has nothing to do.
RunJob(j) ==
    /\ cycle = "run" /\ stage[j] = "tanks"
    /\ stage' = [stage EXCEPT ![j] = "load"]
    /\ part' = [p \in AllParts |-> IF p \in Parts(j) THEN "queued" ELSE part[p]]
    /\ FluidBusAllocate(j)
    /\ UNCHANGED <<fluid_bus_allocations, fluid_bus_free_queue, filled, depositing,
                   emptied, result, cycle, bus_of, dirty, faults>>

SkipJob(j) ==
    /\ cycle = "run" /\ stage[j] = "tanks"
    /\ \/ stage' = [stage EXCEPT ![j] = "done"] /\ UNCHANGED faults
       \/ stage' = [stage EXCEPT ![j] = "failed"] /\ Fault
    /\ UNCHANGED <<busVars, taskVars, updateVars, cycle, part, bus_of, dirty>>

\* The fluid of one input has arrived in the bus, or a transfer has failed
\* before or after it moved fluid.
Extracted(p) ==
    /\ part[p] = "extracting"
    /\ \/ /\ part' = [part EXCEPT ![p] = "loaded"]
          /\ dirty' = dirty \cup {bus_of[p]}
          /\ UNCHANGED faults
       \/ /\ part' = [part EXCEPT ![p] = "failed"]
          /\ dirty' \in {dirty, dirty \cup {bus_of[p]}}
          /\ Fault
    /\ UNCHANGED <<busVars, taskVars, updateVars, cycle, stage, bus_of>>

StartInsert(j) ==
    /\ stage[j] = "load" /\ Kind[j] = "recipe" /\ AllLoaded(j)
    /\ stage' = [stage EXCEPT ![j] = "insert"]
    /\ UNCHANGED <<busVars, taskVars, updateVars, cycle, part, bus_of, dirty, faults>>

\* Mutant of ReturnBuses: a job that fails forgets its buses.
ReturnBusesForgotten(j, end) ==
    /\ stage' = [stage EXCEPT ![j] = end]
    /\ HandBuses(Parts(j), {}, bus_of)
    /\ FluidBusDeposit(IF end = "failed" THEN {} ELSE BusesOf(j))
    /\ UNCHANGED <<fluid_bus_wait_queue, filled, depositing, emptied, result, cycle>>

\* Every obtained bus goes to fluid_bus_deposit: an output in it, or an error.
ReturnBuses(j, end) ==
    /\ stage' = [stage EXCEPT ![j] = end]
    /\ HandBuses(Parts(j), {}, bus_of)
    /\ FluidBusDeposit(BusesOf(j))
    /\ UNCHANGED <<fluid_bus_wait_queue, filled, depositing, emptied, result, cycle>>

\* The sub-tasks are joined: an extraction is over, a failed recipe too.
JobLoaded(j) ==
    /\ stage[j] = "load" /\ Ended(j)
    /\ Kind[j] = "extract" \/ ~AllLoaded(j)
    /\ ReturnBuses(j, IF AllLoaded(j) THEN "done" ELSE "failed")
    /\ UNCHANGED <<dirty, faults>>

\* A recipe whose fluids arrived fails with its items, or when it inserts.
RecipeFailed(j) ==
    /\ stage[j] \in {"load", "insert"} /\ Kind[j] = "recipe" /\ AllLoaded(j) /\ Fault
    /\ ReturnBuses(j, "failed")
    /\ \E left \in SUBSET BusesOf(j) :
         dirty' = IF stage[j] = "insert" THEN dirty \ left ELSE dirty

\* The fluids have left the buses: fluid_bus_free for each of them.
Inserted(j) ==
    /\ stage[j] = "insert"
    /\ \E n \in 0 .. Len(fluid_bus_wait_queue) : \E h \in [Granted(n) -> BusesOf(j)] :
         /\ HandOver(n, h, BusesOf(j))
         /\ HandBuses(Parts(j), Granted(n), h)
         /\ fluid_bus_allocations' = fluid_bus_allocations \ (BusesOf(j) \ Image(n, h))
    /\ dirty' = dirty \ BusesOf(j)
    /\ stage' = [stage EXCEPT ![j] = "done"]
    /\ UNCHANGED <<fluid_bus_free_queue, taskVars, updateVars, cycle, faults>>

-----------------------------------------------------------------------------
(***************************************************************************)
(* The task fluid_bus_main and its fluid_bus_update.                       *)
(***************************************************************************)

\* fluid_bus_main loops when the update freed buses, and ends otherwise.
LoopIf(freed) ==
    IF freed
    THEN fluid_bus_main' = "reading" /\ unread' = Buses /\ n_updates' = 1 /\ UNCHANGED fluid_bus_task
    ELSE fluid_bus_main' = "idle" /\ fluid_bus_task' = "None" /\ UNCHANGED <<unread, n_updates>>

FinishUpdate(alloc) ==
    /\ fluid_bus_allocations' = alloc \ fluid_bus_free_queue
    /\ fluid_bus_free_queue' = {}
    /\ LoopIf(fluid_bus_free_queue # {})

\* An error in fluid_bus_update is sent to every waiter.
FailWaiters ==
    /\ part' = [p \in AllParts |-> IF p \in InQueue THEN "failed" ELSE part[p]]
    /\ fluid_bus_wait_queue' = <<>>
    /\ fluid_bus_main' = "idle" /\ fluid_bus_task' = "None"
    /\ UNCHANGED <<fluid_bus_allocations, fluid_bus_free_queue, n_updates, unread, bus_of>>

\* A computer reads the tanks of one bus, or fails to.
ReadTanks(b) ==
    /\ fluid_bus_main = "reading" /\ b \in unread
    /\ unread' = unread \ {b}
    /\ \/ filled' = filled \cup ({b} \cap dirty) /\ UNCHANGED <<result, faults>>
       \/ result' = "Err" /\ Fault /\ UNCHANGED filled
    /\ UNCHANGED <<busVars, taskVars, depositing, emptied, cycle, jobVars, dirty>>

\* Mutant of Unclaimed: allocated buses are not skipped.
UnclaimedOrNot(S) == S

\* The buses that fluid_bus_update may touch.
Unclaimed(S) == S \ fluid_bus_allocations

\* All buses are read: unclaimed ones are emptied or granted.
GrantAndClean ==
    LET occupied == Unclaimed(filled)
        free == Unclaimed(Buses \ filled)
    IN
    /\ fluid_bus_main = "reading" /\ unread = {} /\ result = "Ok"
    /\ \E n \in 0 .. Len(fluid_bus_wait_queue) : \E h \in [Granted(n) -> free] :
         /\ HandOver(n, h, free)
         /\ HandBuses({}, Granted(n), h)
         /\ IF occupied = {}
            THEN FinishUpdate(fluid_bus_allocations \cup Image(n, h))
            ELSE /\ fluid_bus_allocations' = fluid_bus_allocations \cup Image(n, h)
                 /\ fluid_bus_main' = "depositing"
                 /\ UNCHANGED <<fluid_bus_free_queue, fluid_bus_task, n_updates, unread>>
    /\ depositing' = occupied /\ emptied' = occupied
    /\ filled' = {}
    /\ UNCHANGED <<result, cycle, stage, dirty, faults>>

ReadsFailed ==
    /\ fluid_bus_main = "reading" /\ unread = {} /\ result = "Err"
    /\ FailWaiters
    /\ filled' = {} /\ result' = "Ok"
    /\ UNCHANGED <<depositing, emptied, cycle, stage, dirty, faults>>

\* One bus is emptied into the fluid storages, or a transfer has failed.
Deposited(b) ==
    /\ fluid_bus_main = "depositing" /\ b \in depositing
    /\ depositing' = depositing \ {b}
    /\ \/ dirty' = dirty \ {b} /\ UNCHANGED <<result, faults>>
       \/ dirty' \in {dirty, dirty \ {b}} /\ result' = "Err" /\ Fault
    /\ UNCHANGED <<busVars, taskVars, unread, filled, emptied, cycle, jobVars>>

\* The deposits are joined: the emptied buses are granted too.
DepositsJoined ==
    /\ fluid_bus_main = "depositing" /\ depositing = {}
    /\ \/ /\ result = "Ok"
          /\ \E n \in 0 .. Len(fluid_bus_wait_queue) : \E h \in [Granted(n) -> emptied] :
               /\ HandOver(n, h, emptied)
               /\ HandBuses({}, Granted(n), h)
               /\ FinishUpdate(fluid_bus_allocations \cup Image(n, h))
       \/ result = "Err" /\ FailWaiters
    /\ emptied' = {} /\ result' = "Ok"
    /\ UNCHANGED <<filled, depositing, cycle, stage, dirty, faults>>

-----------------------------------------------------------------------------
(***************************************************************************)
(* The cycle of factory_main.                                              *)
(***************************************************************************)
StoragesUpdated ==
    /\ cycle = "update"
    /\ cycle' = "run"
    /\ stage' \in [Jobs -> {"off", "tanks"}]
    /\ UNCHANGED <<busVars, taskVars, updateVars, part, bus_of, dirty, faults>>

\* Without storages the cycle fails: no processes and no update of the bus.
StoragesFailed ==
    /\ cycle = "update" /\ Fault
    /\ cycle' = "drain"
    /\ UNCHANGED <<busVars, taskVars, updateVars, jobVars, dirty>>

\* factory_main takes the task; a good cycle has at least one update.
ProcessesJoined ==
    /\ cycle = "run" /\ \A j \in Jobs : Over(j)
    /\ cycle' = "drain"
    /\ IF (\A j \in Jobs : stage[j] # "failed") /\ fluid_bus_task = "None" /\ n_updates = 0
       THEN SpawnBusMain("None")
       ELSE fluid_bus_task' = "None" /\ UNCHANGED <<fluid_bus_main, n_updates, unread>>
    /\ UNCHANGED <<busVars, filled, depositing, emptied, result, jobVars, dirty, faults>>

EndOfCycle ==
    /\ cycle = "drain" /\ fluid_bus_main = "idle"
    /\ cycle' = "sleep"
    /\ stage' = [j \in Jobs |-> "off"]
    /\ UNCHANGED <<busVars, taskVars, updateVars, part, bus_of, dirty, faults>>

StartCycle ==
    /\ cycle = "sleep"
    /\ cycle' = "update"
    /\ n_updates' = 0
    /\ UNCHANGED <<busVars, fluid_bus_task, fluid_bus_main, updateVars, jobVars, dirty, faults>>

Next ==
    \/ GrantAndClean \/ ReadsFailed \/ DepositsJoined
    \/ \E b \in Buses : ReadTanks(b) \/ Deposited(b)
    \/ \E j \in Jobs :
         \/ RunJob(j) \/ SkipJob(j) \/ StartInsert(j) \/ JobLoaded(j)
         \/ Inserted(j) \/ RecipeFailed(j)
         \/ \E p \in Parts(j) : Extracted(p)
    \/ StoragesUpdated \/ StoragesFailed \/ ProcessesJoined \/ EndOfCycle \/ StartCycle

Spec == Init /\ [][Next]_vars
-----------------------------------------------------------------------------
(***************************************************************************)
(* What the fluid bus promises.                                            *)
(***************************************************************************)
Held == {bus_of[p] : p \in AllParts} \ {NoBus}

\* A bus belongs to one request at a time, whatever way it reached it: from
\* the reads, after the deposits, or from a recipe that is done.
ExclusiveBuses ==
    \A p, q \in AllParts : bus_of[p] = bus_of[q] /\ bus_of[p] # NoBus => p = q

\* fluid_bus_allocations is exactly what requests hold and what waits in
\* fluid_bus_free_queue: no bus is lost when a job or an update fails.
NoBusLost ==
    /\ fluid_bus_allocations = Held \cup fluid_bus_free_queue
    /\ Held \cap fluid_bus_free_queue = {}

\* A sub-task that obtains a bus finds it empty, although the reads are old
\* and the buses cleaned by the update are granted without a second read.
GrantedBusIsEmpty ==
    \A p \in AllParts : part[p] = "extracting" => bus_of[p] \notin dirty

\* At most one job both holds buses and waits for more: no circular wait.
OneJobHoldsAndWaits ==
    \A j, k \in Jobs :
        (/\ \E p \in Parts(j), q \in Parts(k) : bus_of[p] # NoBus /\ bus_of[q] # NoBus
         /\ \E p \in Parts(j), q \in Parts(k) : part[p] = "queued" /\ part[q] = "queued")
        => j = k

\* A request that waits is looked at again: fluid_bus_main is under way, or a job
\* is that waits for nothing itself, and will return its buses or ask for some.
\* Where neither is so, nothing but the loading of what waiting jobs hold is left,
\* and they wait forever.  The code breaks this: what was empty before the deposits
\* is not granted after them, and fluid_bus_update does not ask for another round.
NoStrandedWaiter ==
    fluid_bus_wait_queue # <<>> =>
        \/ fluid_bus_main # "idle"
        \/ \E j \in Jobs : ~Over(j) /\ \A p \in Parts(j) : part[p] # "queued"
=============================================================================
