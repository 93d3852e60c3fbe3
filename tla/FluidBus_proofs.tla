-------------------------- MODULE FluidBus_proofs --------------------------
(***************************************************************************)
(* The inductive invariant of FluidBus and the theorems it proves, along   *)
(* the lines of ItemBus_proofs.  Two grants differ from those of the item  *)
(* bus: buses are granted while others are read, and buses that a deposit  *)
(* emptied are granted without a second read.                              *)
(***************************************************************************)
EXTENDS FluidBus, SequenceTheorems, TLAPS

(***************************************************************************)
(* The inductive invariant.                                                *)
(***************************************************************************)
\* The queue holds each waiting part once.
QueueOK ==
    /\ \A i, k \in 1 .. Len(fluid_bus_wait_queue) :
          fluid_bus_wait_queue[i] = fluid_bus_wait_queue[k] => i = k
    /\ \A i \in 1 .. Len(fluid_bus_wait_queue) : part[fluid_bus_wait_queue[i]] = "queued"
    /\ \A p \in AllParts : part[p] = "queued" =>
          \E i \in 1 .. Len(fluid_bus_wait_queue) : fluid_bus_wait_queue[i] = p

\* A part holds a bus from its grant to the end of its job.
PartsOK ==
    /\ \A p \in AllParts : part[p] \in {"idle", "queued"} => bus_of[p] = NoBus
    /\ \A p \in AllParts : part[p] \in {"extracting", "loaded"} => bus_of[p] # NoBus

\* Parts are only busy in a job that runs, and jobs only run in phase "run".
StagesOK ==
    /\ \A j \in Jobs : \A p \in Parts(j) :
          stage[j] \notin {"load", "insert"} => part[p] = "idle"
    /\ \A j \in Jobs : \A p \in Parts(j) : stage[j] = "insert" => part[p] = "loaded"
    /\ \A j \in Jobs : Over(j) \/ cycle = "run"

\* factory_main sees the task exactly while processes run.
TaskOK ==
    /\ fluid_bus_main # "idle" => cycle \in {"run", "drain"}
    /\ fluid_bus_task = "Some" <=> fluid_bus_main # "idle" /\ cycle = "run"

\* What got dirty since its bus was read is allocated.  What is emptied is not
\* allocated and, unless a deposit failed, is dirty only until its deposit ends.
ReadOK ==
    fluid_bus_main = "reading" /\ result = "Ok" =>
        dirty \ (filled \cup unread) \subseteq fluid_bus_allocations
EmptiedOK ==
    fluid_bus_main = "depositing" =>
        /\ emptied \cap fluid_bus_allocations = {}
        /\ result = "Ok" => emptied \cap dirty \subseteq depositing

Inv ==
    /\ TypeOK /\ QueueOK /\ PartsOK /\ StagesOK /\ TaskOK /\ ReadOK /\ EmptiedOK
    /\ ExclusiveBuses /\ NoBusLost /\ GrantedBusIsEmpty

-----------------------------------------------------------------------------
(***************************************************************************)
(* Parts, and what a hand-over does to the queue.                          *)
(***************************************************************************)
\* Every part belongs to exactly one job.
LEMMA PartsFacts ==
    /\ \A j \in Jobs : Parts(j) \subseteq AllParts
    /\ \A p \in AllParts : \E j \in Jobs : p \in Parts(j)
    /\ \A j, k \in Jobs : \A p \in Parts(j) : p \in Parts(k) => j = k
BY DEF Parts, AllParts

\* The second component of a pair is determined by the pair.
LEMMA PairInjective == \A a, b, c, d : <<a, b>> = <<c, d>> => b = d
OBVIOUS

\* A request adds each part of its job once.
LEMMA NewParts ==
    ASSUME NEW j \in Jobs
    PROVE  LET new == [i \in 1 .. Need[j] |-> <<j, i>>] IN
           /\ new \in Seq(AllParts)
           /\ Len(new) = Need[j]
           /\ \A i \in 1 .. Need[j] : new[i] = <<j, i>>
           /\ \A p \in Parts(j) : \E i \in 1 .. Need[j] : p = <<j, i>>
<1>1. Need[j] \in Nat
  BY FluidJobsAssumption
<1>2. \A i \in 1 .. Need[j] : <<j, i>> \in AllParts
  BY DEF Parts, AllParts
<1> QED
  BY <1>1, <1>2, IsASeq, LenProperties DEF Parts

\* The first n waiters leave the queue, the others keep their order.
LEMMA HandOverQueue ==
    ASSUME TypeOK, NEW n \in 0 .. Len(fluid_bus_wait_queue), NEW h, NEW F, HandOver(n, h, F)
    PROVE  /\ fluid_bus_wait_queue' \in Seq(AllParts)
           /\ Len(fluid_bus_wait_queue') = Len(fluid_bus_wait_queue) - n
           /\ \A i \in 1 .. Len(fluid_bus_wait_queue') :
                 fluid_bus_wait_queue'[i] = fluid_bus_wait_queue[n + i]
           /\ Granted(n) \subseteq AllParts
<1> DEFINE q == fluid_bus_wait_queue
<1>1. q \in Seq(AllParts) /\ Len(q) \in Nat /\ \A i \in 1 .. Len(q) : q[i] \in AllParts
  BY LenProperties, ElementOfSeq DEF TypeOK
<1>2. fluid_bus_wait_queue' = SubSeq(q, n + 1, Len(q))
  BY DEF HandOver
<1>3. /\ SubSeq(q, n + 1, Len(q)) \in Seq(AllParts)
      /\ Len(SubSeq(q, n + 1, Len(q))) = Len(q) - n
      /\ \A i \in 1 .. Len(q) - n : SubSeq(q, n + 1, Len(q))[i] = q[n + i]
  <2>1. n + 1 \in Int /\ Len(q) \in Int /\ \A i \in (n + 1) .. Len(q) : q[i] \in AllParts
    BY <1>1
  <2> QED
    BY <1>1, <2>1, SubSeqProperties
<1> QED
  BY <1>1, <1>2, <1>3 DEF Granted

-----------------------------------------------------------------------------
\* The states of a sub-task and of a job, as TypeOK lists them.
PartStates == {"idle", "queued", "extracting", "loaded", "failed"}
StageStates == {"off", "tanks", "load", "insert", "done", "failed"}

\* Handing buses of the bus to sub-tasks keeps the types of the sub-tasks.
LEMMA HandBusesType ==
    ASSUME TypeOK, NEW done, NEW granted, NEW h, HandBuses(done, granted, h),
           \A p \in granted : h[p] \in Buses
    PROVE  /\ part' \in [AllParts -> PartStates]
           /\ bus_of' \in [AllParts -> Buses \cup {NoBus}]
<1>1. part' \in [AllParts -> PartStates]
  BY DEF HandBuses, TypeOK, PartStates
<1>2. bus_of' \in [AllParts -> Buses \cup {NoBus}]
  BY DEF HandBuses, TypeOK
<1> QED
  BY <1>1, <1>2
\* A job holds buses of the bus.
LEMMA BusesOfType == ASSUME TypeOK, NEW j \in Jobs PROVE BusesOf(j) \subseteq Buses
BY PartsFacts DEF TypeOK, BusesOf

\* fluid_bus_deposit keeps the types of the bus and of the task.
LEMMA FluidBusDepositType ==
    ASSUME TypeOK, NEW S \in SUBSET Buses, FluidBusDeposit(S)
    PROVE  /\ fluid_bus_allocations' \subseteq Buses
           /\ fluid_bus_free_queue' \subseteq Buses
           /\ fluid_bus_task' \in {"None", "Some"}
           /\ fluid_bus_main' \in {"idle", "reading", "depositing"}
           /\ n_updates' \in {0, 1} /\ unread' \subseteq Buses
BY DEF TypeOK, FluidBusDeposit, SpawnBusMain, taskVars

\* The end of fluid_bus_update keeps the types of the bus and of the task.
LEMMA FinishUpdateType ==
    ASSUME TypeOK, NEW alloc \in SUBSET Buses, FinishUpdate(alloc)
    PROVE  /\ fluid_bus_allocations' \subseteq Buses
           /\ fluid_bus_free_queue' \subseteq Buses
           /\ fluid_bus_task' \in {"None", "Some"}
           /\ fluid_bus_main' \in {"idle", "reading", "depositing"}
           /\ n_updates' \in {0, 1} /\ unread' \subseteq Buses
BY DEF TypeOK, FinishUpdate, LoopIf

\* A failed update keeps the types of the bus, the task and the sub-tasks.
LEMMA FailWaitersType ==
    ASSUME TypeOK, FailWaiters
    PROVE  /\ part' \in [AllParts -> PartStates]
           /\ fluid_bus_wait_queue' \in Seq(AllParts)
           /\ fluid_bus_task' \in {"None", "Some"}
           /\ fluid_bus_main' \in {"idle", "reading", "depositing"}
BY EmptySeq DEF TypeOK, FailWaiters, PartStates

\* A job that ends and returns its buses keeps all types.
LEMMA ReturnBusesType ==
    ASSUME TypeOK, NEW j \in Jobs, NEW end \in StageStates, ReturnBuses(j, end)
    PROVE  /\ fluid_bus_allocations' \subseteq Buses
           /\ fluid_bus_free_queue' \subseteq Buses
           /\ fluid_bus_task' \in {"None", "Some"}
           /\ fluid_bus_main' \in {"idle", "reading", "depositing"}
           /\ n_updates' \in {0, 1} /\ unread' \subseteq Buses
           /\ stage' \in [Jobs -> StageStates]
           /\ part' \in [AllParts -> PartStates]
           /\ bus_of' \in [AllParts -> Buses \cup {NoBus}]
<1>1. FluidBusDeposit(BusesOf(j))
  BY DEF ReturnBuses
<1>2. HandBuses(Parts(j), {}, bus_of)
  BY DEF ReturnBuses
<1>3. stage' \in [Jobs -> StageStates]
  BY DEF ReturnBuses, TypeOK, StageStates
<1> QED
  BY <1>1, <1>2, <1>3, BusesOfType, FluidBusDepositType, HandBusesType

-----------------------------------------------------------------------------
(***************************************************************************)
(* The three ways a waiter gets a bus: from the reads, after the deposits, *)
(* and from a recipe that is done.                                         *)
(***************************************************************************)
\* Waiters take buses of F, and the parts in done end.
Handing(n, h, F, done) ==
    /\ n \in 0 .. Len(fluid_bus_wait_queue) /\ h \in [Granted(n) -> F]
    /\ HandOver(n, h, F) /\ HandBuses(done, Granted(n), h)

\* What is done with the buses of the reads.
LEMMA GrantFacts ==
    ASSUME GrantAndClean
    PROVE  /\ \E n, h : /\ Handing(n, h, Unclaimed(Buses \ filled), {})
                        /\ \/ FinishUpdate(fluid_bus_allocations \cup Image(n, h))
                           \/ /\ fluid_bus_allocations' = fluid_bus_allocations \cup Image(n, h)
                              /\ fluid_bus_main' = "depositing"
                              /\ UNCHANGED <<fluid_bus_free_queue, fluid_bus_task, n_updates, unread>>
           /\ fluid_bus_main = "reading" /\ unread = {} /\ result = "Ok"
           /\ depositing' = Unclaimed(filled) /\ emptied' = Unclaimed(filled) /\ filled' = {}
           /\ UNCHANGED <<result, cycle, stage, dirty, faults>>
<1> DEFINE F == Unclaimed(Buses \ filled)
<1>1. PICK n \in 0 .. Len(fluid_bus_wait_queue) : \E h \in [Granted(n) -> F] :
           /\ HandOver(n, h, F)
           /\ HandBuses({}, Granted(n), h)
           /\ IF Unclaimed(filled) = {}
              THEN FinishUpdate(fluid_bus_allocations \cup Image(n, h))
              ELSE /\ fluid_bus_allocations' = fluid_bus_allocations \cup Image(n, h)
                   /\ fluid_bus_main' = "depositing"
                   /\ UNCHANGED <<fluid_bus_free_queue, fluid_bus_task, n_updates, unread>>
  BY DEF GrantAndClean
<1>2. PICK h \in [Granted(n) -> F] :
           /\ HandOver(n, h, F)
           /\ HandBuses({}, Granted(n), h)
           /\ IF Unclaimed(filled) = {}
              THEN FinishUpdate(fluid_bus_allocations \cup Image(n, h))
              ELSE /\ fluid_bus_allocations' = fluid_bus_allocations \cup Image(n, h)
                   /\ fluid_bus_main' = "depositing"
                   /\ UNCHANGED <<fluid_bus_free_queue, fluid_bus_task, n_updates, unread>>
  BY <1>1
<1>3. Handing(n, h, F, {})
  BY <1>2 DEF Handing
<1>4. /\ fluid_bus_main = "reading" /\ unread = {} /\ result = "Ok"
      /\ depositing' = Unclaimed(filled) /\ emptied' = Unclaimed(filled) /\ filled' = {}
      /\ UNCHANGED <<result, cycle, stage, dirty, faults>>
  BY DEF GrantAndClean
<1> QED
  BY <1>2, <1>3, <1>4

\* What is done with the buses that the deposits emptied.
LEMMA JoinFacts ==
    ASSUME DepositsJoined
    PROVE  /\ \/ FailWaiters
              \/ /\ result = "Ok"
                 /\ \E n, h : /\ Handing(n, h, emptied, {})
                              /\ FinishUpdate(fluid_bus_allocations \cup Image(n, h))
           /\ fluid_bus_main = "depositing" /\ depositing = {}
           /\ emptied' = {} /\ result' = "Ok"
           /\ UNCHANGED <<filled, depositing, cycle, stage, dirty, faults>>
<1>1. /\ fluid_bus_main = "depositing" /\ depositing = {}
      /\ emptied' = {} /\ result' = "Ok"
      /\ UNCHANGED <<filled, depositing, cycle, stage, dirty, faults>>
  BY DEF DepositsJoined
<1>2. CASE FailWaiters
  BY <1>1, <1>2
<1>3. CASE ~FailWaiters
  <2>1. PICK n \in 0 .. Len(fluid_bus_wait_queue) : \E h \in [Granted(n) -> emptied] :
             /\ HandOver(n, h, emptied)
             /\ HandBuses({}, Granted(n), h)
             /\ FinishUpdate(fluid_bus_allocations \cup Image(n, h))
    BY <1>3 DEF DepositsJoined
  <2>2. PICK h \in [Granted(n) -> emptied] :
             /\ HandOver(n, h, emptied)
             /\ HandBuses({}, Granted(n), h)
             /\ FinishUpdate(fluid_bus_allocations \cup Image(n, h))
    BY <2>1
  <2>3. Handing(n, h, emptied, {}) /\ result = "Ok"
    BY <1>3, <2>2 DEF Handing, DepositsJoined
  <2> QED
    BY <1>1, <2>2, <2>3
<1> QED
  BY <1>2, <1>3

\* What a recipe that is done does with its buses.
LEMMA InsertedFacts ==
    ASSUME NEW j \in Jobs, Inserted(j)
    PROVE  /\ \E n, h : /\ Handing(n, h, BusesOf(j), Parts(j))
                        /\ fluid_bus_allocations' = fluid_bus_allocations \ (BusesOf(j) \ Image(n, h))
           /\ stage[j] = "insert" /\ stage' = [stage EXCEPT ![j] = "done"]
           /\ dirty' = dirty \ BusesOf(j)
           /\ UNCHANGED <<fluid_bus_free_queue, taskVars, updateVars, cycle, faults>>
<1>1. PICK n \in 0 .. Len(fluid_bus_wait_queue) : \E h \in [Granted(n) -> BusesOf(j)] :
           /\ HandOver(n, h, BusesOf(j))
           /\ HandBuses(Parts(j), Granted(n), h)
           /\ fluid_bus_allocations' = fluid_bus_allocations \ (BusesOf(j) \ Image(n, h))
  BY DEF Inserted
<1>2. PICK h \in [Granted(n) -> BusesOf(j)] :
           /\ HandOver(n, h, BusesOf(j))
           /\ HandBuses(Parts(j), Granted(n), h)
           /\ fluid_bus_allocations' = fluid_bus_allocations \ (BusesOf(j) \ Image(n, h))
  BY <1>1
<1>3. Handing(n, h, BusesOf(j), Parts(j))
  BY <1>2 DEF Handing
<1>4. /\ stage[j] = "insert" /\ stage' = [stage EXCEPT ![j] = "done"]
      /\ dirty' = dirty \ BusesOf(j)
      /\ UNCHANGED <<fluid_bus_free_queue, taskVars, updateVars, cycle, faults>>
  BY DEF Inserted
<1> QED
  BY <1>2, <1>3, <1>4

\* Handing buses over keeps the types of the queue and of the sub-tasks.
LEMMA HandingType ==
    ASSUME TypeOK, NEW n, NEW h, NEW F \in SUBSET Buses, NEW done, Handing(n, h, F, done)
    PROVE  /\ fluid_bus_wait_queue' \in Seq(AllParts)
           /\ part' \in [AllParts -> PartStates]
           /\ bus_of' \in [AllParts -> Buses \cup {NoBus}]
           /\ Image(n, h) \subseteq F
           /\ \A p \in Granted(n) : h[p] \in F /\ h[p] \in Buses
<1>1. n \in 0 .. Len(fluid_bus_wait_queue) /\ HandOver(n, h, F) /\ HandBuses(done, Granted(n), h)
  BY DEF Handing
<1>2. \A p \in Granted(n) : h[p] \in F /\ h[p] \in Buses
  BY DEF Handing
<1>3. fluid_bus_wait_queue' \in Seq(AllParts)
  BY <1>1, HandOverQueue
<1>4. part' \in [AllParts -> PartStates] /\ bus_of' \in [AllParts -> Buses \cup {NoBus}]
  BY <1>1, <1>2, HandBusesType
<1>5. Image(n, h) \subseteq F
  BY <1>2 DEF Image
<1> QED
  BY <1>2, <1>3, <1>4, <1>5

\* A step keeps every variable in its type.
LEMMA TypeStep == Inv /\ [Next]_vars => TypeOK'
<1> SUFFICES ASSUME Inv, [Next]_vars PROVE TypeOK'
  OBVIOUS
<1> USE DEF Inv, TypeOK, busVars, taskVars, updateVars, jobVars, Fault, SpawnBusMain, PartStates, StageStates
<1>1. CASE GrantAndClean
  <2> DEFINE F == Unclaimed(Buses \ filled)
  <2>1. PICK n, h : /\ Handing(n, h, F, {})
                    /\ \/ FinishUpdate(fluid_bus_allocations \cup Image(n, h))
                       \/ /\ fluid_bus_allocations' = fluid_bus_allocations \cup Image(n, h)
                          /\ fluid_bus_main' = "depositing"
                          /\ UNCHANGED <<fluid_bus_free_queue, fluid_bus_task, n_updates, unread>>
    BY <1>1, GrantFacts
  <2>2. F \in SUBSET Buses /\ Unclaimed(filled) \subseteq Buses
    BY DEF Unclaimed
  <2>3. /\ fluid_bus_wait_queue' \in Seq(AllParts)
        /\ part' \in [AllParts -> PartStates] /\ bus_of' \in [AllParts -> Buses \cup {NoBus}]
        /\ Image(n, h) \subseteq F
    BY <2>1, <2>2, HandingType
  <2>4. fluid_bus_allocations \cup Image(n, h) \in SUBSET Buses
    BY <2>2, <2>3
  <2> HIDE DEF F
  <2>5. /\ fluid_bus_allocations' \subseteq Buses
        /\ fluid_bus_free_queue' \subseteq Buses
        /\ fluid_bus_task' \in {"None", "Some"}
        /\ fluid_bus_main' \in {"idle", "reading", "depositing"}
        /\ n_updates' \in {0, 1} /\ unread' \subseteq Buses
    <3>1. CASE FinishUpdate(fluid_bus_allocations \cup Image(n, h))
      BY <2>4, <3>1, FinishUpdateType
    <3>2. CASE ~FinishUpdate(fluid_bus_allocations \cup Image(n, h))
      BY <2>1, <2>4, <3>2
    <3> QED
      BY <3>1, <3>2
  <2>6. /\ depositing' = Unclaimed(filled) /\ emptied' = Unclaimed(filled) /\ filled' = {}
        /\ UNCHANGED <<result, cycle, stage, dirty, faults>>
    BY <1>1, GrantFacts
  <2> QED
    BY <2>2, <2>3, <2>5, <2>6
<1>2. CASE DepositsJoined
  <2>1. /\ emptied' = {} /\ result' = "Ok" /\ depositing = {}
        /\ UNCHANGED <<filled, depositing, cycle, stage, dirty, faults>>
    BY <1>2, JoinFacts
  <2>2. CASE FailWaiters
    BY <2>1, <2>2, FailWaitersType DEF FailWaiters
  <2>3. CASE ~FailWaiters
    <3>1. PICK n, h : /\ Handing(n, h, emptied, {})
                      /\ FinishUpdate(fluid_bus_allocations \cup Image(n, h))
      BY <1>2, <2>3, JoinFacts
    <3>2. /\ fluid_bus_wait_queue' \in Seq(AllParts)
          /\ part' \in [AllParts -> PartStates] /\ bus_of' \in [AllParts -> Buses \cup {NoBus}]
          /\ Image(n, h) \subseteq emptied
      BY <3>1, HandingType
    <3>3. fluid_bus_allocations \cup Image(n, h) \in SUBSET Buses
      BY <3>2
    <3>4. /\ fluid_bus_allocations' \subseteq Buses
          /\ fluid_bus_free_queue' \subseteq Buses
          /\ fluid_bus_task' \in {"None", "Some"}
          /\ fluid_bus_main' \in {"idle", "reading", "depositing"}
          /\ n_updates' \in {0, 1} /\ unread' \subseteq Buses
      BY <3>1, <3>3, FinishUpdateType
    <3> QED
      BY <2>1, <3>2, <3>4
  <2> QED
    BY <2>2, <2>3
<1>3. ASSUME NEW b \in Buses, ReadTanks(b) PROVE TypeOK'
  BY <1>3, FaultsAssumption DEF ReadTanks
<1>4. ASSUME NEW b \in Buses, Deposited(b) PROVE TypeOK'
  BY <1>4, FaultsAssumption DEF Deposited
<1>5. CASE ReadsFailed
  <2>1. FailWaiters
    BY <1>5 DEF ReadsFailed
  <2> QED
    BY <1>5, <2>1, FailWaitersType DEF ReadsFailed, FailWaiters
<1>6. ASSUME NEW j \in Jobs, RunJob(j) PROVE TypeOK'
  <2>1. fluid_bus_wait_queue' \in Seq(AllParts)
    BY <1>6, NewParts, ConcatProperties DEF RunJob, FluidBusAllocate
  <2>2. part' \in [AllParts -> PartStates] /\ stage' \in [Jobs -> StageStates]
    BY <1>6 DEF RunJob
  <2> QED
    BY <1>6, <2>1, <2>2 DEF RunJob, FluidBusAllocate
<1>7. ASSUME NEW j \in Jobs, SkipJob(j) PROVE TypeOK'
  BY <1>7, FaultsAssumption DEF SkipJob
<1>8. ASSUME NEW j \in Jobs, StartInsert(j) PROVE TypeOK'
  BY <1>8, FaultsAssumption DEF StartInsert
<1>9. ASSUME NEW j \in Jobs, JobLoaded(j) PROVE TypeOK'
  <2>1. PICK end \in {"done", "failed"} : ReturnBuses(j, end)
    BY <1>9 DEF JobLoaded
  <2> QED
    BY <1>9, <2>1, ReturnBusesType DEF JobLoaded, ReturnBuses
<1>10. ASSUME NEW j \in Jobs, Inserted(j) PROVE TypeOK'
  <2>1. PICK n, h : /\ Handing(n, h, BusesOf(j), Parts(j))
                    /\ fluid_bus_allocations' = fluid_bus_allocations \ (BusesOf(j) \ Image(n, h))
    BY <1>10, InsertedFacts
  <2>2. /\ stage[j] = "insert" /\ stage' = [stage EXCEPT ![j] = "done"]
        /\ dirty' = dirty \ BusesOf(j)
        /\ UNCHANGED <<fluid_bus_free_queue, taskVars, updateVars, cycle, faults>>
    BY <1>10, InsertedFacts
  <2>3. BusesOf(j) \in SUBSET Buses
    BY BusesOfType
  <2>4. /\ fluid_bus_wait_queue' \in Seq(AllParts)
        /\ part' \in [AllParts -> PartStates] /\ bus_of' \in [AllParts -> Buses \cup {NoBus}]
    BY <2>1, <2>3, HandingType
  <2> QED
    BY <2>1, <2>2, <2>4
<1>11. ASSUME NEW j \in Jobs, NEW p \in Parts(j), Extracted(p) PROVE TypeOK'
  <2>1. bus_of[p] \in Buses
    BY <1>11, PartsFacts DEF Extracted, PartsOK
  <2>2. part' \in [AllParts -> PartStates]
    BY <1>11 DEF Extracted
  <2>3. dirty' \subseteq Buses /\ faults' \in 0 .. MaxFaults
    BY <1>11, <2>1, FaultsAssumption DEF Extracted
  <2> QED
    BY <1>11, <2>2, <2>3 DEF Extracted
<1>12. ASSUME NEW j \in Jobs, RecipeFailed(j) PROVE TypeOK'
  <2>1. ReturnBuses(j, "failed")
    BY <1>12 DEF RecipeFailed
  <2>2. dirty' \subseteq Buses /\ faults' \in 0 .. MaxFaults
    BY <1>12, FaultsAssumption DEF RecipeFailed
  <2> QED
    BY <1>12, <2>1, <2>2, ReturnBusesType DEF RecipeFailed, ReturnBuses
<1>13. CASE StoragesUpdated
  BY <1>13, FaultsAssumption DEF StoragesUpdated
<1>14. CASE ProcessesJoined
  BY <1>14, FaultsAssumption DEF ProcessesJoined
<1>15. CASE EndOfCycle
  BY <1>15, FaultsAssumption DEF EndOfCycle
<1>16. CASE StartCycle
  BY <1>16, FaultsAssumption DEF StartCycle
<1>17. CASE StoragesFailed
  BY <1>17, FaultsAssumption DEF StoragesFailed
<1>18. CASE UNCHANGED vars
  BY <1>18, FaultsAssumption DEF vars
<1> QED
  BY <1>1, <1>2, <1>3, <1>4, <1>5, <1>6, <1>7, <1>8, <1>9,
     <1>10, <1>11, <1>12, <1>13, <1>14, <1>15, <1>16, <1>17, <1>18
     DEF Next

-----------------------------------------------------------------------------
(***************************************************************************)
(* The queue.                                                              *)
(***************************************************************************)
\* The waiters that take a bus leave the queue, nobody else does.
LEMMA HandOverKeepsQueue ==
    ASSUME TypeOK, QueueOK, NEW n \in 0 .. Len(fluid_bus_wait_queue), NEW h, NEW F, NEW done,
           HandOver(n, h, F), HandBuses(done, Granted(n), h),
           \A p \in done : part[p] # "queued"
    PROVE  QueueOK'
<1> DEFINE q == fluid_bus_wait_queue
<1>1. Len(q) \in Nat /\ \A i \in 1 .. Len(q) : q[i] \in AllParts
  BY LenProperties, ElementOfSeq DEF TypeOK
<1>2. /\ Len(q') = Len(q) - n
      /\ \A i \in 1 .. Len(q') : q'[i] = q[n + i] /\ n + i \in 1 .. Len(q)
  BY <1>1, HandOverQueue
<1>3. \A i \in 1 .. Len(q') : q'[i] \notin Granted(n)
  BY <1>1, <1>2 DEF QueueOK, Granted
<1>4. \A i, k \in 1 .. Len(q') : q'[i] = q'[k] => i = k
  BY <1>1, <1>2 DEF QueueOK
<1>5. \A i \in 1 .. Len(q') : part'[q'[i]] = "queued"
  BY <1>1, <1>2, <1>3 DEF QueueOK, HandBuses
<1>6. ASSUME NEW p \in AllParts, part'[p] = "queued"
      PROVE  \E i \in 1 .. Len(q') : q'[i] = p
  <2>1. part[p] = "queued" /\ p \notin Granted(n)
    BY <1>6 DEF HandBuses
  <2>2. PICK k \in 1 .. Len(q) : q[k] = p
    BY <2>1 DEF QueueOK
  <2>3. k - n \in 1 .. Len(q')
    BY <1>1, <1>2, <2>1, <2>2 DEF Granted
  <2>4. q'[k - n] = q[n + (k - n)] /\ n + (k - n) = k
    BY <1>1, <1>2, <2>3
  <2> QED
    BY <2>2, <2>3, <2>4
<1> QED
  BY <1>4, <1>5, <1>6 DEF QueueOK

\* A request of job j is added behind the waiters.
LEMMA Enqueue ==
    ASSUME TypeOK, NEW j \in Jobs, FluidBusAllocate(j)
    PROVE  /\ Len(fluid_bus_wait_queue) \in Nat /\ Need[j] \in Nat
           /\ fluid_bus_wait_queue' \in Seq(AllParts)
           /\ Len(fluid_bus_wait_queue') = Len(fluid_bus_wait_queue) + Need[j]
           /\ \A i \in 1 .. Len(fluid_bus_wait_queue) :
                 fluid_bus_wait_queue'[i] = fluid_bus_wait_queue[i] /\ fluid_bus_wait_queue[i] \in AllParts
           /\ \A i \in 1 .. Need[j] : fluid_bus_wait_queue'[Len(fluid_bus_wait_queue) + i] = <<j, i>>
<1> DEFINE q == fluid_bus_wait_queue
           new == [i \in 1 .. Need[j] |-> <<j, i>>]
<1>1. /\ new \in Seq(AllParts) /\ Len(new) = Need[j] /\ Need[j] \in Nat
      /\ \A i \in 1 .. Need[j] : new[i] = <<j, i>>
  BY NewParts, FluidJobsAssumption
<1>2. q \in Seq(AllParts) /\ Len(q) \in Nat /\ \A i \in 1 .. Len(q) : q[i] \in AllParts
  BY LenProperties, ElementOfSeq DEF TypeOK
<1>3. q' = q \o new
  BY DEF FluidBusAllocate
<1> HIDE DEF new
<1>4. /\ q' \in Seq(AllParts)
      /\ Len(q') = Len(q) + Len(new)
      /\ \A i \in 1 .. Len(q) + Len(new) : q'[i] = IF i <= Len(q) THEN q[i] ELSE new[i - Len(q)]
  BY <1>1, <1>2, <1>3, ConcatProperties
<1>5. ASSUME NEW i \in 1 .. Need[j] PROVE q'[Len(q) + i] = <<j, i>>
  <2>1. Len(q) + i \in 1 .. Len(q) + Len(new) /\ ~(Len(q) + i <= Len(q)) /\ (Len(q) + i) - Len(q) = i
    BY <1>1, <1>2
  <2>2. q'[Len(q) + i] = new[i]
    BY <1>4, <2>1
  <2> QED
    BY <1>1, <2>2
<1>6. ASSUME NEW i \in 1 .. Len(q) PROVE q'[i] = q[i] /\ q[i] \in AllParts
  <2>1. i \in 1 .. Len(q) + Len(new) /\ i <= Len(q)
    BY <1>1, <1>2
  <2> QED
    BY <1>2, <1>4, <2>1
<1> QED
  BY <1>1, <1>2, <1>4, <1>5, <1>6

\* After a new request the queue still holds each waiting sub-task once.
LEMMA RequestKeepsQueue ==
    ASSUME TypeOK, QueueOK, NEW j \in Jobs, FluidBusAllocate(j),
           \A p \in Parts(j) : part[p] = "idle",
           part' = [p \in AllParts |-> IF p \in Parts(j) THEN "queued" ELSE part[p]]
    PROVE  QueueOK'
<1> DEFINE q == fluid_bus_wait_queue
           n == Len(q)
<1>1. /\ n \in Nat /\ Need[j] \in Nat /\ Len(q') = n + Need[j]
      /\ \A i \in 1 .. n : q'[i] = q[i] /\ q[i] \in AllParts
      /\ \A i \in 1 .. Need[j] : q'[n + i] = <<j, i>>
  BY Enqueue
<1>2. \A i \in 1 .. n : q[i] \notin Parts(j)
  BY <1>1 DEF QueueOK
<1> HIDE DEF n, q
<1>3. \A i \in 1 .. Len(q') : i \in 1 .. n \/ (i - n \in 1 .. Need[j] /\ i = n + (i - n))
  BY <1>1
<1>4. \A i \in 1 .. Need[j] : <<j, i>> \in Parts(j) /\ <<j, i>> \in AllParts
  BY PartsFacts DEF Parts
<1>5. \A i, k \in 1 .. n : q[i] = q[k] => i = k
  BY DEF QueueOK, q, n
<1>6. ASSUME NEW i \in 1 .. Len(q'), NEW k \in 1 .. Len(q'), q'[i] = q'[k] PROVE i = k
  <2>1. CASE i \in 1 .. n /\ k \in 1 .. n
    BY <1>1, <1>5, <1>6, <2>1
  <2>2. CASE i - n \in 1 .. Need[j] /\ k - n \in 1 .. Need[j]
    <3>1. q'[i] = <<j, i - n>> /\ q'[k] = <<j, k - n>>
      <4>1. i = n + (i - n) /\ k = n + (k - n)
        BY <1>1
      <4> QED
        BY <1>1, <2>2, <4>1
    <3>2. <<j, i - n>> = <<j, k - n>>
      BY <1>6, <3>1
    <3>3. i - n = k - n
      BY <3>2, PairInjective
    <3> QED
      BY <1>1, <3>3
  <2>3. CASE i \in 1 .. n /\ k - n \in 1 .. Need[j]
    <3>1. q'[k] = <<j, k - n>>
      <4>1. k = n + (k - n)
        BY <1>1
      <4> QED
        BY <1>1, <2>3, <4>1
    <3>2. q'[i] \notin Parts(j) /\ q'[k] \in Parts(j)
      BY <1>1, <1>2, <1>4, <2>3, <3>1
    <3> QED
      BY <1>6, <3>2
  <2>4. CASE i - n \in 1 .. Need[j] /\ k \in 1 .. n
    <3>1. q'[i] = <<j, i - n>>
      <4>1. i = n + (i - n)
        BY <1>1
      <4> QED
        BY <1>1, <2>4, <4>1
    <3>2. q'[k] \notin Parts(j) /\ q'[i] \in Parts(j)
      BY <1>1, <1>2, <1>4, <2>4, <3>1
    <3> QED
      BY <1>6, <3>2
  <2> QED
    BY <1>3, <2>1, <2>2, <2>3, <2>4
<1>7. ASSUME NEW i \in 1 .. Len(q') PROVE part'[q'[i]] = "queued"
  <2>1. CASE i \in 1 .. n
    BY <1>1, <1>2, <2>1 DEF QueueOK, q, n
  <2>2. CASE i - n \in 1 .. Need[j]
    <3>1. i = n + (i - n)
      BY <1>1
    <3>2. q'[i] = <<j, i - n>> /\ <<j, i - n>> \in Parts(j) /\ <<j, i - n>> \in AllParts
      BY <1>1, <1>4, <2>2, <3>1
    <3> QED
      BY <3>2
  <2> QED
    BY <1>3, <2>1, <2>2
<1>8. ASSUME NEW p \in AllParts, part'[p] = "queued" PROVE \E i \in 1 .. Len(q') : q'[i] = p
  <2>1. CASE p \in Parts(j)
    <3>1. PICK i \in 1 .. Need[j] : p = <<j, i>>
      BY <2>1, NewParts
    <3>2. n + i \in 1 .. Len(q') /\ q'[n + i] = p
      BY <1>1, <3>1
    <3> QED
      BY <3>2
  <2>2. CASE p \notin Parts(j)
    <3>1. PICK i \in 1 .. n : q[i] = p
      BY <1>8, <2>2 DEF QueueOK, q, n
    <3>2. i \in 1 .. Len(q') /\ q'[i] = p
      BY <1>1, <3>1
    <3> QED
      BY <3>2
  <2> QED
    BY <2>1, <2>2
<1> QED
  BY <1>6, <1>7, <1>8 DEF QueueOK, q

\* A failed update empties the queue and leaves no sub-task waiting.
LEMMA FailedWaitersLeave == ASSUME TypeOK, QueueOK, FailWaiters PROVE QueueOK'
<1>1. InQueue = {p \in AllParts : part[p] = "queued"}
  BY LenProperties, ElementOfSeq DEF TypeOK, QueueOK, InQueue
<1>2. fluid_bus_wait_queue' = <<>> /\ \A p \in AllParts : part'[p] # "queued"
  BY <1>1 DEF FailWaiters
<1> QED
  BY <1>2, EmptySeq DEF QueueOK

\* A job that returns its buses had no sub-task in the queue.
LEMMA ReturnKeepsQueue ==
    ASSUME TypeOK, QueueOK, NEW j \in Jobs, NEW end, ReturnBuses(j, end),
           \A p \in Parts(j) : part[p] # "queued"
    PROVE  QueueOK'
<1>1. \A i \in 1 .. Len(fluid_bus_wait_queue) : fluid_bus_wait_queue[i] \in AllParts
  BY LenProperties, ElementOfSeq DEF TypeOK
<1> QED
  BY <1>1 DEF ReturnBuses, HandBuses, QueueOK

\* A step keeps the queue equal to the waiting sub-tasks, each once.
LEMMA QueueStep == Inv /\ [Next]_vars => QueueOK'
<1> SUFFICES ASSUME Inv, [Next]_vars PROVE QueueOK'
  OBVIOUS
<1> USE DEF Inv, busVars, jobVars
<1>1. CASE GrantAndClean
  <2>1. PICK n, h : Handing(n, h, Unclaimed(Buses \ filled), {})
    BY <1>1, GrantFacts
  <2> QED
    BY <2>1, HandOverKeepsQueue DEF Handing
<1>2. CASE DepositsJoined
  <2>1. CASE FailWaiters
    BY <2>1, FailedWaitersLeave
  <2>2. CASE ~FailWaiters
    <3>1. PICK n, h : Handing(n, h, emptied, {})
      BY <1>2, <2>2, JoinFacts
    <3> QED
      BY <3>1, HandOverKeepsQueue DEF Handing
  <2> QED
    BY <2>1, <2>2
<1>3. ASSUME NEW b \in Buses, ReadTanks(b) PROVE QueueOK'
  BY <1>3 DEF ReadTanks, QueueOK
<1>4. ASSUME NEW b \in Buses, Deposited(b) PROVE QueueOK'
  BY <1>4 DEF Deposited, QueueOK
<1>5. CASE ReadsFailed
  BY <1>5, FailedWaitersLeave DEF ReadsFailed
<1>6. ASSUME NEW j \in Jobs, RunJob(j) PROVE QueueOK'
  <2>1. \A p \in Parts(j) : part[p] = "idle"
    BY <1>6 DEF RunJob, StagesOK
  <2> QED
    BY <1>6, <2>1, RequestKeepsQueue DEF RunJob
<1>7. ASSUME NEW j \in Jobs, SkipJob(j) PROVE QueueOK'
  BY <1>7 DEF SkipJob, QueueOK
<1>8. ASSUME NEW j \in Jobs, StartInsert(j) PROVE QueueOK'
  BY <1>8 DEF StartInsert, QueueOK
<1>9. ASSUME NEW j \in Jobs, JobLoaded(j) PROVE QueueOK'
  <2>1. \A p \in Parts(j) : part[p] # "queued"
    BY <1>9 DEF JobLoaded, Ended
  <2>2. PICK end \in {"done", "failed"} : ReturnBuses(j, end)
    BY <1>9 DEF JobLoaded
  <2> QED
    BY <2>1, <2>2, ReturnKeepsQueue
<1>10. ASSUME NEW j \in Jobs, Inserted(j) PROVE QueueOK'
  <2>1. PICK n, h : Handing(n, h, BusesOf(j), Parts(j))
    BY <1>10, InsertedFacts
  <2>2. \A p \in Parts(j) : part[p] # "queued"
    BY <1>10 DEF Inserted, StagesOK
  <2> QED
    BY <2>1, <2>2, HandOverKeepsQueue DEF Handing
<1>11. ASSUME NEW j \in Jobs, NEW p \in Parts(j), Extracted(p) PROVE QueueOK'
  <2>1. \A i \in 1 .. Len(fluid_bus_wait_queue) :
            fluid_bus_wait_queue[i] \in AllParts /\ fluid_bus_wait_queue[i] # p
    BY <1>11, LenProperties, ElementOfSeq DEF TypeOK, QueueOK, Extracted
  <2>2. \E r \in {"loaded", "failed"} : part' = [part EXCEPT ![p] = r]
    BY <1>11 DEF Extracted
  <2> QED
    BY <1>11, <2>1, <2>2 DEF Extracted, QueueOK, TypeOK
<1>12. ASSUME NEW j \in Jobs, RecipeFailed(j) PROVE QueueOK'
  <2>1. \A p \in Parts(j) : part[p] # "queued"
    BY <1>12 DEF RecipeFailed, AllLoaded
  <2> QED
    BY <1>12, <2>1, ReturnKeepsQueue DEF RecipeFailed
<1>13. CASE StoragesUpdated
  BY <1>13 DEF StoragesUpdated, QueueOK
<1>14. CASE ProcessesJoined
  BY <1>14 DEF ProcessesJoined, QueueOK
<1>15. CASE EndOfCycle
  BY <1>15 DEF EndOfCycle, QueueOK
<1>16. CASE StartCycle
  BY <1>16 DEF StartCycle, QueueOK
<1>17. CASE StoragesFailed
  BY <1>17 DEF StoragesFailed, QueueOK
<1>18. CASE UNCHANGED vars
  BY <1>18 DEF vars, QueueOK
<1> QED
  BY <1>1, <1>2, <1>3, <1>4, <1>5, <1>6, <1>7, <1>8, <1>9,
     <1>10, <1>11, <1>12, <1>13, <1>14, <1>15, <1>16, <1>17, <1>18
     DEF Next

-----------------------------------------------------------------------------
(***************************************************************************)
(* The control state of parts, jobs, task and cycle.                       *)
(***************************************************************************)
\* A hand-over leaves waiters with a bus and ended parts without.
LEMMA HandBusesKeepsParts ==
    ASSUME TypeOK, PartsOK, NEW done, NEW granted, NEW h, HandBuses(done, granted, h),
           \A p \in granted : h[p] \in Buses
    PROVE  PartsOK'
BY BusesAssumption DEF HandBuses, TypeOK, PartsOK

\* The buses that are handed over are buses of the bus.
LEMMA HandingKeepsParts ==
    ASSUME TypeOK, PartsOK, NEW n, NEW h, NEW F \in SUBSET Buses, NEW done, Handing(n, h, F, done)
    PROVE  PartsOK'
<1>1. \A p \in Granted(n) : h[p] \in Buses
  BY DEF Handing
<1> QED
  BY <1>1, HandBusesKeepsParts DEF Handing

\* What a deposit of buses does to the task.
LEMMA FluidBusDepositKeepsTask ==
    ASSUME TaskOK, cycle = "run", cycle' = cycle, NEW S, FluidBusDeposit(S)
    PROVE  TaskOK'
BY DEF TaskOK, FluidBusDeposit, SpawnBusMain, taskVars

\* A step keeps the agreement of parts and buses.
LEMMA PartsStep == Inv /\ [Next]_vars => PartsOK'
<1> SUFFICES ASSUME Inv, [Next]_vars PROVE PartsOK'
  OBVIOUS
<1> USE DEF Inv, TypeOK, busVars, jobVars, PartsOK
<1>1. CASE GrantAndClean
  <2>1. PICK n, h : Handing(n, h, Unclaimed(Buses \ filled), {})
    BY <1>1, GrantFacts
  <2>2. Unclaimed(Buses \ filled) \in SUBSET Buses
    BY DEF Unclaimed
  <2> HIDE DEF PartsOK
  <2> QED
    BY <2>1, <2>2, HandingKeepsParts
<1>2. CASE DepositsJoined
  <2>1. CASE FailWaiters
    BY <2>1 DEF FailWaiters
  <2>2. CASE ~FailWaiters
    <3>1. PICK n, h : Handing(n, h, emptied, {})
      BY <1>2, <2>2, JoinFacts
    <3> HIDE DEF PartsOK
    <3> QED
      BY <3>1, HandingKeepsParts
  <2> QED
    BY <2>1, <2>2
<1>3. ASSUME NEW b \in Buses, ReadTanks(b) PROVE PartsOK'
  BY <1>3 DEF ReadTanks
<1>4. ASSUME NEW b \in Buses, Deposited(b) PROVE PartsOK'
  BY <1>4 DEF Deposited
<1>5. CASE ReadsFailed
  BY <1>5 DEF ReadsFailed, FailWaiters
<1>6. ASSUME NEW j \in Jobs, RunJob(j) PROVE PartsOK'
  <2>1. \A p \in Parts(j) : part[p] = "idle"
    BY <1>6 DEF RunJob, StagesOK
  <2> QED
    BY <1>6, <2>1, PartsFacts DEF RunJob
<1>7. ASSUME NEW j \in Jobs, SkipJob(j) PROVE PartsOK'
  BY <1>7 DEF SkipJob
<1>8. ASSUME NEW j \in Jobs, StartInsert(j) PROVE PartsOK'
  BY <1>8 DEF StartInsert
<1>9. ASSUME NEW j \in Jobs, JobLoaded(j) PROVE PartsOK'
  <2>1. PICK end \in {"done", "failed"} : ReturnBuses(j, end)
    BY <1>9 DEF JobLoaded
  <2> QED
    BY <2>1, HandBusesKeepsParts DEF ReturnBuses
<1>10. ASSUME NEW j \in Jobs, Inserted(j) PROVE PartsOK'
  <2>1. PICK n, h : Handing(n, h, BusesOf(j), Parts(j))
    BY <1>10, InsertedFacts
  <2>2. BusesOf(j) \in SUBSET Buses
    BY BusesOfType
  <2> HIDE DEF PartsOK
  <2> QED
    BY <2>1, <2>2, HandingKeepsParts
<1>11. ASSUME NEW j \in Jobs, NEW p \in Parts(j), Extracted(p) PROVE PartsOK'
  BY <1>11 DEF Extracted
<1>12. ASSUME NEW j \in Jobs, RecipeFailed(j) PROVE PartsOK'
  <2>1. ReturnBuses(j, "failed")
    BY <1>12 DEF RecipeFailed
  <2> QED
    BY <2>1, HandBusesKeepsParts DEF ReturnBuses
<1>13. CASE StoragesUpdated
  BY <1>13 DEF StoragesUpdated
<1>14. CASE ProcessesJoined
  BY <1>14 DEF ProcessesJoined
<1>15. CASE EndOfCycle
  BY <1>15 DEF EndOfCycle
<1>16. CASE StartCycle
  BY <1>16 DEF StartCycle
<1>17. CASE StoragesFailed
  BY <1>17 DEF StoragesFailed
<1>18. CASE UNCHANGED vars
  BY <1>18 DEF vars
<1> QED
  BY <1>1, <1>2, <1>3, <1>4, <1>5, <1>6, <1>7, <1>8, <1>9,
     <1>10, <1>11, <1>12, <1>13, <1>14, <1>15, <1>16, <1>17, <1>18
     DEF Next

\* The waiters that get a bus or an error belong to jobs that still load.
LEMMA WaitersLoad ==
    ASSUME TypeOK, QueueOK, StagesOK
    PROVE  /\ \A i \in 1 .. Len(fluid_bus_wait_queue) : fluid_bus_wait_queue[i] \in AllParts
           /\ InQueue \subseteq AllParts
           /\ \A n \in 0 .. Len(fluid_bus_wait_queue) : Granted(n) \subseteq InQueue
           /\ \A p \in InQueue : part[p] = "queued"
           /\ \A j \in Jobs : \A p \in Parts(j) : p \in InQueue => stage[j] = "load"
<1>1. Len(fluid_bus_wait_queue) \in Nat /\ DOMAIN fluid_bus_wait_queue = 1 .. Len(fluid_bus_wait_queue)
  BY LenProperties DEF TypeOK
<1>2. \A i \in 1 .. Len(fluid_bus_wait_queue) : fluid_bus_wait_queue[i] \in AllParts
  BY <1>1, ElementOfSeq DEF TypeOK
<1>3. InQueue \subseteq AllParts /\ \A p \in InQueue : part[p] = "queued"
  BY <1>1, <1>2 DEF InQueue, QueueOK
<1>4. \A n \in 0 .. Len(fluid_bus_wait_queue) : Granted(n) \subseteq InQueue
  BY <1>1 DEF Granted, InQueue
<1>5. ASSUME NEW j \in Jobs, NEW p \in Parts(j), p \in InQueue PROVE stage[j] = "load"
  BY <1>3, <1>5 DEF StagesOK
<1> QED
  BY <1>2, <1>3, <1>4, <1>5

\* Job j ends while waiters of other jobs get buses.
LEMMA EndKeepsStages ==
    ASSUME TypeOK, QueueOK, StagesOK, NEW j \in Jobs, NEW end \in {"done", "failed"},
           NEW granted, NEW h, HandBuses(Parts(j), granted, h),
           \A p \in granted : p \in InQueue /\ p \notin Parts(j),
           stage' = [stage EXCEPT ![j] = end], cycle' = cycle
    PROVE  StagesOK'
<1>1. \A p \in Parts(j) : part'[p] = "idle"
  BY WaitersLoad, PartsFacts DEF HandBuses
<1>2. ASSUME NEW k \in Jobs, k # j, NEW p \in Parts(k)
      PROVE  part'[p] = part[p] \/ (part'[p] = "extracting" /\ stage[k] = "load")
  BY <1>2, WaitersLoad, PartsFacts DEF HandBuses
<1>3. stage'[j] = end /\ \A k \in Jobs : k # j => stage'[k] = stage[k]
  BY DEF TypeOK
<1> QED
  BY <1>1, <1>2, <1>3 DEF StagesOK, Over

\* Job j ends and gives its buses to fluid_bus_deposit.
LEMMA ReturnKeepsStages ==
    ASSUME TypeOK, QueueOK, StagesOK, NEW j \in Jobs, NEW end \in {"done", "failed"},
           ReturnBuses(j, end)
    PROVE  StagesOK'
<1> DEFINE none == {}
<1>1. /\ HandBuses(Parts(j), none, bus_of)
      /\ stage' = [stage EXCEPT ![j] = end] /\ cycle' = cycle
  BY DEF ReturnBuses
<1>2. \A p \in none : p \in InQueue /\ p \notin Parts(j)
  OBVIOUS
<1> HIDE DEF none
<1> QED
  BY <1>1, <1>2, EndKeepsStages

\* A failed update fails parts of jobs that still load.
LEMMA FailKeepsStages ==
    ASSUME TypeOK, QueueOK, StagesOK, FailWaiters, stage' = stage, cycle' = cycle
    PROVE  StagesOK'
<1>1. ASSUME NEW k \in Jobs, NEW p \in Parts(k)
      PROVE  part'[p] = part[p] \/ stage[k] = "load"
  BY WaitersLoad, PartsFacts DEF FailWaiters
<1> QED
  BY <1>1 DEF StagesOK, Over

\* Waiters that get a bus belong to jobs that load.
LEMMA HandingKeepsStages ==
    ASSUME TypeOK, QueueOK, StagesOK, NEW n, NEW h, NEW F, Handing(n, h, F, {}),
           stage' = stage, cycle' = cycle
    PROVE  StagesOK'
<1>1. ASSUME NEW k \in Jobs, NEW p \in Parts(k) PROVE part'[p] = part[p] \/ stage[k] = "load"
  <2>1. Granted(n) \subseteq InQueue
    BY WaitersLoad DEF Handing
  <2> QED
    BY <2>1, WaitersLoad, PartsFacts DEF Handing, HandBuses
<1> QED
  BY <1>1 DEF StagesOK, Over

\* A step keeps the order in which a job goes through its stages.
LEMMA StagesStep == Inv /\ [Next]_vars => StagesOK'
<1> SUFFICES ASSUME Inv, [Next]_vars PROVE StagesOK'
  OBVIOUS
<1> USE DEF Inv, busVars, jobVars, StagesOK, Over
<1>1. CASE GrantAndClean
  <2>1. PICK n, h : Handing(n, h, Unclaimed(Buses \ filled), {})
    BY <1>1, GrantFacts
  <2>2. stage' = stage /\ cycle' = cycle
    BY <1>1 DEF GrantAndClean
  <2> HIDE DEF StagesOK
  <2> QED
    BY <2>1, <2>2, HandingKeepsStages
<1>2. CASE DepositsJoined
  <2>1. stage' = stage /\ cycle' = cycle
    BY <1>2 DEF DepositsJoined
  <2> HIDE DEF StagesOK
  <2>2. CASE FailWaiters
    BY <2>1, <2>2, FailKeepsStages
  <2>3. CASE ~FailWaiters
    <3>1. PICK n, h : Handing(n, h, emptied, {})
      BY <1>2, <2>3, JoinFacts
    <3> QED
      BY <2>1, <3>1, HandingKeepsStages
  <2> QED
    BY <2>2, <2>3
<1>3. ASSUME NEW b \in Buses, ReadTanks(b) PROVE StagesOK'
  BY <1>3 DEF ReadTanks
<1>4. ASSUME NEW b \in Buses, Deposited(b) PROVE StagesOK'
  BY <1>4 DEF Deposited
<1>5. CASE ReadsFailed
  <2> HIDE DEF StagesOK
  <2> QED
    BY <1>5, FailKeepsStages DEF ReadsFailed
<1>6. ASSUME NEW j \in Jobs, RunJob(j) PROVE StagesOK'
  <2>1. stage'[j] = "load" /\ \A k \in Jobs : k # j => stage'[k] = stage[k]
    BY <1>6 DEF RunJob, TypeOK
  <2>2. \A p \in Parts(j) : part'[p] = "queued"
    BY <1>6, PartsFacts DEF RunJob
  <2>3. \A k \in Jobs : k # j => \A p \in Parts(k) : part'[p] = part[p]
    BY <1>6, PartsFacts DEF RunJob
  <2>4. cycle' = "run"
    BY <1>6 DEF RunJob
  <2> QED
    BY <2>1, <2>2, <2>3, <2>4
<1>7. ASSUME NEW j \in Jobs, SkipJob(j) PROVE StagesOK'
  BY <1>7 DEF SkipJob, TypeOK
<1>8. ASSUME NEW j \in Jobs, StartInsert(j) PROVE StagesOK'
  BY <1>8 DEF StartInsert, TypeOK, AllLoaded
<1>9. ASSUME NEW j \in Jobs, JobLoaded(j) PROVE StagesOK'
  <2>1. PICK end \in {"done", "failed"} : ReturnBuses(j, end)
    BY <1>9 DEF JobLoaded
  <2> HIDE DEF StagesOK
  <2> QED
    BY <2>1, ReturnKeepsStages
<1>10. ASSUME NEW j \in Jobs, Inserted(j) PROVE StagesOK'
  <2>1. PICK n, h : Handing(n, h, BusesOf(j), Parts(j))
    BY <1>10, InsertedFacts
  <2>2. HandBuses(Parts(j), Granted(n), h) /\ Granted(n) \subseteq InQueue
    BY <2>1, WaitersLoad DEF Handing
  <2>3. \A p \in Granted(n) : p \in InQueue /\ p \notin Parts(j)
    BY <1>10, <2>2, WaitersLoad DEF Inserted
  <2>4. stage[j] = "insert" /\ stage' = [stage EXCEPT ![j] = "done"] /\ cycle' = cycle
    BY <1>10 DEF Inserted
  <2> HIDE DEF StagesOK
  <2> QED
    BY <2>2, <2>3, <2>4, EndKeepsStages
<1>11. ASSUME NEW j \in Jobs, NEW p \in Parts(j), Extracted(p) PROVE StagesOK'
  <2>1. PICK r \in {"loaded", "failed"} : part' = [part EXCEPT ![p] = r]
    BY <1>11 DEF Extracted
  <2>2. stage' = stage /\ cycle' = cycle /\ part[p] = "extracting"
    BY <1>11 DEF Extracted
  <2>3. \A q \in AllParts : q # p => part'[q] = part[q]
    BY <2>1 DEF TypeOK
  <2>4. stage[j] \in {"load", "insert"} /\ stage[j] # "insert"
    BY <2>2
  <2>5. \A k \in Jobs : \A q \in Parts(k) : q = p => k = j
    BY PartsFacts
  <2> QED
    BY <2>2, <2>3, <2>4, <2>5, PartsFacts
<1>12. ASSUME NEW j \in Jobs, RecipeFailed(j) PROVE StagesOK'
  <2>1. ReturnBuses(j, "failed")
    BY <1>12 DEF RecipeFailed
  <2> HIDE DEF StagesOK
  <2> QED
    BY <2>1, ReturnKeepsStages
<1>13. CASE StoragesUpdated
  BY <1>13 DEF StoragesUpdated
<1>14. CASE ProcessesJoined
  BY <1>14 DEF ProcessesJoined
<1>15. CASE EndOfCycle
  BY <1>15 DEF EndOfCycle
<1>16. CASE StartCycle
  BY <1>16 DEF StartCycle
<1>17. CASE StoragesFailed
  BY <1>17 DEF StoragesFailed
<1>18. CASE UNCHANGED vars
  BY <1>18 DEF vars
<1> QED
  BY <1>1, <1>2, <1>3, <1>4, <1>5, <1>6, <1>7, <1>8, <1>9,
     <1>10, <1>11, <1>12, <1>13, <1>14, <1>15, <1>16, <1>17, <1>18
     DEF Next

\* A step keeps the agreement of the task, fluid_bus_main and the cycle.
LEMMA TaskStep == Inv /\ [Next]_vars => TaskOK'
<1> SUFFICES ASSUME Inv, [Next]_vars PROVE TaskOK'
  OBVIOUS
<1> USE DEF Inv, TypeOK, taskVars, TaskOK
<1>1. CASE GrantAndClean
  <2>1. PICK n, h :
             \/ FinishUpdate(fluid_bus_allocations \cup Image(n, h))
             \/ /\ fluid_bus_allocations' = fluid_bus_allocations \cup Image(n, h)
                /\ fluid_bus_main' = "depositing"
                /\ UNCHANGED <<fluid_bus_free_queue, fluid_bus_task, n_updates, unread>>
    BY <1>1, GrantFacts
  <2>2. cycle' = cycle /\ fluid_bus_main = "reading"
    BY <1>1 DEF GrantAndClean
  <2> QED
    BY <2>1, <2>2 DEF FinishUpdate, LoopIf
<1>2. CASE DepositsJoined
  <2>1. cycle' = cycle /\ fluid_bus_main = "depositing"
    BY <1>2 DEF DepositsJoined
  <2>2. FailWaiters \/ \E n, h : FinishUpdate(fluid_bus_allocations \cup Image(n, h))
    BY <1>2, JoinFacts
  <2> QED
    BY <2>1, <2>2 DEF FailWaiters, FinishUpdate, LoopIf
<1>3. ASSUME NEW b \in Buses, ReadTanks(b) PROVE TaskOK'
  BY <1>3 DEF ReadTanks
<1>4. ASSUME NEW b \in Buses, Deposited(b) PROVE TaskOK'
  BY <1>4 DEF Deposited
<1>5. CASE ReadsFailed
  BY <1>5 DEF ReadsFailed, FailWaiters
<1>6. ASSUME NEW j \in Jobs, RunJob(j) PROVE TaskOK'
  BY <1>6 DEF RunJob, FluidBusAllocate, SpawnBusMain
<1>7. ASSUME NEW j \in Jobs, SkipJob(j) PROVE TaskOK'
  BY <1>7 DEF SkipJob
<1>8. ASSUME NEW j \in Jobs, StartInsert(j) PROVE TaskOK'
  BY <1>8 DEF StartInsert
<1>9. ASSUME NEW j \in Jobs, JobLoaded(j) PROVE TaskOK'
  <2>1. PICK end \in {"done", "failed"} : ReturnBuses(j, end)
    BY <1>9 DEF JobLoaded
  <2>2. cycle = "run" /\ cycle' = cycle
    BY <1>9, <2>1 DEF JobLoaded, ReturnBuses, StagesOK, Over
  <2> QED
    BY <2>1, <2>2, FluidBusDepositKeepsTask DEF ReturnBuses
<1>10. ASSUME NEW j \in Jobs, Inserted(j) PROVE TaskOK'
  BY <1>10 DEF Inserted
<1>11. ASSUME NEW j \in Jobs, NEW p \in Parts(j), Extracted(p) PROVE TaskOK'
  BY <1>11 DEF Extracted
<1>12. ASSUME NEW j \in Jobs, RecipeFailed(j) PROVE TaskOK'
  <2>1. ReturnBuses(j, "failed")
    BY <1>12 DEF RecipeFailed
  <2>2. cycle = "run" /\ cycle' = cycle
    BY <1>12, <2>1 DEF RecipeFailed, ReturnBuses, StagesOK, Over
  <2> QED
    BY <2>1, <2>2, FluidBusDepositKeepsTask DEF ReturnBuses
<1>13. CASE StoragesUpdated
  BY <1>13 DEF StoragesUpdated
<1>14. CASE ProcessesJoined
  BY <1>14 DEF ProcessesJoined, SpawnBusMain
<1>15. CASE EndOfCycle
  BY <1>15 DEF EndOfCycle
<1>16. CASE StartCycle
  BY <1>16 DEF StartCycle
<1>17. CASE StoragesFailed
  BY <1>17 DEF StoragesFailed
<1>18. CASE UNCHANGED vars
  BY <1>18 DEF vars
<1> QED
  BY <1>1, <1>2, <1>3, <1>4, <1>5, <1>6, <1>7, <1>8, <1>9,
     <1>10, <1>11, <1>12, <1>13, <1>14, <1>15, <1>16, <1>17, <1>18
     DEF Next

-----------------------------------------------------------------------------
(***************************************************************************)
(* The owners of buses, and the allocations that account for them.         *)
(***************************************************************************)
OwnersOK == ExclusiveBuses /\ NoBusLost
Outside(done) == {bus_of[p] : p \in AllParts \ done} \ {NoBus}
Handed(granted, h) == {h[p] : p \in granted}

\* Buses that nobody outside done holds are handed to waiters without one.
LEMMA HandBusesOwners ==
    ASSUME TypeOK, ExclusiveBuses, NEW done, NEW granted, NEW h, HandBuses(done, granted, h),
           \A p \in granted : p \in AllParts /\ h[p] \in Buses,
           \A p, q \in granted : h[p] = h[q] => p = q,
           \A p \in granted : h[p] \notin Outside(done)
    PROVE  ExclusiveBuses' /\ Held' = Outside(done \cup granted) \cup Handed(granted, h)
<1>1. \A p \in granted : bus_of'[p] = h[p] /\ h[p] # NoBus
  BY BusesAssumption DEF HandBuses
<1>2. \A p \in AllParts : p \notin granted /\ p \in done => bus_of'[p] = NoBus
  BY DEF HandBuses
<1>3. \A p \in AllParts : p \notin granted /\ p \notin done => bus_of'[p] = bus_of[p]
  BY DEF HandBuses
<1>4. \A p \in AllParts, q \in granted : p \notin done /\ bus_of[p] = h[q] => FALSE
  BY <1>1 DEF Outside
<1>5. ExclusiveBuses'
  <2>1. ASSUME NEW p \in AllParts, NEW q \in AllParts, bus_of'[p] = bus_of'[q], bus_of'[p] # NoBus
        PROVE  p = q
    BY <1>1, <1>2, <1>3, <1>4, <2>1 DEF ExclusiveBuses
  <2> QED
    BY <2>1 DEF ExclusiveBuses
<1>6. Held' = Outside(done \cup granted) \cup Handed(granted, h)
  BY <1>1, <1>2, <1>3 DEF Held, Outside, Handed
<1> QED
  BY <1>5, <1>6

\* Waiters hold no bus.
LEMMA OutsideWaiters ==
    ASSUME PartsOK, NEW done, NEW granted, \A p \in granted : p \in AllParts /\ part[p] = "queued"
    PROVE  Outside(done \cup granted) = Outside(done)
BY DEF Outside, PartsOK

\* The buses of job j are held by nobody else.
LEMMA OutsideJob ==
    ASSUME TypeOK, ExclusiveBuses, NEW j \in Jobs
    PROVE  /\ BusesOf(j) \subseteq Held
           /\ Outside(Parts(j)) = Held \ BusesOf(j)
BY PartsFacts DEF Outside, Held, BusesOf, ExclusiveBuses

\* fluid_bus_deposit moves S from the held buses to the free queue, or frees them.
LEMMA FluidBusDepositAccounts ==
    ASSUME NEW S, FluidBusDeposit(S), NEW others,
           fluid_bus_allocations = others \cup S \cup fluid_bus_free_queue, others \cap S = {},
           others \cap fluid_bus_free_queue = {}, S \cap fluid_bus_free_queue = {}
    PROVE  /\ fluid_bus_allocations' = others \cup fluid_bus_free_queue'
           /\ others \cap fluid_bus_free_queue' = {}
BY DEF FluidBusDeposit

\* The end of fluid_bus_update frees what was queued to be freed.
LEMMA FinishUpdateAccounts ==
    ASSUME NEW alloc, FinishUpdate(alloc), NEW others,
           alloc = others \cup fluid_bus_free_queue, others \cap fluid_bus_free_queue = {}
    PROVE  /\ fluid_bus_allocations' = others \cup fluid_bus_free_queue'
           /\ others \cap fluid_bus_free_queue' = {}
BY DEF FinishUpdate

\* A failed update changes no owner.
LEMMA FailWaitersOwners == ASSUME OwnersOK, FailWaiters PROVE OwnersOK'
BY DEF FailWaiters, OwnersOK, ExclusiveBuses, NoBusLost, Held

\* A job that ends gives up all its buses.
LEMMA ReturnBusesOwners ==
    ASSUME TypeOK, OwnersOK, NEW j \in Jobs, NEW end, ReturnBuses(j, end)
    PROVE  OwnersOK'
<1> DEFINE none == {}
<1>1. HandBuses(Parts(j), none, bus_of) /\ FluidBusDeposit(BusesOf(j))
  BY DEF ReturnBuses
<1>2. Parts(j) \cup none = Parts(j) /\ Handed(none, bus_of) = {}
  BY DEF Handed
<1>3. \A p \in none : FALSE
  OBVIOUS
<1> HIDE DEF none
<1>4. ExclusiveBuses' /\ Held' = Outside(Parts(j) \cup none) \cup Handed(none, bus_of)
  BY <1>1, <1>3, HandBusesOwners DEF OwnersOK
<1>5. ExclusiveBuses' /\ Held' = Held \ BusesOf(j) /\ BusesOf(j) \subseteq Held
  BY <1>2, <1>4, OutsideJob DEF OwnersOK
<1> DEFINE others == Held \ BusesOf(j)
<1>6. fluid_bus_allocations = others \cup BusesOf(j) \cup fluid_bus_free_queue
      /\ others \cap BusesOf(j) = {} /\ others \cap fluid_bus_free_queue = {}
      /\ BusesOf(j) \cap fluid_bus_free_queue = {}
  BY <1>5 DEF OwnersOK, NoBusLost
<1> HIDE DEF others
<1>7. fluid_bus_allocations' = others \cup fluid_bus_free_queue' /\ others \cap fluid_bus_free_queue' = {}
  BY <1>1, <1>6, FluidBusDepositAccounts
<1> QED
  BY <1>5, <1>7 DEF OwnersOK, NoBusLost, others

\* Buses that nobody outside done holds are handed to waiters: what is held
\* afterwards.
LEMMA HandingOwners ==
    ASSUME TypeOK, QueueOK, StagesOK, PartsOK, ExclusiveBuses, NEW n, NEW h,
           NEW F \in SUBSET Buses, NEW done, Handing(n, h, F, done), F \cap Outside(done) = {}
    PROVE  ExclusiveBuses' /\ Held' = Outside(done) \cup Image(n, h)
<1>1. Granted(n) \subseteq InQueue /\ HandOver(n, h, F) /\ HandBuses(done, Granted(n), h)
  BY WaitersLoad DEF Handing
<1>2. \A p \in Granted(n) : p \in AllParts /\ part[p] = "queued"
  BY <1>1, WaitersLoad
<1>3. \A p \in Granted(n) : h[p] \in F
  BY DEF Handing
<1>4. \A p \in Granted(n) : p \in AllParts /\ h[p] \in Buses
  BY <1>2, <1>3
<1>5. \A p, q \in Granted(n) : h[p] = h[q] => p = q
  BY <1>1 DEF HandOver
<1>6. \A p \in Granted(n) : h[p] \notin Outside(done)
  BY <1>3
<1>7. ExclusiveBuses' /\ Held' = Outside(done \cup Granted(n)) \cup Handed(Granted(n), h)
  BY <1>1, <1>4, <1>5, <1>6, HandBusesOwners
<1>8. Outside(done \cup Granted(n)) = Outside(done)
  BY <1>2, OutsideWaiters
<1> QED
  BY <1>7, <1>8 DEF Handed, Image

\* fluid_bus_update grants buses that are not allocated, and may end with it.
LEMMA GrantedOwners ==
    ASSUME Inv, NEW n, NEW h, NEW F \in SUBSET Buses, Handing(n, h, F, {}),
           F \cap fluid_bus_allocations = {},
           \/ FinishUpdate(fluid_bus_allocations \cup Image(n, h))
           \/ /\ fluid_bus_allocations' = fluid_bus_allocations \cup Image(n, h)
              /\ UNCHANGED fluid_bus_free_queue
    PROVE  OwnersOK'
<1> DEFINE others == Held \cup Image(n, h)
<1>1. Outside({}) = Held /\ Held \subseteq fluid_bus_allocations
  BY DEF Outside, Held, Inv, NoBusLost
<1>2. ExclusiveBuses' /\ Held' = Outside({}) \cup Image(n, h)
  BY <1>1, HandingOwners DEF Inv
<1>3. Held' = others
  BY <1>1, <1>2
<1>4. \A p \in Granted(n) : h[p] \in F
  BY DEF Handing
<1>5. Image(n, h) \cap fluid_bus_allocations = {}
  BY <1>4 DEF Image
<1>6. /\ fluid_bus_allocations \cup Image(n, h) = others \cup fluid_bus_free_queue
      /\ others \cap fluid_bus_free_queue = {}
  BY <1>5 DEF Inv, NoBusLost
<1> HIDE DEF others
<1>7. /\ fluid_bus_allocations' = others \cup fluid_bus_free_queue'
      /\ others \cap fluid_bus_free_queue' = {}
  <2>1. CASE FinishUpdate(fluid_bus_allocations \cup Image(n, h))
    BY <1>6, <2>1, FinishUpdateAccounts
  <2>2. CASE ~FinishUpdate(fluid_bus_allocations \cup Image(n, h))
    BY <1>6, <2>2
  <2> QED
    BY <2>1, <2>2
<1> QED
  BY <1>2, <1>3, <1>7 DEF OwnersOK, NoBusLost

\* A recipe that is done hands its buses over to waiters and frees the rest.
LEMMA InsertedOwners == ASSUME Inv, NEW j \in Jobs, Inserted(j) PROVE OwnersOK'
<1>1. PICK n, h : /\ Handing(n, h, BusesOf(j), Parts(j))
                  /\ fluid_bus_allocations' = fluid_bus_allocations \ (BusesOf(j) \ Image(n, h))
  BY InsertedFacts
<1>2. fluid_bus_free_queue' = fluid_bus_free_queue
  BY DEF Inserted
<1>3. /\ BusesOf(j) \in SUBSET Buses /\ BusesOf(j) \subseteq Held
      /\ Outside(Parts(j)) = Held \ BusesOf(j)
  BY OutsideJob, BusesOfType DEF Inv
<1>4. BusesOf(j) \cap Outside(Parts(j)) = {}
  BY <1>3
<1>5. ExclusiveBuses' /\ Held' = Outside(Parts(j)) \cup Image(n, h)
  BY <1>1, <1>3, <1>4, HandingOwners DEF Inv
<1>6. Image(n, h) \subseteq BusesOf(j)
  BY <1>1 DEF Handing, Image
<1> QED
  BY <1>1, <1>2, <1>3, <1>5, <1>6 DEF Inv, OwnersOK, NoBusLost

\* A step keeps the owners and the account of them.
LEMMA OwnersStep == Inv /\ [Next]_vars => OwnersOK'
<1> SUFFICES ASSUME Inv, [Next]_vars PROVE OwnersOK'
  OBVIOUS
<1> USE DEF Inv, busVars, jobVars, OwnersOK
<1>1. CASE GrantAndClean
  <2> DEFINE F == Unclaimed(Buses \ filled)
  <2>1. PICK n, h : /\ Handing(n, h, F, {})
                    /\ \/ FinishUpdate(fluid_bus_allocations \cup Image(n, h))
                       \/ /\ fluid_bus_allocations' = fluid_bus_allocations \cup Image(n, h)
                          /\ UNCHANGED fluid_bus_free_queue
    BY <1>1, GrantFacts
  <2>2. F \in SUBSET Buses /\ F \cap fluid_bus_allocations = {}
    BY DEF Unclaimed
  <2> HIDE DEF F, OwnersOK, Inv
  <2> QED
    BY <2>1, <2>2, GrantedOwners
<1>2. CASE DepositsJoined
  <2>1. CASE FailWaiters
    BY <2>1, FailWaitersOwners
  <2>2. CASE ~FailWaiters
    <3>1. PICK n, h : /\ Handing(n, h, emptied, {})
                      /\ FinishUpdate(fluid_bus_allocations \cup Image(n, h))
      BY <1>2, <2>2, JoinFacts
    <3>2. emptied \in SUBSET Buses /\ emptied \cap fluid_bus_allocations = {}
      BY <1>2 DEF DepositsJoined, EmptiedOK, TypeOK
    <3> HIDE DEF OwnersOK, Inv
    <3> QED
      BY <3>1, <3>2, GrantedOwners
  <2> QED
    BY <2>1, <2>2
<1>3. ASSUME NEW b \in Buses, ReadTanks(b) PROVE OwnersOK'
  BY <1>3 DEF ReadTanks, ExclusiveBuses, NoBusLost, Held
<1>4. ASSUME NEW b \in Buses, Deposited(b) PROVE OwnersOK'
  BY <1>4 DEF Deposited, ExclusiveBuses, NoBusLost, Held
<1>5. CASE ReadsFailed
  BY <1>5, FailWaitersOwners DEF ReadsFailed
<1>6. ASSUME NEW j \in Jobs, RunJob(j) PROVE OwnersOK'
  BY <1>6 DEF RunJob, FluidBusAllocate, ExclusiveBuses, NoBusLost, Held
<1>7. ASSUME NEW j \in Jobs, SkipJob(j) PROVE OwnersOK'
  BY <1>7 DEF SkipJob, ExclusiveBuses, NoBusLost, Held
<1>8. ASSUME NEW j \in Jobs, StartInsert(j) PROVE OwnersOK'
  BY <1>8 DEF StartInsert, ExclusiveBuses, NoBusLost, Held
<1>9. ASSUME NEW j \in Jobs, JobLoaded(j) PROVE OwnersOK'
  <2>1. PICK end \in {"done", "failed"} : ReturnBuses(j, end)
    BY <1>9 DEF JobLoaded
  <2> QED
    BY <2>1, ReturnBusesOwners
<1>10. ASSUME NEW j \in Jobs, Inserted(j) PROVE OwnersOK'
  BY <1>10, InsertedOwners
<1>11. ASSUME NEW j \in Jobs, NEW p \in Parts(j), Extracted(p) PROVE OwnersOK'
  BY <1>11 DEF Extracted, ExclusiveBuses, NoBusLost, Held
<1>12. ASSUME NEW j \in Jobs, RecipeFailed(j) PROVE OwnersOK'
  <2>1. ReturnBuses(j, "failed")
    BY <1>12 DEF RecipeFailed
  <2> QED
    BY <2>1, ReturnBusesOwners
<1>13. CASE StoragesUpdated
  BY <1>13 DEF StoragesUpdated, ExclusiveBuses, NoBusLost, Held
<1>14. CASE ProcessesJoined
  BY <1>14 DEF ProcessesJoined, ExclusiveBuses, NoBusLost, Held
<1>15. CASE EndOfCycle
  BY <1>15 DEF EndOfCycle, ExclusiveBuses, NoBusLost, Held
<1>16. CASE StartCycle
  BY <1>16 DEF StartCycle, ExclusiveBuses, NoBusLost, Held
<1>17. CASE StoragesFailed
  BY <1>17 DEF StoragesFailed, ExclusiveBuses, NoBusLost, Held
<1>18. CASE UNCHANGED vars
  BY <1>18 DEF vars, ExclusiveBuses, NoBusLost, Held
<1> QED
  BY <1>1, <1>2, <1>3, <1>4, <1>5, <1>6, <1>7, <1>8, <1>9,
     <1>10, <1>11, <1>12, <1>13, <1>14, <1>15, <1>16, <1>17, <1>18
     DEF Next

-----------------------------------------------------------------------------
(***************************************************************************)
(* What the reads and the deposits tell stays true until it is used.       *)
(***************************************************************************)
\* While fluid_bus_main works for the processes, deposits free nothing themselves.
LEMMA FluidBusDepositWaits ==
    ASSUME TaskOK, fluid_bus_main # "idle", cycle = "run", NEW S, FluidBusDeposit(S)
    PROVE  UNCHANGED <<fluid_bus_allocations, fluid_bus_main, unread>>
BY DEF TaskOK, FluidBusDeposit, taskVars

\* A spawned fluid_bus_main has read nothing yet.
LEMMA FluidBusDepositSpawns ==
    ASSUME TypeOK, NEW S, FluidBusDeposit(S), fluid_bus_main = "idle"
    PROVE  fluid_bus_main' = "idle" \/ (fluid_bus_main' = "reading" /\ unread' = Buses)
BY DEF FluidBusDeposit, SpawnBusMain, taskVars

\* A job that returns its buses keeps what was read.
LEMMA ReturnKeepsRead ==
    ASSUME TypeOK, TaskOK, ReadOK, EmptiedOK, cycle = "run", NEW j, NEW end, ReturnBuses(j, end),
           dirty' \subseteq dirty
    PROVE  ReadOK' /\ EmptiedOK'
<1>1. /\ FluidBusDeposit(BusesOf(j))
      /\ UNCHANGED <<filled, depositing, emptied, result>>
  BY DEF ReturnBuses
<1>2. CASE fluid_bus_main = "idle"
  <2>1. fluid_bus_main' = "idle" \/ (fluid_bus_main' = "reading" /\ unread' = Buses)
    BY <1>1, <1>2, FluidBusDepositSpawns
  <2> QED
    BY <2>1 DEF ReadOK, EmptiedOK, TypeOK
<1>3. CASE fluid_bus_main # "idle"
  <2>1. UNCHANGED <<fluid_bus_allocations, fluid_bus_main, unread>>
    BY <1>1, <1>3, FluidBusDepositWaits
  <2> QED
    BY <1>1, <2>1 DEF ReadOK, EmptiedOK
<1> QED
  BY <1>2, <1>3

UpdateOK == ReadOK /\ EmptiedOK

\* A step keeps what was read, and what was emptied, usable.
LEMMA UpdateStep == Inv /\ [Next]_vars => UpdateOK'
<1> SUFFICES ASSUME Inv, [Next]_vars PROVE UpdateOK'
  OBVIOUS
<1> USE DEF Inv, busVars, taskVars, updateVars, UpdateOK, ReadOK, EmptiedOK
<1>1. CASE GrantAndClean
  <2> DEFINE F == Unclaimed(Buses \ filled)
  <2>1. PICK n, h : /\ Handing(n, h, F, {})
                    /\ \/ FinishUpdate(fluid_bus_allocations \cup Image(n, h))
                       \/ /\ fluid_bus_allocations' = fluid_bus_allocations \cup Image(n, h)
                          /\ fluid_bus_main' = "depositing"
                          /\ UNCHANGED <<fluid_bus_free_queue, fluid_bus_task, n_updates, unread>>
    BY <1>1, GrantFacts
  <2>2. /\ depositing' = Unclaimed(filled) /\ emptied' = Unclaimed(filled) /\ dirty' = dirty
    BY <1>1, GrantFacts
  <2>3. CASE FinishUpdate(fluid_bus_allocations \cup Image(n, h))
    BY <2>2, <2>3 DEF FinishUpdate, LoopIf, TypeOK
  <2>4. CASE /\ fluid_bus_allocations' = fluid_bus_allocations \cup Image(n, h)
             /\ fluid_bus_main' = "depositing"
    <3>1. Image(n, h) \subseteq F
      BY <2>1 DEF Handing, Image
    <3> QED
      BY <2>2, <2>4, <3>1 DEF Unclaimed
  <2> QED
    BY <2>1, <2>3, <2>4
<1>2. CASE DepositsJoined
  <2>1. dirty' = dirty
    BY <1>2 DEF DepositsJoined
  <2>2. FailWaiters \/ \E n, h : FinishUpdate(fluid_bus_allocations \cup Image(n, h))
    BY <1>2, JoinFacts
  <2> QED
    BY <2>1, <2>2 DEF FailWaiters, FinishUpdate, LoopIf, TypeOK
<1>3. ASSUME NEW b \in Buses, ReadTanks(b) PROVE UpdateOK'
  BY <1>3 DEF ReadTanks
<1>4. ASSUME NEW b \in Buses, Deposited(b) PROVE UpdateOK'
  BY <1>4 DEF Deposited
<1>5. CASE ReadsFailed
  BY <1>5 DEF ReadsFailed, FailWaiters
<1>6. ASSUME NEW j \in Jobs, RunJob(j) PROVE UpdateOK'
  BY <1>6 DEF RunJob, FluidBusAllocate, SpawnBusMain, TypeOK
<1>7. ASSUME NEW j \in Jobs, SkipJob(j) PROVE UpdateOK'
  BY <1>7 DEF SkipJob
<1>8. ASSUME NEW j \in Jobs, StartInsert(j) PROVE UpdateOK'
  BY <1>8 DEF StartInsert
<1>9. ASSUME NEW j \in Jobs, JobLoaded(j) PROVE UpdateOK'
  <2>1. PICK end \in {"done", "failed"} : ReturnBuses(j, end)
    BY <1>9 DEF JobLoaded
  <2>2. cycle = "run" /\ dirty' = dirty
    BY <1>9 DEF JobLoaded, StagesOK, Over
  <2> QED
    BY <2>1, <2>2, ReturnKeepsRead
<1>10. ASSUME NEW j \in Jobs, Inserted(j) PROVE UpdateOK'
  <2>1. PICK n, h : fluid_bus_allocations' = fluid_bus_allocations \ (BusesOf(j) \ Image(n, h))
    BY <1>10, InsertedFacts
  <2> QED
    BY <1>10, <2>1 DEF Inserted
<1>11. ASSUME NEW j \in Jobs, NEW p \in Parts(j), Extracted(p) PROVE UpdateOK'
  <2>1. p \in AllParts
    BY PartsFacts
  <2>2. bus_of[p] \in fluid_bus_allocations
    BY <1>11, <2>1 DEF Extracted, PartsOK, NoBusLost, Held
  <2> QED
    BY <1>11, <2>2 DEF Extracted
<1>12. ASSUME NEW j \in Jobs, RecipeFailed(j) PROVE UpdateOK'
  <2>1. cycle = "run" /\ dirty' \subseteq dirty
    BY <1>12 DEF RecipeFailed, StagesOK, Over
  <2> QED
    BY <1>12, <2>1, ReturnKeepsRead DEF RecipeFailed
<1>13. CASE StoragesUpdated
  BY <1>13 DEF StoragesUpdated
<1>14. CASE ProcessesJoined
  BY <1>14 DEF ProcessesJoined, SpawnBusMain, TypeOK
<1>15. CASE EndOfCycle
  BY <1>15 DEF EndOfCycle
<1>16. CASE StartCycle
  BY <1>16 DEF StartCycle
<1>17. CASE StoragesFailed
  BY <1>17 DEF StoragesFailed
<1>18. CASE UNCHANGED vars
  BY <1>18 DEF vars
<1> QED
  BY <1>1, <1>2, <1>3, <1>4, <1>5, <1>6, <1>7, <1>8, <1>9,
     <1>10, <1>11, <1>12, <1>13, <1>14, <1>15, <1>16, <1>17, <1>18
     DEF Next

\* Handing over clean buses leaves no sub-task that extracts with a dirty one.
LEMMA HandingKeepsEmpty ==
    ASSUME TypeOK, GrantedBusIsEmpty, NEW n, NEW h, NEW F, NEW done, Handing(n, h, F, done),
           F \cap dirty' = {}, dirty' \subseteq dirty
    PROVE  GrantedBusIsEmpty'
<1>1. \A p \in Granted(n) : h[p] \notin dirty'
  BY DEF Handing
<1> QED
  BY <1>1 DEF Handing, HandBuses, GrantedBusIsEmpty

\* No step leaves a bus with fluid to a sub-task that still extracts.
LEMMA EmptyStep == Inv /\ [Next]_vars => GrantedBusIsEmpty'
<1> SUFFICES ASSUME Inv, [Next]_vars PROVE GrantedBusIsEmpty'
  OBVIOUS
<1> USE DEF Inv, jobVars
<1>1. CASE GrantAndClean
  <2>1. PICK n, h : Handing(n, h, Unclaimed(Buses \ filled), {})
    BY <1>1, GrantFacts
  <2>2. Unclaimed(Buses \ filled) \cap dirty' = {} /\ dirty' = dirty
    BY <1>1 DEF GrantAndClean, ReadOK, Unclaimed
  <2> QED
    BY <2>1, <2>2, HandingKeepsEmpty
<1>2. CASE DepositsJoined
  <2>1. CASE FailWaiters
    BY <1>2, <2>1 DEF DepositsJoined, GrantedBusIsEmpty, FailWaiters
  <2>2. CASE ~FailWaiters
    <3>1. PICK n, h : Handing(n, h, emptied, {})
      BY <1>2, <2>2, JoinFacts
    <3>2. emptied \cap dirty' = {} /\ dirty' = dirty
      BY <1>2, <2>2 DEF DepositsJoined, EmptiedOK
    <3> QED
      BY <3>1, <3>2, HandingKeepsEmpty
  <2> QED
    BY <2>1, <2>2
<1>3. ASSUME NEW b \in Buses, ReadTanks(b) PROVE GrantedBusIsEmpty'
  BY <1>3 DEF ReadTanks, GrantedBusIsEmpty
<1>4. ASSUME NEW b \in Buses, Deposited(b) PROVE GrantedBusIsEmpty'
  BY <1>4 DEF Deposited, GrantedBusIsEmpty
<1>5. CASE ReadsFailed
  BY <1>5 DEF ReadsFailed, GrantedBusIsEmpty, FailWaiters
<1>6. ASSUME NEW j \in Jobs, RunJob(j) PROVE GrantedBusIsEmpty'
  BY <1>6 DEF RunJob, GrantedBusIsEmpty
<1>7. ASSUME NEW j \in Jobs, SkipJob(j) PROVE GrantedBusIsEmpty'
  BY <1>7 DEF SkipJob, GrantedBusIsEmpty
<1>8. ASSUME NEW j \in Jobs, StartInsert(j) PROVE GrantedBusIsEmpty'
  BY <1>8 DEF StartInsert, GrantedBusIsEmpty
<1>9. ASSUME NEW j \in Jobs, JobLoaded(j) PROVE GrantedBusIsEmpty'
  <2>1. \E end \in {"done", "failed"} : ReturnBuses(j, end)
    BY <1>9 DEF JobLoaded
  <2> QED
    BY <1>9, <2>1 DEF JobLoaded, ReturnBuses, HandBuses, GrantedBusIsEmpty
<1>10. ASSUME NEW j \in Jobs, Inserted(j) PROVE GrantedBusIsEmpty'
  <2>1. PICK n, h : Handing(n, h, BusesOf(j), Parts(j))
    BY <1>10, InsertedFacts
  <2>2. BusesOf(j) \cap dirty' = {} /\ dirty' \subseteq dirty
    BY <1>10 DEF Inserted
  <2> QED
    BY <2>1, <2>2, HandingKeepsEmpty
<1>11. ASSUME NEW j \in Jobs, NEW p \in Parts(j), Extracted(p) PROVE GrantedBusIsEmpty'
  <2>1. p \in AllParts /\ bus_of[p] # NoBus
    BY <1>11, PartsFacts DEF Extracted, PartsOK
  <2>2. \A q \in AllParts : part'[q] = "extracting" => q # p /\ part[q] = "extracting"
    BY <1>11, <2>1 DEF Extracted, TypeOK
  <2>3. \A q \in AllParts : q # p => bus_of[q] # bus_of[p]
    BY <2>1 DEF ExclusiveBuses
  <2> QED
    BY <1>11, <2>2, <2>3 DEF Extracted, GrantedBusIsEmpty
<1>12. ASSUME NEW j \in Jobs, RecipeFailed(j) PROVE GrantedBusIsEmpty'
  BY <1>12 DEF RecipeFailed, ReturnBuses, HandBuses, GrantedBusIsEmpty
<1>13. CASE StoragesUpdated
  BY <1>13 DEF StoragesUpdated, GrantedBusIsEmpty
<1>14. CASE ProcessesJoined
  BY <1>14 DEF ProcessesJoined, GrantedBusIsEmpty
<1>15. CASE EndOfCycle
  BY <1>15 DEF EndOfCycle, GrantedBusIsEmpty
<1>16. CASE StartCycle
  BY <1>16 DEF StartCycle, GrantedBusIsEmpty
<1>17. CASE StoragesFailed
  BY <1>17 DEF StoragesFailed, GrantedBusIsEmpty
<1>18. CASE UNCHANGED vars
  BY <1>18 DEF vars, GrantedBusIsEmpty
<1> QED
  BY <1>1, <1>2, <1>3, <1>4, <1>5, <1>6, <1>7, <1>8, <1>9,
     <1>10, <1>11, <1>12, <1>13, <1>14, <1>15, <1>16, <1>17, <1>18
     DEF Next

-----------------------------------------------------------------------------
(***************************************************************************)
(* The order of the queue, and why no jobs wait for each other in a circle.*)
(***************************************************************************)
\* The parts of a request stand next to each other in their order; only the
\* request at the head may have lost its first parts to grants.
BlocksOK ==
    \A i \in 1 .. Len(fluid_bus_wait_queue) :
        LET j == fluid_bus_wait_queue[i][1]
            first == i - fluid_bus_wait_queue[i][2]
        IN  \A m \in 1 .. Need[j] : first + m >= 1 =>
                first + m <= Len(fluid_bus_wait_queue) /\ fluid_bus_wait_queue[first + m] = <<j, m>>

\* A part belongs to the job it names.
LEMMA PartNames ==
    ASSUME NEW p \in AllParts
    PROVE  /\ p[1] \in Jobs /\ p[2] \in 1 .. Need[p[1]] /\ p = <<p[1], p[2]>>
           /\ Need[p[1]] \in Nat /\ p \in Parts(p[1])
<1>1. PICK j \in Jobs : p \in Parts(j)
  BY DEF AllParts
<1>2. p[1] = j /\ p[2] \in 1 .. Need[j] /\ p = <<p[1], p[2]>>
  BY <1>1 DEF Parts
<1> QED
  BY <1>1, <1>2, FluidJobsAssumption

\* The ways a step changes the queue: not at all, by a grant, by an error
\* that empties it, or by a request.
LEMMA QueueMoves ==
    ASSUME Inv, [Next]_vars
    PROVE  \/ fluid_bus_wait_queue' = fluid_bus_wait_queue
           \/ fluid_bus_wait_queue' = <<>>
           \/ \E n \in 0 .. Len(fluid_bus_wait_queue) : \E h, F : HandOver(n, h, F)
           \/ \E j \in Jobs : FluidBusAllocate(j)
<1>1. CASE GrantAndClean
  <2>1. PICK n, h : Handing(n, h, Unclaimed(Buses \ filled), {})
    BY <1>1, GrantFacts
  <2> QED
    BY <2>1 DEF Handing
<1>2. CASE DepositsJoined
  <2>1. FailWaiters \/ \E n, h : Handing(n, h, emptied, {})
    BY <1>2, JoinFacts
  <2> QED
    BY <2>1 DEF FailWaiters, Handing
<1>3. ASSUME NEW j \in Jobs, Inserted(j)
      PROVE  \E n \in 0 .. Len(fluid_bus_wait_queue) : \E h, F : HandOver(n, h, F)
  <2>1. PICK n, h : Handing(n, h, BusesOf(j), Parts(j))
    BY <1>3, InsertedFacts
  <2> QED
    BY <2>1 DEF Handing
<1>4. ASSUME NEW j \in Jobs, RunJob(j) PROVE FluidBusAllocate(j)
  BY <1>4 DEF RunJob
<1>5. ASSUME ReadsFailed PROVE fluid_bus_wait_queue' = <<>>
  BY <1>5 DEF ReadsFailed, FailWaiters
<1>6. ASSUME NEW j \in Jobs, SkipJob(j) \/ StartInsert(j) \/ JobLoaded(j) \/ RecipeFailed(j)
      PROVE  fluid_bus_wait_queue' = fluid_bus_wait_queue
  BY <1>6 DEF SkipJob, StartInsert, JobLoaded, RecipeFailed, ReturnBuses, busVars
<1>7. ASSUME NEW j \in Jobs, NEW p \in Parts(j), Extracted(p)
      PROVE  fluid_bus_wait_queue' = fluid_bus_wait_queue
  BY <1>7 DEF Extracted, busVars
<1>8. ASSUME NEW b \in Buses, ReadTanks(b) \/ Deposited(b)
      PROVE  fluid_bus_wait_queue' = fluid_bus_wait_queue
  BY <1>8 DEF ReadTanks, Deposited, busVars
<1>9. ASSUME StoragesUpdated \/ StoragesFailed \/ ProcessesJoined \/ EndOfCycle \/ StartCycle
      PROVE  fluid_bus_wait_queue' = fluid_bus_wait_queue
  BY <1>9 DEF StoragesUpdated, StoragesFailed, ProcessesJoined, EndOfCycle, StartCycle, busVars
<1>10. CASE UNCHANGED vars
  BY <1>10 DEF vars, busVars
<1> QED
  BY <1>1, <1>2, <1>3, <1>4, <1>5, <1>6, <1>7, <1>8, <1>9, <1>10 DEF Next

\* Grants take from the head and requests are added at the end, so requests
\* stay in one piece.
LEMMA BlocksStep == Inv /\ BlocksOK /\ [Next]_vars => BlocksOK'
<1> SUFFICES ASSUME Inv, BlocksOK, [Next]_vars PROVE BlocksOK'
  OBVIOUS
<1> DEFINE q == fluid_bus_wait_queue
<1>1. /\ q \in Seq(AllParts) /\ Len(q) \in Nat
      /\ \A i \in 1 .. Len(q) : q[i] \in AllParts
  BY LenProperties, ElementOfSeq DEF Inv, TypeOK
<1>2. \A i \in 1 .. Len(q) : q[i][2] \in Int /\ Need[q[i][1]] \in Nat
  BY <1>1, PartNames
<1>3. CASE fluid_bus_wait_queue' = fluid_bus_wait_queue
  BY <1>3 DEF BlocksOK
<1>4. CASE fluid_bus_wait_queue' = <<>>
  BY <1>4, EmptySeq DEF BlocksOK
<1>5. ASSUME NEW n \in 0 .. Len(q), NEW h, NEW F, HandOver(n, h, F) PROVE BlocksOK'
  <2>1. /\ Len(q') = Len(q) - n
        /\ \A i \in 1 .. Len(q') : q'[i] = q[n + i]
    BY <1>5, HandOverQueue DEF Inv
  <2> SUFFICES ASSUME NEW i \in 1 .. Len(q'), NEW m \in 1 .. Need[q'[i][1]],
                      (i - q'[i][2]) + m >= 1
               PROVE  /\ (i - q'[i][2]) + m <= Len(q')
                      /\ q'[(i - q'[i][2]) + m] = <<q'[i][1], m>>
    BY DEF BlocksOK
  <2>2. n + i \in 1 .. Len(q) /\ q'[i] = q[n + i] /\ q[n + i][2] \in Int /\ m \in Int
    <3>1. n + i \in 1 .. Len(q)
      BY <1>1, <2>1
    <3>2. q'[i] = q[n + i]
      BY <2>1
    <3>3. q[n + i][2] \in Int /\ Need[q[n + i][1]] \in Nat
      BY <1>2, <3>1
    <3> QED
      BY <3>1, <3>2, <3>3
  <2> DEFINE d == i - q[n + i][2]
  <2>3. (n + i) - q[n + i][2] = n + d /\ d \in Int /\ d + m >= 1
    BY <1>1, <2>2
  <2>4. (n + d) + m <= Len(q) /\ q[(n + d) + m] = <<q[n + i][1], m>>
    <3>1. m \in 1 .. Need[q[n + i][1]]
      BY <2>2
    <3>2. (n + d) + m >= 1
      <4>1. n \in Int /\ n >= 0 /\ d \in Int /\ m \in Int /\ d + m >= 1
        BY <1>1, <2>2, <2>3
      <4> HIDE DEF d
      <4> QED
        BY <4>1
    <3> QED
      BY <2>2, <2>3, <3>1, <3>2 DEF BlocksOK
  <2> HIDE DEF d
  <2>5. d + m \in 1 .. Len(q') /\ (n + d) + m = n + (d + m)
    BY <1>1, <2>1, <2>2, <2>3, <2>4
  <2>6. q'[d + m] = <<q[n + i][1], m>>
    BY <2>1, <2>4, <2>5
  <2> QED
    BY <2>2, <2>5, <2>6 DEF d
<1>6. ASSUME NEW j \in Jobs, FluidBusAllocate(j) PROVE BlocksOK'
  <2>1. /\ Need[j] \in Nat /\ Len(q') = Len(q) + Need[j]
        /\ \A i \in 1 .. Len(q) : q'[i] = q[i]
        /\ \A i \in 1 .. Need[j] : q'[Len(q) + i] = <<j, i>>
    BY <1>6, Enqueue DEF Inv
  <2> SUFFICES ASSUME NEW i \in 1 .. Len(q'), NEW m \in 1 .. Need[q'[i][1]],
                      (i - q'[i][2]) + m >= 1
               PROVE  /\ (i - q'[i][2]) + m <= Len(q')
                      /\ q'[(i - q'[i][2]) + m] = <<q'[i][1], m>>
    BY DEF BlocksOK
  <2>2. CASE i \in 1 .. Len(q)
    <3>1. q'[i] = q[i] /\ q[i][2] \in Int /\ m \in Int
      BY <1>1, <1>2, <2>1, <2>2
    <3> DEFINE d == i - q[i][2]
    <3>2. d + m <= Len(q) /\ q[d + m] = <<q[i][1], m>>
      BY <2>2, <3>1 DEF BlocksOK
    <3>3. d + m \in 1 .. Len(q) /\ d + m <= Len(q')
      BY <1>1, <2>1, <2>2, <3>1, <3>2
    <3> HIDE DEF d
    <3>4. q'[d + m] = <<q[i][1], m>>
      BY <2>1, <3>2, <3>3
    <3> QED
      BY <3>1, <3>3, <3>4 DEF d
  <2>3. CASE i \notin 1 .. Len(q)
    <3> DEFINE k == i - Len(q)
    <3>1. k \in 1 .. Need[j] /\ i = Len(q) + k
      BY <1>1, <2>1, <2>3
    <3>2. q'[i] = <<j, k>>
      BY <2>1, <3>1
    <3> HIDE DEF k
    <3>3. q'[i][1] = j /\ q'[i][2] = k
      BY <3>2
    <3>4. m \in 1 .. Need[j] /\ (i - k) + m = Len(q) + m /\ Len(q) + m <= Len(q')
      BY <1>1, <2>1, <3>1, <3>3
    <3>5. q'[Len(q) + m] = <<j, m>>
      BY <2>1, <3>4
    <3> QED
      BY <3>3, <3>4, <3>5
  <2> QED
    BY <2>2, <2>3
<1> QED
  BY <1>3, <1>4, <1>5, <1>6, QueueMoves

\* A job that holds a bus and waits for more is the one at the head.
LEMMA HolderIsFirst ==
    ASSUME Inv, BlocksOK, NEW j \in Jobs, NEW o \in Parts(j), bus_of[o] # NoBus,
           NEW w \in Parts(j), part[w] = "queued"
    PROVE  fluid_bus_wait_queue[1][1] = j
<1> DEFINE q == fluid_bus_wait_queue
<1>1. Len(q) \in Nat
  BY LenProperties DEF Inv, TypeOK
<1>2. o \in AllParts /\ w \in AllParts /\ o = <<j, o[2]>> /\ w = <<j, w[2]>>
      /\ o[2] \in 1 .. Need[j] /\ w[2] \in 1 .. Need[j]
  BY PartsFacts, PartNames
<1>3. PICK i \in 1 .. Len(q) : q[i] = w
  BY <1>2 DEF Inv, QueueOK
<1>4. q[i][1] = j /\ q[i][2] = w[2]
  BY <1>2, <1>3
<1>5. CASE (i - w[2]) + 1 >= 1
  <2>1. (i - w[2]) + o[2] >= 1
    BY <1>1, <1>2, <1>5
  <2>2. (i - w[2]) + o[2] \in 1 .. Len(q) /\ q[(i - w[2]) + o[2]] = o
    <3>1. /\ (i - w[2]) + o[2] <= Len(q)
          /\ q[(i - w[2]) + o[2]] = <<j, o[2]>>
      BY <1>2, <1>4, <2>1 DEF BlocksOK
    <3>2. (i - w[2]) + o[2] \in 1 .. Len(q)
      BY <1>1, <1>2, <2>1, <3>1
    <3>3. <<j, o[2]>> = o
      BY <1>2
    <3> QED
      BY <3>1, <3>2, <3>3
  <2>3. part[o] = "queued"
    BY <2>2 DEF Inv, QueueOK
  <2> QED
    BY <1>2, <2>3 DEF Inv, PartsOK
<1>6. CASE ~((i - w[2]) + 1 >= 1)
  <2> DEFINE m == (1 - i) + w[2]
  <2>1. m \in 1 .. Need[j] /\ (i - w[2]) + m = 1
    BY <1>1, <1>2, <1>6, FluidJobsAssumption
  <2> HIDE DEF m
  <2>2. q[1] = <<j, m>>
    BY <1>4, <2>1 DEF BlocksOK
  <2> QED
    BY <2>2
<1> QED
  BY <1>5, <1>6

-----------------------------------------------------------------------------
(***************************************************************************)
(* The theorems.                                                           *)
(***************************************************************************)
\* The invariant holds when the server starts.
LEMMA InitInv == Init => Inv
<1> SUFFICES ASSUME Init PROVE Inv
  OBVIOUS
<1>1. TypeOK
  BY EmptySeq, FaultsAssumption DEF Init, TypeOK
<1>2. QueueOK
  BY EmptySeq DEF Init, QueueOK
<1>3. PartsOK /\ StagesOK
  BY PartsFacts DEF Init, PartsOK, StagesOK, Over
<1>4. TaskOK /\ ReadOK /\ EmptiedOK
  BY DEF Init, TaskOK, ReadOK, EmptiedOK
<1>5. ExclusiveBuses /\ NoBusLost /\ GrantedBusIsEmpty
  BY DEF Init, ExclusiveBuses, NoBusLost, GrantedBusIsEmpty, Held
<1> QED
  BY <1>1, <1>2, <1>3, <1>4, <1>5 DEF Inv

\* Every step keeps the invariant.
LEMMA NextInv == Inv /\ [Next]_vars => Inv'
BY TypeStep, QueueStep, PartsStep, StagesStep, TaskStep, UpdateStep, OwnersStep, EmptyStep
   DEF Inv, OwnersOK, UpdateOK

\* The invariant holds in every state of the server.
THEOREM InvCorrect == Spec => []Inv
BY InitInv, NextInv, PTL DEF Spec

\* The state of Factory and of its tasks is well typed, for any buses and any
\* jobs.
THEOREM TypeCorrect == Spec => []TypeOK
<1>1. Inv => TypeOK
  BY DEF Inv
<1> QED
  BY <1>1, InvCorrect, PTL

\* No two requests are ever given the same bus, by either grant of
\* fluid_bus_update or by fluid_bus_free.
THEOREM BusesAreExclusive == Spec => []ExclusiveBuses
<1>1. Inv => ExclusiveBuses
  BY DEF Inv
<1> QED
  BY <1>1, InvCorrect, PTL

\* fluid_bus_allocations accounts for every bus held or queued to be freed,
\* whatever fails: no bus is lost.
THEOREM BusesAreNotLost == Spec => []NoBusLost
<1>1. Inv => NoBusLost
  BY DEF Inv
<1> QED
  BY <1>1, InvCorrect, PTL

\* The bus a sub-task is granted is empty, although the reads may be old and
\* what a deposit emptied is not read again.
THEOREM GrantedBusesAreEmpty == Spec => []GrantedBusIsEmpty
<1>1. Inv => GrantedBusIsEmpty
  BY DEF Inv
<1> QED
  BY <1>1, InvCorrect, PTL

\* At most one job both holds buses and waits for more, so jobs never wait
\* for each other in a circle: requests are served in the order they came.
THEOREM NoCircularWait == Spec => []OneJobHoldsAndWaits
<1>1. Init => BlocksOK
  BY EmptySeq DEF Init, BlocksOK
<1>2. Inv /\ BlocksOK => OneJobHoldsAndWaits
  BY HolderIsFirst DEF OneJobHoldsAndWaits
<1> QED
  BY <1>1, <1>2, BlocksStep, InvCorrect, PTL DEF Spec
=============================================================================
