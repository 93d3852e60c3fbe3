--------------------------- MODULE ItemBus_proofs ---------------------------
(* The inductive invariant of ItemBus and the theorems it proves. *)
EXTENDS ItemBus, SequenceTheorems, TLAPS

(***************************************************************************)
(* The inductive invariant.                                                *)
(***************************************************************************)
\* The queue holds each waiting part once.
QueueOK ==
    /\ \A i, k \in 1 .. Len(bus_wait_queue) :
          bus_wait_queue[i] = bus_wait_queue[k] => i = k
    /\ \A i \in 1 .. Len(bus_wait_queue) : part[bus_wait_queue[i]] = "queued"
    /\ \A p \in AllParts : part[p] = "queued" =>
          \E i \in 1 .. Len(bus_wait_queue) : bus_wait_queue[i] = p

\* A part holds a slot from its grant to the end of its job.
PartsOK ==
    /\ \A p \in AllParts : part[p] \in {"idle", "queued"} => slot_of[p] = NoSlot
    /\ \A p \in AllParts : part[p] \in {"extracting", "loaded"} => slot_of[p] # NoSlot

\* Parts are only busy in a job that runs, and jobs only run in phase "run".
StagesOK ==
    /\ \A j \in Jobs : \A p \in Parts(j) :
          stage[j] \notin {"load", "insert"} => part[p] = "idle"
    /\ \A j \in Jobs : \A p \in Parts(j) : stage[j] = "insert" => part[p] = "loaded"
    /\ \A j \in Jobs : Active(j) => cycle = "run"

\* factory_main sees the task exactly while processes run.
TaskOK ==
    /\ bus_main # "idle" => cycle \in {"run", "drain"}
    /\ bus_task = "Some" <=> bus_main # "idle" /\ cycle = "run"

\* What got dirty since the snapshot was taken is allocated.
SnapshotOK == bus_main = "listed" => dirty \ listed \subseteq bus_allocations

Inv ==
    /\ TypeOK /\ QueueOK /\ PartsOK /\ StagesOK /\ TaskOK /\ SnapshotOK
    /\ ExclusiveSlots /\ NoSlotLost /\ NoStrandedWaiter /\ GrantedSlotIsEmpty

-----------------------------------------------------------------------------
(***************************************************************************)
(* Parts, and what a hand-over does to the queue.                          *)
(***************************************************************************)
\* Every part belongs to exactly one job.
LEMMA PartsFacts ==
    /\ \A j \in Jobs : Parts(j) \subseteq AllParts
    /\ \A p \in AllParts : \E j \in Jobs : p \in Parts(j)
    /\ \A j, k \in Jobs : \A p \in Parts(j) : p \in Parts(k) => j = k
BY DEF Parts, AllParts

\* The second component of a pair is determined by the pair.
LEMMA PairInjective == \A a, b, c, d : <<a, b>> = <<c, d>> => b = d
OBVIOUS

\* A request adds each part of its job once.
LEMMA NewParts ==
    ASSUME NEW j \in Jobs
    PROVE  LET new == [i \in 1 .. Need[j] |-> <<j, i>>] IN
           /\ new \in Seq(AllParts)
           /\ Len(new) = Need[j]
           /\ \A i \in 1 .. Need[j] : new[i] = <<j, i>>
           /\ \A p \in Parts(j) : \E i \in 1 .. Need[j] : p = <<j, i>>
<1>1. Need[j] \in Nat
  BY JobsAssumption
<1>2. \A i \in 1 .. Need[j] : <<j, i>> \in AllParts
  BY DEF Parts, AllParts
<1> QED
  BY <1>1, <1>2, IsASeq, LenProperties DEF Parts

\* The first n waiters leave the queue, the others keep their order.
LEMMA HandOverQueue ==
    ASSUME TypeOK, NEW n \in 0 .. Len(bus_wait_queue), NEW h, NEW F, HandOver(n, h, F)
    PROVE  /\ bus_wait_queue' \in Seq(AllParts)
           /\ Len(bus_wait_queue') = Len(bus_wait_queue) - n
           /\ \A i \in 1 .. Len(bus_wait_queue') : bus_wait_queue'[i] = bus_wait_queue[n + i]
           /\ Granted(n) \subseteq AllParts
<1> DEFINE q == bus_wait_queue
<1>1. q \in Seq(AllParts) /\ Len(q) \in Nat /\ \A i \in 1 .. Len(q) : q[i] \in AllParts
  BY LenProperties, ElementOfSeq DEF TypeOK
<1>2. bus_wait_queue' = SubSeq(q, n + 1, Len(q))
  BY DEF HandOver
<1>3. /\ SubSeq(q, n + 1, Len(q)) \in Seq(AllParts)
      /\ Len(SubSeq(q, n + 1, Len(q))) = Len(q) - n
      /\ \A i \in 1 .. Len(q) - n : SubSeq(q, n + 1, Len(q))[i] = q[n + i]
  <2>1. n + 1 \in Int /\ Len(q) \in Int /\ \A i \in (n + 1) .. Len(q) : q[i] \in AllParts
    BY <1>1
  <2> QED
    BY <1>1, <2>1, SubSeqProperties
<1> QED
  BY <1>1, <1>2, <1>3 DEF Granted

-----------------------------------------------------------------------------
\* The states of a sub-task and of a job, as TypeOK lists them.
PartStates == {"idle", "queued", "extracting", "loaded", "failed"}
StageStates == {"off", "inv", "load", "insert", "done", "failed"}

\* Handing slots of the bus to sub-tasks keeps the types of the sub-tasks.
LEMMA HandSlotsType ==
    ASSUME TypeOK, NEW done, NEW granted, NEW h, HandSlots(done, granted, h),
           \A p \in granted : h[p] \in Slots
    PROVE  /\ part' \in [AllParts -> PartStates]
           /\ slot_of' \in [AllParts -> Slots \cup {NoSlot}]
<1>1. part' \in [AllParts -> PartStates]
  BY DEF HandSlots, TypeOK, PartStates
<1>2. slot_of' \in [AllParts -> Slots \cup {NoSlot}]
  BY DEF HandSlots, TypeOK
<1> QED
  BY <1>1, <1>2

\* A job holds slots of the bus.
LEMMA SlotsOfType == ASSUME TypeOK, NEW j \in Jobs PROVE SlotsOf(j) \subseteq Slots
BY PartsFacts DEF TypeOK, SlotsOf

\* bus_deposit keeps the types of the bus and of the task.
LEMMA BusDepositType ==
    ASSUME TypeOK, NEW S \in SUBSET Slots, NEW alloc \in SUBSET Slots, BusDeposit(S, alloc)
    PROVE  /\ bus_allocations' \subseteq Slots
           /\ bus_free_queue' \subseteq Slots
           /\ bus_task' \in {"None", "Some"}
           /\ bus_main' \in {"idle", "listing", "listed", "depositing"}
           /\ n_bus_updates' \in {0, 1}
BY DEF TypeOK, BusDeposit, SpawnBusMain, taskVars

\* The end of bus_update keeps the types of the bus and of the task.
LEMMA FinishUpdateType ==
    ASSUME TypeOK, NEW alloc \in SUBSET Slots, NEW ever_deposited, FinishUpdate(alloc, ever_deposited)
    PROVE  /\ bus_allocations' \subseteq Slots
           /\ bus_free_queue' \subseteq Slots
           /\ bus_task' \in {"None", "Some"}
           /\ bus_main' \in {"idle", "listing", "listed", "depositing"}
           /\ n_bus_updates' \in {0, 1}
BY DEF TypeOK, FinishUpdate

\* A failed update keeps the types of the bus, the task and the sub-tasks.
LEMMA FailWaitersType ==
    ASSUME TypeOK, FailWaiters
    PROVE  /\ part' \in [AllParts -> PartStates]
           /\ bus_wait_queue' \in Seq(AllParts)
           /\ bus_task' \in {"None", "Some"}
           /\ bus_main' \in {"idle", "listing", "listed", "depositing"}
BY EmptySeq DEF TypeOK, FailWaiters, PartStates

\* A job that ends and returns its slots keeps all types.
LEMMA ReturnSlotsType ==
    ASSUME TypeOK, NEW j \in Jobs, NEW result \in StageStates, ReturnSlots(j, result)
    PROVE  /\ bus_allocations' \subseteq Slots
           /\ bus_free_queue' \subseteq Slots
           /\ bus_task' \in {"None", "Some"}
           /\ bus_main' \in {"idle", "listing", "listed", "depositing"}
           /\ n_bus_updates' \in {0, 1}
           /\ stage' \in [Jobs -> StageStates]
           /\ part' \in [AllParts -> PartStates]
           /\ slot_of' \in [AllParts -> Slots \cup {NoSlot}]
<1>1. bus_allocations \subseteq Slots /\ BusDeposit(SlotsOf(j), bus_allocations)
  BY DEF ReturnSlots, TypeOK
<1>2. HandSlots(Parts(j), {}, slot_of)
  BY DEF ReturnSlots
<1>3. stage' \in [Jobs -> StageStates]
  BY DEF ReturnSlots, TypeOK, StageStates
<1> QED
  BY <1>1, <1>2, <1>3, SlotsOfType, BusDepositType, HandSlotsType

\* A step keeps every variable in its type.
LEMMA TypeStep == Inv /\ [Next]_vars => TypeOK'
<1> SUFFICES ASSUME Inv, [Next]_vars PROVE TypeOK'
  OBVIOUS
<1> USE DEF Inv, TypeOK, busVars, taskVars, updateVars, jobVars, Fault, SpawnBusMain, PartStates, StageStates
<1>1. CASE ListBus
  BY <1>1, BoundsAssumption DEF ListBus
<1>2. CASE GrantAndClean
  <2>0. PICK n \in 0 .. Len(bus_wait_queue) : \E h \in [Granted(n) -> Unclaimed(Slots \ listed)] :
             /\ HandOver(n, h, Unclaimed(Slots \ listed))
             /\ HandSlots({}, Granted(n), h)
             /\ AfterGrants(bus_allocations \cup Image(n, h), Unclaimed(listed))
    BY <1>2 DEF GrantAndClean
  <2>1. PICK h \in [Granted(n) -> Unclaimed(Slots \ listed)] :
             /\ HandOver(n, h, Unclaimed(Slots \ listed))
             /\ HandSlots({}, Granted(n), h)
             /\ AfterGrants(bus_allocations \cup Image(n, h), Unclaimed(listed))
    BY <2>0
  <2>2. bus_wait_queue' \in Seq(AllParts)
    BY <2>1, HandOverQueue
  <2>3. \A p \in Granted(n) : h[p] \in Slots
    BY <2>1 DEF Unclaimed
  <2>4. /\ part' \in [AllParts -> PartStates]
        /\ slot_of' \in [AllParts -> Slots \cup {NoSlot}]
    BY <2>1, <2>3, HandSlotsType
  <2>5. bus_allocations \cup Image(n, h) \in SUBSET Slots /\ Unclaimed(listed) \subseteq Slots
    BY <2>3 DEF Image, Unclaimed
  <2>6. /\ bus_allocations' \subseteq Slots
        /\ bus_free_queue' \subseteq Slots
        /\ bus_task' \in {"None", "Some"}
        /\ bus_main' \in {"idle", "listing", "listed", "depositing"}
        /\ n_bus_updates' \in {0, 1}
    BY <2>1, <2>5, FinishUpdateType DEF AfterGrants
  <2> QED
    BY <1>2, <2>2, <2>4, <2>5, <2>6 DEF GrantAndClean
<1>3. CASE DepositsJoined
  <2>1. CASE FinishUpdate(bus_allocations, TRUE) /\ UNCHANGED <<bus_wait_queue, part, slot_of>>
    BY <1>3, <2>1, FinishUpdateType DEF DepositsJoined
  <2>2. CASE FailWaiters
    BY <1>3, <2>2, FailWaitersType DEF DepositsJoined, FailWaiters
  <2> QED
    BY <1>3, <2>1, <2>2 DEF DepositsJoined
<1>4. ASSUME NEW s \in Slots, Deposited(s) PROVE TypeOK'
  BY <1>4, BoundsAssumption DEF Deposited
<1>5. CASE ListFailed
  <2>1. FailWaiters
    BY <1>5 DEF ListFailed
  <2> QED
    BY <1>5, <2>1, FailWaitersType, BoundsAssumption DEF ListFailed, FailWaiters
<1>6. ASSUME NEW j \in Jobs, RunJob(j) PROVE TypeOK'
  <2>1. bus_wait_queue' \in Seq(AllParts)
    BY <1>6, NewParts, ConcatProperties DEF RunJob, BusAllocate
  <2>2. part' \in [AllParts -> PartStates] /\ stage' \in [Jobs -> StageStates]
    BY <1>6 DEF RunJob
  <2> QED
    BY <1>6, <2>1, <2>2 DEF RunJob, BusAllocate
<1>7. ASSUME NEW j \in Jobs, SkipJob(j) PROVE TypeOK'
  BY <1>7, BoundsAssumption DEF SkipJob
<1>8. ASSUME NEW j \in Jobs, StartInsert(j) PROVE TypeOK'
  BY <1>8, BoundsAssumption DEF StartInsert
<1>9. ASSUME NEW j \in Jobs, JobLoaded(j) PROVE TypeOK'
  <2>1. PICK result \in {"done", "failed"} : ReturnSlots(j, result)
    BY <1>9 DEF JobLoaded
  <2> QED
    BY <1>9, <2>1, ReturnSlotsType DEF JobLoaded, ReturnSlots
<1>10. ASSUME NEW j \in Jobs, Inserted(j) PROVE TypeOK'
  <2>0. PICK q \in Parts(j), n \in 0 .. Len(bus_wait_queue) : \E h \in [Granted(n) -> Freed(j, q)] :
             /\ HandOver(n, h, Freed(j, q))
             /\ HandSlots(Parts(j), Granted(n), h)
             /\ BusDeposit(Kept(j, q), bus_allocations \ (Freed(j, q) \ Image(n, h)))
             /\ dirty' = dirty \ Freed(j, q)
    BY <1>10 DEF Inserted
  <2>1. PICK h \in [Granted(n) -> Freed(j, q)] :
             /\ HandOver(n, h, Freed(j, q))
             /\ HandSlots(Parts(j), Granted(n), h)
             /\ BusDeposit(Kept(j, q), bus_allocations \ (Freed(j, q) \ Image(n, h)))
             /\ dirty' = dirty \ Freed(j, q)
    BY <2>0
  <2>2. bus_wait_queue' \in Seq(AllParts)
    BY <2>1, HandOverQueue
  <2>3. Freed(j, q) \subseteq Slots /\ Kept(j, q) \subseteq Slots
    BY <1>10, SlotsOfType, PartsFacts DEF Freed, Kept, Inserted, PartsOK, StagesOK
  <2>4. /\ part' \in [AllParts -> PartStates]
        /\ slot_of' \in [AllParts -> Slots \cup {NoSlot}]
    <3>1. \A p \in Granted(n) : h[p] \in Slots
      BY <2>1, <2>3
    <3> QED
      BY <2>1, <3>1, HandSlotsType
  <2>5. /\ bus_allocations' \subseteq Slots
        /\ bus_free_queue' \subseteq Slots
        /\ bus_task' \in {"None", "Some"}
        /\ bus_main' \in {"idle", "listing", "listed", "depositing"}
        /\ n_bus_updates' \in {0, 1}
    <3>1. bus_allocations \ (Freed(j, q) \ Image(n, h)) \in SUBSET Slots
      OBVIOUS
    <3> QED
      BY <2>1, <2>3, <3>1, BusDepositType
  <2> QED
    BY <1>10, <2>1, <2>2, <2>4, <2>5 DEF Inserted

<1>11. ASSUME NEW j \in Jobs, NEW p \in Parts(j), Extracted(p) PROVE TypeOK'
  <2>1. slot_of[p] \in Slots
    BY <1>11, PartsFacts DEF Extracted, PartsOK
  <2>2. part' \in [AllParts -> PartStates]
    BY <1>11 DEF Extracted
  <2>3. dirty' \subseteq Slots
    BY <1>11, <2>1 DEF Extracted
  <2>4. faults' \in 0 .. MaxFaults
    BY <1>11, BoundsAssumption DEF Extracted
  <2> QED
    BY <1>11, <2>2, <2>3, <2>4 DEF Extracted
<1>12. ASSUME NEW j \in Jobs, InsertFailed(j) PROVE TypeOK'
  <2>1. ReturnSlots(j, "failed")
    BY <1>12 DEF InsertFailed
  <2>2. dirty' \subseteq Slots /\ faults' \in 0 .. MaxFaults
    BY <1>12, BoundsAssumption DEF InsertFailed
  <2> QED
    BY <1>12, <2>1, <2>2, ReturnSlotsType DEF InsertFailed, ReturnSlots
<1>13. CASE StoragesUpdated
  BY <1>13, BoundsAssumption DEF StoragesUpdated
<1>14. CASE ProcessesJoined
  BY <1>14, BoundsAssumption DEF ProcessesJoined
<1>15. CASE EndOfCycle
  BY <1>15, BoundsAssumption DEF EndOfCycle
<1>16. CASE StartCycle
  BY <1>16, BoundsAssumption DEF StartCycle
<1>17. CASE StoragesFailed
  BY <1>17, BoundsAssumption DEF StoragesFailed
<1>18. CASE Restart
  <2>1. {slot_of[p] : p \in {q \in AllParts : part[q] = "extracting"}} \subseteq Slots
    BY DEF PartsOK
  <2>2. dirty' \subseteq Slots
    BY <1>18, <2>1 DEF Restart
  <2>3. /\ part' \in [AllParts -> PartStates]
        /\ slot_of' \in [AllParts -> Slots \cup {NoSlot}]
        /\ stage' \in [Jobs -> StageStates]
    BY <1>18 DEF Restart
  <2>4. bus_wait_queue' \in Seq(AllParts)
    BY <1>18, EmptySeq DEF Restart
  <2>5. faults' \in 0 .. MaxFaults
    BY <1>18, BoundsAssumption DEF Restart
  <2> QED
    BY <1>18, <2>2, <2>3, <2>4, <2>5 DEF Restart
<1>19. CASE UNCHANGED vars
  BY <1>19, BoundsAssumption DEF vars, busVars, taskVars, updateVars, jobVars
<1> QED
  BY <1>1, <1>2, <1>3, <1>4, <1>5, <1>6, <1>7, <1>8, <1>9, <1>10, <1>11, <1>12, <1>13, <1>14, <1>15, <1>16, <1>17, <1>18, <1>19
     DEF Next, Update, JobStep, Cycle

-----------------------------------------------------------------------------
(***************************************************************************)
(* The queue.                                                              *)
(***************************************************************************)
\* The waiters that take a slot leave the queue, nobody else does.
LEMMA HandOverKeepsQueue ==
    ASSUME TypeOK, QueueOK, NEW n \in 0 .. Len(bus_wait_queue), NEW h, NEW F, NEW done,
           HandOver(n, h, F), HandSlots(done, Granted(n), h),
           \A p \in done : part[p] # "queued"
    PROVE  QueueOK'
<1> DEFINE q == bus_wait_queue
<1>1. Len(q) \in Nat /\ \A i \in 1 .. Len(q) : q[i] \in AllParts
  BY LenProperties, ElementOfSeq DEF TypeOK
<1>2. /\ Len(q') = Len(q) - n
      /\ \A i \in 1 .. Len(q') : q'[i] = q[n + i] /\ n + i \in 1 .. Len(q)
  BY <1>1, HandOverQueue
<1>3. \A i \in 1 .. Len(q') : q'[i] \notin Granted(n)
  BY <1>1, <1>2 DEF QueueOK, Granted
<1>4. \A i, k \in 1 .. Len(q') : q'[i] = q'[k] => i = k
  BY <1>1, <1>2 DEF QueueOK
<1>5. \A i \in 1 .. Len(q') : part'[q'[i]] = "queued"
  BY <1>1, <1>2, <1>3 DEF QueueOK, HandSlots
<1>6. ASSUME NEW p \in AllParts, part'[p] = "queued"
      PROVE  \E i \in 1 .. Len(q') : q'[i] = p
  <2>1. part[p] = "queued" /\ p \notin Granted(n)
    BY <1>6 DEF HandSlots
  <2>2. PICK k \in 1 .. Len(q) : q[k] = p
    BY <2>1 DEF QueueOK
  <2>3. k - n \in 1 .. Len(q')
    BY <1>1, <1>2, <2>1, <2>2 DEF Granted
  <2>4. q'[k - n] = q[n + (k - n)] /\ n + (k - n) = k
    BY <1>1, <1>2, <2>3
  <2> QED
    BY <2>2, <2>3, <2>4
<1> QED
  BY <1>4, <1>5, <1>6 DEF QueueOK

\* A request of job j is added behind the waiters.
LEMMA Enqueue ==
    ASSUME TypeOK, NEW j \in Jobs, BusAllocate(j)
    PROVE  /\ Len(bus_wait_queue) \in Nat /\ Need[j] \in Nat
           /\ bus_wait_queue' \in Seq(AllParts)
           /\ Len(bus_wait_queue') = Len(bus_wait_queue) + Need[j]
           /\ \A i \in 1 .. Len(bus_wait_queue) :
                 bus_wait_queue'[i] = bus_wait_queue[i] /\ bus_wait_queue[i] \in AllParts
           /\ \A i \in 1 .. Need[j] : bus_wait_queue'[Len(bus_wait_queue) + i] = <<j, i>>
<1> DEFINE q == bus_wait_queue
           new == [i \in 1 .. Need[j] |-> <<j, i>>]
<1>1. /\ new \in Seq(AllParts) /\ Len(new) = Need[j] /\ Need[j] \in Nat
      /\ \A i \in 1 .. Need[j] : new[i] = <<j, i>>
  BY NewParts, JobsAssumption
<1>2. q \in Seq(AllParts) /\ Len(q) \in Nat /\ \A i \in 1 .. Len(q) : q[i] \in AllParts
  BY LenProperties, ElementOfSeq DEF TypeOK
<1>3. q' = q \o new
  BY DEF BusAllocate
<1> HIDE DEF new
<1>4. /\ q' \in Seq(AllParts)
      /\ Len(q') = Len(q) + Len(new)
      /\ \A i \in 1 .. Len(q) + Len(new) : q'[i] = IF i <= Len(q) THEN q[i] ELSE new[i - Len(q)]
  BY <1>1, <1>2, <1>3, ConcatProperties
<1>5. ASSUME NEW i \in 1 .. Need[j] PROVE q'[Len(q) + i] = <<j, i>>
  <2>1. Len(q) + i \in 1 .. Len(q) + Len(new) /\ ~(Len(q) + i <= Len(q)) /\ (Len(q) + i) - Len(q) = i
    BY <1>1, <1>2
  <2>2. q'[Len(q) + i] = new[i]
    BY <1>4, <2>1
  <2> QED
    BY <1>1, <2>2
<1>6. ASSUME NEW i \in 1 .. Len(q) PROVE q'[i] = q[i] /\ q[i] \in AllParts
  <2>1. i \in 1 .. Len(q) + Len(new) /\ i <= Len(q)
    BY <1>1, <1>2
  <2> QED
    BY <1>2, <1>4, <2>1
<1> QED
  BY <1>1, <1>2, <1>4, <1>5, <1>6

\* After a new request the queue still holds each waiting sub-task once.
LEMMA RequestKeepsQueue ==
    ASSUME TypeOK, QueueOK, NEW j \in Jobs, BusAllocate(j),
           \A p \in Parts(j) : part[p] = "idle",
           part' = [p \in AllParts |-> IF p \in Parts(j) THEN "queued" ELSE part[p]]
    PROVE  QueueOK'
<1> DEFINE q == bus_wait_queue
           n == Len(q)
<1>1. /\ n \in Nat /\ Need[j] \in Nat /\ Len(q') = n + Need[j]
      /\ \A i \in 1 .. n : q'[i] = q[i] /\ q[i] \in AllParts
      /\ \A i \in 1 .. Need[j] : q'[n + i] = <<j, i>>
  BY Enqueue
<1>2. \A i \in 1 .. n : q[i] \notin Parts(j)
  BY <1>1 DEF QueueOK
<1> HIDE DEF n, q
<1>3. \A i \in 1 .. Len(q') : i \in 1 .. n \/ (i - n \in 1 .. Need[j] /\ i = n + (i - n))
  BY <1>1
<1>4. \A i \in 1 .. Need[j] : <<j, i>> \in Parts(j) /\ <<j, i>> \in AllParts
  BY PartsFacts DEF Parts
<1>5. \A i, k \in 1 .. n : q[i] = q[k] => i = k
  BY DEF QueueOK, q, n
<1>6. ASSUME NEW i \in 1 .. Len(q'), NEW k \in 1 .. Len(q'), q'[i] = q'[k] PROVE i = k
  <2>1. CASE i \in 1 .. n /\ k \in 1 .. n
    BY <1>1, <1>5, <1>6, <2>1
  <2>2. CASE i - n \in 1 .. Need[j] /\ k - n \in 1 .. Need[j]
    <3>1. q'[i] = <<j, i - n>> /\ q'[k] = <<j, k - n>>
      <4>1. i = n + (i - n) /\ k = n + (k - n)
        BY <1>1
      <4> QED
        BY <1>1, <2>2, <4>1
    <3>2. <<j, i - n>> = <<j, k - n>>
      BY <1>6, <3>1
    <3>3. i - n = k - n
      BY <3>2, PairInjective
    <3> QED
      BY <1>1, <3>3
  <2>3. CASE i \in 1 .. n /\ k - n \in 1 .. Need[j]
    <3>1. q'[k] = <<j, k - n>>
      <4>1. k = n + (k - n)
        BY <1>1
      <4> QED
        BY <1>1, <2>3, <4>1
    <3>2. q'[i] \notin Parts(j) /\ q'[k] \in Parts(j)
      BY <1>1, <1>2, <1>4, <2>3, <3>1
    <3> QED
      BY <1>6, <3>2
  <2>4. CASE i - n \in 1 .. Need[j] /\ k \in 1 .. n
    <3>1. q'[i] = <<j, i - n>>
      <4>1. i = n + (i - n)
        BY <1>1
      <4> QED
        BY <1>1, <2>4, <4>1
    <3>2. q'[k] \notin Parts(j) /\ q'[i] \in Parts(j)
      BY <1>1, <1>2, <1>4, <2>4, <3>1
    <3> QED
      BY <1>6, <3>2
  <2> QED
    BY <1>3, <2>1, <2>2, <2>3, <2>4
<1>7. ASSUME NEW i \in 1 .. Len(q') PROVE part'[q'[i]] = "queued"
  <2>1. CASE i \in 1 .. n
    BY <1>1, <1>2, <2>1 DEF QueueOK, q, n
  <2>2. CASE i - n \in 1 .. Need[j]
    <3>1. i = n + (i - n)
      BY <1>1
    <3>2. q'[i] = <<j, i - n>> /\ <<j, i - n>> \in Parts(j) /\ <<j, i - n>> \in AllParts
      BY <1>1, <1>4, <2>2, <3>1
    <3> QED
      BY <3>2
  <2> QED
    BY <1>3, <2>1, <2>2
<1>8. ASSUME NEW p \in AllParts, part'[p] = "queued" PROVE \E i \in 1 .. Len(q') : q'[i] = p
  <2>1. CASE p \in Parts(j)
    <3>1. PICK i \in 1 .. Need[j] : p = <<j, i>>
      BY <2>1, NewParts
    <3>2. n + i \in 1 .. Len(q') /\ q'[n + i] = p
      BY <1>1, <3>1
    <3> QED
      BY <3>2
  <2>2. CASE p \notin Parts(j)
    <3>1. PICK i \in 1 .. n : q[i] = p
      BY <1>8, <2>2 DEF QueueOK, q, n
    <3>2. i \in 1 .. Len(q') /\ q'[i] = p
      BY <1>1, <3>1
    <3> QED
      BY <3>2
  <2> QED
    BY <2>1, <2>2
<1> QED
  BY <1>6, <1>7, <1>8 DEF QueueOK, q

\* When no sub-task waits, the queue is empty.
LEMMA EmptyQueue ==
    ASSUME TypeOK, QueueOK, \A p \in AllParts : part[p] # "queued"
    PROVE  bus_wait_queue = <<>>
<1>1. Len(bus_wait_queue) \in Nat /\ \A i \in 1 .. Len(bus_wait_queue) : bus_wait_queue[i] \in AllParts
  BY LenProperties, ElementOfSeq DEF TypeOK
<1>2. 1 .. Len(bus_wait_queue) = {}
  BY <1>1 DEF QueueOK
<1> QED
  BY <1>1, <1>2, EmptySeq DEF TypeOK

\* A failed update empties the queue and leaves no sub-task waiting.
LEMMA FailedWaitersLeave == ASSUME TypeOK, QueueOK, FailWaiters PROVE QueueOK'
<1>1. InQueue = {p \in AllParts : part[p] = "queued"}
  BY LenProperties, ElementOfSeq DEF TypeOK, QueueOK, InQueue
<1>2. bus_wait_queue' = <<>> /\ \A p \in AllParts : part'[p] # "queued"
  BY <1>1 DEF FailWaiters
<1> QED
  BY <1>2, EmptySeq DEF QueueOK

\* A job that returns its slots had no sub-task in the queue.
LEMMA ReturnKeepsQueue ==
    ASSUME TypeOK, QueueOK, NEW j \in Jobs, NEW result, ReturnSlots(j, result),
           \A p \in Parts(j) : part[p] # "queued"
    PROVE  QueueOK'
<1>1. \A i \in 1 .. Len(bus_wait_queue) : bus_wait_queue[i] \in AllParts
  BY LenProperties, ElementOfSeq DEF TypeOK
<1> QED
  BY <1>1 DEF ReturnSlots, HandSlots, QueueOK

\* A step keeps the queue equal to the waiting sub-tasks, each once.
LEMMA QueueStep == Inv /\ [Next]_vars => QueueOK'
<1> SUFFICES ASSUME Inv, [Next]_vars PROVE QueueOK'
  OBVIOUS
<1> USE DEF Inv, busVars, jobVars
<1>1. CASE ListBus
  BY <1>1 DEF ListBus, QueueOK
<1>2. CASE GrantAndClean
  <2>1. PICK n \in 0 .. Len(bus_wait_queue) : \E h \in [Granted(n) -> Unclaimed(Slots \ listed)] :
             HandOver(n, h, Unclaimed(Slots \ listed)) /\ HandSlots({}, Granted(n), h)
    BY <1>2 DEF GrantAndClean
  <2> QED
    BY <2>1, HandOverKeepsQueue
<1>3. CASE DepositsJoined
  <2>1. CASE FailWaiters
    BY <2>1, FailedWaitersLeave
  <2>2. CASE UNCHANGED <<bus_wait_queue, part>>
    BY <2>2 DEF QueueOK
  <2> QED
    BY <1>3, <2>1, <2>2 DEF DepositsJoined
<1>4. ASSUME NEW s \in Slots, Deposited(s) PROVE QueueOK'
  BY <1>4 DEF Deposited, QueueOK
<1>5. CASE ListFailed
  BY <1>5, FailedWaitersLeave DEF ListFailed
<1>6. ASSUME NEW j \in Jobs, RunJob(j) PROVE QueueOK'
  <2>1. \A p \in Parts(j) : part[p] = "idle"
    BY <1>6 DEF RunJob, StagesOK
  <2> QED
    BY <1>6, <2>1, RequestKeepsQueue DEF RunJob
<1>7. ASSUME NEW j \in Jobs, SkipJob(j) PROVE QueueOK'
  BY <1>7 DEF SkipJob, QueueOK
<1>8. ASSUME NEW j \in Jobs, StartInsert(j) PROVE QueueOK'
  BY <1>8 DEF StartInsert, QueueOK
<1>9. ASSUME NEW j \in Jobs, JobLoaded(j) PROVE QueueOK'
  <2>1. \A p \in Parts(j) : part[p] # "queued"
    BY <1>9 DEF JobLoaded, Ended
  <2>2. PICK result \in {"done", "failed"} : ReturnSlots(j, result)
    BY <1>9 DEF JobLoaded
  <2> QED
    BY <2>1, <2>2, ReturnKeepsQueue
<1>10. ASSUME NEW j \in Jobs, Inserted(j) PROVE QueueOK'
  <2>1. PICK q \in Parts(j), n \in 0 .. Len(bus_wait_queue) : \E h \in [Granted(n) -> Freed(j, q)] :
             HandOver(n, h, Freed(j, q)) /\ HandSlots(Parts(j), Granted(n), h)
    BY <1>10 DEF Inserted
  <2>2. \A p \in Parts(j) : part[p] # "queued"
    BY <1>10 DEF Inserted, StagesOK
  <2> QED
    BY <2>1, <2>2, HandOverKeepsQueue
<1>11. ASSUME NEW j \in Jobs, NEW p \in Parts(j), Extracted(p) PROVE QueueOK'
  <2>1. \A i \in 1 .. Len(bus_wait_queue) : bus_wait_queue[i] \in AllParts /\ bus_wait_queue[i] # p
    BY <1>11, LenProperties, ElementOfSeq DEF TypeOK, QueueOK, Extracted
  <2>2. \E r \in {"loaded", "failed"} : part' = [part EXCEPT ![p] = r]
    BY <1>11 DEF Extracted
  <2> QED
    BY <1>11, <2>1, <2>2 DEF Extracted, QueueOK, TypeOK
<1>12. ASSUME NEW j \in Jobs, InsertFailed(j) PROVE QueueOK'
  <2>1. \A p \in Parts(j) : part[p] # "queued"
    BY <1>12 DEF InsertFailed, StagesOK
  <2> QED
    BY <1>12, <2>1, ReturnKeepsQueue DEF InsertFailed
<1>13. CASE StoragesUpdated
  BY <1>13 DEF StoragesUpdated, QueueOK
<1>14. CASE ProcessesJoined
  BY <1>14 DEF ProcessesJoined, QueueOK
<1>15. CASE EndOfCycle
  BY <1>15 DEF EndOfCycle, QueueOK
<1>16. CASE StartCycle
  BY <1>16 DEF StartCycle, QueueOK
<1>17. CASE StoragesFailed
  BY <1>17 DEF StoragesFailed, QueueOK
<1>18. CASE Restart
  BY <1>18, EmptySeq DEF Restart, QueueOK
<1>19. CASE UNCHANGED vars
  BY <1>19 DEF vars, QueueOK
<1> QED
  BY <1>1, <1>2, <1>3, <1>4, <1>5, <1>6, <1>7, <1>8, <1>9, <1>10, <1>11, <1>12, <1>13, <1>14, <1>15, <1>16, <1>17, <1>18, <1>19
     DEF Next, Update, JobStep, Cycle

-----------------------------------------------------------------------------
(***************************************************************************)
(* The control state of parts, jobs, task and cycle.                            *)
(***************************************************************************)
\* A hand-over leaves waiters with a slot and ended parts without.
LEMMA HandSlotsKeepsParts ==
    ASSUME TypeOK, PartsOK, NEW done, NEW granted, NEW h, HandSlots(done, granted, h),
           \A p \in granted : h[p] \in Slots
    PROVE  PartsOK'
BY SlotsAssumption DEF HandSlots, TypeOK, PartsOK

\* What the deposit of slots that no update is cleaning does to the task.
LEMMA BusDepositKeepsTask ==
    ASSUME TaskOK, cycle = "run", cycle' = cycle, NEW S, NEW alloc, BusDeposit(S, alloc)
    PROVE  TaskOK'
BY DEF TaskOK, BusDeposit, SpawnBusMain, taskVars

\* A step keeps the agreement of parts and slots.
LEMMA PartsStep == Inv /\ [Next]_vars => PartsOK'
<1> SUFFICES ASSUME Inv, [Next]_vars PROVE PartsOK'
  OBVIOUS
<1> USE DEF Inv, TypeOK, busVars, jobVars, PartsOK
<1>1. CASE ListBus
  BY <1>1 DEF ListBus
<1>2. CASE GrantAndClean
  <2>1. PICK n \in 0 .. Len(bus_wait_queue) : \E h \in [Granted(n) -> Unclaimed(Slots \ listed)] :
             HandSlots({}, Granted(n), h) /\ AfterGrants(bus_allocations \cup Image(n, h), Unclaimed(listed))
    BY <1>2 DEF GrantAndClean
  <2>2. PICK h \in [Granted(n) -> Unclaimed(Slots \ listed)] :
             HandSlots({}, Granted(n), h) /\ AfterGrants(bus_allocations \cup Image(n, h), Unclaimed(listed))
    BY <2>1
  <2>3. \A p \in Granted(n) : h[p] \in Slots
    BY <2>2 DEF Unclaimed
  <2> QED
    BY <2>2, <2>3, HandSlotsKeepsParts
<1>3. CASE DepositsJoined
  BY <1>3 DEF DepositsJoined, FailWaiters
<1>4. ASSUME NEW s \in Slots, Deposited(s) PROVE PartsOK'
  BY <1>4 DEF Deposited
<1>5. CASE ListFailed
  BY <1>5 DEF ListFailed, FailWaiters
<1>6. ASSUME NEW j \in Jobs, RunJob(j) PROVE PartsOK'
  <2>1. \A p \in Parts(j) : part[p] = "idle"
    BY <1>6 DEF RunJob, StagesOK
  <2> QED
    BY <1>6, <2>1, PartsFacts DEF RunJob
<1>7. ASSUME NEW j \in Jobs, SkipJob(j) PROVE PartsOK'
  BY <1>7 DEF SkipJob
<1>8. ASSUME NEW j \in Jobs, StartInsert(j) PROVE PartsOK'
  BY <1>8 DEF StartInsert
<1>9. ASSUME NEW j \in Jobs, JobLoaded(j) PROVE PartsOK'
  <2>1. PICK result \in {"done", "failed"} : ReturnSlots(j, result)
    BY <1>9 DEF JobLoaded
  <2> QED
    BY <2>1, HandSlotsKeepsParts DEF ReturnSlots
<1>10. ASSUME NEW j \in Jobs, Inserted(j) PROVE PartsOK'
  <2>1. PICK q \in Parts(j), n \in 0 .. Len(bus_wait_queue) : \E h \in [Granted(n) -> Freed(j, q)] :
             /\ HandSlots(Parts(j), Granted(n), h)
             /\ BusDeposit(Kept(j, q), bus_allocations \ (Freed(j, q) \ Image(n, h)))
    BY <1>10 DEF Inserted
  <2>2. PICK h \in [Granted(n) -> Freed(j, q)] :
             /\ HandSlots(Parts(j), Granted(n), h)
             /\ BusDeposit(Kept(j, q), bus_allocations \ (Freed(j, q) \ Image(n, h)))
    BY <2>1
  <2>3. Freed(j, q) \subseteq Slots
    BY <2>1, SlotsOfType DEF Freed
  <2>4. \A p \in Granted(n) : h[p] \in Slots
    BY <2>2, <2>3
  <2> QED
    BY <2>2, <2>4, HandSlotsKeepsParts
<1>11. ASSUME NEW j \in Jobs, NEW p \in Parts(j), Extracted(p) PROVE PartsOK'
  BY <1>11 DEF Extracted
<1>12. ASSUME NEW j \in Jobs, InsertFailed(j) PROVE PartsOK'
  <2>1. ReturnSlots(j, "failed")
    BY <1>12 DEF InsertFailed
  <2> QED
    BY <2>1, HandSlotsKeepsParts DEF ReturnSlots
<1>13. CASE StoragesUpdated
  BY <1>13 DEF StoragesUpdated
<1>14. CASE ProcessesJoined
  BY <1>14 DEF ProcessesJoined
<1>15. CASE EndOfCycle
  BY <1>15 DEF EndOfCycle
<1>16. CASE StartCycle
  BY <1>16 DEF StartCycle
<1>17. CASE StoragesFailed
  BY <1>17 DEF StoragesFailed
<1>18. CASE Restart
  BY <1>18 DEF Restart
<1>19. CASE UNCHANGED vars
  BY <1>19 DEF vars, busVars, taskVars, updateVars, jobVars
<1> QED
  BY <1>1, <1>2, <1>3, <1>4, <1>5, <1>6, <1>7, <1>8, <1>9, <1>10, <1>11, <1>12, <1>13, <1>14, <1>15, <1>16, <1>17, <1>18, <1>19
     DEF Next, Update, JobStep, Cycle

\* The waiters that get a slot or an error belong to jobs that still load.
LEMMA WaitersLoad ==
    ASSUME TypeOK, QueueOK, StagesOK
    PROVE  /\ \A i \in 1 .. Len(bus_wait_queue) : bus_wait_queue[i] \in AllParts
           /\ InQueue \subseteq AllParts
           /\ \A n \in 0 .. Len(bus_wait_queue) : Granted(n) \subseteq InQueue
           /\ \A p \in InQueue : part[p] = "queued"
           /\ \A j \in Jobs : \A p \in Parts(j) : p \in InQueue => stage[j] = "load"
<1>1. Len(bus_wait_queue) \in Nat /\ DOMAIN bus_wait_queue = 1 .. Len(bus_wait_queue)
  BY LenProperties DEF TypeOK
<1>2. \A i \in 1 .. Len(bus_wait_queue) : bus_wait_queue[i] \in AllParts
  BY <1>1, ElementOfSeq DEF TypeOK
<1>3. InQueue \subseteq AllParts /\ \A p \in InQueue : part[p] = "queued"
  BY <1>1, <1>2 DEF InQueue, QueueOK
<1>4. \A n \in 0 .. Len(bus_wait_queue) : Granted(n) \subseteq InQueue
  BY <1>1 DEF Granted, InQueue
<1>5. ASSUME NEW j \in Jobs, NEW p \in Parts(j), p \in InQueue PROVE stage[j] = "load"
  BY <1>3, <1>5 DEF StagesOK
<1> QED
  BY <1>2, <1>3, <1>4, <1>5

\* Job j ends while waiters of other jobs get slots.
LEMMA EndKeepsStages ==
    ASSUME TypeOK, QueueOK, StagesOK, NEW j \in Jobs, NEW result \in {"done", "failed"},
           NEW granted, NEW h, HandSlots(Parts(j), granted, h),
           \A p \in granted : p \in InQueue /\ p \notin Parts(j),
           stage' = [stage EXCEPT ![j] = result], cycle' = cycle
    PROVE  StagesOK'
<1>1. \A p \in Parts(j) : part'[p] = "idle"
  BY WaitersLoad, PartsFacts DEF HandSlots
<1>2. ASSUME NEW k \in Jobs, k # j, NEW p \in Parts(k)
      PROVE  part'[p] = part[p] \/ (part'[p] = "extracting" /\ stage[k] = "load")
  BY <1>2, WaitersLoad, PartsFacts DEF HandSlots
<1>3. stage'[j] = result /\ \A k \in Jobs : k # j => stage'[k] = stage[k]
  BY DEF TypeOK
<1> QED
  BY <1>1, <1>2, <1>3 DEF StagesOK, Active

\* Job j ends and gives its slots to bus_deposit.
LEMMA ReturnKeepsStages ==
    ASSUME TypeOK, QueueOK, StagesOK, NEW j \in Jobs, NEW result \in {"done", "failed"},
           ReturnSlots(j, result)
    PROVE  StagesOK'
<1> DEFINE none == {}
<1>1. /\ HandSlots(Parts(j), none, slot_of)
      /\ stage' = [stage EXCEPT ![j] = result] /\ cycle' = cycle
  BY DEF ReturnSlots
<1>2. \A p \in none : p \in InQueue /\ p \notin Parts(j)
  OBVIOUS
<1> HIDE DEF none
<1> QED
  BY <1>1, <1>2, EndKeepsStages

\* A failed update fails parts of jobs that still load.
LEMMA FailKeepsStages ==
    ASSUME TypeOK, QueueOK, StagesOK, FailWaiters, stage' = stage, cycle' = cycle
    PROVE  StagesOK'
<1>1. ASSUME NEW k \in Jobs, NEW p \in Parts(k)
      PROVE  part'[p] = part[p] \/ stage[k] = "load"
  BY WaitersLoad, PartsFacts DEF FailWaiters
<1> QED
  BY <1>1 DEF StagesOK, Active

\* A step keeps the order in which a job goes through its stages.
LEMMA StagesStep == Inv /\ [Next]_vars => StagesOK'
<1> SUFFICES ASSUME Inv, [Next]_vars PROVE StagesOK'
  OBVIOUS
<1> USE DEF Inv, busVars, jobVars, StagesOK, Active
<1>1. CASE ListBus
  BY <1>1 DEF ListBus
<1>2. CASE GrantAndClean
  <2>1. PICK n \in 0 .. Len(bus_wait_queue) : \E h \in [Granted(n) -> Unclaimed(Slots \ listed)] :
             HandSlots({}, Granted(n), h) /\ AfterGrants(bus_allocations \cup Image(n, h), Unclaimed(listed))
    BY <1>2 DEF GrantAndClean
  <2>2. PICK h \in [Granted(n) -> Unclaimed(Slots \ listed)] :
             HandSlots({}, Granted(n), h) /\ AfterGrants(bus_allocations \cup Image(n, h), Unclaimed(listed))
    BY <2>1
  <2>3. stage' = stage /\ cycle' = cycle
    BY <1>2 DEF GrantAndClean
  <2>4. ASSUME NEW k \in Jobs, NEW p \in Parts(k) PROVE part'[p] = part[p] \/ stage[k] = "load"
    BY <2>2, WaitersLoad, PartsFacts DEF HandSlots
  <2> QED
    BY <2>3, <2>4
<1>3. CASE DepositsJoined
  <2>1. CASE FailWaiters
    BY <1>3, <2>1, FailKeepsStages DEF DepositsJoined
  <2>2. CASE UNCHANGED part
    BY <1>3, <2>2 DEF DepositsJoined
  <2> QED
    BY <1>3, <2>1, <2>2 DEF DepositsJoined
<1>4. ASSUME NEW s \in Slots, Deposited(s) PROVE StagesOK'
  BY <1>4 DEF Deposited
<1>5. CASE ListFailed
  BY <1>5, FailKeepsStages DEF ListFailed
<1>6. ASSUME NEW j \in Jobs, RunJob(j) PROVE StagesOK'
  <2>1. stage'[j] = "load" /\ \A k \in Jobs : k # j => stage'[k] = stage[k]
    BY <1>6 DEF RunJob, TypeOK
  <2>2. \A p \in Parts(j) : part'[p] = "queued"
    BY <1>6, PartsFacts DEF RunJob
  <2>3. \A k \in Jobs : k # j => \A p \in Parts(k) : part'[p] = part[p]
    BY <1>6, PartsFacts DEF RunJob
  <2>4. cycle' = "run"
    BY <1>6 DEF RunJob
  <2> QED
    BY <2>1, <2>2, <2>3, <2>4
<1>7. ASSUME NEW j \in Jobs, SkipJob(j) PROVE StagesOK'
  BY <1>7 DEF SkipJob, TypeOK
<1>8. ASSUME NEW j \in Jobs, StartInsert(j) PROVE StagesOK'
  BY <1>8 DEF StartInsert, TypeOK, AllLoaded
<1>9. ASSUME NEW j \in Jobs, JobLoaded(j) PROVE StagesOK'
  <2>1. PICK result \in {"done", "failed"} : ReturnSlots(j, result)
    BY <1>9 DEF JobLoaded
  <2> HIDE DEF StagesOK
  <2> QED
    BY <2>1, ReturnKeepsStages
<1>10. ASSUME NEW j \in Jobs, Inserted(j) PROVE StagesOK'
  <2>1. PICK q \in Parts(j), n \in 0 .. Len(bus_wait_queue) : \E h \in [Granted(n) -> Freed(j, q)] :
             /\ HandSlots(Parts(j), Granted(n), h)
             /\ BusDeposit(Kept(j, q), bus_allocations \ (Freed(j, q) \ Image(n, h)))
    BY <1>10 DEF Inserted
  <2>2. PICK h \in [Granted(n) -> Freed(j, q)] :
             /\ HandSlots(Parts(j), Granted(n), h)
             /\ BusDeposit(Kept(j, q), bus_allocations \ (Freed(j, q) \ Image(n, h)))
    BY <2>1
  <2>3. \A p \in Granted(n) : p \in InQueue /\ p \notin Parts(j)
    BY <1>10, <2>1, WaitersLoad DEF Inserted
  <2>4. stage[j] = "insert" /\ stage' = [stage EXCEPT ![j] = "done"] /\ cycle' = cycle
    BY <1>10 DEF Inserted
  <2> QED
    BY <2>2, <2>3, <2>4, EndKeepsStages
<1>11. ASSUME NEW j \in Jobs, NEW p \in Parts(j), Extracted(p) PROVE StagesOK'
  <2>1. PICK r \in {"loaded", "failed"} : part' = [part EXCEPT ![p] = r]
    BY <1>11 DEF Extracted
  <2>2. stage' = stage /\ cycle' = cycle /\ part[p] = "extracting"
    BY <1>11 DEF Extracted
  <2>3. \A q \in AllParts : q # p => part'[q] = part[q]
    BY <2>1 DEF TypeOK
  <2>4. stage[j] \in {"load", "insert"} /\ stage[j] # "insert"
    BY <2>2
  <2>5. \A k \in Jobs : \A q \in Parts(k) : q = p => k = j
    BY PartsFacts
  <2> QED
    BY <2>2, <2>3, <2>4, <2>5, PartsFacts
<1>12. ASSUME NEW j \in Jobs, InsertFailed(j) PROVE StagesOK'
  <2>1. ReturnSlots(j, "failed")
    BY <1>12 DEF InsertFailed
  <2> HIDE DEF StagesOK
  <2> QED
    BY <2>1, ReturnKeepsStages
<1>13. CASE StoragesUpdated
  BY <1>13 DEF StoragesUpdated
<1>14. CASE ProcessesJoined
  BY <1>14 DEF ProcessesJoined
<1>15. CASE EndOfCycle
  BY <1>15 DEF EndOfCycle
<1>16. CASE StartCycle
  BY <1>16 DEF StartCycle
<1>17. CASE StoragesFailed
  BY <1>17 DEF StoragesFailed
<1>18. CASE Restart
  BY <1>18, PartsFacts DEF Restart
<1>19. CASE UNCHANGED vars
  BY <1>19 DEF vars, busVars, taskVars, updateVars, jobVars
<1> QED
  BY <1>1, <1>2, <1>3, <1>4, <1>5, <1>6, <1>7, <1>8, <1>9, <1>10, <1>11, <1>12, <1>13, <1>14, <1>15, <1>16, <1>17, <1>18, <1>19
     DEF Next, Update, JobStep, Cycle

\* A step keeps the agreement of task, bus_main and cycle.
LEMMA TaskStep == Inv /\ [Next]_vars => TaskOK'
<1> SUFFICES ASSUME Inv, [Next]_vars PROVE TaskOK'
  OBVIOUS
<1> USE DEF Inv, TypeOK, taskVars, TaskOK
<1>1. CASE ListBus
  BY <1>1 DEF ListBus
<1>2. CASE GrantAndClean
  <2>1. PICK n \in 0 .. Len(bus_wait_queue) : \E h \in [Granted(n) -> Unclaimed(Slots \ listed)] :
             HandSlots({}, Granted(n), h) /\ AfterGrants(bus_allocations \cup Image(n, h), Unclaimed(listed))
    BY <1>2 DEF GrantAndClean
  <2>2. PICK h \in [Granted(n) -> Unclaimed(Slots \ listed)] :
             HandSlots({}, Granted(n), h) /\ AfterGrants(bus_allocations \cup Image(n, h), Unclaimed(listed))
    BY <2>1
  <2>3. cycle' = cycle /\ bus_main = "listed"
    BY <1>2 DEF GrantAndClean
  <2> QED
    BY <2>2, <2>3 DEF AfterGrants, FinishUpdate
<1>3. CASE DepositsJoined
  BY <1>3 DEF DepositsJoined, FailWaiters, FinishUpdate
<1>4. ASSUME NEW s \in Slots, Deposited(s) PROVE TaskOK'
  BY <1>4 DEF Deposited
<1>5. CASE ListFailed
  BY <1>5 DEF ListFailed, FailWaiters
<1>6. ASSUME NEW j \in Jobs, RunJob(j) PROVE TaskOK'
  BY <1>6 DEF RunJob, BusAllocate, SpawnBusMain
<1>7. ASSUME NEW j \in Jobs, SkipJob(j) PROVE TaskOK'
  BY <1>7 DEF SkipJob
<1>8. ASSUME NEW j \in Jobs, StartInsert(j) PROVE TaskOK'
  BY <1>8 DEF StartInsert
<1>9. ASSUME NEW j \in Jobs, JobLoaded(j) PROVE TaskOK'
  <2>1. PICK result \in {"done", "failed"} : ReturnSlots(j, result)
    BY <1>9 DEF JobLoaded
  <2>2. cycle = "run" /\ cycle' = cycle
    BY <1>9, <2>1 DEF JobLoaded, ReturnSlots, StagesOK, Active
  <2> QED
    BY <2>1, <2>2, BusDepositKeepsTask DEF ReturnSlots
<1>10. ASSUME NEW j \in Jobs, Inserted(j) PROVE TaskOK'
  <2>1. PICK q \in Parts(j), n \in 0 .. Len(bus_wait_queue) : \E h \in [Granted(n) -> Freed(j, q)] :
             /\ HandSlots(Parts(j), Granted(n), h)
             /\ BusDeposit(Kept(j, q), bus_allocations \ (Freed(j, q) \ Image(n, h)))
    BY <1>10 DEF Inserted
  <2>2. PICK h \in [Granted(n) -> Freed(j, q)] :
             /\ HandSlots(Parts(j), Granted(n), h)
             /\ BusDeposit(Kept(j, q), bus_allocations \ (Freed(j, q) \ Image(n, h)))
    BY <2>1
  <2>3. cycle = "run" /\ cycle' = cycle
    BY <1>10 DEF Inserted, updateVars, StagesOK, Active
  <2> QED
    BY <2>2, <2>3, BusDepositKeepsTask
<1>11. ASSUME NEW j \in Jobs, NEW p \in Parts(j), Extracted(p) PROVE TaskOK'
  BY <1>11 DEF Extracted
<1>12. ASSUME NEW j \in Jobs, InsertFailed(j) PROVE TaskOK'
  <2>1. ReturnSlots(j, "failed")
    BY <1>12 DEF InsertFailed
  <2>2. cycle = "run" /\ cycle' = cycle
    BY <1>12, <2>1 DEF InsertFailed, ReturnSlots, StagesOK, Active
  <2> QED
    BY <2>1, <2>2, BusDepositKeepsTask DEF ReturnSlots
<1>13. CASE StoragesUpdated
  BY <1>13 DEF StoragesUpdated
<1>14. CASE ProcessesJoined
  BY <1>14 DEF ProcessesJoined, SpawnBusMain
<1>15. CASE EndOfCycle
  BY <1>15 DEF EndOfCycle
<1>16. CASE StartCycle
  BY <1>16 DEF StartCycle
<1>17. CASE StoragesFailed
  BY <1>17 DEF StoragesFailed
<1>18. CASE Restart
  BY <1>18 DEF Restart
<1>19. CASE UNCHANGED vars
  BY <1>19 DEF vars, busVars, taskVars, updateVars, jobVars
<1> QED
  BY <1>1, <1>2, <1>3, <1>4, <1>5, <1>6, <1>7, <1>8, <1>9, <1>10, <1>11, <1>12, <1>13, <1>14, <1>15, <1>16, <1>17, <1>18, <1>19
     DEF Next, Update, JobStep, Cycle

-----------------------------------------------------------------------------
(***************************************************************************)
(* The owners of slots, and the allocations that account for them.              *)
(***************************************************************************)
OwnersOK == ExclusiveSlots /\ NoSlotLost
Outside(done) == {slot_of[p] : p \in AllParts \ done} \ {NoSlot}
Handed(granted, h) == {h[p] : p \in granted}

\* Slots that nobody outside done holds are handed to waiters without one.
LEMMA HandSlotsOwners ==
    ASSUME TypeOK, ExclusiveSlots, NEW done, NEW granted, NEW h, HandSlots(done, granted, h),
           \A p \in granted : p \in AllParts /\ h[p] \in Slots,
           \A p, q \in granted : h[p] = h[q] => p = q,
           \A p \in granted : h[p] \notin Outside(done)
    PROVE  ExclusiveSlots' /\ Held' = Outside(done \cup granted) \cup Handed(granted, h)
<1>1. \A p \in granted : slot_of'[p] = h[p] /\ h[p] # NoSlot
  BY SlotsAssumption DEF HandSlots
<1>2. \A p \in AllParts : p \notin granted /\ p \in done => slot_of'[p] = NoSlot
  BY DEF HandSlots
<1>3. \A p \in AllParts : p \notin granted /\ p \notin done => slot_of'[p] = slot_of[p]
  BY DEF HandSlots
<1>4. \A p \in AllParts, q \in granted : p \notin done /\ slot_of[p] = h[q] => FALSE
  BY <1>1 DEF Outside
<1>5. ExclusiveSlots'
  <2>1. ASSUME NEW p \in AllParts, NEW q \in AllParts, slot_of'[p] = slot_of'[q], slot_of'[p] # NoSlot
        PROVE  p = q
    BY <1>1, <1>2, <1>3, <1>4, <2>1 DEF ExclusiveSlots
  <2> QED
    BY <2>1 DEF ExclusiveSlots
<1>6. Held' = Outside(done \cup granted) \cup Handed(granted, h)
  BY <1>1, <1>2, <1>3 DEF Held, Outside, Handed
<1> QED
  BY <1>5, <1>6

\* Waiters hold no slot.
LEMMA OutsideWaiters ==
    ASSUME PartsOK, NEW done, NEW granted, \A p \in granted : p \in AllParts /\ part[p] = "queued"
    PROVE  Outside(done \cup granted) = Outside(done)
BY DEF Outside, PartsOK

\* The slots of job j are held by nobody else.
LEMMA OutsideJob ==
    ASSUME TypeOK, ExclusiveSlots, NEW j \in Jobs
    PROVE  /\ SlotsOf(j) \subseteq Held
           /\ Outside(Parts(j)) = Held \ SlotsOf(j)
BY PartsFacts DEF Outside, Held, SlotsOf, ExclusiveSlots

\* bus_deposit moves S from the held slots to the free queue, or frees them.
LEMMA BusDepositAccounts ==
    ASSUME NEW S, NEW alloc, BusDeposit(S, alloc), NEW others,
           alloc = others \cup S \cup bus_free_queue, others \cap S = {},
           others \cap bus_free_queue = {}, S \cap bus_free_queue = {}
    PROVE  bus_allocations' = others \cup bus_free_queue' /\ others \cap bus_free_queue' = {}
BY DEF BusDeposit

\* The end of bus_update frees what was queued to be freed.
LEMMA FinishUpdateAccounts ==
    ASSUME NEW alloc, NEW ever_deposited, FinishUpdate(alloc, ever_deposited), NEW others,
           alloc = others \cup bus_free_queue, others \cap bus_free_queue = {}
    PROVE  bus_allocations' = others \cup bus_free_queue' /\ others \cap bus_free_queue' = {}
BY DEF FinishUpdate

\* The end of bus_update keeps the account of the owners.
LEMMA FinishUpdateOwners ==
    ASSUME OwnersOK, FinishUpdate(bus_allocations, TRUE), slot_of' = slot_of
    PROVE  OwnersOK'
<1>1. Held' = Held /\ ExclusiveSlots'
  BY DEF OwnersOK, ExclusiveSlots, Held
<1>2. bus_allocations' = Held \cup bus_free_queue' /\ Held \cap bus_free_queue' = {}
  BY FinishUpdateAccounts DEF OwnersOK, NoSlotLost
<1> QED
  BY <1>1, <1>2 DEF OwnersOK, NoSlotLost

\* A failed update changes no owner.
LEMMA FailWaitersOwners == ASSUME OwnersOK, FailWaiters PROVE OwnersOK'
BY DEF FailWaiters, OwnersOK, ExclusiveSlots, NoSlotLost, Held

\* A job that ends gives up all its slots.
LEMMA ReturnSlotsOwners ==
    ASSUME TypeOK, OwnersOK, NEW j \in Jobs, NEW result, ReturnSlots(j, result)
    PROVE  OwnersOK'
<1> DEFINE none == {}
<1>1. HandSlots(Parts(j), none, slot_of) /\ BusDeposit(SlotsOf(j), bus_allocations)
  BY DEF ReturnSlots
<1>2. Parts(j) \cup none = Parts(j) /\ Handed(none, slot_of) = {}
  BY DEF Handed
<1>3. \A p \in none : FALSE
  OBVIOUS
<1> HIDE DEF none
<1>4. ExclusiveSlots' /\ Held' = Outside(Parts(j) \cup none) \cup Handed(none, slot_of)
  BY <1>1, <1>3, HandSlotsOwners DEF OwnersOK
<1>5. ExclusiveSlots' /\ Held' = Held \ SlotsOf(j) /\ SlotsOf(j) \subseteq Held
  BY <1>2, <1>4, OutsideJob DEF OwnersOK
<1> DEFINE others == Held \ SlotsOf(j)
<1>6. bus_allocations = others \cup SlotsOf(j) \cup bus_free_queue
      /\ others \cap SlotsOf(j) = {} /\ others \cap bus_free_queue = {} /\ SlotsOf(j) \cap bus_free_queue = {}
  BY <1>5 DEF OwnersOK, NoSlotLost
<1> HIDE DEF others
<1>7. bus_allocations' = others \cup bus_free_queue' /\ others \cap bus_free_queue' = {}
  BY <1>1, <1>6, BusDepositAccounts
<1> QED
  BY <1>5, <1>7 DEF OwnersOK, NoSlotLost, others

\* bus_update grants slots that are not allocated.
LEMMA GrantOwners == ASSUME Inv, GrantAndClean PROVE OwnersOK'
<1> DEFINE free == Unclaimed(Slots \ listed)
           occupied == Unclaimed(listed)
<1>1. PICK n \in 0 .. Len(bus_wait_queue) : \E h \in [Granted(n) -> free] :
           /\ HandOver(n, h, free)
           /\ HandSlots({}, Granted(n), h)
           /\ AfterGrants(bus_allocations \cup Image(n, h), occupied)
  BY DEF GrantAndClean
<1>2. PICK h : /\ h \in [Granted(n) -> free]
           /\ HandOver(n, h, free)
           /\ HandSlots({}, Granted(n), h)
           /\ AfterGrants(bus_allocations \cup Image(n, h), occupied)
  BY <1>1
<1>3. \A p \in Granted(n) : p \in AllParts /\ part[p] = "queued"
  BY WaitersLoad DEF Inv
<1>4. \A p \in Granted(n) : h[p] \in Slots /\ h[p] \notin bus_allocations
  BY <1>2 DEF Unclaimed
<1>5. \A p, q \in Granted(n) : h[p] = h[q] => p = q
  BY <1>2 DEF HandOver
<1> DEFINE none == {}
<1>6. HandSlots(none, Granted(n), h) /\ Outside(none) = Held /\ none \cup Granted(n) = Granted(n)
  BY <1>2 DEF Outside, Held
<1> HIDE DEF none
<1>7. \A p \in Granted(n) : h[p] \notin Outside(none)
  BY <1>4, <1>6 DEF Inv, NoSlotLost
<1>8. ExclusiveSlots' /\ Held' = Outside(none \cup Granted(n)) \cup Handed(Granted(n), h)
  <2>1. TypeOK /\ ExclusiveSlots /\ HandSlots(none, Granted(n), h)
    BY <1>6 DEF Inv
  <2>2. \A p \in Granted(n) : p \in AllParts /\ h[p] \in Slots
    BY <1>3, <1>4
  <2> QED
    BY <1>5, <1>7, <2>1, <2>2, HandSlotsOwners
<1>9. Outside(none \cup Granted(n)) = Outside(none)
  BY <1>3, OutsideWaiters DEF Inv
<1>10. Held' = Held \cup Image(n, h)
  BY <1>6, <1>8, <1>9 DEF Image, Handed
<1>11. Image(n, h) \cap bus_allocations = {}
  BY <1>4 DEF Image
<1> DEFINE others == Held \cup Image(n, h)
<1>12. bus_allocations \cup Image(n, h) = others \cup bus_free_queue /\ others \cap bus_free_queue = {}
  BY <1>11 DEF Inv, NoSlotLost
<1> HIDE DEF others
<1>13. bus_allocations' = others \cup bus_free_queue' /\ others \cap bus_free_queue' = {}
  BY <1>2, <1>12, FinishUpdateAccounts DEF AfterGrants
<1> QED
  BY <1>8, <1>10, <1>13 DEF others, OwnersOK, NoSlotLost

\* A job that ends well hands its slots over to waiters and returns the rest.
LEMMA InsertedOwners == ASSUME Inv, NEW j \in Jobs, Inserted(j) PROVE OwnersOK'
<1>1. PICK c \in Parts(j), n \in 0 .. Len(bus_wait_queue) : \E h \in [Granted(n) -> Freed(j, c)] :
           /\ HandOver(n, h, Freed(j, c))
           /\ HandSlots(Parts(j), Granted(n), h)
           /\ BusDeposit(Kept(j, c), bus_allocations \ (Freed(j, c) \ Image(n, h)))
  BY DEF Inserted
<1>2. PICK h : /\ h \in [Granted(n) -> Freed(j, c)]
           /\ HandOver(n, h, Freed(j, c))
           /\ HandSlots(Parts(j), Granted(n), h)
           /\ BusDeposit(Kept(j, c), bus_allocations \ (Freed(j, c) \ Image(n, h)))
  BY <1>1
<1>3. \A p \in Granted(n) : p \in AllParts /\ part[p] = "queued"
  BY WaitersLoad DEF Inv
<1>4. Kept(j, c) \subseteq SlotsOf(j)
  <2>1. part[c] = "loaded" /\ slot_of[c] # NoSlot
    BY <1>1, PartsFacts DEF Inv, Inserted, StagesOK, PartsOK
  <2> QED
    BY <1>1, <2>1 DEF Kept, SlotsOf
<1>5. /\ Freed(j, c) \cap Kept(j, c) = {} /\ Freed(j, c) \cup Kept(j, c) = SlotsOf(j)
      /\ SlotsOf(j) \subseteq Held /\ Outside(Parts(j)) = Held \ SlotsOf(j)
      /\ SlotsOf(j) \subseteq Slots
  BY <1>4, OutsideJob, SlotsOfType DEF Freed, Inv
<1>6. \A p \in Granted(n) : h[p] \in Freed(j, c)
  BY <1>2
<1>7. \A p \in Granted(n) : h[p] \in Slots /\ h[p] \notin Outside(Parts(j))
  BY <1>5, <1>6
<1>8. \A p, q \in Granted(n) : h[p] = h[q] => p = q
  BY <1>2 DEF HandOver
<1>9. ExclusiveSlots' /\ Held' = Outside(Parts(j) \cup Granted(n)) \cup Handed(Granted(n), h)
  <2>1. TypeOK /\ ExclusiveSlots /\ HandSlots(Parts(j), Granted(n), h)
    BY <1>2 DEF Inv
  <2>2. \A p \in Granted(n) : p \in AllParts /\ h[p] \in Slots
    BY <1>3, <1>7
  <2>3. \A p \in Granted(n) : h[p] \notin Outside(Parts(j))
    BY <1>7
  <2> QED
    BY <1>8, <2>1, <2>2, <2>3, HandSlotsOwners
<1>10. Outside(Parts(j) \cup Granted(n)) = Outside(Parts(j))
  BY <1>3, OutsideWaiters DEF Inv
<1> DEFINE others == (Held \ SlotsOf(j)) \cup Image(n, h)
<1>11. Held' = others
  BY <1>5, <1>9, <1>10 DEF Image, Handed
<1>12. Image(n, h) \subseteq Freed(j, c)
  BY <1>6 DEF Image
<1>13. /\ bus_allocations \ (Freed(j, c) \ Image(n, h)) = others \cup Kept(j, c) \cup bus_free_queue
       /\ others \cap Kept(j, c) = {} /\ others \cap bus_free_queue = {}
       /\ Kept(j, c) \cap bus_free_queue = {}
  BY <1>5, <1>12 DEF Inv, NoSlotLost
<1> HIDE DEF others
<1>14. bus_allocations' = others \cup bus_free_queue' /\ others \cap bus_free_queue' = {}
  BY <1>2, <1>13, BusDepositAccounts
<1> QED
  BY <1>9, <1>11, <1>14 DEF OwnersOK, NoSlotLost

\* A step keeps the owners and the account of them.
LEMMA OwnersStep == Inv /\ [Next]_vars => OwnersOK'
<1> SUFFICES ASSUME Inv, [Next]_vars PROVE OwnersOK'
  OBVIOUS
<1> USE DEF Inv, busVars, jobVars, OwnersOK
<1>1. CASE ListBus
  BY <1>1 DEF ListBus, ExclusiveSlots, NoSlotLost, Held
<1>2. CASE GrantAndClean
  BY <1>2, GrantOwners
<1>3. CASE DepositsJoined
  <2>1. CASE FailWaiters
    BY <2>1, FailWaitersOwners
  <2>2. CASE FinishUpdate(bus_allocations, TRUE) /\ UNCHANGED slot_of
    BY <2>2, FinishUpdateOwners
  <2> QED
    BY <1>3, <2>1, <2>2 DEF DepositsJoined
<1>4. ASSUME NEW s \in Slots, Deposited(s) PROVE OwnersOK'
  BY <1>4 DEF Deposited, ExclusiveSlots, NoSlotLost, Held
<1>5. CASE ListFailed
  BY <1>5, FailWaitersOwners DEF ListFailed
<1>6. ASSUME NEW j \in Jobs, RunJob(j) PROVE OwnersOK'
  BY <1>6 DEF RunJob, BusAllocate, ExclusiveSlots, NoSlotLost, Held
<1>7. ASSUME NEW j \in Jobs, SkipJob(j) PROVE OwnersOK'
  BY <1>7 DEF SkipJob, ExclusiveSlots, NoSlotLost, Held
<1>8. ASSUME NEW j \in Jobs, StartInsert(j) PROVE OwnersOK'
  BY <1>8 DEF StartInsert, ExclusiveSlots, NoSlotLost, Held
<1>9. ASSUME NEW j \in Jobs, JobLoaded(j) PROVE OwnersOK'
  <2>1. PICK result \in {"done", "failed"} : ReturnSlots(j, result)
    BY <1>9 DEF JobLoaded
  <2> QED
    BY <2>1, ReturnSlotsOwners
<1>10. ASSUME NEW j \in Jobs, Inserted(j) PROVE OwnersOK'
  BY <1>10, InsertedOwners
<1>11. ASSUME NEW j \in Jobs, NEW p \in Parts(j), Extracted(p) PROVE OwnersOK'
  BY <1>11 DEF Extracted, ExclusiveSlots, NoSlotLost, Held
<1>12. ASSUME NEW j \in Jobs, InsertFailed(j) PROVE OwnersOK'
  BY <1>12, ReturnSlotsOwners DEF InsertFailed
<1>13. CASE StoragesUpdated
  BY <1>13 DEF StoragesUpdated, ExclusiveSlots, NoSlotLost, Held
<1>14. CASE ProcessesJoined
  BY <1>14 DEF ProcessesJoined, ExclusiveSlots, NoSlotLost, Held
<1>15. CASE EndOfCycle
  BY <1>15 DEF EndOfCycle, ExclusiveSlots, NoSlotLost, Held
<1>16. CASE StartCycle
  BY <1>16 DEF StartCycle, ExclusiveSlots, NoSlotLost, Held
<1>17. CASE StoragesFailed
  BY <1>17 DEF StoragesFailed, ExclusiveSlots, NoSlotLost, Held
<1>18. CASE Restart
  BY <1>18 DEF Restart, ExclusiveSlots, NoSlotLost, Held
<1>19. CASE UNCHANGED vars
  BY <1>19 DEF vars, busVars, taskVars, updateVars, jobVars, ExclusiveSlots, NoSlotLost, Held
<1> QED
  BY <1>1, <1>2, <1>3, <1>4, <1>5, <1>6, <1>7, <1>8, <1>9, <1>10, <1>11, <1>12, <1>13, <1>14, <1>15, <1>16, <1>17, <1>18, <1>19
     DEF Next, Update, JobStep, Cycle

-----------------------------------------------------------------------------
(***************************************************************************)
(* Waiters and the contents of the bus.                                    *)
(***************************************************************************)
\* A hand-over that leaves somebody waiting was given every slot it had.
LEMMA HandOverLeaves ==
    ASSUME TypeOK, NEW n \in 0 .. Len(bus_wait_queue), NEW h, NEW F, HandOver(n, h, F),
           bus_wait_queue' # <<>>
    PROVE  Image(n, h) = F /\ bus_wait_queue # <<>>
<1>1. /\ bus_wait_queue' \in Seq(AllParts) /\ bus_wait_queue \in Seq(AllParts)
      /\ Len(bus_wait_queue') = Len(bus_wait_queue) - n
      /\ Len(bus_wait_queue) \in Nat
  BY HandOverQueue, LenProperties DEF TypeOK
<1>2. Len(bus_wait_queue') # 0
  BY <1>1, EmptySeq
<1>3. n # Len(bus_wait_queue) /\ Len(bus_wait_queue) # 0
  BY <1>1, <1>2
<1> QED
  BY <1>3, EmptySeq DEF HandOver

\* Nobody waits unless a job is loading.
LEMMA NobodyWaits ==
    ASSUME TypeOK, QueueOK, StagesOK, \A j \in Jobs : stage[j] # "load"
    PROVE  bus_wait_queue = <<>>
<1>1. \A p \in AllParts : part[p] # "queued"
  BY PartsFacts DEF StagesOK
<1> QED
  BY <1>1, EmptyQueue

\* bus_deposit runs bus_main again, or has nothing to deposit.
LEMMA BusDepositStranded ==
    ASSUME TypeOK, NEW S, NEW alloc, BusDeposit(S, alloc), bus_task' = "None"
    PROVE  bus_task = "None" /\ S = {} /\ bus_allocations' = alloc /\ bus_free_queue' = bus_free_queue
BY DEF BusDeposit, SpawnBusMain, taskVars, TypeOK

\* A job that returns slots strands nobody.
LEMMA ReturnStrandsNobody ==
    ASSUME TypeOK, NoStrandedWaiter, NEW j, NEW result, ReturnSlots(j, result)
    PROVE  NoStrandedWaiter'
BY BusDepositStranded DEF NoStrandedWaiter, ReturnSlots

\* bus_update that ends after the grants strands nobody.
LEMMA GrantStrandsNobody == ASSUME Inv, GrantAndClean PROVE NoStrandedWaiter'
<1> DEFINE free == Unclaimed(Slots \ listed)
           occupied == Unclaimed(listed)
<1>1. PICK n \in 0 .. Len(bus_wait_queue) : \E h \in [Granted(n) -> free] :
           HandOver(n, h, free) /\ AfterGrants(bus_allocations \cup Image(n, h), occupied)
  BY DEF GrantAndClean
<1>2. PICK h : HandOver(n, h, free) /\ AfterGrants(bus_allocations \cup Image(n, h), occupied)
  BY <1>1
<1> SUFFICES ASSUME bus_wait_queue' # <<>>, bus_task' = "None"
             PROVE  bus_allocations' = Slots /\ bus_free_queue' = {}
  BY DEF NoStrandedWaiter
<1>3. Image(n, h) = free /\ bus_wait_queue # <<>>
  BY <1>2, HandOverLeaves DEF Inv
<1>4. bus_task = "Some"
  <2>1. \E j \in Jobs : stage[j] = "load"
    BY <1>3, NobodyWaits DEF Inv
  <2> QED
    BY <2>1 DEF Inv, StagesOK, Active, TaskOK, GrantAndClean
<1>5. occupied = {} /\ FinishUpdate(bus_allocations \cup Image(n, h), FALSE) /\ bus_free_queue = {}
  BY <1>2, <1>4 DEF AfterGrants, FinishUpdate
<1>6. bus_allocations' = bus_allocations \cup free /\ bus_free_queue' = {}
  BY <1>3, <1>5 DEF FinishUpdate
<1> QED
  BY <1>5, <1>6 DEF Unclaimed, Inv, TypeOK

\* A job that ends well strands nobody.
LEMMA InsertStrandsNobody == ASSUME Inv, NEW j \in Jobs, Inserted(j) PROVE NoStrandedWaiter'
<1>1. PICK c \in Parts(j), n \in 0 .. Len(bus_wait_queue) : \E h \in [Granted(n) -> Freed(j, c)] :
           /\ HandOver(n, h, Freed(j, c))
           /\ BusDeposit(Kept(j, c), bus_allocations \ (Freed(j, c) \ Image(n, h)))
  BY DEF Inserted
<1>2. PICK h : /\ HandOver(n, h, Freed(j, c))
               /\ BusDeposit(Kept(j, c), bus_allocations \ (Freed(j, c) \ Image(n, h)))
  BY <1>1
<1> SUFFICES ASSUME bus_wait_queue' # <<>>, bus_task' = "None"
             PROVE  bus_allocations' = Slots /\ bus_free_queue' = {}
  BY DEF NoStrandedWaiter
<1>3. Image(n, h) = Freed(j, c) /\ bus_wait_queue # <<>>
  BY <1>2, HandOverLeaves DEF Inv
<1>4. /\ bus_task = "None" /\ bus_free_queue' = bus_free_queue
      /\ bus_allocations' = bus_allocations \ (Freed(j, c) \ Image(n, h))
  BY <1>2, BusDepositStranded DEF Inv
<1> QED
  BY <1>3, <1>4 DEF Inv, NoStrandedWaiter

\* No step leaves a waiter behind while a slot is free.
LEMMA StrandedStep == Inv /\ [Next]_vars => NoStrandedWaiter'
<1> SUFFICES ASSUME Inv, [Next]_vars PROVE NoStrandedWaiter'
  OBVIOUS
<1> USE DEF Inv, busVars, taskVars
<1>1. CASE ListBus
  BY <1>1 DEF ListBus, NoStrandedWaiter
<1>2. CASE GrantAndClean
  BY <1>2, GrantStrandsNobody
<1>3. CASE DepositsJoined
  <2>1. CASE FailWaiters
    BY <2>1 DEF FailWaiters, NoStrandedWaiter
  <2>2. CASE FinishUpdate(bus_allocations, TRUE)
    <3>1. bus_task' = "None" => bus_task = "None" \/ bus_wait_queue' = <<>>
      BY <2>2 DEF FinishUpdate
    <3>2. bus_task = "None" => bus_wait_queue = <<>>
      <4>1. bus_task = "None" => \A j \in Jobs : stage[j] # "load"
        BY <1>3 DEF DepositsJoined, TaskOK, StagesOK, Active
      <4> QED
        BY <4>1, NobodyWaits
    <3>3. bus_task' = "None" => bus_wait_queue' = <<>>
      BY <1>3, <2>2, <3>1, <3>2 DEF DepositsJoined, FailWaiters
    <3> QED
      BY <3>3 DEF NoStrandedWaiter
  <2> QED
    BY <1>3, <2>1, <2>2 DEF DepositsJoined
<1>4. ASSUME NEW s \in Slots, Deposited(s) PROVE NoStrandedWaiter'
  BY <1>4 DEF Deposited, NoStrandedWaiter
<1>5. CASE ListFailed
  BY <1>5 DEF ListFailed, NoStrandedWaiter, FailWaiters
<1>6. ASSUME NEW j \in Jobs, RunJob(j) PROVE NoStrandedWaiter'
  BY <1>6 DEF RunJob, BusAllocate, SpawnBusMain, NoStrandedWaiter, TypeOK
<1>7. ASSUME NEW j \in Jobs, SkipJob(j) PROVE NoStrandedWaiter'
  BY <1>7 DEF SkipJob, NoStrandedWaiter
<1>8. ASSUME NEW j \in Jobs, StartInsert(j) PROVE NoStrandedWaiter'
  BY <1>8 DEF StartInsert, NoStrandedWaiter
<1>9. ASSUME NEW j \in Jobs, JobLoaded(j) PROVE NoStrandedWaiter'
  <2>1. PICK result \in {"done", "failed"} : ReturnSlots(j, result)
    BY <1>9 DEF JobLoaded
  <2> QED
    BY <2>1, ReturnStrandsNobody
<1>10. ASSUME NEW j \in Jobs, Inserted(j) PROVE NoStrandedWaiter'
  BY <1>10, InsertStrandsNobody
<1>11. ASSUME NEW j \in Jobs, NEW p \in Parts(j), Extracted(p) PROVE NoStrandedWaiter'
  BY <1>11 DEF Extracted, NoStrandedWaiter
<1>12. ASSUME NEW j \in Jobs, InsertFailed(j) PROVE NoStrandedWaiter'
  BY <1>12, ReturnStrandsNobody DEF InsertFailed
<1>13. CASE StoragesUpdated
  BY <1>13 DEF StoragesUpdated, NoStrandedWaiter
<1>14. CASE ProcessesJoined
  <2>1. bus_wait_queue = <<>>
    BY <1>14, NobodyWaits DEF ProcessesJoined
  <2> QED
    BY <1>14, <2>1 DEF ProcessesJoined, NoStrandedWaiter
<1>15. CASE EndOfCycle
  BY <1>15 DEF EndOfCycle, NoStrandedWaiter
<1>16. CASE StartCycle
  BY <1>16 DEF StartCycle, NoStrandedWaiter
<1>17. CASE StoragesFailed
  <2>1. bus_wait_queue = <<>>
    BY <1>17, NobodyWaits DEF StoragesFailed, StagesOK, Active
  <2> QED
    BY <1>17, <2>1 DEF StoragesFailed, NoStrandedWaiter
<1>18. CASE Restart
  BY <1>18 DEF Restart, NoStrandedWaiter
<1>19. CASE UNCHANGED vars
  BY <1>19 DEF vars, busVars, taskVars, updateVars, jobVars, NoStrandedWaiter
<1> QED
  BY <1>1, <1>2, <1>3, <1>4, <1>5, <1>6, <1>7, <1>8, <1>9, <1>10, <1>11, <1>12, <1>13, <1>14, <1>15, <1>16, <1>17, <1>18, <1>19
     DEF Next, Update, JobStep, Cycle

\* While bus_main works for the processes, bus_deposit frees nothing itself.
LEMMA BusDepositWaits ==
    ASSUME TaskOK, bus_main # "idle", cycle = "run", NEW S, NEW alloc, BusDeposit(S, alloc)
    PROVE  bus_allocations' = alloc /\ bus_main' = bus_main
BY DEF TaskOK, BusDeposit, taskVars

\* A spawned bus_main has taken no snapshot yet.
LEMMA BusDepositListed ==
    ASSUME NEW S, NEW alloc, BusDeposit(S, alloc), bus_main' = "listed"
    PROVE  bus_main = "listed"
BY DEF BusDeposit, SpawnBusMain, taskVars

\* A job that returns its slots keeps the snapshot usable.
LEMMA ReturnKeepsSnapshot ==
    ASSUME TaskOK, SnapshotOK, cycle = "run", NEW j, NEW result, ReturnSlots(j, result),
           dirty' \subseteq dirty
    PROVE  SnapshotOK'
<1> SUFFICES ASSUME bus_main' = "listed" PROVE dirty' \ listed' \subseteq bus_allocations'
  BY DEF SnapshotOK
<1>1. bus_main = "listed"
  BY BusDepositListed DEF ReturnSlots
<1>2. bus_allocations' = bus_allocations /\ listed' = listed
  BY <1>1, BusDepositWaits DEF ReturnSlots, updateVars
<1> QED
  BY <1>1, <1>2 DEF SnapshotOK

\* A step keeps the snapshot usable: what it shows free is free or allocated.
LEMMA SnapshotStep == Inv /\ [Next]_vars => SnapshotOK'
<1> SUFFICES ASSUME Inv, [Next]_vars PROVE SnapshotOK'
  OBVIOUS
<1> USE DEF Inv, busVars, taskVars
<1>1. CASE ListBus
  BY <1>1 DEF ListBus, SnapshotOK, updateVars
<1>2. CASE GrantAndClean
  <2>1. bus_main' # "listed"
    BY <1>2 DEF GrantAndClean, AfterGrants, FinishUpdate
  <2> QED
    BY <2>1 DEF SnapshotOK
<1>3. CASE DepositsJoined
  <2>1. bus_main' # "listed"
    BY <1>3 DEF DepositsJoined, FailWaiters, FinishUpdate
  <2> QED
    BY <2>1 DEF SnapshotOK
<1>4. ASSUME NEW s \in Slots, Deposited(s) PROVE SnapshotOK'
  BY <1>4 DEF Deposited, SnapshotOK, updateVars
<1>5. CASE ListFailed
  BY <1>5 DEF ListFailed, SnapshotOK, FailWaiters
<1>6. ASSUME NEW j \in Jobs, RunJob(j) PROVE SnapshotOK'
  BY <1>6 DEF RunJob, BusAllocate, SpawnBusMain, SnapshotOK, updateVars
<1>7. ASSUME NEW j \in Jobs, SkipJob(j) PROVE SnapshotOK'
  BY <1>7 DEF SkipJob, SnapshotOK, updateVars
<1>8. ASSUME NEW j \in Jobs, StartInsert(j) PROVE SnapshotOK'
  BY <1>8 DEF StartInsert, SnapshotOK, updateVars
<1>9. ASSUME NEW j \in Jobs, JobLoaded(j) PROVE SnapshotOK'
  <2>1. PICK result \in {"done", "failed"} : ReturnSlots(j, result)
    BY <1>9 DEF JobLoaded
  <2>2. cycle = "run" /\ dirty' = dirty
    BY <1>9 DEF JobLoaded, StagesOK, Active
  <2> QED
    BY <2>1, <2>2, ReturnKeepsSnapshot
<1>10. ASSUME NEW j \in Jobs, Inserted(j) PROVE SnapshotOK'
  <2>1. PICK c \in Parts(j), n \in 0 .. Len(bus_wait_queue) : \E h \in [Granted(n) -> Freed(j, c)] :
             /\ BusDeposit(Kept(j, c), bus_allocations \ (Freed(j, c) \ Image(n, h)))
             /\ dirty' = dirty \ Freed(j, c)
    BY <1>10 DEF Inserted
  <2>2. PICK h : /\ BusDeposit(Kept(j, c), bus_allocations \ (Freed(j, c) \ Image(n, h)))
                 /\ dirty' = dirty \ Freed(j, c)
    BY <2>1
  <2>3. cycle = "run" /\ listed' = listed
    BY <1>10 DEF Inserted, StagesOK, Active, updateVars
  <2>4. CASE bus_main' # "listed"
    BY <2>4 DEF SnapshotOK
  <2>5. CASE bus_main' = "listed"
    <3>1. bus_main = "listed"
      BY <2>2, <2>5, BusDepositListed
    <3>2. bus_allocations' = bus_allocations \ (Freed(j, c) \ Image(n, h))
      BY <2>2, <2>3, <3>1, BusDepositWaits
    <3> QED
      BY <2>2, <2>3, <3>1, <3>2 DEF SnapshotOK
  <2> QED
    BY <2>4, <2>5
<1>11. ASSUME NEW j \in Jobs, NEW p \in Parts(j), Extracted(p) PROVE SnapshotOK'
  <2>1. p \in AllParts
    BY PartsFacts
  <2>2. slot_of[p] \in bus_allocations
    BY <1>11, <2>1 DEF Extracted, PartsOK, NoSlotLost, Held
  <2> QED
    BY <1>11, <2>2 DEF Extracted, SnapshotOK, updateVars
<1>12. ASSUME NEW j \in Jobs, InsertFailed(j) PROVE SnapshotOK'
  <2>1. cycle = "run" /\ dirty' \subseteq dirty
    BY <1>12 DEF InsertFailed, StagesOK, Active
  <2> QED
    BY <1>12, <2>1, ReturnKeepsSnapshot DEF InsertFailed
<1>13. CASE StoragesUpdated
  BY <1>13 DEF StoragesUpdated, SnapshotOK, updateVars
<1>14. CASE ProcessesJoined
  BY <1>14 DEF ProcessesJoined, SnapshotOK, updateVars, SpawnBusMain
<1>15. CASE EndOfCycle
  BY <1>15 DEF EndOfCycle, SnapshotOK, updateVars
<1>16. CASE StartCycle
  BY <1>16 DEF StartCycle, SnapshotOK, updateVars
<1>17. CASE StoragesFailed
  BY <1>17 DEF StoragesFailed, SnapshotOK, updateVars
<1>18. CASE Restart
  BY <1>18 DEF Restart, SnapshotOK
<1>19. CASE UNCHANGED vars
  BY <1>19 DEF vars, busVars, taskVars, updateVars, jobVars, SnapshotOK
<1> QED
  BY <1>1, <1>2, <1>3, <1>4, <1>5, <1>6, <1>7, <1>8, <1>9, <1>10, <1>11, <1>12, <1>13, <1>14, <1>15, <1>16, <1>17, <1>18, <1>19
     DEF Next, Update, JobStep, Cycle

\* No step leaves a slot with items to a sub-task that still extracts.
LEMMA EmptyStep == Inv /\ [Next]_vars => GrantedSlotIsEmpty'
<1> SUFFICES ASSUME Inv, [Next]_vars PROVE GrantedSlotIsEmpty'
  OBVIOUS
<1> USE DEF Inv, jobVars
<1>1. CASE ListBus
  BY <1>1 DEF ListBus, GrantedSlotIsEmpty
<1>2. CASE GrantAndClean
  <2>1. PICK n \in 0 .. Len(bus_wait_queue) : \E h \in [Granted(n) -> Unclaimed(Slots \ listed)] :
             HandSlots({}, Granted(n), h)
    BY <1>2 DEF GrantAndClean
  <2>2. PICK h \in [Granted(n) -> Unclaimed(Slots \ listed)] : HandSlots({}, Granted(n), h)
    BY <2>1
  <2>3. \A p \in Granted(n) : h[p] \notin dirty
    BY <1>2, <2>2 DEF GrantAndClean, SnapshotOK, Unclaimed
  <2>4. dirty' = dirty
    BY <1>2 DEF GrantAndClean
  <2> QED
    BY <2>2, <2>3, <2>4 DEF HandSlots, GrantedSlotIsEmpty
<1>3. CASE DepositsJoined
  BY <1>3 DEF DepositsJoined, GrantedSlotIsEmpty, FailWaiters
<1>4. ASSUME NEW s \in Slots, Deposited(s) PROVE GrantedSlotIsEmpty'
  BY <1>4 DEF Deposited, GrantedSlotIsEmpty
<1>5. CASE ListFailed
  BY <1>5 DEF ListFailed, GrantedSlotIsEmpty, FailWaiters
<1>6. ASSUME NEW j \in Jobs, RunJob(j) PROVE GrantedSlotIsEmpty'
  BY <1>6 DEF RunJob, GrantedSlotIsEmpty
<1>7. ASSUME NEW j \in Jobs, SkipJob(j) PROVE GrantedSlotIsEmpty'
  BY <1>7 DEF SkipJob, GrantedSlotIsEmpty
<1>8. ASSUME NEW j \in Jobs, StartInsert(j) PROVE GrantedSlotIsEmpty'
  BY <1>8 DEF StartInsert, GrantedSlotIsEmpty
<1>9. ASSUME NEW j \in Jobs, JobLoaded(j) PROVE GrantedSlotIsEmpty'
  <2>1. \E result \in {"done", "failed"} : ReturnSlots(j, result)
    BY <1>9 DEF JobLoaded
  <2> QED
    BY <1>9, <2>1 DEF JobLoaded, ReturnSlots, HandSlots, GrantedSlotIsEmpty
<1>10. ASSUME NEW j \in Jobs, Inserted(j) PROVE GrantedSlotIsEmpty'
  <2>1. PICK c \in Parts(j), n \in 0 .. Len(bus_wait_queue) : \E h \in [Granted(n) -> Freed(j, c)] :
             HandSlots(Parts(j), Granted(n), h) /\ dirty' = dirty \ Freed(j, c)
    BY <1>10 DEF Inserted
  <2>2. PICK h \in [Granted(n) -> Freed(j, c)] :
             HandSlots(Parts(j), Granted(n), h) /\ dirty' = dirty \ Freed(j, c)
    BY <2>1
  <2>3. \A p \in Granted(n) : h[p] \notin dirty'
    BY <2>2
  <2> QED
    BY <2>2, <2>3 DEF HandSlots, GrantedSlotIsEmpty
<1>11. ASSUME NEW j \in Jobs, NEW p \in Parts(j), Extracted(p) PROVE GrantedSlotIsEmpty'
  <2>1. p \in AllParts /\ slot_of[p] # NoSlot
    BY <1>11, PartsFacts DEF Extracted, PartsOK
  <2>2. \A q \in AllParts : part'[q] = "extracting" => q # p /\ part[q] = "extracting"
    BY <1>11, <2>1 DEF Extracted, TypeOK
  <2>3. \A q \in AllParts : q # p => slot_of[q] # slot_of[p]
    BY <2>1 DEF ExclusiveSlots
  <2> QED
    BY <1>11, <2>2, <2>3 DEF Extracted, GrantedSlotIsEmpty
<1>12. ASSUME NEW j \in Jobs, InsertFailed(j) PROVE GrantedSlotIsEmpty'
  BY <1>12 DEF InsertFailed, ReturnSlots, HandSlots, GrantedSlotIsEmpty
<1>13. CASE StoragesUpdated
  BY <1>13 DEF StoragesUpdated, GrantedSlotIsEmpty
<1>14. CASE ProcessesJoined
  BY <1>14 DEF ProcessesJoined, GrantedSlotIsEmpty
<1>15. CASE EndOfCycle
  BY <1>15 DEF EndOfCycle, GrantedSlotIsEmpty
<1>16. CASE StartCycle
  BY <1>16 DEF StartCycle, GrantedSlotIsEmpty
<1>17. CASE StoragesFailed
  BY <1>17 DEF StoragesFailed, GrantedSlotIsEmpty
<1>18. CASE Restart
  BY <1>18 DEF Restart, GrantedSlotIsEmpty
<1>19. CASE UNCHANGED vars
  BY <1>19 DEF vars, busVars, taskVars, updateVars, jobVars, GrantedSlotIsEmpty
<1> QED
  BY <1>1, <1>2, <1>3, <1>4, <1>5, <1>6, <1>7, <1>8, <1>9, <1>10, <1>11, <1>12, <1>13, <1>14, <1>15, <1>16, <1>17, <1>18, <1>19
     DEF Next, Update, JobStep, Cycle

-----------------------------------------------------------------------------
(***************************************************************************)
(* The order of the queue, and why no jobs wait for each other in a circle.*)
(***************************************************************************)
\* The parts of a request stand next to each other in their order; only the
\* request at the head may have lost its first parts to grants.
BlocksOK ==
    \A i \in 1 .. Len(bus_wait_queue) :
        LET j == bus_wait_queue[i][1]
            first == i - bus_wait_queue[i][2]
        IN  \A m \in 1 .. Need[j] : first + m >= 1 =>
                first + m <= Len(bus_wait_queue) /\ bus_wait_queue[first + m] = <<j, m>>

\* A part belongs to the job it names.
LEMMA PartNames ==
    ASSUME NEW p \in AllParts
    PROVE  /\ p[1] \in Jobs /\ p[2] \in 1 .. Need[p[1]] /\ p = <<p[1], p[2]>>
           /\ Need[p[1]] \in Nat /\ p \in Parts(p[1])
<1>1. PICK j \in Jobs : p \in Parts(j)
  BY DEF AllParts
<1>2. p[1] = j /\ p[2] \in 1 .. Need[j] /\ p = <<p[1], p[2]>>
  BY <1>1 DEF Parts
<1> QED
  BY <1>1, <1>2, JobsAssumption

\* The ways a step changes the queue: not at all, by a grant, by an error
\* that empties it, or by a request.
LEMMA QueueMoves ==
    ASSUME Inv, [Next]_vars
    PROVE  \/ bus_wait_queue' = bus_wait_queue
           \/ bus_wait_queue' = <<>>
           \/ \E n \in 0 .. Len(bus_wait_queue) : \E h, F : HandOver(n, h, F)
           \/ \E j \in Jobs : BusAllocate(j)
<1>1. CASE GrantAndClean
  BY <1>1 DEF GrantAndClean
<1>2. CASE DepositsJoined
  BY <1>2 DEF DepositsJoined, FailWaiters
<1>3. ASSUME NEW j \in Jobs, Inserted(j)
      PROVE  \E n \in 0 .. Len(bus_wait_queue) : \E h, F : HandOver(n, h, F)
  BY <1>3 DEF Inserted
<1>4. ASSUME NEW j \in Jobs, RunJob(j) PROVE BusAllocate(j)
  BY <1>4 DEF RunJob
<1>5. ASSUME ListFailed \/ Restart PROVE bus_wait_queue' = <<>>
  BY <1>5 DEF ListFailed, Restart, FailWaiters
<1>6. ASSUME NEW j \in Jobs, SkipJob(j) \/ StartInsert(j) \/ JobLoaded(j) \/ InsertFailed(j)
      PROVE  bus_wait_queue' = bus_wait_queue
  BY <1>6 DEF SkipJob, StartInsert, JobLoaded, InsertFailed, ReturnSlots, busVars
<1>7. ASSUME NEW j \in Jobs, NEW p \in Parts(j), Extracted(p) PROVE bus_wait_queue' = bus_wait_queue
  BY <1>7 DEF Extracted, busVars
<1>8. ASSUME NEW s \in Slots, Deposited(s) PROVE bus_wait_queue' = bus_wait_queue
  BY <1>8 DEF Deposited, busVars
<1>9. ASSUME ListBus \/ StoragesUpdated \/ StoragesFailed \/ ProcessesJoined \/ EndOfCycle \/ StartCycle
      PROVE  bus_wait_queue' = bus_wait_queue
  BY <1>9 DEF ListBus, StoragesUpdated, StoragesFailed, ProcessesJoined, EndOfCycle, StartCycle, busVars
<1>10. CASE UNCHANGED vars
  BY <1>10 DEF vars, busVars
<1> QED
  BY <1>1, <1>2, <1>3, <1>4, <1>5, <1>6, <1>7, <1>8, <1>9, <1>10
     DEF Next, Update, JobStep, Cycle

\* Grants take from the head and requests are added at the end, so requests
\* stay in one piece.
LEMMA BlocksStep == Inv /\ BlocksOK /\ [Next]_vars => BlocksOK'
<1> SUFFICES ASSUME Inv, BlocksOK, [Next]_vars PROVE BlocksOK'
  OBVIOUS
<1> DEFINE q == bus_wait_queue
<1>1. /\ q \in Seq(AllParts) /\ Len(q) \in Nat
      /\ \A i \in 1 .. Len(q) : q[i] \in AllParts
  BY LenProperties, ElementOfSeq DEF Inv, TypeOK
<1>2. \A i \in 1 .. Len(q) : q[i][2] \in Int /\ Need[q[i][1]] \in Nat
  BY <1>1, PartNames
<1>3. CASE bus_wait_queue' = bus_wait_queue
  BY <1>3 DEF BlocksOK
<1>4. CASE bus_wait_queue' = <<>>
  BY <1>4, EmptySeq DEF BlocksOK
<1>5. ASSUME NEW n \in 0 .. Len(q), NEW h, NEW F, HandOver(n, h, F) PROVE BlocksOK'
  <2>1. /\ Len(q') = Len(q) - n
        /\ \A i \in 1 .. Len(q') : q'[i] = q[n + i]
    BY <1>5, HandOverQueue DEF Inv
  <2> SUFFICES ASSUME NEW i \in 1 .. Len(q'), NEW m \in 1 .. Need[q'[i][1]],
                      (i - q'[i][2]) + m >= 1
               PROVE  /\ (i - q'[i][2]) + m <= Len(q')
                      /\ q'[(i - q'[i][2]) + m] = <<q'[i][1], m>>
    BY DEF BlocksOK
  <2>2. n + i \in 1 .. Len(q) /\ q'[i] = q[n + i] /\ q[n + i][2] \in Int /\ m \in Int
    <3>1. n + i \in 1 .. Len(q)
      BY <1>1, <2>1
    <3>2. q'[i] = q[n + i]
      BY <2>1
    <3>3. q[n + i][2] \in Int /\ Need[q[n + i][1]] \in Nat
      BY <1>2, <3>1
    <3> QED
      BY <3>1, <3>2, <3>3
  <2> DEFINE d == i - q[n + i][2]
  <2>3. (n + i) - q[n + i][2] = n + d /\ d \in Int /\ d + m >= 1
    BY <1>1, <2>2
  <2>4. (n + d) + m <= Len(q) /\ q[(n + d) + m] = <<q[n + i][1], m>>
    <3>1. m \in 1 .. Need[q[n + i][1]]
      BY <2>2
    <3>2. (n + d) + m >= 1
      <4>1. n \in Int /\ n >= 0 /\ d \in Int /\ m \in Int /\ d + m >= 1
        BY <1>1, <2>2, <2>3
      <4> HIDE DEF d
      <4> QED
        BY <4>1
    <3> QED
      BY <2>2, <2>3, <3>1, <3>2 DEF BlocksOK
  <2> HIDE DEF d
  <2>5. d + m \in 1 .. Len(q') /\ (n + d) + m = n + (d + m)
    BY <1>1, <2>1, <2>2, <2>3, <2>4
  <2>6. q'[d + m] = <<q[n + i][1], m>>
    BY <2>1, <2>4, <2>5
  <2> QED
    BY <2>2, <2>5, <2>6 DEF d
<1>6. ASSUME NEW j \in Jobs, BusAllocate(j) PROVE BlocksOK'
  <2>1. /\ Need[j] \in Nat /\ Len(q') = Len(q) + Need[j]
        /\ \A i \in 1 .. Len(q) : q'[i] = q[i]
        /\ \A i \in 1 .. Need[j] : q'[Len(q) + i] = <<j, i>>
    BY <1>6, Enqueue DEF Inv
  <2> SUFFICES ASSUME NEW i \in 1 .. Len(q'), NEW m \in 1 .. Need[q'[i][1]],
                      (i - q'[i][2]) + m >= 1
               PROVE  /\ (i - q'[i][2]) + m <= Len(q')
                      /\ q'[(i - q'[i][2]) + m] = <<q'[i][1], m>>
    BY DEF BlocksOK
  <2>2. CASE i \in 1 .. Len(q)
    <3>1. q'[i] = q[i] /\ q[i][2] \in Int /\ m \in Int
      BY <1>1, <1>2, <2>1, <2>2
    <3> DEFINE d == i - q[i][2]
    <3>2. d + m <= Len(q) /\ q[d + m] = <<q[i][1], m>>
      BY <2>2, <3>1 DEF BlocksOK
    <3>3. d + m \in 1 .. Len(q) /\ d + m <= Len(q')
      BY <1>1, <2>1, <2>2, <3>1, <3>2
    <3> HIDE DEF d
    <3>4. q'[d + m] = <<q[i][1], m>>
      BY <2>1, <3>2, <3>3
    <3> QED
      BY <3>1, <3>3, <3>4 DEF d
  <2>3. CASE i \notin 1 .. Len(q)
    <3> DEFINE k == i - Len(q)
    <3>1. k \in 1 .. Need[j] /\ i = Len(q) + k
      BY <1>1, <2>1, <2>3
    <3>2. q'[i] = <<j, k>>
      BY <2>1, <3>1
    <3> HIDE DEF k
    <3>3. q'[i][1] = j /\ q'[i][2] = k
      BY <3>2
    <3>4. m \in 1 .. Need[j] /\ (i - k) + m = Len(q) + m /\ Len(q) + m <= Len(q')
      BY <1>1, <2>1, <3>1, <3>3
    <3>5. q'[Len(q) + m] = <<j, m>>
      BY <2>1, <3>4
    <3> QED
      BY <3>3, <3>4, <3>5
  <2> QED
    BY <2>2, <2>3
<1> QED
  BY <1>3, <1>4, <1>5, <1>6, QueueMoves

\* A job that holds a slot and waits for more is the one at the head.
LEMMA HolderIsFirst ==
    ASSUME Inv, BlocksOK, NEW j \in Jobs, NEW o \in Parts(j), slot_of[o] # NoSlot,
           NEW w \in Parts(j), part[w] = "queued"
    PROVE  bus_wait_queue[1][1] = j
<1> DEFINE q == bus_wait_queue
<1>1. Len(q) \in Nat
  BY LenProperties DEF Inv, TypeOK
<1>2. o \in AllParts /\ w \in AllParts /\ o = <<j, o[2]>> /\ w = <<j, w[2]>>
      /\ o[2] \in 1 .. Need[j] /\ w[2] \in 1 .. Need[j]
  BY PartsFacts, PartNames
<1>3. PICK i \in 1 .. Len(q) : q[i] = w
  BY <1>2 DEF Inv, QueueOK
<1>4. q[i][1] = j /\ q[i][2] = w[2]
  BY <1>2, <1>3
<1>5. CASE (i - w[2]) + 1 >= 1
  <2>1. (i - w[2]) + o[2] >= 1
    BY <1>1, <1>2, <1>5
  <2>2. (i - w[2]) + o[2] \in 1 .. Len(q) /\ q[(i - w[2]) + o[2]] = o
    <3>1. /\ (i - w[2]) + o[2] <= Len(q)
          /\ q[(i - w[2]) + o[2]] = <<j, o[2]>>
      BY <1>2, <1>4, <2>1 DEF BlocksOK
    <3>2. (i - w[2]) + o[2] \in 1 .. Len(q)
      BY <1>1, <1>2, <2>1, <3>1
    <3>3. <<j, o[2]>> = o
      BY <1>2
    <3> QED
      BY <3>1, <3>2, <3>3
  <2>3. part[o] = "queued"
    BY <2>2 DEF Inv, QueueOK
  <2> QED
    BY <1>2, <2>3 DEF Inv, PartsOK
<1>6. CASE ~((i - w[2]) + 1 >= 1)
  <2> DEFINE m == (1 - i) + w[2]
  <2>1. m \in 1 .. Need[j] /\ (i - w[2]) + m = 1
    BY <1>1, <1>2, <1>6, JobsAssumption
  <2> HIDE DEF m
  <2>2. q[1] = <<j, m>>
    BY <1>4, <2>1 DEF BlocksOK
  <2> QED
    BY <2>2
<1> QED
  BY <1>5, <1>6

-----------------------------------------------------------------------------
(***************************************************************************)
(* The theorems.                                                           *)
(***************************************************************************)
\* The invariant holds when the server starts.
LEMMA InitInv == Init => Inv
<1> SUFFICES ASSUME Init PROVE Inv
  OBVIOUS
<1>1. TypeOK
  BY EmptySeq, BoundsAssumption DEF Init, TypeOK
<1>2. QueueOK
  BY EmptySeq DEF Init, QueueOK
<1>3. PartsOK /\ StagesOK
  BY PartsFacts DEF Init, PartsOK, StagesOK, Active
<1>4. TaskOK /\ SnapshotOK /\ NoStrandedWaiter
  BY DEF Init, TaskOK, SnapshotOK, NoStrandedWaiter
<1>5. ExclusiveSlots /\ NoSlotLost /\ GrantedSlotIsEmpty
  BY DEF Init, ExclusiveSlots, NoSlotLost, GrantedSlotIsEmpty, Held
<1> QED
  BY <1>1, <1>2, <1>3, <1>4, <1>5 DEF Inv

\* Every step keeps the invariant.
LEMMA NextInv == Inv /\ [Next]_vars => Inv'
BY TypeStep, QueueStep, PartsStep, StagesStep, TaskStep, SnapshotStep, OwnersStep,
   StrandedStep, EmptyStep DEF Inv, OwnersOK

\* The invariant holds in every state of the server.
THEOREM InvCorrect == Spec => []Inv
BY InitInv, NextInv, PTL DEF Spec

\* The state of Factory and of its tasks is well typed, for any bus and any
\* jobs.
THEOREM TypeCorrect == Spec => []TypeOK
<1>1. Inv => TypeOK
  BY DEF Inv
<1> QED
  BY <1>1, InvCorrect, PTL

\* No two requests are ever given the same slot, by bus_update or by bus_free.
THEOREM SlotsAreExclusive == Spec => []ExclusiveSlots
<1>1. Inv => ExclusiveSlots
  BY DEF Inv
<1> QED
  BY <1>1, InvCorrect, PTL

\* bus_allocations accounts for every slot held or queued to be freed,
\* whatever fails: no slot leaks out of the bus.
THEOREM SlotsAreNotLost == Spec => []NoSlotLost
<1>1. Inv => NoSlotLost
  BY DEF Inv
<1> QED
  BY <1>1, InvCorrect, PTL

\* The slot a sub-task is granted is empty, although the snapshot that
\* bus_update granted it from may be old.
THEOREM GrantedSlotsAreEmpty == Spec => []GrantedSlotIsEmpty
<1>1. Inv => GrantedSlotIsEmpty
  BY DEF Inv
<1> QED
  BY <1>1, InvCorrect, PTL

\* When no bus_main will serve the queue, whoever waits in it waits for slots
\* that running jobs hold.
THEOREM NoWaiterIsStranded == Spec => []NoStrandedWaiter
<1>1. Inv => NoStrandedWaiter
  BY DEF Inv
<1> QED
  BY <1>1, InvCorrect, PTL

\* bus_main only runs in its cycle, and factory_main knows it while jobs may
\* still spawn one.
THEOREM OneUpdaterAtATime == Spec => []OneUpdater
<1>1. Inv => OneUpdater
  BY DEF Inv, TypeOK, TaskOK, StagesOK, Active, OneUpdater
<1> QED
  BY <1>1, InvCorrect, PTL

\* At most one job both holds slots and waits for more, so jobs never wait
\* for each other in a circle: requests are served in the order they came.
THEOREM NoCircularWait == Spec => []OneJobHoldsAndWaits
<1>1. Init => BlocksOK
  BY EmptySeq DEF Init, BlocksOK
<1>2. Inv /\ BlocksOK => OneJobHoldsAndWaits
  BY HolderIsFirst DEF OneJobHoldsAndWaits
<1> QED
  BY <1>1, <1>2, BlocksStep, InvCorrect, PTL DEF Spec
=============================================================================
