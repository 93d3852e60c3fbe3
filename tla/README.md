# OCRemote: TLA+ models, checks and proofs

OCRemote automates a Minecraft base. Computers in the game (`src/client/client.lua`)
connect to a server outside the game and execute single operations for it: list an
inventory, transfer items, call a component. All decisions are taken by the server,
of which the repository holds two implementations, and both are modelled:

* the C++ server (`src/server/CPPImpl`): callbacks on one strand of an `io_context`. A
  handler runs to its end, and so do the continuations of every promise it completes;
  what is posted to the strand comes later;
* the Rust server (`src/server/RustImpl`): futures on a tokio `LocalSet` of one thread.
  What a task does between two `await`s is atomic.

What is hard about both is the same: dozens of processes move items through a few
shared slots at the same time, every one of them decides on what it saw before its
last wait, every operation may fail or time out, and nothing in an answer says which
request it belongs to.

## Inventory

| Part | State | Operations | What makes it correct |
|---|---|---|---|
| Item bus (`factory.rs`; `Factory.cpp`) | allocated slots, wait queue, slots to be freed, the running update | allocate, free, deposit, bus update | a slot has one owner; no slot is lost; a granted slot is empty; nobody waits while slots are free; every request is answered |
| Cycle (`factory.rs`; `Factory.cpp`) | position in the cycle, running updates | update storages, run processes, wait for all, clean the bus, sleep | every cycle ends; no job outlives its cycle; the bus is cleaned |
| Fluid bus (`factory.rs`) | the `fluid_bus_` fields | the `fluid_bus_` operations | as the item bus |
| Jobs (`process/*.rs`; `Processes.cpp`) | slots obtained so far | list the machine, request slots, load them, insert, free | slots returned exactly once on every path; no circular wait |
| Storages (`storage/*.rs`; `Storages.cpp`) | stacks, counts, reservations | update, sink, extract, reserve, backup | the account never promises more than is there; a stack is there when its extraction is answered |
| Items and recipes (`factory.rs`, `recipe.rs`; `Factory.h`, `Factory.cpp`, `Item.cpp`) | available and backup counts | filters, `resolveRecipeInputs`, `getDemand`, `insertIntoInventory` | the plan is the most that storages and backups allow; an item is not promised twice |
| Item processes (`Processes.cpp`; `process/*.rs`) | picture of the machine, jobs, outputs | slotted, buffered, scattering, inputless, crafting robot, workbench | what is sent fits where it goes; sets are complete; limits hold; what is wanted gets made |
| Controlling processes (`Processes.cpp`; `process/reactor.rs`, `redstone.rs`, `misc.rs`) | last value sent | read, compute, send what differs | the remembered value is what the game has; nothing is dropped in excess |
| Server (`server.rs`; `Server.cpp`) | clients, logins, queues of groups and of answers, timeout, write in progress | accept, login and eviction, enqueue, write, answer, time out, disconnect | every request completes once, with its own answer; something will wake whatever is pending |
| Promises (`Actions.h`), futures (`action.rs`) | listener, outcome | complete, listen, `map`, `then`, `finally`, `all` | completed once, heard once, in the order of the expression |
| Codec (`Serialize.cpp`, `serialize.lua`, `lua_value.rs`) | parser stack | serialize, parse | what was listed arrives, in any fragmentation |
| In-game client (`client.lua`) | read and write buffers | connect, execute in order, answer | one answer per request, in order |

The cycle calls `update` on all storages, then `run` (`cycle` in C++) on all processes. A
process lists its machine through the server, picks recipes, reserves their inputs with
the storages, and starts a *job* per recipe. A job requests one bus slot per input, waits
for its slots and moves the reserved items into them; when all have arrived it moves them
into the machine and hands the slots on. An output is moved into a slot that is then left
to the bus update, which stores its contents; the same happens to all slots of a job that
fails. A bus update lists the bus, stores whatever lies in slots that nobody owns, and
grants empty unowned slots to waiters.

The hazards of this code, each at its line and with the properties that would catch it,
are in `PROJECT.json`; so are the lines of code each definition stands for.

## Modules

| Module | What it is |
|---|---|
| `RequestService` | what processes rely on when they hand requests to a server; `CppServer` and `Connection` implement it |
| `CppServer` | C++: the TCP server, its Clients, and the computers at their other ends |
| `CppPromises` | C++: promises and their combinators, continuation by continuation |
| `CppBus` | C++: the item bus, the jobs that use it, and the cycle |
| `CppStorages` | C++: the accounts of chests, drawers and ME systems beside what they hold |
| `CppItems`, `CppRecipes` | C++: the functions processes plan with, and a cycle that plans |
| `CppSlotted`, `CppBuffered`, `CppScattering`, `CppInputless`, `CppCrafting` | C++: the processes that move items, each with its machine |
| `CppActuators` | C++: the seven kinds of process that control blocks |
| `CppCodec` | C++ and `client.lua`: how the answer to `List` is encoded, cut and read |
| `ItemBus`, `FluidBus`, `Connection` | Rust: the two buses with their jobs and cycle, and the server |
| `MCCppServer`, `MCCppBus`, `MCCppParts`, `MCCppProcesses`, `MCItemBus`, `MCFluidBus`, `MCConnection` | instances for TLC |
| `CppServer_proofs`, `CppParts_proofs`, `CppBus_proofs`, `CppProcesses_proofs`, `Connection_proofs`, `ItemBus_proofs`, `FluidBus_proofs` | inductive invariants and theorems; those of the servers, that they implement `RequestService` |
| `CommonLemmas` | facts about sequences, sums over finite sets, numbers and rankings that several of the proofs use |

`MCCppParts` extends `CppPromises` and `CppRecipes` and holds an instance of `CppCodec`; `MCCppProcesses` extends
`CppStorages` and `CppActuators` and holds instances of the other processes, whose variables they share. In both a behaviour is one of a single part, chosen in the initial state, and
the properties are conjunctions of those of the modules, by name.

### CppServer

The variables are the members of `Server` and, as the record `client[c]`, those of
`Client`. An answer is the action it answers, which the server cannot see: it takes the
first of `responseQueue`. `packet` is what `async_write` has not brought to the computer:
while `isSending` holds and `packet` is empty, the callback of the write is on its way,
also when the answer has overtaken it. `posted` are the handlers that destroyed
Clients and refused groups leave in the strand.

| Action | Code |
|---|---|
| `Accept`, `Login` | `Server::accept`; the first packet: `updateLogin`, which evicts and destroys an older Client of the name |
| `ConnectionLost`, `TimedOut`, `AnsweredBadly` | read or write fails, the response timer expires, an answer cannot be decoded: `removeClient`, `~Client` |
| `Enqueue` | `getBestAccess` and `enqueueActionGroup`, refused when no access is connected |
| `WriteDone` | the callback of `async_write`, which sends the next group |
| `Answered` | `onPacket`: the continuation of the answer, which may enqueue a group, runs before the action leaves the queue |
| `FailPosted` | a posted handler fails the actions of one queue |
| `Receive`, `Execute`, `Closed` | the network and `client.lua` |

### CppPromises

One expression of promises, given by constants. A handler is a sequence `work` of calls
still to make; a step is one call, so what `onResult` of a promise does is ordered as the
code orders it. `Complete` starts a handler with an answer or failure; `Make` makes the
inner promise of a `then` when its continuation runs.

### CppBus

`bus` is a record of the members of `Factory` and of what is posted; the functions of the
code (`busAllocate`, `busFree`, `doBusUpdate`, `endOfBusUpdate`, `endOfCycle`) are operators
on that record, composed as the code calls them, so an action is a whole handler. A
job's slots are kept as the code keeps them, `slotToFreeOut` of a crafting grid with the 0
it starts with: that is finding 3, and why the bases with a grid (`GridsNeverFail`) have no failures.
`base` is the configuration of the server, the processes that `main` adds and how many operations
may fail; it is chosen in the initial state and never changes.

### CppStorages

A chest is an account (`content`) that is read once per cycle, credited when a transfer
into it is sent and debited when one out of it is answered; `stored` is what the places really hold,
changed when a computer executes a transfer, in any order. A place is a slot of a chest, or an item of
the drawers or the ME network. `reserved[b]` is the reservation of the job that asks for
slot `b` of the bus, and `use[b]` what becomes of the slot: which slot a job gets is `CppBus`.

| Action | Code |
|---|---|
| `UpdateStorages`, `EndOfCycle` | `update` of each storage and `ItemInfo::addProvider`; `Factory::endOfCycle` forgets both |
| `Reserve` | `Factory::reserve`: `ItemInfo::reserve` takes from the best providers, of which `Reservations` are all outcomes |
| `Extract` | `Reservation::extract`, when the slot was granted: one transfer per provider |
| `Insert` | `Factory::insertItem` of a stack that a bus update found: the rounds of its loop are `SinkOne` |
| `Execute` | a computer runs `transferItem` |
| `Answer` | the continuation of a transfer, or its failure before or after it took effect |
| `Process` | the machine takes the inputs and puts out a product |

### Planning: CppItems and CppRecipes

`CppItems` has the functions as operators (folds and recursive definitions over slots and
ingredients). `CppRecipes` runs them for every content of the storages within `MaxStored`
and compares with definitions that do not follow the code: `SetsAreMost` says that one set more
would exceed what is available, `NeediestFirst` that demands are sorted.

### The processes that move items

`CppSlotted`, `CppBuffered`, `CppScattering`, `CppInputless` and `CppCrafting` share a shape:
`Cycle` starts a cycle with what the storages hold, `List` is the answer to the listing, `Decide`
the continuation that plans with it, `Load`, `Eject` or the calls of a group the transfers,
`ProcessOutput` an output, `EndOfCycle` the end; the machine crafts (`Craft`), and a player takes
what is finished, in between. Which slots of the bus a job has is left to `CppBus`: what was
reserved is with the job until it is in the machine or back in storage.

The inputs of a recipe are sent as a group of `transferItem` calls, which a computer executes one by one
(`Processes.cpp:92-118`, `520-545`). So `Load` of `CppSlotted` and `CppBuffered` is a single transfer,
in the order of the group (`Precedes`; `Current` and `Rest`), and everything else may happen between two of
them. `LoadFails` is the failure of an extraction, or of the group before its first transfer or
between any two: what has arrived stays in the machine, the rest goes back to the storages with the slots of
the bus. Such a loss in the midst of a group leaves part of a set behind; `lost` counts them up to
`MaxLost`. `client.lua` executes nothing of a group behind an error, since that ends the
connection, so what was executed is always the beginning of a group. `CppCrafting` goes call
by call, for `ProcessCraftingRobot` and `ProcessRFToolsControlWorkbench`, with the queue of
the device as the computers serve it.

### CppActuators and CppCodec

`CppActuators` is one process of any of the seven kinds: it reads a value (`Sense`), computes
outputs (`Decide`), sends those that differ from what it remembers (`SetOutput`) and remembers
them at the answer (`Answered`), while the world changes (`Change`) and answers are lost
(`SetFails`). Fractions are whole percents.

`CppCodec` encodes an inventory as `serialize.lua` does, cuts it anywhere, and reads it with
`Deserializer` as the stack of states it keeps, then `List::onResult` and `parseItemStack`.

### ItemBus

The variables named like fields of `Factory` are those fields. `bus_wait_queue` holds
*parts* instead of senders: part `<<j, i>>` is the sub-task of input `i` of job `j`,
the one that waits for the sender's result. `bus_task` is `"Some"` when `Factory` knows
the task; `bus_main` says where that task is, also after `factory_main` took the
handle. `n_bus_updates` is capped at 1, because the code only compares it with 0.
`dirty` is the game's side: the slots that really hold items.

An action is what runs between two `await`s, the calls it makes included:

| Action | Code |
|---|---|
| `RunJob`, `SkipJob` | the process has its listing: starts a job, has nothing to do, or fails |
| `Extracted` | a slot was loaded, or its transfer failed before or after it took effect |
| `StartInsert` | all inputs have arrived: the transfers into the machine are sent |
| `Inserted` | they are answered: `bus_free` for each slot; a crafting grid deposits the slot its product went to |
| `JobLoaded`, `InsertFailed` | an output is in the bus, or the job failed: `bus_deposit` of all its slots |
| `ListBus` | a computer executes the `List` of `bus_update` |
| `GrantAndClean` | its answer is handled: deposits start, slots are granted |
| `Deposited`, `DepositsJoined` | one slot is stored or fails; the joined result ends the update |
| `ListFailed` | `bus_update` fails before it grants: all waiters get the error |
| `StoragesUpdated`, `StoragesFailed`, `ProcessesJoined`, `EndOfCycle`, `StartCycle` | `factory_main` |
| `Restart` | the server is ended and started again: its state is lost, the game's is not |

A Minecraft operation takes effect when its answer is handled. That is exact enough
for transfers, whose slot is owned by the job that waits for the answer, but not for
`List`, whose result others can make stale: it has a step for its execution and a step
for its answer. `OneClient` states which answers can overtake it: one computer executes
in order and its answers arrive in order (`MayAnswer`), with several nothing is known.
A failed transfer may or may not have moved its items. Which slot a waiter
gets is left open (`HandOver`): the code takes them from the end of a list, and nothing
depends on it. The sub-tasks of one job enter the queue together: they are requested in
one loop, or by tasks spawned in one loop that the `LocalSet` polls in that order.

Abstracted away: what is in a slot (only whether something is), how many items a
transfer moves, which recipe is chosen, where deposits go. A job with several transfers
into the machine inserts in one step. Not in the model: a machine that takes fewer
items than its listing promised (the code ignores the count that `transferItem`
returns), a request executed after its timeout was handled, and two servers at once.

### FluidBus

The same shape with the code's differences: a read per bus (`ReadTanks`) instead of a
`List`; buses that were emptied are granted after the deposits (`DepositsJoined`);
`fluid_bus_main` repeats only when buses were freed (`LoopIf`). The item side of a fluid
recipe appears as a failure (`RecipeFailed`); the two buses together are left to a
composition. A restart leads to a state of `Init`, so there is no action for it.

### Connection

`Connection` has the fields of `Server` and `Client` as variables, each a function of the
connection, and the game's side: what a computer has received (`inbox`), executed
(`executed`) and answered (`answers`). A value of `status` stands for what the
`ActionFuture` of a request knows. A request is `<<g, i>>`, the `i`-th of group `g`; an
answer is the request that it answers, which the server cannot see: it takes the first of
its `response_queue`. `request_queue` holds the groups one after the other, so its length is
`request_queue_size`; `NextGroup` takes a group from it.

| Action | Code |
|---|---|
| `Accept` | `acceptor_main`: a new `Client` at the head of the list |
| `Login` | the first packet: `Server::login`, which evicts an older login of the name |
| `ConnectionLost`, `TimedOut` | the reader or the writer meets the end of the stream; `timeout_main` |
| `Enqueue` | `load_balance`, then `Server::enqueue_request_group`, refused when nobody is connected |
| `Write` | `writer_main` between two awaits: the last group is written, the next is taken |
| `Answered`, `AnsweredBadly` | `on_packet`: answer the first waiting request, or disconnect on an error |
| `Execute`, `Closed` | `client.lua` runs an operation; it stops, is switched off, or sees the end of the stream |

A packet arrives whole or not at all. `Execute` makes an answer visible at once, where
`client.lua` sends the answers of a group together: the model has more interleavings, not
fewer. What a computer has received it may execute after the server gave the
connection up. A client that sends answers nobody asked for is not modelled, so the
"unexpected packet" of `server.rs:159` never happens; `AnswersInOrder` includes that
`client.lua` never causes it. Groups are not empty, as every caller passes a request; an
empty one would make `enqueue_request_group` spawn the writer without a timeout.

`RequestService` knows only `status`: a group is accepted or refused as a whole, its
requests are answered in its order, and what is left of it fails together.

## What is checked

| Run | Instance | Result |
|---|---|---|
| `cpp_server` | 2 connections, 2 names; a crafting group of 2 actions for one computer and two single actions either can do; fairness; 143 632 states | holds |
| `cpp_bus` | jobs of 2, 2 and 1 slots on 3 slots, as two recipes and an extraction with one failure, with a crafting grid without; two grids, which have to go on for ever; 115 156 states | holds |
| `cpp_bus_slot_zero` | the grid with one failure | violated: finding 3 |
| `cpp_parts` | all listings of 3 items up to 5; an expression of 16 promises; 4 inventories, 2 answers, pieces of up to 3 characters; 9 090 states | holds |
| `cpp_processes` | the storages: a chest of two slots, a drawer, an ME network and two slots of the bus; seven instances of one process each, two recipes each, and one group cut short for `CppSlotted` and for `CppBuffered`; 917 494 states | holds |
| `cpp_processes_live` | smaller instances of the processes with fairness, one group cut short for `CppSlotted` and for `CppBuffered`, and a robot that loses calls; 95 745 states | holds |
| `item_bus` | jobs of 2 (recipe), 2 (crafting grid), 1 (extraction) slots on 3 slots; 2 failures or restarts; 74 048 states | holds |
| `item_bus_live` | jobs of 2 and 1 slots on 2 slots; 1 failure or restart; fairness; 2 528 states | holds |
| `item_bus_phantom` | crafting grid and recipe on 2 slots, several computers, no failures | violated: finding 1 |
| `fluid_bus` | two recipes of 2 buses and an extraction on 3 buses; 1 failure; 59 073 states | holds |
| `fluid_bus_stranded` | the same without failures | violated: finding 2 |
| `connection` | 3 connections, 2 names of which one computer ever connects (`Running`); a crafting group of 2 requests and a request for either; fairness; 69 604 states | holds |

**Bounds.** Instances have more requests than slots, so jobs block on each other; a job of every
kind, so slots return by every path; and enough failures that one can come in the cycle that cleans
up after another. Storages hold more than one stack of an item and less than all recipes together
want. A group of actions is enqueued once, which bounds the runs of the servers; a closed connection
may be opened again, under either name, without bound. Two connections show every eviction; the
Rust server links its clients by pointers, where a third is needed for one in the middle. In
`connection` one of two names never logs in: load balancing between computers that are
connected is checked in `cpp_server`. `Max...` constants bound failures, losses, the changes of
the world and what a player takes. Symmetry is used for slots in safety runs only.

**Deadlock.** Three runs do without the deadlock check. In `fluid_bus` and `cpp_bus` the system may
really stop, with a waiter that nothing serves (finding 2, and the first of the notes below); in
`cpp_parts` an expression and a conversation come to their end.

**Properties of the servers.** `AnswersInOrder`: the answers on their way are those of the first
actions that wait, although nothing in them says so. `PendingHasWakeup`: whatever a Client owes,
its timer or the end of a write will wake it, although `send` leaves the timer alone while a write
is in progress; in Rust `TimeoutWhilePending`: the timeout runs exactly while something is pending,
although a group that finds the writer at work does not arm it. `LoginsAreOpen`: the plain pointers
of `logins` lead to Clients of the list. `BestClientTaken`: a group goes to a connected client that
owes least. `ClientsReachable`: the links of the Rust list, which own the clients, reach all of
them after any order of disconnects. `GroupsTogether`: a computer executes a group in one piece.
`ServiceSpec`: the server implements `RequestService`. `ActionsComplete`, `RequestsComplete`:
every action completes, for computers that never answer, never close and never read.

**Properties of the buses.** `ExclusiveSlots`: a slot has one owner. `NoSlotLost`: the
allocated slots are exactly what jobs have, are about to get, or wait to be freed.
`GrantedSlotIsEmpty`: a job finds its slot empty, however old the listing was that it was granted
from. `WaitersResolvedOnce`: a promise of `busAllocate` is resolved once, and updates run within
their cycle. `NoStrandedWaiter` (Rust items): nobody waits with no update coming unless every slot
is owned. `OneJobHoldsAndWaits`: at most one job has slots and waits for more, so none
wait for each other in a circle. `CyclesEnd`,
`BusCleaned`: every cycle ends, so every request is answered, and what is left in the bus is stored;
`GridsGoOn` is both, of the C++ bus.
The fluid bus has the counterparts of the first three. Its `NoStrandedWaiter` asks for less than that of the items, and
is false: where somebody waits, `fluid_bus_main` is under way, or there is a job that waits for nothing
and will return its buses or ask for some.

**Properties of the parts.** `PlansAreBest`: the plan of a recipe is the most that
storages and backups allow. `PromisesInOrder`, `ExpressionCompletes`: no broken chain, each promise
completes once and behind those it waits for, `finally` runs, and the expression completes.
`ListsArrive`: an inventory arrives as it was listed.

**Properties of the storages and the processes.** `AccountsHold`: the account of a chest covers what is there or on its
way, an extraction finds its stack when it is answered, what was reserved is still there, and the
backup of an item no recipe may use up stays. `TransfersFit`: what is sent finds room although the machine has
gone on since it was listed, and beside what groups that were cut short left. `CompleteSets`: a machine of
`ProcessSlotted` holds inputs of one recipe only and no others are on their way (`OneRecipe`, whatever fails and
whatever a player takes); what is there and on its way makes complete sets, in the slots and in the buffer, until
a group is cut short (or a player takes something), which "may cause incomplete set of input items to be sent to machines"
(`src/README.md:85`); and a craft is the one that was planned. `Regulated`: the limits hold at any time, and no more is taken than is
needed. `RemembersWhatIs`: what is remembered to be set is set while no answer is lost, and
even then nothing is dropped in excess. `StepsAsPromised`: a job gets all it reserved, a cycle leaves the backup, spreads
items over the slots, switches a reactor only across its whole band, and sends only news.
`StockIsKept`: in the end what is wanted is there or cannot be made, or else an incomplete set that a group cut short left is in the way: it
leaves no room for another set (`Processes.cpp:66`, `482`), and no cycle clears it. `CyclesEnd`: cycles
end although a computer is lost in the middle of a group of calls.

**Fairness.** A ready task or posted handler is run; a transfer or call is answered or,
after the response timeout, failed, so the steps of jobs and updates are weakly fair; sleeps and
timers that are left alone end. For the servers nothing is assumed of computers. Failures are never
forced and are bounded: with storages that fail for ever no bus becomes clean. In
`cpp_processes_live` transfers do not fail for ever: what waits for one of them again and
again takes it (`Waits`, `Served`), which is strong fairness of the single transfer, each one of a group for itself; the `[]<>` forms
are the fairness that `CppInputless` and `CppCrafting` state, cut to one instance.

## Findings

1. `item_bus_phantom` (`factory.rs:620`). The `List` of `bus_update` runs on one computer while a
   second one executes a job's transfers out of the bus. If these are answered first, `bus_free`
   releases the slots, and `bus_update` then finds items in unowned slots in its old listing and
   deposits them: the storages are credited with items that are no longer in the bus. The accounts are
   rebuilt at the next cycle. `README.md:83` promises that no inconsistency comes of asynchronous
   execution.
2. `fluid_bus_stranded` (`factory.rs:712`). `fluid_bus_update` forgets, across its deposits, the
   buses it found empty, grants only those it emptied, and does not ask for another round when
   somebody still waits, as `bus_update` does. In the trace one bus has to be emptied while a recipe has the
   other two. The recipe is done during the deposits and `fluid_bus_free` finds nobody waiting. A second
   recipe asks for two buses then, gets the emptied one and waits for the other while two are free. The
   update has ended, no job has a bus to return or will ask for one, and no task is left to serve it.
3. `cpp_bus_slot_zero` (`Processes.cpp:148`). `slotToFreeOut` is 0 until the slot of the product is
   granted. A crafting grid that fails earlier frees slot 0, which another job may hold, and it is
   granted a second time. The workbench has the same at `Processes.cpp:375`.

Six more places of the C++ server do not keep what `src/README.md` says of it. The definitions named
here are in the modules and are false of the instances of the runs; no run checks them, and
the properties that are checked leave these cases out, as they say.

| Definition | Code | What happens |
|---|---|---|
| `NoStrandedWaiter` of `CppBus` | `Factory.cpp:172`, `README.md:83` | a bus update that inserts nothing ends without a look at `busWaitQueue`: a job that asked meanwhile waits until some other job frees a slot |
| `NeverStuck` of `CppSlotted` | `Processes.cpp:66`, `README.md:14` | a player takes one of two inputs of a full machine: the rest counts as a set, so nothing is sent again |
| `CompleteSets` of `CppSlotted`, nested recipes | `Processes.cpp:61`, `README.md:35` | the inputs of a smaller recipe are part of those of a larger one that is in the machine, and sets of both mix |
| `StartsWhatFits` of `CppBuffered` | `Processes.cpp:498`, `README.md:33` | a recipe that does not fit is skipped, but the picture of the buffer keeps what the failed try put there |
| `EachSlotRegulated` of `CppScattering` | `Processes.cpp:590`, `README.md:33` | the least filled slot is looked for starting from 0, so `eachSlotMaxInProc` never limits anything |
| `FollowsInput` of `CppActuators` | `Processes.cpp:913`, `README.md:63` | the output is remembered at the answer: when the answer is lost and the input goes back, the old output is not sent again |

## What is proved

TLAPS proves these theorems for every value of the constants, from the named assumptions of the
modules alone.

**`CppServer_proofs`**: for any connections, names, groups of any size and accesses.

| Theorem | Property |
|---|---|
| `TypeCorrect` | `TypeOK`, which no run lists: `sendQueueTotal`, unsigned in the code, never wraps |
| `AnswersMatched` | `AnswersInOrder` |
| `NothingForgotten` | `PendingHasWakeup` |
| `LoginsStayOpen` | `LoginsAreOpen` |
| `BestIsTaken` | `BestClientTaken` |

`ServerAssumption` says that the three `No...` values are none of the real ones, that groups are not
empty and that each has an access. The inductive invariant `Inv` has six parts:

* `TypeInv`, and `ClosedOK`: nothing is left of a Client that was destroyed, nothing reaches a
  computer that closed its connection, and every Client has a name to log in with.
* `OrderOK`: `responseQueue` is what was answered, followed by what the computer has yet to
  execute, followed by what it has yet to receive. `AnswersInOrder` alone is not inductive: the next
  answer is made from what is still in the middle. Once the computer has closed the connection only
  that there is some middle part is known, which is all that is needed.
* `ClientsOK`: each queue holds a group or an action once and no action is in both, so that
  `sendQueueTotal + responseQueue.size()` is the number of actions owed (`OwedCount`); what is written is so
  while `isSending`, what is unanswered is timed, and a group only waits for the end of a write.
* `StartedOK`: nothing is owed that was not asked for, so a new group is disjoint from what
  Clients owe.
* `LoginsAreOpen`, inductive with the others.

Lemmas say what `Send`, `Enqueued`, `Written` and `Popped` do to a Client (`SendFacts`, ...), and how each
step moves the boundaries in `OrderOK` (`TransitExtends`, `TransitPopped`, `TransitReceived`,
`TransitClosed`, `MoveHead`); then there is one lemma per handler (`EnqueueStep`, `AnsweredStep`, `LoginStep`, ...).
`BestIsTaken` needs that the choice in `getBestAccess` exists (`BestExists`, by the least of the
counts and the first access with it) and that only `Enqueue` and `Answered` make a group pending.

**`CppServer_proofs`**, second part, from the same assumptions:

| Theorem | Property |
|---|---|
| `ServerImplementsService` | `ServiceSpec`: `CppServer` implements `RequestService` |
| `PendingHasOneHolder` | `PendingIsOwed`: a pending action is owed by one Client or one posted handler |
| `TotalsAreExact` | `TotalIsQueued` |

No run lists the last two. All three follow from a second invariant, `RInv`, which adds to `Inv`
how the places an action may be in and `status` belong together (`Held`):

* `TurnsOK`: what a Client has queued is pending; what waits for its answers is all that is left of
  its groups (`Whole`) and in their order (`InTurn`). This makes an answer the next one of its group,
  as `Answer` of the service demands.
* `Whole`, of every posted handler too: a group fails as a whole, in one step, as `Fail` demands.
* `ApartOK`: nothing is in two places, so what one handler settles is pending nowhere else.
* `Somewhere`: what is pending is in some place.

`Held` takes the Clients, the posted handlers and the status as parameters because `Answered` changes
them twice: its continuation enqueues a group while the action is still in `responseQueue`
(`GroupHeld`), and then the action leaves (`AnsweredHeld`). Each step of `Next` is mapped to
a step of the service or to a stutter (`EnqueueServes`, `AnsweredServes`, `FailPostedServes`).

**`CppParts_proofs`**, first part, `CppPromises`: for every expression of promises, of any size and depth.

| Theorem | Property |
|---|---|
| `PromiseInvariant` | `Inv`, the inductive invariant |
| `PromisesKeepOrder` | `PromisesInOrder`: `TypeOK`, `NoBrokenChain`, `CompletesOnce`, `AllWaits`, `FinallyRuns` |

`PromisesAssumption` says what each combinator takes; `TreeAssumption` that a promise has one listener, because `listen`
throws when it is called twice, and that the factory listens to the root. The order of continuations in a handler is
left to the invariant, whose parts are

* `WorkOK`: a handler makes promises and listens to them, or it has one promise to settle and nothing else to do,
  never both. So whatever a continuation made has its listener before anything is settled: this is why there is no broken
  chain although promises complete inside each other's handlers.
* `LinksOK`: who listens is who was made for it; `MadeOK`: a promise that is not made yet has neither an outcome nor
  an action that the server owes, and nothing below it exists.
* `DoneOK`: a promise settles once, after its operands. The operand of a `then` that its continuation makes is the
  exception: it may never exist.
* `AllOK`: `nRemaining` is the number of operands without an outcome, so that `all` completes exactly with the last.
* `FinallyOK`: the callback ran if and only if the promise before it settled while the factory was there.

**`CppParts_proofs`**, second part, `CppItems` and `CppRecipes`: for any items, filters of the four kinds, recipes of any length and any
backups.

| Theorem | Property |
|---|---|
| `PlanningInvariantHolds` | `PlanningInvariant`, the inductive invariant |
| `PlansAreBestHolds` | `PlansAreBest`: `PlanningTypeOK`, `SetsAreMost`, `BackupIsKept`, `BackupsAddUp`, `NeediestFirst` |

`PlanningAssumption` says that the items are finitely many and stack to at least one, that a recipe has an ingredient, and that
ingredients ask for at least one item and for no negative extra backup. Outputs may ask for any number: a recipe whose
set point is zero or less is never wanted, so the fractions that `getDemand` compares have positive denominators
(`FullnessFacts`), which makes their order transitive (`FractionChain`).

`SetsAreMost` and `NeediestFirst` say what functions compute, so they hold in every typed state (`TypedSetsAreMost`,
`TypedNeediestFirst`). The first is an equivalence: for any number of sets, what `resolveRecipeInputs` finds is at least as many
exactly when the definition in terms of single ingredients allows them (`SufficeFacts`). The work is to show, item by item, that the allowance
that the fold over the ingredients ends with is that of the strictest one (`DecidingFacts`, `LeftIs`, `ItemAllows`), and that what several ingredients need of one item is the
sum (`NeededIs`). The second has two halves: that the sort returns each demanded recipe once and in order, which is proved
for any ranking of a finite set (`SortedByRank`), and that `Earlier` is such a ranking (`EarlierOrders`).

`BackupIsKept` and `BackupsAddUp` are about the cycle. `PlanningInvariant` adds only that nothing is set aside before all
storages have listed (`NothingSetAside`). The backups are set aside one after the other, which is a recursive function of
their number; an induction over it (`BackUpAllSteps`, `BackUpAllFacts`) shows that it changes nothing but `backup`, and adds each entry that finds an
item exactly once. Taking sets of a recipe keeps the backup of each item no ingredient may use up, because the
sets are bounded by what is available beyond it (`TakesSetsKeeps`), however many recipes take from the item before (`TakeFacts`).

**`CppParts_proofs`**, third part, `CppSlotted`: for any items and recipes, any slots of the machine and anything in the storages at
first, with any failures of transfers and any number of groups cut short between two of them, other processes that store items, a machine that works at any time and a player who takes
stacks.

| Theorem | Property |
|---|---|
| `SlottedInvariant` | `SlottedInv`, the inductive invariant |
| `SlottedInputsFit` | `Slotted!TypeOK` and `Slotted!InputsFit`, its part of `TransfersFit` |
| `SlottedLeavesBackup` | `Slotted!BackupStays`, its part of `StepsAsPromised` |
| `SlottedOneRecipe` | `Slotted!OneRecipe`, its part of `CompleteSets` |
| `SlottedCompleteSets` | `Slotted!CompleteSets`, its part of `CompleteSets` |

The module instantiates `CppSlotted` with the constants of `CppRecipes`, and first shows that the instance computes with the same
functions (`SlottedResolves`, `SlottedDemands`, ...), so what the second part proves of them can be cited. `SlottedAssumption` is what
`CppSlotted` assumes of items and recipes: those of the second part, and that a slot of the machine gets one ingredient of a recipe,
once. The parts of `SlottedInv` are

* `JobFits`: what the transfers of a job that are left will bring still fits where it goes, and no input slot holds anything of
  another recipe. The plan sees a listing
  of the machine that is older than the plan; this is an invariant because whatever happens to the machine since, working
  or a player, only takes inputs out (`IsLess`, `LessFits`), and because `resolveRecipeInputs` never finds more sets than
  the storages have for all ingredients together (`ChosenFacts`, from the second part).
* `WorksInPhase`: outputs are collected and jobs run only between the plan and the end of the cycle, so that two cycles never plan for
  one machine.
* `KnowsStored`: what the planning believes to be available is at most what is stored. Others store items
  meanwhile, nobody takes any before the plan.
* `KnowsMachine`: what was listed is at least what is there.

`SlottedOneRecipe` needs no more than that. Its invariant is `OfOneRecipe`: a transfer brings an ingredient of the recipe that the plan
found the machine to match, and neither crafting, a player nor a group cut short brings anything else (`OneRecipeStays`). It says nothing
about how much there is of each input.

`SlottedCompleteSets` does, and needs more. It holds until a group is cut short or a player takes something out: the code has no defence
against either, as `src/README.md:85` says of the first. A failure before the first transfer of a group, however many, is no
such case. And it has the hypothesis `RecipesApart`: no machine that holds inputs of a recipe could be one that holds inputs of
another. Without it the property is false, since the process cannot see which recipe the contents were loaded for; it loads on top of what it
takes for its own. It also matters while a group is under way, when the machine may begin with what has arrived. A configuration has to give
such recipes different slots or ingredients. TLC evaluates the hypothesis, with the other
assumptions, for the instance of `cpp_processes`. The invariant is `SetsComplete`: there is a recipe and a number of
sets that are what the machine holds and what the job has still to bring; a plan adds sets to those (`PlanCompletes`), a transfer moves what was on
its way into the machine (`LoadCompletes`), crafting takes a set away (`CraftCompletes`), and a failure before the first transfer takes away
the sets that were on their way (`FailureCompletes`).

**`CppParts_proofs`**, fourth part, `CppScattering`: for any items and recipes with one input, any input slots in any order,
anything in the storages at first, and any failures of transfers, while each slot of the machine works at any time.

| Theorem | Property |
|---|---|
| `ScatteringInvariant` | `ScatteringInv`, the inductive invariant |
| `ScatteringTransfersFit` | `Scattering!TypeOK`, `Scattering!TransfersFit` and `Scattering!OneBusSlot`, its part of `TransfersFit` |
| `ScatteringSpreadsOut` | `Scattering!SpreadOut`, its part `SpreadsOut` of `StepsAsPromised` |
| `ScatteringLeavesBackup` | `Scattering!BackupStays`, its part `LeavesBackup` of `StepsAsPromised` |

The assumptions of `CppScattering` are those of the second part, and that a recipe has one input and makes an item, that the output slot
is no input slot, and that what is stored and set aside are numbers. The input slots may be none and may repeat, `eachSlotMaxInProc` may be negative.

The plan is a loop in a loop. Both are recursive functions with a list of their intermediate results (`RoundsSteps`,
`PlanAllSteps`), so what they keep can be shown by an induction on the number of steps:

* `Spread`, of the inner loop, which adds one item per round (`AddOneFacts`, `RoundSpreads`): what was added to a slot is of the item, is
  counted, is never more than the recipe has inputs for, and every slot that was added to is *even*: no
  other slot that is empty or has the same item holds less than one item less (`IsEven`). An empty slot is always taken first, so
  a slot that is added to holds as little as any other with the item.
* `Pictured`, of the outer loop, which plans one recipe after the other (`PlanRecipeKeeps`): the picture of the machine
  is what was listed and the transfers on top of it; what was available is what still is and the items of the transfers; the backup is
  left; slots that got something are even also after later recipes added to others; and a recipe adds transfers once, because
  `getDemand` lists it once (`ScatteringDemandFacts`, from the second part), so all it moves fits into one slot of the bus.

`ScatteringInv` then says that what is still to be moved fits beside what is there (`MovesFit`), and as for `ProcessSlotted`
that transfers exist only between the plan and the end of the cycle, that the planning believes no more than what is
stored, and that the machine only has lost inputs since it was listed.

**`CppBus_proofs`**: for any slots, jobs and numbers of slots they need, and for all bases, with any number of
failures, in which crafting grids never fail.

| Theorem | Property |
|---|---|
| `BusInvariant` | `Inv`, the inductive invariant |
| `BusTypeOK` | `TypeOK`, which no run lists |
| `SlotsAreExclusive` | `ExclusiveSlots` |
| `SlotsAreKept` | `NoSlotLost` |
| `SlotsAreGrantedEmpty` | `GrantedSlotIsEmpty` |
| `WaitersAreResolvedOnce` | `WaitersResolvedOnce`, with `UpdatesWithinCycle` |
| `NoCircularWait` | `OneJobHoldsAndWaits`, which no run lists |

Besides `JobsAssumption` and `BasesAssumption` each theorem has the hypothesis `GridsNeverFail`: a base with a
crafting grid has no failures. It is not an assumption of the module because the code does not justify it: without
it `ExclusiveSlots` is false, which `cpp_bus_slot_zero` shows (finding 3). What the theorems
say of recipes and extractions holds with any failures.

A handler applies several operations of `Factory` one after the other: the last transfer of a job hands its slots
on, frees others, completes the process, and so may end the cycle, which may start an update. So the invariant is
a predicate of the record of the bus, `BusOK(b, H, Q, D)`, with the slots `H` that parts hold, the parts `Q` that
wait and the dirty slots `D` as parameters, and each operation has one lemma that says how it changes them
(`HandsOver`, `Frees`, `UpdateDoneKeeps`, `UpdateFailedKeeps`, `CycleEnds`, ...). An action composes the
lemmas in the order in which the code makes the calls. `Inv` is `TypeOK`, `BusOK` of the variables, and:

* `StrandOK`, `QueueOK` (in `BusOK`): what waits is in the queue or in the strand, once, and the strand grants a
  slot once.
* `OwnersOK`: `NoSlotLost`, of the parameters.
* `CleanOK`: `GrantedSlotIsEmpty`, and that what got dirty since the bus was listed is allocated. It is why
  a slot granted from an old listing is empty, and why `busFree` must keep slots back while an update runs.
* `CycleOK`, `UpdateOK`: an update runs within its cycle, and one that inserts nothing has exactly one handler
  posted that ends it. Without this a second end could come in the middle of the next update.
* `PartsOK`, `StageOK`: a part has a slot exactly when it was granted one, a job goes on when all of its parts have
  ended, and jobs run only in cycle `"run"`.
* `FaultsOK`: on a base without failures no part fails and no deposit does. This is where `GridsNeverFail` is used:
  `slotToFreeOut` is then set when it is freed.

`NoCircularWait` needs a second invariant, `Lined`, of the order of `busWaitQueue`: the parts of a job stand next
to each other in it, in order and up to the last one (`Blocks`). Slots go to the first who wait, a failure clears the
queue, and a job queues its parts at once, from the first one on, so every operation keeps this (`LinedNext`). A
job with a part that waits and one that does not is then the first in the queue (`FirstInLine`), and a part that
has a slot does not wait (`HoldersDoNotWait`).

**`CppProcesses_proofs`**, first part, `CppStorages`: for any items, chests and filters, any slots of the bus and any products of machines.

| Theorem | Property |
|---|---|
| `StoragesInvariant` | `Inv`, the inductive invariant |
| `AccountsAreHonest` | `AccountsHold`: `TypeOK`, `AccountCovers`, `ExtractionFindsStack`, `ReservedIsThere`, `BackupKept` |
| `JobsGetWhatTheyReserved` | `LoadedCompletely`, the part of `StepsAsPromised` that is about the storages |

`ItemsAssumption` says that items stack to at least one and that backups are numbers, `StoragesAssumption` that the
places are finitely many, that no chest is named like the drawers or the ME network, and that no stack is larger than
its item allows. `Inv` adds to the accounts what they need to be inductive:

* `StagesOK`: reservations belong to slots that a job waits for, transfers to slots that are loaded or stored away;
  a job extracts once from a place, so a transfer stands for all that its reservation took there.
* `SlotsOK`: what a slot holds, what is on its way into it and what is reserved for it are of one item and fit together.
  Without it a computer could move less than was sent, and then the debit at the answer would be more than what
  left the chest.
* `ItemsOK`: what is taken from a place and what is sent into it is of the item that the account names. This makes
  the sums of `AccountCovers` sums of one item.

`AccountCovers` and `ReservedIsThere` bound the same stack from both sides: the first counts what is on its way in and
what left without an answer yet, the second what has still to leave. `ExtractionFindsStack` follows from
the two (`ExtractionCovered`).

The accounts are sums over places, slots and transfers, which the community modules define by folds. The prover knows
nothing of these, so the module first proves induction over finite sets, from the least number without a property, that
a sum over a finite set is what `SumsTo` says, and how it changes when an element comes, goes or changes its
value; the proofs about the accounts cite only these. `insertItem` is a loop: `SinkOne` keeps a predicate of the
account and the transfers sent so far, and by induction so do all rounds. `JobsGetWhatTheyReserved` follows from
the invariant because of all steps only `Execute` makes a transfer executed.

**`CppProcesses_proofs`**, second part, `CppActuators`: for a process of any of the seven kinds, any bounds and
coefficients, any set of outputs of a flux network, and any number of changes, failures and lost answers.

| Theorem | Property |
|---|---|
| `ControlInvariant` | `ControlInv`, the inductive invariant |
| `OutputsAreRemembered` | `RemembersWhatIs`: `ControlTypeOK`, `OutputsRemembered` and `NoExcess` |
| `ControlTypesHold` | `ControlTypeOK` |
| `ReactorsDoNotChatter` | `NoChatter`, the part `CrossesBand` of `StepsAsPromised` |
| `NothingIsRepeated` | `NoRepetition`, the part `SendsNews` of `StepsAsPromised` |

All rest on `ParametersAssumption` of `CppActuators`, which TLC evaluates in the runs of
`MCCppProcesses`: what there is to read has the form that the kind of process reads (`Readings`; at most 100 plastics,
so that the choice of the mixer is within the range of an output), parameters are whole numbers, and at
first no more items are on the ground than the conditional process allows, since it cannot take any back. `ControlTypeOK` alone
is not inductive; `ControlInv` adds to the types:

* `OutputOK`: a call is in flight only while outputs are set; what is remembered is what the game has, unless the call of
  this cycle was executed and not yet answered, or an answer was lost before; and what a reactor
  with hysteresis is about to be set to follows from what the cycle has seen, which nothing changes
  until the cycle has ended, although what there is to read does.
* `DropOK`: between the reading and the drop the items on the ground only get fewer, because the process itself is the only
  one that drops any, and once a cycle. This does not need the answers, which is why `NoExcess` has no
  condition on lost ones.

**`CppProcesses_proofs`**, third part, `CppInputless`: for a machine of any size and products, any entries and filters.

| Theorem | Property |
|---|---|
| `InputlessInvariant` | `InputlessInv`, the inductive invariant |
| `NothingIsTakenInExcess` | `NeverTooMuch` of `CppInputless`, the part of `Regulated` that is about it, and `TypeOK` |

The hypotheses are `ItemsAssumption` and `InputlessAssumption`, which TLC evaluates for the instance of `MCCppProcesses`: the
size and the bound are numbers, the storages start with some number of each item, and the entries are finitely
many. Entries may accept the same items and need less than nothing. `NeverTooMuch` alone is not
inductive; `InputlessInv` adds to it

* that a cycle that has not decided yet knows how much is stored (other processes only use items
  between cycles of this one in the model, which is the worst case: items that go during a cycle leave more room), and
* that a slot, and the listing of it, hold only what the machine puts there, and a transfer is of that item. Without it a
  transfer that was sent for one item could bring another, which `NeverTooMuch` counts for the first.

The decision is a loop over slots. `Planned` is its invariant: what is stored and what is sent for so far are no more than
what the loop counts as stored (`Counted`), and that is no more than what was stored at first or than what is
needed. `PlanSlotKeeps` shows that a slot keeps it, `PlanSlotsFacts` that the loop ends with it. What several entries need is the maximum of a set that is never empty
(`NeededOf`), so the bound is one of its members.

**`Connection_proofs`**: for any connections, names and groups of any size.

| Theorem | Property |
|---|---|
| `TypeCorrect` | `TypeOK`, which no run lists |
| `AnswersMatched` | `AnswersInOrder` |
| `TimeoutIsSet` | `TimeoutWhilePending` |
| `LoginsStayOpen` | `LoginsAreOpen`, which no run lists |
| `GroupsStayTogether` | `GroupsTogether` |
| `ClientsStayReachable` | `ClientsReachable` |

The assumptions of `Connection`: `NoConn` and `NoName` are none of the real ones, the names that ever
connect (`Running`) are names, groups are not empty, and each has an access. The inductive
invariant, `Inv`, is `TypeOK`, `LoginsAreOpen`, and for each connection:

* `OpenOK`: `response_queue` is what was answered, then what the computer has yet to execute, then
  what is being written (`InTransit`), as in `OrderOK` of `CppServer`, where again the middle is only known
  to exist once the computer has closed the connection; the Client has a name to log in with; and the
  writer is at work exactly while something is written or waits to be, which is when
  `enqueue_request_group` may leave the timeout alone.
* `DroppedOK`: nothing is left of a Client that was dropped.
* `TimerOK`: `TimeoutWhilePending`, inductive with the two above.
* `GroupsOK`: `request_queue` holds groups as a whole (`Whole`), so that what `NextGroup` takes is one
  group; what is written is one; and what a computer has executed and received is made of groups, the last
  of which may be cut off (`Together`).

`ClientsStayReachable` needs one more, `LinksOK`: `prev` and `next` undo each other within the open Clients, and only the
head of the list has no `prev` (`LinksMatch`). What the links reach from the head is stated without following them one by
one: the open Clients contain the head and are closed under `next` (`FollowsLinks`), and no smaller set does and is.

**`Connection_proofs`**, second part, from the same assumptions:

| Theorem | Property |
|---|---|
| `ConnectionImplementsService` | `ServiceSpec`: `Connection` implements `RequestService` |
| `PendingHasOneOwner` | `PendingIsOwed`, which no run lists: a pending request is owed by one connection |

The second invariant, `RInv`, speaks of the `line` of a connection, `response_queue` followed by
`request_queue`. The writer moves requests within the line and so does nothing that the service can
see; an answer takes the head, a group joins the end, and a Client that is dropped fails all of it. In a line a
request stands once (`Once`), everything in it is pending and so is the rest of its group (`Complete`), and
what comes before a request in its group is answered or stands before it (`InTurn`); two lines have nothing in
common, and all that is pending is in one (`Held`). Clients of the Rust server fail their requests when they are
dropped, in the same step, so there are no posted handlers and the proof is the shorter one.

**`ItemBus_proofs`**: for every set of slots and jobs, every number of requests per job, any number of
computers, failures and restarts.

| Theorem | Property |
|---|---|
| `TypeCorrect` | `TypeOK` |
| `SlotsAreExclusive` | `ExclusiveSlots` |
| `SlotsAreNotLost` | `NoSlotLost` |
| `GrantedSlotsAreEmpty` | `GrantedSlotIsEmpty` |
| `NoWaiterIsStranded` | `NoStrandedWaiter` |
| `OneUpdaterAtATime` | `OneUpdater`, which no run lists: `bus_main` runs only while `factory_main` will wait for it |
| `NoCircularWait` | `OneJobHoldsAndWaits` |

The assumptions of `ItemBus`: `NoSlot` is no slot,
each job requests at least one slot and is of a known kind, and the bounds are of their
types. All theorems follow from one inductive invariant, `Inv`, which adds to these
properties what they need to be inductive:

* `QueueOK`: the queue holds exactly the waiting parts, each once. Without it two grants
  could go to one part, or a slot to a part that has one.
* `PartsOK`: a waiting or idle part owns no slot, a loading or loaded one does. With
  `ExclusiveSlots` and `NoSlotLost` this is the account of the slots (`OwnersOK`).
* `StagesOK`: parts are busy only in a job that runs, jobs run only in phase `"run"`, and a
  job inserts only when all of its parts are loaded.
* `TaskOK`: `Factory` knows `bus_main` exactly while processes run. So the
  `bus_deposit` of a running job either finds the task, and its slots stay allocated until
  the update ends, or there is none, and no snapshot is outstanding.
* `SnapshotOK`: what got dirty after the listing is allocated. This is why a
  slot granted from an old listing is empty: jobs dirty only slots they own, and an owned slot
  stays in `bus_allocations`, by `bus_free_queue`, until the update has ended.

There is one lemma per conjunct and step (`TypeStep`, `QueueStep`, `PartsStep`, `StagesStep`,
`TaskStep`, `OwnersStep`, `StrandedStep`, `SnapshotStep`, `EmptyStep`), each with a step per
action, on top of lemmas on what a hand-over, a deposit and the end of an update do.

`NoCircularWait` needs an invariant of its own, `BlocksOK`: the parts of a request stand next to each
other in `bus_wait_queue`, and only the request at its head can have lost parts to grants. So a
job that holds a slot and waits is the one at the head (`HolderIsFirst`). Nothing else depends on
the order of the queue.

**`FluidBus_proofs`**: for every set of buses and jobs, every number of inputs and failures.

| Theorem | Property |
|---|---|
| `TypeCorrect` | `TypeOK`, which no run lists |
| `BusesAreExclusive` | `ExclusiveBuses` |
| `BusesAreNotLost` | `NoBusLost` |
| `GrantedBusesAreEmpty` | `GrantedBusIsEmpty` |
| `NoCircularWait` | `OneJobHoldsAndWaits`, which no run lists |

The invariant has the parts of the one of `ItemBus`, except `NoStrandedWaiter`, which does not hold
here (finding 2), and in place of `SnapshotOK`:

* `ReadOK`: what got dirty since its bus was read is allocated, as long as no read failed. Buses
  are read one by one, so it speaks of those read so far.
* `EmptiedOK`: during the deposits none of the buses that are emptied is allocated, so no job can
  touch them, and unless a deposit failed one is dirty only until its own deposit ends. This is why
  they can be granted without a second read.

**Only model-checked**: liveness (the prover has no support for fairness); `NoStrandedWaiter` of `CppBus` is
false; the properties of `CppBuffered` and `CppCrafting`; and those of the codec, which computes by recursion over
characters. Where a recursive computation does not depend on an order, as sums do, or has a list of its intermediate results, as
the backups and the loops of `CppScattering` have, `CommonLemmas` and `CppParts_proofs` prove the induction with a set of
numbers (`NumberInduction`); the folds of `CppBuffered` carry along a picture of the machine with quotas of several kinds.

## Not modelled

* The storages, planning, processes and codec of the Rust server (`storage/*.rs`, `recipe.rs`,
  `process/*.rs`, `lua_value.rs`): they are ports of the C++ ones, which are; their use of the bus is in
  `ItemBus` and `FluidBus`.
* A request that a computer executes after its timeout was handled, into a slot that has a new owner, or the rest of a group whose
  job has failed (a transfer that was executed and whose answer is lost is modelled);
  a machine that takes fewer items than its listing promised (both servers ignore the count that a
  transfer reports); two servers at once.
* The payload of actions and how `Actions.cpp` names their fields; `access.rs`, the sides and addresses.
* The configuration (`Entry.cpp`, `main.rs`), which describes one base: data without behaviour of its own.
  Terminal drawing and keys; ending the server is `Restart` of `ItemBus`.

## What may come next

Both buses together, as `fluid_slotted.rs` uses them: a job that holds slots of the one while it waits
for the other.
