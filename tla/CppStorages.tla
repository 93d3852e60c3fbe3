---------------------------- MODULE CppStorages ----------------------------
(***************************************************************************)
(* The storages of the C++ server (Storages.cpp), the providers and        *)
(* reservations of items and the choice of a storage for what is in the    *)
(* bus (Factory.cpp), beside what the chests really hold.                  *)
(*                                                                         *)
(* A chest is an account: its content is read once per cycle, credited     *)
(* when a transfer into it is sent and debited when a transfer out of it   *)
(* is answered.  In between, computers execute the transfers in any order. *)
(* A place is one slot of a chest, or one item of the drawers or of the ME *)
(* network, which are not limited.  What a job does with its slot of the   *)
(* bus is module CppBus.                                                   *)
(***************************************************************************)
EXTENDS Integers, Sequences, FiniteSets, SequencesExt, FiniteSetsExt

CONSTANTS
    Items,
    NoItem,
    MaxSize,        \* MaxSize[i]: Item.maxSize
    Chests,         \* the chests, in the order the configuration adds them
    ChestSlots,     \* how many slots a chest has
    Filtered,       \* the items the filters of the drawers accept
    HasME,          \* whether there is an ME network
    Backup,         \* Backup[i]: how many of i addBackup keeps
    BackupUsers,    \* the items some recipe may use up (allowBackup)
    BusSlots,
    StoredAtFirst,  \* the stacks that may be in the storages at the start
    Products,       \* the stacks a machine may put into the bus
    MaxItems        \* bound: machines put out nothing above so many items

Empty == [item |-> NoItem, size |-> 0]

\* What a slot holds: nothing, or no more of an item than may be stacked.
SlotStacks == {Empty} \cup UNION {[item : {i}, size : 1 .. MaxSize[i]] : i \in Items}

ASSUME ItemsAssumption ==
    /\ IsFiniteSet(Items) /\ NoItem \notin Items
    /\ MaxSize \in [Items -> Nat \ {0}] /\ Backup \in [Items -> Nat]
    /\ Filtered \subseteq Items /\ BackupUsers \subseteq Items
ASSUME StoragesAssumption ==
    /\ Chests \in Seq(STRING) /\ ToSet(Chests) \cap {"drawer", "me"} = {}
    /\ ChestSlots \in Nat \ {0} /\ HasME \in BOOLEAN /\ IsFiniteSet(BusSlots)
    /\ StoredAtFirst \subseteq SlotStacks /\ Products \subseteq SlotStacks \ {Empty}

VARIABLES
    running,        \* whether the content is known: update() until endOfCycle()
    content,        \* StorageChest.content
    providers,      \* the providers of the cycle, by their places
    transfers,      \* the transfers that were sent and not answered
    reserved,       \* reserved[b]: the reservation of the job that gets slot b
    use,            \* use[b]: what slot b of the bus is used for
    bus,            \* bus[b]: the stack in it
    stored          \* what every place really holds

vars == <<running, content, providers, transfers, reserved, use, bus, stored>>

Stack(i, n) == IF n = 0 THEN Empty ELSE [item |-> i, size |-> n]
ChestPlaces == ToSet(Chests) \X (0 .. ChestSlots - 1)
DrawerPlaces == {"drawer"} \X Filtered
MEPlaces == IF HasME THEN {"me"} \X Items ELSE {}
Places == ChestPlaces \cup DrawerPlaces \cup MEPlaces
Transfers ==
    [kind : {"sink", "extract"}, slot : BusSlots, place : Places, item : Items,
     size : Nat \ {0}, executed : BOOLEAN]
Nothing == [p \in Places |-> 0]

TypeOK ==
    /\ running \in BOOLEAN
    /\ content \in [ChestPlaces -> SlotStacks]
    /\ providers \in [Places -> [item : Items \cup {NoItem}, size : Nat, avail : Nat]]
    /\ transfers \subseteq Transfers /\ IsFiniteSet(transfers)
    /\ reserved \in [BusSlots -> [Places -> Nat]]
    /\ use \in [BusSlots -> {"free", "waiting", "loading", "failed", "left", "inserting"}]
    /\ bus \in [BusSlots -> SlotStacks]
    /\ DOMAIN stored = Places
    /\ \A p \in ChestPlaces : stored[p] \in SlotStacks
    /\ \A p \in Places \ ChestPlaces : stored[p] \in [item : {p[2]}, size : Nat]

Init ==
    /\ running = FALSE
    /\ content = [p \in ChestPlaces |-> Empty]
    /\ providers = [p \in Places |-> [item |-> NoItem, size |-> 0, avail |-> 0]]
    /\ transfers = {}
    /\ reserved = [b \in BusSlots |-> Nothing]
    /\ use = [b \in BusSlots |-> "free"]
    /\ bus = [b \in BusSlots |-> Empty]
    /\ \E chest \in [ChestPlaces -> StoredAtFirst], more \in [Places \ ChestPlaces -> 0 .. 1] :
         stored = [p \in Places |-> IF p \in ChestPlaces THEN chest[p]
                                    ELSE [item |-> p[2], size |-> more[p]]]
-----------------------------------------------------------------------------
(***************************************************************************)
(* Providers and reservations.                                             *)
(***************************************************************************)

\* Provider.priority: the ME network first, then the smallest stacks of the
\* chests, the drawers last.
Before(p, q) ==
    \/ p \in MEPlaces /\ q \notin MEPlaces
    \/ p \in ChestPlaces /\ q \in DrawerPlaces
    \/ p \in ChestPlaces /\ q \in ChestPlaces /\ providers[p].size < providers[q].size

ProvidersOf(i) == {p \in Places : providers[p].item = i}
Avail(i) == SumFunctionOnSet([p \in Places |-> providers[p].avail], ProvidersOf(i))

GetAvail(i, allowBackup) ==
    IF allowBackup THEN Avail(i) ELSE IF Avail(i) > Backup[i] THEN Avail(i) - Backup[i] ELSE 0

\* ItemInfo::reserve takes n from the best providers; the order of equals is
\* that of the heap, hence any.
Reservations(i, n) ==
    LET partly(t, p) == t[p] > 0 /\ t[p] < providers[p].avail IN
    {t \in [Places -> 0 .. n] :
        /\ \A p \in Places : t[p] > 0 => p \in ProvidersOf(i) /\ t[p] <= providers[p].avail
        /\ SumFunctionOnSet(t, Places) = n
        /\ \A p \in ProvidersOf(i), q \in ProvidersOf(i) :
             t[p] > 0 /\ Before(q, p) => t[q] = providers[q].avail
        /\ \A p, q \in ProvidersOf(i) : partly(t, p) /\ partly(t, q) => p = q}

\* update() of every storage, while nothing is in flight.
UpdateStorages ==
    /\ ~running
    /\ running' = TRUE
    /\ content' = [p \in ChestPlaces |-> stored[p]]
    /\ providers' = [p \in Places |->
         IF stored[p].size = 0 THEN [item |-> NoItem, size |-> 0, avail |-> 0]
         ELSE [item |-> stored[p].item, size |-> stored[p].size, avail |-> stored[p].size]]
    /\ UNCHANGED <<transfers, reserved, use, bus, stored>>

Deduct(t) == [p \in Places |-> [providers[p] EXCEPT !.avail = @ - t[p]]]

\* A process reserves n of item i for the slot it asks for.
Reserve(b, i, n) ==
    /\ running /\ use[b] = "free" /\ bus[b] = Empty
    /\ \E allowBackup \in {FALSE, (i \in BackupUsers)} : n <= GetAvail(i, allowBackup)
    /\ \E t \in Reservations(i, n) :
         /\ reserved' = [reserved EXCEPT ![b] = t]
         /\ providers' = Deduct(t)
    /\ use' = [use EXCEPT ![b] = "waiting"]
    /\ UNCHANGED <<running, content, transfers, bus, stored>>

Transfer(kind, b, p, i, n) ==
    [kind |-> kind, slot |-> b, place |-> p, item |-> i, size |-> n, executed |-> FALSE]

\* The slot is granted: Reservation::extract sends one transfer per provider.
Extract(b) ==
    /\ use[b] = "waiting"
    /\ use' = [use EXCEPT ![b] = "loading"]
    /\ transfers' = transfers \cup
         {Transfer("extract", b, p, providers[p].item, reserved[b][p]) :
            p \in {q \in Places : reserved[b][q] > 0}}
    /\ reserved' = [reserved EXCEPT ![b] = Nothing]
    /\ UNCHANGED <<running, content, providers, bus, stored>>
-----------------------------------------------------------------------------
(***************************************************************************)
(* insertItem and the sinks.                                               *)
(***************************************************************************)

Room(c, p, i) == c[p].item = i /\ c[p].size < MaxSize[i]

SlotsOf(chest) == {chest} \X (0 .. ChestSlots - 1)
FreeSlots(c, chest) == {p \in SlotsOf(chest) : c[p] = Empty}
PartSlots(c, chest, i) == {p \in SlotsOf(chest) : Room(c, p, i)}

\* StorageChest::sinkPriority leaves in slotToSink the fullest stack with room,
\* the first of equals, or else the last empty slot.
SlotToSink(c, chest, i) ==
    LET part == PartSlots(c, chest, i)
        fullest == {p \in part : \A q \in part : c[q].size <= c[p].size}
        free == FreeSlots(c, chest)
    IN IF part # {} THEN CHOOSE p \in fullest : \A q \in fullest : p[2] <= q[2]
       ELSE CHOOSE p \in free : \A q \in free : q[2] <= p[2]

\* The values of sinkPriority that occur, in their order: 0 is nullopt, 1 and 2
\* are the least numbers, sizes follow, and the filter of a drawer is above all.
SinkPriority(c, s, i) ==
    CASE s = "drawer" -> IF i \in Filtered THEN 3 + MaxSize[i] ELSE 0
      [] s = "me" -> 1
      [] OTHER -> IF PartSlots(c, s, i) # {} THEN 2 + c[SlotToSink(c, s, i)].size
                  ELSE IF FreeSlots(c, s) # {} THEN 2 ELSE 0

Storages == Chests \o <<"drawer">> \o (IF HasME THEN <<"me">> ELSE <<>>)
BestStorage(c, i) ==
    Storages[CHOOSE k \in DOMAIN Storages : \A m \in DOMAIN Storages :
        /\ SinkPriority(c, Storages[m], i) <= SinkPriority(c, Storages[k], i)
        /\ m < k => SinkPriority(c, Storages[m], i) < SinkPriority(c, Storages[k], i)]

\* Mutant of Sunk: the account is not credited when the transfer is sent.
SunkLater(c, p, i, n) == c

Sunk(c, p, i, n) == [c EXCEPT ![p] = Stack(i, @.size + n)]

\* One round of the loop of insertItem, for the rest of a stack in slot b.
SinkOne(x, b) ==
    LET i == x.rest.item
        s == BestStorage(x.content, i)
        p == IF s \in ToSet(Chests) THEN SlotToSink(x.content, s, i) ELSE <<s, i>>
        room == MaxSize[i] - x.content[p].size
        n == IF p \in ChestPlaces /\ x.content[p] # Empty /\ room < x.rest.size THEN room
             ELSE x.rest.size
    IN IF x.rest = Empty \/ SinkPriority(x.content, s, i) = 0 THEN x
       ELSE [rest |-> Stack(i, x.rest.size - n),
             content |-> IF p \in ChestPlaces THEN Sunk(x.content, p, i, n) ELSE x.content,
             sent |-> x.sent \cup {Transfer("sink", b, p, i, n)}]

SinkAll(b) ==
    LET round[k \in 0 .. bus[b].size] ==
          IF k = 0 THEN [rest |-> bus[b], content |-> content, sent |-> {}]
          ELSE SinkOne(round[k - 1], b)
    IN round[bus[b].size]

\* The bus update found a stack in slot b.  Without room anywhere the update
\* fails and the stack stays.
Insert(b) ==
    LET done == SinkAll(b) IN
    /\ running /\ use[b] = "left" /\ done.sent # {}
    /\ content' = done.content
    /\ transfers' = transfers \cup done.sent
    /\ use' = [use EXCEPT ![b] = "inserting"]
    /\ UNCHANGED <<running, providers, reserved, bus, stored>>
-----------------------------------------------------------------------------
(***************************************************************************)
(* The computers execute transfers, the server handles their answers.      *)
(***************************************************************************)
Least(m, n) == IF m < n THEN m ELSE n
Put(stack, i, n) == [item |-> i, size |-> stack.size + n]
Taken(stack, n) == Stack(stack.item, stack.size - n)

\* transferItem moves what is there and what fits, of the item it finds.
Execute(x) ==
    LET from == IF x.kind = "sink" THEN bus[x.slot] ELSE stored[x.place]
        to == IF x.kind = "sink" THEN stored[x.place] ELSE bus[x.slot]
        room == IF x.kind = "sink" /\ x.place \notin ChestPlaces THEN x.size
                ELSE IF to.size = 0 \/ to.item = from.item THEN MaxSize[x.item] - to.size ELSE 0
        n == Least(x.size, Least(from.size, room))
    IN
    /\ ~x.executed
    /\ transfers' = (transfers \ {x}) \cup {[x EXCEPT !.executed = TRUE]}
    /\ IF n = 0 THEN UNCHANGED <<bus, stored>>
       ELSE IF x.kind = "sink"
       THEN /\ stored' = [stored EXCEPT ![x.place] = Put(@, from.item, n)]
            /\ bus' = [bus EXCEPT ![x.slot] = Taken(@, n)]
       ELSE /\ stored' = [stored EXCEPT ![x.place] =
                            IF x.place \in ChestPlaces THEN Taken(@, n)
                            ELSE [item |-> @.item, size |-> @.size - n]]
            /\ bus' = [bus EXCEPT ![x.slot] = Put(@, from.item, n)]
    /\ UNCHANGED <<running, content, providers, reserved, use>>

\* The continuation of ProviderChest::extract.
Debited(c, x) ==
    IF x.place \in ChestPlaces THEN [c EXCEPT ![x.place] = Taken(@, x.size)] ELSE c

\* A transfer is answered, or fails before or after a computer executed it.
Answer(x) ==
    LET others == {y \in transfers \ {x} : y.slot = x.slot} IN
    \E ok \in {FALSE, x.executed} :
        /\ transfers' = transfers \ {x}
        /\ content' = IF ok /\ x.kind = "extract" THEN Debited(content, x) ELSE content
        /\ use' = [use EXCEPT ![x.slot] =
             IF x.kind = "sink"
             THEN IF others # {} THEN @ ELSE IF bus[x.slot] = Empty THEN "free" ELSE "left"
             ELSE IF (~ok \/ @ = "failed") /\ others = {} THEN "left" ELSE IF ok THEN @ ELSE "failed"]
        /\ UNCHANGED <<running, providers, reserved, bus, stored>>

ItemsNow == SumFunction([p \in Places |-> stored[p].size]) + SumFunction([b \in BusSlots |-> bus[b].size])

\* The inputs are complete and go to the machine, which may put a product into
\* a slot; an extraction from a machine only does the latter.
Process(b) ==
    /\ use[b] = "loading" /\ (\A x \in transfers : x.slot # b)
    /\ \/ bus' = [bus EXCEPT ![b] = Empty] /\ use' = [use EXCEPT ![b] = "free"]
       \/ \E stack \in {product \in Products : ItemsNow - bus[b].size + product.size <= MaxItems} :
            bus' = [bus EXCEPT ![b] = stack] /\ use' = [use EXCEPT ![b] = "left"]
    /\ UNCHANGED <<running, content, providers, transfers, reserved, stored>>

\* endOfCycle(): no job and no bus update is under way.
EndOfCycle ==
    /\ running /\ \A b \in BusSlots : use[b] \in {"free", "left"}
    /\ running' = FALSE
    /\ content' = [p \in ChestPlaces |-> Empty]
    /\ providers' = [p \in Places |-> [item |-> NoItem, size |-> 0, avail |-> 0]]
    /\ UNCHANGED <<transfers, reserved, use, bus, stored>>

Next ==
    \/ UpdateStorages \/ EndOfCycle
    \/ \E b \in BusSlots :
         \/ \E i \in Items : \E n \in 1 .. MaxSize[i] : Reserve(b, i, n)
         \/ Extract(b) \/ Insert(b) \/ Process(b)
    \/ \E x \in transfers : Execute(x) \/ Answer(x)

Spec == Init /\ [][Next]_vars
-----------------------------------------------------------------------------
(***************************************************************************)
(* What the accounts promise.                                              *)
(***************************************************************************)
Sizes == [x \in Transfers |-> x.size]
Sent(kind, p, executed) == {x \in transfers : x.kind = kind /\ x.place = p /\ x.executed = executed}
Total(kind, p, executed) == SumFunctionOnSet(Sizes, Sent(kind, p, executed))

\* The content of a chest covers what the slot really holds, what is on its way
\* into it and what left it without an answer yet, of the same item: whatever
\* the order of the transfers, a sink is never sent to a slot without room.
AccountCovers ==
    running => \A p \in ChestPlaces :
        LET n == stored[p].size + Total("sink", p, FALSE) + Total("extract", p, TRUE) IN
        n > 0 => /\ n <= content[p].size
                 /\ stored[p] # Empty => stored[p].item = content[p].item

\* The continuation of an extraction finds the stack it takes from: content is
\* a vector of pointers that may be null.
ExtractionFindsStack ==
    \A x \in transfers : x.kind = "extract" /\ x.place \in ChestPlaces =>
        /\ content[x.place].item = x.item
        /\ Total("extract", x.place, FALSE) + Total("extract", x.place, TRUE) <= content[x.place].size

\* What was reserved is still there when it is extracted: machines get complete
\* sets, although many jobs and bus updates use the same chests.
Promised(p) == SumFunction([b \in BusSlots |-> reserved[b][p]])
ReservedIsThere ==
    running => \A p \in Places :
        providers[p].avail + Promised(p) + Total("extract", p, FALSE) <= stored[p].size

\* A computer that loads a slot for a job moves all that was reserved at once: a
\* job that succeeds got exactly what it planned with.
LoadsAll ==
    \A x \in transfers :
        x.kind = "extract" /\ ~x.executed /\ [x EXCEPT !.executed = TRUE] \in transfers' =>
            bus'[x.slot] = [item |-> x.item, size |-> bus[x.slot].size + x.size]
LoadedCompletely == [][LoadsAll]_vars

\* Of an item that no recipe may use up, the backup stays in the storages.
BackupKept ==
    \A i \in Items \ BackupUsers : running =>
        LET listed == SumFunctionOnSet([p \in Places |-> providers[p].size], ProvidersOf(i))
        IN Avail(i) >= Least(listed, Backup[i])

\* All of it: what the accounts, the reservations and the backups promise.
AccountsHold ==
    TypeOK /\ AccountCovers /\ ExtractionFindsStack /\ ReservedIsThere /\ BackupKept
=============================================================================
