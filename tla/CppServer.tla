------------------------------ MODULE CppServer ------------------------------
(***************************************************************************)
(* The TCP server of the C++ implementation (Server.h, Server.cpp): the    *)
(* Clients, their queues of groups and of answers, the write in progress,  *)
(* the response timer and the failures posted to the strand.               *)
(*                                                                         *)
(* It differs from the Rust server of module Connection where callbacks    *)
(* differ from tasks: the end of a write is a callback of its own that may *)
(* come after the answer, the continuation of an answer runs before the    *)
(* answer has left the queue and may enqueue a group meanwhile, and what a *)
(* Client owed fails later, in a handler posted by its destructor.  An     *)
(* action is one handler of the io_context.                                *)
(***************************************************************************)
EXTENDS Naturals, Sequences, FiniteSets, SequencesExt

CONSTANTS
    Conns,          \* connections; one that is closed may be opened again
    NoConn,
    Names,          \* the names computers log in with
    NoName,
    Groups,         \* the groups of actions, each enqueued at most once
    NoGroup,
    Size,           \* Size[g]: how many actions group g has
    Accesses        \* Accesses[g]: the clients that can do g, as in the configuration

ASSUME ServerAssumption ==
    /\ NoConn \notin Conns /\ NoName \notin Names /\ NoGroup \notin Groups
    /\ Size \in [Groups -> Nat \ {0}]
    /\ Accesses \in [Groups -> Seq(Names) \ {<<>>}]

VARIABLES
    clients,        \* Server.clients
    logins,         \* Server.logins
    client,         \* the members of each Client, and the packet it is writing
    posted,         \* the failures in the strand
    status,         \* what the promise of each action was told
    name,           \* the computer at the other end
    connected,      \* the connections the computers have not closed
    inbox,          \* the actions a computer has received
    answers         \* their answers on the way to the server

gameVars == <<name, connected, inbox>>
vars == <<clients, logins, client, posted, status, gameVars, answers>>

ActionsOf(g) == {g} \X (1 .. Size[g])
Actions == UNION {ActionsOf(g) : g \in Groups}

\* A new Client.  packet is what async_write has not brought to the computer
\* yet: while isSending with no packet left the callback is on its way.
NewClient ==
    [login |-> NoName, sendQueue |-> <<>>, sendQueueTotal |-> 0, responseQueue |-> <<>>,
     responseTimer |-> FALSE, isSending |-> FALSE, packet |-> <<>>]

\* Type correctness; the counters, which are of size_t in the code, never wrap.
TypeOK ==
    /\ clients \subseteq Conns /\ connected \subseteq Conns
    /\ logins \in [Names -> Conns \cup {NoConn}] /\ name \in [Conns -> Names \cup {NoName}]
    /\ \A c \in Conns :
        /\ DOMAIN client[c] = DOMAIN NewClient
        /\ client[c].login \in Names \cup {NoName}
        /\ client[c].sendQueue \in Seq(Groups) /\ client[c].sendQueueTotal \in Nat
        /\ {client[c].responseQueue, client[c].packet, inbox[c], answers[c]} \subseteq Seq(Actions)
        /\ {client[c].responseTimer, client[c].isSending} \subseteq BOOLEAN
    /\ posted \in Seq(SUBSET Actions)
    /\ status \in [Actions -> {"idle", "pending", "ok", "failed"}]

Init ==
    /\ clients = {} /\ logins = [n \in Names |-> NoConn]
    /\ client = [c \in Conns |-> NewClient]
    /\ posted = <<>> /\ status = [a \in Actions |-> "idle"]
    /\ name = [c \in Conns |-> NoName] /\ connected = {}
    /\ inbox = [c \in Conns |-> <<>>] /\ answers = [c \in Conns |-> <<>>]
-----------------------------------------------------------------------------
(***************************************************************************)
(* The queues of a Client k.                                               *)
(***************************************************************************)
QueuedBy(k) == UNION {ActionsOf(k.sendQueue[i]) : i \in DOMAIN k.sendQueue}
OwedBy(k) == QueuedBy(k) \cup ToSet(k.responseQueue)

\* A restarted timer and one that goes on are the same: time is abstracted.
UpdateTimer(k) == [k EXCEPT !.responseTimer = k.sendQueue # <<>> \/ k.responseQueue # <<>>]

\* Mutant of CanSend: a write in progress is no reason to wait.
CanSendAlways(k) == k.sendQueue # <<>>

CanSend(k) == ~k.isSending /\ k.sendQueue # <<>>

Deducted(k, group) == k.sendQueueTotal - Len(group)

\* Client::send, once per group: the next one waits for the end of the write.
Send(k) ==
    LET group == [i \in 1 .. Size[Head(k.sendQueue)] |-> <<Head(k.sendQueue), i>>] IN
    IF CanSend(k)
    THEN UpdateTimer([k EXCEPT !.isSending = TRUE, !.packet = group,
                               !.responseQueue = @ \o group,
                               !.sendQueueTotal = Deducted(k, group),
                               !.sendQueue = Tail(@)])
    ELSE k

\* Client::enqueueActionGroup
Enqueued(k, g) ==
    Send([k EXCEPT !.sendQueueTotal = @ + Size[g], !.sendQueue = Append(@, g)])

\* Mutant of Written: the callback leaves the rest to the next group.
WrittenNotSent(k) == [k EXCEPT !.isSending = FALSE]

\* The callback of async_write.
Written(k) == Send([k EXCEPT !.isSending = FALSE])

CountPending(n) == client[logins[n]].sendQueueTotal + Len(client[logins[n]].responseQueue)

\* Mutant of Fewer: a client that is not connected has nothing pending.
FewerOffline(m, n) ==
    logins[n] # NoConn /\ (logins[m] = NoConn \/ CountPending(m) < CountPending(n))

\* A client that is not connected counts as the maximum of size_t.
Fewer(m, n) ==
    logins[m] # NoConn /\ (logins[n] = NoConn \/ CountPending(m) < CountPending(n))

\* Server::getBestAccess keeps the first of the best.
BestAccess(accesses) ==
    accesses[CHOOSE i \in DOMAIN accesses :
        \A k \in DOMAIN accesses :
            ~Fewer(accesses[k], accesses[i]) /\ (k < i => Fewer(accesses[i], accesses[k]))]
-----------------------------------------------------------------------------
(***************************************************************************)
(* Connections.                                                            *)
(***************************************************************************)
Tell(S, value) == status' = [a \in Actions |-> IF a \in S THEN value ELSE status[a]]

Accept(c, n) ==
    /\ c \notin clients /\ c \notin connected
    /\ clients' = clients \cup {c} /\ connected' = connected \cup {c}
    /\ name' = [name EXCEPT ![c] = n]
    /\ UNCHANGED <<logins, client, posted, status, inbox, answers>>

\* Mutant of Destroyed: only what was sent fails.
DestroyedSent(k) == IF k.responseQueue = <<>> THEN <<>> ELSE <<ToSet(k.responseQueue)>>

\* Mutant of Destroyed: of what was sent only the action that is due fails.
DestroyedFront(k) ==
    (IF k.sendQueue = <<>> THEN <<>> ELSE <<QueuedBy(k)>>)
        \o (IF k.responseQueue = <<>> THEN <<>> ELSE <<{Head(k.responseQueue)}>>)

\* ~Client posts one handler for each queue that is not empty.
Destroyed(k) ==
    (IF k.sendQueue = <<>> THEN <<>> ELSE <<QueuedBy(k)>>)
        \o (IF k.responseQueue = <<>> THEN <<>> ELSE <<ToSet(k.responseQueue)>>)

\* A Client leaves the list and is destroyed, with its socket.
Erase(c) ==
    /\ clients' = clients \ {c}
    /\ posted' = posted \o Destroyed(client[c])
    /\ answers' = [answers EXCEPT ![c] = <<>>]

RemoveClient(c) ==
    /\ Erase(c)
    /\ logins' = [n \in Names |-> IF n = client[c].login THEN NoConn ELSE logins[n]]
    /\ client' = [client EXCEPT ![c] = NewClient]
    /\ UNCHANGED <<status, gameVars>>

\* Mutant of UpdateLogin: the name goes with the Client that is evicted.
UpdateLoginLost(c) == logins' = [logins EXCEPT ![name[c]] = IF @ = NoConn THEN c ELSE NoConn]

UpdateLogin(c) == logins' = [logins EXCEPT ![name[c]] = c]

\* The first packet is the name; an older login of this name is evicted.
Login(c) ==
    LET old == logins[name[c]] IN
    /\ c \in clients /\ client[c].login = NoName
    /\ UpdateLogin(c)
    /\ IF old = NoConn THEN UNCHANGED <<clients, posted, answers>> ELSE Erase(old)
    /\ client' = [x \in Conns |-> IF x = old THEN NewClient
                                  ELSE IF x = c THEN [client[c] EXCEPT !.login = name[c]]
                                  ELSE client[x]]
    /\ UNCHANGED <<status, gameVars>>

\* The read, which is always pending, or the write fails.
ConnectionLost(c) ==
    /\ c \in clients /\ c \notin connected
    /\ RemoveClient(c)

TimedOut(c) ==
    /\ client[c].responseTimer
    /\ RemoveClient(c)

\* A posted handler fails its actions.  What their continuations enqueue may
\* as well come as the next step.
FailPosted ==
    /\ posted # <<>>
    /\ Tell(Head(posted), "failed")
    /\ posted' = Tail(posted)
    /\ UNCHANGED <<clients, logins, client, gameVars, answers>>
-----------------------------------------------------------------------------
(***************************************************************************)
(* Actions and answers.                                                    *)
(***************************************************************************)
Idle(g) == \A a \in ActionsOf(g) : status[a] = "idle"
TargetOf(g) == logins[BestAccess(Accesses[g])]

\* Server::enqueueActionGroup
Enqueue(g) ==
    LET c == TargetOf(g) IN
    /\ Idle(g)
    /\ Tell(ActionsOf(g), "pending")
    /\ IF c = NoConn
       THEN posted' = Append(posted, ActionsOf(g)) /\ UNCHANGED client
       ELSE client' = [client EXCEPT ![c] = Enqueued(@, g)] /\ UNCHANGED posted
    /\ UNCHANGED <<clients, logins, gameVars, answers>>

WriteDone(c) ==
    /\ client[c].isSending /\ client[c].packet = <<>>
    /\ client' = [client EXCEPT ![c] = Written(@)]
    /\ UNCHANGED <<clients, logins, posted, status, gameVars, answers>>

Popped(k) == UpdateTimer([k EXCEPT !.responseQueue = Tail(@)])

\* What a group handed to Client d makes of the Clients.
Handed(d, g) == IF d = NoConn THEN client ELSE [client EXCEPT ![d] = Enqueued(@, g)]

\* A packet answers the first action that waits for an answer.  Its
\* continuation may enqueue a group before the action leaves the queue.
Answered(c, g) ==
    LET answered == {Head(client[c].responseQueue)}
        follow == IF g = NoGroup THEN {} ELSE ActionsOf(g)
        d == IF g = NoGroup THEN NoConn ELSE TargetOf(g)
    IN
    /\ c \in clients /\ client[c].login # NoName
    /\ answers[c] # <<>> /\ client[c].responseQueue # <<>>
    /\ g # NoGroup => Idle(g)
    /\ answers' = [answers EXCEPT ![c] = Tail(@)]
    /\ status' = [a \in Actions |-> IF a \in answered THEN "ok"
                                    ELSE IF a \in follow THEN "pending" ELSE status[a]]
    /\ client' = [Handed(d, g) EXCEPT ![c] = Popped(@)]
    /\ posted' = IF g # NoGroup /\ d = NoConn THEN Append(posted, follow) ELSE posted
    /\ UNCHANGED <<clients, logins, gameVars>>

\* The answer cannot be decoded: the exception removes the Client, and the
\* action, still first in the queue, fails with the others.
AnsweredBadly(c) ==
    /\ c \in clients /\ client[c].login # NoName
    /\ answers[c] # <<>> /\ client[c].responseQueue # <<>>
    /\ RemoveClient(c)
-----------------------------------------------------------------------------
(***************************************************************************)
(* The computers and the network.                                          *)
(***************************************************************************)
Receive(c) ==
    /\ c \in connected /\ client[c].packet # <<>>
    /\ inbox' = [inbox EXCEPT ![c] = @ \o client[c].packet]
    /\ client' = [client EXCEPT ![c].packet = <<>>]
    /\ UNCHANGED <<clients, logins, posted, status, name, connected, answers>>

Execute(c) ==
    /\ c \in connected /\ inbox[c] # <<>>
    /\ inbox' = [inbox EXCEPT ![c] = Tail(@)]
    /\ answers' = IF c \in clients THEN [answers EXCEPT ![c] = Append(@, Head(inbox[c]))]
                  ELSE answers
    /\ UNCHANGED <<clients, logins, client, posted, status, name, connected>>

\* The computer stops, or finds the connection closed; the answers the
\* network still has may be lost.
Closed(c) ==
    /\ c \in connected
    /\ connected' = connected \ {c}
    /\ inbox' = [inbox EXCEPT ![c] = <<>>]
    /\ \E n \in {0, Len(answers[c])} : answers' = [answers EXCEPT ![c] = SubSeq(@, 1, n)]
    /\ UNCHANGED <<clients, logins, client, posted, status, name>>

Step(c) ==
    \/ \E n \in Names : Accept(c, n)
    \/ Login(c) \/ ConnectionLost(c) \/ TimedOut(c) \/ WriteDone(c)
    \/ \E g \in Groups \cup {NoGroup} : Answered(c, g)
    \/ AnsweredBadly(c)
    \/ Receive(c) \/ Execute(c) \/ Closed(c)

Next == (\E c \in Conns : Step(c)) \/ (\E g \in Groups : Enqueue(g)) \/ FailPosted

(***************************************************************************)
(* The io_context runs every handler that is ready, and a timer that is    *)
(* left alone expires.  Nothing is assumed of the computers.               *)
(***************************************************************************)
Fairness == WF_vars(FailPosted) /\ \A c \in Conns : WF_vars(TimedOut(c)) /\ WF_vars(WriteDone(c))

Spec == Init /\ [][Next]_vars
FairSpec == Spec /\ Fairness
-----------------------------------------------------------------------------
(***************************************************************************)
(* What the server promises.                                               *)
(***************************************************************************)
Owed(c) == OwedBy(client[c])

\* Answers are matched by order only (onPacket): those on their way are those
\* of the first actions in responseQueue, so no packet is ever unexpected.
AnswersInOrder == \A c \in clients : IsPrefix(answers[c], client[c].responseQueue)

\* What is pending has something that will wake it: the timer, or the callback
\* of a write that the computer has already received.  send() leaves without
\* touching the timer while isSending, after an early answer has reset it.
PendingHasWakeup ==
    \A c \in Conns : Owed(c) # {} =>
        client[c].responseTimer \/ (client[c].isSending /\ client[c].packet = <<>>)

\* An action is pending exactly while one Client or one posted handler has it,
\* whichever of ~Client, the eviction and the refusal it went through.
PendingIsOwed ==
    LET holders(a) == {c \in clients : a \in Owed(c)}
        handlers(a) == {i \in DOMAIN posted : a \in posted[i]}
    IN \A a \in Actions :
        Cardinality(holders(a)) + Cardinality(handlers(a)) = IF status[a] = "pending" THEN 1 ELSE 0

\* sendQueueTotal, kept by hand beside the queue, is what it holds.
TotalIsQueued == \A c \in Conns : client[c].sendQueueTotal = Cardinality(QueuedBy(client[c]))

\* A name leads to the Client that logged in with it last, never to one that
\* was destroyed: logins holds plain pointers.
LoginsAreOpen ==
    /\ \A n \in Names : logins[n] # NoConn => logins[n] \in clients /\ client[logins[n]].login = n
    /\ \A c \in clients : client[c].login # NoName => logins[client[c].login] = c

\* A group goes to a connected client that owes least, and is refused only
\* when none of its clients is connected, also from within an answer.
BestClientTaken ==
    [][\A g \in Groups :
         Idle(g) /\ (\E a \in ActionsOf(g) : status'[a] = "pending") =>
             LET online == {logins[n] : n \in ToSet(Accesses[g])} \ {NoConn}
                 taker == {c \in Conns : ActionsOf(g) \subseteq OwedBy(client'[c])}
             IN IF online = {} THEN taker = {}
                ELSE \E c \in taker \cap online :
                       \A d \in online : Cardinality(Owed(c)) <= Cardinality(Owed(d))]_vars

\* Every action completes, whatever the computers do.
ActionsComplete == \A a \in Actions : status[a] = "pending" ~> status[a] # "pending"

\* The processes see what RequestService promises: each action completes
\* once, in the order of its group, and the rest of a group fails together.
Service == INSTANCE RequestService WITH Groups <- Groups, Size <- Size, status <- status
ServiceSpec == Service!Spec
=============================================================================
