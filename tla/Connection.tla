----------------------------- MODULE Connection -----------------------------
(***************************************************************************)
(* The TCP server (server.rs), its connections to the computers in the     *)
(* game, and the loop of those computers (client.lua).                     *)
(*                                                                         *)
(* Answers carry no identity: a request is matched to its answer by order. *)
(* A connection that is closed, whoever closed it, fails what it still     *)
(* owes.  TCP keeps the order; what a side has sent when the connection    *)
(* breaks may be lost.  An action is what runs between two awaits.         *)
(***************************************************************************)
EXTENDS Naturals, Sequences, FiniteSets

CONSTANTS
    Conns,          \* connections; one that is closed may be opened again
    NoConn,
    Names,          \* the names of computers
    NoName,
    Running,        \* the names of those that run, and connect again and again
    Groups,         \* the groups of requests, each enqueued at most once
    Size,           \* Size[g]: how many requests group g has
    Accesses        \* Accesses[g]: the names of the computers that can do g

ASSUME ConnsAssumption == NoConn \notin Conns /\ NoName \notin Names /\ Running \subseteq Names
ASSUME GroupsAssumption ==
    /\ Size \in [Groups -> Nat \ {0}]
    /\ Accesses \in [Groups -> Seq(Names) \ {<<>>}]

VARIABLES
    open,           \* the connections that have a Client object
    clients,        \* Server.clients, the head of the list of Clients
    next, prev,     \* Client.next, Client.prev
    logins,         \* Server.logins
    login,          \* Client.login
    request_queue,  \* Client.request_queue, its groups one after the other
    response_queue, \* Client.response_queue
    writer,         \* Client.writer
    packet,         \* the requests writer_main is writing
    timeout,        \* Client.timeout, whether the task exists
    status,         \* what the ActionFuture of each request knows
    name,           \* the computer at the other end
    connected,      \* the connections the computers have not closed
    inbox,          \* the requests a computer has received
    executed,       \* the requests it has executed, in order
    answers         \* their answers on the way to the server

listVars == <<clients, next, prev>>
loginVars == <<logins, login>>
queueVars == <<request_queue, response_queue, writer, packet, timeout>>
gameVars == <<name, connected, inbox, executed>>
vars == <<open, listVars, loginVars, queueVars, status, gameVars, answers>>

RequestsOf(g) == {g} \X (1 .. Size[g])
Requests == UNION {RequestsOf(g) : g \in Groups}
Elements(s) == {s[i] : i \in DOMAIN s}

TypeOK ==
    /\ open \subseteq Conns /\ connected \subseteq Conns
    /\ clients \in Conns \cup {NoConn}
    /\ next \in [Conns -> Conns \cup {NoConn}] /\ prev \in [Conns -> Conns \cup {NoConn}]
    /\ logins \in [Names -> Conns \cup {NoConn}]
    /\ login \in [Conns -> Names \cup {NoName}] /\ name \in [Conns -> Names \cup {NoName}]
    /\ request_queue \in [Conns -> Seq(Requests)]
    /\ response_queue \in [Conns -> Seq(Requests)]
    /\ writer \in [Conns -> {"NotWriting", "Writing"}]
    /\ packet \in [Conns -> Seq(Requests)]
    /\ timeout \in [Conns -> BOOLEAN]
    /\ status \in [Requests -> {"idle", "pending", "ok", "failed"}]
    /\ inbox \in [Conns -> Seq(Requests)] /\ executed \in [Conns -> Seq(Requests)]
    /\ answers \in [Conns -> Seq(Requests)]

Init ==
    /\ open = {} /\ connected = {} /\ clients = NoConn
    /\ next = [c \in Conns |-> NoConn] /\ prev = [c \in Conns |-> NoConn]
    /\ logins = [n \in Names |-> NoConn]
    /\ login = [c \in Conns |-> NoName] /\ name = [c \in Conns |-> NoName]
    /\ request_queue = [c \in Conns |-> <<>>]
    /\ response_queue = [c \in Conns |-> <<>>]
    /\ writer = [c \in Conns |-> "NotWriting"]
    /\ packet = [c \in Conns |-> <<>>]
    /\ timeout = [c \in Conns |-> FALSE]
    /\ status = [r \in Requests |-> "idle"]
    /\ inbox = [c \in Conns |-> <<>>] /\ executed = [c \in Conns |-> <<>>]
    /\ answers = [c \in Conns |-> <<>>]

-----------------------------------------------------------------------------
(***************************************************************************)
(* Connecting and disconnecting.                                           *)
(***************************************************************************)

Set(S, value) == status' = [r \in Requests |-> IF r \in S THEN value ELSE status[r]]

\* acceptor_main puts a new Client in front of the list.
Accept(c, n) ==
    /\ c \notin open /\ c \notin connected
    /\ open' = open \cup {c} /\ connected' = connected \cup {c}
    /\ clients' = c
    /\ next' = [next EXCEPT ![c] = clients]
    /\ prev' = [x \in Conns |-> IF x = clients THEN c ELSE prev[x]]
    /\ name' = [name EXCEPT ![c] = n]
    /\ executed' = [executed EXCEPT ![c] = <<>>]
    /\ UNCHANGED <<loginVars, queueVars, status, inbox, answers>>

\* Mutant of Unlink: the next Client keeps its link to the one that leaves.
UnlinkNextOnly(c) ==
    /\ next' = [x \in Conns |-> IF x = c THEN NoConn ELSE IF x = prev[c] THEN next[c] ELSE next[x]]
    /\ prev' = [prev EXCEPT ![c] = NoConn]
    /\ clients' = IF prev[c] = NoConn THEN next[c] ELSE clients

Unlink(c) ==
    /\ next' = [x \in Conns |-> IF x = c THEN NoConn ELSE IF x = prev[c] THEN next[c] ELSE next[x]]
    /\ prev' = [x \in Conns |-> IF x = c THEN NoConn ELSE IF x = next[c] THEN prev[c] ELSE prev[x]]
    /\ clients' = IF prev[c] = NoConn THEN next[c] ELSE clients

Owed(c) == Elements(request_queue[c]) \cup Elements(response_queue[c])

\* Mutant of FailAll: only the request whose answer is late or wrong fails.
FailFirst(c) == Set({response_queue[c][i] : i \in DOMAIN response_queue[c] \cap {1}}, "failed")

FailAll(c) == Set(Owed(c), "failed")

\* A Client leaves the list and is dropped: its requests fail, its tasks end.
Dropped(c) ==
    /\ Unlink(c)
    /\ open' = open \ {c}
    /\ FailAll(c)
    /\ request_queue' = [request_queue EXCEPT ![c] = <<>>]
    /\ response_queue' = [response_queue EXCEPT ![c] = <<>>]
    /\ writer' = [writer EXCEPT ![c] = "NotWriting"]
    /\ packet' = [packet EXCEPT ![c] = <<>>]
    /\ timeout' = [timeout EXCEPT ![c] = FALSE]
    /\ answers' = [answers EXCEPT ![c] = <<>>]

Disconnect(c) ==
    /\ logins' = [n \in Names |-> IF n = login[c] THEN NoConn ELSE logins[n]]
    /\ login' = [login EXCEPT ![c] = NoName]
    /\ Dropped(c)
    /\ UNCHANGED gameVars

InsertLogin(c) == logins' = [logins EXCEPT ![name[c]] = c]

\* The first packet is the name; an older login of this name is evicted.
Login(c) ==
    /\ c \in open /\ login[c] = NoName
    /\ InsertLogin(c)
    /\ login' = [x \in Conns |-> IF x = c THEN name[c]
                                 ELSE IF x = logins[name[c]] THEN NoName ELSE login[x]]
    /\ IF logins[name[c]] = NoConn
       THEN UNCHANGED <<open, listVars, queueVars, status, answers>>
       ELSE Dropped(logins[name[c]])
    /\ UNCHANGED gameVars

\* The reader or the writer finds that the computer closed the connection.
ConnectionLost(c) ==
    /\ c \in open /\ c \notin connected
    /\ Disconnect(c)

\* No answer came for as long as timeout_main waits.
TimedOut(c) ==
    /\ timeout[c]
    /\ Disconnect(c)

-----------------------------------------------------------------------------
(***************************************************************************)
(* Requests and answers.                                                   *)
(***************************************************************************)
EstimateLoad(n) == Len(request_queue[logins[n]]) + Len(response_queue[logins[n]])

LessLoaded(a, b) ==
    /\ logins[a] # NoConn
    /\ logins[b] = NoConn \/ EstimateLoad(a) < EstimateLoad(b)

\* The first of the accesses with the least load.
LoadBalance(s) ==
    s[CHOOSE i \in DOMAIN s :
        \A k \in DOMAIN s : ~LessLoaded(s[k], s[i]) /\ (k < i => LessLoaded(s[i], s[k]))]

\* Mutant of UpdateTimeout: requests that are not written yet do not count.
UpdateTimeoutWritten(c) ==
    timeout' = [timeout EXCEPT ![c] = response_queue'[c] # <<>>]

UpdateTimeout(c) ==
    timeout' = [timeout EXCEPT ![c] = request_queue'[c] # <<>> \/ response_queue'[c] # <<>>]

\* A writer that is at work will come to the new group by itself.
StartWriter(c) ==
    /\ writer' = [writer EXCEPT ![c] = "Writing"]
    /\ IF writer[c] = "NotWriting" THEN UpdateTimeout(c) ELSE UNCHANGED timeout

Enqueue(g) ==
    LET c == logins[LoadBalance(Accesses[g])] IN
    /\ \A r \in RequestsOf(g) : status[r] = "idle"
    /\ \/ /\ c = NoConn
          /\ Set(RequestsOf(g), "failed")
          /\ UNCHANGED queueVars
       \/ /\ c # NoConn
          /\ Set(RequestsOf(g), "pending")
          /\ request_queue' =
               [request_queue EXCEPT ![c] = @ \o [i \in 1 .. Size[g] |-> <<g, i>>]]
          /\ UNCHANGED <<response_queue, packet>>
          /\ StartWriter(c)
    /\ UNCHANGED <<open, listVars, loginVars, gameVars, answers>>

\* Mutant of NextGroup: the requests of a group are written in reverse.
NextGroupReversed(q) == LET n == Size[Head(q)[1]] IN [i \in 1 .. n |-> q[n + 1 - i]]

NextGroup(q) == SubSeq(q, 1, Size[Head(q)[1]])

\* Mutant of ToAnswer: the requests just written are answered first.
ToAnswerFirst(c, group) == group \o response_queue[c]

ToAnswer(c, group) == response_queue[c] \o group

\* writer_main is polled: what it wrote is written, it takes the next group.
Write(c) ==
    /\ c \in open /\ writer[c] = "Writing"
    /\ inbox' = IF c \in connected THEN [inbox EXCEPT ![c] = @ \o packet[c]] ELSE inbox
    /\ \/ /\ request_queue[c] = <<>>
          /\ writer' = [writer EXCEPT ![c] = "NotWriting"]
          /\ packet' = [packet EXCEPT ![c] = <<>>]
          /\ UNCHANGED <<request_queue, response_queue>>
       \/ /\ request_queue[c] # <<>>
          /\ LET group == NextGroup(request_queue[c]) IN
               /\ request_queue' =
                    [request_queue EXCEPT ![c] = SubSeq(@, Len(group) + 1, Len(@))]
               /\ response_queue' = [response_queue EXCEPT ![c] = ToAnswer(c, group)]
               /\ packet' = [packet EXCEPT ![c] = group]
          /\ UNCHANGED writer
    /\ UNCHANGED <<open, listVars, loginVars, timeout, status, name, connected, executed,
                   answers>>

\* A packet arrives: it answers the first request that waits for an answer.
Answered(c) ==
    /\ c \in open /\ login[c] # NoName
    /\ answers[c] # <<>> /\ response_queue[c] # <<>>
    /\ answers' = [answers EXCEPT ![c] = Tail(@)]
    /\ response_queue' = [response_queue EXCEPT ![c] = Tail(@)]
    /\ Set({Head(response_queue[c])}, "ok")
    /\ UNCHANGED <<request_queue, writer, packet>>
    /\ UpdateTimeout(c)
    /\ UNCHANGED <<open, listVars, loginVars, gameVars>>

\* The answer cannot be parsed: its request fails with all the others.
AnsweredBadly(c) ==
    /\ c \in open /\ login[c] # NoName
    /\ answers[c] # <<>> /\ response_queue[c] # <<>>
    /\ Disconnect(c)

-----------------------------------------------------------------------------
(***************************************************************************)
(* The computers.                                                          *)
(***************************************************************************)

\* A computer executes the next request it has received, even when the
\* server has given up the connection by now.
Execute(c) ==
    /\ c \in connected /\ inbox[c] # <<>>
    /\ inbox' = [inbox EXCEPT ![c] = Tail(@)]
    /\ executed' = [executed EXCEPT ![c] = Append(@, Head(inbox[c]))]
    /\ answers' = IF c \in open THEN [answers EXCEPT ![c] = Append(@, Head(inbox[c]))] ELSE answers
    /\ UNCHANGED <<open, listVars, loginVars, queueVars, status, name, connected>>

\* A computer ends a connection: an error in an operation, a power cut, or
\* the server closed it.  Answers that were not sent yet are lost.
Closed(c) ==
    /\ c \in connected
    /\ connected' = connected \ {c}
    /\ inbox' = [inbox EXCEPT ![c] = <<>>]
    /\ \E n \in 0 .. Len(answers[c]) : answers' = [answers EXCEPT ![c] = SubSeq(@, 1, n)]
    /\ UNCHANGED <<open, listVars, loginVars, queueVars, status, name, executed>>

Step(c) ==
    \/ \E n \in Running : Accept(c, n)
    \/ Login(c) \/ ConnectionLost(c) \/ TimedOut(c)
    \/ Write(c) \/ Answered(c) \/ AnsweredBadly(c)
    \/ Execute(c) \/ Closed(c)

Next == (\E c \in Conns : Step(c)) \/ (\E g \in Groups : Enqueue(g))

(***************************************************************************)
(* The sleep of timeout_main ends.  Nothing is assumed of the computers.   *)
(***************************************************************************)
Fairness == \A c \in Conns : WF_vars(TimedOut(c))

Spec == Init /\ [][Next]_vars
FairSpec == Spec /\ Fairness
-----------------------------------------------------------------------------
(***************************************************************************)
(* What the server promises.                                               *)
(***************************************************************************)

\* The answers on their way are those of the first requests that wait for
\* one, in this order, so that matching by order is right.
AnswersInOrder ==
    \A c \in open :
        /\ Len(answers[c]) <= Len(response_queue[c])
        /\ \A i \in DOMAIN answers[c] : answers[c][i] = response_queue[c][i]

\* The timeout runs exactly while something is pending, although
\* enqueue_request_group leaves it alone while the writer is busy.
TimeoutWhilePending == \A c \in Conns : timeout[c] <=> c \in open /\ Owed(c) # {}

\* A request is pending exactly while one open connection owes it: however
\* connections end, no request is forgotten and none completes twice.
PendingIsOwed ==
    /\ \A r \in Requests : status[r] = "pending" <=> \E c \in open : r \in Owed(c)
    /\ \A c, d \in open : c # d => Owed(c) \cap Owed(d) = {}

\* Whoever has these Clients has all that Server.clients and their links lead to.
FollowsLinks(S) == {clients} \cup {next[c] : c \in S} \subseteq S \cup {NoConn}

\* The Clients that can be reached from Server.clients, which are the least set
\* that follows the links, are those in use: as the links own the Clients, one
\* that cannot be reached would be dropped while it is in use.
ClientsReachable ==
    /\ FollowsLinks(open)
    /\ \A S \in SUBSET open : FollowsLinks(S) => S = open

\* logins names exactly the Clients that are logged in, also after a login
\* was evicted by another one of the same name: none of them is dropped, so
\* the Weak references in logins can be upgraded.
LoginsAreOpen ==
    /\ \A n \in Names : logins[n] # NoConn => logins[n] \in open /\ login[logins[n]] = n
    /\ \A c \in open : login[c] # NoName => logins[login[c]] = c

\* A computer executes a group without anything in between, from its first
\* request on: a crafting grid is never shared by two recipes.
GroupsTogether ==
    \A c \in Conns : \A k \in DOMAIN executed[c] :
        LET g == executed[c][k][1]
            i == executed[c][k][2]
        IN i > 1 => k > 1 /\ executed[c][k - 1] = <<g, i - 1>>

\* A group is only refused when none of its computers is connected.
RefusedOnlyOffline ==
    [][\A g \in Groups :
          (/\ \A r \in RequestsOf(g) : status[r] = "idle"
           /\ \A r \in RequestsOf(g) : status'[r] = "failed")
          => \A n \in Elements(Accesses[g]) : logins[n] = NoConn]_vars

\* Every request that was accepted completes, whatever the computers do.
RequestsComplete == \A r \in Requests : status[r] = "pending" ~> status[r] # "pending"

\* Groups complete as RequestService says: each request once, in the order
\* of its group, and what is left of a group fails together.
Service == INSTANCE RequestService WITH Groups <- Groups, Size <- Size, status <- status
ServiceSpec == Service!Spec
=============================================================================
