--------------------------- MODULE RequestService ---------------------------
(***************************************************************************)
(* What the processes rely on when they hand a group of requests to the    *)
(* server (Server::enqueue_request_group in Rust, enqueueActionGroup in    *)
(* C++) and wait for the future or the promise of each one: every request  *)
(* completes once, the answers of a group come in its order, and what is   *)
(* not answered when a group fails, fails at once.  Connection and         *)
(* CppServer implement it.                                                 *)
(***************************************************************************)
EXTENDS Naturals

CONSTANTS
    Groups,         \* the groups of requests, each enqueued at most once
    Size            \* Size[g]: how many requests group g has

VARIABLE status     \* status[r]: what the one who waits for request r knows

RequestsOf(g) == {g} \X (1 .. Size[g])
Requests == UNION {RequestsOf(g) : g \in Groups}

Init == status = [r \in Requests |-> "idle"]

Set(S, value) == status' = [r \in Requests |-> IF r \in S THEN value ELSE status[r]]
Pending(g) == {r \in RequestsOf(g) : status[r] = "pending"}
Idle(g) == \A r \in RequestsOf(g) : status[r] = "idle"

\* A group is accepted or refused as a whole.
Enqueue(g) == Idle(g) /\ (Set(RequestsOf(g), "pending") \/ Set(RequestsOf(g), "failed"))

\* The next request of a group is answered, and the one who waited for it may
\* hand over another group at once.
Answer(g, i, new) ==
    /\ status[<<g, i>>] = "pending"
    /\ \A k \in 1 .. i - 1 : status[<<g, k>>] = "ok"
    /\ \A h \in new : Idle(h)
    /\ status' = [r \in Requests |-> IF r = <<g, i>> THEN "ok"
                                     ELSE IF r[1] \in new THEN "pending" ELSE status[r]]

\* The connection that some groups were sent to is gone.
Fail(lost) ==
    /\ \A g \in lost : Pending(g) # {}
    /\ Set(UNION {Pending(g) : g \in lost}, "failed")

Next ==
    \/ \E g \in Groups : Enqueue(g)
    \/ \E g \in Groups : \E i \in 1 .. Size[g] : \E new \in SUBSET (Groups \ {g}) : Answer(g, i, new)
    \/ \E lost \in SUBSET Groups : Fail(lost)

Spec == Init /\ [][Next]_status
=============================================================================
