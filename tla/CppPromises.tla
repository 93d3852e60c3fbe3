---------------------------- MODULE CppPromises -----------------------------
(***************************************************************************)
(* Promise and its combinators (Actions.h): map, mapTo, then, finally, all *)
(* and the promises that complete in a later handler.  A promise tells its *)
(* only listener, inside the handler that completed it, so one answer runs *)
(* continuations up the whole expression.  What a handler still has to do  *)
(* is the sequence `work': one step is one call.                           *)
(*                                                                         *)
(* The expression is a constant.  Kind and From say how a promise is made; *)
(* the continuation of a `then' makes the promise Inner and those below it *)
(* when it runs.                                                           *)
(***************************************************************************)
EXTENDS Integers, Sequences, SequencesExt

CONSTANTS
    Promises, Root, NoPromise,
    Kind,       \* action, scheduled, map, mapTo, then, finally, all
    From,       \* the promises that a promise listens to, in their order
    Inner       \* for a `then' the promise of its continuation

\* The promises that p listens to when it is made or later.
Operands(p) == ToSet(From[p]) \cup ({Inner[p]} \ {NoPromise})

\* A promise is listened to once (`listen' throws "already listened"), so those
\* of an expression form a tree, and the factory listens to its root.
ASSUME PromisesAssumption ==
    /\ Root \in Promises /\ NoPromise \notin Promises
    /\ Kind \in [Promises -> {"action", "scheduled", "map", "mapTo", "then", "finally", "all"}]
    /\ From \in [Promises -> Seq(Promises)]
    /\ Inner \in [Promises -> Promises \cup {NoPromise}]
    /\ \A p \in Promises :
        /\ Kind[p] \in {"action", "scheduled"} => From[p] = <<>>
        /\ Kind[p] \in {"map", "mapTo", "then", "finally"} => Len(From[p]) = 1
        /\ Kind[p] = "all" => From[p] # <<>>
        /\ Kind[p] = "then" <=> Inner[p] # NoPromise
ASSUME TreeAssumption ==
    \A p \in Promises :
        /\ Root \notin Operands(p) /\ Inner[p] \notin ToSet(From[p])
        /\ \A i, k \in DOMAIN From[p] : From[p][i] = From[p][k] => i = k
        /\ \A q \in Promises \ {p} : Operands(p) \cap Operands(q) = {}

VARIABLES
    next,       \* Promise.next: who listens
    told,       \* what each promise was told, in order
    nRemaining, \* Context.nRemaining of each `all'
    result,     \* Context.result: "ok" for the vector, "fail" for the string
    ran,        \* how often the callback of each `finally' ran
    owed,       \* the actions the server owes, and the handlers it was posted
    work,       \* what the handler that runs has still to do
    alive       \* whether the factory still exists

vars == <<next, told, nRemaining, result, ran, owed, work, alive>>

Of(kind) == {p \in Promises : Kind[p] = kind}
Outcomes == {"ok", "fail"}
Calls ==
    [do : {"make"}, p : Promises] \cup [do : {"listen"}, p : Promises, to : Promises]
        \cup [do : {"tell"}, p : Promises, outcome : Outcomes]

TypeOK ==
    /\ next \in [Promises -> Promises \cup {NoPromise}]
    /\ told \in [Promises -> Seq(Outcomes)]
    /\ nRemaining \in [Promises -> Int] /\ \A p \in Promises : nRemaining[p] \in 0 .. Len(From[p])
    /\ result \in [Promises -> Outcomes] /\ ran \in [Promises -> Nat]
    /\ owed \subseteq Of("action") \cup Of("scheduled")
    /\ work \in Seq(Calls)
    /\ alive \in BOOLEAN

Make(p) == [do |-> "make", p |-> p]
Listen(p, to) == [do |-> "listen", p |-> p, to |-> to]
Tell(p, outcome) == [do |-> "tell", p |-> p, outcome |-> outcome]

\* The handler that starts a cycle makes the expression.
Init ==
    /\ next = [p \in Promises |-> NoPromise]
    /\ told = [p \in Promises |-> <<>>]
    /\ nRemaining = [p \in Promises |-> Len(From[p])]
    /\ result = [p \in Promises |-> "ok"]
    /\ ran = [p \in Promises |-> 0]
    /\ owed = {} /\ work = <<Make(Root)>> /\ alive = TRUE
-----------------------------------------------------------------------------
(***************************************************************************)
(* The calls of a handler.                                                 *)
(***************************************************************************)
Do(calls) == work' = calls \o Tail(work)

\* The promises that p listens to are made first, their actions enqueued, their
\* handlers posted; then p listens.
MakePromise(p) ==
    /\ Do([n \in DOMAIN From[p] |-> Make(From[p][n])] \o [n \in DOMAIN From[p] |-> Listen(From[p][n], p)])
    /\ owed' = owed \cup ({p} \cap (Of("action") \cup Of("scheduled")))
    /\ UNCHANGED <<next, told, nRemaining, result, ran, alive>>

\* Promise::listen
ListenTo(p, to) ==
    /\ next' = [next EXCEPT ![p] = to]
    /\ Do(<<>>)
    /\ UNCHANGED <<told, nRemaining, result, ran, owed, alive>>

\* Mutant of Counted: failures are not counted.
CountedResult(m, outcome) == IF outcome = "fail" THEN nRemaining[m] ELSE nRemaining[m] - 1

Counted(m, outcome) == nRemaining[m] - 1

\* The reasons of failures are collected; results are dropped from then on.
Combined(m, outcome) == IF outcome = "fail" THEN "fail" ELSE result[m]

\* An input of an `all' has completed.
ToAll(m, outcome) ==
    /\ nRemaining' = [nRemaining EXCEPT ![m] = Counted(m, outcome)]
    /\ result' = [result EXCEPT ![m] = Combined(m, outcome)]
    /\ Do(IF nRemaining'[m] = 0 THEN <<Tell(m, result'[m])>> ELSE <<>>)
    /\ UNCHANGED <<next, ran, owed, alive>>

\* Without a factory the continuation does not run: "node died".
ToMap(m, outcome) ==
    /\ Do(<<Tell(m, IF alive THEN outcome ELSE "fail")>>)
    /\ UNCHANGED <<next, nRemaining, result, ran, owed, alive>>

ToMapTo(m, outcome) ==
    /\ Do(<<Tell(m, outcome)>>)
    /\ UNCHANGED <<next, nRemaining, result, ran, owed, alive>>

ToThen(p, m, outcome) ==
    /\ Do(IF p = Inner[m] THEN <<Tell(m, outcome)>>
          ELSE IF outcome = "fail" \/ ~alive THEN <<Tell(m, "fail")>>
          ELSE <<Make(Inner[m]), Listen(Inner[m], m)>>)
    /\ UNCHANGED <<next, nRemaining, result, ran, owed, alive>>

\* Mutant of RunsCallback: only results do.
RunsCallbackResult(outcome) == alive /\ outcome = "ok"

RunsCallback(outcome) == alive

ToFinally(m, outcome) ==
    /\ ran' = [ran EXCEPT ![m] = IF RunsCallback(outcome) THEN @ + 1 ELSE @]
    /\ Do(<<Tell(m, outcome)>>)
    /\ UNCHANGED <<next, nRemaining, result, owed, alive>>

\* The listener of the root is the factory.  Any other promise that nobody
\* listens to throws, and its outcome is lost.
ToFactory ==
    /\ Do(<<>>)
    /\ UNCHANGED <<next, nRemaining, result, ran, owed, alive>>

TellListener(p, outcome) ==
    LET m == next[p] IN
    /\ told' = [told EXCEPT ![p] = Append(@, outcome)]
    /\ \/ m = NoPromise /\ ToFactory
       \/ m # NoPromise /\ Kind[m] = "all" /\ ToAll(m, outcome)
       \/ m # NoPromise /\ Kind[m] = "map" /\ ToMap(m, outcome)
       \/ m # NoPromise /\ Kind[m] = "mapTo" /\ ToMapTo(m, outcome)
       \/ m # NoPromise /\ Kind[m] = "then" /\ ToThen(p, m, outcome)
       \/ m # NoPromise /\ Kind[m] = "finally" /\ ToFinally(m, outcome)

Call ==
    /\ work # <<>>
    /\ LET c == Head(work) IN
       \/ c.do = "make" /\ MakePromise(c.p)
       \/ c.do = "listen" /\ ListenTo(c.p, c.to)
       \/ c.do = "tell" /\ TellListener(c.p, c.outcome)
-----------------------------------------------------------------------------
\* The io_context runs a handler when the one before has returned.
NextHandler == work = <<>>

\* A packet answers an action; a bad one, like a lost connection, fails it.
Complete(p, outcome) ==
    /\ NextHandler /\ p \in owed
    /\ owed' = owed \ {p}
    /\ work' = <<Tell(p, outcome)>> \o work
    /\ UNCHANGED <<next, told, nRemaining, result, ran, alive>>

\* The factory is destroyed before the server.
Die ==
    /\ NextHandler /\ alive
    /\ alive' = FALSE
    /\ UNCHANGED <<next, told, nRemaining, result, ran, owed, work>>

Next == Call \/ Die \/ \E p \in owed, outcome \in Outcomes : Complete(p, outcome)

Spec == Init /\ [][Next]_vars
FairSpec ==
    /\ Spec /\ WF_vars(Call)
    /\ \A p \in Of("action") \cup Of("scheduled") : WF_vars(\E outcome \in Outcomes : Complete(p, outcome))
-----------------------------------------------------------------------------
\* No promise completes before someone listens to it, which would throw
\* "broken chain", nor is listened to twice.
NoBrokenChain ==
    /\ \A p \in Promises : told[p] # <<>> => p = Root \/ next[p] # NoPromise
    /\ \A n \in DOMAIN work : work[n].do = "listen" => next[work[n].p] = NoPromise

\* A promise completes once.
CompletesOnce == \A p \in Promises : Len(told[p]) <= 1

\* `all' completes when all its promises have, and with a result only if all had.
AllWaits ==
    \A p \in Of("all") : told[p] # <<>> =>
        /\ \A q \in ToSet(From[p]) : told[q] # <<>>
        /\ (Head(told[p]) = "ok") = (\A q \in ToSet(From[p]) : Head(told[q]) = "ok")

\* The callback of `finally', which frees slots of the bus, runs once, whether
\* the promise before it failed or not; unless the factory is gone.
FinallyRuns == \A p \in Of("finally") : ran[p] <= 1 /\ (told[p] # <<>> /\ alive => ran[p] = 1)

\* What processes rely on when they build expressions of promises.
PromisesInOrder == TypeOK /\ NoBrokenChain /\ CompletesOnce /\ AllWaits /\ FinallyRuns

\* The expression completes, as the cycle it stands for has to.
RootCompletes == <>(told[Root] # <<>>)
=============================================================================
