-------------------------- MODULE CppParts_proofs --------------------------
(***************************************************************************)
(* What holds of the parts that the processes of the C++ server build on,  *)
(* for every configuration: the promises, and the planning of a cycle; and *)
(* of the slotted and the scattering process, which carry out what has     *)
(* been planned.                                                           *)
(***************************************************************************)
EXTENDS CppPromises, CppRecipes, CommonLemmas, SequenceTheorems, FiniteSetTheorems, TLAPS
-----------------------------------------------------------------------------
(***************************************************************************)
(* Promises: the inductive invariant of CppPromises and the theorem it     *)
(* proves, for every expression of promises.                               *)
(*                                                                         *)
(* A handler makes promises or settles them, never both at once: when it   *)
(* tells a promise its outcome nothing else is left for it to do, so all   *)
(* that was made has its listener by then.                                 *)
(***************************************************************************)
\* The promises that work w will make, and those it will be listening to.
Makes(w) == {w[n].p : n \in {k \in 1 .. Len(w) : w[k].do = "make"}}
Listens(w) == {w[n].p : n \in {k \in 1 .. Len(w) : w[k].do = "listen"}}

\* Work that makes promises and listens: each once, and to an operand.
Making(w) ==
    /\ w \in Seq(Calls)
    /\ \A n \in 1 .. Len(w) : w[n].do # "tell"
    /\ \A i, k \in 1 .. Len(w) : w[i].do = w[k].do /\ w[i].p = w[k].p => i = k
    /\ \A n \in 1 .. Len(w) : w[n].do = "listen" => w[n].p \in Operands(w[n].to)
WorkOK == Making(work) \/ \E p \in Promises, outcome \in Outcomes : work = <<Tell(p, outcome)>>

Telling(p) == work # <<>> /\ Head(work).do = "tell" /\ Head(work).p = p
Settled(p) == told[p] # <<>> \/ Telling(p)

\* A promise begins to exist with the work that makes it.
Begun(p) == p = Root \/ p \in Listens(work) \/ next[p] # NoPromise
Unmade(p) == p \in Makes(work) \/ ~Begun(p)

LinksOK ==
    /\ \A p \in Listens(work) : next[p] = NoPromise
    /\ \A p \in Promises : next[p] # NoPromise => p \in Operands(next[p])
    /\ \A p \in Makes(work) : Begun(p)

\* Nothing is known of a promise before it is made, and none of its operands is.
MadeOK ==
    \A p \in Promises : Unmade(p) =>
        told[p] = <<>> /\ p \notin owed /\ \A q \in Operands(p) : ~Begun(q)

\* A promise settles once, when its operands have; the inner promise of a
\* `then' does not exist before the promise the `then' is for has settled.
DoneOK ==
    /\ \A p \in Promises : told[p] = <<>> \/ \E outcome \in Outcomes : told[p] = <<outcome>>
    /\ \A p \in Promises : Telling(p) => told[p] = <<>> /\ Begun(p)
    /\ \A p \in owed : told[p] = <<>> /\ ~Telling(p)
    /\ \A p \in Promises : told[p] # <<>> => p = Root \/ next[p] # NoPromise
    /\ \A m \in Promises : Settled(m) =>
         \A q \in Operands(m) : told[q] # <<>> \/ (q = Inner[m] /\ ~Begun(q))
    /\ \A m \in Of("then") : Begun(Inner[m]) => told[From[m][1]] # <<>>

\* nRemaining counts the operands that have not settled.
Left(m) == {i \in 1 .. Len(From[m]) : told[From[m][i]] = <<>>}
AllOK ==
    \A m \in Of("all") :
        /\ nRemaining[m] = Cardinality(Left(m))
        /\ result[m] = "ok" <=> \A q \in ToSet(From[m]) : told[q] # <<"fail">>
        /\ told[m] # <<>> => told[m] = <<result[m]>>
        /\ Telling(m) => Head(work).outcome = result[m]

FinallyOK ==
    \A m \in Of("finally") :
        /\ ran[m] \in {0, 1}
        /\ ran[m] = 1 => told[From[m][1]] # <<>>
        /\ Settled(m) /\ alive => ran[m] = 1

Inv == TypeOK /\ WorkOK /\ LinksOK /\ MadeOK /\ DoneOK /\ AllOK /\ FinallyOK
-----------------------------------------------------------------------------
(***************************************************************************)
(* The calls of a handler.                                                 *)
(***************************************************************************)
\* What the calls look like.
LEMMA CallParts ==
    /\ \A p \in Promises : Make(p) \in Calls /\ Make(p).do = "make" /\ Make(p).p = p
    /\ \A p, m \in Promises :
         /\ Listen(p, m) \in Calls /\ Listen(p, m).do = "listen"
         /\ Listen(p, m).p = p /\ Listen(p, m).to = m
    /\ \A p \in Promises, outcome \in Outcomes :
         /\ Tell(p, outcome) \in Calls /\ Tell(p, outcome).do = "tell"
         /\ Tell(p, outcome).p = p /\ Tell(p, outcome).outcome = outcome
    /\ \A c \in Calls :
         /\ c.do \in {"make", "listen", "tell"} /\ c.p \in Promises
         /\ c.do = "listen" => c.to \in Promises
         /\ c.do = "tell" => c.outcome \in Outcomes
<1>1. \A p \in Promises : Make(p) \in Calls /\ Make(p).do = "make" /\ Make(p).p = p
  BY DEF Make, Calls
<1>2. \A p, m \in Promises :
         /\ Listen(p, m) \in Calls /\ Listen(p, m).do = "listen"
         /\ Listen(p, m).p = p /\ Listen(p, m).to = m
  BY DEF Listen, Calls
<1>3. \A p \in Promises, outcome \in Outcomes :
         /\ Tell(p, outcome) \in Calls /\ Tell(p, outcome).do = "tell"
         /\ Tell(p, outcome).p = p /\ Tell(p, outcome).outcome = outcome
  BY DEF Tell, Calls
<1>4. ASSUME NEW c \in Calls
      PROVE  /\ c.do \in {"make", "listen", "tell"} /\ c.p \in Promises
             /\ c.do = "listen" => c.to \in Promises
             /\ c.do = "tell" => c.outcome \in Outcomes
  BY <1>4 DEF Calls
<1> QED
  BY <1>1, <1>2, <1>3, <1>4

\* The sets of a sequence of calls, by the places of the calls.
LEMMA WorkSets ==
    ASSUME NEW w \in Seq(Calls)
    PROVE  /\ Makes(w) \subseteq Promises /\ Listens(w) \subseteq Promises
           /\ Len(w) \in Nat /\ \A n \in 1 .. Len(w) : w[n] \in Calls
           /\ \A n \in 1 .. Len(w) : w[n].do = "make" => w[n].p \in Makes(w)
           /\ \A n \in 1 .. Len(w) : w[n].do = "listen" => w[n].p \in Listens(w)
           /\ \A p \in Makes(w) : \E n \in 1 .. Len(w) : w[n].do = "make" /\ w[n].p = p
           /\ \A p \in Listens(w) : \E n \in 1 .. Len(w) : w[n].do = "listen" /\ w[n].p = p
<1>1. Len(w) \in Nat /\ \A n \in 1 .. Len(w) : w[n] \in Calls
  BY ElementOfSeq
<1>2. \A n \in 1 .. Len(w) : w[n].p \in Promises
  BY <1>1, CallParts
<1> QED
  BY <1>1, <1>2 DEF Makes, Listens

\* Work is put in front of other work.
LEMMA MakingJoined ==
    ASSUME NEW u, NEW v, Making(u), Making(v),
           Makes(u) \cap Makes(v) = {}, Listens(u) \cap Listens(v) = {}
    PROVE  /\ Making(u \o v)
           /\ Makes(u \o v) = Makes(u) \cup Makes(v)
           /\ Listens(u \o v) = Listens(u) \cup Listens(v)
<1> DEFINE w == u \o v
           m == Len(u)
           n == Len(v)
<1>1. u \in Seq(Calls) /\ v \in Seq(Calls)
  BY DEF Making
<1>2. /\ w \in Seq(Calls) /\ Len(w) = m + n /\ m \in Nat /\ n \in Nat
      /\ \A i \in 1 .. m + n : w[i] = IF i <= m THEN u[i] ELSE v[i - m]
  BY <1>1, ConcatProperties
<1>3. \A i \in 1 .. m : i \in 1 .. m + n /\ w[i] = u[i]
  BY <1>2
<1>4. \A i \in 1 .. n : i + m \in 1 .. m + n /\ w[i + m] = v[i]
  BY <1>2
<1>5. \A i \in 1 .. m + n :
         \/ i \in 1 .. m /\ w[i] = u[i]
         \/ i - m \in 1 .. n /\ w[i] = v[i - m]
  BY <1>2
<1>6. /\ \A i \in 1 .. m : u[i].do # "tell"
      /\ \A i, k \in 1 .. m : u[i].do = u[k].do /\ u[i].p = u[k].p => i = k
      /\ \A i \in 1 .. m : u[i].do = "listen" => u[i].p \in Operands(u[i].to)
      /\ \A i \in 1 .. n : v[i].do # "tell"
      /\ \A i, k \in 1 .. n : v[i].do = v[k].do /\ v[i].p = v[k].p => i = k
      /\ \A i \in 1 .. n : v[i].do = "listen" => v[i].p \in Operands(v[i].to)
  BY DEF Making
<1>7. /\ \A i \in 1 .. m : u[i] \in Calls /\ (u[i].do = "make" => u[i].p \in Makes(u))
                           /\ (u[i].do = "listen" => u[i].p \in Listens(u))
      /\ \A i \in 1 .. n : v[i] \in Calls /\ (v[i].do = "make" => v[i].p \in Makes(v))
                           /\ (v[i].do = "listen" => v[i].p \in Listens(v))
  BY <1>1, WorkSets
<1>8. /\ \A p \in Makes(u) : \E i \in 1 .. m : u[i].do = "make" /\ u[i].p = p
      /\ \A p \in Makes(v) : \E i \in 1 .. n : v[i].do = "make" /\ v[i].p = p
      /\ \A p \in Listens(u) : \E i \in 1 .. m : u[i].do = "listen" /\ u[i].p = p
      /\ \A p \in Listens(v) : \E i \in 1 .. n : v[i].do = "listen" /\ v[i].p = p
  BY <1>1, WorkSets
<1>9. \A i \in 1 .. m : u[i].do \in {"make", "listen", "tell"}
  BY <1>7, CallParts
<1>10. \A i \in 1 .. n : v[i].do \in {"make", "listen", "tell"}
  BY <1>7, CallParts
<1>11. \A i \in 1 .. m, k \in 1 .. n : ~(u[i].do = v[k].do /\ u[i].p = v[k].p)
  BY <1>6, <1>7, <1>9, <1>10
<1> HIDE DEF w, m, n
<1>12. ASSUME NEW i \in 1 .. m + n, NEW k \in 1 .. m + n, w[i].do = w[k].do, w[i].p = w[k].p
       PROVE  i = k
  <2>1. CASE i \in 1 .. m /\ w[i] = u[i] /\ k \in 1 .. m /\ w[k] = u[k]
    BY <1>6, <1>12, <2>1
  <2>2. CASE i - m \in 1 .. n /\ w[i] = v[i - m] /\ k - m \in 1 .. n /\ w[k] = v[k - m]
    <3>1. i - m = k - m
      BY <1>6, <1>12, <2>2
    <3> QED
      BY <1>2, <3>1
  <2> QED
    BY <1>5, <1>11, <1>12, <2>1, <2>2
<1>13. Making(w)
  <2>1. \A i \in 1 .. m + n : w[i].do # "tell" /\ (w[i].do = "listen" => w[i].p \in Operands(w[i].to))
    BY <1>5, <1>6
  <2> QED
    BY <1>2, <1>12, <2>1 DEF Making
<1>14. ASSUME NEW p
       PROVE  /\ p \in Makes(w) <=> p \in Makes(u) \cup Makes(v)
              /\ p \in Listens(w) <=> p \in Listens(u) \cup Listens(v)
  <2>1. /\ \A i \in 1 .. m + n : w[i].do = "make" => w[i].p \in Makes(w)
        /\ \A i \in 1 .. m + n : w[i].do = "listen" => w[i].p \in Listens(w)
        /\ \A q \in Makes(w) : \E i \in 1 .. m + n : w[i].do = "make" /\ w[i].p = q
        /\ \A q \in Listens(w) : \E i \in 1 .. m + n : w[i].do = "listen" /\ w[i].p = q
    <3>1. w \in Seq(Calls) /\ Len(w) = m + n
      BY <1>2
    <3>2. /\ \A i \in 1 .. Len(w) : w[i].do = "make" => w[i].p \in Makes(w)
          /\ \A i \in 1 .. Len(w) : w[i].do = "listen" => w[i].p \in Listens(w)
          /\ \A q \in Makes(w) : \E i \in 1 .. Len(w) : w[i].do = "make" /\ w[i].p = q
          /\ \A q \in Listens(w) : \E i \in 1 .. Len(w) : w[i].do = "listen" /\ w[i].p = q
      BY <3>1, WorkSets
    <3> QED
      BY <3>1, <3>2
  <2>2. p \in Makes(w) => p \in Makes(u) \cup Makes(v)
    BY <1>5, <1>7, <2>1
  <2>3. p \in Listens(w) => p \in Listens(u) \cup Listens(v)
    BY <1>5, <1>7, <2>1
  <2>4. p \in Makes(u) \cup Makes(v) => p \in Makes(w)
    BY <1>3, <1>4, <1>8, <2>1
  <2>5. p \in Listens(u) \cup Listens(v) => p \in Listens(w)
    BY <1>3, <1>4, <1>8, <2>1
  <2> QED
    BY <2>2, <2>3, <2>4, <2>5
<1> QED
  BY <1>13, <1>14 DEF w

\* The first call has been made.
LEMMA MakingRest ==
    ASSUME NEW w, Making(w), w # <<>>
    PROVE  /\ Making(Tail(w)) /\ Head(w) \in Calls /\ Head(w).do # "tell"
           /\ Head(w).do = "make" =>
                /\ Head(w).p \in Makes(w) /\ Makes(Tail(w)) = Makes(w) \ {Head(w).p}
                /\ Listens(Tail(w)) = Listens(w)
           /\ Head(w).do = "listen" =>
                /\ Head(w).p \in Listens(w) /\ Listens(Tail(w)) = Listens(w) \ {Head(w).p}
                /\ Makes(Tail(w)) = Makes(w) /\ Head(w).p \in Operands(Head(w).to)
<1> DEFINE t == Tail(w)
           n == Len(t)
<1>1. w \in Seq(Calls)
  BY DEF Making
<1>2. /\ t \in Seq(Calls) /\ n \in Nat /\ Len(w) = n + 1 /\ Head(w) = w[1]
      /\ \A i \in 1 .. n : t[i] = w[i + 1]
  BY <1>1, HeadTailProperties
<1>3. /\ \A i \in 1 .. n + 1 : w[i].do # "tell"
      /\ \A i, k \in 1 .. n + 1 : w[i].do = w[k].do /\ w[i].p = w[k].p => i = k
      /\ \A i \in 1 .. n + 1 : w[i].do = "listen" => w[i].p \in Operands(w[i].to)
  BY <1>2 DEF Making
<1>4. /\ \A i \in 1 .. n + 1 : w[i] \in Calls
      /\ \A i \in 1 .. n + 1 : w[i].do = "make" => w[i].p \in Makes(w)
      /\ \A i \in 1 .. n + 1 : w[i].do = "listen" => w[i].p \in Listens(w)
      /\ \A p \in Makes(w) : \E i \in 1 .. n + 1 : w[i].do = "make" /\ w[i].p = p
      /\ \A p \in Listens(w) : \E i \in 1 .. n + 1 : w[i].do = "listen" /\ w[i].p = p
  BY <1>1, <1>2, WorkSets
<1>5. /\ \A i \in 1 .. n : t[i].do = "make" => t[i].p \in Makes(t)
      /\ \A i \in 1 .. n : t[i].do = "listen" => t[i].p \in Listens(t)
      /\ \A p \in Makes(t) : \E i \in 1 .. n : t[i].do = "make" /\ t[i].p = p
      /\ \A p \in Listens(t) : \E i \in 1 .. n : t[i].do = "listen" /\ t[i].p = p
  BY <1>2, WorkSets
<1> HIDE DEF t, n
<1>6. \A i \in 1 .. n : i + 1 \in 1 .. n + 1 /\ i + 1 # 1 /\ t[i] = w[i + 1]
  BY <1>2
<1>7. \A i \in 1 .. n + 1 : i = 1 \/ (i - 1 \in 1 .. n /\ w[i] = t[i - 1])
  BY <1>2, <1>6
<1>8. 1 \in 1 .. n + 1
  BY <1>2
<1>9. Making(t)
  <2>1. \A i, k \in 1 .. n : t[i].do = t[k].do /\ t[i].p = t[k].p => i = k
    <3> SUFFICES ASSUME NEW i \in 1 .. n, NEW k \in 1 .. n, t[i].do = t[k].do, t[i].p = t[k].p
                 PROVE  i = k
      OBVIOUS
    <3>1. i + 1 = k + 1
      BY <1>3, <1>6
    <3> QED
      BY <1>2, <3>1
  <2>2. \A i \in 1 .. n : t[i].do # "tell" /\ (t[i].do = "listen" => t[i].p \in Operands(t[i].to))
    BY <1>3, <1>6
  <2>3. t \in Seq(Calls) /\ Len(t) = n
    BY <1>2 DEF n
  <2> QED
    BY <2>1, <2>2, <2>3 DEF Making
<1>10. ASSUME NEW p PROVE p \in Makes(t) <=> p \in Makes(w) /\ ~(w[1].do = "make" /\ w[1].p = p)
  <2>1. ASSUME p \in Makes(t) PROVE p \in Makes(w) /\ ~(w[1].do = "make" /\ w[1].p = p)
    <3>1. PICK i \in 1 .. n : t[i].do = "make" /\ t[i].p = p
      BY <1>5, <2>1
    <3> QED
      BY <1>3, <1>4, <1>6, <1>8, <3>1
  <2>2. ASSUME p \in Makes(w), ~(w[1].do = "make" /\ w[1].p = p) PROVE p \in Makes(t)
    <3>1. PICK i \in 1 .. n + 1 : w[i].do = "make" /\ w[i].p = p
      BY <1>4, <2>2
    <3> QED
      BY <1>5, <1>7, <2>2, <3>1
  <2> QED
    BY <2>1, <2>2
<1>11. ASSUME NEW p PROVE p \in Listens(t) <=> p \in Listens(w) /\ ~(w[1].do = "listen" /\ w[1].p = p)
  <2>1. ASSUME p \in Listens(t) PROVE p \in Listens(w) /\ ~(w[1].do = "listen" /\ w[1].p = p)
    <3>1. PICK i \in 1 .. n : t[i].do = "listen" /\ t[i].p = p
      BY <1>5, <2>1
    <3> QED
      BY <1>3, <1>4, <1>6, <1>8, <3>1
  <2>2. ASSUME p \in Listens(w), ~(w[1].do = "listen" /\ w[1].p = p) PROVE p \in Listens(t)
    <3>1. PICK i \in 1 .. n + 1 : w[i].do = "listen" /\ w[i].p = p
      BY <1>4, <2>2
    <3> QED
      BY <1>5, <1>7, <2>2, <3>1
  <2> QED
    BY <2>1, <2>2
<1>12. Head(w) = w[1] /\ w[1] \in Calls
  BY <1>2, <1>4, <1>8
<1>13. w[1].do = "make" => w[1].p \in Makes(w) /\ Makes(t) = Makes(w) \ {w[1].p} /\ Listens(t) = Listens(w)
  BY <1>4, <1>8, <1>10, <1>11
<1>14. w[1].do = "listen" =>
         /\ w[1].p \in Listens(w) /\ Listens(t) = Listens(w) \ {w[1].p} /\ Makes(t) = Makes(w)
         /\ w[1].p \in Operands(w[1].to)
  BY <1>3, <1>4, <1>8, <1>10, <1>11
<1> QED
  BY <1>3, <1>8, <1>9, <1>12, <1>13, <1>14 DEF t

\* No work, and a single call that settles a promise.
LEMMA NoWork ==
    /\ Making(<<>>) /\ Makes(<<>>) = {} /\ Listens(<<>>) = {}
    /\ \A p \in Promises, outcome \in Outcomes :
         LET w == <<Tell(p, outcome)>> IN
         /\ w \in Seq(Calls) /\ w # <<>> /\ Head(w) = Tell(p, outcome) /\ Tail(w) = <<>>
         /\ Makes(w) = {} /\ Listens(w) = {}
<1>1. Making(<<>>) /\ Makes(<<>>) = {} /\ Listens(<<>>) = {}
  BY DEF Making, Makes, Listens
<1>2. ASSUME NEW p \in Promises, NEW outcome \in Outcomes
      PROVE  LET w == <<Tell(p, outcome)>> IN
             /\ w \in Seq(Calls) /\ w # <<>> /\ Head(w) = Tell(p, outcome) /\ Tail(w) = <<>>
             /\ Makes(w) = {} /\ Listens(w) = {}
  <2>1. Tell(p, outcome) \in Calls /\ Tell(p, outcome).do = "tell"
    BY CallParts
  <2> DEFINE w == <<Tell(p, outcome)>>
  <2>2. w \in Seq(Calls) /\ Len(w) = 1 /\ w[1] = Tell(p, outcome)
    BY <2>1
  <2>3. w # <<>> /\ Head(w) = Tell(p, outcome) /\ Tail(w) = <<>>
    OBVIOUS
  <2>4. \A n \in 1 .. Len(w) : w[n].do = "tell"
    BY <2>1, <2>2
  <2>5. Makes(w) = {} /\ Listens(w) = {}
    BY <2>4 DEF Makes, Listens
  <2> QED
    BY <2>2, <2>3, <2>5
<1> QED
  BY <1>1, <1>2

\* What the promise m does when it is made: its operands q are made, and then it
\* listens to them.
LEMMA MakingOperands ==
    ASSUME NEW q \in Seq(Promises), NEW m \in Promises, ToSet(q) \subseteq Operands(m),
           \A i, k \in DOMAIN q : q[i] = q[k] => i = k
    PROVE  LET w == [n \in DOMAIN q |-> Make(q[n])] \o [n \in DOMAIN q |-> Listen(q[n], m)] IN
           Making(w) /\ Makes(w) = ToSet(q) /\ Listens(w) = ToSet(q)
<1> DEFINE u == [n \in DOMAIN q |-> Make(q[n])]
           v == [n \in DOMAIN q |-> Listen(q[n], m)]
           l == Len(q)
<1>1. DOMAIN q = 1 .. l /\ l \in Nat /\ \A n \in 1 .. l : q[n] \in Promises
  BY ElementOfSeq
<1>2. \A n \in 1 .. l : u[n] = Make(q[n]) /\ v[n] = Listen(q[n], m)
  BY <1>1
<1>3. \A n \in 1 .. l : u[n] \in Calls /\ u[n].do = "make" /\ u[n].p = q[n]
  BY <1>1, <1>2, CallParts
<1>4. \A n \in 1 .. l : v[n] \in Calls /\ v[n].do = "listen" /\ v[n].p = q[n] /\ v[n].to = m
  BY <1>1, <1>2, CallParts
<1>5. u \in [1 .. l -> Calls] /\ v \in [1 .. l -> Calls]
  BY <1>1, <1>3, <1>4
<1>6. u \in Seq(Calls) /\ Len(u) = l /\ v \in Seq(Calls) /\ Len(v) = l
  BY <1>1, <1>5, SeqDef
<1>7. \A n \in 1 .. l : q[n] \in Operands(m)
  BY <1>1 DEF ToSet
<1>8. ToSet(q) = {q[n] : n \in 1 .. l}
  BY <1>1 DEF ToSet
<1> HIDE DEF u, v, l
<1>9. Making(u)
  BY <1>1, <1>3, <1>6 DEF Making
<1>10. Making(v)
  BY <1>1, <1>4, <1>6, <1>7 DEF Making
<1>11. Makes(u) = ToSet(q) /\ Listens(u) = {}
  BY <1>3, <1>6, <1>8 DEF Makes, Listens
<1>12. Listens(v) = ToSet(q) /\ Makes(v) = {}
  BY <1>4, <1>6, <1>8 DEF Makes, Listens
<1>13. Making(u \o v) /\ Makes(u \o v) = Makes(u) \cup Makes(v) /\ Listens(u \o v) = Listens(u) \cup Listens(v)
  BY <1>9, <1>10, <1>11, <1>12, MakingJoined
<1> QED
  BY <1>11, <1>12, <1>13 DEF u, v

-----------------------------------------------------------------------------
(***************************************************************************)
(* The expression.                                                         *)
(***************************************************************************)
\* An expression is a tree.
LEMMA TreeFacts ==
    /\ \A p, m, n \in Promises : p \in Operands(m) /\ p \in Operands(n) => m = n
    /\ \A m \in Promises :
         /\ From[m] \in Seq(Promises) /\ Len(From[m]) \in Nat /\ DOMAIN From[m] = 1 .. Len(From[m])
         /\ Operands(m) \subseteq Promises /\ Root \notin Operands(m)
         /\ ToSet(From[m]) \subseteq Operands(m) /\ Inner[m] \notin ToSet(From[m])
         /\ Kind[m] \in {"action", "scheduled"} => Operands(m) = {}
         /\ Kind[m] \in {"map", "mapTo", "finally"} =>
              Operands(m) = {From[m][1]} /\ From[m][1] \in Promises
         /\ Kind[m] = "then" =>
              /\ Operands(m) = {From[m][1], Inner[m]} /\ From[m][1] \in Promises
              /\ Inner[m] \in Promises /\ Inner[m] # From[m][1]
         /\ Kind[m] = "all" => Operands(m) = ToSet(From[m])
<1>1. /\ Root \in Promises /\ NoPromise \notin Promises
      /\ From \in [Promises -> Seq(Promises)]
      /\ Inner \in [Promises -> Promises \cup {NoPromise}]
      /\ \A p \in Promises :
          /\ Kind[p] \in {"action", "scheduled"} => From[p] = <<>>
          /\ Kind[p] \in {"map", "mapTo", "then", "finally"} => Len(From[p]) = 1
          /\ Kind[p] = "all" => From[p] # <<>>
          /\ Kind[p] = "then" <=> Inner[p] # NoPromise
  BY PromisesAssumption
<1>2. ASSUME NEW m \in Promises
      PROVE  /\ From[m] \in Seq(Promises) /\ Len(From[m]) \in Nat /\ DOMAIN From[m] = 1 .. Len(From[m])
             /\ ToSet(From[m]) = {From[m][i] : i \in 1 .. Len(From[m])}
             /\ ToSet(From[m]) \subseteq Promises
             /\ Kind[m] = "then" => Inner[m] \in Promises
             /\ Kind[m] # "then" => Operands(m) = ToSet(From[m])
  <2>1. From[m] \in Seq(Promises)
    BY <1>1, <1>2
  <2>2. /\ Len(From[m]) \in Nat /\ DOMAIN From[m] = 1 .. Len(From[m])
        /\ \A i \in 1 .. Len(From[m]) : From[m][i] \in Promises
    BY <2>1, ElementOfSeq
  <2> QED
    BY <1>1, <1>2, <2>1, <2>2 DEF ToSet, Operands
<1>3. ASSUME NEW m \in Promises, Kind[m] \in {"action", "scheduled"} PROVE Operands(m) = {}
  BY <1>1, <1>2, <1>3 DEF Operands, ToSet
<1>4. ASSUME NEW m \in Promises, Kind[m] \in {"map", "mapTo", "then", "finally"}
      PROVE  ToSet(From[m]) = {From[m][1]} /\ From[m][1] \in Promises
  <2>1. Len(From[m]) = 1 /\ 1 .. 1 = {1}
    BY <1>1, <1>4
  <2>2. ToSet(From[m]) = {From[m][i] : i \in {1}} /\ ToSet(From[m]) \subseteq Promises
    BY <1>2, <2>1
  <2> QED
    BY <2>2
<1>5. \A m \in Promises : Root \notin Operands(m) /\ Inner[m] \notin ToSet(From[m])
  BY TreeAssumption
<1>6. \A p, m, n \in Promises : p \in Operands(m) /\ p \in Operands(n) => m = n
  BY TreeAssumption
<1>7. \A m \in Promises : Operands(m) \subseteq Promises /\ ToSet(From[m]) \subseteq Operands(m)
  BY <1>1, <1>2 DEF Operands
<1>8. ASSUME NEW m \in Promises, Kind[m] = "then"
      PROVE  /\ Operands(m) = {From[m][1], Inner[m]} /\ From[m][1] \in Promises
             /\ Inner[m] \in Promises /\ Inner[m] # From[m][1]
  <2>1. Operands(m) = ToSet(From[m]) \cup {Inner[m]}
    BY <1>1, <1>8 DEF Operands
  <2> QED
    BY <1>2, <1>4, <1>5, <1>8, <2>1
<1>9. ASSUME NEW m \in Promises, Kind[m] \in {"map", "mapTo", "finally"}
      PROVE  Operands(m) = {From[m][1]} /\ From[m][1] \in Promises
  BY <1>2, <1>4, <1>9
<1> QED
  BY <1>2, <1>3, <1>5, <1>6, <1>7, <1>8, <1>9

\* The parts of the invariant on the work of the handler, for each kind of work.
LEMMA MakingTells ==
    ASSUME NEW w, Making(w)
    PROVE  ~(w # <<>> /\ Head(w).do = "tell")
BY MakingRest

\* What a step that tells nobody keeps.
LEMMA OutcomesKept ==
    ASSUME AllOK, FinallyOK, UNCHANGED <<told, nRemaining, result, ran>>,
           alive' \in BOOLEAN, alive' => alive,
           \A p : ~Telling(p)'
    PROVE  AllOK' /\ FinallyOK'
<1>1. told' = told /\ nRemaining' = nRemaining /\ result' = result /\ ran' = ran
  OBVIOUS
<1>2. ASSUME NEW m \in Of("all")
      PROVE  /\ nRemaining'[m] = Cardinality(Left(m)')
             /\ result'[m] = "ok" <=> \A q \in ToSet(From[m]) : told'[q] # <<"fail">>
             /\ told'[m] # <<>> => told'[m] = <<result'[m]>>
             /\ ~Telling(m)'
  <2>1. /\ nRemaining[m] = Cardinality(Left(m))
        /\ result[m] = "ok" <=> \A q \in ToSet(From[m]) : told[q] # <<"fail">>
        /\ told[m] # <<>> => told[m] = <<result[m]>>
    BY <1>2 DEF AllOK
  <2>2. Left(m)' = Left(m)
    BY <1>1 DEF Left
  <2> QED
    BY <1>1, <2>1, <2>2
<1>3. AllOK'
  BY <1>2 DEF AllOK
<1>4. ASSUME NEW m \in Of("finally")
      PROVE  /\ ran'[m] \in {0, 1}
             /\ ran'[m] = 1 => told'[From[m][1]] # <<>>
             /\ Settled(m)' /\ alive' => ran'[m] = 1
  <2>1. /\ ran[m] \in {0, 1} /\ (ran[m] = 1 => told[From[m][1]] # <<>>)
        /\ Settled(m) /\ alive => ran[m] = 1
    BY <1>4 DEF FinallyOK
  <2>2. Settled(m)' => Settled(m)
    BY <1>1 DEF Settled
  <2> QED
    BY <1>1, <2>1, <2>2
<1>5. FinallyOK'
  BY <1>4 DEF FinallyOK
<1> QED
  BY <1>3, <1>5

\* A promise is made: the work of its handler grows by its operands.
LEMMA MakeStep ==
    ASSUME Inv, work # <<>>, Head(work).do = "make", MakePromise(Head(work).p)
    PROVE  Inv'
<1> DEFINE p == Head(work).p
           q == From[p]
           new == [n \in DOMAIN q |-> Make(q[n])] \o [n \in DOMAIN q |-> Listen(q[n], p)]
           old == Tail(work)
<1>1. /\ TypeOK /\ WorkOK /\ LinksOK /\ MadeOK /\ DoneOK /\ AllOK /\ FinallyOK
  BY DEF Inv
<1>2. Making(work)
  <2>1. ASSUME NEW x \in Promises, NEW outcome \in Outcomes, work = <<Tell(x, outcome)>> PROVE FALSE
    <3>1. Head(work) = Tell(x, outcome)
      BY <2>1
    <3> QED
      BY <3>1, CallParts
  <2> QED
    BY <1>1, <2>1 DEF WorkOK
<1>3. /\ Making(old) /\ Head(work) \in Calls /\ p \in Makes(work)
      /\ Makes(old) = Makes(work) \ {p} /\ Listens(old) = Listens(work)
  BY <1>2, MakingRest
<1>4. p \in Promises
  BY <1>3, CallParts
<1>5. q \in Seq(Promises) /\ ToSet(q) \subseteq Operands(p) /\ Operands(p) \subseteq Promises /\ Inner[p] \notin ToSet(q)
  BY <1>4, TreeFacts
<1>6. \A i, k \in DOMAIN q : q[i] = q[k] => i = k
  BY <1>4, TreeAssumption
<1>7. Making(new) /\ Makes(new) = ToSet(q) /\ Listens(new) = ToSet(q)
  BY <1>4, <1>5, <1>6, MakingOperands
<1>8. /\ work' = new \o old /\ owed' = owed \cup ({p} \cap (Of("action") \cup Of("scheduled")))
      /\ UNCHANGED <<next, told, nRemaining, result, ran, alive>>
  BY DEF MakePromise, Do
<1> HIDE DEF new, q, p, old
<1>9. /\ told[p] = <<>> /\ p \notin owed /\ \A x \in Operands(p) : ~Begun(x)
      /\ Begun(p) /\ p \notin ToSet(q)
  <2>1. told[p] = <<>> /\ p \notin owed /\ (\A x \in Operands(p) : ~Begun(x)) /\ Begun(p)
    BY <1>1, <1>3, <1>4 DEF MadeOK, Unmade, LinksOK
  <2> QED
    BY <1>5, <2>1
<1>10. \A x \in ToSet(q) : x \notin Listens(work) /\ next[x] = NoPromise /\ x # Root /\ x \notin Makes(work)
  BY <1>1, <1>5, <1>9 DEF Begun, LinksOK
<1>11. /\ Making(work') /\ Makes(work') = ToSet(q) \cup (Makes(work) \ {p})
       /\ Listens(work') = ToSet(q) \cup Listens(work)
  <2>1. Makes(new) \cap Makes(old) = {} /\ Listens(new) \cap Listens(old) = {}
    BY <1>3, <1>7, <1>10
  <2> QED
    BY <1>3, <1>7, <1>8, <2>1, MakingJoined
<1>12. \A x : ~Telling(x) /\ ~Telling(x)'
  BY <1>2, <1>11, MakingTells DEF Telling
<1>13. \A x : Begun(x)' <=> Begun(x) \/ x \in ToSet(q)
  BY <1>8, <1>11 DEF Begun
<1>14. TypeOK'
  <2>1. work' \in Seq(Calls)
    BY <1>11 DEF Making
  <2>2. owed' \subseteq Of("action") \cup Of("scheduled")
    BY <1>1, <1>8 DEF TypeOK
  <2> QED
    BY <1>1, <1>8, <2>1, <2>2 DEF TypeOK
<1>15. LinksOK'
  <2>1. \A x \in Listens(work') : next[x] = NoPromise
    BY <1>1, <1>10, <1>11 DEF LinksOK
  <2>2. \A x \in Makes(work') : Begun(x)'
    BY <1>1, <1>11, <1>13 DEF LinksOK
  <2> QED
    BY <1>1, <1>8, <2>1, <2>2 DEF LinksOK
<1>16. MadeOK'
  <2> SUFFICES ASSUME NEW x \in Promises, Unmade(x)'
               PROVE  told'[x] = <<>> /\ x \notin owed' /\ \A y \in Operands(x) : ~Begun(y)'
    BY DEF MadeOK
  <2>1. x # p /\ Unmade(x)
    BY <1>9, <1>10, <1>11, <1>13, <1>5 DEF Unmade
  <2>2. told[x] = <<>> /\ x \notin owed /\ \A y \in Operands(x) : ~Begun(y)
    BY <1>1, <2>1 DEF MadeOK
  <2>3. \A y \in Operands(x) : y \notin ToSet(q)
    BY <1>4, <1>5, <2>1, TreeFacts
  <2> QED
    BY <1>8, <1>13, <2>1, <2>2, <2>3
<1>17. DoneOK'
  <2>1. \A x \in owed' : told'[x] = <<>> /\ ~Telling(x)'
    BY <1>1, <1>8, <1>9, <1>12 DEF DoneOK
  <2>2. ASSUME NEW m \in Promises, Settled(m)', NEW y \in Operands(m)
        PROVE  told'[y] # <<>> \/ (y = Inner[m] /\ ~Begun(y)')
    <3>1. Settled(m)
      BY <1>8, <1>12, <2>2 DEF Settled
    <3>2. told[y] # <<>> \/ (y = Inner[m] /\ ~Begun(y))
      BY <1>1, <2>2, <3>1 DEF DoneOK
    <3>3. y = Inner[m] => y \notin ToSet(q)
      BY <1>4, <1>5, <2>2, TreeFacts
    <3> QED
      BY <1>8, <1>13, <3>2, <3>3
  <2>3. ASSUME NEW m \in Of("then"), Begun(Inner[m])' PROVE told'[From[m][1]] # <<>>
    <3>1. m \in Promises /\ Inner[m] \in Operands(m) /\ Inner[m] \in Promises
      BY TreeFacts DEF Of
    <3>2. Inner[m] \notin ToSet(q)
      BY <1>4, <1>5, <3>1, TreeFacts
    <3> QED
      BY <1>1, <1>8, <1>13, <2>3, <3>2 DEF DoneOK
  <2> QED
    BY <1>1, <1>8, <1>12, <2>1, <2>2, <2>3 DEF DoneOK
<1>18. AllOK' /\ FinallyOK'
  BY <1>1, <1>8, <1>12, OutcomesKept DEF TypeOK
<1> QED
  BY <1>11, <1>14, <1>15, <1>16, <1>17, <1>18 DEF Inv, WorkOK

\* A promise gets its listener.
LEMMA ListenStep ==
    ASSUME Inv, work # <<>>, Head(work).do = "listen", ListenTo(Head(work).p, Head(work).to)
    PROVE  Inv'
<1> DEFINE p == Head(work).p
           to == Head(work).to
           old == Tail(work)
<1>1. /\ TypeOK /\ WorkOK /\ LinksOK /\ MadeOK /\ DoneOK /\ AllOK /\ FinallyOK
  BY DEF Inv
<1>2. Making(work)
  <2>1. ASSUME NEW x \in Promises, NEW outcome \in Outcomes, work = <<Tell(x, outcome)>> PROVE FALSE
    <3>1. Head(work) = Tell(x, outcome)
      BY <2>1
    <3> QED
      BY <3>1, CallParts
  <2> QED
    BY <1>1, <2>1 DEF WorkOK
<1>3. /\ Making(old) /\ Head(work) \in Calls /\ p \in Listens(work) /\ p \in Operands(to)
      /\ Makes(old) = Makes(work) /\ Listens(old) = Listens(work) \ {p}
  BY <1>2, MakingRest
<1>4. p \in Promises /\ to \in Promises /\ to # NoPromise
  BY <1>3, CallParts, PromisesAssumption
<1>5. /\ work' = <<>> \o old /\ next' = [next EXCEPT ![p] = to]
      /\ UNCHANGED <<told, nRemaining, result, ran, owed, alive>>
  BY DEF ListenTo, Do
<1> HIDE DEF p, to, old
<1>6. work' = old
  <2>1. old \in Seq(Calls)
    BY <1>3 DEF Making
  <2> QED
    BY <1>5, <2>1, ConcatEmptySeq
<1>7. \A x : ~Telling(x) /\ ~Telling(x)'
  BY <1>2, <1>3, <1>6, MakingTells DEF Telling
<1>8. next'[p] = to /\ \A x \in Promises \ {p} : next'[x] = next[x]
  BY <1>1, <1>4, <1>5 DEF TypeOK
<1>9. \A x \in Promises : Begun(x)' <=> Begun(x)
  BY <1>3, <1>4, <1>6, <1>8 DEF Begun
<1>10. Makes(work) \subseteq Promises /\ Listens(work) \subseteq Promises
  BY <1>2, WorkSets DEF Making
<1>11. TypeOK'
  <2>1. work' \in Seq(Calls)
    BY <1>3, <1>6 DEF Making
  <2> QED
    BY <1>1, <1>4, <1>5, <2>1 DEF TypeOK
<1>12. LinksOK'
  <2>1. \A x \in Listens(work') : next'[x] = NoPromise
    BY <1>1, <1>3, <1>6, <1>8, <1>10 DEF LinksOK
  <2>2. \A x \in Promises : next'[x] # NoPromise => x \in Operands(next'[x])
    BY <1>1, <1>3, <1>8 DEF LinksOK
  <2>3. \A x \in Makes(work') : Begun(x)'
    BY <1>1, <1>3, <1>6, <1>9, <1>10 DEF LinksOK
  <2> QED
    BY <2>1, <2>2, <2>3 DEF LinksOK
<1>13. MadeOK'
  <2> SUFFICES ASSUME NEW x \in Promises, Unmade(x)'
               PROVE  told'[x] = <<>> /\ x \notin owed' /\ \A y \in Operands(x) : ~Begun(y)'
    BY DEF MadeOK
  <2>1. Unmade(x)
    BY <1>3, <1>6, <1>9 DEF Unmade
  <2>2. Operands(x) \subseteq Promises
    BY TreeFacts
  <2> QED
    BY <1>1, <1>5, <1>9, <2>1, <2>2 DEF MadeOK
<1>14. DoneOK'
  <2>1. \A x \in Promises : told'[x] # <<>> => x = Root \/ next'[x] # NoPromise
    BY <1>1, <1>4, <1>5, <1>8 DEF DoneOK
  <2>2. ASSUME NEW m \in Promises, Settled(m)', NEW y \in Operands(m)
        PROVE  told'[y] # <<>> \/ (y = Inner[m] /\ ~Begun(y)')
    <3>1. Settled(m) /\ y \in Promises
      BY <1>5, <1>7, <2>2, TreeFacts DEF Settled
    <3> QED
      BY <1>1, <1>5, <1>9, <2>2, <3>1 DEF DoneOK
  <2>3. ASSUME NEW m \in Of("then"), Begun(Inner[m])' PROVE told'[From[m][1]] # <<>>
    <3>1. Inner[m] \in Promises
      BY TreeFacts DEF Of
    <3> QED
      BY <1>1, <1>5, <1>9, <2>3, <3>1 DEF DoneOK
  <2> QED
    BY <1>1, <1>5, <1>7, <2>1, <2>2, <2>3 DEF DoneOK
<1>15. AllOK' /\ FinallyOK'
  BY <1>1, <1>5, <1>7, OutcomesKept DEF TypeOK
<1> QED
  BY <1>3, <1>6, <1>11, <1>12, <1>13, <1>14, <1>15 DEF Inv, WorkOK

-----------------------------------------------------------------------------
(***************************************************************************)
(* A promise tells its listener.                                           *)
(***************************************************************************)
\* The promise that settles and its listener, before the step.
LEMMA TellingFacts ==
    ASSUME Inv, NEW p \in Promises, NEW outcome \in Outcomes, work = <<Tell(p, outcome)>>
    PROVE  /\ told[p] = <<>> /\ p \notin owed /\ Makes(work) = {} /\ Listens(work) = {}
           /\ Head(work).outcome = outcome /\ Tail(work) = <<>>
           /\ \A x : Telling(x) <=> x = p
           /\ Begun(p) /\ (next[p] = NoPromise => p = Root)
           /\ next[p] # NoPromise =>
                /\ next[p] \in Promises /\ p \in Operands(next[p]) /\ next[p] # p
                /\ told[next[p]] = <<>> /\ Begun(next[p]) /\ next[p] \notin owed
           /\ \A k \in Promises : p \in Operands(k) => k = next[p]
<1>1. /\ TypeOK /\ LinksOK /\ MadeOK /\ DoneOK /\ NoPromise \notin Promises
  BY PromisesAssumption DEF Inv
<1>2. /\ work # <<>> /\ Head(work) = Tell(p, outcome) /\ Tail(work) = <<>>
      /\ Makes(work) = {} /\ Listens(work) = {}
  BY NoWork
<1>3. Tell(p, outcome).do = "tell" /\ Tell(p, outcome).p = p /\ Tell(p, outcome).outcome = outcome
  BY CallParts
<1>4. \A x : Telling(x) <=> x = p
  BY <1>2, <1>3 DEF Telling
<1>5. told[p] = <<>> /\ Begun(p) /\ p \notin owed
  BY <1>1, <1>4 DEF DoneOK
<1>6. next[p] = NoPromise => p = Root
  BY <1>2, <1>5 DEF Begun
<1>7. ASSUME next[p] # NoPromise
      PROVE  /\ next[p] \in Promises /\ p \in Operands(next[p]) /\ next[p] # p
             /\ told[next[p]] = <<>> /\ Begun(next[p]) /\ next[p] \notin owed
  <2> DEFINE m == next[p]
  <2>1. m \in Promises /\ p \in Operands(m)
    BY <1>1, <1>7 DEF TypeOK, LinksOK
  <2> HIDE DEF m
  <2>2. ~Settled(m)
    BY <1>1, <1>5, <2>1 DEF DoneOK
  <2>3. m # p /\ told[m] = <<>>
    BY <1>4, <2>2 DEF Settled
  <2>4. Begun(m)
    BY <1>1, <1>5, <2>1 DEF MadeOK, Unmade
  <2>5. m \notin owed
    BY <1>1, <2>1, TreeFacts DEF TypeOK, Of
  <2> QED
    BY <2>1, <2>3, <2>4, <2>5 DEF m
<1>8. ASSUME NEW k \in Promises, p \in Operands(k) PROVE k = next[p]
  <2>1. p # Root
    BY <1>8, TreeFacts
  <2>2. next[p] \in Promises /\ p \in Operands(next[p])
    BY <1>6, <1>7, <2>1
  <2> QED
    BY <1>8, <2>2, TreeFacts
<1> QED
  BY <1>2, <1>3, <1>4, <1>5, <1>6, <1>7, <1>8

\* What changes with the outcome of p, whoever hears of it.
Tells(p, outcome) ==
    /\ work = <<Tell(p, outcome)>>
    /\ told' = [told EXCEPT ![p] = Append(@, outcome)]
    /\ next' = next /\ owed' = owed /\ alive' = alive

\* A promise that had no outcome gets this one; nobody else gets one.
LEMMA ToldFacts ==
    ASSUME Inv, NEW p \in Promises, NEW outcome \in Outcomes, Tells(p, outcome)
    PROVE  /\ told' \in [Promises -> Seq(Outcomes)]
           /\ told'[p] = <<outcome>> /\ \A x \in Promises \ {p} : told'[x] = told[x]
<1>1. told[p] = <<>> /\ told \in [Promises -> Seq(Outcomes)]
  BY TellingFacts DEF Inv, TypeOK, Tells
<1>2. Append(<<>>, outcome) = <<outcome>> /\ <<outcome>> \in Seq(Outcomes)
  OBVIOUS
<1> QED
  BY <1>1, <1>2 DEF Tells

\* The handler ends, or goes on with the outcome of the listener, whose
\* operands have all settled or will never exist.
LEMMA ToldUp ==
    ASSUME Inv, NEW p \in Promises, NEW outcome \in Outcomes, Tells(p, outcome),
           \/ work' = <<>>
           \/ /\ next[p] # NoPromise
              /\ \E up \in Outcomes : work' = <<Tell(next[p], up)>>
              /\ \A q \in Operands(next[p]) \ {p} : told[q] # <<>> \/ (q = Inner[next[p]] /\ ~Begun(q))
    PROVE  /\ WorkOK' /\ LinksOK' /\ MadeOK' /\ DoneOK' /\ work' \in Seq(Calls)
           /\ \A x : Telling(x)' => x = next[p] /\ next[p] # NoPromise
<1> DEFINE m == next[p]
<1>1. /\ TypeOK /\ LinksOK /\ MadeOK /\ DoneOK
  BY DEF Inv
<1>2. /\ told[p] = <<>> /\ p \notin owed /\ Makes(work) = {} /\ Listens(work) = {}
      /\ \A x : Telling(x) <=> x = p
      /\ Begun(p) /\ (m = NoPromise => p = Root)
      /\ m # NoPromise =>
           /\ m \in Promises /\ p \in Operands(m) /\ m # p
           /\ told[m] = <<>> /\ Begun(m) /\ m \notin owed
  BY TellingFacts DEF Tells
<1>3. /\ told'[p] = <<outcome>> /\ \A x \in Promises \ {p} : told'[x] = told[x]
  BY ToldFacts
<1>4. next' = next /\ owed' = owed
  BY DEF Tells
<1>5. /\ Makes(work') = {} /\ Listens(work') = {} /\ WorkOK' /\ work' \in Seq(Calls)
      /\ \A x : Telling(x)' => x = m /\ m # NoPromise
  <2>1. CASE work' = <<>>
    BY <2>1, NoWork DEF WorkOK, Telling, Making
  <2>2. CASE m # NoPromise /\ \E up \in Outcomes : work' = <<Tell(m, up)>>
    <3>1. PICK up \in Outcomes : work' = <<Tell(m, up)>>
      BY <2>2
    <3>2. m \in Promises
      BY <1>2, <2>2
    <3> HIDE DEF m
    <3>3. /\ work' \in Seq(Calls) /\ work' # <<>> /\ Head(work') = Tell(m, up)
          /\ Makes(work') = {} /\ Listens(work') = {}
      BY <3>1, <3>2, NoWork
    <3>4. Tell(m, up).p = m
      BY <3>2, CallParts
    <3> QED
      BY <2>2, <3>1, <3>2, <3>3, <3>4 DEF WorkOK, Telling
  <2> QED
    BY <2>1, <2>2
<1>6. \A x : Begun(x)' <=> Begun(x)
  BY <1>2, <1>4, <1>5 DEF Begun
<1>7. LinksOK'
  BY <1>1, <1>4, <1>5 DEF LinksOK
<1>8. MadeOK'
  <2> SUFFICES ASSUME NEW x \in Promises, Unmade(x)'
               PROVE  told'[x] = <<>> /\ x \notin owed' /\ \A y \in Operands(x) : ~Begun(y)'
    BY DEF MadeOK
  <2>1. Unmade(x) /\ x # p
    BY <1>2, <1>5, <1>6 DEF Unmade
  <2> QED
    BY <1>1, <1>3, <1>4, <1>6, <2>1 DEF MadeOK
<1>9. DoneOK'
  <2>1. \A x \in Promises : told'[x] = <<>> \/ \E o \in Outcomes : told'[x] = <<o>>
    BY <1>1, <1>3 DEF DoneOK
  <2>2. \A x \in Promises : told[x] # <<>> => told'[x] # <<>>
    BY <1>2, <1>3
  <2>3. \A x \in Promises : Telling(x)' => told'[x] = <<>> /\ Begun(x)'
    BY <1>2, <1>3, <1>5, <1>6
  <2>4. \A x \in owed' : told'[x] = <<>> /\ ~Telling(x)'
    <3> SUFFICES ASSUME NEW x \in owed PROVE told'[x] = <<>> /\ ~Telling(x)'
      BY <1>4
    <3>1. x \in Promises /\ x # p /\ told[x] = <<>>
      BY <1>1, <1>2 DEF TypeOK, Of, DoneOK
    <3> QED
      BY <1>2, <1>3, <1>5, <3>1
  <2>5. \A x \in Promises : told'[x] # <<>> => x = Root \/ next'[x] # NoPromise
    BY <1>1, <1>2, <1>3, <1>4 DEF DoneOK
  <2>6. ASSUME NEW k \in Promises, Settled(k)', NEW y \in Operands(k)
        PROVE  told'[y] # <<>> \/ (y = Inner[k] /\ ~Begun(y)')
    <3>1. y \in Promises /\ told'[p] # <<>>
      BY <1>3, TreeFacts
    <3>2. CASE Telling(k)'
      <4>1. k = m /\ m # NoPromise /\ work' # <<>>
        BY <1>5, <3>2 DEF Telling
      <4>2. y = p \/ told[y] # <<>> \/ (y = Inner[k] /\ ~Begun(y))
        BY <2>6, <4>1
      <4> QED
        BY <1>6, <2>2, <3>1, <4>2
    <3>3. CASE ~Telling(k)'
      <4>1. told'[k] # <<>>
        BY <2>6, <3>3 DEF Settled
      <4>2. Settled(k)
        BY <1>2, <1>3, <4>1 DEF Settled
      <4> QED
        BY <1>1, <1>6, <2>2, <2>6, <3>1, <4>2 DEF DoneOK
    <3> QED
      BY <3>2, <3>3
  <2>7. ASSUME NEW k \in Of("then"), Begun(Inner[k])' PROVE told'[From[k][1]] # <<>>
    <3>1. From[k][1] \in Promises
      BY TreeFacts DEF Of
    <3> QED
      BY <1>1, <1>6, <2>2, <2>7, <3>1 DEF DoneOK
  <2> QED
    BY <2>1, <2>3, <2>4, <2>5, <2>6, <2>7 DEF DoneOK
<1> QED
  BY <1>5, <1>7, <1>8, <1>9

\* The continuation of a `then' runs and makes the inner promise.
LEMMA ToldInner ==
    ASSUME Inv, NEW p \in Promises, NEW outcome \in Outcomes, Tells(p, outcome),
           NEW m, m = next[p], m # NoPromise, Kind[m] = "then", p # Inner[m],
           work' = <<Make(Inner[m]), Listen(Inner[m], m)>>
    PROVE  /\ WorkOK' /\ LinksOK' /\ MadeOK' /\ DoneOK' /\ work' \in Seq(Calls)
           /\ \A x : ~Telling(x)'
<1> DEFINE q == Inner[m]
<1>1. /\ TypeOK /\ LinksOK /\ MadeOK /\ DoneOK
  BY DEF Inv
<1>2. /\ told[p] = <<>> /\ p \notin owed /\ Makes(work) = {} /\ Listens(work) = {}
      /\ \A x : Telling(x) <=> x = p
      /\ Begun(p) /\ m \in Promises /\ p \in Operands(m) /\ m # p
      /\ told[m] = <<>> /\ Begun(m) /\ m \notin owed
  BY TellingFacts DEF Tells
<1>3. /\ told'[p] = <<outcome>> /\ \A x \in Promises \ {p} : told'[x] = told[x]
  BY ToldFacts
<1>4. next' = next /\ owed' = owed
  BY DEF Tells
<1>5. /\ q \in Promises /\ q \in Operands(m) /\ p = From[m][1] /\ m \in Of("then")
      /\ Operands(m) = {p, q}
  BY <1>2, TreeFacts DEF Of
<1>6. ~Begun(q)
  BY <1>1, <1>2, <1>5 DEF DoneOK
<1>7. told[q] = <<>> /\ q \notin owed /\ (\A y \in Operands(q) : ~Begun(y)) /\ next[q] = NoPromise
  BY <1>1, <1>5, <1>6 DEF MadeOK, Unmade, Begun
<1> HIDE DEF q
<1>8. Making(work') /\ Makes(work') = {q} /\ Listens(work') = {q}
  <2> DEFINE c == Make(q)
             d == Listen(q, m)
             w == <<c, d>>
  <2>1. c \in Calls /\ c.do = "make" /\ c.p = q /\ d \in Calls /\ d.do = "listen" /\ d.p = q /\ d.to = m
    BY <1>2, <1>5, CallParts
  <2> HIDE DEF c, d
  <2>2. w \in Seq(Calls) /\ Len(w) = 2 /\ w[1] = c /\ w[2] = d
    BY <2>1
  <2> HIDE DEF w
  <2>3. 1 .. Len(w) = {1, 2}
    BY <2>2
  <2>4. Making(w)
    BY <1>5, <2>1, <2>2, <2>3 DEF Making
  <2>5. Makes(w) = {q} /\ Listens(w) = {q}
    BY <2>1, <2>2, <2>3 DEF Makes, Listens
  <2> QED
    BY <2>4, <2>5 DEF w, c, d, q
<1>9. \A x : ~Telling(x)'
  BY <1>8, MakingTells DEF Telling
<1>10. \A x : Begun(x)' <=> Begun(x) \/ x = q
  BY <1>2, <1>4, <1>8 DEF Begun
<1>11. LinksOK'
  BY <1>1, <1>4, <1>7, <1>8, <1>10 DEF LinksOK
<1>12. MadeOK'
  <2> SUFFICES ASSUME NEW x \in Promises, Unmade(x)'
               PROVE  told'[x] = <<>> /\ x \notin owed' /\ \A y \in Operands(x) : ~Begun(y)'
    BY DEF MadeOK
  <2>1. x = q \/ ~Begun(x)
    BY <1>8, <1>10 DEF Unmade
  <2>2. x # p /\ x # m
    BY <1>2, <1>5, <1>6, <2>1
  <2>3. told[x] = <<>> /\ x \notin owed /\ \A y \in Operands(x) : ~Begun(y)
    BY <1>1, <1>7, <2>1 DEF MadeOK, Unmade
  <2>4. \A y \in Operands(x) : y # q
    BY <1>2, <1>5, <2>2, TreeFacts
  <2> QED
    BY <1>3, <1>4, <1>10, <2>2, <2>3, <2>4
<1>13. DoneOK'
  <2>1. \A x \in Promises : told'[x] = <<>> \/ \E o \in Outcomes : told'[x] = <<o>>
    BY <1>1, <1>3 DEF DoneOK
  <2>2. \A x \in Promises : told[x] # <<>> => told'[x] # <<>>
    BY <1>2, <1>3
  <2>3. \A x \in owed' : told'[x] = <<>>
    <3> SUFFICES ASSUME NEW x \in owed PROVE told'[x] = <<>>
      BY <1>4
    <3>1. x \in Promises /\ x # p /\ told[x] = <<>>
      BY <1>1, <1>2 DEF TypeOK, Of, DoneOK
    <3> QED
      BY <1>3, <3>1
  <2>4. \A x \in Promises : told'[x] # <<>> => x = Root \/ next'[x] # NoPromise
    BY <1>1, <1>2, <1>3, <1>4 DEF DoneOK, Begun
  <2>5. ASSUME NEW k \in Promises, Settled(k)', NEW y \in Operands(k)
        PROVE  told'[y] # <<>> \/ (y = Inner[k] /\ ~Begun(y)')
    <3>1. y \in Promises
      BY TreeFacts
    <3>2. Settled(k) /\ k # m
      BY <1>2, <1>3, <1>9, <2>5 DEF Settled
    <3>3. y # q
      BY <1>2, <1>5, <2>5, <3>2, TreeFacts
    <3> QED
      BY <1>1, <1>10, <2>2, <2>5, <3>1, <3>2, <3>3 DEF DoneOK
  <2>6. ASSUME NEW k \in Of("then"), Begun(Inner[k])' PROVE told'[From[k][1]] # <<>>
    <3>1. From[k][1] \in Promises /\ k \in Promises /\ Inner[k] \in Operands(k)
      BY TreeFacts DEF Of
    <3>2. CASE k = m
      BY <1>3, <1>5, <3>2
    <3>3. CASE k # m
      <4>1. Inner[k] # q
        BY <1>2, <1>5, <3>1, <3>3, TreeFacts
      <4> QED
        BY <1>1, <1>10, <2>2, <2>6, <3>1, <4>1 DEF DoneOK
    <3> QED
      BY <3>2, <3>3
  <2> QED
    BY <1>9, <2>1, <2>3, <2>4, <2>5, <2>6 DEF DoneOK
<1> QED
  BY <1>8, <1>9, <1>11, <1>12, <1>13 DEF WorkOK, Making

\* The promises that do not hear of the outcome of p.
LEMMA AllOthers ==
    ASSUME Inv, NEW p \in Promises, NEW outcome \in Outcomes, Tells(p, outcome),
           NEW k \in Of("all"), k # next[p], ~Telling(k)',
           nRemaining'[k] = nRemaining[k], result'[k] = result[k]
    PROVE  /\ nRemaining'[k] = Cardinality(Left(k)')
           /\ result'[k] = "ok" <=> \A q \in ToSet(From[k]) : told'[q] # <<"fail">>
           /\ told'[k] # <<>> => told'[k] = <<result'[k]>>
<1>1. /\ nRemaining[k] = Cardinality(Left(k))
      /\ result[k] = "ok" <=> \A q \in ToSet(From[k]) : told[q] # <<"fail">>
      /\ told[k] # <<>> => told[k] = <<result[k]>>
      /\ Telling(k) => Head(work).outcome = result[k]
  BY DEF Inv, AllOK
<1>2. /\ \A x : Telling(x) <=> x = p
      /\ \A x \in Promises : p \in Operands(x) => x = next[p]
      /\ Head(work).outcome = outcome
  BY TellingFacts DEF Tells
<1>3. told'[p] = <<outcome>> /\ \A x \in Promises \ {p} : told'[x] = told[x]
  BY ToldFacts
<1>4. /\ k \in Promises /\ p \notin ToSet(From[k]) /\ ToSet(From[k]) \subseteq Promises
      /\ DOMAIN From[k] = 1 .. Len(From[k])
  BY <1>2, TreeFacts DEF Of
<1>5. \A i \in 1 .. Len(From[k]) : From[k][i] \in Promises \ {p}
  BY <1>4 DEF ToSet
<1>6. Left(k)' = Left(k)
  BY <1>3, <1>5 DEF Left
<1>7. \A q \in ToSet(From[k]) : told'[q] = told[q]
  BY <1>3, <1>4
<1>8. told'[k] # <<>> => told'[k] = <<result'[k]>>
  BY <1>1, <1>2, <1>3, <1>4
<1> QED
  BY <1>1, <1>6, <1>7, <1>8

\* What FinallyOK says of k stays when k neither runs nor settles.
LEMMA FinallyOthers ==
    ASSUME Inv, NEW p \in Promises, NEW outcome \in Outcomes, Tells(p, outcome),
           NEW k \in Of("finally"), ~Telling(k)', ran'[k] = ran[k]
    PROVE  /\ ran'[k] \in {0, 1}
           /\ ran'[k] = 1 => told'[From[k][1]] # <<>>
           /\ Settled(k)' /\ alive' => ran'[k] = 1
<1>1. /\ ran[k] \in {0, 1} /\ (ran[k] = 1 => told[From[k][1]] # <<>>)
      /\ Settled(k) /\ alive => ran[k] = 1
  BY DEF Inv, FinallyOK
<1>2. told[p] = <<>> /\ \A x : Telling(x) <=> x = p
  BY TellingFacts DEF Tells
<1>3. told'[p] = <<outcome>> /\ \A x \in Promises \ {p} : told'[x] = told[x]
  BY ToldFacts
<1>4. k \in Promises /\ From[k][1] \in Promises
  BY TreeFacts DEF Of
<1>5. Settled(k)' => Settled(k)
  BY <1>2, <1>3, <1>4 DEF Settled
<1>6. told[From[k][1]] # <<>> => told'[From[k][1]] # <<>>
  BY <1>2, <1>3, <1>4
<1> QED
  BY <1>1, <1>5, <1>6 DEF Tells

\* An outcome reaches an `all'.
LEMMA ToAllStep ==
    ASSUME Inv, NEW p \in Promises, NEW outcome \in Outcomes, Tells(p, outcome),
           NEW m, m = next[p], m # NoPromise, Kind[m] = "all", ToAll(m, outcome)
    PROVE  Inv'
<1>1. TypeOK /\ AllOK
  BY DEF Inv
<1>2. /\ told[p] = <<>> /\ m \in Promises /\ p \in Operands(m) /\ m # p /\ told[m] = <<>>
      /\ Tail(work) = <<>>
  BY TellingFacts DEF Tells
<1>3. /\ told'[p] = <<outcome>> /\ \A x \in Promises \ {p} : told'[x] = told[x]
      /\ told' \in [Promises -> Seq(Outcomes)]
  BY ToldFacts
<1>4. /\ m \in Of("all") /\ Operands(m) = ToSet(From[m]) /\ Operands(m) \subseteq Promises
      /\ Len(From[m]) \in Nat /\ DOMAIN From[m] = 1 .. Len(From[m])
      /\ \A i, k \in 1 .. Len(From[m]) : From[m][i] = From[m][k] => i = k
  BY <1>2, TreeFacts, TreeAssumption DEF Of
<1>5. /\ nRemaining' = [nRemaining EXCEPT ![m] = nRemaining[m] - 1]
      /\ result' = [result EXCEPT ![m] = IF outcome = "fail" THEN "fail" ELSE result[m]]
      /\ UNCHANGED <<next, ran, owed, alive>>
      /\ work' = (IF nRemaining'[m] = 0 THEN <<Tell(m, result'[m])>> ELSE <<>>) \o Tail(work)
  BY DEF ToAll, Counted, Combined, Do
<1>6. /\ nRemaining'[m] = nRemaining[m] - 1
      /\ result'[m] = IF outcome = "fail" THEN "fail" ELSE result[m]
      /\ \A x \in Promises \ {m} : nRemaining'[x] = nRemaining[x] /\ result'[x] = result[x]
      /\ result'[m] \in Outcomes /\ result' \in [Promises -> Outcomes]
      /\ nRemaining' \in [Promises -> Int]
  BY <1>1, <1>2, <1>5 DEF TypeOK, Outcomes
<1>7. PICK i \in 1 .. Len(From[m]) : From[m][i] = p
  BY <1>2, <1>4 DEF ToSet
<1>8. Left(m)' = Left(m) \ {i} /\ i \in Left(m) /\ Left(m) \subseteq 1 .. Len(From[m])
  <2>1. \A n \in 1 .. Len(From[m]) : From[m][n] \in Promises /\ (From[m][n] = p <=> n = i)
    BY <1>4, <1>7 DEF ToSet
  <2>2. i \in Left(m) /\ Left(m) \subseteq 1 .. Len(From[m])
    BY <1>2, <1>7 DEF Left
  <2>3. \A n \in 1 .. Len(From[m]) : told'[From[m][n]] = <<>> <=> told[From[m][n]] = <<>> /\ n # i
    <3> SUFFICES ASSUME NEW n \in 1 .. Len(From[m])
                 PROVE  told'[From[m][n]] = <<>> <=> told[From[m][n]] = <<>> /\ n # i
      OBVIOUS
    <3>1. CASE n = i
      <4>1. From[m][n] = p
        BY <2>1, <3>1
      <4>2. <<outcome>> # <<>>
        OBVIOUS
      <4>3. told'[p] # <<>>
        BY <1>3, <4>2, Zenon
      <4>4. told'[From[m][n]] # <<>>
        BY <4>1, <4>3, Zenon
      <4> QED
        BY <3>1, <4>4
    <3>2. CASE n # i
      <4>1. From[m][n] \in Promises /\ From[m][n] # p
        BY <2>1, <3>2
      <4>2. told'[From[m][n]] = told[From[m][n]]
        BY <1>3, <4>1
      <4> QED
        BY <3>2, <4>2
    <3> QED
      BY <3>1, <3>2
  <2>4. ASSUME NEW n PROVE n \in Left(m)' <=> n \in Left(m) \ {i}
    BY <2>3 DEF Left
  <2> QED
    BY <2>2, <2>4
<1>9. /\ IsFiniteSet(Left(m)) /\ Cardinality(Left(m)) \in Nat
      /\ Cardinality(Left(m)) <= Len(From[m])
      /\ Cardinality(Left(m)') = Cardinality(Left(m)) - 1 /\ Cardinality(Left(m)') \in Nat
  <2>1. IsFiniteSet(1 .. Len(From[m])) /\ Cardinality(1 .. Len(From[m])) = Len(From[m])
    <3>1. 1 \in Int /\ Len(From[m]) \in Int
      BY <1>4
    <3>2. /\ IsFiniteSet(1 .. Len(From[m]))
          /\ Cardinality(1 .. Len(From[m])) = IF 1 > Len(From[m]) THEN 0 ELSE Len(From[m]) - 1 + 1
      BY <3>1, FS_Interval
    <3> QED
      BY <1>4, <3>2
  <2>2. IsFiniteSet(Left(m)) /\ Cardinality(Left(m)) <= Len(From[m])
    BY <1>8, <2>1, FS_Subset
  <2>3. Cardinality(Left(m) \ {i}) = Cardinality(Left(m)) - 1 /\ IsFiniteSet(Left(m) \ {i})
    BY <1>8, <2>2, FS_RemoveElement
  <2>4. Cardinality(Left(m)) \in Nat /\ Cardinality(Left(m) \ {i}) \in Nat
    BY <2>2, <2>3, FS_CardinalityType
  <2> QED
    BY <1>8, <2>2, <2>3, <2>4
<1>10. nRemaining[m] = Cardinality(Left(m)) /\ nRemaining'[m] = Cardinality(Left(m)')
  BY <1>1, <1>4, <1>6, <1>9 DEF AllOK
<1>11. /\ work' = <<>> \/ (nRemaining'[m] = 0 /\ work' = <<Tell(m, result'[m])>>)
       /\ nRemaining'[m] = 0 => \A q \in Operands(m) \ {p} : told[q] # <<>>
  <2>1. work' = <<>> \/ (nRemaining'[m] = 0 /\ work' = <<Tell(m, result'[m])>>)
    <3>1. Tail(work) = <<>> /\ <<Tell(m, result'[m])>> \in Seq(Calls)
      BY <1>2, <1>4, <1>6 DEF Of, Calls, Tell
    <3>2. CASE nRemaining'[m] = 0
      <4>1. work' = <<Tell(m, result'[m])>> \o <<>>
        BY <1>5, <3>1, <3>2
      <4> QED
        BY <3>1, <3>2, <4>1, ConcatEmptySeq
    <3>3. CASE nRemaining'[m] # 0
      <4>1. work' = <<>> \o <<>>
        BY <1>5, <3>1, <3>3
      <4> QED
        BY <4>1
    <3> QED
      BY <3>2, <3>3
  <2>2. ASSUME nRemaining'[m] = 0, NEW q \in Operands(m) \ {p} PROVE told[q] # <<>>
    <3>1. Left(m)' = {}
      <4>1. IsFiniteSet(Left(m)') /\ Cardinality(Left(m)') = 0
        BY <1>8, <1>9, <1>10, <2>2, FS_RemoveElement
      <4> QED
        BY <4>1, FS_EmptySet
    <3>2. PICK n \in 1 .. Len(From[m]) : From[m][n] = q
      BY <1>4, <2>2 DEF ToSet
    <3>3. n # i
      BY <1>7, <2>2, <3>2
    <3>4. n \notin Left(m)
      BY <1>8, <3>1, <3>3
    <3> QED
      BY <3>2, <3>4 DEF Left
  <2> QED
    BY <2>1, <2>2
<1>12. /\ WorkOK' /\ LinksOK' /\ MadeOK' /\ DoneOK' /\ work' \in Seq(Calls)
       /\ \A x : Telling(x)' => x = m
  <2>1. \/ work' = <<>>
        \/ /\ next[p] # NoPromise
           /\ \E up \in Outcomes : work' = <<Tell(next[p], up)>>
           /\ \A q \in Operands(next[p]) \ {p} : told[q] # <<>> \/ (q = Inner[next[p]] /\ ~Begun(q))
    BY <1>6, <1>11
  <2> QED
    BY <2>1, ToldUp
<1>13. TypeOK'
  <2>1. \A x \in Promises : nRemaining'[x] \in 0 .. Len(From[x])
    <3>1. nRemaining'[m] \in 0 .. Len(From[m])
      BY <1>4, <1>9, <1>10
    <3> QED
      BY <1>1, <1>6, <3>1 DEF TypeOK
  <2> QED
    BY <1>1, <1>3, <1>5, <1>6, <1>12, <2>1 DEF TypeOK
<1>14. AllOK'
  <2> SUFFICES ASSUME NEW k \in Of("all")
               PROVE  /\ nRemaining'[k] = Cardinality(Left(k)')
                      /\ result'[k] = "ok" <=> \A q \in ToSet(From[k]) : told'[q] # <<"fail">>
                      /\ told'[k] # <<>> => told'[k] = <<result'[k]>>
                      /\ Telling(k)' => Head(work').outcome = result'[k]
    BY DEF AllOK
  <2>1. CASE k # m
    <3>1. ~Telling(k)' /\ nRemaining'[k] = nRemaining[k] /\ result'[k] = result[k]
      BY <1>6, <1>12, <2>1 DEF Of
    <3> QED
      BY <2>1, <3>1, AllOthers
  <2>2. CASE k = m
    <3>1. result[m] = "ok" <=> \A q \in ToSet(From[m]) : told[q] # <<"fail">>
      BY <1>1, <1>4 DEF AllOK
    <3>2. result[m] \in Outcomes
      BY <1>1, <1>2 DEF TypeOK
    <3>3. told'[p] # <<"fail">> <=> outcome # "fail"
      BY <1>3
    <3>4. \A q \in ToSet(From[m]) : q # p => told'[q] = told[q]
      BY <1>3, <1>4
    <3>5. result'[m] = "ok" <=> \A q \in ToSet(From[m]) : told'[q] # <<"fail">>
      <4>1. CASE outcome = "fail"
        BY <1>2, <1>4, <1>6, <3>3, <4>1
      <4>2. CASE outcome # "fail"
        <5>1. result'[m] = result[m] /\ told'[p] # <<"fail">> /\ told[p] # <<"fail">>
          BY <1>2, <1>6, <3>3, <4>2
        <5> QED
          BY <3>1, <3>4, <5>1
      <4> QED
        BY <4>1, <4>2
    <3>6. told'[m] = <<>>
      BY <1>2, <1>3
    <3>7. Telling(m)' => Head(work').outcome = result'[m]
      <4> SUFFICES ASSUME Telling(m)' PROVE Head(work').outcome = result'[m]
        OBVIOUS
      <4>1. work' = <<Tell(m, result'[m])>>
        BY <1>11 DEF Telling
      <4>2. Head(work') = Tell(m, result'[m])
        BY <4>1
      <4> QED
        BY <1>2, <1>6, <4>2, CallParts
    <3> QED
      BY <1>10, <2>2, <3>5, <3>6, <3>7
  <2> QED
    BY <2>1, <2>2
<1>15. FinallyOK'
  <2> SUFFICES ASSUME NEW k \in Of("finally")
               PROVE  /\ ran'[k] \in {0, 1} /\ (ran'[k] = 1 => told'[From[k][1]] # <<>>)
                      /\ Settled(k)' /\ alive' => ran'[k] = 1
    BY DEF FinallyOK
  <2>1. ~Telling(k)' /\ ran'[k] = ran[k]
    BY <1>5, <1>12 DEF Of
  <2> QED
    BY <2>1, FinallyOthers
<1> QED
  BY <1>12, <1>13, <1>14, <1>15 DEF Inv

\* An outcome reaches the factory, or a listener that has a single operand or
\* knows all it has to know.
LEMMA ToOneStep ==
    ASSUME Inv, NEW p \in Promises, NEW outcome \in Outcomes, Tells(p, outcome),
           next[p] # NoPromise => Kind[next[p]] # "all",
           UNCHANGED <<nRemaining, result>>,
           ran' \in [Promises -> Nat],
           \A k \in Of("finally") : ran'[k] = ran[k] \/ (k = next[p] /\ k # NoPromise),
           next[p] # NoPromise /\ Kind[next[p]] = "finally" =>
              ran'[next[p]] = IF alive THEN ran[next[p]] + 1 ELSE ran[next[p]],
           \/ work' = <<>> /\ ~(next[p] # NoPromise /\ Kind[next[p]] = "finally")
           \/ /\ next[p] # NoPromise
              /\ \E up \in Outcomes : work' = <<Tell(next[p], up)>>
              /\ \A q \in Operands(next[p]) \ {p} : told[q] # <<>> \/ (q = Inner[next[p]] /\ ~Begun(q))
           \/ /\ next[p] # NoPromise /\ Kind[next[p]] = "then" /\ p # Inner[next[p]]
              /\ work' = <<Make(Inner[next[p]]), Listen(Inner[next[p]], next[p])>>
    PROVE  Inv'
<1> DEFINE m == next[p]
<1>1. TypeOK /\ AllOK /\ FinallyOK
  BY DEF Inv
<1>2. /\ told[p] = <<>> /\ \A x : Telling(x) <=> x = p
      /\ m # NoPromise => m \in Promises /\ p \in Operands(m) /\ m # p /\ told[m] = <<>>
  BY TellingFacts DEF Tells
<1>3. /\ told'[p] = <<outcome>> /\ \A x \in Promises \ {p} : told'[x] = told[x]
      /\ told' \in [Promises -> Seq(Outcomes)]
  BY ToldFacts
<1>4. /\ WorkOK' /\ LinksOK' /\ MadeOK' /\ DoneOK' /\ work' \in Seq(Calls)
      /\ \A x : Telling(x)' => x = m /\ m # NoPromise
  <2>1. CASE m # NoPromise /\ Kind[m] = "then" /\ p # Inner[m]
             /\ work' = <<Make(Inner[m]), Listen(Inner[m], m)>>
    <3>1. /\ WorkOK' /\ LinksOK' /\ MadeOK' /\ DoneOK' /\ work' \in Seq(Calls)
          /\ \A x : ~Telling(x)'
      BY <2>1, ToldInner
    <3> QED
      BY <3>1
  <2>2. CASE work' = <<>>
    <3>1. /\ WorkOK' /\ LinksOK' /\ MadeOK' /\ DoneOK' /\ work' \in Seq(Calls)
          /\ \A x : Telling(x)' => x = next[p] /\ next[p] # NoPromise
      BY <2>2, ToldUp
    <3> QED
      BY <3>1
  <2>3. CASE /\ m # NoPromise
             /\ \E up \in Outcomes : work' = <<Tell(m, up)>>
             /\ \A q \in Operands(m) \ {p} : told[q] # <<>> \/ (q = Inner[m] /\ ~Begun(q))
    <3>1. /\ WorkOK' /\ LinksOK' /\ MadeOK' /\ DoneOK' /\ work' \in Seq(Calls)
          /\ \A x : Telling(x)' => x = next[p] /\ next[p] # NoPromise
      BY <2>3, ToldUp
    <3> QED
      BY <3>1
  <2> QED
    BY <2>1, <2>2, <2>3
<1>5. TypeOK'
  <2>1. next' = next /\ owed' = owed /\ alive' = alive
    BY DEF Tells
  <2> QED
    BY <1>1, <1>3, <1>4, <2>1 DEF TypeOK
<1>6. AllOK'
  <2> SUFFICES ASSUME NEW k \in Of("all")
               PROVE  /\ nRemaining'[k] = Cardinality(Left(k)')
                      /\ result'[k] = "ok" <=> \A q \in ToSet(From[k]) : told'[q] # <<"fail">>
                      /\ told'[k] # <<>> => told'[k] = <<result'[k]>>
                      /\ Telling(k)' => Head(work').outcome = result'[k]
    BY DEF AllOK
  <2>1. k # next[p]
    BY PromisesAssumption DEF Of
  <2>2. ~Telling(k)' /\ nRemaining'[k] = nRemaining[k] /\ result'[k] = result[k]
    BY <1>4, <2>1
  <2> QED
    BY <2>1, <2>2, AllOthers
<1>7. FinallyOK'
  <2> SUFFICES ASSUME NEW k \in Of("finally")
               PROVE  /\ ran'[k] \in {0, 1} /\ (ran'[k] = 1 => told'[From[k][1]] # <<>>)
                      /\ Settled(k)' /\ alive' => ran'[k] = 1
    BY DEF FinallyOK
  <2>1. CASE ~(k = m /\ k # NoPromise)
    <3>1. ~Telling(k)' /\ ran'[k] = ran[k]
      BY <1>4, <2>1
    <3> QED
      BY <3>1, FinallyOthers
  <2>2. CASE k = m /\ k # NoPromise
    <3>1. /\ Kind[m] = "finally" /\ m \in Promises /\ p = From[m][1]
      BY <1>2, <2>2, TreeFacts DEF Of
    <3>2. ran[m] \in {0, 1} /\ (ran[m] = 1 => told[p] # <<>>)
      BY <1>1, <2>2, <3>1 DEF FinallyOK
    <3>3. ran[m] = 0 /\ ran'[m] = IF alive THEN ran[m] + 1 ELSE ran[m]
      BY <1>2, <2>2, <3>1, <3>2
    <3>4. alive' = alive /\ told'[p] # <<>> /\ ran'[k] = ran'[m] /\ From[k][1] = p
      BY <1>3, <2>2, <3>1 DEF Tells
    <3>5. ran'[k] \in {0, 1} /\ (alive' => ran'[k] = 1)
      BY <3>3, <3>4
    <3> QED
      BY <3>4, <3>5
  <2> QED
    BY <2>1, <2>2
<1> QED
  BY <1>4, <1>5, <1>6, <1>7 DEF Inv

\* A promise settles and tells whoever listens.
LEMMA TellStep ==
    ASSUME Inv, work # <<>>, Head(work).do = "tell", TellListener(Head(work).p, Head(work).outcome)
    PROVE  Inv'
<1>1. TypeOK /\ WorkOK
  BY DEF Inv
<1>2. ~Making(work)
  BY MakingTells
<1>3. PICK p \in Promises, outcome \in Outcomes : work = <<Tell(p, outcome)>>
  BY <1>1, <1>2 DEF WorkOK
<1>4. Head(work).p = p /\ Head(work).outcome = outcome /\ Tail(work) = <<>>
  <2>1. Head(work) = Tell(p, outcome) /\ Tail(work) = <<>>
    BY <1>3
  <2> QED
    BY <2>1, CallParts
<1>5. TellListener(p, outcome)
  BY <1>4
<1> DEFINE m == next[p]
<1>6. \A calls \in Seq(Calls) : Do(calls) => work' = calls
  <2> SUFFICES ASSUME NEW calls \in Seq(Calls), work' = calls \o <<>> PROVE work' = calls
    BY <1>4 DEF Do
  <2> QED
    BY ConcatEmptySeq
<1>7. \A up \in Outcomes : m \in Promises => (Do(<<Tell(m, up)>>) => work' = <<Tell(m, up)>>)
  BY <1>6, NoWork
<1>8. Do(<<>>) => work' = <<>>
  BY <1>6, EmptySeq
<1>9. /\ m # NoPromise => m \in Promises /\ p \in Operands(m) /\ m # p
      /\ told[p] = <<>> /\ (m = NoPromise => p = Root)
  BY <1>3, TellingFacts
<1>10. told' = [told EXCEPT ![p] = Append(@, outcome)]
  BY <1>5 DEF TellListener
<1>11. "fail" \in Outcomes
  BY DEF Outcomes
<1>12. CASE m = NoPromise /\ ToFactory
  <2>1. /\ Tells(p, outcome) /\ work' = <<>> /\ UNCHANGED <<nRemaining, result>> /\ ran' = ran
    BY <1>3, <1>8, <1>10, <1>12 DEF ToFactory, Tells
  <2> QED
    BY <1>1, <1>12, <2>1, ToOneStep DEF TypeOK
<1>13. CASE m # NoPromise /\ Kind[m] = "all" /\ ToAll(m, outcome)
  <2>1. Tells(p, outcome)
    BY <1>3, <1>10, <1>13 DEF ToAll, Tells
  <2> QED
    BY <1>13, <2>1, ToAllStep
<1>14. CASE m # NoPromise /\ Kind[m] = "map" /\ ToMap(m, outcome)
  <2>1. Tells(p, outcome) /\ UNCHANGED <<nRemaining, result>> /\ ran' = ran
    BY <1>3, <1>10, <1>14 DEF ToMap, Tells
  <2>2. \E up \in Outcomes : work' = <<Tell(m, up)>>
    BY <1>7, <1>9, <1>11, <1>14 DEF ToMap
  <2>3. Operands(m) \ {p} = {}
    BY <1>9, <1>14, TreeFacts
  <2> QED
    BY <1>1, <1>14, <2>1, <2>2, <2>3, ToOneStep DEF TypeOK
<1>15. CASE m # NoPromise /\ Kind[m] = "mapTo" /\ ToMapTo(m, outcome)
  <2>1. Tells(p, outcome) /\ UNCHANGED <<nRemaining, result>> /\ ran' = ran
    BY <1>3, <1>10, <1>15 DEF ToMapTo, Tells
  <2>2. \E up \in Outcomes : work' = <<Tell(m, up)>>
    BY <1>7, <1>9, <1>15 DEF ToMapTo
  <2>3. Operands(m) \ {p} = {}
    BY <1>9, <1>15, TreeFacts
  <2> QED
    BY <1>1, <1>15, <2>1, <2>2, <2>3, ToOneStep DEF TypeOK
<1>16. CASE m # NoPromise /\ Kind[m] = "then" /\ ToThen(p, m, outcome)
  <2>1. Tells(p, outcome) /\ UNCHANGED <<nRemaining, result>> /\ ran' = ran
    BY <1>3, <1>10, <1>16 DEF ToThen, Tells
  <2>2. /\ Operands(m) = {From[m][1], Inner[m]} /\ From[m][1] \in Promises
        /\ Inner[m] \in Promises /\ Inner[m] # From[m][1] /\ m \in Of("then")
    BY <1>9, <1>16, TreeFacts DEF Of
  <2>3. Begun(Inner[m]) => told[From[m][1]] # <<>>
    BY <2>2 DEF Inv, DoneOK
  <2>4. CASE p = Inner[m]
    <3>1. work' = <<Tell(m, outcome)>>
      BY <1>7, <1>9, <1>16, <2>4 DEF ToThen
    <3>2. Begun(p)
      BY <1>3, TellingFacts
    <3>3. \A q \in Operands(m) \ {p} : told[q] # <<>>
      BY <2>2, <2>3, <2>4, <3>2
    <3> QED
      BY <1>1, <1>16, <2>1, <3>1, <3>3, ToOneStep DEF TypeOK
  <2>5. CASE p # Inner[m] /\ (outcome = "fail" \/ ~alive)
    <3>1. work' = <<Tell(m, "fail")>>
      BY <1>7, <1>9, <1>11, <1>16, <2>5 DEF ToThen
    <3>2. p = From[m][1]
      BY <1>9, <1>16, <2>2, <2>5
    <3>3. \A q \in Operands(m) \ {p} : q = Inner[m] /\ ~Begun(q)
      BY <1>9, <2>2, <2>3, <3>2
    <3> QED
      BY <1>1, <1>11, <1>16, <2>1, <3>1, <3>3, ToOneStep DEF TypeOK
  <2>6. CASE p # Inner[m] /\ ~(outcome = "fail" \/ ~alive)
    <3>1. <<Make(Inner[m]), Listen(Inner[m], m)>> \in Seq(Calls)
      BY <1>9, <1>16, <2>2, CallParts
    <3>2. work' = <<Make(Inner[m]), Listen(Inner[m], m)>>
      BY <1>6, <1>16, <2>6, <3>1 DEF ToThen
    <3> QED
      BY <1>1, <1>16, <2>1, <2>6, <3>2, ToOneStep DEF TypeOK
  <2> QED
    BY <2>4, <2>5, <2>6
<1>17. CASE m # NoPromise /\ Kind[m] = "finally" /\ ToFinally(m, outcome)
  <2>1. Tells(p, outcome) /\ UNCHANGED <<nRemaining, result>>
    BY <1>3, <1>10, <1>17 DEF ToFinally, Tells
  <2>2. /\ ran' \in [Promises -> Nat] /\ ran'[m] = IF alive THEN ran[m] + 1 ELSE ran[m]
        /\ \A k \in Promises \ {m} : ran'[k] = ran[k]
    BY <1>1, <1>9, <1>17 DEF ToFinally, RunsCallback, TypeOK
  <2>3. work' = <<Tell(m, outcome)>>
    BY <1>7, <1>9, <1>17 DEF ToFinally
  <2>4. Operands(m) \ {p} = {}
    BY <1>9, <1>17, TreeFacts
  <2>5. \A k \in Of("finally") : ran'[k] = ran[k] \/ (k = m /\ k # NoPromise)
    BY <1>17, <2>2 DEF Of
  <2> QED
    BY <1>17, <2>1, <2>2, <2>3, <2>4, <2>5, ToOneStep
<1> QED
  BY <1>5, <1>12, <1>13, <1>14, <1>15, <1>16, <1>17 DEF TellListener
-----------------------------------------------------------------------------
\* An action is answered, or a posted handler runs.
LEMMA CompleteStep ==
    ASSUME Inv, NEW p \in owed, NEW outcome \in Outcomes, Complete(p, outcome)
    PROVE  Inv'
<1>1. /\ TypeOK /\ LinksOK /\ MadeOK /\ DoneOK /\ AllOK /\ FinallyOK
  BY DEF Inv
<1>2. /\ work = <<>> /\ owed' = owed \ {p} /\ work' = <<Tell(p, outcome)>> \o work
      /\ UNCHANGED <<next, told, nRemaining, result, ran, alive>>
  BY DEF Complete, NextHandler
<1>3. p \in Promises /\ Kind[p] \in {"action", "scheduled"}
  BY <1>1 DEF TypeOK, Of
<1>4. Operands(p) = {}
  BY <1>3, TreeFacts
<1>5. /\ work' = <<Tell(p, outcome)>> /\ work' \in Seq(Calls) /\ work' # <<>> /\ Head(work') = Tell(p, outcome)
      /\ Makes(work') = {} /\ Listens(work') = {}
  BY <1>2, <1>3, NoWork
<1>6. Makes(work) = {} /\ Listens(work) = {} /\ \A x : ~Telling(x)
  BY <1>2, NoWork DEF Telling
<1>7. \A x : Telling(x)' <=> x = p
  BY <1>3, <1>5, CallParts DEF Telling
<1>8. \A x : Begun(x)' <=> Begun(x)
  BY <1>2, <1>5, <1>6 DEF Begun
<1>9. Begun(p) /\ told[p] = <<>>
  BY <1>1, <1>3 DEF MadeOK, Unmade, DoneOK
<1>10. TypeOK'
  BY <1>1, <1>2, <1>5 DEF TypeOK
<1>11. WorkOK' /\ LinksOK'
  BY <1>1, <1>2, <1>3, <1>5 DEF WorkOK, LinksOK
<1>12. MadeOK'
  <2>1. \A x \in Promises : Unmade(x)' => Unmade(x)
    BY <1>5, <1>8 DEF Unmade
  <2> QED
    BY <1>1, <1>2, <1>8, <2>1 DEF MadeOK
<1>13. DoneOK'
  <2>1. \A x \in owed' : told'[x] = <<>> /\ ~Telling(x)'
    BY <1>1, <1>2, <1>7 DEF DoneOK
  <2>2. ASSUME NEW k \in Promises, Settled(k)', NEW y \in Operands(k)
        PROVE  told'[y] # <<>> \/ (y = Inner[k] /\ ~Begun(y)')
    <3>1. k # p /\ Settled(k)
      BY <1>2, <1>4, <1>7, <2>2 DEF Settled
    <3> QED
      BY <1>1, <1>2, <1>8, <2>2, <3>1 DEF DoneOK
  <2> QED
    BY <1>1, <1>2, <1>7, <1>8, <1>9, <2>1, <2>2 DEF DoneOK
<1>14. AllOK'
  <2> SUFFICES ASSUME NEW k \in Of("all")
               PROVE  /\ nRemaining'[k] = Cardinality(Left(k)')
                      /\ result'[k] = "ok" <=> \A q \in ToSet(From[k]) : told'[q] # <<"fail">>
                      /\ told'[k] # <<>> => told'[k] = <<result'[k]>>
                      /\ Telling(k)' => Head(work').outcome = result'[k]
    BY DEF AllOK
  <2>1. Left(k)' = Left(k)
    BY <1>2 DEF Left
  <2>2. ~Telling(k)'
    BY <1>3, <1>7 DEF Of
  <2> QED
    BY <1>1, <1>2, <2>1, <2>2 DEF AllOK
<1>15. FinallyOK'
  <2> SUFFICES ASSUME NEW k \in Of("finally")
               PROVE  /\ ran'[k] \in {0, 1} /\ (ran'[k] = 1 => told'[From[k][1]] # <<>>)
                      /\ Settled(k)' /\ alive' => ran'[k] = 1
    BY DEF FinallyOK
  <2>1. Settled(k)' => Settled(k)
    BY <1>2, <1>3, <1>7 DEF Settled, Of
  <2> QED
    BY <1>1, <1>2, <2>1 DEF FinallyOK
<1> QED
  BY <1>10, <1>11, <1>12, <1>13, <1>14, <1>15 DEF Inv

\* The factory is destroyed.
LEMMA DieStep == Inv /\ Die => Inv'
<1> SUFFICES ASSUME Inv, Die PROVE Inv'
  OBVIOUS
<1>1. /\ work = <<>> /\ work' = work /\ alive' = FALSE
      /\ next' = next /\ told' = told /\ nRemaining' = nRemaining /\ result' = result
      /\ ran' = ran /\ owed' = owed
  BY DEF Die, NextHandler
<1>2. \A x : (Telling(x)' <=> Telling(x)) /\ (Begun(x)' <=> Begun(x)) /\ (Unmade(x)' <=> Unmade(x)) /\ ~Telling(x)
  BY <1>1 DEF Telling, Begun, Unmade
<1>3. \A x : Settled(x)' <=> Settled(x)
  BY <1>1, <1>2 DEF Settled
<1>4. TypeOK' /\ WorkOK' /\ LinksOK' /\ MadeOK'
  BY <1>1, <1>2 DEF Inv, TypeOK, WorkOK, LinksOK, MadeOK
<1>5. DoneOK'
  BY <1>1, <1>2, <1>3 DEF Inv, DoneOK
<1>6. AllOK' /\ FinallyOK'
  BY <1>1, <1>2, OutcomesKept DEF Inv
<1> QED
  BY <1>4, <1>5, <1>6 DEF Inv

\* The expression that a cycle starts with.
LEMMA InitInv == Init => Inv
<1> SUFFICES ASSUME Init PROVE Inv
  OBVIOUS
<1>1. /\ next = [p \in Promises |-> NoPromise] /\ told = [p \in Promises |-> <<>>]
      /\ nRemaining = [p \in Promises |-> Len(From[p])] /\ result = [p \in Promises |-> "ok"]
      /\ ran = [p \in Promises |-> 0] /\ owed = {} /\ work = <<Make(Root)>> /\ alive = TRUE
  BY DEF Init
<1>2. Root \in Promises /\ Make(Root) \in Calls /\ Make(Root).do = "make" /\ Make(Root).p = Root
  BY PromisesAssumption, CallParts
<1>3. Making(work) /\ Makes(work) = {Root} /\ Listens(work) = {}
  <2> DEFINE c == Make(Root)
  <2> HIDE DEF c
  <2>1. work = <<c>> /\ c \in Calls /\ c.do = "make" /\ c.p = Root
    BY <1>1, <1>2 DEF c
  <2>2. work \in Seq(Calls) /\ Len(work) = 1 /\ work[1] = c
    BY <2>1
  <2>3. 1 .. Len(work) = {1}
    BY <2>2
  <2> QED
    BY <2>1, <2>2, <2>3 DEF Making, Makes, Listens
<1>4. \A x : ~Telling(x)
  BY <1>3, MakingTells DEF Telling
<1>5. \A x \in Promises : Begun(x) <=> x = Root
  BY <1>1, <1>3 DEF Begun
<1>6. TypeOK
  <2>1. \A p \in Promises : Len(From[p]) \in Nat
    BY TreeFacts
  <2>2. <<>> \in Seq(Outcomes) /\ work \in Seq(Calls)
    BY <1>3 DEF Making
  <2> QED
    BY <1>1, <2>1, <2>2 DEF TypeOK, Outcomes
<1>7. LinksOK
  BY <1>1, <1>3, <1>5, <1>2 DEF LinksOK
<1>8. MadeOK
  <2> SUFFICES ASSUME NEW p \in Promises, NEW q \in Operands(p) PROVE ~Begun(q)
    BY <1>1 DEF MadeOK
  <2> QED
    BY <1>5, TreeFacts
<1>9. DoneOK
  <2>1. \A m \in Of("then") : ~Begun(Inner[m])
    BY <1>5, TreeFacts DEF Of
  <2> QED
    BY <1>1, <1>4, <2>1 DEF DoneOK, Settled
<1>10. AllOK
  <2> SUFFICES ASSUME NEW m \in Of("all")
               PROVE  nRemaining[m] = Cardinality(Left(m)) /\ \A q \in ToSet(From[m]) : told[q] # <<"fail">>
    BY <1>1, <1>4 DEF AllOK, Of
  <2>1. m \in Promises /\ From[m] \in Seq(Promises) /\ Len(From[m]) \in Nat
        /\ ToSet(From[m]) \subseteq Operands(m) /\ Operands(m) \subseteq Promises
    BY TreeFacts DEF Of
  <2>2. Left(m) = 1 .. Len(From[m])
    <3>1. \A i \in 1 .. Len(From[m]) : From[m][i] \in Promises
      BY <2>1, ElementOfSeq
    <3> QED
      BY <1>1, <3>1 DEF Left
  <2>3. Cardinality(1 .. Len(From[m])) = Len(From[m])
    <3>1. 1 \in Int /\ Len(From[m]) \in Int
      BY <2>1
    <3>2. Cardinality(1 .. Len(From[m])) = IF 1 > Len(From[m]) THEN 0 ELSE Len(From[m]) - 1 + 1
      BY <3>1, FS_Interval
    <3> QED
      BY <2>1, <3>2
  <2>4. nRemaining[m] = Len(From[m]) /\ \A q \in ToSet(From[m]) : told[q] = <<>>
    BY <1>1, <2>1
  <2> QED
    BY <2>2, <2>3, <2>4
<1>11. FinallyOK
  BY <1>1, <1>4 DEF FinallyOK, Settled, Of
<1> QED
  BY <1>3, <1>6, <1>7, <1>8, <1>9, <1>10, <1>11 DEF Inv, WorkOK

\* The invariant is inductive.
LEMMA NextInv == Inv /\ [Next]_vars => Inv'
<1> SUFFICES ASSUME Inv, [Next]_vars PROVE Inv'
  OBVIOUS
<1>1. CASE Call
  BY <1>1, MakeStep, ListenStep, TellStep DEF Call
<1>2. CASE Die
  BY <1>2, DieStep
<1>3. CASE \E p \in owed, outcome \in Outcomes : Complete(p, outcome)
  BY <1>3, CompleteStep
<1>4. CASE UNCHANGED vars
  <2>1. /\ next' = next /\ told' = told /\ nRemaining' = nRemaining /\ result' = result
        /\ ran' = ran /\ owed' = owed /\ work' = work /\ alive' = alive
    BY <1>4 DEF vars
  <2>2. \A x : (Telling(x)' <=> Telling(x)) /\ (Begun(x)' <=> Begun(x)) /\ (Unmade(x)' <=> Unmade(x))
    BY <2>1 DEF Telling, Begun, Unmade
  <2>3. (\A x : Settled(x)' <=> Settled(x)) /\ (\A m \in Promises : Left(m)' = Left(m))
    BY <2>1, <2>2 DEF Settled, Left
  <2>4. TypeOK' /\ WorkOK' /\ LinksOK' /\ MadeOK'
    BY <2>1, <2>2 DEF Inv, TypeOK, WorkOK, LinksOK, MadeOK
  <2>5. DoneOK'
    BY <2>1, <2>2, <2>3 DEF Inv, DoneOK
  <2>6. AllOK' /\ FinallyOK'
    BY <2>1, <2>2, <2>3 DEF Inv, AllOK, FinallyOK, Of
  <2> QED
    BY <2>4, <2>5, <2>6 DEF Inv
<1> QED
  BY <1>1, <1>2, <1>3, <1>4 DEF Next
-----------------------------------------------------------------------------
(***************************************************************************)
(* The theorems.                                                           *)
(***************************************************************************)
\* The inductive invariant holds of every behaviour of every expression.
THEOREM PromiseInvariant == Spec => []Inv
BY InitInv, NextInv, PTL DEF Spec

\* Whatever fails, in whatever order answers come and whenever the factory goes:
\* promises are listened to before they complete, and once; each completes once;
\* `all' waits for all its promises, also after a failure; `finally' runs once.
THEOREM PromisesKeepOrder == Spec => []PromisesInOrder
<1>1. Inv => PromisesInOrder
  <2> SUFFICES ASSUME Inv PROVE PromisesInOrder
    OBVIOUS
  <2>1. TypeOK /\ WorkOK /\ LinksOK /\ DoneOK /\ AllOK /\ FinallyOK
    BY DEF Inv
  <2>2. NoBrokenChain
    <3>1. \A p \in Promises : told[p] # <<>> => p = Root \/ next[p] # NoPromise
      BY <2>1 DEF DoneOK
    <3>2. ASSUME NEW n \in DOMAIN work, work[n].do = "listen" PROVE next[work[n].p] = NoPromise
      <4>1. work \in Seq(Calls) /\ n \in 1 .. Len(work)
        BY <2>1 DEF TypeOK
      <4>2. work[n].p \in Listens(work)
        BY <3>2, <4>1 DEF Listens
      <4> QED
        BY <2>1, <4>2 DEF LinksOK
    <3> QED
      BY <3>1, <3>2 DEF NoBrokenChain
  <2>3. CompletesOnce
    <3>1. ASSUME NEW p \in Promises PROVE Len(told[p]) <= 1
      <4>1. CASE told[p] = <<>>
        BY <4>1
      <4>2. CASE \E outcome \in Outcomes : told[p] = <<outcome>>
        BY <4>2
      <4> QED
        BY <2>1, <4>1, <4>2 DEF DoneOK
    <3> QED
      BY <3>1 DEF CompletesOnce
  <2>4. AllWaits
    <3> SUFFICES ASSUME NEW p \in Of("all"), told[p] # <<>>
                 PROVE  /\ \A q \in ToSet(From[p]) : told[q] # <<>>
                        /\ (Head(told[p]) = "ok") = (\A q \in ToSet(From[p]) : Head(told[q]) = "ok")
      BY DEF AllWaits
    <3>1. p \in Promises /\ Operands(p) = ToSet(From[p]) /\ Inner[p] \notin ToSet(From[p])
          /\ Operands(p) \subseteq Promises
      BY TreeFacts DEF Of
    <3>2. \A q \in ToSet(From[p]) : told[q] # <<>>
      BY <2>1, <3>1 DEF DoneOK, Settled
    <3>3. told[p] = <<result[p]>> /\ Head(told[p]) = result[p]
      BY <2>1 DEF AllOK
    <3>4. result[p] = "ok" <=> \A q \in ToSet(From[p]) : told[q] # <<"fail">>
      BY <2>1 DEF AllOK
    <3>5. \A q \in ToSet(From[p]) : told[q] # <<"fail">> <=> Head(told[q]) = "ok"
      <4> SUFFICES ASSUME NEW q \in ToSet(From[p]) PROVE told[q] # <<"fail">> <=> Head(told[q]) = "ok"
        OBVIOUS
      <4>1. PICK outcome \in Outcomes : told[q] = <<outcome>>
        BY <2>1, <3>1, <3>2 DEF DoneOK
      <4>2. Head(told[q]) = outcome /\ (told[q] = <<"fail">> <=> outcome = "fail")
        BY <4>1
      <4> QED
        BY <4>2 DEF Outcomes
    <3> QED
      BY <3>2, <3>3, <3>4, <3>5
  <2>5. FinallyRuns
    BY <2>1 DEF FinallyRuns, FinallyOK, Settled
  <2> QED
    BY <2>1, <2>2, <2>3, <2>4, <2>5 DEF PromisesInOrder
<1> QED
  BY PromiseInvariant, <1>1, PTL
-----------------------------------------------------------------------------
(***************************************************************************)
(* Planning.                                                               *)
(***************************************************************************)
\* A sum over a function is one over its domain.
LEMMA SumOfFunction == ASSUME NEW f PROVE SumFunction(f) = SumFunctionOnSet(f, DOMAIN f)
BY DEF SumFunction, SumFunctionOnSet, FoldFunctionOnSet, MapThenFoldSet, FoldFunction

\* What the map of items looks like.
IsInfo(x) ==
    /\ x \in [DOMAIN x -> [avail : Nat, backup : Nat]] /\ DOMAIN x \subseteq Items
    /\ IsFiniteSet(DOMAIN x) /\ NoItem \notin DOMAIN x

\* getItem finds an item that the filter accepts and of which there is most.
LEMMA GetItemFacts ==
    ASSUME NEW x, IsInfo(x), NEW f, NEW i, i = GetItem(x, f)
    PROVE  /\ i # NoItem =>
                /\ i \in DOMAIN x /\ x[i].avail > 0 /\ Accepts(f, i)
                /\ \A j \in DOMAIN x : Accepts(f, j) => x[j].avail <= x[i].avail
           /\ i = NoItem => \A j \in DOMAIN x : Accepts(f, j) => x[j].avail = 0
<1> DEFINE C == Candidates(x, f)
           found == {j \in C : x[j].avail > 0}
<1>1. C = {j \in DOMAIN x : Accepts(f, j)}
  BY DEF Candidates, Accepts
<1>2. i = IF found = {} THEN NoItem
          ELSE CHOOSE k \in found : \A j \in found : x[j].avail <= x[k].avail
  BY DEF GetItem
<1>3. \A j \in DOMAIN x : x[j].avail \in Nat
  BY DEF IsInfo
<1> HIDE DEF C
<1>4. CASE found = {}
  BY <1>1, <1>2, <1>3, <1>4 DEF IsInfo
<1>5. CASE found # {}
  <2> DEFINE R == {p \in found \X found : x[p[1]].avail > x[p[2]].avail}
  <2>1. IsFiniteSet(found)
    BY <1>1, FS_Subset DEF IsInfo
  <2>2. found \subseteq DOMAIN x
    BY <1>1
  <2>3. StrictOn(R, found)
    <3>1. \A j \in found : x[j].avail \in Nat
      BY <1>3, <2>2
    <3> HIDE DEF found
    <3> QED
      BY <3>1 DEF StrictOn
  <2>4. PICK k \in found : \A j \in found : <<j, k>> \notin R
    <3> HIDE DEF R, found
    <3> QED
      BY <1>5, <2>1, <2>3, LowestExists
  <2>5. \A j \in found : x[j].avail <= x[k].avail
    <3>1. ASSUME NEW j \in found PROVE ~(x[j].avail > x[k].avail)
      <4> HIDE DEF found
      <4>1. <<j, k>> \in found \X found /\ <<j, k>>[1] = j /\ <<j, k>>[2] = k
        OBVIOUS
      <4> QED
        BY <2>4, <4>1
    <3>2. \A j \in found : x[j].avail \in Nat
      BY <1>3, <2>2
    <3> HIDE DEF found
    <3> QED
      BY <3>1, <3>2
  <2>6. i \in found /\ \A j \in found : x[j].avail <= x[i].avail
    <3> HIDE DEF found
    <3> QED
      BY <1>2, <1>5, <2>5
  <2>7. ASSUME NEW j \in DOMAIN x, Accepts(f, j) PROVE x[j].avail <= x[i].avail
    <3>1. CASE j \in found
      BY <2>6, <3>1
    <3>2. CASE j \notin found
      BY <1>1, <1>3, <2>2, <2>6, <2>7, <3>2
    <3> QED
      BY <3>1, <3>2
  <2>8. i # NoItem
    BY <2>2, <2>6 DEF IsInfo
  <2> QED
    BY <1>1, <2>6, <2>7, <2>8
<1> QED
  BY <1>4, <1>5

\* What the ingredients may use of item i.
LeftFor(x, rec, in, i) ==
    LET d == rec.in[Deciding(rec, in, i)]
    IN Most(0, GetAvail(x, i, d.allowBackup) - d.extraBackup)

\* The places of the ingredients are finitely many.
LEMMA IngredientsFinite ==
    ASSUME NEW rec, IsRecipe(rec)
    PROVE  IsFiniteSet(DOMAIN rec.in) /\ DOMAIN rec.in \subseteq Int /\ DOMAIN rec.in # {}
<1>1. DOMAIN rec.in = 1 .. Len(rec.in) /\ Len(rec.in) \in Nat \ {0}
  BY DEF IsRecipe
<1> DEFINE n == Len(rec.in)
<1> HIDE DEF n
<1>2. DOMAIN rec.in = 1 .. n /\ n \in Nat \ {0}
  BY <1>1 DEF n
<1>3. IsFiniteSet(1 .. n)
  BY <1>2, FS_Interval
<1> QED
  BY <1>2, <1>3

\* The ingredient that decides is the first of the strictest.
LEMMA DecidingFacts ==
    ASSUME NEW rec, IsRecipe(rec), NEW in, DOMAIN in = DOMAIN rec.in,
           NEW i, \E k \in DOMAIN in : in[k] = i, NEW d, d = Deciding(rec, in, i)
    PROVE  /\ d \in DOMAIN in /\ in[d] = i
           /\ rec.in[d].allowBackup => \A k \in DOMAIN in : in[k] = i => rec.in[k].allowBackup
           /\ \A k \in DOMAIN in :
                in[k] = i /\ (~rec.in[d].allowBackup => ~rec.in[k].allowBackup) => d <= k
<1> DEFINE uses == {k \in DOMAIN in : in[k] = i}
           strict == {k \in uses : ~rec.in[k].allowBackup}
           S == IF strict # {} THEN strict ELSE uses
<1>1. S # {} /\ S \subseteq uses
  OBVIOUS
<1>2. uses \subseteq Int /\ IsFiniteSet(uses)
  BY IngredientsFinite, FS_Subset
<1>3. d = Min(S)
  BY DEF Deciding
<1>4. d \in S /\ \A k \in S : d <= k
  <2>1. S \in SUBSET Int /\ IsFiniteSet(S)
    BY <1>1, <1>2, FS_Subset
  <2> HIDE DEF S
  <2> QED
    BY <1>1, <1>3, <2>1, LeastOfFinite
<1> QED
  BY <1>1, <1>4

\* How much of an item the ingredients need for one set.
LEMMA NeededIs ==
    ASSUME NEW rec, IsRecipe(rec), NEW in, DOMAIN in = DOMAIN rec.in, NEW i
    PROVE  /\ Needed(rec, in, i) \in Nat
           /\ \A k \in DOMAIN in : in[k] = i => rec.in[k].size <= Needed(rec, in, i)
           /\ (\A k \in DOMAIN in : in[k] # i) => Needed(rec, in, i) = 0
           /\ Needed(rec, in, i) =
                SumFunctionOnSet([k \in DOMAIN in |-> IF in[k] = i THEN rec.in[k].size ELSE 0], DOMAIN in)
<1> DEFINE f == [k \in DOMAIN in |-> rec.in[k].size]
           g == [k \in DOMAIN in |-> IF in[k] = i THEN rec.in[k].size ELSE 0]
           U == {k \in DOMAIN in : in[k] = i}
<1>1. Needed(rec, in, i) = SumFunctionOnSet(f, U)
  BY SumOfFunction DEF Needed
<1>2. IsFiniteSet(DOMAIN in) /\ IsFiniteSet(U) /\ U \in SUBSET DOMAIN in
  BY IngredientsFinite, FS_Subset
<1>3. \A k \in DOMAIN in : f[k] \in Nat /\ g[k] \in Nat
  BY DEF IsRecipe
<1>4. /\ \A k \in U : f[k] = g[k] /\ f[k] = rec.in[k].size
      /\ \A k \in DOMAIN in \ U : g[k] = 0
  OBVIOUS
<1> HIDE DEF f, g
<1>5. SumFunctionOnSet(f, U) \in Nat /\ \A k \in U : f[k] <= SumFunctionOnSet(f, U)
  BY <1>2, <1>3, SumNatural
<1>6. SumFunctionOnSet(f, U) = SumFunctionOnSet(g, U)
  BY <1>2, <1>3, <1>4, SumSame
<1>7. SumFunctionOnSet(g, U) = SumFunctionOnSet(g, DOMAIN in)
  BY <1>2, <1>3, <1>4, SumWithin
<1>8. (\A k \in DOMAIN in : in[k] # i) => SumFunctionOnSet(f, U) = 0
  BY SumEmpty
<1> QED
  BY <1>1, <1>4, <1>5, <1>6, <1>7, <1>8 DEF g

\* How many sets the stack size and what is left of an ingredient allow.
Clip(rec, in, k) == MaxSize[in[k]] \div rec.in[k].size
Quota(x, rec, in, k) == LeftFor(x, rec, in, in[k]) \div Needed(rec, in, in[k])

\* Quotients are numbers.
LEMMA Quotients == \A m \in Nat, n \in Nat \ {0} : m \div n \in Nat
OBVIOUS

\* What resolveRecipeInputs returns: the least of all that limits the sets.
Resolves(x, rec, rs) ==
    /\ rs.in = [k \in DOMAIN rec.in |-> GetItem(x, rec.in[k].item)]
    /\ rs.inAvail \in Nat
    /\ rs.inAvail # 0 =>
         \A k \in DOMAIN rec.in : /\ rs.in[k] # NoItem
                                  /\ rs.inAvail <= Clip(rec, rs.in, k)
                                  /\ rs.inAvail <= Quota(x, rec, rs.in, k)
    /\ \E k \in DOMAIN rec.in : \/ rs.in[k] = NoItem
                                \/ rs.inAvail = Clip(rec, rs.in, k)
                                \/ rs.inAvail = Quota(x, rec, rs.in, k)
    /\ \A k \in DOMAIN rec.in : rs.in[k] = NoItem => rs.inAvail = 0
    /\ \A k \in DOMAIN rec.in : rs.in[k] # NoItem =>
         /\ rs.in[k] \in DOMAIN x /\ rs.in[k] \in Items
         /\ LeftFor(x, rec, rs.in, rs.in[k]) \in Nat
         /\ Needed(rec, rs.in, rs.in[k]) \in Nat \ {0}
         /\ MaxSize[rs.in[k]] \in Nat \ {0}

\* This is what it returns.
LEMMA ResolveFacts ==
    ASSUME ItemsAssumption, NEW x, IsInfo(x), NEW rec, IsRecipe(rec),
           NEW rs, rs = ResolveRecipeInputs(x, rec, TRUE)
    PROVE  Resolves(x, rec, rs)
<1> DEFINE D == DOMAIN rec.in
           in == [k \in D |-> GetItem(x, rec.in[k].item)]
           found == {in[k] : k \in DOMAIN in} \ {NoItem}
           sets == {LeftFor(x, rec, in, i) \div Needed(rec, in, i) : i \in found}
           clips == {MaxSize[in[k]] \div rec.in[k].size : k \in {m \in DOMAIN in : in[m] # NoItem}}
<1>1. /\ rs.in = in
      /\ rs.inAvail = IF \E k \in DOMAIN in : in[k] = NoItem THEN 0 ELSE Min(sets \cup clips)
  BY DEF ResolveRecipeInputs, Clips, LeftFor
<1>2. ASSUME NEW k \in D, in[k] # NoItem
      PROVE  /\ in[k] \in DOMAIN x /\ in[k] \in Items /\ MaxSize[in[k]] \in Nat \ {0}
             /\ LeftFor(x, rec, in, in[k]) \in Nat /\ Needed(rec, in, in[k]) \in Nat \ {0}
  <2> DEFINE i == in[k]
             d == Deciding(rec, in, i)
  <2>1. i = GetItem(x, rec.in[k].item) /\ i # NoItem /\ DOMAIN in = DOMAIN rec.in /\ in[k] = i
    BY <1>2
  <2> HIDE DEF in, i
  <2>2. i \in DOMAIN x /\ i \in Items
    BY <2>1, GetItemFacts DEF IsInfo
  <2>3. d \in DOMAIN in /\ DOMAIN in = D
    <3>1. \E m \in DOMAIN in : in[m] = i
      BY <2>1
    <3> QED
      BY <2>1, <3>1, DecidingFacts
  <2>4. rec.in[d].extraBackup \in Nat
    BY <2>3 DEF IsRecipe
  <2>5. x[i].avail \in Nat /\ x[i].backup \in Nat
    BY <2>2 DEF IsInfo
  <2>6. LeftFor(x, rec, in, i) \in Nat
    <3> DEFINE e == rec.in[d].extraBackup
               a == GetAvail(x, i, rec.in[d].allowBackup)
    <3>1. a \in Nat
      BY <2>2, <2>5 DEF GetAvail, Most
    <3>2. LeftFor(x, rec, in, i) = Most(0, a - e)
      BY DEF LeftFor
    <3> HIDE DEF a, e
    <3> QED
      BY <2>4, <3>1, <3>2 DEF Most, e
  <2>7. Needed(rec, in, i) \in Nat /\ rec.in[k].size <= Needed(rec, in, i)
    BY <2>1, <2>3, NeededIs
  <2>8. rec.in[k].size \in Nat \ {0} /\ MaxSize[i] \in Nat \ {0}
    BY <2>2 DEF IsRecipe, ItemsAssumption
  <2> QED
    BY <2>2, <2>6, <2>7, <2>8 DEF i
<1>3. CASE \E k \in D : in[k] = NoItem
  <2>1. rs.inAvail = 0
    BY <1>1, <1>3
  <2>2. \E k \in DOMAIN rec.in : rs.in[k] = NoItem
    BY <1>1, <1>3
  <2>3. \A k \in DOMAIN rec.in : rs.in[k] # NoItem =>
            /\ rs.in[k] \in DOMAIN x /\ rs.in[k] \in Items
            /\ LeftFor(x, rec, rs.in, rs.in[k]) \in Nat
            /\ Needed(rec, rs.in, rs.in[k]) \in Nat \ {0}
            /\ MaxSize[rs.in[k]] \in Nat \ {0}
    <3> HIDE DEF in
    <3> QED
      BY <1>1, <1>2
  <2>4. rs.in = [k \in DOMAIN rec.in |-> GetItem(x, rec.in[k].item)]
    BY <1>1
  <2>5. rs.inAvail \in Nat
    <3>1. \A n : n = 0 => n \in Nat
      OBVIOUS
    <3> QED
      BY <2>1, <3>1, Zenon
  <2> QED
    BY <2>1, <2>2, <2>3, <2>4, <2>5, Zenon DEF Resolves
<1>4. CASE \A k \in D : in[k] # NoItem
  <2> DEFINE clip == [k \in D |-> Clip(rec, in, k)]
             share == [k \in D |-> Quota(x, rec, in, k)]
             S == {clip[k] : k \in D} \cup {share[k] : k \in D}
  <2>1. rs.inAvail = Min(S)
    <3>1. sets = {share[k] : k \in D}
      BY <1>4 DEF Quota
    <3>2. clips = {clip[k] : k \in D}
      BY <1>4 DEF Clip
    <3>3. sets \cup clips = S
      BY <3>1, <3>2
    <3> HIDE DEF sets, clips, S
    <3> QED
      BY <1>1, <1>4, <3>3
  <2>2. ASSUME NEW k \in D PROVE clip[k] \in Nat /\ share[k] \in Nat
    <3> DEFINE m == MaxSize[in[k]]
               n == rec.in[k].size
               l == LeftFor(x, rec, in, in[k])
               e == Needed(rec, in, in[k])
    <3>1. m \in Nat /\ l \in Nat /\ e \in Nat \ {0} /\ n \in Nat \ {0}
      BY <1>2, <1>4 DEF IsRecipe
    <3>2. clip[k] = m \div n /\ share[k] = l \div e
      BY DEF Clip, Quota
    <3> HIDE DEF m, n, l, e, clip, share
    <3> QED
      BY <3>1, <3>2, Quotients
  <2>3. IsFiniteSet(D) /\ D # {}
    BY IngredientsFinite
  <2> HIDE DEF clip, share, D
  <2>4. IsFiniteSet({clip[k] : k \in D}) /\ IsFiniteSet({share[k] : k \in D})
    <3>1. [k \in D |-> clip[k]] \in Surjection(D, {clip[k] : k \in D})
      BY DEF Surjection
    <3>2. [k \in D |-> share[k]] \in Surjection(D, {share[k] : k \in D})
      BY DEF Surjection
    <3> QED
      BY <2>3, <3>1, <3>2, FS_Surjection
  <2>5. S \in SUBSET Int /\ S # {} /\ IsFiniteSet(S)
    <3>1. S \subseteq Nat
      BY <2>2
    <3>2. S # {}
      BY <2>3
    <3> HIDE DEF S
    <3>3. IsFiniteSet(S)
      BY <2>4, FS_Union DEF S
    <3> QED
      BY <3>1, <3>2, <3>3
  <2>6. rs.inAvail \in S /\ \A s \in S : rs.inAvail <= s
    <3> HIDE DEF S
    <3>1. Min(S) \in S /\ \A s \in S : Min(S) <= s
      BY <2>5, LeastOfFinite
    <3> QED
      BY <2>1, <3>1
  <2>7. \E k \in D : rs.inAvail = clip[k] \/ rs.inAvail = share[k]
    BY <2>6
  <2>8. \A k \in D : rs.inAvail <= clip[k] /\ rs.inAvail <= share[k]
    BY <2>6
  <2>9. rs.inAvail \in Nat
    BY <2>2, <2>7
  <2> QED
    BY <1>1, <1>2, <1>4, <2>7, <2>8, <2>9 DEF clip, share, D, Resolves
<1> QED
  BY <1>3, <1>4

\* Multiplication by a positive number keeps the order.
LEMMA Multiplied ==
    ASSUME NEW a \in Int, NEW b \in Int, NEW c \in Nat \ {0}
    PROVE  (a < b <=> a * c < b * c) /\ (a <= b <=> a * c <= b * c)
OBVIOUS

\* If one fraction is at least another and this at least a third, then the first is
\* at least the third, and if one of the two is greater, greater.
LEMMA FractionChain ==
    ASSUME NEW a \in Nat, NEW b \in Nat \ {0}, NEW c \in Nat, NEW d \in Nat \ {0},
           NEW e \in Nat, NEW f \in Nat \ {0}, c * b <= a * d, e * d <= c * f
    PROVE  /\ e * b <= a * f
           /\ c * b < a * d \/ e * d < c * f => e * b < a * f
<1> DEFINE cb == c * b ad == a * d ed == e * d cf == c * f eb == e * b af == a * f
<1>1. /\ cb \in Int /\ ad \in Int /\ ed \in Int /\ cf \in Int /\ eb \in Int /\ af \in Int
  OBVIOUS
<1>2. cb * f = cf * b /\ ed * b = eb * d /\ ad * f = af * d
  OBVIOUS
<1>3. cb <= ad /\ ed <= cf
  OBVIOUS
<1>4. c * b < a * d <=> cb < ad
  OBVIOUS
<1>5. e * d < c * f <=> ed < cf
  OBVIOUS
<1> HIDE DEF cb, ad, ed, cf, eb, af
<1>6. cb * f <= ad * f /\ ed * b <= cf * b
  BY <1>1, <1>3, Multiplied
<1>7. /\ cb < ad => cb * f < ad * f
      /\ ed < cf => ed * b < cf * b
  BY <1>1, Multiplied
<1> DEFINE cbf == cb * f adf == ad * f edb == ed * b
<1>8. cbf \in Int /\ adf \in Int /\ edb \in Int
  BY <1>1
<1>9. edb <= cbf /\ cbf <= adf /\ (cb < ad => cbf < adf) /\ (ed < cf => edb < cbf)
  BY <1>2, <1>6, <1>7
<1>10. eb * d = edb /\ af * d = adf
  BY <1>2
<1> HIDE DEF cbf, adf, edb
<1>11. eb * d <= af * d /\ (cb < ad \/ ed < cf => eb * d < af * d)
  BY <1>8, <1>9, <1>10
<1>12. eb <= af /\ (cb < ad \/ ed < cf => eb < af)
  BY <1>1, <1>11, Multiplied
<1> QED
  BY <1>4, <1>5, <1>12 DEF eb, af

\* Fractions of positive numbers are ordered, as Below compares them.
Fractions == Nat \X (Nat \ {0})
LEMMA FractionOrder ==
    ASSUME NEW p \in Fractions, NEW q \in Fractions, NEW r \in Fractions
    PROVE  /\ ~Below(p, p)
           /\ ~Below(p, q) /\ ~Below(q, r) => ~Below(p, r)
           /\ ~Below(q, p) /\ Below(q, r) => Below(p, r)
           /\ Below(p, q) /\ ~Below(r, q) => Below(p, r)
           /\ Below(p, q) => ~Below(q, p)
<1> DEFINE a == p[1] b == p[2] c == q[1] d == q[2] e == r[1] f == r[2]
<1>1. /\ a \in Nat /\ b \in Nat \ {0} /\ c \in Nat /\ d \in Nat \ {0}
      /\ e \in Nat /\ f \in Nat \ {0}
  BY DEF Fractions
<1>2. /\ Below(p, p) <=> a * b < a * b
      /\ Below(p, q) <=> a * d < c * b
      /\ Below(q, p) <=> c * b < a * d
      /\ Below(q, r) <=> c * f < e * d
      /\ Below(r, q) <=> e * d < c * f
      /\ Below(p, r) <=> a * f < e * b
  BY DEF Below
<1> HIDE DEF a, b, c, d, e, f
<1>3. /\ a * b \in Int /\ a * d \in Int /\ c * b \in Int /\ c * f \in Int /\ e * d \in Int
      /\ a * f \in Int /\ e * b \in Int
  BY <1>1
<1>4. \A m, n \in Int : (~(m < n) <=> n <= m) /\ (m < n => ~(n < m) /\ m <= n) /\ ~(m < m)
  OBVIOUS
<1>5. c * b <= a * d /\ e * d <= c * f => e * b <= a * f
  BY <1>1, FractionChain
<1>6. a * d <= c * b /\ c * f <= e * d /\ (a * d < c * b \/ c * f < e * d) => a * f < e * b
  BY <1>1, FractionChain
<1>7. ~(a * d < c * b) /\ ~(c * f < e * d) => ~(a * f < e * b)
  BY <1>3, <1>4, <1>5, Zenon
<1>8. ~(c * b < a * d) /\ c * f < e * d => a * f < e * b
  BY <1>3, <1>4, <1>6, Zenon
<1>9. a * d < c * b /\ ~(e * d < c * f) => a * f < e * b
  BY <1>3, <1>4, <1>6, Zenon
<1>10. a * d < c * b => ~(c * b < a * d)
  BY <1>3, <1>4, Zenon
<1> QED
  BY <1>2, <1>3, <1>4, <1>7, <1>8, <1>9, <1>10, Zenon

\* The fullness of a recipe that is wanted, and how it compares to its outputs.
LEMMA FullnessFacts ==
    ASSUME NEW x, IsInfo(x), NEW rec, IsRecipe(rec), Wanted(x, rec)
    PROVE  /\ Fullness(x, rec) \in Fractions
           /\ \A s \in Missing(x, rec) : s \in Fractions
           /\ rec.out # <<>> =>
                /\ Fullness(x, rec) \in Missing(x, rec)
                /\ \A s \in Missing(x, rec) : ~Below(s, Fullness(x, rec))
<1> DEFINE M == Missing(x, rec)
           D == DOMAIN rec.out
           share == [k \in D |-> Share(x, rec.out[k])]
           shares == {share[k] : k \in D}
<1>1. M = {s \in shares : s[1] < s[2]}
  BY DEF Missing
<1>2. ASSUME NEW k \in D
      PROVE  /\ share[k] = <<GetAvail(x, GetItem(x, rec.out[k].item), TRUE), rec.out[k].size>>
             /\ share[k][1] \in Nat /\ share[k][2] \in Int
  <2> DEFINE i == GetItem(x, rec.out[k].item)
             a == GetAvail(x, i, TRUE)
  <2>1. share[k] = <<a, rec.out[k].size>>
    BY DEF Share
  <2>2. a \in Nat
    <3> HIDE DEF i
    <3>1. i \in DOMAIN x => x[i].avail \in Nat
      BY DEF IsInfo
    <3> QED
      BY <3>1 DEF GetAvail
  <2>3. rec.out[k].size \in Int
    BY DEF IsRecipe
  <2> HIDE DEF share
  <2>4. share[k][1] = a /\ share[k][2] = rec.out[k].size
    <3> HIDE DEF a
    <3> QED
      BY <2>1
  <2> QED
    BY <2>1, <2>2, <2>3, <2>4, Zenon
<1>3. \A s \in M : s \in Fractions
  <2> SUFFICES ASSUME NEW s \in M PROVE s \in Fractions
    OBVIOUS
  <2>1. PICK k \in D : s = share[k]
    BY <1>1
  <2>2. s[1] < s[2]
    BY <1>1
  <2> DEFINE a == GetAvail(x, GetItem(x, rec.out[k].item), TRUE)
             b == rec.out[k].size
  <2>3. s = <<a, b>> /\ s[1] \in Nat /\ s[2] \in Int
    BY <1>2, <2>1
  <2> HIDE DEF a, b, M
  <2>4. a \in Nat /\ b \in Int /\ a < b
    BY <2>2, <2>3
  <2>5. b \in Nat \ {0}
    BY <2>4
  <2> QED
    BY <2>3, <2>4, <2>5 DEF Fractions
<1>4. CASE rec.out = <<>>
  <2>1. Fullness(x, rec) = <<2, 1>>
    BY <1>4 DEF Fullness
  <2>2. <<2, 1>> \in Fractions
    BY DEF Fractions
  <2> HIDE DEF M
  <2> QED
    BY <1>3, <1>4, <2>1, <2>2, Zenon DEF M
<1>5. CASE rec.out # <<>>
  <2>1. M # {} /\ Fullness(x, rec) = Lowest(M)
    BY <1>5 DEF Wanted, Fullness
  <2>2. IsFiniteSet(M)
    <3>1. IsFiniteSet(D)
      <4> DEFINE n == Len(rec.out)
      <4>1. D = 1 .. n /\ n \in Nat
        BY DEF IsRecipe
      <4> HIDE DEF n, D
      <4> QED
        BY <4>1, FS_Interval
    <3>2. share \in Surjection(D, shares)
      <4> HIDE DEF D
      <4>1. share \in [D -> shares] /\ \A s \in shares : \E k \in D : share[k] = s
        OBVIOUS
      <4> HIDE DEF share, shares
      <4> QED
        BY <4>1 DEF Surjection
    <3> HIDE DEF share, shares, D
    <3>3. IsFiniteSet(shares)
      BY <3>1, <3>2, FS_Surjection
    <3>4. M \in SUBSET shares
      BY <1>1
    <3> HIDE DEF M
    <3> QED
      BY <3>3, <3>4, FS_Subset
  <2> DEFINE R == {p \in M \X M : Below(p[1], p[2])}
  <2> HIDE DEF M
  <2>3. \A s, t \in M : <<s, t>> \in R <=> Below(s, t)
    <3> SUFFICES ASSUME NEW s \in M, NEW t \in M PROVE <<s, t>> \in R <=> Below(s, t)
      OBVIOUS
    <3>1. <<s, t>> \in M \X M /\ <<s, t>>[1] = s /\ <<s, t>>[2] = t
      OBVIOUS
    <3> QED
      BY <3>1, Zenon
  <2> HIDE DEF R
  <2>4. StrictOn(R, M)
    <3>1. \A s \in M : ~Below(s, s)
      BY <1>3, FractionOrder
    <3>2. \A s, t, u \in M : Below(s, t) /\ Below(t, u) => Below(s, u)
      <4> SUFFICES ASSUME NEW s \in M, NEW t \in M, NEW u \in M, Below(s, t), Below(t, u)
                   PROVE  Below(s, u)
        BY Zenon
      <4>1. s \in Fractions /\ t \in Fractions /\ u \in Fractions
        BY <1>3
      <4>2. ~Below(t, s)
        BY <4>1, FractionOrder
      <4> QED
        BY <4>1, <4>2, FractionOrder
    <3> QED
      BY <2>3, <3>1, <3>2, Zenon DEF StrictOn
  <2>5. \E s \in M : \A t \in M : ~Below(t, s)
    <3>1. \E s \in M : \A t \in M : <<t, s>> \notin R
      BY <2>1, <2>2, <2>4, LowestExists
    <3> QED
      BY <2>3, <3>1, Zenon
  <2>6. Lowest(M) \in M /\ \A t \in M : ~Below(t, Lowest(M))
    BY <2>5, Zenon DEF Lowest
  <2> QED
    BY <1>3, <2>1, <2>6, Zenon DEF M
<1> QED
  BY <1>4, <1>5

\* What is earlier in the order of the sort.
EarlierIn(x, recipes, D) == {p \in D \X D : Earlier(x, recipes, p[1], p[2])}

\* This orders all recipes that are wanted.
LEMMA EarlierOrders ==
    ASSUME NEW x, IsInfo(x), NEW recipes, AreRecipes(recipes), NEW D \in SUBSET DOMAIN recipes,
           \A r \in D : Wanted(x, recipes[r])
    PROVE  /\ IsFiniteSet(D) /\ StrictOn(EarlierIn(x, recipes, D), D)
           /\ \A r, s \in D : r # s =>
                <<r, s>> \in EarlierIn(x, recipes, D) \/ <<s, r>> \in EarlierIn(x, recipes, D)
           /\ \A r, s \in D : <<r, s>> \notin EarlierIn(x, recipes, D) =>
                ~Before(x, recipes[r], recipes[s])
<1> DEFINE full(r) == Fullness(x, recipes[r])
           R == EarlierIn(x, recipes, D)
<1>1. IsFiniteSet(D) /\ DOMAIN recipes \subseteq Int
  <2> DEFINE n == Len(recipes)
  <2>1. DOMAIN recipes = 1 .. n /\ n \in Nat
    BY DEF AreRecipes
  <2> HIDE DEF n
  <2>2. IsFiniteSet(1 .. n)
    BY <2>1, FS_Interval
  <2>3. IsFiniteSet(D)
    BY <2>1, <2>2, FS_Subset
  <2> QED
    BY <2>1, <2>3
<1>2. \A r \in D : full(r) \in Fractions
  <2> SUFFICES ASSUME NEW r \in D PROVE full(r) \in Fractions
    OBVIOUS
  <2>1. IsRecipe(recipes[r])
    BY DEF AreRecipes
  <2> QED
    BY <2>1, FullnessFacts
<1>3. \A r, s \in D : <<r, s>> \in R <=>
        \/ Below(full(r), full(s))
        \/ ~Below(full(s), full(r)) /\ r < s
  <2> SUFFICES ASSUME NEW r \in D, NEW s \in D
               PROVE  <<r, s>> \in R <=> Earlier(x, recipes, r, s)
    BY Zenon DEF Earlier, Before
  <2>1. <<r, s>> \in D \X D /\ <<r, s>>[1] = r /\ <<r, s>>[2] = s
    OBVIOUS
  <2> QED
    BY <2>1, Zenon DEF EarlierIn
<1> HIDE DEF full, R
<1>4. \A r, s \in D : (r < s => ~(s < r)) /\ ~(r < r) /\ (r # s => r < s \/ s < r)
  BY <1>1
<1>5. StrictOn(R, D)
  <2>1. \A r \in D : <<r, r>> \notin R
    <3> SUFFICES ASSUME NEW r \in D PROVE <<r, r>> \notin R
      OBVIOUS
    <3>1. full(r) \in Fractions
      BY <1>2
    <3>2. ~Below(full(r), full(r))
      BY <3>1, FractionOrder
    <3> QED
      BY <1>3, <1>4, <3>2, Zenon
  <2>2. ASSUME NEW r \in D, NEW s \in D, NEW t \in D, <<r, s>> \in R, <<s, t>> \in R
        PROVE  <<r, t>> \in R
    <3> DEFINE a == full(r) b == full(s) c == full(t)
    <3>1. a \in Fractions /\ b \in Fractions /\ c \in Fractions
      BY <1>2
    <3>2. Below(a, b) \/ (~Below(b, a) /\ r < s)
      BY <1>3, <2>2, Zenon
    <3>3. Below(b, c) \/ (~Below(c, b) /\ s < t)
      BY <1>3, <2>2, Zenon
    <3>4. r < s /\ s < t => r < t
      BY <1>1
    <3> HIDE DEF a, b, c
    <3>5. Below(a, b) => ~Below(b, a)
      BY <3>1, FractionOrder
    <3>6. Below(b, c) => ~Below(c, b)
      BY <3>1, FractionOrder
    <3>7. Below(a, b) /\ ~Below(c, b) => Below(a, c)
      BY <3>1, FractionOrder
    <3>8. ~Below(b, a) /\ Below(b, c) => Below(a, c)
      BY <3>1, FractionOrder
    <3>9. ~Below(c, b) /\ ~Below(b, a) => ~Below(c, a)
      BY <3>1, FractionOrder
    <3>10. Below(a, c) \/ (~Below(c, a) /\ r < t)
      BY <3>2, <3>3, <3>4, <3>5, <3>6, <3>7, <3>8, <3>9, Zenon
    <3> QED
      BY <1>3, <3>10, Zenon DEF a, c
  <2> QED
    BY <2>1, <2>2, Zenon DEF StrictOn
<1>6. ASSUME NEW r \in D, NEW s \in D, r # s PROVE <<r, s>> \in R \/ <<s, r>> \in R
  BY <1>3, <1>4, <1>6, Zenon
<1>7. ASSUME NEW r \in D, NEW s \in D, <<r, s>> \notin R PROVE ~Before(x, recipes[r], recipes[s])
  BY <1>3, <1>7, Zenon DEF full, Before
<1> QED
  BY <1>1, <1>5, <1>6, <1>7, Zenon DEF R

\* Each place holds what has as many before it as the place says, if there is such.
Ranked(x, recipes, D, ds) ==
    \A n \in DOMAIN ds :
        (\E r \in D : Cardinality(Under(EarlierIn(x, recipes, D), D, r)) = n - 1)
          => ds[n] \in D /\ Cardinality(Under(EarlierIn(x, recipes, D), D, ds[n])) = n - 1

\* A list of all of a set, each once and never after one that is less full.
IsNeediestFirst(x, recipes, D, ds) ==
    /\ \A n \in DOMAIN ds : ds[n] \in D
    /\ \A r \in D : \E n \in DOMAIN ds : ds[n] = r
    /\ \A m, n \in DOMAIN ds : m < n =>
         /\ ds[m] # ds[n]
         /\ ~Before(x, recipes[ds[n]], recipes[ds[m]])

\* What has as many before it as its place says is sorted.
LEMMA SortedByRank ==
    ASSUME NEW x, IsInfo(x), NEW recipes, AreRecipes(recipes),
           NEW D \in SUBSET DOMAIN recipes, \A r \in D : Wanted(x, recipes[r]),
           NEW ds, DOMAIN ds = 1 .. Cardinality(D), Ranked(x, recipes, D, ds)
    PROVE  IsFiniteSet(D) /\ IsNeediestFirst(x, recipes, D, ds)
<1> DEFINE R == EarlierIn(x, recipes, D)
<1>1. /\ IsFiniteSet(D) /\ StrictOn(R, D)
      /\ \A r, s \in D : r # s => <<r, s>> \in R \/ <<s, r>> \in R
      /\ \A r, s \in D : <<r, s>> \notin R => ~Before(x, recipes[r], recipes[s])
  BY EarlierOrders, Zenon
<1>2. \A n \in DOMAIN ds : (\E r \in D : Cardinality(Under(R, D, r)) = n - 1)
        => ds[n] \in D /\ Cardinality(Under(R, D, ds[n])) = n - 1
  BY DEF Ranked
<1> HIDE DEF R
<1>3. \A n \in 1 .. Cardinality(D) : \E r \in D : Cardinality(Under(R, D, r)) = n - 1
  BY <1>1, EveryRank
<1>4. \A n \in DOMAIN ds : ds[n] \in D /\ Cardinality(Under(R, D, ds[n])) = n - 1
  BY <1>2, <1>3
<1>5. /\ \A r \in D : \E n \in DOMAIN ds : ds[n] = r
      /\ \A m, n \in DOMAIN ds : m < n => ds[m] # ds[n] /\ <<ds[n], ds[m]>> \notin R
  BY <1>1, <1>4, RankedAre
<1> QED
  BY <1>1, <1>4, <1>5, Zenon DEF IsNeediestFirst

\* getDemand lists what is demanded, each once, the neediest first.
LEMMA DemandFacts ==
    ASSUME NEW x, IsInfo(x), NEW recipes, AreRecipes(recipes),
           NEW D, D = Demanded(x, recipes, TRUE),
           NEW ds, ds = GetDemand(x, recipes, TRUE)
    PROVE  /\ IsFiniteSet(D) /\ D \subseteq DOMAIN recipes
           /\ DOMAIN ds = 1 .. Cardinality(D)
           /\ IsNeediestFirst(x, recipes, D, ds)
<1> DEFINE R == EarlierIn(x, recipes, D)
           before(r) == {s \in D : Earlier(x, recipes, s, r)}
           nth(n) == CHOOSE r \in D : Cardinality(before(r)) = n - 1
<1>1. D \in SUBSET DOMAIN recipes /\ \A r \in D : Wanted(x, recipes[r])
  BY Zenon DEF Demanded
<1>2. \A r \in D : before(r) = Under(R, D, r)
  <2> SUFFICES ASSUME NEW r \in D, NEW s \in D
               PROVE  Earlier(x, recipes, s, r) <=> s \in Under(R, D, r)
    BY Zenon DEF Under
  <2>1. <<s, r>> \in D \X D /\ <<s, r>>[1] = s /\ <<s, r>>[2] = r
    OBVIOUS
  <2> QED
    BY <2>1, Zenon DEF Under, EarlierIn
<1>3. DOMAIN ds = 1 .. Cardinality(D) /\ \A n \in DOMAIN ds : ds[n] = nth(n)
  <2>1. ds = [n \in 1 .. Cardinality(D) |-> nth(n)]
    BY DEF GetDemand
  <2> HIDE DEF nth
  <2> QED
    BY <2>1, Zenon
<1>4. ASSUME NEW n, \E r \in D : Cardinality(before(r)) = n - 1
      PROVE  nth(n) \in D /\ Cardinality(before(nth(n))) = n - 1
  BY <1>4, Zenon
<1> HIDE DEF R, nth, before
<1>5. \A n \in DOMAIN ds : (\E r \in D : Cardinality(Under(R, D, r)) = n - 1)
        => ds[n] \in D /\ Cardinality(Under(R, D, ds[n])) = n - 1
  BY <1>2, <1>3, <1>4, Zenon
<1>6. DOMAIN ds = 1 .. Cardinality(D)
  BY <1>3, Zenon
<1>7. Ranked(x, recipes, D, ds)
  BY <1>5, Zenon DEF R, Ranked
<1>8. IsFiniteSet(D) /\ IsNeediestFirst(x, recipes, D, ds)
  BY <1>1, <1>6, <1>7, SortedByRank, Zenon
<1>9. D \subseteq DOMAIN recipes
  BY <1>1, Zenon
<1> QED
  BY <1>6, <1>8, <1>9, Zenon

\* Multiplication keeps the order.
LEMMA MultipliedNat ==
    ASSUME NEW a \in Nat, NEW b \in Nat, NEW c \in Nat, a <= b
    PROVE  a * c \in Nat /\ a * c <= b * c
OBVIOUS

\* How a quotient bounds a product.
LEMMA QuotientBounds ==
    ASSUME NEW a \in Nat, NEW b \in Nat \ {0}
    PROVE  /\ a \div b \in Nat
           /\ \A s \in Nat : s <= a \div b => s * b <= a /\ s * b \in Nat
           /\ (a \div b + 1) * b > a
<1> DEFINE q == a \div b
<1>1. q \in Nat /\ q * b <= a /\ (q + 1) * b > a
  OBVIOUS
<1> HIDE DEF q
<1>2. ASSUME NEW s \in Nat, s <= q PROVE s * b <= a /\ s * b \in Nat
  <2>1. s * b \in Nat /\ s * b <= q * b
    BY <1>1, <1>2, MultipliedNat
  <2> DEFINE sb == s * b qb == q * b
  <2>2. sb \in Nat /\ sb <= qb /\ qb <= a /\ qb \in Int
    BY <1>1, <2>1
  <2> HIDE DEF sb, qb
  <2>3. sb <= a
    BY <2>2
  <2> QED
    BY <2>1, <2>3 DEF sb
<1> QED
  BY <1>1, <1>2 DEF q

\* Extra is what the ingredient that decides must leave besides the backup.
LEMMA ExtraIs ==
    ASSUME NEW r, IsRecipe(Recipes[r]), NEW in, in = InputsOf(r),
           NEW i, \E k \in DOMAIN in : in[k] = i,
           NEW d, d = Deciding(Recipes[r], in, i)
    PROVE  /\ DOMAIN in = DOMAIN Recipes[r].in /\ d \in DOMAIN in
           /\ Strict(r, i) <=> ~Recipes[r].in[d].allowBackup
           /\ Extra(r, i) = Recipes[r].in[d].extraBackup
<1> DEFINE rec == Recipes[r]
           decides(k) == in[k] = i /\ (Strict(r, i) => ~rec.in[k].allowBackup)
           first(k) == k \in DOMAIN in /\ decides(k) /\ \A m \in DOMAIN in : decides(m) => k <= m
<1>1. DOMAIN in = DOMAIN rec.in
  BY DEF InputsOf
<1>2. /\ d \in DOMAIN in /\ in[d] = i
      /\ rec.in[d].allowBackup => \A k \in DOMAIN in : in[k] = i => rec.in[k].allowBackup
      /\ \A k \in DOMAIN in : in[k] = i /\ (~rec.in[d].allowBackup => ~rec.in[k].allowBackup) => d <= k
  BY <1>1, DecidingFacts
<1>3. Strict(r, i) <=> ~rec.in[d].allowBackup
  BY <1>2 DEF Strict
<1>4. first(d)
  BY <1>2, <1>3
<1>5. \A k : first(k) => k = d
  <2>1. \A k, m \in DOMAIN in : k <= m /\ m <= k => k = m
    BY <1>1, IngredientsFinite
  <2> QED
    BY <1>4, <2>1
<1>6. Extra(r, i) = rec.in[CHOOSE k \in DOMAIN in : decides(k) /\ \A m \in DOMAIN in : decides(m) => k <= m].extraBackup
  BY DEF Extra
<1>7. (CHOOSE k \in DOMAIN in : decides(k) /\ \A m \in DOMAIN in : decides(m) => k <= m) = d
  <2> HIDE DEF decides
  <2> QED
    BY <1>4, <1>5
<1> QED
  BY <1>1, <1>2, <1>3, <1>6, <1>7

\* What is left of an item in numbers, and when a number of sets needs no more.
Allows(avail, hold, e, need, left) ==
    /\ left \in Nat /\ left <= avail
    /\ left # 0 => left <= avail - hold
    /\ \A s \in Nat \ {0} : s <= left \div need =>
         s * need + e + hold <= avail
    /\ ~((left \div need + 1) * need + e + hold <= avail)

\* This is so by the definition of what is left.
LEMMA LeftIs ==
    ASSUME NEW avail \in Nat, NEW hold \in Nat, NEW e \in Nat, NEW need \in Nat \ {0},
           NEW left, left = Most(0, Most(0, avail - hold) - e)
    PROVE  Allows(avail, hold, e, need, left)
<1>1. /\ left \in Nat /\ left <= avail
      /\ left # 0 => left <= avail - hold
      /\ left # 0 => left + e + hold = avail
      /\ left = 0 => avail <= e + hold
  BY DEF Most
<1>2. /\ \A s \in Nat : s <= left \div need => s * need <= left /\ s * need \in Nat
      /\ (left \div need + 1) * need > left
      /\ left \div need \in Nat
  BY <1>1, QuotientBounds
<1>3. ASSUME NEW s \in Nat \ {0}, s <= left \div need
      PROVE  s * need + e + hold <= avail
  <2>1. s * need <= left /\ s * need \in Nat
    BY <1>2, <1>3
  <2>2. s * need # 0
    OBVIOUS
  <2> DEFINE sn == s * need
  <2>3. sn <= left /\ sn \in Nat \ {0}
    BY <2>1, <2>2
  <2> HIDE DEF sn
  <2>4. sn + e + hold <= avail
    BY <1>1, <2>3
  <2> QED
    BY <2>4 DEF sn
<1>4. ~((left \div need + 1) * need + e + hold <= avail)
  <2> DEFINE q == (left \div need + 1) * need
  <2>1. q \in Int /\ q > left
    BY <1>2
  <2> HIDE DEF q
  <2>2. ~(q + e + hold <= avail)
    BY <1>1, <2>1
  <2> QED
    BY <2>2 DEF q
<1> QED
  BY <1>1, <1>3, <1>4 DEF Allows

\* What one item needs, has left and gives.
NeedOf(r, in, i) == Needed(Recipes[r], in, i)
TotalOf(r, in, i) ==
    SumFunction([m \in DOMAIN in |-> IF in[m] = i THEN Recipes[r].in[m].size ELSE 0])
LeftOf(r, in, i) == LeftFor(info, Recipes[r], in, i)
Asked(r, in, i, s) ==
    s * NeedOf(r, in, i) + Extra(r, i) + (IF Strict(r, i) THEN info[i].backup ELSE 0)
ItemGives(r, in, i) ==
    /\ NeedOf(r, in, i) \in Nat \ {0} /\ LeftOf(r, in, i) \in Nat /\ LeftOf(r, in, i) <= info[i].avail
    /\ LeftOf(r, in, i) # 0 /\ Strict(r, i) => LeftOf(r, in, i) <= info[i].avail - info[i].backup
    /\ \A s \in Nat \ {0} : s <= LeftOf(r, in, i) \div NeedOf(r, in, i) => Asked(r, in, i, s) <= info[i].avail
    /\ ~(Asked(r, in, i, LeftOf(r, in, i) \div NeedOf(r, in, i) + 1) <= info[i].avail)

\* What one ingredient's item allows.
LEMMA ItemAllows ==
    ASSUME ItemsAssumption, IsInfo(info), NEW r, IsRecipe(Recipes[r]),
           NEW in, in = InputsOf(r), NEW k \in DOMAIN in, NEW i, i = in[k], i \in DOMAIN info
    PROVE  /\ ItemGives(r, in, i)
           /\ NeedOf(r, in, i) = TotalOf(r, in, i)
<1> DEFINE rec == Recipes[r]
           need == Needed(rec, in, i)
           d == Deciding(rec, in, i)
           left == LeftFor(info, rec, in, i)
           e == rec.in[d].extraBackup
           strict == ~rec.in[d].allowBackup
           hold == IF Strict(r, i) THEN info[i].backup ELSE 0
<1>1. /\ DOMAIN in = DOMAIN rec.in /\ d \in DOMAIN in
      /\ Strict(r, i) <=> strict
      /\ Extra(r, i) = e
  BY ExtraIs
<1>2. need \in Nat /\ rec.in[k].size <= need
  BY <1>1, NeededIs
<1>3. rec.in[k].size \in Nat \ {0} /\ e \in Nat /\ strict \in BOOLEAN /\ rec.in[d].allowBackup \in BOOLEAN
  BY <1>1 DEF IsRecipe
<1>4. need \in Nat \ {0}
  BY <1>2, <1>3
<1>5. info[i].avail \in Nat /\ info[i].backup \in Nat
  BY DEF IsInfo
<1>6. need = SumFunction([m \in DOMAIN in |-> IF in[m] = i THEN rec.in[m].size ELSE 0])
  <2> DEFINE g == [m \in DOMAIN in |-> IF in[m] = i THEN rec.in[m].size ELSE 0]
  <2>1. need = SumFunctionOnSet(g, DOMAIN in) /\ DOMAIN g = DOMAIN in
    BY <1>1, NeededIs
  <2> HIDE DEF g
  <2>2. need = SumFunction(g)
    BY <2>1, SumOfFunction
  <2> QED
    BY <2>2 DEF g
<1>7. left = Most(0, Most(0, info[i].avail - hold) - e) /\ hold \in Nat
  <2>1. left = Most(0, GetAvail(info, i, rec.in[d].allowBackup) - e)
    BY DEF LeftFor
  <2> HIDE DEF e, left, rec, d
  <2>2. GetAvail(info, i, rec.in[d].allowBackup) = Most(0, info[i].avail - hold) /\ hold \in Nat
    <3>1. CASE rec.in[d].allowBackup
      <4>1. hold = 0
        BY <1>1, <3>1
      <4>2. GetAvail(info, i, rec.in[d].allowBackup) = info[i].avail
        BY <3>1 DEF GetAvail
      <4> HIDE DEF hold
      <4> QED
        BY <1>5, <4>1, <4>2 DEF Most
    <3>2. CASE ~rec.in[d].allowBackup
      <4>1. hold = info[i].backup
        BY <1>1, <3>2
      <4>2. GetAvail(info, i, rec.in[d].allowBackup) = Most(0, info[i].avail - info[i].backup)
        BY <3>2 DEF GetAvail
      <4> HIDE DEF hold
      <4> QED
        BY <1>5, <4>1, <4>2
    <3> QED
      BY <3>1, <3>2
  <2> HIDE DEF hold
  <2> QED
    BY <2>1, <2>2
<1>9. Strict(r, i) => hold = info[i].backup
  OBVIOUS
<1> HIDE DEF left, need, e, hold, strict, rec
<1>8. Allows(info[i].avail, hold, e, need, left)
  BY <1>3, <1>4, <1>5, <1>7, LeftIs
<1>10. left # 0 /\ Strict(r, i) => left <= info[i].avail - info[i].backup
  BY <1>8, <1>9, Zenon DEF Allows
<1> QED
  BY <1>1, <1>4, <1>6, <1>8, <1>10, Zenon DEF left, need, rec, hold, Allows, ItemGives, NeedOf, LeftOf, Asked, TotalOf

\* The sets that suffice are those that resolveRecipeInputs finds and fewer.
LEMMA SufficeFacts ==
    ASSUME ItemsAssumption, IsInfo(info), NEW r, IsRecipe(Recipes[r]),
           NEW rs, Resolves(info, Recipes[r], rs)
    PROVE  /\ rs.in = InputsOf(r)
           /\ \A k \in DOMAIN rs.in : rs.in[k] # NoItem => ItemGives(r, rs.in, rs.in[k])
           /\ \A s \in Nat \ {0} : s <= rs.inAvail => Suffice(r, s)
           /\ ~Suffice(r, rs.inAvail + 1)
<1> DEFINE in == InputsOf(r)
           rec == Recipes[r]
           D == DOMAIN rec.in
<1>1. rs.in = in /\ DOMAIN in = D
  BY DEF Resolves, InputsOf
<1>2. ASSUME NEW k \in D, in[k] # NoItem
      PROVE  /\ in[k] \in DOMAIN info /\ MaxSize[in[k]] \in Nat \ {0}
             /\ rec.in[k].size \in Nat \ {0}
             /\ ItemGives(r, in, in[k])
             /\ NeedOf(r, in, in[k]) = TotalOf(r, in, in[k])
  <2>1. in[k] \in DOMAIN info /\ MaxSize[in[k]] \in Nat \ {0}
    BY <1>1, <1>2 DEF Resolves
  <2>2. rec.in[k].size \in Nat \ {0}
    BY DEF IsRecipe
  <2> HIDE DEF D
  <2>3. k \in DOMAIN in
    BY <1>1
  <2> HIDE DEF in
  <2>4. /\ ItemGives(r, in, in[k])
        /\ NeedOf(r, in, in[k]) = TotalOf(r, in, in[k])
    <3> DEFINE i == in[k]
    <3>1. in = InputsOf(r) /\ i \in DOMAIN info /\ i = in[k]
      BY <2>1 DEF in
    <3> HIDE DEF i
    <3> QED
      BY <2>3, <3>1, ItemAllows, Zenon
  <2> QED
    BY <2>1, <2>2, <2>4
<1>3. ASSUME NEW s
      PROVE  Suffice(r, s) <=>
               \A k \in D : /\ in[k] # NoItem
                            /\ s * rec.in[k].size <= MaxSize[in[k]]
                            /\ Asked(r, in, in[k], s) <= info[in[k]].avail
  <2> DEFINE total(i) == SumFunction([k \in DOMAIN in |-> IF in[k] = i THEN rec.in[k].size ELSE 0])
             ask(i) == s * total(i) + Extra(r, i) + (IF Strict(r, i) THEN info[i].backup ELSE 0)
  <2>1. Suffice(r, s) <=>
          /\ \A k \in DOMAIN in : in[k] # NoItem /\ s * rec.in[k].size <= MaxSize[in[k]]
          /\ \A i \in ToSet(in) \ {NoItem} : ask(i) <= info[i].avail
    BY DEF Suffice
  <2>2. ToSet(in) = {in[k] : k \in DOMAIN in}
    BY DEF ToSet
  <2>3. \A k \in D : in[k] # NoItem => ask(in[k]) = Asked(r, in, in[k], s)
    BY <1>2, Zenon DEF Asked, TotalOf
  <2> HIDE DEF ask, in, D, rec
  <2> QED
    BY <1>1, <2>1, <2>2, <2>3
<1>4. ASSUME NEW s \in Nat \ {0}, s <= rs.inAvail
      PROVE  Suffice(r, s)
  <2> SUFFICES ASSUME NEW k \in D
               PROVE  /\ in[k] # NoItem
                      /\ s * rec.in[k].size <= MaxSize[in[k]]
                      /\ Asked(r, in, in[k], s) <= info[in[k]].avail
    BY <1>3
  <2>1. rs.inAvail \in Nat /\ rs.inAvail # 0
    BY <1>4 DEF Resolves
  <2>2. in[k] # NoItem /\ rs.inAvail <= Clip(rec, in, k) /\ rs.inAvail <= Quota(info, rec, in, k)
    BY <1>1, <2>1 DEF Resolves
  <2> DEFINE m == MaxSize[in[k]] n == rec.in[k].size l == LeftOf(r, in, in[k]) e == NeedOf(r, in, in[k])
  <2>3. /\ m \in Nat /\ n \in Nat \ {0} /\ l \in Nat /\ e \in Nat \ {0}
        /\ \A t \in Nat \ {0} : t <= l \div e => Asked(r, in, in[k], t) <= info[in[k]].avail
    BY <1>2, <2>2 DEF ItemGives
  <2>4. rs.inAvail <= m \div n /\ rs.inAvail <= l \div e
    BY <2>2 DEF Clip, Quota, LeftOf, NeedOf
  <2> HIDE DEF m, n, l, e, in
  <2>5. m \div n \in Nat /\ l \div e \in Nat /\ (s <= m \div n => s * n <= m)
    BY <2>3, QuotientBounds
  <2>6. s <= m \div n /\ s <= l \div e
    BY <1>4, <2>1, <2>4, <2>5
  <2> QED
    BY <2>2, <2>3, <2>5, <2>6 DEF m, n
<1>5. ASSUME Suffice(r, rs.inAvail + 1)
      PROVE  FALSE
  <2>1. PICK k \in D : \/ in[k] = NoItem
                       \/ rs.inAvail = Clip(rec, in, k)
                       \/ rs.inAvail = Quota(info, rec, in, k)
    BY <1>1 DEF Resolves
  <2>2. /\ in[k] # NoItem
        /\ (rs.inAvail + 1) * rec.in[k].size <= MaxSize[in[k]]
        /\ Asked(r, in, in[k], rs.inAvail + 1) <= info[in[k]].avail
    BY <1>3, <1>5
  <2> DEFINE m == MaxSize[in[k]] n == rec.in[k].size l == LeftOf(r, in, in[k]) e == NeedOf(r, in, in[k])
  <2>3. /\ m \in Nat /\ n \in Nat \ {0} /\ l \in Nat /\ e \in Nat \ {0}
        /\ ~(Asked(r, in, in[k], l \div e + 1) <= info[in[k]].avail)
    BY <1>2, <2>2 DEF ItemGives
  <2>4. rs.inAvail = m \div n \/ rs.inAvail = l \div e
    BY <2>1, <2>2 DEF Clip, Quota, LeftOf, NeedOf
  <2>5. (rs.inAvail + 1) * n <= m
    BY <2>2
  <2> HIDE DEF m, n, l, e, in
  <2>6. (m \div n + 1) * n > m /\ m \div n \in Nat
    BY <2>3, QuotientBounds
  <2>7. CASE rs.inAvail = m \div n
    <3> DEFINE x == (m \div n + 1) * n
    <3>1. x \in Int /\ x > m /\ x <= m
      BY <2>3, <2>5, <2>6, <2>7
    <3> HIDE DEF x
    <3> QED
      BY <2>3, <3>1
  <2>8. CASE rs.inAvail = l \div e
    BY <2>2, <2>3, <2>8
  <2> QED
    BY <2>4, <2>7, <2>8
<1>6. \A k \in DOMAIN rs.in : rs.in[k] # NoItem => ItemGives(r, rs.in, rs.in[k])
  <2> HIDE DEF in, D
  <2> QED
    BY <1>1, <1>2
<1> QED
  BY <1>1, <1>4, <1>5, <1>6

\* What is set aside after each of the backups.
BacksUp(x, N, g) ==
    /\ DOMAIN g = 0 .. N /\ g[0] = x
    /\ \A n \in 1 .. N : g[n] = BackUp(g[n - 1], Backups[n])

\* The backups can be set aside one after the other.
LEMMA BackUpAllSteps ==
    ASSUME RecipesAssumption, NEW x
    PROVE  \E g : BacksUp(x, Len(Backups), g) /\ BackUpAll(x) = g[Len(Backups)]
<1> DEFINE rest(g, N) == [n \in 0 .. N |-> IF n = 0 THEN x ELSE BackUp(g[n - 1], Backups[n])]
           K == {N \in Nat : \E g : g = rest(g, N)}
<1>1. 0 \in K
  <2> DEFINE g == [n \in 0 .. 0 |-> x]
  <2>1. g = rest(g, 0)
    OBVIOUS
  <2> HIDE DEF rest, g
  <2> QED
    BY <2>1
<1>2. ASSUME NEW N \in Nat, N \in K PROVE N + 1 \in K
  <2>1. PICK g : g = rest(g, N)
    BY <1>2
  <2> DEFINE h == [n \in 0 .. N + 1 |-> IF n = N + 1 THEN BackUp(g[N], Backups[N + 1]) ELSE g[n]]
  <2>2. \A n \in 0 .. N : h[n] = g[n]
    OBVIOUS
  <2>3. ASSUME NEW n \in 0 .. N + 1
        PROVE  h[n] = IF n = 0 THEN x ELSE BackUp(h[n - 1], Backups[n])
    <3>1. CASE n = N + 1
      <4>1. h[n - 1] = g[N]
        BY <2>2, <3>1
      <4>2. h[n] = BackUp(g[N], Backups[N + 1])
        BY <3>1
      <4> HIDE DEF h
      <4> QED
        BY <3>1, <4>1, <4>2
    <3>2. CASE n \in 0 .. N
      <4>1. h[n] = IF n = 0 THEN x ELSE BackUp(g[n - 1], Backups[n])
        BY <2>1, <2>2, <3>2
      <4>2. n # 0 => h[n - 1] = g[n - 1]
        BY <2>2, <3>2
      <4> HIDE DEF h
      <4> QED
        BY <4>1, <4>2
    <3> QED
      BY <3>1, <3>2
  <2>4. h = [n \in 0 .. N + 1 |-> h[n]]
    OBVIOUS
  <2>5. h = rest(h, N + 1)
    <3> HIDE DEF h
    <3> QED
      BY <2>3, <2>4
  <2> HIDE DEF rest, h
  <2> QED
    BY <2>5
<1> DEFINE N == Len(Backups)
<1>3. N \in Nat
  BY DEF RecipesAssumption
<1>4. \E g : g = rest(g, N)
  <2> HIDE DEF K, N
  <2>1. N \in K
    BY <1>1, <1>2, <1>3, NumberInduction
  <2> QED
    BY <2>1 DEF K
<1> DEFINE after == CHOOSE g : g = rest(g, N)
<1>5. BackUpAll(x) = after[N]
  BY DEF BackUpAll
<1>6. after = rest(after, N)
  <2> HIDE DEF rest, N
  <2> QED
    BY <1>4
<1>7. BacksUp(x, N, after)
  <2> HIDE DEF after, N
  <2> QED
    BY <1>3, <1>6 DEF BacksUp
<1> HIDE DEF after
<1> QED
  BY <1>5, <1>7

\* What backing up changes: only what is set aside, and of one item.
BacksUpOne(x, backup, y) ==
    /\ IsInfo(y) /\ DOMAIN y = DOMAIN x
    /\ \A i \in DOMAIN x : y[i].avail = x[i].avail
    /\ \/ (\A i \in DOMAIN x : Accepts(backup.item, i) => x[i].avail = 0) /\ y = x
       \/ \E i \in DOMAIN x : /\ Accepts(backup.item, i) /\ x[i].avail > 0
                              /\ y[i].backup = x[i].backup + backup.size
                              /\ \A j \in DOMAIN x \ {i} : y[j] = x[j]

\* This is what one backup does.
LEMMA BackUpFacts ==
    ASSUME NEW x, IsInfo(x), NEW backup, backup.size \in Nat, NEW y, y = BackUp(x, backup)
    PROVE  BacksUpOne(x, backup, y)
<1> DEFINE i == GetItem(x, backup.item)
<1>1. y = IF i = NoItem THEN x ELSE [x EXCEPT ![i].backup = @ + backup.size]
  BY DEF BackUp
<1>2. /\ i # NoItem => i \in DOMAIN x /\ x[i].avail > 0 /\ Accepts(backup.item, i)
      /\ i = NoItem => \A j \in DOMAIN x : Accepts(backup.item, j) => x[j].avail = 0
  BY GetItemFacts
<1> HIDE DEF i
<1>3. CASE i = NoItem
  BY <1>1, <1>2, <1>3 DEF BacksUpOne
<1>4. CASE i # NoItem
  <2>1. y = [x EXCEPT ![i] = [x[i] EXCEPT !.backup = @ + backup.size]]
    BY <1>1, <1>4
  <2>2. x[i] \in [avail : Nat, backup : Nat]
    BY <1>2, <1>4 DEF IsInfo
  <2> DEFINE v == [x[i] EXCEPT !.backup = @ + backup.size]
  <2>3. v \in [avail : Nat, backup : Nat] /\ v.avail = x[i].avail /\ v.backup = x[i].backup + backup.size
    BY <2>2
  <2> HIDE DEF v
  <2>4. y = [x EXCEPT ![i] = v]
    BY <2>1 DEF v
  <2>5. x \in [DOMAIN x -> [avail : Nat, backup : Nat]]
    BY DEF IsInfo
  <2>6. y \in [DOMAIN x -> [avail : Nat, backup : Nat]]
    BY <2>3, <2>4, <2>5
  <2>7. DOMAIN y = DOMAIN x /\ y[i] = v /\ \A j \in DOMAIN x \ {i} : y[j] = x[j]
    BY <1>2, <1>4, <2>4, <2>5
  <2> QED
    BY <1>2, <1>4, <2>3, <2>6, <2>7 DEF IsInfo, BacksUpOne
<1> QED
  BY <1>3, <1>4

\* What is set aside of every item, and what each of the backups asks for, if
\* there is anything that it accepts.
SetAside(y) == [i \in DOMAIN y |-> y[i].backup]
AskedFor(avail) ==
    [k \in DOMAIN Backups |->
       IF \E i \in DOMAIN avail : Accepts(Backups[k].item, i) /\ avail[i] > 0 THEN Backups[k].size ELSE 0]
SameAvail(x, y) == DOMAIN y = DOMAIN x /\ \A i \in DOMAIN x : y[i].avail = x[i].avail

\* One backup adds what it asks for.
LEMMA BackUpAdds ==
    ASSUME NEW x, IsInfo(x), NEW k \in DOMAIN Backups, Backups[k].size \in Nat,
           NEW y, y = BackUp(x, Backups[k]),
           NEW avail, DOMAIN avail = DOMAIN x, \A i \in DOMAIN x : avail[i] = x[i].avail
    PROVE  SumFunctionOnSet(SetAside(y), DOMAIN y)
             = SumFunctionOnSet(SetAside(x), DOMAIN x) + AskedFor(avail)[k]
<1>1. /\ IsInfo(y) /\ DOMAIN y = DOMAIN x
      /\ \/ (\A i \in DOMAIN x : Accepts(Backups[k].item, i) => x[i].avail = 0) /\ y = x
         \/ \E i \in DOMAIN x : /\ Accepts(Backups[k].item, i) /\ x[i].avail > 0
                                /\ y[i].backup = x[i].backup + Backups[k].size
                                /\ \A j \in DOMAIN x \ {i} : y[j] = x[j]
  <2>1. BacksUpOne(x, Backups[k], y)
    BY BackUpFacts
  <2> QED
    BY <2>1 DEF BacksUpOne
<1>2. \A i \in DOMAIN x : SetAside(x)[i] \in Int /\ SetAside(y)[i] \in Int
  <2>1. \A i \in DOMAIN x : x[i].backup \in Nat /\ y[i].backup \in Nat
    BY <1>1 DEF IsInfo
  <2> QED
    BY <1>1, <2>1 DEF SetAside
<1>3. IsFiniteSet(DOMAIN x)
  BY DEF IsInfo
<1>4. CASE (\A i \in DOMAIN x : Accepts(Backups[k].item, i) => x[i].avail = 0) /\ y = x
  <2>1. AskedFor(avail)[k] = 0
    BY <1>4 DEF AskedFor
  <2> DEFINE s == SumFunctionOnSet(SetAside(x), DOMAIN x)
  <2>2. s \in Int
    BY <1>2, <1>3, SumRemoves
  <2> QED
    BY <1>4, <2>1, <2>2
<1>5. ASSUME NEW i \in DOMAIN x, Accepts(Backups[k].item, i), x[i].avail > 0,
             y[i].backup = x[i].backup + Backups[k].size, \A j \in DOMAIN x \ {i} : y[j] = x[j]
      PROVE  SumFunctionOnSet(SetAside(y), DOMAIN y)
               = SumFunctionOnSet(SetAside(x), DOMAIN x) + AskedFor(avail)[k]
  <2>1. AskedFor(avail)[k] = Backups[k].size
    BY <1>5 DEF AskedFor
  <2>2. \A j \in DOMAIN x \ {i} : SetAside(y)[j] = SetAside(x)[j]
    BY <1>1, <1>5 DEF SetAside
  <2>3. SetAside(y)[i] - SetAside(x)[i] = Backups[k].size
    <3>1. x[i].backup \in Nat
      BY DEF IsInfo
    <3> QED
      BY <1>1, <1>5, <3>1 DEF SetAside
  <2>4. SumFunctionOnSet(SetAside(y), DOMAIN x)
          = SumFunctionOnSet(SetAside(x), DOMAIN x) + (SetAside(y)[i] - SetAside(x)[i])
    BY <1>2, <1>3, <2>2, SumChanges
  <2> QED
    BY <1>1, <2>1, <2>3, <2>4
<1> QED
  BY <1>1, <1>4, <1>5

\* Setting aside all backups leaves what is available, and adds all they ask for.
LEMMA BackUpAllFacts ==
    ASSUME RecipesAssumption, NEW x, IsInfo(x), \A i \in DOMAIN x : x[i].backup = 0,
           NEW avail, DOMAIN avail = DOMAIN x, \A i \in DOMAIN x : avail[i] = x[i].avail,
           NEW y, y = BackUpAll(x)
    PROVE  /\ IsInfo(y) /\ SameAvail(x, y)
           /\ SumFunctionOnSet(SetAside(y), DOMAIN y) = SumFunctionOnSet(AskedFor(avail), DOMAIN Backups)
<1> DEFINE N == Len(Backups)
           D == DOMAIN Backups
           part(n) == [k \in D |-> IF k <= n THEN AskedFor(avail)[k] ELSE 0]
<1>1. /\ N \in Nat /\ D = 1 .. N /\ \A k \in D : Backups[k].size \in Nat
  BY DEF RecipesAssumption
<1>2. PICK g : BacksUp(x, N, g) /\ y = g[N]
  BY BackUpAllSteps
<1>3. \A k \in D : AskedFor(avail)[k] \in Nat
  BY <1>1 DEF AskedFor
<1>4. IsFiniteSet(D)
  <2> HIDE DEF N, D
  <2> QED
    BY <1>1, FS_Interval
<1> DEFINE good(n) == /\ IsInfo(g[n]) /\ SameAvail(x, g[n])
                      /\ SumFunctionOnSet(SetAside(g[n]), DOMAIN g[n]) = SumFunctionOnSet(part(n), D)
           K == {n \in Nat : n <= N => good(n)}
<1>5. 0 \in K
  <2>1. g[0] = x
    BY <1>2 DEF BacksUp
  <2>2. SumFunctionOnSet(part(0), D) = 0
    <3>1. \A k \in D : part(0)[k] = 0
      BY <1>1
    <3> HIDE DEF part, D
    <3> QED
      BY <1>4, <3>1, SumOfZeros
  <2>3. SumFunctionOnSet(SetAside(x), DOMAIN x) = 0
    <3>1. \A i \in DOMAIN x : SetAside(x)[i] = 0
      BY DEF SetAside
    <3>2. IsFiniteSet(DOMAIN x)
      BY DEF IsInfo
    <3> QED
      BY <3>1, <3>2, SumOfZeros
  <2> HIDE DEF part, D
  <2> QED
    BY <2>1, <2>2, <2>3 DEF SameAvail
<1>6. ASSUME NEW n \in Nat, n \in K PROVE n + 1 \in K
  <2> SUFFICES ASSUME n + 1 <= N PROVE good(n + 1)
    OBVIOUS
  <2>1. n + 1 \in D /\ n <= N
    BY <1>1
  <2>2. g[n + 1] = BackUp(g[n], Backups[n + 1])
    <3>1. n + 1 \in 1 .. N /\ (n + 1) - 1 = n
      BY <2>1, <1>1
    <3> QED
      BY <1>2, <3>1 DEF BacksUp
  <2>3. good(n)
    BY <1>6, <2>1
  <2> DEFINE u == g[n] v == g[n + 1] k == n + 1
  <2>4. IsInfo(u) /\ k \in D /\ Backups[k].size \in Nat /\ v = BackUp(u, Backups[k])
    BY <1>1, <2>1, <2>2, <2>3
  <2>5. DOMAIN avail = DOMAIN u /\ \A i \in DOMAIN u : avail[i] = u[i].avail
    BY <2>3 DEF SameAvail
  <2> HIDE DEF u, v
  <2>6. IsInfo(v) /\ SameAvail(u, v)
    BY <2>4, BackUpFacts DEF SameAvail, BacksUpOne
  <2>7. SumFunctionOnSet(SetAside(v), DOMAIN v)
          = SumFunctionOnSet(SetAside(u), DOMAIN u) + AskedFor(avail)[k]
    <3> HIDE DEF k
    <3> QED
      BY <2>4, <2>5, BackUpAdds
  <2>8. SumFunctionOnSet(part(k), D) = SumFunctionOnSet(part(n), D) + AskedFor(avail)[k]
    <3>1. /\ \A m \in D : part(n)[m] \in Int /\ part(k)[m] \in Int
          /\ \A m \in D \ {k} : part(k)[m] = part(n)[m]
          /\ part(k)[k] - part(n)[k] = AskedFor(avail)[k]
      BY <1>1, <1>3, <2>1
    <3> HIDE DEF part, D, k
    <3>2. SumFunctionOnSet(part(k), D) = SumFunctionOnSet(part(n), D) + (part(k)[k] - part(n)[k])
      BY <1>4, <2>4, <3>1, SumChanges
    <3> QED
      BY <3>1, <3>2
  <2> HIDE DEF part, D
  <2> QED
    BY <2>3, <2>6, <2>7, <2>8 DEF SameAvail, u, v, k
<1>7. good(N)
  <2> HIDE DEF good, N
  <2>1. N \in K
    <3> HIDE DEF K
    <3> QED
      BY <1>1, <1>5, <1>6, NumberInduction
  <2> QED
    BY <1>1, <2>1
<1>8. SumFunctionOnSet(part(N), D) = SumFunctionOnSet(AskedFor(avail), D)
  <2>1. \A k \in D : part(N)[k] = AskedFor(avail)[k] /\ AskedFor(avail)[k] \in Int
    BY <1>1, <1>3
  <2> HIDE DEF part, D
  <2> QED
    BY <1>4, <2>1, SumSame
<1> HIDE DEF part
<1> QED
  BY <1>2, <1>7, <1>8

\* A map of items that is typed is one that the functions expect.
LEMMA TypedIsInfo ==
    ASSUME ItemsAssumption, PlanningTypeOK
    PROVE  IsInfo(info)
<1>1. IsFiniteSet(Items) /\ NoItem \notin Items
  BY DEF ItemsAssumption
<1>2. DOMAIN info \subseteq Items /\ info \in [DOMAIN info -> [avail : Nat, backup : Nat]]
  BY DEF PlanningTypeOK, Known
<1>3. IsFiniteSet(DOMAIN info)
  BY <1>1, <1>2, FS_Subset
<1> QED
  BY <1>1, <1>2, <1>3 DEF IsInfo

\* A recipe of the configuration is one that the functions expect, and this is
\* what they find for it.
LEMMA ResolvedRecipe ==
    ASSUME PlanningTypeOK, NEW r \in DOMAIN Recipes,
           NEW rs, rs = ResolveRecipeInputs(info, Recipes[r], TRUE)
    PROVE  IsInfo(info) /\ IsRecipe(Recipes[r]) /\ Resolves(info, Recipes[r], rs)
<1>1. IsInfo(info)
  BY TypedIsInfo, PlanningAssumption, Zenon
<1>2. IsRecipe(Recipes[r])
  BY PlanningAssumption, Zenon DEF RecipesAssumption, AreRecipes
<1> QED
  BY <1>1, <1>2, ResolveFacts, PlanningAssumption, Zenon

\* What sets of a recipe take from an item.
Takes(r, rs, sets, i) == sets * Needed(Recipes[r], rs.in, i)

\* Sets that are there take no more of an item than there is, and no more than
\* its backup leaves if an ingredient has to leave it.
TakesWell(r, rs, sets, i) ==
    /\ Takes(r, rs, sets, i) \in Nat /\ Takes(r, rs, sets, i) <= info[i].avail
    /\ Takes(r, rs, sets, i) = 0 \/ \E k \in DOMAIN rs.in : rs.in[k] = i
    /\ Strict(r, i) =>
         Takes(r, rs, sets, i) = 0 \/ Takes(r, rs, sets, i) <= info[i].avail - info[i].backup

\* This holds of what is found.
LEMMA TakeFacts ==
    ASSUME ItemsAssumption, IsInfo(info), NEW r, IsRecipe(Recipes[r]),
           NEW rs, Resolves(info, Recipes[r], rs),
           NEW sets \in Nat \ {0}, sets <= rs.inAvail, NEW i \in DOMAIN info
    PROVE  TakesWell(r, rs, sets, i)
<1> DEFINE in == rs.in
           take == Takes(r, rs, sets, i)
<1>1. /\ in = InputsOf(r) /\ DOMAIN in = DOMAIN Recipes[r].in
      /\ \A k \in DOMAIN in : in[k] # NoItem => ItemGives(r, in, in[k])
  BY SufficeFacts DEF InputsOf
<1>2. info[i].avail \in Nat /\ info[i].backup \in Nat
  BY DEF IsInfo
<1>3. take = sets * NeedOf(r, in, i)
  BY DEF Takes, NeedOf
<1>4. CASE \A k \in DOMAIN in : in[k] # i
  <2>1. NeedOf(r, in, i) = 0
    BY <1>1, <1>4, NeededIs DEF NeedOf
  <2>2. take = 0
    BY <1>3, <2>1
  <2> QED
    BY <1>2, <2>2 DEF TakesWell
<1>5. ASSUME NEW k \in DOMAIN in, in[k] = i
      PROVE  TakesWell(r, rs, sets, i)
  <2> DEFINE need == NeedOf(r, in, i) left == LeftOf(r, in, i)
  <2>1. i # NoItem
    BY DEF IsInfo
  <2>2. /\ need \in Nat \ {0} /\ left \in Nat /\ left <= info[i].avail
        /\ left # 0 /\ Strict(r, i) => left <= info[i].avail - info[i].backup
    BY <1>1, <1>5, <2>1 DEF ItemGives
  <2>3. rs.inAvail \in Nat /\ rs.inAvail # 0 /\ rs.inAvail <= left \div need
    <3>1. rs.inAvail \in Nat /\ rs.inAvail # 0
      BY DEF Resolves
    <3>2. rs.inAvail <= Quota(info, Recipes[r], in, k)
      BY <1>1, <3>1 DEF Resolves
    <3>3. Quota(info, Recipes[r], in, k) = left \div need
      BY <1>5 DEF Quota, LeftOf, NeedOf
    <3> QED
      BY <3>1, <3>2, <3>3
  <2> HIDE DEF need, left
  <2>4. left \div need \in Nat /\ (sets <= left \div need => sets * need <= left /\ sets * need \in Nat)
    BY <2>2, QuotientBounds
  <2>5. sets <= left \div need
    BY <2>3, <2>4
  <2>6. take \in Nat /\ take <= left
    BY <1>3, <2>4, <2>5 DEF need
  <2> HIDE DEF take
  <2>7. take <= info[i].avail
    BY <1>2, <2>2, <2>6
  <2>8. Strict(r, i) => take = 0 \/ take <= info[i].avail - info[i].backup
    <3> SUFFICES ASSUME Strict(r, i), take # 0 PROVE take <= info[i].avail - info[i].backup
      OBVIOUS
    <3>1. left # 0
      BY <2>2, <2>6
    <3>2. left <= info[i].avail - info[i].backup
      BY <2>2, <3>1
    <3> QED
      BY <1>2, <2>2, <2>6, <3>2
  <2> QED
    BY <1>5, <2>6, <2>7, <2>8 DEF TakesWell, take
<1> QED
  BY <1>4, <1>5

\* What a process does that takes the inputs of a recipe.
TakesSets(r, rs, sets) ==
    /\ r \in DOMAIN Recipes /\ IsRecipe(Recipes[r])
    /\ Resolves(info, Recipes[r], rs)
    /\ ~listing /\ sets <= rs.inAvail
    /\ info' = [i \in DOMAIN info |-> [info[i] EXCEPT !.avail = @ - Takes(r, rs, sets, i)]]
    /\ listing' = listing /\ listed' = listed

\* The action is this.
LEMMA TakeInputsTakes ==
    ASSUME PlanningTypeOK, NEW r, NEW sets, TakeInputs(r, sets)
    PROVE  \E rs : TakesSets(r, rs, sets)
<1>1. r \in DOMAIN Recipes
  BY Zenon DEF TakeInputs, Demanded
<1>2. \A rs : rs = ResolveRecipeInputs(info, Recipes[r], TRUE) =>
        IsRecipe(Recipes[r]) /\ Resolves(info, Recipes[r], rs)
  BY <1>1, ResolvedRecipe, Zenon
<1>3. \E rs : /\ rs = ResolveRecipeInputs(info, Recipes[r], TRUE)
              /\ ~listing /\ sets <= rs.inAvail
              /\ info' = [i \in DOMAIN info |-> [info[i] EXCEPT !.avail = @ - Takes(r, rs, sets, i)]]
              /\ listing' = listing /\ listed' = listed
  BY Zenon DEF TakeInputs, Takes
<1> QED
  BY <1>1, <1>2, <1>3, Zenon DEF TakesSets

\* The inductive invariant: nothing is set aside before all have listed, and
\* afterwards the backups add up and are kept.
NothingSetAside == listing => \A i \in DOMAIN info : info[i].backup = 0
PlanningInvariant ==
    PlanningTypeOK /\ NothingSetAside /\ BackupIsKept /\ BackupsAddUp

\* The backups add up when what is set aside is what is asked for.
LEMMA AddsUpIs ==
    ASSUME NEW i, NEW l, DOMAIN l = DOMAIN i,
           SumFunctionOnSet(SetAside(i), DOMAIN i) = SumFunctionOnSet(AskedFor(l), DOMAIN Backups)
    PROVE  SumFunction([j \in DOMAIN i |-> i[j].backup]) =
             SumFunction([k \in DOMAIN Backups |->
                IF \E j \in DOMAIN i : Accepts(Backups[k].item, j) /\ l[j] > 0 THEN Backups[k].size ELSE 0])
<1> DEFINE s == [j \in DOMAIN i |-> i[j].backup]
           a == [k \in DOMAIN Backups |->
                IF \E j \in DOMAIN i : Accepts(Backups[k].item, j) /\ l[j] > 0 THEN Backups[k].size ELSE 0]
<1>1. s = SetAside(i) /\ DOMAIN s = DOMAIN i
  BY DEF SetAside
<1>2. a = AskedFor(l) /\ DOMAIN a = DOMAIN Backups
  BY DEF AskedFor
<1> HIDE DEF s, a
<1>3. SumFunction(s) = SumFunctionOnSet(s, DOMAIN s) /\ SumFunction(a) = SumFunctionOnSet(a, DOMAIN a)
  BY SumOfFunction
<1>4. SumFunction(s) = SumFunction(a)
  BY <1>1, <1>2, <1>3
<1> QED
  BY <1>4 DEF s, a

\* An empty map.
LEMMA EmptyMap ==
    ASSUME NEW f, f = None PROVE DOMAIN f = {} /\ \A S : f \in [{} -> S]
BY DEF None

\* At the start of a cycle nothing is known.
LEMMA EmptyHolds ==
    ASSUME listing = TRUE, info = None, listed = None
    PROVE  PlanningInvariant
<1>1. DOMAIN info = {} /\ DOMAIN listed = {}
  BY EmptyMap
<1>2. PlanningTypeOK
  <2>1. info \in [{} -> Known] /\ listed \in [{} -> Nat]
    BY EmptyMap
  <2> QED
    BY <1>1, <2>1 DEF PlanningTypeOK
<1> QED
  BY <1>1, <1>2 DEF PlanningInvariant, NothingSetAside, BackupIsKept, BackupsAddUp

\* The same of the next state.
LEMMA EmptyHoldsNext ==
    ASSUME listing' = TRUE, info' = None, listed' = None
    PROVE  PlanningInvariant'
<1>1. DOMAIN info' = {} /\ DOMAIN listed' = {}
  BY EmptyMap
<1>2. PlanningTypeOK'
  <2>1. info' \in [{} -> Known] /\ listed' \in [{} -> Nat]
    BY EmptyMap
  <2> QED
    BY <1>1, <2>1 DEF PlanningTypeOK
<1> QED
  BY <1>1, <1>2 DEF PlanningInvariant, NothingSetAside, BackupIsKept, BackupsAddUp

\* A storage lists an item.
LEMMA AddProviderKeeps ==
    ASSUME PlanningInvariant, NEW i \in Items, NEW n \in Nat, AddProvider(i, n)
    PROVE  PlanningInvariant'
<1>1. /\ listing /\ listing' = listing /\ listed' = listed
      /\ info' = [j \in DOMAIN info \cup {i} |->
                    IF j # i THEN info[j]
                    ELSE IF i \in DOMAIN info THEN [info[i] EXCEPT !.avail = @ + n]
                    ELSE [avail |-> n, backup |-> 0]]
  BY DEF AddProvider
<1>2. /\ listing \in BOOLEAN /\ DOMAIN info \subseteq Items
      /\ info \in [DOMAIN info -> Known]
      /\ listed \in [IF listing THEN {} ELSE DOMAIN info -> Nat]
      /\ \A j \in DOMAIN info : info[j].backup = 0
  BY <1>1 DEF PlanningInvariant, PlanningTypeOK, NothingSetAside
<1>3. ASSUME NEW j \in DOMAIN info \cup {i} PROVE info'[j] \in Known /\ info'[j].backup = 0
  <2>1. CASE j # i
    BY <1>1, <1>2, <2>1
  <2>2. CASE j = i /\ i \in DOMAIN info
    <3>1. info[i] \in [avail : Nat, backup : Nat] /\ info[i].backup = 0
      BY <1>2, <2>2 DEF Known
    <3>2. info'[j] = [info[i] EXCEPT !.avail = @ + n]
      BY <1>1, <2>2
    <3> QED
      BY <3>1, <3>2 DEF Known
  <2>3. CASE j = i /\ i \notin DOMAIN info
    BY <1>1, <2>3 DEF Known
  <2> QED
    BY <2>1, <2>2, <2>3
<1>4. DOMAIN info' = DOMAIN info \cup {i} /\ info' = [j \in DOMAIN info \cup {i} |-> info'[j]]
  BY <1>1
<1>5. info' \in [DOMAIN info' -> Known]
  BY <1>3, <1>4
<1>6. PlanningTypeOK'
  BY <1>1, <1>2, <1>4, <1>5 DEF PlanningTypeOK
<1>7. NothingSetAside'
  BY <1>3, <1>4 DEF NothingSetAside
<1> QED
  BY <1>1, <1>6, <1>7 DEF PlanningInvariant, BackupIsKept, BackupsAddUp

\* All have listed and the backups are set aside.
LEMMA BackupItemsKeeps ==
    ASSUME PlanningInvariant, BackupItems
    PROVE  PlanningInvariant'
<1>1. /\ listing /\ listing' = FALSE /\ info' = BackUpAll(info)
      /\ listed' = [i \in DOMAIN info |-> info[i].avail]
  BY DEF BackupItems
<1>2. IsInfo(info) /\ \A i \in DOMAIN info : info[i].backup = 0
  BY <1>1, TypedIsInfo, PlanningAssumption DEF PlanningInvariant, NothingSetAside
<1>3. DOMAIN listed' = DOMAIN info /\ \A i \in DOMAIN info : listed'[i] = info[i].avail
  BY <1>1
<1>4. /\ IsInfo(info') /\ SameAvail(info, info')
      /\ SumFunctionOnSet(SetAside(info'), DOMAIN info') = SumFunctionOnSet(AskedFor(listed'), DOMAIN Backups)
  BY <1>1, <1>2, <1>3, BackUpAllFacts, PlanningAssumption
<1>5. PlanningTypeOK'
  <2>1. \A i \in DOMAIN info : info[i].avail \in Nat
    BY <1>2 DEF IsInfo
  <2>2. listed' \in [DOMAIN info' -> Nat]
    BY <1>1, <1>4, <2>1 DEF SameAvail
  <2> QED
    BY <1>1, <1>4, <2>2 DEF PlanningTypeOK, Known, IsInfo
<1>6. BackupIsKept'
  <2> SUFFICES ASSUME NEW i \in DOMAIN info'
               PROVE  info'[i].avail >= Least(listed'[i], info'[i].backup)
    BY DEF BackupIsKept
  <2>1. info'[i].avail = listed'[i] /\ info'[i].avail \in Nat /\ info'[i].backup \in Nat
    BY <1>3, <1>4 DEF SameAvail, IsInfo
  <2> QED
    BY <2>1 DEF Least
<1>7. BackupsAddUp'
  <2>1. DOMAIN listed' = DOMAIN info'
    BY <1>3, <1>4 DEF SameAvail
  <2> QED
    BY <1>4, <2>1, AddsUpIs DEF BackupsAddUp
<1> QED
  BY <1>1, <1>5, <1>6, <1>7 DEF PlanningInvariant, NothingSetAside

\* Of an item that an ingredient stands for something may be used up only if it
\* is the best choice of ingredients that all may use it up.
MayUseUp(i) ==
    \E r \in DOMAIN Recipes :
        LET uses == {in \in ToSet(Recipes[r].in) : Accepts(in.item, i)}
        IN /\ \E in \in uses : in.allowBackup
           /\ \A in \in uses : in.allowBackup \/ \E j \in Items \ {i} : Accepts(in.item, j)

\* The ingredients that do not have to leave the backup of an item allow this.
LEMMA UsedUp ==
    ASSUME IsInfo(info), NEW r \in DOMAIN Recipes, NEW rs, Resolves(info, Recipes[r], rs), rs.inAvail # 0,
           NEW i, NEW k \in DOMAIN rs.in, rs.in[k] = i, ~Strict(r, i), IsRecipe(Recipes[r])
    PROVE  MayUseUp(i)
<1> DEFINE D == DOMAIN Recipes[r].in
           in(m) == Recipes[r].in[m]
           uses == {x \in ToSet(Recipes[r].in) : Accepts(x.item, i)}
<1>1. /\ DOMAIN rs.in = D
      /\ \A m \in D : rs.in[m] = GetItem(info, in(m).item) /\ rs.in[m] # NoItem
      /\ InputsOf(r) = rs.in
  BY DEF Resolves, InputsOf
<1>2. \A m \in D : rs.in[m] = i => in(m).allowBackup
  BY <1>1 DEF Strict, IsRecipe
<1>3. \A m \in D : rs.in[m] \in DOMAIN info /\ Accepts(in(m).item, rs.in[m])
  BY <1>1, GetItemFacts
<1>4. ToSet(Recipes[r].in) = {in(m) : m \in D}
  BY DEF ToSet
<1>5. \E x \in uses : x.allowBackup
  <2>1. in(k) \in uses /\ in(k).allowBackup
    BY <1>1, <1>2, <1>3, <1>4
  <2> QED
    BY <2>1
<1>6. ASSUME NEW x \in uses, ~x.allowBackup PROVE \E j \in Items \ {i} : Accepts(x.item, j)
  <2>1. PICK m \in D : x = in(m)
    BY <1>4
  <2>2. rs.in[m] # i
    BY <1>2, <1>6, <2>1
  <2>3. rs.in[m] \in Items \ {i} /\ Accepts(x.item, rs.in[m])
    BY <1>3, <2>1, <2>2 DEF IsInfo
  <2> QED
    BY <2>3
<1> HIDE DEF uses
<1>7. (\E x \in uses : x.allowBackup) /\ \A x \in uses : x.allowBackup \/ \E j \in Items \ {i} : Accepts(x.item, j)
  BY <1>5, <1>6
<1> QED
  BY <1>7 DEF MayUseUp, uses

\* A process takes the inputs of a recipe.
LEMMA TakesSetsKeeps ==
    ASSUME PlanningInvariant, NEW r, NEW rs, NEW sets \in Nat \ {0}, TakesSets(r, rs, sets)
    PROVE  PlanningInvariant'
<1> DEFINE take(i) == Takes(r, rs, sets, i)
<1>1. /\ r \in DOMAIN Recipes /\ IsRecipe(Recipes[r]) /\ Resolves(info, Recipes[r], rs)
      /\ ~listing /\ sets <= rs.inAvail
      /\ listing' = listing /\ listed' = listed
      /\ info' = [i \in DOMAIN info |-> [info[i] EXCEPT !.avail = @ - take(i)]]
  BY DEF TakesSets
<1>2. IsInfo(info) /\ ItemsAssumption
  BY TypedIsInfo, PlanningAssumption DEF PlanningInvariant
<1>3. rs.inAvail # 0
  <2>1. rs.inAvail \in Nat
    BY <1>1 DEF Resolves
  <2> QED
    BY <1>1, <2>1
<1>4. \A i \in DOMAIN info : TakesWell(r, rs, sets, i)
  BY <1>1, <1>2, TakeFacts
<1> HIDE DEF take
<1>5. ASSUME NEW i \in DOMAIN info
      PROVE  /\ info'[i].avail = info[i].avail - take(i) /\ info'[i].backup = info[i].backup
             /\ info'[i] \in Known
  <2>1. info[i] \in [avail : Nat, backup : Nat]
    BY <1>2 DEF IsInfo
  <2>2. take(i) \in Nat /\ take(i) <= info[i].avail
    BY <1>4 DEF TakesWell, take
  <2>3. info'[i] = [info[i] EXCEPT !.avail = @ - take(i)]
    BY <1>1
  <2> QED
    BY <2>1, <2>2, <2>3 DEF Known
<1>6. DOMAIN info' = DOMAIN info
  BY <1>1
<1>7. PlanningTypeOK'
  <2>1. info' \in [DOMAIN info -> Known]
    <3>1. info' = [i \in DOMAIN info |-> info'[i]]
      BY <1>1
    <3> QED
      BY <1>5, <3>1
  <2> QED
    BY <1>1, <1>6, <2>1 DEF PlanningInvariant, PlanningTypeOK
<1>8. BackupIsKept'
  <2> SUFFICES ASSUME NEW i \in DOMAIN info', ~MayUseUp(i)
               PROVE  info'[i].avail >= Least(listed'[i], info'[i].backup)
    BY DEF BackupIsKept, MayUseUp
  <2>1. info[i].avail >= Least(listed[i], info[i].backup)
    BY <1>1, <1>6 DEF PlanningInvariant, BackupIsKept, MayUseUp
  <2>2. /\ info'[i].avail = info[i].avail - take(i) /\ info'[i].backup = info[i].backup
        /\ info[i].avail \in Nat /\ info[i].backup \in Nat
    BY <1>2, <1>5, <1>6 DEF IsInfo
  <2>3. listed[i] \in Nat
    BY <1>1, <1>6 DEF PlanningInvariant, PlanningTypeOK
  <2>4. /\ take(i) \in Nat
        /\ take(i) = 0 \/ \E k \in DOMAIN rs.in : rs.in[k] = i
        /\ Strict(r, i) => take(i) = 0 \/ take(i) <= info[i].avail - info[i].backup
    BY <1>4, <1>6 DEF TakesWell, take
  <2>5. CASE take(i) = 0
    BY <1>1, <2>1, <2>2, <2>3, <2>5
  <2>6. CASE take(i) # 0 /\ Strict(r, i)
    <3>1. info'[i].avail >= info'[i].backup
      BY <2>2, <2>4, <2>6
    <3> QED
      BY <1>1, <2>2, <2>3, <2>4, <3>1 DEF Least
  <2>7. CASE take(i) # 0 /\ ~Strict(r, i)
    <3>1. PICK k \in DOMAIN rs.in : rs.in[k] = i
      BY <2>4, <2>7
    <3> QED
      BY <1>1, <1>2, <1>3, <2>7, <3>1, UsedUp
  <2> QED
    BY <2>5, <2>6, <2>7
<1>9. BackupsAddUp'
  <2>1. DOMAIN listed = DOMAIN info
    BY <1>1 DEF PlanningInvariant, PlanningTypeOK
  <2>2. [i \in DOMAIN info' |-> info'[i].backup] = [i \in DOMAIN info |-> info[i].backup]
    BY <1>5, <1>6
  <2> QED
    BY <1>1, <1>6, <2>2 DEF PlanningInvariant, BackupsAddUp
<1> QED
  BY <1>1, <1>7, <1>8, <1>9 DEF PlanningInvariant, NothingSetAside

\* The inductive invariant holds of all that is planned, for every configuration
\* (updateAndBackupItems, resolveRecipeInputs and getDemand of Factory.h).
THEOREM PlanningInvariantHolds == PlanningSpec => []PlanningInvariant
<1>1. PlanningInit => PlanningInvariant
  BY EmptyHolds DEF PlanningInit
<1>2. PlanningInvariant /\ [PlanningNext]_(planningVars) => PlanningInvariant'
  <2> SUFFICES ASSUME PlanningInvariant, [PlanningNext]_(planningVars)
               PROVE  PlanningInvariant'
    OBVIOUS
  <2>0. MaxStored \in Nat
    BY PlanningAssumption DEF RecipesAssumption
  <2>1. ASSUME NEW i \in Items, NEW n \in 0 .. MaxStored, AddProvider(i, n)
        PROVE  PlanningInvariant'
    <3>1. n \in Nat
      BY <2>0
    <3> QED
      BY <2>1, <3>1, AddProviderKeeps
  <2>2. CASE BackupItems
    BY <2>2, BackupItemsKeeps
  <2>3. CASE EndOfCycle
    BY <2>3, EmptyHoldsNext DEF EndOfCycle
  <2>4. ASSUME NEW r \in DOMAIN Recipes, NEW sets \in 1 .. MaxStored, TakeInputs(r, sets)
        PROVE  PlanningInvariant'
    <3>1. sets \in Nat \ {0}
      BY <2>0
    <3>2. PICK rs : TakesSets(r, rs, sets)
      BY <2>4, TakeInputsTakes DEF PlanningInvariant
    <3> QED
      BY <3>1, <3>2, TakesSetsKeeps
  <2>5. CASE UNCHANGED planningVars
    BY <2>5 DEF planningVars, PlanningInvariant, NothingSetAside, PlanningTypeOK,
                BackupIsKept, BackupsAddUp
  <2> QED
    BY <2>1, <2>2, <2>3, <2>4, <2>5 DEF PlanningNext
<1> QED
  BY <1>1, <1>2, PTL DEF PlanningSpec

\* In a state that is typed, the number of sets is the most that suffices.
LEMMA TypedSetsAreMost ==
    ASSUME PlanningTypeOK
    PROVE  SetsAreMost
<1> SUFFICES ASSUME NEW r \in DOMAIN Recipes, NEW rs,
                    rs = ResolveRecipeInputs(info, Recipes[r], TRUE)
             PROVE  /\ rs.inAvail > 0 => Suffice(r, rs.inAvail)
                    /\ ~Suffice(r, rs.inAvail + 1)
  BY Zenon DEF SetsAreMost
<1>1. IsInfo(info) /\ IsRecipe(Recipes[r]) /\ Resolves(info, Recipes[r], rs)
  BY ResolvedRecipe, Zenon
<1>2. /\ \A s \in Nat \ {0} : s <= rs.inAvail => Suffice(r, s)
      /\ ~Suffice(r, rs.inAvail + 1)
  BY <1>1, SufficeFacts, PlanningAssumption, Zenon
<1>3. rs.inAvail \in Nat
  BY <1>1, Zenon DEF Resolves
<1>4. \A n \in Nat : n > 0 => n \in Nat \ {0} /\ n <= n
  OBVIOUS
<1> QED
  BY <1>2, <1>3, <1>4, Zenon

\* What is stored of an output, as NeediestFirst counts it.
StoredOf(out) ==
    Max({0} \cup {info[i].avail : i \in {j \in DOMAIN info : Accepts(out.item, j)}})
LackingOf(r) == {out \in ToSet(Recipes[r].out) : StoredOf(out) < out.size}

\* This is what getItem finds.
LEMMA StoredIs ==
    ASSUME IsInfo(info), NEW out
    PROVE  StoredOf(out) \in Nat /\ Share(info, out) = <<StoredOf(out), out.size>>
<1> DEFINE i == GetItem(info, out.item)
           C == {j \in DOMAIN info : Accepts(out.item, j)}
           S == {0} \cup {info[j].avail : j \in C}
           a == GetAvail(info, i, TRUE)
<1>1. /\ i # NoItem => i \in C /\ \A j \in C : info[j].avail <= info[i].avail
      /\ i = NoItem => \A j \in C : info[j].avail = 0
  BY GetItemFacts
<1>2. /\ NoItem \notin DOMAIN info /\ IsFiniteSet(DOMAIN info)
      /\ \A j \in DOMAIN info : info[j].avail \in Nat
  BY DEF IsInfo
<1>3. a = IF i \in DOMAIN info THEN info[i].avail ELSE 0
  BY Zenon DEF GetAvail
<1> DEFINE m == IF i \in DOMAIN info THEN info[i].avail ELSE 0
<1>4. m \in S /\ m \in Nat /\ \A s \in S : s <= m
  <2> HIDE DEF i
  <2>1. CASE i = NoItem
    BY <1>1, <1>2, <2>1
  <2>2. CASE i # NoItem
    BY <1>1, <1>2, <2>2
  <2> QED
    BY <2>1, <2>2
<1>5. Max(S) = m
  <2>1. S \subseteq Int
    BY <1>2
  <2>2. \A s, t \in S : s <= t /\ t <= s => s = t
    BY <2>1
  <2> HIDE DEF S, m
  <2>3. Max(S) = CHOOSE x \in S : \A y \in S : x >= y
    BY DEF Max
  <2>4. m \in S /\ \A y \in S : m >= y
    BY <1>4, <2>1
  <2>5. Max(S) \in S /\ \A y \in S : Max(S) >= y
    BY <2>3, <2>4
  <2> QED
    BY <1>4, <2>1, <2>2, <2>4, <2>5
<1>6. StoredOf(out) = m
  BY <1>5 DEF StoredOf
<1>7. Share(info, out) = <<a, out.size>>
  BY DEF Share
<1> HIDE DEF a
<1>8. a = m
  BY <1>3, Zenon
<1> HIDE DEF m
<1> QED
  BY <1>4, <1>6, <1>7, <1>8, Zenon

\* An output is lacking when its share is missing.
LEMMA LackingIs ==
    ASSUME IsInfo(info), NEW r
    PROVE  /\ \A out \in LackingOf(r) : <<StoredOf(out), out.size>> \in Missing(info, Recipes[r])
           /\ \A s \in Missing(info, Recipes[r]) :
                \E out \in LackingOf(r) : s = <<StoredOf(out), out.size>>
<1> DEFINE D == DOMAIN Recipes[r].out
           out(k) == Recipes[r].out[k]
<1>1. ToSet(Recipes[r].out) = {out(k) : k \in D}
  BY DEF ToSet
<1>2. \A k \in D : Share(info, out(k)) = <<StoredOf(out(k)), out(k).size>>
  BY StoredIs
<1>3. Missing(info, Recipes[r]) = {s \in {Share(info, out(k)) : k \in D} : s[1] < s[2]}
  BY DEF Missing
<1>4. ASSUME NEW o \in LackingOf(r)
      PROVE  <<StoredOf(o), o.size>> \in Missing(info, Recipes[r])
  <2>1. PICK k \in D : o = out(k)
    BY <1>1 DEF LackingOf
  <2>2. StoredOf(o) < o.size
    BY DEF LackingOf
  <2>3. Share(info, out(k)) = <<StoredOf(o), o.size>>
    BY <1>2, <2>1
  <2> HIDE DEF out
  <2> DEFINE s == <<StoredOf(o), o.size>>
  <2>4. s[1] < s[2]
    BY <2>2
  <2> HIDE DEF s
  <2> QED
    BY <1>3, <2>3, <2>4 DEF s
<1>5. ASSUME NEW s \in Missing(info, Recipes[r])
      PROVE  \E o \in LackingOf(r) : s = <<StoredOf(o), o.size>>
  <2>1. PICK k \in D : s = Share(info, out(k))
    BY <1>3
  <2>2. s[1] < s[2]
    BY <1>3
  <2>3. s = <<StoredOf(out(k)), out(k).size>>
    BY <1>2, <2>1
  <2>4. out(k) \in LackingOf(r)
    <3>1. StoredOf(out(k)) < out(k).size
      BY <2>2, <2>3
    <3> QED
      BY <1>1, <3>1 DEF LackingOf
  <2> QED
    BY <2>3, <2>4
<1> QED
  BY <1>4, <1>5

\* A recipe is demanded when its inputs suffice and an output is lacking.
LEMMA DemandedIs ==
    ASSUME PlanningTypeOK, NEW r \in DOMAIN Recipes
    PROVE  r \in Demanded(info, Recipes, TRUE) <=>
             Suffice(r, 1) /\ (Recipes[r].out = <<>> \/ LackingOf(r) # {})
<1>1. ASSUME NEW rs, rs = ResolveRecipeInputs(info, Recipes[r], TRUE)
      PROVE  rs.inAvail # 0 <=> Suffice(r, 1)
  <2>1. IsInfo(info) /\ IsRecipe(Recipes[r]) /\ Resolves(info, Recipes[r], rs)
    BY <1>1, ResolvedRecipe, Zenon
  <2>2. /\ \A s \in Nat \ {0} : s <= rs.inAvail => Suffice(r, s)
        /\ ~Suffice(r, rs.inAvail + 1)
    BY <2>1, SufficeFacts, PlanningAssumption, Zenon
  <2>3. rs.inAvail \in Nat
    BY <2>1, Zenon DEF Resolves
  <2>4. \A n \in Nat : (n # 0 => 1 <= n) /\ (n = 0 => n + 1 = 1)
    OBVIOUS
  <2>5. 1 \in Nat \ {0}
    OBVIOUS
  <2> QED
    BY <2>2, <2>3, <2>4, <2>5, Zenon
<1>2. Wanted(info, Recipes[r]) <=> Recipes[r].out = <<>> \/ LackingOf(r) # {}
  <2>1. IsInfo(info)
    BY TypedIsInfo, PlanningAssumption
  <2>2. Missing(info, Recipes[r]) # {} <=> LackingOf(r) # {}
    BY <2>1, LackingIs
  <2> QED
    BY <2>2 DEF Wanted
<1> QED
  BY <1>1, <1>2, Zenon DEF Demanded

\* No output of a later recipe is nearer to empty than the neediest of an earlier.
LEMMA OrderMeans ==
    ASSUME IsInfo(info), NEW r, NEW s, IsRecipe(Recipes[r]), IsRecipe(Recipes[s]),
           Wanted(info, Recipes[r]), Wanted(info, Recipes[s]),
           ~Before(info, Recipes[s], Recipes[r]), NEW later \in LackingOf(s)
    PROVE  \E out \in LackingOf(r) : StoredOf(out) * later.size <= StoredOf(later) * out.size
<1> DEFINE t == <<StoredOf(later), later.size>>
           fr == Fullness(info, Recipes[r])
           fs == Fullness(info, Recipes[s])
<1>1. t \in Missing(info, Recipes[s])
  BY LackingIs
<1>2. Recipes[s].out # <<>>
  BY DEF LackingOf, ToSet
<1>3. /\ fs \in Fractions /\ fs \in Missing(info, Recipes[s])
      /\ t \in Fractions /\ ~Below(t, fs)
  BY <1>1, <1>2, FullnessFacts
<1>4. fr \in Fractions /\ ~Below(fs, fr)
  BY FullnessFacts DEF Before
<1>5. ~Below(t, fr)
  <2> HIDE DEF t, fr, fs
  <2> QED
    BY <1>3, <1>4, FractionOrder
<1>6. Recipes[r].out # <<>>
  <2> SUFFICES ASSUME Recipes[r].out = <<>> PROVE FALSE
    OBVIOUS
  <2>1. fr = <<2, 1>>
    BY DEF Fullness
  <2>2. t[1] < t[2]
    BY <1>1 DEF Missing
  <2> DEFINE a == t[1] b == t[2]
  <2>3. a \in Nat /\ b \in Nat \ {0} /\ a < b
    BY <1>3, <2>2 DEF Fractions
  <2>4. Below(t, <<2, 1>>) <=> a * 1 < 2 * b
    BY DEF Below
  <2> HIDE DEF a, b, t
  <2>5. a * 1 < 2 * b
    BY <2>3
  <2> HIDE DEF fr
  <2> QED
    BY <1>5, <2>1, <2>4, <2>5
<1>7. fr \in Missing(info, Recipes[r])
  BY <1>6, FullnessFacts
<1>8. PICK out \in LackingOf(r) : fr = <<StoredOf(out), out.size>>
  BY <1>7, LackingIs
<1> DEFINE a == StoredOf(later) b == later.size c == StoredOf(out) d == out.size
<1>9. a \in Nat /\ b \in Nat /\ c \in Nat /\ d \in Nat
  BY <1>3, <1>4, <1>8 DEF Fractions
<1>10. ~(a * d < c * b)
  <2>1. t = <<a, b>> /\ fr = <<c, d>>
    BY <1>8
  <2> HIDE DEF a, b, c, d, t, fr
  <2> QED
    BY <1>5, <2>1 DEF Below
<1> HIDE DEF a, b, c, d
<1>11. a * d \in Int /\ c * b \in Int
  BY <1>9
<1>12. c * b <= a * d
  BY <1>10, <1>11
<1> QED
  BY <1>12 DEF a, b, c, d

\* What NeediestFirst says of a list.
ListsDemand(demands) ==
    /\ ToSet(demands) = {r \in DOMAIN Recipes :
         Suffice(r, 1) /\ (Recipes[r].out = <<>> \/ LackingOf(r) # {})}
    /\ \A m \in DOMAIN demands, n \in DOMAIN demands : m < n =>
         /\ demands[m] # demands[n]
         /\ \A later \in LackingOf(demands[n]) : \E out \in LackingOf(demands[m]) :
              StoredOf(out) * later.size <= StoredOf(later) * out.size

\* A list of the recipes demanded that is sorted is as it says.
LEMMA SortedListsDemand ==
    ASSUME PlanningTypeOK,
           NEW D \in SUBSET DOMAIN Recipes, NEW ds, IsNeediestFirst(info, Recipes, D, ds),
           \A r \in D : Wanted(info, Recipes[r]),
           \A r \in DOMAIN Recipes : r \in D <=>
             Suffice(r, 1) /\ (Recipes[r].out = <<>> \/ LackingOf(r) # {})
    PROVE  ListsDemand(ds)
<1>1. /\ \A n \in DOMAIN ds : ds[n] \in D
      /\ \A r \in D : \E n \in DOMAIN ds : ds[n] = r
      /\ \A m, n \in DOMAIN ds : m < n =>
           /\ ds[m] # ds[n]
           /\ ~Before(info, Recipes[ds[n]], Recipes[ds[m]])
  BY DEF IsNeediestFirst
<1>2. IsInfo(info) /\ \A r \in DOMAIN Recipes : IsRecipe(Recipes[r])
  BY TypedIsInfo, PlanningAssumption DEF RecipesAssumption, AreRecipes
<1>3. ToSet(ds) = {r \in DOMAIN Recipes :
        Suffice(r, 1) /\ (Recipes[r].out = <<>> \/ LackingOf(r) # {})}
  <2>1. ToSet(ds) = {ds[n] : n \in DOMAIN ds}
    BY DEF ToSet
  <2>2. ToSet(ds) = D
    BY <1>1, <2>1
  <2> QED
    BY <2>2
<1>4. ASSUME NEW m \in DOMAIN ds, NEW n \in DOMAIN ds, m < n, NEW later \in LackingOf(ds[n])
      PROVE  \E out \in LackingOf(ds[m]) : StoredOf(out) * later.size <= StoredOf(later) * out.size
  <2> DEFINE r == ds[m] s == ds[n]
  <2>1. /\ r \in D /\ s \in D /\ ~Before(info, Recipes[s], Recipes[r])
        /\ later \in LackingOf(s)
    BY <1>1, <1>4
  <2> HIDE DEF r, s
  <2>2. \E out \in LackingOf(r) : StoredOf(out) * later.size <= StoredOf(later) * out.size
    BY <1>2, <2>1, OrderMeans
  <2> QED
    BY <2>2 DEF r
<1> QED
  BY <1>1, <1>3, <1>4 DEF ListsDemand

\* What getDemand returns, in a state that is typed.
LEMMA TypedNeediestFirst ==
    ASSUME PlanningTypeOK
    PROVE  NeediestFirst
<1>1. ASSUME NEW ds, NEW D, ds = GetDemand(info, Recipes, TRUE),
             D = Demanded(info, Recipes, TRUE)
      PROVE  ListsDemand(ds)
  <2>1. D \in SUBSET DOMAIN Recipes /\ IsNeediestFirst(info, Recipes, D, ds)
    <3>1. IsInfo(info)
      BY TypedIsInfo, PlanningAssumption, Zenon
    <3>2. AreRecipes(Recipes)
      BY PlanningAssumption, Zenon DEF RecipesAssumption
    <3>3. D \subseteq DOMAIN Recipes /\ IsNeediestFirst(info, Recipes, D, ds)
      BY <1>1, <3>1, <3>2, DemandFacts, Zenon
    <3> QED
      BY <3>3, Zenon
  <2>2. \A r \in D : Wanted(info, Recipes[r])
    BY <1>1, Zenon DEF Demanded
  <2>3. \A r \in DOMAIN Recipes : r \in D <=>
          Suffice(r, 1) /\ (Recipes[r].out = <<>> \/ LackingOf(r) # {})
    BY <1>1, DemandedIs, Zenon
  <2> QED
    BY <2>1, <2>2, <2>3, SortedListsDemand, Zenon
<1>2. ListsDemand(GetDemand(info, Recipes, TRUE))
  BY <1>1, Zenon
<1> QED
  BY <1>2 DEF NeediestFirst, ListsDemand, StoredOf, LackingOf

\* The plan for a recipe is the best that the storages and the backups allow, the
\* backups add up and are kept, and the neediest recipe comes first, whatever the
\* configuration and the storages hold (resolveRecipeInputs, getDemand and
\* backupItems of Factory.h and Factory.cpp).
THEOREM PlansAreBestHolds == PlanningSpec => []PlansAreBest
<1>1. PlanningInvariant => PlansAreBest
  BY TypedSetsAreMost, TypedNeediestFirst DEF PlanningInvariant, PlansAreBest
<1> QED
  BY <1>1, PlanningInvariantHolds, PTL
-----------------------------------------------------------------------------
(***************************************************************************)
(* The slotted process, which plans with these functions.  Its `info' and  *)
(* its recipes are those that are declared above.                          *)
(***************************************************************************)
CONSTANTS InSlots, OutSlot, OutFilter, Stored0, Backup, CraftSize, MaxTaken, MaxLost
VARIABLES stored, machine, job, output, phase, taken, lost

Slotted == INSTANCE CppSlotted

\* The functions of CppItems are the same in all modules.
LEMMA SlottedStacks ==
    /\ Slotted!Empty = Empty /\ \A i, n : Slotted!Stack(i, n) = Stack(i, n)
    /\ \A m, n : Slotted!Least(m, n) = Least(m, n)
    /\ \A f, i : Slotted!Accepts(f, i) <=> Accepts(f, i)
BY DEF Slotted!Empty, Empty, Slotted!Stack, Stack, Slotted!Least, Least, Slotted!Accepts, Accepts

\* It resolves the inputs of a recipe as CppRecipes does.
LEMMA SlottedResolves ==
    ASSUME NEW x, NEW rec
    PROVE  Slotted!ResolveRecipeInputs(x, rec, TRUE) = ResolveRecipeInputs(x, rec, TRUE)
BY DEF Slotted!ResolveRecipeInputs, ResolveRecipeInputs, Slotted!GetItem, GetItem, Slotted!Candidates, Candidates,
       Slotted!Accepts, Accepts, Slotted!Deciding, Deciding, Slotted!GetAvail, GetAvail, Slotted!Most, Most, Slotted!Clips, Clips,
       Slotted!Needed, Needed, Slotted!Min, Min, Slotted!SumFunctionOnSet, SumFunctionOnSet,
       Slotted!FoldFunctionOnSet, FoldFunctionOnSet, Slotted!MapThenFoldSet, MapThenFoldSet

\* It takes the same share of an output to be there.
LEMMA SlottedShares ==
    ASSUME NEW x, NEW out
    PROVE  Slotted!Share(x, out) = Share(x, out)
BY DEF Slotted!Share, Share, Slotted!GetItem, GetItem, Slotted!Candidates, Candidates,
       Slotted!Accepts, Accepts, Slotted!GetAvail, GetAvail, Slotted!Most, Most

\* It finds the same outputs missing and wanted, and the storage as full.
LEMMA SlottedMissing ==
    ASSUME NEW x, NEW rec
    PROVE  /\ Slotted!Missing(x, rec) = Missing(x, rec) /\ (Slotted!Wanted(x, rec) <=> Wanted(x, rec))
           /\ Slotted!Fullness(x, rec) = Fullness(x, rec)
<1>1. Slotted!Missing(x, rec) = Missing(x, rec)
    BY SlottedShares DEF Slotted!Missing, Missing
<1>2. \A S : Slotted!Lowest(S) = Lowest(S)
    BY DEF Slotted!Lowest, Lowest, Slotted!Below, Below
<1> QED
    BY <1>1, <1>2 DEF Slotted!Fullness, Fullness, Slotted!Wanted, Wanted

\* It puts the same recipe first.
LEMMA SlottedEarlier ==
    ASSUME NEW x, NEW r, NEW s
    PROVE  Slotted!Earlier(x, Recipes, r, s) <=> Earlier(x, Recipes, r, s)
BY SlottedMissing DEF Slotted!Earlier, Earlier, Slotted!Before, Before, Slotted!Below, Below

\* It demands the same recipes, in the same order.
LEMMA SlottedDemands ==
    ASSUME NEW x
    PROVE  /\ Slotted!Demanded(x, Recipes, TRUE) = Demanded(x, Recipes, TRUE)
           /\ Slotted!GetDemand(x, Recipes, TRUE) = GetDemand(x, Recipes, TRUE)
<1>1. Slotted!Demanded(x, Recipes, TRUE) = Demanded(x, Recipes, TRUE)
    <2> DEFINE P(r) == Wanted(x, Recipes[r]) /\ ResolveRecipeInputs(x, Recipes[r], TRUE).inAvail # 0
               Q(r) == Slotted!Wanted(x, Recipes[r]) /\ Slotted!ResolveRecipeInputs(x, Recipes[r], TRUE).inAvail # 0
    <2>1. Demanded(x, Recipes, TRUE) = {r \in DOMAIN Recipes : P(r)}
        BY Zenon DEF Demanded
    <2>2. Slotted!Demanded(x, Recipes, TRUE) = {r \in DOMAIN Recipes : Q(r)}
        BY Zenon DEF Slotted!Demanded
    <2>3. ASSUME NEW r PROVE P(r) <=> Q(r)
        <3>1. Slotted!Wanted(x, Recipes[r]) <=> Wanted(x, Recipes[r])
            BY SlottedMissing
        <3>2. Slotted!ResolveRecipeInputs(x, Recipes[r], TRUE) = ResolveRecipeInputs(x, Recipes[r], TRUE)
            BY SlottedResolves
        <3> QED
            BY <3>1, <3>2, Zenon
    <2> HIDE DEF P, Q
    <2> QED
        BY <2>1, <2>2, <2>3, Zenon
<1>2. \A S : Slotted!Cardinality(S) = Cardinality(S)
    BY DEF Slotted!Cardinality, Cardinality, Slotted!IsFiniteSet, IsFiniteSet
<1> DEFINE D == Demanded(x, Recipes, TRUE)
           before(r) == {s \in D : Earlier(x, Recipes, s, r)}
           sbefore(r) == {s \in D : Slotted!Earlier(x, Recipes, s, r)}
<1>3. \A r : sbefore(r) = before(r)
    BY SlottedEarlier
<1> QED
    <2>1. Slotted!GetDemand(x, Recipes, TRUE) =
            [n \in 1 .. Slotted!Cardinality(D) |-> CHOOSE r \in D : Slotted!Cardinality(sbefore(r)) = n - 1]
        <3> DEFINE SD == Slotted!Demanded(x, Recipes, TRUE)
                   found(r, S) == {s \in S : Slotted!Earlier(x, Recipes, s, r)}
                   order(S) == [n \in 1 .. Slotted!Cardinality(S) |-> CHOOSE r \in S : Slotted!Cardinality(found(r, S)) = n - 1]
        <3>1. Slotted!GetDemand(x, Recipes, TRUE) = order(SD)
            BY Zenon DEF Slotted!GetDemand
        <3> HIDE DEF SD, order
        <3>2. SD = D
            BY <1>1, Zenon DEF SD
        <3>3. Slotted!GetDemand(x, Recipes, TRUE) = order(D)
            BY <3>1, <3>2, Zenon
        <3> QED
            BY <3>3, Zenon DEF order
    <2>2. GetDemand(x, Recipes, TRUE) =
            [n \in 1 .. Cardinality(D) |-> CHOOSE r \in D : Cardinality(before(r)) = n - 1]
        BY Zenon DEF GetDemand
    <2> HIDE DEF D, before, sbefore
    <2>3. \A n : (CHOOSE r \in D : Slotted!Cardinality(sbefore(r)) = n - 1) = (CHOOSE r \in D : Cardinality(before(r)) = n - 1)
        BY <1>2, <1>3
    <2> QED
        BY <1>1, <1>2, <2>1, <2>2, <2>3

\* It needs as much of an item for a set.
LEMMA SlottedNeeds ==
    ASSUME NEW rec, NEW in, NEW i
    PROVE  Slotted!Needed(rec, in, i) = Needed(rec, in, i)
BY DEF Slotted!Needed, Needed, Slotted!SumFunctionOnSet, SumFunctionOnSet,
       Slotted!FoldFunctionOnSet, FoldFunctionOnSet, Slotted!MapThenFoldSet, MapThenFoldSet

\* The members and the ends of a set are the same.
LEMMA SlottedSets ==
    /\ \A s : Slotted!ToSet(s) = ToSet(s)
    /\ \A S : Slotted!Min(S) = Min(S) /\ Slotted!Max(S) = Max(S)
BY DEF Slotted!ToSet, ToSet, Slotted!Min, Min, Slotted!Max, Max

\* What an instance has to satisfy, and that this is what the functions expect.
SlottedAssumption == Slotted!ItemsAssumption /\ Slotted!RecipesAssumption

\* What follows from it for the names that are used below.
LEMMA SlottedAssumes ==
    ASSUME SlottedAssumption
    PROVE  /\ ItemsAssumption /\ AreRecipes(Recipes)
           /\ OutSlot \notin InSlots /\ IsFiniteSet(InSlots) /\ OutFilter \in BOOLEAN
           /\ Stored0 \in [Items -> Nat] /\ Backup \in [Items -> Nat] /\ MaxTaken \in Nat /\ MaxLost \in Nat
           /\ \A r \in DOMAIN Recipes :
                Recipes[r].data \in Int /\ CraftSize[r] \in Nat /\ Slotted!Product(r) \in Items
<1>1. ItemsAssumption
    BY DEF SlottedAssumption, Slotted!ItemsAssumption, ItemsAssumption, Slotted!IsFiniteSet, IsFiniteSet
<1>2. AreRecipes(Recipes)
    BY DEF SlottedAssumption, Slotted!RecipesAssumption, Slotted!AreRecipes, AreRecipes, Slotted!IsRecipe, IsRecipe
<1>3. IsFiniteSet(InSlots)
    BY DEF SlottedAssumption, Slotted!RecipesAssumption, Slotted!IsFiniteSet, IsFiniteSet
<1> QED
    BY <1>1, <1>2, <1>3 DEF SlottedAssumption, Slotted!RecipesAssumption, Slotted!Product

\* Where the ingredients of a recipe go.
IsPlaced(r) ==
    /\ Slotted!UsedSlots(r) \subseteq InSlots /\ Slotted!UsedSlots(r) # {}
    /\ \A slot \in InSlots : slot \notin Slotted!UsedSlots(r) <=> Slotted!IngredientAt(r, slot) = {}
    /\ \A slot \in InSlots : \A k \in Slotted!IngredientAt(r, slot) :
         /\ k \in DOMAIN Recipes[r].in /\ Slotted!IngredientAt(r, slot) = {k}
         /\ Slotted!Min(Slotted!IngredientAt(r, slot)) = k
         /\ Slotted!EachSize(Recipes[r].in[k]) \in Nat \ {0}

\* A size that its parts divide is not lost in them.
LEMMA PartsOfSize ==
    ASSUME NEW m \in Nat \ {0}, NEW n \in Nat \ {0}, m % n = 0
    PROVE  m \div n \in Nat \ {0}
OBVIOUS

\* This is so in every recipe.
LEMMA IngredientsPlaced ==
    ASSUME SlottedAssumption, NEW r \in DOMAIN Recipes
    PROVE  IsPlaced(r) /\ IsRecipe(Recipes[r]) /\ Recipes[r].data \in Int /\ CraftSize[r] \in Nat
<1>1. /\ IsRecipe(Recipes[r]) /\ Recipes[r].data \in Int /\ CraftSize[r] \in Nat
  BY SlottedAssumes DEF AreRecipes
<1> DEFINE In == DOMAIN Recipes[r].in
           at(slot) == Slotted!IngredientAt(r, slot)
<1>2. /\ IsFiniteSet(In) /\ In \subseteq Int /\ In # {}
      /\ \A k \in In : Recipes[r].in[k].size \in Nat \ {0}
  BY <1>1, IngredientsFinite DEF IsRecipe
<1>3. ASSUME NEW k \in In
      PROVE  LET in == Recipes[r].in[k]
             IN  /\ DOMAIN in.data = 1 .. Len(in.data) /\ Len(in.data) \in Nat \ {0}
                 /\ ToSet(in.data) \subseteq InSlots /\ in.size % Len(in.data) = 0
  BY SlottedSets DEF SlottedAssumption, Slotted!RecipesAssumption
<1>4. \A k, m \in In : \A a \in DOMAIN Recipes[r].in[k].data, b \in DOMAIN Recipes[r].in[m].data :
        Recipes[r].in[k].data[a] = Recipes[r].in[m].data[b] => k = m
  BY DEF SlottedAssumption, Slotted!RecipesAssumption
<1>5. \A slot : at(slot) = {k \in In : slot \in ToSet(Recipes[r].in[k].data)}
  BY SlottedSets DEF Slotted!IngredientAt
<1>6. \A slot : \A k \in at(slot), m \in at(slot) : k = m
  BY <1>4, <1>5 DEF ToSet
<1> HIDE DEF In, at
<1>7. ASSUME NEW slot \in InSlots, NEW k \in at(slot)
      PROVE  /\ k \in In /\ at(slot) = {k} /\ Slotted!Min(at(slot)) = k
             /\ Slotted!EachSize(Recipes[r].in[k]) \in Nat \ {0}
  <2>1. k \in In /\ at(slot) = {k}
    BY <1>5, <1>6
  <2>2. Min({k}) = k
    BY <1>2, <2>1 DEF Min
  <2>3. Slotted!Min(at(slot)) = k
    BY <2>1, <2>2, SlottedSets
  <2>4. Slotted!EachSize(Recipes[r].in[k]) = Recipes[r].in[k].size \div Len(Recipes[r].in[k].data)
    BY DEF Slotted!EachSize
  <2> DEFINE m == Recipes[r].in[k].size
             n == Len(Recipes[r].in[k].data)
  <2>5. m \in Nat \ {0} /\ n \in Nat \ {0} /\ m % n = 0
    BY <1>2, <1>3, <2>1
  <2> HIDE DEF m, n
  <2>6. m \div n \in Nat \ {0}
    BY <2>5, PartsOfSize
  <2> QED
    BY <2>1, <2>3, <2>4, <2>6 DEF m, n
<1>8. Slotted!UsedSlots(r) = {slot \in InSlots : at(slot) # {}}
  BY DEF Slotted!UsedSlots, at
<1>9. Slotted!UsedSlots(r) # {}
  <2>1. PICK k \in In : TRUE
    BY <1>2
  <2> DEFINE slot == Recipes[r].in[k].data[1]
  <2>2. slot \in ToSet(Recipes[r].in[k].data) /\ slot \in InSlots
    <3>1. 1 \in DOMAIN Recipes[r].in[k].data
      BY <1>3, <2>1
    <3> QED
      BY <1>3, <2>1, <3>1 DEF ToSet
  <2>3. k \in at(slot)
    BY <1>5, <2>1, <2>2
  <2> QED
    BY <1>8, <2>2, <2>3
<1> QED
  BY <1>1, <1>7, <1>8, <1>9 DEF IsPlaced, In, at

\* What is divided is enough.
LEMMA RoomBounds ==
    ASSUME NEW a \in Int, NEW b \in Nat \ {0}, NEW s \in Nat \ {0}, s <= a \div b
    PROVE  s * b <= a
<1> DEFINE q == a \div b
<1>1. q \in Int /\ b * q <= a
  OBVIOUS
<1> HIDE DEF q
<1>2. s * b <= q * b
  <2>1. s <= q
    BY DEF q
  <2> QED
    BY <1>1, <2>1
<1> QED
  BY <1>1, <1>2

\* Division of integers.
LEMMA Divides == \A a \in Int, b \in Nat \ {0} : a \div b \in Int
OBVIOUS

\* A stack in a slot of the machine, and all of them.
IsStack(s) == s = Empty \/ (s.item \in Items /\ s.size \in 1 .. MaxSize[s.item])
AreStacks(contents) == DOMAIN contents = Slotted!Slots /\ \A slot \in Slotted!Slots : IsStack(contents[slot])

\* The size of a stack is a number, and it is zero in an empty slot only.
LEMMA StackSizes ==
    ASSUME SlottedAssumption, NEW s, IsStack(s)
    PROVE  /\ s.size \in Nat /\ s.item \in Items \cup {NoItem} /\ (s.item = NoItem <=> s = Empty)
           /\ (s.size = 0 <=> s = Empty)
           /\ s # Empty => s.size <= MaxSize[s.item]
<1>1. NoItem \notin Items /\ MaxSize \in [Items -> Nat \ {0}]
  BY SlottedAssumes DEF ItemsAssumption
<1> QED
  BY <1>1 DEF IsStack, Empty

\* Inputs for this many sets of recipe r fit into the slots that are left, and nothing
\* else is where its inputs go.
Fits(contents, r, in, sets, left) ==
    /\ \A slot \in InSlots \ Slotted!UsedSlots(r) : contents[slot] = Empty
    /\ \A slot \in Slotted!UsedSlots(r) : \A k \in Slotted!IngredientAt(r, slot) :
         /\ contents[slot].item \in {NoItem, in[k]}
         /\ slot \in left =>
              contents[slot].size + sets * Slotted!EachSize(Recipes[r].in[k])
                <= Least(Recipes[r].data, MaxSize[in[k]])

\* What a recipe is started with fits.
LEMMA StartedFits ==
    ASSUME SlottedAssumption, NEW contents, AreStacks(contents), NEW r \in DOMAIN Recipes,
           NEW x, IsInfo(x), NEW rs, Resolves(x, Recipes[r], rs), rs.inAvail # 0,
           NEW j, j = Slotted!Started(contents, r, rs), j.sets > 0
    PROVE  /\ j.recipe = r /\ j.in = rs.in /\ j.sets \in Nat \ {0} /\ j.sets <= rs.inAvail
           /\ j = [recipe |-> r, in |-> j.in, left |-> j.left, sets |-> j.sets]
           /\ j.left = Slotted!UsedSlots(r) /\ Fits(contents, r, rs.in, j.sets, j.left)
<1> DEFINE at(slot) == Slotted!IngredientAt(r, slot)
           Used == Slotted!UsedSlots(r)
           room(slot, k) == Slotted!RoomFor(contents, r, rs.in, slot, k)
           all == {rs.inAvail} \cup UNION {{room(slot, k) : k \in at(slot)} : slot \in Used}
<1>1. j = [recipe |-> r, in |-> rs.in, left |-> Slotted!UsedSlots(r),
           sets |-> IF Slotted!Matches(contents, r, rs.in) THEN Slotted!Sets(contents, r, rs) ELSE 0]
  BY DEF Slotted!Started
<1>2. /\ j.recipe = r /\ j.in = rs.in /\ Slotted!Matches(contents, r, rs.in) /\ j.sets = Slotted!Sets(contents, r, rs)
      /\ j.left = Slotted!UsedSlots(r) /\ j = [recipe |-> r, in |-> j.in, left |-> j.left, sets |-> j.sets]
  BY <1>1
<1>3. IsPlaced(r) /\ IsRecipe(Recipes[r]) /\ Recipes[r].data \in Int
  BY IngredientsPlaced
<1>4. rs.inAvail \in Nat /\ DOMAIN rs.in = DOMAIN Recipes[r].in
  BY DEF Resolves
<1>5. j.sets = Min(all)
  BY <1>2, SlottedSets DEF Slotted!Sets
<1>6. /\ Used \subseteq InSlots /\ InSlots \subseteq Slotted!Slots
      /\ \A slot \in Used : \A k \in at(slot) : k \in DOMAIN Recipes[r].in
  BY <1>3 DEF IsPlaced, Slotted!Slots
<1> HIDE DEF at, Used
<1>7. \A slot \in Used : \A k \in at(slot) :
        /\ MaxSize[rs.in[k]] \in Nat /\ Slotted!EachSize(Recipes[r].in[k]) \in Nat \ {0}
        /\ contents[slot].size \in Nat
        /\ Least(Recipes[r].data, MaxSize[rs.in[k]]) - contents[slot].size \in Int
        /\ room(slot, k) = (Least(Recipes[r].data, MaxSize[rs.in[k]]) - contents[slot].size)
                              \div Slotted!EachSize(Recipes[r].in[k])
        /\ room(slot, k) \in Int
  <2> SUFFICES ASSUME NEW slot \in Used, NEW k \in at(slot)
               PROVE  /\ MaxSize[rs.in[k]] \in Nat /\ Slotted!EachSize(Recipes[r].in[k]) \in Nat \ {0}
                      /\ contents[slot].size \in Nat
                      /\ Least(Recipes[r].data, MaxSize[rs.in[k]]) - contents[slot].size \in Int
                      /\ room(slot, k) = (Least(Recipes[r].data, MaxSize[rs.in[k]]) - contents[slot].size)
                                            \div Slotted!EachSize(Recipes[r].in[k])
                      /\ room(slot, k) \in Int
    OBVIOUS
  <2> DEFINE e == Slotted!EachSize(Recipes[r].in[k])
             l == Least(Recipes[r].data, MaxSize[rs.in[k]])
             n == contents[slot].size
  <2>1. MaxSize[rs.in[k]] \in Nat
    BY <1>4, <1>6 DEF Resolves
  <2>2. e \in Nat \ {0}
    BY <1>3, <1>6 DEF IsPlaced, at
  <2>3. n \in Nat
    BY <1>6, StackSizes DEF AreStacks
  <2>4. l \in Int
    BY <1>3, <2>1 DEF Least
  <2>5. room(slot, k) = (l - n) \div e
    BY SlottedStacks DEF Slotted!RoomFor
  <2> HIDE DEF room, e, l, n
  <2>6. l - n \in Int /\ (l - n) \div e \in Int
    BY <2>2, <2>3, <2>4, Divides
  <2> QED
    BY <2>1, <2>2, <2>3, <2>4, <2>5, <2>6 DEF e, l, n
<1>8. IsFiniteSet(all) /\ all \in SUBSET Int /\ all # {}
  <2> DEFINE P == InSlots \X DOMAIN Recipes[r].in
             pairs == {p \in P : p[1] \in Used /\ p[2] \in at(p[1])}
             f == [p \in pairs |-> room(p[1], p[2])]
             rooms == UNION {{room(slot, k) : k \in at(slot)} : slot \in Used}
  <2>1. IsFiniteSet(InSlots) /\ IsFiniteSet(DOMAIN Recipes[r].in)
    BY <1>3, SlottedAssumes, IngredientsFinite
  <2>2. IsFiniteSet(P)
    BY <2>1, FS_Product
  <2>3. IsFiniteSet(pairs)
    <3> HIDE DEF P
    <3> QED
      BY <2>2, FS_Subset
  <2> HIDE DEF room
  <2>4. \A slot \in Used : \A k \in at(slot) :
          /\ <<slot, k>> \in pairs /\ <<slot, k>>[1] = slot /\ <<slot, k>>[2] = k
    BY <1>6
  <2>5. f \in Surjection(pairs, rooms)
    <3>1. \A p \in pairs : f[p] \in rooms
      <4> HIDE DEF f
      <4> SUFFICES ASSUME NEW p \in pairs PROVE f[p] \in rooms
        OBVIOUS
      <4>1. p[1] \in Used /\ p[2] \in at(p[1]) /\ f[p] = room(p[1], p[2])
        BY DEF f
      <4> QED
        BY <4>1
    <3>2. \A y \in rooms : \E p \in pairs : f[p] = y
      <4> SUFFICES ASSUME NEW y \in rooms PROVE \E p \in pairs : f[p] = y
        OBVIOUS
      <4>1. PICK slot \in Used : \E k \in at(slot) : y = room(slot, k)
        OBVIOUS
      <4>2. PICK k \in at(slot) : y = room(slot, k)
        BY <4>1
      <4> HIDE DEF pairs, rooms
      <4>3. <<slot, k>> \in pairs /\ <<slot, k>>[1] = slot /\ <<slot, k>>[2] = k
        BY <2>4
      <4> QED
        BY <4>2, <4>3
    <3>3. f \in [pairs -> rooms]
      <4>1. f = [p \in pairs |-> f[p]]
        OBVIOUS
      <4> HIDE DEF f, pairs, rooms
      <4> QED
        BY <3>1, <4>1
    <3> HIDE DEF f, pairs, rooms
    <3> QED
      BY <3>2, <3>3 DEF Surjection
  <2>6. IsFiniteSet(rooms)
    <3> HIDE DEF f, pairs, rooms
    <3> QED
      BY <2>3, <2>5, FS_Surjection
  <2>7. rooms \subseteq Int
    BY <1>7
  <2>8. all = rooms \cup {rs.inAvail}
    OBVIOUS
  <2> DEFINE n == rs.inAvail
  <2>9. n \in Nat
    BY <1>4
  <2> HIDE DEF rooms, n
  <2>10. IsFiniteSet(rooms \cup {n})
    BY <2>6, FS_AddElement
  <2>11. rooms \cup {n} \in SUBSET Int /\ rooms \cup {n} # {}
    BY <2>7, <2>9
  <2> QED
    BY <2>8, <2>10, <2>11, Zenon DEF n
<1>9. j.sets \in Int /\ j.sets <= rs.inAvail
      /\ \A slot \in Used : \A k \in at(slot) : j.sets <= room(slot, k)
  <2>1. rs.inAvail \in all /\ \A slot \in Used : \A k \in at(slot) : room(slot, k) \in all
    <3> HIDE DEF room
    <3> QED
      OBVIOUS
  <2> HIDE DEF all, room
  <2>2. j.sets \in all /\ \A y \in all : j.sets <= y
    BY <1>5, <1>8, LeastOfFinite
  <2> QED
    BY <1>8, <2>1, <2>2
<1>10. j.sets \in Nat \ {0}
  BY <1>9
<1> HIDE DEF room, all
<1>11. ASSUME NEW slot \in Used, NEW k \in at(slot)
       PROVE  /\ contents[slot].item \in {NoItem, rs.in[k]}
              /\ contents[slot].size + j.sets * Slotted!EachSize(Recipes[r].in[k])
                   <= Least(Recipes[r].data, MaxSize[rs.in[k]])
  <2> DEFINE e == Slotted!EachSize(Recipes[r].in[k])
             l == Least(Recipes[r].data, MaxSize[rs.in[k]])
             n == contents[slot].size
  <2>1. /\ e \in Nat \ {0} /\ n \in Nat /\ l - n \in Int
        /\ j.sets <= (l - n) \div e
    BY <1>7, <1>9
  <2>2. l \in Int
    <3>1. MaxSize[rs.in[k]] \in Nat
      BY <1>7
    <3> QED
      BY <1>3, <3>1 DEF Least
  <2>3. contents[slot].item \in {NoItem, rs.in[k]}
    BY <1>2 DEF Slotted!Matches, Used, at
  <2> HIDE DEF e, l, n
  <2>4. j.sets * e <= l - n
    BY <1>10, <2>1, RoomBounds
  <2>5. j.sets * e \in Int
    BY <1>10, <2>1
  <2>6. n + j.sets * e <= l
    BY <2>1, <2>2, <2>4, <2>5
  <2> QED
    BY <2>3, <2>6 DEF e, l, n
<1>12. \A slot \in InSlots \ Used : contents[slot] = Empty
  BY <1>2, SlottedStacks DEF Slotted!Matches, Used
<1> QED
  BY <1>2, <1>9, <1>10, <1>11, <1>12 DEF Fits, Used, at

\* What a job carries, and what the process chooses.
IsJob(j) ==
    /\ j = [recipe |-> j.recipe, in |-> j.in, left |-> j.left, sets |-> j.sets]
    /\ j.recipe \in DOMAIN Recipes /\ j.sets \in Nat \ {0}
    /\ DOMAIN j.in = DOMAIN Recipes[j.recipe].in
    /\ \A k \in DOMAIN j.in : j.in[k] \in Items /\ Accepts(Recipes[j.recipe].in[k].item, j.in[k])
    /\ j.left \subseteq Slotted!UsedSlots(j.recipe) /\ j.left # {}
Chooses(contents, j) ==
    /\ IsJob(j) /\ j.left = Slotted!UsedSlots(j.recipe)
    /\ Fits(contents, j.recipe, j.in, j.sets, j.left)
    /\ \E rs : /\ Resolves(info, Recipes[j.recipe], rs) /\ rs.inAvail # 0
               /\ j.in = rs.in /\ j.sets <= rs.inAvail

\* What the plan chooses is a job of a recipe in demand, of inputs that are there.
LEMMA ChosenFacts ==
    ASSUME SlottedAssumption, IsInfo(info), DOMAIN info = Items,
           NEW contents, AreStacks(contents), NEW j, j = Slotted!Chosen(contents)
    PROVE  j = Slotted!NoJob \/ Chooses(contents, j)
<1> DEFINE ds == GetDemand(info, Recipes, TRUE)
           D == Demanded(info, Recipes, TRUE)
           rs(r) == ResolveRecipeInputs(info, Recipes[r], TRUE)
           starts == Slotted!StartedAll(contents, ds)
           fits == {n \in DOMAIN starts : starts[n].sets > 0}
<1>1. j = IF fits = {} THEN Slotted!NoJob ELSE starts[Slotted!Min(fits)]
  <2>1. Slotted!GetDemand(info, Recipes, TRUE) = ds
    BY SlottedDemands, Zenon
  <2>2. j = Slotted!FirstStarted(Slotted!StartedAll(contents, Slotted!GetDemand(info, Recipes, TRUE)))
    BY Zenon DEF Slotted!Chosen
  <2>3. j = Slotted!FirstStarted(starts)
    BY <2>1, <2>2, Zenon
  <2> HIDE DEF starts
  <2> QED
    BY <2>3, Zenon DEF Slotted!FirstStarted
<1>2. DOMAIN starts = DOMAIN ds
  BY Zenon DEF Slotted!StartedAll
<1>3. ASSUME NEW n \in DOMAIN ds PROVE starts[n] = Slotted!Started(contents, ds[n], rs(ds[n]))
  <2>1. starts[n] = Slotted!Started(contents, ds[n], Slotted!ResolveRecipeInputs(info, Recipes[ds[n]], TRUE))
    BY <1>3, Zenon DEF Slotted!StartedAll
  <2>2. Slotted!ResolveRecipeInputs(info, Recipes[ds[n]], TRUE) = rs(ds[n])
    BY SlottedResolves, Zenon
  <2> QED
    BY <2>1, <2>2, Zenon
<1>4. AreRecipes(Recipes) /\ ItemsAssumption
  BY SlottedAssumes
<1>5. DOMAIN ds \subseteq Nat /\ D \subseteq DOMAIN Recipes /\ \A n \in DOMAIN ds : ds[n] \in D
  <2>1. \A d, s : d = Demanded(info, Recipes, TRUE) /\ s = GetDemand(info, Recipes, TRUE) =>
          /\ IsFiniteSet(d) /\ d \subseteq DOMAIN Recipes
          /\ DOMAIN s = 1 .. Cardinality(d) /\ IsNeediestFirst(info, Recipes, d, s)
    BY <1>4, DemandFacts, Zenon
  <2>2. /\ IsFiniteSet(D) /\ D \subseteq DOMAIN Recipes
        /\ DOMAIN ds = 1 .. Cardinality(D) /\ IsNeediestFirst(info, Recipes, D, ds)
    BY <2>1, Zenon
  <2> HIDE DEF D, ds
  <2>3. DOMAIN ds \subseteq Nat
    <3> DEFINE c == Cardinality(D)
    <3>1. c \in Nat /\ DOMAIN ds = 1 .. c
      BY <2>2, FS_CardinalityType
    <3> HIDE DEF c
    <3> QED
      BY <3>1
  <2> QED
    BY <2>2, <2>3 DEF IsNeediestFirst
<1>6. \A r \in D : rs(r).inAvail # 0
  BY Zenon DEF Demanded
<1>7. \A r \in DOMAIN Recipes : Resolves(info, Recipes[r], rs(r))
  <2> SUFFICES ASSUME NEW r \in DOMAIN Recipes PROVE Resolves(info, Recipes[r], rs(r))
    OBVIOUS
  <2>1. IsRecipe(Recipes[r])
    BY <1>4 DEF AreRecipes
  <2>2. \A s : s = ResolveRecipeInputs(info, Recipes[r], TRUE) => Resolves(info, Recipes[r], s)
    BY <1>4, <2>1, ResolveFacts, Zenon
  <2> QED
    BY <2>2, Zenon
<1> HIDE DEF ds, D, rs, starts
<1>8. SUFFICES ASSUME fits # {} PROVE Chooses(contents, j)
  BY <1>1
<1>9. PICK n \in fits : j = starts[n]
  <2>1. fits \subseteq Nat
    BY <1>2, <1>5
  <2>2. PICK m \in fits : \A y \in fits : m <= y
    BY <1>8, <2>1, LeastNatural
  <2> HIDE DEF fits
  <2>3. Min(fits) \in fits
    BY <2>2 DEF Min
  <2> QED
    BY <1>1, <1>8, <2>3, SlottedSets
<1> DEFINE r == ds[n]
<1>10. r \in DOMAIN Recipes /\ r \in D /\ j = Slotted!Started(contents, r, rs(r)) /\ j.sets > 0
  BY <1>2, <1>3, <1>5, <1>9
<1>11. Resolves(info, Recipes[r], rs(r)) /\ rs(r).inAvail # 0
  BY <1>6, <1>7, <1>10
<1> HIDE DEF r
<1>12. /\ j.recipe = r /\ j.in = rs(r).in /\ j.sets \in Nat \ {0} /\ j.sets <= rs(r).inAvail
       /\ j = [recipe |-> r, in |-> j.in, left |-> j.left, sets |-> j.sets]
       /\ j.left = Slotted!UsedSlots(r) /\ Fits(contents, r, rs(r).in, j.sets, j.left)
  BY <1>10, <1>11, StartedFits
<1>13. IsJob(j)
  <2>1. DOMAIN rs(r).in = DOMAIN Recipes[r].in
    BY <1>11 DEF Resolves
  <2>2. ASSUME NEW k \in DOMAIN Recipes[r].in
        PROVE  rs(r).in[k] \in Items /\ Accepts(Recipes[r].in[k].item, rs(r).in[k])
    <3>1. rs(r).in[k] = GetItem(info, Recipes[r].in[k].item) /\ rs(r).in[k] # NoItem /\ rs(r).in[k] \in Items
      BY <1>11 DEF Resolves
    <3> QED
      BY <3>1, GetItemFacts
  <2>3. j.left # {}
    BY <1>10, <1>12, IngredientsPlaced DEF IsPlaced
  <2> QED
    BY <1>10, <1>12, <2>1, <2>2, <2>3 DEF IsJob
<1> QED
  BY <1>11, <1>12, <1>13 DEF Chooses

\* The machine holds less of the inputs than it did.
IsLess(after, before) ==
    \A slot \in InSlots : /\ after[slot].size <= before[slot].size
                          /\ after[slot].item \in {NoItem, before[slot].item}

\* Less than less is less.
LEMMA LessIsLess ==
    ASSUME SlottedAssumption, NEW a, NEW b, NEW c, AreStacks(a), AreStacks(b), AreStacks(c),
           IsLess(a, b), IsLess(b, c)
    PROVE  IsLess(a, c)
<1> SUFFICES ASSUME NEW slot \in InSlots
             PROVE  a[slot].size <= c[slot].size /\ a[slot].item \in {NoItem, c[slot].item}
  BY DEF IsLess
<1>1. a[slot].size \in Nat /\ b[slot].size \in Nat /\ c[slot].size \in Nat
  BY StackSizes DEF AreStacks, Slotted!Slots
<1> QED
  BY <1>1 DEF IsLess

\* There is as much room.
LEMMA LessFits ==
    ASSUME SlottedAssumption, NEW after, NEW before, AreStacks(after), AreStacks(before), IsLess(after, before),
           NEW j, IsJob(j), Fits(before, j.recipe, j.in, j.sets, j.left)
    PROVE  Fits(after, j.recipe, j.in, j.sets, j.left)
<1> DEFINE r == j.recipe
<1>1. r \in DOMAIN Recipes /\ IsPlaced(r) /\ Recipes[r].data \in Int
  BY IngredientsPlaced DEF IsJob
<1>2. ASSUME NEW slot \in InSlots
      PROVE  /\ after[slot].size \in Nat /\ before[slot].size \in Nat
             /\ after[slot].size <= before[slot].size
             /\ after[slot].item \in {NoItem, before[slot].item}
             /\ before[slot] = Empty => after[slot] = Empty
  <2>1. IsStack(after[slot]) /\ IsStack(before[slot])
    BY DEF AreStacks, Slotted!Slots
  <2>2. /\ after[slot].size <= before[slot].size /\ after[slot].item \in {NoItem, before[slot].item}
    BY DEF IsLess
  <2> QED
    BY <2>1, <2>2, StackSizes
<1>3. ASSUME NEW slot \in Slotted!UsedSlots(r), NEW k \in Slotted!IngredientAt(r, slot)
      PROVE  /\ after[slot].item \in {NoItem, j.in[k]}
             /\ slot \in j.left =>
                  after[slot].size + j.sets * Slotted!EachSize(Recipes[r].in[k])
                    <= Least(Recipes[r].data, MaxSize[j.in[k]])
  <2> DEFINE e == Slotted!EachSize(Recipes[r].in[k])
             l == Least(Recipes[r].data, MaxSize[j.in[k]])
  <2>1. slot \in InSlots /\ e \in Nat \ {0} /\ k \in DOMAIN j.in
    BY <1>1 DEF IsPlaced, IsJob
  <2>2. /\ before[slot].item \in {NoItem, j.in[k]}
        /\ slot \in j.left => before[slot].size + j.sets * e <= l
    BY DEF Fits
  <2>3. l \in Int
    <3>1. MaxSize[j.in[k]] \in Nat
      BY <2>1, SlottedAssumes DEF IsJob, ItemsAssumption
    <3> QED
      BY <1>1, <3>1 DEF Least
  <2> HIDE DEF e, l, r
  <2>4. j.sets * e \in Int
    BY <2>1 DEF IsJob
  <2>5. slot \in j.left => after[slot].size + j.sets * e <= l
    BY <1>2, <2>1, <2>2, <2>3, <2>4
  <2>6. after[slot].item \in {NoItem, j.in[k]}
    BY <1>2, <2>1, <2>2
  <2> QED
    BY <2>5, <2>6 DEF e, l
<1>4. \A slot \in InSlots \ Slotted!UsedSlots(r) : after[slot] = Empty
  BY <1>2 DEF Fits
<1> QED
  BY <1>3, <1>4 DEF Fits

\* The inductive invariant: what there is has its type, a job fits into the machine
\* although it has been working, work goes on only in that phase, and until the
\* process plans, nothing but the machine's work changes what was listed.
SlottedTypes ==
    /\ stored \in [Items -> Nat] /\ info \in [Items -> [avail : Nat, backup : Nat]]
    /\ AreStacks(machine) /\ AreStacks(listed)
    /\ output \in {0, 1} /\ taken \in 0 .. MaxTaken /\ lost \in 0 .. MaxLost
    /\ phase \in {"idle", "asked", "listed", "working"}
JobFits == job = Slotted!NoJob \/ (IsJob(job) /\ Fits(machine, job.recipe, job.in, job.sets, job.left))
WorksInPhase == phase # "working" => job = Slotted!NoJob /\ output = 0
KnowsStored ==
    phase \in {"asked", "listed"} => \A i \in Items : info[i].avail <= stored[i] /\ info[i].backup = Backup[i]
KnowsMachine == phase = "listed" => IsLess(machine, listed)
SlottedInv == SlottedTypes /\ JobFits /\ WorksInPhase /\ KnowsStored /\ KnowsMachine

\* The map of items is one that the functions expect.
LEMMA SlottedIsInfo ==
    ASSUME SlottedAssumption, info \in [Items -> [avail : Nat, backup : Nat]]
    PROVE  IsInfo(info) /\ DOMAIN info = Items
BY SlottedAssumes DEF IsInfo, ItemsAssumption

\* No job is none of these.
LEMMA NoJobIsNone == ASSUME SlottedAssumption, NEW j, IsJob(j) PROVE j # Slotted!NoJob
<1>1. j.recipe \in 1 .. Len(Recipes) /\ Len(Recipes) \in Nat
  BY SlottedAssumes DEF IsJob, AreRecipes
<1> QED
  BY <1>1 DEF Slotted!NoJob

\* What a job has reserved of an item is a number.
LEMMA JobSizes ==
    ASSUME SlottedAssumption, NEW j, NEW i
    PROVE  /\ Slotted!JobSize(Slotted!NoJob, i) = 0
           /\ IsJob(j) => /\ Slotted!JobSize(j, i) = j.sets * Needed(Recipes[j.recipe], j.in, i)
                          /\ Slotted!JobSize(j, i) \in Nat
<1>1. Slotted!JobSize(Slotted!NoJob, i) = 0
  BY DEF Slotted!JobSize
<1>2. ASSUME IsJob(j)
      PROVE  /\ Slotted!JobSize(j, i) = j.sets * Needed(Recipes[j.recipe], j.in, i)
             /\ Slotted!JobSize(j, i) \in Nat
  <2>1. Slotted!JobSize(j, i) = j.sets * Needed(Recipes[j.recipe], j.in, i)
    BY <1>2, NoJobIsNone, SlottedNeeds DEF Slotted!JobSize
  <2>2. IsRecipe(Recipes[j.recipe])
    BY <1>2, SlottedAssumes DEF AreRecipes, IsJob
  <2> DEFINE n == Needed(Recipes[j.recipe], j.in, i)
  <2>3. n \in Nat /\ j.sets \in Nat
    BY <1>2, <2>2, NeededIs DEF IsJob
  <2> HIDE DEF n
  <2>4. j.sets * n \in Nat
    BY <2>3
  <2> QED
    BY <2>1, <2>4 DEF n
<1> QED
  BY <1>1, <1>2

\* So is what has not reached the machine.
LEMMA UnloadedSizes ==
    ASSUME SlottedAssumption, NEW j, IsJob(j), NEW i
    PROVE  Slotted!Unloaded(j, i) \in Nat
<1> DEFINE r == j.recipe
           f == [slot \in j.left |-> Slotted!Brings(j, slot)]
           S == {slot \in j.left : j.in[Slotted!Min(Slotted!IngredientAt(r, slot))] = i}
<1>1. IsPlaced(r) /\ IsFiniteSet(InSlots) /\ j.left \subseteq InSlots
  BY IngredientsPlaced, SlottedAssumes DEF IsJob, IsPlaced
<1>2. IsFiniteSet(S) /\ S \subseteq j.left
  BY <1>1, FS_Subset
<1>3. ASSUME NEW slot \in j.left PROVE f[slot] \in Nat
  <2>1. slot \in Slotted!UsedSlots(r) /\ slot \in InSlots
    BY <1>1 DEF IsJob
  <2>2. PICK k \in Slotted!IngredientAt(r, slot) : TRUE
    BY <1>1, <2>1 DEF IsPlaced
  <2> DEFINE e == Slotted!EachSize(Recipes[r].in[k])
  <2>3. e \in Nat /\ f[slot] = j.sets * e /\ j.sets \in Nat
    BY <1>1, <2>1, <2>2 DEF IsPlaced, Slotted!Brings, IsJob
  <2> HIDE DEF e, f
  <2> QED
    BY <2>3
<1> HIDE DEF f, S
<1>4. SumFunctionOnSet(f, S) \in Nat
  BY <1>2, <1>3, SumNatural
<1>5. Slotted!Unloaded(j, i) = Slotted!SumFunctionOnSet(f, S)
  BY DEF Slotted!Unloaded, f, S
<1>6. Slotted!SumFunctionOnSet(f, S) = SumFunctionOnSet(f, S)
  BY DEF Slotted!SumFunctionOnSet, SumFunctionOnSet, Slotted!FoldFunctionOnSet, FoldFunctionOnSet,
         Slotted!MapThenFoldSet, MapThenFoldSet
<1> QED
  BY <1>4, <1>5, <1>6

\* A machine with nothing in it is a machine.
LEMMA NowhereIsStacks == AreStacks(Slotted!Nowhere)
BY SlottedStacks DEF AreStacks, IsStack, Slotted!Nowhere

\* The invariant holds at first.
LEMMA SlottedStarts == ASSUME SlottedAssumption, Slotted!Init PROVE SlottedInv
<1>1. Stored0 \in [Items -> Nat] /\ MaxTaken \in Nat /\ MaxLost \in Nat
  BY SlottedAssumes
<1>2. SlottedTypes
  BY <1>1, NowhereIsStacks DEF SlottedTypes, Slotted!Init, Slotted!Unknown
<1> QED
  BY <1>2 DEF SlottedInv, Slotted!Init, JobFits, WorksInPhase, KnowsStored, KnowsMachine

\* The machine works, somebody takes something, or a product is stored.
LEMMA WorkKeeps ==
    ASSUME SlottedAssumption, SlottedInv, AreStacks(machine'), IsLess(machine', machine),
           info' = info, listed' = listed, job' = job, phase' = phase,
           stored' \in [Items -> Nat], \A i \in Items : stored[i] <= stored'[i],
           output' \in {0, 1}, output' = 1 => output = 1, taken' \in 0 .. MaxTaken, lost' = lost
    PROVE  SlottedInv'
<1>1. SlottedTypes /\ JobFits /\ WorksInPhase /\ KnowsStored /\ KnowsMachine
  BY DEF SlottedInv
<1>2. SlottedTypes'
  BY <1>1 DEF SlottedTypes
<1>3. JobFits'
  <2>1. CASE job = Slotted!NoJob
    BY <2>1 DEF JobFits
  <2>2. CASE IsJob(job) /\ Fits(machine, job.recipe, job.in, job.sets, job.left)
    <3>1. AreStacks(machine)
      BY <1>1 DEF SlottedTypes
    <3>2. Fits(machine', job.recipe, job.in, job.sets, job.left)
      BY <2>2, <3>1, LessFits
    <3> QED
      BY <2>2, <3>2 DEF JobFits
  <2> QED
    BY <1>1, <2>1, <2>2 DEF JobFits
<1>4. WorksInPhase'
  BY <1>1 DEF WorksInPhase
<1>5. KnowsStored'
  <2> SUFFICES ASSUME phase \in {"asked", "listed"}, NEW i \in Items
               PROVE  info[i].avail <= stored'[i] /\ info[i].backup = Backup[i]
    BY DEF KnowsStored
  <2>1. info[i].avail <= stored[i] /\ info[i].backup = Backup[i] /\ stored[i] <= stored'[i]
    BY <1>1 DEF KnowsStored
  <2>2. info[i].avail \in Nat /\ stored[i] \in Nat /\ stored'[i] \in Nat
    BY <1>1 DEF SlottedTypes
  <2> QED
    BY <2>1, <2>2
<1>6. KnowsMachine'
  <2> SUFFICES ASSUME phase = "listed" PROVE IsLess(machine', listed)
    BY DEF KnowsMachine
  <2>1. AreStacks(machine) /\ AreStacks(listed) /\ IsLess(machine, listed)
    BY <1>1 DEF SlottedTypes, KnowsMachine
  <2> QED
    BY <2>1, LessIsLess
<1> QED
  BY <1>2, <1>3, <1>4, <1>5, <1>6 DEF SlottedInv

\* Sizes are ordered.
LEMMA LessThanItself == ASSUME SlottedAssumption, NEW a, AreStacks(a) PROVE IsLess(a, a)
BY StackSizes DEF AreStacks, IsLess, Slotted!Slots

\* The storages are listed.
LEMMA SlottedCycleKeeps == ASSUME SlottedAssumption, SlottedInv, Slotted!Cycle PROVE SlottedInv'
<1>1. SlottedTypes /\ JobFits /\ WorksInPhase
  BY DEF SlottedInv
<1>2. phase = "idle" /\ info' = Slotted!Info /\ phase' \in {"asked", "working"}
      /\ UNCHANGED <<stored, machine, listed, job, output, taken, lost>>
  <2>1. phase = "idle" /\ info' = Slotted!Info /\ UNCHANGED <<stored, machine, listed, job, output, taken, lost>>
    BY Zenon DEF Slotted!Cycle
  <2>2. phase' \in {"asked", "working"}
    BY Zenon DEF Slotted!Cycle
  <2> QED
    BY <2>1, <2>2
<1>3. \A i \in Items : info'[i] = [avail |-> stored[i], backup |-> Backup[i]]
  BY <1>2 DEF Slotted!Info
<1>4. info' \in [Items -> [avail : Nat, backup : Nat]]
  <2>1. \A i \in Items : stored[i] \in Nat /\ Backup[i] \in Nat
    BY <1>1, SlottedAssumes DEF SlottedTypes
  <2> QED
    BY <1>2, <2>1 DEF Slotted!Info
<1>5. SlottedTypes'
  BY <1>1, <1>2, <1>4 DEF SlottedTypes
<1>6. JobFits' /\ WorksInPhase'
  BY <1>1, <1>2 DEF JobFits, WorksInPhase
<1>7. KnowsStored'
  <2>1. \A i \in Items : stored[i] \in Nat
    BY <1>1 DEF SlottedTypes
  <2>2. ASSUME NEW i \in Items PROVE info'[i].avail <= stored'[i] /\ info'[i].backup = Backup[i]
    <3>1. info'[i] = [avail |-> stored[i], backup |-> Backup[i]]
      BY <1>3
    <3>2. stored'[i] = stored[i] /\ stored[i] \in Nat
      BY <1>2, <2>1
    <3> QED
      BY <3>1, <3>2
  <2> QED
    BY <2>2 DEF KnowsStored
<1>8. KnowsMachine'
  BY <1>2 DEF KnowsMachine
<1> QED
  BY <1>5, <1>6, <1>7, <1>8 DEF SlottedInv

\* A computer executes List.
LEMMA SlottedListKeeps == ASSUME SlottedAssumption, SlottedInv, Slotted!List PROVE SlottedInv'
<1>1. SlottedTypes /\ JobFits /\ WorksInPhase /\ KnowsStored
  BY DEF SlottedInv
<1>2. /\ phase = "asked" /\ phase' = "listed" /\ listed' = machine
      /\ UNCHANGED <<stored, info, machine, job, output, taken, lost>>
  BY DEF Slotted!List
<1>3. SlottedTypes' /\ JobFits' /\ WorksInPhase' /\ KnowsStored'
  BY <1>1, <1>2 DEF SlottedTypes, JobFits, WorksInPhase, KnowsStored
<1>4. KnowsMachine'
  <2>1. AreStacks(machine)
    BY <1>1 DEF SlottedTypes
  <2> QED
    BY <1>2, <2>1, LessThanItself DEF KnowsMachine
<1> QED
  BY <1>3, <1>4 DEF SlottedInv

\* What the process decides, and that it takes what there is and leaves the backup.
LEMMA SlottedPlans ==
    ASSUME SlottedAssumption, SlottedInv, Slotted!Plan
    PROVE  /\ phase = "listed" /\ phase' = "working" /\ output' \in {0, 1}
           /\ listed' = Slotted!Nowhere /\ UNCHANGED <<machine, taken, lost>>
           /\ job' = Slotted!NoJob \/ Chooses(listed, job')
           /\ stored' = [i \in Items |-> stored[i] - Slotted!JobSize(job', i)]
           /\ info' = [i \in Items |-> [info[i] EXCEPT !.avail = @ - Slotted!JobSize(job', i)]]
<1>1. /\ phase = "listed" /\ phase' = "working" /\ output' \in {0, 1}
      /\ listed' = Slotted!Nowhere /\ UNCHANGED <<machine, taken, lost>>
      /\ job' = Slotted!Chosen(listed)
      /\ stored' = [i \in Items |-> stored[i] - Slotted!JobSize(job', i)]
      /\ info' = [i \in Items |-> [info[i] EXCEPT !.avail = @ - Slotted!JobSize(job', i)]]
  BY DEF Slotted!Plan
<1>2. IsInfo(info) /\ DOMAIN info = Items /\ AreStacks(listed)
  BY SlottedIsInfo DEF SlottedInv, SlottedTypes
<1>3. \A j : j = Slotted!Chosen(listed) => j = Slotted!NoJob \/ Chooses(listed, j)
  BY <1>2, ChosenFacts
<1>4. job' = Slotted!NoJob \/ Chooses(listed, job')
  BY <1>1, <1>3
<1> QED
  BY <1>1, <1>4

\* An ingredient may use up the backup of the item.
MayTakeBackup(i) ==
    \E r \in DOMAIN Recipes : \E k \in DOMAIN Recipes[r].in :
        Recipes[r].in[k].allowBackup /\ Accepts(Recipes[r].in[k].item, i)

\* What it takes of an item.
LEMMA ChosenTakes ==
    ASSUME SlottedAssumption, SlottedInv, phase = "listed", NEW j,
           j = Slotted!NoJob \/ Chooses(listed, j), NEW i \in Items
    PROVE  /\ Slotted!JobSize(j, i) \in Nat /\ Slotted!JobSize(j, i) <= info[i].avail
           /\ \/ Slotted!JobSize(j, i) = 0
              \/ Slotted!JobSize(j, i) <= info[i].avail - info[i].backup
              \/ MayTakeBackup(i)
<1>1. info \in [Items -> [avail : Nat, backup : Nat]] /\ IsInfo(info) /\ DOMAIN info = Items
  BY SlottedIsInfo DEF SlottedInv, SlottedTypes
<1>2. CASE j = Slotted!NoJob
  <2>1. Slotted!JobSize(j, i) = 0
    BY <1>2, JobSizes
  <2> QED
    BY <1>1, <2>1
<1>3. CASE Chooses(listed, j)
  <2> DEFINE r == j.recipe
             n == Slotted!JobSize(j, i)
  <2>1. IsJob(j) /\ r \in DOMAIN Recipes /\ j.sets \in Nat \ {0}
    BY <1>3 DEF Chooses, IsJob
  <2>2. PICK rs : /\ Resolves(info, Recipes[r], rs) /\ rs.inAvail # 0
                  /\ j.in = rs.in /\ j.sets <= rs.inAvail
    BY <1>3 DEF Chooses
  <2>3. IsRecipe(Recipes[r]) /\ ItemsAssumption
    BY <2>1, SlottedAssumes DEF AreRecipes
  <2>4. n = Takes(r, rs, j.sets, i)
    BY <2>1, <2>2, JobSizes DEF Takes
  <2>5. TakesWell(r, rs, j.sets, i)
    BY <1>1, <2>1, <2>2, <2>3, TakeFacts
  <2> HIDE DEF n
  <2>6. /\ n \in Nat /\ n <= info[i].avail
        /\ n = 0 \/ \E k \in DOMAIN rs.in : rs.in[k] = i
        /\ Strict(r, i) => n = 0 \/ n <= info[i].avail - info[i].backup
    BY <2>4, <2>5 DEF TakesWell
  <2>7. n = 0 \/ Strict(r, i) \/ MayTakeBackup(i)
    <3> SUFFICES ASSUME n # 0, ~Strict(r, i) PROVE MayTakeBackup(i)
      OBVIOUS
    <3>1. PICK k \in DOMAIN rs.in : rs.in[k] = i
      BY <2>6
    <3>2. DOMAIN rs.in = DOMAIN Recipes[r].in /\ InputsOf(r) = rs.in
      BY <2>2 DEF Resolves, InputsOf
    <3>3. i = GetItem(info, Recipes[r].in[k].item) /\ i # NoItem
      BY <2>2, <3>1, <3>2 DEF Resolves
    <3>4. Accepts(Recipes[r].in[k].item, i)
      BY <1>1, <3>3, GetItemFacts
    <3> QED
      BY <2>1, <3>1, <3>2, <3>4 DEF Strict, MayTakeBackup
  <2>8. CASE n = 0
    BY <2>6, <2>8 DEF n
  <2>9. CASE Strict(r, i)
    BY <2>6, <2>9 DEF n
  <2>10. CASE MayTakeBackup(i)
    BY <2>6, <2>10 DEF n
  <2> QED
    BY <2>7, <2>8, <2>9, <2>10
<1> QED
  BY <1>2, <1>3

\* The process plans.
LEMMA SlottedPlanKeeps == ASSUME SlottedAssumption, SlottedInv, Slotted!Plan PROVE SlottedInv'
<1>1. SlottedTypes /\ KnowsStored /\ KnowsMachine
  BY DEF SlottedInv
<1>2. /\ phase = "listed" /\ phase' = "working" /\ output' \in {0, 1}
      /\ listed' = Slotted!Nowhere /\ UNCHANGED <<machine, taken, lost>>
      /\ job' = Slotted!NoJob \/ Chooses(listed, job')
      /\ stored' = [i \in Items |-> stored[i] - Slotted!JobSize(job', i)]
      /\ info' = [i \in Items |-> [info[i] EXCEPT !.avail = @ - Slotted!JobSize(job', i)]]
  BY SlottedPlans
<1> DEFINE size(i) == Slotted!JobSize(job', i)
<1>3. \A j : (j = Slotted!NoJob \/ Chooses(listed, j)) =>
        \A i \in Items : Slotted!JobSize(j, i) \in Nat /\ Slotted!JobSize(j, i) <= info[i].avail
  BY <1>2, ChosenTakes
<1>4. \A i \in Items : size(i) \in Nat /\ size(i) <= info[i].avail
  BY <1>2, <1>3
<1>5. \A i \in Items : /\ info[i] \in [avail : Nat, backup : Nat] /\ stored[i] \in Nat
                      /\ info[i].avail <= stored[i]
  BY <1>1, <1>2 DEF SlottedTypes, KnowsStored
<1> HIDE DEF size
<1>6. stored' \in [Items -> Nat]
  <2>1. \A i \in Items : stored[i] - size(i) \in Nat
    BY <1>4, <1>5
  <2>2. stored' = [i \in Items |-> stored[i] - size(i)]
    BY <1>2 DEF size
  <2> QED
    BY <2>1, <2>2
<1>7. info' \in [Items -> [avail : Nat, backup : Nat]]
  <2>1. \A i \in Items : [info[i] EXCEPT !.avail = @ - size(i)] \in [avail : Nat, backup : Nat]
    BY <1>4, <1>5
  <2>2. info' = [i \in Items |-> [info[i] EXCEPT !.avail = @ - size(i)]]
    BY <1>2 DEF size
  <2> QED
    BY <2>1, <2>2
<1>8. SlottedTypes'
  BY <1>1, <1>2, <1>6, <1>7, NowhereIsStacks DEF SlottedTypes
<1>9. JobFits'
  <2>1. CASE job' = Slotted!NoJob
    BY <2>1 DEF JobFits
  <2>2. CASE Chooses(listed, job')
    <3>1. IsJob(job') /\ Fits(listed, job'.recipe, job'.in, job'.sets, job'.left)
      BY <2>2 DEF Chooses
    <3>2. AreStacks(machine) /\ AreStacks(listed) /\ IsLess(machine, listed)
      BY <1>1, <1>2 DEF SlottedTypes, KnowsMachine
    <3>3. Fits(machine, job'.recipe, job'.in, job'.sets, job'.left)
      BY <3>1, <3>2, LessFits
    <3> QED
      BY <1>2, <3>1, <3>3 DEF JobFits
  <2> QED
    BY <1>2, <2>1, <2>2
<1>10. WorksInPhase' /\ KnowsStored' /\ KnowsMachine'
  BY <1>2 DEF WorksInPhase, KnowsStored, KnowsMachine
<1> QED
  BY <1>8, <1>9, <1>10 DEF SlottedInv

\* The group of transfers fails: what has not reached the machine goes back.
LEMMA SlottedLoadFailsKeeps == ASSUME SlottedAssumption, SlottedInv, Slotted!LoadFails PROVE SlottedInv'
<1>1. SlottedTypes /\ JobFits /\ WorksInPhase
  BY DEF SlottedInv
<1>2. /\ job # Slotted!NoJob /\ job' = Slotted!NoJob
      /\ lost' = lost + IF job.left = Slotted!UsedSlots(job.recipe) THEN 0 ELSE 1
      /\ lost' <= MaxLost
      /\ stored' = [i \in Items |-> stored[i] + Slotted!Unloaded(job, i)]
      /\ UNCHANGED <<info, machine, listed, output, phase, taken>>
  BY DEF Slotted!LoadFails
<1>3. IsJob(job) /\ phase = "working"
  BY <1>1, <1>2 DEF JobFits, WorksInPhase
<1>4. stored' \in [Items -> Nat]
  <2> DEFINE size(i) == Slotted!Unloaded(job, i)
  <2>1. \A i \in Items : size(i) \in Nat /\ stored[i] \in Nat
    BY <1>1, <1>3, UnloadedSizes DEF SlottedTypes
  <2>2. stored' = [i \in Items |-> stored[i] + size(i)]
    BY <1>2
  <2> HIDE DEF size
  <2>3. \A i \in Items : stored[i] + size(i) \in Nat
    BY <2>1
  <2> QED
    BY <2>2, <2>3
<1>5. lost' \in 0 .. MaxLost
  <2>1. lost \in 0 .. MaxLost /\ MaxLost \in Nat
    BY <1>1, SlottedAssumes DEF SlottedTypes
  <2> QED
    BY <1>2, <2>1
<1>6. SlottedTypes'
  BY <1>1, <1>2, <1>4, <1>5 DEF SlottedTypes
<1>7. JobFits' /\ WorksInPhase' /\ KnowsStored' /\ KnowsMachine'
  BY <1>2, <1>3 DEF JobFits, WorksInPhase, KnowsStored, KnowsMachine
<1> QED
  BY <1>6, <1>7 DEF SlottedInv

\* The cycle ends.
LEMMA SlottedEndKeeps == ASSUME SlottedAssumption, SlottedInv, Slotted!EndOfCycle PROVE SlottedInv'
<1>1. SlottedTypes /\ job = Slotted!NoJob /\ output = 0 /\ phase' = "idle" /\ info' = Slotted!Unknown
      /\ UNCHANGED <<stored, machine, listed, job, output, taken, lost>>
  BY DEF SlottedInv, Slotted!EndOfCycle
<1>2. SlottedTypes'
  BY <1>1 DEF SlottedTypes, Slotted!Unknown
<1> QED
  BY <1>1, <1>2 DEF SlottedInv, JobFits, WorksInPhase, KnowsStored, KnowsMachine

\* What a stack becomes.
LEMMA StackFacts ==
    ASSUME SlottedAssumption, NEW i \in Items, NEW n \in Nat, n <= MaxSize[i]
    PROVE  /\ IsStack(Stack(i, n)) /\ Stack(i, n).size = n /\ Stack(i, n).item \in {NoItem, i}
           /\ n # 0 => Stack(i, n).item = i
           /\ n = 0 => Stack(i, n) = Empty
<1>1. MaxSize[i] \in Nat
  BY SlottedAssumes DEF ItemsAssumption
<1> QED
  BY <1>1 DEF IsStack, Stack, Empty

\* A transfer of a job arrives: its slot holds so many more.
LoadedWith(contents, j, slot, after) ==
    /\ DOMAIN after = Slotted!Slots
    /\ \A other \in Slotted!Slots : other # slot => after[other] = contents[other]
    /\ \A k \in Slotted!IngredientAt(j.recipe, slot) :
         /\ after[slot].item = j.in[k] /\ IsStack(after[slot])
         /\ after[slot].size = contents[slot].size + j.sets * Slotted!EachSize(Recipes[j.recipe].in[k])

\* Loading puts what the job brings on top of what was in the slot.
LEMMA LoadedFacts ==
    ASSUME SlottedAssumption, NEW contents, AreStacks(contents), NEW j, IsJob(j),
           Fits(contents, j.recipe, j.in, j.sets, j.left),
           NEW slot \in j.left, NEW after, after = Slotted!Loaded(contents, j, slot)
    PROVE  LoadedWith(contents, j, slot, after) /\ AreStacks(after)
<1> DEFINE r == j.recipe
           at == Slotted!IngredientAt(r, slot)
<1>1. IsPlaced(r) /\ Recipes[r].data \in Int
  BY IngredientsPlaced DEF IsJob
<1>2. slot \in Slotted!UsedSlots(r) /\ slot \in InSlots /\ slot \in Slotted!Slots
  BY <1>1 DEF IsJob, IsPlaced, Slotted!Slots
<1>3. PICK k \in at : /\ k \in DOMAIN j.in /\ at = {k} /\ Slotted!Min(at) = k
                      /\ Slotted!EachSize(Recipes[r].in[k]) \in Nat \ {0}
  BY <1>1, <1>2 DEF IsPlaced, IsJob
<1> DEFINE n == contents[slot].size + j.sets * Slotted!EachSize(Recipes[r].in[k])
           m == MaxSize[j.in[k]]
<1>4. after = [contents EXCEPT ![slot] = Stack(j.in[k], n)]
  BY <1>3, SlottedStacks DEF Slotted!Loaded, Slotted!Brings
<1>5. /\ DOMAIN after = Slotted!Slots /\ after[slot] = Stack(j.in[k], n)
      /\ \A other \in Slotted!Slots : other # slot => after[other] = contents[other]
  <2> HIDE DEF n
  <2> QED
    BY <1>2, <1>4 DEF AreStacks
<1>6. contents[slot].size \in Nat /\ j.in[k] \in Items /\ m \in Nat /\ j.sets \in Nat \ {0}
  BY <1>2, <1>3, StackSizes, SlottedAssumes DEF AreStacks, IsJob, ItemsAssumption
<1>7. n \in Nat \ {0}
  <2> DEFINE e == Slotted!EachSize(Recipes[r].in[k])
  <2>1. e \in Nat \ {0}
    BY <1>3
  <2> HIDE DEF e
  <2>2. j.sets * e \in Nat \ {0}
    BY <1>6, <2>1
  <2> QED
    BY <1>6, <2>2 DEF e
<1>8. n <= Least(Recipes[r].data, m)
  BY <1>2, <1>3 DEF Fits
<1> HIDE DEF n, m
<1>9. n <= m
  BY <1>1, <1>6, <1>7, <1>8 DEF Least
<1>10. IsStack(Stack(j.in[k], n)) /\ Stack(j.in[k], n).size = n /\ Stack(j.in[k], n).item = j.in[k]
  BY <1>6, <1>7, <1>9, StackFacts DEF m
<1>11. \A other \in Slotted!Slots : IsStack(after[other])
  BY <1>5, <1>10 DEF AreStacks
<1> QED
  BY <1>3, <1>5, <1>10, <1>11 DEF LoadedWith, AreStacks, n

\* A computer executes the next transfer.
LEMMA SlottedLoads ==
    ASSUME SlottedAssumption, SlottedInv, Slotted!Load
    PROVE  /\ IsJob(job) /\ Fits(machine, job.recipe, job.in, job.sets, job.left) /\ phase = "working"
           /\ AreStacks(machine) /\ AreStacks(machine')
           /\ \E slot \in job.left :
                /\ LoadedWith(machine, job, slot, machine')
                /\ job' = IF job.left = {slot} THEN Slotted!NoJob ELSE [job EXCEPT !.left = @ \ {slot}]
           /\ UNCHANGED <<stored, info, listed, output, phase, taken, lost>>
<1>1. SlottedTypes /\ JobFits /\ WorksInPhase
  BY DEF SlottedInv
<1>2. PICK slot \in job.left :
        /\ machine' = Slotted!Loaded(machine, job, slot)
        /\ job' = IF job.left = {slot} THEN Slotted!NoJob ELSE [job EXCEPT !.left = @ \ {slot}]
  BY DEF Slotted!Load
<1>3. UNCHANGED <<stored, info, listed, output, phase, taken, lost>>
  BY DEF Slotted!Load
<1>4. job # Slotted!NoJob
  BY <1>2 DEF Slotted!NoJob
<1>5. /\ IsJob(job) /\ Fits(machine, job.recipe, job.in, job.sets, job.left)
      /\ phase = "working" /\ AreStacks(machine)
  BY <1>1, <1>4 DEF JobFits, WorksInPhase, SlottedTypes
<1>6. LoadedWith(machine, job, slot, machine') /\ AreStacks(machine')
  BY <1>2, <1>5, LoadedFacts
<1> QED
  BY <1>2, <1>3, <1>5, <1>6

\* The invariant holds after it.
LEMMA SlottedLoadKeeps == ASSUME SlottedAssumption, SlottedInv, Slotted!Load PROVE SlottedInv'
<1>1. SlottedTypes
  BY DEF SlottedInv
<1>2. /\ IsJob(job) /\ Fits(machine, job.recipe, job.in, job.sets, job.left) /\ phase = "working"
      /\ AreStacks(machine) /\ AreStacks(machine')
      /\ UNCHANGED <<stored, info, listed, output, phase, taken, lost>>
  BY SlottedLoads
<1>3. PICK slot \in job.left :
        /\ LoadedWith(machine, job, slot, machine')
        /\ job' = IF job.left = {slot} THEN Slotted!NoJob ELSE [job EXCEPT !.left = @ \ {slot}]
  BY SlottedLoads
<1>4. SlottedTypes'
  BY <1>1, <1>2 DEF SlottedTypes
<1>5. JobFits'
  <2>1. CASE job.left = {slot}
    BY <1>3, <2>1 DEF JobFits
  <2>2. CASE job.left # {slot}
    <3>1. /\ job'.recipe = job.recipe /\ job'.in = job.in /\ job'.sets = job.sets
          /\ job'.left = job.left \ {slot}
          /\ job' = [recipe |-> job'.recipe, in |-> job'.in, left |-> job'.left, sets |-> job'.sets]
      BY <1>2, <1>3, <2>2 DEF IsJob
    <3>2. IsJob(job')
      BY <1>2, <2>2, <3>1 DEF IsJob
    <3>3. IsPlaced(job.recipe)
      BY <1>2, IngredientsPlaced DEF IsJob
    <3>4. \A other \in InSlots : other # slot => machine'[other] = machine[other]
      BY <1>3 DEF LoadedWith, Slotted!Slots
    <3>5. slot \in Slotted!UsedSlots(job.recipe)
      BY <1>2 DEF IsJob
    <3>6. \A other \in InSlots \ Slotted!UsedSlots(job.recipe) : machine'[other] = Empty
      BY <1>2, <3>4, <3>5 DEF Fits
    <3>7. ASSUME NEW other \in Slotted!UsedSlots(job.recipe), NEW k \in Slotted!IngredientAt(job.recipe, other)
          PROVE  /\ machine'[other].item \in {NoItem, job.in[k]}
                 /\ other \in job.left \ {slot} =>
                      machine'[other].size + job.sets * Slotted!EachSize(Recipes[job.recipe].in[k])
                        <= Least(Recipes[job.recipe].data, MaxSize[job.in[k]])
      <4>1. CASE other = slot
        BY <1>3, <4>1 DEF LoadedWith
      <4>2. CASE other # slot
        BY <1>2, <3>3, <3>4, <4>2 DEF Fits, IsPlaced
      <4> QED
        BY <4>1, <4>2
    <3>8. Fits(machine', job'.recipe, job'.in, job'.sets, job'.left)
      BY <3>1, <3>6, <3>7 DEF Fits
    <3> QED
      BY <3>2, <3>8 DEF JobFits
  <2> QED
    BY <2>1, <2>2
<1> QED
  BY <1>2, <1>4, <1>5 DEF SlottedInv, WorksInPhase, KnowsStored, KnowsMachine

\* What is in the slot for products leaves the machine.
LEMMA StoresLess ==
    ASSUME SlottedAssumption, SlottedInv, Slotted!ProcessOutput \/ Slotted!Eject
    PROVE  /\ AreStacks(machine') /\ IsLess(machine', machine)
           /\ \A slot \in InSlots : machine'[slot] = machine[slot]
<1>1. AreStacks(machine) /\ OutSlot \notin InSlots
  BY SlottedAssumes DEF SlottedInv, SlottedTypes
<1>2. machine' = [machine EXCEPT ![OutSlot] = Empty] /\ DOMAIN machine = Slotted!Slots
  BY <1>1, SlottedStacks DEF AreStacks, Slotted!ProcessOutput, Slotted!Eject, Slotted!OutputStored
<1>3. AreStacks(machine')
  BY <1>1, <1>2 DEF AreStacks, IsStack
<1>4. \A slot \in InSlots : machine'[slot] = machine[slot]
  BY <1>1, <1>2 DEF Slotted!Slots
<1>5. IsLess(machine, machine)
  BY <1>1, LessThanItself
<1> QED
  BY <1>3, <1>4, <1>5 DEF IsLess

\* It goes to the storages.
LEMMA SlottedStoresKeeps ==
    ASSUME SlottedAssumption, SlottedInv, Slotted!ProcessOutput \/ Slotted!Eject
    PROVE  SlottedInv'
<1>1. SlottedTypes /\ AreStacks(machine)
  BY DEF SlottedInv, SlottedTypes
<1>2. /\ stored' = [i \in Items |-> stored[i] + IF machine[OutSlot].item = i THEN machine[OutSlot].size ELSE 0]
      /\ UNCHANGED <<info, listed, job, phase, taken, lost>>
  BY DEF Slotted!ProcessOutput, Slotted!Eject, Slotted!OutputStored
<1>3. output' \in {0, 1} /\ (output' = 1 => output = 1)
  BY <1>1 DEF Slotted!ProcessOutput, Slotted!Eject, SlottedTypes
<1>4. machine[OutSlot].size \in Nat
  BY <1>1, StackSizes DEF AreStacks, Slotted!Slots
<1>5. ASSUME NEW i \in Items PROVE stored'[i] \in Nat /\ stored[i] <= stored'[i]
  <2>1. stored[i] \in Nat /\ stored'[i] = stored[i] + IF machine[OutSlot].item = i THEN machine[OutSlot].size ELSE 0
    BY <1>1, <1>2 DEF SlottedTypes
  <2> QED
    BY <1>4, <2>1
<1>6. stored' \in [Items -> Nat]
  <2>1. stored' = [i \in Items |-> stored'[i]]
    BY <1>2
  <2> QED
    BY <1>5, <2>1
<1>7. AreStacks(machine') /\ IsLess(machine', machine)
  BY StoresLess
<1>8. taken' \in 0 .. MaxTaken
  BY <1>1, <1>2 DEF SlottedTypes
<1> QED
  BY <1>2, <1>3, <1>5, <1>6, <1>7, <1>8, WorkKeeps

\* A set of recipe r leaves the machine, whose slots hold nothing else than its inputs.
UsesSet(r) ==
    /\ AreStacks(machine')
    /\ \A slot \in InSlots \ Slotted!UsedSlots(r) : machine[slot] = Empty /\ machine'[slot] = Empty
    /\ \A slot \in Slotted!UsedSlots(r) : \A k \in Slotted!IngredientAt(r, slot) :
         /\ machine[slot] # Empty /\ machine[slot].size \in Nat
         /\ Accepts(Recipes[r].in[k].item, machine[slot].item)
         /\ Slotted!EachSize(Recipes[r].in[k]) <= machine[slot].size
         /\ machine'[slot].size = machine[slot].size - Slotted!EachSize(Recipes[r].in[k])
         /\ machine'[slot].item \in {NoItem, machine[slot].item}

\* Crafting takes one set of the recipe out of its slots and touches no other input.
LEMMA CraftUsesSet ==
    ASSUME SlottedAssumption, AreStacks(machine), NEW r \in DOMAIN Recipes, Slotted!Craft(r)
    PROVE  UsesSet(r)
<1>1. IsPlaced(r) /\ OutSlot \notin InSlots /\ Slotted!Product(r) \in Items /\ CraftSize[r] \in Nat
  BY IngredientsPlaced, SlottedAssumes
<1>2. Slotted!HoldsSets(machine, r, 1)
  BY DEF Slotted!Craft, Slotted!CanCraft
<1>3. /\ DOMAIN machine' = Slotted!Slots
      /\ \A slot \in Slotted!Slots : machine'[slot] =
           IF slot = OutSlot THEN Slotted!Stack(Slotted!Product(r), machine[slot].size + CraftSize[r])
           ELSE IF slot \in Slotted!UsedSlots(r)
           THEN Slotted!Stack(machine[slot].item,
                      machine[slot].size - Slotted!EachSize(Recipes[r].in[Slotted!Min(Slotted!IngredientAt(r, slot))]))
           ELSE machine[slot]
  BY DEF Slotted!Craft
<1>4. \A slot \in Slotted!Slots : IsStack(machine[slot])
  BY DEF AreStacks
<1>5. InSlots \subseteq Slotted!Slots /\ OutSlot \in Slotted!Slots
      /\ \A slot \in Slotted!Slots : slot \in InSlots \/ slot = OutSlot
  BY DEF Slotted!Slots
<1>6. ASSUME NEW slot \in InSlots \ Slotted!UsedSlots(r)
      PROVE  machine[slot] = Empty /\ machine'[slot] = Empty
  <2>1. machine[slot] = Empty
    BY <1>2, SlottedStacks DEF Slotted!HoldsSets
  <2>2. machine'[slot] = machine[slot]
    BY <1>1, <1>3, <1>5
  <2> QED
    BY <2>1, <2>2
<1>7. ASSUME NEW slot \in Slotted!UsedSlots(r), NEW k \in Slotted!IngredientAt(r, slot)
      PROVE  /\ machine[slot] # Empty /\ machine[slot].size \in Nat
             /\ Accepts(Recipes[r].in[k].item, machine[slot].item)
             /\ Slotted!EachSize(Recipes[r].in[k]) <= machine[slot].size
             /\ machine'[slot].size = machine[slot].size - Slotted!EachSize(Recipes[r].in[k])
             /\ machine'[slot].item \in {NoItem, machine[slot].item}
             /\ IsStack(machine'[slot])
  <2> DEFINE e == Slotted!EachSize(Recipes[r].in[k])
             s == machine[slot]
  <2>1. /\ slot \in InSlots /\ slot \in Slotted!Slots /\ slot # OutSlot
        /\ Slotted!Min(Slotted!IngredientAt(r, slot)) = k /\ e \in Nat \ {0}
    BY <1>1, <1>5 DEF IsPlaced
  <2>2. IsStack(s)
    BY <1>4, <2>1
  <2>3. s.size >= 1 * e /\ (s # Slotted!Empty => Slotted!Accepts(Recipes[r].in[k].item, s.item))
    BY <1>2 DEF Slotted!HoldsSets
  <2>4. machine'[slot] = Slotted!Stack(s.item, s.size - e)
    BY <1>3, <2>1
  <2> HIDE DEF e, s
  <2>5. s.size \in Nat /\ e <= s.size /\ s # Empty
    BY <2>1, <2>2, <2>3, StackSizes
  <2>6. Accepts(Recipes[r].in[k].item, s.item)
    BY <2>3, <2>5, SlottedStacks
  <2>7. s.item \in Items /\ s.size - e \in Nat /\ s.size - e <= MaxSize[s.item]
    <3>1. s.item \in Items /\ s.size <= MaxSize[s.item] /\ MaxSize[s.item] \in Nat
      BY <2>2, <2>5, StackSizes, SlottedAssumes DEF IsStack, ItemsAssumption
    <3> QED
      BY <2>1, <2>5, <3>1
  <2>8. machine'[slot] = Stack(s.item, s.size - e)
    BY <2>4, SlottedStacks
  <2>9. machine'[slot].size = s.size - e /\ machine'[slot].item \in {NoItem, s.item} /\ IsStack(machine'[slot])
    BY <2>7, <2>8, StackFacts
  <2> QED
    BY <2>5, <2>6, <2>9 DEF e, s
<1>8. IsStack(machine'[OutSlot])
  <2> DEFINE n == machine[OutSlot].size + CraftSize[r]
             p == Slotted!Product(r)
  <2>1. machine'[OutSlot] = Slotted!Stack(p, n)
    BY <1>3, <1>5
  <2>2. n <= MaxSize[p]
    BY DEF Slotted!Craft, Slotted!CanCraft
  <2>3. p \in Items /\ n \in Nat
    BY <1>1, <1>4, <1>5, StackSizes
  <2> HIDE DEF n, p
  <2>4. machine'[OutSlot] = Stack(p, n)
    BY <2>1, SlottedStacks
  <2> QED
    BY <2>2, <2>3, <2>4, StackFacts
<1>9. AreStacks(machine')
  <2>1. ASSUME NEW slot \in Slotted!Slots PROVE IsStack(machine'[slot])
    <3>1. CASE slot \in Slotted!UsedSlots(r)
      <4>1. PICK k \in Slotted!IngredientAt(r, slot) : TRUE
        BY <1>1, <3>1 DEF IsPlaced
      <4> QED
        BY <1>7, <3>1, <4>1
    <3>2. CASE slot \in InSlots \ Slotted!UsedSlots(r)
      BY <1>6, <3>2 DEF IsStack
    <3> QED
      BY <1>5, <1>8, <3>1, <3>2
  <2> QED
    BY <1>3, <2>1 DEF AreStacks
<1> QED
  BY <1>6, <1>7, <1>9 DEF UsesSet

\* What a set is made of leaves the machine.
LEMMA CraftLess ==
    ASSUME SlottedAssumption, SlottedInv, NEW r \in DOMAIN Recipes, Slotted!Craft(r)
    PROVE  AreStacks(machine') /\ IsLess(machine', machine)
<1>1. UsesSet(r) /\ IsPlaced(r)
  BY CraftUsesSet, IngredientsPlaced DEF SlottedInv, SlottedTypes
<1>2. IsLess(machine', machine)
  <2> SUFFICES ASSUME NEW slot \in InSlots
               PROVE  machine'[slot].size <= machine[slot].size /\ machine'[slot].item \in {NoItem, machine[slot].item}
    BY DEF IsLess
  <2>1. CASE slot \in Slotted!UsedSlots(r)
    <3>1. PICK k \in Slotted!IngredientAt(r, slot) : TRUE
      BY <1>1, <2>1 DEF IsPlaced
    <3>2. Slotted!EachSize(Recipes[r].in[k]) \in Nat
      BY <1>1, <3>1 DEF IsPlaced
    <3> QED
      BY <1>1, <2>1, <3>1, <3>2 DEF UsesSet
  <2>2. CASE slot \notin Slotted!UsedSlots(r)
    BY <1>1, <2>2 DEF UsesSet, Empty
  <2> QED
    BY <2>1, <2>2
<1> QED
  BY <1>1, <1>2 DEF UsesSet

\* A stack leaves it.
LEMMA TakeLess ==
    ASSUME SlottedAssumption, SlottedInv, NEW slot \in InSlots, Slotted!TakeStack(slot)
    PROVE  AreStacks(machine') /\ IsLess(machine', machine)
<1>1. AreStacks(machine) /\ machine' = [machine EXCEPT ![slot] = Empty]
  BY SlottedStacks DEF SlottedInv, SlottedTypes, Slotted!TakeStack
<1>2. AreStacks(machine')
  BY <1>1 DEF AreStacks, IsStack
<1>3. IsLess(machine', machine)
  <2> SUFFICES ASSUME NEW s \in InSlots
               PROVE  machine'[s].size <= machine[s].size /\ machine'[s].item \in {NoItem, machine[s].item}
    BY DEF IsLess
  <2>1. DOMAIN machine = Slotted!Slots /\ s \in Slotted!Slots /\ machine[s].size \in Nat
    BY <1>1, StackSizes DEF AreStacks, Slotted!Slots
  <2>2. machine'[s] = IF s = slot THEN Empty ELSE machine[s]
    BY <1>1, <2>1
  <2> QED
    BY <2>1, <2>2 DEF Empty
<1> QED
  BY <1>2, <1>3

\* The machine makes a set, or a player takes a stack out.
LEMMA SlottedUsesKeeps ==
    ASSUME SlottedAssumption, SlottedInv, AreStacks(machine'), IsLess(machine', machine),
           UNCHANGED <<stored, info, listed, job, output, phase, lost>>, taken' \in 0 .. MaxTaken
    PROVE  SlottedInv'
<1>1. SlottedTypes
  BY DEF SlottedInv
<1>2. stored' \in [Items -> Nat] /\ output' \in {0, 1}
  BY <1>1 DEF SlottedTypes
<1>3. \A i \in Items : stored[i] <= stored'[i]
  <2>1. \A i \in Items : stored[i] \in Nat /\ stored'[i] = stored[i]
    BY <1>1 DEF SlottedTypes
  <2> QED
    BY <2>1
<1> QED
  BY <1>2, <1>3, WorkKeeps

\* The machine makes a set.
LEMMA SlottedCraftKeeps ==
    ASSUME SlottedAssumption, SlottedInv, NEW r \in DOMAIN Recipes, Slotted!Craft(r)
    PROVE  SlottedInv'
<1>1. UNCHANGED <<stored, info, listed, job, output, phase, taken, lost>>
  BY DEF Slotted!Craft
<1>2. taken' \in 0 .. MaxTaken
  BY <1>1 DEF SlottedInv, SlottedTypes
<1> QED
  BY <1>1, <1>2, CraftLess, SlottedUsesKeeps

\* A player takes a stack out.
LEMMA SlottedTakeKeeps ==
    ASSUME SlottedAssumption, SlottedInv, NEW slot \in InSlots, Slotted!TakeStack(slot)
    PROVE  SlottedInv'
<1>1. taken < MaxTaken /\ taken' = taken + 1 /\ UNCHANGED <<stored, info, listed, job, output, phase, lost>>
  BY DEF Slotted!TakeStack
<1>2. taken' \in 0 .. MaxTaken
  <2>1. MaxTaken \in Nat /\ taken \in 0 .. MaxTaken
    BY SlottedAssumes DEF SlottedInv, SlottedTypes
  <2> QED
    BY <1>1, <2>1
<1> QED
  BY <1>1, <1>2, TakeLess, SlottedUsesKeeps

\* Every step keeps the invariant.
LEMMA SlottedKeeps ==
    ASSUME SlottedAssumption, SlottedInv, [Slotted!Next]_(Slotted!vars)
    PROVE  SlottedInv'
<1>1. CASE UNCHANGED Slotted!vars
  <2>1. UNCHANGED <<stored, info, machine, listed, job, output, phase, taken, lost>>
    BY <1>1 DEF Slotted!vars
  <2> QED
    BY <2>1 DEF SlottedInv, SlottedTypes, JobFits, WorksInPhase, KnowsStored, KnowsMachine
<1>2. CASE Slotted!Cycle \/ Slotted!List \/ Slotted!Plan
  BY <1>2, SlottedCycleKeeps, SlottedListKeeps, SlottedPlanKeeps
<1>3. CASE Slotted!Load \/ Slotted!LoadFails \/ Slotted!EndOfCycle
  BY <1>3, SlottedLoadKeeps, SlottedLoadFailsKeeps, SlottedEndKeeps
<1>4. CASE Slotted!ProcessOutput \/ Slotted!Eject
  BY <1>4, SlottedStoresKeeps
<1>5. CASE \E r \in DOMAIN Recipes : Slotted!Craft(r)
  BY <1>5, SlottedCraftKeeps
<1>6. CASE \E slot \in InSlots : Slotted!TakeStack(slot)
  BY <1>6, SlottedTakeKeeps
<1> QED
  BY <1>1, <1>2, <1>3, <1>4, <1>5, <1>6 DEF Slotted!Next

\* The inductive invariant of ProcessSlotted holds (Processes.cpp), for any recipes, slots
\* and stored items.
THEOREM SlottedInvariant == SlottedAssumption => (Slotted!Spec => []SlottedInv)
<1> SUFFICES ASSUME SlottedAssumption PROVE Slotted!Spec => []SlottedInv
  OBVIOUS
<1>1. Slotted!Init => SlottedInv
  BY SlottedStarts
<1>2. SlottedInv /\ [Slotted!Next]_(Slotted!vars) => SlottedInv'
  BY SlottedKeeps
<1> QED
  BY <1>1, <1>2, PTL DEF Slotted!Spec

\* While machines work on, what was listed before still bounds what fits (TypeOK and
\* InputsFit of CppSlotted): a group of transfers leaves nothing in the bus (ProcessSlotted::cycle
\* of Processes.cpp).
THEOREM SlottedInputsFit ==
    SlottedAssumption => (Slotted!Spec => [](Slotted!TypeOK /\ Slotted!InputsFit))
<1> SUFFICES ASSUME SlottedAssumption PROVE Slotted!Spec => [](Slotted!TypeOK /\ Slotted!InputsFit)
  OBVIOUS
<1>1. SlottedInv => Slotted!TypeOK /\ Slotted!InputsFit
  <2> SUFFICES ASSUME SlottedInv PROVE Slotted!TypeOK /\ Slotted!InputsFit
    OBVIOUS
  <2>1. SlottedTypes /\ JobFits
    BY DEF SlottedInv
  <2>2. /\ job.recipe \in DOMAIN Recipes \cup {0} /\ job.sets \in Nat
        /\ job.left \subseteq InSlots /\ (job = Slotted!NoJob <=> job.left = {})
    <3>1. CASE job = Slotted!NoJob
      BY <3>1 DEF Slotted!NoJob
    <3>2. CASE IsJob(job)
      <4>1. IsPlaced(job.recipe) /\ job # Slotted!NoJob
        BY <3>2, IngredientsPlaced, NoJobIsNone DEF IsJob
      <4> QED
        BY <3>2, <4>1 DEF IsJob, IsPlaced
    <3> QED
      BY <2>1, <3>1, <3>2 DEF JobFits
  <2>3. \A contents \in {machine, listed} : \A slot \in Slotted!Slots :
          \/ contents[slot] = Slotted!Empty
          \/ contents[slot].item \in Items /\ contents[slot].size \in 1 .. MaxSize[contents[slot].item]
    BY <2>1, SlottedStacks DEF SlottedTypes, AreStacks, IsStack
  <2>4. Slotted!TypeOK
    BY <2>1, <2>2, <2>3 DEF Slotted!TypeOK, SlottedTypes
  <2>5. Slotted!InputsFit
    <3>1. CASE job = Slotted!NoJob
      BY <3>1 DEF Slotted!InputsFit, Slotted!NoJob
    <3>2. CASE IsJob(job) /\ Fits(machine, job.recipe, job.in, job.sets, job.left)
      BY <3>2, SlottedStacks DEF Slotted!InputsFit, IsJob, Fits
    <3> QED
      BY <2>1, <3>1, <3>2 DEF JobFits
  <2> QED
    BY <2>4, <2>5
<1> QED
  BY <1>1, SlottedInvariant, PTL

\* Only the plan takes something from the storages, and it leaves what is set aside,
\* unless an ingredient may use that up (LeavesBackup of CppSlotted, the part of StepsAsPromised
\* that is about ProcessSlotted).
THEOREM SlottedLeavesBackup == SlottedAssumption => (Slotted!Spec => Slotted!BackupStays)
<1> SUFFICES ASSUME SlottedAssumption PROVE Slotted!Spec => Slotted!BackupStays
  OBVIOUS
<1>1. SlottedInv /\ [Slotted!Next]_(Slotted!vars) => [Slotted!LeavesBackup]_(Slotted!vars)
  <2> SUFFICES ASSUME SlottedInv, Slotted!Next PROVE Slotted!LeavesBackup
    OBVIOUS
  <2>1. SlottedTypes /\ \A i \in Items : stored[i] \in Nat
    BY DEF SlottedInv, SlottedTypes
  <2> SUFFICES ASSUME NEW i \in Items, stored'[i] < stored[i], ~MayTakeBackup(i)
               PROVE  stored'[i] >= Backup[i]
    BY SlottedStacks, Zenon DEF Slotted!LeavesBackup, MayTakeBackup
  <2>2. CASE Slotted!Plan
    <3>1. /\ phase = "listed"
          /\ job' = Slotted!NoJob \/ Chooses(listed, job')
          /\ stored' = [j \in Items |-> stored[j] - Slotted!JobSize(job', j)]
      BY <2>2, SlottedPlans
    <3>2. /\ Slotted!JobSize(job', i) \in Nat
          /\ \/ Slotted!JobSize(job', i) = 0
             \/ Slotted!JobSize(job', i) <= info[i].avail - info[i].backup
      BY <3>1, ChosenTakes
    <3>3. /\ info[i].avail <= stored[i] /\ info[i].backup = Backup[i]
          /\ info[i].avail \in Nat /\ info[i].backup \in Nat
      BY <2>1, <3>1 DEF SlottedInv, KnowsStored, SlottedTypes
    <3> DEFINE n == Slotted!JobSize(job', i)
    <3>4. stored'[i] = stored[i] - n
      BY <3>1
    <3> HIDE DEF n
    <3> QED
      BY <2>1, <3>2, <3>3, <3>4 DEF n
  <2>3. CASE Slotted!ProcessOutput \/ Slotted!Eject
    <3>1. stored' = [j \in Items |-> stored[j] + IF machine[OutSlot].item = j THEN machine[OutSlot].size ELSE 0]
      BY <2>3 DEF Slotted!ProcessOutput, Slotted!Eject, Slotted!OutputStored
    <3>2. machine[OutSlot].size \in Nat
      BY <2>1, StackSizes DEF SlottedTypes, AreStacks, Slotted!Slots
    <3>3. stored'[i] = stored[i] + IF machine[OutSlot].item = i THEN machine[OutSlot].size ELSE 0
      BY <3>1
    <3> QED
      BY <2>1, <3>2, <3>3
  <2>4. CASE Slotted!LoadFails
    <3>1. job # Slotted!NoJob /\ stored' = [j \in Items |-> stored[j] + Slotted!Unloaded(job, j)]
      BY <2>4 DEF Slotted!LoadFails
    <3> DEFINE n == Slotted!Unloaded(job, i)
    <3>2. n \in Nat
      BY <3>1, UnloadedSizes DEF SlottedInv, JobFits
    <3>3. stored'[i] = stored[i] + n
      BY <3>1
    <3> HIDE DEF n
    <3> QED
      BY <2>1, <3>2, <3>3
  <2>5. CASE stored' = stored
    BY <2>1, <2>5
  <2>6. ASSUME Slotted!Next, ~Slotted!Plan, ~Slotted!ProcessOutput, ~Slotted!Eject, ~Slotted!LoadFails
        PROVE  stored' = stored
    <3>1. CASE Slotted!Cycle \/ Slotted!List \/ Slotted!Load \/ Slotted!EndOfCycle
      BY <3>1, Zenon DEF Slotted!Cycle, Slotted!List, Slotted!Load, Slotted!EndOfCycle
    <3>2. CASE \E r \in DOMAIN Recipes : Slotted!Craft(r)
      BY <3>2, Zenon DEF Slotted!Craft
    <3>3. CASE \E slot \in InSlots : Slotted!TakeStack(slot)
      BY <3>3, Zenon DEF Slotted!TakeStack
    <3> QED
      BY <2>6, <3>1, <3>2, <3>3 DEF Slotted!Next
  <2> QED
    BY <2>2, <2>3, <2>4, <2>5, <2>6
<1> QED
  BY <1>1, SlottedInvariant, PTL DEF Slotted!Spec, Slotted!BackupStays

\* Nothing but inputs of recipe r is in the machine.
OfRecipe(contents, r) ==
    /\ \A slot \in InSlots \ Slotted!UsedSlots(r) : contents[slot] = Empty
    /\ \A slot \in Slotted!UsedSlots(r) : \A k \in Slotted!IngredientAt(r, slot) :
         contents[slot] # Empty => Accepts(Recipes[r].in[k].item, contents[slot].item)
NoInputs(contents) == \A slot \in InSlots : contents[slot] = Empty
OfOneRecipe == NoInputs(machine) \/ \E r \in DOMAIN Recipes : OfRecipe(machine, r)

\* Where a job fits, everything is of its recipe.
LEMMA FitsOfRecipe ==
    ASSUME SlottedAssumption, NEW contents, AreStacks(contents), NEW j, IsJob(j),
           Fits(contents, j.recipe, j.in, j.sets, j.left)
    PROVE  OfRecipe(contents, j.recipe)
<1> DEFINE r == j.recipe
<1>1. IsPlaced(r)
  BY IngredientsPlaced DEF IsJob
<1>2. ASSUME NEW slot \in Slotted!UsedSlots(r), NEW k \in Slotted!IngredientAt(r, slot), contents[slot] # Empty
      PROVE  Accepts(Recipes[r].in[k].item, contents[slot].item)
  <2>1. slot \in InSlots /\ k \in DOMAIN j.in
    BY <1>1 DEF IsPlaced, IsJob
  <2>2. contents[slot].item \in {NoItem, j.in[k]} /\ contents[slot].item # NoItem
    BY <1>2, <2>1, StackSizes DEF Fits, AreStacks, Slotted!Slots
  <2> QED
    BY <2>1, <2>2 DEF IsJob
<1> QED
  BY <1>2 DEF OfRecipe, Fits

\* What is less is of the same recipe.
LEMMA LessOfRecipe ==
    ASSUME SlottedAssumption, NEW after, NEW before, AreStacks(after), AreStacks(before), IsLess(after, before)
    PROVE  /\ NoInputs(before) => NoInputs(after)
           /\ \A r \in DOMAIN Recipes : OfRecipe(before, r) => OfRecipe(after, r)
<1>1. ASSUME NEW slot \in InSlots
      PROVE  /\ before[slot] = Empty => after[slot] = Empty
             /\ after[slot] # Empty => after[slot].item = before[slot].item /\ before[slot] # Empty
  <2>1. IsStack(after[slot]) /\ IsStack(before[slot])
    BY DEF AreStacks, Slotted!Slots
  <2>2. /\ after[slot].size <= before[slot].size /\ after[slot].item \in {NoItem, before[slot].item}
    BY DEF IsLess
  <2> QED
    BY <2>1, <2>2, StackSizes
<1>2. \A r \in DOMAIN Recipes : Slotted!UsedSlots(r) \subseteq InSlots
  BY IngredientsPlaced DEF IsPlaced
<1>3. \A r \in DOMAIN Recipes : OfRecipe(before, r) => OfRecipe(after, r)
  BY <1>1, <1>2 DEF OfRecipe
<1> QED
  BY <1>1, <1>3 DEF NoInputs

\* Only a transfer brings something into the machine.
LEMMA OnlyLoadsAdd ==
    ASSUME SlottedAssumption, SlottedInv, Slotted!Next, ~Slotted!Load
    PROVE  AreStacks(machine') /\ IsLess(machine', machine)
<1>1. AreStacks(machine)
  BY DEF SlottedInv, SlottedTypes
<1>2. CASE Slotted!Cycle \/ Slotted!List \/ Slotted!Plan \/ Slotted!LoadFails \/ Slotted!EndOfCycle
  <2>1. machine' = machine
    BY <1>2, Zenon DEF Slotted!Cycle, Slotted!List, Slotted!Plan, Slotted!LoadFails, Slotted!EndOfCycle
  <2>2. IsLess(machine, machine)
    BY <1>1, LessThanItself
  <2> QED
    BY <1>1, <2>1, <2>2
<1>3. CASE Slotted!ProcessOutput \/ Slotted!Eject
  BY <1>3, StoresLess
<1>4. CASE \E r \in DOMAIN Recipes : Slotted!Craft(r)
  BY <1>4, CraftLess
<1>5. CASE \E slot \in InSlots : Slotted!TakeStack(slot)
  BY <1>5, TakeLess
<1> QED
  BY <1>2, <1>3, <1>4, <1>5 DEF Slotted!Next

\* Every step leaves the machine to one recipe.
LEMMA OneRecipeStays ==
    ASSUME SlottedAssumption, SlottedInv, OfOneRecipe, [Slotted!Next]_(Slotted!vars)
    PROVE  OfOneRecipe'
<1>1. AreStacks(machine)
  BY DEF SlottedInv, SlottedTypes
<1>2. CASE Slotted!Load
  <2>1. /\ IsJob(job) /\ Fits(machine, job.recipe, job.in, job.sets, job.left)
        /\ \E slot \in job.left : LoadedWith(machine, job, slot, machine')
    BY <1>2, SlottedLoads
  <2>2. PICK slot \in job.left : LoadedWith(machine, job, slot, machine')
    BY <2>1
  <2> DEFINE r == job.recipe
  <2>3. r \in DOMAIN Recipes /\ IsPlaced(r) /\ OfRecipe(machine, r) /\ slot \in Slotted!UsedSlots(r)
    BY <1>1, <2>1, FitsOfRecipe, IngredientsPlaced DEF IsJob
  <2>4. \A other \in InSlots : other # slot => machine'[other] = machine[other]
    BY <2>2 DEF LoadedWith, Slotted!Slots
  <2>5. \A k \in Slotted!IngredientAt(r, slot) :
          machine'[slot].item = job.in[k] /\ Accepts(Recipes[r].in[k].item, job.in[k])
    BY <2>1, <2>2, <2>3 DEF LoadedWith, IsJob, IsPlaced
  <2> HIDE DEF r
  <2>6. OfRecipe(machine', r)
    BY <2>3, <2>4, <2>5 DEF OfRecipe, IsPlaced
  <2> QED
    BY <2>3, <2>6 DEF OfOneRecipe
<1>3. CASE Slotted!Next /\ ~Slotted!Load
  <2>1. AreStacks(machine') /\ IsLess(machine', machine)
    BY <1>3, OnlyLoadsAdd
  <2>2. /\ NoInputs(machine) => NoInputs(machine')
        /\ \A r \in DOMAIN Recipes : OfRecipe(machine, r) => OfRecipe(machine', r)
    BY <1>1, <2>1, LessOfRecipe
  <2> QED
    BY <2>2 DEF OfOneRecipe
<1>4. CASE UNCHANGED Slotted!vars
  <2>1. machine' = machine
    BY <1>4 DEF Slotted!vars
  <2> QED
    BY <2>1 DEF OfOneRecipe, NoInputs, OfRecipe
<1> QED
  BY <1>2, <1>3, <1>4

\* Inputs of a recipe are sets of it, if only of none.
LEMMA HoldsOfRecipe ==
    ASSUME SlottedAssumption, NEW contents, AreStacks(contents), NEW r \in DOMAIN Recipes, OfRecipe(contents, r)
    PROVE  Slotted!HoldsSets(contents, r, 0)
<1>1. ASSUME NEW slot \in Slotted!UsedSlots(r), NEW k \in Slotted!IngredientAt(r, slot)
      PROVE  contents[slot].size >= 0 * Slotted!EachSize(Recipes[r].in[k])
  <2> DEFINE e == Slotted!EachSize(Recipes[r].in[k])
  <2>1. slot \in InSlots /\ e \in Nat
    BY IngredientsPlaced DEF IsPlaced
  <2>2. contents[slot].size \in Nat
    BY <2>1, StackSizes DEF AreStacks, Slotted!Slots
  <2> HIDE DEF e
  <2>3. contents[slot].size >= 0 * e
    BY <2>1, <2>2
  <2> QED
    BY <2>3 DEF e
<1> QED
  BY <1>1, SlottedStacks DEF OfRecipe, Slotted!HoldsSets

\* Whatever fails, however often a group of transfers is cut short, and whatever a
\* player takes out, the machine of ProcessSlotted holds inputs of a single recipe, and
\* only inputs of that recipe are on their way to it (Processes.cpp:60-76; src/README.md:35,
\* "will only send additional inputs that match the in-progress recipe").
THEOREM SlottedOneRecipe == SlottedAssumption => (Slotted!Spec => []Slotted!OneRecipe)
<1> SUFFICES ASSUME SlottedAssumption PROVE Slotted!Spec => []Slotted!OneRecipe
  OBVIOUS
<1>1. Slotted!Init => OfOneRecipe
  BY SlottedStacks DEF Slotted!Init, OfOneRecipe, NoInputs, Slotted!Nowhere, Slotted!Slots
<1>2. SlottedInv /\ OfOneRecipe /\ [Slotted!Next]_(Slotted!vars) => OfOneRecipe'
  BY OneRecipeStays
<1>3. SlottedInv /\ OfOneRecipe => Slotted!OneRecipe
  <2> SUFFICES ASSUME SlottedInv, OfOneRecipe PROVE Slotted!OneRecipe
    OBVIOUS
  <2>1. AreStacks(machine) /\ JobFits
    BY DEF SlottedInv, SlottedTypes
  <2>2. CASE job = Slotted!NoJob
    <3>1. CASE NoInputs(machine)
      BY <2>2, <3>1, SlottedStacks DEF Slotted!OneRecipe, NoInputs
    <3>2. CASE \E r \in DOMAIN Recipes : OfRecipe(machine, r)
      <4>1. PICK r \in DOMAIN Recipes : OfRecipe(machine, r)
        BY <3>2
      <4>2. Slotted!HoldsSets(machine, r, 0) /\ job.recipe = 0
        BY <2>1, <2>2, <4>1, HoldsOfRecipe DEF Slotted!NoJob
      <4> QED
        BY <4>2 DEF Slotted!OneRecipe
    <3> QED
      BY <3>1, <3>2 DEF OfOneRecipe
  <2>3. CASE IsJob(job) /\ Fits(machine, job.recipe, job.in, job.sets, job.left)
    <3>1. job.recipe \in DOMAIN Recipes /\ OfRecipe(machine, job.recipe)
      BY <2>1, <2>3, FitsOfRecipe DEF IsJob
    <3>2. Slotted!HoldsSets(machine, job.recipe, 0)
      BY <2>1, <3>1, HoldsOfRecipe
    <3> QED
      BY <3>1, <3>2 DEF Slotted!OneRecipe
  <2> QED
    BY <2>1, <2>2, <2>3 DEF JobFits
<1> QED
  BY <1>1, <1>2, <1>3, SlottedInvariant, PTL DEF Slotted!Spec

\* What the machine holds and what is on its way to it is of recipe r, and with what
\* is on its way there are exactly n sets.
Arrives(j, r, slot, k) == IF slot \in j.left THEN j.sets * Slotted!EachSize(Recipes[r].in[k]) ELSE 0
HasSets(contents, j, r, n) ==
    /\ OfRecipe(contents, r) /\ j.recipe \in {0, r}
    /\ \A slot \in Slotted!UsedSlots(r) : \A k \in Slotted!IngredientAt(r, slot) :
         contents[slot].size + Arrives(j, r, slot, k) = n * Slotted!EachSize(Recipes[r].in[k])
IsComplete(contents, j) ==
    \/ j = Slotted!NoJob /\ NoInputs(contents)
    \/ \E r \in DOMAIN Recipes, n \in Nat \ {0} : HasSets(contents, j, r, n)

\* What arrives, and sizes, as numbers.
LEMMA ArrivesFacts ==
    ASSUME SlottedAssumption, NEW contents, AreStacks(contents), NEW j, j = Slotted!NoJob \/ IsJob(j),
           NEW r \in DOMAIN Recipes, NEW slot \in Slotted!UsedSlots(r), NEW k \in Slotted!IngredientAt(r, slot)
    PROVE  /\ slot \in InSlots /\ IsStack(contents[slot]) /\ contents[slot].size \in Nat
           /\ Slotted!EachSize(Recipes[r].in[k]) \in Nat \ {0}
           /\ j.sets \in Nat /\ Arrives(j, r, slot, k) \in Nat
           /\ j = Slotted!NoJob => Arrives(j, r, slot, k) = 0
<1> DEFINE e == Slotted!EachSize(Recipes[r].in[k])
<1>1. slot \in InSlots /\ e \in Nat \ {0}
  BY IngredientsPlaced DEF IsPlaced
<1>2. IsStack(contents[slot]) /\ contents[slot].size \in Nat
  BY <1>1, StackSizes DEF AreStacks, Slotted!Slots
<1>3. j.sets \in Nat /\ (j = Slotted!NoJob => slot \notin j.left)
  BY DEF IsJob, Slotted!NoJob
<1>4. Arrives(j, r, slot, k) = IF slot \in j.left THEN j.sets * e ELSE 0
  BY DEF Arrives
<1> HIDE DEF e
<1>5. j.sets * e \in Nat
  BY <1>1, <1>3
<1> QED
  BY <1>1, <1>2, <1>3, <1>4, <1>5 DEF e

\* Two recipes whose inputs the machine might hold are the same.
LEMMA SameRecipe ==
    ASSUME SlottedAssumption, Slotted!RecipesApart, NEW contents, AreStacks(contents),
           NEW r \in DOMAIN Recipes,
           \A slot \in Slotted!UsedSlots(r) : \A k \in Slotted!IngredientAt(r, slot) :
              contents[slot] # Empty /\ Accepts(Recipes[r].in[k].item, contents[slot].item),
           NEW s \in DOMAIN Recipes, OfRecipe(contents, s)
    PROVE  r = s
<1>1. IsPlaced(r) /\ IsPlaced(s)
  BY IngredientsPlaced
<1>2. ASSUME NEW slot \in Slotted!UsedSlots(r) PROVE slot \in InSlots /\ contents[slot] # Empty
  <2>1. PICK k \in Slotted!IngredientAt(r, slot) : TRUE
    BY <1>1 DEF IsPlaced
  <2> QED
    BY <1>1, <2>1 DEF IsPlaced
<1>3. Slotted!UsedSlots(r) \subseteq Slotted!UsedSlots(s)
  BY <1>2 DEF OfRecipe
<1>4. ASSUME NEW slot \in Slotted!UsedSlots(r),
             NEW k \in Slotted!IngredientAt(r, slot), NEW m \in Slotted!IngredientAt(s, slot)
      PROVE  \E i \in Items : Slotted!Accepts(Recipes[r].in[k].item, i) /\ Slotted!Accepts(Recipes[s].in[m].item, i)
  <2>1. contents[slot].item \in Items /\ Accepts(Recipes[r].in[k].item, contents[slot].item)
    BY <1>2 DEF AreStacks, Slotted!Slots, IsStack
  <2>2. Accepts(Recipes[s].in[m].item, contents[slot].item)
    BY <1>2, <1>3 DEF OfRecipe
  <2> QED
    BY <2>1, <2>2, SlottedStacks
<1> QED
  BY <1>3, <1>4 DEF Slotted!RecipesApart

\* A slot that inputs of some sets are in, and none on their way to, is not empty.
LEMMA SetsFill ==
    ASSUME NEW a \in Nat, NEW n \in Nat \ {0}, NEW e \in Nat \ {0}, a = n * e
    PROVE  a # 0 /\ n <= a
<1>1. n * e = n + n * (e - 1) /\ e - 1 \in Nat
  OBVIOUS
<1>2. n * (e - 1) \in Nat
  BY <1>1
<1> QED
  BY <1>1, <1>2

\* What the process plans makes complete sets of what is there and what is sent.
LEMMA PlanCompletes ==
    ASSUME SlottedAssumption, Slotted!RecipesApart, SlottedInv, IsComplete(machine, job), Slotted!Plan
    PROVE  IsComplete(machine', job')
<1>1. /\ phase = "listed" /\ machine' = machine
      /\ job' = Slotted!NoJob \/ Chooses(listed, job')
  BY SlottedPlans
<1>2. job = Slotted!NoJob /\ AreStacks(machine)
  BY <1>1 DEF SlottedInv, WorksInPhase, SlottedTypes
<1>3. CASE job' = Slotted!NoJob
  BY <1>1, <1>2, <1>3
<1>4. CASE Chooses(listed, job')
  <2> DEFINE j == job'
             r == j.recipe
  <2>1. IsJob(j) /\ j.left = Slotted!UsedSlots(r) /\ Fits(machine, r, j.in, j.sets, j.left)
    <3>1. SlottedInv'
      BY SlottedPlanKeeps
    <3>2. IsJob(j) /\ j.left = Slotted!UsedSlots(r) /\ j # Slotted!NoJob
      BY <1>4, NoJobIsNone DEF Chooses
    <3> QED
      BY <1>1, <3>1, <3>2 DEF SlottedInv, JobFits
  <2>2. r \in DOMAIN Recipes /\ j.sets \in Nat \ {0} /\ OfRecipe(machine, r)
    BY <1>2, <2>1, FitsOfRecipe DEF IsJob
  <2> HIDE DEF j
  <2>3. CASE NoInputs(machine)
    <3>1. ASSUME NEW slot \in Slotted!UsedSlots(r), NEW k \in Slotted!IngredientAt(r, slot)
          PROVE  machine[slot].size + Arrives(j, r, slot, k) = j.sets * Slotted!EachSize(Recipes[r].in[k])
      <4> DEFINE e == Slotted!EachSize(Recipes[r].in[k])
      <4>1. e \in Nat /\ Arrives(j, r, slot, k) = j.sets * e /\ slot \in InSlots
        BY <1>2, <2>1, <2>2, ArrivesFacts DEF Arrives
      <4>2. machine[slot].size = 0
        BY <2>3, <4>1 DEF NoInputs, Empty
      <4> HIDE DEF e
      <4>3. j.sets * e \in Nat
        BY <2>2, <4>1
      <4> QED
        BY <4>1, <4>2, <4>3 DEF e
    <3>2. HasSets(machine, j, r, j.sets)
      BY <2>2, <3>1 DEF HasSets
    <3> QED
      BY <1>1, <2>2, <3>2 DEF IsComplete, j
  <2>4. CASE \E q \in DOMAIN Recipes, n \in Nat \ {0} : HasSets(machine, job, q, n)
    <3>1. PICK q \in DOMAIN Recipes, n \in Nat \ {0} : HasSets(machine, job, q, n)
      BY <2>4
    <3>2. ASSUME NEW slot \in Slotted!UsedSlots(q), NEW k \in Slotted!IngredientAt(q, slot)
          PROVE  /\ machine[slot].size = n * Slotted!EachSize(Recipes[q].in[k])
                 /\ machine[slot] # Empty /\ Accepts(Recipes[q].in[k].item, machine[slot].item)
      <4> DEFINE e == Slotted!EachSize(Recipes[q].in[k])
                 a == Arrives(job, q, slot, k)
      <4>1. e \in Nat \ {0} /\ a = 0 /\ machine[slot].size \in Nat /\ IsStack(machine[slot])
        BY <1>2, ArrivesFacts
      <4>2. machine[slot].size + a = n * e
        BY <3>1 DEF HasSets
      <4> HIDE DEF e, a
      <4>3. machine[slot].size = n * e
        BY <4>1, <4>2
      <4>4. machine[slot].size # 0
        BY <4>1, <4>3, SetsFill
      <4>5. machine[slot] # Empty
        BY <4>4 DEF Empty
      <4> QED
        BY <3>1, <4>3, <4>5 DEF e, HasSets, OfRecipe
    <3>3. q = r
      <4> HIDE DEF r
      <4> QED
        BY <1>2, <2>2, <3>2, SameRecipe
    <3>4. ASSUME NEW slot \in Slotted!UsedSlots(r), NEW k \in Slotted!IngredientAt(r, slot)
          PROVE  machine[slot].size + Arrives(j, r, slot, k) = (n + j.sets) * Slotted!EachSize(Recipes[r].in[k])
      <4> DEFINE e == Slotted!EachSize(Recipes[r].in[k])
      <4>1. e \in Nat /\ Arrives(j, r, slot, k) = j.sets * e
        BY <1>2, <2>1, <2>2, ArrivesFacts DEF Arrives
      <4>2. machine[slot].size = n * e
        BY <3>2, <3>3
      <4> HIDE DEF e
      <4>3. (n + j.sets) * e = n * e + j.sets * e
        BY <2>2, <4>1
      <4> QED
        BY <4>1, <4>2, <4>3 DEF e
    <3>5. n + j.sets \in Nat \ {0}
      BY <2>2
    <3>6. HasSets(machine, j, r, n + j.sets)
      BY <2>2, <3>4 DEF HasSets
    <3> QED
      BY <1>1, <2>2, <3>5, <3>6 DEF IsComplete, j
  <2> QED
    BY <2>3, <2>4 DEF IsComplete
<1> QED
  BY <1>1, <1>3, <1>4

\* A transfer brings what was on its way.
LEMMA LoadCompletes ==
    ASSUME SlottedAssumption, SlottedInv, IsComplete(machine, job), Slotted!Load
    PROVE  IsComplete(machine', job')
<1>1. /\ IsJob(job) /\ Fits(machine, job.recipe, job.in, job.sets, job.left)
      /\ AreStacks(machine) /\ AreStacks(machine')
  BY SlottedLoads
<1>2. PICK slot \in job.left :
        /\ LoadedWith(machine, job, slot, machine')
        /\ job' = IF job.left = {slot} THEN Slotted!NoJob ELSE [job EXCEPT !.left = @ \ {slot}]
  BY SlottedLoads
<1>3. job # Slotted!NoJob /\ job.recipe # 0
  BY <1>1, NoJobIsNone, SlottedAssumes DEF IsJob, AreRecipes
<1>4. PICK r \in DOMAIN Recipes, n \in Nat \ {0} : HasSets(machine, job, r, n)
  BY <1>3 DEF IsComplete
<1>5. job.recipe = r /\ IsPlaced(r) /\ slot \in Slotted!UsedSlots(r) /\ slot \in InSlots
  BY <1>1, <1>3, <1>4, IngredientsPlaced DEF HasSets, IsJob, IsPlaced
<1>6. \A other \in InSlots : other # slot => machine'[other] = machine[other]
  BY <1>2 DEF LoadedWith, Slotted!Slots
<1>7. \A k \in Slotted!IngredientAt(r, slot) :
        /\ machine'[slot].item = job.in[k] /\ Accepts(Recipes[r].in[k].item, job.in[k])
        /\ machine'[slot].size = machine[slot].size + job.sets * Slotted!EachSize(Recipes[r].in[k])
  BY <1>1, <1>2, <1>5 DEF LoadedWith, IsJob, IsPlaced
<1>8. OfRecipe(machine', r)
  BY <1>4, <1>5, <1>6, <1>7 DEF HasSets, OfRecipe, IsPlaced
<1>9. job'.recipe \in {0, r} /\ job'.left = job.left \ {slot} /\ (job'.left # {} => job'.sets = job.sets)
  <2>1. CASE job.left = {slot}
    BY <1>2, <2>1 DEF Slotted!NoJob
  <2>2. CASE job.left # {slot}
    BY <1>1, <1>2, <1>5, <2>2 DEF IsJob
  <2> QED
    BY <2>1, <2>2
<1>10. ASSUME NEW other \in Slotted!UsedSlots(r), NEW k \in Slotted!IngredientAt(r, other)
       PROVE  machine'[other].size + Arrives(job', r, other, k) = n * Slotted!EachSize(Recipes[r].in[k])
  <2> DEFINE e == Slotted!EachSize(Recipes[r].in[k])
             b == job.sets * e
  <2>1. e \in Nat /\ other \in InSlots /\ machine[other].size \in Nat /\ b \in Nat
    <3>1. e \in Nat /\ other \in InSlots /\ machine[other].size \in Nat /\ job.sets \in Nat
      BY <1>1, ArrivesFacts
    <3> HIDE DEF e
    <3> QED
      BY <3>1
  <2>2. machine[other].size + Arrives(job, r, other, k) = n * e
    BY <1>4 DEF HasSets
  <2>3. CASE other = slot
    <3>1. Arrives(job, r, other, k) = b /\ Arrives(job', r, other, k) = 0
      BY <1>9, <2>3 DEF Arrives
    <3>2. machine'[other].size = machine[other].size + b
      BY <1>7, <2>3
    <3> HIDE DEF e, b
    <3> QED
      BY <2>1, <2>2, <3>1, <3>2 DEF e
  <2>4. CASE other # slot
    <3>1. Arrives(job', r, other, k) = Arrives(job, r, other, k)
      BY <1>9, <2>4 DEF Arrives
    <3>2. machine'[other] = machine[other]
      BY <1>6, <2>1, <2>4
    <3> QED
      BY <2>2, <3>1, <3>2
  <2> QED
    BY <2>3, <2>4
<1>11. HasSets(machine', job', r, n)
  BY <1>8, <1>9, <1>10 DEF HasSets
<1> QED
  BY <1>11 DEF IsComplete

\* A group that fails as a whole leaves the sets that were there.
LEMMA FailureCompletes ==
    ASSUME SlottedAssumption, SlottedInv, IsComplete(machine, job), Slotted!LoadFails,
           job.left = Slotted!UsedSlots(job.recipe)
    PROVE  IsComplete(machine', job')
<1>1. job # Slotted!NoJob /\ job' = Slotted!NoJob /\ machine' = machine
  BY DEF Slotted!LoadFails
<1>2. IsJob(job) /\ AreStacks(machine) /\ job.recipe # 0
  BY <1>1, SlottedAssumes DEF SlottedInv, JobFits, SlottedTypes, IsJob, AreRecipes
<1>3. PICK r \in DOMAIN Recipes, n \in Nat \ {0} : HasSets(machine, job, r, n)
  BY <1>1 DEF IsComplete
<1>4. job.recipe = r /\ IsPlaced(r) /\ job.sets \in Nat /\ OfRecipe(machine, r)
  BY <1>2, <1>3, IngredientsPlaced DEF HasSets, IsJob
<1> DEFINE m == n - job.sets
<1>5. ASSUME NEW slot \in Slotted!UsedSlots(r), NEW k \in Slotted!IngredientAt(r, slot)
      PROVE  /\ slot \in InSlots /\ IsStack(machine[slot])
             /\ machine[slot].size = m * Slotted!EachSize(Recipes[r].in[k]) /\ m >= 0
  <2> DEFINE e == Slotted!EachSize(Recipes[r].in[k])
  <2>1. /\ slot \in InSlots /\ IsStack(machine[slot]) /\ machine[slot].size \in Nat /\ e \in Nat \ {0}
        /\ Arrives(job, r, slot, k) = job.sets * e
    BY <1>2, <1>4, ArrivesFacts DEF Arrives
  <2>2. machine[slot].size + Arrives(job, r, slot, k) = n * e
    BY <1>3 DEF HasSets
  <2> HIDE DEF e
  <2>3. m \in Int /\ m * e = n * e - job.sets * e /\ n * e \in Int /\ job.sets * e \in Int
    BY <1>4, <2>1
  <2>4. machine[slot].size = m * e
    BY <2>1, <2>2, <2>3
  <2> HIDE DEF m
  <2>5. m >= 0
    <3> SUFFICES ASSUME m <= -1 PROVE FALSE
      BY <2>3
    <3>1. m * e <= -1
      <4>1. -m \in Nat \ {0} /\ (-m) * e = -(m * e)
        BY <2>1, <2>3
      <4>2. (-m) * e \in Nat \ {0}
        BY <2>1, <4>1
      <4> QED
        BY <2>1, <2>3, <2>4, <4>1, <4>2
    <3> QED
      BY <2>1, <2>4, <3>1
  <2> QED
    BY <2>1, <2>4, <2>5 DEF e
<1>6. m \in Int /\ \E slot \in Slotted!UsedSlots(r) : \E k \in Slotted!IngredientAt(r, slot) : TRUE
  BY <1>4 DEF IsPlaced
<1> HIDE DEF m
<1>7. m \in Nat
  BY <1>5, <1>6
<1>8. CASE m = 0
  <2>1. ASSUME NEW slot \in Slotted!UsedSlots(r) PROVE machine[slot] = Empty
    <3>1. PICK k \in Slotted!IngredientAt(r, slot) : TRUE
      BY <1>4 DEF IsPlaced
    <3> DEFINE e == Slotted!EachSize(Recipes[r].in[k])
    <3>2. IsStack(machine[slot]) /\ machine[slot].size = m * e /\ e \in Nat
      BY <1>4, <1>5, <3>1 DEF IsPlaced
    <3> HIDE DEF e
    <3>3. machine[slot].size = 0
      BY <1>8, <3>2
    <3> QED
      BY <3>2, <3>3, StackSizes
  <2>2. NoInputs(machine)
    BY <1>4, <2>1 DEF OfRecipe, NoInputs
  <2> QED
    BY <1>1, <2>2 DEF IsComplete
<1>9. CASE m # 0
  <2>1. ASSUME NEW slot \in Slotted!UsedSlots(r), NEW k \in Slotted!IngredientAt(r, slot)
        PROVE  machine[slot].size + Arrives(Slotted!NoJob, r, slot, k) = m * Slotted!EachSize(Recipes[r].in[k])
    <3>1. machine[slot].size = m * Slotted!EachSize(Recipes[r].in[k]) /\ machine[slot].size \in Nat
          /\ Arrives(Slotted!NoJob, r, slot, k) = 0
      BY <1>2, <1>5, ArrivesFacts
    <3> QED
      BY <3>1
  <2>2. HasSets(machine, Slotted!NoJob, r, m)
    BY <1>4, <2>1 DEF HasSets, Slotted!NoJob
  <2> QED
    BY <1>1, <1>7, <1>9, <2>2 DEF IsComplete
<1> QED
  BY <1>8, <1>9

\* The machine's work leaves sets complete.
LEMMA CraftCompletes ==
    ASSUME SlottedAssumption, Slotted!RecipesApart, SlottedInv, IsComplete(machine, job),
           NEW s \in DOMAIN Recipes, Slotted!Craft(s)
    PROVE  IsComplete(machine', job)
<1>1. AreStacks(machine) /\ AreStacks(machine') /\ UsesSet(s) /\ IsPlaced(s) /\ JobFits
  BY CraftUsesSet, IngredientsPlaced DEF SlottedInv, SlottedTypes, UsesSet
<1>2. PICK first \in Slotted!UsedSlots(s) : Slotted!IngredientAt(s, first) # {}
  BY <1>1 DEF IsPlaced
<1>3. first \in InSlots /\ machine[first] # Empty
  BY <1>1, <1>2 DEF IsPlaced, UsesSet
<1>4. PICK r \in DOMAIN Recipes, n \in Nat \ {0} : HasSets(machine, job, r, n)
  BY <1>3 DEF IsComplete, NoInputs
<1>5. s = r
  <2>1. \A slot \in Slotted!UsedSlots(s) : \A m \in Slotted!IngredientAt(s, slot) :
          machine[slot] # Empty /\ Accepts(Recipes[s].in[m].item, machine[slot].item)
    BY <1>1 DEF UsesSet
  <2>2. OfRecipe(machine, r)
    BY <1>4 DEF HasSets
  <2> QED
    BY <1>1, <2>1, <2>2, SameRecipe
<1>6. ASSUME NEW slot \in Slotted!UsedSlots(s), NEW k \in Slotted!IngredientAt(s, slot)
      PROVE  /\ machine'[slot].size + Arrives(job, s, slot, k) = (n - 1) * Slotted!EachSize(Recipes[s].in[k])
             /\ n = 1 => machine'[slot] = Empty /\ slot \notin job.left
  <2> DEFINE e == Slotted!EachSize(Recipes[s].in[k])
             a == Arrives(job, s, slot, k)
             b == machine[slot].size
             c == machine'[slot].size
  <2>1. /\ e \in Nat \ {0} /\ a \in Nat /\ b \in Nat /\ c \in Nat /\ slot \in InSlots
        /\ IsStack(machine'[slot])
    BY <1>1, ArrivesFacts DEF JobFits
  <2>2. b + a = n * e /\ c = b - e
    BY <1>1, <1>4, <1>5 DEF HasSets, UsesSet
  <2>3. slot \in job.left => a \in Nat \ {0}
    <3> SUFFICES ASSUME slot \in job.left PROVE a \in Nat \ {0}
      OBVIOUS
    <3>1. a = job.sets * e /\ job.sets \in Nat \ {0}
      BY <1>1 DEF Arrives, JobFits, IsJob, Slotted!NoJob
    <3> HIDE DEF a, e
    <3> QED
      BY <2>1, <3>1
  <2> HIDE DEF e, a, b, c
  <2>4. c + a = (n - 1) * e
    <3>1. (n - 1) * e = n * e - e /\ n * e \in Int
      BY <2>1
    <3> QED
      BY <2>1, <2>2, <3>1
  <2>5. n = 1 => c = 0 /\ a = 0
    <3> SUFFICES ASSUME n = 1 PROVE c = 0 /\ a = 0
      OBVIOUS
    <3>1. c + a = 0
      BY <2>1, <2>4
    <3> QED
      BY <2>1, <3>1
  <2>6. c = 0 => machine'[slot] = Empty
    BY <2>1, StackSizes DEF c
  <2> QED
    BY <2>3, <2>4, <2>5, <2>6 DEF e, a, c
<1>7. \A slot \in InSlots \ Slotted!UsedSlots(s) : machine'[slot] = Empty
  BY <1>1 DEF UsesSet
<1>8. CASE n = 1
  <2>1. \A slot \in Slotted!UsedSlots(s) : machine'[slot] = Empty /\ slot \notin job.left
    <3> SUFFICES ASSUME NEW slot \in Slotted!UsedSlots(s) PROVE machine'[slot] = Empty /\ slot \notin job.left
      OBVIOUS
    <3>1. PICK k \in Slotted!IngredientAt(s, slot) : TRUE
      BY <1>1 DEF IsPlaced
    <3> QED
      BY <1>6, <1>8, <3>1
  <2>2. job = Slotted!NoJob
    <3> SUFFICES ASSUME IsJob(job) PROVE FALSE
      BY <1>1 DEF JobFits
    <3>1. job.recipe = s
      BY <1>4, <1>5, SlottedAssumes DEF HasSets, IsJob, AreRecipes
    <3> QED
      BY <2>1, <3>1 DEF IsJob
  <2> QED
    BY <1>7, <2>1, <2>2 DEF IsComplete, NoInputs
<1>9. CASE n # 1
  <2>1. n - 1 \in Nat \ {0}
    BY <1>9
  <2>2. IsLess(machine', machine)
    BY CraftLess
  <2>3. OfRecipe(machine', s) /\ job.recipe \in {0, s}
    BY <1>1, <1>4, <1>5, <2>2, LessOfRecipe DEF HasSets
  <2>4. HasSets(machine', job, s, n - 1)
    BY <1>6, <2>3 DEF HasSets
  <2> QED
    BY <2>1, <2>4 DEF IsComplete
<1> QED
  BY <1>8, <1>9

\* Until a group is cut short or a player takes something out, sets are complete.
SetsComplete == taken = 0 /\ lost = 0 => IsComplete(machine, job)

\* Inputs that are as they were are as complete.
LEMMA SameCompletes ==
    ASSUME SlottedAssumption, IsComplete(machine, job), job' = job,
           \A slot \in InSlots : machine'[slot] = machine[slot]
    PROVE  IsComplete(machine', job')
<1>1. \A r \in DOMAIN Recipes : Slotted!UsedSlots(r) \subseteq InSlots
  BY IngredientsPlaced DEF IsPlaced
<1>2. CASE job = Slotted!NoJob /\ NoInputs(machine)
  BY <1>2 DEF IsComplete, NoInputs
<1>3. CASE \E r \in DOMAIN Recipes, n \in Nat \ {0} : HasSets(machine, job, r, n)
  <2>1. PICK r \in DOMAIN Recipes, n \in Nat \ {0} : HasSets(machine, job, r, n)
    BY <1>3
  <2>2. HasSets(machine', job', r, n)
    BY <1>1, <2>1 DEF HasSets, OfRecipe
  <2> QED
    BY <2>2 DEF IsComplete
<1> QED
  BY <1>2, <1>3 DEF IsComplete

\* Every step keeps the sets complete.
LEMMA SlottedCompletes ==
    ASSUME SlottedAssumption, Slotted!RecipesApart, SlottedInv, SetsComplete,
           [Slotted!Next]_(Slotted!vars)
    PROVE  SetsComplete'
<1>1. SUFFICES ASSUME taken' = 0, lost' = 0 PROVE IsComplete(machine', job')
  BY DEF SetsComplete
<1>2. taken \in Nat /\ lost \in Nat
  BY SlottedAssumes DEF SlottedInv, SlottedTypes
<1>3. CASE UNCHANGED <<machine, job, taken, lost>>
  BY <1>1, <1>3, SameCompletes DEF SetsComplete
<1>4. CASE Slotted!Plan
  <2>1. taken' = taken /\ lost' = lost
    BY <1>4, Zenon DEF Slotted!Plan
  <2> QED
    BY <1>1, <1>4, <2>1, PlanCompletes DEF SetsComplete
<1>5. CASE Slotted!Load
  <2>1. taken' = taken /\ lost' = lost
    BY <1>5, SlottedLoads
  <2> QED
    BY <1>1, <1>5, <2>1, LoadCompletes DEF SetsComplete
<1>6. CASE Slotted!LoadFails
  <2>1. taken' = taken /\ lost' = lost + IF job.left = Slotted!UsedSlots(job.recipe) THEN 0 ELSE 1
    BY <1>6 DEF Slotted!LoadFails
  <2>2. lost = 0 /\ job.left = Slotted!UsedSlots(job.recipe)
    BY <1>1, <1>2, <2>1
  <2> QED
    BY <1>1, <1>6, <2>1, <2>2, FailureCompletes DEF SetsComplete
<1>7. CASE \E r \in DOMAIN Recipes : Slotted!Craft(r)
  <2>1. PICK r \in DOMAIN Recipes : Slotted!Craft(r)
    BY <1>7
  <2>2. taken' = taken /\ lost' = lost /\ job' = job
    BY <2>1 DEF Slotted!Craft
  <2>3. IsComplete(machine', job)
    BY <1>1, <2>1, <2>2, CraftCompletes DEF SetsComplete
  <2> QED
    BY <2>2, <2>3
<1>8. CASE \E slot \in InSlots : Slotted!TakeStack(slot)
  <2>1. taken' = taken + 1
    BY <1>8 DEF Slotted!TakeStack
  <2> QED
    BY <1>1, <1>2, <2>1
<1>9. CASE Slotted!ProcessOutput \/ Slotted!Eject
  <2>1. taken' = taken /\ lost' = lost /\ job' = job
    BY <1>9 DEF Slotted!ProcessOutput, Slotted!Eject, Slotted!OutputStored
  <2>2. \A slot \in InSlots : machine'[slot] = machine[slot]
    BY <1>9, StoresLess
  <2> QED
    BY <1>1, <2>1, <2>2, SameCompletes DEF SetsComplete
<1>10. CASE Slotted!Cycle \/ Slotted!List \/ Slotted!EndOfCycle
  <2>1. UNCHANGED <<machine, job, taken, lost>>
    BY <1>10, Zenon DEF Slotted!Cycle, Slotted!List, Slotted!EndOfCycle
  <2> QED
    BY <1>3, <2>1
<1>11. CASE UNCHANGED Slotted!vars
  <2>1. UNCHANGED <<machine, job, taken, lost>>
    BY <1>11 DEF Slotted!vars
  <2> QED
    BY <1>3, <2>1
<1> QED
  BY <1>4, <1>5, <1>6, <1>7, <1>8, <1>9, <1>10, <1>11 DEF Slotted!Next

\* No more sets are there and on their way than fit into a slot.
LEMMA SetsBounded ==
    ASSUME SlottedAssumption, SlottedInv, NEW r \in DOMAIN Recipes, NEW n \in Nat \ {0},
           HasSets(machine, job, r, n)
    PROVE  \E i \in Items : n <= MaxSize[i]
<1>1. AreStacks(machine) /\ JobFits /\ IsPlaced(r) /\ Recipes[r].data \in Int
  BY IngredientsPlaced DEF SlottedInv, SlottedTypes
<1>2. PICK slot \in Slotted!UsedSlots(r) : \E k \in Slotted!IngredientAt(r, slot) : TRUE
  BY <1>1 DEF IsPlaced
<1>3. PICK k \in Slotted!IngredientAt(r, slot) : TRUE
  BY <1>2
<1> DEFINE e == Slotted!EachSize(Recipes[r].in[k])
           a == Arrives(job, r, slot, k)
           b == machine[slot].size
<1>4. e \in Nat \ {0} /\ a \in Nat /\ b \in Nat /\ b + a = n * e /\ IsStack(machine[slot])
  BY <1>1, <1>3, ArrivesFacts DEF JobFits, HasSets
<1>5. n <= b + a
  <2> HIDE DEF e, a, b
  <2>1. b + a \in Nat
    BY <1>4
  <2> QED
    BY <1>4, <2>1, SetsFill
<1>6. MaxSize \in [Items -> Nat \ {0}]
  BY SlottedAssumes DEF ItemsAssumption
<1>7. CASE slot \in job.left
  <2>1. IsJob(job) /\ Fits(machine, job.recipe, job.in, job.sets, job.left)
    BY <1>1, <1>7 DEF JobFits, Slotted!NoJob
  <2>2. job.recipe = r
    BY <2>1, SlottedAssumes DEF HasSets, IsJob, AreRecipes
  <2> DEFINE i == job.in[k]
  <2>3. i \in Items
    BY <1>1, <1>3, <2>1, <2>2 DEF IsJob, IsPlaced
  <2>4. b + a <= Least(Recipes[r].data, MaxSize[i])
    BY <1>3, <1>7, <2>1, <2>2 DEF Fits, Arrives
  <2> DEFINE m == MaxSize[i]
  <2>5. m \in Nat
    BY <1>6, <2>3
  <2> HIDE DEF a, b, m, i
  <2>6. n <= m
    BY <1>1, <1>4, <1>5, <2>4, <2>5 DEF Least, m
  <2> QED
    BY <2>3, <2>6 DEF m
<1>8. CASE slot \notin job.left
  <2>1. a = 0
    BY <1>8 DEF Arrives
  <2>2. b # 0
    BY <1>4, <1>5, <2>1
  <2>3. machine[slot].item \in Items /\ b <= MaxSize[machine[slot].item]
    BY <1>4, <2>2 DEF IsStack, Empty
  <2> DEFINE m == MaxSize[machine[slot].item]
  <2>4. m \in Nat
    BY <1>6, <2>3
  <2> HIDE DEF a, b, m
  <2>5. n <= m
    BY <1>4, <1>5, <2>1, <2>3, <2>4 DEF m
  <2> QED
    BY <2>3, <2>5 DEF m
<1> QED
  BY <1>7, <1>8

\* What the machine of ProcessSlotted holds and what is on its way to it makes complete
\* sets of one recipe, until a group of transfers is cut short ("may cause incomplete set of
\* input items to be sent to machines", src/README.md:85) or a player takes something out,
\* if no recipe could be made of inputs of another: while a group is under way, the machine
\* might begin with such a one.
THEOREM SlottedCompleteSets ==
    SlottedAssumption /\ Slotted!RecipesApart => (Slotted!Spec => []Slotted!CompleteSets)
<1> SUFFICES ASSUME SlottedAssumption, Slotted!RecipesApart PROVE Slotted!Spec => []Slotted!CompleteSets
  OBVIOUS
<1>1. Slotted!Init => SetsComplete
  BY SlottedStacks DEF Slotted!Init, SetsComplete, IsComplete, NoInputs, Slotted!Nowhere, Slotted!Slots
<1>2. SlottedInv /\ SetsComplete /\ [Slotted!Next]_(Slotted!vars) => SetsComplete'
  BY SlottedCompletes
<1>3. SlottedInv /\ SetsComplete => Slotted!CompleteSets
  <2> SUFFICES ASSUME SlottedInv, SetsComplete, taken = 0, lost = 0 PROVE Slotted!Complete
    BY DEF Slotted!CompleteSets
  <2>1. AreStacks(machine) /\ JobFits
    BY DEF SlottedInv, SlottedTypes
  <2>2. CASE job = Slotted!NoJob /\ NoInputs(machine)
    BY <2>2, SlottedStacks DEF Slotted!Complete, NoInputs
  <2>3. CASE \E r \in DOMAIN Recipes, n \in Nat \ {0} : HasSets(machine, job, r, n)
    <3>1. PICK r \in DOMAIN Recipes, n \in Nat \ {0} : HasSets(machine, job, r, n)
      BY <2>3
    <3>2. Slotted!HoldsSets(machine, r, 0) /\ job.recipe \in {0, r} /\ IsPlaced(r)
      BY <2>1, <3>1, HoldsOfRecipe, IngredientsPlaced DEF HasSets
    <3>3. ASSUME NEW slot \in Slotted!UsedSlots(r), NEW k \in Slotted!IngredientAt(r, slot)
          PROVE  machine[slot].size + Slotted!Coming(slot) = n * Slotted!EachSize(Recipes[r].in[k])
      <4>1. machine[slot].size + Arrives(job, r, slot, k) = n * Slotted!EachSize(Recipes[r].in[k])
        BY <3>1 DEF HasSets
      <4>2. slot \in job.left => job.recipe = r
        BY <2>1, <3>2, SlottedAssumes DEF JobFits, IsJob, AreRecipes, Slotted!NoJob
      <4>3. slot \in InSlots /\ Slotted!Min(Slotted!IngredientAt(r, slot)) = k
        BY <3>2 DEF IsPlaced
      <4>4. Slotted!Coming(slot) = Arrives(job, r, slot, k)
        BY <4>2, <4>3 DEF Slotted!Coming, Slotted!Brings, Arrives
      <4> QED
        BY <4>1, <4>4
    <3>4. PICK i \in Items : n <= MaxSize[i]
      BY <3>1, SetsBounded
    <3>5. n \in 1 .. Slotted!Max({MaxSize[x] : x \in Items})
      <4> DEFINE sizes == {MaxSize[x] : x \in Items}
      <4>1. IsFiniteSet(Items) /\ MaxSize \in [Items -> Nat \ {0}]
        BY SlottedAssumes DEF ItemsAssumption
      <4>2. MaxSize \in Surjection(Items, sizes)
        <5>1. MaxSize \in [Items -> sizes] /\ \A y \in sizes : \E x \in Items : MaxSize[x] = y
          BY <4>1
        <5> HIDE DEF sizes
        <5> QED
          BY <5>1 DEF Surjection
      <4>3. sizes \subseteq Int /\ MaxSize[i] \in sizes
        BY <4>1
      <4> HIDE DEF sizes
      <4>4. IsFiniteSet(sizes)
        BY <4>1, <4>2, FS_Surjection
      <4>5. Max(sizes) \in Int /\ Max(sizes) >= MaxSize[i] /\ MaxSize[i] \in Int
        BY <4>3, <4>4, GreatestOfFinite
      <4>6. Slotted!Max(sizes) = Max(sizes)
        BY SlottedSets
      <4> DEFINE most == Max(sizes)
                 m == MaxSize[i]
      <4>7. n <= m /\ most >= m /\ m \in Int /\ most \in Int /\ n \in Nat \ {0}
        BY <3>4, <4>5
      <4> HIDE DEF most, m
      <4>8. n \in 1 .. most
        BY <4>7
      <4> QED
        BY <4>6, <4>8 DEF most, sizes
    <3>6. \A slot \in Slotted!UsedSlots(r) : \A k \in Slotted!IngredientAt(r, slot) :
            machine[slot].size + Slotted!Coming(slot) = n * Slotted!EachSize(Recipes[r].in[k])
      BY <3>3
    <3> QED
      BY <3>2, <3>5, <3>6 DEF Slotted!Complete
  <2> QED
    BY <2>2, <2>3 DEF SetsComplete, IsComplete
<1> QED
  BY <1>1, <1>2, <1>3, SlottedInvariant, PTL DEF Slotted!Spec
-----------------------------------------------------------------------------
(***************************************************************************)
(* The scattering process, which plans with these functions too.  Its      *)
(* input slots have an order.                                              *)
(***************************************************************************)
CONSTANTS InOrder, EachSlotMaxInProc
VARIABLE moves

Scattering == INSTANCE CppScattering WITH InSlots <- InOrder

\* The functions of CppItems are the same in all modules.
LEMMA ScatteringStacks ==
    /\ Scattering!Empty = Empty /\ \A i, n : Scattering!Stack(i, n) = Stack(i, n)
    /\ \A m, n : Scattering!Least(m, n) = Least(m, n)
    /\ \A f, i : Scattering!Accepts(f, i) <=> Accepts(f, i)
BY DEF Scattering!Empty, Empty, Scattering!Stack, Stack, Scattering!Least, Least, Scattering!Accepts, Accepts

\* It resolves the inputs of a recipe as CppRecipes does.
LEMMA ScatteringResolves ==
    ASSUME NEW x, NEW rec
    PROVE  Scattering!ResolveRecipeInputs(x, rec, TRUE) = ResolveRecipeInputs(x, rec, TRUE)
BY DEF Scattering!ResolveRecipeInputs, ResolveRecipeInputs, Scattering!GetItem, GetItem, Scattering!Candidates, Candidates,
       Scattering!Accepts, Accepts, Scattering!Deciding, Deciding, Scattering!GetAvail, GetAvail, Scattering!Most, Most, Scattering!Clips, Clips,
       Scattering!Needed, Needed, Scattering!Min, Min, Scattering!SumFunctionOnSet, SumFunctionOnSet,
       Scattering!FoldFunctionOnSet, FoldFunctionOnSet, Scattering!MapThenFoldSet, MapThenFoldSet

\* It takes the same share of an output to be there.
LEMMA ScatteringShares ==
    ASSUME NEW x, NEW out
    PROVE  Scattering!Share(x, out) = Share(x, out)
BY DEF Scattering!Share, Share, Scattering!GetItem, GetItem, Scattering!Candidates, Candidates,
       Scattering!Accepts, Accepts, Scattering!GetAvail, GetAvail, Scattering!Most, Most

\* It finds the same outputs missing and wanted, and the storage as full.
LEMMA ScatteringMissing ==
    ASSUME NEW x, NEW rec
    PROVE  /\ Scattering!Missing(x, rec) = Missing(x, rec) /\ (Scattering!Wanted(x, rec) <=> Wanted(x, rec))
           /\ Scattering!Fullness(x, rec) = Fullness(x, rec)
<1>1. Scattering!Missing(x, rec) = Missing(x, rec)
    BY ScatteringShares DEF Scattering!Missing, Missing
<1>2. \A S : Scattering!Lowest(S) = Lowest(S)
    BY DEF Scattering!Lowest, Lowest, Scattering!Below, Below
<1> QED
    BY <1>1, <1>2 DEF Scattering!Fullness, Fullness, Scattering!Wanted, Wanted

\* It puts the same recipe first.
LEMMA ScatteringEarlier ==
    ASSUME NEW x, NEW r, NEW s
    PROVE  Scattering!Earlier(x, Recipes, r, s) <=> Earlier(x, Recipes, r, s)
BY ScatteringMissing DEF Scattering!Earlier, Earlier, Scattering!Before, Before, Scattering!Below, Below

\* It demands the same recipes, in the same order.
LEMMA ScatteringDemands ==
    ASSUME NEW x
    PROVE  /\ Scattering!Demanded(x, Recipes, TRUE) = Demanded(x, Recipes, TRUE)
           /\ Scattering!GetDemand(x, Recipes, TRUE) = GetDemand(x, Recipes, TRUE)
<1>1. Scattering!Demanded(x, Recipes, TRUE) = Demanded(x, Recipes, TRUE)
    <2> DEFINE P(r) == Wanted(x, Recipes[r]) /\ ResolveRecipeInputs(x, Recipes[r], TRUE).inAvail # 0
               Q(r) == Scattering!Wanted(x, Recipes[r]) /\ Scattering!ResolveRecipeInputs(x, Recipes[r], TRUE).inAvail # 0
    <2>1. Demanded(x, Recipes, TRUE) = {r \in DOMAIN Recipes : P(r)}
        BY Zenon DEF Demanded
    <2>2. Scattering!Demanded(x, Recipes, TRUE) = {r \in DOMAIN Recipes : Q(r)}
        BY Zenon DEF Scattering!Demanded
    <2>3. ASSUME NEW r PROVE P(r) <=> Q(r)
        <3>1. Scattering!Wanted(x, Recipes[r]) <=> Wanted(x, Recipes[r])
            BY ScatteringMissing
        <3>2. Scattering!ResolveRecipeInputs(x, Recipes[r], TRUE) = ResolveRecipeInputs(x, Recipes[r], TRUE)
            BY ScatteringResolves
        <3> QED
            BY <3>1, <3>2, Zenon
    <2> HIDE DEF P, Q
    <2> QED
        BY <2>1, <2>2, <2>3, Zenon
<1>2. \A S : Scattering!Cardinality(S) = Cardinality(S)
    BY DEF Scattering!Cardinality, Cardinality, Scattering!IsFiniteSet, IsFiniteSet
<1> DEFINE D == Demanded(x, Recipes, TRUE)
           before(r) == {s \in D : Earlier(x, Recipes, s, r)}
           sbefore(r) == {s \in D : Scattering!Earlier(x, Recipes, s, r)}
<1>3. \A r : sbefore(r) = before(r)
    BY ScatteringEarlier
<1> QED
    <2>1. Scattering!GetDemand(x, Recipes, TRUE) =
            [n \in 1 .. Scattering!Cardinality(D) |-> CHOOSE r \in D : Scattering!Cardinality(sbefore(r)) = n - 1]
        <3> DEFINE SD == Scattering!Demanded(x, Recipes, TRUE)
                   found(r, S) == {s \in S : Scattering!Earlier(x, Recipes, s, r)}
                   order(S) == [n \in 1 .. Scattering!Cardinality(S) |-> CHOOSE r \in S : Scattering!Cardinality(found(r, S)) = n - 1]
        <3>1. Scattering!GetDemand(x, Recipes, TRUE) = order(SD)
            BY Zenon DEF Scattering!GetDemand
        <3> HIDE DEF SD, order
        <3>2. SD = D
            BY <1>1, Zenon DEF SD
        <3>3. Scattering!GetDemand(x, Recipes, TRUE) = order(D)
            BY <3>1, <3>2, Zenon
        <3> QED
            BY <3>3, Zenon DEF order
    <2>2. GetDemand(x, Recipes, TRUE) =
            [n \in 1 .. Cardinality(D) |-> CHOOSE r \in D : Cardinality(before(r)) = n - 1]
        BY Zenon DEF GetDemand
    <2> HIDE DEF D, before, sbefore
    <2>3. \A n : (CHOOSE r \in D : Scattering!Cardinality(sbefore(r)) = n - 1) = (CHOOSE r \in D : Cardinality(before(r)) = n - 1)
        BY <1>2, <1>3
    <2> QED
        BY <1>1, <1>2, <2>1, <2>2, <2>3

\* Sums and the ends of a set are the same.
LEMMA ScatteringSums ==
    /\ \A s : Scattering!ToSet(s) = ToSet(s)
    /\ \A S : Scattering!Min(S) = Min(S) /\ Scattering!Max(S) = Max(S)
    /\ \A f, S : Scattering!SumFunctionOnSet(f, S) = SumFunctionOnSet(f, S)
<1>1. \A s : Scattering!ToSet(s) = ToSet(s)
  BY DEF Scattering!ToSet, ToSet
<1>2. \A S : Scattering!Min(S) = Min(S) /\ Scattering!Max(S) = Max(S)
  BY DEF Scattering!Min, Min, Scattering!Max, Max
<1>3. \A f, S : Scattering!SumFunctionOnSet(f, S) = SumFunctionOnSet(f, S)
  BY DEF Scattering!SumFunctionOnSet, SumFunctionOnSet, Scattering!FoldFunctionOnSet, FoldFunctionOnSet,
         Scattering!MapThenFoldSet, MapThenFoldSet
<1> QED
  BY <1>1, <1>2, <1>3

\* What an instance has to satisfy, and what follows from it.
ScatteringAssumption == Scattering!ItemsAssumption /\ Scattering!RecipesAssumption
Ins == ToSet(InOrder)

\* In the terms of CppItems, for the slots as a set.
LEMMA ScatteringAssumes ==
    ASSUME ScatteringAssumption
    PROVE  /\ ItemsAssumption /\ AreRecipes(Recipes)
           /\ IsFiniteSet(Ins) /\ OutSlot \notin Ins /\ Scattering!Slots = Ins \cup {OutSlot}
           /\ DOMAIN InOrder = 1 .. Len(InOrder) /\ Len(InOrder) \in Nat
           /\ \A n \in DOMAIN InOrder : InOrder[n] \in Ins
           /\ \A slot \in Ins : \E n \in DOMAIN InOrder : InOrder[n] = slot
           /\ Stored0 \in [Items -> Nat] /\ Backup \in [Items -> Nat]
           /\ \A r \in DOMAIN Recipes :
                /\ DOMAIN Recipes[r].in = {1} /\ CraftSize[r] \in Nat /\ Scattering!Product(r) \in Items
<1>1. ItemsAssumption
    BY DEF ScatteringAssumption, Scattering!ItemsAssumption, ItemsAssumption, Scattering!IsFiniteSet, IsFiniteSet
<1>2. AreRecipes(Recipes)
    BY DEF ScatteringAssumption, Scattering!RecipesAssumption, Scattering!AreRecipes, AreRecipes, Scattering!IsRecipe, IsRecipe
<1>3. /\ DOMAIN InOrder = 1 .. Len(InOrder) /\ Len(InOrder) \in Nat
      /\ OutSlot \notin Ins /\ Scattering!Slots = Ins \cup {OutSlot}
      /\ Stored0 \in [Items -> Nat] /\ Backup \in [Items -> Nat]
    BY ScatteringSums DEF ScatteringAssumption, Scattering!RecipesAssumption, Ins, Scattering!Slots
<1>4. /\ \A n \in DOMAIN InOrder : InOrder[n] \in Ins
      /\ \A slot \in Ins : \E n \in DOMAIN InOrder : InOrder[n] = slot
    BY DEF Ins, ToSet
<1>5. IsFiniteSet(Ins)
  <2> DEFINE N == Len(InOrder)
  <2>1. IsFiniteSet(1 .. N)
    BY <1>3, FS_Interval
  <2>2. Ins = {InOrder[n] : n \in 1 .. N}
    BY <1>3 DEF Ins, ToSet
  <2> DEFINE f == [n \in 1 .. N |-> InOrder[n]]
  <2>3. f \in Surjection(1 .. N, Ins)
    BY <2>2 DEF Surjection
  <2> QED
    BY <2>1, <2>3, FS_Surjection
<1>6. ASSUME NEW r \in DOMAIN Recipes
      PROVE  DOMAIN Recipes[r].in = {1} /\ CraftSize[r] \in Nat /\ Scattering!Product(r) \in Items
  <2>1. DOMAIN Recipes[r].in = 1 .. 1
    BY <1>2 DEF ScatteringAssumption, Scattering!RecipesAssumption, AreRecipes, IsRecipe
  <2>2. CraftSize[r] \in Nat /\ Scattering!Product(r) \in Items
    BY DEF ScatteringAssumption, Scattering!RecipesAssumption, Scattering!Product
  <2> QED
    BY <2>1, <2>2
<1> QED
    BY <1>1, <1>2, <1>3, <1>4, <1>5, <1>6

(***************************************************************************)
(* Transfers and their sizes.                                              *)
(***************************************************************************)
IsMove(m) == /\ m.recipe \in DOMAIN Recipes /\ m.item \in Items
             /\ m.slot \in Ins /\ m.size \in Nat \ {0}
AreMoves(ms) == IsFiniteSet(ms) /\ \A m \in ms : IsMove(m)

\* What some transfers move together.
Moved(ms) == SumFunctionOnSet([m \in ms |-> m.size], ms)

\* It is what CppScattering calls the total.
LEMMA MovedIs == \A ms : Scattering!Total(ms) = Moved(ms)
BY ScatteringSums DEF Scattering!Total, Moved

\* No transfers move nothing.
LEMMA MovedNone == Moved({}) = 0
BY SumEmpty DEF Moved

\* It is a number, and a part of them moves what the others do not.
LEMMA MovedWithout ==
    ASSUME NEW ms, AreMoves(ms)
    PROVE  /\ Moved(ms) \in Nat
           /\ \A m \in ms : Moved(ms) = m.size + Moved(ms \ {m}) /\ Moved(ms \ {m}) \in Nat
<1> DEFINE f == [m \in ms |-> m.size]
<1>1. \A m \in ms : f[m] \in Nat /\ f[m] \in Int /\ f[m] = m.size
  BY DEF AreMoves, IsMove
<1>2. IsFiniteSet(ms) /\ Moved(ms) = SumFunctionOnSet(f, ms)
  BY DEF AreMoves, Moved
<1>3. ASSUME NEW m \in ms PROVE Moved(ms \ {m}) = SumFunctionOnSet(f, ms \ {m}) /\ Moved(ms \ {m}) \in Nat
  <2> DEFINE rest == ms \ {m}
             g == [n \in rest |-> n.size]
  <2>1. IsFiniteSet(rest) /\ \A n \in rest : f[n] \in Int /\ g[n] = f[n] /\ g[n] \in Nat
    BY <1>1, <1>2, FS_Subset
  <2> HIDE DEF f, g, rest
  <2>2. SumFunctionOnSet(g, rest) = SumFunctionOnSet(f, rest)
    BY <2>1, SumSame
  <2>3. SumFunctionOnSet(g, rest) \in Nat
    BY <2>1, SumNatural
  <2>4. Moved(rest) = SumFunctionOnSet(g, rest)
    BY DEF Moved, g
  <2> QED
    BY <2>2, <2>3, <2>4 DEF rest
<1> HIDE DEF f
<1>4. Moved(ms) \in Nat
  BY <1>1, <1>2, SumNatural
<1>5. \A m \in ms : SumFunctionOnSet(f, ms) = f[m] + SumFunctionOnSet(f, ms \ {m})
  BY <1>1, <1>2, SumRemoves
<1> QED
  BY <1>1, <1>2, <1>3, <1>4, <1>5

\* Another transfer adds what it moves.
LEMMA MovedPlus ==
    ASSUME NEW ms, NEW m, AreMoves(ms), IsMove(m), m \notin ms
    PROVE  AreMoves(ms \cup {m}) /\ Moved(ms \cup {m}) = m.size + Moved(ms)
<1>1. AreMoves(ms \cup {m})
  BY FS_AddElement DEF AreMoves
<1>2. (ms \cup {m}) \ {m} = ms
  OBVIOUS
<1> QED
  BY <1>1, <1>2, MovedWithout

(***************************************************************************)
(* One round of the loop: where an item goes.                              *)
(***************************************************************************)
AreStacksIn(contents) ==
    DOMAIN contents = Scattering!Slots /\ \A slot \in Scattering!Slots : IsStack(contents[slot])

\* The sizes of stacks, as in StackSizes.
LEMMA StackIs ==
    ASSUME ItemsAssumption, NEW s, IsStack(s)
    PROVE  /\ s.size \in Nat /\ s.item \in Items \cup {NoItem} /\ (s.item = NoItem <=> s = Empty)
           /\ (s.size = 0 <=> s = Empty)
           /\ s # Empty => s.size <= MaxSize[s.item] /\ s.item \in Items
BY DEF IsStack, Empty, ItemsAssumption

\* A stack that is not too large.
LEMMA StackOf ==
    ASSUME ItemsAssumption, NEW i \in Items, NEW n \in Nat, n <= MaxSize[i]
    PROVE  /\ IsStack(Stack(i, n)) /\ Stack(i, n).size = n /\ Stack(i, n).item \in {NoItem, i}
           /\ n # 0 => Stack(i, n).item = i
           /\ n = 0 => Stack(i, n) = Empty
BY DEF IsStack, Stack, Empty, ItemsAssumption

\* The slot is empty, or none is and no other slot has less of the item.
IsTarget(items, i, slot) ==
    /\ slot \in Ins
    /\ \/ items[slot] = Empty
       \/ /\ items[slot].item = i
          /\ \A s \in Ins : items[s] # Empty /\ (items[s].item = i => items[slot].size <= items[s].size)

\* The slot that Target finds is such a slot, and the only one.
LEMMA TargetFacts ==
    ASSUME ScatteringAssumption, NEW items, AreStacksIn(items), NEW i \in Items,
           NEW slot \in Scattering!Target(items, i)
    PROVE  IsTarget(items, i, slot) /\ Scattering!Target(items, i) = {slot}
<1> DEFINE free == Scattering!FreeSlots(items)
           with == Scattering!SlotsWith(items, i)
           small == Scattering!Smallest(items, i)
           D == DOMAIN InOrder
<1>1. /\ D = 1 .. Len(InOrder) /\ Len(InOrder) \in Nat
      /\ \A n \in D : InOrder[n] \in Ins
      /\ \A s \in Ins : \E n \in D : InOrder[n] = s
  BY ScatteringAssumes
<1>2. /\ free = {n \in D : items[InOrder[n]] = Empty} /\ with = {n \in D : items[InOrder[n]].item = i}
      /\ small = {n \in with : \A m \in with : items[InOrder[n]].size <= items[InOrder[m]].size}
  BY ScatteringStacks DEF Scattering!FreeSlots, Scattering!SlotsWith, Scattering!Smallest
<1>3. Scattering!Target(items, i) = IF free # {} THEN {InOrder[Max(free)]}
                                   ELSE IF with # {} THEN {InOrder[Min(small)]} ELSE {}
  BY ScatteringSums DEF Scattering!Target
<1>4. \A n \in D : items[InOrder[n]].size \in Nat
  BY <1>1, StackIs, ScatteringAssumes DEF AreStacksIn
<1> HIDE DEF free, with, small
<1>5. CASE free # {}
  <2>1. free \in SUBSET Int /\ IsFiniteSet(free)
    <3>1. IsFiniteSet(D)
      BY <1>1, FS_Interval
    <3> QED
      BY <1>1, <1>2, <3>1, FS_Subset
  <2>2. Max(free) \in free
    BY <1>5, <2>1, GreatestOfFinite
  <2> QED
    BY <1>1, <1>2, <1>3, <1>5, <2>2 DEF IsTarget
<1>6. CASE free = {}
  <2>1. with # {} /\ slot = InOrder[Min(small)]
    BY <1>3, <1>6
  <2>2. small # {}
    <3> DEFINE sizes == {items[InOrder[n]].size : n \in with}
    <3>1. sizes \subseteq Nat /\ sizes # {}
      BY <1>2, <1>4, <2>1
    <3>2. PICK k \in sizes : \A y \in sizes : k <= y
      BY <3>1, LeastNatural
    <3>3. PICK n \in with : items[InOrder[n]].size = k
      BY <3>2
    <3> QED
      BY <1>2, <3>2, <3>3
  <2>3. Min(small) \in small
    <3>1. small \subseteq Nat
      BY <1>1, <1>2
    <3>2. PICK k \in small : \A y \in small : k <= y
      BY <2>2, <3>1, LeastNatural
    <3> QED
      BY <3>2 DEF Min
  <2>4. ASSUME NEW s \in Ins
        PROVE  items[s] # Empty /\ (items[s].item = i => items[slot].size <= items[s].size)
    <3>1. PICK n \in D : InOrder[n] = s
      BY <1>1
    <3>2. n \notin free /\ (items[s].item = i => n \in with)
      BY <1>2, <1>6, <3>1
    <3> QED
      BY <1>2, <2>1, <2>3, <3>1, <3>2
  <2> QED
    BY <1>1, <1>2, <1>3, <1>6, <2>1, <2>3, <2>4 DEF IsTarget
<1> QED
  BY <1>5, <1>6

\* What the loop works with, and a round of it.
IsRound(x) == x = [items |-> x.items, added |-> x.added, ended |-> x.ended, full |-> x.full]
Adds1(x, y, i, slot) ==
    /\ IsTarget(x.items, i, slot) /\ x.items[slot].size < MaxSize[i]
    /\ y.items = [x.items EXCEPT ![slot] = Stack(i, x.items[slot].size + 1)]
    /\ y.added = [x.added EXCEPT ![slot] = x.added[slot] + 1]

\* A round adds an item to its target or changes no slot.
LEMMA AddOneFacts ==
    ASSUME ScatteringAssumption, NEW x, IsRound(x), AreStacksIn(x.items), NEW i \in Items,
           NEW y, y = Scattering!AddOne(x, i)
    PROVE  /\ IsRound(y)
           /\ \/ y.items = x.items /\ y.added = x.added
              \/ \E slot \in Ins : Adds1(x, y, i, slot)
<1> DEFINE slot == CHOOSE s \in Scattering!Target(x.items, i) : TRUE
           room == \E s \in Scattering!Target(x.items, i) : x.items[s].size < MaxSize[i]
           new == Stack(i, x.items[slot].size + 1)
<1>1. \/ y = x \/ y = [x EXCEPT !.ended = TRUE, !.full = TRUE] \/ y = [x EXCEPT !.ended = TRUE]
      \/ /\ room
         /\ y = [x EXCEPT !.items[slot] = new, !.added[slot] = @ + 1]
  BY ScatteringStacks DEF Scattering!AddOne, Scattering!HasRoom
<1>2. CASE y = x \/ y = [x EXCEPT !.ended = TRUE, !.full = TRUE] \/ y = [x EXCEPT !.ended = TRUE]
  BY <1>2 DEF IsRound
<1>3. CASE room /\ y = [x EXCEPT !.items[slot] = new, !.added[slot] = @ + 1]
  <2>1. PICK s \in Scattering!Target(x.items, i) : x.items[s].size < MaxSize[i]
    BY <1>3
  <2>2. IsTarget(x.items, i, s) /\ Scattering!Target(x.items, i) = {s}
    BY <2>1, TargetFacts
  <2>3. slot = s
    BY <2>2
  <2> HIDE DEF slot, new, room
  <2>4. /\ y.items = [x.items EXCEPT ![slot] = new] /\ y.added = [x.added EXCEPT ![slot] = x.added[slot] + 1]
        /\ IsRound(y)
    BY <1>3 DEF IsRound
  <2> QED
    BY <2>1, <2>2, <2>3, <2>4 DEF Adds1, IsTarget, new
<1> QED
  BY <1>1, <1>2, <1>3

\* No slot that could have had items of slot t stays two behind it.
IsEven(items, t) ==
    \A s \in Ins : items[s].item \in {NoItem, items[t].item} => items[s].size >= items[t].size - 1

\* What is there after n rounds: items of i were added to the picture p, at most n,
\* in slots that were empty or had items of i.
Spread(p, i, n, x) ==
    /\ AreStacksIn(x.items) /\ x.added \in [Ins -> Nat]
    /\ \A s \in Ins : /\ x.items[s].size = p.items[s].size + x.added[s]
                      /\ x.added[s] > 0 => x.items[s].item = i /\ p.items[s].item \in {NoItem, i}
                      /\ x.added[s] = 0 => x.items[s] = p.items[s]
    /\ SumFunctionOnSet(x.added, Ins) \in 0 .. n
    /\ \A t \in Ins : x.added[t] > 0 \/ (\E m \in p.moves : m.slot = t) => IsEven(x.items, t)

\* A round adds one item or none.
LEMMA RoundSpreads ==
    ASSUME ScatteringAssumption, NEW p, AreStacksIn(p.items), NEW i \in Items, NEW n \in Nat,
           NEW x, Spread(p, i, n, x), NEW y,
           \/ y.items = x.items /\ y.added = x.added
           \/ \E slot \in Ins : Adds1(x, y, i, slot)
    PROVE  Spread(p, i, n + 1, y)
<1>0. ItemsAssumption /\ IsFiniteSet(Ins) /\ Scattering!Slots = Ins \cup {OutSlot}
  BY ScatteringAssumes
<1>1. CASE y.items = x.items /\ y.added = x.added
  BY <1>1 DEF Spread
<1>2. CASE \E slot \in Ins : Adds1(x, y, i, slot)
  <2>1. PICK slot \in Ins : Adds1(x, y, i, slot)
    BY <1>2
  <2> DEFINE size == x.items[slot].size
             new == Stack(i, size + 1)
  <2>2. /\ AreStacksIn(x.items) /\ x.added \in [Ins -> Nat]
        /\ SumFunctionOnSet(x.added, Ins) \in 0 .. n
    BY DEF Spread
  <2>3. /\ y.items = [x.items EXCEPT ![slot] = new] /\ y.added = [x.added EXCEPT ![slot] = x.added[slot] + 1]
        /\ size < MaxSize[i] /\ IsTarget(x.items, i, slot)
    BY <2>1 DEF Adds1
  <2>4. \A s \in Scattering!Slots : /\ IsStack(x.items[s]) /\ x.items[s].size \in Nat
                                    /\ (x.items[s].item = NoItem <=> x.items[s] = Empty)
                                    /\ (x.items[s].size = 0 <=> x.items[s] = Empty)
                                    /\ IsStack(p.items[s]) /\ p.items[s].size \in Nat
                                    /\ (p.items[s].item = NoItem <=> p.items[s] = Empty)
                                    /\ (p.items[s].size = 0 <=> p.items[s] = Empty)
    BY <1>0, <2>2, StackIs DEF AreStacksIn
  <2>5. size \in Nat /\ slot \in Scattering!Slots /\ MaxSize[i] \in Nat /\ i # NoItem
    BY <1>0, <2>4 DEF ItemsAssumption
  <2>6. IsStack(new) /\ new.size = size + 1 /\ new.item = i
    BY <1>0, <2>3, <2>5, StackOf
  <2> HIDE DEF new
  <2>7. y.items[slot] = new /\ \A s \in Scattering!Slots \ {slot} : y.items[s] = x.items[s]
    BY <2>2, <2>3, <2>5 DEF AreStacksIn
  <2>8. y.added[slot] = x.added[slot] + 1 /\ \A s \in Ins \ {slot} : y.added[s] = x.added[s]
    BY <2>2, <2>3
  <2>9. AreStacksIn(y.items) /\ y.added \in [Ins -> Nat]
    BY <2>2, <2>3, <2>4, <2>6, <2>7 DEF AreStacksIn
  <2>10. SumFunctionOnSet(y.added, Ins) \in 0 .. n + 1
    <3> DEFINE f == x.added
               g == y.added
    <3>1. \A s \in Ins : f[s] \in Nat /\ f[s] \in Int
      BY <2>2
    <3>2. g[slot] \in Int /\ \A s \in Ins \ {slot} : g[s] = f[s]
      BY <2>8, <3>1
    <3>3. g[slot] - f[slot] = 1
      BY <2>8, <3>1
    <3> HIDE DEF f, g
    <3>4. SumFunctionOnSet(g, Ins) = SumFunctionOnSet(f, Ins) + (g[slot] - f[slot])
      BY <1>0, <3>1, <3>2, SumChanges
    <3>5. SumFunctionOnSet(f, Ins) \in 0 .. n
      BY <2>2 DEF f
    <3> QED
      BY <3>3, <3>4, <3>5 DEF g
  <2>11. ASSUME NEW s \in Ins
         PROVE  /\ y.items[s].size = p.items[s].size + y.added[s]
                /\ y.added[s] > 0 => y.items[s].item = i /\ p.items[s].item \in {NoItem, i}
                /\ y.added[s] = 0 => y.items[s] = p.items[s]
    <3>1. /\ x.items[s].size = p.items[s].size + x.added[s]
          /\ x.added[s] > 0 => x.items[s].item = i /\ p.items[s].item \in {NoItem, i}
          /\ x.added[s] = 0 => x.items[s] = p.items[s]
          /\ x.added[s] \in Nat /\ s \in Scattering!Slots /\ p.items[s].size \in Nat
      BY <1>0, <2>2, <2>4 DEF Spread
    <3>2. CASE s # slot
      BY <2>7, <2>8, <3>1, <3>2
    <3>3. CASE s = slot
      <4>1. p.items[s].item \in {NoItem, i}
        BY <2>3, <2>4, <3>1, <3>3 DEF IsTarget, Empty
      <4> QED
        BY <2>6, <2>7, <2>8, <3>1, <3>3, <4>1
    <3> QED
      BY <3>2, <3>3
  <2>12. ASSUME NEW t \in Ins, y.added[t] > 0 \/ (\E m \in p.moves : m.slot = t),
                NEW s \in Ins, y.items[s].item \in {NoItem, y.items[t].item}
         PROVE  y.items[s].size >= y.items[t].size - 1
    <3>0. /\ x.items[s].size \in Nat /\ x.items[t].size \in Nat
          /\ s \in Scattering!Slots /\ t \in Scattering!Slots
      BY <1>0, <2>4
    <3>1. CASE t = slot
      <4>1. CASE s = slot
        BY <2>6, <2>7, <3>1, <4>1, <2>5
      <4>2. CASE s # slot
        <5>1. y.items[s] = x.items[s] /\ x.items[s].item \in {NoItem, i} /\ y.items[t].size = size + 1
          BY <2>6, <2>7, <2>12, <3>0, <3>1, <4>2
        <5>2. CASE x.items[slot] = Empty
          BY <2>4, <2>5, <3>0, <5>1, <5>2
        <5>3. CASE \A q \in Ins : x.items[q] # Empty /\ (x.items[q].item = i => size <= x.items[q].size)
          BY <2>4, <2>5, <3>0, <5>1, <5>3
        <5> QED
          BY <2>3, <5>2, <5>3 DEF IsTarget
      <4> QED
        BY <4>1, <4>2
    <3>2. CASE t # slot
      <4>1. IsEven(x.items, t) /\ y.items[t] = x.items[t]
        BY <2>7, <2>8, <2>12, <3>0, <3>2 DEF Spread
      <4>2. CASE s # slot
        BY <2>7, <2>12, <3>0, <4>1, <4>2 DEF IsEven
      <4>3. CASE s = slot
        <5>1. x.items[s].item \in {NoItem, x.items[t].item}
          BY <2>3, <2>4, <2>5, <2>6, <2>7, <2>12, <4>1, <4>3 DEF IsTarget
        <5>2. x.items[s].size >= x.items[t].size - 1
          BY <4>1, <5>1 DEF IsEven
        <5>3. y.items[s].size = x.items[s].size + 1
          BY <2>6, <2>7, <4>3
        <5> QED
          BY <3>0, <4>1, <5>2, <5>3
      <4> QED
        BY <4>2, <4>3
    <3> QED
      BY <3>1, <3>2
  <2> QED
    BY <2>9, <2>10, <2>11, <2>12 DEF Spread, IsEven
<1> QED
  BY <1>1, <1>2

\* The loop runs its rounds one after the other.
LEMMA RoundsSteps ==
    ASSUME NEW items, NEW i, NEW n \in Nat
    PROVE  \E g : /\ Scattering!Rounds(items, i, n) = g[n]
                  /\ g[0] = [items |-> items, added |-> [slot \in Ins |-> 0], ended |-> FALSE, full |-> FALSE]
                  /\ \A k \in 1 .. n : g[k] = Scattering!AddOne(g[k - 1], i)
<1> DEFINE start == [items |-> items, added |-> [slot \in Ins |-> 0], ended |-> FALSE, full |-> FALSE]
           rest(g, N) == [k \in 0 .. N |-> IF k = 0 THEN start ELSE Scattering!AddOne(g[k - 1], i)]
           K == {N \in Nat : \E g : g = rest(g, N)}
<1> HIDE DEF start
<1>1. 0 \in K
  <2> DEFINE g == [k \in 0 .. 0 |-> start]
  <2>1. g = rest(g, 0)
    OBVIOUS
  <2> HIDE DEF rest, g
  <2> QED
    BY <2>1
<1>2. ASSUME NEW N \in Nat, N \in K PROVE N + 1 \in K
  <2>1. PICK g : g = rest(g, N)
    BY <1>2
  <2> DEFINE h == [k \in 0 .. N + 1 |-> IF k = N + 1 THEN Scattering!AddOne(g[N], i) ELSE g[k]]
  <2>2. \A k \in 0 .. N : h[k] = g[k]
    OBVIOUS
  <2>3. ASSUME NEW k \in 0 .. N + 1
        PROVE  h[k] = IF k = 0 THEN start ELSE Scattering!AddOne(h[k - 1], i)
    <3>1. CASE k = N + 1
      <4>1. h[k - 1] = g[N]
        BY <2>2, <3>1
      <4>2. h[k] = Scattering!AddOne(g[N], i)
        BY <3>1
      <4> HIDE DEF h
      <4> QED
        BY <3>1, <4>1, <4>2
    <3>2. CASE k \in 0 .. N
      <4>1. h[k] = IF k = 0 THEN start ELSE Scattering!AddOne(g[k - 1], i)
        BY <2>1, <2>2, <3>2
      <4>2. k # 0 => h[k - 1] = g[k - 1]
        BY <2>2, <3>2
      <4> HIDE DEF h
      <4> QED
        BY <4>1, <4>2
    <3> QED
      BY <3>1, <3>2
  <2>4. h = [k \in 0 .. N + 1 |-> h[k]]
    OBVIOUS
  <2>5. h = rest(h, N + 1)
    <3> HIDE DEF h
    <3> QED
      BY <2>3, <2>4
  <2> HIDE DEF rest, h
  <2> QED
    BY <2>5
<1>3. \E g : g = rest(g, n)
  <2> HIDE DEF K
  <2>1. n \in K
    BY <1>1, <1>2, NumberInduction
  <2> QED
    BY <2>1 DEF K
<1> DEFINE after == CHOOSE g : g = rest(g, n)
<1>4. Scattering!Rounds(items, i, n) = after[n]
  BY ScatteringSums, Zenon DEF Scattering!Rounds, start, Ins
<1>5. after = rest(after, n)
  <2> HIDE DEF rest
  <2> QED
    BY <1>3
<1> HIDE DEF after
<1>6. after[0] = start /\ \A k \in 1 .. n : after[k] = Scattering!AddOne(after[k - 1], i)
  BY <1>5
<1> QED
  BY <1>4, <1>6 DEF start

\* After the loop the items are spread.
LEMMA RoundsSpread ==
    ASSUME ScatteringAssumption, NEW p, AreStacksIn(p.items), \A m \in p.moves : IsEven(p.items, m.slot),
           NEW i \in Items, NEW n \in Nat, NEW x, x = Scattering!Rounds(p.items, i, n)
    PROVE  Spread(p, i, n, x)
<1>0. IsFiniteSet(Ins) /\ Scattering!Slots = Ins \cup {OutSlot} /\ ItemsAssumption
  BY ScatteringAssumes
<1>1. PICK g : /\ Scattering!Rounds(p.items, i, n) = g[n]
               /\ g[0] = [items |-> p.items, added |-> [slot \in Ins |-> 0], ended |-> FALSE, full |-> FALSE]
               /\ \A k \in 1 .. n : g[k] = Scattering!AddOne(g[k - 1], i)
  BY RoundsSteps
<1> DEFINE K == {k \in Nat : k <= n => IsRound(g[k]) /\ Spread(p, i, k, g[k])}
<1>2. 0 \in K
  <2> DEFINE z == [slot \in Ins |-> 0]
  <2>1. IsRound(g[0]) /\ g[0].items = p.items /\ g[0].added = z
    BY <1>1 DEF IsRound
  <2>2. SumFunctionOnSet(z, Ins) = 0
    <3>1. \A s \in Ins : z[s] = 0
      OBVIOUS
    <3> HIDE DEF z
    <3> QED
      BY <1>0, <3>1, SumOfZeros
  <2>3. \A s \in Ins : p.items[s].size \in Nat
    BY <1>0, StackIs DEF AreStacksIn
  <2> QED
    BY <2>1, <2>2, <2>3 DEF Spread
<1>3. ASSUME NEW k \in Nat, k \in K, k + 1 <= n PROVE IsRound(g[k + 1]) /\ Spread(p, i, k + 1, g[k + 1])
  <2>1. IsRound(g[k]) /\ Spread(p, i, k, g[k]) /\ g[k + 1] = Scattering!AddOne(g[k], i)
    BY <1>1, <1>3
  <2>2. AreStacksIn(g[k].items)
    BY <2>1 DEF Spread
  <2>3. /\ IsRound(g[k + 1])
        /\ \/ g[k + 1].items = g[k].items /\ g[k + 1].added = g[k].added
           \/ \E slot \in Ins : Adds1(g[k], g[k + 1], i, slot)
    BY <2>1, <2>2, AddOneFacts
  <2> QED
    BY <2>1, <2>3, RoundSpreads
<1> HIDE DEF K
<1>4. Nat \subseteq K
  <2>1. ASSUME NEW k \in Nat, k \in K PROVE k + 1 \in K
    BY <1>3, <2>1 DEF K
  <2> QED
    BY <1>2, <2>1, NumberInduction
<1> QED
  BY <1>1, <1>4 DEF K

\* A single one moves its size.
LEMMA MovedOne == ASSUME NEW m, IsMove(m) PROVE AreMoves({m}) /\ Moved({m}) = m.size
<1>1. AreMoves({}) /\ m \notin {}
  BY FS_EmptySet DEF AreMoves
<1>2. AreMoves({} \cup {m}) /\ Moved({} \cup {m}) = m.size + Moved({})
  BY <1>1, MovedPlus
<1>3. {} \cup {m} = {m} /\ m.size \in Nat
  BY DEF IsMove
<1> QED
  BY <1>2, <1>3, MovedNone

(***************************************************************************)
(* What a demand adds to the transfers.                                    *)
(***************************************************************************)
\* What two groups move, together.
LEMMA MovedTogether ==
    ASSUME NEW a, NEW b, AreMoves(a), AreMoves(b), a \cap b = {}
    PROVE  AreMoves(a \cup b) /\ Moved(a \cup b) = Moved(a) + Moved(b)
<1> DEFINE C == {T \in SUBSET b : /\ AreMoves(T) /\ AreMoves(a \cup T)
                                  /\ Moved(a \cup T) = Moved(a) + Moved(T)}
<1>1. {} \in C
  <2>1. a \cup {} = a /\ AreMoves({}) /\ Moved(a) \in Nat
    BY FS_EmptySet, MovedWithout DEF AreMoves
  <2> QED
    BY <2>1, MovedNone
<1>2. ASSUME NEW T \in SUBSET b, NEW m \in b \ T, T \in C PROVE T \cup {m} \in C
  <2>1. AreMoves(T) /\ AreMoves(a \cup T) /\ Moved(a \cup T) = Moved(a) + Moved(T)
    BY <1>2
  <2>2. IsMove(m) /\ m \notin T /\ m \notin a \cup T /\ m.size \in Nat
    BY <1>2 DEF AreMoves, IsMove
  <2>3. AreMoves(T \cup {m}) /\ Moved(T \cup {m}) = m.size + Moved(T)
    BY <2>1, <2>2, MovedPlus
  <2>4. AreMoves((a \cup T) \cup {m}) /\ Moved((a \cup T) \cup {m}) = m.size + Moved(a \cup T)
    BY <2>1, <2>2, MovedPlus
  <2>5. (a \cup T) \cup {m} = a \cup (T \cup {m})
    OBVIOUS
  <2>6. Moved(a) \in Nat /\ Moved(T) \in Nat
    BY <2>1, MovedWithout
  <2> DEFINE A == Moved(a \cup (T \cup {m}))
             B == Moved(T \cup {m})
  <2>7. A = m.size + Moved(a \cup T) /\ B = m.size + Moved(T)
    BY <2>3, <2>4, <2>5
  <2> HIDE DEF A, B
  <2>8. A = Moved(a) + B
    BY <2>1, <2>2, <2>6, <2>7
  <2>9. AreMoves(a \cup (T \cup {m})) /\ T \cup {m} \in SUBSET b
    BY <1>2, <2>4, <2>5
  <2> QED
    BY <2>3, <2>8, <2>9 DEF A, B
<1>3. b \in C
  <2> HIDE DEF C
  <2> QED
    BY <1>1, <1>2, SetInduction DEF AreMoves
<1> QED
  BY <1>3

\* The transfers of a demand, one for each slot that gets something.
NewMoves(r, i, added) ==
    {[recipe |-> r, item |-> i, slot |-> s, size |-> added[s]] : s \in {t \in Ins : added[t] > 0}}

\* They move what was added, each into another slot.
LEMMA NewMovesFacts ==
    ASSUME ScatteringAssumption, NEW r \in DOMAIN Recipes, NEW i \in Items, NEW added \in [Ins -> Nat],
           NEW ms, ms = NewMoves(r, i, added)
    PROVE  /\ AreMoves(ms) /\ Moved(ms) = SumFunctionOnSet(added, Ins)
           /\ \A m \in ms : m.recipe = r /\ m.item = i /\ added[m.slot] > 0
           /\ \A s \in Ins : Moved({m \in ms : m.slot = s}) = added[s] /\ AreMoves({m \in ms : m.slot = s})
<1> DEFINE mv(s) == [recipe |-> r, item |-> i, slot |-> s, size |-> added[s]]
           S == {t \in Ins : added[t] > 0}
           of(T) == {mv(s) : s \in T}
           C == {T \in SUBSET S : AreMoves(of(T)) /\ Moved(of(T)) = SumFunctionOnSet(added, T)}
<1>1. IsFiniteSet(Ins) /\ IsFiniteSet(S) /\ \A s \in Ins : added[s] \in Nat /\ added[s] \in Int
  <2>1. IsFiniteSet(Ins)
    BY ScatteringAssumes
  <2>2. IsFiniteSet(S)
    BY <2>1, FS_Subset
  <2> QED
    BY <2>1, <2>2
<1>2. /\ ms = of(S)
      /\ \A s \in S : mv(s).recipe = r /\ mv(s).item = i /\ mv(s).slot = s /\ mv(s).size = added[s] /\ IsMove(mv(s))
  BY <1>1 DEF NewMoves, IsMove
<1>3. {} \in C
  <2>1. of({}) = {} /\ AreMoves({}) /\ SumFunctionOnSet(added, {}) = 0
    BY FS_EmptySet, SumEmpty DEF AreMoves
  <2> QED
    BY <2>1, MovedNone
<1>4. ASSUME NEW T \in SUBSET S, NEW s \in S \ T, T \in C PROVE T \cup {s} \in C
  <2>1. of(T \cup {s}) = of(T) \cup {mv(s)}
    OBVIOUS
  <2>2. mv(s) \notin of(T)
    BY <1>2
  <2>3. AreMoves(of(T)) /\ Moved(of(T)) = SumFunctionOnSet(added, T) /\ IsMove(mv(s)) /\ mv(s).size = added[s]
    BY <1>2, <1>4
  <2>4. SumFunctionOnSet(added, T \cup {s}) = added[s] + SumFunctionOnSet(added, T)
    BY <1>1, SumInserts
  <2> HIDE DEF mv, of
  <2>5. AreMoves(of(T) \cup {mv(s)}) /\ Moved(of(T) \cup {mv(s)}) = mv(s).size + Moved(of(T))
    BY <2>2, <2>3, MovedPlus
  <2>6. T \cup {s} \in SUBSET S
    BY <1>4
  <2> QED
    BY <2>1, <2>3, <2>4, <2>5, <2>6
<1>5. AreMoves(ms) /\ Moved(ms) = SumFunctionOnSet(added, S)
  <2>1. S \in C
    <3> HIDE DEF C, S
    <3> QED
      BY <1>1, <1>3, <1>4, SetInduction
  <2> QED
    BY <1>2, <2>1
<1>6. SumFunctionOnSet(added, S) = SumFunctionOnSet(added, Ins)
  <2>1. S \in SUBSET Ins /\ \A s \in Ins \ S : added[s] = 0
    BY <1>1
  <2> HIDE DEF S
  <2> QED
    BY <1>1, <2>1, SumWithin
<1>7. \A m \in ms : m.recipe = r /\ m.item = i /\ added[m.slot] > 0
  BY <1>2
<1>8. ASSUME NEW s \in Ins
      PROVE  Moved({m \in ms : m.slot = s}) = added[s] /\ AreMoves({m \in ms : m.slot = s})
  <2>1. CASE s \in S
    <3>1. {m \in ms : m.slot = s} = {mv(s)}
      BY <1>2, <2>1
    <3>2. IsMove(mv(s)) /\ mv(s).size = added[s]
      BY <1>2, <2>1
    <3> HIDE DEF mv
    <3> QED
      BY <3>1, <3>2, MovedOne
  <2>2. CASE s \notin S
    <3>1. {m \in ms : m.slot = s} = {} /\ added[s] = 0
      BY <1>1, <1>2, <2>2
    <3> QED
      BY <3>1, MovedNone, FS_EmptySet DEF AreMoves
  <2> QED
    BY <2>1, <2>2
<1> QED
  BY <1>5, <1>6, <1>7, <1>8

\* A quotient is at most what is divided.
LEMMA QuotientWithin == \A a \in Nat, b \in Nat \ {0}, n \in Nat : n <= a \div b => n <= a
<1> SUFFICES ASSUME NEW a \in Nat, NEW b \in Nat \ {0}, NEW n \in Nat, n <= a \div b PROVE n <= a
  OBVIOUS
<1>1. n * b <= a
  BY QuotientBounds
<1>2. n <= n * b
  OBVIOUS
<1>3. n * b \in Nat
  OBVIOUS
<1> QED
  BY <1>1, <1>2, <1>3

(***************************************************************************)
(* One demand.                                                             *)
(***************************************************************************)
\* What the single ingredient of a recipe resolves to, and how much there is of it.
LEMMA OneInput ==
    ASSUME ScatteringAssumption, NEW x, IsInfo(x), DOMAIN x = Items, NEW r \in DOMAIN Recipes,
           NEW rs, Resolves(x, Recipes[r], rs), rs.inAvail # 0, NEW i, i = rs.in[1]
    PROVE  /\ i \in Items /\ rs.inAvail \in Nat /\ rs.inAvail <= MaxSize[i] /\ rs.inAvail <= x[i].avail
           /\ rs.inAvail <= x[i].avail - x[i].backup \/ MayTakeBackup(i)
<1> DEFINE rec == Recipes[r]
           n == rs.inAvail
           left == LeftFor(x, rec, rs.in, i)
           need == Needed(rec, rs.in, i)
<1>1. DOMAIN rec.in = {1} /\ IsRecipe(rec) /\ ItemsAssumption
  BY ScatteringAssumes DEF AreRecipes
<1>2. /\ i # NoItem /\ n <= Clip(rec, rs.in, 1) /\ n <= Quota(x, rec, rs.in, 1)
      /\ i \in Items /\ left \in Nat /\ need \in Nat \ {0} /\ n \in Nat
      /\ i = GetItem(x, rec.in[1].item) /\ DOMAIN rs.in = {1}
  BY <1>1 DEF Resolves
<1>3. rec.in[1].size \in Nat \ {0} /\ MaxSize[i] \in Nat /\ rec.in[1].extraBackup \in Nat
  BY <1>1, <1>2 DEF IsRecipe, ItemsAssumption
<1>4. /\ x[i].avail \in Nat /\ x[i].backup \in Nat /\ x[i].avail > 0
      /\ Accepts(rec.in[1].item, i)
  <2>1. x[i] \in [avail : Nat, backup : Nat]
    BY <1>2 DEF IsInfo
  <2>2. x[i].avail > 0 /\ Accepts(rec.in[1].item, i)
    BY <1>2, GetItemFacts
  <2> QED
    BY <2>1, <2>2
<1>5. n <= MaxSize[i]
  <2> DEFINE c == rec.in[1].size
  <2>1. n <= MaxSize[i] \div c
    BY <1>2 DEF Clip
  <2> HIDE DEF c, n
  <2> QED
    BY <1>2, <1>3, <2>1, QuotientWithin DEF c
<1>6. n <= left
  <2>1. n <= left \div need
    BY <1>2 DEF Quota
  <2> HIDE DEF left, need, n
  <2> QED
    BY <1>2, <2>1, QuotientWithin
<1>7. left = Most(0, GetAvail(x, i, rec.in[1].allowBackup) - rec.in[1].extraBackup)
  <2>1. Deciding(rec, rs.in, i) = 1
    <3> DEFINE uses == {k \in DOMAIN rs.in : rs.in[k] = i}
               strict == {k \in uses : ~rec.in[k].allowBackup}
    <3>1. uses = {1}
      BY <1>2
    <3>2. strict \in {{}, {1}}
      BY <3>1
    <3> HIDE DEF uses, strict
    <3>3. Min(IF strict # {} THEN strict ELSE uses) = 1
      BY <3>1, <3>2 DEF Min
    <3> QED
      BY <3>3 DEF Deciding, uses, strict
  <2> QED
    BY <2>1 DEF LeftFor
<1> HIDE DEF left, n
<1>8. n <= x[i].avail
  BY <1>2, <1>3, <1>4, <1>6, <1>7 DEF GetAvail, Most
<1>9. n <= x[i].avail - x[i].backup \/ rec.in[1].allowBackup
  BY <1>2, <1>3, <1>4, <1>6, <1>7 DEF GetAvail, Most, n
<1>10. rec.in[1].allowBackup => MayTakeBackup(i)
  BY <1>1, <1>4 DEF MayTakeBackup
<1> QED
  BY <1>2, <1>5, <1>8, <1>9, <1>10 DEF n

\* The picture: the contents with the transfers on top, the items of the transfers
\* reserved.  Transfers so far are of the recipes `done'.
PicturedInfo(p) ==
    /\ p.info \in [Items -> [avail : Nat, backup : Nat]]
    /\ \A i \in Items : /\ p.info[i].avail + Moved({m \in p.moves : m.item = i}) = info[i].avail
                        /\ p.info[i].backup = info[i].backup
                        /\ \/ p.info[i].avail = info[i].avail
                           \/ p.info[i].avail >= info[i].backup \/ MayTakeBackup(i)
PicturedSlots(contents, p) ==
    /\ AreStacksIn(p.items)
    /\ \A s \in Ins : /\ p.items[s].size = contents[s].size + Moved({m \in p.moves : m.slot = s})
                      /\ (\A m \in p.moves : m.slot # s) => p.items[s] = contents[s]
    /\ \A m \in p.moves : /\ p.items[m.slot].item = m.item /\ contents[m.slot].item \in {NoItem, m.item}
                          /\ IsEven(p.items, m.slot)
PicturedMoves(p, done) ==
    /\ AreMoves(p.moves)
    /\ \A m \in p.moves : /\ m.recipe \in done
                          /\ Moved({n \in p.moves : n.recipe = m.recipe}) <= MaxSize[m.item]
Pictured(contents, p, done) == PicturedInfo(p) /\ PicturedSlots(contents, p) /\ PicturedMoves(p, done)

\* What the demand of recipe r is planned with: at most n of item i, in the slots as in x.
Resolved(p, i, n, x) ==
    /\ i \in Items /\ n \in Nat /\ n <= MaxSize[i] /\ n <= p.info[i].avail
    /\ n <= p.info[i].avail - p.info[i].backup \/ MayTakeBackup(i)
    /\ Spread(p, i, n, x)
Added(p, r, i, x, q) ==
    /\ q.items = x.items /\ q.moves = p.moves \cup NewMoves(r, i, x.added)
    /\ q.info = IF SumFunctionOnSet(x.added, Ins) > 0
                THEN [p.info EXCEPT ![i].avail = @ - SumFunctionOnSet(x.added, Ins)] ELSE p.info
AddedTotals(p, i, x, q) ==
    /\ \A s \in Ins : Moved({m \in q.moves : m.slot = s}) = Moved({m \in p.moves : m.slot = s}) + x.added[s]
    /\ \A j \in Items : Moved({m \in q.moves : m.item = j})
          = Moved({m \in p.moves : m.item = j}) + IF j = i THEN SumFunctionOnSet(x.added, Ins) ELSE 0

\* The transfers of the demand come to those so far, and nothing else does.
LEMMA AddedMoves ==
    ASSUME ScatteringAssumption, NEW p, NEW done, PicturedMoves(p, done), NEW r \in DOMAIN Recipes, r \notin done,
           NEW i \in Items, NEW n \in Nat, n <= MaxSize[i], NEW x, Spread(p, i, n, x),
           NEW q, Added(p, r, i, x, q)
    PROVE  PicturedMoves(q, done \cup {r}) /\ AddedTotals(p, i, x, q)
<1> DEFINE new == NewMoves(r, i, x.added)
           total == SumFunctionOnSet(x.added, Ins)
<1>1. x.added \in [Ins -> Nat] /\ total \in 0 .. n /\ MaxSize[i] \in Nat
  BY ScatteringAssumes DEF Spread, ItemsAssumption
<1>2. /\ AreMoves(new) /\ Moved(new) = total
      /\ \A m \in new : m.recipe = r /\ m.item = i /\ x.added[m.slot] > 0
      /\ \A s \in Ins : Moved({m \in new : m.slot = s}) = x.added[s] /\ AreMoves({m \in new : m.slot = s})
  BY <1>1, NewMovesFacts
<1>3. /\ AreMoves(p.moves) /\ \A m \in p.moves : m.recipe \in done
      /\ q.moves = p.moves \cup new /\ p.moves \cap new = {}
  BY <1>2 DEF PicturedMoves, Added
<1> HIDE DEF new, total
<1>4. \A a \in SUBSET p.moves : AreMoves(a) /\ Moved(a) \in Nat
  <2> SUFFICES ASSUME NEW a \in SUBSET p.moves PROVE AreMoves(a) /\ Moved(a) \in Nat
    OBVIOUS
  <2>1. AreMoves(a)
    BY <1>3, FS_Subset DEF AreMoves
  <2> QED
    BY <2>1, MovedWithout
<1>5. AreMoves(q.moves)
  BY <1>2, <1>3, MovedTogether
<1>6. ASSUME NEW s \in Ins
      PROVE  Moved({m \in q.moves : m.slot = s}) = Moved({m \in p.moves : m.slot = s}) + x.added[s]
  <2> DEFINE a == {m \in p.moves : m.slot = s}
             b == {m \in new : m.slot = s}
  <2>1. {m \in q.moves : m.slot = s} = a \cup b /\ a \cap b = {} /\ a \in SUBSET p.moves
    BY <1>3
  <2>2. AreMoves(b) /\ Moved(b) = x.added[s]
    BY <1>2
  <2> HIDE DEF a, b
  <2>3. Moved(a \cup b) = Moved(a) + Moved(b)
    BY <1>4, <2>1, <2>2, MovedTogether
  <2> QED
    BY <2>1, <2>2, <2>3 DEF a
<1>7. ASSUME NEW j \in Items
      PROVE  Moved({m \in q.moves : m.item = j}) = Moved({m \in p.moves : m.item = j}) + IF j = i THEN total ELSE 0
  <2> DEFINE a == {m \in p.moves : m.item = j}
  <2>1. a \in SUBSET p.moves /\ Moved(a) \in Nat
    BY <1>4
  <2>2. CASE j = i
    <3>1. {m \in q.moves : m.item = j} = a \cup new /\ a \cap new = {}
      BY <1>2, <1>3, <2>2
    <3> HIDE DEF a
    <3>2. Moved(a \cup new) = Moved(a) + Moved(new)
      BY <1>2, <1>4, <2>1, <3>1, MovedTogether
    <3> QED
      BY <1>2, <2>2, <3>1, <3>2 DEF a
  <2>3. CASE j # i
    <3>1. {m \in q.moves : m.item = j} = a
      BY <1>2, <1>3, <2>3
    <3> QED
      BY <2>1, <2>3, <3>1
  <2> QED
    BY <2>2, <2>3
<1>8. ASSUME NEW m \in q.moves
      PROVE  m.recipe \in done \cup {r} /\ Moved({k \in q.moves : k.recipe = m.recipe}) <= MaxSize[m.item]
  <2>1. CASE m \in p.moves
    <3>1. {k \in q.moves : k.recipe = m.recipe} = {k \in p.moves : k.recipe = m.recipe}
      BY <1>2, <1>3, <2>1
    <3> QED
      BY <1>3, <2>1, <3>1 DEF PicturedMoves
  <2>2. CASE m \in new
    <3>1. {k \in q.moves : k.recipe = m.recipe} = new
      BY <1>2, <1>3, <2>2
    <3>2. m.recipe = r /\ m.item = i
      BY <1>2, <2>2
    <3>3. total <= MaxSize[i]
      BY <1>1
    <3>4. Moved({k \in q.moves : k.recipe = m.recipe}) <= MaxSize[m.item]
      BY <1>2, <3>1, <3>2, <3>3
    <3> QED
      BY <3>2, <3>4
  <2> QED
    BY <1>3, <2>1, <2>2
<1> QED
  BY <1>5, <1>6, <1>7, <1>8 DEF PicturedMoves, AddedTotals, total

\* The slots of the picture hold what the new transfers bring, evenly.
LEMMA AddedSlots ==
    ASSUME ScatteringAssumption, NEW contents, AreStacksIn(contents), NEW p, NEW done, Pictured(contents, p, done),
           NEW r \in DOMAIN Recipes, r \notin done,
           NEW i \in Items, NEW n \in Nat, n <= MaxSize[i], NEW x, Spread(p, i, n, x),
           NEW q, Added(p, r, i, x, q)
    PROVE  PicturedSlots(contents, q)
<1>1. /\ ItemsAssumption /\ Scattering!Slots = Ins \cup {OutSlot} /\ NoItem \notin Items
  BY ScatteringAssumes DEF ItemsAssumption
<1>2. /\ x.added \in [Ins -> Nat] /\ AreStacksIn(x.items) /\ q.items = x.items
      /\ q.moves = p.moves \cup NewMoves(r, i, x.added)
  BY DEF Spread, Added
<1>3. \A m \in NewMoves(r, i, x.added) : m.item = i /\ m.slot \in Ins /\ x.added[m.slot] > 0
  BY DEF NewMoves
<1>4. ASSUME NEW s \in Ins, x.added[s] > 0 PROVE \E m \in NewMoves(r, i, x.added) : m.slot = s
  <2> DEFINE m == [recipe |-> r, item |-> i, slot |-> s, size |-> x.added[s]]
  <2>1. m \in NewMoves(r, i, x.added)
    BY <1>4 DEF NewMoves
  <2>2. m.slot = s
    OBVIOUS
  <2> QED
    BY <2>1, <2>2
<1>10. PicturedMoves(p, done) /\ PicturedSlots(contents, p)
  BY DEF Pictured
<1>11. AreMoves(p.moves)
  BY <1>10 DEF PicturedMoves
<1>5. \A m \in p.moves : m.item \in Items /\ m.slot \in Ins
  BY <1>11 DEF AreMoves, IsMove
<1>6. /\ \A s \in Ins : /\ p.items[s].size = contents[s].size + Moved({m \in p.moves : m.slot = s})
                        /\ (\A m \in p.moves : m.slot # s) => p.items[s] = contents[s]
      /\ \A m \in p.moves : /\ p.items[m.slot].item = m.item /\ contents[m.slot].item \in {NoItem, m.item}
  BY <1>10 DEF PicturedSlots
<1>7. \A s \in Ins : /\ x.items[s].size = p.items[s].size + x.added[s]
                     /\ x.added[s] > 0 => x.items[s].item = i /\ p.items[s].item \in {NoItem, i}
                     /\ x.added[s] = 0 => x.items[s] = p.items[s]
  BY DEF Spread
<1>8. ASSUME NEW s \in Ins
      PROVE  /\ q.items[s].size = contents[s].size + Moved({m \in q.moves : m.slot = s})
             /\ (\A m \in q.moves : m.slot # s) => q.items[s] = contents[s]
  <2> DEFINE a == Moved({m \in p.moves : m.slot = s})
             b == Moved({m \in q.moves : m.slot = s})
  <2>1. b = a + x.added[s]
    <3>1. AddedTotals(p, i, x, q)
      BY <1>10, AddedMoves
    <3> QED
      BY <3>1 DEF AddedTotals
  <2>2. a \in Nat
    <3> DEFINE into == {m \in p.moves : m.slot = s}
    <3>1. AreMoves(into)
      BY <1>11, FS_Subset DEF AreMoves
    <3> HIDE DEF into
    <3>2. Moved(into) \in Nat
      BY <3>1, MovedWithout
    <3> QED
      BY <3>2 DEF into
  <2>3. contents[s].size \in Nat /\ x.added[s] \in Nat
    BY <1>1, <1>2, StackIs DEF AreStacksIn
  <2>4. p.items[s].size = contents[s].size + a /\ q.items[s].size = p.items[s].size + x.added[s]
    BY <1>2, <1>6, <1>7
  <2> HIDE DEF a, b
  <2>5. q.items[s].size = contents[s].size + b
    BY <2>1, <2>2, <2>3, <2>4
  <2>6. ASSUME \A m \in q.moves : m.slot # s PROVE q.items[s] = contents[s]
    <3>1. x.added[s] = 0 /\ \A m \in p.moves : m.slot # s
      BY <1>2, <1>4, <2>3, <2>6
    <3> QED
      BY <1>2, <1>6, <1>7, <3>1
  <2> QED
    BY <2>5, <2>6 DEF b
<1>9. ASSUME NEW m \in q.moves
      PROVE  /\ q.items[m.slot].item = m.item /\ contents[m.slot].item \in {NoItem, m.item}
             /\ IsEven(q.items, m.slot)
  <2>1. m.slot \in Ins
    BY <1>2, <1>3, <1>5
  <2>2. x.added[m.slot] \in Nat
    BY <1>2, <2>1
  <2>3. CASE m \in p.moves
    <3>1. IsEven(x.items, m.slot)
      BY <2>1, <2>3 DEF Spread
    <3>2. x.items[m.slot].item = m.item
      BY <1>1, <1>5, <1>6, <1>7, <2>1, <2>2, <2>3
    <3> QED
      BY <1>2, <1>6, <2>3, <3>1, <3>2
  <2>4. CASE m \in NewMoves(r, i, x.added)
    <3>1. m.item = i /\ x.added[m.slot] > 0
      BY <1>3, <2>4
    <3>2. IsEven(x.items, m.slot) /\ x.items[m.slot].item = i /\ p.items[m.slot].item \in {NoItem, i}
      BY <1>7, <2>1, <3>1 DEF Spread
    <3>3. contents[m.slot].item \in {NoItem, i}
      <4>1. CASE \A k \in p.moves : k.slot # m.slot
        BY <1>6, <2>1, <3>2, <4>1
      <4>2. CASE \E k \in p.moves : k.slot = m.slot
        <5>1. PICK k \in p.moves : k.slot = m.slot
          BY <4>2
        <5>2. p.items[m.slot].item = k.item /\ contents[m.slot].item \in {NoItem, k.item} /\ k.item \in Items
          BY <1>5, <1>6, <5>1
        <5> QED
          BY <1>1, <3>2, <5>2
      <4> QED
        BY <4>1, <4>2
    <3> QED
      BY <1>2, <3>1, <3>2, <3>3
  <2> QED
    BY <1>2, <2>3, <2>4
<1> QED
  BY <1>2, <1>8, <1>9 DEF PicturedSlots

\* The items of the new transfers are reserved, and the backup is left.
LEMMA AddedInfo ==
    ASSUME ScatteringAssumption, info \in [Items -> [avail : Nat, backup : Nat]],
           NEW p, NEW done, PicturedInfo(p), PicturedMoves(p, done),
           NEW r \in DOMAIN Recipes, r \notin done, NEW i, NEW n, NEW x, Resolved(p, i, n, x),
           NEW q, Added(p, r, i, x, q)
    PROVE  PicturedInfo(q)
<1> DEFINE total == SumFunctionOnSet(x.added, Ins)
<1>1. /\ i \in Items /\ n \in Nat /\ n <= p.info[i].avail /\ n <= MaxSize[i] /\ total \in 0 .. n
      /\ n <= p.info[i].avail - p.info[i].backup \/ MayTakeBackup(i)
      /\ Spread(p, i, n, x)
  BY DEF Resolved, Spread
<1>2. p.info \in [Items -> [avail : Nat, backup : Nat]]
  BY DEF PicturedInfo
<1>3. \A j \in Items : Moved({m \in q.moves : m.item = j})
                 = Moved({m \in p.moves : m.item = j}) + IF j = i THEN total ELSE 0
  <2>1. AddedTotals(p, i, x, q)
    BY <1>1, AddedMoves
  <2> QED
    BY <2>1 DEF AddedTotals
<1>4. q.info = IF total > 0 THEN [p.info EXCEPT ![i].avail = @ - total] ELSE p.info
  BY DEF Added
<1> HIDE DEF total
<1>5. \A j \in Items : /\ p.info[j].avail \in Nat /\ p.info[j].backup \in Nat
                       /\ p.info[j] = [avail |-> p.info[j].avail, backup |-> p.info[j].backup]
                       /\ info[j].avail \in Nat /\ info[j].backup \in Nat
  BY <1>2
<1>6. /\ DOMAIN q.info = Items /\ \A j \in Items \ {i} : q.info[j] = p.info[j]
      /\ q.info = [j \in Items |-> q.info[j]]
  BY <1>1, <1>2, <1>4
<1>11. /\ p.info[i].avail \in Nat /\ p.info[i].backup \in Nat /\ total \in Nat
       /\ p.info[i] = [avail |-> p.info[i].avail, backup |-> p.info[i].backup]
       /\ p.info[i].avail - total \in Nat
  BY <1>1, <1>5
<1>7. q.info[i] = [avail |-> p.info[i].avail - total, backup |-> p.info[i].backup]
  <2>1. CASE total > 0
    <3>1. q.info = [p.info EXCEPT ![i].avail = @ - total]
      BY <1>4, <2>1
    <3>2. q.info[i] = [p.info[i] EXCEPT !.avail = @ - total]
      BY <1>1, <1>2, <3>1
    <3> QED
      BY <1>11, <3>2
  <2>2. CASE ~(total > 0)
    <3>1. total = 0 /\ q.info = p.info
      BY <1>4, <1>11, <2>2
    <3>2. p.info[i].avail - total = p.info[i].avail
      BY <1>11, <3>1
    <3>3. q.info[i] = p.info[i]
      BY <3>1
    <3> QED
      BY <1>11, <3>2, <3>3
  <2> QED
    BY <2>1, <2>2
<1>8. q.info[i] \in [avail : Nat, backup : Nat]
  BY <1>7, <1>11
<1>9. q.info \in [Items -> [avail : Nat, backup : Nat]]
  BY <1>2, <1>6, <1>8
<1>10. ASSUME NEW j \in Items
       PROVE  /\ q.info[j].avail + Moved({m \in q.moves : m.item = j}) = info[j].avail
              /\ q.info[j].backup = info[j].backup
              /\ \/ q.info[j].avail = info[j].avail
                 \/ q.info[j].avail >= info[j].backup \/ MayTakeBackup(j)
  <2> DEFINE a == Moved({m \in p.moves : m.item = j})
             b == Moved({m \in q.moves : m.item = j})
  <2>1. /\ p.info[j].avail + a = info[j].avail /\ p.info[j].backup = info[j].backup
        /\ \/ p.info[j].avail = info[j].avail
           \/ p.info[j].avail >= info[j].backup \/ MayTakeBackup(j)
    BY DEF PicturedInfo
  <2>2. b = a + IF j = i THEN total ELSE 0
    BY <1>3
  <2>3. a \in Nat
    <3> DEFINE of == {m \in p.moves : m.item = j}
    <3>1. AreMoves(of)
      BY FS_Subset DEF PicturedMoves, AreMoves
    <3> HIDE DEF of
    <3>2. Moved(of) \in Nat
      BY <3>1, MovedWithout
    <3> QED
      BY <3>2 DEF of
  <2> HIDE DEF a, b
  <2>4. CASE j # i
    <3>1. q.info[j] = p.info[j] /\ b = a
      BY <1>6, <2>2, <2>3, <2>4
    <3> QED
      BY <2>1, <3>1 DEF b
  <2>5. CASE j = i
    <3>1. q.info[j].avail = p.info[j].avail - total /\ q.info[j].backup = p.info[j].backup /\ b = a + total
      BY <1>7, <2>2, <2>5
    <3>4. p.info[j].avail \in Nat /\ total \in Nat /\ info[j].backup \in Nat /\ info[j].avail \in Nat
      BY <1>5, <1>11
    <3> DEFINE v == p.info[j].avail
               w == q.info[j].avail
    <3>5. w = v - total /\ v + a = info[j].avail /\ v \in Nat
      BY <2>1, <3>1, <3>4
    <3>6. total <= n /\ n \in Nat /\ total \in Nat /\ (n <= v - info[j].backup \/ MayTakeBackup(j))
      BY <1>1, <1>11, <2>1, <2>5
    <3> HIDE DEF v, w
    <3>2. w + b = info[j].avail
      BY <2>3, <3>1, <3>4, <3>5
    <3>3. w >= info[j].backup \/ MayTakeBackup(j)
      BY <3>4, <3>5, <3>6
    <3> QED
      BY <2>1, <3>1, <3>2, <3>3 DEF b, w
  <2> QED
    BY <2>4, <2>5
<1> QED
  BY <1>9, <1>10 DEF PicturedInfo

\* A picture with the same contents, items and transfers shows them too.
LEMMA PicturedSame ==
    ASSUME NEW contents, NEW p, NEW done, Pictured(contents, p, done),
           NEW q, q.items = p.items, q.info = p.info, q.moves = p.moves, NEW r
    PROVE  Pictured(contents, q, done \cup {r})
<1>1. PicturedInfo(q)
  BY DEF Pictured, PicturedInfo
<1>2. PicturedSlots(contents, q)
  BY DEF Pictured, PicturedSlots
<1>3. PicturedMoves(q, done \cup {r})
  BY DEF Pictured, PicturedMoves
<1> QED
  BY <1>1, <1>2, <1>3 DEF Pictured

\* Planning a demand keeps the picture right.
LEMMA PlanRecipeKeeps ==
    ASSUME ScatteringAssumption, info \in [Items -> [avail : Nat, backup : Nat]],
           NEW contents, AreStacksIn(contents), NEW p, NEW done, Pictured(contents, p, done),
           NEW r \in DOMAIN Recipes, r \notin done, NEW q, q = Scattering!PlanRecipe(p, r)
    PROVE  Pictured(contents, q, done \cup {r})
<1>1. PicturedInfo(p) /\ PicturedSlots(contents, p) /\ PicturedMoves(p, done)
  BY DEF Pictured
<1>2. IsInfo(p.info) /\ DOMAIN p.info = Items /\ IsRecipe(Recipes[r]) /\ ItemsAssumption /\ DOMAIN Recipes[r].in = {1}
  <2>1. p.info \in [Items -> [avail : Nat, backup : Nat]]
    BY <1>1 DEF PicturedInfo
  <2>2. /\ ItemsAssumption /\ AreRecipes(Recipes) /\ DOMAIN Recipes[r].in = {1}
    BY ScatteringAssumes
  <2> QED
    BY <2>1, <2>2 DEF IsInfo, ItemsAssumption, AreRecipes
<1>3. \A rs : rs = ResolveRecipeInputs(p.info, Recipes[r], TRUE) => Resolves(p.info, Recipes[r], rs)
  BY <1>2, ResolveFacts, Zenon
<1>4. q = IF p.full THEN p ELSE Scattering!PlanResolved(p, r, ResolveRecipeInputs(p.info, Recipes[r], TRUE))
  BY ScatteringResolves, Zenon DEF Scattering!PlanRecipe
<1>5. CASE p.full
  BY <1>4, <1>5, PicturedSame
<1>6. CASE ~p.full
  <2>1. PICK rs : Resolves(p.info, Recipes[r], rs) /\ q = Scattering!PlanResolved(p, r, rs)
    <3>1. q = Scattering!PlanResolved(p, r, ResolveRecipeInputs(p.info, Recipes[r], TRUE))
      BY <1>4, <1>6, Zenon
    <3> QED
      BY <1>3, <3>1, Zenon
  <2> DEFINE i == rs.in[1]
             n == rs.inAvail
             x == Scattering!Rounds(p.items, i, n)
  <2>2. q = Scattering!PlanAdded(p, r, i, x)
    BY <2>1, Zenon DEF Scattering!PlanResolved
  <2>3. /\ n \in Nat /\ i \in {NoItem} \cup Items
    BY <1>2, <2>1, GetItemFacts DEF Resolves
  <2> HIDE DEF i, n, x
  <2>4. Added(p, r, i, x, q)
    BY <2>2, ScatteringSums DEF Scattering!PlanAdded, Added, NewMoves, Scattering!Reserve, Ins
  <2>5. CASE n = 0
    <3>1. x.items = p.items /\ x.added = [slot \in Ins |-> 0]
      <4>1. \E g : /\ x = g[n]
                   /\ g[0] = [items |-> p.items, added |-> [slot \in Ins |-> 0], ended |-> FALSE, full |-> FALSE]
        BY <2>3, RoundsSteps DEF x
      <4> QED
        BY <2>5, <4>1
    <3>2. NewMoves(r, i, x.added) = {}
      BY <3>1 DEF NewMoves
    <3>3. SumFunctionOnSet(x.added, Ins) = 0
      <4>1. IsFiniteSet(Ins) /\ \A s \in Ins : x.added[s] = 0
        BY <3>1, ScatteringAssumes
      <4> QED
        BY <4>1, SumOfZeros
    <3>4. q.items = p.items /\ q.moves = p.moves /\ q.info = p.info
      BY <2>4, <3>1, <3>2, <3>3 DEF Added
    <3> QED
      BY <3>4, PicturedSame
  <2>6. CASE n # 0
    <3>1. /\ i \in Items /\ n \in Nat /\ n <= MaxSize[i] /\ n <= p.info[i].avail
          /\ n <= p.info[i].avail - p.info[i].backup \/ MayTakeBackup(i)
      BY <1>2, <2>1, <2>6, OneInput DEF i, n
    <3>2. AreStacksIn(p.items) /\ \A m \in p.moves : IsEven(p.items, m.slot)
      BY <1>1 DEF PicturedSlots
    <3>3. Spread(p, i, n, x)
      BY <3>1, <3>2, RoundsSpread DEF x
    <3>4. PicturedMoves(q, done \cup {r})
      BY <1>1, <2>4, <3>1, <3>3, AddedMoves
    <3>5. PicturedSlots(contents, q)
      BY <2>4, <3>1, <3>3, AddedSlots
    <3>6. Resolved(p, i, n, x)
      BY <3>1, <3>3 DEF Resolved
    <3>7. PicturedInfo(q)
      BY <1>1, <2>4, <3>6, AddedInfo
    <3> QED
      BY <3>4, <3>5, <3>7 DEF Pictured
  <2> QED
    BY <2>5, <2>6
<1> QED
  BY <1>5, <1>6

\* A function that plans one demand after the other.
PlansOn(g, start, ds, n) == g = [k \in 0 .. n |-> IF k = 0 THEN start ELSE Scattering!PlanRecipe(g[k - 1], ds[k])]
PlansAll(contents, ds, g) ==
    /\ Scattering!PlanAll(contents) = g[Len(ds)]
    /\ g[0] = [items |-> contents, info |-> info, moves |-> {}, full |-> FALSE]
    /\ \A k \in 1 .. Len(ds) : g[k] = Scattering!PlanRecipe(g[k - 1], ds[k])

\* There is one.
LEMMA PlanSequence ==
    ASSUME NEW start, NEW ds, NEW n \in Nat
    PROVE  \E g : PlansOn(g, start, ds, n)
<1> DEFINE rest(g, N) == [k \in 0 .. N |-> IF k = 0 THEN start ELSE Scattering!PlanRecipe(g[k - 1], ds[k])]
           K == {N \in Nat : \E g : g = rest(g, N)}
<1>1. 0 \in K
  <2> DEFINE g == [k \in 0 .. 0 |-> start]
  <2>1. g = rest(g, 0)
    OBVIOUS
  <2> HIDE DEF rest, g
  <2> QED
    BY <2>1
<1>2. ASSUME NEW N \in Nat, N \in K PROVE N + 1 \in K
  <2>1. PICK g : g = rest(g, N)
    BY <1>2
  <2> DEFINE h == [k \in 0 .. N + 1 |-> IF k = N + 1 THEN Scattering!PlanRecipe(g[N], ds[k]) ELSE g[k]]
  <2>2. \A k \in 0 .. N : h[k] = g[k]
    OBVIOUS
  <2>3. ASSUME NEW k \in 0 .. N + 1
        PROVE  h[k] = IF k = 0 THEN start ELSE Scattering!PlanRecipe(h[k - 1], ds[k])
    <3>1. CASE k = N + 1
      <4>1. h[k - 1] = g[N]
        BY <2>2, <3>1
      <4>2. h[k] = Scattering!PlanRecipe(g[N], ds[k])
        BY <3>1
      <4> HIDE DEF h
      <4> QED
        BY <3>1, <4>1, <4>2
    <3>2. CASE k \in 0 .. N
      <4>1. h[k] = IF k = 0 THEN start ELSE Scattering!PlanRecipe(g[k - 1], ds[k])
        BY <2>1, <2>2, <3>2
      <4>2. k # 0 => h[k - 1] = g[k - 1]
        BY <2>2, <3>2
      <4> HIDE DEF h
      <4> QED
        BY <4>1, <4>2
    <3> QED
      BY <3>1, <3>2
  <2>4. h = [k \in 0 .. N + 1 |-> h[k]]
    OBVIOUS
  <2>5. h = rest(h, N + 1)
    <3> HIDE DEF h
    <3> QED
      BY <2>3, <2>4
  <2> HIDE DEF rest, h
  <2> QED
    BY <2>5
<1> HIDE DEF K
<1>3. n \in K
  BY <1>1, <1>2, NumberInduction
<1> QED
  BY <1>3 DEF K, PlansOn

\* What planning the demands one after the other makes.
LEMMA PlanAllSteps ==
    ASSUME NEW contents, NEW ds, ds = Scattering!GetDemand(info, Recipes, TRUE), Len(ds) \in Nat
    PROVE  \E g : PlansAll(contents, ds, g)
<1> DEFINE start == [items |-> contents, info |-> info, moves |-> {}, full |-> FALSE]
           n == Len(ds)
           rest(g) == [k \in 0 .. n |-> IF k = 0 THEN start ELSE Scattering!PlanRecipe(g[k - 1], ds[k])]
           after == CHOOSE g : g = rest(g)
<1>1. Scattering!PlanAll(contents) = after[n]
  BY Zenon DEF Scattering!PlanAll
<1> HIDE DEF start
<1>2. n \in Nat
  OBVIOUS
<1> HIDE DEF n
<1>3. \E g : g = rest(g)
  <2>1. \E g : PlansOn(g, start, ds, n)
    BY <1>2, PlanSequence, Zenon
  <2>2. \A g : PlansOn(g, start, ds, n) <=> g = rest(g)
    BY Zenon DEF PlansOn
  <2> HIDE DEF rest
  <2> QED
    BY <2>1, <2>2, Zenon
<1>4. after = rest(after)
  <2> HIDE DEF rest
  <2> QED
    BY <1>3, Zenon
<1> HIDE DEF after
<1>5. after[0] = start
  <2>1. 0 \in 0 .. n
    BY <1>2
  <2> QED
    BY <1>4, <2>1, Zenon
<1>6. ASSUME NEW k \in 1 .. n PROVE after[k] = Scattering!PlanRecipe(after[k - 1], ds[k])
  <2>1. k \in 0 .. n /\ k # 0
    BY <1>2
  <2> QED
    BY <1>4, <2>1, Zenon
<1> QED
  BY <1>1, <1>5, <1>6, Zenon DEF start, n, PlansAll

\* What is demanded has a length, and each demand is for another recipe.
LEMMA ScatteringDemandFacts ==
    ASSUME ScatteringAssumption, info \in [Items -> [avail : Nat, backup : Nat]],
           NEW ds, ds = Scattering!GetDemand(info, Recipes, TRUE)
    PROVE  /\ Len(ds) \in Nat
           /\ \A n \in 1 .. Len(ds) : ds[n] \in DOMAIN Recipes
           /\ \A m, n \in 1 .. Len(ds) : m < n => ds[m] # ds[n]
<1>1. IsInfo(info) /\ AreRecipes(Recipes)
  <2>1. ItemsAssumption /\ AreRecipes(Recipes)
    BY ScatteringAssumes
  <2> QED
    BY <2>1, Zenon DEF IsInfo, ItemsAssumption
<1>2. PICK D : D = Demanded(info, Recipes, TRUE)
  OBVIOUS
<1>3. ds = GetDemand(info, Recipes, TRUE)
  BY ScatteringDemands, Zenon
<1>4. /\ IsFiniteSet(D) /\ D \subseteq DOMAIN Recipes /\ DOMAIN ds = 1 .. Cardinality(D)
      /\ IsNeediestFirst(info, Recipes, D, ds)
  BY <1>1, <1>2, <1>3, DemandFacts, Zenon
<1>5. \E S : ds = [n \in S |-> ds[n]]
  <2> DEFINE before(r) == {s \in D : Earlier(info, Recipes, s, r)}
             nth(n) == CHOOSE r \in D : Cardinality(before(r)) = n - 1
  <2>1. ds = [n \in 1 .. Cardinality(D) |-> nth(n)]
    BY <1>2, <1>3, Zenon DEF GetDemand
  <2> HIDE DEF nth
  <2> QED
    BY <2>1, Zenon
<1>6. Cardinality(D) \in Nat
  BY <1>4, FS_CardinalityType, Zenon
<1>7. /\ \A n \in DOMAIN ds : ds[n] \in D
      /\ \A m, n \in DOMAIN ds : m < n => ds[m] # ds[n]
  BY <1>4, Zenon DEF IsNeediestFirst
<1>8. ds \in Seq(D) /\ Len(ds) \in Nat /\ DOMAIN ds = 1 .. Len(ds)
  <2> DEFINE c == Cardinality(D)
  <2>1. c \in Nat /\ DOMAIN ds = 1 .. c
    BY <1>4, <1>6, Zenon
  <2> HIDE DEF c
  <2>2. ds \in [1 .. c -> D]
    BY <1>5, <1>7, <2>1, Zenon
  <2>3. ds \in Seq(D)
    BY <2>1, <2>2, SeqDef, Zenon
  <2> QED
    BY <2>3, LenProperties, Zenon
<1> QED
  BY <1>4, <1>7, <1>8, Zenon

\* The plan: the contents it leads to, what it reserves and the transfers.
LEMMA PlanAllKeeps ==
    ASSUME ScatteringAssumption, info \in [Items -> [avail : Nat, backup : Nat]],
           NEW contents, AreStacksIn(contents), NEW q, q = Scattering!PlanAll(contents)
    PROVE  \E done : Pictured(contents, q, done)
<1>1. PICK ds : ds = Scattering!GetDemand(info, Recipes, TRUE)
  OBVIOUS
<1>2. /\ Len(ds) \in Nat
      /\ \A n \in 1 .. Len(ds) : ds[n] \in DOMAIN Recipes
      /\ \A m, n \in 1 .. Len(ds) : m < n => ds[m] # ds[n]
  BY <1>1, ScatteringDemandFacts, Zenon
<1>8. PICK g : PlansAll(contents, ds, g)
  BY <1>1, <1>2, PlanAllSteps, Zenon
<1>3. /\ Scattering!PlanAll(contents) = g[Len(ds)]
      /\ g[0] = [items |-> contents, info |-> info, moves |-> {}, full |-> FALSE]
      /\ \A k \in 1 .. Len(ds) : g[k] = Scattering!PlanRecipe(g[k - 1], ds[k])
  BY <1>8, Zenon DEF PlansAll
<1> DEFINE N == Len(ds)
           before(n) == {ds[k] : k \in 1 .. n}
           K == {n \in Nat : n <= N => Pictured(contents, g[n], before(n))}
<1>4. 0 \in K
  <2>1. g[0].items = contents /\ g[0].info = info /\ g[0].moves = {}
    BY <1>3
  <2>2. PicturedInfo(g[0])
    <3>1. \A i \in Items : {m \in g[0].moves : m.item = i} = {}
      BY <2>1
    <3>2. \A i \in Items : info[i].avail \in Nat
      OBVIOUS
    <3> QED
      BY <2>1, <3>1, <3>2, MovedNone DEF PicturedInfo
  <2>3. PicturedSlots(contents, g[0])
    <3>1. \A s \in Ins : {m \in g[0].moves : m.slot = s} = {}
      BY <2>1
    <3>2. \A s \in Ins : contents[s].size \in Nat
      BY ScatteringAssumes, StackIs DEF AreStacksIn
    <3> QED
      BY <2>1, <3>1, <3>2, MovedNone DEF PicturedSlots
  <2>4. PicturedMoves(g[0], before(0))
    BY <2>1, FS_EmptySet DEF PicturedMoves, AreMoves
  <2> QED
    BY <2>2, <2>3, <2>4 DEF Pictured
<1>5. ASSUME NEW n \in Nat, n \in K PROVE n + 1 \in K
  <2> SUFFICES ASSUME n + 1 <= N PROVE Pictured(contents, g[n + 1], before(n + 1))
    OBVIOUS
  <2>1. Pictured(contents, g[n], before(n)) /\ n + 1 \in 1 .. N
    BY <1>2, <1>5
  <2>2. g[n + 1] = Scattering!PlanRecipe(g[n], ds[n + 1])
    BY <1>3, <2>1
  <2>3. ds[n + 1] \in DOMAIN Recipes /\ ds[n + 1] \notin before(n)
    BY <1>2, <2>1
  <2>4. before(n + 1) = before(n) \cup {ds[n + 1]}
    BY <2>1
  <2> HIDE DEF before, N
  <2>5. Pictured(contents, g[n + 1], before(n) \cup {ds[n + 1]})
    BY <2>1, <2>2, <2>3, PlanRecipeKeeps
  <2> QED
    BY <2>4, <2>5
<1> HIDE DEF K
<1>6. N \in K
  BY <1>2, <1>4, <1>5, NumberInduction
<1>7. Pictured(contents, g[N], before(N))
  BY <1>2, <1>6 DEF K
<1> QED
  BY <1>3, <1>7

\* What is in the slots of another machine is in this one as well.
InputsLess(now, then) ==
    \A s \in Ins : now[s].size <= then[s].size /\ now[s].item \in {NoItem, then[s].item}

\* The inductive invariant: what there is has its type, the transfers fit into the
\* machine although it has been working, those of a recipe fit into a slot of the bus,
\* work goes on only in that phase, and until the process plans, nothing but the
\* machine's work changes what was listed.
ScatteringTypes ==
    /\ stored \in [Items -> Nat] /\ info \in [Items -> [avail : Nat, backup : Nat]]
    /\ AreStacksIn(machine) /\ AreStacksIn(listed) /\ AreMoves(moves)
    /\ output \in {0, 1} /\ phase \in {"idle", "asked", "listed", "working"}
FitsWith(ms, contents, m) ==
    /\ \A n \in ms : n.slot = m.slot => n.item = m.item
    /\ contents[m.slot].item \in {NoItem, m.item}
    /\ contents[m.slot].size + Moved({n \in ms : n.slot = m.slot}) <= MaxSize[m.item]
    /\ Moved({n \in ms : n.recipe = m.recipe}) <= MaxSize[m.item]
MovesFit == \A m \in moves : FitsWith(moves, machine, m)
MovesInPhase == phase # "working" => moves = {} /\ output = 0
ScatteringKnows ==
    phase \in {"asked", "listed"} => \A i \in Items : info[i].avail <= stored[i] /\ info[i].backup = Backup[i]
KnowsInputs == phase = "listed" => InputsLess(machine, listed)
ScatteringInv == ScatteringTypes /\ MovesFit /\ MovesInPhase /\ ScatteringKnows /\ KnowsInputs

\* A transfer that ends is no longer among those of its slot and of its recipe.
EndsFor(ms, m, n) ==
    /\ Moved({k \in ms \ {m} : k.slot = n.slot}) \in Nat
    /\ n.slot = m.slot => Moved({k \in ms : k.slot = n.slot}) = m.size + Moved({k \in ms \ {m} : k.slot = n.slot})
    /\ n.slot # m.slot => Moved({k \in ms : k.slot = n.slot}) = Moved({k \in ms \ {m} : k.slot = n.slot})
    /\ Moved({k \in ms \ {m} : k.recipe = n.recipe}) <= Moved({k \in ms : k.recipe = n.recipe})

\* So it is.
LEMMA MoveEnds == ASSUME NEW ms, AreMoves(ms), NEW m \in ms, NEW n \in ms \ {m} PROVE EndsFor(ms, m, n)
<1> DEFINE a == {k \in ms : k.slot = n.slot}
           b == {k \in ms : k.recipe = n.recipe}
<1>1. \A T \in SUBSET ms : AreMoves(T)
  BY FS_Subset DEF AreMoves
<1>2. AreMoves(a) /\ AreMoves(b) /\ m.size \in Nat
  BY <1>1 DEF AreMoves, IsMove
<1>3. {k \in ms \ {m} : k.slot = n.slot} = a \ {m} /\ {k \in ms \ {m} : k.recipe = n.recipe} = b \ {m}
  OBVIOUS
<1>4. (n.slot = m.slot => m \in a) /\ (n.slot # m.slot => a \ {m} = a) /\ (m \in b \/ b \ {m} = b)
  OBVIOUS
<1> HIDE DEF a, b
<1>5. Moved(a) \in Nat /\ (m \in a => Moved(a) = m.size + Moved(a \ {m}) /\ Moved(a \ {m}) \in Nat)
  BY <1>2, MovedWithout
<1>6. Moved(b) \in Nat /\ (m \in b => Moved(b) = m.size + Moved(b \ {m}) /\ Moved(b \ {m}) \in Nat)
  BY <1>2, MovedWithout
<1>7. Moved(a \ {m}) \in Nat
  <2>1. m \in a \/ a \ {m} = a
    BY <1>4
  <2> QED
    BY <1>5, <2>1
<1>8. Moved(b \ {m}) <= Moved(b)
  <2>1. CASE m \in b
    <3> DEFINE x == Moved(b) y == Moved(b \ {m}) z == m.size
    <3>1. x = z + y /\ y \in Nat /\ z \in Nat
      BY <1>2, <1>6, <2>1
    <3> HIDE DEF x, y, z
    <3>2. y <= x
      BY <3>1
    <3> QED
      BY <3>2 DEF x, y
  <2>2. CASE b \ {m} = b
    BY <1>6, <2>2
  <2> QED
    BY <1>4, <2>1, <2>2
<1> QED
  BY <1>3, <1>4, <1>5, <1>7, <1>8 DEF a, b, EndsFor

\* A machine that has less takes the same transfers.
LEMMA LessFitsWith ==
    ASSUME ScatteringAssumption, NEW ms, AreMoves(ms), NEW now, NEW then, AreStacksIn(now), AreStacksIn(then),
           InputsLess(now, then), NEW m \in ms, FitsWith(ms, then, m)
    PROVE  FitsWith(ms, now, m)
<1>1. m.slot \in Ins /\ m.item \in Items /\ IsFiniteSet(ms)
  BY DEF AreMoves, IsMove
<1>2. now[m.slot].size \in Nat /\ then[m.slot].size \in Nat /\ MaxSize[m.item] \in Nat
  BY <1>1, ScatteringAssumes, StackIs DEF AreStacksIn, ItemsAssumption
<1> DEFINE a == Moved({n \in ms : n.slot = m.slot})
<1>3. a \in Nat
  <2> DEFINE into == {n \in ms : n.slot = m.slot}
  <2>1. AreMoves(into)
    BY FS_Subset DEF AreMoves
  <2> HIDE DEF into
  <2>2. Moved(into) \in Nat
    BY <2>1, MovedWithout
  <2> QED
    BY <2>2 DEF into
<1>4. /\ now[m.slot].size <= then[m.slot].size /\ now[m.slot].item \in {NoItem, then[m.slot].item}
      /\ then[m.slot].item \in {NoItem, m.item} /\ then[m.slot].size + a <= MaxSize[m.item]
  BY <1>1 DEF FitsWith, InputsLess
<1> HIDE DEF a
<1>5. now[m.slot].item \in {NoItem, m.item} /\ now[m.slot].size + a <= MaxSize[m.item]
  BY <1>2, <1>3, <1>4
<1> QED
  BY <1>5 DEF FitsWith, a

\* A machine with nothing in it is a machine.
LEMMA NowhereIsStacksIn == AreStacksIn(Scattering!Nowhere)
BY ScatteringStacks DEF AreStacksIn, IsStack, Scattering!Nowhere

\* The invariant holds at first.
LEMMA ScatteringStarts == ASSUME ScatteringAssumption, Scattering!Init PROVE ScatteringInv
<1>1. Stored0 \in [Items -> Nat]
  BY ScatteringAssumes
<1>2. ScatteringTypes
  BY <1>1, NowhereIsStacksIn, FS_EmptySet DEF ScatteringTypes, Scattering!Init, Scattering!Unknown, AreMoves
<1> QED
  BY <1>2 DEF ScatteringInv, Scattering!Init, MovesFit, MovesInPhase, ScatteringKnows, KnowsInputs

\* What there is less of twice there is less of.
LEMMA InputsLessAgain ==
    ASSUME ScatteringAssumption, NEW a, NEW b, NEW c, AreStacksIn(a), AreStacksIn(b), AreStacksIn(c),
           InputsLess(a, b), InputsLess(b, c)
    PROVE  InputsLess(a, c)
<1>1. \A s \in Ins : a[s].size \in Nat /\ b[s].size \in Nat /\ c[s].size \in Nat
  BY ScatteringAssumes, StackIs DEF AreStacksIn
<1> QED
  BY <1>1 DEF InputsLess

\* The machine works, or its products are stored.
LEMMA ScatteringWorkKeeps ==
    ASSUME ScatteringAssumption, ScatteringInv, AreStacksIn(machine'), InputsLess(machine', machine),
           info' = info, listed' = listed, moves' = moves, phase' = phase,
           stored' \in [Items -> Nat], \A i \in Items : stored[i] <= stored'[i],
           output' \in {0, 1}, output' = 1 => output = 1
    PROVE  ScatteringInv'
<1>1. ScatteringTypes /\ MovesFit /\ MovesInPhase /\ ScatteringKnows /\ KnowsInputs
  BY DEF ScatteringInv
<1>2. AreStacksIn(machine) /\ AreStacksIn(listed) /\ AreMoves(moves)
  BY <1>1 DEF ScatteringTypes
<1>3. ScatteringTypes'
  BY <1>1 DEF ScatteringTypes
<1>4. MovesFit'
  <2>1. \A m \in moves : FitsWith(moves, machine', m)
    BY <1>1, <1>2, LessFitsWith DEF MovesFit
  <2> QED
    BY <2>1 DEF MovesFit
<1>5. MovesInPhase'
  BY <1>1 DEF MovesInPhase
<1>6. ScatteringKnows'
  <2> SUFFICES ASSUME phase \in {"asked", "listed"}, NEW i \in Items
               PROVE  info[i].avail <= stored'[i] /\ info[i].backup = Backup[i]
    BY DEF ScatteringKnows
  <2>1. info[i].avail <= stored[i] /\ info[i].backup = Backup[i] /\ stored[i] <= stored'[i]
    BY <1>1 DEF ScatteringKnows
  <2>2. info[i].avail \in Nat /\ stored[i] \in Nat /\ stored'[i] \in Nat
    BY <1>1 DEF ScatteringTypes
  <2> QED
    BY <2>1, <2>2
<1>7. KnowsInputs'
  <2> SUFFICES ASSUME phase = "listed" PROVE InputsLess(machine', listed)
    BY DEF KnowsInputs
  <2> QED
    BY <1>1, <1>2, InputsLessAgain DEF KnowsInputs
<1> QED
  BY <1>3, <1>4, <1>5, <1>6, <1>7 DEF ScatteringInv

\* The storages are listed.
LEMMA ScatteringCycleKeeps == ASSUME ScatteringAssumption, ScatteringInv, Scattering!Cycle PROVE ScatteringInv'
<1>1. ScatteringTypes /\ MovesInPhase /\ MovesFit
  BY DEF ScatteringInv
<1>2. /\ phase = "idle" /\ phase' = "asked" /\ info' = [i \in Items |-> [avail |-> stored[i], backup |-> Backup[i]]]
      /\ UNCHANGED <<stored, machine, listed, moves, output>>
  BY DEF Scattering!Cycle
<1>3. stored \in [Items -> Nat] /\ Backup \in [Items -> Nat]
  BY <1>1, ScatteringAssumes DEF ScatteringTypes
<1>4. info' \in [Items -> [avail : Nat, backup : Nat]]
  BY <1>2, <1>3
<1>5. ScatteringTypes'
  BY <1>1, <1>2, <1>4 DEF ScatteringTypes
<1>6. MovesFit' /\ MovesInPhase' /\ KnowsInputs'
  BY <1>1, <1>2 DEF MovesFit, MovesInPhase, KnowsInputs
<1>7. ScatteringKnows'
  <2>1. ASSUME NEW i \in Items PROVE info'[i].avail <= stored'[i] /\ info'[i].backup = Backup[i]
    BY <1>2, <1>3
  <2> QED
    BY <2>1 DEF ScatteringKnows
<1> QED
  BY <1>5, <1>6, <1>7 DEF ScatteringInv

\* A computer executes List.
LEMMA ScatteringListKeeps == ASSUME ScatteringAssumption, ScatteringInv, Scattering!List PROVE ScatteringInv'
<1>1. ScatteringTypes /\ MovesFit /\ MovesInPhase /\ ScatteringKnows
  BY DEF ScatteringInv
<1>2. /\ phase = "asked" /\ phase' = "listed" /\ listed' = machine
      /\ UNCHANGED <<stored, info, machine, moves, output>>
  BY DEF Scattering!List
<1>3. ScatteringTypes' /\ MovesFit' /\ MovesInPhase' /\ ScatteringKnows'
  BY <1>1, <1>2 DEF ScatteringTypes, MovesFit, MovesInPhase, ScatteringKnows
<1>4. KnowsInputs'
  <2>1. \A s \in Ins : machine[s].size \in Nat
    BY <1>1, ScatteringAssumes, StackIs DEF ScatteringTypes, AreStacksIn
  <2> QED
    BY <1>2, <2>1 DEF KnowsInputs, InputsLess
<1> QED
  BY <1>3, <1>4 DEF ScatteringInv

\* What the process decides.
LEMMA ScatteringPlans ==
    ASSUME ScatteringAssumption, ScatteringInv, Scattering!Plan
    PROVE  /\ phase = "listed" /\ phase' = "working" /\ output' \in {0, 1}
           /\ listed' = Scattering!Nowhere /\ UNCHANGED machine
           /\ stored' = [i \in Items |-> stored[i] - Moved({m \in moves' : m.item = i})]
           /\ \E q, done : Pictured(listed, q, done) /\ moves' = q.moves /\ info' = q.info
<1>1. /\ phase = "listed" /\ phase' = "working" /\ output' \in {0, 1}
      /\ listed' = Scattering!Nowhere /\ UNCHANGED machine
      /\ stored' = [i \in Items |-> stored[i] - Scattering!MovesSize(moves', i)]
      /\ moves' = Scattering!PlanAll(listed).moves /\ info' = Scattering!PlanAll(listed).info
  BY DEF Scattering!Plan
<1>2. \A i : Scattering!MovesSize(moves', i) = Moved({m \in moves' : m.item = i})
  BY MovedIs DEF Scattering!MovesSize
<1>3. stored' = [i \in Items |-> stored[i] - Moved({m \in moves' : m.item = i})]
  BY <1>1, <1>2
<1>4. info \in [Items -> [avail : Nat, backup : Nat]] /\ AreStacksIn(listed)
  BY DEF ScatteringInv, ScatteringTypes
<1>5. PICK done : Pictured(listed, Scattering!PlanAll(listed), done)
  BY <1>4, PlanAllKeeps
<1> QED
  BY <1>1, <1>3, <1>5

\* What the plan takes of an item is there, and leaves the backup.
LEMMA PlanTakes ==
    ASSUME ScatteringAssumption, ScatteringInv, phase = "listed", NEW q, NEW done, Pictured(listed, q, done), NEW i \in Items
    PROVE  /\ Moved({m \in q.moves : m.item = i}) \in Nat /\ Moved({m \in q.moves : m.item = i}) <= stored[i]
           /\ \/ Moved({m \in q.moves : m.item = i}) = 0
              \/ stored[i] - Moved({m \in q.moves : m.item = i}) >= Backup[i] \/ MayTakeBackup(i)
<1> DEFINE of(ms) == {m \in ms : m.item = i}
           n == Moved(of(q.moves))
<1>1. /\ q.info \in [Items -> [avail : Nat, backup : Nat]] /\ info \in [Items -> [avail : Nat, backup : Nat]]
      /\ stored \in [Items -> Nat] /\ Backup \in [Items -> Nat]
  BY ScatteringAssumes DEF Pictured, PicturedInfo, ScatteringInv, ScatteringTypes
<1>2. /\ q.info[i].avail + n = info[i].avail
      /\ q.info[i].avail = info[i].avail \/ q.info[i].avail >= info[i].backup \/ MayTakeBackup(i)
  BY DEF Pictured, PicturedInfo
<1>3. info[i].avail <= stored[i] /\ info[i].backup = Backup[i]
  BY DEF ScatteringInv, ScatteringKnows
<1>4. n \in Nat
  <2>1. AreMoves(q.moves)
    BY DEF Pictured, PicturedMoves
  <2>2. AreMoves(of(q.moves))
    BY <2>1, FS_Subset DEF AreMoves
  <2> HIDE DEF of
  <2> QED
    BY <2>2, MovedWithout
<1>5. q.info[i].avail \in Nat /\ info[i].avail \in Nat /\ stored[i] \in Nat /\ Backup[i] \in Nat
  BY <1>1
<1> HIDE DEF n
<1>6. n <= stored[i] /\ (n = 0 \/ stored[i] - n >= Backup[i] \/ MayTakeBackup(i))
  BY <1>2, <1>3, <1>4, <1>5
<1> QED
  BY <1>4, <1>6 DEF n

\* The process plans.
LEMMA ScatteringPlanKeeps == ASSUME ScatteringAssumption, ScatteringInv, Scattering!Plan PROVE ScatteringInv'
<1>1. ScatteringTypes /\ KnowsInputs
  BY DEF ScatteringInv
<1>2. /\ phase = "listed" /\ phase' = "working" /\ output' \in {0, 1}
      /\ listed' = Scattering!Nowhere /\ UNCHANGED machine
      /\ stored' = [i \in Items |-> stored[i] - Moved({m \in moves' : m.item = i})]
  BY ScatteringPlans
<1>3. PICK q, done : Pictured(listed, q, done) /\ moves' = q.moves /\ info' = q.info
  BY ScatteringPlans
<1>4. PicturedInfo(q) /\ PicturedSlots(listed, q) /\ PicturedMoves(q, done)
  BY <1>3 DEF Pictured
<1>5. stored' \in [Items -> Nat]
  <2>1. \A i \in Items : /\ Moved({m \in q.moves : m.item = i}) \in Nat
                         /\ Moved({m \in q.moves : m.item = i}) <= stored[i]
    BY <1>2, <1>3, PlanTakes
  <2>2. \A i \in Items : stored[i] \in Nat
    BY <1>1 DEF ScatteringTypes
  <2>3. \A i \in Items : stored[i] - Moved({m \in q.moves : m.item = i}) \in Nat
    BY <2>1, <2>2
  <2> QED
    BY <1>2, <1>3, <2>3
<1>6. ScatteringTypes'
  BY <1>1, <1>2, <1>3, <1>4, <1>5, NowhereIsStacksIn DEF ScatteringTypes, PicturedInfo, PicturedMoves
<1>7. ASSUME NEW m \in q.moves PROVE FitsWith(q.moves, listed, m)
  <2>1. AreMoves(q.moves)
    BY <1>4 DEF PicturedMoves
  <2>2. m.slot \in Ins /\ m.item \in Items /\ m.item # NoItem
    BY <2>1, ScatteringAssumes DEF AreMoves, IsMove, ItemsAssumption
  <2>3. \A n \in q.moves : q.items[n.slot].item = n.item /\ listed[n.slot].item \in {NoItem, n.item}
    BY <1>4 DEF PicturedSlots
  <2>4. q.items[m.slot].size = listed[m.slot].size + Moved({n \in q.moves : n.slot = m.slot})
    BY <1>4, <2>2 DEF PicturedSlots
  <2>5. q.items[m.slot].size <= MaxSize[m.item]
    <3>1. IsStack(q.items[m.slot]) /\ ItemsAssumption
      BY <1>4, <2>2, ScatteringAssumes DEF PicturedSlots, AreStacksIn
    <3> QED
      BY <2>2, <2>3, <3>1, StackIs
  <2>6. Moved({n \in q.moves : n.recipe = m.recipe}) <= MaxSize[m.item]
    BY <1>4 DEF PicturedMoves
  <2> QED
    BY <2>3, <2>4, <2>5, <2>6 DEF FitsWith
<1>8. MovesFit'
  <2>1. AreStacksIn(machine) /\ AreStacksIn(listed) /\ InputsLess(machine, listed) /\ AreMoves(q.moves)
    BY <1>1, <1>2, <1>4 DEF ScatteringTypes, KnowsInputs, PicturedMoves
  <2>2. \A m \in q.moves : FitsWith(q.moves, machine, m)
    BY <1>7, <2>1, LessFitsWith
  <2> QED
    BY <1>2, <1>3, <2>2 DEF MovesFit
<1>9. MovesInPhase' /\ ScatteringKnows' /\ KnowsInputs'
  BY <1>2 DEF MovesInPhase, ScatteringKnows, KnowsInputs
<1> QED
  BY <1>6, <1>8, <1>9 DEF ScatteringInv

\* The transfers that are left when one ends fit, whether it was executed or not.
LEMMA OthersFit ==
    ASSUME ScatteringAssumption, ScatteringTypes, MovesFit, NEW m \in moves, NEW now,
           \A s \in Ins \ {m.slot} : now[s] = machine[s],
           \/ now[m.slot] = machine[m.slot]
           \/ now[m.slot].item = m.item /\ now[m.slot].size = machine[m.slot].size + m.size
    PROVE  AreMoves(moves \ {m}) /\ \A n \in moves \ {m} : FitsWith(moves \ {m}, now, n)
<1>1. AreMoves(moves) /\ AreStacksIn(machine)
  BY DEF ScatteringTypes
<1>2. AreMoves(moves \ {m})
  BY <1>1, FS_Subset DEF AreMoves
<1>3. \A n \in moves : /\ n.slot \in Ins /\ n.item \in Items /\ n.size \in Nat
                       /\ machine[n.slot].size \in Nat /\ MaxSize[n.item] \in Nat
  BY <1>1, ScatteringAssumes, StackIs DEF AreMoves, IsMove, AreStacksIn, ItemsAssumption
<1>4. ASSUME NEW n \in moves \ {m} PROVE FitsWith(moves \ {m}, now, n)
  <2> DEFINE a == Moved({k \in moves : k.slot = n.slot})
             b == Moved({k \in moves \ {m} : k.slot = n.slot})
             c == Moved({k \in moves : k.recipe = n.recipe})
             d == Moved({k \in moves \ {m} : k.recipe = n.recipe})
             e == machine[n.slot].size
             l == MaxSize[n.item]
  <2>1. /\ \A k \in moves : k.slot = n.slot => k.item = n.item
        /\ machine[n.slot].item \in {NoItem, n.item} /\ e + a <= l /\ c <= l
    BY DEF MovesFit, FitsWith
  <2>2. /\ b \in Nat /\ d <= c /\ (n.slot = m.slot => a = m.size + b) /\ (n.slot # m.slot => a = b)
    <3>1. EndsFor(moves, m, n)
      BY <1>1, MoveEnds
    <3> QED
      BY <3>1 DEF EndsFor
  <2>3. e \in Nat /\ l \in Nat /\ m.size \in Nat /\ n.slot \in Ins
    BY <1>3
  <2>4. d <= l
    <3>1. d \in Nat /\ c \in Nat
      <4> DEFINE own == {k \in moves : k.recipe = n.recipe}
                 rest == {k \in moves \ {m} : k.recipe = n.recipe}
      <4>1. AreMoves(own) /\ AreMoves(rest)
        BY <1>1, FS_Subset DEF AreMoves
      <4> HIDE DEF own, rest
      <4>2. Moved(own) \in Nat /\ Moved(rest) \in Nat
        BY <4>1, MovedWithout
      <4> QED
        BY <4>2 DEF own, rest
    <3> HIDE DEF a, b, c, d, e, l
    <3> QED
      BY <2>1, <2>2, <2>3, <3>1
  <2> HIDE DEF a, b, c, d, l
  <2>5. now[n.slot].item \in {NoItem, n.item} /\ now[n.slot].size + b <= l
    <3>1. CASE n.slot # m.slot
      BY <2>1, <2>2, <2>3, <3>1
    <3>2. CASE n.slot = m.slot
      <4>1. a = m.size + b /\ m.item = n.item
        BY <2>1, <2>2, <3>2
      <4> QED
        BY <2>1, <2>2, <2>3, <3>2, <4>1
    <3> QED
      BY <3>1, <3>2
  <2> QED
    BY <2>1, <2>4, <2>5 DEF FitsWith, b, d, l
<1> QED
  BY <1>2, <1>4

\* A transfer that is executed finds room in its slot.
LEMMA MoveLoads ==
    ASSUME ScatteringAssumption, ScatteringTypes, MovesFit, NEW m \in moves,
           NEW s, s = Scattering!Stack(m.item, machine[m.slot].size + m.size)
    PROVE  IsStack(s) /\ s.item = m.item /\ s.size = machine[m.slot].size + m.size
<1> DEFINE a == Moved({k \in moves : k.slot = m.slot})
           n == machine[m.slot].size + m.size
<1>1. AreMoves(moves) /\ IsMove(m) /\ ItemsAssumption /\ IsStack(machine[m.slot])
  BY ScatteringAssumes DEF ScatteringTypes, AreMoves, IsMove, AreStacksIn
<1>2. m.item \in Items /\ m.size \in Nat \ {0} /\ machine[m.slot].size \in Nat /\ MaxSize[m.item] \in Nat
  BY <1>1, StackIs DEF IsMove, ItemsAssumption
<1>3. machine[m.slot].size + a <= MaxSize[m.item]
  BY DEF MovesFit, FitsWith
<1>4. a \in Nat /\ m.size <= a
  <2> DEFINE into == {k \in moves : k.slot = m.slot}
  <2>1. AreMoves(into) /\ m \in into
    BY <1>1, FS_Subset DEF AreMoves
  <2> HIDE DEF into
  <2>2. Moved(into) \in Nat /\ Moved(into) = m.size + Moved(into \ {m}) /\ Moved(into \ {m}) \in Nat
    BY <2>1, MovedWithout
  <2>3. Moved(into) \in Nat /\ m.size <= Moved(into)
    BY <1>2, <2>2
  <2> QED
    BY <2>3 DEF into
<1> HIDE DEF a
<1>5. n \in Nat \ {0} /\ n <= MaxSize[m.item]
  BY <1>2, <1>3, <1>4
<1> HIDE DEF n
<1>6. s = Stack(m.item, n)
  BY ScatteringStacks DEF n
<1>7. IsStack(s) /\ s.size = n /\ s.item = m.item
  BY <1>1, <1>2, <1>5, <1>6, StackOf
<1> QED
  BY <1>7 DEF n

\* A computer executes a transfer.
LEMMA ScatteringLoadKeeps ==
    ASSUME ScatteringAssumption, ScatteringInv, NEW m \in moves, Scattering!Load(m)
    PROVE  ScatteringInv'
<1>1. ScatteringTypes /\ MovesFit /\ MovesInPhase
  BY DEF ScatteringInv
<1>2. /\ moves' = moves \ {m}
      /\ machine' = [machine EXCEPT ![m.slot] = Scattering!Stack(m.item, machine[m.slot].size + m.size)]
      /\ UNCHANGED <<stored, info, listed, output, phase>>
  BY DEF Scattering!Load
<1>3. phase = "working"
  BY <1>1 DEF MovesInPhase
<1>4. m.slot \in Ins /\ m.slot \in Scattering!Slots /\ DOMAIN machine = Scattering!Slots
  BY <1>1, ScatteringAssumes DEF ScatteringTypes, AreMoves, IsMove, AreStacksIn
<1>5. /\ IsStack(machine'[m.slot]) /\ machine'[m.slot].item = m.item
      /\ machine'[m.slot].size = machine[m.slot].size + m.size
  <2>1. machine'[m.slot] = Scattering!Stack(m.item, machine[m.slot].size + m.size)
    BY <1>2, <1>4
  <2> QED
    BY <1>1, <2>1, MoveLoads
<1>6. \A s \in Scattering!Slots \ {m.slot} : machine'[s] = machine[s]
  BY <1>2, <1>4
<1>7. AreStacksIn(machine')
  BY <1>1, <1>2, <1>4, <1>5, <1>6 DEF AreStacksIn, ScatteringTypes
<1>8. \A s \in Ins \ {m.slot} : machine'[s] = machine[s]
  BY <1>6, ScatteringAssumes
<1>9. AreMoves(moves \ {m}) /\ \A n \in moves \ {m} : FitsWith(moves \ {m}, machine', n)
  BY <1>1, <1>5, <1>8, OthersFit
<1>10. ScatteringTypes'
  BY <1>1, <1>2, <1>7, <1>9 DEF ScatteringTypes
<1>11. MovesFit'
  BY <1>2, <1>9 DEF MovesFit
<1>12. MovesInPhase' /\ ScatteringKnows' /\ KnowsInputs'
  BY <1>2, <1>3 DEF MovesInPhase, ScatteringKnows, KnowsInputs
<1> QED
  BY <1>10, <1>11, <1>12 DEF ScatteringInv

\* A transfer fails, and its items go back.
LEMMA ScatteringLoadFailsKeeps ==
    ASSUME ScatteringAssumption, ScatteringInv, NEW m \in moves, Scattering!LoadFails(m)
    PROVE  ScatteringInv'
<1>1. ScatteringTypes /\ MovesFit /\ MovesInPhase
  BY DEF ScatteringInv
<1>2. /\ moves' = moves \ {m} /\ stored' = [stored EXCEPT ![m.item] = stored[m.item] + m.size]
      /\ UNCHANGED <<info, machine, listed, output, phase>>
  BY DEF Scattering!LoadFails
<1>3. phase = "working"
  BY <1>1 DEF MovesInPhase
<1>4. AreMoves(moves \ {m}) /\ \A n \in moves \ {m} : FitsWith(moves \ {m}, machine, n)
  BY <1>1, OthersFit
<1>5. stored' \in [Items -> Nat]
  <2>1. m.item \in Items /\ m.size \in Nat /\ stored \in [Items -> Nat]
    BY <1>1 DEF ScatteringTypes, AreMoves, IsMove
  <2>2. stored[m.item] + m.size \in Nat
    BY <2>1
  <2> QED
    BY <1>2, <2>1, <2>2
<1>6. ScatteringTypes'
  BY <1>1, <1>2, <1>4, <1>5 DEF ScatteringTypes
<1>7. MovesFit'
  BY <1>2, <1>4 DEF MovesFit
<1>8. MovesInPhase' /\ ScatteringKnows' /\ KnowsInputs'
  BY <1>2, <1>3 DEF MovesInPhase, ScatteringKnows, KnowsInputs
<1> QED
  BY <1>6, <1>7, <1>8 DEF ScatteringInv

\* The products are stored.
LEMMA ScatteringStoresKeeps ==
    ASSUME ScatteringAssumption, ScatteringInv, Scattering!ProcessOutput PROVE ScatteringInv'
<1>1. ScatteringTypes /\ AreStacksIn(machine) /\ OutSlot \notin Ins /\ OutSlot \in Scattering!Slots /\ ItemsAssumption
  BY ScatteringAssumes DEF ScatteringInv, ScatteringTypes
<1>2. /\ output' = 0
      /\ stored' = [i \in Items |-> stored[i] + IF machine[OutSlot].item = i THEN machine[OutSlot].size ELSE 0]
      /\ machine' = [machine EXCEPT ![OutSlot] = Empty]
      /\ UNCHANGED <<info, listed, moves, phase>>
  BY ScatteringStacks DEF Scattering!ProcessOutput
<1>3. \A s \in Scattering!Slots : machine[s].size \in Nat
  BY <1>1, StackIs DEF AreStacksIn
<1>4. ASSUME NEW i \in Items PROVE stored'[i] \in Nat /\ stored[i] <= stored'[i]
  <2>1. stored[i] \in Nat /\ stored'[i] = stored[i] + IF machine[OutSlot].item = i THEN machine[OutSlot].size ELSE 0
    BY <1>1, <1>2 DEF ScatteringTypes
  <2>2. machine[OutSlot].size \in Nat
    BY <1>1, <1>3
  <2> QED
    BY <2>1, <2>2
<1>5. stored' \in [Items -> Nat]
  <2>1. stored' = [i \in Items |-> stored'[i]]
    BY <1>2
  <2> QED
    BY <1>4, <2>1
<1>6. AreStacksIn(machine')
  BY <1>1, <1>2 DEF AreStacksIn, IsStack
<1>7. InputsLess(machine', machine)
  <2>1. \A s \in Ins : machine'[s] = machine[s] /\ machine[s].size \in Nat
    BY <1>1, <1>2, <1>3, ScatteringAssumes DEF AreStacksIn
  <2> QED
    BY <2>1 DEF InputsLess
<1> QED
  BY <1>2, <1>4, <1>5, <1>6, <1>7, ScatteringWorkKeeps

\* The cycle ends.
LEMMA ScatteringEndKeeps == ASSUME ScatteringAssumption, ScatteringInv, Scattering!EndOfCycle PROVE ScatteringInv'
<1>1. ScatteringTypes /\ MovesFit /\ MovesInPhase
  BY DEF ScatteringInv
<1>2. /\ moves = {} /\ output = 0 /\ phase' = "idle" /\ info' = Scattering!Unknown
      /\ UNCHANGED <<stored, machine, listed, moves, output>>
  BY DEF Scattering!EndOfCycle
<1>3. ScatteringTypes'
  BY <1>1, <1>2 DEF ScatteringTypes, Scattering!Unknown
<1>4. MovesFit' /\ MovesInPhase' /\ ScatteringKnows' /\ KnowsInputs'
  BY <1>2 DEF MovesFit, MovesInPhase, ScatteringKnows, KnowsInputs
<1> QED
  BY <1>3, <1>4 DEF ScatteringInv

\* The machine works on a slot.
LEMMA ScatteringCraftKeeps ==
    ASSUME ScatteringAssumption, ScatteringInv, NEW r \in DOMAIN Recipes, NEW slot \in Ins, Scattering!Craft(r, slot)
    PROVE  ScatteringInv'
<1> DEFINE i == Scattering!Product(r)
           less == Stack(machine[slot].item, machine[slot].size - 1)
           more == Stack(i, machine[OutSlot].size + CraftSize[r])
<1>1. ScatteringTypes /\ AreStacksIn(machine)
  BY DEF ScatteringInv, ScatteringTypes
<1>2. /\ OutSlot \notin Ins /\ Scattering!Slots = Ins \cup {OutSlot} /\ ItemsAssumption
      /\ i \in Items /\ CraftSize[r] \in Nat /\ MaxSize[i] \in Nat
  BY ScatteringAssumes DEF ItemsAssumption
<1>3. /\ machine[slot] # Empty /\ machine[OutSlot].size + CraftSize[r] <= MaxSize[i]
      /\ machine' = [machine EXCEPT ![slot] = less, ![OutSlot] = more]
      /\ UNCHANGED <<stored, info, listed, moves, output, phase>>
  <2>1. /\ machine[slot] # Empty /\ machine[OutSlot].size + CraftSize[r] <= MaxSize[i]
        /\ machine' = [machine EXCEPT ![slot] = Scattering!Stack(@.item, @.size - 1),
                                      ![OutSlot] = Scattering!Stack(i, @.size + CraftSize[r])]
        /\ UNCHANGED <<stored, info, listed, moves, output, phase>>
    BY ScatteringStacks DEF Scattering!Craft
  <2>2. machine' = [machine EXCEPT ![slot] = less, ![OutSlot] = more]
    BY <1>2, <2>1, ScatteringStacks
  <2> QED
    BY <2>1, <2>2
<1>4. IsStack(machine[slot]) /\ IsStack(machine[OutSlot]) /\ DOMAIN machine = Ins \cup {OutSlot}
  BY <1>1, <1>2 DEF AreStacksIn
<1>5. /\ machine[slot].item \in Items /\ machine[slot].size \in Nat /\ machine[slot].size # 0
      /\ machine[slot].size <= MaxSize[machine[slot].item] /\ machine[OutSlot].size \in Nat
      /\ MaxSize[machine[slot].item] \in Nat
  BY <1>2, <1>3, <1>4, StackIs DEF ItemsAssumption
<1>6. IsStack(less) /\ less.size = machine[slot].size - 1 /\ less.item \in {NoItem, machine[slot].item}
  <2>1. machine[slot].size - 1 \in Nat /\ machine[slot].size - 1 <= MaxSize[machine[slot].item]
    BY <1>5
  <2> QED
    BY <1>2, <1>5, <2>1, StackOf
<1>7. IsStack(more)
  <2>1. machine[OutSlot].size + CraftSize[r] \in Nat
    BY <1>2, <1>5
  <2> QED
    BY <1>2, <1>3, <2>1, StackOf
<1> HIDE DEF less, more, i
<1>8. /\ machine'[slot] = less /\ machine'[OutSlot] = more
      /\ \A s \in Ins \ {slot} : machine'[s] = machine[s]
      /\ DOMAIN machine' = Scattering!Slots
  BY <1>2, <1>3, <1>4
<1>9. AreStacksIn(machine')
  BY <1>1, <1>2, <1>6, <1>7, <1>8 DEF AreStacksIn
<1>10. InputsLess(machine', machine)
  <2> SUFFICES ASSUME NEW s \in Ins
               PROVE  machine'[s].size <= machine[s].size /\ machine'[s].item \in {NoItem, machine[s].item}
    BY DEF InputsLess
  <2>1. CASE s = slot
    BY <1>5, <1>6, <1>8, <2>1
  <2>2. CASE s # slot
    <3>1. machine'[s] = machine[s] /\ machine[s].size \in Nat
      BY <1>1, <1>2, <1>8, <2>2, StackIs DEF AreStacksIn
    <3> QED
      BY <3>1
  <2> QED
    BY <2>1, <2>2
<1>11. /\ stored' \in [Items -> Nat] /\ output' \in {0, 1}
       /\ \A j \in Items : stored[j] \in Nat /\ stored'[j] = stored[j]
  BY <1>1, <1>3 DEF ScatteringTypes
<1>12. \A j \in Items : stored[j] <= stored'[j]
  BY <1>11
<1> QED
  BY <1>3, <1>9, <1>10, <1>11, <1>12, ScatteringWorkKeeps

\* Every step keeps the invariant.
LEMMA ScatteringKeeps ==
    ASSUME ScatteringAssumption, ScatteringInv, [Scattering!Next]_(Scattering!vars)
    PROVE  ScatteringInv'
<1>1. CASE UNCHANGED Scattering!vars
  <2>1. UNCHANGED <<stored, info, machine, listed, moves, output, phase>>
    BY <1>1 DEF Scattering!vars
  <2> QED
    BY <2>1 DEF ScatteringInv, ScatteringTypes, MovesFit, MovesInPhase, ScatteringKnows, KnowsInputs
<1>2. CASE Scattering!Cycle \/ Scattering!List \/ Scattering!Plan
  BY <1>2, ScatteringCycleKeeps, ScatteringListKeeps, ScatteringPlanKeeps
<1>3. CASE Scattering!ProcessOutput \/ Scattering!EndOfCycle
  BY <1>3, ScatteringStoresKeeps, ScatteringEndKeeps
<1>4. CASE \E m \in moves : Scattering!Load(m) \/ Scattering!LoadFails(m)
  BY <1>4, ScatteringLoadKeeps, ScatteringLoadFailsKeeps
<1>5. CASE \E r \in DOMAIN Recipes, slot \in Scattering!ToSet(InOrder) : Scattering!Craft(r, slot)
  BY <1>5, ScatteringSums, ScatteringCraftKeeps DEF Ins
<1> QED
  BY <1>1, <1>2, <1>3, <1>4, <1>5 DEF Scattering!Next

\* The inductive invariant of ProcessScatteringWorkingSet holds (Processes.cpp), for any
\* recipes, slots and stored items.
THEOREM ScatteringInvariant == ScatteringAssumption => (Scattering!Spec => []ScatteringInv)
<1> SUFFICES ASSUME ScatteringAssumption PROVE Scattering!Spec => []ScatteringInv
  OBVIOUS
<1>1. Scattering!Init => ScatteringInv
  BY ScatteringStarts
<1>2. ScatteringInv /\ [Scattering!Next]_(Scattering!vars) => ScatteringInv'
  BY ScatteringKeeps
<1> QED
  BY <1>1, <1>2, PTL DEF Scattering!Spec

\* Every transfer finds room in its slot although each slot works on (TypeOK and TransfersFit
\* of CppScattering), and the items of a recipe fit into one slot of the bus (OneBusSlot):
\* ProcessScatteringWorkingSet::cycle of Processes.cpp.
THEOREM ScatteringTransfersFit ==
    ScatteringAssumption =>
        (Scattering!Spec => [](Scattering!TypeOK /\ Scattering!TransfersFit /\ Scattering!OneBusSlot))
<1> SUFFICES ASSUME ScatteringAssumption
             PROVE  Scattering!Spec => [](Scattering!TypeOK /\ Scattering!TransfersFit /\ Scattering!OneBusSlot)
  OBVIOUS
<1>1. ScatteringInv => Scattering!TypeOK /\ Scattering!TransfersFit /\ Scattering!OneBusSlot
  <2> SUFFICES ASSUME ScatteringInv PROVE Scattering!TypeOK /\ Scattering!TransfersFit /\ Scattering!OneBusSlot
    OBVIOUS
  <2>1. ScatteringTypes /\ MovesFit
    BY DEF ScatteringInv
  <2>2. \A contents \in {machine, listed} : \A slot \in Scattering!Slots :
          \/ contents[slot] = Scattering!Empty
          \/ contents[slot].item \in Items /\ contents[slot].size \in 1 .. MaxSize[contents[slot].item]
    BY <2>1, ScatteringStacks DEF ScatteringTypes, AreStacksIn, IsStack
  <2>3. \A m \in moves : /\ m.recipe \in DOMAIN Recipes /\ m.item \in Items
                         /\ m.slot \in Scattering!ToSet(InOrder) /\ m.size \in Nat \ {0}
    BY <2>1, ScatteringSums DEF ScatteringTypes, AreMoves, IsMove, Ins
  <2>4. Scattering!TypeOK
    BY <2>1, <2>2, <2>3 DEF Scattering!TypeOK, ScatteringTypes
  <2>5. Scattering!TransfersFit
    <3>1. \A m \in moves : FitsWith(moves, machine, m)
      BY <2>1 DEF MovesFit
    <3> QED
      BY <3>1, MovedIs DEF Scattering!TransfersFit, Scattering!Into, Scattering!Coming, FitsWith
  <2>6. Scattering!OneBusSlot
    <3> SUFFICES ASSUME NEW r \in DOMAIN Recipes, NEW m \in moves, m.recipe = r
                 PROVE  Scattering!Total({k \in moves : k.recipe = r}) <= MaxSize[m.item]
      BY DEF Scattering!OneBusSlot
    <3>1. Moved({k \in moves : k.recipe = m.recipe}) <= MaxSize[m.item]
      BY <2>1 DEF MovesFit, FitsWith
    <3> QED
      BY <3>1, MovedIs
  <2> QED
    BY <2>4, <2>5, <2>6
<1> QED
  BY <1>1, ScatteringInvariant, PTL

\* "This process will try to spread out input items among slots" (README.md): where the
\* plan adds items, no other slot that could have had them stays two behind (SpreadsOut
\* of CppScattering, the part of StepsAsPromised that is about this process).
THEOREM ScatteringSpreadsOut == ScatteringAssumption => (Scattering!Spec => Scattering!SpreadOut)
<1> SUFFICES ASSUME ScatteringAssumption PROVE Scattering!Spec => Scattering!SpreadOut
  OBVIOUS
<1>1. ScatteringInv /\ [Scattering!Next]_(Scattering!vars) => [Scattering!SpreadsOut]_(Scattering!vars)
  <2> SUFFICES ASSUME ScatteringInv, Scattering!Next PROVE Scattering!SpreadsOut
    OBVIOUS
  <2> DEFINE holds(s) == listed[s].size + Scattering!Total({n \in moves' : n.slot = s})
  <2> SUFFICES ASSUME phase = "listed", NEW m \in moves', NEW slot \in Scattering!ToSet(InOrder),
                      listed[slot].item \in {NoItem, m.item},
                      \A n \in moves' : n.slot = slot => n.item = m.item
               PROVE  holds(slot) >= holds(m.slot) - 1
    BY Zenon DEF Scattering!SpreadsOut
  <2>3. slot \in Ins
    BY ScatteringSums DEF Ins
  <2>1. CASE Scattering!Plan
    <3>1. PICK q, done : Pictured(listed, q, done) /\ moves' = q.moves
      BY <2>1, ScatteringPlans
    <3>2. PicturedSlots(listed, q) /\ AreMoves(q.moves)
      BY <3>1 DEF Pictured, PicturedMoves
    <3>3. m.slot \in Ins
      BY <3>1, <3>2 DEF AreMoves, IsMove
    <3>4. /\ q.items[m.slot].item = m.item /\ IsEven(q.items, m.slot)
          /\ \A s \in Ins : q.items[s].size = listed[s].size + Moved({n \in q.moves : n.slot = s})
      BY <3>1, <3>2 DEF PicturedSlots
    <3>5. q.items[slot].item \in {NoItem, m.item}
      <4>1. CASE \A n \in q.moves : n.slot # slot
        BY <2>3, <3>2, <4>1 DEF PicturedSlots
      <4>2. CASE \E n \in q.moves : n.slot = slot
        BY <3>1, <3>2, <4>2 DEF PicturedSlots
      <4> QED
        BY <4>1, <4>2
    <3>6. q.items[slot].size >= q.items[m.slot].size - 1
      BY <2>3, <3>4, <3>5 DEF IsEven
    <3>7. \A s \in Ins : holds(s) = q.items[s].size
      <4>1. \A s : holds(s) = listed[s].size + Moved({n \in q.moves : n.slot = s})
        BY <3>1, MovedIs
      <4> QED
        BY <3>4, <4>1
    <3> QED
      BY <2>3, <3>3, <3>6, <3>7
  <2>2. ASSUME Scattering!Next, ~Scattering!Plan PROVE FALSE
    <3>1. moves = {} /\ output = 0
      BY DEF ScatteringInv, MovesInPhase
    <3>2. CASE Scattering!Cycle \/ Scattering!List \/ Scattering!EndOfCycle \/ Scattering!ProcessOutput
      BY <3>1, <3>2 DEF Scattering!Cycle, Scattering!List, Scattering!EndOfCycle, Scattering!ProcessOutput
    <3>3. CASE \E r \in DOMAIN Recipes, s \in Scattering!ToSet(InOrder) : Scattering!Craft(r, s)
      BY <3>1, <3>3 DEF Scattering!Craft
    <3> QED
      BY <2>2, <3>1, <3>2, <3>3 DEF Scattering!Next
  <2> QED
    BY <2>1, <2>2
<1> QED
  BY <1>1, ScatteringInvariant, PTL DEF Scattering!Spec, Scattering!SpreadOut

\* Only the plan takes something from the storages, and it leaves what is set aside,
\* unless an ingredient may use that up (LeavesBackup of CppScattering).
THEOREM ScatteringLeavesBackup == ScatteringAssumption => (Scattering!Spec => Scattering!BackupStays)
<1> SUFFICES ASSUME ScatteringAssumption PROVE Scattering!Spec => Scattering!BackupStays
  OBVIOUS
<1>1. ScatteringInv /\ [Scattering!Next]_(Scattering!vars) => [Scattering!LeavesBackup]_(Scattering!vars)
  <2> SUFFICES ASSUME ScatteringInv, Scattering!Next PROVE Scattering!LeavesBackup
    OBVIOUS
  <2>1. ScatteringTypes /\ \A i \in Items : stored[i] \in Nat
    BY DEF ScatteringInv, ScatteringTypes
  <2> SUFFICES ASSUME NEW i \in Items, stored'[i] < stored[i], ~MayTakeBackup(i)
               PROVE  stored'[i] >= Backup[i]
    BY ScatteringStacks, Zenon DEF Scattering!LeavesBackup, MayTakeBackup
  <2>2. CASE Scattering!Plan
    <3>1. /\ phase = "listed" /\ stored' = [j \in Items |-> stored[j] - Moved({m \in moves' : m.item = j})]
      BY <2>2, ScatteringPlans
    <3>2. PICK q, done : Pictured(listed, q, done) /\ moves' = q.moves
      BY <2>2, ScatteringPlans
    <3> DEFINE n == Moved({m \in moves' : m.item = i})
    <3>3. /\ n \in Nat /\ n <= stored[i]
          /\ n = 0 \/ stored[i] - n >= Backup[i]
      BY <3>1, <3>2, PlanTakes
    <3>4. stored'[i] = stored[i] - n
      BY <3>1
    <3> HIDE DEF n
    <3> QED
      BY <2>1, <3>3, <3>4
  <2>3. CASE Scattering!ProcessOutput
    <3>1. stored' = [j \in Items |-> stored[j] + IF machine[OutSlot].item = j THEN machine[OutSlot].size ELSE 0]
      BY <2>3 DEF Scattering!ProcessOutput
    <3>2. machine[OutSlot].size \in Nat
      BY <2>1, ScatteringAssumes, StackIs DEF ScatteringTypes, AreStacksIn
    <3>3. stored'[i] = stored[i] + IF machine[OutSlot].item = i THEN machine[OutSlot].size ELSE 0
      BY <3>1
    <3> QED
      BY <2>1, <3>2, <3>3
  <2>4. ASSUME NEW m \in moves, Scattering!LoadFails(m) PROVE FALSE
    <3>1. stored' = [stored EXCEPT ![m.item] = stored[m.item] + m.size]
      BY <2>4 DEF Scattering!LoadFails
    <3>2. m.item \in Items /\ m.size \in Nat /\ stored \in [Items -> Nat]
      BY <2>1 DEF ScatteringTypes, AreMoves, IsMove
    <3>3. stored'[i] = IF i = m.item THEN stored[i] + m.size ELSE stored[i]
      BY <3>1, <3>2
    <3> QED
      BY <2>1, <3>2, <3>3
  <2>5. CASE stored' = stored
    BY <2>1, <2>5
  <2>6. ASSUME Scattering!Next, ~Scattering!Plan, ~Scattering!ProcessOutput, \A m \in moves : ~Scattering!LoadFails(m)
        PROVE  stored' = stored
    <3>1. CASE Scattering!Cycle \/ Scattering!List \/ Scattering!EndOfCycle
      BY <3>1, Zenon DEF Scattering!Cycle, Scattering!List, Scattering!EndOfCycle
    <3>2. CASE \E m \in moves : Scattering!Load(m)
      BY <3>2, Zenon DEF Scattering!Load
    <3>3. CASE \E r \in DOMAIN Recipes, slot \in Scattering!ToSet(InOrder) : Scattering!Craft(r, slot)
      BY <3>3, Zenon DEF Scattering!Craft
    <3> QED
      BY <2>6, <3>1, <3>2, <3>3 DEF Scattering!Next
  <2> QED
    BY <2>2, <2>3, <2>4, <2>5, <2>6
<1> QED
  BY <1>1, ScatteringInvariant, PTL DEF Scattering!Spec, Scattering!BackupStays
====
