---------------------------- MODULE CppBus_proofs ----------------------------
(***************************************************************************)
(* The inductive invariant of CppBus and the theorems it proves.  The      *)
(* state predicates take the record of the bus as a parameter, and with it *)
(* the slots H that parts hold, the parts Q that wait, and the slots D     *)
(* that are dirty: a handler applies several operators to the record one   *)
(* after the other, and each one has its lemma.                            *)
(***************************************************************************)
EXTENDS CppBus, CommonLemmas, SequenceTheorems, FiniteSetTheorems, TLAPS

(***************************************************************************)
(* What is posted: the parts it resolves, the slots it grants.             *)
(***************************************************************************)
Resolves(x) == x[1] \in {"grant", "fail"}
Resolved(P) == {P[i][2] : i \in {k \in 1 .. Len(P) : Resolves(P[k])}}
Granted(P) == {P[i][3] : i \in {k \in 1 .. Len(P) : P[k][1] = "grant"}}

\* A part is resolved once, a slot is granted once.
StrandOK(P) ==
    /\ \A i, k \in 1 .. Len(P) : Resolves(P[i]) /\ Resolves(P[k]) /\ P[i][2] = P[k][2] => i = k
    /\ \A i, k \in 1 .. Len(P) : P[i][1] = "grant" /\ P[k][1] = "grant" /\ P[i][3] = P[k][3] => i = k

Once(q) == \A i, k \in 1 .. Len(q) : q[i] = q[k] => i = k

\* The promises that wait are in busWaitQueue or in the strand, once.
QueueOK(b, Q) ==
    /\ Once(b.busWaitQueue)
    /\ ToSet(b.busWaitQueue) \cap Resolved(b.posted) = {}
    /\ Q = ToSet(b.busWaitQueue) \cup Resolved(b.posted)

\* busAllocations is what parts hold, what is granted, and what waits to be freed.
OwnersOK(b, H) ==
    /\ b.busAllocations = H \cup Granted(b.posted) \cup b.busFreeQueue
    /\ H \cap Granted(b.posted) = {}
    /\ (H \cup Granted(b.posted)) \cap b.busFreeQueue = {}

\* What is granted is empty; what got dirty since the bus was listed is allocated.
CleanOK(b, D) ==
    /\ Granted(b.posted) \cap D = {}
    /\ b.update = "listed" => D \ b.listed \subseteq b.busAllocations

\* Nothing is left in the strand of an update that had nothing to insert.
NoTrivial(P) == \A i \in 1 .. Len(P) : P[i][1] # "trivial"
OneTrivial(P) == \A i, k \in 1 .. Len(P) : P[i][1] = "trivial" /\ P[k][1] = "trivial" => i = k

\* An update runs within its cycle.  What ends one that inserts nothing is
\* posted once.
CycleOK(b) ==
    /\ b.isBusRunning => b.cycle \in {"run", "drain"}
    /\ b.cycle = "drain" <=> b.endOfCycleAfterBusUpdate
    /\ b.cycle = "drain" => b.isBusRunning
UpdateOK(b) ==
    /\ b.isBusRunning <=> b.update # "none"
    /\ b.update # "trivial" => NoTrivial(b.posted)
    /\ OneTrivial(b.posted)
    /\ b.inserting # {} => b.update = "inserting"

\* When an update may start or end.
Ready(b, H, Q, D) ==
    /\ b \in BusType /\ StrandOK(b.posted) /\ NoTrivial(b.posted) /\ b.inserting = {}
    /\ QueueOK(b, Q) /\ OwnersOK(b, H) /\ Granted(b.posted) \cap D = {}
    /\ b.cycle \in {"run", "drain"} /\ (b.cycle = "drain" <=> b.endOfCycleAfterBusUpdate)

BusOK(b, H, Q, D) ==
    /\ b \in BusType /\ StrandOK(b.posted)
    /\ QueueOK(b, Q) /\ OwnersOK(b, H) /\ CleanOK(b, D) /\ CycleOK(b) /\ UpdateOK(b)

\* The parts of a job agree with its stage and with the slots they have.
PartsOK ==
    /\ \A p \in AllParts : part[p] \in {"idle", "queued"} => slotOf[p] = NoSlot
    /\ \A p \in AllParts : part[p] \in {"extracting", "loaded"} => slotOf[p] # NoSlot
    /\ \A p, q \in AllParts : slotOf[p] = slotOf[q] /\ slotOf[p] # NoSlot => p = q
    /\ \A p \in AllParts : part[p] = "extracting" => slotOf[p] \notin dirty
StageOK(j) ==
    /\ stage[j] \notin {"load", "insert"} => \A p \in Parts(j) : part[p] = "idle"
    /\ stage[j] = "load" =>
         /\ \A p \in Parts(j) : part[p] # "idle"
         /\ \E p \in Parts(j) : part[p] \in {"queued", "extracting"}
    /\ stage[j] = "insert" => Kind[j] # "extract" /\ \A p \in Parts(j) : part[p] = "loaded"
    /\ stage[j] # "off" => j \in base.processes
    /\ Active(j) => bus.cycle = "run"

\* Nothing has failed.
NoFailure(P) == \A i \in 1 .. Len(P) : P[i][1] # "fail"
Fine(b) == ~b.failed /\ NoFailure(b.posted)
FaultsOK ==
    base.faults = 0 => faults = 0 /\ Fine(bus) /\ \A p \in AllParts : part[p] # "failed"

Waiting == {p \in AllParts : part[p] = "queued"}

Inv ==
    /\ TypeOK /\ BusOK(bus, Held, Waiting, dirty)
    /\ PartsOK /\ (\A j \in Jobs : StageOK(j)) /\ FaultsOK
-----------------------------------------------------------------------------
(***************************************************************************)
(* The strand.                                                             *)
(***************************************************************************)
\* What a posted handler may be.
LEMMA PostParts ==
    ASSUME NEW x \in Posts
    PROVE  /\ Resolves(x) => x[2] \in AllParts
           /\ x[1] = "grant" => x[3] \in Slots /\ x = <<"grant", x[2], x[3]>>
           /\ x[1] \in {"grant", "fail", "trivial", "partSent", "jobSent", "listSent"}
<1>1. CASE x \in {"grant"} \X AllParts \X Slots
  BY <1>1 DEF Resolves
<1>2. CASE x \in {"fail"} \X AllParts
  BY <1>2 DEF Resolves
<1>3. CASE x = <<"trivial">>
  BY <1>3 DEF Resolves
<1>4. CASE x \in {"partSent"} \X AllParts
  BY <1>4 DEF Resolves
<1>5. CASE x \in {"jobSent"} \X Jobs
  BY <1>5 DEF Resolves
<1>6. CASE x = <<"listSent">>
  BY <1>6 DEF Resolves
<1> QED
  BY <1>1, <1>2, <1>3, <1>4, <1>5, <1>6 DEF Posts

\* The parts and slots in the strand, by their places.
LEMMA StrandSets ==
    ASSUME NEW P \in Seq(Posts)
    PROVE  /\ Resolved(P) \subseteq AllParts /\ Granted(P) \subseteq Slots
           /\ \A i \in 1 .. Len(P) : P[i] \in Posts
           /\ \A i \in 1 .. Len(P) : Resolves(P[i]) => P[i][2] \in Resolved(P)
           /\ \A i \in 1 .. Len(P) : P[i][1] = "grant" => Resolves(P[i]) /\ P[i][3] \in Granted(P)
           /\ \A p \in Resolved(P) : \E i \in 1 .. Len(P) : Resolves(P[i]) /\ P[i][2] = p
           /\ \A s \in Granted(P) : \E i \in 1 .. Len(P) : P[i][1] = "grant" /\ P[i][3] = s
<1>1. \A i \in 1 .. Len(P) : P[i] \in Posts
  BY ElementOfSeq
<1>2. \A i \in 1 .. Len(P) :
         (Resolves(P[i]) => P[i][2] \in AllParts) /\ (P[i][1] = "grant" => P[i][3] \in Slots)
  BY <1>1, PostParts
<1> QED
  BY <1>1, <1>2 DEF Resolved, Granted, Resolves

\* More handlers are posted.
LEMMA StrandConcat ==
    ASSUME NEW P \in Seq(Posts), NEW R \in Seq(Posts), StrandOK(P), StrandOK(R),
           Resolved(P) \cap Resolved(R) = {}, Granted(P) \cap Granted(R) = {}
    PROVE  /\ P \o R \in Seq(Posts) /\ StrandOK(P \o R)
           /\ Resolved(P \o R) = Resolved(P) \cup Resolved(R)
           /\ Granted(P \o R) = Granted(P) \cup Granted(R)
           /\ NoTrivial(P) /\ NoTrivial(R) => NoTrivial(P \o R)
           /\ NoFailure(P) /\ NoFailure(R) => NoFailure(P \o R)
<1> DEFINE C == P \o R
           m == Len(P)
           n == Len(R)
<1>1. /\ C \in Seq(Posts) /\ Len(C) = m + n /\ m \in Nat /\ n \in Nat
      /\ \A i \in 1 .. m + n : C[i] = IF i <= m THEN P[i] ELSE R[i - m]
  BY ConcatProperties
<1>2. /\ \A i \in 1 .. m : Resolves(P[i]) => P[i][2] \in Resolved(P)
      /\ \A i \in 1 .. m : P[i][1] = "grant" => P[i][3] \in Granted(P)
      /\ \A p \in Resolved(P) : \E i \in 1 .. m : Resolves(P[i]) /\ P[i][2] = p
      /\ \A s \in Granted(P) : \E i \in 1 .. m : P[i][1] = "grant" /\ P[i][3] = s
  BY StrandSets
<1>3. /\ \A i \in 1 .. n : Resolves(R[i]) => R[i][2] \in Resolved(R)
      /\ \A i \in 1 .. n : R[i][1] = "grant" => R[i][3] \in Granted(R)
      /\ \A p \in Resolved(R) : \E i \in 1 .. n : Resolves(R[i]) /\ R[i][2] = p
      /\ \A s \in Granted(R) : \E i \in 1 .. n : R[i][1] = "grant" /\ R[i][3] = s
  BY StrandSets
<1>4. /\ \A i \in 1 .. Len(C) : Resolves(C[i]) => C[i][2] \in Resolved(C)
      /\ \A i \in 1 .. Len(C) : C[i][1] = "grant" => C[i][3] \in Granted(C)
      /\ \A p \in Resolved(C) : \E i \in 1 .. Len(C) : Resolves(C[i]) /\ C[i][2] = p
      /\ \A s \in Granted(C) : \E i \in 1 .. Len(C) : C[i][1] = "grant" /\ C[i][3] = s
  BY <1>1, StrandSets
<1> HIDE DEF C, m, n
<1>5. \A i \in 1 .. m + n : \/ i \in 1 .. m /\ C[i] = P[i]
                            \/ i - m \in 1 .. n /\ C[i] = R[i - m]
  BY <1>1
<1>6. /\ \A i \in 1 .. m : i \in 1 .. m + n /\ C[i] = P[i]
      /\ \A i \in 1 .. n : m + i \in 1 .. m + n /\ C[m + i] = R[i]
  BY <1>1
<1>7. /\ \A i, k \in 1 .. m : Resolves(P[i]) /\ Resolves(P[k]) /\ P[i][2] = P[k][2] => i = k
      /\ \A i, k \in 1 .. m : P[i][1] = "grant" /\ P[k][1] = "grant" /\ P[i][3] = P[k][3] => i = k
      /\ \A i, k \in 1 .. n : Resolves(R[i]) /\ Resolves(R[k]) /\ R[i][2] = R[k][2] => i = k
      /\ \A i, k \in 1 .. n : R[i][1] = "grant" /\ R[k][1] = "grant" /\ R[i][3] = R[k][3] => i = k
  BY DEF StrandOK, m, n
<1>8. ASSUME NEW i \in 1 .. m + n, NEW k \in 1 .. m + n,
             Resolves(C[i]), Resolves(C[k]), C[i][2] = C[k][2]
      PROVE  i = k
  <2>1. (i \in 1 .. m /\ C[i] = P[i]) \/ (i - m \in 1 .. n /\ C[i] = R[i - m])
    BY <1>1, <1>5
  <2>2. (k \in 1 .. m /\ C[k] = P[k]) \/ (k - m \in 1 .. n /\ C[k] = R[k - m])
    BY <1>1, <1>5
  <2>3. CASE i \in 1 .. m /\ C[i] = P[i] /\ k \in 1 .. m /\ C[k] = P[k]
    BY <1>7, <1>8, <2>3
  <2>4. CASE i - m \in 1 .. n /\ C[i] = R[i - m] /\ k - m \in 1 .. n /\ C[k] = R[k - m]
    <3>1. i - m = k - m
      BY <1>7, <1>8, <2>4
    <3> QED
      BY <1>1, <3>1
  <2>5. CASE i \in 1 .. m /\ C[i] = P[i] /\ k - m \in 1 .. n /\ C[k] = R[k - m]
    BY <1>2, <1>3, <1>8, <2>5
  <2>6. CASE i - m \in 1 .. n /\ C[i] = R[i - m] /\ k \in 1 .. m /\ C[k] = P[k]
    BY <1>2, <1>3, <1>8, <2>6
  <2> QED
    BY <2>1, <2>2, <2>3, <2>4, <2>5, <2>6
<1>9. ASSUME NEW i \in 1 .. m + n, NEW k \in 1 .. m + n,
             C[i][1] = "grant", C[k][1] = "grant", C[i][3] = C[k][3]
      PROVE  i = k
  <2>1. (i \in 1 .. m /\ C[i] = P[i]) \/ (i - m \in 1 .. n /\ C[i] = R[i - m])
    BY <1>1, <1>5
  <2>2. (k \in 1 .. m /\ C[k] = P[k]) \/ (k - m \in 1 .. n /\ C[k] = R[k - m])
    BY <1>1, <1>5
  <2>3. CASE i \in 1 .. m /\ C[i] = P[i] /\ k \in 1 .. m /\ C[k] = P[k]
    BY <1>7, <1>9, <2>3
  <2>4. CASE i - m \in 1 .. n /\ C[i] = R[i - m] /\ k - m \in 1 .. n /\ C[k] = R[k - m]
    <3>1. i - m = k - m
      BY <1>7, <1>9, <2>4
    <3> QED
      BY <1>1, <3>1
  <2>5. CASE i \in 1 .. m /\ C[i] = P[i] /\ k - m \in 1 .. n /\ C[k] = R[k - m]
    BY <1>2, <1>3, <1>9, <2>5
  <2>6. CASE i - m \in 1 .. n /\ C[i] = R[i - m] /\ k \in 1 .. m /\ C[k] = P[k]
    BY <1>2, <1>3, <1>9, <2>6
  <2> QED
    BY <2>1, <2>2, <2>3, <2>4, <2>5, <2>6
<1>10. StrandOK(C)
  BY <1>1, <1>8, <1>9 DEF StrandOK
<1>11. Resolved(C) = Resolved(P) \cup Resolved(R)
  <2>1. ASSUME NEW p \in Resolved(C) PROVE p \in Resolved(P) \cup Resolved(R)
    BY <1>1, <1>2, <1>3, <1>4, <1>5
  <2>2. ASSUME NEW p \in Resolved(P) PROVE p \in Resolved(C)
    <3>1. PICK i \in 1 .. m : Resolves(P[i]) /\ P[i][2] = p
      BY <1>2
    <3>2. i \in 1 .. Len(C) /\ C[i] = P[i]
      BY <1>1, <1>6
    <3> QED
      BY <1>4, <3>1, <3>2
  <2>3. ASSUME NEW p \in Resolved(R) PROVE p \in Resolved(C)
    <3>1. PICK i \in 1 .. n : Resolves(R[i]) /\ R[i][2] = p
      BY <1>3
    <3>2. m + i \in 1 .. Len(C) /\ C[m + i] = R[i]
      BY <1>1, <1>6
    <3> QED
      BY <1>4, <3>1, <3>2
  <2> QED
    BY <2>1, <2>2, <2>3
<1>12. Granted(C) = Granted(P) \cup Granted(R)
  <2>1. ASSUME NEW s \in Granted(C) PROVE s \in Granted(P) \cup Granted(R)
    BY <1>1, <1>2, <1>3, <1>4, <1>5
  <2>2. ASSUME NEW s \in Granted(P) PROVE s \in Granted(C)
    <3>1. PICK i \in 1 .. m : P[i][1] = "grant" /\ P[i][3] = s
      BY <1>2
    <3>2. i \in 1 .. Len(C) /\ C[i] = P[i]
      BY <1>1, <1>6
    <3> QED
      BY <1>4, <3>1, <3>2
  <2>3. ASSUME NEW s \in Granted(R) PROVE s \in Granted(C)
    <3>1. PICK i \in 1 .. n : R[i][1] = "grant" /\ R[i][3] = s
      BY <1>3
    <3>2. m + i \in 1 .. Len(C) /\ C[m + i] = R[i]
      BY <1>1, <1>6
    <3> QED
      BY <1>4, <3>1, <3>2
  <2> QED
    BY <2>1, <2>2, <2>3
<1>13. /\ NoTrivial(P) /\ NoTrivial(R) => NoTrivial(C)
       /\ NoFailure(P) /\ NoFailure(R) => NoFailure(C)
  BY <1>1, <1>5 DEF NoTrivial, NoFailure, m, n
<1> QED
  BY <1>1, <1>10, <1>11, <1>12, <1>13 DEF C

\* One handler that resolves no promise is posted.
LEMMA StrandAppend ==
    ASSUME NEW P \in Seq(Posts), NEW x \in Posts, StrandOK(P),
           x[1] \notin {"grant", "fail"}
    PROVE  /\ Append(P, x) \in Seq(Posts) /\ StrandOK(Append(P, x))
           /\ Resolved(Append(P, x)) = Resolved(P) /\ Granted(Append(P, x)) = Granted(P)
           /\ x[1] # "trivial" /\ NoTrivial(P) => NoTrivial(Append(P, x))
           /\ NoFailure(P) => NoFailure(Append(P, x))
<1>1. <<x>> \in Seq(Posts) /\ Len(<<x>>) = 1 /\ <<x>>[1] = x /\ Append(P, x) = P \o <<x>>
  BY AppendIsConcat
<1>2. ~Resolves(x)
  BY DEF Resolves
<1>3. StrandOK(<<x>>) /\ Resolved(<<x>>) = {} /\ Granted(<<x>>) = {}
  BY <1>1, <1>2 DEF StrandOK, Resolved, Granted
<1>4. (x[1] # "trivial" => NoTrivial(<<x>>)) /\ NoFailure(<<x>>)
  BY <1>1 DEF NoTrivial, NoFailure
<1>5. /\ P \o <<x>> \in Seq(Posts) /\ StrandOK(P \o <<x>>)
      /\ Resolved(P \o <<x>>) = Resolved(P) \cup Resolved(<<x>>)
      /\ Granted(P \o <<x>>) = Granted(P) \cup Granted(<<x>>)
      /\ NoTrivial(P) /\ NoTrivial(<<x>>) => NoTrivial(P \o <<x>>)
      /\ NoFailure(P) /\ NoFailure(<<x>>) => NoFailure(P \o <<x>>)
  BY <1>1, <1>3, StrandConcat
<1> QED
  BY <1>1, <1>3, <1>4, <1>5

\* The first handler runs.
LEMMA StrandTail ==
    ASSUME NEW P \in Seq(Posts), P # <<>>, StrandOK(P)
    PROVE  LET x == Head(P) IN
           /\ x \in Posts /\ Tail(P) \in Seq(Posts) /\ StrandOK(Tail(P))
           /\ Resolves(x) => x[2] \in Resolved(P)
           /\ Resolved(Tail(P)) = IF Resolves(x) THEN Resolved(P) \ {x[2]} ELSE Resolved(P)
           /\ x[1] = "grant" => x[3] \in Granted(P)
           /\ Granted(Tail(P)) = IF x[1] = "grant" THEN Granted(P) \ {x[3]} ELSE Granted(P)
           /\ NoFailure(P) => NoFailure(Tail(P)) /\ x[1] # "fail"
           /\ NoTrivial(P) => NoTrivial(Tail(P)) /\ x[1] # "trivial"
<1> DEFINE x == Head(P)
           T == Tail(P)
           n == Len(P)
<1>1. /\ x = P[1] /\ x \in Posts /\ T \in Seq(Posts) /\ Len(T) = n - 1 /\ n \in Nat \ {0}
      /\ \A i \in 1 .. n - 1 : T[i] = P[i + 1]
  BY SequenceStep
<1>2. /\ \A i \in 1 .. n : Resolves(P[i]) => P[i][2] \in Resolved(P)
      /\ \A i \in 1 .. n : P[i][1] = "grant" => P[i][3] \in Granted(P)
      /\ \A p \in Resolved(P) : \E i \in 1 .. n : Resolves(P[i]) /\ P[i][2] = p
      /\ \A s \in Granted(P) : \E i \in 1 .. n : P[i][1] = "grant" /\ P[i][3] = s
  BY StrandSets
<1>3. /\ \A i \in 1 .. n - 1 : Resolves(T[i]) => T[i][2] \in Resolved(T)
      /\ \A i \in 1 .. n - 1 : T[i][1] = "grant" => T[i][3] \in Granted(T)
      /\ \A p \in Resolved(T) : \E i \in 1 .. n - 1 : Resolves(T[i]) /\ T[i][2] = p
      /\ \A s \in Granted(T) : \E i \in 1 .. n - 1 : T[i][1] = "grant" /\ T[i][3] = s
  <2> HIDE DEF T, n
  <2> QED
    BY <1>1, StrandSets
<1>4. /\ \A i, k \in 1 .. n : Resolves(P[i]) /\ Resolves(P[k]) /\ P[i][2] = P[k][2] => i = k
      /\ \A i, k \in 1 .. n : P[i][1] = "grant" /\ P[k][1] = "grant" /\ P[i][3] = P[k][3] => i = k
  BY DEF StrandOK
<1>5. (NoFailure(P) => x[1] # "fail") /\ (NoTrivial(P) => x[1] # "trivial")
  BY <1>1 DEF NoFailure, NoTrivial
<1>6. (NoFailure(P) => NoFailure(T)) /\ (NoTrivial(P) => NoTrivial(T))
  BY <1>1 DEF NoFailure, NoTrivial
<1>7. StrandOK(T)
  <2>1. \A i \in 1 .. n - 1 : i + 1 \in 1 .. n /\ T[i] = P[i + 1]
    BY <1>1
  <2> QED
    BY <1>1, <1>4, <2>1 DEF StrandOK
<1> HIDE DEF x, T, n
<1>8. /\ 1 \in 1 .. n /\ \A i \in 1 .. n - 1 : i + 1 \in 1 .. n /\ i + 1 # 1 /\ T[i] = P[i + 1]
      /\ \A i \in 1 .. n : i = 1 \/ (i - 1 \in 1 .. n - 1 /\ T[i - 1] = P[i])
  BY <1>1
<1>9. Resolved(T) = IF Resolves(x) THEN Resolved(P) \ {x[2]} ELSE Resolved(P)
  <2>1. ASSUME NEW p \in Resolved(T)
        PROVE  p \in Resolved(P) /\ (Resolves(x) => p # x[2])
    <3>1. PICK i \in 1 .. n - 1 : Resolves(T[i]) /\ T[i][2] = p
      BY <1>3
    <3>2. i + 1 \in 1 .. n /\ i + 1 # 1 /\ 1 \in 1 .. n /\ T[i] = P[i + 1]
      BY <1>8
    <3>3. p \in Resolved(P)
      BY <1>2, <3>1, <3>2
    <3>4. Resolves(x) => p # x[2]
      BY <1>1, <1>4, <3>1, <3>2
    <3> QED
      BY <3>3, <3>4
  <2>2. ASSUME NEW p \in Resolved(P), Resolves(x) => p # x[2]
        PROVE  p \in Resolved(T)
    <3>1. PICK i \in 1 .. n : Resolves(P[i]) /\ P[i][2] = p
      BY <1>2
    <3>2. i # 1
      BY <1>1, <2>2, <3>1
    <3>3. i - 1 \in 1 .. n - 1 /\ T[i - 1] = P[i]
      BY <1>8, <3>2
    <3> QED
      BY <1>3, <3>1, <3>3
  <2> QED
    BY <2>1, <2>2
<1>10. Granted(T) = IF x[1] = "grant" THEN Granted(P) \ {x[3]} ELSE Granted(P)
  <2>1. ASSUME NEW s \in Granted(T)
        PROVE  s \in Granted(P) /\ (x[1] = "grant" => s # x[3])
    <3>1. PICK i \in 1 .. n - 1 : T[i][1] = "grant" /\ T[i][3] = s
      BY <1>3
    <3>2. i + 1 \in 1 .. n /\ i + 1 # 1 /\ 1 \in 1 .. n /\ T[i] = P[i + 1]
      BY <1>8
    <3>3. s \in Granted(P)
      BY <1>2, <3>1, <3>2
    <3>4. x[1] = "grant" => s # x[3]
      BY <1>1, <1>4, <3>1, <3>2
    <3> QED
      BY <3>3, <3>4
  <2>2. ASSUME NEW s \in Granted(P), x[1] = "grant" => s # x[3]
        PROVE  s \in Granted(T)
    <3>1. PICK i \in 1 .. n : P[i][1] = "grant" /\ P[i][3] = s
      BY <1>2
    <3>2. i # 1
      BY <1>1, <2>2, <3>1
    <3>3. i - 1 \in 1 .. n - 1 /\ T[i - 1] = P[i]
      BY <1>8, <3>2
    <3> QED
      BY <1>3, <3>1, <3>3
  <2> QED
    BY <2>1, <2>2
<1> QED
  BY <1>1, <1>2, <1>5, <1>6, <1>7, <1>8, <1>9, <1>10 DEF x, T

\* How many updates have ended in the strand.
LEMMA TrivialPosts ==
    ASSUME NEW P \in Seq(Posts), NEW R \in Seq(Posts), NEW x \in Posts
    PROVE  /\ NoTrivial(P) => OneTrivial(P)
           /\ OneTrivial(P) /\ NoTrivial(R) => OneTrivial(P \o R)
           /\ OneTrivial(P) /\ (x[1] # "trivial" \/ NoTrivial(P)) => OneTrivial(Append(P, x))
           /\ OneTrivial(P) /\ P # <<>> => OneTrivial(Tail(P))
           /\ OneTrivial(P) /\ P # <<>> /\ Head(P)[1] = "trivial" => NoTrivial(Tail(P))
<1>1. NoTrivial(P) => OneTrivial(P)
  BY DEF NoTrivial, OneTrivial
<1>2. OneTrivial(P) /\ NoTrivial(R) => OneTrivial(P \o R)
  <2> DEFINE m == Len(P)
             n == Len(R)
             C == P \o R
  <2>1. /\ Len(C) = m + n /\ m \in Nat /\ n \in Nat
        /\ \A i \in 1 .. m + n : C[i] = IF i <= m THEN P[i] ELSE R[i - m]
    BY ConcatProperties
  <2>2. SUFFICES ASSUME OneTrivial(P), NoTrivial(R) PROVE OneTrivial(C)
    OBVIOUS
  <2>3. \A i \in 1 .. m + n : C[i][1] = "trivial" => i \in 1 .. m /\ C[i] = P[i]
    <3>1. \A i \in 1 .. n : R[i][1] # "trivial"
      BY <2>2 DEF NoTrivial
    <3> QED
      BY <2>1, <3>1
  <2>4. \A i, k \in 1 .. m : P[i][1] = "trivial" /\ P[k][1] = "trivial" => i = k
    BY <2>2 DEF OneTrivial
  <2> QED
    BY <2>1, <2>3, <2>4 DEF OneTrivial
<1>3. ASSUME OneTrivial(P), x[1] # "trivial" \/ NoTrivial(P) PROVE OneTrivial(Append(P, x))
  <2> DEFINE n == Len(P)
             A == Append(P, x)
  <2>1. /\ Len(A) = n + 1 /\ n \in Nat /\ A[n + 1] = x
        /\ \A i \in 1 .. n : A[i] = P[i]
    BY AppendProperties
  <2>2. \A i \in 1 .. n + 1 : i = n + 1 \/ i \in 1 .. n
    BY <2>1
  <2>3. CASE x[1] # "trivial"
    BY <1>3, <2>1, <2>2, <2>3 DEF OneTrivial
  <2>4. CASE NoTrivial(P)
    BY <2>1, <2>2, <2>4 DEF OneTrivial, NoTrivial
  <2> QED
    BY <1>3, <2>3, <2>4
<1>4. ASSUME OneTrivial(P), P # <<>>
      PROVE  OneTrivial(Tail(P)) /\ (Head(P)[1] = "trivial" => NoTrivial(Tail(P)))
  <2>1. /\ Head(P) = P[1] /\ Len(Tail(P)) = Len(P) - 1 /\ Len(P) \in Nat \ {0}
        /\ \A i \in 1 .. Len(P) - 1 : Tail(P)[i] = P[i + 1]
    BY <1>4, SequenceStep
  <2>2. \A i \in 1 .. Len(P) - 1 : i + 1 \in 1 .. Len(P) /\ i + 1 # 1 /\ 1 \in 1 .. Len(P)
    BY <2>1
  <2> QED
    BY <1>4, <2>1, <2>2 DEF OneTrivial, NoTrivial
<1> QED
  BY <1>1, <1>2, <1>3, <1>4

\* What a sequence holds.
LEMMA SetOfSequence ==
    ASSUME NEW S, NEW s \in Seq(S)
    PROVE  /\ ToSet(s) = {s[i] : i \in 1 .. Len(s)} /\ ToSet(s) \subseteq S
           /\ \A i \in 1 .. Len(s) : s[i] \in ToSet(s) /\ s[i] \in S
<1>1. ToSet(s) = {s[i] : i \in 1 .. Len(s)}
  BY DEF ToSet
<1>2. \A i \in 1 .. Len(s) : s[i] \in S
  BY ElementOfSeq
<1> QED
  BY <1>1, <1>2

\* The first n of a sequence without repetition, and the rest.
LEMMA SplitOnce ==
    ASSUME NEW S, NEW q \in Seq(S), Once(q), NEW n \in 0 .. Len(q)
    PROVE  LET a == SubSeq(q, 1, n)
               r == SubSeq(q, n + 1, Len(q))
           IN /\ a \in Seq(S) /\ Len(a) = n /\ (\A i \in 1 .. n : a[i] = q[i]) /\ Once(a)
              /\ r \in Seq(S) /\ Once(r)
              /\ ToSet(a) \cap ToSet(r) = {} /\ ToSet(q) = ToSet(a) \cup ToSet(r)
<1> DEFINE m == Len(q)
           a == SubSeq(q, 1, n)
           r == SubSeq(q, n + 1, m)
<1>1. m \in Nat /\ n \in Nat /\ n <= m /\ \A i \in 1 .. m : q[i] \in S
  BY ElementOfSeq
<1>2. a \in Seq(S) /\ Len(a) = n /\ \A i \in 1 .. n : a[i] = q[i]
  <2>1. \A i \in 1 .. n : q[i] \in S
    BY <1>1
  <2>2. /\ SubSeq(q, 1, n) \in Seq(S)
        /\ Len(SubSeq(q, 1, n)) = IF 1 <= n THEN n - 1 + 1 ELSE 0
        /\ \A i \in 1 .. n - 1 + 1 : SubSeq(q, 1, n)[i] = q[1 + i - 1]
    BY <1>1, <2>1, SubSeqProperties
  <2> QED
    BY <1>1, <2>2
<1>3. r \in Seq(S) /\ Len(r) = m - n /\ \A i \in 1 .. m - n : r[i] = q[n + i]
  <2>1. \A i \in n + 1 .. m : q[i] \in S
    BY <1>1
  <2>2. /\ SubSeq(q, n + 1, m) \in Seq(S)
        /\ Len(SubSeq(q, n + 1, m)) = IF n + 1 <= m THEN m - (n + 1) + 1 ELSE 0
        /\ \A i \in 1 .. m - (n + 1) + 1 : SubSeq(q, n + 1, m)[i] = q[(n + 1) + i - 1]
    BY <1>1, <2>1, SubSeqProperties
  <2> QED
    BY <1>1, <2>2
<1> HIDE DEF a, r
<1>4. /\ ToSet(q) = {q[i] : i \in 1 .. m} /\ ToSet(a) = {a[i] : i \in 1 .. n}
      /\ ToSet(r) = {r[i] : i \in 1 .. m - n}
  <2>1. ToSet(q) = {q[i] : i \in 1 .. Len(q)} /\ ToSet(a) = {a[i] : i \in 1 .. Len(a)}
    BY <1>2, <1>3, SetOfSequence
  <2>2. ToSet(r) = {r[i] : i \in 1 .. Len(r)}
    BY <1>2, <1>3, SetOfSequence
  <2> QED
    BY <1>2, <1>3, <2>1, <2>2
<1>5. \A i, k \in 1 .. m : q[i] = q[k] => i = k
  BY DEF Once
<1> HIDE DEF m
<1>6. Once(a)
  <2>1. \A i \in 1 .. n : i \in 1 .. m
    BY <1>1
  <2> QED
    BY <1>2, <1>5, <2>1 DEF Once
<1>7. \A i \in 1 .. m - n : n + i \in 1 .. m /\ n + i \notin 1 .. n
  BY <1>1
<1>8. Once(r)
  <2>1. ASSUME NEW i \in 1 .. m - n, NEW k \in 1 .. m - n, r[i] = r[k] PROVE i = k
    <3>1. n + i = n + k
      BY <1>3, <1>5, <1>7, <2>1
    <3> QED
      BY <1>1, <3>1
  <2> QED
    BY <1>3, <2>1 DEF Once
<1>9. ToSet(a) \cap ToSet(r) = {}
  <2>1. ASSUME NEW i \in 1 .. n, NEW k \in 1 .. m - n, a[i] = r[k] PROVE FALSE
    <3>1. i \in 1 .. m /\ q[i] = q[n + k]
      BY <1>1, <1>2, <1>3, <2>1
    <3> QED
      BY <1>5, <1>7, <3>1
  <2> QED
    BY <1>4, <2>1
<1>10. ToSet(q) = ToSet(a) \cup ToSet(r)
  <2>1. \A i \in 1 .. m : i \in 1 .. n \/ (i - n \in 1 .. m - n /\ n + (i - n) = i)
    BY <1>1
  <2>2. ASSUME NEW i \in 1 .. m PROVE q[i] \in ToSet(a) \cup ToSet(r)
    <3>1. CASE i \in 1 .. n
      BY <1>2, <1>4, <3>1
    <3>2. CASE i - n \in 1 .. m - n /\ n + (i - n) = i
      <4>1. r[i - n] = q[i]
        BY <1>3, <3>2
      <4> QED
        BY <1>4, <3>2, <4>1
    <3> QED
      BY <2>1, <3>1, <3>2
  <2>3. ASSUME NEW i \in 1 .. n PROVE a[i] \in ToSet(q)
    BY <1>1, <1>2, <1>4
  <2>4. ASSUME NEW i \in 1 .. m - n PROVE r[i] \in ToSet(q)
    BY <1>3, <1>4, <1>7
  <2>5. ASSUME NEW x \in ToSet(q) PROVE x \in ToSet(a) \cup ToSet(r)
    <3>1. PICK i \in 1 .. m : x = q[i]
      BY <1>4
    <3> QED
      BY <2>2, <3>1
  <2>6. \A x \in ToSet(a) : x \in ToSet(q)
    BY <1>4, <2>3, Zenon
  <2>7. \A x \in ToSet(r) : x \in ToSet(q)
    BY <1>4, <2>4, Zenon
  <2> QED
    BY <2>5, <2>6, <2>7
<1> QED
  BY <1>2, <1>3, <1>6, <1>8, <1>9, <1>10 DEF a, r, m

\* More parts are queued.
LEMMA OnceConcat ==
    ASSUME NEW S, NEW q \in Seq(S), NEW r \in Seq(S), Once(q), Once(r), ToSet(q) \cap ToSet(r) = {}
    PROVE  q \o r \in Seq(S) /\ Once(q \o r) /\ ToSet(q \o r) = ToSet(q) \cup ToSet(r)
<1> DEFINE m == Len(q)
           n == Len(r)
           C == q \o r
<1>1. /\ C \in Seq(S) /\ Len(C) = m + n /\ m \in Nat /\ n \in Nat
      /\ \A i \in 1 .. m + n : C[i] = IF i <= m THEN q[i] ELSE r[i - m]
  BY ConcatProperties
<1>2. /\ ToSet(q) = {q[i] : i \in 1 .. m} /\ ToSet(r) = {r[i] : i \in 1 .. n}
      /\ ToSet(C) = ToSet(q) \cup ToSet(r)
  BY SequenceSet
<1>3. /\ \A i, k \in 1 .. m : q[i] = q[k] => i = k
      /\ \A i, k \in 1 .. n : r[i] = r[k] => i = k
  BY DEF Once
<1> HIDE DEF C, m, n
<1>4. \A i \in 1 .. m + n : \/ (i \in 1 .. m /\ C[i] = q[i])
                            \/ (i - m \in 1 .. n /\ C[i] = r[i - m])
  BY <1>1
<1>5. ASSUME NEW i \in 1 .. m + n, NEW k \in 1 .. m + n, C[i] = C[k] PROVE i = k
  <2>1. CASE i \in 1 .. m /\ C[i] = q[i] /\ k \in 1 .. m /\ C[k] = q[k]
    BY <1>3, <1>5, <2>1
  <2>2. CASE i - m \in 1 .. n /\ C[i] = r[i - m] /\ k - m \in 1 .. n /\ C[k] = r[k - m]
    <3>1. i - m = k - m
      BY <1>3, <1>5, <2>2
    <3> QED
      BY <1>1, <3>1
  <2>3. CASE i \in 1 .. m /\ C[i] = q[i] /\ k - m \in 1 .. n /\ C[k] = r[k - m]
    BY <1>2, <1>5, <2>3
  <2>4. CASE i - m \in 1 .. n /\ C[i] = r[i - m] /\ k \in 1 .. m /\ C[k] = q[k]
    BY <1>2, <1>5, <2>4
  <2> QED
    BY <1>4, <2>1, <2>2, <2>3, <2>4
<1> QED
  BY <1>1, <1>2, <1>5 DEF C, Once
-----------------------------------------------------------------------------
(***************************************************************************)
(* The operators on the bus, from the inside out.                          *)
(***************************************************************************)
Marks == {x \in Posts : x[1] \notin {"grant", "fail", "trivial"}}

\* A mark in the strand changes nothing else.
LEMMA MarkPosted ==
    ASSUME NEW b, b \in BusType, NEW x \in Marks, StrandOK(b.posted)
    PROVE  LET c == Sent(b, x) IN
           /\ c \in BusType /\ c = [b EXCEPT !.posted = c.posted]
           /\ c.posted \in Seq(Posts) /\ StrandOK(c.posted)
           /\ Resolved(c.posted) = Resolved(b.posted) /\ Granted(c.posted) = Granted(b.posted)
           /\ NoTrivial(b.posted) => NoTrivial(c.posted)
           /\ OneTrivial(b.posted) => OneTrivial(c.posted)
           /\ NoFailure(b.posted) => NoFailure(c.posted)
<1>1. x \in Posts /\ x[1] \notin {"grant", "fail", "trivial"}
  BY DEF Marks
<1>2. b.posted \in Seq(Posts)
  BY DEF BusType
<1>3. CASE b.posted = <<>>
  <2>1. b = [b EXCEPT !.posted = b.posted]
    BY DEF BusType
  <2> QED
    BY <1>2, <1>3, <2>1 DEF Sent
<1>4. CASE b.posted # <<>>
  <2> DEFINE P == Append(b.posted, x)
  <2>1. /\ P \in Seq(Posts) /\ StrandOK(P)
        /\ Resolved(P) = Resolved(b.posted) /\ Granted(P) = Granted(b.posted)
        /\ NoTrivial(b.posted) => NoTrivial(P)
        /\ NoFailure(b.posted) => NoFailure(P)
    BY <1>1, <1>2, StrandAppend
  <2>2. OneTrivial(b.posted) => OneTrivial(P)
    BY <1>1, <1>2, TrivialPosts
  <2>3. Sent(b, x) = [b EXCEPT !.posted = P]
    BY <1>4 DEF Sent
  <2> HIDE DEF P
  <2>4. [b EXCEPT !.posted = P] \in BusType /\ [b EXCEPT !.posted = P].posted = P
    BY <2>1 DEF BusType
  <2> QED
    BY <2>1, <2>2, <2>3, <2>4
<1> QED
  BY <1>3, <1>4

\* An operation was sent.
LEMMA SentKeeps ==
    ASSUME NEW b, NEW H, NEW Q, NEW D, NEW x \in Marks, BusOK(b, H, Q, D)
    PROVE  /\ BusOK(Sent(b, x), H, Q, D)
           /\ Fine(b) => Fine(Sent(b, x))
           /\ Sent(b, x).cycle = b.cycle
<1> DEFINE c == Sent(b, x)
<1>1. b \in BusType /\ StrandOK(b.posted)
  BY DEF BusOK
<1>2. /\ c \in BusType /\ c = [b EXCEPT !.posted = c.posted]
      /\ c.posted \in Seq(Posts) /\ StrandOK(c.posted)
      /\ Resolved(c.posted) = Resolved(b.posted) /\ Granted(c.posted) = Granted(b.posted)
      /\ NoTrivial(b.posted) => NoTrivial(c.posted)
      /\ OneTrivial(b.posted) => OneTrivial(c.posted)
      /\ NoFailure(b.posted) => NoFailure(c.posted)
  BY <1>1, MarkPosted
<1> HIDE DEF c
<1>3. /\ c.busAllocations = b.busAllocations /\ c.busWaitQueue = b.busWaitQueue
      /\ c.busFreeQueue = b.busFreeQueue /\ c.isBusRunning = b.isBusRunning
      /\ c.endOfCycleAfterBusUpdate = b.endOfCycleAfterBusUpdate
      /\ c.update = b.update /\ c.listed = b.listed /\ c.failed = b.failed /\ c.inserting = b.inserting /\ c.cycle = b.cycle
  BY <1>1, <1>2 DEF BusType
<1>4. BusOK(c, H, Q, D)
  BY <1>2, <1>3 DEF BusOK, QueueOK, OwnersOK, CleanOK, CycleOK, UpdateOK
<1>5. Fine(b) => Fine(c)
  BY <1>2, <1>3 DEF Fine
<1> QED
  BY <1>3, <1>4, <1>5 DEF c

\* An update starts.
LEMMA UpdateStarts ==
    ASSUME NEW b, NEW H, NEW Q, NEW D, Ready(b, H, Q, D)
    PROVE  /\ BusOK(DoBusUpdate(b), H, Q, D)
           /\ Fine(b) => Fine(DoBusUpdate(b))
           /\ DoBusUpdate(b).cycle = b.cycle
<1> DEFINE l == [b EXCEPT !.nBusUpdates = 1, !.isBusRunning = TRUE, !.update = "listing"]
<1>1. /\ l \in BusType /\ l.posted = b.posted
      /\ l.busAllocations = b.busAllocations /\ l.busWaitQueue = b.busWaitQueue
      /\ l.busFreeQueue = b.busFreeQueue /\ l.isBusRunning = TRUE
      /\ l.endOfCycleAfterBusUpdate = b.endOfCycleAfterBusUpdate
      /\ l.update = "listing" /\ l.failed = b.failed /\ l.inserting = b.inserting /\ l.cycle = b.cycle
  BY DEF Ready, BusType
<1>2. <<"listSent">> \in Marks
  BY DEF Marks, Posts
<1>3. DoBusUpdate(b) = Sent(l, <<"listSent">>)
  BY DEF DoBusUpdate
<1>4. OneTrivial(b.posted)
  BY DEF Ready, NoTrivial, OneTrivial
<1> HIDE DEF l
<1>5. BusOK(l, H, Q, D)
  BY <1>1, <1>4 DEF Ready, BusOK, QueueOK, OwnersOK, CleanOK, CycleOK, UpdateOK
<1>6. Fine(b) => Fine(l)
  BY <1>1 DEF Fine
<1>7. /\ BusOK(Sent(l, <<"listSent">>), H, Q, D)
      /\ Fine(l) => Fine(Sent(l, <<"listSent">>))
      /\ Sent(l, <<"listSent">>).cycle = l.cycle
  BY <1>2, <1>5, SentKeeps
<1> QED
  BY <1>1, <1>3, <1>6, <1>7

\* An update ends: if the cycle was waiting for it, the cycle ends.
LEMMA UpdateEnds ==
    ASSUME NEW b, NEW H, NEW Q, NEW D, Ready(b, H, Q, D)
    PROVE  /\ BusOK(EndOfBusUpdate(b), H, Q, D)
           /\ Fine(b) => Fine(EndOfBusUpdate(b))
           /\ b.cycle = "run" => EndOfBusUpdate(b).cycle = "run"
<1> DEFINE c == EndOfBusUpdate(b)
<1>1. /\ c \in BusType /\ c.posted = b.posted
      /\ c.busAllocations = b.busAllocations /\ c.busWaitQueue = b.busWaitQueue
      /\ c.busFreeQueue = b.busFreeQueue /\ c.isBusRunning = FALSE
      /\ c.endOfCycleAfterBusUpdate = FALSE
      /\ c.update = "none" /\ c.failed = b.failed /\ c.inserting = b.inserting
      /\ c.cycle = IF b.endOfCycleAfterBusUpdate THEN "delay" ELSE b.cycle
  BY DEF Ready, BusType, EndOfBusUpdate
<1>2. OneTrivial(b.posted)
  BY DEF Ready, NoTrivial, OneTrivial
<1> HIDE DEF c
<1>3. BusOK(c, H, Q, D)
  BY <1>1, <1>2 DEF Ready, BusOK, QueueOK, OwnersOK, CleanOK, CycleOK, UpdateOK
<1>4. (Fine(b) => Fine(c)) /\ (b.cycle = "run" => c.cycle = "run")
  BY <1>1 DEF Fine, Ready
<1> QED
  BY <1>3, <1>4 DEF c

\* A bus without an update.
LEMMA AtRest ==
    ASSUME NEW b, NEW H, NEW Q, NEW D, BusOK(b, H, Q, D),
           ~b.isBusRunning, b.cycle \in {"run", "drain"}
    PROVE  Ready(b, H, Q, D)
BY DEF BusOK, Ready, CleanOK, CycleOK, UpdateOK

\* Parts are queued, and an update starts if none runs.
LEMMA Allocates ==
    ASSUME NEW b, NEW H, NEW Q, NEW D, BusOK(b, H, Q, D), b.cycle = "run",
           NEW parts \in Seq(AllParts), Once(parts), ToSet(parts) \cap Q = {}
    PROVE  /\ BusOK(BusAllocate(b, parts), H, Q \cup ToSet(parts), D)
           /\ Fine(b) => Fine(BusAllocate(b, parts))
           /\ BusAllocate(b, parts).cycle = "run"
<1> DEFINE W == b.busWaitQueue \o parts
           c == [b EXCEPT !.busWaitQueue = W]
           R == Q \cup ToSet(parts)
<1>1. b \in BusType /\ b.busWaitQueue \in Seq(AllParts) /\ QueueOK(b, Q)
  BY DEF BusOK, BusType
<1>2. Once(b.busWaitQueue) /\ ToSet(b.busWaitQueue) \cap ToSet(parts) = {}
  BY <1>1 DEF QueueOK
<1>3. W \in Seq(AllParts) /\ Once(W) /\ ToSet(W) = ToSet(b.busWaitQueue) \cup ToSet(parts)
  BY <1>1, <1>2, OnceConcat
<1> HIDE DEF W
<1>4. /\ c \in BusType /\ c.busWaitQueue = W /\ c.posted = b.posted
      /\ c.busAllocations = b.busAllocations /\ c.busFreeQueue = b.busFreeQueue
      /\ c.isBusRunning = b.isBusRunning /\ c.update = b.update /\ c.listed = b.listed
      /\ c.endOfCycleAfterBusUpdate = b.endOfCycleAfterBusUpdate
      /\ c.failed = b.failed /\ c.inserting = b.inserting /\ c.cycle = b.cycle
  BY <1>1, <1>3 DEF BusType
<1>5. BusAllocate(b, parts) = IF b.isBusRunning THEN c ELSE DoBusUpdate(c)
  BY DEF BusAllocate, W
<1> HIDE DEF c, R
<1>6. QueueOK(c, R)
  BY <1>1, <1>3, <1>4 DEF QueueOK, R
<1>7. BusOK(c, H, R, D)
  BY <1>4, <1>6 DEF BusOK, OwnersOK, CleanOK, CycleOK, UpdateOK
<1>8. Fine(b) => Fine(c)
  BY <1>4 DEF Fine
<1>9. CASE b.isBusRunning
  BY <1>4, <1>5, <1>7, <1>8, <1>9 DEF R
<1>10. CASE ~b.isBusRunning
  <2>1. ~c.isBusRunning
    BY <1>4, <1>10
  <2>2. Ready(c, H, R, D)
    BY <1>4, <1>7, <2>1, AtRest
  <2>3. /\ BusOK(DoBusUpdate(c), H, R, D)
        /\ Fine(c) => Fine(DoBusUpdate(c))
        /\ DoBusUpdate(c).cycle = c.cycle
    BY <2>2, UpdateStarts
  <2> QED
    BY <1>4, <1>5, <1>8, <1>10, <2>3 DEF R
<1> QED
  BY <1>9, <1>10

\* The first waiters get these slots.
LEMMA GrantPosts ==
    ASSUME NEW q \in Seq(AllParts), Once(q), NEW slots \in Seq(Slots), Once(slots),
           Len(slots) <= Len(q),
           NEW R, R = [i \in DOMAIN slots |-> <<"grant", q[i], slots[i]>>]
    PROVE  /\ R \in Seq(Posts) /\ StrandOK(R) /\ NoTrivial(R) /\ NoFailure(R)
           /\ Resolved(R) = {q[i] : i \in 1 .. Len(slots)} /\ Granted(R) = ToSet(slots)
<1> DEFINE n == Len(slots)
<1>1. n \in Nat /\ Len(q) \in Nat /\ n <= Len(q) /\ DOMAIN slots = 1 .. n
  OBVIOUS
<1>2. \A i \in 1 .. n : q[i] \in AllParts /\ slots[i] \in Slots
  BY <1>1, ElementOfSeq
<1>3. \A i \in 1 .. n : <<"grant", q[i], slots[i]>> \in Posts
  BY <1>2 DEF Posts
<1>4. R \in [1 .. n -> Posts]
  BY <1>1, <1>3
<1>5. R \in Seq(Posts) /\ Len(R) = n /\ \A i \in 1 .. n : R[i] = <<"grant", q[i], slots[i]>>
  BY <1>1, <1>4, SeqDef
<1>6. \A i \in 1 .. n : Resolves(R[i]) /\ R[i][1] = "grant" /\ R[i][2] = q[i] /\ R[i][3] = slots[i]
  BY <1>5 DEF Resolves
<1>7. /\ \A i, k \in 1 .. n : q[i] = q[k] => i = k
      /\ \A i, k \in 1 .. n : slots[i] = slots[k] => i = k
  BY <1>1 DEF Once
<1>8. StrandOK(R) /\ NoTrivial(R) /\ NoFailure(R)
  BY <1>5, <1>6, <1>7 DEF StrandOK, NoTrivial, NoFailure
<1>9. ToSet(slots) = {slots[i] : i \in 1 .. n}
  BY <1>1, SetOfSequence
<1>10. Resolved(R) = {q[i] : i \in 1 .. n}
  <2>1. {k \in 1 .. Len(R) : Resolves(R[k])} = 1 .. n
    BY <1>5, <1>6
  <2>2. Resolved(R) = {R[i][2] : i \in 1 .. n}
    BY <2>1 DEF Resolved
  <2> QED
    BY <1>6, <2>2
<1>11. Granted(R) = {slots[i] : i \in 1 .. n}
  BY <1>5, <1>6 DEF Granted
<1> QED
  BY <1>5, <1>8, <1>9, <1>10, <1>11

\* Those who wait will fail.
LEMMA FailPosts ==
    ASSUME NEW q \in Seq(AllParts), Once(q),
           NEW R, R = [i \in DOMAIN q |-> <<"fail", q[i]>>]
    PROVE  /\ R \in Seq(Posts) /\ StrandOK(R) /\ NoTrivial(R)
           /\ Resolved(R) = ToSet(q) /\ Granted(R) = {}
<1> DEFINE n == Len(q)
<1>1. n \in Nat /\ DOMAIN q = 1 .. n
  OBVIOUS
<1>2. \A i \in 1 .. n : q[i] \in AllParts
  BY <1>1, ElementOfSeq
<1>3. \A i \in 1 .. n : <<"fail", q[i]>> \in Posts
  BY <1>2 DEF Posts
<1>4. R \in [1 .. n -> Posts]
  BY <1>1, <1>3
<1>5. R \in Seq(Posts) /\ Len(R) = n /\ \A i \in 1 .. n : R[i] = <<"fail", q[i]>>
  BY <1>1, <1>4, SeqDef
<1>6. \A i \in 1 .. n : Resolves(R[i]) /\ R[i][1] = "fail" /\ R[i][2] = q[i]
  BY <1>5 DEF Resolves
<1>7. \A i, k \in 1 .. n : q[i] = q[k] => i = k
  BY <1>1 DEF Once
<1>8. StrandOK(R) /\ NoTrivial(R)
  BY <1>5, <1>6, <1>7 DEF StrandOK, NoTrivial
<1>9. ToSet(q) = {q[i] : i \in 1 .. n}
  BY <1>1, SetOfSequence
<1>10. Resolved(R) = {q[i] : i \in 1 .. n}
  <2>1. {k \in 1 .. Len(R) : Resolves(R[k])} = 1 .. n
    BY <1>5, <1>6
  <2>2. Resolved(R) = {R[i][2] : i \in 1 .. n}
    BY <2>1 DEF Resolved
  <2> QED
    BY <1>6, <2>2
<1>11. Granted(R) = {}
  BY <1>5, <1>6 DEF Granted
<1> QED
  BY <1>5, <1>8, <1>9, <1>10, <1>11

\* Grant: the promises of busWaitQueue move to the strand, the slots with them.
LEMMA Grants ==
    ASSUME NEW b, b \in BusType, NEW Q, StrandOK(b.posted), QueueOK(b, Q),
           NEW slots \in Seq(Slots), Once(slots), Len(slots) <= Len(b.busWaitQueue),
           ToSet(slots) \cap Granted(b.posted) = {}
    PROVE  LET c == Grant(b, slots) IN
           /\ c = [b EXCEPT !.posted = c.posted, !.busWaitQueue = c.busWaitQueue]
           /\ c \in BusType /\ StrandOK(c.posted) /\ QueueOK(c, Q)
           /\ Granted(c.posted) = Granted(b.posted) \cup ToSet(slots)
           /\ NoTrivial(b.posted) => NoTrivial(c.posted)
           /\ OneTrivial(b.posted) => OneTrivial(c.posted)
           /\ NoFailure(b.posted) => NoFailure(c.posted)
<1> DEFINE q == b.busWaitQueue
           n == Len(slots)
           R == [i \in DOMAIN slots |-> <<"grant", q[i], slots[i]>>]
           P == b.posted \o R
           W == SubSeq(q, n + 1, Len(q))
           F == SubSeq(q, 1, n)
           c == Grant(b, slots)
<1>1. /\ q \in Seq(AllParts) /\ b.posted \in Seq(Posts) /\ Once(q)
      /\ ToSet(q) \cap Resolved(b.posted) = {} /\ Q = ToSet(q) \cup Resolved(b.posted)
      /\ n \in 0 .. Len(q)
  BY DEF BusType, QueueOK
<1>2. c = [b EXCEPT !.posted = P, !.busWaitQueue = W]
  BY DEF Grant
<1> HIDE DEF c, q
<1>3. /\ R \in Seq(Posts) /\ StrandOK(R) /\ NoTrivial(R) /\ NoFailure(R)
      /\ Resolved(R) = {q[i] : i \in 1 .. n} /\ Granted(R) = ToSet(slots)
  BY <1>1, GrantPosts DEF q
<1>4. /\ F \in Seq(AllParts) /\ Len(F) = n /\ \A i \in 1 .. n : F[i] = q[i]
      /\ W \in Seq(AllParts) /\ Once(W)
      /\ ToSet(F) \cap ToSet(W) = {} /\ ToSet(q) = ToSet(F) \cup ToSet(W)
  BY <1>1, SplitOnce
<1> HIDE DEF R, W, F, n
<1>5. ToSet(F) = Resolved(R)
  <2>1. ToSet(F) = {F[i] : i \in 1 .. Len(F)}
    BY <1>4, SetOfSequence
  <2> QED
    BY <1>3, <1>4, <2>1
<1>6. /\ P \in Seq(Posts) /\ StrandOK(P)
      /\ Resolved(P) = Resolved(b.posted) \cup Resolved(R)
      /\ Granted(P) = Granted(b.posted) \cup Granted(R)
      /\ NoTrivial(b.posted) /\ NoTrivial(R) => NoTrivial(P)
      /\ NoFailure(b.posted) /\ NoFailure(R) => NoFailure(P)
  <2>1. Resolved(b.posted) \cap Resolved(R) = {} /\ Granted(b.posted) \cap Granted(R) = {}
    BY <1>1, <1>3, <1>4, <1>5
  <2> QED
    BY <1>1, <1>3, <2>1, StrandConcat
<1>7. OneTrivial(b.posted) => OneTrivial(P)
  <2>1. <<"trivial">> \in Posts
    BY DEF Posts
  <2> QED
    BY <1>1, <1>3, <2>1, TrivialPosts
<1> HIDE DEF P
<1>8. /\ c \in BusType /\ c.posted = P /\ c.busWaitQueue = W
      /\ c = [b EXCEPT !.posted = c.posted, !.busWaitQueue = c.busWaitQueue]
  BY <1>2, <1>4, <1>6 DEF BusType
<1>9. QueueOK(c, Q)
  BY <1>1, <1>4, <1>5, <1>6, <1>8 DEF QueueOK
<1> QED
  BY <1>3, <1>6, <1>7, <1>8, <1>9 DEF c

\* HandOver: empty slots that parts held go to the first waiters or are released.
LEMMA HandsOver ==
    ASSUME NEW b, NEW H, NEW Q, NEW D, BusOK(b, H, Q, D),
           NEW slots \in Seq(Slots), Once(slots), ToSet(slots) \subseteq H, ToSet(slots) \cap D = {}
    PROVE  /\ BusOK(HandOver(b, slots), H \ ToSet(slots), Q, D)
           /\ Fine(b) => Fine(HandOver(b, slots))
           /\ HandOver(b, slots).cycle = b.cycle
<1> DEFINE n == Served(b, Len(slots))
           F == SubSeq(slots, 1, n)
           R == SubSeq(slots, n + 1, Len(slots))
           g == Grant(b, F)
           c == HandOver(b, slots)
<1>1. /\ b \in BusType /\ b.busWaitQueue \in Seq(AllParts) /\ StrandOK(b.posted) /\ QueueOK(b, Q)
      /\ OwnersOK(b, H) /\ CleanOK(b, D) /\ CycleOK(b) /\ UpdateOK(b)
  BY DEF BusOK, BusType
<1>2. n \in 0 .. Len(slots) /\ n <= Len(b.busWaitQueue)
  BY <1>1 DEF Served
<1>3. c = [g EXCEPT !.busAllocations = @ \ ToSet(R)]
  BY DEF HandOver
<1> HIDE DEF n, c
<1>4. /\ F \in Seq(Slots) /\ Len(F) = n /\ Once(F)
      /\ R \in Seq(Slots) /\ Once(R)
      /\ ToSet(F) \cap ToSet(R) = {} /\ ToSet(slots) = ToSet(F) \cup ToSet(R)
  BY <1>2, SplitOnce
<1> HIDE DEF F, R
<1>5. ToSet(F) \cap Granted(b.posted) = {}
  BY <1>1, <1>4 DEF OwnersOK
<1>6. /\ g = [b EXCEPT !.posted = g.posted, !.busWaitQueue = g.busWaitQueue]
      /\ g \in BusType /\ StrandOK(g.posted) /\ QueueOK(g, Q)
      /\ Granted(g.posted) = Granted(b.posted) \cup ToSet(F)
      /\ NoTrivial(b.posted) => NoTrivial(g.posted)
      /\ OneTrivial(b.posted) => OneTrivial(g.posted)
      /\ NoFailure(b.posted) => NoFailure(g.posted)
  BY <1>1, <1>2, <1>4, <1>5, Grants
<1> HIDE DEF g
<1>7. /\ g.busAllocations = b.busAllocations /\ g.busFreeQueue = b.busFreeQueue
      /\ g.isBusRunning = b.isBusRunning /\ g.update = b.update /\ g.listed = b.listed
      /\ g.endOfCycleAfterBusUpdate = b.endOfCycleAfterBusUpdate
      /\ g.failed = b.failed /\ g.inserting = b.inserting /\ g.cycle = b.cycle
  BY <1>1, <1>6 DEF BusType
<1>8. /\ c \in BusType /\ c.busAllocations = b.busAllocations \ ToSet(R)
      /\ c.posted = g.posted /\ c.busWaitQueue = g.busWaitQueue
      /\ c.busFreeQueue = b.busFreeQueue
      /\ c.isBusRunning = b.isBusRunning /\ c.update = b.update /\ c.listed = b.listed
      /\ c.endOfCycleAfterBusUpdate = b.endOfCycleAfterBusUpdate
      /\ c.failed = b.failed /\ c.inserting = b.inserting /\ c.cycle = b.cycle
  BY <1>3, <1>6, <1>7 DEF BusType
<1>9. QueueOK(c, Q)
  BY <1>6, <1>8 DEF QueueOK
<1>10. OwnersOK(c, H \ ToSet(slots))
  <2>1. \A s \in ToSet(slots) : s \in H
    OBVIOUS
  <2>2. c.busAllocations = (H \ ToSet(slots)) \cup (Granted(b.posted) \cup ToSet(F)) \cup b.busFreeQueue
    <3>1. /\ b.busAllocations = H \cup Granted(b.posted) \cup b.busFreeQueue
          /\ H \cap Granted(b.posted) = {} /\ (H \cup Granted(b.posted)) \cap b.busFreeQueue = {}
      BY <1>1 DEF OwnersOK
    <3> QED
      BY <1>4, <1>8, <2>1, <3>1
  <2> QED
    BY <1>1, <1>4, <1>6, <1>8, <2>1, <2>2 DEF OwnersOK
<1>11. CleanOK(c, D)
  BY <1>1, <1>4, <1>6, <1>8 DEF CleanOK
<1>12. CycleOK(c) /\ UpdateOK(c)
  BY <1>1, <1>6, <1>8 DEF CycleOK, UpdateOK
<1>13. BusOK(c, H \ ToSet(slots), Q, D)
  BY <1>6, <1>8, <1>9, <1>10, <1>11, <1>12 DEF BusOK
<1>14. Fine(b) => Fine(c)
  BY <1>6, <1>8 DEF Fine
<1> QED
  BY <1>8, <1>13, <1>14 DEF c

\* BusFree: slots that may be dirty are released into an update, or wait for one.
LEMMA Frees ==
    ASSUME NEW b, NEW H, NEW Q, NEW D, BusOK(b, H, Q, D), b.cycle = "run",
           NEW slots, slots \subseteq H, slots \subseteq Slots
    PROVE  /\ BusOK(BusFree(b, slots), H \ slots, Q, D)
           /\ Fine(b) => Fine(BusFree(b, slots))
           /\ BusFree(b, slots).cycle = "run"
<1> DEFINE c == BusFree(b, slots)
<1>1. /\ b \in BusType /\ OwnersOK(b, H)
  BY DEF BusOK
<1>2. CASE slots = {}
  BY <1>2 DEF BusFree
<1>3. CASE slots # {} /\ b.isBusRunning
  <2>1. c = [b EXCEPT !.busFreeQueue = @ \cup slots]
    BY <1>3 DEF BusFree
  <2>2. /\ c \in BusType /\ c.busFreeQueue = b.busFreeQueue \cup slots
        /\ c.posted = b.posted /\ c.busWaitQueue = b.busWaitQueue
        /\ c.busAllocations = b.busAllocations
        /\ c.isBusRunning = b.isBusRunning /\ c.update = b.update /\ c.listed = b.listed
        /\ c.endOfCycleAfterBusUpdate = b.endOfCycleAfterBusUpdate
        /\ c.failed = b.failed /\ c.inserting = b.inserting /\ c.cycle = b.cycle
    BY <1>1, <2>1 DEF BusType
  <2> HIDE DEF c
  <2>3. OwnersOK(c, H \ slots)
    BY <1>1, <2>2 DEF OwnersOK
  <2>4. BusOK(c, H \ slots, Q, D) /\ (Fine(b) => Fine(c))
    BY <2>2, <2>3 DEF BusOK, QueueOK, CleanOK, CycleOK, UpdateOK, Fine
  <2> QED
    BY <2>2, <2>4 DEF c
<1>4. CASE slots # {} /\ ~b.isBusRunning
  <2> DEFINE r == [b EXCEPT !.busAllocations = @ \ slots]
  <2>1. c = DoBusUpdate(r)
    BY <1>4 DEF BusFree
  <2>2. /\ r \in BusType /\ r.busAllocations = b.busAllocations \ slots
        /\ r.posted = b.posted /\ r.busWaitQueue = b.busWaitQueue
        /\ r.busFreeQueue = b.busFreeQueue
        /\ r.endOfCycleAfterBusUpdate = b.endOfCycleAfterBusUpdate
        /\ r.failed = b.failed /\ r.inserting = b.inserting /\ r.cycle = b.cycle
    BY <1>1 DEF BusType
  <2> HIDE DEF c, r
  <2>3. OwnersOK(r, H \ slots)
    <3>1. /\ b.busAllocations = H \cup Granted(b.posted) \cup b.busFreeQueue
          /\ H \cap Granted(b.posted) = {} /\ (H \cup Granted(b.posted)) \cap b.busFreeQueue = {}
      BY <1>1 DEF OwnersOK
    <3>2. r.busAllocations = (H \ slots) \cup Granted(b.posted) \cup b.busFreeQueue
      BY <2>2, <3>1
    <3> QED
      BY <2>2, <3>1, <3>2 DEF OwnersOK
  <2>5. Ready(b, H, Q, D)
    BY <1>4, AtRest
  <2>6. Ready(r, H \ slots, Q, D)
    BY <2>2, <2>3, <2>5 DEF Ready, QueueOK
  <2>7. /\ BusOK(DoBusUpdate(r), H \ slots, Q, D)
        /\ Fine(r) => Fine(DoBusUpdate(r))
        /\ DoBusUpdate(r).cycle = r.cycle
    BY <2>6, UpdateStarts
  <2>8. Fine(b) => Fine(r)
    BY <2>2 DEF Fine
  <2> QED
    BY <2>1, <2>2, <2>7, <2>8 DEF c
<1> QED
  BY <1>2, <1>3, <1>4

\* UpdateDone: what waited to be freed is released, into another update.
LEMMA UpdateDoneKeeps ==
    ASSUME NEW b, NEW H, NEW Q, NEW D, Ready(b, H, Q, D), NEW e \in BOOLEAN
    PROVE  /\ BusOK(UpdateDone(b, e), H, Q, D)
           /\ Fine(b) => Fine(UpdateDone(b, e))
           /\ b.cycle = "run" => UpdateDone(b, e).cycle = "run"
<1> DEFINE r == [b EXCEPT !.busAllocations = @ \ b.busFreeQueue, !.busFreeQueue = {}]
           c == UpdateDone(b, e)
<1>1. b \in BusType /\ OwnersOK(b, H)
  BY DEF Ready
<1>2. /\ r \in BusType /\ r.busAllocations = b.busAllocations \ b.busFreeQueue
      /\ r.posted = b.posted /\ r.busWaitQueue = b.busWaitQueue /\ r.busFreeQueue = {}
      /\ r.endOfCycleAfterBusUpdate = b.endOfCycleAfterBusUpdate
      /\ r.failed = b.failed /\ r.inserting = b.inserting /\ r.cycle = b.cycle
  BY <1>1 DEF BusType
<1>3. c = DoBusUpdate(r) \/ c = EndOfBusUpdate(b)
  BY DEF UpdateDone
<1> HIDE DEF r, c
<1>4. OwnersOK(r, H)
  <2>1. /\ b.busAllocations = H \cup Granted(b.posted) \cup b.busFreeQueue
        /\ H \cap Granted(b.posted) = {} /\ (H \cup Granted(b.posted)) \cap b.busFreeQueue = {}
    BY <1>1 DEF OwnersOK
  <2> QED
    BY <1>2, <2>1 DEF OwnersOK
<1>5. Ready(r, H, Q, D)
  BY <1>2, <1>4 DEF Ready, QueueOK
<1>6. /\ BusOK(DoBusUpdate(r), H, Q, D)
      /\ Fine(r) => Fine(DoBusUpdate(r))
      /\ DoBusUpdate(r).cycle = r.cycle
  BY <1>5, UpdateStarts
<1>7. /\ BusOK(EndOfBusUpdate(b), H, Q, D)
      /\ Fine(b) => Fine(EndOfBusUpdate(b))
      /\ b.cycle = "run" => EndOfBusUpdate(b).cycle = "run"
  BY UpdateEnds
<1>8. Fine(b) => Fine(r)
  BY <1>2 DEF Fine
<1> QED
  BY <1>2, <1>3, <1>6, <1>7, <1>8 DEF c

\* UpdateFailed: all who wait fail.
LEMMA UpdateFailedKeeps ==
    ASSUME NEW b, NEW H, NEW Q, NEW D, Ready(b, H, Q, D)
    PROVE  /\ BusOK(UpdateFailed(b), H, Q, D)
           /\ b.cycle = "run" => UpdateFailed(b).cycle = "run"
<1> DEFINE q == b.busWaitQueue
           R == [i \in DOMAIN b.busWaitQueue |-> <<"fail", b.busWaitQueue[i]>>]
           P == b.posted \o R
           f == [b EXCEPT !.posted = P, !.busWaitQueue = <<>>]
<1>1. /\ b \in BusType /\ q \in Seq(AllParts) /\ b.posted \in Seq(Posts) /\ Once(q)
      /\ StrandOK(b.posted) /\ NoTrivial(b.posted)
      /\ ToSet(q) \cap Resolved(b.posted) = {} /\ Q = ToSet(q) \cup Resolved(b.posted)
  BY DEF Ready, BusType, QueueOK
<1>2. UpdateFailed(b) = EndOfBusUpdate(f)
  BY DEF UpdateFailed
<1>3. /\ R \in Seq(Posts) /\ StrandOK(R) /\ NoTrivial(R)
      /\ Resolved(R) = ToSet(q) /\ Granted(R) = {}
  BY <1>1, FailPosts
<1> HIDE DEF R
<1>4. /\ P \in Seq(Posts) /\ StrandOK(P)
      /\ Resolved(P) = Resolved(b.posted) \cup Resolved(R)
      /\ Granted(P) = Granted(b.posted) \cup Granted(R)
      /\ NoTrivial(b.posted) /\ NoTrivial(R) => NoTrivial(P)
      /\ NoFailure(b.posted) /\ NoFailure(R) => NoFailure(P)
  <2>1. Resolved(b.posted) \cap Resolved(R) = {} /\ Granted(b.posted) \cap Granted(R) = {}
    BY <1>1, <1>3
  <2> QED
    BY <1>1, <1>3, <2>1, StrandConcat
<1> HIDE DEF P
<1>5. /\ f \in BusType /\ f.posted = P /\ f.busWaitQueue = <<>>
      /\ f.busAllocations = b.busAllocations /\ f.busFreeQueue = b.busFreeQueue
      /\ f.endOfCycleAfterBusUpdate = b.endOfCycleAfterBusUpdate /\ f.cycle = b.cycle
        /\ f.inserting = b.inserting
  <2>1. <<>> \in Seq(AllParts)
    BY EmptySeq
  <2> DEFINE z == <<>>
  <2>2. z \in Seq(AllParts) /\ f = [b EXCEPT !.posted = P, !.busWaitQueue = z]
    BY <2>1
  <2> HIDE DEF z
  <2>3. /\ f \in BusType /\ f.posted = P /\ f.busWaitQueue = z
        /\ f.busAllocations = b.busAllocations /\ f.busFreeQueue = b.busFreeQueue
        /\ f.endOfCycleAfterBusUpdate = b.endOfCycleAfterBusUpdate /\ f.cycle = b.cycle
        /\ f.inserting = b.inserting
    BY <1>1, <1>4, <2>2 DEF BusType
  <2> QED
    BY <2>3 DEF z
<1> HIDE DEF f
<1>6. ToSet(f.busWaitQueue) = {} /\ Once(f.busWaitQueue)
  BY <1>5 DEF ToSet, Once
<1>7. QueueOK(f, Q)
  BY <1>1, <1>3, <1>4, <1>5, <1>6 DEF QueueOK
<1>8. Ready(f, H, Q, D)
  BY <1>1, <1>3, <1>4, <1>5, <1>7 DEF Ready, OwnersOK
<1>9. /\ BusOK(EndOfBusUpdate(f), H, Q, D)
      /\ f.cycle = "run" => EndOfBusUpdate(f).cycle = "run"
  BY <1>8, UpdateEnds
<1> QED
  BY <1>2, <1>5, <1>9

\* The processes have ended: the cycle ends, or waits for an update.
LEMMA CycleEnds ==
    ASSUME NEW b, NEW H, NEW Q, NEW D, BusOK(b, H, Q, D), b.cycle \in {"update", "run"},
           NEW ok \in BOOLEAN
    PROVE  /\ BusOK(CycleEnded(b, ok), H, Q, D)
           /\ Fine(b) => Fine(CycleEnded(b, ok))
<1> DEFINE d == [b EXCEPT !.endOfCycleAfterBusUpdate = TRUE, !.cycle = "drain"]
           e == [b EXCEPT !.cycle = "delay"]
           c == CycleEnded(b, ok)
<1>1. b \in BusType
  BY DEF BusOK
<1>2. /\ d \in BusType /\ d.posted = b.posted /\ d.busWaitQueue = b.busWaitQueue
      /\ d.busAllocations = b.busAllocations /\ d.busFreeQueue = b.busFreeQueue
      /\ d.isBusRunning = b.isBusRunning /\ d.update = b.update /\ d.listed = b.listed
      /\ d.endOfCycleAfterBusUpdate = TRUE /\ d.cycle = "drain" /\ d.failed = b.failed /\ d.inserting = b.inserting
  BY <1>1 DEF BusType
<1>3. /\ e \in BusType /\ e.posted = b.posted /\ e.busWaitQueue = b.busWaitQueue
      /\ e.busAllocations = b.busAllocations /\ e.busFreeQueue = b.busFreeQueue
      /\ e.isBusRunning = b.isBusRunning /\ e.update = b.update /\ e.listed = b.listed
      /\ e.endOfCycleAfterBusUpdate = b.endOfCycleAfterBusUpdate
      /\ e.cycle = "delay" /\ e.failed = b.failed /\ e.inserting = b.inserting
  BY <1>1 DEF BusType
<1>4. c = IF b.isBusRunning THEN d ELSE IF ok /\ b.nBusUpdates = 0 THEN DoBusUpdate(d) ELSE e
  BY DEF CycleEnded
<1> HIDE DEF d, e, c
<1>5. (Fine(b) => Fine(d)) /\ (Fine(b) => Fine(e))
  BY <1>2, <1>3 DEF Fine
<1>6. CASE b.isBusRunning
  <2>1. BusOK(d, H, Q, D)
    BY <1>2, <1>6 DEF BusOK, QueueOK, OwnersOK, CleanOK, CycleOK, UpdateOK
  <2> QED
    BY <1>4, <1>5, <1>6, <2>1 DEF c
<1>7. CASE ~b.isBusRunning
  <2>1. Ready(d, H, Q, D)
    BY <1>2, <1>7 DEF BusOK, Ready, QueueOK, OwnersOK, CleanOK, CycleOK, UpdateOK
  <2>2. BusOK(DoBusUpdate(d), H, Q, D) /\ (Fine(d) => Fine(DoBusUpdate(d)))
    BY <2>1, UpdateStarts
  <2>3. BusOK(e, H, Q, D)
    BY <1>3, <1>7 DEF BusOK, QueueOK, OwnersOK, CleanOK, CycleOK, UpdateOK
  <2> QED
    BY <1>4, <1>5, <1>7, <2>2, <2>3 DEF c
<1> QED
  BY <1>6, <1>7

\* Slots are emptied, or filled by those who hold them.
LEMMA DirtChanges ==
    ASSUME NEW b, NEW H, NEW Q, NEW D, BusOK(b, H, Q, D), NEW E, E \subseteq D \cup H
    PROVE  BusOK(b, H, Q, E)
BY DEF BusOK, OwnersOK, CleanOK
-----------------------------------------------------------------------------
(***************************************************************************)
(* The jobs.                                                               *)
(***************************************************************************)
HeldOf(slots) == {slots[p] : p \in AllParts} \ {NoSlot}
JobSlots(j, slots) == {slots[p] : p \in Parts(j)} \ {NoSlot}
SlotMaps == [AllParts -> Slots \cup {NoSlot}]
Apart(slots) == \A p, q \in AllParts : slots[p] = slots[q] /\ slots[p] # NoSlot => p = q

\* Whose parts there are.
LEMMA PartFacts ==
    /\ \A j \in Jobs : Need[j] \in Nat \ {0} /\ Inputs(j) \in Nat /\ Parts(j) \subseteq AllParts
    /\ \A j \in Jobs : \A p \in Parts(j) : p[1] = j /\ p[2] \in 1 .. Need[j] /\ p = <<j, p[2]>>
    /\ \A j \in Jobs : \A i \in 1 .. Need[j] : <<j, i>> \in Parts(j)
    /\ \A p \in AllParts : p[1] \in Jobs /\ p \in Parts(p[1])
    /\ \A j \in Jobs : OutPart(j) \in Parts(j) /\ OutPart(j) = <<j, Need[j]>>
    /\ NoSlot \notin Slots
<1>1. \A j \in Jobs : Need[j] \in Nat \ {0}
  BY JobsAssumption
<1>2. \A j \in Jobs : \A p \in Parts(j) : p[1] = j /\ p[2] \in 1 .. Need[j] /\ p = <<j, p[2]>>
  BY DEF Parts
<1>3. \A j \in Jobs : \A i \in 1 .. Need[j] : <<j, i>> \in Parts(j)
  BY DEF Parts
<1>4. \A j \in Jobs : Parts(j) \subseteq AllParts
  BY DEF AllParts
<1>5. \A p \in AllParts : p[1] \in Jobs /\ p \in Parts(p[1])
  BY <1>2 DEF AllParts
<1>6. \A j \in Jobs : Inputs(j) \in Nat
  BY <1>1 DEF Inputs
<1>7. \A j \in Jobs : OutPart(j) \in Parts(j) /\ OutPart(j) = <<j, Need[j]>>
  BY <1>1, <1>3 DEF OutPart
<1>8. NoSlot \notin Slots
  BY BasesAssumption DEF NoSlot, Slots
<1> QED
  BY <1>1, <1>2, <1>3, <1>4, <1>5, <1>6, <1>7, <1>8

\* slotsToFree holds the slots of the inputs.
LEMMA FreedSlots ==
    ASSUME NEW j \in Jobs, NEW slots \in SlotMaps
    PROVE  LET f == SlotsToFree(j, slots) IN
           /\ ToSet(f) = {slots[<<j, i>>] : i \in 1 .. Inputs(j)}
           /\ Kind[j] # "craft" => ToSet(f) = {slots[p] : p \in Parts(j)}
           /\ Kind[j] = "craft" => {slots[p] : p \in Parts(j)} = ToSet(f) \cup {slots[OutPart(j)]}
           /\ Apart(slots) /\ (\A p \in Parts(j) : slots[p] # NoSlot) =>
                /\ f \in Seq(Slots) /\ Once(f)
                /\ Kind[j] = "craft" => slots[OutPart(j)] \notin ToSet(f)
<1> DEFINE n == Inputs(j)
           m == Need[j]
           f == SlotsToFree(j, slots)
<1>1. /\ n \in Nat /\ m \in Nat \ {0} /\ (n = IF Kind[j] = "craft" THEN m - 1 ELSE m)
      /\ Parts(j) \subseteq AllParts
      /\ \A p \in Parts(j) : p[1] = j /\ p[2] \in 1 .. m /\ p = <<j, p[2]>>
      /\ \A i \in 1 .. m : <<j, i>> \in Parts(j)
      /\ OutPart(j) = <<j, m>> /\ NoSlot \notin Slots
  BY PartFacts DEF Inputs
<1>2. /\ f = [i \in 1 .. n |-> slots[<<j, i>>]] /\ DOMAIN f = 1 .. n
      /\ \A i \in 1 .. n : f[i] = slots[<<j, i>>]
  BY DEF SlotsToFree
<1>3. ToSet(f) = {slots[<<j, i>>] : i \in 1 .. n}
  BY <1>2 DEF ToSet
<1> HIDE DEF n, m, f
<1>4. ASSUME Kind[j] # "craft" PROVE ToSet(f) = {slots[p] : p \in Parts(j)}
  <2>1. n = m
    BY <1>1, <1>4
  <2>2. ASSUME NEW p \in Parts(j) PROVE slots[p] \in {slots[<<j, i>>] : i \in 1 .. n}
    BY <1>1, <2>1
  <2>3. ASSUME NEW i \in 1 .. n PROVE slots[<<j, i>>] \in {slots[p] : p \in Parts(j)}
    BY <1>1, <2>1
  <2> QED
    BY <1>3, <2>2, <2>3
<1>5. ASSUME Kind[j] = "craft"
      PROVE  {slots[p] : p \in Parts(j)} = ToSet(f) \cup {slots[OutPart(j)]}
  <2>1. n = m - 1
    BY <1>1, <1>5
  <2>2. \A i \in 1 .. m : i = m \/ i \in 1 .. n
    BY <1>1, <2>1
  <2>3. \A i \in 1 .. n : i \in 1 .. m
    BY <1>1, <2>1
  <2>4. m \in 1 .. m
    BY <1>1
  <2>5. ASSUME NEW p \in Parts(j) PROVE slots[p] \in ToSet(f) \cup {slots[OutPart(j)]}
    <3>1. p[2] \in 1 .. m /\ p = <<j, p[2]>>
      BY <1>1
    <3>2. CASE p[2] = m
      BY <1>1, <3>1, <3>2
    <3>3. CASE p[2] \in 1 .. n
      BY <1>3, <3>1, <3>3
    <3> QED
      BY <2>2, <3>1, <3>2, <3>3
  <2>6. ASSUME NEW i \in 1 .. n PROVE slots[<<j, i>>] \in {slots[p] : p \in Parts(j)}
    BY <1>1, <2>3
  <2>7. slots[OutPart(j)] \in {slots[p] : p \in Parts(j)}
    BY <1>1, <2>4
  <2> QED
    BY <1>3, <2>5, <2>6, <2>7
<1>6. ASSUME Apart(slots), \A p \in Parts(j) : slots[p] # NoSlot
      PROVE  f \in Seq(Slots) /\ Once(f) /\ (Kind[j] = "craft" => slots[OutPart(j)] \notin ToSet(f))
  <2>1. \A i \in 1 .. n : i \in 1 .. m
    BY <1>1
  <2>2. \A i \in 1 .. n : <<j, i>> \in Parts(j) /\ <<j, i>> \in AllParts
    BY <1>1, <2>1
  <2>3. \A i \in 1 .. n : f[i] \in Slots
    BY <1>2, <1>6, <2>2 DEF SlotMaps
  <2>4. f \in [1 .. n -> Slots]
    BY <1>2, <2>3
  <2>5. f \in Seq(Slots) /\ Len(f) = n
    BY <1>1, <2>4, SeqDef
  <2>6. ASSUME NEW i \in 1 .. n, NEW k \in 1 .. n, f[i] = f[k] PROVE i = k
    <3>1. <<j, i>> = <<j, k>>
      BY <1>2, <1>6, <2>2, <2>6 DEF Apart
    <3> QED
      BY <3>1
  <2>7. ASSUME Kind[j] = "craft", NEW i \in 1 .. n, slots[OutPart(j)] = slots[<<j, i>>] PROVE FALSE
    <3>1. OutPart(j) \in Parts(j) /\ OutPart(j) \in AllParts
      BY PartFacts
    <3>2. OutPart(j) = <<j, i>>
      BY <1>6, <2>2, <2>7, <3>1 DEF Apart
    <3>3. i = m
      BY <1>1, <3>2
    <3> QED
      BY <1>1, <2>7, <3>3
  <2> QED
    BY <1>3, <2>5, <2>6, <2>7 DEF Once
<1> QED
  BY <1>3, <1>4, <1>5, <1>6 DEF n, f

\* A job gives back all of its slots.
LEMMA Returns ==
    ASSUME NEW j \in Jobs, NEW slots \in SlotMaps, Apart(slots),
           NEW b, NEW Q, NEW D, BusOK(b, HeldOf(slots), Q, D), b.cycle = "run",
           NEW ok \in BOOLEAN, ok => \A p \in Parts(j) : slots[p] # NoSlot,
           Kind[j] = "craft" => ok,
           ok /\ Kind[j] # "extract" => ToSet(SlotsToFree(j, slots)) \cap D = {}
    PROVE  /\ BusOK(Returned(b, j, slots, ok), HeldOf(slots) \ JobSlots(j, slots), Q, D)
           /\ Fine(b) => Fine(Returned(b, j, slots, ok))
           /\ Returned(b, j, slots, ok).cycle = "run"
<1> DEFINE f == SlotsToFree(j, slots)
           H == HeldOf(slots)
           u == Unloaded(b, j, slots, ok)
           S == FinallyFreed(j, slots, ok)
           c == Returned(b, j, slots, ok)
<1>1. /\ Kind[j] # "craft" => ToSet(f) = {slots[p] : p \in Parts(j)}
      /\ Kind[j] = "craft" => {slots[p] : p \in Parts(j)} = ToSet(f) \cup {slots[OutPart(j)]}
      /\ (\A p \in Parts(j) : slots[p] # NoSlot) =>
           /\ f \in Seq(Slots) /\ Once(f)
           /\ Kind[j] = "craft" => slots[OutPart(j)] \notin ToSet(f)
  BY FreedSlots
<1>2. {slots[p] : p \in Parts(j)} \subseteq {slots[p] : p \in AllParts}
  BY PartFacts
<1>3. JobSlots(j, slots) \subseteq H /\ H \subseteq Slots
  BY <1>2 DEF JobSlots, HeldOf, SlotMaps
<1>4. c = BusFree(u, S)
  BY DEF Returned
<1>5. CASE ok /\ Kind[j] # "extract"
  <2>1. \A p \in Parts(j) : slots[p] # NoSlot
    BY <1>5
  <2>2. NoSlot \notin {slots[p] : p \in Parts(j)}
    BY <2>1
  <2>3. JobSlots(j, slots) = {slots[p] : p \in Parts(j)}
    BY <2>2 DEF JobSlots
  <2>4. f \in Seq(Slots) /\ Once(f) /\ ToSet(f) \subseteq JobSlots(j, slots)
    BY <1>1, <2>1, <2>3
  <2>5. u = HandOver(b, f)
    BY <1>5 DEF Unloaded
  <2>6. S = IF Kind[j] = "craft" THEN {slots[OutPart(j)]} ELSE {}
    <3>1. slots[OutPart(j)] # NoSlot
      BY <2>1, PartFacts
    <3> QED
      BY <1>5, <3>1 DEF FinallyFreed, SlotToFreeOut
  <2> HIDE DEF f, u, S, H, c
  <2>7. ToSet(f) \cap D = {} /\ ToSet(f) \subseteq H
    BY <1>3, <1>5, <2>4 DEF f
  <2>8. BusOK(u, H \ ToSet(f), Q, D) /\ (Fine(b) => Fine(u)) /\ u.cycle = b.cycle
    <3>1. BusOK(b, H, Q, D)
      BY DEF H
    <3>2. /\ BusOK(HandOver(b, f), H \ ToSet(f), Q, D)
          /\ Fine(b) => Fine(HandOver(b, f))
          /\ HandOver(b, f).cycle = b.cycle
      <4>1. f \in Seq(Slots) /\ Once(f) /\ ToSet(f) \subseteq H /\ ToSet(f) \cap D = {}
        BY <2>4, <2>7
      <4> QED
        BY <3>1, <4>1, HandsOver, ZenonT(40)
    <3> QED
      BY <2>5, <3>2
  <2>9. S \subseteq H \ ToSet(f) /\ S \subseteq Slots /\ (H \ ToSet(f)) \ S = H \ JobSlots(j, slots)
    <3>1. CASE Kind[j] = "craft"
      BY <1>1, <1>3, <2>1, <2>3, <2>6, <3>1
    <3>2. CASE Kind[j] # "craft"
      BY <1>1, <2>3, <2>6, <3>2
    <3> QED
      BY <3>1, <3>2
  <2>10. /\ BusOK(BusFree(u, S), (H \ ToSet(f)) \ S, Q, D)
         /\ Fine(u) => Fine(BusFree(u, S))
         /\ BusFree(u, S).cycle = "run"
    BY <2>8, <2>9, Frees
  <2> QED
    BY <1>4, <2>8, <2>9, <2>10 DEF H, c
<1>6. CASE ~(ok /\ Kind[j] # "extract")
  <2>1. Kind[j] # "craft" /\ u = b
    BY <1>6 DEF Unloaded
  <2>2. S = JobSlots(j, slots)
    BY <1>1, <1>6, <2>1 DEF FinallyFreed, JobSlots
  <2> HIDE DEF u, S, H, c
  <2>3. /\ BusOK(BusFree(b, S), H \ S, Q, D)
        /\ Fine(b) => Fine(BusFree(b, S))
        /\ BusFree(b, S).cycle = "run"
    BY <1>3, <2>2, Frees DEF H
  <2> QED
    BY <1>4, <2>1, <2>2, <2>3 DEF H, c
<1> QED
  BY <1>5, <1>6

\* A process has completed: if others are active, the cycle goes on.
LEMMA Completes ==
    ASSUME NEW b, NEW H, NEW Q, NEW D, BusOK(b, H, Q, D), b.cycle = "run", NEW ended
    PROVE  /\ BusOK(Completed(b, ended), H, Q, D)
           /\ Fine(b) => Fine(Completed(b, ended))
           /\ (\E j \in Jobs : ended[j] \in {"inv", "load", "insert"}) => Completed(b, ended).cycle = "run"
<1> DEFINE ok == \A j \in Jobs : ended[j] # "failed"
<1>1. CASE \A j \in Jobs : ended[j] \in {"off", "done", "failed"}
  <2>1. Completed(b, ended) = CycleEnded(b, ok)
    BY <1>1 DEF Completed
  <2>2. ok \in BOOLEAN
    OBVIOUS
  <2>3. ~ \E j \in Jobs : ended[j] \in {"inv", "load", "insert"}
    BY <1>1
  <2> HIDE DEF ok
  <2>4. BusOK(CycleEnded(b, ok), H, Q, D) /\ (Fine(b) => Fine(CycleEnded(b, ok)))
    BY <2>2, CycleEnds
  <2> QED
    BY <2>1, <2>3, <2>4
<1>2. CASE ~ \A j \in Jobs : ended[j] \in {"off", "done", "failed"}
  BY <1>2 DEF Completed
<1> QED
  BY <1>1, <1>2

\* The invariant after a step, part by part.
LEMMA InvAfter ==
    ASSUME base' = base, TypeOK', BusOK(bus', Held', Waiting', dirty'), PartsOK',
           \A j \in Jobs : StageOK(j)', FaultsOK'
    PROVE  Inv'
BY DEF Inv

\* A job ends and gives its slots back.
LEMMA JobEndKeeps ==
    ASSUME Inv, NEW j \in Jobs, j \in base.processes, NEW ok \in BOOLEAN, NEW b, NEW slots \in SlotMaps,
           Apart(slots), \A q \in AllParts \ Parts(j) : slots[q] = slotOf[q],
           BusOK(b, HeldOf(slots), Waiting \ Parts(j), dirty'), b.cycle = "run",
           \A q \in AllParts \ Parts(j) : part[q] = "extracting" => slotOf[q] \notin dirty',
           ok => \A p \in Parts(j) : slots[p] # NoSlot,
           Kind[j] = "craft" => ok,
           ok /\ Kind[j] # "extract" => ToSet(SlotsToFree(j, slots)) \cap dirty' = {},
           JobEnds(b, j, slots, ok),
           base' = base, dirty' \subseteq Slots, faults' \in 0 .. base.faults,
           base.faults = 0 => faults' = 0 /\ Fine(b)
    PROVE  Inv'
<1> DEFINE e == IF ok THEN "done" ELSE "failed"
           ended == [stage EXCEPT ![j] = e]
           c == Returned(b, j, slots, ok)
           H == HeldOf(slots) \ JobSlots(j, slots)
<1>1. /\ TypeOK /\ PartsOK /\ (\A k \in Jobs : StageOK(k)) /\ FaultsOK
      /\ stage \in [Jobs -> {"off", "inv", "load", "insert", "done", "failed"}]
      /\ part \in [AllParts -> {"idle", "queued", "extracting", "loaded", "failed"}]
      /\ slotOf \in SlotMaps
  BY DEF Inv, TypeOK, SlotMaps
<1>2. /\ stage' = ended /\ bus' = Completed(c, ended)
      /\ part' = [p \in AllParts |-> IF p \in Parts(j) THEN "idle" ELSE part[p]]
      /\ slotOf' = [p \in AllParts |-> IF p \in Parts(j) THEN NoSlot ELSE slotOf[p]]
  BY DEF JobEnds
<1>3. BusOK(c, H, Waiting \ Parts(j), dirty') /\ (Fine(b) => Fine(c)) /\ c.cycle = "run"
  BY Returns
<1>4. /\ \A p \in AllParts : p[1] \in Jobs /\ p \in Parts(p[1])
      /\ \A k \in Jobs : Parts(k) \subseteq AllParts /\ \A p \in Parts(k) : p[1] = k
      /\ NoSlot \notin Slots
  BY PartFacts
<1> HIDE DEF c, ended
<1>5. /\ BusOK(Completed(c, ended), H, Waiting \ Parts(j), dirty')
      /\ Fine(c) => Fine(Completed(c, ended))
      /\ (\E k \in Jobs : ended[k] \in {"inv", "load", "insert"}) => Completed(c, ended).cycle = "run"
  BY <1>3, Completes
<1>6. Held' = H
  <2>1. Held' = {slotOf'[p] : p \in AllParts} \ {NoSlot}
    BY DEF Held
  <2>2. ASSUME NEW s \in Held' PROVE s \in H
    <3>1. PICK p \in AllParts : s = slotOf'[p] /\ s # NoSlot
      BY <2>1
    <3>2. p \notin Parts(j) /\ s = slots[p]
      BY <1>2, <3>1
    <3>3. \A q \in Parts(j) : slots[q] # s
      BY <1>4, <3>1, <3>2 DEF Apart
    <3> QED
      BY <3>1, <3>2, <3>3 DEF HeldOf, JobSlots
  <2>3. ASSUME NEW s \in H PROVE s \in Held'
    <3>1. PICK p \in AllParts : s = slots[p] /\ s # NoSlot
      BY DEF HeldOf
    <3>2. p \notin Parts(j)
      BY <3>1 DEF JobSlots
    <3>3. slotOf'[p] = s
      BY <1>2, <3>1, <3>2
    <3> QED
      BY <2>1, <3>1, <3>3
  <2> QED
    BY <2>2, <2>3
<1>7. Waiting' = Waiting \ Parts(j)
  <2>1. Waiting' = {p \in AllParts : part'[p] = "queued"}
    BY DEF Waiting
  <2>2. \A p \in AllParts : part'[p] = IF p \in Parts(j) THEN "idle" ELSE part[p]
    BY <1>2
  <2> QED
    BY <2>1, <2>2 DEF Waiting
<1>8. \A k \in Jobs : ended[k] = IF k = j THEN e ELSE stage[k]
  BY <1>1 DEF ended
<1> HIDE DEF H
<1>9. TypeOK'
  <2>1. bus' \in BusType
    BY <1>2, <1>5 DEF BusOK
  <2>2. stage' \in [Jobs -> {"off", "inv", "load", "insert", "done", "failed"}]
    BY <1>1, <1>2 DEF ended
  <2>3. part' \in [AllParts -> {"idle", "queued", "extracting", "loaded", "failed"}]
    BY <1>1, <1>2
  <2>4. slotOf' \in [AllParts -> Slots \cup {NoSlot}]
    BY <1>1, <1>2 DEF SlotMaps
  <2> QED
    BY <1>1, <2>1, <2>2, <2>3, <2>4 DEF TypeOK
<1>10. BusOK(bus', Held', Waiting', dirty')
  BY <1>2, <1>5, <1>6, <1>7
<1>11. PartsOK'
  <2>1. \A p \in AllParts : \/ p \in Parts(j) /\ part'[p] = "idle" /\ slotOf'[p] = NoSlot
                            \/ p \notin Parts(j) /\ part'[p] = part[p] /\ slotOf'[p] = slotOf[p]
    BY <1>2
  <2> QED
    BY <1>1, <2>1 DEF PartsOK
<1>12. ASSUME NEW k \in Jobs PROVE StageOK(k)'
  <2>1. StageOK(k) /\ StageOK(j)
    BY <1>1
  <2>2. Active(k)' => bus'.cycle = "run"
    BY <1>2, <1>5 DEF Active
  <2>3. stage'[k] # "off" => k \in base'.processes
    BY <1>2, <1>8, <2>1 DEF StageOK
  <2>4. CASE k = j
    <3>1. stage'[k] \in {"done", "failed"}
      BY <1>2, <1>8, <2>4
    <3>2. \A p \in Parts(k) : part'[p] = "idle"
      BY <1>2, <1>4, <2>4
    <3> QED
      BY <2>2, <2>3, <3>1, <3>2 DEF StageOK
  <2>5. CASE k # j
    <3>1. stage'[k] = stage[k]
      BY <1>2, <1>8, <2>5
    <3>2. \A p \in Parts(k) : part'[p] = part[p]
      BY <1>2, <1>4, <2>5
    <3> QED
      BY <2>1, <2>2, <2>3, <3>1, <3>2 DEF StageOK
  <2> QED
    BY <2>4, <2>5
<1>13. FaultsOK'
  BY <1>1, <1>2, <1>3, <1>5 DEF FaultsOK
<1> QED
  BY <1>9, <1>10, <1>11, <1>12, <1>13, InvAfter

\* A part has its items, or has failed.
LEMMA PartEndKeeps ==
    ASSUME Inv, GridsNeverFail, NEW p \in AllParts, stage[p[1]] = "load",
           NEW b, NEW slots \in SlotMaps, NEW result \in {"loaded", "failed"},
           Apart(slots), \A q \in AllParts \ {p} : slots[q] = slotOf[q],
           BusOK(b, HeldOf(slots), Waiting \ {p}, dirty'), b.cycle = "run",
           \A q \in AllParts \ {p} : part[q] = "extracting" => slotOf[q] \notin dirty',
           result = "loaded" => slots[p] # NoSlot,
           PartEnds(b, p, slots, result),
           base' = base, dirty' \subseteq Slots, faults' \in 0 .. base.faults,
           base.faults = 0 => faults' = 0 /\ Fine(b) /\ result # "failed"
    PROVE  Inv'
<1> DEFINE j == p[1]
           parts == [part EXCEPT ![p] = result]
           loaded == \A q \in Parts(j) : parts[q] = "loaded"
           ended == \A q \in Parts(j) : parts[q] \in {"loaded", "failed"}
<1>1. /\ TypeOK /\ PartsOK /\ (\A k \in Jobs : StageOK(k)) /\ FaultsOK
      /\ stage \in [Jobs -> {"off", "inv", "load", "insert", "done", "failed"}]
      /\ part \in [AllParts -> {"idle", "queued", "extracting", "loaded", "failed"}]
      /\ slotOf \in SlotMaps /\ base \in Bases
  BY DEF Inv, TypeOK, SlotMaps
<1>2. /\ \A q \in AllParts : q[1] \in Jobs /\ q \in Parts(q[1])
      /\ \A k \in Jobs : Parts(k) \subseteq AllParts /\ \A q \in Parts(k) : q[1] = k
      /\ NoSlot \notin Slots
  BY PartFacts
<1>3. j \in Jobs /\ p \in Parts(j) /\ Parts(j) \subseteq AllParts /\ stage[j] = "load"
  BY <1>2
<1>4. StageOK(j) /\ j \in base.processes
  BY <1>1, <1>3 DEF StageOK
<1>5. /\ \A q \in AllParts : parts[q] = IF q = p THEN result ELSE part[q]
      /\ parts \in [AllParts -> {"idle", "queued", "extracting", "loaded", "failed"}]
  BY <1>1
<1>6. base.faults = 0 => \A q \in AllParts : parts[q] # "failed"
  BY <1>1, <1>5 DEF FaultsOK
<1>7. IF ended /\ (~loaded \/ Kind[j] = "extract")
      THEN JobEnds(b, j, slots, loaded)
      ELSE /\ stage' = [stage EXCEPT ![j] = IF ended THEN "insert" ELSE @]
           /\ part' = parts /\ slotOf' = slots
           /\ bus' = IF ended THEN Sent(b, <<"jobSent", j>>) ELSE b
  BY DEF PartEnds
<1>8. CASE ended /\ (~loaded \/ Kind[j] = "extract")
  <2>1. \A q \in AllParts \ Parts(j) : slots[q] = slotOf[q]
    BY <1>3
  <2>2. Waiting \ {p} = Waiting \ Parts(j)
    <3>1. \A q \in Parts(j) : q # p => part[q] # "queued"
      BY <1>3, <1>5, <1>8
    <3> QED
      BY <1>3, <3>1 DEF Waiting
  <2>3. \A q \in AllParts \ Parts(j) : part[q] = "extracting" => slotOf[q] \notin dirty'
    BY <1>3
  <2>4. loaded => \A q \in Parts(j) : slots[q] # NoSlot
    <3>1. SUFFICES ASSUME loaded, NEW q \in Parts(j) PROVE slots[q] # NoSlot
      OBVIOUS
    <3>2. CASE q = p
      BY <1>3, <1>5, <3>1, <3>2
    <3>3. CASE q # p
      <4>1. part[q] = "loaded" /\ slots[q] = slotOf[q] /\ q \in AllParts
        BY <1>3, <1>5, <3>1, <3>3
      <4> QED
        BY <1>1, <4>1 DEF PartsOK
    <3> QED
      BY <3>2, <3>3
  <2>5. Kind[j] = "craft" => loaded
    <3>1. SUFFICES ASSUME Kind[j] = "craft" PROVE loaded
      OBVIOUS
    <3>2. base.faults = 0
      BY <1>1, <1>4, <3>1 DEF GridsNeverFail
    <3> QED
      BY <1>3, <1>6, <1>8, <3>2
  <2>6. ~(loaded /\ Kind[j] # "extract")
    BY <1>8
  <2>7. JobEnds(b, j, slots, loaded)
    BY <1>7, <1>8
  <2>8. loaded \in BOOLEAN
    OBVIOUS
  <2>9. BusOK(b, HeldOf(slots), Waiting \ Parts(j), dirty')
    BY <2>2
  <2>10. base.faults = 0 => faults' = 0 /\ Fine(b)
    OBVIOUS
  <2> HIDE DEF loaded, ended, parts, j
  <2> QED
    BY <1>3, <1>4, <2>1, <2>3, <2>4, <2>5, <2>6, <2>7, <2>8, <2>9, <2>10, JobEndKeeps
<1>9. CASE ~(ended /\ (~loaded \/ Kind[j] = "extract"))
  <2>1. /\ stage' = [stage EXCEPT ![j] = IF ended THEN "insert" ELSE @]
        /\ part' = parts /\ slotOf' = slots
        /\ bus' = IF ended THEN Sent(b, <<"jobSent", j>>) ELSE b
    BY <1>7, <1>9
  <2>2. /\ BusOK(bus', HeldOf(slots), Waiting \ {p}, dirty') /\ bus'.cycle = "run"
        /\ Fine(b) => Fine(bus')
    <3>1. <<"jobSent", j>> \in Marks
      BY <1>3 DEF Marks, Posts
    <3>2. /\ BusOK(Sent(b, <<"jobSent", j>>), HeldOf(slots), Waiting \ {p}, dirty')
          /\ Fine(b) => Fine(Sent(b, <<"jobSent", j>>))
          /\ Sent(b, <<"jobSent", j>>).cycle = b.cycle
      BY <3>1, SentKeeps
    <3> QED
      BY <2>1, <3>2
  <2>3. \A k \in Jobs : stage'[k] = IF k = j /\ ended THEN "insert" ELSE stage[k]
    BY <1>1, <1>3, <2>1
  <2>4. Held' = HeldOf(slots)
    BY <2>1 DEF Held, HeldOf
  <2>5. Waiting' = Waiting \ {p}
    <3>1. Waiting' = {q \in AllParts : part'[q] = "queued"}
      BY DEF Waiting
    <3>2. \A q \in AllParts : part'[q] = IF q = p THEN result ELSE part[q]
      BY <1>5, <2>1
    <3> QED
      BY <3>1, <3>2 DEF Waiting
  <2>6. TypeOK'
    <3>1. stage' \in [Jobs -> {"off", "inv", "load", "insert", "done", "failed"}]
      BY <1>1, <2>1
    <3>2. bus' \in BusType
      BY <2>2 DEF BusOK
    <3>3. slotOf' \in [AllParts -> Slots \cup {NoSlot}]
      BY <2>1 DEF SlotMaps
    <3>4. part' \in [AllParts -> {"idle", "queued", "extracting", "loaded", "failed"}]
      BY <1>5, <2>1
    <3> QED
      BY <1>1, <3>1, <3>2, <3>3, <3>4 DEF TypeOK
  <2>7. BusOK(bus', Held', Waiting', dirty')
    BY <2>2, <2>4, <2>5
  <2>8. PartsOK'
    <3>1. \A q \in AllParts : \/ q = p /\ part'[q] = result /\ slotOf'[q] = slots[p]
                              \/ q # p /\ part'[q] = part[q] /\ slotOf'[q] = slotOf[q]
      BY <1>5, <2>1
    <3>2. \A q, r \in AllParts : slotOf'[q] = slotOf'[r] /\ slotOf'[q] # NoSlot => q = r
      BY <2>1 DEF Apart
    <3> QED
      BY <1>1, <3>1, <3>2 DEF PartsOK
  <2>9. ASSUME NEW k \in Jobs PROVE StageOK(k)'
    <3>1. StageOK(k) /\ StageOK(j)
      BY <1>1, <1>3
    <3>2. Active(k)' => bus'.cycle = "run"
      BY <2>2 DEF Active
    <3>3. stage'[k] # "off" => k \in base'.processes
      BY <1>4, <2>3, <3>1 DEF StageOK
    <3>4. CASE k = j
      <4>1. \A q \in Parts(j) : part'[q] = IF q = p THEN result ELSE part[q]
        BY <1>3, <1>5, <2>1
      <4>2. CASE ended
        <5>1. stage'[k] = "insert" /\ loaded /\ Kind[j] # "extract"
          BY <1>3, <1>9, <2>3, <3>4, <4>2
        <5> QED
          BY <2>1, <3>2, <3>3, <3>4, <5>1 DEF StageOK
      <4>3. CASE ~ended
        <5>1. stage'[k] = "load"
          BY <1>3, <2>3, <3>4, <4>3
        <5>2. PICK q \in Parts(j) : part'[q] \notin {"loaded", "failed"}
          BY <2>1, <4>3
        <5>3. \A r \in Parts(j) : part'[r] # "idle"
          BY <1>3, <3>1, <4>1 DEF StageOK
        <5>4. part'[q] \in {"queued", "extracting"}
          BY <1>3, <1>5, <2>1, <5>2, <5>3
        <5> QED
          BY <3>2, <3>3, <3>4, <5>1, <5>3, <5>4 DEF StageOK
      <4> QED
        BY <4>2, <4>3
    <3>5. CASE k # j
      <4>1. stage'[k] = stage[k]
        BY <2>3, <3>5
      <4>2. \A q \in Parts(k) : part'[q] = part[q]
        BY <1>2, <1>3, <1>5, <2>1, <3>5
      <4> QED
        BY <3>1, <3>2, <3>3, <4>1, <4>2 DEF StageOK
    <3> QED
      BY <3>4, <3>5
  <2>10. FaultsOK'
    BY <1>6, <2>1, <2>2 DEF FaultsOK
  <2> QED
    BY <2>6, <2>7, <2>8, <2>9, <2>10, InvAfter
<1> QED
  BY <1>8, <1>9
-----------------------------------------------------------------------------
(***************************************************************************)
(* The steps.                                                              *)
(***************************************************************************)

\* What the invariant says, in the words the steps use.
LEMMA InvFacts ==
    ASSUME Inv
    PROVE  /\ TypeOK /\ base \in Bases /\ bus \in BusType /\ BusOK(bus, Held, Waiting, dirty)
           /\ stage \in [Jobs -> {"off", "inv", "load", "insert", "done", "failed"}]
           /\ part \in [AllParts -> {"idle", "queued", "extracting", "loaded", "failed"}]
           /\ slotOf \in SlotMaps /\ Apart(slotOf) /\ Held = HeldOf(slotOf)
           /\ dirty \subseteq Slots /\ faults \in 0 .. base.faults
           /\ PartsOK /\ (\A k \in Jobs : StageOK(k)) /\ FaultsOK
           /\ base.faults \in Nat /\ base.processes \subseteq Jobs
BY BasesAssumption DEF Inv, TypeOK, SlotMaps, PartsOK, Apart, Held, HeldOf

\* A fault is one that the base allows.
LEMMA FaultFacts ==
    ASSUME Inv, Fault
    PROVE  base.faults # 0 /\ faults' \in 0 .. base.faults
BY InvFacts DEF Fault, FaultsOK

\* A step of the bus only.
LEMMA BusStepKeeps ==
    ASSUME Inv, UNCHANGED <<base, stage, part, slotOf>>, dirty' \subseteq Slots,
           \A p \in AllParts : part[p] = "extracting" => slotOf[p] \notin dirty',
           faults' \in 0 .. base.faults,
           BusOK(bus', Held, Waiting, dirty'), bus.cycle = "run" => bus'.cycle = "run",
           base.faults = 0 => faults' = 0 /\ Fine(bus')
    PROVE  Inv'
<1>1. /\ TypeOK /\ PartsOK /\ (\A k \in Jobs : StageOK(k)) /\ FaultsOK
  BY DEF Inv
<1>2. Held' = Held /\ Waiting' = Waiting
  BY DEF Held, Waiting
<1>3. bus' \in BusType
  BY DEF BusOK
<1>4. TypeOK'
  BY <1>1, <1>3 DEF TypeOK
<1>5. BusOK(bus', Held', Waiting', dirty')
  BY <1>2
<1>6. PartsOK'
  BY <1>1 DEF PartsOK
<1>7. ASSUME NEW k \in Jobs PROVE StageOK(k)'
  BY <1>1 DEF StageOK, Active
<1>8. FaultsOK'
  BY <1>1 DEF FaultsOK
<1> QED
  BY <1>4, <1>5, <1>6, <1>7, <1>8, InvAfter

\* Between cycles nothing is in the hands of the jobs.
LEMMA InactiveParts ==
    ASSUME Inv, bus.cycle # "run"
    PROVE  /\ \A j \in Jobs : ~Active(j)
           /\ \A p \in AllParts : part[p] = "idle"
           /\ Waiting = {}
<1>1. \A j \in Jobs : StageOK(j)
  BY InvFacts
<1>2. \A j \in Jobs : ~Active(j)
  BY <1>1 DEF StageOK
<1>3. \A p \in AllParts : part[p] = "idle"
  BY <1>1, <1>2, PartFacts DEF StageOK, Active
<1> QED
  BY <1>2, <1>3 DEF Waiting

\* An inactive cycle starts another one, or the next bus state.
LEMMA NewCycle ==
    ASSUME Inv, bus.cycle \in {"update", "delay"}, NEW b,
           \/ b = [bus EXCEPT !.cycle = "run"]
           \/ b = [bus EXCEPT !.cycle = "update", !.nBusUpdates = 0]
    PROVE  BusOK(b, Held, Waiting, dirty) /\ (Fine(bus) => Fine(b))
<1>1. bus \in BusType /\ BusOK(bus, Held, Waiting, dirty)
  BY InvFacts
<1>2. /\ b \in BusType /\ b.posted = bus.posted /\ b.busWaitQueue = bus.busWaitQueue
      /\ b.busAllocations = bus.busAllocations /\ b.busFreeQueue = bus.busFreeQueue
      /\ b.isBusRunning = bus.isBusRunning /\ b.update = bus.update /\ b.listed = bus.listed
      /\ b.endOfCycleAfterBusUpdate = bus.endOfCycleAfterBusUpdate
      /\ b.failed = bus.failed /\ b.inserting = bus.inserting
      /\ b.cycle \in {"run", "update"}
  BY <1>1 DEF BusType
<1>3. BusOK(b, Held, Waiting, dirty)
  BY <1>1, <1>2 DEF BusOK, QueueOK, OwnersOK, CleanOK, CycleOK, UpdateOK
<1> QED
  BY <1>2, <1>3 DEF Fine

\* cycleDelayTimer
LEMMA StartCycleKeeps ==
    ASSUME Inv, StartCycle
    PROVE  Inv'
<1>1. /\ TypeOK /\ PartsOK /\ FaultsOK /\ bus.cycle = "delay"
      /\ bus' = [bus EXCEPT !.cycle = "update", !.nBusUpdates = 0]
      /\ stage' = [j \in Jobs |-> "off"]
      /\ UNCHANGED <<base, part, slotOf, dirty, faults>>
  BY InvFacts DEF StartCycle
<1>2. BusOK(bus', Held, Waiting, dirty) /\ (Fine(bus) => Fine(bus'))
  BY <1>1, NewCycle
<1>3. Held' = Held /\ Waiting' = Waiting
  BY <1>1 DEF Held, Waiting
<1>4. TypeOK'
  BY <1>1, <1>2 DEF TypeOK, BusOK
<1>5. BusOK(bus', Held', Waiting', dirty')
  BY <1>1, <1>2, <1>3
<1>6. PartsOK' /\ FaultsOK'
  BY <1>1, <1>2 DEF PartsOK, FaultsOK
<1>7. ASSUME NEW k \in Jobs PROVE StageOK(k)'
  <2>1. \A p \in Parts(k) : part'[p] = "idle"
    BY <1>1, InactiveParts, PartFacts
  <2> QED
    BY <1>1, <2>1 DEF StageOK, Active
<1> QED
  BY <1>1, <1>4, <1>5, <1>6, <1>7, InvAfter

\* The update of the storages fails: the cycle ends.
LEMMA StoragesFailedKeeps ==
    ASSUME Inv, StoragesFailed
    PROVE  Inv'
<1>1. /\ bus.cycle = "update" /\ Fault /\ bus' = CycleEnded(bus, FALSE)
      /\ UNCHANGED <<base, stage, part, slotOf, dirty>>
  BY DEF StoragesFailed
<1>2. BusOK(bus, Held, Waiting, dirty) /\ PartsOK /\ dirty \subseteq Slots
  BY InvFacts
<1>3. BusOK(CycleEnded(bus, FALSE), Held, Waiting, dirty)
  BY <1>1, <1>2, CycleEnds
<1>4. base.faults # 0 /\ faults' \in 0 .. base.faults
  BY <1>1, FaultFacts
<1>5. \A p \in AllParts : part[p] = "extracting" => slotOf[p] \notin dirty'
  BY <1>1, <1>2 DEF PartsOK
<1> QED
  BY <1>1, <1>2, <1>3, <1>4, <1>5, BusStepKeeps

\* A computer executes the List of an update.
LEMMA ListBusKeeps ==
    ASSUME Inv, ListBus
    PROVE  Inv'
<1>1. /\ bus.update = "listing" /\ bus' = [bus EXCEPT !.update = "listed", !.listed = dirty]
      /\ UNCHANGED <<base, stage, part, slotOf, dirty, faults>>
  BY DEF ListBus
<1>2. /\ BusOK(bus, Held, Waiting, dirty) /\ PartsOK /\ FaultsOK /\ bus \in BusType
      /\ dirty \subseteq Slots /\ faults \in 0 .. base.faults
  BY InvFacts
<1>3. /\ bus' \in BusType /\ bus'.posted = bus.posted /\ bus'.busWaitQueue = bus.busWaitQueue
      /\ bus'.busAllocations = bus.busAllocations /\ bus'.busFreeQueue = bus.busFreeQueue
      /\ bus'.isBusRunning = bus.isBusRunning /\ bus'.update = "listed" /\ bus'.listed = dirty
      /\ bus'.endOfCycleAfterBusUpdate = bus.endOfCycleAfterBusUpdate
      /\ bus'.failed = bus.failed /\ bus'.inserting = bus.inserting
      /\ bus'.cycle = bus.cycle
  BY <1>1, <1>2 DEF BusType
<1>4. BusOK(bus', Held, Waiting, dirty)
  BY <1>1, <1>2, <1>3 DEF BusOK, QueueOK, OwnersOK, CleanOK, CycleOK, UpdateOK
<1>5. base.faults = 0 => faults' = 0 /\ Fine(bus')
  BY <1>1, <1>2, <1>3 DEF FaultsOK, Fine
<1>6. \A p \in AllParts : part[p] = "extracting" => slotOf[p] \notin dirty'
  BY <1>1, <1>2 DEF PartsOK
<1> QED
  BY <1>1, <1>2, <1>3, <1>4, <1>5, <1>6, BusStepKeeps

\* An operation of the update before the deposits fails.
LEMMA ListFailedKeeps ==
    ASSUME Inv, ListFailed
    PROVE  Inv'
<1> DEFINE b == [bus EXCEPT !.listed = {}]
<1>1. /\ bus.update \in {"listing", "listed"} /\ Fault /\ bus' = UpdateFailed(b)
      /\ UNCHANGED <<base, stage, part, slotOf, dirty>>
  BY DEF ListFailed
<1>2. /\ BusOK(bus, Held, Waiting, dirty) /\ PartsOK /\ FaultsOK /\ bus \in BusType
      /\ dirty \subseteq Slots
  BY InvFacts
<1>3. /\ b \in BusType /\ b.posted = bus.posted /\ b.busWaitQueue = bus.busWaitQueue
      /\ b.busAllocations = bus.busAllocations /\ b.busFreeQueue = bus.busFreeQueue
      /\ b.endOfCycleAfterBusUpdate = bus.endOfCycleAfterBusUpdate
      /\ b.inserting = bus.inserting /\ b.cycle = bus.cycle
  BY <1>2 DEF BusType
<1> HIDE DEF b
<1>4. Ready(b, Held, Waiting, dirty)
  BY <1>1, <1>2, <1>3 DEF BusOK, Ready, QueueOK, OwnersOK, CleanOK, CycleOK, UpdateOK
<1>5. /\ BusOK(UpdateFailed(b), Held, Waiting, dirty)
      /\ b.cycle = "run" => UpdateFailed(b).cycle = "run"
  BY <1>4, UpdateFailedKeeps
<1>6. base.faults # 0 /\ faults' \in 0 .. base.faults
  BY <1>1, FaultFacts
<1>7. \A p \in AllParts : part[p] = "extracting" => slotOf[p] \notin dirty'
  BY <1>1, <1>2 DEF PartsOK
<1> QED
  BY <1>1, <1>2, <1>3, <1>5, <1>6, <1>7, BusStepKeeps

\* A slot is emptied, or not; the last one ends the update.
LEMMA DepositedKeeps ==
    ASSUME Inv, NEW s \in Slots, Deposited(s)
    PROVE  Inv'
<1>1. PICK ok \in BOOLEAN :
        LET failed == bus.failed \/ ~ok
            left == [bus EXCEPT !.inserting = @ \ {s}, !.failed = failed]
            all == [left EXCEPT !.failed = FALSE]
        IN
        /\ IF ok THEN dirty' = dirty \ {s} /\ UNCHANGED faults
           ELSE dirty' \in {dirty, dirty \ {s}} /\ Fault
        /\ bus' = IF left.inserting # {} THEN left
                  ELSE IF failed THEN UpdateFailed(all) ELSE UpdateDone(all, TRUE)
  BY DEF Deposited
<1> DEFINE failed == bus.failed \/ ~ok
           left == [bus EXCEPT !.inserting = @ \ {s}, !.failed = failed]
           all == [left EXCEPT !.failed = FALSE]
<1>2. /\ s \in bus.inserting /\ UNCHANGED <<base, stage, part, slotOf>>
  BY DEF Deposited
<1>3. /\ BusOK(bus, Held, Waiting, dirty) /\ PartsOK /\ FaultsOK /\ bus \in BusType
      /\ dirty \subseteq Slots /\ faults \in 0 .. base.faults
  BY InvFacts
<1>4. failed \in BOOLEAN
  BY <1>3 DEF BusType
<1>5. bus' = IF left.inserting # {} THEN left
             ELSE IF failed THEN UpdateFailed(all) ELSE UpdateDone(all, TRUE)
  BY <1>1
<1>6. failed => bus.failed \/ ~ok
  OBVIOUS
<1>7. ~failed => ok
  OBVIOUS
<1> HIDE DEF failed
<1>8. /\ left \in BusType /\ left.posted = bus.posted /\ left.busWaitQueue = bus.busWaitQueue
      /\ left.busAllocations = bus.busAllocations /\ left.busFreeQueue = bus.busFreeQueue
      /\ left.isBusRunning = bus.isBusRunning /\ left.update = bus.update
      /\ left.listed = bus.listed
      /\ left.endOfCycleAfterBusUpdate = bus.endOfCycleAfterBusUpdate
      /\ left.inserting = bus.inserting \ {s} /\ left.failed = failed /\ left.cycle = bus.cycle
  BY <1>3, <1>4 DEF BusType
<1>9. /\ all \in BusType /\ all.posted = bus.posted /\ all.busWaitQueue = bus.busWaitQueue
      /\ all.busAllocations = bus.busAllocations /\ all.busFreeQueue = bus.busFreeQueue
      /\ all.endOfCycleAfterBusUpdate = bus.endOfCycleAfterBusUpdate
      /\ all.inserting = left.inserting /\ all.failed = FALSE /\ all.cycle = bus.cycle
  <2> HIDE DEF left
  <2> QED
    BY <1>8 DEF BusType
<1> HIDE DEF left, all
<1>10. /\ dirty' \subseteq dirty /\ faults' \in 0 .. base.faults
       /\ base.faults = 0 => ok /\ faults' = 0
  <2>1. CASE ok
    BY <1>1, <1>3, <2>1 DEF FaultsOK
  <2>2. CASE ~ok
    BY <1>1, <1>3, <2>2, FaultFacts
  <2> QED
    BY <2>1, <2>2
<1>11. base.faults = 0 => ~failed /\ Fine(left) /\ Fine(all)
  BY <1>3, <1>6, <1>8, <1>9, <1>10 DEF FaultsOK, Fine
<1>12. BusOK(bus, Held, Waiting, dirty')
  BY <1>3, <1>10, DirtChanges
<1>13. CASE left.inserting # {}
  <2>1. bus' = left
    BY <1>5, <1>13
  <2>2. BusOK(left, Held, Waiting, dirty')
    BY <1>8, <1>12 DEF BusOK, QueueOK, OwnersOK, CleanOK, CycleOK, UpdateOK
  <2> QED
    BY <1>2, <1>3, <1>8, <1>10, <1>11, <2>1, <2>2, BusStepKeeps DEF PartsOK
<1>14. CASE left.inserting = {}
  <2>1. Ready(all, Held, Waiting, dirty')
    BY <1>2, <1>9, <1>12, <1>14 DEF BusOK, Ready, QueueOK, OwnersOK, CleanOK, CycleOK, UpdateOK
  <2>2. /\ BusOK(UpdateFailed(all), Held, Waiting, dirty')
        /\ all.cycle = "run" => UpdateFailed(all).cycle = "run"
    BY <2>1, UpdateFailedKeeps
  <2>3. /\ BusOK(UpdateDone(all, TRUE), Held, Waiting, dirty')
        /\ Fine(all) => Fine(UpdateDone(all, TRUE))
        /\ all.cycle = "run" => UpdateDone(all, TRUE).cycle = "run"
    BY <2>1, UpdateDoneKeeps
  <2>4. /\ BusOK(bus', Held, Waiting, dirty') /\ (bus.cycle = "run" => bus'.cycle = "run")
        /\ base.faults = 0 => Fine(bus')
    BY <1>5, <1>9, <1>11, <1>14, <2>2, <2>3
  <2> QED
    BY <1>2, <1>3, <1>10, <2>4, BusStepKeeps DEF PartsOK
<1> QED
  BY <1>13, <1>14

\* The parts of a job in their order.
LEMMA PartSeqFacts ==
    ASSUME NEW j \in Jobs
    PROVE  PartSeq(j) \in Seq(AllParts) /\ Once(PartSeq(j)) /\ ToSet(PartSeq(j)) = Parts(j)
<1> DEFINE n == Need[j]
           q == PartSeq(j)
<1>1. n \in Nat /\ q = [i \in 1 .. n |-> <<j, i>>] /\ DOMAIN q = 1 .. n /\ \A i \in 1 .. n : q[i] = <<j, i>>
  BY JobsAssumption DEF PartSeq
<1>2. \A i \in 1 .. n : <<j, i>> \in AllParts
  BY PartFacts
<1> HIDE DEF q
<1>3. q \in [1 .. n -> AllParts]
  BY <1>1, <1>2
<1>4. q \in Seq(AllParts) /\ Len(q) = n
  BY <1>1, <1>3, SeqDef
<1>5. Once(q)
  BY <1>1, <1>4 DEF Once
<1>6. ToSet(q) = {<<j, i>> : i \in 1 .. n}
  BY <1>1 DEF ToSet
<1>7. Parts(j) = {<<j, i>> : i \in 1 .. n}
  BY DEF Parts
<1> QED
  BY <1>4, <1>5, <1>6, <1>7 DEF q

\* A process has work for the bus.
LEMMA RunJobKeeps ==
    ASSUME Inv, NEW j \in Jobs, RunJob(j)
    PROVE  Inv'
<1>1. /\ stage[j] = "inv"
      /\ stage' = [stage EXCEPT ![j] = "load"]
      /\ part' = [p \in AllParts |-> IF p \in Parts(j) THEN "queued" ELSE part[p]]
      /\ bus' = BusAllocate(bus, PartSeq(j))
      /\ UNCHANGED <<base, slotOf, dirty, faults>>
  BY DEF RunJob
<1>2. /\ TypeOK /\ BusOK(bus, Held, Waiting, dirty) /\ PartsOK /\ FaultsOK
      /\ (\A k \in Jobs : StageOK(k))
      /\ stage \in [Jobs -> {"off", "inv", "load", "insert", "done", "failed"}]
      /\ part \in [AllParts -> {"idle", "queued", "extracting", "loaded", "failed"}]
  BY InvFacts
<1>3. /\ \A k \in Jobs : Parts(k) \subseteq AllParts /\ \A p \in Parts(k) : p[1] = k
      /\ \A i \in 1 .. Need[j] : <<j, i>> \in Parts(j)
      /\ Need[j] \in Nat \ {0}
  BY PartFacts
<1>4. bus.cycle = "run" /\ (\A p \in Parts(j) : part[p] = "idle") /\ j \in base.processes
  BY <1>1, <1>2 DEF StageOK, Active
<1>5. Parts(j) \cap Waiting = {}
  BY <1>4 DEF Waiting
<1>6. /\ BusOK(bus', Held, Waiting \cup Parts(j), dirty)
      /\ Fine(bus) => Fine(bus')
      /\ bus'.cycle = "run"
  <2>1. PartSeq(j) \in Seq(AllParts) /\ Once(PartSeq(j)) /\ ToSet(PartSeq(j)) = Parts(j)
    BY PartSeqFacts
  <2>2. /\ BusOK(BusAllocate(bus, PartSeq(j)), Held, Waiting \cup ToSet(PartSeq(j)), dirty)
        /\ Fine(bus) => Fine(BusAllocate(bus, PartSeq(j)))
        /\ BusAllocate(bus, PartSeq(j)).cycle = "run"
    <3> DEFINE q == PartSeq(j)
    <3>1. q \in Seq(AllParts) /\ Once(q) /\ ToSet(q) \cap Waiting = {}
      BY <1>5, <2>1
    <3> HIDE DEF q
    <3>2. /\ BusOK(BusAllocate(bus, q), Held, Waiting \cup ToSet(q), dirty)
          /\ Fine(bus) => Fine(BusAllocate(bus, q))
          /\ BusAllocate(bus, q).cycle = "run"
      <4>1. BusOK(bus, Held, Waiting, dirty) /\ bus.cycle = "run"
        BY <1>2, <1>4
      <4> QED
        BY <3>1, <4>1, Allocates, ZenonT(40)
    <3> QED
      BY <3>2 DEF q
  <2> QED
    BY <1>1, <2>1, <2>2
<1>7. Held' = Held /\ Waiting' = Waiting \cup Parts(j)
  <2>1. \A p \in AllParts : part'[p] = IF p \in Parts(j) THEN "queued" ELSE part[p]
    BY <1>1
  <2> QED
    BY <1>1, <1>3, <2>1 DEF Held, Waiting
<1>8. TypeOK'
  BY <1>1, <1>2, <1>6 DEF TypeOK, BusOK
<1>9. BusOK(bus', Held', Waiting', dirty')
  BY <1>1, <1>6, <1>7
<1>10. \A p \in AllParts : \/ (p \in Parts(j) /\ part[p] = "idle" /\ part'[p] = "queued")
                           \/ (p \notin Parts(j) /\ part'[p] = part[p])
  BY <1>1, <1>4
<1>11. PartsOK'
  BY <1>1, <1>2, <1>10 DEF PartsOK
<1>12. FaultsOK'
  BY <1>1, <1>2, <1>6, <1>10 DEF FaultsOK
<1>13. ASSUME NEW k \in Jobs PROVE StageOK(k)'
  <2>1. CASE k = j
    <3>1. stage'[k] = "load" /\ (\A p \in Parts(k) : part'[p] = "queued") /\ \E p \in Parts(k) : TRUE
      <4>1. <<j, 1>> \in Parts(j)
        BY <1>3
      <4>2. stage'[k] = "load" /\ \A p \in Parts(k) : part'[p] = "queued"
        BY <1>1, <1>2, <1>3, <2>1
      <4> QED
        BY <2>1, <4>1, <4>2
    <3> QED
      BY <1>1, <1>4, <1>6, <2>1, <3>1 DEF StageOK
  <2>2. CASE k # j
    <3>1. stage'[k] = stage[k] /\ \A p \in Parts(k) : part'[p] = part[p]
      BY <1>1, <1>2, <1>3, <2>2
    <3> QED
      BY <1>1, <1>2, <1>6, <3>1 DEF StageOK, Active
  <2> QED
    BY <2>1, <2>2
<1> QED
  BY <1>1, <1>8, <1>9, <1>11, <1>12, <1>13, InvAfter

\* A process has no work for the bus, or its machine failed.
LEMMA SkipJobKeeps ==
    ASSUME Inv, NEW j \in Jobs, SkipJob(j)
    PROVE  Inv'
<1>1. PICK result \in {"done", "failed"} :
        /\ IF result = "failed" THEN Fault ELSE UNCHANGED faults
        /\ stage' = [stage EXCEPT ![j] = result]
  BY DEF SkipJob
<1>2. /\ stage[j] = "inv" /\ bus' = Completed(bus, stage')
      /\ UNCHANGED <<base, part, slotOf, dirty>>
  BY DEF SkipJob
<1>3. /\ TypeOK /\ BusOK(bus, Held, Waiting, dirty) /\ PartsOK /\ FaultsOK
      /\ (\A k \in Jobs : StageOK(k)) /\ faults \in 0 .. base.faults
      /\ stage \in [Jobs -> {"off", "inv", "load", "insert", "done", "failed"}]
  BY InvFacts
<1>4. bus.cycle = "run" /\ (\A p \in Parts(j) : part[p] = "idle") /\ j \in base.processes
  BY <1>2, <1>3 DEF StageOK, Active
<1>5. faults' \in 0 .. base.faults /\ (base.faults = 0 => faults' = 0)
  BY <1>1, <1>3, FaultFacts DEF FaultsOK
<1>6. /\ BusOK(bus', Held, Waiting, dirty) /\ (Fine(bus) => Fine(bus'))
      /\ (\E k \in Jobs : stage'[k] \in {"inv", "load", "insert"}) => bus'.cycle = "run"
  BY <1>2, <1>3, <1>4, Completes
<1>7. Held' = Held /\ Waiting' = Waiting
  BY <1>2 DEF Held, Waiting
<1>8. TypeOK'
  <2>1. bus' \in BusType
    BY <1>6 DEF BusOK
  <2>2. stage' \in [Jobs -> {"off", "inv", "load", "insert", "done", "failed"}]
    BY <1>1, <1>3
  <2> QED
    BY <1>2, <1>3, <1>5, <2>1, <2>2 DEF TypeOK
<1>9. BusOK(bus', Held', Waiting', dirty') /\ PartsOK' /\ FaultsOK'
  BY <1>2, <1>3, <1>5, <1>6, <1>7 DEF PartsOK, FaultsOK
<1>10. ASSUME NEW k \in Jobs PROVE StageOK(k)'
  <2>1. Active(k)' => bus'.cycle = "run"
    BY <1>6 DEF Active
  <2>2. stage'[k] = IF k = j THEN result ELSE stage[k]
    BY <1>1, <1>3
  <2> QED
    BY <1>2, <1>3, <1>4, <2>1, <2>2 DEF StageOK
<1> QED
  BY <1>2, <1>8, <1>9, <1>10, InvAfter

\* The items of one part are in its slot, or the transfer failed.
LEMMA ExtractedKeeps ==
    ASSUME Inv, GridsNeverFail, NEW p \in AllParts, Extracted(p)
    PROVE  Inv'
<1>1. PICK result \in {"loaded", "failed"} :
        /\ IF result = "loaded" THEN dirty' = dirty \cup {slotOf[p]} /\ UNCHANGED faults
           ELSE dirty' \in {dirty, dirty \cup {slotOf[p]}} /\ Fault
        /\ PartEnds(bus, p, slotOf, result)
  BY DEF Extracted
<1>2. part[p] = "extracting" /\ base' = base
  BY DEF Extracted
<1>3. /\ BusOK(bus, Held, Waiting, dirty) /\ PartsOK /\ FaultsOK
      /\ (\A k \in Jobs : StageOK(k)) /\ faults \in 0 .. base.faults
      /\ stage \in [Jobs -> {"off", "inv", "load", "insert", "done", "failed"}]
      /\ slotOf \in SlotMaps /\ Apart(slotOf) /\ Held = HeldOf(slotOf) /\ dirty \subseteq Slots
  BY InvFacts
<1>4. p[1] \in Jobs /\ p \in Parts(p[1])
  BY PartFacts
<1>5. stage[p[1]] = "load" /\ bus.cycle = "run"
  BY <1>2, <1>3, <1>4 DEF StageOK, Active
<1>6. slotOf[p] # NoSlot /\ slotOf[p] \in Slots /\ slotOf[p] \in Held
  BY <1>2, <1>3 DEF PartsOK, SlotMaps, HeldOf
<1>7. dirty' \subseteq dirty \cup {slotOf[p]} /\ faults' \in 0 .. base.faults
  BY <1>1, <1>3, FaultFacts
<1>8. base.faults = 0 => faults' = 0 /\ Fine(bus) /\ result # "failed"
  BY <1>1, <1>3, FaultFacts DEF FaultsOK
<1>9. BusOK(bus, HeldOf(slotOf), Waiting \ {p}, dirty')
  <2>1. BusOK(bus, Held, Waiting, dirty')
    BY <1>3, <1>6, <1>7, DirtChanges
  <2>2. Waiting \ {p} = Waiting
    BY <1>2 DEF Waiting
  <2> QED
    BY <1>3, <2>1, <2>2
<1>10. \A q \in AllParts \ {p} : part[q] = "extracting" => slotOf[q] \notin dirty'
  BY <1>3, <1>6, <1>7 DEF PartsOK
<1>11. dirty' \subseteq Slots
  BY <1>3, <1>6, <1>7
<1> QED
  BY <1>1, <1>2, <1>3, <1>5, <1>6, <1>7, <1>8, <1>9, <1>10, <1>11, PartEndKeeps

\* The items of a job are in its machine, or a transfer failed.
LEMMA InsertedKeeps ==
    ASSUME Inv, GridsNeverFail, NEW j \in Jobs, Inserted(j)
    PROVE  Inv'
<1> DEFINE mine == {slotOf[p] : p \in Parts(j)}
           out == IF Kind[j] = "craft" THEN {slotOf[OutPart(j)]} ELSE {}
<1>1. PICK ok \in BOOLEAN :
        /\ IF ok THEN dirty' = (dirty \ mine) \cup out /\ UNCHANGED faults
           ELSE dirty' \subseteq dirty /\ Fault
        /\ JobEnds(bus, j, slotOf, ok)
  <2>1. \/ dirty' = (dirty \ mine) \cup out /\ UNCHANGED faults /\ JobEnds(bus, j, slotOf, TRUE)
        \/ (\E emptied \in SUBSET mine : dirty' = dirty \ emptied) /\ Fault /\ JobEnds(bus, j, slotOf, FALSE)
    BY DEF Inserted
  <2> QED
    BY <2>1
<1>2. stage[j] = "insert" /\ base' = base
  BY DEF Inserted
<1>3. /\ BusOK(bus, Held, Waiting, dirty) /\ PartsOK /\ FaultsOK /\ base \in Bases
      /\ (\A k \in Jobs : StageOK(k)) /\ faults \in 0 .. base.faults
      /\ slotOf \in SlotMaps /\ Apart(slotOf) /\ Held = HeldOf(slotOf) /\ dirty \subseteq Slots
  BY InvFacts
<1>4. Parts(j) \subseteq AllParts /\ OutPart(j) \in Parts(j)
  BY PartFacts
<1>5. /\ bus.cycle = "run" /\ j \in base.processes
      /\ \A p \in Parts(j) : part[p] = "loaded"
  BY <1>2, <1>3 DEF StageOK, Active
<1>6. \A p \in Parts(j) : slotOf[p] # NoSlot /\ slotOf[p] \in Slots /\ slotOf[p] \in Held
  BY <1>3, <1>4, <1>5 DEF PartsOK, SlotMaps, HeldOf
<1>7. out \subseteq mine /\ mine \subseteq Held /\ mine \subseteq Slots
  BY <1>4, <1>6
<1> HIDE DEF mine, out
<1>8. dirty' \subseteq dirty \cup mine /\ faults' \in 0 .. base.faults /\ (ok => dirty' \cap mine \subseteq out)
  BY <1>1, <1>3, <1>7, FaultFacts
<1>9. base.faults = 0 => faults' = 0 /\ Fine(bus) /\ ok
  BY <1>1, <1>3, FaultFacts DEF FaultsOK
<1>10. Kind[j] = "craft" => ok
  BY <1>3, <1>5, <1>9 DEF GridsNeverFail
<1>11. BusOK(bus, HeldOf(slotOf), Waiting \ Parts(j), dirty')
  <2>1. BusOK(bus, Held, Waiting, dirty')
    BY <1>3, <1>7, <1>8, DirtChanges
  <2>2. Waiting \ Parts(j) = Waiting
    BY <1>5 DEF Waiting
  <2> QED
    BY <1>3, <2>1, <2>2
<1>12. \A q \in AllParts \ Parts(j) : part[q] = "extracting" => slotOf[q] \notin dirty'
  <2>1. ASSUME NEW q \in AllParts \ Parts(j), part[q] = "extracting" PROVE slotOf[q] \notin mine
    BY <1>3, <1>4, <1>6, <2>1 DEF mine, Apart
  <2> QED
    BY <1>3, <1>8, <2>1 DEF PartsOK
<1>13. ok /\ Kind[j] # "extract" => ToSet(SlotsToFree(j, slotOf)) \cap dirty' = {}
  <2> DEFINE f == SlotsToFree(j, slotOf)
  <2>1. /\ Kind[j] # "craft" => ToSet(f) = mine
        /\ Kind[j] = "craft" => mine = ToSet(f) \cup {slotOf[OutPart(j)]}
        /\ Kind[j] = "craft" => slotOf[OutPart(j)] \notin ToSet(f)
    BY <1>3, <1>6, FreedSlots DEF mine
  <2> HIDE DEF f
  <2>2. out = IF Kind[j] = "craft" THEN {slotOf[OutPart(j)]} ELSE {}
    BY DEF out
  <2>3. ToSet(f) \subseteq mine /\ ToSet(f) \cap out = {}
    BY <2>1, <2>2
  <2> QED
    BY <1>8, <2>3 DEF f
<1>14. dirty' \subseteq Slots /\ (ok => \A p \in Parts(j) : slotOf[p] # NoSlot)
  BY <1>3, <1>6, <1>7, <1>8
<1> QED
  BY <1>1, <1>2, <1>3, <1>5, <1>8, <1>9, <1>10, <1>11, <1>12, <1>13, <1>14, JobEndKeeps

\* The first handler of the strand is taken out: what it resolves has left Q.
LEMMA HeadTaken ==
    ASSUME NEW b, NEW H, NEW Q, NEW D, BusOK(b, H, Q, D), b.posted # <<>>
    PROVE  LET c == [b EXCEPT !.posted = Tail(@)]
               x == Head(b.posted)
           IN
           /\ x \in Posts /\ c \in BusType /\ c.cycle = b.cycle
           /\ x[1] \notin {"grant", "fail"} => BusOK(c, H, Q, D)
           /\ x[1] = "trivial" => Ready(c, H, Q, D)
           /\ x[1] = "fail" => x[2] \in Q /\ BusOK(c, H, Q \ {x[2]}, D)
           /\ x[1] = "grant" => /\ x[2] \in Q /\ BusOK(c, H \cup {x[3]}, Q \ {x[2]}, D)
                                /\ x[3] \in Slots /\ x[3] \notin H /\ x[3] \notin D
           /\ Fine(b) => Fine(c) /\ x[1] # "fail"
<1> DEFINE P == b.posted
           T == Tail(P)
           c == [b EXCEPT !.posted = Tail(@)]
           x == Head(b.posted)
<1>1. /\ b \in BusType /\ P \in Seq(Posts) /\ StrandOK(P) /\ QueueOK(b, Q) /\ OwnersOK(b, H)
      /\ CleanOK(b, D) /\ CycleOK(b) /\ UpdateOK(b)
  BY DEF BusOK, BusType
<1>2. /\ x \in Posts /\ T \in Seq(Posts) /\ StrandOK(T)
      /\ Resolves(x) => x[2] \in Resolved(P)
      /\ Resolved(T) = IF Resolves(x) THEN Resolved(P) \ {x[2]} ELSE Resolved(P)
      /\ x[1] = "grant" => x[3] \in Granted(P)
      /\ Granted(T) = IF x[1] = "grant" THEN Granted(P) \ {x[3]} ELSE Granted(P)
      /\ NoFailure(P) => NoFailure(T) /\ x[1] # "fail"
      /\ NoTrivial(P) => NoTrivial(T) /\ x[1] # "trivial"
  BY <1>1, StrandTail
<1>3. OneTrivial(T) /\ (x[1] = "trivial" => NoTrivial(T))
  BY <1>1, TrivialPosts DEF UpdateOK
<1>4. Granted(P) \subseteq Slots
  BY <1>1, StrandSets
<1> HIDE DEF x
<1>5. Resolves(x) <=> x[1] \in {"grant", "fail"}
  BY DEF Resolves
<1> HIDE DEF T
<1>6. /\ c \in BusType /\ c.posted = T /\ c.busWaitQueue = b.busWaitQueue
      /\ c.busAllocations = b.busAllocations /\ c.busFreeQueue = b.busFreeQueue
      /\ c.isBusRunning = b.isBusRunning /\ c.update = b.update /\ c.listed = b.listed
      /\ c.endOfCycleAfterBusUpdate = b.endOfCycleAfterBusUpdate
      /\ c.failed = b.failed /\ c.inserting = b.inserting /\ c.cycle = b.cycle
  BY <1>1, <1>2 DEF BusType, T
<1> HIDE DEF c
<1>7. CycleOK(c) /\ UpdateOK(c)
  BY <1>1, <1>2, <1>3, <1>6 DEF CycleOK, UpdateOK
<1>8. CleanOK(c, D)
  <2>1. Granted(c.posted) \subseteq Granted(P)
    BY <1>2, <1>6
  <2> QED
    BY <1>1, <1>6, <2>1 DEF CleanOK
<1>9. ASSUME x[1] \notin {"grant", "fail"} PROVE BusOK(c, H, Q, D)
  <2>1. QueueOK(c, Q) /\ OwnersOK(c, H)
    BY <1>1, <1>2, <1>5, <1>6, <1>9 DEF QueueOK, OwnersOK
  <2> QED
    BY <1>2, <1>6, <1>7, <1>8, <2>1 DEF BusOK
<1>10. ASSUME x[1] = "trivial" PROVE Ready(c, H, Q, D)
  <2>1. BusOK(c, H, Q, D)
    BY <1>9, <1>10
  <2>2. b.update = "trivial"
    BY <1>1, <1>2, <1>10 DEF UpdateOK
  <2>3. c.inserting = {} /\ c.cycle \in {"run", "drain"}
    BY <1>1, <1>6, <2>2 DEF UpdateOK, CycleOK
  <2> QED
    BY <1>3, <1>6, <1>10, <2>1, <2>3 DEF BusOK, Ready, CleanOK, CycleOK
<1>11. ASSUME x[1] \in {"grant", "fail"} PROVE x[2] \in Q /\ QueueOK(c, Q \ {x[2]})
  <2>1. x[2] \in Resolved(P) /\ Resolved(T) = Resolved(P) \ {x[2]}
    BY <1>2, <1>5, <1>11
  <2> QED
    BY <1>1, <1>6, <2>1 DEF QueueOK
<1>12. ASSUME x[1] = "fail" PROVE BusOK(c, H, Q \ {x[2]}, D)
  <2>1. OwnersOK(c, H)
    BY <1>1, <1>2, <1>6, <1>12 DEF OwnersOK
  <2> QED
    BY <1>2, <1>6, <1>7, <1>8, <1>11, <1>12, <2>1 DEF BusOK
<1>13. ASSUME x[1] = "grant"
       PROVE  BusOK(c, H \cup {x[3]}, Q \ {x[2]}, D) /\ x[3] \in Slots /\ x[3] \notin H /\ x[3] \notin D
  <2>1. x[3] \in Granted(P) /\ Granted(T) = Granted(P) \ {x[3]}
    BY <1>2, <1>13
  <2>2. x[3] \in Slots /\ x[3] \notin H /\ x[3] \notin D
    BY <1>1, <1>4, <2>1 DEF OwnersOK, CleanOK
  <2>3. OwnersOK(c, H \cup {x[3]})
    <3>1. /\ b.busAllocations = H \cup Granted(P) \cup b.busFreeQueue
          /\ H \cap Granted(P) = {} /\ (H \cup Granted(P)) \cap b.busFreeQueue = {}
      BY <1>1 DEF OwnersOK
    <3>2. (H \cup {x[3]}) \cup Granted(T) = H \cup Granted(P)
      BY <2>1
    <3>3. (H \cup {x[3]}) \cap Granted(T) = {}
      BY <2>1, <3>1
    <3> QED
      BY <1>6, <3>1, <3>2, <3>3 DEF OwnersOK
  <2> QED
    BY <1>2, <1>6, <1>7, <1>8, <1>11, <1>13, <2>2, <2>3 DEF BusOK
<1>14. Fine(b) => Fine(c) /\ x[1] # "fail"
  BY <1>2, <1>6 DEF Fine
<1> QED
  BY <1>2, <1>6, <1>9, <1>10, <1>11, <1>12, <1>13, <1>14 DEF c, x

\* A job gets a slot, and starts to move its items there.
LEMMA SlotGiven ==
    ASSUME Inv, NEW p \in AllParts, part[p] = "queued", NEW s \in Slots, s \notin dirty,
           NEW slots \in SlotMaps, slots = [slotOf EXCEPT ![p] = s], Apart(slots),
           NEW b, BusOK(b, HeldOf(slots), Waiting \ {p}, dirty), b.cycle = bus.cycle,
           bus' = Sent(b, <<"partSent", p>>),
           part' = [part EXCEPT ![p] = "extracting"], slotOf' = slots,
           UNCHANGED <<base, stage, dirty, faults>>, Fine(bus) => Fine(b)
    PROVE  Inv'
<1>1. /\ TypeOK /\ PartsOK /\ (\A k \in Jobs : StageOK(k)) /\ FaultsOK
      /\ part \in [AllParts -> {"idle", "queued", "extracting", "loaded", "failed"}]
      /\ slotOf \in SlotMaps
  BY InvFacts
<1>2. /\ \A q \in AllParts : q[1] \in Jobs /\ q \in Parts(q[1])
      /\ \A k \in Jobs : Parts(k) \subseteq AllParts /\ \A q \in Parts(k) : q[1] = k
      /\ NoSlot \notin Slots
  BY PartFacts
<1>3. /\ BusOK(bus', HeldOf(slots), Waiting \ {p}, dirty) /\ bus'.cycle = bus.cycle
      /\ Fine(bus) => Fine(bus')
  <2>1. <<"partSent", p>> \in Marks
    BY DEF Marks, Posts
  <2>2. /\ BusOK(Sent(b, <<"partSent", p>>), HeldOf(slots), Waiting \ {p}, dirty)
        /\ Fine(b) => Fine(Sent(b, <<"partSent", p>>))
        /\ Sent(b, <<"partSent", p>>).cycle = b.cycle
    BY <2>1, SentKeeps
  <2> QED
    BY <2>2
<1>4. \A q \in AllParts : \/ (q = p /\ part'[q] = "extracting" /\ slotOf'[q] = s)
                          \/ (q # p /\ part'[q] = part[q] /\ slotOf'[q] = slotOf[q])
  BY <1>1 DEF SlotMaps
<1>5. Held' = HeldOf(slots) /\ Waiting' = Waiting \ {p}
  <2>1. Held' = HeldOf(slots)
    BY DEF Held, HeldOf
  <2>2. Waiting' = {q \in AllParts : part'[q] = "queued"}
    BY DEF Waiting
  <2> QED
    BY <1>4, <2>1, <2>2 DEF Waiting
<1>6. TypeOK'
  BY <1>1, <1>3 DEF TypeOK, BusOK, SlotMaps
<1>7. BusOK(bus', Held', Waiting', dirty')
  BY <1>3, <1>5
<1>8. PartsOK'
  <2>1. \A q, r \in AllParts : slotOf'[q] = slotOf'[r] /\ slotOf'[q] # NoSlot => q = r
    BY DEF Apart
  <2> QED
    BY <1>1, <1>2, <1>4, <2>1 DEF PartsOK
<1>9. ASSUME NEW k \in Jobs PROVE StageOK(k)'
  <2>1. StageOK(k) /\ (stage[k] \notin {"load"} => p \notin Parts(k))
    BY <1>1 DEF StageOK
  <2>2. CASE p \in Parts(k)
    <3>1. /\ stage'[k] = "load" /\ part'[p] = "extracting"
          /\ \A q \in Parts(k) : part'[q] # "idle"
      BY <1>2, <1>4, <2>1, <2>2 DEF StageOK
    <3> QED
      BY <1>3, <2>1, <2>2, <3>1 DEF StageOK, Active
  <2>3. CASE p \notin Parts(k)
    <3>1. \A q \in Parts(k) : part'[q] = part[q]
      BY <1>2, <1>4, <2>3
    <3> QED
      BY <1>3, <2>1, <3>1 DEF StageOK, Active
  <2> QED
    BY <2>2, <2>3
<1>10. FaultsOK'
  BY <1>1, <1>3, <1>4 DEF FaultsOK
<1> QED
  BY <1>6, <1>7, <1>8, <1>9, <1>10, InvAfter

\* The strand runs a handler.
LEMMA RunPostedKeeps ==
    ASSUME Inv, GridsNeverFail, RunPosted
    PROVE  Inv'
<1> DEFINE post == Head(bus.posted)
           b == [bus EXCEPT !.posted = Tail(@)]
<1>1. /\ BusOK(bus, Held, Waiting, dirty) /\ PartsOK /\ FaultsOK /\ base \in Bases
      /\ (\A k \in Jobs : StageOK(k)) /\ faults \in 0 .. base.faults
      /\ part \in [AllParts -> {"idle", "queued", "extracting", "loaded", "failed"}]
      /\ slotOf \in SlotMaps /\ Apart(slotOf) /\ Held = HeldOf(slotOf) /\ dirty \subseteq Slots
  BY InvFacts
<1>2. bus.posted # <<>> /\ UNCHANGED <<base, dirty, faults>>
  BY DEF RunPosted
<1>3. /\ post \in Posts /\ b \in BusType /\ b.cycle = bus.cycle
      /\ post[1] \notin {"grant", "fail"} => BusOK(b, Held, Waiting, dirty)
      /\ post[1] = "trivial" => Ready(b, Held, Waiting, dirty)
      /\ post[1] = "fail" => post[2] \in Waiting /\ BusOK(b, Held, Waiting \ {post[2]}, dirty)
      /\ post[1] = "grant" => /\ post[2] \in Waiting
                              /\ BusOK(b, Held \cup {post[3]}, Waiting \ {post[2]}, dirty)
                              /\ post[3] \in Slots /\ post[3] \notin Held /\ post[3] \notin dirty
      /\ Fine(bus) => Fine(b) /\ post[1] # "fail"
  BY <1>1, <1>2, HeadTaken
<1>4. \/ post[1] \in {"partSent", "jobSent", "listSent"} /\ bus' = b /\ UNCHANGED <<stage, part, slotOf>>
      \/ post[1] = "trivial" /\ bus' = UpdateDone(b, FALSE) /\ UNCHANGED <<stage, part, slotOf>>
      \/ post[1] = "fail" /\ PartEnds(b, post[2], slotOf, "failed")
      \/ post[1] = "grant" /\ PartEnds(b, post[2], [slotOf EXCEPT ![post[2]] = post[3]], "loaded")
      \/ /\ post[1] = "grant" /\ slotOf' = [slotOf EXCEPT ![post[2]] = post[3]]
         /\ part' = [part EXCEPT ![post[2]] = "extracting"]
         /\ bus' = Sent(b, <<"partSent", post[2]>>) /\ UNCHANGED stage
  <2>1. post[1] \in {"grant", "fail", "trivial", "partSent", "jobSent", "listSent"}
    BY <1>3, PostParts
  <2> QED
    BY <2>1 DEF RunPosted
<1> HIDE DEF post, b
<1>5. base.faults = 0 => faults' = 0 /\ Fine(b) /\ post[1] # "fail"
  BY <1>1, <1>2, <1>3 DEF FaultsOK
<1>6. \A p \in AllParts : part[p] = "extracting" => slotOf[p] \notin dirty'
  BY <1>1, <1>2 DEF PartsOK
<1>7. dirty' \subseteq Slots /\ faults' \in 0 .. base.faults
  BY <1>1, <1>2
<1>8. \A p \in Waiting : /\ p \in AllParts /\ part[p] = "queued" /\ slotOf[p] = NoSlot
                         /\ stage[p[1]] = "load" /\ bus.cycle = "run"
  <2>1. ASSUME NEW p \in Waiting PROVE stage[p[1]] = "load" /\ bus.cycle = "run"
    <3>1. p \in AllParts /\ part[p] = "queued" /\ p[1] \in Jobs /\ p \in Parts(p[1])
      BY PartFacts DEF Waiting
    <3> QED
      BY <1>1, <3>1 DEF StageOK, Active
  <2> QED
    BY <1>1, <2>1 DEF Waiting, PartsOK
<1>9. CASE post[1] \in {"partSent", "jobSent", "listSent"} /\ bus' = b /\ UNCHANGED <<stage, part, slotOf>>
  <2>1. BusOK(bus', Held, Waiting, dirty') /\ bus'.cycle = bus.cycle
    BY <1>2, <1>3, <1>9
  <2> QED
    BY <1>2, <1>5, <1>6, <1>7, <1>9, <2>1, BusStepKeeps
<1>10. CASE post[1] = "trivial" /\ bus' = UpdateDone(b, FALSE) /\ UNCHANGED <<stage, part, slotOf>>
  <2>1. /\ BusOK(UpdateDone(b, FALSE), Held, Waiting, dirty)
        /\ Fine(b) => Fine(UpdateDone(b, FALSE))
        /\ b.cycle = "run" => UpdateDone(b, FALSE).cycle = "run"
    BY <1>3, <1>10, UpdateDoneKeeps
  <2>2. /\ BusOK(bus', Held, Waiting, dirty') /\ (bus.cycle = "run" => bus'.cycle = "run")
        /\ base.faults = 0 => faults' = 0 /\ Fine(bus')
    BY <1>2, <1>3, <1>5, <1>10, <2>1
  <2> QED
    BY <1>2, <1>6, <1>7, <1>10, <2>2, BusStepKeeps
<1>11. CASE post[1] = "fail" /\ PartEnds(b, post[2], slotOf, "failed")
  <2> DEFINE p == post[2]
  <2>1. p \in Waiting /\ BusOK(b, Held, Waiting \ {p}, dirty)
    BY <1>3, <1>11
  <2> HIDE DEF p
  <2>2. /\ p \in AllParts /\ stage[p[1]] = "load" /\ b.cycle = "run"
        /\ BusOK(b, HeldOf(slotOf), Waiting \ {p}, dirty')
    BY <1>1, <1>2, <1>3, <1>8, <2>1
  <2>3. PartEnds(b, p, slotOf, "failed")
    BY <1>11 DEF p
  <2> QED
    BY <1>1, <1>2, <1>5, <1>6, <1>7, <1>11, <2>2, <2>3, PartEndKeeps
<1>12. ASSUME post[1] = "grant"
       PROVE  Inv'
  <2> DEFINE p == post[2]
             s == post[3]
             slots == [slotOf EXCEPT ![p] = s]
  <2>1. /\ p \in Waiting /\ BusOK(b, Held \cup {s}, Waiting \ {p}, dirty)
        /\ s \in Slots /\ s \notin Held /\ s \notin dirty
    BY <1>3, <1>12
  <2>2. \/ PartEnds(b, p, slots, "loaded")
        \/ /\ slotOf' = slots /\ part' = [part EXCEPT ![p] = "extracting"]
           /\ bus' = Sent(b, <<"partSent", p>>) /\ UNCHANGED stage
    BY <1>4, <1>12
  <2> HIDE DEF p, s
  <2>3. p \in AllParts /\ part[p] = "queued" /\ slotOf[p] = NoSlot /\ stage[p[1]] = "load" /\ b.cycle = "run"
    BY <1>3, <1>8, <2>1
  <2>4. NoSlot \notin Slots
    BY PartFacts
  <2>5. /\ slots \in SlotMaps /\ slots[p] = s
        /\ \A q \in AllParts \ {p} : slots[q] = slotOf[q]
    BY <1>1, <2>1, <2>3 DEF SlotMaps
  <2> HIDE DEF slots
  <2>6. \A q \in AllParts : slotOf[q] # s
    BY <1>1, <2>1, <2>4 DEF HeldOf
  <2>7. Apart(slots)
    BY <1>1, <2>5, <2>6 DEF Apart
  <2>8. HeldOf(slots) = Held \cup {s}
    <3>1. ASSUME NEW x \in HeldOf(slots) PROVE x \in Held \cup {s}
      BY <1>1, <2>5 DEF HeldOf
    <3>2. ASSUME NEW x \in Held PROVE x \in HeldOf(slots)
      <4>1. PICK q \in AllParts : x = slotOf[q] /\ x # NoSlot
        BY <1>1 DEF HeldOf
      <4>2. q # p
        BY <2>3, <4>1
      <4> QED
        BY <2>5, <4>1, <4>2 DEF HeldOf
    <3>3. s \in HeldOf(slots)
      BY <2>1, <2>3, <2>4, <2>5 DEF HeldOf
    <3> QED
      BY <3>1, <3>2, <3>3
  <2>9. BusOK(b, HeldOf(slots), Waiting \ {p}, dirty)
    BY <2>1, <2>8
  <2>10. CASE PartEnds(b, p, slots, "loaded")
    <3>1. BusOK(b, HeldOf(slots), Waiting \ {p}, dirty') /\ slots[p] # NoSlot
      BY <1>2, <2>1, <2>4, <2>5, <2>9
    <3> QED
      BY <1>2, <1>5, <1>6, <1>7, <2>3, <2>5, <2>7, <2>10, <3>1, PartEndKeeps
  <2>11. CASE /\ slotOf' = slots /\ part' = [part EXCEPT ![p] = "extracting"]
              /\ bus' = Sent(b, <<"partSent", p>>) /\ UNCHANGED stage
    <3>1. slots = [slotOf EXCEPT ![p] = s]
      BY DEF slots
    <3>2. Fine(bus) => Fine(b)
      BY <1>3
    <3> QED
      BY <1>2, <1>3, <2>1, <2>3, <2>5, <2>7, <2>9, <2>11, <3>1, <3>2, SlotGiven
  <2> QED
    BY <2>2, <2>10, <2>11
<1> QED
  BY <1>4, <1>9, <1>10, <1>11, <1>12

\* freeSlots from the back: each slot once.
LEMMA FromTheBackFacts ==
    ASSUME NEW S, S \subseteq Slots, NEW n \in Nat, NEW q \in FromTheBack(S, n)
    PROVE  q \in Seq(Slots) /\ Len(q) = n /\ Once(q) /\ ToSet(q) \subseteq S
<1>1. /\ q \in [1 .. n -> S]
      /\ \A i \in 1 .. n : \A s \in S : s > q[i] <=> \E k \in 1 .. i - 1 : q[k] = s
  BY DEF FromTheBack
<1>2. q \in [1 .. n -> Slots]
  BY <1>1
<1>3. q \in Seq(Slots) /\ Len(q) = n
  BY <1>2, SeqDef
<1>4. \A i \in 1 .. n : q[i] \in S /\ q[i] \in Int
  <2>1. \A s \in Slots : s \in Int
    BY BasesAssumption DEF Slots
  <2>2. \A i \in 1 .. n : q[i] \in S
    BY <1>1
  <2> QED
    BY <2>1, <2>2
<1>5. ASSUME NEW i \in 1 .. n, NEW k \in 1 .. n, i < k, q[i] = q[k] PROVE FALSE
  <2>1. i \in 1 .. k - 1
    BY <1>5
  <2>2. q[i] > q[k]
    BY <1>1, <1>4, <2>1
  <2> QED
    BY <1>4, <1>5, <2>2
<1>6. ASSUME NEW i \in 1 .. n, NEW k \in 1 .. n, q[i] = q[k] PROVE i = k
  <2>1. i < k \/ k < i \/ i = k
    OBVIOUS
  <2> QED
    BY <1>5, <1>6, <2>1
<1>7. ToSet(q) = {q[i] : i \in 1 .. Len(q)}
  BY <1>3, SetOfSequence
<1> QED
  BY <1>3, <1>4, <1>6, <1>7 DEF Once

\* The answer of the List: slots are granted, and what is unallocated is inserted.
LEMMA GrantAndInsertKeeps ==
    ASSUME Inv, GrantAndInsert
    PROVE  Inv'
<1> DEFINE occupied == Unallocated(bus.listed)
           free == Unallocated(Slots \ bus.listed)
           n == Served(bus, Cardinality(free))
<1>1. bus.update = "listed" /\ UNCHANGED <<base, stage, part, slotOf, dirty, faults>>
  BY DEF GrantAndInsert
<1>2. PICK given \in FromTheBack(free, n) :
         LET granted == Grant([bus EXCEPT !.listed = {}, !.busAllocations = @ \cup ToSet(given)], given)
         IN bus' = IF occupied = {}
                   THEN [granted EXCEPT !.update = "trivial", !.posted = Append(@, <<"trivial">>)]
                   ELSE [granted EXCEPT !.update = "inserting", !.inserting = occupied]
  BY DEF GrantAndInsert
<1> DEFINE b == [bus EXCEPT !.listed = {}, !.busAllocations = @ \cup ToSet(given)]
           g == Grant(b, given)
<1>3. bus' = IF occupied = {}
             THEN [g EXCEPT !.update = "trivial", !.posted = Append(@, <<"trivial">>)]
             ELSE [g EXCEPT !.update = "inserting", !.inserting = occupied]
  BY <1>2
<1>4. /\ bus \in BusType /\ BusOK(bus, Held, Waiting, dirty) /\ PartsOK /\ FaultsOK
      /\ dirty \subseteq Slots /\ faults \in 0 .. base.faults
  BY InvFacts
<1>5. /\ StrandOK(bus.posted) /\ QueueOK(bus, Waiting) /\ OwnersOK(bus, Held)
      /\ CleanOK(bus, dirty) /\ CycleOK(bus) /\ UpdateOK(bus)
      /\ bus.posted \in Seq(Posts) /\ bus.busWaitQueue \in Seq(AllParts) /\ bus.listed \subseteq Slots
  BY <1>4 DEF BusOK, BusType
<1>6. /\ free \subseteq Slots /\ free \cap bus.listed = {} /\ free \cap bus.busAllocations = {}
      /\ occupied \subseteq Slots
  BY <1>5 DEF Unallocated
<1>7. n \in Nat /\ n <= Len(bus.busWaitQueue)
  <2>1. IsFiniteSet(Slots)
    BY FS_Interval, BasesAssumption DEF Slots
  <2>2. Cardinality(free) \in Nat
    BY <1>6, <2>1, FS_Subset, FS_CardinalityType
  <2> QED
    BY <1>5, <2>2 DEF Served
<1> HIDE DEF free, n, occupied
<1>8. given \in Seq(Slots) /\ Len(given) = n /\ Once(given) /\ ToSet(given) \subseteq free
  BY <1>6, <1>7, FromTheBackFacts
<1>9. /\ b \in BusType /\ b.posted = bus.posted /\ b.busWaitQueue = bus.busWaitQueue
      /\ b.busAllocations = bus.busAllocations \cup ToSet(given)
      /\ b.busFreeQueue = bus.busFreeQueue /\ b.isBusRunning = bus.isBusRunning
      /\ b.endOfCycleAfterBusUpdate = bus.endOfCycleAfterBusUpdate
      /\ b.failed = bus.failed /\ b.inserting = bus.inserting /\ b.cycle = bus.cycle
  <2> DEFINE G == ToSet(given)
  <2>1. G \subseteq Slots
    BY <1>6, <1>8
  <2> HIDE DEF G
  <2> QED
    BY <1>4, <2>1 DEF BusType, G
<1> HIDE DEF b
<1>10. ToSet(given) \cap Granted(b.posted) = {}
  BY <1>5, <1>6, <1>8, <1>9 DEF OwnersOK
<1>11. /\ g = [b EXCEPT !.posted = g.posted, !.busWaitQueue = g.busWaitQueue]
       /\ g \in BusType /\ StrandOK(g.posted) /\ QueueOK(g, Waiting)
       /\ Granted(g.posted) = Granted(b.posted) \cup ToSet(given)
       /\ NoTrivial(b.posted) => NoTrivial(g.posted)
       /\ OneTrivial(b.posted) => OneTrivial(g.posted)
       /\ NoFailure(b.posted) => NoFailure(g.posted)
  <2>1. /\ StrandOK(b.posted) /\ QueueOK(b, Waiting) /\ Len(given) <= Len(b.busWaitQueue)
    BY <1>5, <1>7, <1>8, <1>9 DEF QueueOK
  <2> QED
    BY <1>8, <1>9, <1>10, <2>1, Grants
<1> HIDE DEF g
<1>12. /\ g.busAllocations = b.busAllocations /\ g.busFreeQueue = b.busFreeQueue
       /\ g.isBusRunning = b.isBusRunning
       /\ g.endOfCycleAfterBusUpdate = b.endOfCycleAfterBusUpdate
       /\ g.failed = b.failed /\ g.inserting = b.inserting /\ g.cycle = b.cycle
  BY <1>9, <1>11 DEF BusType
<1>13. NoTrivial(g.posted) /\ bus.inserting = {} /\ bus.isBusRunning
  BY <1>1, <1>5, <1>9, <1>11 DEF UpdateOK
<1>14. /\ bus' \in BusType /\ bus'.posted \in Seq(Posts) /\ StrandOK(bus'.posted)
       /\ Resolved(bus'.posted) = Resolved(g.posted) /\ Granted(bus'.posted) = Granted(g.posted)
       /\ NoFailure(g.posted) => NoFailure(bus'.posted)
       /\ bus'.update \in {"trivial", "inserting"} /\ UpdateOK(bus')
       /\ bus'.busWaitQueue = g.busWaitQueue /\ bus'.busAllocations = g.busAllocations
       /\ bus'.busFreeQueue = g.busFreeQueue /\ bus'.isBusRunning = g.isBusRunning
       /\ bus'.endOfCycleAfterBusUpdate = g.endOfCycleAfterBusUpdate
       /\ bus'.failed = g.failed /\ bus'.cycle = g.cycle
  <2>1. g.posted \in Seq(Posts) /\ <<"trivial">> \in Posts
    BY <1>11 DEF BusType, Posts
  <2>2. CASE occupied = {}
    <3> DEFINE A == Append(g.posted, <<"trivial">>)
    <3>1. bus' = [g EXCEPT !.update = "trivial", !.posted = A]
      BY <1>3, <2>2
    <3>2. /\ A \in Seq(Posts) /\ StrandOK(A)
          /\ Resolved(A) = Resolved(g.posted) /\ Granted(A) = Granted(g.posted)
          /\ NoFailure(g.posted) => NoFailure(A)
      <4>1. <<"trivial">>[1] \notin {"grant", "fail"}
        OBVIOUS
      <4> QED
        BY <1>11, <2>1, <4>1, StrandAppend
    <3>3. OneTrivial(g.posted)
      BY <1>13 DEF NoTrivial, OneTrivial
    <3>4. OneTrivial(A)
      BY <1>13, <2>1, <3>3, TrivialPosts
    <3> HIDE DEF A
    <3>5. /\ bus' \in BusType /\ bus'.posted = A /\ bus'.update = "trivial"
          /\ bus'.busWaitQueue = g.busWaitQueue /\ bus'.busAllocations = g.busAllocations
          /\ bus'.busFreeQueue = g.busFreeQueue /\ bus'.isBusRunning = g.isBusRunning
          /\ bus'.endOfCycleAfterBusUpdate = g.endOfCycleAfterBusUpdate
          /\ bus'.failed = g.failed /\ bus'.inserting = g.inserting /\ bus'.cycle = g.cycle
      BY <1>11, <3>1, <3>2 DEF BusType
    <3>6. UpdateOK(bus')
      BY <1>9, <1>12, <1>13, <3>4, <3>5 DEF UpdateOK
    <3> QED
      BY <3>2, <3>5, <3>6
  <2>3. CASE occupied # {}
    <3>1. bus' = [g EXCEPT !.update = "inserting", !.inserting = occupied]
      BY <1>3, <2>3
    <3>2. OneTrivial(g.posted)
      BY <1>13 DEF NoTrivial, OneTrivial
    <3>3. /\ bus' \in BusType /\ bus'.posted = g.posted /\ bus'.update = "inserting"
          /\ bus'.busWaitQueue = g.busWaitQueue /\ bus'.busAllocations = g.busAllocations
          /\ bus'.busFreeQueue = g.busFreeQueue /\ bus'.isBusRunning = g.isBusRunning
          /\ bus'.endOfCycleAfterBusUpdate = g.endOfCycleAfterBusUpdate
          /\ bus'.failed = g.failed /\ bus'.cycle = g.cycle
      BY <1>6, <1>11, <3>1 DEF BusType
    <3>4. UpdateOK(bus')
      BY <1>9, <1>12, <1>13, <3>2, <3>3 DEF UpdateOK
    <3> QED
      BY <1>11, <2>1, <3>3, <3>4
  <2> QED
    BY <2>2, <2>3
<1>15. QueueOK(bus', Waiting)
  BY <1>11, <1>14 DEF QueueOK
<1>16. OwnersOK(bus', Held)
  <2>1. bus'.busAllocations = Held \cup Granted(bus'.posted) \cup bus'.busFreeQueue
    BY <1>5, <1>9, <1>11, <1>12, <1>14 DEF OwnersOK
  <2>2. ToSet(given) \cap bus.busAllocations = {}
    BY <1>6, <1>8
  <2>3. Held \subseteq bus.busAllocations /\ bus.busFreeQueue \subseteq bus.busAllocations
    BY <1>5 DEF OwnersOK
  <2> QED
    BY <1>5, <1>9, <1>11, <1>12, <1>14, <2>1, <2>2, <2>3 DEF OwnersOK
<1>17. CleanOK(bus', dirty)
  <2>1. Granted(bus.posted) \cap dirty = {} /\ dirty \ bus.listed \subseteq bus.busAllocations
    BY <1>1, <1>5 DEF CleanOK
  <2>2. ToSet(given) \cap dirty = {}
    BY <1>6, <1>8, <2>1
  <2> QED
    BY <1>9, <1>11, <1>14, <2>1, <2>2 DEF CleanOK
<1>18. CycleOK(bus') /\ bus'.cycle = bus.cycle
  BY <1>5, <1>9, <1>12, <1>14 DEF CycleOK
<1>19. BusOK(bus', Held, Waiting, dirty)
  BY <1>14, <1>15, <1>16, <1>17, <1>18 DEF BusOK
<1>20. base.faults = 0 => faults' = 0 /\ Fine(bus')
  BY <1>1, <1>4, <1>9, <1>11, <1>12, <1>14 DEF FaultsOK, Fine
<1>21. \A p \in AllParts : part[p] = "extracting" => slotOf[p] \notin dirty'
  BY <1>1, <1>4 DEF PartsOK
<1> QED
  BY <1>1, <1>4, <1>18, <1>19, <1>20, <1>21, BusStepKeeps

\* The sequences of a finite set hold each element once.
LEMMA SetToSeqsFacts ==
    ASSUME NEW S, IsFiniteSet(S), NEW q \in SetToSeqs(S)
    PROVE  q \in Seq(S) /\ Once(q) /\ ToSet(q) = S
<1> DEFINE n == Cardinality(S)
<1>1. n \in Nat
  BY FS_CardinalityType
<1>2. q \in [1 .. n -> S] /\ \A i, k \in 1 .. n : i # k => q[i] # q[k]
  BY DEF SetToSeqs
<1> HIDE DEF n
<1>3. q \in Seq(S) /\ Len(q) = n
  BY <1>1, <1>2, SeqDef
<1>4. Once(q)
  BY <1>2, <1>3 DEF Once
<1>5. q \in Injection(1 .. n, S)
  BY <1>2 DEF Injection, IsInjective
<1>6. IsFiniteSet(1 .. n) /\ Cardinality(1 .. n) = n
  <2>1. /\ IsFiniteSet(1 .. n)
        /\ Cardinality(1 .. n) = IF 1 > n THEN 0 ELSE n - 1 + 1
    BY <1>1, FS_Interval
  <2> QED
    BY <1>1, <2>1
<1>7. q \in Surjection(1 .. n, S)
  <2>1. Cardinality(1 .. n) = Cardinality(S) <=> q \in Surjection(1 .. n, S)
    BY <1>5, FS_Injection
  <2> QED
    BY <1>6, <2>1 DEF n
<1>8. ToSet(q) = {q[i] : i \in 1 .. n}
  BY <1>3, SetOfSequence
<1>9. \A x \in S : \E i \in 1 .. n : q[i] = x
  BY <1>7 DEF Surjection
<1> QED
  BY <1>2, <1>3, <1>4, <1>8, <1>9

\* The parts of several jobs, one job after the other, are all of them, once.
LEMMA InTurnFacts ==
    ASSUME NEW J, J \subseteq Jobs, NEW q \in InTurn(J)
    PROVE  q \in Seq(AllParts) /\ Once(q) /\ ToSet(q) = UNION {Parts(j) : j \in J}
<1> DEFINE S == UNION {Parts(j) : j \in J}
           f == [j \in J |-> Parts(j)]
           T == {Parts(j) : j \in J}
<1>1. IsFiniteSet(J)
  BY JobsAssumption, FS_Subset
<1>2. f \in Surjection(J, T)
  BY DEF Surjection
<1>3. IsFiniteSet(T)
  BY <1>1, <1>2, FS_Surjection
<1>4. ASSUME NEW t \in T PROVE IsFiniteSet(t)
  <2>1. PICK j \in J : t = Parts(j)
    OBVIOUS
  <2>2. IsFiniteSet({j})
    BY FS_Singleton
  <2>3. IsFiniteSet(1 .. Need[j])
    BY JobsAssumption, FS_Interval
  <2>4. IsFiniteSet({j} \X (1 .. Need[j]))
    BY <2>2, <2>3, FS_Product
  <2> QED
    BY <2>1, <2>4 DEF Parts
<1> HIDE DEF T
<1>5. IsFiniteSet(UNION T)
  BY <1>3, <1>4, FS_UNION
<1>6. S = UNION T
  BY DEF T
<1> HIDE DEF S
<1>7. q \in SetToSeqs(S)
  BY DEF InTurn, S
<1>8. q \in Seq(S) /\ Once(q) /\ ToSet(q) = S
  BY <1>5, <1>6, <1>7, SetToSeqsFacts
<1>9. S \subseteq AllParts
  BY DEF S, AllParts
<1>10. q \in Seq(AllParts)
  BY <1>8, <1>9, SeqMonotonic
<1> QED
  BY <1>8, <1>10 DEF S

\* The storages are updated: the processes start.
LEMMA StoragesUpdatedKeeps ==
    ASSUME Inv, StoragesUpdated
    PROVE  Inv'
<1> DEFINE run == [bus EXCEPT !.cycle = "run"]
<1>1. bus.cycle = "update" /\ UNCHANGED <<base, slotOf, dirty, faults>>
  BY DEF StoragesUpdated
<1>2. PICK crafts \in SUBSET {j \in base.processes : Kind[j] = "craft"} :
         /\ stage' = [j \in Jobs |-> IF j \in crafts THEN "load"
                                    ELSE IF j \in base.processes THEN "inv" ELSE "off"]
         /\ part' = [p \in AllParts |-> IF p[1] \in crafts THEN "queued" ELSE part[p]]
         /\ IF crafts = {} THEN bus' = run
            ELSE \E parts \in InTurn(crafts) : bus' = BusAllocate(run, parts)
  BY DEF StoragesUpdated
<1>3. /\ TypeOK /\ bus \in BusType /\ BusOK(bus, Held, Waiting, dirty) /\ PartsOK /\ FaultsOK
      /\ part \in [AllParts -> {"idle", "queued", "extracting", "loaded", "failed"}]
      /\ base.processes \subseteq Jobs
  BY InvFacts
<1>4. (\A p \in AllParts : part[p] = "idle") /\ Waiting = {}
  BY <1>1, InactiveParts
<1>5. BusOK(run, Held, Waiting, dirty) /\ (Fine(bus) => Fine(run)) /\ run.cycle = "run"
  <2>1. run.cycle = "run"
    BY <1>3 DEF BusType
  <2> QED
    BY <1>1, <2>1, NewCycle
<1> HIDE DEF run
<1>6. /\ \A k \in Jobs : Parts(k) \subseteq AllParts /\ \A p \in Parts(k) : p[1] = k
      /\ \A p \in AllParts : p[1] \in Jobs /\ p \in Parts(p[1])
      /\ \A k \in Jobs : <<k, 1>> \in Parts(k)
  <2>1. \A k \in Jobs : 1 \in 1 .. Need[k]
    BY JobsAssumption
  <2> QED
    BY <2>1, PartFacts
<1> DEFINE W == UNION {Parts(j) : j \in crafts}
<1>7. crafts \subseteq Jobs
  BY <1>3
<1>8. \A p \in AllParts : p \in W <=> p[1] \in crafts
  BY <1>6, <1>7
<1>9. W \subseteq AllParts
  BY <1>6, <1>7
<1> HIDE DEF W
<1>10. BusOK(bus', Held, W, dirty) /\ (Fine(bus) => Fine(bus')) /\ bus'.cycle = "run"
  <2>1. CASE crafts = {}
    <3>1. W = {}
      BY <2>1 DEF W
    <3> QED
      BY <1>2, <1>4, <1>5, <2>1, <3>1
  <2>2. CASE crafts # {}
    <3>1. PICK parts \in InTurn(crafts) : bus' = BusAllocate(run, parts)
      BY <1>2, <2>2
    <3>2. parts \in Seq(AllParts) /\ Once(parts) /\ ToSet(parts) = W
      BY <1>7, InTurnFacts DEF W
    <3>3. ToSet(parts) \cap Waiting = {}
      BY <1>4
    <3>4. BusOK(run, Held, Waiting, dirty) /\ run.cycle = "run"
      BY <1>5
    <3>5. /\ BusOK(BusAllocate(run, parts), Held, Waiting \cup ToSet(parts), dirty)
          /\ Fine(run) => Fine(BusAllocate(run, parts))
          /\ BusAllocate(run, parts).cycle = "run"
      BY <3>2, <3>3, <3>4, Allocates, ZenonT(40)
    <3>6. Waiting \cup ToSet(parts) = W
      BY <1>4, <3>2
    <3> QED
      BY <1>5, <3>1, <3>5, <3>6
  <2> QED
    BY <2>1, <2>2
<1>11. \A p \in AllParts : part'[p] = IF p \in W THEN "queued" ELSE "idle"
  BY <1>2, <1>4, <1>8
<1>12. Held' = Held /\ Waiting' = W
  <2>1. Waiting' = {p \in AllParts : part'[p] = "queued"}
    BY DEF Waiting
  <2> QED
    BY <1>1, <1>9, <1>11, <2>1 DEF Held
<1>13. TypeOK'
  <2>1. bus' \in BusType
    BY <1>10 DEF BusOK
  <2>2. stage' \in [Jobs -> {"off", "inv", "load", "insert", "done", "failed"}]
    BY <1>2
  <2>3. part' \in [AllParts -> {"idle", "queued", "extracting", "loaded", "failed"}]
    BY <1>2, <1>3
  <2> QED
    BY <1>1, <1>3, <2>1, <2>2, <2>3 DEF TypeOK
<1>14. BusOK(bus', Held', Waiting', dirty')
  BY <1>1, <1>10, <1>12
<1>15. PartsOK'
  BY <1>1, <1>3, <1>4, <1>11 DEF PartsOK
<1>16. FaultsOK'
  BY <1>1, <1>3, <1>10, <1>11 DEF FaultsOK
<1>17. ASSUME NEW k \in Jobs PROVE StageOK(k)'
  <2>1. \A p \in Parts(k) : part'[p] = IF k \in crafts THEN "queued" ELSE "idle"
    BY <1>6, <1>8, <1>11
  <2>2. CASE k \in crafts
    <3>1. stage'[k] = "load" /\ k \in base.processes
      BY <1>2, <2>2
    <3> QED
      BY <1>1, <1>6, <1>10, <2>1, <2>2, <3>1 DEF StageOK
  <2>3. CASE k \notin crafts
    <3>1. stage'[k] = IF k \in base.processes THEN "inv" ELSE "off"
      BY <1>2, <2>3
    <3> QED
      BY <1>1, <1>10, <2>1, <2>3, <3>1 DEF StageOK
  <2> QED
    BY <2>2, <2>3
<1> QED
  BY <1>1, <1>13, <1>14, <1>15, <1>16, <1>17, InvAfter

\* The server starts.
LEMMA InitInv ==
    ASSUME Init
    PROVE  Inv
<1>1. /\ base \in Bases /\ dirty \in SUBSET Slots /\ faults = base.faults
      /\ stage = [j \in Jobs |-> "off"] /\ part = [p \in AllParts |-> "idle"]
      /\ slotOf = [p \in AllParts |-> NoSlot]
      /\ bus = [busAllocations |-> {}, busWaitQueue |-> <<>>, busFreeQueue |-> {},
                isBusRunning |-> FALSE, endOfCycleAfterBusUpdate |-> FALSE,
                nBusUpdates |-> 0, update |-> "none", listed |-> {}, inserting |-> {},
                failed |-> FALSE, posted |-> <<>>, cycle |-> "update"]
  BY DEF Init
<1>2. base.faults \in Nat
  BY <1>1, BasesAssumption
<1>3. <<>> \in Seq(AllParts) /\ <<>> \in Seq(Posts)
  BY EmptySeq
<1>4. bus \in BusType
  BY <1>1, <1>3 DEF BusType
<1>5. TypeOK
  BY <1>1, <1>2, <1>4 DEF TypeOK
<1>6. Held = {} /\ Waiting = {}
  BY <1>1 DEF Held, Waiting
<1>7. /\ bus.posted = <<>> /\ bus.busWaitQueue = <<>> /\ Len(<<>>) = 0
  BY <1>1
<1>8. ToSet(bus.busWaitQueue) = {} /\ Resolved(bus.posted) = {} /\ Granted(bus.posted) = {}
  BY <1>7 DEF ToSet, Resolved, Granted
<1>9. /\ StrandOK(bus.posted) /\ Once(bus.busWaitQueue)
      /\ NoTrivial(bus.posted) /\ OneTrivial(bus.posted) /\ NoFailure(bus.posted)
  BY <1>7 DEF StrandOK, Once, NoTrivial, OneTrivial, NoFailure
<1>10. BusOK(bus, Held, Waiting, dirty)
  BY <1>1, <1>4, <1>6, <1>8, <1>9 DEF BusOK, QueueOK, OwnersOK, CleanOK, CycleOK, UpdateOK
<1>11. PartsOK
  BY <1>1 DEF PartsOK
<1>12. \A j \in Jobs : StageOK(j)
  BY <1>1, PartFacts DEF StageOK, Active
<1>13. FaultsOK
  BY <1>1, <1>9 DEF FaultsOK, Fine
<1> QED
  BY <1>5, <1>10, <1>11, <1>12, <1>13 DEF Inv

\* Every step keeps the invariant.
LEMMA NextKeeps ==
    ASSUME GridsNeverFail, Inv, [Next]_vars
    PROVE  Inv'
<1>1. CASE ListBus
  BY <1>1, ListBusKeeps
<1>2. CASE GrantAndInsert
  BY <1>2, GrantAndInsertKeeps
<1>3. ASSUME NEW s \in Slots, Deposited(s) PROVE Inv'
  BY <1>3, DepositedKeeps
<1>4. CASE ListFailed
  BY <1>4, ListFailedKeeps
<1>5. ASSUME NEW j \in Jobs, JobStep(j) PROVE Inv'
  <2>1. CASE RunJob(j)
    BY <2>1, RunJobKeeps
  <2>2. CASE SkipJob(j)
    BY <2>2, SkipJobKeeps
  <2>3. CASE Inserted(j)
    BY <2>3, InsertedKeeps
  <2>4. ASSUME NEW p \in Parts(j), Extracted(p) PROVE Inv'
    <3>1. p \in AllParts
      BY PartFacts
    <3> QED
      BY <2>4, <3>1, ExtractedKeeps
  <2> QED
    BY <1>5, <2>1, <2>2, <2>3, <2>4 DEF JobStep
<1>6. CASE RunPosted
  BY <1>6, RunPostedKeeps
<1>7. CASE StoragesUpdated
  BY <1>7, StoragesUpdatedKeeps
<1>8. CASE StartCycle
  BY <1>8, StartCycleKeeps
<1>9. CASE StoragesFailed
  BY <1>9, StoragesFailedKeeps
<1>10. CASE UNCHANGED vars
  <2>1. UNCHANGED <<base, bus, stage, part, slotOf, dirty, faults>>
    BY <1>10 DEF vars
  <2>2. /\ BusOK(bus, Held, Waiting, dirty) /\ PartsOK /\ FaultsOK
        /\ dirty \subseteq Slots /\ faults \in 0 .. base.faults
    BY InvFacts
  <2>3. /\ BusOK(bus', Held, Waiting, dirty')
        /\ \A p \in AllParts : part[p] = "extracting" => slotOf[p] \notin dirty'
        /\ base.faults = 0 => faults' = 0 /\ Fine(bus')
    BY <2>1, <2>2 DEF PartsOK, FaultsOK
  <2> QED
    BY <2>1, <2>2, <2>3, BusStepKeeps
<1> QED
  BY <1>1, <1>2, <1>3, <1>4, <1>5, <1>6, <1>7, <1>8, <1>9, <1>10 DEF Next, Update, Cycle

\* Inv is an invariant of every base whose crafting grids cannot fail.
THEOREM BusInvariant ==
    ASSUME GridsNeverFail PROVE Spec => []Inv
<1>1. Init => Inv
  BY InitInv
<1>2. Inv /\ [Next]_vars => Inv'
  BY NextKeeps
<1> QED
  BY <1>1, <1>2, PTL DEF Spec
-----------------------------------------------------------------------------
(***************************************************************************)
(* What the invariant implies.                                             *)
(***************************************************************************)
\* What is in the strand, in the words of the properties.
LEMMA PostedFacts ==
    ASSUME Inv
    PROVE  /\ PostedSlots = Granted(bus.posted)
           /\ \A x, y \in Posted("grant") : x[3] = y[3] => x = y
           /\ bus.posted \in Seq(Posts) /\ bus.busWaitQueue \in Seq(AllParts)
           /\ StrandOK(bus.posted) /\ QueueOK(bus, Waiting) /\ OwnersOK(bus, Held)
           /\ CleanOK(bus, dirty) /\ CycleOK(bus) /\ UpdateOK(bus)
<1>1. /\ bus.posted \in Seq(Posts) /\ bus.busWaitQueue \in Seq(AllParts)
      /\ StrandOK(bus.posted) /\ QueueOK(bus, Waiting) /\ OwnersOK(bus, Held)
      /\ CleanOK(bus, dirty) /\ CycleOK(bus) /\ UpdateOK(bus)
  BY DEF Inv, BusOK, BusType
<1> DEFINE P == bus.posted
<1>2. ToSet(P) = {P[i] : i \in 1 .. Len(P)}
  BY <1>1, SetOfSequence
<1>3. \A x \in Posted("grant") : \E i \in 1 .. Len(P) : x = P[i] /\ P[i][1] = "grant"
  BY <1>2 DEF Posted
<1>4. \A i \in 1 .. Len(P) : P[i][1] = "grant" => P[i] \in Posted("grant")
  BY <1>2 DEF Posted
<1>5. /\ \A i \in 1 .. Len(P) : P[i][1] = "grant" => P[i][3] \in Granted(P)
      /\ \A s \in Granted(P) : \E i \in 1 .. Len(P) : P[i][1] = "grant" /\ P[i][3] = s
  BY <1>1, StrandSets
<1> HIDE DEF P
<1>6. PostedSlots = Granted(P)
  <2>1. ASSUME NEW s \in PostedSlots PROVE s \in Granted(P)
    BY <1>3, <1>5 DEF PostedSlots
  <2>2. ASSUME NEW s \in Granted(P) PROVE s \in PostedSlots
    <3>1. PICK i \in 1 .. Len(P) : P[i][1] = "grant" /\ P[i][3] = s
      BY <1>5
    <3>2. P[i] \in Posted("grant")
      BY <1>4, <3>1
    <3> QED
      BY <3>1, <3>2 DEF PostedSlots
  <2> QED
    BY <2>1, <2>2
<1>7. ASSUME NEW x \in Posted("grant"), NEW y \in Posted("grant"), x[3] = y[3] PROVE x = y
  <2>1. PICK i \in 1 .. Len(P) : x = P[i] /\ P[i][1] = "grant"
    BY <1>3
  <2>2. PICK k \in 1 .. Len(P) : y = P[k] /\ P[k][1] = "grant"
    BY <1>3
  <2>3. i = k
    BY <1>1, <1>7, <2>1, <2>2 DEF StrandOK, P
  <2> QED
    BY <2>1, <2>2, <2>3
<1> QED
  BY <1>1, <1>6, <1>7 DEF P

\* No two jobs ever move items through the same slot.
THEOREM SlotsAreExclusive ==
    ASSUME GridsNeverFail PROVE Spec => []ExclusiveSlots
<1>1. Inv => ExclusiveSlots
  <2> SUFFICES ASSUME Inv PROVE ExclusiveSlots
    OBVIOUS
  <2>1. PostedSlots \cap Held = {}
    BY PostedFacts DEF OwnersOK
  <2>2. \A p, q \in AllParts : slotOf[p] = slotOf[q] /\ slotOf[p] # NoSlot => p = q
    BY InvFacts DEF PartsOK
  <2>3. \A x, y \in Posted("grant") : x[3] = y[3] => x = y
    BY PostedFacts
  <2> QED
    BY <2>1, <2>2, <2>3 DEF ExclusiveSlots
<1> QED
  BY <1>1, BusInvariant, PTL

\* busAllocations is what is in use or waits to be freed.
THEOREM SlotsAreKept ==
    ASSUME GridsNeverFail PROVE Spec => []NoSlotLost
<1>1. Inv => NoSlotLost
  BY PostedFacts DEF NoSlotLost, OwnersOK
<1> QED
  BY <1>1, BusInvariant, PTL

\* A job finds its slot empty.
THEOREM SlotsAreGrantedEmpty ==
    ASSUME GridsNeverFail PROVE Spec => []GrantedSlotIsEmpty
<1>1. Inv => GrantedSlotIsEmpty
  <2> SUFFICES ASSUME Inv PROVE GrantedSlotIsEmpty
    OBVIOUS
  <2>1. PostedSlots \cap dirty = {}
    BY PostedFacts DEF CleanOK
  <2>2. \A p \in AllParts : part[p] = "extracting" => slotOf[p] \notin dirty
    BY InvFacts DEF PartsOK
  <2> QED
    BY <2>1, <2>2 DEF GrantedSlotIsEmpty
<1> QED
  BY <1>1, BusInvariant, PTL

\* An update runs within its cycle, and the next cycle finds the bus at rest.
LEMMA WithinCycle ==
    ASSUME Inv
    PROVE  UpdatesWithinCycle
<1>1. /\ bus.isBusRunning <=> bus.update # "none"
      /\ bus.isBusRunning => bus.cycle \in {"run", "drain"}
  BY PostedFacts DEF UpdateOK, CycleOK
<1>2. bus.cycle \in {"drain", "delay", "update"} => \A j \in Jobs : ~Active(j)
  BY InactiveParts
<1>3. ASSUME bus.cycle \in {"delay", "update"}
      PROVE  bus.busWaitQueue = <<>> /\ Posted("grant") = {}
  <2>1. Waiting = {}
    BY <1>3, InactiveParts
  <2>2. ToSet(bus.busWaitQueue) = {} /\ Resolved(bus.posted) = {}
    BY <2>1, PostedFacts DEF QueueOK
  <2>3. bus.busWaitQueue = <<>>
    <3>1. bus.busWaitQueue \in Seq(AllParts)
      BY PostedFacts
    <3>2. \A i \in 1 .. Len(bus.busWaitQueue) : bus.busWaitQueue[i] \in ToSet(bus.busWaitQueue)
      BY <3>1, SetOfSequence
    <3>3. bus.busWaitQueue # <<>> => 1 \in 1 .. Len(bus.busWaitQueue)
      BY <3>1, EmptySeq
    <3> QED
      BY <2>2, <3>2, <3>3
  <2>4. Posted("grant") = {}
    <3>1. bus.posted \in Seq(Posts)
      BY PostedFacts
    <3>2. \A i \in 1 .. Len(bus.posted) : Resolves(bus.posted[i]) => bus.posted[i][2] \in Resolved(bus.posted)
      BY <3>1, StrandSets
    <3>3. ToSet(bus.posted) = {bus.posted[i] : i \in 1 .. Len(bus.posted)}
      BY <3>1, SetOfSequence
    <3>4. \A x \in Posted("grant") : Resolves(x)
      BY DEF Posted, Resolves
    <3>5. \A x \in Posted("grant") : \E i \in 1 .. Len(bus.posted) : x = bus.posted[i]
      BY <3>3 DEF Posted
    <3> QED
      BY <2>2, <3>2, <3>4, <3>5
  <2> QED
    BY <2>3, <2>4
<1> QED
  BY <1>1, <1>2, <1>3 DEF UpdatesWithinCycle

\* Each promise of busAllocate is resolved exactly once, within its cycle.
THEOREM WaitersAreResolvedOnce ==
    ASSUME GridsNeverFail PROVE Spec => []WaitersResolvedOnce
<1>1. ASSUME Inv, NEW p \in AllParts
      PROVE  Cardinality(InQueue(p)) + Cardinality(InStrand(p)) = IF part[p] = "queued" THEN 1 ELSE 0
  <2> DEFINE q == bus.busWaitQueue
             P == bus.posted
  <2>1. /\ P \in Seq(Posts) /\ q \in Seq(AllParts)
        /\ StrandOK(P) /\ QueueOK(bus, Waiting)
    BY <1>1, PostedFacts
  <2>2. /\ InQueue(p) = {i \in 1 .. Len(q) : q[i] = p}
        /\ InStrand(p) = {i \in 1 .. Len(P) : Resolves(P[i]) /\ P[i][2] = p}
    BY <2>1 DEF InQueue, InStrand, Resolves
  <2>3. ToSet(q) = {q[i] : i \in 1 .. Len(q)}
    BY <2>1, SetOfSequence
  <2>4. /\ \A i \in 1 .. Len(P) : Resolves(P[i]) => P[i][2] \in Resolved(P)
        /\ \A r \in Resolved(P) : \E i \in 1 .. Len(P) : Resolves(P[i]) /\ P[i][2] = r
    BY <2>1, StrandSets
  <2>5. /\ \A i, k \in 1 .. Len(q) : q[i] = q[k] => i = k
        /\ \A i, k \in 1 .. Len(P) : Resolves(P[i]) /\ Resolves(P[k]) /\ P[i][2] = P[k][2] => i = k
        /\ ToSet(q) \cap Resolved(P) = {} /\ Waiting = ToSet(q) \cup Resolved(P)
    BY <2>1 DEF StrandOK, QueueOK, Once
  <2>6. Cardinality({}) = 0 /\ \A i : Cardinality({i}) = 1
    BY FS_EmptySet, FS_Singleton
  <2> HIDE DEF q, P
  <2>7. p \notin ToSet(q) => InQueue(p) = {}
    BY <2>2, <2>3
  <2>8. p \notin Resolved(P) => InStrand(p) = {}
    BY <2>2, <2>4
  <2>9. CASE p \in ToSet(q)
    <3>1. PICK i \in 1 .. Len(q) : q[i] = p
      BY <2>3, <2>9
    <3>2. InQueue(p) = {i} /\ InStrand(p) = {}
      BY <2>2, <2>5, <2>8, <2>9, <3>1
    <3>3. Cardinality(InQueue(p)) = 1 /\ Cardinality(InStrand(p)) = 0
      BY <2>6, <3>2, Zenon
    <3>4. part[p] = "queued"
      BY <2>5, <2>9 DEF Waiting
    <3> QED
      BY <3>3, <3>4
  <2>10. CASE p \in Resolved(P)
    <3>1. PICK i \in 1 .. Len(P) : Resolves(P[i]) /\ P[i][2] = p
      BY <2>4, <2>10
    <3>2. InStrand(p) = {i} /\ InQueue(p) = {}
      BY <2>2, <2>5, <2>7, <2>10, <3>1
    <3>3. Cardinality(InQueue(p)) = 0 /\ Cardinality(InStrand(p)) = 1
      BY <2>6, <3>2, Zenon
    <3>4. part[p] = "queued"
      BY <2>5, <2>10 DEF Waiting
    <3> QED
      BY <3>3, <3>4
  <2>11. CASE p \notin ToSet(q) /\ p \notin Resolved(P)
    <3>1. Cardinality(InQueue(p)) = 0 /\ Cardinality(InStrand(p)) = 0
      BY <2>6, <2>7, <2>8, <2>11, Zenon
    <3>2. part[p] # "queued"
      BY <2>5, <2>11 DEF Waiting
    <3> QED
      BY <3>1, <3>2
  <2> QED
    BY <2>9, <2>10, <2>11
<1>2. Inv => WaitersResolvedOnce
  BY <1>1, WithinCycle DEF WaitersResolvedOnce
<1> QED
  BY <1>2, BusInvariant, PTL

\* Every variable keeps its type.
THEOREM BusTypeOK ==
    ASSUME GridsNeverFail PROVE Spec => []TypeOK
<1>1. Inv => TypeOK
  BY DEF Inv
<1> QED
  BY <1>1, BusInvariant, PTL
-----------------------------------------------------------------------------
(***************************************************************************)
(* No circular wait.  This needs the order of busWaitQueue: the parts of a *)
(* job are next to each other in it, up to the last one, so that only the  *)
(* first of those who wait can belong to a job that got a part of what it  *)
(* needs.                                                                  *)
(***************************************************************************)
Blocks(q) == \A i \in 1 .. Len(q) :
    /\ q[i][2] > 1 /\ i > 1 => q[i - 1] = <<q[i][1], q[i][2] - 1>>
    /\ q[i][2] < Need[q[i][1]] => i < Len(q) /\ q[i + 1] = <<q[i][1], q[i][2] + 1>>
Lined(b) ==
    "busWaitQueue" \in DOMAIN b /\ b.busWaitQueue \in Seq(AllParts) /\ Blocks(b.busWaitQueue)

\* The first m are served.
LEMMA BlocksRest ==
    ASSUME NEW q \in Seq(AllParts), Blocks(q), NEW m \in Nat
    PROVE  LET r == SubSeq(q, m + 1, Len(q)) IN r \in Seq(AllParts) /\ Blocks(r)
<1> DEFINE r == SubSeq(q, m + 1, Len(q))
           n == Len(q)
<1>1. n \in Nat /\ \A i \in m + 1 .. n : q[i] \in AllParts
  BY ElementOfSeq
<1>2. /\ r \in Seq(AllParts) /\ Len(r) = IF m + 1 <= n THEN n - (m + 1) + 1 ELSE 0
      /\ \A i \in 1 .. n - (m + 1) + 1 : r[i] = q[m + 1 + i - 1]
  BY <1>1, SubSeqProperties
<1> HIDE DEF r
<1>3. ASSUME NEW i \in 1 .. Len(r)
      PROVE  /\ r[i][2] > 1 /\ i > 1 => r[i - 1] = <<r[i][1], r[i][2] - 1>>
             /\ r[i][2] < Need[r[i][1]] => i < Len(r) /\ r[i + 1] = <<r[i][1], r[i][2] + 1>>
  <2>1. m + 1 <= n /\ Len(r) = n - m /\ m + i \in 1 .. n /\ i \in 1 .. n - m
    BY <1>1, <1>2
  <2>2. \A k \in 1 .. n - m : r[k] = q[m + k]
    <3>1. \A k \in 1 .. n - m : k \in 1 .. n - (m + 1) + 1 /\ m + 1 + k - 1 = m + k
      BY <1>1
    <3> QED
      BY <1>2, <3>1
  <2>3. r[i] = q[m + i]
    BY <2>1, <2>2
  <2>4. /\ q[m + i][2] > 1 /\ m + i > 1 => q[m + i - 1] = <<q[m + i][1], q[m + i][2] - 1>>
        /\ q[m + i][2] < Need[q[m + i][1]] =>
             m + i < n /\ q[m + i + 1] = <<q[m + i][1], q[m + i][2] + 1>>
    <3> DEFINE k == m + i
    <3>1. k \in 1 .. Len(q)
      BY <2>1
    <3> HIDE DEF k
    <3>2. /\ q[k][2] > 1 /\ k > 1 => q[k - 1] = <<q[k][1], q[k][2] - 1>>
          /\ q[k][2] < Need[q[k][1]] => k < Len(q) /\ q[k + 1] = <<q[k][1], q[k][2] + 1>>
      BY <3>1 DEF Blocks
    <3> QED
      BY <3>2 DEF k
  <2>5. ASSUME i > 1 PROVE r[i - 1] = q[m + i - 1] /\ m + i > 1
    <3>1. i - 1 \in 1 .. n - m /\ m + (i - 1) = m + i - 1 /\ m + i > 1
      BY <1>1, <2>1, <2>5
    <3> QED
      BY <2>2, <3>1
  <2>6. ASSUME m + i < n PROVE r[i + 1] = q[m + i + 1] /\ i < Len(r)
    <3>1. i + 1 \in 1 .. n - m /\ m + (i + 1) = m + i + 1 /\ i < n - m
      BY <1>1, <2>1, <2>6
    <3> QED
      BY <2>1, <2>2, <3>1
  <2> QED
    BY <2>3, <2>4, <2>5, <2>6
<1> QED
  BY <1>2, <1>3 DEF Blocks, r

\* The parts of more jobs are queued, from their first ones on.
LEMMA BlocksConcat ==
    ASSUME NEW q \in Seq(AllParts), NEW r \in Seq(AllParts), Blocks(q), Blocks(r),
           r # <<>> => r[1][2] = 1
    PROVE  q \o r \in Seq(AllParts) /\ Blocks(q \o r)
<1> DEFINE m == Len(q)
           n == Len(r)
           C == q \o r
<1>1. /\ C \in Seq(AllParts) /\ Len(C) = m + n /\ m \in Nat /\ n \in Nat
      /\ \A i \in 1 .. m + n : C[i] = IF i <= m THEN q[i] ELSE r[i - m]
      /\ n > 0 => r[1][2] = 1
  BY ConcatProperties, EmptySeq
<1>2. /\ \A i \in 1 .. m :
           /\ q[i][2] > 1 /\ i > 1 => q[i - 1] = <<q[i][1], q[i][2] - 1>>
           /\ q[i][2] < Need[q[i][1]] => i < m /\ q[i + 1] = <<q[i][1], q[i][2] + 1>>
      /\ \A i \in 1 .. n :
           /\ r[i][2] > 1 /\ i > 1 => r[i - 1] = <<r[i][1], r[i][2] - 1>>
           /\ r[i][2] < Need[r[i][1]] => i < n /\ r[i + 1] = <<r[i][1], r[i][2] + 1>>
  BY DEF Blocks
<1> HIDE DEF C, m, n
<1>3. /\ \A i \in 1 .. m : C[i] = q[i]
      /\ \A i \in 1 .. n : C[m + i] = r[i]
  <2>1. ASSUME NEW i \in 1 .. m PROVE C[i] = q[i]
    BY <1>1
  <2>2. ASSUME NEW i \in 1 .. n PROVE C[m + i] = r[i]
    <3>1. m + i \in 1 .. m + n /\ ~(m + i <= m) /\ m + i - m = i
      BY <1>1
    <3> QED
      BY <1>1, <3>1
  <2> QED
    BY <2>1, <2>2
<1>4. ASSUME NEW i \in 1 .. m + n
      PROVE  /\ C[i][2] > 1 /\ i > 1 => C[i - 1] = <<C[i][1], C[i][2] - 1>>
             /\ C[i][2] < Need[C[i][1]] => i < m + n /\ C[i + 1] = <<C[i][1], C[i][2] + 1>>
  <2>1. CASE i \in 1 .. m
    <3>1. C[i] = q[i]
      BY <1>3, <2>1
    <3>2. i > 1 => C[i - 1] = q[i - 1]
      <4>1. i > 1 => i - 1 \in 1 .. m
        BY <1>1, <2>1
      <4> QED
        BY <1>3, <4>1
    <3>3. i < m => C[i + 1] = q[i + 1] /\ i < m + n
      <4>1. i < m => i + 1 \in 1 .. m /\ i < m + n
        BY <1>1, <2>1
      <4> QED
        BY <1>3, <4>1
    <3> QED
      BY <1>2, <2>1, <3>1, <3>2, <3>3
  <2>2. CASE i \notin 1 .. m
    <3>1. PICK k \in 1 .. n : i = m + k
      <4>1. i - m \in 1 .. n /\ i = m + (i - m)
        BY <1>1, <2>2
      <4> QED
        BY <4>1
    <3>2. C[i] = r[k]
      BY <1>3, <3>1
    <3>3. k > 1 => C[i - 1] = r[k - 1]
      <4>1. k > 1 => k - 1 \in 1 .. n /\ m + (k - 1) = i - 1
        BY <1>1, <3>1
      <4> QED
        BY <1>3, <4>1
    <3>4. k < n => C[i + 1] = r[k + 1] /\ i < m + n
      <4>1. k < n => k + 1 \in 1 .. n /\ m + (k + 1) = i + 1 /\ i < m + n
        BY <1>1, <3>1
      <4> QED
        BY <1>3, <4>1
    <3>5. r[k][2] > 1 => k > 1
      <4>1. r[1][2] = 1 /\ (k = 1 \/ k > 1)
        BY <1>1, <3>1
      <4>2. ~(r[1][2] > 1)
        BY <4>1
      <4> QED
        BY <4>1, <4>2
    <3> QED
      BY <1>2, <3>1, <3>2, <3>3, <3>4, <3>5
  <2> QED
    BY <2>1, <2>2
<1> QED
  BY <1>1, <1>4 DEF Blocks, C

\* Operators that leave busWaitQueue alone, or serve or clear it.
LEMMA LinedOps ==
    ASSUME NEW b, Lined(b)
    PROVE  /\ \A x : Lined(Sent(b, x))
           /\ Lined(DoBusUpdate(b))
           /\ Lined(EndOfBusUpdate(b))
           /\ \A slots : Lined(BusFree(b, slots))
           /\ \A e : Lined(UpdateDone(b, e)) /\ Lined(CycleEnded(b, e))
           /\ Lined(UpdateFailed(b))
<1> DEFINE Same(c) == "busWaitQueue" \in DOMAIN c /\ c.busWaitQueue = b.busWaitQueue
<1>1. "busWaitQueue" \in DOMAIN b
  BY DEF Lined
<1>2. \A c : Same(c) => Lined(c)
  BY DEF Lined
<1>3. ASSUME NEW c, Same(c), NEW x PROVE Same(Sent(c, x))
  BY <1>3 DEF Sent
<1>4. ASSUME NEW c, Same(c) PROVE Same(DoBusUpdate(c))
  <2> DEFINE l == [c EXCEPT !.nBusUpdates = 1, !.isBusRunning = TRUE, !.update = "listing"]
  <2>1. Same(l)
    BY <1>4
  <2> HIDE DEF l, Same
  <2>2. Same(Sent(l, <<"listSent">>))
    BY <1>3, <2>1
  <2> QED
    BY <2>2 DEF DoBusUpdate, l
<1>5. ASSUME NEW c, Same(c) PROVE Same(EndOfBusUpdate(c))
  BY <1>5 DEF EndOfBusUpdate
<1>6. ASSUME NEW slots PROVE Same(BusFree(b, slots))
  <2> DEFINE r == [b EXCEPT !.busAllocations = @ \ slots]
  <2>1. Same(b) /\ Same(r) /\ Same([b EXCEPT !.busFreeQueue = @ \cup slots])
    BY <1>1
  <2> HIDE DEF r, Same
  <2>2. Same(DoBusUpdate(r))
    BY <1>4, <2>1
  <2> QED
    BY <2>1, <2>2 DEF BusFree, r
<1>7. ASSUME NEW e PROVE Same(UpdateDone(b, e))
  <2> DEFINE r == [b EXCEPT !.busAllocations = @ \ b.busFreeQueue, !.busFreeQueue = {}]
  <2>1. Same(b) /\ Same(r)
    BY <1>1
  <2> HIDE DEF r, Same
  <2>2. Same(DoBusUpdate(r)) /\ Same(EndOfBusUpdate(b))
    BY <1>4, <1>5, <2>1
  <2> QED
    BY <2>2 DEF UpdateDone, r
<1>8. ASSUME NEW e PROVE Same(CycleEnded(b, e))
  <2> DEFINE d == [b EXCEPT !.endOfCycleAfterBusUpdate = TRUE, !.cycle = "drain"]
  <2>1. Same(d) /\ Same([b EXCEPT !.cycle = "delay"])
    BY <1>1
  <2> HIDE DEF d, Same
  <2>2. Same(DoBusUpdate(d))
    BY <1>4, <2>1
  <2> QED
    BY <2>1, <2>2 DEF CycleEnded, d
<1>9. Lined(UpdateFailed(b))
  <2> DEFINE P == b.posted \o [i \in DOMAIN b.busWaitQueue |-> <<"fail", b.busWaitQueue[i]>>]
             f == [b EXCEPT !.posted = P, !.busWaitQueue = <<>>]
  <2>1. UpdateFailed(b) = EndOfBusUpdate(f)
    BY DEF UpdateFailed
  <2> HIDE DEF P
  <2>2. "busWaitQueue" \in DOMAIN f /\ f.busWaitQueue = <<>>
    BY <1>1
  <2> HIDE DEF f
  <2>3. "busWaitQueue" \in DOMAIN EndOfBusUpdate(f) /\ EndOfBusUpdate(f).busWaitQueue = <<>>
    BY <2>2 DEF EndOfBusUpdate
  <2>4. <<>> \in Seq(AllParts) /\ Blocks(<<>>)
    BY DEF Blocks
  <2> QED
    BY <2>1, <2>3, <2>4 DEF Lined
<1>10. Same(b)
  BY <1>1
<1> HIDE DEF Same
<1> QED
  BY <1>2, <1>3, <1>4, <1>5, <1>6, <1>7, <1>8, <1>9, <1>10

\* The parts of one job, and of several jobs one after the other.
LEMMA PartsInBlocks ==
    /\ \A j \in Jobs : PartSeq(j) \in Seq(AllParts) /\ Blocks(PartSeq(j)) /\ PartSeq(j)[1][2] = 1
    /\ \A J \in SUBSET Jobs : \A q \in InTurn(J) :
         q \in Seq(AllParts) /\ Blocks(q) /\ (q # <<>> => q[1][2] = 1)
<1>1. ASSUME NEW j \in Jobs
      PROVE  PartSeq(j) \in Seq(AllParts) /\ Blocks(PartSeq(j)) /\ PartSeq(j)[1][2] = 1
  <2> DEFINE n == Need[j]
             q == PartSeq(j)
  <2>1. n \in Nat \ {0} /\ q \in Seq(AllParts)
    BY JobsAssumption, PartSeqFacts
  <2>2. DOMAIN q = 1 .. n /\ \A i \in 1 .. n : q[i] = <<j, i>>
    BY DEF PartSeq
  <2> HIDE DEF q
  <2>3. Len(q) = n
    BY <2>1, <2>2
  <2>4. ASSUME NEW i \in 1 .. n
        PROVE  /\ q[i][2] > 1 /\ i > 1 => q[i - 1] = <<q[i][1], q[i][2] - 1>>
               /\ q[i][2] < Need[q[i][1]] => i < n /\ q[i + 1] = <<q[i][1], q[i][2] + 1>>
    <3>1. q[i] = <<j, i>> /\ q[i][1] = j /\ q[i][2] = i
      BY <2>2
    <3>2. i > 1 => i - 1 \in 1 .. n
      BY <2>1
    <3>3. i < n => i + 1 \in 1 .. n
      BY <2>1
    <3> QED
      BY <2>2, <3>1, <3>2, <3>3
  <2>5. q[1][2] = 1
    BY <2>1, <2>2
  <2> QED
    BY <2>1, <2>3, <2>4, <2>5 DEF Blocks, q
<1>2. ASSUME NEW J \in SUBSET Jobs, NEW q \in InTurn(J)
      PROVE  q \in Seq(AllParts) /\ Blocks(q) /\ (q # <<>> => q[1][2] = 1)
  <2> DEFINE n == Len(q)
  <2>1. q \in Seq(AllParts) /\ Once(q) /\ ToSet(q) = UNION {Parts(j) : j \in J}
    BY InTurnFacts
  <2>2. \A k \in 1 .. n : q[k][2] > 1 => k > 1 /\ q[k - 1] = <<q[k][1], q[k][2] - 1>>
    BY <2>1 DEF InTurn
  <2>3. n \in Nat /\ \A k \in 1 .. n : q[k] \in ToSet(q) /\ q[k] \in AllParts
    BY <2>1, SetOfSequence
  <2>4. \A p \in ToSet(q) : \E k \in 1 .. n : q[k] = p
    <3>1. ToSet(q) = {q[k] : k \in 1 .. n}
      BY <2>1, SetOfSequence
    <3> QED
      BY <3>1
  <2>5. \A i, k \in 1 .. n : q[i] = q[k] => i = k
    BY <2>1 DEF Once
  <2>6. \A k \in 1 .. n : /\ q[k][1] \in J /\ q[k] = <<q[k][1], q[k][2]>>
                          /\ q[k][2] \in 1 .. Need[q[k][1]] /\ Need[q[k][1]] \in Nat
    <3>1. ASSUME NEW k \in 1 .. n
          PROVE  /\ q[k][1] \in J /\ q[k] = <<q[k][1], q[k][2]>>
                 /\ q[k][2] \in 1 .. Need[q[k][1]] /\ Need[q[k][1]] \in Nat
      <4>1. PICK j \in J : q[k] \in Parts(j)
        BY <2>1, <2>3
      <4> QED
        BY <4>1, PartFacts
    <3> QED
      BY <3>1
  <2> HIDE DEF n
  <2>7. ASSUME NEW i \in 1 .. n, q[i][2] < Need[q[i][1]]
        PROVE  i < n /\ q[i + 1] = <<q[i][1], q[i][2] + 1>>
    <3> DEFINE j == q[i][1]
               a == q[i][2]
    <3>1. j \in J /\ q[i] = <<j, a>> /\ a \in 1 .. Need[j] /\ Need[j] \in Nat /\ a < Need[j]
      BY <2>6, <2>7
    <3> HIDE DEF j, a
    <3>2. a + 1 \in 1 .. Need[j] /\ a + 1 > 1 /\ a + 1 - 1 = a
      BY <3>1
    <3>3. <<j, a + 1>> \in ToSet(q)
      BY <2>1, <3>1, <3>2, PartFacts
    <3>4. PICK k \in 1 .. n : q[k] = <<j, a + 1>>
      BY <2>4, <3>3
    <3>5. q[k][1] = j /\ q[k][2] = a + 1
      BY <3>4
    <3>6. k > 1 /\ q[k - 1] = q[i]
      <4>1. k > 1 /\ q[k - 1] = <<q[k][1], q[k][2] - 1>>
        BY <2>2, <3>2, <3>5
      <4> QED
        BY <3>1, <3>2, <3>5, <4>1
    <3>7. k - 1 \in 1 .. n
      BY <2>3, <3>6
    <3>8. k - 1 = i
      BY <2>5, <3>6, <3>7
    <3>9. i < n /\ i + 1 = k
      BY <2>3, <3>8
    <3> QED
      BY <3>4, <3>9 DEF j, a
  <2>8. ASSUME q # <<>> PROVE q[1][2] = 1
    <3>1. 1 \in 1 .. n
      BY <2>1, <2>8, EmptySeq DEF n
    <3>2. ~(q[1][2] > 1)
      BY <2>2, <3>1
    <3> QED
      BY <2>6, <3>1, <3>2
  <2>9. Blocks(q)
    BY <2>2, <2>7 DEF Blocks, n
  <2> QED
    BY <2>1, <2>8, <2>9
<1> QED
  BY <1>1, <1>2

\* The parts of jobs are queued.
LEMMA LinedAllocate ==
    ASSUME NEW b, Lined(b), NEW parts \in Seq(AllParts), Blocks(parts),
           parts # <<>> => parts[1][2] = 1
    PROVE  Lined(BusAllocate(b, parts))
<1> DEFINE W == b.busWaitQueue \o parts
           c == [b EXCEPT !.busWaitQueue = W]
<1>1. W \in Seq(AllParts) /\ Blocks(W)
  BY BlocksConcat DEF Lined
<1>2. BusAllocate(b, parts) = IF b.isBusRunning THEN c ELSE DoBusUpdate(c)
  BY DEF BusAllocate
<1> HIDE DEF W
<1>3. Lined(c)
  BY <1>1 DEF Lined
<1> HIDE DEF c
<1>4. Lined(DoBusUpdate(c))
  BY <1>3, LinedOps
<1> QED
  BY <1>2, <1>3, <1>4

\* The first waiters are served.
LEMMA LinedGrant ==
    ASSUME NEW b, Lined(b), NEW slots, Len(slots) \in Nat
    PROVE  Lined(Grant(b, slots))
<1> DEFINE W == SubSeq(b.busWaitQueue, Len(slots) + 1, Len(b.busWaitQueue))
           R == b.posted \o [i \in DOMAIN slots |-> <<"grant", b.busWaitQueue[i], slots[i]>>]
<1>1. W \in Seq(AllParts) /\ Blocks(W)
  BY BlocksRest DEF Lined
<1>2. Grant(b, slots) = [b EXCEPT !.posted = R, !.busWaitQueue = W]
  BY DEF Grant
<1> HIDE DEF W, R
<1> QED
  BY <1>1, <1>2 DEF Lined

\* Slots are handed over.
LEMMA LinedHandOver ==
    ASSUME NEW b, Lined(b), NEW S, NEW slots \in Seq(S)
    PROVE  Lined(HandOver(b, slots))
<1> DEFINE n == Served(b, Len(slots))
           F == SubSeq(slots, 1, n)
           R == SubSeq(slots, n + 1, Len(slots))
<1>1. n \in 0 .. Len(slots)
  BY DEF Served, Lined
<1>2. Len(F) \in Nat
  <2>1. \A i \in 1 .. n : slots[i] \in S
    BY <1>1
  <2>2. Len(F) = IF 1 <= n THEN n - 1 + 1 ELSE 0
    BY <1>1, <2>1, SubSeqProperties
  <2> QED
    BY <1>1, <2>2
<1>3. HandOver(b, slots) = [Grant(b, F) EXCEPT !.busAllocations = @ \ ToSet(R)]
  BY DEF HandOver
<1> HIDE DEF F, R, n
<1>4. Lined(Grant(b, F))
  BY <1>2, LinedGrant
<1> QED
  BY <1>3, <1>4 DEF Lined

\* A job completes.
LEMMA LinedJobEnd ==
    ASSUME NEW b, Lined(b), NEW j \in Jobs, NEW slots, NEW ok, JobEnds(b, j, slots, ok)
    PROVE  Lined(bus')
<1> DEFINE F == SlotsToFree(j, slots)
           u == Unloaded(b, j, slots, ok)
           r == Returned(b, j, slots, ok)
           ended == [stage EXCEPT ![j] = IF ok THEN "done" ELSE "failed"]
<1>1. F \in Seq({F[i] : i \in 1 .. Inputs(j)})
  <2>1. Inputs(j) \in Nat
    BY PartFacts
  <2>2. F \in [1 .. Inputs(j) -> {F[i] : i \in 1 .. Inputs(j)}]
    BY DEF SlotsToFree
  <2> HIDE DEF F
  <2> QED
    BY <2>1, <2>2, SeqDef
<1> HIDE DEF F
<1>2. Lined(HandOver(b, F))
  BY <1>1, LinedHandOver
<1>3. Lined(u)
  BY <1>2 DEF Unloaded, F
<1> HIDE DEF u
<1>4. r = BusFree(u, FinallyFreed(j, slots, ok))
  BY DEF Returned, u
<1>5. Lined(r)
  BY <1>3, <1>4, LinedOps
<1>6. bus' = Completed(r, ended)
  BY DEF JobEnds
<1> HIDE DEF r, ended
<1>7. \A e : Lined(CycleEnded(r, e))
  BY <1>5, LinedOps
<1> QED
  BY <1>5, <1>6, <1>7 DEF Completed

\* One slot of a job was filled, or it failed.
LEMMA LinedPartEnd ==
    ASSUME NEW b, Lined(b), NEW p, p[1] \in Jobs, NEW slots, NEW result,
           PartEnds(b, p, slots, result)
    PROVE  Lined(bus')
<1>1. \/ \E ok : JobEnds(b, p[1], slots, ok)
      \/ bus' = b
      \/ bus' = Sent(b, <<"jobSent", p[1]>>)
  BY Zenon DEF PartEnds
<1>2. ASSUME NEW ok, JobEnds(b, p[1], slots, ok) PROVE Lined(bus')
  BY <1>2, LinedJobEnd
<1>3. Lined(Sent(b, <<"jobSent", p[1]>>))
  BY LinedOps
<1> QED
  BY <1>1, <1>2, <1>3

\* Every step leaves the waiters in line.
LEMMA LinedNext ==
    ASSUME Inv, Lined(bus), [Next]_vars
    PROVE  Lined(bus')
<1>1. CASE ListBus
  BY <1>1 DEF ListBus, Lined
<1>2. CASE GrantAndInsert
  <2> DEFINE free == Unallocated(Slots \ bus.listed)
             n == Served(bus, Cardinality(free))
  <2>1. PICK given \in FromTheBack(free, n) :
          LET granted == Grant([bus EXCEPT !.listed = {}, !.busAllocations = @ \cup ToSet(given)], given)
          IN \/ bus' = [granted EXCEPT !.update = "trivial", !.posted = Append(@, <<"trivial">>)]
             \/ \E ins : bus' = [granted EXCEPT !.update = "inserting", !.inserting = ins]
    BY <1>2, Zenon DEF GrantAndInsert
  <2>2. n \in Nat
    <3>1. IsFiniteSet(Slots)
      BY BasesAssumption, FS_Interval DEF Slots
    <3>2. free \subseteq Slots
      BY DEF Unallocated
    <3>3. Cardinality(free) \in Nat
      BY <3>1, <3>2, FS_Subset, FS_CardinalityType
    <3> QED
      BY <3>3 DEF Served, Lined
  <2>3. Len(given) \in Nat
    <3> HIDE DEF free, n
    <3>1. given \in [1 .. n -> free]
      BY DEF FromTheBack
    <3>2. given \in Seq(free)
      BY <2>2, <3>1, SeqDef
    <3> QED
      BY <3>2
  <2> HIDE DEF free, n
  <2> DEFINE b == [bus EXCEPT !.listed = {}, !.busAllocations = @ \cup ToSet(given)]
             g == Grant(b, given)
  <2>4. Lined(b)
    BY DEF Lined
  <2> HIDE DEF b
  <2>5. Lined(g)
    BY <2>3, <2>4, LinedGrant
  <2>6. \/ bus' = [g EXCEPT !.update = "trivial", !.posted = Append(@, <<"trivial">>)]
        \/ \E ins : bus' = [g EXCEPT !.update = "inserting", !.inserting = ins]
    BY <2>1 DEF g, b
  <2> HIDE DEF g
  <2> QED
    BY <2>5, <2>6 DEF Lined
<1>3. ASSUME NEW s \in Slots, Deposited(s) PROVE Lined(bus')
  <2>1. PICK failed : LET left == [bus EXCEPT !.inserting = @ \ {s}, !.failed = failed]
                          all == [left EXCEPT !.failed = FALSE]
                      IN bus' = left \/ bus' = UpdateFailed(all) \/ bus' = UpdateDone(all, TRUE)
    BY <1>3, Zenon DEF Deposited
  <2> DEFINE left == [bus EXCEPT !.inserting = @ \ {s}, !.failed = failed]
             all == [left EXCEPT !.failed = FALSE]
  <2>2. bus' = left \/ bus' = UpdateFailed(all) \/ bus' = UpdateDone(all, TRUE)
    BY <2>1
  <2>3. Lined(left)
    BY DEF Lined
  <2> HIDE DEF left
  <2>4. Lined(all)
    BY <2>3 DEF Lined
  <2> HIDE DEF all
  <2>5. Lined(UpdateFailed(all)) /\ Lined(UpdateDone(all, TRUE))
    BY <2>4, LinedOps
  <2> QED
    BY <2>2, <2>3, <2>5
<1>4. CASE ListFailed
  <2> DEFINE b == [bus EXCEPT !.listed = {}]
  <2>1. bus' = UpdateFailed(b)
    BY <1>4 DEF ListFailed
  <2>2. Lined(b)
    BY DEF Lined
  <2> HIDE DEF b
  <2> QED
    BY <2>1, <2>2, LinedOps
<1>5. ASSUME NEW j \in Jobs, JobStep(j) PROVE Lined(bus')
  <2>1. CASE RunJob(j)
    <3>1. bus' = BusAllocate(bus, PartSeq(j))
      BY <2>1 DEF RunJob
    <3>2. PartSeq(j) \in Seq(AllParts) /\ Blocks(PartSeq(j)) /\ PartSeq(j)[1][2] = 1
      BY PartsInBlocks
    <3> QED
      BY <3>1, <3>2, LinedAllocate
  <2>2. CASE SkipJob(j)
    <3>1. bus' = Completed(bus, stage')
      BY <2>2 DEF SkipJob
    <3>2. bus' = bus \/ \E e : bus' = CycleEnded(bus, e)
      BY <3>1 DEF Completed
    <3> QED
      BY <3>2, LinedOps
  <2>3. CASE Inserted(j)
    <3>1. JobEnds(bus, j, slotOf, TRUE) \/ JobEnds(bus, j, slotOf, FALSE)
      BY <2>3 DEF Inserted
    <3> QED
      BY <3>1, LinedJobEnd
  <2>4. ASSUME NEW p \in Parts(j), Extracted(p) PROVE Lined(bus')
    <3>1. PartEnds(bus, p, slotOf, "loaded") \/ PartEnds(bus, p, slotOf, "failed")
      BY <2>4 DEF Extracted
    <3>2. p[1] \in Jobs
      BY PartFacts
    <3> QED
      BY <3>1, <3>2, LinedPartEnd
  <2> QED
    BY <1>5, <2>1, <2>2, <2>3, <2>4 DEF JobStep
<1>6. CASE RunPosted
  <2> DEFINE post == Head(bus.posted)
             b == [bus EXCEPT !.posted = Tail(@)]
  <2>1. \/ bus' = b \/ bus' = UpdateDone(b, FALSE)
        \/ Resolves(post) /\ \E slots, result : PartEnds(b, post[2], slots, result)
        \/ bus' = Sent(b, <<"partSent", post[2]>>)
    <3>1. bus.posted # <<>> /\ bus.posted \in Seq(Posts)
      BY <1>6, InvFacts DEF RunPosted, BusType
    <3>2. post \in Posts
      BY <3>1, SequenceStep
    <3>3. post[1] \in {"grant", "fail", "trivial", "partSent", "jobSent", "listSent"}
      BY <3>2, PostParts
    <3> HIDE DEF post, b
    <3>4. CASE post[1] \in {"partSent", "jobSent", "listSent"}
      BY <1>6, <3>4 DEF RunPosted, post, b
    <3>5. CASE post[1] = "trivial"
      BY <1>6, <3>5 DEF RunPosted, post, b
    <3>6. CASE post[1] = "fail"
      BY <1>6, <3>6 DEF RunPosted, Resolves, post, b
    <3>7. CASE post[1] = "grant"
      BY <1>6, <3>7 DEF RunPosted, Resolves, post, b
    <3> QED
      BY <3>3, <3>4, <3>5, <3>6, <3>7
  <2>2. Resolves(post) => post[2][1] \in Jobs
    <3>1. bus.posted # <<>> /\ bus.posted \in Seq(Posts)
      BY <1>6, InvFacts DEF RunPosted, BusType
    <3>2. post \in Posts
      BY <3>1, SequenceStep
    <3> HIDE DEF post
    <3>3. Resolves(post) => post[2] \in AllParts
      BY <3>2, PostParts
    <3> QED
      BY <3>3, PartFacts
  <2>3. Lined(b)
    BY DEF Lined
  <2> HIDE DEF post, b
  <2>4. Lined(UpdateDone(b, FALSE)) /\ Lined(Sent(b, <<"partSent", post[2]>>))
    BY <2>3, LinedOps
  <2> QED
    BY <2>1, <2>2, <2>3, <2>4, LinedPartEnd
<1>7. CASE StoragesUpdated
  <2> DEFINE run == [bus EXCEPT !.cycle = "run"]
  <2>1. PICK crafts \in SUBSET {j \in base.processes : Kind[j] = "craft"} :
          IF crafts = {} THEN bus' = run
          ELSE \E parts \in InTurn(crafts) : bus' = BusAllocate(run, parts)
    BY <1>7 DEF StoragesUpdated
  <2>2. Lined(run)
    BY DEF Lined
  <2> HIDE DEF run
  <2>3. crafts \in SUBSET Jobs
    BY InvFacts
  <2>4. ASSUME NEW parts \in InTurn(crafts) PROVE Lined(BusAllocate(run, parts))
    <3>1. parts \in Seq(AllParts) /\ Blocks(parts) /\ (parts # <<>> => parts[1][2] = 1)
      BY <2>3, PartsInBlocks
    <3> QED
      BY <2>2, <3>1, LinedAllocate
  <2> QED
    BY <2>1, <2>2, <2>4
<1>8. CASE StartCycle
  BY <1>8 DEF StartCycle, Lined
<1>9. CASE StoragesFailed
  <2>1. bus' = CycleEnded(bus, FALSE)
    BY <1>9 DEF StoragesFailed
  <2> QED
    BY <2>1, LinedOps
<1>10. CASE UNCHANGED vars
  BY <1>10 DEF vars
<1> QED
  BY <1>1, <1>2, <1>3, <1>4, <1>5, <1>6, <1>7, <1>8, <1>9, <1>10 DEF Next, Update, Cycle

\* A job with one part in the line and another one not is the first in it.
LEMMA FirstInLine ==
    ASSUME NEW q \in Seq(AllParts), Blocks(q), NEW j \in Jobs,
           NEW p \in Parts(j), p \notin ToSet(q), NEW r \in Parts(j), r \in ToSet(q)
    PROVE  q[1][1] = j
<1> DEFINE n == Len(q)
           T == {i \in 1 .. Need[j] : <<j, i>> \in ToSet(q)}
<1>1. /\ Need[j] \in Nat \ {0}
      /\ p = <<j, p[2]>> /\ p[2] \in 1 .. Need[j]
      /\ r = <<j, r[2]>> /\ r[2] \in 1 .. Need[j]
  BY PartFacts
<1>2. /\ n \in Nat /\ ToSet(q) = {q[i] : i \in 1 .. n}
      /\ \A i \in 1 .. n : q[i] \in ToSet(q)
  BY SetOfSequence
<1>3. \A i \in 1 .. n :
        /\ q[i][2] > 1 /\ i > 1 => q[i - 1] = <<q[i][1], q[i][2] - 1>>
        /\ q[i][2] < Need[q[i][1]] => i < n /\ q[i + 1] = <<q[i][1], q[i][2] + 1>>
  BY DEF Blocks
<1> HIDE DEF n
<1>4. T \subseteq Nat /\ T # {}
  <2>1. <<j, r[2]>> \in ToSet(q)
    BY <1>1, Zenon
  <2>2. r[2] \in T
    BY <1>1, <2>1, Zenon
  <2> QED
    BY <2>2
<1>5. PICK a \in T : \A y \in T : a <= y
  BY <1>4, LeastNatural
<1>6. a \in 1 .. Need[j] /\ <<j, a>> \in ToSet(q)
  OBVIOUS
<1>7. PICK k \in 1 .. n : q[k] = <<j, a>>
  BY <1>2, <1>6
<1>8. q[k][1] = j /\ q[k][2] = a
  BY <1>7
<1>9. CASE a > 1
  <2>1. SUFFICES ASSUME k > 1 PROVE FALSE
    <3>1. k = 1 \/ k > 1
      BY <1>2
    <3> QED
      BY <1>8, <2>1, <3>1
  <2>2. q[k - 1] = <<j, a - 1>> /\ k - 1 \in 1 .. n
    BY <1>2, <1>3, <1>8, <1>9, <2>1
  <2>3. a - 1 \in 1 .. Need[j] /\ ~(a <= a - 1)
    BY <1>1, <1>6, <1>9
  <2>4. a - 1 \in T
    BY <1>2, <2>2, <2>3
  <2> QED
    BY <1>5, <2>3, <2>4
<1>10. CASE a = 1
  \* All parts would wait: the least one that does not follows one that does.
  <2> DEFINE U == {i \in 1 .. Need[j] : <<j, i>> \notin ToSet(q)}
  <2>1. U \subseteq Nat /\ U # {}
    BY <1>1
  <2>2. PICK c \in U : \A y \in U : c <= y
    BY <2>1, LeastNatural
  <2>3. c \in 1 .. Need[j] /\ <<j, c>> \notin ToSet(q) /\ c # 1
    BY <1>6, <1>10
  <2>4. c - 1 \in 1 .. Need[j] /\ ~(c <= c - 1) /\ c - 1 < Need[j] /\ (c - 1) + 1 = c
    BY <1>1, <2>3
  <2>5. <<j, c - 1>> \in ToSet(q)
    <3>1. c - 1 \notin U
      BY <2>2, <2>4
    <3> QED
      BY <2>4, <3>1
  <2>6. PICK i \in 1 .. n : q[i] = <<j, c - 1>>
    BY <1>2, <2>5
  <2>7. q[i][1] = j /\ q[i][2] = c - 1
    BY <2>6
  <2>8. i < n /\ q[i + 1] = <<j, c>>
    BY <1>3, <2>4, <2>7
  <2>9. i + 1 \in 1 .. n
    BY <1>2, <2>8
  <2> QED
    BY <1>2, <2>3, <2>8, <2>9
<1> QED
  BY <1>1, <1>6, <1>9, <1>10

\* A part that has a slot, or is about to get one, does not wait for one.
LEMMA HoldersDoNotWait ==
    ASSUME Inv, NEW p \in AllParts,
           slotOf[p] # NoSlot \/ \E post \in Posted("grant") : post[2] = p
    PROVE  p \notin ToSet(bus.busWaitQueue)
<1>1. /\ ToSet(bus.busWaitQueue) \cap Resolved(bus.posted) = {}
      /\ ToSet(bus.busWaitQueue) \subseteq Waiting
      /\ bus.posted \in Seq(Posts)
  BY PostedFacts DEF QueueOK
<1>2. CASE slotOf[p] # NoSlot
  <2>1. part[p] # "queued"
    BY <1>2, InvFacts DEF PartsOK
  <2> QED
    BY <1>1, <2>1 DEF Waiting
<1>3. ASSUME NEW post \in Posted("grant"), post[2] = p PROVE p \in Resolved(bus.posted)
  <2> DEFINE P == bus.posted
  <2>1. ToSet(P) = {P[i] : i \in 1 .. Len(P)}
    BY <1>1, SetOfSequence
  <2>2. PICK i \in 1 .. Len(P) : post = P[i] /\ P[i][1] = "grant"
    BY <2>1 DEF Posted
  <2>3. \A k \in 1 .. Len(P) : Resolves(P[k]) => P[k][2] \in Resolved(P)
    BY <1>1, StrandSets
  <2> QED
    BY <1>3, <2>2, <2>3 DEF Resolves
<1> QED
  BY <1>1, <1>2, <1>3

\* No circular wait: of the jobs that wait for a slot at most one has another.
THEOREM NoCircularWait ==
    ASSUME GridsNeverFail PROVE Spec => []OneJobHoldsAndWaits
<1>1. Init => Lined(bus)
  <2>1. ASSUME Init PROVE bus.busWaitQueue = <<>> /\ "busWaitQueue" \in DOMAIN bus
    BY <2>1 DEF Init
  <2>2. <<>> \in Seq(AllParts) /\ Blocks(<<>>)
    BY DEF Blocks
  <2> QED
    BY <2>1, <2>2 DEF Lined
<1>2. Inv /\ Lined(bus) /\ [Next]_vars => Lined(bus)'
  BY LinedNext DEF Lined
<1>3. Inv /\ Lined(bus) => OneJobHoldsAndWaits
  <2> SUFFICES ASSUME Inv, Lined(bus), NEW j \in Jobs, Holds(j), Waits(j)
               PROVE  bus.busWaitQueue[1][1] = j
    BY DEF OneJobHoldsAndWaits
  <2> DEFINE q == bus.busWaitQueue
  <2>1. PICK p \in Parts(j) : slotOf[p] # NoSlot \/ \E post \in Posted("grant") : post[2] = p
    BY DEF Holds
  <2>2. p \notin ToSet(q)
    BY <2>1, HoldersDoNotWait, PartFacts
  <2>3. PICK r \in Parts(j) : r \in ToSet(q)
    BY DEF Waits
  <2>4. q \in Seq(AllParts) /\ Blocks(q)
    BY DEF Lined
  <2> HIDE DEF q
  <2>5. q[1][1] = j
    BY <2>2, <2>3, <2>4, FirstInLine
  <2> QED
    BY <2>5 DEF q
<1> QED
  BY <1>1, <1>2, <1>3, BusInvariant, PTL DEF Spec
=============================================================================
