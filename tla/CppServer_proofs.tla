-------------------------- MODULE CppServer_proofs --------------------------
(* The inductive invariant of CppServer and the theorems it proves. *)
EXTENDS CppServer, CommonLemmas, SequenceTheorems, FiniteSetTheorems, WellFoundedInduction, TLAPS

ClientType ==
    [login : Names \cup {NoName}, sendQueue : Seq(Groups), sendQueueTotal : Nat,
     responseQueue : Seq(Actions), responseTimer : BOOLEAN, isSending : BOOLEAN,
     packet : Seq(Actions)]

\* The queues of a Client hold each group and each action once, and
\* sendQueueTotal counts what the first one holds.
QueuesOK(k) ==
    /\ \A i, j \in 1 .. Len(k.sendQueue) : k.sendQueue[i] = k.sendQueue[j] => i = j
    /\ \A i, j \in 1 .. Len(k.responseQueue) : k.responseQueue[i] = k.responseQueue[j] => i = j
    /\ \A i \in 1 .. Len(k.sendQueue) : \A j \in 1 .. Len(k.responseQueue) :
          k.responseQueue[j] \notin ActionsOf(k.sendQueue[i])
    /\ IsFiniteSet(QueuedBy(k))
    /\ k.sendQueueTotal = Cardinality(QueuedBy(k))

\* What is being written is so while isSending; what is unanswered is timed.
FlagsOK(k) ==
    /\ k.packet # <<>> => k.isSending
    /\ k.responseQueue # <<>> => k.responseTimer

\* Between two handlers a group only waits for the end of a write.
ClientOK(k) == QueuesOK(k) /\ FlagsOK(k) /\ (k.sendQueue # <<>> => k.isSending)
-----------------------------------------------------------------------------
(***************************************************************************)
(* The actions of a group.                                                 *)
(***************************************************************************)
LEMMA GroupFacts ==
    ASSUME NEW g \in Groups
    PROVE  /\ Size[g] \in Nat \ {0}
           /\ ActionsOf(g) \subseteq Actions
           /\ IsFiniteSet(ActionsOf(g))
           /\ Cardinality(ActionsOf(g)) = Size[g]
           /\ ActionsOf(g) # {}
<1>1. Size[g] \in Nat \ {0}
  BY ServerAssumption
<1>2. ActionsOf(g) \subseteq Actions
  BY DEF Actions
<1> DEFINE f == [i \in 1 .. Size[g] |-> <<g, i>>]
<1>3. f \in Bijection(1 .. Size[g], ActionsOf(g))
  <2>1. f \in [1 .. Size[g] -> ActionsOf(g)]
    BY DEF ActionsOf
  <2>2. \A i, j \in 1 .. Size[g] : f[i] = f[j] => i = j
    OBVIOUS
  <2>3. \A a \in ActionsOf(g) : \E i \in 1 .. Size[g] : f[i] = a
    BY DEF ActionsOf
  <2> QED
    BY <2>1, <2>2, <2>3 DEF Bijection, Injection, Surjection, IsInjective
<1>4. IsFiniteSet(1 .. Size[g]) /\ Cardinality(1 .. Size[g]) = Size[g]
  BY <1>1, FS_Interval
<1>5. IsFiniteSet(ActionsOf(g)) /\ Cardinality(ActionsOf(g)) = Size[g]
  BY <1>3, <1>4, FS_Bijection DEF ExistsBijection
<1>6. <<g, 1>> \in ActionsOf(g)
  BY <1>1 DEF ActionsOf
<1> QED
  BY <1>1, <1>2, <1>5, <1>6

\* An action is of one group.
LEMMA GroupsDisjoint ==
    ASSUME NEW g, NEW h, NEW a \in ActionsOf(g), a \in ActionsOf(h)
    PROVE  g = h
BY DEF ActionsOf

\* The sequence in which send() writes a group.
LEMMA GroupSequence ==
    ASSUME NEW g \in Groups
    PROVE  LET s == [i \in 1 .. Size[g] |-> <<g, i>>] IN
           /\ s \in Seq(Actions) /\ Len(s) = Size[g] /\ s # <<>>
           /\ \A i \in 1 .. Len(s) : s[i] = <<g, i>>
           /\ ToSet(s) = ActionsOf(g)
<1> DEFINE s == [i \in 1 .. Size[g] |-> <<g, i>>]
<1>1. Size[g] \in Nat \ {0} /\ ActionsOf(g) \subseteq Actions
  BY GroupFacts
<1>2. s \in [1 .. Size[g] -> Actions]
  BY <1>1 DEF ActionsOf
<1>3. s \in Seq(Actions) /\ Len(s) = Size[g]
  BY <1>1, <1>2
<1>4. ToSet(s) = ActionsOf(g)
  <2>1. DOMAIN s = 1 .. Size[g]
    OBVIOUS
  <2>2. ToSet(s) = {s[i] : i \in 1 .. Size[g]}
    BY <2>1 DEF ToSet
  <2>3. \A i \in 1 .. Size[g] : s[i] = <<g, i>>
    OBVIOUS
  <2> QED
    BY <2>2, <2>3 DEF ActionsOf
<1> QED
  BY <1>1, <1>3, <1>4
-----------------------------------------------------------------------------
(***************************************************************************)
(* The queues, as sets.                                                    *)
(***************************************************************************)
LEMMA QueuedByIndex ==
    ASSUME NEW k \in ClientType
    PROVE  /\ QueuedBy(k) = UNION {ActionsOf(k.sendQueue[i]) : i \in 1 .. Len(k.sendQueue)}
           /\ ToSet(k.responseQueue) =
                {k.responseQueue[i] : i \in 1 .. Len(k.responseQueue)}
<1>1. DOMAIN k.sendQueue = 1 .. Len(k.sendQueue) /\ DOMAIN k.responseQueue = 1 .. Len(k.responseQueue)
  BY DEF ClientType
<1> QED
  BY <1>1, Zenon DEF QueuedBy, ToSet

\* A group that joins the end of the queue of groups.
LEMMA QueueAppend ==
    ASSUME NEW k \in ClientType, NEW g \in Groups, QueuesOK(k),
           ActionsOf(g) \cap OwedBy(k) = {}
    PROVE  LET m == [k EXCEPT !.sendQueueTotal = @ + Size[g], !.sendQueue = Append(@, g)]
           IN  m \in ClientType /\ QueuesOK(m) /\ OwedBy(m) = OwedBy(k) \cup ActionsOf(g)
<1> DEFINE m == [k EXCEPT !.sendQueueTotal = @ + Size[g], !.sendQueue = Append(@, g)]
           q == k.sendQueue
           r == k.responseQueue
<1>1. /\ q \in Seq(Groups) /\ r \in Seq(Actions) /\ k.sendQueueTotal \in Nat
      /\ m.sendQueue = Append(q, g) /\ m.responseQueue = r
      /\ m.sendQueueTotal = k.sendQueueTotal + Size[g]
  BY DEF ClientType
<1>2. /\ Size[g] \in Nat \ {0} /\ IsFiniteSet(ActionsOf(g))
      /\ Cardinality(ActionsOf(g)) = Size[g] /\ ActionsOf(g) # {}
  BY GroupFacts
<1>3. /\ Append(q, g) \in Seq(Groups) /\ Len(Append(q, g)) = Len(q) + 1 /\ Len(q) \in Nat
      /\ \A i \in 1 .. Len(q) : Append(q, g)[i] = q[i]
      /\ Append(q, g)[Len(q) + 1] = g
  BY <1>1, AppendProperties
<1>4. m \in ClientType
  <2>1. k.sendQueueTotal + Size[g] \in Nat
    BY <1>1, <1>2
  <2>2. m = [k EXCEPT !.sendQueueTotal = k.sendQueueTotal + Size[g], !.sendQueue = Append(q, g)]
    BY DEF ClientType
  <2> QED
    BY <1>3, <2>1, <2>2 DEF ClientType
<1>5. /\ QueuedBy(k) = UNION {ActionsOf(q[i]) : i \in 1 .. Len(q)}
      /\ QueuedBy(m) = UNION {ActionsOf(Append(q, g)[i]) : i \in 1 .. Len(q) + 1}
      /\ ToSet(r) = {r[i] : i \in 1 .. Len(r)}
  <2>1. /\ QueuedBy(k) = UNION {ActionsOf(q[i]) : i \in 1 .. Len(q)}
        /\ ToSet(r) = {r[i] : i \in 1 .. Len(r)}
    BY QueuedByIndex
  <2>2. QueuedBy(m) = UNION {ActionsOf(m.sendQueue[i]) : i \in 1 .. Len(m.sendQueue)}
    BY <1>4, QueuedByIndex
  <2> HIDE DEF m
  <2> QED
    BY <1>1, <1>3, <2>1, <2>2
<1>6. QueuedBy(m) = QueuedBy(k) \cup ActionsOf(g)
  <2>1. \A i \in 1 .. Len(q) + 1 : i \in 1 .. Len(q) \/ i = Len(q) + 1
    BY <1>3
  <2>2. \A i \in 1 .. Len(q) : i \in 1 .. Len(q) + 1
    BY <1>3
  <2>3. Len(q) + 1 \in 1 .. Len(q) + 1
    BY <1>3
  <2> HIDE DEF q, m
  <2> QED
    BY <1>3, <1>5, <2>1, <2>2, <2>3
<1>7. OwedBy(m) = OwedBy(k) \cup ActionsOf(g)
  BY <1>1, <1>6 DEF OwedBy
<1>8. ActionsOf(g) \cap QueuedBy(k) = {} /\ ActionsOf(g) \cap ToSet(r) = {}
  BY DEF OwedBy
<1>9. \A i \in 1 .. Len(q) : q[i] # g
  BY <1>2, <1>5, <1>8
<1>10. QueuesOK(m)
  <2>1. \A i, j \in 1 .. Len(q) + 1 : Append(q, g)[i] = Append(q, g)[j] => i = j
    <3> TAKE i, j \in 1 .. Len(q) + 1
    <3>1. \A x, y \in 1 .. Len(q) : q[x] = q[y] => x = y
      BY DEF QueuesOK
    <3>2. (i \in 1 .. Len(q) \/ i = Len(q) + 1) /\ (j \in 1 .. Len(q) \/ j = Len(q) + 1)
      BY <1>3
    <3> HIDE DEF q
    <3> QED
      BY <1>3, <1>9, <3>1, <3>2
  <2>2. \A i \in 1 .. Len(q) + 1 : \A j \in 1 .. Len(r) : r[j] \notin ActionsOf(Append(q, g)[i])
    <3> TAKE i \in 1 .. Len(q) + 1
    <3> TAKE j \in 1 .. Len(r)
    <3>1. r[j] \notin ActionsOf(g)
      BY <1>5, <1>8
    <3>2. \A x \in 1 .. Len(q) : r[j] \notin ActionsOf(q[x])
      BY DEF QueuesOK
    <3>3. i \in 1 .. Len(q) \/ i = Len(q) + 1
      BY <1>3
    <3> HIDE DEF q, r
    <3> QED
      BY <1>3, <3>1, <3>2, <3>3
  <2>3. IsFiniteSet(QueuedBy(m)) /\ m.sendQueueTotal = Cardinality(QueuedBy(m))
    <3>1. IsFiniteSet(QueuedBy(k)) /\ k.sendQueueTotal = Cardinality(QueuedBy(k))
      BY DEF QueuesOK
    <3>2. /\ IsFiniteSet(QueuedBy(k) \cup ActionsOf(g))
          /\ Cardinality(QueuedBy(k) \cup ActionsOf(g)) =
               Cardinality(QueuedBy(k)) + Cardinality(ActionsOf(g))
      BY <1>2, <1>8, <3>1, DisjointUnion
    <3> HIDE DEF m
    <3>3. /\ IsFiniteSet(QueuedBy(m))
          /\ Cardinality(QueuedBy(m)) = Cardinality(QueuedBy(k)) + Cardinality(ActionsOf(g))
      BY <1>6, <3>2, Zenon
    <3> QED
      BY <1>1, <1>2, <3>1, <3>3
  <2>4. \A i, j \in 1 .. Len(r) : r[i] = r[j] => i = j
    BY DEF QueuesOK
  <2> HIDE DEF q, r, m
  <2> QED
    BY <1>1, <1>3, <2>1, <2>2, <2>3, <2>4 DEF QueuesOK
<1> QED
  BY <1>4, <1>7, <1>10
-----------------------------------------------------------------------------
(***************************************************************************)
(* What the operations of a Client do to its queues.                       *)
(***************************************************************************)
LEMMA UpdateTimerFacts ==
    ASSUME NEW k \in ClientType
    PROVE  LET m == UpdateTimer(k) IN
           /\ m \in ClientType
           /\ m.login = k.login /\ m.sendQueue = k.sendQueue
           /\ m.sendQueueTotal = k.sendQueueTotal /\ m.responseQueue = k.responseQueue
           /\ m.packet = k.packet /\ m.isSending = k.isSending
           /\ m.responseQueue # <<>> => m.responseTimer
           /\ QueuedBy(m) = QueuedBy(k) /\ OwedBy(m) = OwedBy(k)
           /\ QueuesOK(k) => QueuesOK(m)
<1> DEFINE m == UpdateTimer(k)
<1>1. /\ m \in ClientType
      /\ m.login = k.login /\ m.sendQueue = k.sendQueue
      /\ m.sendQueueTotal = k.sendQueueTotal /\ m.responseQueue = k.responseQueue
      /\ m.packet = k.packet /\ m.isSending = k.isSending
      /\ m.responseQueue # <<>> => m.responseTimer
  BY DEF ClientType, UpdateTimer
<1> HIDE DEF m
<1>2. QueuedBy(m) = QueuedBy(k) /\ OwedBy(m) = OwedBy(k)
  BY <1>1 DEF QueuedBy, OwedBy
<1>3. QueuesOK(k) => QueuesOK(m)
  BY <1>1, <1>2 DEF QueuesOK
<1> QED
  BY <1>1, <1>2, <1>3 DEF m

\* A group leaves the queue of groups for the queue of answers.
LEMMA MoveGroup ==
    ASSUME NEW k \in ClientType, QueuesOK(k), k.sendQueue # <<>>,
           NEW m \in ClientType, NEW s \in Seq(Actions),
           Len(s) = Size[Head(k.sendQueue)], ToSet(s) = ActionsOf(Head(k.sendQueue)),
           \A i \in 1 .. Len(s) : s[i] = <<Head(k.sendQueue), i>>,
           m.sendQueue = Tail(k.sendQueue), m.responseQueue = k.responseQueue \o s,
           m.sendQueueTotal = k.sendQueueTotal - Len(s)
    PROVE  QueuesOK(m) /\ OwedBy(m) = OwedBy(k)
<1> DEFINE q == k.sendQueue
           r == k.responseQueue
           g == Head(q)
<1>1. q \in Seq(Groups) /\ r \in Seq(Actions) /\ q # <<>> /\ k.sendQueueTotal \in Nat
  BY DEF ClientType
<1>2. /\ g = q[1] /\ g \in Groups /\ Tail(q) \in Seq(Groups)
      /\ Len(Tail(q)) = Len(q) - 1 /\ Len(q) \in Nat \ {0}
      /\ \A i \in 1 .. Len(q) - 1 : Tail(q)[i] = q[i + 1]
      /\ \A i \in 1 .. Len(q) : q[i] \in Groups
  BY <1>1, SequenceStep
<1>3. /\ Size[g] \in Nat \ {0} /\ IsFiniteSet(ActionsOf(g))
      /\ Cardinality(ActionsOf(g)) = Size[g]
  BY <1>2, GroupFacts
<1>4. Len(s) = Size[g] /\ ToSet(s) = ActionsOf(g) /\ \A i \in 1 .. Len(s) : s[i] = <<g, i>>
  OBVIOUS
<1>5. \A i \in 1 .. Len(q) - 1 : i + 1 \in 1 .. Len(q) /\ 1 \in 1 .. Len(q) /\ i + 1 # 1
  BY <1>2
<1>6. \A i, j \in 1 .. Len(q) : q[i] = q[j] => i = j
  BY DEF QueuesOK
<1>7. \A i \in 1 .. Len(q) - 1 : Tail(q)[i] # g
  BY <1>2, <1>5, <1>6
<1>8. /\ QueuedBy(k) = UNION {ActionsOf(q[i]) : i \in 1 .. Len(q)}
      /\ QueuedBy(m) = UNION {ActionsOf(Tail(q)[i]) : i \in 1 .. Len(q) - 1}
  <2>1. QueuedBy(m) = UNION {ActionsOf(m.sendQueue[i]) : i \in 1 .. Len(m.sendQueue)}
    BY QueuedByIndex
  <2>2. QueuedBy(k) = UNION {ActionsOf(q[i]) : i \in 1 .. Len(q)}
    BY QueuedByIndex
  <2> QED
    BY <1>2, <2>1, <2>2
<1> HIDE DEF q, r, g
<1>9. QueuedBy(k) = QueuedBy(m) \cup ActionsOf(g)
  <2>1. \A a \in QueuedBy(k) : a \in QueuedBy(m) \cup ActionsOf(g)
    <3> TAKE a \in QueuedBy(k)
    <3>1. PICK i \in 1 .. Len(q) : a \in ActionsOf(q[i])
      BY <1>8
    <3>2. CASE i = 1
      BY <1>2, <3>1, <3>2
    <3>3. CASE i # 1
      <4>1. i - 1 \in 1 .. Len(q) - 1 /\ (i - 1) + 1 = i
        BY <1>2, <3>3
      <4>2. Tail(q)[i - 1] = q[i]
        BY <1>2, <4>1
      <4> QED
        BY <1>8, <3>1, <4>1, <4>2
    <3> QED
      BY <3>2, <3>3
  <2>2. \A a \in QueuedBy(m) : a \in QueuedBy(k)
    BY <1>2, <1>5, <1>8
  <2>3. \A a \in ActionsOf(g) : a \in QueuedBy(k)
    <3>1. 1 \in 1 .. Len(q)
      BY <1>2
    <3> QED
      BY <1>2, <1>8, <3>1
  <2> QED
    BY <2>1, <2>2, <2>3
<1>10. QueuedBy(m) \cap ActionsOf(g) = {}
  <2> SUFFICES ASSUME NEW a \in QueuedBy(m), a \in ActionsOf(g) PROVE FALSE
    OBVIOUS
  <2>1. PICK i \in 1 .. Len(q) - 1 : a \in ActionsOf(Tail(q)[i])
    BY <1>8
  <2> QED
    BY <1>7, <2>1, GroupsDisjoint
<1>11. IsFiniteSet(QueuedBy(m)) /\ m.sendQueueTotal = Cardinality(QueuedBy(m))
  <2>1. IsFiniteSet(QueuedBy(k)) /\ k.sendQueueTotal = Cardinality(QueuedBy(k))
    BY DEF QueuesOK
  <2>2. QueuedBy(m) \in SUBSET QueuedBy(k)
    BY <1>9
  <2>3. IsFiniteSet(QueuedBy(m))
    BY <2>1, <2>2, FS_Subset
  <2>4. Cardinality(QueuedBy(m) \cup ActionsOf(g)) = Cardinality(QueuedBy(m)) + Cardinality(ActionsOf(g))
    BY <1>3, <1>10, <2>3, DisjointUnion
  <2>5. Cardinality(QueuedBy(k)) = Cardinality(QueuedBy(m)) + Cardinality(ActionsOf(g))
    BY <1>9, <2>4, Zenon
  <2>6. Cardinality(QueuedBy(m)) \in Nat
    BY <2>3, FS_CardinalityType
  <2>7. m.sendQueueTotal = Cardinality(QueuedBy(m))
    BY <1>3, <1>4, <2>1, <2>5, <2>6
  <2> QED
    BY <2>3, <2>7
<1>12. /\ Len(r \o s) = Len(r) + Len(s) /\ Len(r) \in Nat /\ Len(s) \in Nat
       /\ \A i \in 1 .. Len(r) + Len(s) : (r \o s)[i] = IF i <= Len(r) THEN r[i] ELSE s[i - Len(r)]
  <2>1. Len(r) \in Nat /\ Len(s) \in Nat
    BY <1>1
  <2>2. /\ Len(r \o s) = Len(r) + Len(s)
        /\ \A i \in 1 .. Len(r) + Len(s) : (r \o s)[i] = IF i <= Len(r) THEN r[i] ELSE s[i - Len(r)]
    BY <1>1, ConcatProperties
  <2> QED
    BY <2>1, <2>2
<1>13. \A i \in 1 .. Len(r) + Len(s) :
          i \in 1 .. Len(r) \/ (i > Len(r) /\ i - Len(r) \in 1 .. Len(s))
  BY <1>12
<1>14. \A i \in 1 .. Len(q) : \A j \in 1 .. Len(r) : r[j] \notin ActionsOf(q[i])
  BY DEF QueuesOK, q, r
<1>15. \A i \in 1 .. Len(s) : s[i] \in ActionsOf(g)
  <2>1. ToSet(s) = {s[i] : i \in 1 .. Len(s)}
    BY SequenceSet
  <2> QED
    BY <1>4, <2>1
<1>16. \A i \in 1 .. Len(r) : r[i] \notin ActionsOf(g)
  <2>1. 1 \in 1 .. Len(q)
    BY <1>2
  <2> QED
    BY <1>2, <1>14, <2>1
<1>17. \A i, j \in 1 .. Len(r \o s) : (r \o s)[i] = (r \o s)[j] => i = j
  <2> TAKE i, j \in 1 .. Len(r \o s)
  <2> HAVE (r \o s)[i] = (r \o s)[j]
  <2>1. i \in 1 .. Len(r) + Len(s) /\ j \in 1 .. Len(r) + Len(s)
    BY <1>12
  <2>2. CASE i \in 1 .. Len(r) /\ j \in 1 .. Len(r)
    <3>1. r[i] = r[j]
      BY <1>12, <2>1, <2>2
    <3> QED
      BY <2>2, <3>1 DEF QueuesOK, r
  <2>3. CASE i \in 1 .. Len(r) /\ j > Len(r) /\ j - Len(r) \in 1 .. Len(s)
    BY <1>12, <1>15, <1>16, <2>1, <2>3
  <2>4. CASE j \in 1 .. Len(r) /\ i > Len(r) /\ i - Len(r) \in 1 .. Len(s)
    BY <1>12, <1>15, <1>16, <2>1, <2>4
  <2>5. CASE /\ i > Len(r) /\ i - Len(r) \in 1 .. Len(s)
             /\ j > Len(r) /\ j - Len(r) \in 1 .. Len(s)
    <3>1. s[i - Len(r)] = s[j - Len(r)]
      BY <1>12, <2>1, <2>5
    <3>2. i - Len(r) = j - Len(r)
      BY <1>4, <2>5, <3>1
    <3> QED
      BY <1>12, <2>1, <3>2
  <2> QED
    BY <1>13, <2>1, <2>2, <2>3, <2>4, <2>5
<1>18. \A i \in 1 .. Len(Tail(q)) : \A j \in 1 .. Len(r \o s) :
          (r \o s)[j] \notin ActionsOf(Tail(q)[i])
  <2> TAKE i \in 1 .. Len(Tail(q))
  <2> TAKE j \in 1 .. Len(r \o s)
  <2>1. i \in 1 .. Len(q) - 1 /\ i + 1 \in 1 .. Len(q) /\ Tail(q)[i] = q[i + 1] /\ Tail(q)[i] # g
    BY <1>2, <1>5, <1>7
  <2>2. j \in 1 .. Len(r) + Len(s)
    BY <1>12
  <2>3. CASE j \in 1 .. Len(r)
    <3>1. (r \o s)[j] = r[j]
      BY <1>12, <2>2, <2>3
    <3> QED
      BY <1>14, <2>1, <2>3, <3>1
  <2>4. CASE j > Len(r) /\ j - Len(r) \in 1 .. Len(s)
    <3>1. (r \o s)[j] = s[j - Len(r)]
      BY <1>12, <2>2, <2>4
    <3>2. (r \o s)[j] \in ActionsOf(g)
      BY <1>15, <2>4, <3>1
    <3> QED
      BY <2>1, <3>2, GroupsDisjoint
  <2> QED
    BY <1>13, <2>2, <2>3, <2>4
<1>19. \A i, j \in 1 .. Len(Tail(q)) : Tail(q)[i] = Tail(q)[j] => i = j
  BY <1>1, <1>6, QueueTail
<1>20. m.sendQueue = Tail(q) /\ m.responseQueue = r \o s
  BY DEF q, r
<1>21. QueuesOK(m)
  BY <1>11, <1>17, <1>18, <1>19, <1>20 DEF QueuesOK
<1>22. OwedBy(m) = OwedBy(k)
  <2>1. ToSet(r \o s) = ToSet(r) \cup ActionsOf(g)
    BY <1>1, <1>4, SequenceSet
  <2>2. OwedBy(k) = QueuedBy(k) \cup ToSet(r)
    BY DEF OwedBy, r
  <2>3. OwedBy(m) = QueuedBy(m) \cup ToSet(r \o s)
    BY <1>20 DEF OwedBy
  <2> QED
    BY <1>9, <2>1, <2>2, <2>3
<1> QED
  BY <1>21, <1>22

\* What a Client may write is what it had, or a group at the end of the queue of
\* answers when nothing was being written.
Extends(k, m) ==
    \/ m.packet = k.packet /\ m.responseQueue = k.responseQueue
    \/ k.packet = <<>> /\ m.responseQueue = k.responseQueue \o m.packet

\* Client::send leaves what is owed alone and makes sure that something will wake it.
LEMMA SendFacts ==
    ASSUME NEW k \in ClientType, QueuesOK(k), FlagsOK(k)
    PROVE  /\ Send(k) \in ClientType /\ ClientOK(Send(k))
           /\ OwedBy(Send(k)) = OwedBy(k) /\ Send(k).login = k.login
           /\ Extends(k, Send(k))
<1>1. CASE ~CanSend(k)
  <2>1. Send(k) = k
    BY <1>1 DEF Send
  <2>2. k.sendQueue # <<>> => k.isSending
    BY <1>1 DEF CanSend, ClientType
  <2> QED
    BY <2>1, <2>2 DEF ClientOK, Extends
<1>2. CASE CanSend(k)
  <2> DEFINE g == Head(k.sendQueue)
             s == [i \in 1 .. Size[g] |-> <<g, i>>]
             w == [k EXCEPT !.isSending = TRUE, !.packet = s,
                            !.responseQueue = @ \o s,
                            !.sendQueueTotal = Deducted(k, s),
                            !.sendQueue = Tail(@)]
  <2>1. /\ k.sendQueue \in Seq(Groups) /\ k.responseQueue \in Seq(Actions)
        /\ k.sendQueueTotal \in Nat /\ k.sendQueue # <<>> /\ ~k.isSending
    BY <1>2 DEF ClientType, CanSend
  <2>2. g \in Groups /\ Tail(k.sendQueue) \in Seq(Groups)
    BY <2>1, SequenceStep
  <2>3. /\ s \in Seq(Actions) /\ Len(s) = Size[g] /\ s # <<>>
        /\ \A i \in 1 .. Len(s) : s[i] = <<g, i>>
        /\ ToSet(s) = ActionsOf(g)
    BY <2>2, GroupSequence
  <2>4. k.responseQueue \o s \in Seq(Actions)
    BY <2>1, <2>3, ConcatProperties
  <2>5. k.sendQueueTotal - Len(s) \in Nat
    <3>1. IsFiniteSet(QueuedBy(k)) /\ k.sendQueueTotal = Cardinality(QueuedBy(k))
      BY DEF QueuesOK
    <3>2. ActionsOf(g) \in SUBSET QueuedBy(k)
      <4>1. g = k.sendQueue[1] /\ 1 \in 1 .. Len(k.sendQueue)
        BY <2>1, SequenceStep
      <4>2. QueuedBy(k) = UNION {ActionsOf(k.sendQueue[i]) : i \in 1 .. Len(k.sendQueue)}
        BY QueuedByIndex
      <4> QED
        BY <4>1, <4>2
    <3>3. Cardinality(ActionsOf(g)) <= Cardinality(QueuedBy(k))
      BY <3>1, <3>2, FS_Subset
    <3>4. Cardinality(ActionsOf(g)) = Size[g] /\ Size[g] \in Nat
      BY <2>2, GroupFacts
    <3> HIDE DEF s, g
    <3> QED
      BY <2>1, <2>3, <3>1, <3>3, <3>4
  <2> HIDE DEF s, g
  <2>6. /\ w.sendQueue = Tail(k.sendQueue) /\ w.responseQueue = k.responseQueue \o s
        /\ w.sendQueueTotal = k.sendQueueTotal - Len(s) /\ w.packet = s
        /\ w.isSending = TRUE /\ w.login = k.login /\ w.responseTimer = k.responseTimer
    BY DEF ClientType, Deducted
  <2>7. w \in ClientType
    <3>1. w = [k EXCEPT !.isSending = TRUE, !.packet = s, !.responseQueue = k.responseQueue \o s,
                        !.sendQueueTotal = k.sendQueueTotal - Len(s),
                        !.sendQueue = Tail(k.sendQueue)]
      BY DEF ClientType, Deducted
    <3> HIDE DEF w
    <3> QED
      BY <2>2, <2>3, <2>4, <2>5, <3>1 DEF ClientType
  <2>8. Send(k) = UpdateTimer(w)
    BY <1>2 DEF Send, s, g
  <2> HIDE DEF w
  <2>9. QueuesOK(w) /\ OwedBy(w) = OwedBy(k)
    BY <2>1, <2>3, <2>6, <2>7, MoveGroup DEF g
  <2> DEFINE m == UpdateTimer(w)
  <2>10. /\ m \in ClientType
         /\ m.login = w.login /\ m.responseQueue = w.responseQueue
         /\ m.packet = w.packet /\ m.isSending = w.isSending
         /\ m.responseQueue # <<>> => m.responseTimer
         /\ OwedBy(m) = OwedBy(w) /\ QueuesOK(m)
    BY <2>7, <2>9, UpdateTimerFacts
  <2> HIDE DEF m
  <2>11. ClientOK(m)
    BY <2>6, <2>10 DEF ClientOK, FlagsOK
  <2>12. Extends(k, m)
    <3>1. k.packet = <<>>
      BY <2>1 DEF FlagsOK
    <3> QED
      BY <2>6, <2>10, <3>1 DEF Extends
  <2> QED
    BY <2>6, <2>8, <2>9, <2>10, <2>11, <2>12 DEF m
<1> QED
  BY <1>1, <1>2

\* enqueueActionGroup adds exactly the actions of the group to what is owed.
LEMMA EnqueuedFacts ==
    ASSUME NEW k \in ClientType, ClientOK(k), NEW g \in Groups,
           ActionsOf(g) \cap OwedBy(k) = {}
    PROVE  /\ Enqueued(k, g) \in ClientType /\ ClientOK(Enqueued(k, g))
           /\ OwedBy(Enqueued(k, g)) = OwedBy(k) \cup ActionsOf(g)
           /\ Enqueued(k, g).login = k.login
           /\ Extends(k, Enqueued(k, g))
<1> DEFINE m == [k EXCEPT !.sendQueueTotal = @ + Size[g], !.sendQueue = Append(@, g)]
<1>1. m \in ClientType /\ QueuesOK(m) /\ OwedBy(m) = OwedBy(k) \cup ActionsOf(g)
  BY QueueAppend DEF ClientOK
<1>2. /\ m.packet = k.packet /\ m.responseQueue = k.responseQueue /\ m.login = k.login
      /\ m.isSending = k.isSending /\ m.responseTimer = k.responseTimer
  BY DEF ClientType
<1>3. Enqueued(k, g) = Send(m)
  BY DEF Enqueued
<1> HIDE DEF m
<1>4. FlagsOK(m)
  BY <1>2 DEF ClientOK, FlagsOK
<1>5. /\ Send(m) \in ClientType /\ ClientOK(Send(m)) /\ OwedBy(Send(m)) = OwedBy(m)
      /\ Send(m).login = m.login /\ Extends(m, Send(m))
  BY <1>1, <1>4, SendFacts
<1>6. Extends(k, Send(m))
  BY <1>2, <1>5 DEF Extends
<1> QED
  BY <1>1, <1>2, <1>3, <1>5, <1>6

\* The callback of a write sends what waited for it and forgets nothing.
LEMMA WrittenFacts ==
    ASSUME NEW k \in ClientType, ClientOK(k), k.packet = <<>>
    PROVE  /\ Written(k) \in ClientType /\ ClientOK(Written(k))
           /\ OwedBy(Written(k)) = OwedBy(k) /\ Written(k).login = k.login
           /\ Extends(k, Written(k))
<1> DEFINE m == [k EXCEPT !.isSending = FALSE]
<1>1. /\ m \in ClientType /\ m.packet = k.packet /\ m.responseQueue = k.responseQueue
      /\ m.login = k.login /\ m.sendQueue = k.sendQueue
      /\ m.sendQueueTotal = k.sendQueueTotal /\ m.responseTimer = k.responseTimer
  BY DEF ClientType
<1>2. Written(k) = Send(m)
  BY DEF Written
<1> HIDE DEF m
<1>3. QueuedBy(m) = QueuedBy(k) /\ OwedBy(m) = OwedBy(k)
  BY <1>1 DEF QueuedBy, OwedBy
<1>4. QueuesOK(m) /\ FlagsOK(m)
  BY <1>1, <1>3 DEF ClientOK, QueuesOK, FlagsOK
<1>5. /\ Send(m) \in ClientType /\ ClientOK(Send(m)) /\ OwedBy(Send(m)) = OwedBy(m)
      /\ Send(m).login = m.login /\ Extends(m, Send(m))
  BY <1>1, <1>4, SendFacts
<1>6. Extends(k, Send(m))
  BY <1>1, <1>5 DEF Extends
<1> QED
  BY <1>1, <1>2, <1>3, <1>5, <1>6

\* onPacket takes exactly the first of responseQueue from what is owed.
LEMMA PoppedFacts ==
    ASSUME NEW k \in ClientType, ClientOK(k), k.responseQueue # <<>>
    PROVE  /\ Popped(k) \in ClientType /\ ClientOK(Popped(k))
           /\ OwedBy(Popped(k)) = OwedBy(k) \ {Head(k.responseQueue)}
           /\ Popped(k).login = k.login /\ Popped(k).packet = k.packet
           /\ Popped(k).responseQueue = Tail(k.responseQueue)
<1> DEFINE r == k.responseQueue
           w == [k EXCEPT !.responseQueue = Tail(@)]
<1>1. r \in Seq(Actions) /\ r # <<>>
  BY DEF ClientType
<1>2. /\ Tail(r) \in Seq(Actions) /\ Len(Tail(r)) = Len(r) - 1 /\ Len(r) \in Nat \ {0}
      /\ \A i \in 1 .. Len(r) - 1 : Tail(r)[i] = r[i + 1]
      /\ Head(r) = r[1]
  BY <1>1, SequenceStep
<1>3. /\ w \in ClientType /\ w.packet = k.packet /\ w.responseQueue = Tail(r)
      /\ w.login = k.login /\ w.sendQueue = k.sendQueue
      /\ w.sendQueueTotal = k.sendQueueTotal /\ w.isSending = k.isSending
  BY <1>2 DEF ClientType
<1>4. Popped(k) = UpdateTimer(w)
  BY DEF Popped
<1> HIDE DEF w
<1>5. /\ \A i, j \in 1 .. Len(r) : r[i] = r[j] => i = j
      /\ \A i \in 1 .. Len(k.sendQueue) : \A j \in 1 .. Len(r) : r[j] \notin ActionsOf(k.sendQueue[i])
  BY DEF ClientOK, QueuesOK
<1> HIDE DEF r
<1>6. /\ \A i, j \in 1 .. Len(Tail(r)) : Tail(r)[i] = Tail(r)[j] => i = j
      /\ ToSet(Tail(r)) = ToSet(r) \ {Head(r)}
  BY <1>1, <1>5, QueueTail
<1>7. QueuedBy(w) = QueuedBy(k)
  BY <1>3 DEF QueuedBy
<1>8. \A i \in 1 .. Len(k.sendQueue) : \A j \in 1 .. Len(Tail(r)) :
         Tail(r)[j] \notin ActionsOf(k.sendQueue[i])
  <2> TAKE i \in 1 .. Len(k.sendQueue)
  <2> TAKE j \in 1 .. Len(Tail(r))
  <2>1. j + 1 \in 1 .. Len(r) /\ Tail(r)[j] = r[j + 1]
    BY <1>2
  <2> QED
    BY <1>5, <2>1
<1>9. QueuesOK(w)
  <2>1. /\ IsFiniteSet(QueuedBy(k)) /\ k.sendQueueTotal = Cardinality(QueuedBy(k))
        /\ \A i, j \in 1 .. Len(k.sendQueue) : k.sendQueue[i] = k.sendQueue[j] => i = j
    BY DEF ClientOK, QueuesOK
  <2> QED
    BY <1>3, <1>6, <1>7, <1>8, <2>1 DEF QueuesOK
<1>10. Head(r) \notin QueuedBy(k)
  <2>1. QueuedBy(k) = UNION {ActionsOf(k.sendQueue[i]) : i \in 1 .. Len(k.sendQueue)}
    BY QueuedByIndex
  <2>2. 1 \in 1 .. Len(r)
    BY <1>2
  <2> QED
    BY <1>2, <1>5, <2>1, <2>2
<1>11. OwedBy(w) = OwedBy(k) \ {Head(r)}
  <2>1. OwedBy(w) = QueuedBy(w) \cup ToSet(Tail(r))
    BY <1>3 DEF OwedBy
  <2>2. OwedBy(k) = QueuedBy(k) \cup ToSet(r)
    BY DEF OwedBy, r
  <2> QED
    BY <1>6, <1>7, <1>10, <2>1, <2>2
<1> DEFINE m == UpdateTimer(w)
<1>12. /\ m \in ClientType
       /\ m.login = w.login /\ m.responseQueue = w.responseQueue /\ m.sendQueue = w.sendQueue
       /\ m.packet = w.packet /\ m.isSending = w.isSending
       /\ m.responseQueue # <<>> => m.responseTimer
       /\ OwedBy(m) = OwedBy(w) /\ QueuesOK(m)
  BY <1>3, <1>9, UpdateTimerFacts
<1> HIDE DEF m
<1>13. ClientOK(m)
  <2>1. (k.packet # <<>> => k.isSending) /\ (k.sendQueue # <<>> => k.isSending)
    BY DEF ClientOK, FlagsOK
  <2> QED
    BY <1>3, <1>12, <2>1 DEF ClientOK, FlagsOK
<1> QED
  BY <1>3, <1>4, <1>11, <1>12, <1>13 DEF m, r
-----------------------------------------------------------------------------
(***************************************************************************)
(* The inductive invariant.                                                *)
(***************************************************************************)
TypeInv ==
    /\ clients \subseteq Conns /\ connected \subseteq Conns
    /\ logins \in [Names -> Conns \cup {NoConn}] /\ name \in [Conns -> Names \cup {NoName}]
    /\ client \in [Conns -> ClientType]
    /\ inbox \in [Conns -> Seq(Actions)] /\ answers \in [Conns -> Seq(Actions)]
    /\ posted \in Seq(SUBSET Actions)
    /\ status \in [Actions -> {"idle", "pending", "ok", "failed"}]

\* Nothing is left of a Client that was destroyed, and nothing can reach a
\* computer that closed its connection.
ClosedOK ==
    /\ \A c \in Conns \ clients : client[c] = NewClient /\ answers[c] = <<>>
    /\ \A c \in Conns \ connected : inbox[c] = <<>>
    /\ \A c \in clients : name[c] \in Names

\* The queue of answers is what was answered, what the computer has yet to
\* execute, and what it has yet to receive; after it closed the connection only
\* the two ends of the queue are known.
InTransit(A, M, k) == (A \o M) \o k.packet = k.responseQueue
OrderOK ==
    \A c \in clients : \E M \in Seq(Actions) :
        InTransit(answers[c], M, client[c]) /\ (c \in connected => M = inbox[c])

ClientsOK == \A c \in Conns : ClientOK(client[c])

\* Nothing is owed that was not asked for.
StartedOK == \A c \in Conns : \A a \in OwedBy(client[c]) : status[a] # "idle"

Inv == TypeInv /\ ClosedOK /\ OrderOK /\ ClientsOK /\ StartedOK /\ LoginsAreOpen
-----------------------------------------------------------------------------
(***************************************************************************)
(* The choice of a client.                                                 *)
(***************************************************************************)

\* The count of a client that is connected.
LEMMA PendingCount ==
    ASSUME TypeInv, NEW n \in Names, logins[n] # NoConn
    PROVE  CountPending(n) \in Nat
<1>1. client[logins[n]] \in ClientType
  BY DEF TypeInv
<1>2. client[logins[n]].sendQueueTotal \in Nat /\ client[logins[n]].responseQueue \in Seq(Actions)
  BY <1>1 DEF ClientType
<1> QED
  BY <1>2 DEF CountPending

\* There is a best access, and none of the others has fewer actions pending.
LEMMA BestExists ==
    ASSUME TypeInv, NEW g \in Groups
    PROVE  LET acc == Accesses[g] IN
           \E i \in DOMAIN acc : \A k \in DOMAIN acc :
               ~Fewer(acc[k], acc[i]) /\ (k < i => Fewer(acc[i], acc[k]))
<1> DEFINE acc == Accesses[g]
           on == {i \in DOMAIN acc : logins[acc[i]] # NoConn}
<1>1. acc \in Seq(Names) /\ acc # <<>>
  BY ServerAssumption
<1>2. DOMAIN acc = 1 .. Len(acc) /\ Len(acc) \in Nat \ {0} /\ \A i \in 1 .. Len(acc) : acc[i] \in Names
  BY <1>1, EmptySeq, ElementOfSeq
<1> HIDE DEF acc
<1>3. ASSUME on = {}
      PROVE  \E i \in DOMAIN acc : \A k \in DOMAIN acc :
              ~Fewer(acc[k], acc[i]) /\ (k < i => Fewer(acc[i], acc[k]))
  <2>1. 1 \in DOMAIN acc
    BY <1>2
  <2>2. \A k \in DOMAIN acc : ~Fewer(acc[k], acc[1]) /\ ~(k < 1)
    BY <1>2, <1>3 DEF Fewer
  <2> QED
    BY <2>1, <2>2
<1>4. ASSUME on # {}
      PROVE  \E i \in DOMAIN acc : \A k \in DOMAIN acc :
              ~Fewer(acc[k], acc[i]) /\ (k < i => Fewer(acc[i], acc[k]))
  <2> DEFINE counts == {CountPending(acc[i]) : i \in on}
  <2>1. \A i \in on : CountPending(acc[i]) \in Nat
    BY <1>2, PendingCount
  <2>2. counts \subseteq Nat /\ counts # {}
    BY <1>4, <2>1
  <2>3. PICK least \in counts : \A n \in counts : least <= n
    <3> HIDE DEF counts
    <3> QED
      BY <2>2, LeastNatural
  <2> DEFINE best == {i \in on : CountPending(acc[i]) = least}
  <2>4. best \subseteq Nat /\ best # {}
    BY <1>2, <2>3
  <2>5. PICK i \in best : \A k \in best : i <= k
    <3> HIDE DEF best
    <3> QED
      BY <2>4, LeastNatural
  <2>6. \A k \in on : least <= CountPending(acc[k])
    BY <2>3
  <2>7. i \in DOMAIN acc /\ logins[acc[i]] # NoConn /\ CountPending(acc[i]) = least /\ least \in Nat
    BY <2>2, <2>5
  <2>8. ASSUME NEW k \in DOMAIN acc PROVE ~Fewer(acc[k], acc[i])
    <3>1. logins[acc[k]] # NoConn => CountPending(acc[k]) \in Nat /\ least <= CountPending(acc[k])
      BY <2>1, <2>6
    <3> QED
      BY <2>7, <3>1 DEF Fewer
  <2>9. ASSUME NEW k \in DOMAIN acc, k < i PROVE Fewer(acc[i], acc[k])
    <3>1. k \notin best
      <4>1. k \in Nat /\ i \in Nat
        BY <1>2, <2>4, <2>5
      <4>2. k \in best => i <= k
        BY <2>5
      <4> QED
        BY <2>9, <4>1, <4>2
    <3>2. logins[acc[k]] # NoConn => CountPending(acc[k]) \in Nat /\ least <= CountPending(acc[k])
                                     /\ CountPending(acc[k]) # least
      BY <2>1, <2>6, <3>1
    <3> QED
      BY <2>7, <3>2 DEF Fewer
  <2> QED
    BY <2>7, <2>8, <2>9
<1> QED
  BY <1>3, <1>4 DEF acc

\* getBestAccess returns an access that no other one beats.
LEMMA BestAccessFacts ==
    ASSUME TypeInv, NEW g \in Groups
    PROVE  LET acc == Accesses[g] IN
           /\ \E i \in DOMAIN acc : BestAccess(acc) = acc[i]
           /\ BestAccess(acc) \in Names
           /\ \A k \in DOMAIN acc : ~Fewer(acc[k], BestAccess(acc))
<1> DEFINE acc == Accesses[g]
           P(i) == \A k \in DOMAIN acc :
                      ~Fewer(acc[k], acc[i]) /\ (k < i => Fewer(acc[i], acc[k]))
           i0 == CHOOSE i \in DOMAIN acc : P(i)
<1>1. \E i \in DOMAIN acc : P(i)
  BY BestExists
<1>2. i0 \in DOMAIN acc /\ P(i0)
  BY <1>1
<1>3. BestAccess(acc) = acc[i0]
  BY DEF BestAccess
<1>4. acc \in Seq(Names)
  BY ServerAssumption
<1> HIDE DEF acc, i0
<1>5. acc[i0] \in Names
  BY <1>2, <1>4
<1> QED
  BY <1>2, <1>3, <1>5 DEF acc

\* A group is given to a Client of the list, or to nobody.
LEMMA TargetFacts ==
    ASSUME TypeInv, LoginsAreOpen, NEW g \in Groups
    PROVE  TargetOf(g) \in clients \cup {NoConn} /\ clients \subseteq Conns
BY BestAccessFacts DEF TargetOf, LoginsAreOpen, TypeInv
-----------------------------------------------------------------------------
(***************************************************************************)
(* The order of the answers.                                               *)
(***************************************************************************)

\* Concatenation is associative.
LEMMA ActionsAssociate ==
    \A X, Y, Z \in Seq(Actions) : (X \o Y) \o Z = X \o (Y \o Z)
BY ConcatAssociative

\* InTransit through the operations of a Client and of its computer.
LEMMA TransitFirst ==
    ASSUME NEW A \in Seq(Actions), NEW M \in Seq(Actions), NEW k \in ClientType, InTransit(A, M, k)
    PROVE  /\ IsPrefix(A, k.responseQueue)
           /\ k.packet # <<>> => k.responseQueue # <<>>
<1> DEFINE P == k.packet
<1>1. P \in Seq(Actions) /\ A \o M \in Seq(Actions)
  BY ConcatProperties DEF ClientType
<1>2. (A \o M) \o P = k.responseQueue
  BY DEF InTransit
<1> HIDE DEF P
<1>3. (A \o M) \o P = A \o (M \o P) /\ M \o P \in Seq(Actions)
  BY <1>1, ConcatAssociative, ConcatProperties
<1>4. IsPrefix(A, A \o (M \o P))
  BY <1>3, OrderPrefix
<1>5. (A \o M) \o P = <<>> => P = <<>>
  BY <1>1, ConcatEqualIffEmpty
<1> QED
  BY <1>2, <1>3, <1>4, <1>5 DEF P

\* Sending puts the actions at the end of responseQueue and of packet alike.
LEMMA TransitExtends ==
    ASSUME NEW A \in Seq(Actions), NEW M \in Seq(Actions),
           NEW k \in ClientType, NEW m \in ClientType, InTransit(A, M, k), Extends(k, m)
    PROVE  InTransit(A, M, m)
<1>1. CASE m.packet = k.packet /\ m.responseQueue = k.responseQueue
  BY <1>1 DEF InTransit
<1>2. CASE k.packet = <<>> /\ m.responseQueue = k.responseQueue \o m.packet
  <2>1. A \o M \in Seq(Actions)
    BY ConcatProperties
  <2>2. (A \o M) \o <<>> = A \o M
    BY <2>1, ConcatEmptySeq
  <2> QED
    BY <1>2, <2>2 DEF InTransit
<1> QED
  BY <1>1, <1>2 DEF Extends

\* An answer that is handled leaves both ends of the order.
LEMMA TransitPopped ==
    ASSUME NEW A \in Seq(Actions), NEW M \in Seq(Actions), A # <<>>,
           NEW k \in ClientType, NEW m \in ClientType, InTransit(A, M, k),
           m.packet = k.packet, m.responseQueue = Tail(k.responseQueue)
    PROVE  InTransit(Tail(A), M, m)
<1> DEFINE P == k.packet
<1>1. /\ P \in Seq(Actions) /\ A \o M \in Seq(Actions)
      /\ (A \o M) \o P = k.responseQueue /\ m.packet = P
  BY ConcatProperties DEF ClientType, InTransit
<1> HIDE DEF P
<1>2. Tail(A) \o M = Tail(A \o M) /\ A \o M # <<>>
  BY TailOfConcat
<1>3. Tail(A \o M) \o P = Tail((A \o M) \o P)
  BY <1>1, <1>2, TailOfConcat
<1> QED
  BY <1>1, <1>2, <1>3 DEF InTransit

\* What arrives at the computer moves from packet to its inbox.
LEMMA TransitReceived ==
    ASSUME NEW A \in Seq(Actions), NEW M \in Seq(Actions),
           NEW k \in ClientType, NEW m \in ClientType, InTransit(A, M, k),
           m.packet = <<>>, m.responseQueue = k.responseQueue
    PROVE  InTransit(A, M \o k.packet, m) /\ M \o k.packet \in Seq(Actions)
<1> DEFINE P == k.packet
<1>1. P \in Seq(Actions) /\ A \o M \in Seq(Actions) /\ (A \o M) \o P = k.responseQueue
  BY ConcatProperties DEF ClientType, InTransit
<1> HIDE DEF P
<1>2. M \o P \in Seq(Actions) /\ (A \o M) \o P = A \o (M \o P)
  <2>1. M \o P \in Seq(Actions)
    BY <1>1, ConcatProperties
  <2>2. \A X, Y, Z \in Seq(Actions) : (X \o Y) \o Z = X \o (Y \o Z)
    BY ActionsAssociate
  <2> QED
    BY <1>1, <2>1, <2>2
<1>3. A \o (M \o P) \in Seq(Actions)
  BY <1>2, ConcatProperties
<1>4. (A \o (M \o P)) \o <<>> = A \o (M \o P)
  BY <1>3, ConcatEmptySeq
<1> QED
  BY <1>1, <1>2, <1>4 DEF InTransit, P

\* When the computer closes, its answers arrive or are lost, and some middle is left.
LEMMA TransitClosed ==
    ASSUME NEW A \in Seq(Actions), NEW M \in Seq(Actions), NEW k \in ClientType,
           InTransit(A, M, k), NEW n \in {0, Len(A)}
    PROVE  /\ SubSeq(A, 1, n) \in Seq(Actions)
           /\ \E N \in Seq(Actions) : InTransit(SubSeq(A, 1, n), N, k)
<1>1. CASE n = 0
  <2>1. SubSeq(A, 1, 0) = <<>>
    BY SubSeqEmpty
  <2>2. A \o M \in Seq(Actions) /\ <<>> \in Seq(Actions)
    BY ConcatProperties, EmptySeq
  <2>3. <<>> \o (A \o M) = A \o M
    BY <2>2, ConcatEmptySeq
  <2>4. InTransit(<<>>, A \o M, k)
    BY <2>3 DEF InTransit
  <2> QED
    BY <1>1, <2>1, <2>2, <2>4
<1>2. CASE n = Len(A)
  <2>1. SubSeq(A, 1, Len(A)) = A
    BY SubSeqFull
  <2> QED
    BY <1>2, <2>1
<1> QED
  BY <1>1, <1>2

\* A new Client owes nothing.
LEMMA NewClientFacts ==
    /\ NewClient \in ClientType /\ ClientOK(NewClient) /\ OwedBy(NewClient) = {}
    /\ InTransit(<<>>, <<>>, NewClient)
<1>1. NewClient \in ClientType
  BY EmptySeq DEF NewClient, ClientType
<1>2. /\ NewClient.sendQueue = <<>> /\ NewClient.responseQueue = <<>> /\ NewClient.packet = <<>>
      /\ NewClient.sendQueueTotal = 0
  BY DEF NewClient
<1>3. QueuedBy(NewClient) = {} /\ OwedBy(NewClient) = {}
  <2>1. 1 .. Len(NewClient.sendQueue) = {} /\ 1 .. Len(NewClient.responseQueue) = {}
    BY <1>2
  <2>2. /\ QueuedBy(NewClient) = UNION {ActionsOf(NewClient.sendQueue[i]) : i \in 1 .. Len(NewClient.sendQueue)}
        /\ ToSet(NewClient.responseQueue) = {NewClient.responseQueue[i] : i \in 1 .. Len(NewClient.responseQueue)}
    BY <1>1, QueuedByIndex
  <2>3. QueuedBy(NewClient) = {} /\ ToSet(NewClient.responseQueue) = {}
    BY <2>1, <2>2
  <2> QED
    BY <2>3 DEF OwedBy
<1>4. IsFiniteSet(QueuedBy(NewClient)) /\ NewClient.sendQueueTotal = Cardinality(QueuedBy(NewClient))
  <2>1. IsFiniteSet({}) /\ Cardinality({}) = 0
    BY FS_EmptySet
  <2>2. IsFiniteSet(QueuedBy(NewClient)) /\ Cardinality(QueuedBy(NewClient)) = 0
    BY <1>3, <2>1, Zenon
  <2> QED
    BY <1>2, <2>2
<1>5. ClientOK(NewClient)
  BY <1>2, <1>4 DEF ClientOK, QueuesOK, FlagsOK
<1>6. InTransit(<<>>, <<>>, NewClient)
  <2>1. <<>> \in Seq(Actions)
    BY EmptySeq
  <2>2. <<>> \o <<>> = <<>>
    BY <2>1, ConcatEmptySeq
  <2> QED
    BY <1>2, <2>2 DEF InTransit
<1> QED
  BY <1>1, <1>3, <1>5, <1>6

\* What ~Client posts are sets of actions.
LEMMA DestroyedFacts ==
    ASSUME NEW k \in ClientType
    PROVE  Destroyed(k) \in Seq(SUBSET Actions)
<1>1. \A i \in 1 .. Len(k.sendQueue) : k.sendQueue[i] \in Groups
  BY DEF ClientType
<1>2. QueuedBy(k) \in SUBSET Actions
  BY <1>1, QueuedByIndex, GroupFacts
<1>3. ToSet(k.responseQueue) \in SUBSET Actions
  <2>1. \A i \in 1 .. Len(k.responseQueue) : k.responseQueue[i] \in Actions
    BY DEF ClientType
  <2> QED
    BY <2>1, QueuedByIndex
<1> DEFINE first == IF k.sendQueue = <<>> THEN <<>> ELSE <<QueuedBy(k)>>
           second == IF k.responseQueue = <<>> THEN <<>> ELSE <<ToSet(k.responseQueue)>>
<1>4. first \in Seq(SUBSET Actions) /\ second \in Seq(SUBSET Actions)
  <2>1. \A X \in SUBSET Actions : <<X>> \in Seq(SUBSET Actions)
    OBVIOUS
  <2>2. <<>> \in Seq(SUBSET Actions)
    BY EmptySeq
  <2>3. <<QueuedBy(k)>> \in Seq(SUBSET Actions) /\ <<ToSet(k.responseQueue)>> \in Seq(SUBSET Actions)
    BY <1>2, <1>3, <2>1
  <2> QED
    BY <2>2, <2>3
<1>5. Destroyed(k) = first \o second
  BY DEF Destroyed
<1> HIDE DEF first, second
<1> QED
  BY <1>4, <1>5, ConcatProperties
-----------------------------------------------------------------------------
(***************************************************************************)
(* The initial states, and the handlers that keep the list of Clients.     *)
(***************************************************************************)
LEMMA InitInv == Init => Inv
<1> SUFFICES ASSUME Init PROVE Inv
  OBVIOUS
<1>1. /\ NewClient \in ClientType /\ ClientOK(NewClient) /\ OwedBy(NewClient) = {}
      /\ \A c \in Conns : client[c] = NewClient
      /\ <<>> \in Seq(Actions) /\ <<>> \in Seq(SUBSET Actions)
  BY NewClientFacts, EmptySeq DEF Init
<1>2. TypeInv
  BY <1>1 DEF Init, TypeInv
<1>3. ClosedOK /\ OrderOK
  BY <1>1 DEF Init, ClosedOK, OrderOK
<1>4. ClientsOK /\ StartedOK
  BY <1>1 DEF ClientsOK, StartedOK
<1>5. LoginsAreOpen
  BY DEF Init, LoginsAreOpen
<1> QED
  BY <1>2, <1>3, <1>4, <1>5 DEF Inv

\* A handler that neither adds nor removes a Client.
LEMMA Kept ==
    ASSUME Inv, TypeInv', UNCHANGED <<clients, logins, name, connected, inbox>>,
           \A x \in Conns : client'[x].login = client[x].login /\ ClientOK(client'[x]),
           \A x \in Conns \ clients : client'[x] = client[x] /\ answers'[x] = answers[x],
           \A x \in clients : \A M \in Seq(Actions) :
              InTransit(answers[x], M, client[x]) => InTransit(answers'[x], M, client'[x]),
           \A x \in Conns : \A a \in OwedBy(client'[x]) : status'[a] # "idle"
    PROVE  Inv'
<1>1. ClosedOK'
  BY DEF Inv, ClosedOK
<1>2. OrderOK'
  BY DEF Inv, OrderOK
<1>3. ClientsOK' /\ StartedOK'
  BY DEF ClientsOK, StartedOK
<1>4. LoginsAreOpen'
  BY DEF Inv, TypeInv, LoginsAreOpen
<1> QED
  BY <1>1, <1>2, <1>3, <1>4 DEF Inv

\* What the invariant says of one connection.
LEMMA InvFacts ==
    ASSUME Inv, NEW c \in Conns
    PROVE  /\ client[c] \in ClientType /\ ClientOK(client[c])
           /\ inbox[c] \in Seq(Actions) /\ answers[c] \in Seq(Actions)
           /\ client[c] # NewClient => c \in clients
           /\ answers[c] # <<>> => c \in clients
           /\ \A a \in OwedBy(client[c]) : a \in Actions => status[a] # "idle"
BY DEF Inv, TypeInv, ClosedOK, ClientsOK, StartedOK

\* What the order of the answers says of a Client.
LEMMA OrderFacts ==
    ASSUME Inv, NEW c \in clients
    PROVE  /\ IsPrefix(answers[c], client[c].responseQueue)
           /\ client[c].packet # <<>> => client[c].responseQueue # <<>>
<1>1. client[c] \in ClientType /\ answers[c] \in Seq(Actions)
  BY InvFacts DEF Inv, TypeInv
<1>2. PICK M \in Seq(Actions) : InTransit(answers[c], M, client[c])
  BY DEF Inv, OrderOK
<1> QED
  BY <1>1, <1>2, TransitFirst

\* A Client owes actions.
LEMMA OwedType ==
    ASSUME NEW k \in ClientType
    PROVE  OwedBy(k) \subseteq Actions
<1>1. \A i \in 1 .. Len(k.sendQueue) : k.sendQueue[i] \in Groups
  BY DEF ClientType
<1>2. QueuedBy(k) \subseteq Actions
  BY <1>1, QueuedByIndex, GroupFacts
<1>3. \A i \in 1 .. Len(k.responseQueue) : k.responseQueue[i] \in Actions
  BY DEF ClientType
<1>4. ToSet(k.responseQueue) \subseteq Actions
  BY <1>3, QueuedByIndex
<1> QED
  BY <1>2, <1>4 DEF OwedBy

\* The callback of async_write preserves the invariant.
LEMMA WriteDoneStep ==
    ASSUME Inv, NEW c \in Conns, WriteDone(c)
    PROVE  Inv'
<1> DEFINE k == client[c]
           m == Written(client[c])
<1>1. k \in ClientType /\ ClientOK(k) /\ k.packet = <<>>
  BY InvFacts DEF WriteDone
<1>2. /\ m \in ClientType /\ ClientOK(m) /\ OwedBy(m) = OwedBy(k)
      /\ m.login = k.login /\ Extends(k, m)
  BY <1>1, WrittenFacts
<1>3. c \in clients
  <2>1. k # NewClient
    BY DEF WriteDone, NewClient
  <2> QED
    BY <2>1, InvFacts
<1>4. /\ client \in [Conns -> ClientType] /\ client' = [client EXCEPT ![c] = m]
      /\ UNCHANGED <<clients, logins, posted, status, gameVars, answers>>
  BY DEF Inv, TypeInv, WriteDone
<1> HIDE DEF m
<1>5. TypeInv'
  BY <1>2, <1>4 DEF Inv, TypeInv, gameVars
<1>6. client'[c] = m /\ \A x \in Conns \ {c} : client'[x] = client[x]
  BY <1>4
<1>7. \A x \in Conns : client'[x].login = client[x].login /\ ClientOK(client'[x])
  BY <1>2, <1>6, InvFacts
<1>8. \A x \in Conns \ clients : client'[x] = client[x] /\ answers'[x] = answers[x]
  BY <1>3, <1>4, <1>6
<1>9. \A x \in clients : \A M \in Seq(Actions) :
         InTransit(answers[x], M, client[x]) => InTransit(answers'[x], M, client'[x])
  <2> TAKE x \in clients
  <2> TAKE M \in Seq(Actions)
  <2>1. x \in Conns /\ answers[x] \in Seq(Actions) /\ answers'[x] = answers[x]
    BY <1>4 DEF Inv, TypeInv
  <2> QED
    BY <1>1, <1>2, <1>6, <2>1, TransitExtends
<1>10. \A x \in Conns : \A a \in OwedBy(client'[x]) : status'[a] # "idle"
  BY <1>2, <1>4, <1>6 DEF Inv, StartedOK
<1>11. UNCHANGED <<clients, logins, name, connected, inbox>>
  BY <1>4 DEF gameVars
<1> QED
  BY <1>5, <1>7, <1>8, <1>9, <1>10, <1>11, Kept

\* A posted handler that fails actions preserves the invariant.
LEMMA FailPostedStep ==
    ASSUME Inv, FailPosted
    PROVE  Inv'
<1>1. /\ posted \in Seq(SUBSET Actions) /\ posted # <<>> /\ posted' = Tail(posted)
      /\ status' = [a \in Actions |-> IF a \in Head(posted) THEN "failed" ELSE status[a]]
      /\ UNCHANGED <<clients, logins, client, gameVars, answers>>
  BY DEF Inv, TypeInv, FailPosted, Tell
<1>2. posted' \in Seq(SUBSET Actions)
  BY <1>1, SequenceStep
<1>3. TypeInv'
  BY <1>1, <1>2 DEF Inv, TypeInv, gameVars
<1>4. \A x \in Conns : \A a \in OwedBy(client'[x]) : status'[a] # "idle"
  <2> TAKE x \in Conns
  <2> TAKE a \in OwedBy(client'[x])
  <2>1. a \in OwedBy(client[x]) /\ client[x] \in ClientType
    BY <1>1, InvFacts
  <2>2. a \in Actions /\ status[a] # "idle"
    BY <2>1, OwedType DEF Inv, StartedOK
  <2> QED
    BY <1>1, <2>2
<1>5. \A x \in Conns : client'[x].login = client[x].login /\ ClientOK(client'[x])
  BY <1>1, InvFacts
<1>6. UNCHANGED <<clients, logins, name, connected, inbox>>
  BY <1>1 DEF gameVars
<1>7. \A x \in Conns \ clients : client'[x] = client[x] /\ answers'[x] = answers[x]
  BY <1>1
<1>8. \A x \in clients : \A M \in Seq(Actions) :
         InTransit(answers[x], M, client[x]) => InTransit(answers'[x], M, client'[x])
  BY <1>1
<1> QED
  BY <1>3, <1>4, <1>5, <1>6, <1>7, <1>8, Kept

\* Nobody owes an action of a group that was not asked for.
LEMMA IdleFree ==
    ASSUME Inv, NEW g \in Groups, Idle(g), NEW c \in Conns
    PROVE  ActionsOf(g) \cap OwedBy(client[c]) = {}
BY DEF Inv, StartedOK, Idle

\* Enqueueing a group preserves the invariant.
LEMMA EnqueueStep ==
    ASSUME Inv, NEW g \in Groups, Enqueue(g)
    PROVE  Inv'
<1> DEFINE c == TargetOf(g)
<1>1. /\ c \in clients \cup {NoConn} /\ clients \subseteq Conns
      /\ ActionsOf(g) \in SUBSET Actions
  BY TargetFacts, GroupFacts DEF Inv
<1>2. /\ Idle(g)
      /\ status' = [a \in Actions |-> IF a \in ActionsOf(g) THEN "pending" ELSE status[a]]
      /\ IF c = NoConn
         THEN posted' = Append(posted, ActionsOf(g)) /\ UNCHANGED client
         ELSE client' = [client EXCEPT ![c] = Enqueued(@, g)] /\ UNCHANGED posted
      /\ UNCHANGED <<clients, logins, gameVars, answers>>
  BY DEF Enqueue, Tell
<1> HIDE DEF c
<1>3. /\ client \in [Conns -> ClientType] /\ posted \in Seq(SUBSET Actions)
      /\ status \in [Actions -> {"idle", "pending", "ok", "failed"}]
  BY DEF Inv, TypeInv
<1>4. status' \in [Actions -> {"idle", "pending", "ok", "failed"}]
  BY <1>2, <1>3
<1>5. UNCHANGED <<clients, logins, name, connected, inbox>>
  BY <1>2 DEF gameVars
<1>6. ASSUME NEW x \in Conns, NEW a \in OwedBy(client[x]) \cup ActionsOf(g)
      PROVE  status'[a] # "idle"
  <2>1. a \in Actions
    BY <1>1, InvFacts, OwedType
  <2>2. a \in OwedBy(client[x]) => status[a] # "idle"
    BY DEF Inv, StartedOK
  <2> QED
    BY <1>2, <2>1, <2>2
<1>7. CASE c = NoConn
  <2>1. posted' = Append(posted, ActionsOf(g)) /\ client' = client
    BY <1>2, <1>7
  <2>2. posted' \in Seq(SUBSET Actions)
    BY <1>1, <1>3, <2>1, AppendProperties
  <2>3. TypeInv'
    BY <1>2, <1>4, <2>1, <2>2 DEF Inv, TypeInv, gameVars
  <2>4. \A x \in Conns : client'[x].login = client[x].login /\ ClientOK(client'[x])
    BY <2>1, InvFacts
  <2>5. \A x \in Conns : \A a \in OwedBy(client'[x]) : status'[a] # "idle"
    BY <1>6, <2>1
  <2>6. /\ \A x \in Conns \ clients : client'[x] = client[x] /\ answers'[x] = answers[x]
        /\ \A x \in clients : \A M \in Seq(Actions) :
              InTransit(answers[x], M, client[x]) => InTransit(answers'[x], M, client'[x])
    BY <1>2, <2>1
  <2> QED
    BY <1>5, <2>3, <2>4, <2>5, <2>6, Kept
<1>8. CASE c # NoConn
  <2> DEFINE k == client[c]
             m == Enqueued(client[c], g)
  <2>1. c \in clients /\ c \in Conns
    BY <1>1, <1>8
  <2>2. k \in ClientType /\ ClientOK(k) /\ ActionsOf(g) \cap OwedBy(k) = {}
    BY <1>2, <2>1, InvFacts, IdleFree
  <2>3. /\ m \in ClientType /\ ClientOK(m) /\ OwedBy(m) = OwedBy(k) \cup ActionsOf(g)
        /\ m.login = k.login /\ Extends(k, m)
    BY <2>2, EnqueuedFacts
  <2>4. client' = [client EXCEPT ![c] = m] /\ posted' = posted
    BY <1>2, <1>8
  <2> HIDE DEF m
  <2>5. TypeInv'
    BY <1>2, <1>3, <1>4, <2>3, <2>4 DEF Inv, TypeInv, gameVars
  <2>6. client'[c] = m /\ \A x \in Conns \ {c} : client'[x] = client[x]
    BY <1>3, <2>1, <2>4
  <2>7. \A x \in Conns : client'[x].login = client[x].login /\ ClientOK(client'[x])
    BY <2>3, <2>6, InvFacts
  <2>8. \A x \in Conns \ clients : client'[x] = client[x] /\ answers'[x] = answers[x]
    BY <1>2, <2>1, <2>6
  <2>9. \A x \in clients : \A M \in Seq(Actions) :
           InTransit(answers[x], M, client[x]) => InTransit(answers'[x], M, client'[x])
    <3> TAKE x \in clients
    <3> TAKE M \in Seq(Actions)
    <3>1. x \in Conns /\ answers[x] \in Seq(Actions) /\ answers'[x] = answers[x]
      BY <1>2 DEF Inv, TypeInv
    <3> QED
      BY <2>2, <2>3, <2>6, <3>1, TransitExtends
  <2>10. \A x \in Conns : \A a \in OwedBy(client'[x]) : status'[a] # "idle"
    BY <1>6, <2>3, <2>6
  <2> QED
    BY <1>5, <2>5, <2>7, <2>8, <2>9, <2>10, Kept
<1> QED
  BY <1>7, <1>8

\* The front of the queue of answers stays the front when a group is sent.
LEMMA ExtendsHead ==
    ASSUME NEW k \in ClientType, NEW m \in ClientType, Extends(k, m), k.responseQueue # <<>>
    PROVE  m.responseQueue # <<>> /\ Head(m.responseQueue) = Head(k.responseQueue)
<1>1. CASE m.responseQueue = k.responseQueue
  BY <1>1
<1>2. CASE m.responseQueue = k.responseQueue \o m.packet
  <2> DEFINE r == k.responseQueue
             p == m.packet
             t == r \o p
  <2>1. r \in Seq(Actions) /\ p \in Seq(Actions) /\ r # <<>>
    BY DEF ClientType
  <2> HIDE DEF r, p
  <2>2. r \o p # <<>> /\ r \o p \in Seq(Actions)
    BY <2>1, ConcatEqualIffEmpty, ConcatProperties
  <2>3. Head(r) = r[1] /\ Len(r) \in Nat \ {0} /\ Len(p) \in Nat
    BY <2>1, SequenceStep
  <2>4. Head(r \o p) = (r \o p)[1]
    BY <2>2, SequenceStep
  <2>5. (r \o p)[1] = r[1]
    <3>1. \A i \in 1 .. Len(r) + Len(p) : (r \o p)[i] = IF i <= Len(r) THEN r[i] ELSE p[i - Len(r)]
      BY <2>1, ConcatProperties
    <3>2. 1 \in 1 .. Len(r) + Len(p) /\ 1 <= Len(r)
      BY <2>3
    <3> QED
      BY <3>1, <3>2
  <2> QED
    BY <1>2, <2>2, <2>3, <2>4, <2>5 DEF r, p
<1> QED
  BY <1>1, <1>2 DEF Extends

\* The Clients between the group a continuation enqueues and the end of the
\* handler that ran it.
LEMMA HandedFacts ==
    ASSUME Inv, NEW d \in clients \cup {NoConn}, NEW g,
           d # NoConn => g \in Groups /\ Idle(g)
    PROVE  /\ Handed(d, g) \in [Conns -> ClientType]
           /\ \A x \in Conns :
                /\ ClientOK(Handed(d, g)[x]) /\ Handed(d, g)[x].login = client[x].login
                /\ Extends(client[x], Handed(d, g)[x])
                /\ OwedBy(Handed(d, g)[x]) =
                     OwedBy(client[x]) \cup IF x = d THEN ActionsOf(g) ELSE {}
           /\ \A x \in Conns \ clients : Handed(d, g)[x] = client[x]
<1>1. client \in [Conns -> ClientType] /\ clients \subseteq Conns /\ NoConn \notin Conns
  BY ServerAssumption DEF Inv, TypeInv
<1>2. \A x \in Conns : ClientOK(client[x]) /\ Extends(client[x], client[x])
  BY InvFacts DEF Extends
<1>3. CASE d = NoConn
  <2>1. Handed(d, g) = client
    BY <1>3 DEF Handed
  <2>2. \A x \in Conns : x # d
    BY <1>1, <1>3
  <2> QED
    BY <1>1, <1>2, <2>1, <2>2
<1>4. CASE d # NoConn
  <2> DEFINE m == Enqueued(client[d], g)
             mid == Handed(d, g)
  <2>1. d \in Conns /\ d \in clients /\ g \in Groups /\ Idle(g)
    BY <1>1, <1>4
  <2>2. /\ client[d] \in ClientType /\ ClientOK(client[d])
        /\ ActionsOf(g) \cap OwedBy(client[d]) = {}
    BY <1>1, <1>2, <2>1, IdleFree
  <2>3. /\ m \in ClientType /\ ClientOK(m) /\ OwedBy(m) = OwedBy(client[d]) \cup ActionsOf(g)
        /\ m.login = client[d].login /\ Extends(client[d], m)
    BY <2>1, <2>2, EnqueuedFacts
  <2>4. mid = [client EXCEPT ![d] = m]
    BY <1>4 DEF Handed
  <2> HIDE DEF m, mid
  <2>5. /\ mid \in [Conns -> ClientType] /\ mid[d] = m
        /\ \A x \in Conns \ {d} : mid[x] = client[x]
    BY <1>1, <2>1, <2>3, <2>4
  <2>6. ASSUME NEW x \in Conns
        PROVE  /\ ClientOK(mid[x]) /\ mid[x].login = client[x].login
               /\ Extends(client[x], mid[x])
               /\ OwedBy(mid[x]) = OwedBy(client[x]) \cup IF x = d THEN ActionsOf(g) ELSE {}
    BY <1>2, <2>3, <2>5
  <2>7. \A x \in Conns \ clients : mid[x] = client[x]
    BY <2>1, <2>5
  <2> QED
    BY <2>5, <2>6, <2>7 DEF mid
<1> QED
  BY <1>3, <1>4

\* onPacket in its two parts: the continuation enqueues a group, then the action leaves.
LEMMA AnsweredFacts ==
    ASSUME Inv, NEW c \in Conns, NEW g \in Groups \cup {NoGroup}, Answered(c, g)
    PROVE  \E d \in clients \cup {NoConn} :
             LET mid == Handed(d, g)
                 follow == IF g = NoGroup THEN {} ELSE ActionsOf(g)
                 first == Head(client[c].responseQueue)
             IN
             /\ d = IF g = NoGroup THEN NoConn ELSE TargetOf(g)
             /\ g # NoGroup => Idle(g)
             /\ d # NoConn => g \in Groups /\ Idle(g)
             /\ c \in clients /\ answers[c] # <<>> /\ client[c].responseQueue # <<>>
             /\ mid[c] \in ClientType /\ ClientOK(mid[c]) /\ mid[c].responseQueue # <<>>
             /\ Head(mid[c].responseQueue) = first
             /\ client' = [mid EXCEPT ![c] = Popped(mid[c])]
             /\ answers' = [answers EXCEPT ![c] = Tail(answers[c])]
             /\ status' = [a \in Actions |-> IF a \in {first} THEN "ok"
                                             ELSE IF a \in follow THEN "pending" ELSE status[a]]
             /\ posted' = IF g # NoGroup /\ d = NoConn THEN Append(posted, follow) ELSE posted
             /\ UNCHANGED <<clients, logins, gameVars>>
<1> DEFINE d == IF g = NoGroup THEN NoConn ELSE TargetOf(g)
           mid == Handed(d, g)
<1>1. client \in [Conns -> ClientType] /\ clients \subseteq Conns /\ NoConn \notin Conns
  BY ServerAssumption DEF Inv, TypeInv
<1>2. d \in clients \cup {NoConn}
  BY TargetFacts DEF Inv
<1>3. g # NoGroup => Idle(g)
  BY DEF Answered
<1>4. d # NoConn => g \in Groups /\ Idle(g)
  BY <1>3
<1>5. c \in clients /\ answers[c] # <<>> /\ client[c].responseQueue # <<>>
  BY DEF Answered
<1>6. client' = [mid EXCEPT ![c] = Popped(@)]
  BY DEF Answered
<1>7. /\ answers' = [answers EXCEPT ![c] = Tail(answers[c])]
      /\ status' = [a \in Actions |-> IF a \in {Head(client[c].responseQueue)} THEN "ok"
                      ELSE IF a \in (IF g = NoGroup THEN {} ELSE ActionsOf(g))
                      THEN "pending" ELSE status[a]]
      /\ posted' = IF g # NoGroup /\ d = NoConn
                   THEN Append(posted, IF g = NoGroup THEN {} ELSE ActionsOf(g)) ELSE posted
      /\ UNCHANGED <<clients, logins, gameVars>>
  BY DEF Answered, Inv, TypeInv
<1> HIDE DEF d
<1>8. /\ mid \in [Conns -> ClientType] /\ ClientOK(mid[c]) /\ Extends(client[c], mid[c])
  BY <1>2, <1>4, HandedFacts
<1>9. mid[c].responseQueue # <<>> /\ Head(mid[c].responseQueue) = Head(client[c].responseQueue)
  BY <1>1, <1>5, <1>8, ExtendsHead
<1>10. client' = [mid EXCEPT ![c] = Popped(mid[c])]
  BY <1>6
<1>11. mid[c] \in ClientType
  BY <1>8
<1> QED
  BY <1>2, <1>3, <1>4, <1>5, <1>7, <1>8, <1>9, <1>10, <1>11 DEF d

\* An answer, with the group that its continuation enqueues, preserves the invariant.
LEMMA AnsweredStep ==
    ASSUME Inv, NEW c \in Conns, NEW g \in Groups \cup {NoGroup}, Answered(c, g)
    PROVE  Inv'
<1> DEFINE follow == IF g = NoGroup THEN {} ELSE ActionsOf(g)
           first == Head(client[c].responseQueue)
<1>1. PICK d \in clients \cup {NoConn} :
        /\ g # NoGroup => Idle(g)
        /\ d # NoConn => g \in Groups /\ Idle(g)
        /\ c \in clients /\ answers[c] # <<>> /\ client[c].responseQueue # <<>>
        /\ Handed(d, g)[c] \in ClientType /\ ClientOK(Handed(d, g)[c])
        /\ Handed(d, g)[c].responseQueue # <<>>
        /\ client' = [Handed(d, g) EXCEPT ![c] = Popped(Handed(d, g)[c])]
        /\ answers' = [answers EXCEPT ![c] = Tail(answers[c])]
        /\ status' = [a \in Actions |-> IF a \in {first} THEN "ok"
                                        ELSE IF a \in follow THEN "pending" ELSE status[a]]
        /\ posted' = IF g # NoGroup /\ d = NoConn THEN Append(posted, follow) ELSE posted
        /\ UNCHANGED <<clients, logins, gameVars>>
  BY AnsweredFacts
<1> DEFINE mid == Handed(d, g)
           m == Popped(mid[c])
<1>2. /\ mid \in [Conns -> ClientType]
      /\ \A x \in Conns : /\ ClientOK(mid[x]) /\ mid[x].login = client[x].login
                          /\ Extends(client[x], mid[x])
                          /\ OwedBy(mid[x]) = OwedBy(client[x]) \cup
                               IF x = d THEN ActionsOf(g) ELSE {}
      /\ \A x \in Conns \ clients : mid[x] = client[x]
  BY <1>1, HandedFacts
<1>3. /\ m \in ClientType /\ ClientOK(m)
      /\ OwedBy(m) = OwedBy(mid[c]) \ {Head(mid[c].responseQueue)}
      /\ m.login = mid[c].login /\ m.packet = mid[c].packet
      /\ m.responseQueue = Tail(mid[c].responseQueue)
  BY <1>1, PoppedFacts
<1>4. /\ clients \subseteq Conns /\ NoConn \notin Conns
      /\ answers \in [Conns -> Seq(Actions)] /\ posted \in Seq(SUBSET Actions)
      /\ status \in [Actions -> {"idle", "pending", "ok", "failed"}]
      /\ client \in [Conns -> ClientType]
  BY ServerAssumption DEF Inv, TypeInv
<1>5. follow \in SUBSET Actions
  BY GroupFacts
<1>6. /\ client' = [mid EXCEPT ![c] = m] /\ answers' = [answers EXCEPT ![c] = Tail(answers[c])]
      /\ UNCHANGED <<clients, logins, name, connected, inbox>>
  BY <1>1 DEF gameVars
<1> HIDE DEF mid, m, follow, first
<1>7. client' \in [Conns -> ClientType] /\ client'[c] = m /\ \A x \in Conns \ {c} : client'[x] = mid[x]
  BY <1>2, <1>3, <1>6
<1>8. /\ Tail(answers[c]) \in Seq(Actions) /\ answers' \in [Conns -> Seq(Actions)]
      /\ answers'[c] = Tail(answers[c])
      /\ \A x \in Conns \ {c} : answers'[x] = answers[x]
  <2>1. answers[c] \in Seq(Actions) /\ answers[c] # <<>>
    BY <1>1, <1>4
  <2>2. Tail(answers[c]) \in Seq(Actions)
    BY <2>1, SequenceStep
  <2> QED
    BY <1>4, <1>6, <2>2
<1>9. status' \in [Actions -> {"idle", "pending", "ok", "failed"}]
  BY <1>1, <1>4
<1>10. posted' \in Seq(SUBSET Actions)
  <2>1. Append(posted, follow) \in Seq(SUBSET Actions)
    BY <1>4, <1>5, AppendProperties
  <2> QED
    BY <1>1, <1>4, <2>1
<1>11. TypeInv'
  BY <1>6, <1>7, <1>8, <1>9, <1>10 DEF Inv, TypeInv
<1>12. \A x \in Conns : client'[x].login = client[x].login /\ ClientOK(client'[x])
  BY <1>2, <1>3, <1>7
<1>13. \A x \in Conns \ clients : client'[x] = client[x] /\ answers'[x] = answers[x]
  BY <1>1, <1>2, <1>7, <1>8
<1>14. \A x \in clients : \A M \in Seq(Actions) :
         InTransit(answers[x], M, client[x]) => InTransit(answers'[x], M, client'[x])
  <2> TAKE x \in clients
  <2> TAKE M \in Seq(Actions)
  <2> HAVE InTransit(answers[x], M, client[x])
  <2>1. /\ x \in Conns /\ answers[x] \in Seq(Actions) /\ client[x] \in ClientType
        /\ mid[x] \in ClientType /\ Extends(client[x], mid[x])
    BY <1>2, <1>4
  <2>2. InTransit(answers[x], M, mid[x])
    BY <2>1, TransitExtends
  <2>3. CASE x # c
    BY <1>7, <1>8, <2>1, <2>2, <2>3
  <2>4. CASE x = c
    <3>1. InTransit(Tail(answers[c]), M, m)
      BY <1>1, <1>3, <2>1, <2>2, <2>4, TransitPopped
    <3> QED
      BY <1>7, <1>8, <2>4, <3>1
  <2> QED
    BY <2>3, <2>4
<1>15. \A x \in Conns : \A a \in OwedBy(client'[x]) : status'[a] # "idle"
  <2> TAKE x \in Conns
  <2> TAKE a \in OwedBy(client'[x])
  <2>1. a \in OwedBy(mid[x]) /\ mid[x] \in ClientType
    BY <1>2, <1>3, <1>7
  <2>2. a \in Actions
    BY <2>1, OwedType
  <2>3. a \in OwedBy(client[x]) \/ a \in follow
    <3>1. x = d => g # NoGroup
      BY <1>1, <1>4, ServerAssumption
    <3> QED
      BY <1>2, <2>1, <3>1 DEF follow
  <2>4. a \in OwedBy(client[x]) => status[a] # "idle"
    BY DEF Inv, StartedOK
  <2> QED
    BY <1>1, <2>2, <2>3, <2>4
<1> QED
  BY <1>6, <1>11, <1>12, <1>13, <1>14, <1>15, Kept
-----------------------------------------------------------------------------
(***************************************************************************)
(* The computers.                                                          *)
(***************************************************************************)
LEMMA ReceiveStep ==
    ASSUME Inv, NEW c \in Conns, Receive(c)
    PROVE  Inv'
<1> DEFINE k == client[c]
           m == [client[c] EXCEPT !.packet = <<>>]
<1>1. /\ client \in [Conns -> ClientType] /\ inbox \in [Conns -> Seq(Actions)]
      /\ answers \in [Conns -> Seq(Actions)] /\ clients \subseteq Conns
  BY DEF Inv, TypeInv
<1>2. /\ c \in connected /\ k.packet # <<>>
      /\ inbox' = [inbox EXCEPT ![c] = inbox[c] \o k.packet]
      /\ client' = [client EXCEPT ![c] = m]
      /\ UNCHANGED <<clients, logins, posted, status, name, connected, answers>>
  BY <1>1 DEF Receive
<1>3. k \in ClientType /\ k.packet \in Seq(Actions) /\ ClientOK(k) /\ c \in clients
  <2>1. k # NewClient
    BY <1>2 DEF NewClient
  <2> QED
    BY <1>1, <2>1, InvFacts DEF ClientType
<1>4. /\ m \in ClientType /\ m.packet = <<>> /\ m.responseQueue = k.responseQueue
      /\ m.sendQueue = k.sendQueue /\ m.sendQueueTotal = k.sendQueueTotal /\ m.login = k.login
      /\ m.isSending = k.isSending /\ m.responseTimer = k.responseTimer
  <2>1. <<>> \in Seq(Actions)
    BY EmptySeq
  <2> QED
    BY <1>3, <2>1 DEF ClientType
<1> HIDE DEF k, m
<1>5. QueuedBy(m) = QueuedBy(k) /\ OwedBy(m) = OwedBy(k)
  BY <1>4 DEF QueuedBy, OwedBy
<1>6. ClientOK(m)
  BY <1>3, <1>4, <1>5 DEF ClientOK, QueuesOK, FlagsOK
<1>7. client'[c] = m /\ client[c] = k /\ \A x \in Conns \ {c} : client'[x] = client[x]
  BY <1>1, <1>2 DEF k
<1>8. /\ inbox[c] \o k.packet \in Seq(Actions)
      /\ inbox'[c] = inbox[c] \o k.packet /\ \A x \in Conns \ {c} : inbox'[x] = inbox[x]
      /\ inbox' \in [Conns -> Seq(Actions)]
  <2>1. inbox[c] \o k.packet \in Seq(Actions)
    BY <1>1, <1>3, ConcatProperties
  <2> QED
    BY <1>1, <1>2, <2>1
<1>9. client' \in [Conns -> ClientType]
  BY <1>1, <1>2, <1>4
<1>10. TypeInv'
  BY <1>2, <1>8, <1>9 DEF Inv, TypeInv
<1>11. ClosedOK'
  BY <1>2, <1>3, <1>7, <1>8 DEF Inv, ClosedOK
<1>12. ClientsOK' /\ StartedOK'
  BY <1>2, <1>5, <1>6, <1>7 DEF Inv, ClientsOK, StartedOK
<1>13. LoginsAreOpen'
  BY <1>1, <1>2, <1>4, <1>7 DEF Inv, TypeInv, LoginsAreOpen
<1>14. OrderOK'
  <2> SUFFICES ASSUME NEW x \in clients
               PROVE  \E M \in Seq(Actions) :
                         InTransit(answers[x], M, client'[x]) /\ (x \in connected => M = inbox'[x])
    BY <1>2 DEF OrderOK
  <2>1. PICK M \in Seq(Actions) :
           InTransit(answers[x], M, client[x]) /\ (x \in connected => M = inbox[x])
    BY DEF Inv, OrderOK
  <2>2. CASE x # c
    BY <1>1, <1>7, <1>8, <2>1, <2>2
  <2>3. CASE x = c
    <3>1. answers[c] \in Seq(Actions) /\ M = inbox[c] /\ InTransit(answers[c], M, k)
      BY <1>1, <1>2, <1>7, <2>1, <2>3
    <3>2. InTransit(answers[c], M \o k.packet, m) /\ M \o k.packet \in Seq(Actions)
      BY <1>3, <1>4, <3>1, TransitReceived
    <3> QED
      BY <1>7, <1>8, <2>3, <3>1, <3>2
  <2> QED
    BY <2>2, <2>3
<1> QED
  BY <1>10, <1>11, <1>12, <1>13, <1>14 DEF Inv

\* The execution of an action by a computer preserves the invariant.
LEMMA ExecuteStep ==
    ASSUME Inv, NEW c \in Conns, Execute(c)
    PROVE  Inv'
<1>1. /\ client \in [Conns -> ClientType] /\ inbox \in [Conns -> Seq(Actions)]
      /\ answers \in [Conns -> Seq(Actions)] /\ clients \subseteq Conns
  BY DEF Inv, TypeInv
<1> DEFINE new == IF c \in clients THEN Append(answers[c], Head(inbox[c])) ELSE answers[c]
<1>2. /\ c \in connected /\ inbox[c] # <<>>
      /\ inbox' = [inbox EXCEPT ![c] = Tail(inbox[c])]
      /\ UNCHANGED <<clients, logins, client, posted, status, name, connected>>
  BY <1>1 DEF Execute
<1>3. answers' = [answers EXCEPT ![c] = new]
  <2>1. CASE c \in clients
    BY <1>1, <2>1 DEF Execute
  <2>2. CASE c \notin clients
    BY <1>1, <2>2 DEF Execute
  <2> QED
    BY <2>1, <2>2
<1>4. Tail(inbox[c]) \in Seq(Actions) /\ Head(inbox[c]) \in Actions
  BY <1>1, <1>2, SequenceStep
<1>5. new \in Seq(Actions)
  BY <1>1, <1>4, AppendProperties
<1> HIDE DEF new
<1>6. /\ inbox'[c] = Tail(inbox[c]) /\ \A x \in Conns \ {c} : inbox'[x] = inbox[x]
      /\ answers'[c] = new /\ \A x \in Conns \ {c} : answers'[x] = answers[x]
  BY <1>1, <1>2, <1>3
<1>7. TypeInv'
  BY <1>1, <1>2, <1>3, <1>4, <1>5 DEF Inv, TypeInv
<1>8. ClosedOK'
  BY <1>2, <1>6 DEF Inv, ClosedOK, new
<1>9. ClientsOK' /\ StartedOK' /\ LoginsAreOpen'
  BY <1>2 DEF Inv, ClientsOK, StartedOK, LoginsAreOpen
<1>10. OrderOK'
  <2> SUFFICES ASSUME NEW x \in clients
               PROVE  \E M \in Seq(Actions) :
                         InTransit(answers'[x], M, client[x]) /\ (x \in connected => M = inbox'[x])
    BY <1>2 DEF OrderOK
  <2>1. PICK M \in Seq(Actions) :
           InTransit(answers[x], M, client[x]) /\ (x \in connected => M = inbox[x])
    BY DEF Inv, OrderOK
  <2>2. CASE x # c
    BY <1>1, <1>6, <2>1, <2>2
  <2>3. CASE x = c
    <3>1. M = inbox[c] /\ M # <<>> /\ answers[c] \in Seq(Actions)
      BY <1>1, <1>2, <2>1, <2>3
    <3>2. Append(answers[c], Head(M)) \o Tail(M) = answers[c] \o M
      BY <3>1, MoveHead
    <3>3. answers'[c] = Append(answers[c], Head(M)) /\ inbox'[c] = Tail(M)
      BY <1>6, <2>3, <3>1 DEF new
    <3>4. InTransit(answers'[c], Tail(M), client[c])
      BY <2>1, <2>3, <3>2, <3>3 DEF InTransit
    <3> QED
      BY <1>4, <2>3, <3>1, <3>3, <3>4
  <2> QED
    BY <2>2, <2>3
<1> QED
  BY <1>7, <1>8, <1>9, <1>10 DEF Inv

\* The end of a connection at the side of the computer preserves the invariant.
LEMMA ClosedStep ==
    ASSUME Inv, NEW c \in Conns, Closed(c)
    PROVE  Inv'
<1>1. /\ client \in [Conns -> ClientType] /\ inbox \in [Conns -> Seq(Actions)]
      /\ answers \in [Conns -> Seq(Actions)] /\ clients \subseteq Conns
  BY DEF Inv, TypeInv
<1>2. PICK n \in {0, Len(answers[c])} : answers' = [answers EXCEPT ![c] = SubSeq(answers[c], 1, n)]
  BY <1>1 DEF Closed
<1>3. /\ c \in connected /\ connected' = connected \ {c} /\ inbox' = [inbox EXCEPT ![c] = <<>>]
      /\ UNCHANGED <<clients, logins, client, posted, status, name>>
  BY DEF Closed
<1> DEFINE new == SubSeq(answers[c], 1, n)
<1>4. new \in Seq(Actions) /\ (answers[c] = <<>> => new = <<>>)
  <2>1. CASE n = 0
    <3>1. new = <<>>
      BY <2>1, SubSeqEmpty
    <3> QED
      BY <3>1, EmptySeq
  <2>2. CASE n = Len(answers[c])
    <3>1. new = answers[c]
      BY <1>1, <2>2, SubSeqFull
    <3> QED
      BY <1>1, <3>1
  <2> QED
    BY <2>1, <2>2
<1>5. /\ answers'[c] = new /\ \A x \in Conns \ {c} : answers'[x] = answers[x]
      /\ inbox'[c] = <<>> /\ \A x \in Conns \ {c} : inbox'[x] = inbox[x]
  BY <1>1, <1>2, <1>3
<1>6. TypeInv'
  <2>1. answers' \in [Conns -> Seq(Actions)]
    BY <1>1, <1>2, <1>4
  <2>2. inbox' \in [Conns -> Seq(Actions)]
    BY <1>1, <1>3, EmptySeq
  <2> QED
    BY <1>3, <2>1, <2>2 DEF Inv, TypeInv
<1>7. ClosedOK'
  BY <1>3, <1>4, <1>5 DEF Inv, ClosedOK
<1>8. ClientsOK' /\ StartedOK' /\ LoginsAreOpen'
  BY <1>3 DEF Inv, ClientsOK, StartedOK, LoginsAreOpen
<1>9. OrderOK'
  <2> SUFFICES ASSUME NEW x \in clients
               PROVE  \E M \in Seq(Actions) :
                         InTransit(answers'[x], M, client[x]) /\ (x \in connected' => M = inbox'[x])
    BY <1>3 DEF OrderOK
  <2>1. PICK M \in Seq(Actions) :
           InTransit(answers[x], M, client[x]) /\ (x \in connected => M = inbox[x])
    BY DEF Inv, OrderOK
  <2>2. CASE x # c
    BY <1>1, <1>3, <1>5, <2>1, <2>2
  <2>3. CASE x = c
    <3>1. answers[c] \in Seq(Actions) /\ client[c] \in ClientType /\ InTransit(answers[c], M, client[c])
      BY <1>1, <2>1, <2>3
    <3>2. \E N \in Seq(Actions) : InTransit(SubSeq(answers[c], 1, n), N, client[c])
      BY <3>1, TransitClosed
    <3> QED
      BY <1>3, <1>5, <2>3, <3>2
  <2> QED
    BY <2>2, <2>3
<1> QED
  BY <1>6, <1>7, <1>8, <1>9 DEF Inv
-----------------------------------------------------------------------------
(***************************************************************************)
(* The handlers that change the list of Clients.                           *)
(***************************************************************************)
LEMMA AcceptStep ==
    ASSUME Inv, NEW c \in Conns, NEW n \in Names, Accept(c, n)
    PROVE  Inv'
<1>1. /\ client[c] = NewClient /\ answers[c] = <<>> /\ inbox[c] = <<>>
      /\ c \notin clients /\ c \notin connected
      /\ clients' = clients \cup {c} /\ connected' = connected \cup {c}
      /\ name' = [name EXCEPT ![c] = n]
      /\ UNCHANGED <<logins, client, posted, status, inbox, answers>>
  BY DEF Inv, ClosedOK, Accept
<1>2. /\ name \in [Conns -> Names \cup {NoName}] /\ clients \subseteq Conns /\ NoConn \notin Conns
      /\ NoName \notin Names
  BY ServerAssumption DEF Inv, TypeInv
<1>3. TypeInv'
  BY <1>1, <1>2 DEF Inv, TypeInv
<1>4. ClosedOK'
  BY <1>1, <1>2 DEF Inv, ClosedOK
<1>5. ClientsOK' /\ StartedOK'
  BY <1>1 DEF Inv, ClientsOK, StartedOK
<1>6. OrderOK'
  <2> SUFFICES ASSUME NEW x \in clients \cup {c}
               PROVE  \E M \in Seq(Actions) :
                         InTransit(answers[x], M, client[x]) /\ (x \in connected' => M = inbox[x])
    BY <1>1 DEF OrderOK
  <2>1. CASE x = c
    <3>1. InTransit(answers[c], <<>>, client[c]) /\ <<>> \in Seq(Actions)
      BY <1>1, NewClientFacts, EmptySeq
    <3> QED
      BY <1>1, <2>1, <3>1
  <2>2. CASE x # c
    <3>1. x \in clients /\ (x \in connected' <=> x \in connected)
      BY <1>1, <2>2
    <3> QED
      BY <3>1 DEF Inv, OrderOK
  <2> QED
    BY <2>1, <2>2
<1>7. LoginsAreOpen'
  <2>1. client[c].login = NoName
    BY <1>1 DEF NewClient
  <2> QED
    BY <1>1, <2>1 DEF Inv, LoginsAreOpen
<1> QED
  BY <1>3, <1>4, <1>5, <1>6, <1>7 DEF Inv

\* The Client that is destroyed, whichever handler does it.
LEMMA ErasedStep ==
    ASSUME Inv, NEW d \in clients, Erase(d),
           client' \in [Conns -> ClientType], client'[d] = NewClient,
           \A x \in Conns \ {d} :
              \/ client'[x] = client[x]
              \/ \E n \in Names \cup {NoName} : client'[x] = [client[x] EXCEPT !.login = n],
           \A x \in Conns \ clients : client'[x] = client[x],
           logins' \in [Names -> Conns \cup {NoConn}], LoginsAreOpen',
           UNCHANGED <<status, gameVars>>
    PROVE  Inv'
<1>1. /\ clients \subseteq Conns /\ d \in Conns /\ client[d] \in ClientType
      /\ posted \in Seq(SUBSET Actions) /\ answers \in [Conns -> Seq(Actions)]
      /\ client \in [Conns -> ClientType]
  BY DEF Inv, TypeInv
<1>2. /\ clients' = clients \ {d} /\ posted' = posted \o Destroyed(client[d])
      /\ answers' = [answers EXCEPT ![d] = <<>>]
      /\ UNCHANGED <<status, name, connected, inbox>>
  BY DEF Erase, gameVars
<1>3. answers'[d] = <<>> /\ (\A x \in Conns \ {d} : answers'[x] = answers[x])
      /\ answers' \in [Conns -> Seq(Actions)]
  BY <1>1, <1>2, EmptySeq
<1>4. posted' \in Seq(SUBSET Actions)
  BY <1>1, <1>2, DestroyedFacts, ConcatProperties
<1>5. TypeInv'
  BY <1>2, <1>3, <1>4 DEF Inv, TypeInv
<1>6. ClosedOK'
  BY <1>1, <1>2, <1>3 DEF Inv, ClosedOK
<1>7. ASSUME NEW x \in Conns \ {d}
      PROVE  /\ client'[x].sendQueue = client[x].sendQueue
             /\ client'[x].responseQueue = client[x].responseQueue
             /\ client'[x].sendQueueTotal = client[x].sendQueueTotal
             /\ client'[x].packet = client[x].packet
             /\ client'[x].isSending = client[x].isSending
             /\ client'[x].responseTimer = client[x].responseTimer
  <2>1. CASE client'[x] = client[x]
    BY <2>1
  <2>2. ASSUME NEW n \in Names \cup {NoName}, client'[x] = [client[x] EXCEPT !.login = n]
        PROVE  /\ client'[x].sendQueue = client[x].sendQueue
               /\ client'[x].responseQueue = client[x].responseQueue
               /\ client'[x].sendQueueTotal = client[x].sendQueueTotal
               /\ client'[x].packet = client[x].packet
               /\ client'[x].isSending = client[x].isSending
               /\ client'[x].responseTimer = client[x].responseTimer
    <3> DEFINE k == client[x]
    <3>1. k \in ClientType /\ client'[x] = [k EXCEPT !.login = n]
      BY <1>1, <2>2
    <3> HIDE DEF k
    <3>2. DOMAIN k = {"login", "sendQueue", "sendQueueTotal", "responseQueue", "responseTimer",
                      "isSending", "packet"}
      BY <3>1 DEF ClientType
    <3> QED
      BY <3>1, <3>2 DEF k
  <2> QED
    BY <2>1, <2>2
<1>8. ASSUME NEW x \in Conns \ {d}
      PROVE  ClientOK(client'[x]) /\ OwedBy(client'[x]) = OwedBy(client[x])
  <2>1. ClientOK(client[x])
    BY InvFacts
  <2> DEFINE k == client[x]
             m == client'[x]
  <2>2. /\ m.sendQueue = k.sendQueue /\ m.responseQueue = k.responseQueue
        /\ m.sendQueueTotal = k.sendQueueTotal /\ m.packet = k.packet
        /\ m.isSending = k.isSending /\ m.responseTimer = k.responseTimer /\ ClientOK(k)
    BY <1>7, <2>1
  <2> HIDE DEF k, m
  <2>3. QueuedBy(m) = QueuedBy(k) /\ OwedBy(m) = OwedBy(k)
    BY <2>2 DEF QueuedBy, OwedBy
  <2>4. ClientOK(m)
    BY <2>2, <2>3 DEF ClientOK, QueuesOK, FlagsOK
  <2> QED
    BY <2>3, <2>4 DEF k, m
<1>9. ClientsOK' /\ StartedOK'
  <2>1. ClientOK(client'[d]) /\ OwedBy(client'[d]) = {}
    BY NewClientFacts
  <2>2. \A x \in Conns : ClientOK(client'[x])
    BY <1>8, <2>1
  <2>3. \A x \in Conns : \A a \in OwedBy(client'[x]) : status[a] # "idle"
    BY <1>8, <2>1 DEF Inv, StartedOK
  <2> QED
    BY <1>2, <2>2, <2>3 DEF ClientsOK, StartedOK
<1>10. OrderOK'
  <2> SUFFICES ASSUME NEW x \in clients \ {d}
               PROVE  \E M \in Seq(Actions) :
                         InTransit(answers'[x], M, client'[x]) /\ (x \in connected => M = inbox[x])
    BY <1>2 DEF OrderOK
  <2>1. PICK M \in Seq(Actions) :
           InTransit(answers[x], M, client[x]) /\ (x \in connected => M = inbox[x])
    BY DEF Inv, OrderOK
  <2>2. InTransit(answers'[x], M, client'[x])
    BY <1>1, <1>3, <1>7, <2>1 DEF InTransit
  <2> QED
    BY <2>1, <2>2
<1> QED
  BY <1>5, <1>6, <1>9, <1>10 DEF Inv

\* removeClient, whatever led to it, preserves the invariant.
LEMMA RemoveStep ==
    ASSUME Inv, NEW c \in clients, RemoveClient(c)
    PROVE  Inv'
<1>1. /\ clients \subseteq Conns /\ c \in Conns /\ NoConn \notin Conns /\ NoName \notin Names
      /\ client \in [Conns -> ClientType] /\ logins \in [Names -> Conns \cup {NoConn}]
      /\ client[c].login \in Names \cup {NoName}
  BY ServerAssumption DEF Inv, TypeInv, ClientType
<1>2. /\ Erase(c) /\ clients' = clients \ {c}
      /\ logins' = [n \in Names |-> IF n = client[c].login THEN NoConn ELSE logins[n]]
      /\ client' = [client EXCEPT ![c] = NewClient]
      /\ UNCHANGED <<status, gameVars>>
  BY DEF RemoveClient, Erase
<1>3. client'[c] = NewClient /\ \A x \in Conns \ {c} : client'[x] = client[x]
  BY <1>1, <1>2
<1>4. client' \in [Conns -> ClientType]
  BY <1>1, <1>2, NewClientFacts
<1>5. logins' \in [Names -> Conns \cup {NoConn}]
  BY <1>1, <1>2
<1>6. LoginsAreOpen'
  <2>1. ASSUME NEW n \in Names, logins'[n] # NoConn
        PROVE  logins'[n] \in clients' /\ client'[logins'[n]].login = n
    <3>1. n # client[c].login /\ logins'[n] = logins[n] /\ logins[n] # NoConn
      BY <1>2, <2>1
    <3>2. logins[n] \in clients /\ client[logins[n]].login = n
      BY <3>1 DEF Inv, LoginsAreOpen
    <3>3. logins[n] # c
      BY <3>1, <3>2
    <3> QED
      BY <1>1, <1>2, <1>3, <3>1, <3>2, <3>3
  <2>2. ASSUME NEW x \in clients', client'[x].login # NoName
        PROVE  logins'[client'[x].login] = x
    <3>1. x \in clients /\ x # c /\ client'[x] = client[x]
      BY <1>1, <1>2, <1>3
    <3>2. logins[client[x].login] = x /\ client[x].login \in Names
      BY <1>1, <2>2, <3>1 DEF Inv, LoginsAreOpen, ClientType
    <3>3. client[x].login # client[c].login
      <4>1. client[c].login # NoName => logins[client[c].login] = c
        BY DEF Inv, LoginsAreOpen
      <4> QED
        BY <1>1, <3>1, <3>2, <4>1
    <3> QED
      BY <1>2, <3>1, <3>2, <3>3
  <2> QED
    BY <2>1, <2>2 DEF LoginsAreOpen
<1>7. \A x \in Conns \ clients : client'[x] = client[x]
  BY <1>3
<1> QED
  BY <1>2, <1>3, <1>4, <1>5, <1>6, <1>7, ErasedStep

\* The Client that is removed is one of the list.
LEMMA TimedClient ==
    ASSUME Inv, NEW c \in Conns, TimedOut(c)
    PROVE  c \in clients
<1>1. client[c] # NewClient
  BY DEF TimedOut, NewClient
<1> QED
  BY <1>1, InvFacts

\* A login, with the eviction of an older Client, preserves the invariant.
LEMMA LoginStep ==
    ASSUME Inv, NEW c \in Conns, Login(c)
    PROVE  Inv'
<1> DEFINE old == logins[name[c]]
           m == [client[c] EXCEPT !.login = name[c]]
<1>1. /\ clients \subseteq Conns /\ NoConn \notin Conns /\ NoName \notin Names
      /\ client \in [Conns -> ClientType] /\ logins \in [Names -> Conns \cup {NoConn}]
  BY ServerAssumption DEF Inv, TypeInv
<1>2. c \in clients /\ name[c] \in Names /\ client[c].login = NoName /\ client[c] \in ClientType
  BY <1>1 DEF Inv, ClosedOK, Login
<1>3. /\ logins' = [logins EXCEPT ![name[c]] = c]
      /\ IF old = NoConn THEN UNCHANGED <<clients, posted, answers>> ELSE Erase(old)
      /\ client' = [x \in Conns |-> IF x = old THEN NewClient
                                    ELSE IF x = c THEN m ELSE client[x]]
      /\ UNCHANGED <<status, gameVars>>
  BY DEF Login, UpdateLogin
<1>4. /\ m \in ClientType /\ m.login = name[c] /\ m.sendQueue = client[c].sendQueue
      /\ m.responseQueue = client[c].responseQueue /\ m.packet = client[c].packet
      /\ m.sendQueueTotal = client[c].sendQueueTotal /\ m.isSending = client[c].isSending
      /\ m.responseTimer = client[c].responseTimer
  BY <1>2 DEF ClientType
<1>5. /\ old \in Conns \cup {NoConn}
      /\ old # NoConn => old \in clients /\ client[old].login = name[c]
  BY <1>1, <1>2 DEF Inv, LoginsAreOpen
<1>6. old # c
  BY <1>1, <1>2, <1>5
<1>7. m = [client[c] EXCEPT !.login = name[c]]
  OBVIOUS
<1> HIDE DEF m, old
<1>8. /\ client' \in [Conns -> ClientType] /\ client'[c] = m
      /\ \A x \in Conns \ {c, old} : client'[x] = client[x]
      /\ old # NoConn => client'[old] = NewClient
  BY <1>1, <1>2, <1>3, <1>4, <1>5, <1>6, NewClientFacts
<1>9. logins' \in [Names -> Conns \cup {NoConn}]
  BY <1>1, <1>2, <1>3
<1>10. clients' = clients \ {old}
  <2>1. old = NoConn => clients' = clients /\ old \notin clients
    BY <1>1, <1>3
  <2> QED
    BY <1>3, <2>1 DEF Erase
<1>11. LoginsAreOpen'
  <2>1. logins'[name[c]] = c /\ \A n \in Names \ {name[c]} : logins'[n] = logins[n]
    BY <1>1, <1>2, <1>3
  <2>2. ASSUME NEW n \in Names, logins'[n] # NoConn
        PROVE  logins'[n] \in clients' /\ client'[logins'[n]].login = n
    <3>1. CASE n = name[c]
      BY <1>2, <1>4, <1>6, <1>8, <1>10, <2>1, <3>1
    <3>2. CASE n # name[c]
      <4>1. logins'[n] = logins[n] /\ logins[n] \in clients /\ client[logins[n]].login = n
        BY <2>1, <2>2, <3>2 DEF Inv, LoginsAreOpen
      <4>2. logins[n] # c
        BY <1>1, <1>2, <4>1
      <4>3. logins[n] # old
        BY <1>1, <1>5, <3>2, <4>1
      <4> QED
        BY <1>1, <1>8, <1>10, <4>1, <4>2, <4>3
    <3> QED
      BY <3>1, <3>2
  <2>3. ASSUME NEW x \in clients', client'[x].login # NoName
        PROVE  logins'[client'[x].login] = x
    <3>1. CASE x = c
      BY <1>4, <1>8, <2>1, <3>1
    <3>2. CASE x # c
      <4>1. x \in clients /\ x \in Conns /\ x # old /\ client'[x] = client[x]
        BY <1>1, <1>8, <1>10, <3>2
      <4>2. logins[client[x].login] = x /\ client[x].login \in Names
        BY <1>1, <2>3, <4>1 DEF Inv, LoginsAreOpen, ClientType
      <4>3. client[x].login # name[c]
        BY <4>1, <4>2 DEF old
      <4> QED
        BY <2>1, <4>1, <4>2, <4>3
    <3> QED
      BY <3>1, <3>2
  <2> QED
    BY <2>2, <2>3 DEF LoginsAreOpen
<1>12. CASE old # NoConn
  <2>1. old \in clients /\ Erase(old) /\ client'[old] = NewClient
    BY <1>3, <1>5, <1>8, <1>12
  <2>2. \A x \in Conns \ {old} :
          \/ client'[x] = client[x]
          \/ \E n \in Names \cup {NoName} : client'[x] = [client[x] EXCEPT !.login = n]
    BY <1>2, <1>7, <1>8
  <2>3. \A x \in Conns \ clients : client'[x] = client[x]
    BY <1>2, <1>8, <2>1
  <2> QED
    BY <1>3, <1>8, <1>9, <1>11, <2>1, <2>2, <2>3, ErasedStep
<1>13. CASE old = NoConn
  <2>1. /\ UNCHANGED <<clients, posted, answers, status, name, connected, inbox>>
        /\ \A x \in Conns \ {c} : client'[x] = client[x]
    BY <1>1, <1>3, <1>8, <1>13 DEF gameVars
  <2>2. TypeInv'
    BY <1>8, <1>9, <2>1 DEF Inv, TypeInv
  <2>3. ClosedOK'
    BY <1>2, <2>1 DEF Inv, ClosedOK
  <2> DEFINE k == client[c]
  <2>4. ClientOK(k) /\ k = client[c]
    BY <1>1, <1>2, InvFacts
  <2>5. QueuedBy(m) = QueuedBy(k) /\ OwedBy(m) = OwedBy(k)
    BY <1>4 DEF QueuedBy, OwedBy
  <2>6. ClientOK(m)
    BY <1>4, <2>4, <2>5 DEF ClientOK, QueuesOK, FlagsOK
  <2>7. ClientsOK' /\ StartedOK'
    BY <1>8, <2>1, <2>5, <2>6 DEF Inv, ClientsOK, StartedOK
  <2>8. OrderOK'
    <3> SUFFICES ASSUME NEW x \in clients
                 PROVE  \E M \in Seq(Actions) :
                           InTransit(answers[x], M, client'[x]) /\ (x \in connected => M = inbox[x])
      BY <2>1 DEF OrderOK
    <3>1. PICK M \in Seq(Actions) :
             InTransit(answers[x], M, client[x]) /\ (x \in connected => M = inbox[x])
      BY DEF Inv, OrderOK
    <3>2. /\ client'[x].packet = client[x].packet
          /\ client'[x].responseQueue = client[x].responseQueue
      BY <1>1, <1>4, <1>8, <2>1
    <3> QED
      BY <3>1, <3>2 DEF InTransit
  <2> QED
    BY <1>11, <2>2, <2>3, <2>7, <2>8 DEF Inv
<1> QED
  BY <1>12, <1>13
-----------------------------------------------------------------------------
(***************************************************************************)
(* Theorems.                                                               *)
(***************************************************************************)
LEMMA StepInv == Inv /\ [Next]_vars => Inv'
<1> SUFFICES ASSUME Inv, [Next]_vars PROVE Inv'
  OBVIOUS
<1>1. CASE UNCHANGED vars
  BY <1>1 DEF vars, gameVars, Inv, TypeInv, ClosedOK, OrderOK, ClientsOK, StartedOK, LoginsAreOpen
<1>2. CASE FailPosted
  BY <1>2, FailPostedStep
<1>3. CASE \E g \in Groups : Enqueue(g)
  BY <1>3, EnqueueStep
<1>4. ASSUME NEW c \in Conns, Step(c) PROVE Inv'
  <2>1. CASE \E n \in Names : Accept(c, n)
    BY <2>1, AcceptStep
  <2>2. CASE Login(c)
    BY <2>2, LoginStep
  <2>3. CASE ConnectionLost(c)
    BY <2>3, RemoveStep DEF ConnectionLost
  <2>4. CASE TimedOut(c)
    BY <2>4, TimedClient, RemoveStep DEF TimedOut
  <2>5. CASE WriteDone(c)
    BY <2>5, WriteDoneStep
  <2>6. CASE \E g \in Groups \cup {NoGroup} : Answered(c, g)
    BY <2>6, AnsweredStep
  <2>7. CASE AnsweredBadly(c)
    BY <2>7, RemoveStep DEF AnsweredBadly
  <2>8. CASE Receive(c)
    BY <2>8, ReceiveStep
  <2>9. CASE Execute(c)
    BY <2>9, ExecuteStep
  <2>10. CASE Closed(c)
    BY <2>10, ClosedStep
  <2> QED
    BY <1>4, <2>1, <2>2, <2>3, <2>4, <2>5, <2>6, <2>7, <2>8, <2>9, <2>10 DEF Step
<1> QED
  BY <1>1, <1>2, <1>3, <1>4 DEF Next

\* The variables keep their types whatever the computers and the network do.
THEOREM TypeCorrect == Spec => []TypeOK
<1>1. Inv => TypeOK
  <2> SUFFICES ASSUME Inv PROVE TypeOK
    OBVIOUS
  <2>1. ASSUME NEW c \in Conns
        PROVE  /\ DOMAIN client[c] = DOMAIN NewClient
               /\ client[c].login \in Names \cup {NoName}
               /\ client[c].sendQueue \in Seq(Groups) /\ client[c].sendQueueTotal \in Nat
               /\ {client[c].responseQueue, client[c].packet, inbox[c], answers[c]} \subseteq Seq(Actions)
               /\ {client[c].responseTimer, client[c].isSending} \subseteq BOOLEAN
    <3>1. client[c] \in ClientType /\ inbox[c] \in Seq(Actions) /\ answers[c] \in Seq(Actions)
      BY InvFacts
    <3>2. DOMAIN client[c] = DOMAIN NewClient
      BY <3>1 DEF ClientType, NewClient
    <3> QED
      BY <3>1, <3>2 DEF ClientType
  <2> QED
    BY <2>1 DEF Inv, TypeInv, TypeOK
<1> QED
  BY InitInv, StepInv, <1>1, PTL DEF Spec

\* The answers on their way to a Client are those of the first actions in its
\* responseQueue: matching by order (onPacket) gives every action its answer,
\* also around a continuation that enqueues a group in the middle of onPacket.
THEOREM AnswersMatched == Spec => []AnswersInOrder
<1>1. Inv => AnswersInOrder
  BY OrderFacts DEF AnswersInOrder
<1> QED
  BY InitInv, StepInv, <1>1, PTL DEF Spec

\* Whatever a Client owes, the timer or the end of a write will wake it.
THEOREM NothingForgotten == Spec => []PendingHasWakeup
<1>1. Inv => PendingHasWakeup
  <2> SUFFICES ASSUME Inv, NEW c \in Conns, Owed(c) # {}
               PROVE  client[c].responseTimer \/ (client[c].isSending /\ client[c].packet = <<>>)
    BY DEF PendingHasWakeup
  <2>1. client[c] \in ClientType /\ ClientOK(client[c])
    BY InvFacts
  <2>2. client[c] # NewClient
    BY NewClientFacts DEF Owed
  <2>3. c \in clients
    BY <2>2, InvFacts
  <2>4. client[c].packet # <<>> => client[c].responseQueue # <<>>
    BY <2>3, OrderFacts
  <2>5. client[c].responseQueue # <<>> => client[c].responseTimer
    BY <2>1 DEF ClientOK, FlagsOK
  <2>6. client[c].responseQueue = <<>> => client[c].sendQueue # <<>>
    <3> SUFFICES ASSUME client[c].responseQueue = <<>>, client[c].sendQueue = <<>> PROVE FALSE
      OBVIOUS
    <3>1. 1 .. Len(client[c].sendQueue) = {} /\ 1 .. Len(client[c].responseQueue) = {}
      OBVIOUS
    <3>2. QueuedBy(client[c]) = {} /\ ToSet(client[c].responseQueue) = {}
      BY <2>1, <3>1, QueuedByIndex
    <3> QED
      BY <3>2 DEF Owed, OwedBy
  <2>7. client[c].sendQueue # <<>> => client[c].isSending
    BY <2>1 DEF ClientOK
  <2> QED
    BY <2>4, <2>5, <2>6, <2>7
<1> QED
  BY InitInv, StepInv, <1>1, PTL DEF Spec

\* logins never leads to a Client that was destroyed, nor to one that logged in
\* with another name.
THEOREM LoginsStayOpen == Spec => []LoginsAreOpen
<1>1. Inv => LoginsAreOpen
  BY DEF Inv
<1> QED
  BY InitInv, StepInv, <1>1, PTL DEF Spec
-----------------------------------------------------------------------------
(***************************************************************************)
(* The client a group goes to.                                             *)
(***************************************************************************)
LEMMA OwedCount ==
    ASSUME NEW k \in ClientType, QueuesOK(k)
    PROVE  Cardinality(OwedBy(k)) = k.sendQueueTotal + Len(k.responseQueue)
<1> DEFINE r == k.responseQueue
           R == ToSet(k.responseQueue)
           Q == QueuedBy(k)
           f == [i \in 1 .. Len(k.responseQueue) |-> k.responseQueue[i]]
<1>1. R = {r[i] : i \in 1 .. Len(r)} /\ Q = UNION {ActionsOf(k.sendQueue[i]) : i \in 1 .. Len(k.sendQueue)}
  BY QueuedByIndex
<1>2. /\ \A i, j \in 1 .. Len(r) : r[i] = r[j] => i = j
      /\ IsFiniteSet(Q) /\ k.sendQueueTotal = Cardinality(Q) /\ Len(r) \in Nat
  BY DEF QueuesOK, ClientType
<1>3. f \in Bijection(1 .. Len(r), R)
  <2>1. f \in [1 .. Len(r) -> R] /\ \A i \in 1 .. Len(r) : f[i] = r[i]
    BY <1>1
  <2>2. \A i, j \in 1 .. Len(r) : f[i] = f[j] => i = j
    BY <1>2, <2>1
  <2>3. \A a \in R : \E i \in 1 .. Len(r) : f[i] = a
    BY <1>1, <2>1
  <2> HIDE DEF f, R, r
  <2> QED
    BY <2>1, <2>2, <2>3 DEF Bijection, Injection, Surjection, IsInjective
<1>4. IsFiniteSet(1 .. Len(r)) /\ Cardinality(1 .. Len(r)) = Len(r)
  BY <1>2, FS_Interval
<1>5. IsFiniteSet(R) /\ Cardinality(R) = Len(r)
  <2> HIDE DEF f, R, r
  <2> QED
    BY <1>3, <1>4, FS_Bijection DEF ExistsBijection
<1>6. Q \cap R = {}
  BY <1>1 DEF QueuesOK
<1>7. OwedBy(k) = Q \cup R
  BY DEF OwedBy
<1> HIDE DEF Q, R, r
<1>8. Cardinality(Q \cup R) = Cardinality(Q) + Cardinality(R)
  BY <1>2, <1>5, <1>6, DisjointUnion
<1>9. Cardinality(OwedBy(k)) = Cardinality(Q) + Cardinality(R)
  BY <1>7, <1>8, Zenon
<1> QED
  BY <1>2, <1>5, <1>9 DEF r

\* The connections of the clients that can do a group.
Online(g) == {logins[n] : n \in ToSet(Accesses[g])} \ {NoConn}

\* The Client that is chosen owes least of those that may be.
LEMMA TargetIsBest ==
    ASSUME Inv, NEW g \in Groups
    PROVE  /\ TargetOf(g) = NoConn <=> Online(g) = {}
           /\ TargetOf(g) # NoConn =>
                /\ TargetOf(g) \in Online(g) /\ TargetOf(g) \in clients
                /\ \A e \in Online(g) : Cardinality(Owed(TargetOf(g))) <= Cardinality(Owed(e))
<1> DEFINE acc == Accesses[g]
           best == BestAccess(acc)
<1>1. /\ \E i \in DOMAIN acc : best = acc[i]
      /\ best \in Names /\ \A k \in DOMAIN acc : ~Fewer(acc[k], best)
  BY BestAccessFacts DEF Inv
<1>2. acc \in Seq(Names) /\ DOMAIN acc = 1 .. Len(acc) /\ \A k \in DOMAIN acc : acc[k] \in Names
  BY ServerAssumption, ElementOfSeq
<1>3. TargetOf(g) = logins[best]
  BY DEF TargetOf
<1>4. ToSet(acc) = {acc[k] : k \in DOMAIN acc}
  BY DEF ToSet
<1> HIDE DEF acc, best
<1>5. Online(g) = {logins[acc[k]] : k \in DOMAIN acc} \ {NoConn}
  BY <1>4 DEF Online, acc
<1>6. ASSUME NEW n \in Names, logins[n] # NoConn
      PROVE  /\ Cardinality(Owed(logins[n])) = CountPending(n) /\ CountPending(n) \in Nat
             /\ logins[n] \in clients
  <2>1. logins[n] \in clients /\ logins[n] \in Conns
    BY <1>6 DEF Inv, LoginsAreOpen, TypeInv
  <2>2. client[logins[n]] \in ClientType /\ QueuesOK(client[logins[n]])
    BY <2>1, InvFacts DEF ClientOK
  <2> QED
    BY <1>6, <2>1, <2>2, OwedCount, PendingCount DEF Inv, Owed, CountPending
<1>7. \A k \in DOMAIN acc : logins[acc[k]] # NoConn =>
         logins[best] # NoConn /\ ~(CountPending(acc[k]) < CountPending(best))
  BY <1>1 DEF Fewer
<1>8. TargetOf(g) = NoConn <=> Online(g) = {}
  BY <1>1, <1>3, <1>5, <1>7
<1>9. ASSUME TargetOf(g) # NoConn
      PROVE  /\ TargetOf(g) \in Online(g) /\ TargetOf(g) \in clients
             /\ \A e \in Online(g) : Cardinality(Owed(TargetOf(g))) <= Cardinality(Owed(e))
  <2>1. /\ TargetOf(g) \in Online(g) /\ TargetOf(g) \in clients
        /\ Cardinality(Owed(TargetOf(g))) = CountPending(best) /\ CountPending(best) \in Nat
    BY <1>1, <1>3, <1>5, <1>6, <1>9
  <2>2. ASSUME NEW e \in Online(g)
        PROVE  Cardinality(Owed(TargetOf(g))) <= Cardinality(Owed(e))
    <3>1. PICK k \in DOMAIN acc : e = logins[acc[k]] /\ logins[acc[k]] # NoConn
      BY <1>5
    <3>2. Cardinality(Owed(e)) = CountPending(acc[k]) /\ CountPending(acc[k]) \in Nat
      BY <1>2, <1>6, <3>1
    <3>3. ~(CountPending(acc[k]) < CountPending(best))
      BY <1>7, <3>1
    <3> QED
      BY <2>1, <3>2, <3>3
  <2> QED
    BY <2>1, <2>2
<1> QED
  BY <1>8, <1>9

\* What BestClientTaken asks of a step, for one group.
Taken(g) ==
    LET taker == {c \in Conns : ActionsOf(g) \subseteq OwedBy(client'[c])}
    IN IF Online(g) = {} THEN taker = {}
       ELSE \E c \in taker \cap Online(g) :
              \A d \in Online(g) : Cardinality(Owed(c)) <= Cardinality(Owed(d))

\* A group that is enqueued goes to such a Client.
LEMMA EnqueueTakes ==
    ASSUME Inv, NEW g \in Groups, Enqueue(g)
    PROVE  Taken(g)
<1> DEFINE d == TargetOf(g)
<1>1. /\ Idle(g)
      /\ d = NoConn => UNCHANGED client
      /\ d # NoConn => client' = [client EXCEPT ![d] = Enqueued(client[d], g)]
  BY DEF Enqueue, Inv, TypeInv
<1>2. \A x \in Conns : ActionsOf(g) \cap OwedBy(client[x]) = {}
  BY <1>1, IdleFree
<1>3. ActionsOf(g) # {}
  BY GroupFacts
<1>4. /\ d = NoConn <=> Online(g) = {}
      /\ d # NoConn =>
           /\ d \in Online(g) /\ d \in clients
           /\ \A e \in Online(g) : Cardinality(Owed(d)) <= Cardinality(Owed(e))
  BY TargetIsBest
<1> HIDE DEF d
<1>5. CASE d = NoConn
  BY <1>1, <1>2, <1>3, <1>4, <1>5 DEF Taken
<1>6. CASE d # NoConn
  <2>1. d \in Conns /\ client \in [Conns -> ClientType] /\ ClientOK(client[d])
    BY <1>4, <1>6, InvFacts DEF Inv, TypeInv
  <2>2. OwedBy(Enqueued(client[d], g)) = OwedBy(client[d]) \cup ActionsOf(g)
    BY <1>2, <2>1, EnqueuedFacts
  <2>3. ActionsOf(g) \subseteq OwedBy(client'[d])
    BY <1>1, <1>6, <2>1, <2>2
  <2> QED
    BY <1>4, <1>6, <2>1, <2>3 DEF Taken
<1> QED
  BY <1>5, <1>6

\* So does a group that a continuation enqueues.
LEMMA AnsweredTakes ==
    ASSUME Inv, NEW c \in Conns, NEW g \in Groups, Answered(c, g)
    PROVE  Taken(g)
<1> DEFINE d == TargetOf(g)
           mid == Handed(d, g)
           m == Popped(mid[c])
           first == Head(client[c].responseQueue)
<1>1. g # NoGroup /\ client \in [Conns -> ClientType] /\ clients \subseteq Conns /\ NoConn \notin Conns
  BY ServerAssumption DEF Inv, TypeInv
<1>2. /\ d \in clients \cup {NoConn} /\ Idle(g)
      /\ c \in clients /\ client[c].responseQueue # <<>>
      /\ mid[c] \in ClientType /\ ClientOK(mid[c]) /\ mid[c].responseQueue # <<>>
      /\ Head(mid[c].responseQueue) = first
      /\ client' = [mid EXCEPT ![c] = m]
  BY <1>1, AnsweredFacts
<1> HIDE DEF d
<1>3. /\ mid \in [Conns -> ClientType]
      /\ \A x \in Conns : /\ ClientOK(mid[x]) /\ mid[x].login = client[x].login
                          /\ Extends(client[x], mid[x])
                          /\ OwedBy(mid[x]) = OwedBy(client[x]) \cup
                               IF x = d THEN ActionsOf(g) ELSE {}
      /\ \A x \in Conns \ clients : mid[x] = client[x]
  BY <1>2, HandedFacts
<1>4. m \in ClientType /\ OwedBy(m) = OwedBy(mid[c]) \ {first}
  BY <1>2, PoppedFacts
<1>5. \A x \in Conns : ActionsOf(g) \cap OwedBy(client[x]) = {}
  BY <1>2, IdleFree
<1>6. ActionsOf(g) # {}
  BY GroupFacts
<1>7. first \in OwedBy(client[c])
  <2>1. client[c].responseQueue \in Seq(Actions) /\ client[c].responseQueue # <<>>
    BY <1>1, <1>2 DEF ClientType
  <2>2. first = client[c].responseQueue[1] /\ 1 \in 1 .. Len(client[c].responseQueue)
    BY <2>1, SequenceStep
  <2>3. ToSet(client[c].responseQueue) =
          {client[c].responseQueue[i] : i \in 1 .. Len(client[c].responseQueue)}
    BY <2>1, SequenceSet
  <2> QED
    BY <2>2, <2>3 DEF OwedBy
<1>8. /\ d = NoConn <=> Online(g) = {}
      /\ d # NoConn =>
           /\ d \in Online(g) /\ d \in clients
           /\ \A e \in Online(g) : Cardinality(Owed(d)) <= Cardinality(Owed(e))
  BY TargetIsBest DEF d
<1> HIDE DEF mid, m, first
<1>9. client'[c] = m /\ \A x \in Conns \ {c} : client'[x] = mid[x]
  BY <1>2, <1>3, <1>4
<1>10. CASE d = NoConn
  <2>1. \A x \in Conns : OwedBy(client'[x]) \subseteq OwedBy(client[x])
    <3>1. \A x \in Conns : OwedBy(mid[x]) = OwedBy(client[x])
      BY <1>1, <1>3, <1>10
    <3> QED
      BY <1>4, <1>9, <3>1
  <2>2. \A x \in Conns : ~(ActionsOf(g) \subseteq OwedBy(client'[x]))
    BY <1>5, <1>6, <2>1
  <2> QED
    BY <1>8, <1>10, <2>2 DEF Taken
<1>11. CASE d # NoConn
  <2>1. d \in Conns
    BY <1>1, <1>8, <1>11
  <2>2. ActionsOf(g) \subseteq OwedBy(mid[d])
    BY <1>3, <2>1
  <2>3. first \notin ActionsOf(g)
    BY <1>1, <1>2, <1>5, <1>7
  <2>4. ActionsOf(g) \subseteq OwedBy(client'[d])
    BY <1>4, <1>9, <2>1, <2>2, <2>3
  <2> QED
    BY <1>8, <1>11, <2>1, <2>4 DEF Taken
<1> QED
  BY <1>10, <1>11

\* Only these two handlers make an action pending that was not asked for.
LEMMA StepTakes ==
    ASSUME Inv, Next, NEW g \in Groups, Idle(g), NEW a \in ActionsOf(g), status'[a] = "pending"
    PROVE  Taken(g)
<1>1. a \in Actions /\ status[a] = "idle"
  BY GroupFacts DEF Idle
<1>2. status' # status
  BY <1>1
<1>3. CASE FailPosted
  BY <1>1, <1>3 DEF FailPosted, Tell
<1>4. ASSUME NEW h \in Groups, Enqueue(h) PROVE Taken(g)
  <2>1. a \in ActionsOf(h)
    BY <1>1, <1>4 DEF Enqueue, Tell
  <2>2. g = h
    BY <2>1, GroupsDisjoint
  <2> QED
    BY <1>4, <2>2, EnqueueTakes
<1>5. ASSUME NEW c \in Conns, Step(c) PROVE Taken(g)
  <2>1. PICK h \in Groups \cup {NoGroup} : Answered(c, h)
    BY <1>2, <1>5 DEF Step, Accept, Login, ConnectionLost, TimedOut, RemoveClient, WriteDone,
                      AnsweredBadly, Receive, Execute, Closed
  <2>2. h # NoGroup /\ a \in ActionsOf(h)
    <3>1. status'[a] = IF a \in {Head(client[c].responseQueue)} THEN "ok"
                       ELSE IF a \in (IF h = NoGroup THEN {} ELSE ActionsOf(h))
                       THEN "pending" ELSE status[a]
      BY <1>1, <2>1 DEF Answered
    <3> QED
      BY <1>1, <3>1
  <2>3. g = h
    BY <2>2, GroupsDisjoint
  <2> QED
    BY <2>1, <2>3, AnsweredTakes
<1> QED
  BY <1>3, <1>4, <1>5 DEF Next

\* A group goes to a connected client that owes least, and to nobody only when
\* none of its clients is connected, also when a continuation hands it over.
THEOREM BestIsTaken == Spec => BestClientTaken
<1>1. Inv /\ [Next]_vars =>
        [\A g \in Groups :
           Idle(g) /\ (\E a \in ActionsOf(g) : status'[a] = "pending") =>
             LET online == {logins[n] : n \in ToSet(Accesses[g])} \ {NoConn}
                 taker == {c \in Conns : ActionsOf(g) \subseteq OwedBy(client'[c])}
             IN IF online = {} THEN taker = {}
                ELSE \E c \in taker \cap online :
                       \A d \in online : Cardinality(Owed(c)) <= Cardinality(Owed(d))]_vars
  <2> SUFFICES ASSUME Inv, Next, NEW g \in Groups, Idle(g),
                      NEW a \in ActionsOf(g), status'[a] = "pending"
               PROVE  Taken(g)
    BY DEF Taken, Online
  <2> QED
    BY StepTakes
<1> QED
  BY InitInv, StepInv, <1>1, PTL DEF Spec, BestClientTaken
-----------------------------------------------------------------------------
(***************************************************************************)
(* CppServer implements RequestService.                                    *)
(*                                                                         *)
(* The pending actions of a group are all in one place, a queue of one     *)
(* Client or one posted handler, so that they fail together; and those     *)
(* that wait for their answers do so in the order of the group.  st is a   *)
(* status, as the Clients also change between two states.                  *)
(***************************************************************************)
\* All in S are pending, and S has all that is pending of their groups.
Whole(S, st) ==
    \A a \in S : st[a] = "pending" /\ \A b \in ActionsOf(a[1]) : st[b] = "pending" => b \in S

\* Before an action is answered, those before it in its group have been.
InTurn(r, st) ==
    \A j \in 1 .. Len(r) : \A n \in 1 .. r[j][2] - 1 :
        st[<<r[j][1], n>>] = "ok" \/ \E m \in 1 .. j - 1 : r[m] = <<r[j][1], n>>

TurnsOK(k, st) ==
    /\ \A a \in QueuedBy(k) : st[a] = "pending"
    /\ Whole(ToSet(k.responseQueue), st) /\ InTurn(k.responseQueue, st)

\* Clients cl and posted handlers po hold all this, and nothing is in two places.
ApartOK(cl, po) ==
    /\ \A c, d \in Conns : c # d => OwedBy(cl[c]) \cap OwedBy(cl[d]) = {}
    /\ \A c \in Conns : \A i \in 1 .. Len(po) : OwedBy(cl[c]) \cap po[i] = {}
    /\ \A i, j \in 1 .. Len(po) : i # j => po[i] \cap po[j] = {}

\* What is pending is somewhere.
Somewhere(a, cl, po) ==
    (\E c \in Conns : a \in OwedBy(cl[c])) \/ (\E i \in 1 .. Len(po) : a \in po[i])

Held(cl, po, st) ==
    /\ \A c \in Conns : TurnsOK(cl[c], st)
    /\ \A i \in 1 .. Len(po) : Whole(po[i], st)
    /\ ApartOK(cl, po)
    /\ \A a \in Actions : st[a] = "pending" => Somewhere(a, cl, po)

RInv == Inv /\ Held(client, posted, status)
-----------------------------------------------------------------------------
(***************************************************************************)
(* Actions and groups.                                                     *)
(***************************************************************************)
LEMMA ActionParts ==
    ASSUME NEW a \in Actions
    PROVE  /\ a[1] \in Groups /\ a[2] \in 1 .. Size[a[1]] /\ a = <<a[1], a[2]>>
           /\ a \in ActionsOf(a[1]) /\ Size[a[1]] \in Nat \ {0}
           /\ \A g : a \in ActionsOf(g) => g = a[1]
<1>1. PICK g \in Groups : a \in ActionsOf(g)
  BY DEF Actions
<1>2. a \in {g} \X (1 .. Size[g])
  BY <1>1 DEF ActionsOf
<1>3. a[1] = g /\ a[2] \in 1 .. Size[g] /\ a = <<a[1], a[2]>>
  BY <1>2
<1>4. \A h : a \in ActionsOf(h) => h = a[1]
  BY <1>1, <1>3, GroupsDisjoint
<1>5. Size[g] \in Nat \ {0}
  BY ServerAssumption
<1> QED
  BY <1>1, <1>3, <1>4, <1>5

\* Two actions of one group.
LEMMA SameGroup ==
    ASSUME NEW a \in Actions, NEW b \in ActionsOf(a[1])
    PROVE  b \in Actions /\ b[1] = a[1]
<1>1. a[1] \in Groups
  BY ActionParts
<1>2. b \in Actions
  BY <1>1, GroupFacts
<1> QED
  BY <1>2, ActionParts

\* A Client owes what its two queues hold, and never the same in both.
LEMMA OwedParts ==
    ASSUME NEW k \in ClientType
    PROVE  /\ OwedBy(k) = QueuedBy(k) \cup ToSet(k.responseQueue)
           /\ OwedBy(k) \subseteq Actions
           /\ \A a \in QueuedBy(k) : ActionsOf(a[1]) \subseteq QueuedBy(k)
           /\ QueuesOK(k) => QueuedBy(k) \cap ToSet(k.responseQueue) = {}
<1>1. OwedBy(k) = QueuedBy(k) \cup ToSet(k.responseQueue) /\ OwedBy(k) \subseteq Actions
  BY OwedType DEF OwedBy
<1>2. /\ QueuedBy(k) = UNION {ActionsOf(k.sendQueue[i]) : i \in 1 .. Len(k.sendQueue)}
      /\ ToSet(k.responseQueue) = {k.responseQueue[i] : i \in 1 .. Len(k.responseQueue)}
  BY QueuedByIndex
<1>3. ASSUME NEW a \in QueuedBy(k) PROVE ActionsOf(a[1]) \subseteq QueuedBy(k)
  <2>1. PICK i \in 1 .. Len(k.sendQueue) : a \in ActionsOf(k.sendQueue[i])
    BY <1>2
  <2>2. k.sendQueue[i] = a[1]
    BY <1>1, <2>1, ActionParts
  <2> QED
    BY <1>2, <2>2
<1>4. ASSUME QueuesOK(k) PROVE QueuedBy(k) \cap ToSet(k.responseQueue) = {}
  BY <1>2, <1>4 DEF QueuesOK
<1> QED
  BY <1>1, <1>3, <1>4
-----------------------------------------------------------------------------
(***************************************************************************)
(* The queues of one Client.                                               *)
(***************************************************************************)
\* What the status of others does, does not matter to a Client.
LEMMA TurnsKept ==
    ASSUME NEW k \in ClientType, NEW st, NEW tt, TurnsOK(k, st),
           \A a \in OwedBy(k) : tt[a] = "pending",
           \A a \in Actions : st[a] = "ok" => tt[a] = "ok",
           \A a \in OwedBy(k) : \A b \in ActionsOf(a[1]) : tt[b] = "pending" => st[b] = "pending"
    PROVE  TurnsOK(k, tt)
<1> DEFINE r == k.responseQueue
<1>1. r \in Seq(Actions)
  BY DEF ClientType
<1>2. OwedBy(k) = QueuedBy(k) \cup ToSet(r) /\ OwedBy(k) \subseteq Actions
  BY OwedParts
<1>3. Whole(ToSet(r), st) /\ InTurn(r, st)
  BY DEF TurnsOK
<1> HIDE DEF r
<1>4. Whole(ToSet(r), tt)
  BY <1>2, <1>3 DEF Whole
<1>5. InTurn(r, tt)
  <2> SUFFICES ASSUME NEW j \in 1 .. Len(r), NEW n \in 1 .. r[j][2] - 1
               PROVE  tt[<<r[j][1], n>>] = "ok" \/ \E m \in 1 .. j - 1 : r[m] = <<r[j][1], n>>
    BY DEF InTurn
  <2>1. r[j] \in Actions
    BY <1>1, ElementOfSeq
  <2>2. r[j][1] \in Groups /\ r[j][2] \in 1 .. Size[r[j][1]] /\ Size[r[j][1]] \in Nat \ {0}
    BY <2>1, ActionParts
  <2>3. <<r[j][1], n>> \in ActionsOf(r[j][1])
    BY <2>2 DEF ActionsOf
  <2>4. <<r[j][1], n>> \in Actions
    BY <2>2, <2>3, GroupFacts
  <2>5. st[<<r[j][1], n>>] = "ok" \/ \E m \in 1 .. j - 1 : r[m] = <<r[j][1], n>>
    BY <1>3 DEF InTurn
  <2> QED
    BY <2>4, <2>5
<1> QED
  BY <1>2, <1>4, <1>5 DEF TurnsOK, r

\* What Client::send makes of the queues.
LEMMA SendShape ==
    ASSUME NEW k \in ClientType
    PROVE  /\ ~CanSend(k) => Send(k) = k
           /\ CanSend(k) =>
                LET g == Head(k.sendQueue)
                    s == [i \in 1 .. Size[g] |-> <<g, i>>]
                IN  /\ k.sendQueue # <<>> /\ g \in Groups
                    /\ Send(k).sendQueue = Tail(k.sendQueue)
                    /\ Send(k).responseQueue = k.responseQueue \o s
<1>1. ~CanSend(k) => Send(k) = k
  BY DEF Send
<1>2. ASSUME CanSend(k)
      PROVE  LET g == Head(k.sendQueue)
                 s == [i \in 1 .. Size[g] |-> <<g, i>>]
             IN  /\ k.sendQueue # <<>> /\ g \in Groups
                 /\ Send(k).sendQueue = Tail(k.sendQueue)
                 /\ Send(k).responseQueue = k.responseQueue \o s
  <2> DEFINE g == Head(k.sendQueue)
             s == [i \in 1 .. Size[g] |-> <<g, i>>]
             w == [k EXCEPT !.isSending = TRUE, !.packet = s,
                            !.responseQueue = @ \o s,
                            !.sendQueueTotal = Deducted(k, s),
                            !.sendQueue = Tail(@)]
  <2>1. k.sendQueue # <<>> /\ k.sendQueue \in Seq(Groups)
    BY <1>2 DEF CanSend, ClientType
  <2>2. g \in Groups
    BY <2>1, SequenceStep
  <2>3. Send(k) = UpdateTimer(w)
    BY <1>2 DEF Send
  <2>4. w.sendQueue = Tail(k.sendQueue) /\ w.responseQueue = k.responseQueue \o s
    BY DEF ClientType
  <2>5. w = [w EXCEPT !.responseTimer = w.responseTimer] /\ "responseTimer" \in DOMAIN w
    BY DEF ClientType
  <2>6. /\ UpdateTimer(w).sendQueue = w.sendQueue
        /\ UpdateTimer(w).responseQueue = w.responseQueue
    <3>1. /\ DOMAIN w = DOMAIN k
          /\ {"sendQueue", "responseQueue", "responseTimer"} \subseteq DOMAIN k
      BY DEF ClientType
    <3> HIDE DEF w
    <3> QED
      BY <3>1 DEF UpdateTimer
  <2> HIDE DEF s, w
  <2> QED
    BY <2>1, <2>2, <2>3, <2>4, <2>6 DEF s
<1> QED
  BY <1>1, <1>2

\* A whole group at the end of the queue of answers.
LEMMA TurnsAppended ==
    ASSUME NEW st, NEW r \in Seq(Actions), InTurn(r, st), NEW g \in Groups
    PROVE  InTurn(r \o [i \in 1 .. Size[g] |-> <<g, i>>], st)
<1> DEFINE s == [i \in 1 .. Size[g] |-> <<g, i>>]
           t == r \o s
<1>1. s \in Seq(Actions) /\ Len(s) = Size[g] /\ \A i \in 1 .. Len(s) : s[i] = <<g, i>>
  BY GroupSequence
<1> HIDE DEF s
<1>2. /\ t \in Seq(Actions) /\ Len(t) = Len(r) + Len(s) /\ Len(r) \in Nat /\ Len(s) \in Nat
      /\ \A i \in 1 .. Len(r) : t[i] = r[i]
      /\ \A i \in 1 .. Len(s) : t[Len(r) + i] = s[i]
  <2>1. /\ t \in Seq(Actions) /\ Len(t) = Len(r) + Len(s)
        /\ \A i \in 1 .. Len(r) + Len(s) : t[i] = IF i <= Len(r) THEN r[i] ELSE s[i - Len(r)]
    BY <1>1, ConcatProperties
  <2>2. Len(r) \in Nat /\ Len(s) \in Nat
    BY <1>1
  <2> HIDE DEF t
  <2>3. \A i \in 1 .. Len(r) : i \in 1 .. Len(r) + Len(s) /\ i <= Len(r)
    BY <2>2
  <2>4. \A i \in 1 .. Len(s) : /\ Len(r) + i \in 1 .. Len(r) + Len(s)
                              /\ ~(Len(r) + i <= Len(r)) /\ (Len(r) + i) - Len(r) = i
    BY <2>2
  <2> QED
    BY <2>1, <2>2, <2>3, <2>4
<1> HIDE DEF t
<1> SUFFICES ASSUME NEW j \in 1 .. Len(t), NEW n \in 1 .. t[j][2] - 1
             PROVE  st[<<t[j][1], n>>] = "ok" \/ \E m \in 1 .. j - 1 : t[m] = <<t[j][1], n>>
  BY DEF InTurn, s, t
<1>3. CASE j \in 1 .. Len(r)
  <2>1. t[j] = r[j] /\ \A m \in 1 .. j - 1 : m \in 1 .. Len(r)
    BY <1>2, <1>3
  <2>2. st[<<r[j][1], n>>] = "ok" \/ \E m \in 1 .. j - 1 : r[m] = <<r[j][1], n>>
    BY <1>3, <2>1 DEF InTurn
  <2> QED
    BY <1>2, <2>1, <2>2
<1>4. CASE j \notin 1 .. Len(r)
  <2> DEFINE i == j - Len(r)
  <2>1. i \in 1 .. Len(s) /\ j = Len(r) + i
    BY <1>2, <1>4
  <2>2. t[j] = <<g, i>>
    BY <1>1, <1>2, <2>1
  <2>3. n \in 1 .. i - 1 /\ t[j][1] = g
    BY <2>2
  <2>4. n \in 1 .. Len(s) /\ Len(r) + n \in 1 .. j - 1
    BY <1>2, <2>1, <2>3
  <2>5. t[Len(r) + n] = <<g, n>>
    BY <1>1, <1>2, <2>4
  <2> QED
    BY <2>3, <2>4, <2>5
<1> QED
  BY <1>3, <1>4

\* Client::send keeps the actions of a Client in turn.
LEMMA SendTurns ==
    ASSUME NEW k \in ClientType, NEW st, TurnsOK(k, st)
    PROVE  TurnsOK(Send(k), st)
<1>1. CASE ~CanSend(k)
  BY <1>1, SendShape
<1>2. CASE CanSend(k)
  <2> DEFINE g == Head(k.sendQueue)
             s == [i \in 1 .. Size[g] |-> <<g, i>>]
             q == k.sendQueue
             r == k.responseQueue
             m == Send(k)
  <2>1. q # <<>> /\ g \in Groups /\ m.sendQueue = Tail(q) /\ m.responseQueue = r \o s
    BY <1>2, SendShape
  <2>2. q \in Seq(Groups) /\ r \in Seq(Actions)
    BY DEF ClientType
  <2>3. s \in Seq(Actions) /\ ToSet(s) = ActionsOf(g)
    BY <2>1, GroupSequence
  <2>4. /\ Len(q) \in Nat \ {0} /\ Len(Tail(q)) = Len(q) - 1 /\ q[1] = g /\ Tail(q) \in Seq(Groups)
        /\ \A i \in 1 .. Len(q) - 1 : Tail(q)[i] = q[i + 1]
    BY <2>1, <2>2, SequenceStep
  <2>5. QueuedBy(k) = UNION {ActionsOf(q[i]) : i \in 1 .. Len(q)}
    BY QueuedByIndex
  <2>6. QueuedBy(m) = UNION {ActionsOf(Tail(q)[i]) : i \in 1 .. Len(Tail(q))}
    <3>1. DOMAIN Tail(q) = 1 .. Len(Tail(q))
      BY <2>4
    <3> QED
      BY <2>1, <3>1 DEF QueuedBy
  <2>7. \A a \in QueuedBy(k) : st[a] = "pending"
    BY DEF TurnsOK
  <2>8. Whole(ToSet(r), st) /\ InTurn(r, st)
    BY DEF TurnsOK
  <2>9. InTurn(r \o s, st)
    BY <2>1, <2>2, <2>8, TurnsAppended
  <2> HIDE DEF g, s, q, r, m
  <2>10. ToSet(r \o s) = ToSet(r) \cup ActionsOf(g)
    <3>1. ToSet(r \o s) = ToSet(r) \cup ToSet(s)
      BY <2>2, <2>3, SequenceSet
    <3> QED
      BY <2>3, <3>1
  <2>11. ActionsOf(g) \subseteq QueuedBy(k)
    <3>1. 1 \in 1 .. Len(q)
      BY <2>4
    <3> QED
      BY <2>4, <2>5, <3>1
  <2>12. QueuedBy(m) \subseteq QueuedBy(k)
    <3> SUFFICES ASSUME NEW i \in 1 .. Len(Tail(q)) PROVE ActionsOf(Tail(q)[i]) \subseteq QueuedBy(k)
      BY <2>6
    <3>1. i + 1 \in 1 .. Len(q) /\ Tail(q)[i] = q[i + 1]
      BY <2>4
    <3> QED
      BY <2>5, <3>1
  <2>13. Whole(ToSet(r \o s), st)
    <3> SUFFICES ASSUME NEW a \in ToSet(r) \cup ActionsOf(g)
                 PROVE  /\ st[a] = "pending"
                        /\ \A b \in ActionsOf(a[1]) :
                              st[b] = "pending" => b \in ToSet(r) \cup ActionsOf(g)
      BY <2>10 DEF Whole
    <3>1. CASE a \in ToSet(r)
      BY <2>8, <3>1 DEF Whole
    <3>2. CASE a \in ActionsOf(g)
      <4>1. a \in Actions /\ a[1] = g
        BY <2>1, <3>2, GroupFacts, ActionParts
      <4> QED
        BY <2>7, <2>11, <3>2, <4>1
    <3> QED
      BY <3>1, <3>2
  <2> QED
    BY <2>1, <2>7, <2>9, <2>12, <2>13 DEF TurnsOK, m
<1> QED
  BY <1>1, <1>2

\* So does a new group, which joins the end.
LEMMA EnqueuedTurns ==
    ASSUME NEW k \in ClientType, ClientOK(k), NEW st, TurnsOK(k, st), NEW g \in Groups,
           ActionsOf(g) \cap OwedBy(k) = {}, \A a \in ActionsOf(g) : st[a] = "pending"
    PROVE  TurnsOK(Enqueued(k, g), st)
<1> DEFINE m == [k EXCEPT !.sendQueueTotal = @ + Size[g], !.sendQueue = Append(@, g)]
<1>1. m \in ClientType /\ QueuesOK(m) /\ OwedBy(m) = OwedBy(k) \cup ActionsOf(g)
  BY QueueAppend DEF ClientOK
<1>2. m.responseQueue = k.responseQueue
  BY DEF ClientType
<1>3. Enqueued(k, g) = Send(m)
  BY DEF Enqueued
<1> HIDE DEF m
<1>4. QueuedBy(m) \subseteq QueuedBy(k) \cup ActionsOf(g)
  <2>1. OwedBy(m) = QueuedBy(m) \cup ToSet(k.responseQueue) /\ QueuedBy(m) \cap ToSet(k.responseQueue) = {}
    BY <1>1, <1>2, OwedParts
  <2>2. OwedBy(k) = QueuedBy(k) \cup ToSet(k.responseQueue)
    BY OwedParts
  <2> QED
    BY <1>1, <2>1, <2>2
<1>5. TurnsOK(m, st)
  BY <1>2, <1>4 DEF TurnsOK
<1> QED
  BY <1>1, <1>3, <1>5, SendTurns

\* So does the callback of a write.
LEMMA WrittenTurns ==
    ASSUME NEW k \in ClientType, NEW st, TurnsOK(k, st)
    PROVE  TurnsOK(Written(k), st)
<1> DEFINE m == [k EXCEPT !.isSending = FALSE]
<1>1. /\ m \in ClientType /\ m.sendQueue = k.sendQueue /\ m.responseQueue = k.responseQueue
  BY DEF ClientType
<1>2. Written(k) = Send(m)
  BY DEF Written
<1> HIDE DEF m
<1>3. TurnsOK(m, st)
  BY <1>1 DEF TurnsOK, QueuedBy
<1> QED
  BY <1>1, <1>2, <1>3, SendTurns

\* The first action that waits is answered.
LEMMA PoppedTurns ==
    ASSUME NEW k \in ClientType, ClientOK(k), k.responseQueue # <<>>, NEW st, NEW tt,
           TurnsOK(k, st), Head(k.responseQueue) \in Actions,
           \A a \in Actions : tt[a] = IF a = Head(k.responseQueue) THEN "ok" ELSE st[a]
    PROVE  TurnsOK(Popped(k), tt)
<1> DEFINE r == k.responseQueue
           first == Head(r)
           m == Popped(k)
<1>1. r \in Seq(Actions) /\ r # <<>>
  BY DEF ClientType
<1>2. /\ first = r[1] /\ Tail(r) \in Seq(Actions) /\ Len(Tail(r)) = Len(r) - 1 /\ Len(r) \in Nat \ {0}
      /\ \A i \in 1 .. Len(r) - 1 : Tail(r)[i] = r[i + 1]
  BY <1>1, SequenceStep
<1>3. /\ \A i, j \in 1 .. Len(r) : r[i] = r[j] => i = j
      /\ QueuesOK(k)
  BY DEF ClientOK, QueuesOK
<1>4. m \in ClientType /\ OwedBy(m) = OwedBy(k) \ {first} /\ m.responseQueue = Tail(r) /\ QueuesOK(m)
  BY PoppedFacts DEF ClientOK
<1>5. /\ OwedBy(k) = QueuedBy(k) \cup ToSet(r) /\ OwedBy(k) \subseteq Actions
      /\ QueuedBy(k) \cap ToSet(r) = {}
  BY <1>3, OwedParts
<1>6. OwedBy(m) = QueuedBy(m) \cup ToSet(Tail(r)) /\ QueuedBy(m) \cap ToSet(Tail(r)) = {}
  BY <1>4, OwedParts
<1>7. /\ \A a \in QueuedBy(k) : st[a] = "pending"
      /\ Whole(ToSet(r), st) /\ InTurn(r, st)
  BY DEF TurnsOK
<1>8. \A a \in Actions : tt[a] = IF a = first THEN "ok" ELSE st[a]
  OBVIOUS
<1> HIDE DEF r, first, m
<1>9. ToSet(Tail(r)) = ToSet(r) \ {first} /\ first \in ToSet(r)
  BY <1>1, <1>3, QueueTail DEF first
<1>10. QueuedBy(m) \subseteq QueuedBy(k) /\ first \notin QueuedBy(m)
  BY <1>4, <1>5, <1>6, <1>9
<1>11. \A a \in QueuedBy(m) : tt[a] = "pending"
  BY <1>5, <1>7, <1>8, <1>10
<1>12. Whole(ToSet(Tail(r)), tt)
  <2> SUFFICES ASSUME NEW a \in ToSet(Tail(r))
               PROVE  tt[a] = "pending" /\ \A b \in ActionsOf(a[1]) : tt[b] = "pending" => b \in ToSet(Tail(r))
    BY DEF Whole
  <2>1. a \in ToSet(r) /\ a # first /\ a \in Actions
    BY <1>5, <1>9
  <2>2. st[a] = "pending" /\ \A b \in ActionsOf(a[1]) : st[b] = "pending" => b \in ToSet(r)
    BY <1>7, <2>1 DEF Whole
  <2>3. \A b \in ActionsOf(a[1]) : b \in Actions
    BY <2>1, SameGroup
  <2> QED
    BY <1>8, <1>9, <2>1, <2>2, <2>3
<1>13. InTurn(Tail(r), tt)
  <2> DEFINE t == Tail(r)
  <2> SUFFICES ASSUME NEW j \in 1 .. Len(t), NEW n \in 1 .. t[j][2] - 1
               PROVE  tt[<<t[j][1], n>>] = "ok" \/ \E i \in 1 .. j - 1 : t[i] = <<t[j][1], n>>
    BY DEF InTurn
  <2>1. j + 1 \in 1 .. Len(r) /\ t[j] = r[j + 1] /\ (j + 1) - 1 = j
    BY <1>2
  <2>2. st[<<t[j][1], n>>] = "ok" \/ \E i \in 1 .. j : r[i] = <<t[j][1], n>>
    <3>1. \A i \in 1 .. r[j + 1][2] - 1 :
             st[<<r[j + 1][1], i>>] = "ok" \/ \E h \in 1 .. (j + 1) - 1 : r[h] = <<r[j + 1][1], i>>
      BY <1>7, <2>1 DEF InTurn
    <3> QED
      BY <2>1, <3>1
  <2>3. t[j] \in Actions
    BY <1>1, <2>1, ElementOfSeq
  <2>4. <<t[j][1], n>> \in Actions
    <3>1. t[j][1] \in Groups /\ t[j][2] \in 1 .. Size[t[j][1]] /\ Size[t[j][1]] \in Nat \ {0}
      BY <2>3, ActionParts
    <3>2. <<t[j][1], n>> \in ActionsOf(t[j][1])
      BY <3>1 DEF ActionsOf
    <3> QED
      BY <3>1, <3>2, GroupFacts
  <2>5. CASE st[<<t[j][1], n>>] = "ok"
    BY <1>8, <2>4, <2>5
  <2>6. ASSUME NEW i \in 1 .. j, r[i] = <<t[j][1], n>>
        PROVE  tt[<<t[j][1], n>>] = "ok" \/ \E h \in 1 .. j - 1 : t[h] = <<t[j][1], n>>
    <3>1. CASE i = 1
      BY <1>2, <1>8, <2>4, <2>6, <3>1
    <3>2. CASE i # 1
      <4>1. i - 1 \in 1 .. j - 1 /\ i - 1 \in 1 .. Len(r) - 1 /\ (i - 1) + 1 = i
        BY <1>2, <2>1, <3>2
      <4>2. t[i - 1] = r[i]
        BY <1>2, <4>1
      <4> QED
        BY <2>6, <4>1, <4>2
    <3> QED
      BY <3>1, <3>2
  <2> QED
    BY <2>2, <2>5, <2>6
<1> QED
  BY <1>4, <1>11, <1>12, <1>13 DEF TurnsOK, m

\* The handlers of a Client that is destroyed.
LEMMA DestroyedTurns ==
    ASSUME NEW k \in ClientType, ClientOK(k), NEW st, TurnsOK(k, st)
    PROVE  LET D == Destroyed(k) IN
           /\ D \in Seq(SUBSET Actions)
           /\ \A i \in 1 .. Len(D) : D[i] \subseteq OwedBy(k) /\ Whole(D[i], st)
           /\ \A i, j \in 1 .. Len(D) : i # j => D[i] \cap D[j] = {}
           /\ \A a \in OwedBy(k) : \E i \in 1 .. Len(D) : a \in D[i]
<1> DEFINE Q == QueuedBy(k)
           R == ToSet(k.responseQueue)
           D == Destroyed(k)
<1>1. /\ OwedBy(k) = Q \cup R /\ Q \cap R = {}
      /\ \A a \in Q : ActionsOf(a[1]) \subseteq Q
  BY OwedParts DEF ClientOK
<1>2. Whole(Q, st) /\ Whole(R, st)
  BY <1>1 DEF TurnsOK, Whole
<1>3. D \in Seq(SUBSET Actions)
  BY DestroyedFacts
<1> DEFINE X == IF k.sendQueue = <<>> THEN <<>> ELSE <<Q>>
           Y == IF k.responseQueue = <<>> THEN <<>> ELSE <<R>>
<1>4. /\ X \in Seq(SUBSET Actions) /\ (Len(X) = 0 \/ (Len(X) = 1 /\ X[1] = Q))
      /\ Y \in Seq(SUBSET Actions) /\ (Len(Y) = 0 \/ (Len(Y) = 1 /\ Y[1] = R))
  <2>1. Q \in SUBSET Actions /\ R \in SUBSET Actions
    BY <1>1, OwedParts
  <2>2. <<>> \in Seq(SUBSET Actions) /\ Len(<<>>) = 0
    BY EmptySeq
  <2>3. \A S \in SUBSET Actions : <<S>> \in Seq(SUBSET Actions) /\ Len(<<S>>) = 1 /\ <<S>>[1] = S
    OBVIOUS
  <2> HIDE DEF Q, R
  <2>4. /\ <<Q>> \in Seq(SUBSET Actions) /\ Len(<<Q>>) = 1 /\ <<Q>>[1] = Q
        /\ <<R>> \in Seq(SUBSET Actions) /\ Len(<<R>>) = 1 /\ <<R>>[1] = R
    BY <2>1, <2>3
  <2>5. (X = <<>> \/ X = <<Q>>) /\ (Y = <<>> \/ Y = <<R>>)
    OBVIOUS
  <2> HIDE DEF X, Y
  <2> QED
    BY <2>2, <2>4, <2>5
<1>5. (Q # {} => Len(X) = 1) /\ (R # {} => Len(Y) = 1)
  <2>1. k.sendQueue = <<>> => Q = {}
    BY DEF QueuedBy
  <2>2. k.responseQueue = <<>> => R = {}
    BY QueuedByIndex
  <2>3. Len(<<Q>>) = 1 /\ Len(<<R>>) = 1
    OBVIOUS
  <2> HIDE DEF Q, R
  <2> QED
    BY <2>1, <2>2, <2>3
<1>6. D = X \o Y
  BY DEF Destroyed
<1> HIDE DEF Q, R, D, X, Y
<1>7. /\ Len(D) = Len(X) + Len(Y)
      /\ \A i \in 1 .. Len(X) + Len(Y) : D[i] = IF i <= Len(X) THEN X[i] ELSE Y[i - Len(X)]
  BY <1>4, <1>6, ConcatProperties
<1>8. \/ Len(X) = 0 /\ Len(Y) = 0 /\ Len(D) = 0
      \/ Len(X) = 1 /\ Len(Y) = 0 /\ Len(D) = 1 /\ D[1] = Q
      \/ Len(X) = 0 /\ Len(Y) = 1 /\ Len(D) = 1 /\ D[1] = R
      \/ Len(X) = 1 /\ Len(Y) = 1 /\ Len(D) = 2 /\ D[1] = Q /\ D[2] = R
  BY <1>4, <1>7
<1>9. \A i \in 1 .. Len(D) : D[i] = Q \/ D[i] = R
  BY <1>8
<1>10. \A i, j \in 1 .. Len(D) : i # j => (D[i] = Q /\ D[j] = R) \/ (D[i] = R /\ D[j] = Q)
  BY <1>8
<1>11. \A a \in OwedBy(k) : \E i \in 1 .. Len(D) : a \in D[i]
  <2>1. Q # {} => \E i \in 1 .. Len(D) : D[i] = Q
    BY <1>5, <1>8
  <2>2. R # {} => \E i \in 1 .. Len(D) : D[i] = R
    BY <1>5, <1>8
  <2> QED
    BY <1>1, <2>1, <2>2
<1> QED
  BY <1>1, <1>2, <1>3, <1>9, <1>10, <1>11 DEF D
-----------------------------------------------------------------------------
(***************************************************************************)
(* All Clients and posted handlers.                                        *)
(***************************************************************************)
LEMMA RInvFacts ==
    ASSUME RInv
    PROVE  /\ client \in [Conns -> ClientType] /\ posted \in Seq(SUBSET Actions)
           /\ status \in [Actions -> {"idle", "pending", "ok", "failed"}]
           /\ clients \subseteq Conns /\ NoConn \notin Conns
           /\ \A c \in Conns : /\ client[c] \in ClientType /\ ClientOK(client[c])
                               /\ TurnsOK(client[c], status)
                               /\ OwedBy(client[c]) \subseteq Actions
           /\ \A i \in 1 .. Len(posted) : posted[i] \subseteq Actions /\ Whole(posted[i], status)
           /\ ApartOK(client, posted)
           /\ \A a \in Actions : status[a] = "pending" => Somewhere(a, client, posted)
<1>1. /\ client \in [Conns -> ClientType] /\ posted \in Seq(SUBSET Actions)
      /\ status \in [Actions -> {"idle", "pending", "ok", "failed"}]
      /\ clients \subseteq Conns /\ NoConn \notin Conns
  BY ServerAssumption DEF RInv, Inv, TypeInv
<1>2. \A c \in Conns : client[c] \in ClientType /\ ClientOK(client[c])
  BY InvFacts DEF RInv
<1>3. \A i \in 1 .. Len(posted) : posted[i] \in SUBSET Actions
  BY <1>1, ElementOfSeq
<1> QED
  BY <1>1, <1>2, <1>3, OwedParts DEF RInv, Held

\* Nothing moves between the places.
LEMMA HeldKept ==
    ASSUME RInv, UNCHANGED <<posted, status>>,
           \A x \in Conns : OwedBy(client'[x]) = OwedBy(client[x]) /\ TurnsOK(client'[x], status)
    PROVE  Held(client, posted, status)'
BY RInvFacts DEF Held, ApartOK, Somewhere

\* Two Clients with the same queues.
LEMMA SameQueues ==
    ASSUME NEW k, NEW m, NEW st, TurnsOK(k, st),
           m.sendQueue = k.sendQueue, m.responseQueue = k.responseQueue
    PROVE  TurnsOK(m, st) /\ OwedBy(m) = OwedBy(k)
BY DEF TurnsOK, QueuedBy, OwedBy

\* A Client is destroyed, and what it owed is posted.
LEMMA RemovedHeld ==
    ASSUME RInv, NEW d \in Conns, posted' = posted \o Destroyed(client[d]), status' = status,
           client'[d] = NewClient,
           \A x \in Conns \ {d} : /\ client'[x].sendQueue = client[x].sendQueue
                                  /\ client'[x].responseQueue = client[x].responseQueue
    PROVE  Held(client, posted, status)'
<1> DEFINE k == client[d]
           D == Destroyed(k)
           P == posted \o D
<1>1. k \in ClientType /\ ClientOK(k) /\ TurnsOK(k, status)
  BY RInvFacts
<1>2. /\ D \in Seq(SUBSET Actions)
      /\ \A i \in 1 .. Len(D) : D[i] \subseteq OwedBy(k) /\ Whole(D[i], status)
      /\ \A i, j \in 1 .. Len(D) : i # j => D[i] \cap D[j] = {}
      /\ \A a \in OwedBy(k) : \E i \in 1 .. Len(D) : a \in D[i]
  BY <1>1, DestroyedTurns
<1>3. posted \in Seq(SUBSET Actions)
  BY RInvFacts
<1>4. /\ OwedBy(NewClient) = {} /\ TurnsOK(NewClient, status)
  <2>1. OwedBy(NewClient) = {} /\ NewClient.responseQueue = <<>> /\ NewClient \in ClientType
    BY NewClientFacts DEF NewClient
  <2>2. QueuedBy(NewClient) = {} /\ ToSet(NewClient.responseQueue) = {}
    BY <2>1, OwedParts
  <2>3. InTurn(<<>>, status)
    BY DEF InTurn
  <2> QED
    BY <2>1, <2>2, <2>3 DEF TurnsOK, Whole
<1>5. \A x \in Conns : TurnsOK(client'[x], status) /\ OwedBy(client'[x]) = IF x = d THEN {} ELSE OwedBy(client[x])
  BY <1>4, RInvFacts, SameQueues
<1>6. posted' = P
  OBVIOUS
<1> HIDE DEF k, D
<1>7. /\ P \in Seq(SUBSET Actions) /\ Len(P) = Len(posted) + Len(D)
      /\ \A i \in 1 .. Len(posted) + Len(D) :
            P[i] = IF i <= Len(posted) THEN posted[i] ELSE D[i - Len(posted)]
  BY <1>2, <1>3, ConcatProperties
<1>8. Len(posted) \in Nat /\ Len(D) \in Nat
  BY <1>2, <1>3
<1> HIDE DEF P
<1> DEFINE Old(i) == i \in 1 .. Len(posted) /\ P[i] = posted[i]
           New(i) == i - Len(posted) \in 1 .. Len(D) /\ P[i] = D[i - Len(posted)]
<1>9. \A i \in 1 .. Len(P) : i \in Int /\ (Old(i) \/ New(i))
  BY <1>7, <1>8
<1>10. /\ \A c, e \in Conns : c # e => OwedBy(client[c]) \cap OwedBy(client[e]) = {}
       /\ \A c \in Conns : \A i \in 1 .. Len(posted) : OwedBy(client[c]) \cap posted[i] = {}
       /\ \A i, j \in 1 .. Len(posted) : i # j => posted[i] \cap posted[j] = {}
  BY RInvFacts DEF ApartOK
<1>11. \A i \in 1 .. Len(P) : Whole(P[i], status)
  BY <1>2, <1>9, RInvFacts
<1>12. ASSUME NEW c \in Conns, NEW i \in 1 .. Len(P) PROVE OwedBy(client'[c]) \cap P[i] = {}
  <2>1. CASE Old(i)
    BY <1>5, <1>10, <2>1
  <2>2. CASE New(i)
    BY <1>2, <1>5, <1>10, <2>2 DEF k
  <2> QED
    BY <1>9, <2>1, <2>2
<1>13. ASSUME NEW i \in 1 .. Len(P), NEW j \in 1 .. Len(P), i # j PROVE P[i] \cap P[j] = {}
  <2>1. CASE Old(i) /\ Old(j)
    BY <1>10, <1>13, <2>1
  <2>2. CASE Old(i) /\ New(j)
    BY <1>2, <1>10, <2>2 DEF k
  <2>3. CASE New(i) /\ Old(j)
    BY <1>2, <1>10, <2>3 DEF k
  <2>4. CASE New(i) /\ New(j)
    <3>1. i - Len(posted) # j - Len(posted)
      BY <1>8, <1>9, <1>13
    <3> QED
      BY <1>2, <2>4, <3>1
  <2> QED
    BY <1>9, <2>1, <2>2, <2>3, <2>4
<1>14. \A c, e \in Conns : c # e => OwedBy(client'[c]) \cap OwedBy(client'[e]) = {}
  BY <1>5, <1>10
<1>15. ASSUME NEW a \in Actions, status[a] = "pending" PROVE Somewhere(a, client', P)
  <2>1. \A i \in 1 .. Len(posted) : i \in 1 .. Len(P) /\ P[i] = posted[i]
    BY <1>7, <1>8
  <2>2. \A i \in 1 .. Len(D) : Len(posted) + i \in 1 .. Len(P) /\ P[Len(posted) + i] = D[i]
    BY <1>7, <1>8
  <2>3. Somewhere(a, client, posted)
    BY <1>15, RInvFacts
  <2>4. CASE \E i \in 1 .. Len(posted) : a \in posted[i]
    BY <2>1, <2>4 DEF Somewhere
  <2>5. CASE a \in OwedBy(k)
    BY <1>2, <2>2, <2>5 DEF Somewhere
  <2>6. CASE \E c \in Conns \ {d} : a \in OwedBy(client[c])
    BY <1>5, <2>6 DEF Somewhere
  <2> QED
    BY <2>3, <2>4, <2>5, <2>6 DEF Somewhere, k
<1> QED
  BY <1>5, <1>6, <1>11, <1>12, <1>13, <1>14, <1>15 DEF Held, ApartOK

\* A posted handler fails its actions.
LEMMA FailedHeld ==
    ASSUME RInv, FailPosted
    PROVE  Held(client, posted, status)'
<1> DEFINE H == Head(posted)
<1>1. /\ posted # <<>> /\ posted' = Tail(posted) /\ client' = client
      /\ status' = [a \in Actions |-> IF a \in H THEN "failed" ELSE status[a]]
  BY DEF FailPosted, Tell
<1>2. posted \in Seq(SUBSET Actions)
  BY RInvFacts
<1>3. /\ H = posted[1] /\ Len(posted') = Len(posted) - 1 /\ Len(posted) \in Nat \ {0}
      /\ \A i \in 1 .. Len(posted) - 1 : posted'[i] = posted[i + 1]
  BY <1>1, <1>2, SequenceStep
<1>4. /\ \A c, e \in Conns : c # e => OwedBy(client[c]) \cap OwedBy(client[e]) = {}
      /\ \A c \in Conns : \A i \in 1 .. Len(posted) : OwedBy(client[c]) \cap posted[i] = {}
      /\ \A i, j \in 1 .. Len(posted) : i # j => posted[i] \cap posted[j] = {}
  BY RInvFacts DEF ApartOK
<1> HIDE DEF H
<1>5. 1 \in 1 .. Len(posted) /\ \A i \in 1 .. Len(posted') : i + 1 \in 1 .. Len(posted) /\ i + 1 # 1
                                                            /\ posted'[i] = posted[i + 1]
  BY <1>3
<1>6. ASSUME NEW S \in SUBSET Actions, S \cap H = {}, Whole(S, status) PROVE Whole(S, status')
  <2> SUFFICES ASSUME NEW a \in S
               PROVE  status'[a] = "pending" /\ \A b \in ActionsOf(a[1]) : status'[b] = "pending" => b \in S
    BY DEF Whole
  <2>1. \A b \in ActionsOf(a[1]) : b \in Actions
    BY SameGroup
  <2>2. a \in Actions /\ a \notin H
    BY <1>6
  <2>3. status[a] = "pending" /\ \A b \in ActionsOf(a[1]) : status[b] = "pending" => b \in S
    BY <1>6 DEF Whole
  <2>4. \A b \in Actions : status'[b] = IF b \in H THEN "failed" ELSE status[b]
    BY <1>1
  <2> QED
    BY <2>1, <2>2, <2>3, <2>4
<1>7. ASSUME NEW i \in 1 .. Len(posted') PROVE Whole(posted'[i], status')
  <2>1. posted[i + 1] \in SUBSET Actions /\ posted[i + 1] \cap H = {} /\ Whole(posted[i + 1], status)
    BY <1>3, <1>4, <1>5, RInvFacts
  <2> QED
    BY <1>5, <1>6, <2>1
<1>8. ASSUME NEW c \in Conns PROVE TurnsOK(client[c], status')
  <2>1. /\ client[c] \in ClientType /\ TurnsOK(client[c], status)
        /\ OwedBy(client[c]) \subseteq Actions /\ OwedBy(client[c]) \cap H = {}
    BY <1>3, <1>4, <1>5, RInvFacts
  <2>2. \A b \in Actions : status'[b] = IF b \in H THEN "failed" ELSE status[b]
    BY <1>1
  <2>3. OwedBy(client[c]) = QueuedBy(client[c]) \cup ToSet(client[c].responseQueue)
    BY <2>1, OwedParts
  <2>4. \A a \in OwedBy(client[c]) : status[a] = "pending"
    BY <2>1, <2>3 DEF TurnsOK, Whole
  <2>5. \A a \in OwedBy(client[c]) : status'[a] = "pending"
    BY <2>1, <2>2, <2>4
  <2>6. \A i \in 1 .. Len(posted) : Whole(posted[i], status)
    BY RInvFacts
  <2>7. \A a \in H : status[a] = "pending"
    BY <1>3, <1>5, <2>6 DEF Whole
  <2>8. \A a \in Actions : status[a] = "ok" => status'[a] = "ok"
    BY <2>2, <2>7
  <2>9. \A a \in OwedBy(client[c]) : \A b \in ActionsOf(a[1]) :
           status'[b] = "pending" => status[b] = "pending"
    BY <2>1, <2>2, SameGroup
  <2> QED
    BY <2>1, <2>5, <2>8, <2>9, TurnsKept
<1>9. \A i, j \in 1 .. Len(posted') : i # j => posted'[i] \cap posted'[j] = {}
  <2> SUFFICES ASSUME NEW i \in 1 .. Len(posted'), NEW j \in 1 .. Len(posted'), i # j
               PROVE  posted'[i] \cap posted'[j] = {}
    OBVIOUS
  <2>1. i + 1 # j + 1
    BY <1>3
  <2> QED
    BY <1>4, <1>5, <2>1
<1>10. \A c \in Conns : \A i \in 1 .. Len(posted') : OwedBy(client[c]) \cap posted'[i] = {}
  BY <1>4, <1>5
<1>11. ASSUME NEW a \in Actions, status'[a] = "pending" PROVE Somewhere(a, client, posted')
  <2>1. a \notin H /\ status[a] = "pending"
    BY <1>1, <1>11
  <2>2. Somewhere(a, client, posted)
    BY <2>1, RInvFacts
  <2>3. ASSUME NEW i \in 1 .. Len(posted), a \in posted[i] PROVE Somewhere(a, client, posted')
    <3>1. i # 1
      BY <1>3, <2>1, <2>3
    <3>2. i - 1 \in 1 .. Len(posted') /\ posted'[i - 1] = posted[i]
      BY <1>3, <3>1
    <3> QED
      BY <2>3, <3>2 DEF Somewhere
  <2> QED
    BY <2>2, <2>3 DEF Somewhere
<1> QED
  BY <1>1, <1>4, <1>7, <1>8, <1>9, <1>10, <1>11 DEF Held, ApartOK

\* A group becomes pending at Client d, or is refused and posted.
LEMMA GroupHeld ==
    ASSUME RInv, NEW d \in clients \cup {NoConn}, NEW g \in Groups, Idle(g), NEW st, NEW po,
           \A a \in Actions : st[a] = IF a \in ActionsOf(g) THEN "pending" ELSE status[a],
           po = IF d = NoConn THEN Append(posted, ActionsOf(g)) ELSE posted
    PROVE  Held(Handed(d, g), po, st) /\ po \in Seq(SUBSET Actions)
<1> DEFINE A == ActionsOf(g)
           mid == Handed(d, g)
<1>1. A \in SUBSET Actions /\ \A a \in A : a[1] = g /\ status[a] = "idle"
  BY GroupFacts, ActionParts DEF Idle
<1>2. /\ \A a \in Actions : st[a] = IF a \in A THEN "pending" ELSE status[a]
      /\ po = IF d = NoConn THEN Append(posted, A) ELSE posted
  OBVIOUS
<1>3. Inv /\ NoConn \notin Conns /\ clients \subseteq Conns
  BY RInvFacts DEF RInv
<1>4. /\ mid \in [Conns -> ClientType]
      /\ \A x \in Conns : OwedBy(mid[x]) = OwedBy(client[x]) \cup IF x = d THEN A ELSE {}
  <2>1. d # NoConn => g \in Groups /\ Idle(g)
    OBVIOUS
  <2>2. /\ Handed(d, g) \in [Conns -> ClientType]
        /\ \A x \in Conns :
             /\ ClientOK(Handed(d, g)[x]) /\ Handed(d, g)[x].login = client[x].login
             /\ Extends(client[x], Handed(d, g)[x])
             /\ OwedBy(Handed(d, g)[x]) =
                  OwedBy(client[x]) \cup IF x = d THEN ActionsOf(g) ELSE {}
        /\ \A x \in Conns \ clients : Handed(d, g)[x] = client[x]
    BY <1>3, <2>1, HandedFacts, Zenon
  <2> QED
    BY <2>2
<1>5. \A c \in Conns : A \cap OwedBy(client[c]) = {}
  BY <1>3, IdleFree
<1>6. ASSUME NEW a \in Actions, a \notin A PROVE ActionsOf(a[1]) \cap A = {}
  <2> SUFFICES ASSUME NEW b \in ActionsOf(a[1]), b \in A PROVE FALSE
    OBVIOUS
  <2>1. b[1] = a[1] /\ b[1] = g
    BY <1>1, SameGroup
  <2> QED
    BY <1>6, <2>1, ActionParts
<1>7. \A c \in Conns : mid[c] = IF c = d THEN Enqueued(client[d], g) ELSE client[c]
  BY <1>3, RInvFacts DEF Handed
<1> HIDE DEF A, mid
<1>8. ASSUME NEW c \in Conns PROVE TurnsOK(client[c], st)
  <2>1. /\ client[c] \in ClientType /\ TurnsOK(client[c], status) /\ OwedBy(client[c]) \subseteq Actions
    BY RInvFacts
  <2>2. OwedBy(client[c]) = QueuedBy(client[c]) \cup ToSet(client[c].responseQueue)
    BY <2>1, OwedParts
  <2>3. \A a \in OwedBy(client[c]) : status[a] = "pending"
    BY <2>1, <2>2 DEF TurnsOK, Whole
  <2>4. \A a \in OwedBy(client[c]) : st[a] = "pending"
    BY <1>2, <1>5, <2>1, <2>3
  <2>5. \A a \in Actions : status[a] = "ok" => st[a] = "ok"
    BY <1>1, <1>2
  <2>6. \A a \in OwedBy(client[c]) : \A b \in ActionsOf(a[1]) : st[b] = "pending" => status[b] = "pending"
    BY <1>2, <1>5, <1>6, <2>1, SameGroup
  <2> QED
    BY <2>1, <2>4, <2>5, <2>6, TurnsKept
<1>9. ASSUME NEW c \in Conns PROVE TurnsOK(mid[c], st)
  <2>1. CASE c # d
    BY <1>7, <1>8, <2>1
  <2>2. CASE c = d
    <3>1. /\ client[c] \in ClientType /\ ClientOK(client[c]) /\ TurnsOK(client[c], st)
          /\ ActionsOf(g) \cap OwedBy(client[c]) = {} /\ \A a \in ActionsOf(g) : st[a] = "pending"
      BY <1>1, <1>2, <1>5, <1>8, RInvFacts DEF A
    <3>2. TurnsOK(Enqueued(client[c], g), st)
      BY <3>1, EnqueuedTurns
    <3> QED
      BY <1>7, <2>2, <3>2
  <2> QED
    BY <2>1, <2>2
<1>10. ASSUME NEW i \in 1 .. Len(posted)
       PROVE  posted[i] \cap A = {} /\ Whole(posted[i], st)
  <2>1. posted[i] \subseteq Actions /\ Whole(posted[i], status)
    BY RInvFacts
  <2>2. posted[i] \cap A = {}
    BY <1>1, <2>1 DEF Whole
  <2>3. ASSUME NEW a \in posted[i]
        PROVE  st[a] = "pending" /\ \A b \in ActionsOf(a[1]) : st[b] = "pending" => b \in posted[i]
    <3>1. a \in Actions /\ a \notin A
      BY <2>1, <2>2
    <3>2. status[a] = "pending" /\ \A b \in ActionsOf(a[1]) : status[b] = "pending" => b \in posted[i]
      BY <2>1 DEF Whole
    <3>3. \A b \in ActionsOf(a[1]) : b \in Actions /\ b \notin A
      BY <1>6, <3>1, SameGroup
    <3> QED
      BY <1>2, <3>1, <3>2, <3>3
  <2> QED
    BY <2>2, <2>3 DEF Whole
<1>11. Whole(A, st)
  BY <1>1, <1>2 DEF Whole, A
<1>12. posted \in Seq(SUBSET Actions) /\ Len(posted) \in Nat
  BY RInvFacts
<1>13. /\ \A c, e \in Conns : c # e => OwedBy(client[c]) \cap OwedBy(client[e]) = {}
       /\ \A c \in Conns : \A i \in 1 .. Len(posted) : OwedBy(client[c]) \cap posted[i] = {}
       /\ \A i, j \in 1 .. Len(posted) : i # j => posted[i] \cap posted[j] = {}
  BY RInvFacts DEF ApartOK
<1>14. \A c, e \in Conns : c # e => OwedBy(mid[c]) \cap OwedBy(mid[e]) = {}
  BY <1>4, <1>5, <1>13
<1>15. \A a \in Actions : st[a] = "pending" => a \in A \/ Somewhere(a, client, posted)
  BY <1>2, RInvFacts
<1>16. CASE d # NoConn
  <2>1. po = posted
    BY <1>2, <1>16
  <2>2. \A c \in Conns : \A i \in 1 .. Len(posted) : OwedBy(mid[c]) \cap posted[i] = {}
    BY <1>4, <1>10, <1>13
  <2>3. d \in Conns /\ A \subseteq OwedBy(mid[d]) /\ \A c \in Conns : OwedBy(client[c]) \subseteq OwedBy(mid[c])
    BY <1>3, <1>4, <1>16
  <2>4. \A a \in Actions : st[a] = "pending" => Somewhere(a, mid, posted)
    BY <1>15, <2>3 DEF Somewhere
  <2> QED
    BY <1>9, <1>10, <1>12, <1>13, <1>14, <2>1, <2>2, <2>4 DEF Held, ApartOK, mid
<1>17. CASE d = NoConn
  <2>1. po = Append(posted, A)
    BY <1>2, <1>17
  <2>2. /\ po \in Seq(SUBSET Actions) /\ Len(po) = Len(posted) + 1
        /\ \A i \in 1 .. Len(posted) : po[i] = posted[i]
        /\ po[Len(posted) + 1] = A
    BY <1>1, <1>12, <2>1, AppendProperties
  <2>3. \A i \in 1 .. Len(po) : i \in 1 .. Len(posted) \/ i = Len(posted) + 1
    BY <1>12, <2>2
  <2>4. \A c \in Conns : OwedBy(mid[c]) = OwedBy(client[c])
    BY <1>3, <1>4, <1>17
  <2>5. \A i \in 1 .. Len(po) : Whole(po[i], st)
    BY <1>10, <1>11, <2>2, <2>3
  <2>6. \A c \in Conns : \A i \in 1 .. Len(po) : OwedBy(mid[c]) \cap po[i] = {}
    BY <1>5, <1>13, <2>2, <2>3, <2>4
  <2>7. \A i, j \in 1 .. Len(po) : i # j => po[i] \cap po[j] = {}
    BY <1>10, <1>13, <2>2, <2>3
  <2>8. /\ \A i \in 1 .. Len(posted) : i \in 1 .. Len(po)
        /\ Len(posted) + 1 \in 1 .. Len(po)
    BY <1>12, <2>2
  <2>9. \A a \in Actions : st[a] = "pending" => Somewhere(a, mid, po)
    BY <1>15, <2>2, <2>4, <2>8 DEF Somewhere
  <2> QED
    BY <1>9, <1>14, <2>2, <2>5, <2>6, <2>7, <2>9 DEF Held, ApartOK, mid
<1> QED
  BY <1>16, <1>17

\* The first action that Client c waits for is answered.
LEMMA AnsweredHeld ==
    ASSUME NEW cl \in [Conns -> ClientType], NEW po \in Seq(SUBSET Actions), NEW st,
           Held(cl, po, st), NEW c \in Conns, ClientOK(cl[c]), cl[c].responseQueue # <<>>,
           NEW dl, dl = [cl EXCEPT ![c] = Popped(cl[c])],
           NEW tt,
           \A a \in Actions : tt[a] = IF a = Head(cl[c].responseQueue) THEN "ok" ELSE st[a]
    PROVE  Held(dl, po, tt)
<1> DEFINE first == Head(cl[c].responseQueue)
           m == Popped(cl[c])
<1>1. cl[c] \in ClientType /\ TurnsOK(cl[c], st)
  BY DEF Held
<1>2. cl[c].responseQueue \in Seq(Actions)
  BY <1>1 DEF ClientType
<1>3. first \in Actions /\ first \in OwedBy(cl[c])
  <2>1. Head(cl[c].responseQueue) = cl[c].responseQueue[1] /\ 1 \in 1 .. Len(cl[c].responseQueue)
        /\ Head(cl[c].responseQueue) \in Actions
    BY <1>2, SequenceStep
  <2>2. ToSet(cl[c].responseQueue) = {cl[c].responseQueue[i] : i \in 1 .. Len(cl[c].responseQueue)}
    BY <1>1, QueuedByIndex
  <2> QED
    BY <2>1, <2>2 DEF OwedBy
<1>4. \A a \in Actions : tt[a] = IF a = first THEN "ok" ELSE st[a]
  OBVIOUS
<1>5. TurnsOK(m, tt)
  BY <1>1, <1>3, <1>4, PoppedTurns
<1>6. OwedBy(m) = OwedBy(cl[c]) \ {first}
  BY <1>1, PoppedFacts
<1>7. dl[c] = m /\ \A x \in Conns \ {c} : dl[x] = cl[x]
  OBVIOUS
<1>8. /\ \A x, e \in Conns : x # e => OwedBy(cl[x]) \cap OwedBy(cl[e]) = {}
      /\ \A x \in Conns : \A i \in 1 .. Len(po) : OwedBy(cl[x]) \cap po[i] = {}
      /\ \A i, j \in 1 .. Len(po) : i # j => po[i] \cap po[j] = {}
  BY DEF Held, ApartOK
<1> HIDE DEF first, m
<1>9. \A x \in Conns : OwedBy(dl[x]) \subseteq OwedBy(cl[x])
  BY <1>6, <1>7
<1>10. ASSUME NEW x \in Conns PROVE TurnsOK(dl[x], tt)
  <2>1. CASE x = c
    BY <1>5, <1>7, <2>1
  <2>2. CASE x # c
    <3>1. cl[x] \in ClientType /\ TurnsOK(cl[x], st) /\ first \notin OwedBy(cl[x])
      BY <1>3, <1>8, <2>2 DEF Held
    <3>2. OwedBy(cl[x]) = QueuedBy(cl[x]) \cup ToSet(cl[x].responseQueue) /\ OwedBy(cl[x]) \subseteq Actions
      BY <3>1, OwedParts
    <3>3. \A a \in OwedBy(cl[x]) : st[a] = "pending"
      BY <3>1, <3>2 DEF TurnsOK, Whole
    <3>4. \A a \in OwedBy(cl[x]) : tt[a] = "pending"
      BY <1>4, <3>1, <3>2, <3>3
    <3>5. \A a \in Actions : st[a] = "ok" => tt[a] = "ok"
      BY <1>4
    <3>6. \A a \in OwedBy(cl[x]) : \A b \in ActionsOf(a[1]) : tt[b] = "pending" => st[b] = "pending"
      BY <1>4, <3>2, SameGroup
    <3>7. TurnsOK(cl[x], tt)
      BY <3>1, <3>4, <3>5, <3>6, TurnsKept
    <3> QED
      BY <1>7, <2>2, <3>7
  <2> QED
    BY <2>1, <2>2
<1>11. ASSUME NEW i \in 1 .. Len(po) PROVE Whole(po[i], tt)
  <2>1. po[i] \in SUBSET Actions /\ Whole(po[i], st) /\ first \notin po[i]
    BY <1>3, <1>8, ElementOfSeq DEF Held
  <2>2. ASSUME NEW a \in po[i]
        PROVE  tt[a] = "pending" /\ \A b \in ActionsOf(a[1]) : tt[b] = "pending" => b \in po[i]
    <3>1. a \in Actions /\ a # first
      BY <2>1
    <3>2. st[a] = "pending" /\ \A b \in ActionsOf(a[1]) : st[b] = "pending" => b \in po[i]
      BY <2>1 DEF Whole
    <3> QED
      BY <1>4, <3>1, <3>2, SameGroup
  <2> QED
    BY <2>2 DEF Whole
<1>12. ASSUME NEW a \in Actions, tt[a] = "pending" PROVE Somewhere(a, dl, po)
  <2>1. a # first /\ st[a] = "pending"
    BY <1>4, <1>12
  <2>2. Somewhere(a, cl, po)
    BY <2>1 DEF Held
  <2>3. \A x \in Conns : a \in OwedBy(cl[x]) => a \in OwedBy(dl[x])
    BY <1>6, <1>7, <2>1
  <2> QED
    BY <2>2, <2>3 DEF Somewhere
<1> QED
  BY <1>8, <1>9, <1>10, <1>11, <1>12 DEF Held, ApartOK
-----------------------------------------------------------------------------
(***************************************************************************)
(* The handlers.                                                           *)
(***************************************************************************)
LEMMA EnqueueHeld ==
    ASSUME RInv, NEW g \in Groups, Enqueue(g)
    PROVE  Held(client, posted, status)'
<1> DEFINE d == TargetOf(g)
<1>1. d \in clients \cup {NoConn} /\ Idle(g)
  BY TargetFacts DEF RInv, Inv, Enqueue
<1>2. \A a \in Actions : status'[a] = IF a \in ActionsOf(g) THEN "pending" ELSE status[a]
  BY DEF Enqueue, Tell
<1>3. /\ client' = Handed(d, g)
      /\ posted' = IF d = NoConn THEN Append(posted, ActionsOf(g)) ELSE posted
  BY DEF Enqueue, Handed
<1> HIDE DEF d
<1>4. Held(Handed(d, g), posted', status')
  BY <1>1, <1>2, <1>3, GroupHeld
<1> QED
  BY <1>3, <1>4

\* An answer, with the group that its continuation enqueues, preserves the second invariant.
LEMMA AnsweredStepHeld ==
    ASSUME RInv, NEW c \in Conns, NEW g \in Groups \cup {NoGroup}, Answered(c, g)
    PROVE  Held(client, posted, status)'
<1> DEFINE follow == IF g = NoGroup THEN {} ELSE ActionsOf(g)
           first == Head(client[c].responseQueue)
<1>1. PICK d \in clients \cup {NoConn} :
        /\ g # NoGroup => Idle(g)
        /\ g = NoGroup => d = NoConn
        /\ Handed(d, g)[c] \in ClientType /\ ClientOK(Handed(d, g)[c])
        /\ Handed(d, g)[c].responseQueue # <<>>
        /\ Head(Handed(d, g)[c].responseQueue) = first
        /\ client' = [Handed(d, g) EXCEPT ![c] = Popped(Handed(d, g)[c])]
        /\ status' = [a \in Actions |-> IF a \in {first} THEN "ok"
                                        ELSE IF a \in follow THEN "pending" ELSE status[a]]
        /\ posted' = IF g # NoGroup /\ d = NoConn THEN Append(posted, follow) ELSE posted
  BY AnsweredFacts DEF RInv
<1> DEFINE mid == Handed(d, g)
           st == [a \in Actions |-> IF a \in follow THEN "pending" ELSE status[a]]
<1>2. Inv /\ posted \in Seq(SUBSET Actions) /\ client \in [Conns -> ClientType]
  BY RInvFacts DEF RInv
<1>3. mid \in [Conns -> ClientType]
  <2>1. d # NoConn => g \in Groups /\ Idle(g)
    BY <1>1
  <2> QED
    BY <1>2, <2>1, HandedFacts
<1>4. \A a \in Actions : status'[a] = IF a = first THEN "ok" ELSE st[a]
  BY <1>1
<1>5. Held(mid, posted', st) /\ posted' \in Seq(SUBSET Actions)
  <2>1. CASE g = NoGroup
    <3>1. d = NoConn /\ follow = {}
      BY <1>1, <2>1
    <3>2. mid = client /\ posted' = posted
      BY <1>1, <2>1, <3>1 DEF Handed
    <3>3. st = status
      BY <3>1, RInvFacts
    <3> HIDE DEF mid, st
    <3> QED
      BY <1>2, <3>2, <3>3 DEF RInv
  <2>2. CASE g # NoGroup
    <3>1. g \in Groups /\ Idle(g) /\ follow = ActionsOf(g)
      BY <1>1, <2>2
    <3>2. \A a \in Actions : st[a] = IF a \in ActionsOf(g) THEN "pending" ELSE status[a]
      BY <3>1
    <3>3. posted' = IF d = NoConn THEN Append(posted, ActionsOf(g)) ELSE posted
      BY <1>1, <2>2, <3>1
    <3> HIDE DEF st, follow
    <3>4. Held(Handed(d, g), posted', st) /\ posted' \in Seq(SUBSET Actions)
      BY <3>1, <3>2, <3>3, GroupHeld
    <3> QED
      BY <3>4
  <2> QED
    BY <2>1, <2>2
<1>6. /\ ClientOK(mid[c]) /\ mid[c].responseQueue # <<>> /\ Head(mid[c].responseQueue) = first
      /\ client' = [mid EXCEPT ![c] = Popped(mid[c])]
  BY <1>1
<1>7. \A a \in Actions : status'[a] = IF a = Head(mid[c].responseQueue) THEN "ok" ELSE st[a]
  BY <1>4, <1>6
<1> HIDE DEF mid, st, first, follow
<1>8. Held(client', posted', status')
  BY <1>3, <1>5, <1>6, <1>7, AnsweredHeld
<1> QED
  BY <1>8

\* removeClient hands all that the Client owes to posted handlers.
LEMMA RemoveHeld ==
    ASSUME RInv, NEW c \in Conns, RemoveClient(c)
    PROVE  Held(client, posted, status)'
<1>1. /\ client' = [client EXCEPT ![c] = NewClient] /\ status' = status
      /\ posted' = posted \o Destroyed(client[c])
  BY DEF RemoveClient, Erase
<1>2. client'[c] = NewClient /\ \A x \in Conns \ {c} : client'[x] = client[x]
  BY <1>1, RInvFacts
<1> QED
  BY <1>1, <1>2, RemovedHeld

\* A login preserves the second invariant, also when it evicts.
LEMMA LoginHeld ==
    ASSUME RInv, NEW c \in Conns, Login(c)
    PROVE  Held(client, posted, status)'
<1> DEFINE old == logins[name[c]]
           m == [client[c] EXCEPT !.login = name[c]]
<1>1. /\ IF old = NoConn THEN UNCHANGED <<clients, posted, answers>> ELSE Erase(old)
      /\ client' = [x \in Conns |-> IF x = old THEN NewClient ELSE IF x = c THEN m ELSE client[x]]
      /\ status' = status /\ c \in clients
  BY DEF Login
<1>2. client[c] \in ClientType /\ NoConn \notin Conns
  BY RInvFacts
<1>3. m.sendQueue = client[c].sendQueue /\ m.responseQueue = client[c].responseQueue
  BY <1>2 DEF ClientType
<1>4. old \in Conns \cup {NoConn}
  BY <1>1 DEF RInv, Inv, TypeInv, ClosedOK
<1> HIDE DEF m, old
<1>5. \A x \in Conns \ {old} : /\ client'[x].sendQueue = client[x].sendQueue
                               /\ client'[x].responseQueue = client[x].responseQueue
  BY <1>1, <1>3
<1>6. CASE old = NoConn
  <2>1. UNCHANGED <<posted, status>> /\ \A x \in Conns : x # old
    BY <1>1, <1>2, <1>6
  <2>2. \A x \in Conns : OwedBy(client'[x]) = OwedBy(client[x]) /\ TurnsOK(client'[x], status)
    BY <1>5, <2>1, RInvFacts, SameQueues
  <2> QED
    BY <2>1, <2>2, HeldKept
<1>7. CASE old # NoConn
  <2>1. old \in Conns /\ client'[old] = NewClient /\ posted' = posted \o Destroyed(client[old])
    BY <1>1, <1>4, <1>7 DEF Erase
  <2> QED
    BY <1>1, <1>5, <2>1, RemovedHeld
<1> QED
  BY <1>6, <1>7

\* The callback of async_write preserves the second invariant.
LEMMA WriteDoneHeld ==
    ASSUME RInv, NEW c \in Conns, WriteDone(c)
    PROVE  Held(client, posted, status)'
<1>1. /\ client[c].packet = <<>> /\ client' = [client EXCEPT ![c] = Written(client[c])]
      /\ UNCHANGED <<posted, status>>
  BY DEF WriteDone
<1>2. client[c] \in ClientType /\ ClientOK(client[c]) /\ TurnsOK(client[c], status)
  BY RInvFacts
<1>3. OwedBy(Written(client[c])) = OwedBy(client[c])
  BY <1>1, <1>2, WrittenFacts
<1>4. TurnsOK(Written(client[c]), status)
  BY <1>2, WrittenTurns
<1>5. client'[c] = Written(client[c]) /\ \A x \in Conns \ {c} : client'[x] = client[x]
  BY <1>1, RInvFacts
<1>6. \A x \in Conns : OwedBy(client'[x]) = OwedBy(client[x]) /\ TurnsOK(client'[x], status)
  BY <1>3, <1>4, <1>5, RInvFacts
<1> QED
  BY <1>1, <1>6, HeldKept

\* What the computers and the network do leaves the queues alone.
LEMMA QueuesAlone ==
    ASSUME RInv, UNCHANGED <<posted, status>>,
           \/ client' = client
           \/ \E c \in Conns : client' = [client EXCEPT ![c].packet = <<>>]
    PROVE  Held(client, posted, status)'
<1>1. \A x \in Conns : /\ client'[x].sendQueue = client[x].sendQueue
                       /\ client'[x].responseQueue = client[x].responseQueue
  <2>1. CASE client' = client
    BY <2>1
  <2>2. ASSUME NEW c \in Conns, client' = [client EXCEPT ![c].packet = <<>>]
        PROVE  \A x \in Conns : /\ client'[x].sendQueue = client[x].sendQueue
                                /\ client'[x].responseQueue = client[x].responseQueue
    <3>1. client[c] \in ClientType /\ client \in [Conns -> ClientType]
      BY RInvFacts
    <3> QED
      BY <2>2, <3>1 DEF ClientType
  <2> QED
    BY <2>1, <2>2
<1>2. \A x \in Conns : OwedBy(client'[x]) = OwedBy(client[x]) /\ TurnsOK(client'[x], status)
  BY <1>1, RInvFacts, SameQueues
<1> QED
  BY <1>2, HeldKept

\* Every step preserves the second invariant.
LEMMA StepHeld == RInv /\ [Next]_vars => RInv'
<1> SUFFICES ASSUME RInv, [Next]_vars PROVE Held(client, posted, status)'
  BY StepInv DEF RInv
<1>1. CASE UNCHANGED vars
  BY <1>1, QueuesAlone DEF vars
<1>2. CASE FailPosted
  BY <1>2, FailedHeld
<1>3. CASE \E g \in Groups : Enqueue(g)
  BY <1>3, EnqueueHeld
<1>4. ASSUME NEW c \in Conns, Step(c) PROVE Held(client, posted, status)'
  <2>1. CASE \E n \in Names : Accept(c, n)
    BY <2>1, QueuesAlone DEF Accept
  <2>2. CASE Login(c)
    BY <2>2, LoginHeld
  <2>3. CASE ConnectionLost(c) \/ TimedOut(c) \/ AnsweredBadly(c)
    BY <2>3, RemoveHeld DEF ConnectionLost, TimedOut, AnsweredBadly
  <2>4. CASE WriteDone(c)
    BY <2>4, WriteDoneHeld
  <2>5. CASE \E g \in Groups \cup {NoGroup} : Answered(c, g)
    BY <2>5, AnsweredStepHeld
  <2>6. CASE Receive(c)
    BY <2>6, QueuesAlone DEF Receive
  <2>7. CASE Execute(c)
    BY <2>7, QueuesAlone DEF Execute
  <2>8. CASE Closed(c)
    BY <2>8, QueuesAlone DEF Closed
  <2> QED
    BY <1>4, <2>1, <2>2, <2>3, <2>4, <2>5, <2>6, <2>7, <2>8 DEF Step
<1> QED
  BY <1>1, <1>2, <1>3, <1>4 DEF Next

\* The second invariant holds at first, when nothing is owed.
LEMMA InitHeld == Init => RInv
<1> SUFFICES ASSUME Init PROVE RInv
  OBVIOUS
<1>1. /\ client = [c \in Conns |-> NewClient] /\ posted = <<>> /\ Inv
  BY InitInv DEF Init
<1>2. \A c \in Conns : client[c] = NewClient
  BY <1>1
<1>3. OwedBy(NewClient) = {} /\ NewClient \in ClientType /\ NewClient.responseQueue = <<>>
  BY NewClientFacts DEF NewClient
<1>4. QueuedBy(NewClient) = {} /\ ToSet(NewClient.responseQueue) = {}
  BY <1>3, OwedParts
<1>5. TurnsOK(NewClient, status)
  <2>1. InTurn(<<>>, status)
    BY DEF InTurn
  <2> QED
    BY <1>3, <1>4, <2>1 DEF TurnsOK, Whole
<1>6. Len(posted) = 0
  BY <1>1
<1>7. \A a \in Actions : status[a] # "pending"
  BY DEF Init
<1> QED
  BY <1>1, <1>2, <1>3, <1>5, <1>6, <1>7 DEF RInv, Held, ApartOK
-----------------------------------------------------------------------------
(***************************************************************************)
(* The refinement.                                                         *)
(***************************************************************************)
LEMMA SameRequests ==
    /\ Service!Requests = Actions
    /\ \A g : Service!RequestsOf(g) = ActionsOf(g)
    /\ \A g : Service!Idle(g) <=> Idle(g)
BY DEF Service!Requests, Service!RequestsOf, Service!Idle, Actions, ActionsOf, Idle

\* Enqueueing is Enqueue of the service.
LEMMA EnqueueServes ==
    ASSUME NEW g \in Groups, Enqueue(g)
    PROVE  Service!Enqueue(g)
<1>1. Idle(g) /\ status' = [a \in Actions |-> IF a \in ActionsOf(g) THEN "pending" ELSE status[a]]
  BY DEF Enqueue, Tell
<1>2. Service!Set(Service!RequestsOf(g), "pending")
  BY <1>1, SameRequests DEF Service!Set
<1> QED
  BY <1>1, <1>2, SameRequests DEF Service!Enqueue

\* An answer is Answer of the service, with or without a group that follows.
LEMMA AnsweredServes ==
    ASSUME RInv, NEW c \in Conns, NEW g \in Groups \cup {NoGroup}, Answered(c, g)
    PROVE  Service!Next
<1> DEFINE r == client[c].responseQueue
           first == Head(r)
           follow == IF g = NoGroup THEN {} ELSE ActionsOf(g)
           new == IF g = NoGroup THEN {} ELSE {g}
           h == first[1]
           i == first[2]
<1>1. /\ r # <<>> /\ (g # NoGroup => Idle(g))
      /\ status' = [a \in Actions |-> IF a \in {first} THEN "ok"
                                      ELSE IF a \in follow THEN "pending" ELSE status[a]]
  BY DEF Answered
<1>2. client[c] \in ClientType /\ TurnsOK(client[c], status)
  BY RInvFacts
<1>3. r \in Seq(Actions) /\ Whole(ToSet(r), status) /\ InTurn(r, status)
  BY <1>2 DEF ClientType, TurnsOK
<1>4. ToSet(r) = {r[j] : j \in 1 .. Len(r)}
  BY <1>2, QueuedByIndex
<1> HIDE DEF r
<1>5. first = r[1] /\ first \in Actions /\ 1 \in 1 .. Len(r)
  BY <1>1, <1>3, SequenceStep
<1>6. status[first] = "pending"
  BY <1>3, <1>4, <1>5 DEF Whole
<1>7. \A n \in 1 .. r[1][2] - 1 : status[<<r[1][1], n>>] = "ok"
  <2>1. \A n \in 1 .. r[1][2] - 1 :
          status[<<r[1][1], n>>] = "ok" \/ \E m \in 1 .. 1 - 1 : r[m] = <<r[1][1], n>>
    BY <1>3, <1>5 DEF InTurn
  <2>2. 1 .. 1 - 1 = {}
    OBVIOUS
  <2> QED
    BY <2>1, <2>2
<1> HIDE DEF first
<1>8. h \in Groups /\ i \in 1 .. Size[h] /\ first = <<h, i>> /\ first \in ActionsOf(h)
  BY <1>5, ActionParts
<1>9. \A k \in 1 .. i - 1 : status[<<h, k>>] = "ok"
  BY <1>5, <1>7
<1>10. new \in SUBSET (Groups \ {h})
  BY <1>1, <1>6, <1>8 DEF Idle
<1>11. \A q \in new : Idle(q)
  BY <1>1
<1>12. status' = [a \in Actions |-> IF a = <<h, i>> THEN "ok"
                                    ELSE IF a[1] \in new THEN "pending" ELSE status[a]]
  <2>1. \A a \in Actions : a \in follow <=> a[1] \in new
    BY ActionParts
  <2> HIDE DEF follow, new, h, i
  <2> QED
    BY <1>1, <1>8, <2>1
<1> HIDE DEF follow, new, h, i
<1>13. Service!Answer(h, i, new)
  BY <1>6, <1>8, <1>9, <1>11, <1>12, SameRequests DEF Service!Answer
<1> QED
  BY <1>8, <1>10, <1>13 DEF Service!Next

\* A posted handler is Fail of the service, of all its groups at once.
LEMMA FailPostedServes ==
    ASSUME RInv, FailPosted
    PROVE  Service!Next
<1> DEFINE H == Head(posted)
           lost == {g \in Groups : ActionsOf(g) \cap H # {}}
           pending(g) == Service!Pending(g)
<1>1. /\ posted # <<>>
      /\ status' = [a \in Actions |-> IF a \in H THEN "failed" ELSE status[a]]
  BY DEF FailPosted, Tell
<1>2. H = posted[1] /\ 1 \in 1 .. Len(posted)
  BY <1>1, RInvFacts, SequenceStep
<1>3. H \subseteq Actions /\ Whole(H, status)
  BY <1>2, RInvFacts
<1> HIDE DEF H
<1>4. \A g : pending(g) = {a \in ActionsOf(g) : status[a] = "pending"}
  BY SameRequests DEF Service!Pending
<1> HIDE DEF pending
<1>5. ASSUME NEW g \in lost PROVE pending(g) \subseteq H /\ pending(g) # {}
  <2>1. PICK a \in ActionsOf(g) : a \in H
    OBVIOUS
  <2>2. a[1] = g
    BY <1>3, <2>1, ActionParts
  <2> QED
    BY <1>3, <1>4, <2>1, <2>2 DEF Whole
<1>6. ASSUME NEW a \in H PROVE a[1] \in lost /\ a \in pending(a[1])
  <2>1. a[1] \in Groups /\ a \in ActionsOf(a[1]) /\ status[a] = "pending"
    BY <1>3, ActionParts DEF Whole
  <2> QED
    BY <1>4, <2>1
<1>7. lost \in SUBSET Groups
  OBVIOUS
<1> HIDE DEF lost
<1>8. UNION {pending(g) : g \in lost} = H
  BY <1>5, <1>6
<1>9. Service!Set(H, "failed")
  BY <1>1, SameRequests DEF Service!Set
<1>10. Service!Fail(lost)
  BY <1>5, <1>8, <1>9 DEF Service!Fail, pending
<1> QED
  BY <1>7, <1>10 DEF Service!Next

\* Every step is one of the service or leaves the status alone.
LEMMA StepServes == RInv /\ [Next]_vars => [Service!Next]_status
<1> SUFFICES ASSUME RInv, [Next]_vars PROVE Service!Next \/ status' = status
  OBVIOUS
<1>1. CASE UNCHANGED vars
  BY <1>1 DEF vars
<1>2. CASE FailPosted
  BY <1>2, FailPostedServes
<1>3. CASE \E g \in Groups : Enqueue(g)
  BY <1>3, EnqueueServes DEF Service!Next
<1>4. ASSUME NEW c \in Conns, Step(c) PROVE Service!Next \/ status' = status
  <2>1. CASE \E g \in Groups \cup {NoGroup} : Answered(c, g)
    BY <2>1, AnsweredServes
  <2>2. CASE ~\E g \in Groups \cup {NoGroup} : Answered(c, g)
    BY <1>4, <2>2
       DEF Step, Accept, Login, ConnectionLost, TimedOut, WriteDone, AnsweredBadly, Receive,
           Execute, Closed, RemoveClient
  <2> QED
    BY <2>1, <2>2
<1> QED
  BY <1>1, <1>2, <1>3, <1>4 DEF Next

\* The server implements RequestService: an action completes once, in the order
\* of its group, whatever is answered, evicted, refused or lost meanwhile, and
\* what is left of a group fails at once.
THEOREM ServerImplementsService == Spec => ServiceSpec
<1>1. Init => Service!Init
  BY SameRequests DEF Init, Service!Init
<1> QED
  BY <1>1, InitHeld, StepHeld, StepServes, PTL DEF Spec, ServiceSpec, Service!Spec
-----------------------------------------------------------------------------
(***************************************************************************)
(* What is pending is owed.                                                *)
(***************************************************************************)
LEMMA OneHolder ==
    ASSUME RInv, NEW a \in Actions
    PROVE  LET holders == {c \in clients : a \in Owed(c)}
               handlers == {i \in DOMAIN posted : a \in posted[i]}
           IN  Cardinality(holders) + Cardinality(handlers) = IF status[a] = "pending" THEN 1 ELSE 0
<1> DEFINE holders == {c \in clients : a \in Owed(c)}
           handlers == {i \in DOMAIN posted : a \in posted[i]}
<1>1. handlers = {i \in 1 .. Len(posted) : a \in posted[i]}
  BY RInvFacts
<1>2. holders = {c \in Conns : a \in OwedBy(client[c])}
  <2>1. \A c \in Conns : a \in OwedBy(client[c]) => c \in clients
    BY NewClientFacts, InvFacts DEF RInv
  <2> QED
    BY <2>1, RInvFacts DEF Owed
<1>3. /\ \A c, e \in Conns : c # e => OwedBy(client[c]) \cap OwedBy(client[e]) = {}
      /\ \A c \in Conns : \A i \in 1 .. Len(posted) : OwedBy(client[c]) \cap posted[i] = {}
      /\ \A i, j \in 1 .. Len(posted) : i # j => posted[i] \cap posted[j] = {}
  BY RInvFacts DEF ApartOK
<1> HIDE DEF holders, handlers
<1>4. Cardinality({}) = 0 /\ \A x : Cardinality({x}) = 1
  BY FS_EmptySet, FS_Singleton
<1>5. CASE status[a] = "pending"
  <2>1. Somewhere(a, client, posted)
    BY <1>5, RInvFacts
  <2>2. ASSUME NEW c \in Conns, a \in OwedBy(client[c])
        PROVE  holders = {c} /\ handlers = {}
    BY <1>1, <1>2, <1>3, <2>2
  <2>3. ASSUME NEW i \in 1 .. Len(posted), a \in posted[i]
        PROVE  holders = {} /\ handlers = {i}
    BY <1>1, <1>2, <1>3, <2>3
  <2>4. (Cardinality(holders) = 1 /\ Cardinality(handlers) = 0)
          \/ (Cardinality(holders) = 0 /\ Cardinality(handlers) = 1)
    BY <1>4, <2>1, <2>2, <2>3 DEF Somewhere
  <2> QED
    BY <1>5, <2>4 DEF holders, handlers
<1>6. CASE status[a] # "pending"
  <2>1. holders = {}
    <3>1. ASSUME NEW c \in Conns, a \in OwedBy(client[c]) PROVE FALSE
      <4>1. client[c] \in ClientType /\ TurnsOK(client[c], status)
        BY RInvFacts
      <4>2. OwedBy(client[c]) = QueuedBy(client[c]) \cup ToSet(client[c].responseQueue)
        BY <4>1, OwedParts
      <4> QED
        BY <1>6, <3>1, <4>1, <4>2 DEF TurnsOK, Whole
    <3> QED
      BY <1>2, <3>1
  <2>2. handlers = {}
    BY <1>1, <1>6, RInvFacts DEF Whole
  <2>3. Cardinality(holders) = 0 /\ Cardinality(handlers) = 0
    BY <1>4, <2>1, <2>2
  <2> QED
    BY <1>6, <2>3 DEF holders, handlers
<1> QED
  BY <1>5, <1>6

\* An action is pending exactly while one Client owes it or one posted handler
\* will fail it: none is lost and none is told twice, through eviction, refusal
\* and the destruction of a Client.
THEOREM PendingHasOneHolder == Spec => []PendingIsOwed
<1>1. RInv => PendingIsOwed
  BY OneHolder DEF PendingIsOwed
<1> QED
  BY <1>1, InitHeld, StepHeld, PTL DEF Spec

\* sendQueueTotal, counted by hand, is always what the queue holds.
THEOREM TotalsAreExact == Spec => []TotalIsQueued
<1>1. Inv => TotalIsQueued
  BY DEF Inv, ClientsOK, ClientOK, QueuesOK, TotalIsQueued
<1> QED
  BY <1>1, InitInv, StepInv, PTL DEF Spec
=============================================================================
