-------------------------- MODULE Connection_proofs --------------------------
(* The inductive invariant of Connection and the theorems it proves. *)
EXTENDS Connection, CommonLemmas, SequenceTheorems, TLAPS

Group(g) == [i \in 1 .. Size[g] |-> <<g, i>>]

\* The sequence q consists of whole groups.
Whole(q) ==
    \A i \in 1 .. Len(q) :
        /\ q[i][2] <= i /\ i - q[i][2] + Size[q[i][1]] <= Len(q)
        /\ \A m \in 1 .. Size[q[i][1]] : q[i - q[i][2] + m] = <<q[i][1], m>>

\* The sequence s consists of whole groups, but may end within one.
Together(s) ==
    \A k \in 1 .. Len(s) :
        s[k][2] > 1 => k > 1 /\ s[k - 1] = <<s[k][1], s[k][2] - 1>>

\* What waits for an answer is on its way back, then what the computer has
\* received (lost if the computer closed the connection), then what is being
\* written.
InTransit(c, M) == response_queue[c] = (answers[c] \o M) \o packet[c]

OpenOK(c) ==
    /\ name[c] \in Names
    /\ \E M \in Seq(Requests) : InTransit(c, M) /\ (c \in connected => M = inbox[c])
    /\ writer[c] = "Writing" <=> (request_queue[c] # <<>> \/ packet[c] # <<>>)

DroppedOK(c) ==
    /\ request_queue[c] = <<>> /\ response_queue[c] = <<>> /\ packet[c] = <<>>
    /\ answers[c] = <<>> /\ writer[c] = "NotWriting" /\ login[c] = NoName

TimerOK(c) ==
    timeout[c] <=> (c \in open /\ (request_queue[c] # <<>> \/ response_queue[c] # <<>>))

GroupsOK(c) ==
    /\ Whole(request_queue[c])
    /\ packet[c] = <<>> \/ \E g \in Groups : packet[c] = Group(g)
    /\ Together(executed[c] \o inbox[c])

ConnOK(c) ==
    /\ c \in open => OpenOK(c)
    /\ c \notin open => DroppedOK(c)
    /\ c \notin connected => inbox[c] = <<>>
    /\ TimerOK(c) /\ GroupsOK(c)

Inv == TypeOK /\ LoginsAreOpen /\ \A c \in Conns : ConnOK(c)
-----------------------------------------------------------------------------
(***************************************************************************)
(* Groups in sequences.                                                    *)
(***************************************************************************)
LEMMA RequestParts ==
    ASSUME NEW r \in Requests
    PROVE  /\ r[1] \in Groups /\ r[2] \in 1 .. Size[r[1]] /\ r = <<r[1], r[2]>>
           /\ Size[r[1]] \in Nat \ {0} /\ r[2] \in Nat \ {0} /\ r[2] <= Size[r[1]]
<1>1. PICK g \in Groups : r \in RequestsOf(g)
  BY DEF Requests
<1>2. r[1] = g /\ r[2] \in 1 .. Size[g] /\ r = <<r[1], r[2]>>
  BY <1>1 DEF RequestsOf
<1>3. Size[g] \in Nat \ {0}
  BY GroupsAssumption
<1> QED
  BY <1>2, <1>3

\* The requests of a group, in order.
LEMMA GroupFacts ==
    ASSUME NEW g \in Groups
    PROVE  /\ Group(g) \in Seq(Requests) /\ Len(Group(g)) = Size[g] /\ Group(g) # <<>>
           /\ \A i \in 1 .. Size[g] : Group(g)[i] = <<g, i>>
           /\ Size[g] \in Nat \ {0}
<1>1. Size[g] \in Nat \ {0}
  BY GroupsAssumption
<1>2. \A i \in 1 .. Size[g] : <<g, i>> \in Requests
  BY DEF Requests, RequestsOf
<1>3. Group(g) \in [1 .. Size[g] -> Requests]
  BY <1>2 DEF Group
<1>4. Group(g) \in Seq(Requests) /\ Len(Group(g)) = Size[g]
  BY <1>1, <1>3
<1> QED
  BY <1>1, <1>4 DEF Group

\* The writer takes a whole group and leaves whole groups.
LEMMA FirstGroup ==
    ASSUME NEW q \in Seq(Requests), q # <<>>, Whole(q)
    PROVE  LET g == Head(q)[1]
               n == Len(NextGroup(q))
           IN /\ g \in Groups /\ NextGroup(q) = Group(g) /\ n = Size[g] /\ n <= Len(q)
              /\ SubSeq(q, n + 1, Len(q)) \in Seq(Requests)
              /\ Len(SubSeq(q, n + 1, Len(q))) = Len(q) - n
              /\ \A i \in 1 .. Len(q) - n : SubSeq(q, n + 1, Len(q))[i] = q[n + i]
              /\ Whole(SubSeq(q, n + 1, Len(q)))
<1> DEFINE g == Head(q)[1]
           w == SubSeq(q, Size[g] + 1, Len(q))
<1>1. Head(q) = q[1] /\ Len(q) \in Nat \ {0} /\ \A i \in 1 .. Len(q) : q[i] \in Requests
  BY SequenceStep
<1>2. /\ g \in Groups /\ Size[g] \in Nat \ {0} /\ q[1][1] = g /\ q[1][2] \in Nat \ {0}
      /\ 1 \in 1 .. Len(q)
  BY <1>1, RequestParts
<1>3. /\ \A i \in 1 .. Len(q) : q[i][1] \in Groups /\ q[i][2] \in Nat \ {0}
                                /\ Size[q[i][1]] \in Nat \ {0} /\ q[i][2] <= Size[q[i][1]]
  BY <1>1, RequestParts
<1> HIDE DEF g
<1>4. q[1][2] = 1 /\ Size[g] <= Len(q) /\ \A m \in 1 .. Size[g] : q[m] = <<g, m>>
  <2>1. /\ q[1][2] <= 1 /\ 1 - q[1][2] + Size[g] <= Len(q)
        /\ \A m \in 1 .. Size[g] : q[1 - q[1][2] + m] = <<g, m>>
    BY <1>2 DEF Whole
  <2>2. q[1][2] = 1
    BY <1>2, <2>1
  <2> QED
    BY <1>1, <1>2, <2>1, <2>2
<1>5. Len(q) \in Nat /\ Size[g] \in Nat /\ Size[g] >= 1 /\ Size[g] <= Len(q)
  BY <1>1, <1>2, <1>4
<1>6. NextGroup(q) = Group(g)
  <2>1. NextGroup(q) = SubSeq(q, 1, Size[g])
    BY DEF NextGroup, g
  <2> DEFINE t == SubSeq(q, 1, Size[g])
  <2>2. \A i \in 1 .. Size[g] : q[i] \in Requests
    BY <1>1, <1>2, <1>4
  <2>3. /\ t \in Seq(Requests)
        /\ Len(t) = IF 1 <= Size[g] THEN Size[g] - 1 + 1 ELSE 0
        /\ \A i \in 1 .. Size[g] - 1 + 1 : t[i] = q[1 + i - 1]
    BY <1>2, <2>2, SubSeqProperties
  <2> HIDE DEF t
  <2>8. Size[g] - 1 + 1 = Size[g] /\ 1 <= Size[g] /\ \A i \in 1 .. Size[g] : 1 + i - 1 = i
    BY <1>5
  <2>4. Len(t) = Size[g] /\ \A i \in 1 .. Size[g] : t[i] = <<g, i>>
    BY <1>4, <2>3, <2>8
  <2>5. /\ Group(g) \in Seq(Requests) /\ Len(Group(g)) = Size[g]
        /\ \A i \in 1 .. Size[g] : Group(g)[i] = <<g, i>>
    BY <1>2, GroupFacts
  <2>6. Len(t) = Len(Group(g)) /\ \A i \in 1 .. Len(t) : t[i] = Group(g)[i]
    BY <2>4, <2>5
  <2>7. t = Group(g)
    BY <2>3, <2>5, <2>6, SeqEqual
  <2> QED
    BY <2>1, <2>7 DEF t
<1>7. Len(NextGroup(q)) = Size[g]
  BY <1>2, <1>6, GroupFacts
<1>8. /\ w \in Seq(Requests) /\ Len(w) = Len(q) - Size[g]
      /\ \A i \in 1 .. Len(q) - Size[g] : w[i] = q[Size[g] + i]
  <2> DEFINE a == Size[g] + 1
  <2>1. a \in Int /\ Len(q) \in Int /\ \A i \in a .. Len(q) : q[i] \in Requests
    BY <1>1, <1>2
  <2>2. a = Size[g] + 1
    OBVIOUS
  <2> HIDE DEF a
  <2>3. /\ SubSeq(q, a, Len(q)) \in Seq(Requests)
        /\ Len(SubSeq(q, a, Len(q))) = IF a <= Len(q) THEN Len(q) - a + 1 ELSE 0
        /\ \A i \in 1 .. Len(q) - a + 1 : SubSeq(q, a, Len(q))[i] = q[a + i - 1]
    BY <2>1, SubSeqProperties
  <2>4. w = SubSeq(q, a, Len(q))
    BY <2>2
  <2> HIDE DEF w
  <2>5. /\ Len(q) - a + 1 = Len(q) - Size[g]
        /\ \A i \in 1 .. Len(q) - Size[g] : a + i - 1 = Size[g] + i
        /\ (IF a <= Len(q) THEN Len(q) - a + 1 ELSE 0) = Len(q) - Size[g]
    BY <1>5, <2>2
  <2> QED
    BY <2>3, <2>4, <2>5
<1>9. Whole(w)
  <2> SUFFICES ASSUME NEW i \in 1 .. Len(w)
               PROVE  /\ w[i][2] <= i /\ i - w[i][2] + Size[w[i][1]] <= Len(w)
                      /\ \A m \in 1 .. Size[w[i][1]] : w[i - w[i][2] + m] = <<w[i][1], m>>
    BY DEF Whole
  <2> DEFINE j == Size[g] + i
             h == q[j][1]
             k == q[j][2]
  <2>1. /\ i \in 1 .. Len(q) - Size[g] /\ j \in 1 .. Len(q) /\ w[i] = q[j] /\ i \in Nat \ {0}
        /\ j = Size[g] + i
    <3>1. i \in 1 .. Len(q) - Size[g]
      BY <1>8
    <3>2. Size[g] + i \in 1 .. Len(q) /\ i \in Nat \ {0}
      BY <1>5, <3>1
    <3> QED
      BY <1>8, <3>1, <3>2
  <2>2. h \in Groups /\ k \in Nat \ {0} /\ Size[h] \in Nat \ {0} /\ k <= Size[h]
    BY <1>3, <2>1
  <2>3. k <= j /\ j - k + Size[h] <= Len(q) /\ \A m \in 1 .. Size[h] : q[j - k + m] = <<h, m>>
    BY <2>1 DEF Whole
  <2>4. w[i][1] = h /\ w[i][2] = k
    BY <2>1
  <2> HIDE DEF j, h, k, w
  <2>5. k <= i
    <3> SUFFICES ASSUME k > i PROVE FALSE
      BY <2>1, <2>2
    <3> DEFINE m == k - i
    <3>1. m \in 1 .. Size[h] /\ j - k + m = Size[g] /\ m \in Nat /\ m < Size[h]
      <4>1. i \in Nat \ {0} /\ j = Size[g] + i
        BY <2>1
      <4> QED
        BY <1>5, <2>2, <4>1
    <3> HIDE DEF m
    <3>2. q[Size[g]] = <<h, m>>
      BY <2>3, <3>1
    <3>3. q[Size[g]] = <<g, Size[g]>>
      BY <1>2, <1>4
    <3>4. h = g /\ m = Size[g]
      BY <3>2, <3>3
    <3> QED
      BY <1>2, <3>1, <3>4
  <2>6. i - k + Size[h] <= Len(w)
    <3>1. Len(w) = Len(q) - Size[g] /\ i \in Nat \ {0} /\ j = Size[g] + i
      BY <1>8, <2>1
    <3>2. j - k + Size[h] <= Len(q)
      BY <2>3
    <3> QED
      BY <1>5, <2>2, <3>1, <3>2
  <2>7. ASSUME NEW m \in 1 .. Size[h] PROVE w[i - k + m] = <<h, m>>
    <3>1. /\ i - k + m \in 1 .. Len(q) - Size[g]
          /\ Size[g] + (i - k + m) = j - k + m
      <4>1. Len(w) = Len(q) - Size[g] /\ i \in Nat \ {0} /\ j = Size[g] + i
        BY <1>8, <2>1
      <4>2. i - k + Size[h] <= Len(q) - Size[g]
        BY <2>6, <4>1
      <4>3. m \in Nat /\ 1 <= m /\ m <= Size[h]
        BY <2>2
      <4>4. i - k + m \in 1 .. Len(q) - Size[g]
        BY <1>5, <2>2, <2>5, <4>1, <4>2, <4>3
      <4> QED
        BY <1>5, <2>2, <4>1, <4>3, <4>4
    <3>2. w[i - k + m] = q[Size[g] + (i - k + m)]
      BY <1>8, <3>1
    <3> QED
      BY <2>3, <3>1, <3>2
  <2> QED
    BY <2>4, <2>5, <2>6, <2>7
<1> QED
  BY <1>2, <1>4, <1>6, <1>7, <1>8, <1>9 DEF g

\* A whole group joins whole groups.
LEMMA WholeAppended ==
    ASSUME NEW q \in Seq(Requests), Whole(q), NEW g \in Groups
    PROVE  q \o Group(g) \in Seq(Requests) /\ q \o Group(g) # <<>> /\ Whole(q \o Group(g))
<1> DEFINE w == q \o Group(g)
<1>1. /\ Group(g) \in Seq(Requests) /\ Len(Group(g)) = Size[g]
      /\ \A i \in 1 .. Size[g] : Group(g)[i] = <<g, i>>
      /\ Size[g] \in Nat \ {0} /\ Len(q) \in Nat
  BY GroupFacts
<1>2. /\ w \in Seq(Requests) /\ Len(w) = Len(q) + Size[g]
      /\ \A i \in 1 .. Len(q) + Size[g] :
            w[i] = IF i <= Len(q) THEN q[i] ELSE Group(g)[i - Len(q)]
  <2> DEFINE G == Group(g)
  <2>1. G \in Seq(Requests) /\ Len(G) = Size[g]
    BY <1>1
  <2> HIDE DEF G
  <2>2. /\ q \o G \in Seq(Requests) /\ Len(q \o G) = Len(q) + Len(G)
        /\ \A i \in 1 .. Len(q) + Len(G) : (q \o G)[i] = IF i <= Len(q) THEN q[i] ELSE G[i - Len(q)]
    BY <2>1, ConcatProperties
  <2> QED
    BY <2>1, <2>2 DEF G
<1>3. \A i \in 1 .. Len(q) : q[i][2] \in Nat \ {0} /\ Size[q[i][1]] \in Nat \ {0} /\ q[i] \in Requests
                             /\ q[i][2] <= Size[q[i][1]]
  BY RequestParts, ElementOfSeq
<1> HIDE DEF w
<1>4. w # <<>>
  BY <1>1, <1>2, EmptySeq
<1>8. Len(q) \in Nat /\ Size[g] \in Nat
  BY <1>1
<1>5. \A i \in 1 .. Len(q) : w[i] = q[i]
  <2>1. \A i \in 1 .. Len(q) : i \in 1 .. Len(q) + Size[g] /\ i <= Len(q)
    BY <1>8
  <2> QED
    BY <1>2, <2>1
<1>6. \A m \in 1 .. Size[g] : w[Len(q) + m] = <<g, m>>
  <2> TAKE m \in 1 .. Size[g]
  <2>1. /\ Len(q) + m \in 1 .. Len(q) + Size[g] /\ ~(Len(q) + m <= Len(q))
        /\ (Len(q) + m) - Len(q) = m
    BY <1>1
  <2> QED
    BY <1>1, <1>2, <2>1
<1>7. Whole(w)
  <2> SUFFICES ASSUME NEW i \in 1 .. Len(w)
               PROVE  /\ w[i][2] <= i /\ i - w[i][2] + Size[w[i][1]] <= Len(w)
                      /\ \A m \in 1 .. Size[w[i][1]] : w[i - w[i][2] + m] = <<w[i][1], m>>
    BY DEF Whole
  <2>1. CASE i <= Len(q)
    <3> DEFINE h == q[i][1]
               k == q[i][2]
    <3>1. i \in 1 .. Len(q) /\ w[i] = q[i]
      BY <1>1, <1>2, <1>5, <2>1
    <3>2. /\ k \in Nat \ {0} /\ Size[h] \in Nat \ {0} /\ k <= Size[h]
          /\ k <= i /\ i - k + Size[h] <= Len(q)
          /\ \A m \in 1 .. Size[h] : q[i - k + m] = <<h, m>>
      BY <1>3, <3>1 DEF Whole
    <3>3. w[i][1] = h /\ w[i][2] = k
      BY <3>1
    <3> HIDE DEF h, k
    <3>4. \A m \in 1 .. Size[h] : i - k + m \in 1 .. Len(q)
      <4>1. /\ k \in Nat \ {0} /\ Size[h] \in Nat \ {0} /\ i \in Nat /\ Len(q) \in Nat
            /\ k <= i /\ i - k + Size[h] <= Len(q)
        BY <1>8, <3>1, <3>2
      <4> QED
        BY <4>1
    <3>5. \A m \in 1 .. Size[h] : w[i - k + m] = <<h, m>>
      BY <1>5, <3>2, <3>4
    <3>6. i - k + Size[h] <= Len(w)
      BY <1>1, <1>2, <3>1, <3>2
    <3> QED
      BY <3>2, <3>3, <3>5, <3>6
  <2>2. CASE ~(i <= Len(q))
    <3> DEFINE m0 == i - Len(q)
    <3>1. m0 \in 1 .. Size[g] /\ i = Len(q) + m0 /\ i - m0 = Len(q)
      BY <1>1, <1>2, <2>2
    <3> HIDE DEF m0
    <3>2. w[i] = <<g, m0>>
      BY <1>6, <3>1
    <3>3. w[i][1] = g /\ w[i][2] = m0
      BY <3>2
    <3>4. m0 <= i /\ i - m0 + Size[g] <= Len(w)
      BY <1>1, <1>2, <3>1
    <3> QED
      BY <1>6, <3>1, <3>3, <3>4
  <2> QED
    BY <2>1, <2>2
<1> QED
  BY <1>2, <1>4, <1>7 DEF w

\* A computer that receives a whole group.
LEMMA TogetherAppended ==
    ASSUME NEW s \in Seq(Requests), Together(s), NEW g \in Groups
    PROVE  s \o Group(g) \in Seq(Requests) /\ Together(s \o Group(g))
<1> DEFINE w == s \o Group(g)
<1>1. /\ Group(g) \in Seq(Requests) /\ Len(Group(g)) = Size[g]
      /\ \A i \in 1 .. Size[g] : Group(g)[i] = <<g, i>>
      /\ Size[g] \in Nat \ {0} /\ Len(s) \in Nat
  BY GroupFacts
<1>2. /\ w \in Seq(Requests) /\ Len(w) = Len(s) + Size[g]
      /\ \A i \in 1 .. Len(s) + Size[g] :
            w[i] = IF i <= Len(s) THEN s[i] ELSE Group(g)[i - Len(s)]
  <2> DEFINE G == Group(g)
  <2>1. G \in Seq(Requests) /\ Len(G) = Size[g]
    BY <1>1
  <2> HIDE DEF G
  <2>2. /\ s \o G \in Seq(Requests) /\ Len(s \o G) = Len(s) + Len(G)
        /\ \A i \in 1 .. Len(s) + Len(G) : (s \o G)[i] = IF i <= Len(s) THEN s[i] ELSE G[i - Len(s)]
    BY <2>1, ConcatProperties
  <2> QED
    BY <2>1, <2>2 DEF G
<1> HIDE DEF w
<1>6. Len(s) \in Nat /\ Size[g] \in Nat
  BY <1>1
<1>3. \A i \in 1 .. Len(s) : w[i] = s[i]
  <2>1. \A i \in 1 .. Len(s) : i \in 1 .. Len(s) + Size[g] /\ i <= Len(s)
    BY <1>6
  <2> QED
    BY <1>2, <2>1
<1>4. \A m \in 1 .. Size[g] : w[Len(s) + m] = <<g, m>>
  <2> TAKE m \in 1 .. Size[g]
  <2>1. /\ Len(s) + m \in 1 .. Len(s) + Size[g] /\ ~(Len(s) + m <= Len(s))
        /\ (Len(s) + m) - Len(s) = m
    BY <1>1
  <2> QED
    BY <1>1, <1>2, <2>1
<1>5. ASSUME NEW k \in 1 .. Len(w), w[k][2] > 1
      PROVE  k > 1 /\ w[k - 1] = <<w[k][1], w[k][2] - 1>>
  <2>1. CASE k <= Len(s)
    <3>1. k \in 1 .. Len(s) /\ w[k] = s[k]
      BY <1>1, <1>3, <2>1
    <3>2. k > 1 /\ s[k - 1] = <<s[k][1], s[k][2] - 1>>
      BY <1>5, <3>1 DEF Together
    <3>3. k - 1 \in 1 .. Len(s)
      BY <1>1, <3>1, <3>2
    <3> QED
      BY <1>3, <3>1, <3>2, <3>3
  <2>2. CASE ~(k <= Len(s))
    <3> DEFINE m == k - Len(s)
    <3>1. m \in 1 .. Size[g] /\ k = Len(s) + m
      BY <1>1, <1>2, <2>2
    <3> HIDE DEF m
    <3>2. w[k][1] = g /\ w[k][2] = m
      BY <1>4, <3>1
    <3>3. m - 1 \in 1 .. Size[g] /\ k - 1 = Len(s) + (m - 1) /\ k > 1
      BY <1>1, <1>5, <3>1, <3>2
    <3>4. w[k - 1] = <<g, m - 1>>
      BY <1>4, <3>3
    <3> QED
      BY <3>2, <3>3, <3>4
  <2> QED
    BY <2>1, <2>2
<1> QED
  BY <1>2, <1>5 DEF w, Together

\* What is before the end of a sequence is together, too.
LEMMA TogetherStart ==
    ASSUME NEW s \in Seq(Requests), NEW t \in Seq(Requests), Together(s \o t)
    PROVE  Together(s)
<1> DEFINE w == s \o t
<1>1. /\ Len(w) = Len(s) + Len(t) /\ Len(s) \in Nat /\ Len(t) \in Nat
      /\ \A i \in 1 .. Len(s) + Len(t) : w[i] = IF i <= Len(s) THEN s[i] ELSE t[i - Len(s)]
  BY ConcatProperties
<1>2. Together(w)
  OBVIOUS
<1> HIDE DEF w
<1>3. \A i \in 1 .. Len(s) : w[i] = s[i] /\ i \in 1 .. Len(w)
  BY <1>1
<1>4. ASSUME NEW k \in 1 .. Len(s), s[k][2] > 1
      PROVE  k > 1 /\ s[k - 1] = <<s[k][1], s[k][2] - 1>>
  <2>1. k > 1 /\ w[k - 1] = <<s[k][1], s[k][2] - 1>>
    BY <1>2, <1>3, <1>4 DEF Together
  <2>2. k - 1 \in 1 .. Len(s)
    BY <1>1, <2>1
  <2> QED
    BY <1>3, <2>1, <2>2
<1> QED
  BY <1>4 DEF Together
-----------------------------------------------------------------------------
(***************************************************************************)
(* Answers A, requests M received or lost and a packet P, one after the    *)
(* other, are what waits for an answer.                                    *)
(***************************************************************************)
LEMMA TransitOrder ==
    ASSUME NEW S, NEW A \in Seq(S), NEW M \in Seq(S), NEW P \in Seq(S)
    PROVE  LET R == (A \o M) \o P IN
           /\ Len(A) <= Len(R) /\ \A i \in 1 .. Len(A) : A[i] = R[i]
           /\ P # <<>> => R # <<>>
<1> DEFINE B == A \o M
           R == B \o P
<1>1. /\ B \in Seq(S) /\ Len(B) = Len(A) + Len(M)
      /\ \A i \in 1 .. Len(A) + Len(M) : B[i] = IF i <= Len(A) THEN A[i] ELSE M[i - Len(A)]
  BY ConcatProperties
<1>8. B \in Seq(S)
  BY <1>1
<1> HIDE DEF B
<1>2. /\ R \in Seq(S) /\ Len(R) = Len(B) + Len(P)
      /\ \A i \in 1 .. Len(B) + Len(P) : R[i] = IF i <= Len(B) THEN B[i] ELSE P[i - Len(B)]
  BY <1>8, ConcatProperties
<1> HIDE DEF R
<1>3. Len(A) \in Nat /\ Len(M) \in Nat /\ Len(P) \in Nat
  OBVIOUS
<1>4. \A i \in 1 .. Len(A) : /\ i \in 1 .. Len(A) + Len(M) /\ i <= Len(A)
                             /\ i \in 1 .. Len(B) + Len(P) /\ i <= Len(B)
  BY <1>1, <1>3
<1>5. \A i \in 1 .. Len(A) : A[i] = R[i]
  BY <1>1, <1>2, <1>4
<1>6. Len(A) <= Len(R)
  BY <1>1, <1>2, <1>3
<1>7. P # <<>> => R # <<>>
  <2>1. R = <<>> => P = <<>>
    BY <1>1, ConcatEqualIffEmpty DEF R
  <2> QED
    BY <2>1
<1> QED
  BY <1>5, <1>6, <1>7 DEF B, R

\* An answer arrives.
LEMMA TransitAnswered ==
    ASSUME NEW S, NEW A \in Seq(S), NEW M \in Seq(S), NEW P \in Seq(S), A # <<>>
    PROVE  Tail((A \o M) \o P) = (Tail(A) \o M) \o P
<1> DEFINE B == A \o M
<1>1. Tail(A) \o M = Tail(B) /\ B # <<>>
  BY TailOfConcat
<1>2. B \in Seq(S)
  BY ConcatProperties
<1> HIDE DEF B
<1>3. Tail(B) \o P = Tail(B \o P)
  BY <1>1, <1>2, TailOfConcat
<1> QED
  BY <1>1, <1>3 DEF B

\* The packet is written.
LEMMA TransitWritten ==
    ASSUME NEW S, NEW A \in Seq(S), NEW M \in Seq(S), NEW P \in Seq(S)
    PROVE  /\ M \o P \in Seq(S)
           /\ (A \o M) \o P = A \o (M \o P)
           /\ (A \o (M \o P)) \o <<>> = A \o (M \o P)
<1>1. M \o P \in Seq(S)
  BY ConcatProperties
<1>2. (A \o M) \o P = A \o (M \o P)
  BY ConcatAssociative
<1> DEFINE B == A \o (M \o P)
<1>3. B \in Seq(S)
  BY <1>1, ConcatProperties
<1> HIDE DEF B
<1>4. B \o <<>> = B
  BY <1>3, ConcatEmptySeq
<1> QED
  BY <1>1, <1>2, <1>4 DEF B

\* The last of the answers are lost.
LEMMA TransitClosed ==
    ASSUME NEW S, NEW A \in Seq(S), NEW M \in Seq(S), NEW n \in 0 .. Len(A)
    PROVE  /\ SubSeq(A, 1, n) \in Seq(S)
           /\ SubSeq(A, n + 1, Len(A)) \o M \in Seq(S)
           /\ A \o M = SubSeq(A, 1, n) \o (SubSeq(A, n + 1, Len(A)) \o M)
<1> DEFINE L == SubSeq(A, 1, n)
           T == SubSeq(A, n + 1, Len(A))
<1>1. Len(A) \in Nat /\ n \in Nat /\ n <= Len(A) /\ \A i \in 1 .. Len(A) : A[i] \in S
  BY ElementOfSeq
<1>2. L \in Seq(S)
  <2>1. 1 \in Int /\ n \in Int /\ \A i \in 1 .. n : A[i] \in S
    BY <1>1
  <2> QED
    BY <2>1, SubSeqProperties
<1>3. T \in Seq(S)
  <2> DEFINE a == n + 1
  <2>1. a \in Int /\ Len(A) \in Int /\ \A i \in a .. Len(A) : A[i] \in S
    BY <1>1
  <2> HIDE DEF a
  <2>2. SubSeq(A, a, Len(A)) \in Seq(S)
    BY <2>1, SubSeqProperties
  <2> QED
    BY <2>2 DEF a
<1>4. L \o T = A
  <2>1. 1 \in 1 .. Len(A) + 1 /\ n \in 1 - 1 .. Len(A) /\ Len(A) \in n .. Len(A)
    BY <1>1
  <2>2. SubSeq(A, 1, n) \o SubSeq(A, n + 1, Len(A)) = SubSeq(A, 1, Len(A))
    BY <2>1, ConcatAdjacentSubSeq
  <2>3. SubSeq(A, 1, Len(A)) = A
    BY SubSeqFull
  <2> QED
    BY <2>2, <2>3
<1> HIDE DEF L, T
<1>5. T \o M \in Seq(S) /\ (L \o T) \o M = L \o (T \o M)
  BY <1>2, <1>3, ConcatProperties, ConcatAssociative
<1> QED
  BY <1>2, <1>4, <1>5 DEF L, T
-----------------------------------------------------------------------------
(***************************************************************************)
(* Connections that a step leaves alone, and the start.                    *)
(***************************************************************************)
LEMMA ConnTypes ==
    ASSUME TypeOK, NEW c \in Conns
    PROVE  /\ {request_queue[c], response_queue[c], packet[c], inbox[c], executed[c], answers[c]}
                \subseteq Seq(Requests)
           /\ writer[c] \in {"NotWriting", "Writing"} /\ timeout[c] \in BOOLEAN
           /\ next[c] \in Conns \cup {NoConn} /\ prev[c] \in Conns \cup {NoConn}
           /\ login[c] \in Names \cup {NoName} /\ name[c] \in Names \cup {NoName}
BY DEF TypeOK

Same(c) ==
    /\ request_queue'[c] = request_queue[c] /\ response_queue'[c] = response_queue[c]
    /\ writer'[c] = writer[c] /\ packet'[c] = packet[c] /\ timeout'[c] = timeout[c]
    /\ name'[c] = name[c] /\ inbox'[c] = inbox[c] /\ executed'[c] = executed[c]
    /\ answers'[c] = answers[c]
    /\ c \in open' <=> c \in open
    /\ c \in connected' <=> c \in connected
    /\ c \notin open => login'[c] = NoName

\* What a step does not touch of a connection stays as it is.
LEMMA Kept ==
    ASSUME NEW c \in Conns, ConnOK(c), Same(c)
    PROVE  ConnOK(c)'
<1>1. c \in open => OpenOK(c)'
  BY DEF ConnOK, OpenOK, InTransit, Same
<1>2. c \notin open => DroppedOK(c)'
  BY DEF ConnOK, DroppedOK, Same
<1>3. TimerOK(c)'
  BY DEF ConnOK, TimerOK, Same
<1>5. GroupsOK(c)'
  <2>1. Whole(request_queue[c])'
    <3>1. Whole(request_queue[c]) /\ request_queue'[c] = request_queue[c]
      BY DEF ConnOK, GroupsOK, Same
    <3> QED
      BY <3>1 DEF Whole
  <2>2. Together(executed[c] \o inbox[c])'
    <3>1. /\ Together(executed[c] \o inbox[c])
          /\ executed'[c] \o inbox'[c] = executed[c] \o inbox[c]
      BY DEF ConnOK, GroupsOK, Same
    <3> QED
      BY <3>1 DEF Together
  <2>3. (packet[c] = <<>> \/ \E g \in Groups : packet[c] = Group(g))'
    BY DEF ConnOK, GroupsOK, Same, Group
  <2> QED
    BY <2>1, <2>2, <2>3 DEF GroupsOK
<1>4. c \notin connected => inbox'[c] = <<>>
  BY DEF ConnOK, Same
<1> QED
  BY <1>1, <1>2, <1>3, <1>4, <1>5 DEF ConnOK, Same

\* The empty sequence consists of whole groups.
LEMMA NothingTogether == Whole(<<>>) /\ Together(<<>>)
<1>1. 1 .. Len(<<>>) = {}
  OBVIOUS
<1> QED
  BY <1>1 DEF Whole, Together

\* The invariant holds at first, when no connection is open.
LEMMA InitInv == Init => Inv
<1> SUFFICES ASSUME Init PROVE Inv
  OBVIOUS
<1>1. <<>> \in Seq(Requests) /\ <<>> \o <<>> = <<>>
  BY EmptySeq, ConcatEmptySeq
<1>2. TypeOK
  BY <1>1 DEF Init, TypeOK
<1>3. LoginsAreOpen
  BY DEF Init, LoginsAreOpen
<1>4. ASSUME NEW c \in Conns PROVE ConnOK(c)
  BY <1>1, NothingTogether DEF Init, ConnOK, DroppedOK, TimerOK, GroupsOK
<1> QED
  BY <1>2, <1>3, <1>4 DEF Inv
-----------------------------------------------------------------------------
(***************************************************************************)
(* The computers.                                                          *)
(***************************************************************************)
LEMMA ExecuteStep ==
    ASSUME Inv, NEW c \in Conns, Execute(c)
    PROVE  Inv'
<1> DEFINE M == inbox[c]
           A == answers[c]
           E == executed[c]
<1>1. /\ TypeOK /\ LoginsAreOpen /\ ConnOK(c) /\ \A x \in Conns : ConnOK(x)
      /\ M \in Seq(Requests) /\ A \in Seq(Requests) /\ E \in Seq(Requests)
  BY ConnTypes DEF Inv
<1>2. /\ c \in connected /\ M # <<>>
      /\ inbox' = [inbox EXCEPT ![c] = Tail(M)]
      /\ executed' = [executed EXCEPT ![c] = Append(E, Head(M))]
      /\ answers' = IF c \in open THEN [answers EXCEPT ![c] = Append(A, Head(M))] ELSE answers
      /\ UNCHANGED <<open, listVars, loginVars, queueVars, status, name, connected>>
  BY DEF Execute
<1> HIDE DEF M, A, E
<1>3. Tail(M) \in Seq(Requests) /\ Head(M) \in Requests
  BY <1>1, <1>2, SequenceStep
<1>4. Append(E, Head(M)) \in Seq(Requests) /\ Append(A, Head(M)) \in Seq(Requests)
  BY <1>1, <1>3, AppendProperties
<1>5. Append(E, Head(M)) \o Tail(M) = E \o M /\ Append(A, Head(M)) \o Tail(M) = A \o M
  BY <1>1, <1>2, MoveHead
<1>6. /\ inbox'[c] = Tail(M) /\ executed'[c] = Append(E, Head(M))
      /\ answers'[c] = IF c \in open THEN Append(A, Head(M)) ELSE A
      /\ \A x \in Conns \ {c} : inbox'[x] = inbox[x] /\ executed'[x] = executed[x]
                                /\ answers'[x] = answers[x]
  BY <1>1, <1>2 DEF TypeOK, A
<1>7. TypeOK'
  BY <1>1, <1>2, <1>3, <1>4 DEF TypeOK, listVars, loginVars, queueVars
<1>8. LoginsAreOpen'
  BY <1>1, <1>2 DEF LoginsAreOpen, loginVars
<1>9. ASSUME NEW x \in Conns, x # c PROVE ConnOK(x)'
  <2>1. Same(x)
    BY <1>1, <1>2, <1>6, <1>9 DEF Same, queueVars, loginVars, ConnOK, DroppedOK
  <2> QED
    BY <1>1, <2>1, Kept
<1>10. ConnOK(c)'
  <2>1. ASSUME c \in open PROVE OpenOK(c)'
    <3>1. OpenOK(c) /\ InTransit(c, M)
      BY <1>1, <1>2, <2>1 DEF ConnOK, OpenOK, M
    <3>2. response_queue'[c] = (answers'[c] \o Tail(M)) \o packet'[c]
      BY <1>2, <1>5, <1>6, <2>1, <3>1 DEF InTransit, queueVars, A
    <3> QED
      BY <1>2, <1>3, <1>6, <3>1, <3>2 DEF OpenOK, InTransit, queueVars
  <2>2. c \notin open => DroppedOK(c)'
    BY <1>1, <1>2, <1>6 DEF ConnOK, DroppedOK, queueVars, loginVars, A
  <2>3. TimerOK(c)'
    BY <1>1, <1>2 DEF ConnOK, TimerOK, queueVars
  <2>4. GroupsOK(c)'
    <3>1. executed'[c] \o inbox'[c] = executed[c] \o inbox[c]
      BY <1>5, <1>6 DEF M, E
    <3>2. request_queue' = request_queue /\ packet' = packet
      BY <1>2 DEF queueVars
    <3>3. GroupsOK(c)
      BY <1>1 DEF ConnOK
    <3>4. Together(executed[c] \o inbox[c]) => Together(executed'[c] \o inbox'[c])
      BY <3>1
    <3> QED
      BY <3>1, <3>2, <3>3 DEF GroupsOK, Whole, Together, Group
  <2> QED
    BY <1>2, <2>1, <2>2, <2>3, <2>4 DEF ConnOK
<1> QED
  BY <1>7, <1>8, <1>9, <1>10 DEF Inv

\* The end of a connection at the side of the computer preserves the invariant.
LEMMA ClosedStep ==
    ASSUME Inv, NEW c \in Conns, Closed(c)
    PROVE  Inv'
<1> DEFINE A == answers[c]
           E == executed[c]
<1>1. /\ TypeOK /\ LoginsAreOpen /\ ConnOK(c) /\ \A x \in Conns : ConnOK(x)
      /\ inbox[c] \in Seq(Requests) /\ A \in Seq(Requests) /\ E \in Seq(Requests)
      /\ packet[c] \in Seq(Requests)
  BY ConnTypes DEF Inv
<1>2. /\ connected' = connected \ {c}
      /\ inbox' = [inbox EXCEPT ![c] = <<>>]
      /\ UNCHANGED <<open, listVars, loginVars, queueVars, status, name, executed>>
  BY DEF Closed
<1>3. PICK n \in 0 .. Len(A) : answers' = [answers EXCEPT ![c] = SubSeq(A, 1, n)]
  BY DEF Closed
<1> HIDE DEF A
<1> DEFINE L == SubSeq(A, 1, n)
<1>4. L \in Seq(Requests) /\ \A M \in Seq(Requests) : \E N \in Seq(Requests) : A \o M = L \o N
  <2>1. A \in Seq(Requests) /\ <<>> \in Seq(Requests)
    BY <1>1, EmptySeq
  <2>2. ASSUME NEW M \in Seq(Requests)
        PROVE  L \in Seq(Requests) /\ \E N \in Seq(Requests) : A \o M = L \o N
    <3>1. n \in 0 .. Len(A)
      BY <1>3
    <3>2. /\ SubSeq(A, 1, n) \in Seq(Requests)
          /\ SubSeq(A, n + 1, Len(A)) \o M \in Seq(Requests)
          /\ A \o M = SubSeq(A, 1, n) \o (SubSeq(A, n + 1, Len(A)) \o M)
      BY <2>1, <3>1, TransitClosed
    <3> QED
      BY <3>2
  <2> QED
    BY <2>1, <2>2
<1>5. <<>> \in Seq(Requests)
  BY EmptySeq
<1> HIDE DEF L, A, E
<1>6. /\ inbox'[c] = <<>> /\ answers'[c] = L
      /\ \A x \in Conns \ {c} : inbox'[x] = inbox[x] /\ answers'[x] = answers[x]
  BY <1>1, <1>2, <1>3 DEF TypeOK, L
<1>7. TypeOK'
  <2>1. answers' = [answers EXCEPT ![c] = L]
    BY <1>3 DEF L
  <2> QED
    BY <1>1, <1>2, <1>4, <1>5, <2>1 DEF TypeOK, listVars, loginVars, queueVars
<1>8. LoginsAreOpen'
  BY <1>1, <1>2 DEF LoginsAreOpen, loginVars
<1>9. ASSUME NEW x \in Conns, x # c PROVE ConnOK(x)'
  <2>1. Same(x)
    BY <1>1, <1>2, <1>6, <1>9 DEF Same, queueVars, loginVars, ConnOK, DroppedOK
  <2> QED
    BY <1>1, <2>1, Kept
<1>10. ConnOK(c)'
  <2>1. ASSUME c \in open PROVE OpenOK(c)'
    <3>1. OpenOK(c)
      BY <1>1, <2>1 DEF ConnOK
    <3>2. PICK M \in Seq(Requests) : InTransit(c, M)
      BY <3>1 DEF OpenOK
    <3>3. PICK N \in Seq(Requests) : A \o M = L \o N
      BY <1>4
    <3>4. response_queue'[c] = (answers'[c] \o N) \o packet'[c]
      BY <1>2, <1>6, <3>2, <3>3 DEF InTransit, queueVars, A
    <3> QED
      BY <1>2, <3>1, <3>4 DEF OpenOK, InTransit, queueVars
  <2>2. ASSUME c \notin open PROVE DroppedOK(c)'
    <3>1. DroppedOK(c) /\ A = <<>>
      BY <1>1, <2>2 DEF ConnOK, DroppedOK, A
    <3>2. L = <<>>
      <4>1. Len(A) = 0 /\ n = 0
        BY <3>1
      <4> QED
        BY <4>1, SubSeqEmpty DEF L
    <3> QED
      BY <1>2, <1>6, <3>1, <3>2 DEF DroppedOK, queueVars, loginVars
  <2>3. TimerOK(c)'
    BY <1>1, <1>2 DEF ConnOK, TimerOK, queueVars
  <2>4. GroupsOK(c)'
    <3>1. GroupsOK(c)
      BY <1>1 DEF ConnOK
    <3>2. Together(E)
      BY <1>1, <3>1, TogetherStart DEF GroupsOK, E
    <3>3. executed'[c] \o inbox'[c] = E
      BY <1>1, <1>2, <1>6, ConcatEmptySeq DEF E
    <3>4. Together(executed'[c] \o inbox'[c])
      BY <3>2, <3>3
    <3>5. request_queue' = request_queue /\ packet' = packet
      BY <1>2 DEF queueVars
    <3> QED
      BY <3>1, <3>4, <3>5 DEF GroupsOK, Whole, Together, Group
  <2> QED
    BY <1>2, <1>6, <2>1, <2>2, <2>3, <2>4 DEF ConnOK
<1> QED
  BY <1>7, <1>8, <1>9, <1>10 DEF Inv
-----------------------------------------------------------------------------
(***************************************************************************)
(* The writer and the reader.                                              *)
(***************************************************************************)
LEMMA WriteStep ==
    ASSUME Inv, NEW c \in Conns, Write(c)
    PROVE  Inv'
<1> DEFINE q == request_queue[c]
           P == packet[c]
           G == NextGroup(q)
           rest == SubSeq(q, Len(G) + 1, Len(q))
<1>1. /\ TypeOK /\ LoginsAreOpen /\ ConnOK(c) /\ \A x \in Conns : ConnOK(x)
      /\ q \in Seq(Requests) /\ P \in Seq(Requests)
      /\ {response_queue[c], answers[c], inbox[c], executed[c]} \subseteq Seq(Requests)
  BY ConnTypes DEF Inv
<1>2. /\ c \in open /\ writer[c] = "Writing"
      /\ inbox' = IF c \in connected THEN [inbox EXCEPT ![c] = inbox[c] \o P] ELSE inbox
      /\ UNCHANGED <<open, listVars, loginVars, timeout, status, name, connected, executed, answers>>
  BY DEF Write
<1>3. \/ /\ q = <<>>
         /\ writer' = [writer EXCEPT ![c] = "NotWriting"]
         /\ packet' = [packet EXCEPT ![c] = <<>>]
         /\ UNCHANGED <<request_queue, response_queue>>
      \/ /\ q # <<>>
         /\ request_queue' = [request_queue EXCEPT ![c] = rest]
         /\ response_queue' = [response_queue EXCEPT ![c] = response_queue[c] \o G]
         /\ packet' = [packet EXCEPT ![c] = G]
         /\ UNCHANGED writer
  BY DEF Write, ToAnswer
<1>4. /\ OpenOK(c) /\ GroupsOK(c) /\ TimerOK(c) /\ Whole(q)
      /\ c \notin connected => inbox[c] = <<>>
  BY <1>1, <1>2 DEF ConnOK, GroupsOK
<1>5. PICK M \in Seq(Requests) : InTransit(c, M) /\ (c \in connected => M = inbox[c])
  BY <1>4 DEF OpenOK
<1>6. q # <<>> => /\ Head(q)[1] \in Groups /\ G = Group(Head(q)[1]) /\ G \in Seq(Requests)
                  /\ G # <<>> /\ rest \in Seq(Requests) /\ Whole(rest)
  <2> SUFFICES ASSUME q # <<>>
               PROVE  /\ Head(q)[1] \in Groups /\ G = Group(Head(q)[1]) /\ G \in Seq(Requests)
                      /\ G # <<>> /\ rest \in Seq(Requests) /\ Whole(rest)
    OBVIOUS
  <2>1. /\ Head(q)[1] \in Groups /\ NextGroup(q) = Group(Head(q)[1])
        /\ SubSeq(q, Len(NextGroup(q)) + 1, Len(q)) \in Seq(Requests)
        /\ Whole(SubSeq(q, Len(NextGroup(q)) + 1, Len(q)))
    <3> HIDE DEF q
    <3> QED
      BY <1>1, <1>4, FirstGroup
  <2>2. Group(Head(q)[1]) \in Seq(Requests) /\ Group(Head(q)[1]) # <<>>
    BY <2>1, GroupFacts
  <2> QED
    BY <2>1, <2>2
<1>7. response_queue[c] = (answers[c] \o M) \o P
  BY <1>5 DEF InTransit
<1> HIDE DEF q, P, G, rest
<1>8. /\ inbox[c] \o P \in Seq(Requests) /\ M \o P \in Seq(Requests)
      /\ response_queue[c] = (answers[c] \o (M \o P)) \o <<>>
      /\ \A K \in Seq(Requests) : response_queue[c] \o K = (answers[c] \o (M \o P)) \o K
  <2> DEFINE A == answers[c]
             R == response_queue[c]
             I == inbox[c]
  <2>1. A \in Seq(Requests) /\ I \in Seq(Requests) /\ P \in Seq(Requests) /\ R = (A \o M) \o P
    BY <1>1, <1>7
  <2> HIDE DEF A, R, I
  <2>2. I \o P \in Seq(Requests)
    BY <2>1, ConcatProperties
  <2>3. /\ M \o P \in Seq(Requests)
        /\ (A \o M) \o P = A \o (M \o P)
        /\ (A \o (M \o P)) \o <<>> = A \o (M \o P)
    BY <2>1, TransitWritten
  <2>4. R = (A \o (M \o P)) \o <<>> /\ \A K \in Seq(Requests) : R \o K = (A \o (M \o P)) \o K
    BY <2>1, <2>3
  <2> QED
    BY <2>2, <2>3, <2>4 DEF A, R, I
<1>9. <<>> \in Seq(Requests)
  BY EmptySeq
<1>10. response_queue[c] \o G \in Seq(Requests) \/ q = <<>>
  BY <1>1, <1>6, ConcatProperties
<1>11. /\ inbox'[c] = IF c \in connected THEN inbox[c] \o P ELSE inbox[c]
       /\ \A x \in Conns \ {c} : inbox'[x] = inbox[x]
  BY <1>1, <1>2 DEF TypeOK
<1>12. \/ /\ q = <<>> /\ writer'[c] = "NotWriting" /\ packet'[c] = <<>>
          /\ request_queue'[c] = q /\ response_queue'[c] = response_queue[c]
       \/ /\ q # <<>> /\ writer'[c] = "Writing" /\ packet'[c] = G
          /\ request_queue'[c] = rest /\ response_queue'[c] = response_queue[c] \o G
  BY <1>1, <1>2, <1>3 DEF TypeOK, q
<1>13. \A x \in Conns \ {c} : /\ writer'[x] = writer[x] /\ packet'[x] = packet[x]
                              /\ request_queue'[x] = request_queue[x]
                              /\ response_queue'[x] = response_queue[x]
  BY <1>1, <1>3 DEF TypeOK
<1>14. TypeOK'
  <2>1. inbox' \in [Conns -> Seq(Requests)]
    BY <1>1, <1>2, <1>8 DEF TypeOK
  <2>2. /\ writer' \in [Conns -> {"NotWriting", "Writing"}]
        /\ packet' \in [Conns -> Seq(Requests)] /\ request_queue' \in [Conns -> Seq(Requests)]
        /\ response_queue' \in [Conns -> Seq(Requests)]
    <3>1. CASE q = <<>>
      <4>1. /\ writer' = [writer EXCEPT ![c] = "NotWriting"] /\ packet' = [packet EXCEPT ![c] = <<>>]
            /\ request_queue' = request_queue /\ response_queue' = response_queue
        BY <1>3, <3>1
      <4> QED
        BY <1>1, <1>9, <4>1 DEF TypeOK
    <3>2. CASE q # <<>>
      <4>1. /\ rest \in Seq(Requests) /\ G \in Seq(Requests)
            /\ response_queue[c] \o G \in Seq(Requests)
        BY <1>6, <1>10, <3>2
      <4>2. /\ request_queue' = [request_queue EXCEPT ![c] = rest] /\ writer' = writer
            /\ response_queue' = [response_queue EXCEPT ![c] = response_queue[c] \o G]
            /\ packet' = [packet EXCEPT ![c] = G]
        BY <1>3, <3>2
      <4>3. request_queue' \in [Conns -> Seq(Requests)] /\ packet' \in [Conns -> Seq(Requests)]
        BY <1>1, <4>1, <4>2 DEF TypeOK
      <4>4. response_queue' \in [Conns -> Seq(Requests)]
        <5> DEFINE new == response_queue[c] \o G
        <5>1. new \in Seq(Requests) /\ response_queue' = [response_queue EXCEPT ![c] = new]
          BY <4>1, <4>2
        <5> HIDE DEF new
        <5> QED
          BY <1>1, <5>1 DEF TypeOK
      <4> QED
        BY <1>1, <4>2, <4>3, <4>4 DEF TypeOK
    <3> QED
      BY <3>1, <3>2
  <2> QED
    BY <1>1, <1>2, <2>1, <2>2 DEF TypeOK, listVars, loginVars
<1>15. LoginsAreOpen'
  BY <1>1, <1>2 DEF LoginsAreOpen, loginVars
<1>16. ASSUME NEW x \in Conns, x # c PROVE ConnOK(x)'
  <2>1. Same(x)
    BY <1>1, <1>2, <1>11, <1>13, <1>16 DEF Same, loginVars, ConnOK, DroppedOK
  <2> QED
    BY <1>1, <2>1, Kept
<1>17. ConnOK(c)'
  <2>1. OpenOK(c)'
    <3>1. response_queue'[c] = (answers'[c] \o (M \o P)) \o packet'[c]
      BY <1>2, <1>6, <1>8, <1>12
    <3>2. c \in connected' => M \o P = inbox'[c]
      BY <1>2, <1>5, <1>11
    <3>3. writer'[c] = "Writing" <=> (request_queue'[c] # <<>> \/ packet'[c] # <<>>)
      BY <1>6, <1>12
    <3>4. name'[c] \in Names
      BY <1>2, <1>4 DEF OpenOK
    <3> QED
      BY <1>8, <3>1, <3>2, <3>3, <3>4 DEF OpenOK, InTransit
  <2>2. TimerOK(c)'
    <3>1. timeout[c] <=> (q # <<>> \/ response_queue[c] # <<>>)
      BY <1>2, <1>4 DEF TimerOK, q
    <3>2. q # <<>> => response_queue[c] \o G # <<>>
      BY <1>1, <1>6, ConcatEqualIffEmpty
    <3>3. timeout'[c] <=> (request_queue'[c] # <<>> \/ response_queue'[c] # <<>>)
      BY <1>2, <1>12, <3>1, <3>2
    <3> QED
      BY <1>2, <3>3 DEF TimerOK
  <2>3. Whole(request_queue[c])'
    <3>1. \E w \in Seq(Requests) : request_queue'[c] = w /\ Whole(w)
      BY <1>1, <1>4, <1>6, <1>12
    <3> QED
      BY <3>1 DEF Whole
  <2>4. (packet[c] = <<>> \/ \E g \in Groups : packet[c] = Group(g))'
    BY <1>6, <1>12 DEF Group
  <2>5. Together(executed[c] \o inbox[c])'
    <3> DEFINE s == executed[c] \o inbox[c]
               t == executed'[c] \o inbox'[c]
    <3>1. s \in Seq(Requests) /\ Together(s)
      BY <1>1, <1>4, ConcatProperties DEF GroupsOK
    <3>2. ASSUME c \in connected PROVE t = s \o P
      <4>1. t = executed[c] \o (inbox[c] \o P)
        BY <1>2, <1>11, <3>2
      <4> HIDE DEF t
      <4>2. (executed[c] \o inbox[c]) \o P = executed[c] \o (inbox[c] \o P)
        <5> DEFINE E == executed[c]
                   I == inbox[c]
        <5>1. E \in Seq(Requests) /\ I \in Seq(Requests) /\ P \in Seq(Requests)
          BY <1>1
        <5> HIDE DEF E, I
        <5>2. (E \o I) \o P = E \o (I \o P)
          BY <5>1, ConcatAssociative
        <5> QED
          BY <5>2 DEF E, I
      <4> QED
        BY <4>1, <4>2
    <3>3. c \notin connected => t = s
      BY <1>2, <1>11
    <3>4. P = <<>> \/ \E g \in Groups : P = Group(g)
      BY <1>4 DEF GroupsOK, P
    <3> HIDE DEF s
    <3>5. \E w \in Seq(Requests) : t = w /\ Together(w)
      <4> HIDE DEF t
      <4>1. P = <<>> => s \o P = s
        BY <3>1, ConcatEmptySeq
      <4>2. ASSUME NEW g \in Groups, P = Group(g)
            PROVE  s \o P \in Seq(Requests) /\ Together(s \o P)
        BY <3>1, <4>2, TogetherAppended
      <4>3. s \o P \in Seq(Requests) /\ Together(s \o P)
        BY <3>1, <3>4, <4>1, <4>2
      <4> QED
        BY <3>1, <3>2, <3>3, <4>3
    <3> QED
      BY <3>5 DEF Together
  <2> QED
    BY <1>2, <1>4, <1>11, <2>1, <2>2, <2>3, <2>4, <2>5 DEF ConnOK, GroupsOK
<1> QED
  BY <1>14, <1>15, <1>16, <1>17 DEF Inv

\* An answer preserves the invariant, and stops the timeout after the last one.
LEMMA AnsweredStep ==
    ASSUME Inv, NEW c \in Conns, Answered(c)
    PROVE  Inv'
<1> DEFINE R == response_queue[c]
           A == answers[c]
<1>1. /\ TypeOK /\ LoginsAreOpen /\ ConnOK(c) /\ \A x \in Conns : ConnOK(x)
      /\ R \in Seq(Requests) /\ A \in Seq(Requests) /\ packet[c] \in Seq(Requests)
  BY ConnTypes DEF Inv
<1>2. /\ c \in open /\ A # <<>> /\ R # <<>>
      /\ answers' = [answers EXCEPT ![c] = Tail(A)]
      /\ response_queue' = [response_queue EXCEPT ![c] = Tail(R)]
      /\ UNCHANGED <<request_queue, writer, packet, open, listVars, loginVars, gameVars>>
  BY DEF Answered
<1>3. timeout' = [timeout EXCEPT ![c] = (request_queue'[c] # <<>> \/ response_queue'[c] # <<>>)]
  BY DEF Answered, UpdateTimeout
<1>4. status' \in [Requests -> {"idle", "pending", "ok", "failed"}]
  BY <1>1 DEF Answered, Set, TypeOK
<1>5. OpenOK(c)
  BY <1>1, <1>2 DEF ConnOK
<1>6. PICK M \in Seq(Requests) : R = (A \o M) \o packet[c] /\ (c \in connected => M = inbox[c])
  BY <1>5 DEF OpenOK, InTransit
<1> HIDE DEF R, A
<1>7. Tail(R) \in Seq(Requests) /\ Tail(A) \in Seq(Requests)
  BY <1>1, <1>2, SequenceStep
<1>8. Tail(R) = (Tail(A) \o M) \o packet[c]
  <2> DEFINE P == packet[c]
  <2>1. P \in Seq(Requests) /\ R = (A \o M) \o P
    BY <1>1, <1>6
  <2> HIDE DEF P
  <2>2. Tail((A \o M) \o P) = (Tail(A) \o M) \o P
    BY <1>1, <1>2, <2>1, TransitAnswered
  <2> QED
    BY <2>1, <2>2 DEF P
<1>9. /\ answers'[c] = Tail(A) /\ response_queue'[c] = Tail(R)
      /\ timeout'[c] = (request_queue'[c] # <<>> \/ response_queue'[c] # <<>>)
      /\ \A x \in Conns \ {c} : answers'[x] = answers[x] /\ response_queue'[x] = response_queue[x]
                                /\ timeout'[x] = timeout[x]
  BY <1>1, <1>2, <1>3 DEF TypeOK
<1>10. TypeOK'
  BY <1>1, <1>2, <1>3, <1>4, <1>7 DEF TypeOK, listVars, loginVars, gameVars
<1>11. LoginsAreOpen'
  BY <1>1, <1>2 DEF LoginsAreOpen, loginVars
<1>12. ASSUME NEW x \in Conns, x # c PROVE ConnOK(x)'
  <2>1. Same(x)
    BY <1>1, <1>2, <1>9, <1>12 DEF Same, gameVars, loginVars, ConnOK, DroppedOK
  <2> QED
    BY <1>1, <2>1, Kept
<1>13. ConnOK(c)'
  <2>1. OpenOK(c)'
    BY <1>2, <1>5, <1>6, <1>8, <1>9 DEF OpenOK, InTransit, gameVars
  <2>2. TimerOK(c)'
    BY <1>2, <1>9 DEF TimerOK
  <2>3. GroupsOK(c)'
    <3>1. GroupsOK(c)
      BY <1>1 DEF ConnOK
    <3> QED
      BY <1>2, <3>1 DEF GroupsOK, Whole, Together, Group, gameVars
  <2> QED
    BY <1>1, <1>2, <2>1, <2>2, <2>3 DEF ConnOK, gameVars
<1> QED
  BY <1>10, <1>11, <1>12, <1>13 DEF Inv
-----------------------------------------------------------------------------
(***************************************************************************)
(* Connecting and disconnecting.                                           *)
(***************************************************************************)
LEMMA AcceptStep ==
    ASSUME Inv, NEW c \in Conns, NEW n \in Running, Accept(c, n)
    PROVE  Inv'
<1>1. /\ TypeOK /\ LoginsAreOpen /\ ConnOK(c) /\ \A x \in Conns : ConnOK(x)
      /\ n \in Names /\ NoConn \notin Conns
  BY ConnsAssumption DEF Inv
<1>2. /\ c \notin open /\ c \notin connected
      /\ open' = open \cup {c} /\ connected' = connected \cup {c}
      /\ clients' = c /\ next' = [next EXCEPT ![c] = clients]
      /\ prev' = [x \in Conns |-> IF x = clients THEN c ELSE prev[x]]
      /\ name' = [name EXCEPT ![c] = n] /\ executed' = [executed EXCEPT ![c] = <<>>]
      /\ UNCHANGED <<loginVars, queueVars, status, inbox, answers>>
  BY DEF Accept
<1>3. <<>> \in Seq(Requests) /\ <<>> \o <<>> = <<>> /\ (<<>> \o <<>>) \o <<>> = <<>>
  BY EmptySeq, ConcatEmptySeq
<1>4. DroppedOK(c) /\ inbox[c] = <<>> /\ TimerOK(c) /\ GroupsOK(c)
  BY <1>1, <1>2 DEF ConnOK
<1>5. name'[c] = n /\ executed'[c] = <<>>
      /\ \A x \in Conns \ {c} : name'[x] = name[x] /\ executed'[x] = executed[x]
  BY <1>1, <1>2 DEF TypeOK
<1>6. TypeOK'
  BY <1>1, <1>2, <1>3 DEF TypeOK, loginVars, queueVars
<1>7. LoginsAreOpen'
  <2>1. logins' = logins /\ login' = login /\ login[c] = NoName
    BY <1>2, <1>4 DEF loginVars, DroppedOK
  <2> QED
    BY <1>1, <1>2, <2>1 DEF LoginsAreOpen
<1>8. ASSUME NEW x \in Conns, x # c PROVE ConnOK(x)'
  <2>1. Same(x)
    BY <1>1, <1>2, <1>5, <1>8 DEF Same, queueVars, loginVars, ConnOK, DroppedOK
  <2> QED
    BY <1>1, <2>1, Kept
<1>9. ConnOK(c)'
  <2>1. /\ request_queue'[c] = <<>> /\ response_queue'[c] = <<>> /\ packet'[c] = <<>>
        /\ answers'[c] = <<>> /\ writer'[c] = "NotWriting" /\ inbox'[c] = <<>>
        /\ timeout'[c] = timeout[c]
    BY <1>2, <1>4 DEF DroppedOK, queueVars
  <2>2. OpenOK(c)'
    BY <1>1, <1>3, <1>5, <2>1 DEF OpenOK, InTransit
  <2>3. TimerOK(c)'
    BY <1>2, <1>4, <2>1 DEF TimerOK, DroppedOK
  <2>4. GroupsOK(c)'
    <3>1. 1 .. Len(<<>>) = {}
      OBVIOUS
    <3>2. executed'[c] \o inbox'[c] = <<>>
      BY <1>3, <1>5, <2>1
    <3> QED
      BY <2>1, <3>1, <3>2 DEF GroupsOK, Whole, Together
  <2> QED
    BY <1>2, <2>2, <2>3, <2>4 DEF ConnOK
<1> QED
  BY <1>6, <1>7, <1>8, <1>9 DEF Inv

\* A Client that is dropped leaves nothing behind but what the computer has.
LEMMA DroppedStep ==
    ASSUME Inv, NEW d \in open, Dropped(d), UNCHANGED gameVars,
           login' \in [Conns -> Names \cup {NoName}], logins' \in [Names -> Conns \cup {NoConn}],
           login'[d] = NoName, \A x \in Conns \ open : login'[x] = NoName
    PROVE  TypeOK' /\ \A x \in Conns : ConnOK(x)'
<1>1. /\ TypeOK /\ d \in Conns /\ ConnOK(d) /\ \A x \in Conns : ConnOK(x)
      /\ inbox[d] \in Seq(Requests) /\ executed[d] \in Seq(Requests)
  BY ConnTypes DEF Inv, TypeOK
<1>2. /\ open' = open \ {d}
      /\ request_queue' = [request_queue EXCEPT ![d] = <<>>]
      /\ response_queue' = [response_queue EXCEPT ![d] = <<>>]
      /\ writer' = [writer EXCEPT ![d] = "NotWriting"]
      /\ packet' = [packet EXCEPT ![d] = <<>>]
      /\ timeout' = [timeout EXCEPT ![d] = FALSE]
      /\ answers' = [answers EXCEPT ![d] = <<>>]
  BY DEF Dropped
<1>3. /\ clients' \in Conns \cup {NoConn}
      /\ next' \in [Conns -> Conns \cup {NoConn}] /\ prev' \in [Conns -> Conns \cup {NoConn}]
  <2>1. /\ next[d] \in Conns \cup {NoConn} /\ prev[d] \in Conns \cup {NoConn}
        /\ clients \in Conns \cup {NoConn}
        /\ \A x \in Conns : next[x] \in Conns \cup {NoConn} /\ prev[x] \in Conns \cup {NoConn}
    BY <1>1 DEF TypeOK
  <2> QED
    BY <2>1 DEF Dropped, Unlink
<1>4. status' \in [Requests -> {"idle", "pending", "ok", "failed"}]
  BY <1>1 DEF Dropped, FailAll, Set, TypeOK
<1>5. <<>> \in Seq(Requests)
  BY EmptySeq
<1>6. TypeOK'
  BY <1>1, <1>2, <1>3, <1>4, <1>5 DEF TypeOK, gameVars
<1>7. /\ request_queue'[d] = <<>> /\ response_queue'[d] = <<>> /\ writer'[d] = "NotWriting"
      /\ packet'[d] = <<>> /\ ~timeout'[d] /\ answers'[d] = <<>>
      /\ \A x \in Conns \ {d} :
            /\ request_queue'[x] = request_queue[x] /\ response_queue'[x] = response_queue[x]
            /\ writer'[x] = writer[x] /\ packet'[x] = packet[x] /\ timeout'[x] = timeout[x]
            /\ answers'[x] = answers[x]
  BY <1>1, <1>2 DEF TypeOK
<1>8. ASSUME NEW x \in Conns, x # d PROVE ConnOK(x)'
  <2>1. Same(x)
    BY <1>2, <1>7, <1>8 DEF Same, gameVars
  <2> QED
    BY <1>1, <2>1, Kept
<1>9. ConnOK(d)'
  <2>1. d \notin open' /\ DroppedOK(d)'
    BY <1>2, <1>7 DEF DroppedOK
  <2>2. TimerOK(d)'
    BY <1>7, <2>1 DEF TimerOK
  <2>3. GroupsOK(d)'
    <3>1. 1 .. Len(<<>>) = {}
      OBVIOUS
    <3>2. Together(executed[d] \o inbox[d]) /\ executed' = executed /\ inbox' = inbox
      BY <1>1 DEF ConnOK, GroupsOK, gameVars
    <3> QED
      BY <1>7, <3>1, <3>2 DEF GroupsOK, Whole, Together
  <2> QED
    BY <1>1, <2>1, <2>2, <2>3 DEF ConnOK, gameVars
<1> QED
  BY <1>6, <1>8, <1>9

\* The end of a Client, whatever led to it, preserves the invariant.
LEMMA DisconnectStep ==
    ASSUME Inv, NEW c \in open, Disconnect(c)
    PROVE  Inv'
<1>1. /\ TypeOK /\ LoginsAreOpen /\ c \in Conns /\ \A x \in Conns : ConnOK(x)
      /\ NoConn \notin Conns /\ NoName \notin Names
  BY ConnsAssumption DEF Inv, TypeOK
<1>2. /\ logins' = [n \in Names |-> IF n = login[c] THEN NoConn ELSE logins[n]]
      /\ login' = [login EXCEPT ![c] = NoName]
      /\ Dropped(c) /\ UNCHANGED gameVars
  BY DEF Disconnect
<1>3. /\ login' \in [Conns -> Names \cup {NoName}] /\ logins' \in [Names -> Conns \cup {NoConn}]
      /\ login'[c] = NoName /\ \A x \in Conns \ {c} : login'[x] = login[x]
  BY <1>1, <1>2 DEF TypeOK
<1>4. \A x \in Conns \ open : login'[x] = NoName
  BY <1>1, <1>3 DEF ConnOK, DroppedOK
<1>5. TypeOK' /\ \A x \in Conns : ConnOK(x)'
  BY <1>2, <1>3, <1>4, DroppedStep
<1>6. open' = open \ {c} /\ open \subseteq Conns
  BY <1>1, <1>2 DEF Dropped, TypeOK
<1>7. LoginsAreOpen'
  <2>1. ASSUME NEW n \in Names, logins'[n] # NoConn
        PROVE  logins'[n] \in open' /\ login'[logins'[n]] = n
    <3>1. n # login[c] /\ logins'[n] = logins[n]
      BY <1>2, <2>1
    <3>2. logins[n] \in open /\ login[logins[n]] = n
      BY <1>1, <2>1, <3>1 DEF LoginsAreOpen
    <3>3. logins[n] # c
      BY <3>1, <3>2
    <3> QED
      BY <1>3, <1>6, <3>1, <3>2, <3>3
  <2>2. ASSUME NEW x \in open', login'[x] # NoName
        PROVE  logins'[login'[x]] = x
    <3>1. x \in open /\ x # c /\ login'[x] = login[x]
      BY <1>3, <1>6, <2>2
    <3>2. login[x] \in Names /\ logins[login[x]] = x
      BY <1>1, <1>6, <2>2, <3>1 DEF LoginsAreOpen, TypeOK
    <3>3. login[x] # login[c]
      <4>1. login[c] # NoName => logins[login[c]] = c
        BY <1>1 DEF LoginsAreOpen
      <4> QED
        BY <2>2, <3>1, <3>2, <4>1
    <3> QED
      BY <1>2, <3>1, <3>2, <3>3
  <2> QED
    BY <2>1, <2>2 DEF LoginsAreOpen
<1> QED
  BY <1>5, <1>7 DEF Inv

\* A login, with the eviction of an older Client, preserves the invariant.
LEMMA LoginStep ==
    ASSUME Inv, NEW c \in Conns, Login(c)
    PROVE  Inv'
<1> DEFINE m == name[c]
           old == logins[m]
<1>1. /\ TypeOK /\ LoginsAreOpen /\ \A x \in Conns : ConnOK(x)
      /\ NoConn \notin Conns /\ NoName \notin Names
  BY ConnsAssumption DEF Inv
<1>2. /\ c \in open /\ login[c] = NoName
      /\ logins' = [logins EXCEPT ![m] = c]
      /\ login' = [x \in Conns |-> IF x = c THEN m ELSE IF x = old THEN NoName ELSE login[x]]
      /\ UNCHANGED gameVars
  BY DEF Login, InsertLogin
<1>3. m \in Names
  BY <1>1, <1>2 DEF ConnOK, OpenOK
<1>4. /\ old = NoConn => UNCHANGED <<open, listVars, queueVars, status, answers>>
      /\ old # NoConn => Dropped(old)
  BY DEF Login
<1>5. old # NoConn => old \in open /\ login[old] = m /\ old # c
  BY <1>1, <1>2, <1>3 DEF LoginsAreOpen
<1> HIDE DEF m, old
<1>6. /\ login' \in [Conns -> Names \cup {NoName}] /\ logins' \in [Names -> Conns \cup {NoConn}]
      /\ open \subseteq Conns /\ login \in [Conns -> Names \cup {NoName}]
      /\ logins \in [Names -> Conns \cup {NoConn}]
  BY <1>1, <1>2, <1>3 DEF TypeOK
<1>7. \A x \in Conns \ open : login'[x] = NoName
  <2>1. \A x \in Conns \ open : login[x] = NoName /\ x # c
    BY <1>1, <1>2 DEF ConnOK, DroppedOK
  <2> QED
    BY <1>2, <2>1
<1>8. open' = open \ {old}
  BY <1>1, <1>4, <1>6 DEF Dropped
<1>9. TypeOK' /\ \A x \in Conns : ConnOK(x)'
  <2>1. CASE old = NoConn
    <3>1. UNCHANGED <<open, listVars, queueVars, status, answers>>
      BY <1>4, <2>1
    <3>2. TypeOK'
      BY <1>1, <1>2, <1>6, <3>1 DEF TypeOK, listVars, queueVars, gameVars
    <3>3. ASSUME NEW x \in Conns PROVE ConnOK(x)'
      <4>1. Same(x)
        BY <1>2, <1>7, <3>1 DEF Same, queueVars, gameVars
      <4> QED
        BY <1>1, <4>1, Kept
    <3> QED
      BY <3>2, <3>3
  <2>2. CASE old # NoConn
    <3>1. old \in open /\ Dropped(old) /\ login'[old] = NoName
      BY <1>2, <1>4, <1>5, <1>6, <2>2
    <3> QED
      BY <1>2, <1>6, <1>7, <3>1, DroppedStep
  <2> QED
    BY <2>1, <2>2
<1>10. LoginsAreOpen'
  <2>1. ASSUME NEW n \in Names, logins'[n] # NoConn
        PROVE  logins'[n] \in open' /\ login'[logins'[n]] = n
    <3>1. CASE n = m
      <4>1. logins'[n] = c /\ c \in open' /\ login'[c] = m
        BY <1>2, <1>3, <1>5, <1>6, <1>8, <3>1, <1>1
      <4> QED
        BY <3>1, <4>1
    <3>2. CASE n # m
      <4>1. logins'[n] = logins[n]
        BY <1>2, <1>6, <3>2
      <4>2. logins[n] \in open /\ login[logins[n]] = n
        BY <1>1, <2>1, <4>1 DEF LoginsAreOpen
      <4>3. logins[n] # c /\ logins[n] # old
        <5>1. logins[n] # c
          BY <1>1, <1>2, <4>2
        <5>2. logins[n] # old
          BY <1>5, <2>1, <3>2, <4>1, <4>2
        <5> QED
          BY <5>1, <5>2
      <4> QED
        BY <1>2, <1>6, <1>8, <4>1, <4>2, <4>3
    <3> QED
      BY <3>1, <3>2
  <2>2. ASSUME NEW x \in open', login'[x] # NoName
        PROVE  logins'[login'[x]] = x
    <3>1. x \in open /\ x # old /\ x \in Conns
      BY <1>6, <1>8, <2>2
    <3>2. CASE x = c
      BY <1>2, <1>3, <1>6, <3>1, <3>2
    <3>3. CASE x # c
      <4>1. login'[x] = login[x]
        BY <1>2, <3>1, <3>3
      <4>2. login[x] \in Names /\ logins[login[x]] = x
        BY <1>1, <1>6, <2>2, <3>1, <4>1 DEF LoginsAreOpen
      <4>3. login[x] # m
        BY <3>1, <4>2 DEF old
      <4> QED
        BY <1>2, <1>6, <4>1, <4>2, <4>3
    <3> QED
      BY <3>2, <3>3
  <2> QED
    BY <2>1, <2>2 DEF LoginsAreOpen
<1> QED
  BY <1>9, <1>10 DEF Inv
-----------------------------------------------------------------------------
(***************************************************************************)
(* Load balancing.                                                         *)
(***************************************************************************)
LEMMA LoadIsCount ==
    ASSUME TypeOK, NEW n \in Names, logins[n] # NoConn
    PROVE  EstimateLoad(n) \in Nat
<1>1. logins[n] \in Conns
  BY DEF TypeOK
<1>2. request_queue[logins[n]] \in Seq(Requests) /\ response_queue[logins[n]] \in Seq(Requests)
  BY <1>1 DEF TypeOK
<1>3. Len(request_queue[logins[n]]) \in Nat /\ Len(response_queue[logins[n]]) \in Nat
  BY <1>2, LenProperties
<1>4. Len(request_queue[logins[n]]) + Len(response_queue[logins[n]]) \in Nat
  <2>1. \A a, b \in Nat : a + b \in Nat
    OBVIOUS
  <2> QED
    BY <1>3, <2>1, Zenon
<1> QED
  BY <1>4 DEF EstimateLoad

\* There is a first access with the least load.
LEMMA LeastLoaded ==
    ASSUME TypeOK, NEW g \in Groups
    PROVE  LET acc == Accesses[g] IN
           \E i \in DOMAIN acc : \A k \in DOMAIN acc :
               ~LessLoaded(acc[k], acc[i]) /\ (k < i => LessLoaded(acc[i], acc[k]))
<1> DEFINE acc == Accesses[g]
           on == {i \in DOMAIN acc : logins[acc[i]] # NoConn}
<1>1. acc \in Seq(Names) /\ acc # <<>>
  BY GroupsAssumption
<1>2. DOMAIN acc = 1 .. Len(acc) /\ Len(acc) \in Nat \ {0} /\ \A i \in 1 .. Len(acc) : acc[i] \in Names
  BY <1>1, EmptySeq, ElementOfSeq
<1> HIDE DEF acc
<1>3. ASSUME on = {}
      PROVE  \E i \in DOMAIN acc : \A k \in DOMAIN acc :
              ~LessLoaded(acc[k], acc[i]) /\ (k < i => LessLoaded(acc[i], acc[k]))
  <2>1. 1 \in DOMAIN acc
    BY <1>2
  <2>2. \A k \in DOMAIN acc : ~LessLoaded(acc[k], acc[1]) /\ ~(k < 1)
    BY <1>2, <1>3 DEF LessLoaded
  <2> QED
    BY <2>1, <2>2
<1>4. ASSUME on # {}
      PROVE  \E i \in DOMAIN acc : \A k \in DOMAIN acc :
              ~LessLoaded(acc[k], acc[i]) /\ (k < i => LessLoaded(acc[i], acc[k]))
  <2> DEFINE loads == {EstimateLoad(acc[i]) : i \in on}
  <2>1. \A i \in on : EstimateLoad(acc[i]) \in Nat
    BY <1>2, LoadIsCount
  <2>2. loads \subseteq Nat /\ loads # {}
    BY <1>4, <2>1
  <2>3. PICK least \in loads : \A n \in loads : least <= n
    <3> HIDE DEF loads
    <3> QED
      BY <2>2, LeastNatural
  <2> DEFINE best == {i \in on : EstimateLoad(acc[i]) = least}
  <2>4. best \subseteq Nat /\ best # {}
    BY <1>2, <2>3
  <2>5. PICK i \in best : \A k \in best : i <= k
    <3> HIDE DEF best
    <3> QED
      BY <2>4, LeastNatural
  <2>6. \A k \in on : least <= EstimateLoad(acc[k])
    BY <2>3
  <2>7. i \in DOMAIN acc /\ logins[acc[i]] # NoConn /\ EstimateLoad(acc[i]) = least /\ least \in Nat
    BY <2>2, <2>5
  <2>8. ASSUME NEW k \in DOMAIN acc PROVE ~LessLoaded(acc[k], acc[i])
    <3>1. logins[acc[k]] # NoConn => EstimateLoad(acc[k]) \in Nat /\ least <= EstimateLoad(acc[k])
      BY <2>1, <2>6
    <3> QED
      BY <2>7, <3>1 DEF LessLoaded
  <2>9. ASSUME NEW k \in DOMAIN acc, k < i PROVE LessLoaded(acc[i], acc[k])
    <3>1. k \notin best
      <4>1. k \in Nat /\ i \in Nat
        BY <1>2, <2>4, <2>5
      <4>2. k \in best => i <= k
        BY <2>5
      <4> QED
        BY <2>9, <4>1, <4>2
    <3>2. logins[acc[k]] # NoConn => EstimateLoad(acc[k]) \in Nat /\ least <= EstimateLoad(acc[k])
                                     /\ EstimateLoad(acc[k]) # least
      BY <2>1, <2>6, <3>1
    <3> QED
      BY <2>7, <3>2 DEF LessLoaded
  <2> QED
    BY <2>7, <2>8, <2>9
<1> QED
  BY <1>3, <1>4 DEF acc

\* load_balance returns an access that no other one beats.
LEMMA BalanceFacts ==
    ASSUME TypeOK, NEW g \in Groups
    PROVE  LET acc == Accesses[g] IN
           /\ LoadBalance(acc) \in Names
           /\ \A k \in DOMAIN acc : ~LessLoaded(acc[k], LoadBalance(acc))
<1> DEFINE acc == Accesses[g]
           P(i) == \A k \in DOMAIN acc :
                      ~LessLoaded(acc[k], acc[i]) /\ (k < i => LessLoaded(acc[i], acc[k]))
           i0 == CHOOSE i \in DOMAIN acc : P(i)
<1>1. \E i \in DOMAIN acc : P(i)
  BY LeastLoaded
<1>2. i0 \in DOMAIN acc /\ P(i0)
  BY <1>1
<1>3. LoadBalance(acc) = acc[i0]
  BY DEF LoadBalance
<1>4. acc \in Seq(Names)
  BY GroupsAssumption
<1> HIDE DEF acc, i0
<1>5. acc[i0] \in Names
  BY <1>2, <1>4
<1> QED
  BY <1>2, <1>3, <1>5 DEF acc

\* Enqueueing a group preserves the invariant, whether the writer is at work or not.
LEMMA EnqueueStep ==
    ASSUME Inv, NEW g \in Groups, Enqueue(g)
    PROVE  Inv'
<1>1. /\ TypeOK /\ LoginsAreOpen /\ \A x \in Conns : ConnOK(x) /\ NoConn \notin Conns
  BY ConnsAssumption DEF Inv
<1>2. PICK c \in open \cup {NoConn} : c = logins[LoadBalance(Accesses[g])] /\ open \subseteq Conns
  <2>1. LoadBalance(Accesses[g]) \in Names
    BY <1>1, BalanceFacts
  <2> QED
    BY <1>1, <2>1 DEF LoginsAreOpen, TypeOK
<1>3. /\ \/ c = NoConn /\ UNCHANGED queueVars
         \/ /\ c # NoConn
            /\ request_queue' = [request_queue EXCEPT ![c] = request_queue[c] \o Group(g)]
            /\ UNCHANGED <<response_queue, packet>>
            /\ StartWriter(c)
      /\ UNCHANGED <<open, listVars, loginVars, gameVars, answers>>
  BY <1>2 DEF Enqueue, Group
<1>4. status' \in [Requests -> {"idle", "pending", "ok", "failed"}]
  <2>1. Set(RequestsOf(g), "failed") \/ Set(RequestsOf(g), "pending")
    BY DEF Enqueue
  <2> QED
    BY <1>1, <2>1 DEF Set, TypeOK
<1>5. LoginsAreOpen'
  BY <1>1, <1>3 DEF LoginsAreOpen, loginVars
<1>6. CASE c = NoConn
  <2>1. UNCHANGED queueVars
    BY <1>3, <1>6
  <2>2. TypeOK'
    BY <1>1, <1>3, <1>4, <2>1 DEF TypeOK, listVars, loginVars, queueVars, gameVars
  <2>3. ASSUME NEW x \in Conns PROVE ConnOK(x)'
    <3>1. Same(x)
      BY <1>1, <1>3, <2>1 DEF Same, queueVars, gameVars, loginVars, ConnOK, DroppedOK
    <3> QED
      BY <1>1, <3>1, Kept
  <2> QED
    BY <1>5, <2>2, <2>3 DEF Inv
<1>7. CASE c # NoConn
  <2> DEFINE q == request_queue[c]
             w == q \o Group(g)
             R == response_queue[c]
  <2>1. c \in open /\ c \in Conns
    BY <1>2, <1>7
  <2>2. /\ request_queue' = [request_queue EXCEPT ![c] = w]
        /\ UNCHANGED <<response_queue, packet>>
        /\ writer' = [writer EXCEPT ![c] = "Writing"]
        /\ IF writer[c] = "NotWriting"
           THEN timeout' = [timeout EXCEPT ![c] = (request_queue'[c] # <<>> \/ response_queue'[c] # <<>>)]
           ELSE timeout' = timeout
    BY <1>3, <1>7 DEF StartWriter, UpdateTimeout
  <2>3. /\ OpenOK(c) /\ TimerOK(c) /\ GroupsOK(c) /\ Whole(q) /\ ConnOK(c)
        /\ q \in Seq(Requests) /\ R \in Seq(Requests)
        /\ answers[c] \in Seq(Requests) /\ packet[c] \in Seq(Requests)
        /\ writer[c] \in {"NotWriting", "Writing"}
    BY <1>1, <2>1, ConnTypes DEF ConnOK, GroupsOK
  <2>4. writer[c] = "Writing" => q # <<>> \/ R # <<>>
    <3>1. PICK M \in Seq(Requests) : InTransit(c, M)
      BY <2>3 DEF OpenOK
    <3> DEFINE A == answers[c]
               P == packet[c]
    <3>2. A \in Seq(Requests) /\ P \in Seq(Requests) /\ R = (A \o M) \o P
      BY <2>3, <3>1 DEF InTransit
    <3>3. writer[c] = "Writing" => q # <<>> \/ P # <<>>
      BY <2>3 DEF OpenOK
    <3> HIDE DEF A, P, R, q
    <3>4. P # <<>> => (A \o M) \o P # <<>>
      BY <3>2, TransitOrder
    <3> QED
      BY <3>2, <3>3, <3>4
  <2> HIDE DEF q
  <2>5. w \in Seq(Requests) /\ w # <<>> /\ Whole(w)
    BY <2>3, WholeAppended
  <2> HIDE DEF w, R
  <2>6. /\ request_queue'[c] = w /\ response_queue'[c] = R /\ writer'[c] = "Writing"
        /\ timeout'[c] = TRUE
        /\ \A x \in Conns \ {c} : /\ request_queue'[x] = request_queue[x]
                                  /\ writer'[x] = writer[x] /\ timeout'[x] = timeout[x]
    <3>1. writer[c] = "Writing" => timeout[c] = TRUE
      <4>1. timeout[c] \in BOOLEAN
        BY <1>1, <2>1 DEF TypeOK
      <4> QED
        BY <2>1, <2>3, <2>4, <4>1 DEF TimerOK, q, R
    <3>2. request_queue'[c] = w /\ \A x \in Conns \ {c} : request_queue'[x] = request_queue[x]
      BY <1>1, <2>1, <2>2 DEF TypeOK
    <3>3. writer'[c] = "Writing" /\ \A x \in Conns \ {c} : writer'[x] = writer[x]
      BY <1>1, <2>1, <2>2 DEF TypeOK
    <3>4. timeout'[c] = TRUE /\ \A x \in Conns \ {c} : timeout'[x] = timeout[x]
      <4>1. CASE writer[c] = "NotWriting"
        BY <1>1, <2>1, <2>2, <2>5, <3>2, <4>1 DEF TypeOK
      <4>2. CASE writer[c] # "NotWriting"
        BY <2>2, <2>3, <3>1, <4>2
      <4> QED
        BY <4>1, <4>2
    <3> QED
      BY <2>2, <3>2, <3>3, <3>4 DEF R
  <2>7. TypeOK'
    <3>1. request_queue' \in [Conns -> Seq(Requests)]
      BY <1>1, <2>2, <2>5 DEF TypeOK
    <3>2. writer' \in [Conns -> {"NotWriting", "Writing"}]
      BY <1>1, <2>2 DEF TypeOK
    <3>3. timeout' \in [Conns -> BOOLEAN]
      BY <1>1, <2>2 DEF TypeOK
    <3> QED
      BY <1>1, <1>3, <1>4, <2>2, <3>1, <3>2, <3>3 DEF TypeOK, listVars, loginVars, gameVars
  <2>8. ASSUME NEW x \in Conns, x # c PROVE ConnOK(x)'
    <3>1. Same(x)
      BY <1>1, <1>3, <2>2, <2>6, <2>8 DEF Same, gameVars, loginVars, ConnOK, DroppedOK
    <3> QED
      BY <1>1, <3>1, Kept
  <2>9. ConnOK(c)'
    <3>1. OpenOK(c)'
      BY <1>3, <2>2, <2>3, <2>5, <2>6 DEF OpenOK, InTransit, gameVars
    <3>2. TimerOK(c)'
      BY <1>3, <2>1, <2>5, <2>6 DEF TimerOK
    <3>3. Whole(request_queue[c])'
      BY <2>5, <2>6 DEF Whole
    <3>4. GroupsOK(c)'
      <4>1. packet' = packet /\ executed' = executed /\ inbox' = inbox
        BY <1>3, <2>2 DEF gameVars
      <4> QED
        BY <2>3, <3>3, <4>1 DEF GroupsOK, Together, Group
    <3> QED
      BY <1>3, <2>1, <2>3, <3>1, <3>2, <3>4 DEF ConnOK, gameVars
  <2> QED
    BY <1>5, <2>7, <2>8, <2>9 DEF Inv
<1> QED
  BY <1>6, <1>7
-----------------------------------------------------------------------------
(***************************************************************************)
(* The theorems.                                                           *)
(***************************************************************************)
LEMMA StepInv == Inv /\ [Next]_vars => Inv'
<1> SUFFICES ASSUME Inv, [Next]_vars PROVE Inv'
  OBVIOUS
<1>1. ASSUME NEW c \in Conns, Step(c) PROVE Inv'
  <2>1. c \in open \/ ~(ConnectionLost(c) \/ TimedOut(c) \/ AnsweredBadly(c))
    <3>1. TimedOut(c) => c \in open
      BY DEF TimedOut, Inv, ConnOK, TimerOK
    <3> QED
      BY <3>1 DEF ConnectionLost, AnsweredBadly
  <2>2. CASE \E n \in Running : Accept(c, n)
    BY <2>2, AcceptStep
  <2>3. CASE Login(c)
    BY <2>3, LoginStep
  <2>4. CASE ConnectionLost(c) \/ TimedOut(c) \/ AnsweredBadly(c)
    <3>1. c \in open /\ Disconnect(c)
      BY <2>1, <2>4 DEF ConnectionLost, TimedOut, AnsweredBadly
    <3> QED
      BY <3>1, DisconnectStep
  <2>5. CASE Write(c)
    BY <2>5, WriteStep
  <2>6. CASE Answered(c)
    BY <2>6, AnsweredStep
  <2>7. CASE Execute(c)
    BY <2>7, ExecuteStep
  <2>8. CASE Closed(c)
    BY <2>8, ClosedStep
  <2> QED
    BY <1>1, <2>2, <2>3, <2>4, <2>5, <2>6, <2>7, <2>8 DEF Step
<1>2. ASSUME NEW g \in Groups, Enqueue(g) PROVE Inv'
  BY <1>2, EnqueueStep
<1>3. CASE UNCHANGED vars
  <2>1. TypeOK'
    BY <1>3 DEF Inv, TypeOK, vars, listVars, loginVars, queueVars, gameVars
  <2>2. LoginsAreOpen'
    BY <1>3 DEF Inv, LoginsAreOpen, vars, loginVars
  <2>3. ASSUME NEW x \in Conns PROVE ConnOK(x)'
    <3>1. Same(x)
      BY <1>3 DEF Same, vars, queueVars, gameVars, loginVars, Inv, ConnOK, DroppedOK
    <3> QED
      BY <3>1, Kept DEF Inv
  <2> QED
    BY <2>1, <2>2, <2>3 DEF Inv
<1> QED
  BY <1>1, <1>2, <1>3 DEF Next

-----------------------------------------------------------------------------
(***************************************************************************)
(* The list of the Clients.                                                *)
(***************************************************************************)

\* prev undoes next, on every Client, and none that was dropped has a link.
LinksMatch ==
    /\ clients # NoConn => clients \in open /\ prev[clients] = NoConn
    /\ \A c \in open : prev[c] = NoConn => clients = c
    /\ \A c \in open : next[c] # NoConn => next[c] \in open /\ prev[next[c]] = c
    /\ \A c \in open : prev[c] # NoConn => prev[c] \in open /\ next[prev[c]] = c
    /\ \A c \in Conns \ open : next[c] = NoConn /\ prev[c] = NoConn

LinksOK == LinksMatch /\ ClientsReachable

\* A new Client joins the list at its head.
LEMMA AcceptLinks ==
    ASSUME TypeOK, LinksOK, NEW c \in Conns, NEW n \in Running, Accept(c, n)
    PROVE  LinksOK'
<1>1. /\ open \subseteq Conns /\ c \notin open /\ NoConn \notin Conns /\ open' = open \cup {c}
      /\ clients' = c /\ clients \in Conns \cup {NoConn}
  BY ConnsAssumption DEF TypeOK, Accept
<1>2. /\ next'[c] = clients /\ \A x \in Conns \ {c} : next'[x] = next[x]
      /\ \A x \in Conns : prev'[x] = IF x = clients THEN c ELSE prev[x]
  BY DEF TypeOK, Accept
<1>3. /\ clients # NoConn => clients \in open /\ prev[clients] = NoConn
      /\ \A x \in open : prev[x] = NoConn => clients = x
      /\ \A x \in open : next[x] # NoConn => next[x] \in open /\ prev[next[x]] = x
      /\ \A x \in open : prev[x] # NoConn => prev[x] \in open /\ next[prev[x]] = x
      /\ \A x \in Conns \ open : next[x] = NoConn /\ prev[x] = NoConn
  BY DEF LinksOK, LinksMatch
<1>4. LinksMatch'
  <2>1. prev'[c] = NoConn
    BY <1>1, <1>2, <1>3
  <2>2. ASSUME NEW x \in open', prev'[x] = NoConn PROVE x = c
    BY <1>1, <1>2, <1>3, <2>2
  <2>3. ASSUME NEW x \in open', next'[x] # NoConn
        PROVE  next'[x] \in open' /\ prev'[next'[x]] = x
    <3>1. CASE x = c
      BY <1>1, <1>2, <1>3, <2>3, <3>1
    <3>2. CASE x # c
      <4>1. x \in open /\ next'[x] = next[x] /\ next[x] \in open /\ prev[next[x]] = x
        BY <1>1, <1>2, <1>3, <2>3, <3>2
      <4>2. next[x] # clients
        BY <1>1, <1>3, <4>1
      <4> QED
        BY <1>1, <1>2, <4>1, <4>2
    <3> QED
      BY <3>1, <3>2
  <2>4. ASSUME NEW x \in open', prev'[x] # NoConn
        PROVE  prev'[x] \in open' /\ next'[prev'[x]] = x
    <3>1. CASE x = clients
      BY <1>1, <1>2, <2>4, <3>1
    <3>2. CASE x # clients
      <4>1. prev'[x] = prev[x] /\ x # c
        BY <1>1, <1>2, <2>1, <2>4, <3>2
      <4>2. x \in open /\ prev[x] \in open /\ next[prev[x]] = x
        BY <1>1, <1>3, <2>4, <4>1
      <4> QED
        BY <1>1, <1>2, <4>1, <4>2
    <3> QED
      BY <3>1, <3>2
  <2>5. ASSUME NEW x \in Conns \ open' PROVE next'[x] = NoConn /\ prev'[x] = NoConn
    BY <1>1, <1>2, <1>3, <2>5
  <2> QED
    BY <1>1, <2>1, <2>2, <2>3, <2>4, <2>5 DEF LinksMatch
<1>5. FollowsLinks(open)'
  BY <1>1, <1>2, <1>3 DEF FollowsLinks
<1>6. ASSUME NEW S \in SUBSET open', FollowsLinks(S)' PROVE S = open'
  <2>1. c \in S /\ next'[c] \in S \cup {NoConn} /\ \A x \in S : next'[x] \in S \cup {NoConn}
    BY <1>1, <1>6 DEF FollowsLinks
  <2> DEFINE T == S \ {c}
  <2>2. T \subseteq open
    BY <1>1
  <2>3. clients \in T \cup {NoConn}
    BY <1>1, <1>2, <1>3, <2>1
  <2>4. ASSUME NEW x \in T PROVE next[x] \in T \cup {NoConn}
    BY <1>1, <1>2, <1>3, <2>1, <2>2, <2>4
  <2>5. FollowsLinks(T)
    BY <2>3, <2>4 DEF FollowsLinks
  <2>6. T = open
    BY <2>2, <2>5 DEF LinksOK, ClientsReachable
  <2> QED
    BY <1>1, <2>1, <2>6
<1> QED
  BY <1>4, <1>5, <1>6 DEF LinksOK, ClientsReachable

\* No Client is linked to itself: nothing else would lead to it.
LEMMA NoLoop ==
    ASSUME LinksOK, NEW c \in open, NoConn \notin open
    PROVE  next[c] # c /\ prev[c] # c
<1>1. /\ clients # NoConn => clients \in open /\ prev[clients] = NoConn
      /\ \A x \in open : next[x] # NoConn => next[x] \in open /\ prev[next[x]] = x
      /\ \A x \in open : prev[x] # NoConn => prev[x] \in open /\ next[prev[x]] = x
  BY DEF LinksOK, LinksMatch
<1>2. ASSUME prev[c] = c PROVE FALSE
  <2> DEFINE S == open \ {c}
  <2>1. clients \in S \cup {NoConn}
    BY <1>1, <1>2
  <2>2. ASSUME NEW x \in S PROVE next[x] \in S \cup {NoConn}
    BY <1>1, <1>2, <2>2
  <2>3. FollowsLinks(S)
    BY <2>1, <2>2 DEF FollowsLinks
  <2>4. S = open
    BY <2>3 DEF LinksOK, ClientsReachable
  <2> QED
    BY <2>4
<1> QED
  BY <1>1, <1>2

\* A Client leaves the list, at the head, in the middle or at the end of it.
LEMMA UnlinkLinks ==
    ASSUME TypeOK, LinksOK, NEW c \in open, Unlink(c), open' = open \ {c}
    PROVE  LinksOK'
<1>1. /\ open \subseteq Conns /\ c \in Conns /\ NoConn \notin Conns
      /\ clients \in Conns \cup {NoConn} /\ NoConn \notin open
  BY ConnsAssumption DEF TypeOK
<1>2. /\ \A x \in Conns : next'[x] = IF x = c THEN NoConn
                                     ELSE IF x = prev[c] THEN next[c] ELSE next[x]
      /\ \A x \in Conns : prev'[x] = IF x = c THEN NoConn
                                     ELSE IF x = next[c] THEN prev[c] ELSE prev[x]
      /\ clients' = IF prev[c] = NoConn THEN next[c] ELSE clients
  BY DEF Unlink
<1>3. /\ clients # NoConn => clients \in open /\ prev[clients] = NoConn
      /\ \A x \in open : prev[x] = NoConn => clients = x
      /\ \A x \in open : next[x] # NoConn => next[x] \in open /\ prev[next[x]] = x
      /\ \A x \in open : prev[x] # NoConn => prev[x] \in open /\ next[prev[x]] = x
      /\ \A x \in Conns \ open : next[x] = NoConn /\ prev[x] = NoConn
  BY DEF LinksOK, LinksMatch
<1>4. next[c] # c /\ prev[c] # c
  BY <1>1, NoLoop
<1>5. LinksMatch'
  <2>1. ASSUME clients' # NoConn PROVE clients' \in open' /\ prev'[clients'] = NoConn
    <3>1. CASE prev[c] = NoConn
      BY <1>1, <1>2, <1>3, <1>4, <2>1, <3>1
    <3>2. CASE prev[c] # NoConn
      <4>1. clients' = clients /\ clients \in open /\ prev[clients] = NoConn /\ clients # c
        BY <1>2, <1>3, <2>1, <3>2
      <4>2. clients # next[c]
        BY <1>1, <1>3, <4>1
      <4> QED
        BY <1>1, <1>2, <4>1, <4>2
    <3> QED
      BY <3>1, <3>2
  <2>2. ASSUME NEW x \in open', prev'[x] = NoConn PROVE clients' = x
    <3>1. x \in open /\ x # c /\ x \in Conns
      BY <1>1
    <3>2. CASE x = next[c]
      BY <1>2, <2>2, <3>1, <3>2
    <3>3. CASE x # next[c]
      <4>1. prev[x] = NoConn /\ clients = x
        BY <1>2, <1>3, <2>2, <3>1, <3>3
      <4>2. prev[c] # NoConn
        BY <1>3, <3>1, <4>1
      <4> QED
        BY <1>2, <4>1, <4>2
    <3> QED
      BY <3>2, <3>3
  <2>3. ASSUME NEW x \in open', next'[x] # NoConn
        PROVE  next'[x] \in open' /\ prev'[next'[x]] = x
    <3>1. x \in open /\ x # c /\ x \in Conns
      BY <1>1
    <3>2. CASE x = prev[c]
      <4>1. next'[x] = next[c] /\ next[c] \in open /\ next[c] \in Conns
        BY <1>1, <1>2, <1>3, <2>3, <3>1, <3>2
      <4> QED
        BY <1>2, <1>4, <3>2, <4>1
    <3>3. CASE x # prev[c]
      <4>1. next'[x] = next[x] /\ next[x] \in open /\ prev[next[x]] = x /\ next[x] \in Conns
        BY <1>1, <1>2, <1>3, <2>3, <3>1, <3>3
      <4>2. next[x] # c
        BY <3>3, <4>1
      <4>3. next[x] # next[c]
        BY <1>1, <1>3, <3>1, <4>1
      <4> QED
        BY <1>2, <4>1, <4>2, <4>3
    <3> QED
      BY <3>2, <3>3
  <2>4. ASSUME NEW x \in open', prev'[x] # NoConn
        PROVE  prev'[x] \in open' /\ next'[prev'[x]] = x
    <3>1. x \in open /\ x # c /\ x \in Conns
      BY <1>1
    <3>2. CASE x = next[c]
      <4>1. prev'[x] = prev[c] /\ prev[c] \in open /\ prev[c] \in Conns
        BY <1>1, <1>2, <1>3, <2>4, <3>1, <3>2
      <4> QED
        BY <1>2, <1>4, <3>2, <4>1
    <3>3. CASE x # next[c]
      <4>1. prev'[x] = prev[x] /\ prev[x] \in open /\ next[prev[x]] = x /\ prev[x] \in Conns
        BY <1>1, <1>2, <1>3, <2>4, <3>1, <3>3
      <4>2. prev[x] # c
        BY <3>3, <4>1
      <4>3. prev[x] # prev[c]
        BY <1>1, <1>3, <3>1, <4>1
      <4> QED
        BY <1>2, <4>1, <4>2, <4>3
    <3> QED
      BY <3>2, <3>3
  <2>5. ASSUME NEW x \in Conns \ open' PROVE next'[x] = NoConn /\ prev'[x] = NoConn
    <3>1. CASE x = c
      BY <1>2, <3>1
    <3>2. CASE x # c
      <4>1. x \notin open /\ x # prev[c] /\ x # next[c]
        BY <1>1, <1>3, <2>5, <3>2
      <4> QED
        BY <1>2, <1>3, <3>2, <4>1
    <3> QED
      BY <3>1, <3>2
  <2> QED
    BY <2>1, <2>2, <2>3, <2>4, <2>5 DEF LinksMatch
<1>6. FollowsLinks(open)'
  <2>1. clients' \in open' \cup {NoConn}
    BY <1>5 DEF LinksMatch
  <2>2. \A x \in open' : next'[x] \in open' \cup {NoConn}
    BY <1>5 DEF LinksMatch
  <2> QED
    BY <2>1, <2>2 DEF FollowsLinks
<1>7. ASSUME NEW S \in SUBSET open', FollowsLinks(S)' PROVE S = open'
  <2>1. /\ S \subseteq open /\ c \notin S /\ clients' \in S \cup {NoConn}
        /\ \A x \in S : next'[x] \in S \cup {NoConn}
    BY <1>7 DEF FollowsLinks
  \* What leads to c in the old list is prev[c] or the head.
  <2>2. ASSUME NEW x \in S, x # prev[c] PROVE next[x] \in S \cup {NoConn}
    BY <1>1, <1>2, <2>1, <2>2
  <2>3. CASE prev[c] = NoConn \/ prev[c] \in S
    <3> DEFINE T == S \cup {c}
    <3>1. next[c] \in T \cup {NoConn}
      <4>1. CASE prev[c] = NoConn
        BY <1>2, <2>1, <4>1
      <4>2. CASE prev[c] \in S
        <5>1. prev[c] # c /\ prev[c] \in Conns
          BY <1>1, <2>1, <4>2
        <5> QED
          BY <1>2, <2>1, <4>2, <5>1
      <4> QED
        BY <2>3, <4>1, <4>2
    <3>2. clients \in T \cup {NoConn}
      <4>1. CASE prev[c] = NoConn
        BY <1>3, <4>1
      <4>2. CASE prev[c] # NoConn
        BY <1>2, <2>1, <4>2
      <4> QED
        BY <4>1, <4>2
    <3>3. ASSUME NEW x \in S, x = prev[c] PROVE next[x] \in T \cup {NoConn}
      <4>1. x # NoConn /\ next[x] = c
        BY <1>1, <1>3, <2>1, <3>3
      <4> QED
        BY <4>1
    <3>4. FollowsLinks(T)
      BY <2>2, <3>1, <3>2, <3>3 DEF FollowsLinks
    <3>5. T = open
      BY <2>1, <3>4 DEF LinksOK, ClientsReachable
    <3> QED
      BY <2>1, <3>5
  <2>4. CASE prev[c] # NoConn /\ prev[c] \notin S
    <3>1. clients \in S \cup {NoConn} /\ \A x \in S : next[x] \in S \cup {NoConn}
      BY <1>2, <2>1, <2>2, <2>4
    <3>2. FollowsLinks(S)
      BY <3>1 DEF FollowsLinks
    <3>3. S = open
      BY <2>1, <3>2 DEF LinksOK, ClientsReachable
    <3> QED
      BY <2>1, <3>3
  <2> QED
    BY <2>3, <2>4
<1> QED
  BY <1>5, <1>6, <1>7 DEF LinksOK, ClientsReachable

\* The steps that leave the list alone.
LEMMA SameLinks ==
    ASSUME LinksOK, UNCHANGED <<open, listVars>>
    PROVE  LinksOK'
<1>1. open' = open /\ clients' = clients /\ next' = next /\ prev' = prev
  BY DEF listVars
<1> QED
  BY <1>1 DEF LinksOK, LinksMatch, ClientsReachable, FollowsLinks

\* However Clients come and go, the links reach all of them and only them.
LEMMA LinksStep == Inv /\ LinksOK /\ [Next]_vars => LinksOK'
<1> SUFFICES ASSUME Inv, LinksOK, [Next]_vars PROVE LinksOK'
  OBVIOUS
<1>1. TypeOK /\ LoginsAreOpen /\ \A x \in Conns : TimerOK(x)
  BY DEF Inv, ConnOK
<1>2. ASSUME NEW d \in open, Dropped(d) PROVE LinksOK'
  BY <1>1, <1>2, UnlinkLinks DEF Dropped
<1>3. ASSUME NEW c \in Conns, Step(c) PROVE LinksOK'
  <2>1. CASE \E n \in Running : Accept(c, n)
    BY <1>1, <2>1, AcceptLinks
  <2>2. CASE Login(c)
    <3>1. CASE logins[name[c]] = NoConn
      BY <2>2, <3>1, SameLinks DEF Login
    <3>2. CASE logins[name[c]] # NoConn
      <4>1. name[c] \in Names
        BY <1>1, <2>2 DEF Login, Inv, ConnOK, OpenOK, TypeOK
      <4>2. logins[name[c]] \in open
        BY <1>1, <3>2, <4>1 DEF LoginsAreOpen
      <4> QED
        BY <1>2, <2>2, <3>2, <4>2 DEF Login
    <3> QED
      BY <3>1, <3>2
  <2>3. CASE ConnectionLost(c) \/ TimedOut(c) \/ AnsweredBadly(c)
    <3>1. c \in open /\ Dropped(c)
      BY <1>1, <2>3 DEF ConnectionLost, TimedOut, AnsweredBadly, Disconnect, TimerOK
    <3> QED
      BY <1>2, <3>1
  <2>4. CASE Write(c) \/ Answered(c) \/ Execute(c) \/ Closed(c)
    <3>1. UNCHANGED <<open, listVars>>
      BY <2>4 DEF Write, Answered, Execute, Closed
    <3> QED
      BY <3>1, SameLinks
  <2> QED
    BY <1>3, <2>1, <2>2, <2>3, <2>4 DEF Step
<1>4. ASSUME NEW g \in Groups, Enqueue(g) PROVE LinksOK'
  BY <1>4, SameLinks DEF Enqueue
<1>5. CASE UNCHANGED vars
  BY <1>5, SameLinks DEF vars
<1> QED
  BY <1>3, <1>4, <1>5 DEF Next

\* The inductive invariant holds of every behaviour: of each connection, what
\* the queues, the writer, the timeout and the computer know belongs together.
THEOREM InvCorrect == Spec => []Inv
BY InitInv, StepInv, PTL DEF Spec

\* Type correctness of the server and its connections.
THEOREM TypeCorrect == Spec => []TypeOK
<1>1. Inv => TypeOK
  BY DEF Inv
<1> QED
  BY InvCorrect, <1>1, PTL

\* Answers are matched to requests by order only: those on their way are
\* always those of the first requests that wait for one.
THEOREM AnswersMatched == Spec => []AnswersInOrder
<1>1. Inv => AnswersInOrder
  <2> SUFFICES ASSUME Inv, NEW c \in open
               PROVE  /\ Len(answers[c]) <= Len(response_queue[c])
                      /\ \A i \in DOMAIN answers[c] : answers[c][i] = response_queue[c][i]
    BY DEF AnswersInOrder
  <2> DEFINE A == answers[c]
             P == packet[c]
             R == response_queue[c]
  <2>1. TypeOK /\ c \in Conns /\ OpenOK(c)
    BY DEF Inv, TypeOK, ConnOK
  <2>2. A \in Seq(Requests) /\ P \in Seq(Requests)
    BY <2>1, ConnTypes
  <2>3. PICK M \in Seq(Requests) : R = (A \o M) \o P
    BY <2>1 DEF OpenOK, InTransit
  <2>4. DOMAIN A = 1 .. Len(A)
    BY <2>2
  <2> HIDE DEF A, P, R
  <2>5. LET T == (A \o M) \o P IN
        /\ Len(A) <= Len(T) /\ \A i \in 1 .. Len(A) : A[i] = T[i]
        /\ P # <<>> => T # <<>>
    BY <2>2, <2>3, TransitOrder
  <2> QED
    BY <2>3, <2>4, <2>5 DEF A, R
<1> QED
  BY InvCorrect, <1>1, PTL

\* The timeout runs exactly while something is owed, although
\* enqueue_request_group leaves it alone while the writer is busy.
THEOREM TimeoutIsSet == Spec => []TimeoutWhilePending
<1>1. Inv => TimeoutWhilePending
  <2> SUFFICES ASSUME Inv, NEW c \in Conns
               PROVE  timeout[c] <=> c \in open /\ Owed(c) # {}
    BY DEF TimeoutWhilePending
  <2> DEFINE q == request_queue[c]
             R == response_queue[c]
  <2>1. q \in Seq(Requests) /\ R \in Seq(Requests)
    BY ConnTypes DEF Inv
  <2>2. timeout[c] <=> (c \in open /\ (q # <<>> \/ R # <<>>))
    BY DEF Inv, ConnOK, TimerOK
  <2>3. Owed(c) = Elements(q) \cup Elements(R)
    BY DEF Owed
  <2> HIDE DEF q, R
  <2>4. ASSUME NEW s \in Seq(Requests) PROVE Elements(s) = {} <=> s = <<>>
    <3>1. DOMAIN s = 1 .. Len(s) /\ (s # <<>> => Len(s) \in Nat \ {0})
      BY EmptySeq
    <3>2. s # <<>> => s[1] \in Elements(s)
      BY <3>1 DEF Elements
    <3>3. s = <<>> => Elements(s) = {}
      BY DEF Elements
    <3> QED
      BY <3>2, <3>3
  <2> QED
    BY <2>1, <2>2, <2>3, <2>4
<1> QED
  BY InvCorrect, <1>1, PTL

\* However logins are evicted and connections end, logins leads to Clients
\* that exist, each under its own name.
THEOREM LoginsStayOpen == Spec => []LoginsAreOpen
<1>1. Inv => LoginsAreOpen
  BY DEF Inv
<1> QED
  BY InvCorrect, <1>1, PTL

\* A computer executes the requests of a group one after the other, from the
\* first one on, whatever was lost and whoever closed the connection.
THEOREM GroupsStayTogether == Spec => []GroupsTogether
<1>1. Inv => GroupsTogether
  <2> SUFFICES ASSUME Inv, NEW c \in Conns, NEW k \in DOMAIN executed[c], executed[c][k][2] > 1
               PROVE  k > 1 /\ executed[c][k - 1] = <<executed[c][k][1], executed[c][k][2] - 1>>
    BY DEF GroupsTogether
  <2> DEFINE E == executed[c]
             I == inbox[c]
  <2>1. E \in Seq(Requests) /\ I \in Seq(Requests) /\ Together(E \o I)
    BY ConnTypes DEF Inv, ConnOK, GroupsOK
  <2>2. DOMAIN E = 1 .. Len(E) /\ k \in DOMAIN E /\ E[k][2] > 1
    BY <2>1
  <2> HIDE DEF E, I
  <2>3. Together(E)
    BY <2>1, TogetherStart
  <2>4. k > 1 /\ E[k - 1] = <<E[k][1], E[k][2] - 1>>
    BY <2>2, <2>3 DEF Together
  <2> QED
    BY <2>4 DEF E
<1> QED
  BY InvCorrect, <1>1, PTL
\* After any order of logins, evictions and disconnects the links of the list,
\* which own the Clients, lead from Server.clients to all that are in use.
THEOREM ClientsStayReachable == Spec => []ClientsReachable
<1>1. Init => LinksOK
  <2> SUFFICES ASSUME Init PROVE LinksOK
    OBVIOUS
  <2>1. open = {} /\ clients = NoConn /\ \A c \in Conns : next[c] = NoConn /\ prev[c] = NoConn
    BY DEF Init
  <2> QED
    BY <2>1 DEF LinksOK, LinksMatch, ClientsReachable, FollowsLinks
<1>2. LinksOK => ClientsReachable
  BY DEF LinksOK
<1> QED
  BY InvCorrect, LinksStep, <1>1, <1>2, PTL DEF Spec
-----------------------------------------------------------------------------
(***************************************************************************)
(* Connection implements RequestService.                                   *)
(*                                                                         *)
(* The line of a connection: the requests that wait for their answers and  *)
(* those that are not written yet.  The writer leaves it alone, an answer  *)
(* takes its head, a group joins its end, and a Client that is dropped     *)
(* fails all of it.                                                        *)
(***************************************************************************)
line == [c \in Conns |-> response_queue[c] \o request_queue[c]]

\* A request is in line once.
Once(s) == \A i, j \in 1 .. Len(s) : s[i] = s[j] => i = j

\* What is in line is pending, and so is all else that is pending of its group.
Complete(s, st) ==
    \A a \in Elements(s) : st[a] = "pending" /\ \A b \in RequestsOf(a[1]) :
                              st[b] = "pending" => b \in Elements(s)

\* Before a request is answered, those before it in its group have been.
InTurn(s, st) ==
    \A j \in 1 .. Len(s) : \A n \in 1 .. s[j][2] - 1 :
        st[<<s[j][1], n>>] = "ok" \/ \E m \in 1 .. j - 1 : s[m] = <<s[j][1], n>>

LineOK(s, st) == s \in Seq(Requests) /\ Once(s) /\ Complete(s, st) /\ InTurn(s, st)

Held(l, st) ==
    /\ \A c \in Conns : LineOK(l[c], st)
    /\ \A c, d \in Conns : c # d => Elements(l[c]) \cap Elements(l[d]) = {}
    /\ \A a \in Requests : st[a] = "pending" => \E c \in Conns : a \in Elements(l[c])

RInv == Inv /\ Held(line, status)
-----------------------------------------------------------------------------
(***************************************************************************)
(* One line.                                                               *)
(***************************************************************************)
LEMMA ElementsByIndex ==
    ASSUME NEW s \in Seq(Requests)
    PROVE  /\ Elements(s) = {s[i] : i \in 1 .. Len(s)}
           /\ Elements(s) = ToSet(s) /\ Elements(s) \subseteq Requests
<1>1. DOMAIN s = 1 .. Len(s) /\ \A i \in 1 .. Len(s) : s[i] \in Requests
  BY ElementOfSeq
<1>2. Elements(s) = {s[i] : i \in 1 .. Len(s)}
  BY <1>1, Zenon DEF Elements
<1>3. ToSet(s) = {s[i] : i \in 1 .. Len(s)}
  BY <1>1, Zenon DEF ToSet
<1> QED
  BY <1>1, <1>2, <1>3

\* The elements of a group are its requests.
LEMMA GroupElements ==
    ASSUME NEW g \in Groups
    PROVE  /\ Elements(Group(g)) = RequestsOf(g) /\ RequestsOf(g) \subseteq Requests
           /\ RequestsOf(g) # {} /\ \A a \in RequestsOf(g) : a[1] = g
<1>1. /\ Group(g) \in Seq(Requests) /\ Len(Group(g)) = Size[g]
      /\ \A i \in 1 .. Size[g] : Group(g)[i] = <<g, i>>
      /\ Size[g] \in Nat \ {0}
  BY GroupFacts
<1>2. Elements(Group(g)) = {Group(g)[i] : i \in 1 .. Size[g]}
  BY <1>1, ElementsByIndex
<1>3. RequestsOf(g) = {<<g, i>> : i \in 1 .. Size[g]}
  BY DEF RequestsOf
<1>4. <<g, 1>> \in RequestsOf(g)
  BY <1>1, <1>3
<1>5. RequestsOf(g) \subseteq Requests
  BY DEF Requests
<1>6. \A a \in RequestsOf(g) : a[1] = g
  BY <1>3
<1>7. Elements(Group(g)) = RequestsOf(g)
  <2> DEFINE G == Group(g)
  <2>1. \A i \in 1 .. Size[g] : G[i] = <<g, i>>
    BY <1>1
  <2> HIDE DEF G
  <2>2. {G[i] : i \in 1 .. Size[g]} = {<<g, i>> : i \in 1 .. Size[g]}
    BY <2>1
  <2> QED
    BY <1>2, <1>3, <2>2 DEF G
<1> QED
  BY <1>4, <1>5, <1>6, <1>7

\* The statuses of the groups in line do not change.
LEMMA LineKept ==
    ASSUME NEW s, NEW st, NEW tt, LineOK(s, st),
           \A a \in Elements(s) : \A b \in RequestsOf(a[1]) : tt[b] = st[b]
    PROVE  LineOK(s, tt)
<1>1. s \in Seq(Requests) /\ Once(s) /\ Complete(s, st) /\ InTurn(s, st)
  BY DEF LineOK
<1>2. Elements(s) = {s[i] : i \in 1 .. Len(s)} /\ Elements(s) \subseteq Requests
  BY <1>1, ElementsByIndex
<1>3. \A a \in Elements(s) : a \in RequestsOf(a[1])
  <2> TAKE a \in Elements(s)
  <2>1. a[2] \in 1 .. Size[a[1]] /\ a = <<a[1], a[2]>>
    BY <1>2, RequestParts
  <2> QED
    BY <2>1 DEF RequestsOf
<1>4. Complete(s, tt)
  BY <1>1, <1>3 DEF Complete
<1>5. InTurn(s, tt)
  <2> SUFFICES ASSUME NEW j \in 1 .. Len(s), NEW n \in 1 .. s[j][2] - 1
               PROVE  tt[<<s[j][1], n>>] = "ok" \/ \E m \in 1 .. j - 1 : s[m] = <<s[j][1], n>>
    BY DEF InTurn
  <2>1. s[j] \in Elements(s)
    BY <1>2
  <2>2. s[j][2] \in Nat /\ s[j][2] <= Size[s[j][1]] /\ Size[s[j][1]] \in Nat
    BY <1>2, <2>1, RequestParts
  <2>3. n \in 1 .. Size[s[j][1]]
    BY <2>2
  <2>4. <<s[j][1], n>> \in RequestsOf(s[j][1])
    BY <2>3 DEF RequestsOf
  <2>5. tt[<<s[j][1], n>>] = st[<<s[j][1], n>>]
    BY <2>1, <2>4
  <2> QED
    BY <1>1, <2>5 DEF InTurn
<1> QED
  BY <1>1, <1>4, <1>5 DEF LineOK

\* The empty line is in order.
LEMMA NoLine == ASSUME NEW st PROVE LineOK(<<>>, st) /\ Elements(<<>>) = {}
<1>1. <<>> \in Seq(Requests) /\ 1 .. Len(<<>>) = {}
  BY EmptySeq
<1>2. Elements(<<>>) = {}
  BY DEF Elements
<1> QED
  BY <1>1, <1>2 DEF LineOK, Once, Complete, InTurn

\* The head of the line is answered.
LEMMA LineAnswered ==
    ASSUME NEW s, NEW st, NEW tt, LineOK(s, st), s # <<>>,
           \A b \in Requests : tt[b] = IF b = Head(s) THEN "ok" ELSE st[b]
    PROVE  /\ LineOK(Tail(s), tt) /\ Elements(Tail(s)) = Elements(s) \ {Head(s)}
           /\ Head(s) \in Elements(s)
<1> DEFINE t == Tail(s)
           h == Head(s)
<1>1. s \in Seq(Requests) /\ Once(s) /\ Complete(s, st) /\ InTurn(s, st)
  BY DEF LineOK
<1>2. /\ h = s[1] /\ h \in Requests /\ t \in Seq(Requests)
      /\ Len(t) = Len(s) - 1 /\ Len(s) \in Nat \ {0}
      /\ \A i \in 1 .. Len(s) - 1 : t[i] = s[i + 1]
      /\ \A i \in 1 .. Len(s) : s[i] \in Requests
  BY <1>1, SequenceStep
<1>3. Once(t) /\ Elements(t) = Elements(s) \ {h} /\ h \in Elements(s)
  <2>1. \A i, j \in 1 .. Len(s) : s[i] = s[j] => i = j
    BY <1>1 DEF Once
  <2>2. /\ \A i, j \in 1 .. Len(Tail(s)) : Tail(s)[i] = Tail(s)[j] => i = j
        /\ ToSet(Tail(s)) = ToSet(s) \ {Head(s)}
        /\ Head(s) \in ToSet(s)
    BY <1>1, <2>1, QueueTail
  <2>3. Elements(s) = ToSet(s) /\ Elements(Tail(s)) = ToSet(Tail(s))
    BY <1>1, <1>2, ElementsByIndex
  <2> QED
    BY <2>2, <2>3 DEF Once
<1>4. Elements(s) \subseteq Requests /\ Elements(s) = {s[i] : i \in 1 .. Len(s)}
  BY <1>1, ElementsByIndex
<1> HIDE DEF t, h
<1>5. \A b \in Requests : tt[b] = IF b = h THEN "ok" ELSE st[b]
  BY DEF h
<1>6. Complete(t, tt)
  <2> SUFFICES ASSUME NEW a \in Elements(t)
               PROVE  tt[a] = "pending" /\ \A b \in RequestsOf(a[1]) :
                                              tt[b] = "pending" => b \in Elements(t)
    BY DEF Complete
  <2>1. a \in Elements(s) /\ a # h /\ a \in Requests /\ st[a] = "pending"
    BY <1>1, <1>3, <1>4 DEF Complete
  <2>2. ASSUME NEW b \in RequestsOf(a[1]), tt[b] = "pending" PROVE b \in Elements(t)
    <3>1. b \in Requests
      <4>1. a[1] \in Groups
        BY <2>1, RequestParts
      <4> QED
        BY <4>1 DEF Requests
    <3>2. b # h /\ st[b] = "pending"
      BY <1>5, <2>2, <3>1
    <3> QED
      BY <1>1, <1>3, <2>1, <3>2 DEF Complete
  <2> QED
    BY <1>5, <2>1, <2>2
<1>7. InTurn(t, tt)
  <2> SUFFICES ASSUME NEW j \in 1 .. Len(t), NEW n \in 1 .. t[j][2] - 1
               PROVE  tt[<<t[j][1], n>>] = "ok" \/ \E m \in 1 .. j - 1 : t[m] = <<t[j][1], n>>
    BY DEF InTurn
  <2> DEFINE a == <<t[j][1], n>>
  <2>1. j \in 1 .. Len(s) - 1 /\ j + 1 \in 1 .. Len(s) /\ t[j] = s[j + 1]
    BY <1>2
  <2>2. st[a] = "ok" \/ \E m \in 1 .. (j + 1) - 1 : s[m] = a
    <3>1. n \in 1 .. s[j + 1][2] - 1
      BY <2>1
    <3> QED
      BY <1>1, <2>1, <3>1 DEF InTurn
  <2>3. a \in Requests
    <3>1. t[j] \in Requests
      BY <1>2, <2>1
    <3>2. t[j][1] \in Groups /\ t[j][2] \in Nat /\ t[j][2] <= Size[t[j][1]] /\ Size[t[j][1]] \in Nat
      BY <3>1, RequestParts
    <3>3. n \in 1 .. Size[t[j][1]]
      BY <3>2
    <3> QED
      BY <3>2, <3>3 DEF Requests, RequestsOf
  <2> HIDE DEF a
  <2>4. CASE st[a] = "ok"
    BY <1>5, <2>3, <2>4 DEF a
  <2>5. ASSUME NEW m \in 1 .. (j + 1) - 1, s[m] = a
        PROVE  tt[a] = "ok" \/ \E k \in 1 .. j - 1 : t[k] = a
    <3>1. CASE m = 1
      BY <1>2, <1>5, <2>3, <2>5, <3>1
    <3>2. CASE m # 1
      <4>1. m - 1 \in 1 .. j - 1 /\ m - 1 \in 1 .. Len(s) - 1 /\ (m - 1) + 1 = m
        BY <1>2, <2>1, <3>2
      <4>2. t[m - 1] = a
        BY <1>2, <2>5, <4>1
      <4> QED
        BY <4>1, <4>2
    <3> QED
      BY <3>1, <3>2
  <2> QED
    BY <2>2, <2>4, <2>5 DEF a
<1> QED
  BY <1>2, <1>3, <1>6, <1>7 DEF LineOK, t, h

\* A group that was idle joins the line.
LEMMA LineJoined ==
    ASSUME NEW s, NEW st, NEW tt, LineOK(s, st), NEW g \in Groups,
           \A b \in RequestsOf(g) : st[b] = "idle",
           \A b \in Requests : tt[b] = IF b \in RequestsOf(g) THEN "pending" ELSE st[b]
    PROVE  /\ LineOK(s \o Group(g), tt)
           /\ Elements(s \o Group(g)) = Elements(s) \cup RequestsOf(g)
<1> DEFINE w == s \o Group(g)
<1>1. s \in Seq(Requests) /\ Once(s) /\ Complete(s, st) /\ InTurn(s, st)
  BY DEF LineOK
<1>2. /\ Group(g) \in Seq(Requests) /\ Len(Group(g)) = Size[g]
      /\ \A i \in 1 .. Size[g] : Group(g)[i] = <<g, i>>
  BY GroupFacts
<1>3. Len(s) \in Nat /\ Size[g] \in Nat \ {0}
  BY <1>1, GroupFacts
<1>4. /\ w \in Seq(Requests) /\ Len(w) = Len(s) + Size[g]
      /\ \A i \in 1 .. Len(s) : w[i] = s[i]
      /\ \A i \in 1 .. Size[g] : w[Len(s) + i] = <<g, i>>
  <2> DEFINE G == Group(g)
  <2>1. G \in Seq(Requests) /\ Len(G) = Size[g] /\ s \in Seq(Requests)
    BY <1>1, <1>2
  <2>2. \A i \in 1 .. Size[g] : G[i] = <<g, i>>
    BY <1>2
  <2> HIDE DEF G
  <2>3. /\ s \o G \in Seq(Requests) /\ Len(s \o G) = Len(s) + Len(G)
        /\ \A i \in 1 .. Len(s) + Len(G) : (s \o G)[i] = IF i <= Len(s) THEN s[i] ELSE G[i - Len(s)]
    BY <2>1, ConcatProperties
  <2>4. \A i \in 1 .. Len(s) : i \in 1 .. Len(s) + Size[g] /\ i <= Len(s)
    BY <1>3
  <2>5. \A i \in 1 .. Size[g] : /\ Len(s) + i \in 1 .. Len(s) + Size[g] /\ ~(Len(s) + i <= Len(s))
                                /\ (Len(s) + i) - Len(s) = i
    BY <1>3
  <2>6. \A i \in 1 .. Len(s) : (s \o G)[i] = s[i]
    BY <2>1, <2>3, <2>4
  <2>7. \A i \in 1 .. Size[g] : (s \o G)[Len(s) + i] = <<g, i>>
    BY <2>1, <2>2, <2>3, <2>5
  <2> QED
    BY <2>1, <2>3, <2>6, <2>7 DEF G
<1>5. Elements(w) = Elements(s) \cup RequestsOf(g) /\ Elements(s) \subseteq Requests
      /\ Elements(s) = {s[i] : i \in 1 .. Len(s)}
  <2>1. ToSet(s \o Group(g)) = ToSet(s) \cup ToSet(Group(g))
    BY <1>1, <1>2, SequenceSet
  <2>2. /\ Elements(s) = ToSet(s) /\ Elements(w) = ToSet(w)
        /\ Elements(Group(g)) = ToSet(Group(g)) /\ Elements(s) \subseteq Requests
        /\ Elements(s) = {s[i] : i \in 1 .. Len(s)}
    BY <1>1, <1>2, <1>4, ElementsByIndex
  <2>3. Elements(Group(g)) = RequestsOf(g)
    BY GroupElements
  <2> QED
    BY <2>1, <2>2, <2>3
<1> HIDE DEF w
<1>6. RequestsOf(g) \subseteq Requests /\ \A a \in RequestsOf(g) : a[1] = g
  BY GroupElements
<1>7. ASSUME NEW a \in Elements(s)
      PROVE  /\ a \in Requests /\ st[a] = "pending" /\ a \notin RequestsOf(g) /\ a[1] # g
             /\ a[1] \in Groups
  <2>1. a \in Requests /\ st[a] = "pending" /\ a \notin RequestsOf(g)
    BY <1>1, <1>5 DEF Complete
  <2>2. a[1] \in Groups /\ a[2] \in 1 .. Size[a[1]] /\ a = <<a[1], a[2]>>
    BY <2>1, RequestParts
  <2>3. a \in RequestsOf(a[1])
    BY <2>2 DEF RequestsOf
  <2> QED
    BY <2>1, <2>2, <2>3
<1>8. \A i \in 1 .. Len(w) :
         i \in 1 .. Len(s) \/ (i - Len(s) \in 1 .. Size[g] /\ i = Len(s) + (i - Len(s)))
  BY <1>3, <1>4
<1>9. Once(w)
  <2> SUFFICES ASSUME NEW i \in 1 .. Len(w), NEW j \in 1 .. Len(w), w[i] = w[j] PROVE i = j
    BY DEF Once
  <2>1. ASSUME NEW x \in 1 .. Len(s) PROVE w[x] \in Elements(s)
    BY <1>4, <1>5
  <2>2. ASSUME NEW x \in 1 .. Size[g] PROVE w[Len(s) + x] \in RequestsOf(g) /\ w[Len(s) + x] = <<g, x>>
    <3>1. <<g, x>> \in RequestsOf(g)
      BY DEF RequestsOf
    <3> QED
      BY <1>4, <3>1
  <2>3. CASE i \in 1 .. Len(s) /\ j \in 1 .. Len(s)
    BY <1>1, <1>4, <2>3 DEF Once
  <2>4. CASE i \in 1 .. Len(s) /\ j \notin 1 .. Len(s)
    BY <1>7, <1>8, <2>1, <2>2, <2>4
  <2>5. CASE i \notin 1 .. Len(s) /\ j \in 1 .. Len(s)
    BY <1>7, <1>8, <2>1, <2>2, <2>5
  <2>6. CASE i \notin 1 .. Len(s) /\ j \notin 1 .. Len(s)
    <3>1. <<g, i - Len(s)>> = <<g, j - Len(s)>>
      BY <1>8, <2>2, <2>6
    <3>2. i - Len(s) = j - Len(s)
      BY <3>1
    <3> QED
      BY <1>8, <2>6, <3>2
  <2> QED
    BY <2>3, <2>4, <2>5, <2>6
<1>10. Complete(w, tt)
  <2> SUFFICES ASSUME NEW a \in Elements(w)
               PROVE  tt[a] = "pending" /\ \A b \in RequestsOf(a[1]) :
                                              tt[b] = "pending" => b \in Elements(w)
    BY DEF Complete
  <2>1. CASE a \in RequestsOf(g)
    BY <1>5, <1>6, <2>1
  <2>2. CASE a \in Elements(s)
    <3>1. tt[a] = "pending"
      BY <1>7, <2>2
    <3>2. ASSUME NEW b \in RequestsOf(a[1]), tt[b] = "pending" PROVE b \in Elements(w)
      <4>1. b \in Requests
        BY <1>7, <2>2 DEF Requests
      <4>2. b \in RequestsOf(g) \/ st[b] = "pending"
        BY <3>2, <4>1
      <4> QED
        BY <1>1, <1>5, <2>2, <4>2 DEF Complete
    <3> QED
      BY <3>1, <3>2
  <2> QED
    BY <1>5, <2>1, <2>2
<1>11. InTurn(w, tt)
  <2> SUFFICES ASSUME NEW j \in 1 .. Len(w), NEW n \in 1 .. w[j][2] - 1
               PROVE  tt[<<w[j][1], n>>] = "ok" \/ \E m \in 1 .. j - 1 : w[m] = <<w[j][1], n>>
    BY DEF InTurn
  <2>1. CASE j \in 1 .. Len(s)
    <3> DEFINE a == <<s[j][1], n>>
    <3>1. w[j] = s[j] /\ s[j] \in Elements(s) /\ n \in 1 .. s[j][2] - 1
      BY <1>4, <1>5, <2>1
    <3>2. st[a] = "ok" \/ \E m \in 1 .. j - 1 : s[m] = a
      BY <1>1, <2>1, <3>1 DEF InTurn
    <3>3. s[j] \in Requests /\ s[j][1] \in Groups /\ s[j][1] # g
      BY <1>7, <3>1
    <3>4. s[j][2] \in Nat /\ s[j][2] <= Size[s[j][1]] /\ Size[s[j][1]] \in Nat
      BY <3>3, RequestParts
    <3>5. n \in 1 .. Size[s[j][1]]
      BY <3>1, <3>4
    <3>6. a \in Requests
      BY <3>3, <3>5 DEF Requests, RequestsOf
    <3>7. a \notin RequestsOf(g)
      BY <3>3, GroupElements
    <3>8. tt[a] = st[a]
      BY <3>6, <3>7
    <3>9. \A m \in 1 .. j - 1 : w[m] = s[m]
      <4>1. \A m \in 1 .. j - 1 : m \in 1 .. Len(s)
        BY <1>3, <2>1
      <4> QED
        BY <1>4, <4>1
    <3> HIDE DEF a
    <3>10. tt[a] = "ok" \/ \E m \in 1 .. j - 1 : w[m] = a
      BY <3>2, <3>8, <3>9
    <3> QED
      BY <3>1, <3>10 DEF a
  <2>2. CASE j \notin 1 .. Len(s)
    <3> DEFINE k == j - Len(s)
    <3>1. k \in 1 .. Size[g] /\ j = Len(s) + k
      BY <1>8, <2>2
    <3> HIDE DEF k
    <3>2. w[j][1] = g /\ w[j][2] = k
      BY <1>4, <3>1
    <3>3. n \in 1 .. Size[g] /\ Len(s) + n \in 1 .. j - 1
      BY <1>3, <3>1, <3>2
    <3>4. w[Len(s) + n] = <<g, n>>
      BY <1>4, <3>3
    <3> QED
      BY <3>2, <3>3, <3>4
  <2> QED
    BY <2>1, <2>2
<1> QED
  BY <1>4, <1>5, <1>9, <1>10, <1>11 DEF LineOK, w
-----------------------------------------------------------------------------
(***************************************************************************)
(* All lines.                                                              *)
(***************************************************************************)
LEMMA RInvFacts ==
    ASSUME RInv
    PROVE  /\ TypeOK /\ NoConn \notin Conns /\ open \subseteq Conns
           /\ \A c \in Conns : /\ line[c] = response_queue[c] \o request_queue[c]
                               /\ LineOK(line[c], status) /\ line[c] \in Seq(Requests)
                               /\ response_queue[c] \in Seq(Requests)
                               /\ request_queue[c] \in Seq(Requests)
                               /\ Elements(line[c]) = Owed(c) /\ Elements(line[c]) \subseteq Requests
<1>1. TypeOK /\ NoConn \notin Conns /\ open \subseteq Conns
  BY ConnsAssumption DEF RInv, Inv, TypeOK
<1>2. ASSUME NEW c \in Conns
      PROVE  /\ line[c] = response_queue[c] \o request_queue[c]
             /\ LineOK(line[c], status) /\ line[c] \in Seq(Requests)
             /\ response_queue[c] \in Seq(Requests) /\ request_queue[c] \in Seq(Requests)
             /\ Elements(line[c]) = Owed(c) /\ Elements(line[c]) \subseteq Requests
  <2> DEFINE R == response_queue[c]
             q == request_queue[c]
  <2>1. line[c] = R \o q
    BY DEF line
  <2>2. R \in Seq(Requests) /\ q \in Seq(Requests)
    BY <1>1, ConnTypes
  <2>3. LineOK(line[c], status) /\ line[c] \in Seq(Requests)
    BY DEF RInv, Held, LineOK
  <2>4. Owed(c) = Elements(q) \cup Elements(R)
    BY DEF Owed
  <2> HIDE DEF R, q
  <2>5. ToSet(R \o q) = ToSet(R) \cup ToSet(q) /\ R \o q \in Seq(Requests)
    BY <2>2, SequenceSet, ConcatProperties
  <2>6. /\ Elements(R) = ToSet(R) /\ Elements(q) = ToSet(q)
        /\ Elements(R \o q) = ToSet(R \o q) /\ Elements(R \o q) \subseteq Requests
    BY <2>2, <2>5, ElementsByIndex
  <2> QED
    BY <2>1, <2>2, <2>3, <2>4, <2>5, <2>6 DEF R, q
<1> QED
  BY <1>1, <1>2

\* The line is made of the two queues.
LEMMA SameLine ==
    ASSUME UNCHANGED <<request_queue, response_queue>>
    PROVE  line' = line
BY DEF line

\* A step that leaves the lines and the status alone preserves the second invariant.
LEMMA LinesAlone ==
    ASSUME RInv, line' = line, UNCHANGED status
    PROVE  Held(line, status)'
<1>1. \A c \in Conns : LineOK(line[c], status)
  BY DEF RInv, Held
<1>2. \A c, d \in Conns : c # d => Elements(line[c]) \cap Elements(line[d]) = {}
  BY DEF RInv, Held
<1>3. \A a \in Requests : status[a] = "pending" => \E c \in Conns : a \in Elements(line[c])
  BY DEF RInv, Held
<1>4. \A c \in Conns : LineOK(line'[c], status')
  BY <1>1
<1>5. \A c, d \in Conns : c # d => Elements(line'[c]) \cap Elements(line'[d]) = {}
  BY <1>2
<1>6. \A a \in Requests : status'[a] = "pending" => \E c \in Conns : a \in Elements(line'[c])
  BY <1>3
<1> QED
  BY <1>4, <1>5, <1>6 DEF Held, LineOK, Once, Complete, InTurn

\* The writer moves a group within its line.
LEMMA WriteLine ==
    ASSUME RInv, NEW c \in Conns, Write(c)
    PROVE  line' = line /\ UNCHANGED status
<1> DEFINE R == response_queue[c]
           q == request_queue[c]
           G == NextGroup(q)
           rest == SubSeq(q, Len(G) + 1, Len(q))
<1>1. /\ TypeOK /\ R \in Seq(Requests) /\ q \in Seq(Requests) /\ Whole(q)
  BY RInvFacts DEF RInv, Inv, ConnOK, GroupsOK
<1>2. UNCHANGED status
  BY DEF Write
<1>3. \/ UNCHANGED <<request_queue, response_queue>>
      \/ /\ q # <<>>
         /\ request_queue' = [request_queue EXCEPT ![c] = rest]
         /\ response_queue' = [response_queue EXCEPT ![c] = R \o G]
  BY DEF Write, ToAnswer
<1>4. CASE UNCHANGED <<request_queue, response_queue>>
  BY <1>2, <1>4, SameLine
<1>5. CASE /\ q # <<>>
           /\ request_queue' = [request_queue EXCEPT ![c] = rest]
           /\ response_queue' = [response_queue EXCEPT ![c] = R \o G]
  <2>1. /\ Head(q)[1] \in Groups /\ G = Group(Head(q)[1]) /\ Len(G) = Size[Head(q)[1]]
        /\ Len(G) <= Len(q) /\ rest \in Seq(Requests) /\ Len(rest) = Len(q) - Len(G)
        /\ \A i \in 1 .. Len(q) - Len(G) : rest[i] = q[Len(G) + i]
    <3> HIDE DEF q
    <3> QED
      BY <1>1, <1>5, FirstGroup
  <2>2. G \in Seq(Requests)
    BY <2>1, GroupFacts
  <2>3. G = SubSeq(q, 1, Size[Head(q)[1]])
    BY DEF NextGroup
  <2>4. G = SubSeq(q, 1, Len(G))
    BY <2>1, <2>3
  <2>5. Len(q) \in Nat /\ Len(G) \in Nat
    BY <1>1, <2>2
  <2>6. G \o rest = q
    <3> DEFINE n == Len(G)
    <3>1. 1 \in 1 .. Len(q) + 1 /\ n \in 1 - 1 .. Len(q) /\ Len(q) \in n .. Len(q)
      BY <2>1, <2>5
    <3>2. G = SubSeq(q, 1, n) /\ rest = SubSeq(q, n + 1, Len(q))
      BY <2>4
    <3> HIDE DEF n, q, G, rest
    <3>3. SubSeq(q, 1, n) \o SubSeq(q, n + 1, Len(q)) = SubSeq(q, 1, Len(q))
      BY <1>1, <3>1, ConcatAdjacentSubSeq
    <3>4. SubSeq(q, 1, Len(q)) = q
      BY <1>1, SubSeqFull
    <3> QED
      BY <3>2, <3>3, <3>4
  <2> HIDE DEF R, q, G, rest
  <2>7. (R \o G) \o rest = R \o q
    <3>2. R \in Seq(Requests) /\ G \in Seq(Requests) /\ rest \in Seq(Requests)
      BY <1>1, <2>1, <2>2
    <3>1. (R \o G) \o rest = R \o (G \o rest)
      BY <3>2, ConcatAssociative
    <3> QED
      BY <2>6, <3>1
  <2>8. ASSUME NEW x \in Conns
        PROVE  response_queue'[x] \o request_queue'[x] = response_queue[x] \o request_queue[x]
    <3>1. CASE x = c
      <4>1. response_queue'[c] = R \o G /\ request_queue'[c] = rest
        BY <1>1, <1>5 DEF TypeOK
      <4> QED
        BY <2>7, <3>1, <4>1 DEF R, q
    <3>2. CASE x # c
      <4>1. response_queue'[x] = response_queue[x] /\ request_queue'[x] = request_queue[x]
        BY <1>1, <1>5, <3>2 DEF TypeOK
      <4> QED
        BY <4>1
    <3> QED
      BY <3>1, <3>2
  <2> QED
    BY <1>2, <2>8 DEF line
<1> QED
  BY <1>3, <1>4, <1>5

\* What is in another line is of other groups than what is in this one.
LEMMA OtherLines ==
    ASSUME RInv, NEW c \in Conns, NEW d \in Conns, c # d,
           NEW a \in Elements(line[d]), NEW b \in RequestsOf(a[1])
    PROVE  b \notin Elements(line[c]) /\ b \in Requests
<1>1. Held(line, status) /\ a \in Requests
  BY RInvFacts DEF RInv
<1>2. b \in Requests
  <2>1. a[1] \in Groups
    BY <1>1, RequestParts
  <2> QED
    BY <2>1 DEF Requests
<1> HIDE DEF line
<1>3. b \in Elements(line[c]) => status[b] = "pending"
  BY <1>1 DEF Held, LineOK, Complete
<1>4. status[b] = "pending" => b \in Elements(line[d])
  BY <1>1 DEF Held, LineOK, Complete
<1>5. Elements(line[c]) \cap Elements(line[d]) = {}
  BY <1>1 DEF Held
<1> QED
  BY <1>2, <1>3, <1>4, <1>5

\* An answer takes the head of one line.
LEMMA AnsweredLine ==
    ASSUME RInv, NEW c \in Conns, Answered(c)
    PROVE  /\ Held(line, status)'
           /\ line[c] # <<>> /\ Head(response_queue[c]) = Head(line[c])
<1> DEFINE R == response_queue[c]
           q == request_queue[c]
           h == Head(R)
<1>1. /\ TypeOK /\ R \in Seq(Requests) /\ q \in Seq(Requests) /\ Held(line, status)
      /\ line[c] = R \o q
      /\ \A x \in Conns : LineOK(line[x], status) /\ line[x] = response_queue[x] \o request_queue[x]
  BY RInvFacts DEF RInv
<1>2. /\ R # <<>> /\ request_queue' = request_queue
      /\ response_queue' = [response_queue EXCEPT ![c] = Tail(R)]
      /\ status' = [a \in Requests |-> IF a \in {h} THEN "ok" ELSE status[a]]
  BY DEF Answered, Set
<1> HIDE DEF R, q
<1>3. Tail(R) \o q = Tail(R \o q) /\ R \o q # <<>>
  BY <1>1, <1>2, TailOfConcat
<1>4. Head(R \o q) = h
  <2>1. /\ R \o q \in Seq(Requests) /\ Len(R \o q) = Len(R) + Len(q)
        /\ \A i \in 1 .. Len(R) + Len(q) : (R \o q)[i] = IF i <= Len(R) THEN R[i] ELSE q[i - Len(R)]
    BY <1>1, ConcatProperties
  <2>2. h = R[1] /\ Len(R) \in Nat \ {0} /\ Len(q) \in Nat
    BY <1>1, <1>2, SequenceStep
  <2> DEFINE w == R \o q
  <2>3. w \in Seq(Requests) /\ w # <<>>
    BY <1>3, <2>1
  <2>4. w[1] = R[1]
    BY <2>1, <2>2
  <2> HIDE DEF w, h
  <2>5. Head(w) = w[1]
    BY <2>3, SequenceStep
  <2> QED
    BY <2>2, <2>4, <2>5 DEF w
<1>5. line'[c] = Tail(line[c]) /\ \A x \in Conns \ {c} : line'[x] = line[x]
  <2>1. response_queue'[c] = Tail(R) /\ \A x \in Conns \ {c} : response_queue'[x] = response_queue[x]
    BY <1>1, <1>2 DEF TypeOK
  <2>2. \A x \in Conns : line'[x] = response_queue'[x] \o request_queue'[x]
    BY DEF line
  <2>3. ASSUME NEW x \in Conns \ {c} PROVE line'[x] = line[x]
    BY <1>1, <1>2, <2>1, <2>2
  <2>4. line'[c] = Tail(R) \o q
    BY <1>2, <2>1, <2>2 DEF q
  <2>5. line[c] = R \o q
    BY <1>1
  <2> QED
    BY <1>3, <2>3, <2>4, <2>5
<1>6. line[c] # <<>> /\ h = Head(line[c])
  BY <1>1, <1>3, <1>4
<1> HIDE DEF line, h
<1>7. \A b \in Requests : status'[b] = IF b = Head(line[c]) THEN "ok" ELSE status[b]
  BY <1>2, <1>6
<1>8. /\ LineOK(Tail(line[c]), status') /\ Elements(Tail(line[c])) = Elements(line[c]) \ {Head(line[c])}
      /\ Head(line[c]) \in Elements(line[c])
  <2> DEFINE s == line[c]
             tt == status'
  <2>1. /\ LineOK(s, status) /\ s # <<>>
        /\ \A b \in Requests : tt[b] = IF b = Head(s) THEN "ok" ELSE status[b]
    BY <1>1, <1>6, <1>7
  <2> HIDE DEF s, tt
  <2>2. /\ LineOK(Tail(s), tt) /\ Elements(Tail(s)) = Elements(s) \ {Head(s)}
        /\ Head(s) \in Elements(s)
    BY <2>1, LineAnswered
  <2> QED
    BY <2>2 DEF s, tt
<1>9. ASSUME NEW x \in Conns, x # c PROVE LineOK(line[x], status')
  <2>1. \A a \in Elements(line[x]) : \A b \in RequestsOf(a[1]) : status'[b] = status[b]
    <3> TAKE a \in Elements(line[x])
    <3> TAKE b \in RequestsOf(a[1])
    <3>1. b \notin Elements(line[c]) /\ b \in Requests
      BY <1>9, OtherLines
    <3> QED
      BY <1>7, <1>8, <3>1
  <2> DEFINE s == line[x]
             tt == status'
  <2>2. LineOK(s, status) /\ \A a \in Elements(s) : \A b \in RequestsOf(a[1]) : tt[b] = status[b]
    BY <1>1, <2>1
  <2> HIDE DEF s, tt
  <2>3. LineOK(s, tt)
    BY <2>2, LineKept
  <2> QED
    BY <2>3 DEF s, tt
<1>10. \A x \in Conns : LineOK(line'[x], status')
  BY <1>5, <1>8, <1>9
<1>11. \A x, y \in Conns : x # y => Elements(line'[x]) \cap Elements(line'[y]) = {}
  <2>1. \A x \in Conns : Elements(line'[x]) \subseteq Elements(line[x])
    BY <1>5, <1>8
  <2>2. \A x, y \in Conns : x # y => Elements(line[x]) \cap Elements(line[y]) = {}
    BY <1>1 DEF Held
  <2> QED
    BY <2>1, <2>2
<1>12. ASSUME NEW a \in Requests, status'[a] = "pending"
       PROVE  \E x \in Conns : a \in Elements(line'[x])
  <2>1. status[a] = "pending" /\ a # Head(line[c])
    BY <1>7, <1>12
  <2>2. PICK x \in Conns : a \in Elements(line[x])
    BY <1>1, <2>1 DEF Held
  <2>3. a \in Elements(line'[x])
    BY <1>5, <1>8, <2>1, <2>2
  <2> QED
    BY <2>3
<1>13. Held(line, status)'
  BY <1>10, <1>11, <1>12 DEF Held, LineOK, Once, Complete, InTurn
<1> QED
  BY <1>6, <1>13 DEF h, R
\* A Client that is dropped fails its line.
LEMMA DroppedLine ==
    ASSUME RInv, NEW d \in open, Dropped(d)
    PROVE  Held(line, status)'
<1>1. /\ TypeOK /\ d \in Conns
      /\ \A x \in Conns : LineOK(line[x], status) /\ Elements(line[x]) \subseteq Requests
      /\ \A x, y \in Conns : x # y => Elements(line[x]) \cap Elements(line[y]) = {}
      /\ \A a \in Requests : status[a] = "pending" => \E x \in Conns : a \in Elements(line[x])
  BY RInvFacts DEF RInv, Held
<1>2. /\ request_queue' = [request_queue EXCEPT ![d] = <<>>]
      /\ response_queue' = [response_queue EXCEPT ![d] = <<>>]
  BY DEF Dropped
<1>3. \A b \in Requests : status'[b] = IF b \in Elements(line[d]) THEN "failed" ELSE status[b]
  <2>1. Elements(line[d]) = Owed(d)
    BY <1>1, RInvFacts
  <2>2. status' = [r \in Requests |-> IF r \in Owed(d) THEN "failed" ELSE status[r]]
    BY DEF Dropped, FailAll, Set
  <2> HIDE DEF line
  <2> QED
    BY <2>1, <2>2
<1>4. line'[d] = <<>> /\ \A x \in Conns \ {d} : line'[x] = line[x]
  <2>1. /\ request_queue'[d] = <<>> /\ response_queue'[d] = <<>>
        /\ \A x \in Conns \ {d} : /\ request_queue'[x] = request_queue[x]
                                  /\ response_queue'[x] = response_queue[x]
    BY <1>1, <1>2 DEF TypeOK
  <2>2. <<>> \o <<>> = <<>>
    OBVIOUS
  <2> QED
    BY <1>1, <2>1, <2>2 DEF line
<1> HIDE DEF line
<1>5. LineOK(<<>>, status') /\ Elements(<<>>) = {}
  BY NoLine
<1>6. ASSUME NEW x \in Conns, x # d PROVE LineOK(line[x], status')
  <2>1. \A a \in Elements(line[x]) : \A b \in RequestsOf(a[1]) : status'[b] = status[b]
    <3> TAKE a \in Elements(line[x])
    <3> TAKE b \in RequestsOf(a[1])
    <3>1. b \notin Elements(line[d]) /\ b \in Requests
      BY <1>1, <1>6, OtherLines
    <3> QED
      BY <1>3, <3>1
  <2> DEFINE s == line[x]
             tt == status'
  <2>2. LineOK(s, status) /\ \A a \in Elements(s) : \A b \in RequestsOf(a[1]) : tt[b] = status[b]
    BY <1>1, <2>1
  <2> HIDE DEF s, tt
  <2>3. LineOK(s, tt)
    BY <2>2, LineKept
  <2> QED
    BY <2>3 DEF s, tt
<1>7. \A x \in Conns : LineOK(line'[x], status')
  BY <1>4, <1>5, <1>6
<1>8. \A x, y \in Conns : x # y => Elements(line'[x]) \cap Elements(line'[y]) = {}
  <2>1. \A x \in Conns : Elements(line'[x]) \subseteq Elements(line[x])
    BY <1>4, <1>5
  <2> QED
    BY <1>1, <2>1
<1>9. ASSUME NEW a \in Requests, status'[a] = "pending"
      PROVE  \E x \in Conns : a \in Elements(line'[x])
  <2>1. status[a] = "pending" /\ a \notin Elements(line[d])
    BY <1>3, <1>9
  <2>2. PICK x \in Conns : a \in Elements(line[x])
    BY <1>1, <2>1
  <2>3. a \in Elements(line'[x])
    BY <1>4, <2>1, <2>2
  <2> QED
    BY <2>3
<1> QED
  BY <1>7, <1>8, <1>9 DEF Held, LineOK, Once, Complete, InTurn

\* A group joins the line of an open connection, or fails when there is none.
LEMMA EnqueueLine ==
    ASSUME RInv, NEW g \in Groups, Enqueue(g)
    PROVE  Held(line, status)'
<1>1. /\ TypeOK /\ NoConn \notin Conns
      /\ \A x \in Conns : /\ LineOK(line[x], status) /\ Elements(line[x]) \subseteq Requests
                          /\ response_queue[x] \in Seq(Requests) /\ request_queue[x] \in Seq(Requests)
                          /\ line[x] = response_queue[x] \o request_queue[x]
      /\ \A x, y \in Conns : x # y => Elements(line[x]) \cap Elements(line[y]) = {}
      /\ \A a \in Requests : status[a] = "pending" => \E x \in Conns : a \in Elements(line[x])
  BY RInvFacts DEF RInv, Held
<1>2. /\ RequestsOf(g) \subseteq Requests /\ \A a \in RequestsOf(g) : a[1] = g
      /\ \A r \in RequestsOf(g) : status[r] = "idle"
  BY GroupElements DEF Enqueue
<1>3. ASSUME NEW x \in Conns, NEW a \in Elements(line[x])
      PROVE  \A b \in RequestsOf(a[1]) : b \notin RequestsOf(g) /\ b \in Requests
  <2>1. a \in Requests /\ status[a] = "pending"
    BY <1>1 DEF LineOK, Complete
  <2>2. a[1] \in Groups /\ a[2] \in 1 .. Size[a[1]] /\ a = <<a[1], a[2]>>
    BY <2>1, RequestParts
  <2>3. a \in RequestsOf(a[1])
    BY <2>2 DEF RequestsOf
  <2>4. a[1] # g
    BY <1>2, <2>1, <2>3
  <2> QED
    BY <1>2, <2>2, <2>4, GroupElements
<1>4. PICK c : c = logins[LoadBalance(Accesses[g])]
  OBVIOUS
<1>5. \/ /\ c = NoConn /\ UNCHANGED queueVars
         /\ Set(RequestsOf(g), "failed")
      \/ /\ c # NoConn /\ Set(RequestsOf(g), "pending")
         /\ request_queue' = [request_queue EXCEPT ![c] = request_queue[c] \o Group(g)]
         /\ response_queue' = response_queue
  BY <1>4 DEF Enqueue, Group
<1>6. c \in Conns \cup {NoConn}
  <2>1. LoadBalance(Accesses[g]) \in Names
    BY <1>1, BalanceFacts
  <2> QED
    BY <1>1, <1>4, <2>1 DEF TypeOK
<1>7. CASE c = NoConn
  <2>1. line' = line
    BY <1>5, <1>7, SameLine DEF queueVars
  <2> HIDE DEF line
  <2>2. \A b \in Requests : status'[b] = IF b \in RequestsOf(g) THEN "failed" ELSE status[b]
    BY <1>5, <1>7 DEF Set
  <2>3. ASSUME NEW x \in Conns PROVE LineOK(line[x], status')
    <3> DEFINE s == line[x]
               tt == status'
    <3>1. LineOK(s, status) /\ \A a \in Elements(s) : \A b \in RequestsOf(a[1]) : tt[b] = status[b]
      BY <1>1, <1>3, <2>2
    <3> HIDE DEF s, tt
    <3>2. LineOK(s, tt)
      BY <3>1, LineKept
    <3> QED
      BY <3>2 DEF s, tt
  <2>4. \A x \in Conns : LineOK(line'[x], status')
    BY <2>1, <2>3
  <2>5. \A x, y \in Conns : x # y => Elements(line'[x]) \cap Elements(line'[y]) = {}
    BY <1>1, <2>1
  <2>6. \A a \in Requests : status'[a] = "pending" => \E x \in Conns : a \in Elements(line'[x])
    BY <1>1, <2>1, <2>2
  <2> QED
    BY <2>4, <2>5, <2>6 DEF Held, LineOK, Once, Complete, InTurn
<1>8. CASE c # NoConn
  <2>1. c \in Conns
    BY <1>6, <1>8
  <2>2. \A b \in Requests : status'[b] = IF b \in RequestsOf(g) THEN "pending" ELSE status[b]
    BY <1>5, <1>8 DEF Set
  <2>3. line'[c] = line[c] \o Group(g) /\ \A x \in Conns \ {c} : line'[x] = line[x]
    <3>1. /\ request_queue'[c] = request_queue[c] \o Group(g)
          /\ \A x \in Conns \ {c} : request_queue'[x] = request_queue[x]
          /\ response_queue' = response_queue
      BY <1>1, <1>5, <1>8, <2>1 DEF TypeOK
    <3>2. \A x \in Conns : line'[x] = response_queue'[x] \o request_queue'[x]
      BY DEF line
    <3>3. ASSUME NEW x \in Conns \ {c} PROVE line'[x] = line[x]
      BY <1>1, <3>1, <3>2
    <3> DEFINE R == response_queue[c]
               q == request_queue[c]
               G == Group(g)
    <3>4. R \in Seq(Requests) /\ q \in Seq(Requests) /\ G \in Seq(Requests) /\ line[c] = R \o q
      BY <1>1, <2>1, GroupFacts
    <3>5. line'[c] = R \o (q \o G)
      BY <2>1, <3>1, <3>2
    <3> HIDE DEF R, q, G
    <3>6. (R \o q) \o G = R \o (q \o G)
      BY <3>4, ConcatAssociative
    <3> QED
      BY <3>3, <3>4, <3>5, <3>6 DEF G
  <2> HIDE DEF line
  <2>4. /\ LineOK(line[c] \o Group(g), status')
        /\ Elements(line[c] \o Group(g)) = Elements(line[c]) \cup RequestsOf(g)
    <3> DEFINE s == line[c]
               tt == status'
               st == status
    <3>1. /\ LineOK(s, st) /\ \A b \in RequestsOf(g) : st[b] = "idle"
          /\ \A b \in Requests : tt[b] = IF b \in RequestsOf(g) THEN "pending" ELSE st[b]
      BY <1>1, <1>2, <2>1, <2>2
    <3> HIDE DEF s, tt, st
    <3>2. /\ LineOK(s \o Group(g), tt)
          /\ Elements(s \o Group(g)) = Elements(s) \cup RequestsOf(g)
      BY <3>1, LineJoined
    <3> QED
      BY <3>2 DEF s, tt
  <2>5. ASSUME NEW x \in Conns, x # c PROVE LineOK(line[x], status')
    <3> DEFINE s == line[x]
               tt == status'
    <3>1. LineOK(s, status) /\ \A a \in Elements(s) : \A b \in RequestsOf(a[1]) : tt[b] = status[b]
      BY <1>1, <1>3, <2>2
    <3> HIDE DEF s, tt
    <3>2. LineOK(s, tt)
      BY <3>1, LineKept
    <3> QED
      BY <3>2 DEF s, tt
  <2>6. \A x \in Conns : LineOK(line'[x], status')
    BY <2>3, <2>4, <2>5
  <2>7. \A x \in Conns : Elements(line'[x]) = Elements(line[x]) \cup
                              IF x = c THEN RequestsOf(g) ELSE {}
    BY <2>3, <2>4
  <2>8. \A x \in Conns : Elements(line[x]) \cap RequestsOf(g) = {}
    <3>1. \A x \in Conns : \A a \in Elements(line[x]) : status[a] = "pending"
      BY <1>1 DEF LineOK, Complete
    <3> QED
      BY <1>2, <3>1
  <2>9. \A x, y \in Conns : x # y => Elements(line'[x]) \cap Elements(line'[y]) = {}
    BY <1>1, <2>7, <2>8
  <2>10. \A a \in Requests : status'[a] = "pending" => \E x \in Conns : a \in Elements(line'[x])
    <3> TAKE a \in Requests
    <3>1. CASE a \in RequestsOf(g)
      BY <2>1, <2>7, <3>1
    <3>2. CASE a \notin RequestsOf(g)
      BY <1>1, <2>2, <2>7, <3>2
    <3> QED
      BY <3>1, <3>2
  <2> QED
    BY <2>6, <2>9, <2>10 DEF Held, LineOK, Once, Complete, InTurn
<1> QED
  BY <1>7, <1>8

\* The steps that drop a Client.
Drops == \E d \in open : Dropped(d)

\* What a step of a connection may do to its line: drop it, answer its head, or write.
LEMMA StepKinds ==
    ASSUME RInv, NEW c \in Conns, Step(c)
    PROVE  \/ Drops \/ Answered(c) \/ Write(c)
           \/ UNCHANGED <<request_queue, response_queue, status>>
<1>1. Inv
  BY DEF RInv
<1>2. CASE (\E n \in Running : Accept(c, n)) \/ Execute(c) \/ Closed(c)
  BY <1>2 DEF Accept, Execute, Closed, queueVars
<1>3. CASE Login(c)
  <2>1. CASE logins[name[c]] = NoConn
    BY <1>3, <2>1 DEF Login, queueVars
  <2>2. CASE logins[name[c]] # NoConn
    <3>1. c \in open /\ Dropped(logins[name[c]])
      BY <1>3, <2>2 DEF Login
    <3>2. name[c] \in Names
      BY <1>1, <3>1 DEF Inv, ConnOK, OpenOK
    <3>3. logins[name[c]] \in open
      BY <1>1, <2>2, <3>2 DEF Inv, LoginsAreOpen
    <3> QED
      BY <3>1, <3>3 DEF Drops
  <2> QED
    BY <2>1, <2>2
<1>4. CASE ConnectionLost(c) \/ TimedOut(c) \/ AnsweredBadly(c)
  <2>1. TimedOut(c) => c \in open
    BY <1>1 DEF TimedOut, Inv, ConnOK, TimerOK
  <2> QED
    BY <1>4, <2>1 DEF ConnectionLost, TimedOut, AnsweredBadly, Disconnect, Drops
<1> QED
  BY <1>2, <1>3, <1>4 DEF Step

\* Every step preserves the second invariant.
LEMMA StepHeld == RInv /\ [Next]_vars => RInv'
<1> SUFFICES ASSUME RInv, [Next]_vars PROVE Held(line, status)'
  BY StepInv DEF RInv
<1>1. ASSUME UNCHANGED <<request_queue, response_queue, status>> PROVE Held(line, status)'
  <2>1. line' = line
    BY <1>1, SameLine
  <2> QED
    BY <1>1, <2>1, LinesAlone
<1>2. CASE UNCHANGED vars
  BY <1>1, <1>2 DEF vars, queueVars
<1>3. CASE \E g \in Groups : Enqueue(g)
  BY <1>3, EnqueueLine
<1>4. ASSUME NEW c \in Conns, Step(c) PROVE Held(line, status)'
  <2>1. CASE Drops
    BY <2>1, DroppedLine DEF Drops
  <2>2. CASE Answered(c)
    BY <2>2, AnsweredLine
  <2>3. CASE Write(c)
    <3>1. line' = line /\ UNCHANGED status
      BY <2>3, WriteLine
    <3> QED
      BY <3>1, LinesAlone
  <2> QED
    BY <1>1, <1>4, <2>1, <2>2, <2>3, StepKinds
<1> QED
  BY <1>2, <1>3, <1>4 DEF Next

\* The second invariant holds at first, when all lines are empty.
LEMMA InitHeld == Init => RInv
<1> SUFFICES ASSUME Init PROVE RInv
  OBVIOUS
<1>1. Inv
  BY InitInv
<1>2. \A c \in Conns : line[c] = <<>>
  <2>1. <<>> \o <<>> = <<>>
    OBVIOUS
  <2>2. \A c \in Conns : response_queue[c] = <<>> /\ request_queue[c] = <<>>
    BY DEF Init
  <2> QED
    BY <2>1, <2>2 DEF line
<1>3. LineOK(<<>>, status) /\ Elements(<<>>) = {}
  BY NoLine
<1>4. \A a \in Requests : status[a] # "pending"
  BY DEF Init
<1> HIDE DEF line
<1> QED
  BY <1>1, <1>2, <1>3, <1>4 DEF RInv, Held
-----------------------------------------------------------------------------
(***************************************************************************)
(* The refinement.                                                         *)
(***************************************************************************)
LEMMA SameRequests ==
    /\ Service!Requests = Requests
    /\ \A g : Service!RequestsOf(g) = RequestsOf(g)
BY DEF Service!Requests, Service!RequestsOf, Requests, RequestsOf

\* Enqueueing is Enqueue of the service.
LEMMA EnqueueServes ==
    ASSUME NEW g \in Groups, Enqueue(g)
    PROVE  Service!Enqueue(g)
<1>1. /\ \A r \in RequestsOf(g) : status[r] = "idle"
      /\ Set(RequestsOf(g), "failed") \/ Set(RequestsOf(g), "pending")
  BY DEF Enqueue
<1>2. Service!Set(RequestsOf(g), "failed") \/ Service!Set(RequestsOf(g), "pending")
  BY <1>1, SameRequests DEF Set, Service!Set
<1> QED
  BY <1>1, <1>2, SameRequests DEF Service!Enqueue, Service!Idle

\* An answer is Answer of the service.
LEMMA AnsweredServes ==
    ASSUME RInv, NEW c \in Conns, Answered(c)
    PROVE  Service!Next
<1> DEFINE s == line[c]
           first == Head(response_queue[c])
           h == first[1]
           i == first[2]
<1>1. s # <<>> /\ first = Head(s)
  BY AnsweredLine
<1>2. s \in Seq(Requests) /\ Complete(s, status) /\ InTurn(s, status)
  BY RInvFacts DEF LineOK
<1>3. status' = [a \in Requests |-> IF a \in {first} THEN "ok" ELSE status[a]]
  BY DEF Answered, Set
<1> HIDE DEF s, first
<1>4. first = s[1] /\ first \in Requests /\ 1 \in 1 .. Len(s)
  BY <1>1, <1>2, SequenceStep
<1>5. status[first] = "pending"
  <2>1. first \in Elements(s)
    BY <1>2, <1>4, ElementsByIndex
  <2> QED
    BY <1>2, <2>1 DEF Complete
<1>6. \A n \in 1 .. s[1][2] - 1 : status[<<s[1][1], n>>] = "ok"
  <2>1. \A n \in 1 .. s[1][2] - 1 :
          status[<<s[1][1], n>>] = "ok" \/ \E m \in 1 .. 1 - 1 : s[m] = <<s[1][1], n>>
    BY <1>2, <1>4 DEF InTurn
  <2>2. 1 .. 1 - 1 = {}
    OBVIOUS
  <2> QED
    BY <2>1, <2>2
<1>7. h \in Groups /\ i \in 1 .. Size[h] /\ first = <<h, i>>
  BY <1>4, RequestParts
<1>8. \A k \in 1 .. i - 1 : status[<<h, k>>] = "ok"
  BY <1>4, <1>6
<1> HIDE DEF h, i
<1>9. status' = [a \in Requests |-> IF a = <<h, i>> THEN "ok"
                                    ELSE IF a[1] \in {} THEN "pending" ELSE status[a]]
  BY <1>3, <1>7
<1>10. Service!Answer(h, i, {})
  BY <1>5, <1>7, <1>8, <1>9, SameRequests DEF Service!Answer
<1>11. {} \in SUBSET (Groups \ {h})
  OBVIOUS
<1> QED
  BY <1>7, <1>10, <1>11 DEF Service!Next

\* A Client that is dropped is Fail of the service, of all its groups at once.
LEMMA DroppedServes ==
    ASSUME RInv, Drops
    PROVE  Service!Next
<1>1. PICK d \in open : Dropped(d)
  BY DEF Drops
<1> DEFINE H == Owed(d)
           lost == {g \in Groups : RequestsOf(g) \cap H # {}}
           pending(g) == Service!Pending(g)
<1>2. status' = [a \in Requests |-> IF a \in H THEN "failed" ELSE status[a]]
  BY <1>1 DEF Dropped, FailAll, Set
<1>3. H \subseteq Requests /\ \A a \in H : status[a] = "pending" /\ \A b \in RequestsOf(a[1]) :
                                              status[b] = "pending" => b \in H
  <2>1. d \in Conns
    BY RInvFacts
  <2>2. LineOK(line[d], status) /\ Elements(line[d]) = H /\ Elements(line[d]) \subseteq Requests
    BY <2>1, RInvFacts
  <2> HIDE DEF line, H
  <2> QED
    BY <2>2 DEF LineOK, Complete
<1> HIDE DEF H
<1>4. \A g : pending(g) = {a \in RequestsOf(g) : status[a] = "pending"}
  BY SameRequests DEF Service!Pending
<1> HIDE DEF pending
<1>5. ASSUME NEW g \in lost PROVE pending(g) \subseteq H /\ pending(g) # {}
  <2>1. PICK a \in RequestsOf(g) : a \in H
    OBVIOUS
  <2>2. a[1] = g
    BY <2>1, GroupElements
  <2> QED
    BY <1>3, <1>4, <2>1, <2>2
<1>6. ASSUME NEW a \in H PROVE a[1] \in lost /\ a \in pending(a[1])
  <2>1. a[1] \in Groups /\ a[2] \in 1 .. Size[a[1]] /\ a = <<a[1], a[2]>> /\ status[a] = "pending"
    BY <1>3, RequestParts
  <2>2. a \in RequestsOf(a[1])
    BY <2>1 DEF RequestsOf
  <2> QED
    BY <1>4, <2>1, <2>2
<1>7. lost \in SUBSET Groups
  OBVIOUS
<1> HIDE DEF lost
<1>8. UNION {pending(g) : g \in lost} = H
  BY <1>5, <1>6
<1>9. Service!Set(H, "failed")
  BY <1>2, SameRequests DEF Service!Set
<1>10. Service!Fail(lost)
  BY <1>5, <1>8, <1>9 DEF Service!Fail, pending
<1> QED
  BY <1>7, <1>10 DEF Service!Next

\* Every step is one of the service or leaves the status alone.
LEMMA StepServes == RInv /\ [Next]_vars => [Service!Next]_status
<1> SUFFICES ASSUME RInv, [Next]_vars PROVE Service!Next \/ status' = status
  OBVIOUS
<1>1. CASE UNCHANGED vars
  BY <1>1 DEF vars
<1>2. CASE \E g \in Groups : Enqueue(g)
  BY <1>2, EnqueueServes DEF Service!Next
<1>3. ASSUME NEW c \in Conns, Step(c) PROVE Service!Next \/ status' = status
  BY <1>3, StepKinds, AnsweredServes, DroppedServes DEF Write
<1> QED
  BY <1>1, <1>2, <1>3 DEF Next

\* The server implements RequestService: a request completes once, in the
\* order of its group, whatever is answered, evicted, refused or lost
\* meanwhile, and what is left of a group fails at once.
THEOREM ConnectionImplementsService == Spec => ServiceSpec
<1>1. Init => Service!Init
  BY SameRequests DEF Init, Service!Init
<1> QED
  BY <1>1, InitHeld, StepHeld, StepServes, PTL DEF Spec, ServiceSpec, Service!Spec

\* A request is pending exactly while one open connection owes it: however
\* connections end, no request is forgotten and none completes twice.
THEOREM PendingHasOneOwner == Spec => []PendingIsOwed
<1>1. RInv => PendingIsOwed
  <2> SUFFICES ASSUME RInv PROVE PendingIsOwed
    OBVIOUS
  <2>1. /\ open \subseteq Conns
        /\ \A c \in Conns : LineOK(line[c], status) /\ Elements(line[c]) = Owed(c)
    BY RInvFacts
  <2>2. /\ \A c, d \in Conns : c # d => Elements(line[c]) \cap Elements(line[d]) = {}
        /\ \A a \in Requests : status[a] = "pending" => \E c \in Conns : a \in Elements(line[c])
    BY DEF RInv, Held
  <2>3. \A c \in Conns \ open : Owed(c) = {}
    <3>1. Elements(<<>>) = {}
      BY NoLine
    <3> QED
      BY <3>1 DEF RInv, Inv, ConnOK, DroppedOK, Owed
  <2> HIDE DEF line
  <2>4. \A c \in Conns : \A a \in Owed(c) : status[a] = "pending"
    BY <2>1 DEF LineOK, Complete
  <2> QED
    BY <2>1, <2>2, <2>3, <2>4 DEF PendingIsOwed
<1> QED
  BY <1>1, InitHeld, StepHeld, PTL DEF Spec
==============================================================================
