----------------------------- MODULE CommonLemmas -----------------------------
(* Lemmas about sequences, finite sets, numbers and sums that the proofs *)
(* share.                                                                *)
EXTENDS Integers, Sequences, FiniteSets, SequencesExt,
        SequenceTheorems, FiniteSetTheorems, WellFoundedInduction, TLAPS

\* What Head, Tail and the elements of a non-empty sequence are.
LEMMA SequenceStep ==
    ASSUME NEW S, NEW s \in Seq(S), s # <<>>
    PROVE  /\ Head(s) = s[1] /\ Head(s) \in S /\ Tail(s) \in Seq(S)
           /\ Len(Tail(s)) = Len(s) - 1 /\ Len(s) \in Nat \ {0}
           /\ \A i \in 1 .. Len(s) - 1 : Tail(s)[i] = s[i + 1]
           /\ \A i \in 1 .. Len(s) : s[i] \in S
BY HeadTailProperties, EmptySeq, ElementOfSeq

\* The set of elements of a concatenation is the union of both.
LEMMA SequenceSet ==
    ASSUME NEW S, NEW s \in Seq(S), NEW t \in Seq(S)
    PROVE  /\ ToSet(s) = {s[i] : i \in 1 .. Len(s)}
           /\ ToSet(s \o t) = ToSet(s) \cup ToSet(t)
<1>1. \A q \in Seq(S) : ToSet(q) = {q[i] : i \in 1 .. Len(q)}
  BY DEF ToSet
<1>2. s \o t \in Seq(S) /\ Len(s \o t) = Len(s) + Len(t)
  BY ConcatProperties
<1>3. \A i \in 1 .. Len(s) + Len(t) : (s \o t)[i] = IF i <= Len(s) THEN s[i] ELSE t[i - Len(s)]
  BY ConcatProperties
<1>4. \A x \in ToSet(s \o t) : x \in ToSet(s) \cup ToSet(t)
  <2> TAKE x \in ToSet(s \o t)
  <2>1. PICK i \in 1 .. Len(s) + Len(t) : (s \o t)[i] = x
    BY <1>1, <1>2
  <2>2. Len(s) \in Nat /\ Len(t) \in Nat
    OBVIOUS
  <2>3. CASE i <= Len(s)
    BY <1>1, <1>3, <2>1, <2>2, <2>3
  <2>4. CASE ~(i <= Len(s))
    <3>1. i - Len(s) \in 1 .. Len(t)
      BY <2>2, <2>4
    <3> QED
      BY <1>1, <1>3, <2>1, <2>4, <3>1
  <2> QED
    BY <2>3, <2>4
<1>5. \A x \in ToSet(s) : x \in ToSet(s \o t)
  <2> TAKE x \in ToSet(s)
  <2>1. PICK i \in 1 .. Len(s) : s[i] = x
    BY <1>1
  <2>2. i \in 1 .. Len(s) + Len(t)
    OBVIOUS
  <2>3. (s \o t)[i] = x
    BY <1>3, <2>1, <2>2
  <2> QED
    BY <1>1, <1>2, <2>2, <2>3
<1>6. \A x \in ToSet(t) : x \in ToSet(s \o t)
  <2> TAKE x \in ToSet(t)
  <2>1. PICK i \in 1 .. Len(t) : t[i] = x
    BY <1>1
  <2>2. Len(s) \in Nat /\ Len(t) \in Nat
    OBVIOUS
  <2>3. Len(s) + i \in 1 .. Len(s) + Len(t) /\ ~(Len(s) + i <= Len(s)) /\ (Len(s) + i) - Len(s) = i
    BY <2>2
  <2>4. (s \o t)[Len(s) + i] = x
    BY <1>3, <2>1, <2>3
  <2> QED
    BY <1>1, <1>2, <2>3, <2>4
<1> QED
  BY <1>1, <1>4, <1>5, <1>6

\* A queue that is left by its head.
LEMMA QueueTail ==
    ASSUME NEW S, NEW s \in Seq(S), s # <<>>,
           \A i, j \in 1 .. Len(s) : s[i] = s[j] => i = j
    PROVE  /\ \A i, j \in 1 .. Len(Tail(s)) : Tail(s)[i] = Tail(s)[j] => i = j
           /\ ToSet(Tail(s)) = ToSet(s) \ {Head(s)}
           /\ Head(s) \in ToSet(s)
<1>1. /\ Head(s) = s[1] /\ Tail(s) \in Seq(S)
      /\ Len(Tail(s)) = Len(s) - 1 /\ Len(s) \in Nat \ {0}
      /\ \A i \in 1 .. Len(s) - 1 : Tail(s)[i] = s[i + 1]
  BY SequenceStep
<1>2. \A i, j \in 1 .. Len(Tail(s)) : Tail(s)[i] = Tail(s)[j] => i = j
  <2> TAKE i, j \in 1 .. Len(Tail(s))
  <2>1. i + 1 \in 1 .. Len(s) /\ j + 1 \in 1 .. Len(s)
    BY <1>1
  <2>2. Tail(s)[i] = s[i + 1] /\ Tail(s)[j] = s[j + 1]
    BY <1>1
  <2>3. s[i + 1] = s[j + 1] => i + 1 = j + 1
    BY <2>1
  <2> QED
    BY <2>2, <2>3
<1>3. ToSet(s) = {s[i] : i \in 1 .. Len(s)} /\ ToSet(Tail(s)) = {Tail(s)[i] : i \in 1 .. Len(Tail(s))}
  <2>1. \A q \in Seq(S) : ToSet(q) = {q[i] : i \in 1 .. Len(q)}
    BY SequenceSet
  <2> QED
    BY <1>1, <2>1
<1>4. \A x \in ToSet(Tail(s)) : x \in ToSet(s) /\ x # Head(s)
  <2> TAKE x \in ToSet(Tail(s))
  <2>1. PICK i \in 1 .. Len(Tail(s)) : Tail(s)[i] = x
    BY <1>3
  <2>2. i + 1 \in 1 .. Len(s) /\ 1 \in 1 .. Len(s) /\ i + 1 # 1 /\ s[i + 1] = x
    BY <1>1, <2>1
  <2>3. x # s[1]
    BY <2>2
  <2> QED
    BY <1>1, <1>3, <2>2, <2>3
<1>5. \A x \in ToSet(s) : x # Head(s) => x \in ToSet(Tail(s))
  <2> TAKE x \in ToSet(s)
  <2> HAVE x # Head(s)
  <2>1. PICK i \in 1 .. Len(s) : s[i] = x
    BY <1>3
  <2>2. i # 1 /\ i - 1 \in 1 .. Len(Tail(s)) /\ i - 1 \in 1 .. Len(s) - 1 /\ (i - 1) + 1 = i
    BY <1>1, <2>1
  <2>3. Tail(s)[i - 1] = x
    BY <1>1, <2>1, <2>2
  <2> QED
    BY <1>3, <2>2, <2>3
<1>6. Head(s) \in ToSet(s)
  BY <1>1, <1>3
<1> QED
  BY <1>2, <1>4, <1>5, <1>6

\* A sequence is a prefix of what continues it.
LEMMA OrderPrefix ==
    ASSUME NEW S, NEW A \in Seq(S), NEW X \in Seq(S)
    PROVE  IsPrefix(A, A \o X)
<1>1. /\ A \o X \in Seq(S) /\ Len(A \o X) = Len(A) + Len(X)
      /\ \A i \in 1 .. Len(A) + Len(X) : (A \o X)[i] = IF i <= Len(A) THEN A[i] ELSE X[i - Len(A)]
  BY ConcatProperties
<1>2. Len(A) \in Nat /\ Len(X) \in Nat
  OBVIOUS
<1>3. \A i \in 1 .. Len(A) : A[i] = (A \o X)[i]
  BY <1>1, <1>2
<1>4. \A i \in 1 .. Len(A) : (A \o X)[i] \in S
  BY <1>3, ElementOfSeq
<1>5. /\ SubSeq(A \o X, 1, Len(A)) \in Seq(S)
      /\ Len(SubSeq(A \o X, 1, Len(A))) = Len(A)
      /\ \A i \in 1 .. Len(A) : SubSeq(A \o X, 1, Len(A))[i] = (A \o X)[i]
  <2> DEFINE t == A \o X
  <2>1. \A i \in 1 .. Len(A) : t[i] \in S
    BY <1>4
  <2>2. 1 \in Int /\ Len(A) \in Int
    BY <1>2
  <2> HIDE DEF t
  <2>3. /\ SubSeq(t, 1, Len(A)) \in Seq(S)
        /\ Len(SubSeq(t, 1, Len(A))) = IF 1 <= Len(A) THEN Len(A) - 1 + 1 ELSE 0
        /\ \A i \in 1 .. Len(A) - 1 + 1 : SubSeq(t, 1, Len(A))[i] = t[1 + i - 1]
    BY <2>1, <2>2, SubSeqProperties
  <2>4. (IF 1 <= Len(A) THEN Len(A) - 1 + 1 ELSE 0) = Len(A) /\ Len(A) - 1 + 1 = Len(A)
    BY <1>2
  <2>5. \A i \in 1 .. Len(A) : 1 + i - 1 = i
    BY <1>2
  <2> QED
    BY <2>3, <2>4, <2>5 DEF t
<1>6. SubSeq(A \o X, 1, Len(A)) = A
  <2> DEFINE t == SubSeq(A \o X, 1, Len(A))
  <2>1. t \in Seq(S) /\ Len(t) = Len(A) /\ \A i \in 1 .. Len(t) : t[i] = A[i]
    BY <1>3, <1>5
  <2> HIDE DEF t
  <2>2. t = A
    BY <2>1, SeqEqual
  <2> QED
    BY <2>2 DEF t
<1> QED
  BY <1>1, <1>2, <1>6 DEF IsPrefix

\* A sequence that loses its head, alone or at the front of another one.
LEMMA TailOfConcat ==
    ASSUME NEW S, NEW A \in Seq(S), NEW X \in Seq(S), A # <<>>
    PROVE  Tail(A) \o X = Tail(A \o X) /\ A \o X # <<>>
<1> DEFINE s == A \o X
           t == Tail(A) \o X
<1>1. /\ Tail(A) \in Seq(S) /\ Len(Tail(A)) = Len(A) - 1 /\ Len(A) \in Nat \ {0}
      /\ \A i \in 1 .. Len(A) - 1 : Tail(A)[i] = A[i + 1]
  BY SequenceStep
<1>2. /\ s \in Seq(S) /\ Len(s) = Len(A) + Len(X)
      /\ \A i \in 1 .. Len(A) + Len(X) : s[i] = IF i <= Len(A) THEN A[i] ELSE X[i - Len(A)]
  BY ConcatProperties
<1>3. /\ t \in Seq(S) /\ Len(t) = (Len(A) - 1) + Len(X)
      /\ \A i \in 1 .. (Len(A) - 1) + Len(X) :
           t[i] = IF i <= Len(A) - 1 THEN Tail(A)[i] ELSE X[i - (Len(A) - 1)]
  BY <1>1, ConcatProperties
<1>4. Len(X) \in Nat
  OBVIOUS
<1> HIDE DEF s, t
<1>5. s # <<>>
  BY <1>1, <1>2, <1>4, EmptySeq
<1>6. /\ Tail(s) \in Seq(S) /\ Len(Tail(s)) = Len(s) - 1
      /\ \A i \in 1 .. Len(s) - 1 : Tail(s)[i] = s[i + 1]
  BY <1>2, <1>5, SequenceStep
<1>7. Len(t) = Len(Tail(s))
  BY <1>1, <1>2, <1>3, <1>4, <1>6
<1>8. \A i \in 1 .. Len(t) : t[i] = Tail(s)[i]
  <2> TAKE i \in 1 .. Len(t)
  <2>1. /\ i \in 1 .. (Len(A) - 1) + Len(X) /\ i \in 1 .. Len(s) - 1
        /\ i + 1 \in 1 .. Len(A) + Len(X)
    BY <1>1, <1>2, <1>3, <1>4
  <2>2. Tail(s)[i] = IF i + 1 <= Len(A) THEN A[i + 1] ELSE X[(i + 1) - Len(A)]
    BY <1>2, <1>6, <2>1
  <2>3. CASE i <= Len(A) - 1
    <3>1. i \in 1 .. Len(A) - 1 /\ i + 1 <= Len(A)
      BY <1>1, <2>1, <2>3
    <3> QED
      BY <1>1, <1>3, <2>1, <2>2, <2>3, <3>1
  <2>4. CASE ~(i <= Len(A) - 1)
    <3>1. ~(i + 1 <= Len(A)) /\ (i + 1) - Len(A) = i - (Len(A) - 1)
      BY <1>1, <2>1, <2>4
    <3> QED
      BY <1>3, <2>1, <2>2, <2>4, <3>1
  <2> QED
    BY <2>3, <2>4
<1>9. t = Tail(s)
  BY <1>3, <1>6, <1>7, <1>8, SeqEqual
<1> QED
  BY <1>5, <1>9 DEF s, t

\* The boundary between two parts of a sequence may move by one element.
LEMMA MoveHead ==
    ASSUME NEW S, NEW A \in Seq(S), NEW M \in Seq(S), M # <<>>
    PROVE  Append(A, Head(M)) \o Tail(M) = A \o M
<1> DEFINE h == Head(M)
<1>1. h \in S /\ Tail(M) \in Seq(S) /\ M = <<h>> \o Tail(M)
  <2>1. h \in S /\ Tail(M) \in Seq(S) /\ h = M[1] /\ Len(M) \in Nat \ {0}
    BY SequenceStep
  <2>2. /\ Len(Tail(M)) = Len(M) - 1
        /\ \A i \in 1 .. Len(M) - 1 : Tail(M)[i] = M[i + 1]
    BY SequenceStep
  <2>3. <<h>> \in Seq(S) /\ Len(<<h>>) = 1 /\ <<h>>[1] = h
    BY <2>1
  <2> DEFINE o == <<h>>
             u == o \o Tail(M)
  <2>4. /\ u \in Seq(S) /\ Len(u) = 1 + (Len(M) - 1)
        /\ \A i \in 1 .. 1 + (Len(M) - 1) : u[i] = IF i <= 1 THEN o[i] ELSE Tail(M)[i - 1]
    BY <2>1, <2>2, <2>3, ConcatProperties
  <2>5. o[1] = h
    BY <2>3
  <2> HIDE DEF u, o, h
  <2>6. Len(M) = Len(u)
    BY <2>1, <2>4
  <2>7. \A i \in 1 .. Len(M) : M[i] = u[i]
    <3> TAKE i \in 1 .. Len(M)
    <3>1. i \in 1 .. 1 + (Len(M) - 1) /\ (i <= 1 => i = 1)
          /\ (~(i <= 1) => i - 1 \in 1 .. Len(M) - 1 /\ (i - 1) + 1 = i)
      BY <2>1
    <3> QED
      BY <2>1, <2>2, <2>4, <2>5, <3>1
  <2>8. M = u
    BY <2>4, <2>6, <2>7, SeqEqual
  <2> QED
    BY <2>1, <2>8 DEF u, o
<1>2. Append(A, h) = A \o <<h>> /\ <<h>> \in Seq(S)
  BY <1>1, AppendIsConcat
<1> HIDE DEF h
<1>3. (A \o <<h>>) \o Tail(M) = A \o (<<h>> \o Tail(M))
  BY <1>1, <1>2, ConcatAssociative
<1> QED
  BY <1>1, <1>2, <1>3 DEF h

\* Sizes of disjoint finite sets add up.
LEMMA DisjointUnion ==
    ASSUME NEW A, NEW B, IsFiniteSet(A), IsFiniteSet(B), A \cap B = {}
    PROVE  /\ IsFiniteSet(A \cup B)
           /\ Cardinality(A \cup B) = Cardinality(A) + Cardinality(B)
<1>1. /\ IsFiniteSet(A \cup B)
      /\ Cardinality(A \cup B) = Cardinality(A) + Cardinality(B) - Cardinality(A \cap B)
  BY FS_Union
<1>2. Cardinality(A \cap B) = 0
  BY FS_EmptySet, Zenon
<1>3. Cardinality(A) \in Nat /\ Cardinality(B) \in Nat
  BY FS_CardinalityType
<1> QED
  BY <1>1, <1>2, <1>3

\* A non-empty set of numbers has a least one.
LEMMA LeastNatural ==
    ASSUME NEW T, T \subseteq Nat, T # {}
    PROVE  \E x \in T : \A y \in T : x <= y
<1>1. \E x \in T : \A y \in T : ~ (<<y, x>> \in OpToRel(<, Nat))
  BY NatLessThanWellFounded, WFMin
<1>2. PICK x \in T : \A y \in T : ~ (<<y, x>> \in OpToRel(<, Nat))
  BY <1>1
<1>3. \A y \in T : ~(y < x)
  BY <1>2, Zenon DEF OpToRel
<1> QED
  BY <1>3
-----------------------------------------------------------------------------
(***************************************************************************)
(* Induction over finite sets, and sums of functions.                      *)
(***************************************************************************)
\* A family of subsets of S that has the empty set, and with every set those
\* that have one more element, has S.
LEMMA SetInduction ==
    ASSUME NEW S, IsFiniteSet(S), NEW C, {} \in C,
           \A T \in SUBSET S : \A x \in S \ T : T \in C => T \cup {x} \in C
    PROVE  S \in C
<1> SUFFICES ASSUME S \notin C PROVE FALSE
  OBVIOUS
<1> DEFINE Sizes0 == {Cardinality(T) : T \in {U \in SUBSET S : U \notin C}}
<1>1. \A T \in SUBSET S : IsFiniteSet(T) /\ Cardinality(T) \in Nat
  BY FS_Subset, FS_CardinalityType
<1>2. Sizes0 \subseteq Nat /\ Sizes0 # {}
  <2>1. Cardinality(S) \in Sizes0
    OBVIOUS
  <2> QED
    BY <1>1, <2>1
<1> HIDE DEF Sizes0
<1>3. PICK n \in Sizes0 : \A m \in Sizes0 : n <= m
  BY <1>2, LeastNatural
<1>4. PICK T \in SUBSET S : T \notin C /\ n = Cardinality(T)
  BY <1>3 DEF Sizes0
<1>5. PICK x \in T : TRUE
  BY <1>4
<1>6. T \ {x} \in SUBSET S /\ x \in S \ (T \ {x}) /\ (T \ {x}) \cup {x} = T
  BY <1>4, <1>5
<1>7. Cardinality(T \ {x}) = Cardinality(T) - 1
  BY <1>1, <1>4, <1>5, FS_RemoveElement
<1>8. T \ {x} \notin C
  BY <1>4, <1>6
<1>9. Cardinality(T \ {x}) \in Sizes0
  BY <1>6, <1>8 DEF Sizes0
<1> QED
  BY <1>1, <1>2, <1>3, <1>4, <1>7, <1>9

\* The function that SumFunctionOnSet chooses.
SumsTo(f, S, g) ==
    g = [s \in SUBSET S |->
           IF s = {} THEN 0 ELSE f[CHOOSE x \in s : TRUE] + g[s \ {CHOOSE x \in s : TRUE}]]

\* Induction over numbers.
LEMMA NumberInduction ==
    ASSUME NEW K, 0 \in K, \A n \in Nat : n \in K => n + 1 \in K
    PROVE  Nat \subseteq K
<1> SUFFICES ASSUME Nat \ K # {} PROVE FALSE
  OBVIOUS
<1>1. PICK n \in Nat \ K : \A m \in Nat \ K : n <= m
  <2>1. Nat \ K \subseteq Nat
    OBVIOUS
  <2> HIDE DEF Nat
  <2> QED
    BY <2>1, LeastNatural
<1>2. n # 0 /\ n - 1 \in Nat
  BY <1>1
<1>3. n - 1 \in K
  BY <1>1, <1>2
<1> QED
  BY <1>1, <1>2, <1>3

\* There is such a function.
LEMMA SumsExist ==
    ASSUME NEW f, NEW S, IsFiniteSet(S)
    PROVE  \E g : SumsTo(f, S, g)
<1> DEFINE first(s) == CHOOSE x \in s : TRUE
           next(s, g) == IF s = {} THEN 0 ELSE f[first(s)] + g[s \ {first(s)}]
           upTo(n) == {s \in SUBSET S : Cardinality(s) <= n}
           K == {n \in Nat : \E g : \A s \in upTo(n) : g[s] = next(s, g)}
<1>1. \A s \in SUBSET S : IsFiniteSet(s) /\ Cardinality(s) \in Nat /\ (Cardinality(s) = 0 <=> s = {})
  BY FS_Subset, FS_CardinalityType, FS_EmptySet
<1>2. \A s \in SUBSET S : s # {} =>
        s \ {first(s)} \in SUBSET S /\ Cardinality(s \ {first(s)}) = Cardinality(s) - 1
  <2> SUFFICES ASSUME NEW s \in SUBSET S, s # {}
               PROVE  Cardinality(s \ {first(s)}) = Cardinality(s) - 1
    OBVIOUS
  <2>1. first(s) \in s
    OBVIOUS
  <2> QED
    BY <1>1, <2>1, FS_RemoveElement
<1> HIDE DEF first
<1>3. 0 \in K
  <2>1. \A s \in upTo(0) : [t \in {{}} |-> 0][s] = next(s, [t \in {{}} |-> 0])
    BY <1>1
  <2> QED
    BY <2>1
<1>4. ASSUME NEW n \in Nat, n \in K PROVE n + 1 \in K
  <2>1. PICK g : \A s \in upTo(n) : g[s] = next(s, g)
    BY <1>4
  <2> DEFINE h == [s \in upTo(n + 1) |-> next(s, g)]
  <2>2. \A s \in upTo(n) : s \in upTo(n + 1) /\ h[s] = g[s]
    <3> SUFFICES ASSUME NEW s \in upTo(n) PROVE s \in upTo(n + 1) /\ h[s] = g[s]
      OBVIOUS
    <3>1. s \in upTo(n + 1)
      BY <1>1
    <3> QED
      BY <2>1, <3>1
  <2>3. ASSUME NEW s \in upTo(n + 1) PROVE h[s] = next(s, h)
    <3>1. CASE s = {}
      BY <3>1
    <3>2. CASE s # {}
      <4>1. s \ {first(s)} \in upTo(n)
        BY <1>1, <1>2, <3>2
      <4>2. h[s] = f[first(s)] + g[s \ {first(s)}]
        BY <3>2
      <4> QED
        BY <2>2, <3>2, <4>1, <4>2
    <3> QED
      BY <3>1, <3>2
  <2> HIDE DEF h
  <2>4. \E k : \A s \in upTo(n + 1) : k[s] = next(s, k)
    BY <2>3
  <2> QED
    BY <2>4
<1>5. Cardinality(S) \in K
  <2>1. Cardinality(S) \in Nat
    BY <1>1
  <2> HIDE DEF K
  <2>2. Nat \subseteq K
    BY <1>3, <1>4, NumberInduction
  <2> QED
    BY <2>1, <2>2
<1>6. PICK g : \A s \in upTo(Cardinality(S)) : g[s] = next(s, g)
  BY <1>5
<1>7. \A s \in SUBSET S : s \in upTo(Cardinality(S))
  BY FS_Subset
<1> DEFINE h == [s \in SUBSET S |-> g[s]]
<1>8. \A s \in SUBSET S : h[s] = next(s, h)
  <2> SUFFICES ASSUME NEW s \in SUBSET S PROVE h[s] = next(s, h)
    OBVIOUS
  <2>1. g[s] = next(s, g)
    BY <1>6, <1>7
  <2>2. s # {} => h[s \ {first(s)}] = g[s \ {first(s)}]
    BY <1>2
  <2> QED
    BY <2>1, <2>2
<1>9. h = [s \in SUBSET S |-> next(s, h)]
  BY <1>8, Zenon
<1>10. SumsTo(f, S, h)
  BY <1>9, Zenon DEF SumsTo, first
<1> QED
  BY <1>10

\* What SumFunctionOnSet is.
Adds(f, S, g) ==
    \A s \in SUBSET S :
        g[s] = IF s = {} THEN 0 ELSE f[CHOOSE x \in s : TRUE] + g[s \ {CHOOSE x \in s : TRUE}]

\* A sum over a finite set is what such a function has for it.
LEMMA SumAdds ==
    ASSUME NEW f, NEW S, IsFiniteSet(S)
    PROVE  \E g : Adds(f, S, g) /\ SumFunctionOnSet(f, S) = g[S]
<1> DEFINE g == CHOOSE h : SumsTo(f, S, h)
<1>1. SumsTo(f, S, g)
  BY SumsExist
<1>2. SumFunctionOnSet(f, S) = g[S]
  BY DEF SumFunctionOnSet, FoldFunctionOnSet, MapThenFoldSet, SumsTo
<1> HIDE DEF g
<1>3. Adds(f, S, g)
  BY <1>1, Zenon DEF SumsTo, Adds
<1> QED
  BY <1>2, <1>3

\* Such functions agree where both are defined.
LEMMA SumsAgree ==
    ASSUME NEW f, NEW S, IsFiniteSet(S), NEW T \in SUBSET S,
           NEW g, Adds(f, S, g), NEW h, Adds(f, T, h)
    PROVE  h[T] = g[T]
<1> DEFINE first(s) == CHOOSE x \in s : TRUE
           K == {n \in Nat : \A s \in SUBSET T : Cardinality(s) <= n => h[s] = g[s]}
<1>1. \A s \in SUBSET T : /\ s \in SUBSET S /\ IsFiniteSet(s) /\ Cardinality(s) \in Nat
                          /\ Cardinality(s) = 0 <=> s = {}
  BY FS_Subset, FS_CardinalityType, FS_EmptySet
<1>2. \A s \in SUBSET T : s # {} =>
        s \ {first(s)} \in SUBSET T /\ Cardinality(s \ {first(s)}) = Cardinality(s) - 1
  <2> SUFFICES ASSUME NEW s \in SUBSET T, s # {}
               PROVE  Cardinality(s \ {first(s)}) = Cardinality(s) - 1
    OBVIOUS
  <2>1. first(s) \in s
    OBVIOUS
  <2> QED
    BY <1>1, <2>1, FS_RemoveElement
<1>3. \A s \in SUBSET T : s # {} => /\ g[s] = f[first(s)] + g[s \ {first(s)}]
                                    /\ h[s] = f[first(s)] + h[s \ {first(s)}]
  BY <1>1 DEF Adds
<1>4. g[{}] = 0 /\ h[{}] = 0
  BY DEF Adds
<1> HIDE DEF first
<1>5. 0 \in K
  BY <1>1, <1>4
<1>6. ASSUME NEW n \in Nat, n \in K PROVE n + 1 \in K
  <2> SUFFICES ASSUME NEW s \in SUBSET T, Cardinality(s) <= n + 1, s # {} PROVE h[s] = g[s]
    BY <1>4
  <2>1. Cardinality(s \ {first(s)}) <= n /\ s \ {first(s)} \in SUBSET T
    BY <1>1, <1>2
  <2>2. h[s \ {first(s)}] = g[s \ {first(s)}]
    BY <1>6, <2>1
  <2> QED
    BY <1>3, <2>2
<1>7. Cardinality(T) \in K
  <2>1. Cardinality(T) \in Nat
    BY <1>1
  <2> HIDE DEF K
  <2>2. Nat \subseteq K
    BY <1>5, <1>6, NumberInduction
  <2> QED
    BY <2>1, <2>2
<1> QED
  BY <1>1, <1>7

\* The sum over no elements, and that over some.
LEMMA SumEmpty == ASSUME NEW f PROVE SumFunctionOnSet(f, {}) = 0
<1>1. IsFiniteSet({}) /\ {} \in SUBSET {}
  BY FS_EmptySet
<1>2. PICK g : Adds(f, {}, g) /\ SumFunctionOnSet(f, {}) = g[{}]
  BY <1>1, SumAdds
<1> QED
  BY <1>1, <1>2 DEF Adds

\* A sum over a set that is not empty is one of its terms and the sum over the rest.
LEMMA SumFirst ==
    ASSUME NEW f, NEW S, IsFiniteSet(S), S # {}
    PROVE  \E x \in S : SumFunctionOnSet(f, S) = f[x] + SumFunctionOnSet(f, S \ {x})
<1> DEFINE y == CHOOSE x \in S : TRUE
           T == S \ {y}
<1>1. y \in S
  OBVIOUS
<1>2. PICK g : Adds(f, S, g) /\ SumFunctionOnSet(f, S) = g[S]
  BY SumAdds
<1>3. SumFunctionOnSet(f, S) = f[y] + g[T]
  BY <1>2 DEF Adds
<1> HIDE DEF y
<1>4. IsFiniteSet(T) /\ T \in SUBSET S
  BY FS_Subset
<1> HIDE DEF T
<1>5. PICK h : Adds(f, T, h) /\ SumFunctionOnSet(f, T) = h[T]
  BY <1>4, SumAdds
<1>6. h[T] = g[T]
  BY <1>2, <1>4, <1>5, SumsAgree
<1> QED
  BY <1>1, <1>3, <1>5, <1>6 DEF T

\* Any element may be taken out first.
LEMMA SumRemoves ==
    ASSUME NEW f, NEW S, IsFiniteSet(S), \A x \in S : f[x] \in Int
    PROVE  /\ SumFunctionOnSet(f, S) \in Int
           /\ \A y \in S : SumFunctionOnSet(f, S) = f[y] + SumFunctionOnSet(f, S \ {y})
<1> DEFINE sum(s) == SumFunctionOnSet(f, s)
           good(s) == sum(s) \in Int /\ \A y \in s : sum(s) = f[y] + sum(s \ {y})
           K == {n \in Nat : \A s \in SUBSET S : Cardinality(s) <= n => good(s)}
<1>1. \A s \in SUBSET S : /\ IsFiniteSet(s) /\ Cardinality(s) \in Nat
                          /\ Cardinality(s) = 0 <=> s = {}
  BY FS_Subset, FS_CardinalityType, FS_EmptySet
<1>2. \A s \in SUBSET S : \A y \in s :
        s \ {y} \in SUBSET S /\ Cardinality(s \ {y}) = Cardinality(s) - 1
  BY <1>1, FS_RemoveElement
<1>3. \A s \in SUBSET S : s # {} => \E x \in s : sum(s) = f[x] + sum(s \ {x})
  BY <1>1, SumFirst
<1>4. good({})
  BY SumEmpty
<1> HIDE DEF sum
<1>5. 0 \in K
  BY <1>1, <1>4
<1>6. ASSUME NEW n \in Nat, n \in K PROVE n + 1 \in K
  <2> SUFFICES ASSUME NEW s \in SUBSET S, Cardinality(s) <= n + 1, s # {} PROVE good(s)
    BY <1>4
  <2>1. \A y \in s : good(s \ {y}) /\ s \ {y} \in SUBSET S
    <3> SUFFICES ASSUME NEW y \in s PROVE good(s \ {y}) /\ s \ {y} \in SUBSET S
      OBVIOUS
    <3>1. Cardinality(s \ {y}) <= n /\ s \ {y} \in SUBSET S
      BY <1>1, <1>2
    <3> QED
      BY <1>6, <3>1
  <2>2. PICK x \in s : sum(s) = f[x] + sum(s \ {x})
    BY <1>3
  <2>3. sum(s) \in Int
    BY <2>1, <2>2
  <2>4. ASSUME NEW y \in s, y # x PROVE sum(s) = f[y] + sum(s \ {y})
    <3>1. sum(s \ {x}) = f[y] + sum((s \ {x}) \ {y})
      BY <2>1, <2>4
    <3>2. sum(s \ {y}) = f[x] + sum((s \ {y}) \ {x})
      BY <2>1, <2>4
    <3>3. (s \ {x}) \ {y} = (s \ {y}) \ {x}
      OBVIOUS
    <3>4. sum((s \ {y}) \ {x}) \in Int
      <4>1. Cardinality((s \ {y}) \ {x}) <= n /\ (s \ {y}) \ {x} \in SUBSET S
        <5>1. s \ {y} \in SUBSET S /\ x \in s \ {y} /\ Cardinality(s \ {y}) = Cardinality(s) - 1
          BY <1>2, <2>4
        <5>2. /\ (s \ {y}) \ {x} \in SUBSET S
              /\ Cardinality((s \ {y}) \ {x}) = Cardinality(s \ {y}) - 1
          BY <1>2, <5>1
        <5> QED
          BY <1>1, <5>1, <5>2
      <4> QED
        BY <1>6, <4>1
    <3>5. f[x] \in Int /\ f[y] \in Int
      OBVIOUS
    <3>6. sum(s \ {x}) = f[y] + sum((s \ {y}) \ {x})
      BY <3>1, <3>3
    <3> QED
      BY <2>2, <3>2, <3>4, <3>5, <3>6
  <2> QED
    BY <2>2, <2>3, <2>4
<1>7. Cardinality(S) \in K
  <2>1. Cardinality(S) \in Nat
    BY <1>1
  <2> HIDE DEF K
  <2>2. Nat \subseteq K
    BY <1>5, <1>6, NumberInduction
  <2> QED
    BY <2>1, <2>2
<1>8. good(S)
  BY <1>1, <1>7
<1> QED
  BY <1>8 DEF sum


\* Every subset has its sum, which grows by the term of an element that is put in.
LEMMA SumInserts ==
    ASSUME NEW f, NEW S, IsFiniteSet(S), \A x \in S : f[x] \in Int, NEW T \in SUBSET S
    PROVE  /\ SumFunctionOnSet(f, T) \in Int
           /\ \A y \in S \ T : SumFunctionOnSet(f, T \cup {y}) = f[y] + SumFunctionOnSet(f, T)
<1>1. IsFiniteSet(T)
  BY FS_Subset
<1>2. SumFunctionOnSet(f, T) \in Int
  BY <1>1, SumRemoves
<1>3. ASSUME NEW y \in S \ T
      PROVE  SumFunctionOnSet(f, T \cup {y}) = f[y] + SumFunctionOnSet(f, T)
  <2> DEFINE U == T \cup {y}
  <2>1. U \in SUBSET S /\ y \in U /\ U \ {y} = T
    OBVIOUS
  <2> HIDE DEF U
  <2>2. IsFiniteSet(U) /\ \A x \in U : f[x] \in Int
    BY <2>1, FS_Subset
  <2>3. SumFunctionOnSet(f, U) = f[y] + SumFunctionOnSet(f, U \ {y})
    BY <2>1, <2>2, SumRemoves
  <2> QED
    BY <2>1, <2>3 DEF U
<1> QED
  BY <1>2, <1>3

\* A sum of natural numbers is one, and no less than each of them.
LEMMA SumNatural ==
    ASSUME NEW f, NEW S, IsFiniteSet(S), \A x \in S : f[x] \in Nat
    PROVE  SumFunctionOnSet(f, S) \in Nat /\ \A x \in S : f[x] <= SumFunctionOnSet(f, S)
<1> DEFINE C == {T \in SUBSET S : SumFunctionOnSet(f, T) \in Nat}
<1>1. {} \in C
  BY SumEmpty
<1>2. \A x \in S : f[x] \in Int
  OBVIOUS
<1>3. ASSUME NEW T \in SUBSET S, NEW x \in S \ T, T \in C PROVE T \cup {x} \in C
  <2>1. SumFunctionOnSet(f, T \cup {x}) = f[x] + SumFunctionOnSet(f, T)
    BY <1>2, SumInserts
  <2> QED
    BY <1>3, <2>1
<1> HIDE DEF C
<1>4. S \in C
  BY <1>1, <1>3, SetInduction
<1>5. ASSUME NEW x \in S PROVE f[x] <= SumFunctionOnSet(f, S)
  <2>1. SumFunctionOnSet(f, S) = f[x] + SumFunctionOnSet(f, S \ {x})
    BY <1>2, SumRemoves
  <2>2. SumFunctionOnSet(f, S \ {x}) \in Nat
    <3> DEFINE D == {T \in SUBSET S : SumFunctionOnSet(f, T \ {x}) \in Nat}
    <3>1. {} \in D
      <4>1. {} \ {x} = {}
        OBVIOUS
      <4> QED
        BY <4>1, SumEmpty
    <3>2. ASSUME NEW T \in SUBSET S, NEW y \in S \ T, T \in D PROVE T \cup {y} \in D
      <4>1. CASE y = x
        <5>1. (T \cup {y}) \ {x} = T \ {x}
          BY <4>1
        <5> QED
          BY <3>2, <5>1
      <4>2. CASE y # x
        <5> DEFINE U == T \ {x}
        <5>1. U \in SUBSET S /\ y \in S \ U /\ (T \cup {y}) \ {x} = U \cup {y}
          BY <4>2
        <5>2. SumFunctionOnSet(f, U) \in Nat
          BY <3>2
        <5> HIDE DEF U
        <5>3. SumFunctionOnSet(f, U \cup {y}) = f[y] + SumFunctionOnSet(f, U)
          BY <1>2, <5>1, SumInserts
        <5> QED
          BY <5>1, <5>2, <5>3
      <4> QED
        BY <4>1, <4>2
    <3> HIDE DEF D
    <3>3. S \in D
      BY <3>1, <3>2, SetInduction
    <3> QED
      BY <3>3 DEF D
  <2>3. f[x] \in Nat
    OBVIOUS
  <2> QED
    BY <2>1, <2>2, <2>3
<1> QED
  BY <1>4, <1>5 DEF C

\* Sums of the same numbers are the same, those of smaller ones are smaller, and
\* sums add up.
LEMMA SumSame ==
    ASSUME NEW f, NEW g, NEW S, IsFiniteSet(S),
           \A x \in S : f[x] \in Int, \A x \in S : g[x] = f[x]
    PROVE  SumFunctionOnSet(g, S) = SumFunctionOnSet(f, S)
<1> DEFINE C == {T \in SUBSET S : SumFunctionOnSet(g, T) = SumFunctionOnSet(f, T)}
<1>1. {} \in C
  BY SumEmpty
<1>2. \A x \in S : g[x] \in Int
  OBVIOUS
<1>3. ASSUME NEW T \in SUBSET S, NEW x \in S \ T, T \in C PROVE T \cup {x} \in C
  <2>1. SumFunctionOnSet(f, T \cup {x}) = f[x] + SumFunctionOnSet(f, T)
    BY SumInserts
  <2>2. SumFunctionOnSet(g, T \cup {x}) = g[x] + SumFunctionOnSet(g, T)
    BY <1>2, SumInserts
  <2> QED
    BY <1>3, <2>1, <2>2
<1> HIDE DEF C
<1>4. S \in C
  BY <1>1, <1>3, SetInduction
<1> QED
  BY <1>4 DEF C

\* The sum of sums of terms.
LEMMA SumPlus ==
    ASSUME NEW f, NEW g, NEW h, NEW S, IsFiniteSet(S),
           \A x \in S : f[x] \in Int, \A x \in S : g[x] \in Int, \A x \in S : h[x] = f[x] + g[x]
    PROVE  SumFunctionOnSet(h, S) = SumFunctionOnSet(f, S) + SumFunctionOnSet(g, S)
<1> DEFINE C == {T \in SUBSET S : SumFunctionOnSet(h, T) = SumFunctionOnSet(f, T) + SumFunctionOnSet(g, T)}
<1>1. {} \in C
  BY SumEmpty
<1>2. \A x \in S : h[x] \in Int
  OBVIOUS
<1>3. ASSUME NEW T \in SUBSET S, NEW x \in S \ T, T \in C PROVE T \cup {x} \in C
  <2>1. /\ SumFunctionOnSet(f, T \cup {x}) = f[x] + SumFunctionOnSet(f, T)
        /\ SumFunctionOnSet(f, T) \in Int
    BY SumInserts
  <2>2. /\ SumFunctionOnSet(g, T \cup {x}) = g[x] + SumFunctionOnSet(g, T)
        /\ SumFunctionOnSet(g, T) \in Int
    BY SumInserts
  <2>3. SumFunctionOnSet(h, T \cup {x}) = h[x] + SumFunctionOnSet(h, T)
    BY <1>2, SumInserts
  <2>4. f[x] \in Int /\ g[x] \in Int /\ h[x] = f[x] + g[x]
    OBVIOUS
  <2>5. SumFunctionOnSet(h, T) = SumFunctionOnSet(f, T) + SumFunctionOnSet(g, T)
    BY <1>3
  <2> QED
    BY <2>1, <2>2, <2>3, <2>4, <2>5
<1> HIDE DEF C
<1>4. S \in C
  BY <1>1, <1>3, SetInduction
<1> QED
  BY <1>4 DEF C

\* A sum of larger terms is larger.
LEMMA SumGrows ==
    ASSUME NEW f, NEW g, NEW S, IsFiniteSet(S),
           \A x \in S : f[x] \in Int, \A x \in S : g[x] \in Int, \A x \in S : f[x] <= g[x]
    PROVE  SumFunctionOnSet(f, S) <= SumFunctionOnSet(g, S)
<1> DEFINE d == [x \in S |-> g[x] - f[x]]
<1>1. \A x \in S : d[x] \in Nat /\ d[x] \in Int /\ g[x] = f[x] + d[x]
  OBVIOUS
<1> HIDE DEF d
<1>2. SumFunctionOnSet(d, S) \in Nat
  BY <1>1, SumNatural
<1>3. SumFunctionOnSet(g, S) = SumFunctionOnSet(f, S) + SumFunctionOnSet(d, S)
  BY <1>1, SumPlus
<1>4. SumFunctionOnSet(f, S) \in Int
  BY SumRemoves
<1> QED
  BY <1>2, <1>3, <1>4

\* Zeros do not count.
LEMMA SumOfZeros ==
    ASSUME NEW f, NEW S, IsFiniteSet(S), \A x \in S : f[x] = 0
    PROVE  SumFunctionOnSet(f, S) = 0
<1> DEFINE C == {T \in SUBSET S : SumFunctionOnSet(f, T) = 0}
<1>1. {} \in C
  BY SumEmpty
<1>2. \A x \in S : f[x] \in Int
  OBVIOUS
<1>3. ASSUME NEW T \in SUBSET S, NEW x \in S \ T, T \in C PROVE T \cup {x} \in C
  <2>1. SumFunctionOnSet(f, T \cup {x}) = f[x] + SumFunctionOnSet(f, T)
    BY <1>2, SumInserts
  <2> QED
    BY <1>3, <2>1
<1> HIDE DEF C
<1>4. S \in C
  BY <1>1, <1>3, SetInduction
<1> QED
  BY <1>4 DEF C

\* Elements with the term 0 do not count.
LEMMA SumWithin ==
    ASSUME NEW f, NEW S, IsFiniteSet(S), \A x \in S : f[x] \in Int,
           NEW T \in SUBSET S, \A x \in S \ T : f[x] = 0
    PROVE  SumFunctionOnSet(f, T) = SumFunctionOnSet(f, S)
<1> DEFINE C == {U \in SUBSET S : SumFunctionOnSet(f, U \cap T) = SumFunctionOnSet(f, U)}
<1>1. {} \in C
  <2>1. {} \cap T = {}
    OBVIOUS
  <2> QED
    BY <2>1
<1>2. ASSUME NEW U \in SUBSET S, NEW x \in S \ U, U \in C PROVE U \cup {x} \in C
  <2>1. /\ SumFunctionOnSet(f, U \cup {x}) = f[x] + SumFunctionOnSet(f, U)
        /\ SumFunctionOnSet(f, U) \in Int
    BY SumInserts
  <2> DEFINE V == U \cap T
  <2>2. V \in SUBSET S /\ x \in S \ V /\ SumFunctionOnSet(f, V) = SumFunctionOnSet(f, U)
    BY <1>2
  <2>3. (U \cup {x}) \cap T = IF x \in T THEN V \cup {x} ELSE V
    OBVIOUS
  <2> HIDE DEF V
  <2>4. SumFunctionOnSet(f, V \cup {x}) = f[x] + SumFunctionOnSet(f, V)
    BY <2>2, SumInserts
  <2>5. CASE x \in T
    BY <2>1, <2>2, <2>3, <2>4, <2>5
  <2>6. CASE x \notin T
    <3>1. f[x] = 0
      BY <2>6
    <3>2. SumFunctionOnSet(f, U \cup {x}) = SumFunctionOnSet(f, U)
      BY <2>1, <3>1
    <3>3. (U \cup {x}) \cap T = V
      BY <2>3, <2>6
    <3>4. SumFunctionOnSet(f, (U \cup {x}) \cap T) = SumFunctionOnSet(f, U \cup {x})
      BY <2>2, <3>2, <3>3, Zenon
    <3> QED
      BY <3>4
  <2> QED
    BY <2>5, <2>6
<1> HIDE DEF C
<1>3. S \in C
  BY <1>1, <1>2, SetInduction
<1>4. S \cap T = T
  OBVIOUS
<1> QED
  BY <1>3, <1>4 DEF C

\* One of the numbers changes.
LEMMA SumChanges ==
    ASSUME NEW f, NEW g, NEW S, IsFiniteSet(S), \A x \in S : f[x] \in Int,
           NEW y \in S, g[y] \in Int, \A x \in S \ {y} : g[x] = f[x]
    PROVE  SumFunctionOnSet(g, S) = SumFunctionOnSet(f, S) + (g[y] - f[y])
<1> DEFINE T == S \ {y}
<1>1. IsFiniteSet(T) /\ \A x \in T : f[x] \in Int /\ g[x] = f[x]
  BY FS_Subset
<1>2. \A x \in S : g[x] \in Int
  OBVIOUS
<1>3. SumFunctionOnSet(f, S) = f[y] + SumFunctionOnSet(f, T)
  BY SumRemoves
<1>4. SumFunctionOnSet(g, S) = g[y] + SumFunctionOnSet(g, T)
  BY <1>2, SumRemoves
<1> HIDE DEF T
<1>5. SumFunctionOnSet(g, T) = SumFunctionOnSet(f, T)
  BY <1>1, SumSame
<1>6. SumFunctionOnSet(f, T) \in Int
  BY <1>1, SumRemoves
<1>7. f[y] \in Int
  OBVIOUS
<1> QED
  BY <1>3, <1>4, <1>5, <1>6, <1>7

\* A bounded set of numbers that is not empty has a greatest one.
LEMMA GreatestNumber ==
    ASSUME NEW S \in SUBSET Nat, S # {}, NEW k \in Nat, \A n \in S : n <= k
    PROVE  \E m \in S : \A n \in S : n <= m
<1> DEFINE D == {k - n : n \in S}
<1>1. D \subseteq Nat /\ D # {}
  <2>1. \A n \in S : n \in Nat /\ n <= k /\ k - n \in Nat
    OBVIOUS
  <2> QED
    BY <2>1
<1>2. PICK d \in D : \A e \in D : d <= e
  <2> HIDE DEF D
  <2> QED
    BY <1>1, LeastNatural
<1>3. PICK m \in S : d = k - m
  BY <1>2
<1>4. ASSUME NEW n \in S PROVE n <= m
  <2>1. k - n \in D
    OBVIOUS
  <2>2. k - m <= k - n
    BY <1>2, <1>3, <2>1
  <2> QED
    BY <2>2
<1> QED
  BY <1>4

\* The greatest number of a finite set.
LEMMA GreatestOfFinite ==
    ASSUME NEW S \in SUBSET Int, IsFiniteSet(S), S # {}
    PROVE  Max(S) \in S /\ \A y \in S : Max(S) >= y
<1> DEFINE C == {T \in SUBSET S : T # {} => \E x \in T : \A y \in T : x >= y}
<1>1. {} \in C
  OBVIOUS
<1>2. ASSUME NEW T \in SUBSET S, NEW z \in S \ T, T \in C PROVE T \cup {z} \in C
  <2>1. CASE T = {}
    BY <2>1
  <2>2. CASE T # {}
    <3>1. PICK x \in T : \A y \in T : x >= y
      BY <1>2, <2>2
    <3>2. CASE x >= z
      <4>1. \A y \in T \cup {z} : x >= y
        BY <3>1, <3>2
      <4> QED
        BY <4>1
    <3>3. CASE ~(x >= z)
      <4>1. \A y \in T \cup {z} : z >= y
        BY <3>1, <3>3
      <4> QED
        BY <4>1
    <3> QED
      BY <3>2, <3>3
  <2> QED
    BY <2>1, <2>2
<1>3. S \in C
  <2> HIDE DEF C
  <2> QED
    BY <1>1, <1>2, SetInduction
<1> QED
  BY <1>3 DEF Max
-------------------------------------------------------------------------------
(***************************************************************************)
(* Least elements and the order of the elements of a finite set.           *)
(***************************************************************************)
\* The least number of a finite set.
LEMMA LeastOfFinite ==
    ASSUME NEW S \in SUBSET Int, IsFiniteSet(S), S # {}
    PROVE  Min(S) \in S /\ \A y \in S : Min(S) <= y
<1> DEFINE C == {T \in SUBSET S : T # {} => \E x \in T : \A y \in T : x <= y}
<1>1. {} \in C
  OBVIOUS
<1>2. ASSUME NEW T \in SUBSET S, NEW z \in S \ T, T \in C PROVE T \cup {z} \in C
  <2>1. CASE T = {}
    BY <2>1
  <2>2. CASE T # {}
    <3>1. PICK x \in T : \A y \in T : x <= y
      BY <1>2, <2>2
    <3>2. CASE x <= z
      <4>1. \A y \in T \cup {z} : x <= y
        BY <3>1, <3>2
      <4> QED
        BY <4>1
    <3>3. CASE ~(x <= z)
      <4>1. \A y \in T \cup {z} : z <= y
        BY <3>1, <3>3
      <4> QED
        BY <4>1
    <3> QED
      BY <3>2, <3>3
  <2> QED
    BY <2>1, <2>2
<1>3. S \in C
  <2> HIDE DEF C
  <2> QED
    BY <1>1, <1>2, SetInduction
<1> QED
  BY <1>3 DEF Min

\* A transitive relation R that relates nothing to itself.
StrictOn(R, S) ==
    /\ \A x \in S : <<x, x>> \notin R
    /\ \A x, y, z \in S : <<x, y>> \in R /\ <<y, z>> \in R => <<x, z>> \in R
Under(R, S, x) == {y \in S : <<y, x>> \in R}

\* The more there is below an element, the higher it is.
LEMMA FewerBelow ==
    ASSUME NEW S, IsFiniteSet(S), NEW R, StrictOn(R, S), NEW x \in S, NEW y \in S, <<x, y>> \in R
    PROVE  /\ Cardinality(Under(R, S, x)) \in Nat /\ Cardinality(Under(R, S, y)) \in Nat
           /\ Cardinality(Under(R, S, x)) < Cardinality(Under(R, S, y))
<1>1. IsFiniteSet(Under(R, S, x)) /\ IsFiniteSet(Under(R, S, y))
  BY FS_Subset DEF Under
<1>2. Under(R, S, x) \in SUBSET Under(R, S, y) /\ x \in Under(R, S, y) /\ x \notin Under(R, S, x)
  BY DEF Under, StrictOn
<1>3. /\ Cardinality(Under(R, S, x)) <= Cardinality(Under(R, S, y))
      /\ Cardinality(Under(R, S, x)) # Cardinality(Under(R, S, y))
  BY <1>1, <1>2, FS_Subset
<1> QED
  BY <1>1, <1>3, FS_CardinalityType

\* A finite set has an element with none below it.
LEMMA LowestExists ==
    ASSUME NEW S, IsFiniteSet(S), S # {}, NEW R, StrictOn(R, S)
    PROVE  \E x \in S : \A y \in S : <<y, x>> \notin R
<1> DEFINE height(x) == Cardinality(Under(R, S, x))
           heights == {height(x) : x \in S}
<1>1. \A x \in S : height(x) \in Nat
  <2>1. \A x \in S : IsFiniteSet(Under(R, S, x))
    BY FS_Subset DEF Under
  <2> QED
    BY <2>1, FS_CardinalityType
<1>2. heights \subseteq Nat /\ heights # {}
  BY <1>1
<1>3. PICK h \in heights : \A k \in heights : h <= k
  <2> HIDE DEF heights
  <2> QED
    BY <1>2, LeastNatural
<1>4. PICK x \in S : h = height(x)
  BY <1>3
<1>5. ASSUME NEW y \in S, <<y, x>> \in R PROVE FALSE
  <2>1. height(y) < height(x) /\ height(x) \in Nat /\ height(y) \in Nat
    BY <1>5, FewerBelow
  <2>2. height(y) \in heights
    OBVIOUS
  <2>3. height(x) <= height(y)
    BY <1>3, <1>4, <2>2
  <2> HIDE DEF height
  <2> QED
    BY <2>1, <2>3
<1> QED
  BY <1>5

\* In a finite set in which any two are related, each number of elements is what
\* some element has below it.
LEMMA EveryRank ==
    ASSUME NEW S, IsFiniteSet(S), NEW R, StrictOn(R, S),
           \A x, y \in S : x # y => <<x, y>> \in R \/ <<y, x>> \in R
    PROVE  \A n \in 1 .. Cardinality(S) : \E x \in S : Cardinality(Under(R, S, x)) = n - 1
<1> DEFINE N == Cardinality(S)
           T == 0 .. (N - 1)
           rank == [x \in S |-> Cardinality(Under(R, S, x))]
<1>1. N \in Nat
  BY FS_CardinalityType
<1>2. ASSUME NEW x \in S PROVE rank[x] \in T
  <2>1. Under(R, S, x) \in SUBSET S /\ x \notin Under(R, S, x)
    BY DEF Under, StrictOn
  <2>2. IsFiniteSet(Under(R, S, x)) /\ Cardinality(Under(R, S, x)) <= N /\ Cardinality(Under(R, S, x)) # N
    BY <2>1, FS_Subset
  <2>3. rank[x] \in Nat
    BY <2>2, FS_CardinalityType
  <2> HIDE DEF N
  <2> QED
    BY <1>1, <2>2, <2>3
<1>3. \A x, y \in S : <<x, y>> \in R => rank[x] # rank[y]
  BY FewerBelow
<1>4. rank \in Injection(S, T)
  <2>1. \A x, y \in S : rank[x] = rank[y] => x = y
    BY <1>3
  <2>2. rank \in [S -> T]
    BY <1>2
  <2> HIDE DEF rank
  <2> QED
    BY <2>1, <2>2 DEF Injection, IsInjective
<1>5. IsFiniteSet(T) /\ Cardinality(T) = N
  <2> HIDE DEF N
  <2> QED
    BY <1>1, FS_Interval
<1>6. rank \in Surjection(S, T)
  <2> HIDE DEF rank, T
  <2> QED
    BY <1>4, <1>5, FS_Injection
<1>7. \A t \in T : \E x \in S : rank[x] = t
  <2> HIDE DEF rank, T
  <2> QED
    BY <1>6 DEF Surjection
<1>8. ASSUME NEW n \in 1 .. N PROVE n - 1 \in T
  <2> HIDE DEF N
  <2> QED
    BY <1>1
<1> QED
  BY <1>7, <1>8

\* The elements in their order: the n-th has n - 1 below it.
LEMMA RankedAre ==
    ASSUME NEW S, IsFiniteSet(S), NEW R, StrictOn(R, S),
           \A x, y \in S : x # y => <<x, y>> \in R \/ <<y, x>> \in R,
           NEW s, DOMAIN s = 1 .. Cardinality(S),
           \A n \in DOMAIN s : s[n] \in S /\ Cardinality(Under(R, S, s[n])) = n - 1
    PROVE  /\ \A x \in S : \E n \in DOMAIN s : s[n] = x
           /\ \A m, n \in DOMAIN s : m < n => s[m] # s[n] /\ <<s[n], s[m]>> \notin R
<1> DEFINE height(x) == Cardinality(Under(R, S, x))
<1>1. Cardinality(S) \in Nat
  BY FS_CardinalityType
<1>2. ASSUME NEW x \in S PROVE height(x) \in Nat /\ height(x) < Cardinality(S)
  <2>1. Under(R, S, x) \in SUBSET S /\ x \notin Under(R, S, x)
    BY DEF Under, StrictOn
  <2>2. IsFiniteSet(Under(R, S, x)) /\ height(x) <= Cardinality(S) /\ height(x) # Cardinality(S)
    BY <2>1, FS_Subset
  <2>3. height(x) \in Nat
    BY <2>2, FS_CardinalityType
  <2> HIDE DEF height
  <2> QED
    BY <1>1, <2>2, <2>3
<1>3. \A n \in DOMAIN s : s[n] \in S /\ height(s[n]) = n - 1
  OBVIOUS
<1>4. \A x, y \in S : <<x, y>> \in R => height(x) < height(y)
  BY FewerBelow
<1>5. DOMAIN s = 1 .. Cardinality(S)
  OBVIOUS
<1> HIDE DEF height
<1>6. ASSUME NEW x \in S PROVE \E n \in DOMAIN s : s[n] = x
  <2>1. height(x) + 1 \in DOMAIN s /\ (height(x) + 1) - 1 = height(x)
    BY <1>1, <1>2, <1>5
  <2>2. s[height(x) + 1] \in S /\ height(s[height(x) + 1]) = height(x)
    BY <1>3, <2>1
  <2>3. ~(height(x) < height(x))
    BY <1>2
  <2>4. s[height(x) + 1] = x
    BY <1>4, <2>2, <2>3, Zenon
  <2> QED
    BY <2>1, <2>4, Zenon
<1>7. ASSUME NEW m \in DOMAIN s, NEW n \in DOMAIN s, m < n
      PROVE  s[m] # s[n] /\ <<s[n], s[m]>> \notin R
  <2>1. height(s[m]) < height(s[n]) /\ ~(height(s[n]) < height(s[m])) /\ ~(height(s[m]) < height(s[m]))
    BY <1>1, <1>3, <1>5, <1>7
  <2> QED
    BY <1>3, <1>4, <2>1, Zenon
<1> QED
  BY <1>6, <1>7, Zenon
===============================================================================
