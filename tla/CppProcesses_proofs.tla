------------------------ MODULE CppProcesses_proofs ------------------------
(***************************************************************************)
(* The inductive invariants of CppStorages, CppActuators and CppInputless  *)
(* and the theorems they prove.                                            *)
(***************************************************************************)
EXTENDS CppStorages, CppActuators, CommonLemmas, FiniteSetTheorems, TLAPS

\* The extractions that load slot b, and what of place p is still to come.
Loads(b) == {x \in transfers : x.kind = "extract" /\ x.slot = b}
Coming(b, p) == {x \in Loads(b) : x.place = p /\ ~x.executed}
Pending(b) == [p \in Places |-> reserved[b][p] + SumFunctionOnSet(Sizes, Coming(b, p))]

\* Transfers and reservations belong to slots that jobs use; a job extracts
\* once from a place; between cycles there are no jobs.
StagesOK ==
    /\ \A b \in BusSlots : use[b] # "waiting" => reserved[b] = Nothing
    /\ \A x \in transfers :
         use[x.slot] \in IF x.kind = "sink" THEN {"inserting"} ELSE {"loading", "failed"}
    /\ \A x, y \in transfers :
         x.kind = "extract" /\ y.kind = "extract" /\ x.slot = y.slot /\ x.place = y.place => x = y
    /\ running \/ \A b \in BusSlots : use[b] \in {"free", "left"}

\* A slot takes all that its job has reserved, which is of one item.
LoadsFit(b, i) ==
    /\ \A p \in Places : reserved[b][p] > 0 => providers[p].item = i
    /\ \A x \in Loads(b) : x.item = i
    /\ bus[b] # Empty => bus[b].item = i
    /\ bus[b].size + SumFunction(Pending(b)) <= MaxSize[i]
SlotsOK ==
    /\ \A b \in BusSlots :
         use[b] \in {"waiting", "loading", "failed"} => \E i \in Items : LoadsFit(b, i)
    /\ \A x \in transfers : x.kind = "sink" /\ bus[x.slot] # Empty => bus[x.slot].item = x.item

\* What is taken from a place, and what goes into a slot, is of the item there.
Claimed(p) ==
    providers[p].avail + Promised(p) + Total("extract", p, FALSE) + Total("extract", p, TRUE)
ItemsOK ==
    running =>
        /\ \A p \in Places : Claimed(p) > 0 =>
             providers[p].item = IF p \in ChestPlaces THEN content[p].item ELSE p[2]
        /\ \A x \in transfers :
             /\ x.kind = "extract" => x.item = providers[x.place].item
             /\ x.kind = "sink" /\ x.place \notin ChestPlaces => x.item = x.place[2]
             /\ x.kind = "sink" /\ x.place \in ChestPlaces /\ ~x.executed => x.item = content[x.place].item

Inv == TypeOK /\ StagesOK /\ SlotsOK /\ ItemsOK /\ AccountCovers /\ ReservedIsThere /\ BackupKept
-----------------------------------------------------------------------------
(***************************************************************************)
(* Sums of transfers, reservations and providers.  The operators take the  *)
(* state they are about as an argument, for the state before and after a   *)
(* step.                                                                   *)
(***************************************************************************)
SizeOf(S) == SumFunctionOnSet(Sizes, S)
SentIn(T, way, p, executed) == {x \in T : x.kind = way /\ x.place = p /\ x.executed = executed}
Arriving(T, p) == SizeOf(SentIn(T, "sink", p, FALSE))
Leaving(T, p) == SizeOf(SentIn(T, "extract", p, FALSE))
Gone(T, p) == SizeOf(SentIn(T, "extract", p, TRUE))
PromisedIn(r, p) == SumFunctionOnSet([b \in BusSlots |-> r[b][p]], BusSlots)
ComingIn(T, b, p) == {x \in T : x.kind = "extract" /\ x.slot = b /\ x.place = p /\ ~x.executed}
PendingIn(r, T, b) ==
    SumFunctionOnSet([p \in Places |-> r[b][p] + SizeOf(ComingIn(T, b, p))], Places)
ListedIn(pr, i) == {p \in Places : pr[p].item = i}
AvailIn(pr, i) == SumFunctionOnSet([p \in Places |-> pr[p].avail], ListedIn(pr, i))
CountIn(pr, i) == SumFunctionOnSet([p \in Places |-> pr[p].size], ListedIn(pr, i))

\* The sums of the invariants are these.
LEMMA SumsAre ==
    /\ \A p : /\ Total("sink", p, FALSE) = Arriving(transfers, p)
             /\ Total("extract", p, FALSE) = Leaving(transfers, p)
             /\ Total("extract", p, TRUE) = Gone(transfers, p)
    /\ \A p : Promised(p) = PromisedIn(reserved, p)
    /\ \A b : SumFunction(Pending(b)) = PendingIn(reserved, transfers, b)
    /\ \A i : Avail(i) = AvailIn(providers, i) /\ ProvidersOf(i) = ListedIn(providers, i)
    /\ \A i : SumFunctionOnSet([p \in Places |-> providers[p].size], ProvidersOf(i)) = CountIn(providers, i)
<1>1. \A p : /\ Total("sink", p, FALSE) = Arriving(transfers, p)
             /\ Total("extract", p, FALSE) = Leaving(transfers, p)
             /\ Total("extract", p, TRUE) = Gone(transfers, p)
  BY DEF Total, Sent, Arriving, Leaving, Gone, SentIn, SizeOf
<1>2. \A p : Promised(p) = PromisedIn(reserved, p)
  BY DEF Promised, PromisedIn, SumFunction
<1>3. ASSUME NEW b PROVE SumFunction(Pending(b)) = PendingIn(reserved, transfers, b)
  <2>1. \A p : Coming(b, p) = ComingIn(transfers, b, p)
    BY DEF Coming, Loads, ComingIn
  <2>2. Pending(b) = [p \in Places |-> reserved[b][p] + SizeOf(ComingIn(transfers, b, p))]
    BY <2>1 DEF Pending, SizeOf
  <2>3. DOMAIN Pending(b) = Places
    BY DEF Pending
  <2> QED
    BY <2>2, <2>3, Zenon DEF PendingIn, SumFunction
<1>4. \A i : Avail(i) = AvailIn(providers, i) /\ ProvidersOf(i) = ListedIn(providers, i)
  BY DEF Avail, AvailIn, ProvidersOf, ListedIn
<1>5. \A i : SumFunctionOnSet([p \in Places |-> providers[p].size], ProvidersOf(i)) = CountIn(providers, i)
  BY DEF CountIn, ProvidersOf, ListedIn
<1> QED
  BY <1>1, <1>2, <1>3, <1>4, <1>5

\* There are finitely many places; what is not a slot of a chest is for one item.
LEMMA PlacesFinite ==
    /\ IsFiniteSet(Places) /\ ChestPlaces \subseteq Places
    /\ \A p \in Places \ ChestPlaces : p[2] \in Items
    /\ \A p \in ChestPlaces : p[1] \in ToSet(Chests) /\ p[2] \in 0 .. ChestSlots - 1
<1>1. IsFiniteSet(ToSet(Chests))
  <2>1. Len(Chests) \in Nat /\ DOMAIN Chests = 1 .. Len(Chests)
    BY StoragesAssumption
  <2>2. IsFiniteSet(1 .. Len(Chests))
    BY <2>1, FS_Interval
  <2>3. Chests \in Surjection(1 .. Len(Chests), ToSet(Chests))
    BY <2>1, StoragesAssumption DEF Surjection, ToSet
  <2> QED
    BY <2>2, <2>3, FS_Surjection
<1>2. IsFiniteSet(0 .. ChestSlots - 1)
  BY FS_Interval, StoragesAssumption
<1>3. IsFiniteSet(ChestPlaces)
  BY <1>1, <1>2, FS_Product DEF ChestPlaces
<1>4. IsFiniteSet(DrawerPlaces)
  <2>1. IsFiniteSet(Filtered) /\ IsFiniteSet({"drawer"})
    BY ItemsAssumption, FS_Subset, FS_Singleton
  <2> QED
    BY <2>1, FS_Product DEF DrawerPlaces
<1>5. IsFiniteSet(MEPlaces)
  <2>1. IsFiniteSet({"me"} \X Items)
    BY ItemsAssumption, FS_Singleton, FS_Product
  <2> QED
    BY <2>1, FS_EmptySet DEF MEPlaces
<1>6. IsFiniteSet(Places)
  BY <1>3, <1>4, <1>5, FS_Union DEF Places
<1>7. \A p \in Places \ ChestPlaces : p[2] \in Items
  <2>1. \A p \in DrawerPlaces : p[2] \in Items
    BY ItemsAssumption DEF DrawerPlaces
  <2>2. \A p \in MEPlaces : p[2] \in Items
    BY DEF MEPlaces
  <2> QED
    BY <2>1, <2>2 DEF Places
<1>8. \A p \in ChestPlaces : p[1] \in ToSet(Chests) /\ p[2] \in 0 .. ChestSlots - 1
  BY DEF ChestPlaces
<1> QED
  BY <1>6, <1>7, <1>8 DEF Places

\* What a stack is.
LEMMA StackFacts ==
    /\ Empty \in SlotStacks /\ Empty.size = 0 /\ Empty.item = NoItem /\ NoItem \notin Items
    /\ \A s \in SlotStacks : /\ s.size \in Nat /\ (s = Empty <=> s.size = 0)
                             /\ s # Empty => s.item \in Items /\ s.size <= MaxSize[s.item]
                             /\ s = [item |-> s.item, size |-> s.size]
    /\ \A i \in Items : \A n \in 0 .. MaxSize[i] : Stack(i, n) \in SlotStacks
    /\ \A i \in Items : MaxSize[i] \in Nat \ {0}
    /\ \A i, n : Stack(i, n).size = n /\ (n # 0 => Stack(i, n) # Empty /\ Stack(i, n).item = i)
<1>1. \A i \in Items : MaxSize[i] \in Nat \ {0}
  BY ItemsAssumption
<1>2. \A s \in SlotStacks \ {Empty} : \E i \in Items : s \in [item : {i}, size : 1 .. MaxSize[i]]
  BY DEF SlotStacks
<1>3. ASSUME NEW s \in SlotStacks
      PROVE  /\ s.size \in Nat /\ (s = Empty <=> s.size = 0)
             /\ s # Empty => s.item \in Items /\ s.size <= MaxSize[s.item]
             /\ s = [item |-> s.item, size |-> s.size]
  <2>1. CASE s = Empty
    BY <2>1 DEF Empty
  <2>2. CASE s # Empty
    <3>1. PICK i \in Items : s \in [item : {i}, size : 1 .. MaxSize[i]]
      BY <1>2, <2>2
    <3> QED
      BY <1>1, <2>2, <3>1
  <2> QED
    BY <2>1, <2>2
<1>4. ASSUME NEW i \in Items, NEW n \in 0 .. MaxSize[i] PROVE Stack(i, n) \in SlotStacks
  <2>1. CASE n = 0
    BY <2>1 DEF Stack, SlotStacks
  <2>2. CASE n # 0
    <3>1. n \in 1 .. MaxSize[i]
      BY <1>1, <2>2
    <3> QED
      BY <2>2, <3>1 DEF Stack, SlotStacks
  <2> QED
    BY <2>1, <2>2
<1>5. Empty \in SlotStacks /\ Empty.size = 0 /\ Empty.item = NoItem /\ NoItem \notin Items
  BY ItemsAssumption DEF SlotStacks, Empty
<1>6. \A i, n : Stack(i, n).size = n /\ (n # 0 => Stack(i, n) # Empty /\ Stack(i, n).item = i)
  BY DEF Stack, Empty
<1> QED
  BY <1>1, <1>3, <1>4, <1>5, <1>6

\* The sizes of transfers add up.
LEMMA SizeFacts ==
    ASSUME NEW S \in SUBSET Transfers, IsFiniteSet(S)
    PROVE  /\ SizeOf(S) \in Nat
           /\ \A x \in S : x.size \in Nat \ {0} /\ x.size <= SizeOf(S)
           /\ \A x \in S : SizeOf(S) = x.size + SizeOf(S \ {x})
<1>1. \A x \in S : Sizes[x] = x.size /\ x.size \in Nat \ {0}
  BY DEF Sizes, Transfers
<1>2. \A x \in S : Sizes[x] \in Nat /\ Sizes[x] \in Int
  BY <1>1
<1>3. /\ SumFunctionOnSet(Sizes, S) \in Nat
      /\ \A x \in S : Sizes[x] <= SumFunctionOnSet(Sizes, S)
  BY <1>2, SumNatural
<1>4. \A x \in S : SumFunctionOnSet(Sizes, S) = Sizes[x] + SumFunctionOnSet(Sizes, S \ {x})
  BY <1>2, SumRemoves
<1> QED
  BY <1>1, <1>3, <1>4 DEF SizeOf

\* One more transfer adds its size, unless it is there already.
LEMMA SizeAdd ==
    ASSUME NEW S \in SUBSET Transfers, IsFiniteSet(S), NEW x \in Transfers
    PROVE  /\ SizeOf({}) = 0
           /\ SizeOf({x}) = x.size /\ x.size \in Nat \ {0}
           /\ x \notin S => SizeOf(S \cup {x}) = SizeOf(S) + x.size
           /\ SizeOf(S \cup {x}) <= SizeOf(S) + x.size
<1>1. SizeOf({}) = 0
  BY SumEmpty DEF SizeOf
<1>2. IsFiniteSet({x}) /\ {x} \in SUBSET Transfers
  BY FS_Singleton
<1>3. SizeOf({x}) = x.size + SizeOf({x} \ {x}) /\ x.size \in Nat \ {0}
  BY <1>2, SizeFacts
<1>4. {x} \ {x} = {}
  OBVIOUS
<1>5. SizeOf({x}) = x.size
  BY <1>1, <1>3, <1>4
<1>6. SizeOf(S) \in Nat
  BY SizeFacts
<1>7. ASSUME x \notin S PROVE SizeOf(S \cup {x}) = SizeOf(S) + x.size
  <2> DEFINE U == S \cup {x}
  <2>1. IsFiniteSet(U) /\ U \in SUBSET Transfers /\ x \in U /\ U \ {x} = S
    BY <1>7, FS_AddElement
  <2> HIDE DEF U
  <2>2. SizeOf(U) = x.size + SizeOf(U \ {x})
    BY <2>1, SizeFacts
  <2>3. SizeOf(U) = x.size + SizeOf(S)
    BY <2>1, <2>2
  <2> QED
    BY <1>3, <1>6, <2>3 DEF U
<1>8. ASSUME x \in S PROVE SizeOf(S \cup {x}) <= SizeOf(S) + x.size
  <2>1. S \cup {x} = S
    BY <1>8
  <2>2. SizeOf(S \cup {x}) = SizeOf(S)
    BY <2>1
  <2> QED
    BY <1>3, <1>6, <2>2
<1>9. x \notin S => SizeOf(S \cup {x}) <= SizeOf(S) + x.size
  BY <1>3, <1>6, <1>7
<1> QED
  BY <1>1, <1>3, <1>5, <1>7, <1>8, <1>9

\* Those of two sets without a common element, and those of a part.
LEMMA SizeUnion ==
    ASSUME NEW S \in SUBSET Transfers, IsFiniteSet(S),
           NEW U \in SUBSET Transfers, IsFiniteSet(U), S \cap U = {}
    PROVE  SizeOf(S \cup U) = SizeOf(S) + SizeOf(U)
<1> DEFINE C == {V \in SUBSET U : SizeOf(S \cup V) = SizeOf(S) + SizeOf(V)}
<1>1. SizeOf(S) \in Nat
  BY SizeFacts
<1>2. {} \in C
  <2>1. S \cup {} = S
    OBVIOUS
  <2>2. SizeOf({}) = 0
    BY SumEmpty DEF SizeOf
  <2> QED
    BY <1>1, <2>1, <2>2
<1>3. ASSUME NEW V \in SUBSET U, NEW x \in U \ V, V \in C PROVE V \cup {x} \in C
  <2>1. V \in SUBSET Transfers /\ IsFiniteSet(V) /\ x \in Transfers /\ x \notin V
    BY FS_Subset
  <2>2. SizeOf(V \cup {x}) = SizeOf(V) + x.size /\ x.size \in Nat \ {0} /\ SizeOf(V) \in Nat
    BY <2>1, SizeAdd, SizeFacts
  <2> DEFINE W == S \cup V
  <2>3. W \in SUBSET Transfers /\ IsFiniteSet(W) /\ x \notin W
    BY <2>1, FS_Union
  <2>4. S \cup (V \cup {x}) = W \cup {x} /\ SizeOf(W) = SizeOf(S) + SizeOf(V)
    BY <1>3
  <2> HIDE DEF W
  <2>5. SizeOf(W \cup {x}) = SizeOf(W) + x.size
    BY <2>1, <2>3, SizeAdd
  <2> QED
    BY <1>1, <2>2, <2>4, <2>5
<1> HIDE DEF C
<1>4. U \in C
  BY <1>2, <1>3, SetInduction
<1> QED
  BY <1>4 DEF C

\* Some of the transfers are no larger than all of them.
LEMMA SizeOfPart ==
    ASSUME NEW S \in SUBSET Transfers, IsFiniteSet(S), NEW U \in SUBSET S
    PROVE  SizeOf(U) <= SizeOf(S) /\ SizeOf(U) \in Nat /\ IsFiniteSet(U)
<1>1. IsFiniteSet(U) /\ U \in SUBSET Transfers
  BY FS_Subset
<1> DEFINE V == S \ U
<1>2. IsFiniteSet(V) /\ V \in SUBSET Transfers /\ U \cap V = {} /\ U \cup V = S
  BY FS_Subset
<1> HIDE DEF V
<1>3. SizeOf(U \cup V) = SizeOf(U) + SizeOf(V)
  BY <1>1, <1>2, SizeUnion
<1>4. SizeOf(S) = SizeOf(U) + SizeOf(V)
  BY <1>2, <1>3
<1>5. SizeOf(U) \in Nat /\ SizeOf(V) \in Nat
  BY <1>1, <1>2, SizeFacts
<1> QED
  BY <1>1, <1>4, <1>5

\* What SentIn and ComingIn are when transfers come, are executed and go.
LEMMA PartRemove ==
    ASSUME NEW S \in SUBSET Transfers, IsFiniteSet(S), NEW x \in S, NEW F
    PROVE  /\ SizeOf(S \cap F) \in Nat /\ SizeOf((S \ {x}) \cap F) \in Nat
           /\ x \in F => SizeOf((S \ {x}) \cap F) = SizeOf(S \cap F) - x.size
           /\ x \notin F => SizeOf((S \ {x}) \cap F) = SizeOf(S \cap F)
<1> DEFINE P == S \cap F
<1>1. P \in SUBSET Transfers /\ IsFiniteSet(P)
  BY FS_Subset
<1>2. (S \ {x}) \cap F = P \ {x}
  OBVIOUS
<1>3. x \in F => x \in P
  OBVIOUS
<1>4. x \notin F => P \ {x} = P
  OBVIOUS
<1> HIDE DEF P
<1>5. SizeOf(P) \in Nat
  BY <1>1, SizeFacts
<1>6. P \ {x} \in SUBSET Transfers /\ IsFiniteSet(P \ {x})
  BY <1>1, FS_Subset
<1>7. SizeOf(P \ {x}) \in Nat
  BY <1>6, SizeFacts
<1>8. x \in P => SizeOf(P) = x.size + SizeOf(P \ {x}) /\ x.size \in Nat
  BY <1>1, SizeFacts
<1>9. x \notin F => SizeOf(P \ {x}) = SizeOf(P)
  BY <1>4, Zenon
<1>10. x \in F => SizeOf(P \ {x}) = SizeOf(P) - x.size
  BY <1>3, <1>5, <1>7, <1>8
<1> QED
  BY <1>2, <1>5, <1>7, <1>9, <1>10 DEF P

\* The same of a part, when a transfer is added.
LEMMA PartAdd ==
    ASSUME NEW S \in SUBSET Transfers, IsFiniteSet(S), NEW x \in Transfers, NEW F
    PROVE  /\ SizeOf(S \cap F) \in Nat /\ SizeOf((S \cup {x}) \cap F) \in Nat
           /\ x \in F => SizeOf((S \cup {x}) \cap F) <= SizeOf(S \cap F) + x.size
           /\ x \notin F => SizeOf((S \cup {x}) \cap F) = SizeOf(S \cap F)
<1> DEFINE P == S \cap F
<1>1. P \in SUBSET Transfers /\ IsFiniteSet(P)
  BY FS_Subset
<1>2. (S \cup {x}) \cap F = IF x \in F THEN P \cup {x} ELSE P
  OBVIOUS
<1> HIDE DEF P
<1>3. SizeOf(P) \in Nat
  BY <1>1, SizeFacts
<1>4. SizeOf(P \cup {x}) <= SizeOf(P) + x.size
  BY <1>1, SizeAdd
<1>5. P \cup {x} \in SUBSET Transfers /\ IsFiniteSet(P \cup {x})
  BY <1>1, FS_AddElement
<1>6. SizeOf(P \cup {x}) \in Nat
  BY <1>5, SizeFacts
<1>7. CASE x \in F
  BY <1>2, <1>3, <1>4, <1>6, <1>7 DEF P
<1>8. CASE x \notin F
  BY <1>2, <1>3, <1>8 DEF P
<1> QED
  BY <1>7, <1>8

\* The transfers that Arriving, Leaving, Gone and ComingIn pick theirs from.
SinksTo(p) == {x \in Transfers : x.kind = "sink" /\ x.place = p /\ ~x.executed}
TakesFrom(p) == {x \in Transfers : x.kind = "extract" /\ x.place = p /\ ~x.executed}
TookFrom(p) == {x \in Transfers : x.kind = "extract" /\ x.place = p /\ x.executed}
LoadsFrom(b, p) ==
    {x \in Transfers : x.kind = "extract" /\ x.slot = b /\ x.place = p /\ ~x.executed}

\* The sums over transfers are sums over what these sets have in common with them.
LEMMA Where ==
    ASSUME NEW T \in SUBSET Transfers
    PROVE  /\ \A p : Arriving(T, p) = SizeOf(T \cap SinksTo(p))
           /\ \A p : Leaving(T, p) = SizeOf(T \cap TakesFrom(p))
           /\ \A p : Gone(T, p) = SizeOf(T \cap TookFrom(p))
           /\ \A b, p : ComingIn(T, b, p) = T \cap LoadsFrom(b, p)
<1>1. \A x \in T : x.executed \in BOOLEAN
  BY DEF Transfers
<1>2. \A p : /\ SentIn(T, "sink", p, FALSE) = T \cap SinksTo(p)
             /\ SentIn(T, "extract", p, FALSE) = T \cap TakesFrom(p)
             /\ SentIn(T, "extract", p, TRUE) = T \cap TookFrom(p)
  BY <1>1 DEF SentIn, SinksTo, TakesFrom, TookFrom
<1>3. \A b, p : ComingIn(T, b, p) = T \cap LoadsFrom(b, p)
  BY DEF ComingIn, LoadsFrom
<1> QED
  BY <1>2, <1>3, Zenon DEF Arriving, Leaving, Gone

\* Totals are natural numbers, no less than a transfer that they count.
LEMMA TotalType ==
    ASSUME NEW T \in SUBSET Transfers, IsFiniteSet(T)
    PROVE  /\ \A p : Arriving(T, p) \in Nat /\ Leaving(T, p) \in Nat /\ Gone(T, p) \in Nat
           /\ \A x \in T : /\ x.size \in Nat \ {0}
                           /\ x.kind = "sink" /\ ~x.executed => x.size <= Arriving(T, x.place)
                           /\ x.kind = "extract" /\ ~x.executed => x.size <= Leaving(T, x.place)
                           /\ x.kind = "extract" /\ x.executed => x.size <= Gone(T, x.place)
           /\ \A b, p : /\ SizeOf(ComingIn(T, b, p)) \in Nat
                        /\ \A x \in ComingIn(T, b, p) : x.size <= SizeOf(ComingIn(T, b, p))
<1>1. ASSUME NEW F
      PROVE  SizeOf(T \cap F) \in Nat /\ \A x \in T \cap F : x.size <= SizeOf(T \cap F)
  <2> DEFINE U == T \cap F
  <2>1. U \in SUBSET Transfers /\ IsFiniteSet(U)
    BY FS_Subset
  <2> HIDE DEF U
  <2>2. SizeOf(U) \in Nat /\ \A x \in U : x.size <= SizeOf(U)
    BY <2>1, SizeFacts
  <2> QED
    BY <2>2 DEF U
<1>2. ASSUME NEW p PROVE Arriving(T, p) \in Nat /\ Leaving(T, p) \in Nat /\ Gone(T, p) \in Nat
  <2>1. /\ Arriving(T, p) = SizeOf(T \cap SinksTo(p))
        /\ Leaving(T, p) = SizeOf(T \cap TakesFrom(p))
        /\ Gone(T, p) = SizeOf(T \cap TookFrom(p))
    BY Where
  <2> QED
    BY <1>1, <2>1
<1>3. ASSUME NEW x \in T
      PROVE  /\ x.size \in Nat \ {0}
             /\ x.kind = "sink" /\ ~x.executed => x.size <= Arriving(T, x.place)
             /\ x.kind = "extract" /\ ~x.executed => x.size <= Leaving(T, x.place)
             /\ x.kind = "extract" /\ x.executed => x.size <= Gone(T, x.place)
  <2>1. /\ Arriving(T, x.place) = SizeOf(T \cap SinksTo(x.place))
        /\ Leaving(T, x.place) = SizeOf(T \cap TakesFrom(x.place))
        /\ Gone(T, x.place) = SizeOf(T \cap TookFrom(x.place))
    BY Where
  <2>2. /\ x.kind = "sink" /\ ~x.executed => x \in T \cap SinksTo(x.place)
        /\ x.kind = "extract" /\ ~x.executed => x \in T \cap TakesFrom(x.place)
        /\ x.kind = "extract" /\ x.executed => x \in T \cap TookFrom(x.place)
    BY DEF SinksTo, TakesFrom, TookFrom
  <2>3. x.size \in Nat \ {0}
    BY DEF Transfers
  <2> QED
    BY <1>1, <2>1, <2>2, <2>3
<1>4. ASSUME NEW b, NEW p
      PROVE  /\ SizeOf(ComingIn(T, b, p)) \in Nat
             /\ \A x \in ComingIn(T, b, p) : x.size <= SizeOf(ComingIn(T, b, p))
  <2>1. ComingIn(T, b, p) = T \cap LoadsFrom(b, p)
    BY Where
  <2>2. /\ SizeOf(T \cap LoadsFrom(b, p)) \in Nat
        /\ \A x \in T \cap LoadsFrom(b, p) : x.size <= SizeOf(T \cap LoadsFrom(b, p))
    BY <1>1
  <2> QED
    BY <2>1, <2>2, Zenon
<1> QED
  BY <1>2, <1>3, <1>4

\* Reservations add up; one of them changes.
LEMMA PromisedFacts ==
    ASSUME NEW r \in [BusSlots -> [Places -> Nat]]
    PROVE  /\ \A p \in Places : /\ PromisedIn(r, p) \in Nat
                                /\ \A b \in BusSlots : r[b][p] <= PromisedIn(r, p)
           /\ \A b \in BusSlots : \A t \in [Places -> Nat] : \A p \in Places :
                PromisedIn([r EXCEPT ![b] = t], p) = PromisedIn(r, p) + (t[p] - r[b][p])
<1>1. IsFiniteSet(BusSlots)
  BY StoragesAssumption
<1>2. ASSUME NEW p \in Places
      PROVE  PromisedIn(r, p) \in Nat /\ \A b \in BusSlots : r[b][p] <= PromisedIn(r, p)
  <2> DEFINE f == [b \in BusSlots |-> r[b][p]]
  <2>1. \A b \in BusSlots : f[b] \in Nat /\ f[b] = r[b][p]
    OBVIOUS
  <2>2. PromisedIn(r, p) = SumFunctionOnSet(f, BusSlots)
    BY DEF PromisedIn
  <2> HIDE DEF f
  <2>3. /\ SumFunctionOnSet(f, BusSlots) \in Nat
        /\ \A b \in BusSlots : f[b] <= SumFunctionOnSet(f, BusSlots)
    BY <1>1, <2>1, SumNatural
  <2> QED
    BY <2>1, <2>2, <2>3
<1>3. ASSUME NEW b \in BusSlots, NEW t \in [Places -> Nat], NEW p \in Places
      PROVE  PromisedIn([r EXCEPT ![b] = t], p) = PromisedIn(r, p) + (t[p] - r[b][p])
  <2> DEFINE q == [r EXCEPT ![b] = t]
             f == [c \in BusSlots |-> r[c][p]]
             g == [c \in BusSlots |-> q[c][p]]
  <2>1. \A c \in BusSlots : f[c] \in Int /\ f[c] = r[c][p]
    OBVIOUS
  <2>2. g[b] = t[p] /\ t[p] \in Int /\ f[b] = r[b][p]
    OBVIOUS
  <2>3. \A c \in BusSlots \ {b} : g[c] = f[c]
    OBVIOUS
  <2>4. PromisedIn(r, p) = SumFunctionOnSet(f, BusSlots) /\ PromisedIn(q, p) = SumFunctionOnSet(g, BusSlots)
    BY DEF PromisedIn
  <2> HIDE DEF f, g, q
  <2>5. SumFunctionOnSet(g, BusSlots) = SumFunctionOnSet(f, BusSlots) + (g[b] - f[b])
    BY <1>1, <2>1, <2>2, <2>3, SumChanges
  <2>6. PromisedIn(q, p) = PromisedIn(r, p) + (t[p] - r[b][p])
    BY <2>2, <2>4, <2>5
  <2> QED
    BY <2>6 DEF q
<1> QED
  BY <1>2, <1>3

\* What is to come into a slot: the sum of what the places send, no more when
\* less is to come, and the same when all places send the same.
LEMMA PendingFacts ==
    ASSUME NEW r \in [BusSlots -> [Places -> Nat]], NEW T \in SUBSET Transfers, IsFiniteSet(T),
           NEW b \in BusSlots
    PROVE  /\ PendingIn(r, T, b) \in Nat
           /\ \A p \in Places : r[b][p] + SizeOf(ComingIn(T, b, p)) <= PendingIn(r, T, b)
<1> DEFINE f == [p \in Places |-> r[b][p] + SizeOf(ComingIn(T, b, p))]
<1>1. \A p \in Places : f[p] = r[b][p] + SizeOf(ComingIn(T, b, p)) /\ f[p] \in Nat
  BY TotalType
<1>2. PendingIn(r, T, b) = SumFunctionOnSet(f, Places)
  BY DEF PendingIn
<1> HIDE DEF f
<1>3. /\ SumFunctionOnSet(f, Places) \in Nat
      /\ \A p \in Places : f[p] <= SumFunctionOnSet(f, Places)
  BY <1>1, PlacesFinite, SumNatural
<1> QED
  BY <1>1, <1>2, <1>3

\* What is pending is no more when no place sends more.
LEMMA PendingGrows ==
    ASSUME NEW r \in [BusSlots -> [Places -> Nat]], NEW T \in SUBSET Transfers, IsFiniteSet(T),
           NEW q \in [BusSlots -> [Places -> Nat]], NEW U \in SUBSET Transfers, IsFiniteSet(U),
           NEW b \in BusSlots,
           \A p \in Places : q[b][p] + SizeOf(ComingIn(U, b, p)) <= r[b][p] + SizeOf(ComingIn(T, b, p))
    PROVE  PendingIn(q, U, b) <= PendingIn(r, T, b)
<1> DEFINE f == [p \in Places |-> r[b][p] + SizeOf(ComingIn(T, b, p))]
           g == [p \in Places |-> q[b][p] + SizeOf(ComingIn(U, b, p))]
<1>1. \A p \in Places : f[p] \in Int
  BY TotalType
<1>2. \A p \in Places : g[p] \in Int
  BY TotalType
<1>3. PendingIn(r, T, b) = SumFunctionOnSet(f, Places) /\ PendingIn(q, U, b) = SumFunctionOnSet(g, Places)
  BY DEF PendingIn
<1>4. \A p \in Places : g[p] <= f[p]
  OBVIOUS
<1> HIDE DEF f, g
<1>5. SumFunctionOnSet(g, Places) <= SumFunctionOnSet(f, Places)
  BY <1>1, <1>2, <1>4, PlacesFinite, SumGrows
<1> QED
  BY <1>3, <1>5

\* One place sends less.
Fewer(m, k, n) == m = k - n

\* What is pending for a slot is less by what one place does not send any more.
LEMMA PendingLess ==
    ASSUME NEW r \in [BusSlots -> [Places -> Nat]], NEW T \in SUBSET Transfers, IsFiniteSet(T),
           NEW U \in SUBSET Transfers, IsFiniteSet(U), NEW b \in BusSlots,
           NEW p \in Places, NEW n \in Nat,
           Fewer(SizeOf(ComingIn(U, b, p)), SizeOf(ComingIn(T, b, p)), n),
           \A q \in Places \ {p} : ComingIn(U, b, q) = ComingIn(T, b, q)
    PROVE  Fewer(PendingIn(r, U, b), PendingIn(r, T, b), n)
<1> DEFINE f == [q \in Places |-> r[b][q] + SizeOf(ComingIn(T, b, q))]
           g == [q \in Places |-> r[b][q] + SizeOf(ComingIn(U, b, q))]
<1>1. \A q \in Places : f[q] \in Int
  BY TotalType
<1>2. /\ SizeOf(ComingIn(T, b, p)) \in Nat /\ SizeOf(ComingIn(U, b, p)) \in Nat
      /\ r[b][p] \in Nat
  BY TotalType
<1>3. g[p] \in Int /\ f[p] \in Int /\ g[p] - f[p] = 0 - n
  BY <1>2 DEF Fewer
<1>4. PendingIn(r, T, b) = SumFunctionOnSet(f, Places) /\ PendingIn(r, U, b) = SumFunctionOnSet(g, Places)
  BY DEF PendingIn
<1>5. \A q \in Places \ {p} : g[q] = f[q]
  OBVIOUS
<1> HIDE DEF f, g
<1>6. SumFunctionOnSet(g, Places) = SumFunctionOnSet(f, Places) + (g[p] - f[p])
  BY <1>1, <1>3, <1>5, PlacesFinite, SumChanges
<1>7. SumFunctionOnSet(f, Places) \in Int
  BY <1>1, PlacesFinite, SumRemoves
<1> QED
  BY <1>3, <1>4, <1>6, <1>7 DEF Fewer
-----------------------------------------------------------------------------
(***************************************************************************)
(* The invariant, for a state that is given by its parts.                  *)
(***************************************************************************)
HeldIn(s, T, p) == s[p].size + Arriving(T, p) + Gone(T, p)
CoversIn(c, s, T) ==
    \A p \in ChestPlaces : HeldIn(s, T, p) > 0 =>
        /\ HeldIn(s, T, p) <= c[p].size
        /\ s[p] # Empty => s[p].item = c[p].item
KeptIn(pr, r, T, s) ==
    \A p \in Places : pr[p].avail + PromisedIn(r, p) + Leaving(T, p) <= s[p].size
ClaimedIn(pr, r, T, p) ==
    pr[p].avail + PromisedIn(r, p) + Leaving(T, p) + Gone(T, p)
ItemsIn(c, pr, r, T) ==
    /\ \A p \in Places : ClaimedIn(pr, r, T, p) > 0 =>
         pr[p].item = IF p \in ChestPlaces THEN c[p].item ELSE p[2]
    /\ \A x \in T :
         /\ x.kind = "extract" => x.item = pr[x.place].item
         /\ x.kind = "sink" /\ x.place \notin ChestPlaces => x.item = x.place[2]
         /\ x.kind = "sink" /\ x.place \in ChestPlaces /\ ~x.executed => x.item = c[x.place].item
FitsIn(pr, r, T, bs, b, i) ==
    /\ \A p \in Places : r[b][p] > 0 => pr[p].item = i
    /\ \A x \in T : x.kind = "extract" /\ x.slot = b => x.item = i
    /\ bs[b] # Empty => bs[b].item = i
    /\ bs[b].size + PendingIn(r, T, b) <= MaxSize[i]
SlotsIn(u, pr, r, T, bs) ==
    /\ \A b \in BusSlots :
         u[b] \in {"waiting", "loading", "failed"} => \E i \in Items : FitsIn(pr, r, T, bs, b, i)
    /\ \A x \in T : x.kind = "sink" /\ bs[x.slot] # Empty => bs[x.slot].item = x.item
BackupIn(pr) ==
    \A i \in Items \ BackupUsers : AvailIn(pr, i) >= Least(CountIn(pr, i), Backup[i])

\* The invariant, in terms of these parts.
LEMMA InvParts ==
    Inv <=> /\ TypeOK /\ StagesOK /\ SlotsIn(use, providers, reserved, transfers, bus)
            /\ running => /\ ItemsIn(content, providers, reserved, transfers)
                          /\ CoversIn(content, stored, transfers)
                          /\ KeptIn(providers, reserved, transfers, stored)
                          /\ BackupIn(providers)
<1>1. \A b \in BusSlots : \A i : LoadsFit(b, i) <=> FitsIn(providers, reserved, transfers, bus, b, i)
  BY SumsAre DEF LoadsFit, FitsIn, Loads
<1>2. SlotsOK <=> SlotsIn(use, providers, reserved, transfers, bus)
  BY <1>1 DEF SlotsOK, SlotsIn
<1>3. \A p \in Places : Claimed(p) = ClaimedIn(providers, reserved, transfers, p)
  BY SumsAre DEF Claimed, ClaimedIn
<1>4. ItemsOK <=> (running => ItemsIn(content, providers, reserved, transfers))
  BY <1>3 DEF ItemsOK, ItemsIn
<1>5. AccountCovers <=> (running => CoversIn(content, stored, transfers))
  BY SumsAre DEF AccountCovers, CoversIn, HeldIn
<1>6. ReservedIsThere <=> (running => KeptIn(providers, reserved, transfers, stored))
  BY SumsAre DEF ReservedIsThere, KeptIn
<1>7. BackupKept <=> (running => BackupIn(providers))
  BY SumsAre DEF BackupKept, BackupIn
<1> QED
  BY <1>2, <1>4, <1>5, <1>6, <1>7 DEF Inv

\* The same of the state after a step.
LEMMA SumsAreNext ==
    /\ \A p : /\ Total("sink", p, FALSE)' = Arriving(transfers', p)
             /\ Total("extract", p, FALSE)' = Leaving(transfers', p)
             /\ Total("extract", p, TRUE)' = Gone(transfers', p)
    /\ \A p : Promised(p)' = PromisedIn(reserved', p)
    /\ \A b : SumFunction(Pending(b))' = PendingIn(reserved', transfers', b)
    /\ \A i : Avail(i)' = AvailIn(providers', i) /\ ProvidersOf(i)' = ListedIn(providers', i)
    /\ \A i : SumFunctionOnSet([p \in Places |-> providers[p].size], ProvidersOf(i))' = CountIn(providers', i)
<1>1. \A p : /\ Total("sink", p, FALSE)' = Arriving(transfers', p)
             /\ Total("extract", p, FALSE)' = Leaving(transfers', p)
             /\ Total("extract", p, TRUE)' = Gone(transfers', p)
  BY DEF Total, Sent, Arriving, Leaving, Gone, SentIn, SizeOf
<1>2. \A p : Promised(p)' = PromisedIn(reserved', p)
  BY DEF Promised, PromisedIn, SumFunction
<1>3. ASSUME NEW b PROVE SumFunction(Pending(b))' = PendingIn(reserved', transfers', b)
  <2>1. \A p : Coming(b, p)' = ComingIn(transfers', b, p)
    BY DEF Coming, Loads, ComingIn
  <2>2. Pending(b)' = [p \in Places |-> reserved'[b][p] + SizeOf(ComingIn(transfers', b, p))]
    BY <2>1 DEF Pending, SizeOf
  <2>3. DOMAIN Pending(b)' = Places
    BY DEF Pending
  <2> QED
    BY <2>2, <2>3, Zenon DEF PendingIn, SumFunction
<1>4. \A i : Avail(i)' = AvailIn(providers', i) /\ ProvidersOf(i)' = ListedIn(providers', i)
  BY DEF Avail, AvailIn, ProvidersOf, ListedIn
<1>5. \A i : SumFunctionOnSet([p \in Places |-> providers[p].size], ProvidersOf(i))' = CountIn(providers', i)
  BY DEF CountIn, ProvidersOf, ListedIn
<1> QED
  BY <1>1, <1>2, <1>3, <1>4, <1>5

\* The same of the state after a step.
LEMMA InvPartsNext ==
    Inv' <=> /\ TypeOK' /\ StagesOK' /\ SlotsIn(use', providers', reserved', transfers', bus')
             /\ running' => /\ ItemsIn(content', providers', reserved', transfers')
                            /\ CoversIn(content', stored', transfers')
                            /\ KeptIn(providers', reserved', transfers', stored')
                            /\ BackupIn(providers')
<1>1. \A b \in BusSlots : \A i : LoadsFit(b, i)' <=> FitsIn(providers', reserved', transfers', bus', b, i)
  BY SumsAreNext DEF LoadsFit, FitsIn, Loads
<1>2. SlotsOK' <=> SlotsIn(use', providers', reserved', transfers', bus')
  BY <1>1 DEF SlotsOK, SlotsIn
<1>3. \A p \in Places : Claimed(p)' = ClaimedIn(providers', reserved', transfers', p)
  BY SumsAreNext DEF Claimed, ClaimedIn
<1>4. ItemsOK' <=> (running' => ItemsIn(content', providers', reserved', transfers'))
  BY <1>3 DEF ItemsOK, ItemsIn
<1>5. AccountCovers' <=> (running' => CoversIn(content', stored', transfers'))
  BY SumsAreNext DEF AccountCovers, CoversIn, HeldIn
<1>6. ReservedIsThere' <=> (running' => KeptIn(providers', reserved', transfers', stored'))
  BY SumsAreNext DEF ReservedIsThere, KeptIn
<1>7. BackupKept' <=> (running' => BackupIn(providers'))
  BY SumsAreNext DEF BackupKept, BackupIn
<1> QED
  BY <1>2, <1>4, <1>5, <1>6, <1>7 DEF Inv

\* Between the cycles nothing is reserved or on its way, then nothing is pending.
LEMMA NothingPending ==
    /\ Inv /\ (\A b \in BusSlots : use[b] \in {"free", "left"}) =>
         transfers = {} /\ \A b \in BusSlots : reserved[b] = Nothing
    /\ Inv /\ ~running => \A b \in BusSlots : use[b] \in {"free", "left"}
    /\ \A p : Arriving({}, p) = 0 /\ Leaving({}, p) = 0 /\ Gone({}, p) = 0
    /\ \A r : (\A b \in BusSlots : r[b] = Nothing) => \A p \in Places : PromisedIn(r, p) = 0
<1>1. \A p : Arriving({}, p) = 0 /\ Leaving({}, p) = 0 /\ Gone({}, p) = 0
  <2>1. \A way, p, executed : SentIn({}, way, p, executed) = {}
    BY DEF SentIn
  <2> QED
    BY <2>1, SumEmpty DEF Arriving, Leaving, Gone, SizeOf
<1>2. ASSUME Inv, \A b \in BusSlots : use[b] \in {"free", "left"}
      PROVE  transfers = {} /\ \A b \in BusSlots : reserved[b] = Nothing
  <2>1. \A x \in transfers : x.slot \in BusSlots
    BY <1>2 DEF Inv, TypeOK, Transfers
  <2>2. \A x \in transfers : FALSE
    BY <1>2, <2>1 DEF Inv, StagesOK
  <2>3. \A b \in BusSlots : reserved[b] = Nothing
    BY <1>2 DEF Inv, StagesOK
  <2> QED
    BY <2>2, <2>3
<1>3. Inv /\ ~running => \A b \in BusSlots : use[b] \in {"free", "left"}
  BY DEF Inv, StagesOK
<1>4. ASSUME NEW r, \A b \in BusSlots : r[b] = Nothing, NEW p \in Places PROVE PromisedIn(r, p) = 0
  <2> DEFINE f == [b \in BusSlots |-> r[b][p]]
  <2>1. \A b \in BusSlots : f[b] = 0
    BY <1>4 DEF Nothing
  <2>2. PromisedIn(r, p) = SumFunctionOnSet(f, BusSlots)
    BY DEF PromisedIn
  <2> HIDE DEF f
  <2> QED
    BY <2>1, <2>2, StoragesAssumption, SumOfZeros
<1> QED
  BY <1>1, <1>2, <1>3, <1>4
-----------------------------------------------------------------------------
(***************************************************************************)
(* The invariant holds at first, and every action keeps it.                *)
(***************************************************************************)

\* At first nothing runs.
LEMMA InitInv == Init => Inv
<1> SUFFICES ASSUME Init PROVE Inv
  OBVIOUS
<1>1. PICK chest \in [ChestPlaces -> StoredAtFirst], more \in [Places \ ChestPlaces -> 0 .. 1] :
        stored = [p \in Places |-> IF p \in ChestPlaces THEN chest[p]
                                   ELSE [item |-> p[2], size |-> more[p]]]
  BY DEF Init
<1>2. TypeOK
  <2>1. /\ running \in BOOLEAN /\ content \in [ChestPlaces -> SlotStacks]
        /\ providers \in [Places -> [item : Items \cup {NoItem}, size : Nat, avail : Nat]]
        /\ transfers \subseteq Transfers /\ IsFiniteSet(transfers)
        /\ use \in [BusSlots -> {"free", "waiting", "loading", "failed", "left", "inserting"}]
        /\ bus \in [BusSlots -> SlotStacks]
    BY StackFacts, FS_EmptySet DEF Init
  <2>2. reserved \in [BusSlots -> [Places -> Nat]]
    BY DEF Init, Nothing
  <2>3. DOMAIN stored = Places
    BY <1>1
  <2>4. \A p \in ChestPlaces : stored[p] \in SlotStacks
    BY <1>1, StoragesAssumption, PlacesFinite
  <2>5. \A p \in Places \ ChestPlaces : stored[p] \in [item : {p[2]}, size : Nat]
    BY <1>1
  <2> QED
    BY <2>1, <2>2, <2>3, <2>4, <2>5 DEF TypeOK
<1>3. StagesOK
  BY DEF Init, StagesOK
<1>4. SlotsIn(use, providers, reserved, transfers, bus)
  BY DEF Init, SlotsIn
<1>5. ~running
  BY DEF Init
<1> QED
  BY <1>2, <1>3, <1>4, <1>5, InvParts

\* The content of the storages is read.
LEMMA UpdateStoragesInv == ASSUME Inv, UpdateStorages PROVE Inv'
<1>1. /\ ~running /\ running' = TRUE
      /\ content' = [p \in ChestPlaces |-> stored[p]]
      /\ providers' = [p \in Places |->
           IF stored[p].size = 0 THEN [item |-> NoItem, size |-> 0, avail |-> 0]
           ELSE [item |-> stored[p].item, size |-> stored[p].size, avail |-> stored[p].size]]
      /\ UNCHANGED <<transfers, reserved, use, bus, stored>>
  BY DEF UpdateStorages
<1>2. TypeOK /\ StagesOK
  BY DEF Inv
<1>3. /\ \A b \in BusSlots : use[b] \in {"free", "left"}
      /\ transfers = {} /\ \A b \in BusSlots : reserved[b] = Nothing
  BY <1>1, NothingPending
<1>4. \A p \in Places : stored[p].size \in Nat /\ (stored[p].size # 0 => stored[p].item \in Items)
  BY <1>2, StackFacts, PlacesFinite DEF TypeOK
<1>5. TypeOK'
  <2>1. providers' \in [Places -> [item : Items \cup {NoItem}, size : Nat, avail : Nat]]
    BY <1>1, <1>4
  <2>2. content' \in [ChestPlaces -> SlotStacks]
    BY <1>1, <1>2 DEF TypeOK
  <2>3. running' \in BOOLEAN
    BY <1>1
  <2> QED
    BY <1>1, <1>2, <2>1, <2>2, <2>3 DEF TypeOK
<1>6. StagesOK'
  BY <1>1, <1>2 DEF StagesOK
<1>7. SlotsIn(use', providers', reserved', transfers', bus')
  BY <1>1, <1>3 DEF SlotsIn
<1>8. \A p \in Places : /\ Arriving(transfers', p) = 0 /\ Leaving(transfers', p) = 0
                        /\ Gone(transfers', p) = 0 /\ PromisedIn(reserved', p) = 0
  BY <1>1, <1>3, NothingPending
<1>9. \A p \in Places : providers'[p].avail = stored[p].size /\ providers'[p].size = stored[p].size
  BY <1>1
<1>10. CoversIn(content', stored', transfers')
  <2> SUFFICES ASSUME NEW p \in ChestPlaces
               PROVE  /\ HeldIn(stored', transfers', p) = content'[p].size
                      /\ stored'[p].item = content'[p].item
    <3>1. \A p \in ChestPlaces : content'[p].size \in Nat
      BY <1>1, <1>4, PlacesFinite
    <3> QED
      BY <3>1 DEF CoversIn
  <2>1. content'[p] = stored'[p] /\ stored'[p].size \in Nat
    BY <1>1, <1>4, PlacesFinite
  <2>2. /\ Arriving(transfers', p) = 0
        /\ Gone(transfers', p) = 0
    BY <1>8, PlacesFinite
  <2> QED
    BY <2>1, <2>2 DEF HeldIn
<1>11. KeptIn(providers', reserved', transfers', stored')
  <2> SUFFICES ASSUME NEW p \in Places
               PROVE  providers'[p].avail + PromisedIn(reserved', p) + Leaving(transfers', p)
                      <= stored'[p].size
    BY DEF KeptIn
  <2>1. stored'[p] = stored[p] /\ stored[p].size \in Nat /\ providers'[p].avail = stored[p].size
    BY <1>1, <1>4, <1>9
  <2>2. /\ PromisedIn(reserved', p) = 0
        /\ Leaving(transfers', p) = 0
    BY <1>8
  <2> QED
    BY <2>1, <2>2
<1>12. ItemsIn(content', providers', reserved', transfers')
  <2>1. ASSUME NEW p \in Places, ClaimedIn(providers', reserved', transfers', p) > 0
        PROVE  providers'[p].item = IF p \in ChestPlaces THEN content'[p].item ELSE p[2]
    <3>1. stored[p].size > 0
      <4>1. stored[p].size \in Nat /\ providers'[p].avail = stored[p].size
        BY <1>4, <1>9
      <4>2. /\ PromisedIn(reserved', p) = 0
            /\ Leaving(transfers', p) = 0
            /\ Gone(transfers', p) = 0
        BY <1>8
      <4> QED
        BY <2>1, <4>1, <4>2 DEF ClaimedIn
    <3>2. providers'[p].item = stored[p].item
      BY <1>1, <3>1
    <3>3. p \notin ChestPlaces => stored[p].item = p[2]
      BY <1>2 DEF TypeOK
    <3> QED
      BY <1>1, <3>2, <3>3
  <2> QED
    BY <1>1, <1>3, <2>1 DEF ItemsIn
<1>13. BackupIn(providers')
  <2> SUFFICES ASSUME NEW i \in Items \ BackupUsers
               PROVE  AvailIn(providers', i) >= Least(CountIn(providers', i), Backup[i])
    BY DEF BackupIn
  <2> DEFINE L == ListedIn(providers', i)
             f == [p \in Places |-> providers'[p].avail]
             g == [p \in Places |-> providers'[p].size]
  <2>1. IsFiniteSet(L)
    BY PlacesFinite, FS_Subset DEF ListedIn
  <2>2. \A p \in L : f[p] \in Nat /\ g[p] = f[p]
    BY <1>4, <1>9 DEF ListedIn
  <2>3. AvailIn(providers', i) = SumFunctionOnSet(f, L) /\ CountIn(providers', i) = SumFunctionOnSet(g, L)
    BY DEF AvailIn, CountIn
  <2> HIDE DEF f, g, L
  <2>4. SumFunctionOnSet(g, L) = SumFunctionOnSet(f, L)
    BY <2>1, <2>2, SumSame
  <2>5. SumFunctionOnSet(f, L) \in Nat
    BY <2>1, <2>2, SumNatural
  <2>6. Backup[i] \in Nat
    BY ItemsAssumption
  <2> QED
    BY <2>3, <2>4, <2>5, <2>6 DEF Least
<1> QED
  BY <1>5, <1>6, <1>7, <1>10, <1>11, <1>12, <1>13, InvPartsNext

\* A cycle ends.
LEMMA EndOfCycleInv == ASSUME Inv, EndOfCycle PROVE Inv'
<1>1. /\ running' = FALSE /\ \A b \in BusSlots : use[b] \in {"free", "left"}
      /\ content' = [p \in ChestPlaces |-> Empty]
      /\ providers' = [p \in Places |-> [item |-> NoItem, size |-> 0, avail |-> 0]]
      /\ UNCHANGED <<transfers, reserved, use, bus, stored>>
  BY DEF EndOfCycle
<1>2. TypeOK /\ StagesOK
  BY DEF Inv
<1>3. transfers = {}
  BY <1>1, NothingPending
<1>4. TypeOK'
  <2>1. content' \in [ChestPlaces -> SlotStacks]
    BY <1>1, StackFacts
  <2>2. providers' \in [Places -> [item : Items \cup {NoItem}, size : Nat, avail : Nat]]
    BY <1>1
  <2>3. running' \in BOOLEAN
    BY <1>1
  <2> QED
    BY <1>1, <1>2, <2>1, <2>2, <2>3 DEF TypeOK
<1>5. StagesOK'
  BY <1>1, <1>2 DEF StagesOK
<1>6. SlotsIn(use', providers', reserved', transfers', bus')
  BY <1>1, <1>3 DEF SlotsIn
<1> QED
  BY <1>1, <1>4, <1>5, <1>6, InvPartsNext

\* A process reserves.
LEMMA ReserveInv ==
    ASSUME Inv, NEW b \in BusSlots, NEW i \in Items, NEW n \in 1 .. MaxSize[i], Reserve(b, i, n)
    PROVE  Inv'
<1>1. PICK t \in Reservations(i, n) :
        /\ reserved' = [reserved EXCEPT ![b] = t]
        /\ providers' = Deduct(t)
  BY DEF Reserve
<1>2. /\ running /\ use[b] = "free" /\ bus[b] = Empty
      /\ \E allowBackup \in {FALSE, (i \in BackupUsers)} : n <= GetAvail(i, allowBackup)
      /\ use' = [use EXCEPT ![b] = "waiting"]
      /\ UNCHANGED <<running, content, transfers, bus, stored>>
  BY DEF Reserve
<1>3. TypeOK /\ StagesOK
  BY DEF Inv
<1>4. /\ SlotsIn(use, providers, reserved, transfers, bus)
      /\ ItemsIn(content, providers, reserved, transfers)
      /\ CoversIn(content, stored, transfers)
      /\ KeptIn(providers, reserved, transfers, stored)
      /\ BackupIn(providers)
  BY <1>2, InvParts
<1>5. /\ reserved \in [BusSlots -> [Places -> Nat]]
      /\ providers \in [Places -> [item : Items \cup {NoItem}, size : Nat, avail : Nat]]
      /\ transfers \in SUBSET Transfers /\ IsFiniteSet(transfers)
      /\ n \in Nat \ {0} /\ MaxSize[i] \in Nat
  BY <1>3, StackFacts DEF TypeOK
<1>6. /\ t \in [Places -> 0 .. n]
      /\ \A p \in Places : t[p] > 0 => p \in ListedIn(providers, i) /\ t[p] <= providers[p].avail
      /\ SumFunctionOnSet(t, Places) = n
  BY SumsAre DEF Reservations
<1>7. t \in [Places -> Nat] /\ \A p \in Places : t[p] \in Nat /\ t[p] <= providers[p].avail
  <2>1. t \in [Places -> Nat] /\ \A p \in Places : t[p] \in Nat
    BY <1>5, <1>6
  <2>2. \A p \in Places : providers[p].avail \in Nat
    BY <1>5
  <2> QED
    BY <1>6, <2>1, <2>2
<1>8. \A p \in Places : providers'[p] = [item |-> providers[p].item, size |-> providers[p].size,
                                         avail |-> providers[p].avail - t[p]]
  BY <1>1, <1>5 DEF Deduct
<1>9. /\ \A p \in Places : providers'[p].item = providers[p].item /\ providers'[p].size = providers[p].size
      /\ \A p \in Places : providers'[p].avail = providers[p].avail - t[p]
  <2> SUFFICES ASSUME NEW p \in Places
               PROVE  /\ providers'[p].item = providers[p].item /\ providers'[p].size = providers[p].size
                      /\ providers'[p].avail = providers[p].avail - t[p]
    OBVIOUS
  <2>1. providers'[p] = [item |-> providers[p].item, size |-> providers[p].size,
                         avail |-> providers[p].avail - t[p]]
    BY <1>8
  <2> QED
    BY <2>1
<1>10. reserved[b] = Nothing /\ \A x \in transfers : x.slot # b
  BY <1>2, <1>3 DEF StagesOK
<1>11. \A p \in Places : PromisedIn(reserved', p) = PromisedIn(reserved, p) + t[p]
  <2> SUFFICES ASSUME NEW p \in Places PROVE PromisedIn(reserved', p) = PromisedIn(reserved, p) + t[p]
    OBVIOUS
  <2>1. PromisedIn(reserved', p) = PromisedIn(reserved, p) + (t[p] - reserved[b][p])
    BY <1>1, <1>5, <1>7, PromisedFacts
  <2>2. reserved[b][p] = 0
    BY <1>10 DEF Nothing
  <2>3. t[p] \in Nat /\ PromisedIn(reserved, p) \in Nat
    BY <1>5, <1>7, PromisedFacts
  <2> QED
    BY <2>1, <2>2, <2>3
<1>12. TypeOK'
  <2>1. reserved' \in [BusSlots -> [Places -> Nat]]
    BY <1>1, <1>5, <1>7
  <2>2. \A p \in Places : providers[p].avail - t[p] \in Nat
    BY <1>5, <1>7
  <2>3. providers' \in [Places -> [item : Items \cup {NoItem}, size : Nat, avail : Nat]]
    BY <1>1, <1>5, <2>2 DEF Deduct
  <2>4. use' \in [BusSlots -> {"free", "waiting", "loading", "failed", "left", "inserting"}]
    BY <1>2, <1>3 DEF TypeOK
  <2> QED
    BY <1>2, <1>3, <2>1, <2>3, <2>4 DEF TypeOK
<1>13. StagesOK'
  <2>1. \A c \in BusSlots : use'[c] # "waiting" => reserved'[c] = Nothing
    BY <1>1, <1>2, <1>3, <1>5 DEF StagesOK, TypeOK
  <2>2. \A x \in transfers' : use'[x.slot] = use[x.slot]
    BY <1>2, <1>3, <1>10 DEF TypeOK, Transfers
  <2> QED
    BY <1>2, <1>3, <2>1, <2>2 DEF StagesOK
<1>14. KeptIn(providers', reserved', transfers', stored')
  <2> SUFFICES ASSUME NEW p \in Places
               PROVE  providers'[p].avail + PromisedIn(reserved', p) + Leaving(transfers', p) <= stored'[p].size
    BY DEF KeptIn
  <2>1. providers[p].avail + PromisedIn(reserved, p) + Leaving(transfers, p) <= stored[p].size
    BY <1>4 DEF KeptIn
  <2>2. /\ providers[p].avail \in Nat /\ PromisedIn(reserved, p) \in Nat /\ Leaving(transfers, p) \in Nat
        /\ t[p] \in Nat
    BY <1>5, <1>7, PromisedFacts, TotalType
  <2>3. stored'[p] = stored[p] /\ Leaving(transfers', p) = Leaving(transfers, p)
    BY <1>2
  <2> QED
    BY <1>9, <1>11, <2>1, <2>2, <2>3
<1>15. ItemsIn(content', providers', reserved', transfers')
  <2>1. \A p \in Places : ClaimedIn(providers', reserved', transfers', p)
                          = ClaimedIn(providers, reserved, transfers, p)
    <3> SUFFICES ASSUME NEW p \in Places
                 PROVE  ClaimedIn(providers', reserved', transfers', p)
                        = ClaimedIn(providers, reserved, transfers, p)
      OBVIOUS
    <3>1. /\ providers[p].avail \in Nat /\ PromisedIn(reserved, p) \in Nat
          /\ Leaving(transfers, p) \in Nat /\ Gone(transfers, p) \in Nat /\ t[p] \in Nat
      BY <1>5, <1>7, PromisedFacts, TotalType
    <3>2. Leaving(transfers', p) = Leaving(transfers, p) /\ Gone(transfers', p) = Gone(transfers, p)
      BY <1>2
    <3> QED
      BY <1>9, <1>11, <3>1, <3>2 DEF ClaimedIn
  <2>2. \A x \in transfers : providers'[x.place].item = providers[x.place].item
    BY <1>5, <1>9 DEF Transfers
  <2> QED
    BY <1>2, <1>4, <1>9, <2>1, <2>2 DEF ItemsIn
<1>16. CoversIn(content', stored', transfers')
  BY <1>2, <1>4
<1>17. SlotsIn(use', providers', reserved', transfers', bus')
  <2>1. FitsIn(providers', reserved', transfers', bus', b, i)
    <3>1. reserved'[b] = t
      BY <1>1, <1>5
    <3>2. \A p \in Places : reserved'[b][p] > 0 => providers'[p].item = i
      BY <1>6, <1>9, <3>1 DEF ListedIn
    <3>3. PendingIn(reserved', transfers', b) = n
      <4> DEFINE f == [p \in Places |-> reserved'[b][p] + SizeOf(ComingIn(transfers', b, p))]
      <4>1. \A p \in Places : f[p] = t[p]
        <5> SUFFICES ASSUME NEW p \in Places PROVE t[p] + SizeOf(ComingIn(transfers', b, p)) = t[p]
          BY <3>1
        <5>1. ComingIn(transfers', b, p) = {}
          BY <1>2, <1>10 DEF ComingIn
        <5>2. SizeOf({}) = 0
          BY SumEmpty DEF SizeOf
        <5>3. SizeOf(ComingIn(transfers', b, p)) = 0
          BY <5>1, <5>2
        <5> QED
          BY <1>7, <5>3
      <4>2. PendingIn(reserved', transfers', b) = SumFunctionOnSet(f, Places)
        BY DEF PendingIn
      <4> HIDE DEF f
      <4>3. SumFunctionOnSet(f, Places) = SumFunctionOnSet(t, Places)
        BY <1>7, <4>1, PlacesFinite, SumSame
      <4> QED
        BY <1>6, <4>2, <4>3
    <3>4. bus'[b] = Empty /\ bus'[b].size = 0
      BY <1>2, StackFacts
    <3>5. bus'[b].size + PendingIn(reserved', transfers', b) <= MaxSize[i]
      BY <1>5, <3>3, <3>4
    <3>6. \A x \in transfers' : x.slot # b
      BY <1>2, <1>10
    <3> QED
      BY <3>2, <3>4, <3>5, <3>6 DEF FitsIn
  <2>2. ASSUME NEW c \in BusSlots, c # b, use'[c] \in {"waiting", "loading", "failed"}
        PROVE  \E j \in Items : FitsIn(providers', reserved', transfers', bus', c, j)
    <3>1. use[c] = use'[c]
      BY <1>2, <1>3, <2>2 DEF TypeOK
    <3>2. PICK j \in Items : FitsIn(providers, reserved, transfers, bus, c, j)
      BY <1>4, <2>2, <3>1 DEF SlotsIn
    <3>3. reserved'[c] = reserved[c]
      BY <1>1, <1>5, <2>2
    <3>4. PendingIn(reserved', transfers', c) = PendingIn(reserved, transfers, c)
      BY <1>2, <3>3 DEF PendingIn
    <3>5. FitsIn(providers', reserved', transfers', bus', c, j)
      BY <1>2, <1>9, <3>2, <3>3, <3>4 DEF FitsIn
    <3> QED
      BY <3>5
  <2> QED
    BY <1>2, <1>4, <2>1, <2>2 DEF SlotsIn
<1>18. BackupIn(providers')
  <2> SUFFICES ASSUME NEW j \in Items \ BackupUsers
               PROVE  AvailIn(providers', j) >= Least(CountIn(providers', j), Backup[j])
    BY DEF BackupIn
  <2>1. ListedIn(providers', j) = ListedIn(providers, j)
    BY <1>9 DEF ListedIn
  <2> DEFINE L == ListedIn(providers, j)
             f == [p \in Places |-> providers[p].avail]
             g == [p \in Places |-> providers'[p].avail]
             h == [p \in Places |-> providers[p].size]
             k == [p \in Places |-> providers'[p].size]
  <2>2. IsFiniteSet(L) /\ L \in SUBSET Places
    BY PlacesFinite, FS_Subset DEF ListedIn
  <2>3. \A p \in Places : f[p] \in Nat /\ g[p] \in Int /\ t[p] \in Int /\ f[p] = g[p] + t[p]
    <3> SUFFICES ASSUME NEW p \in Places
                 PROVE  f[p] \in Nat /\ g[p] \in Int /\ t[p] \in Int /\ f[p] = g[p] + t[p]
      OBVIOUS
    <3>1. providers[p].avail \in Nat /\ t[p] \in Nat /\ providers'[p].avail = providers[p].avail - t[p]
      BY <1>5, <1>7, <1>9
    <3> QED
      BY <3>1
  <2>4. k = h
    BY <1>9
  <2>5. AvailIn(providers, j) = SumFunctionOnSet(f, L) /\ AvailIn(providers', j) = SumFunctionOnSet(g, L)
    BY <2>1 DEF AvailIn
  <2>6. CountIn(providers', j) = CountIn(providers, j)
    BY <2>1, <2>4 DEF CountIn
  <2>7. AvailIn(providers, j) >= Least(CountIn(providers, j), Backup[j])
    BY <1>4 DEF BackupIn
  <2>8. L = ListedIn(providers, j) /\ \A p \in Places : h[p] \in Nat
    BY <1>5
  <2>9. CountIn(providers, j) = SumFunctionOnSet(h, L)
    BY DEF CountIn
  <2> HIDE DEF f, g, h, k, L
  <2>10. SumFunctionOnSet(f, L) = SumFunctionOnSet(g, L) + SumFunctionOnSet(t, L)
    BY <2>2, <2>3, SumPlus
  <2>11. SumFunctionOnSet(g, L) \in Int /\ SumFunctionOnSet(f, L) \in Nat
    BY <2>2, <2>3, SumRemoves, SumNatural
  <2>12. SumFunctionOnSet(h, L) \in Nat /\ Backup[j] \in Nat
    BY <2>2, <2>8, SumNatural, ItemsAssumption
  <2>13. CASE j = i
    <3>1. \A p \in Places \ L : t[p] = 0
      BY <1>6, <1>7, <2>8, <2>13
    <3>2. SumFunctionOnSet(t, L) = SumFunctionOnSet(t, Places)
      BY <2>2, <2>3, <3>1, PlacesFinite, SumWithin
    <3>3. n <= GetAvail(i, FALSE)
      <4>1. (i \in BackupUsers) = FALSE
        BY <2>13
      <4> QED
        BY <1>2, <4>1
    <3>4. n <= IF AvailIn(providers, i) > Backup[i] THEN AvailIn(providers, i) - Backup[i] ELSE 0
      BY <3>3, SumsAre DEF GetAvail
    <3>5. AvailIn(providers, j) = SumFunctionOnSet(g, L) + n
      BY <1>6, <2>5, <2>10, <3>2
    <3>6. n <= IF AvailIn(providers, j) > Backup[j] THEN AvailIn(providers, j) - Backup[j] ELSE 0
      BY <2>13, <3>4
    <3>7. AvailIn(providers, j) \in Nat
      BY <2>5, <2>11
    <3>8. SumFunctionOnSet(g, L) >= Backup[j]
      BY <1>5, <2>11, <2>12, <3>5, <3>6, <3>7
    <3> QED
      BY <2>5, <2>6, <2>9, <2>11, <2>12, <3>8 DEF Least
  <2>14. CASE j # i
    <3>1. \A p \in L : t[p] = 0
      <4> SUFFICES ASSUME NEW p \in L PROVE t[p] = 0
        OBVIOUS
      <4>1. p \in Places /\ providers[p].item = j
        BY <2>8 DEF ListedIn
      <4>2. p \notin ListedIn(providers, i)
        BY <2>14, <4>1 DEF ListedIn
      <4> QED
        BY <1>6, <1>7, <4>1, <4>2
    <3>2. SumFunctionOnSet(t, L) = 0
      BY <2>2, <3>1, SumOfZeros
    <3>3. SumFunctionOnSet(f, L) = SumFunctionOnSet(g, L)
      BY <2>10, <2>11, <3>2
    <3> QED
      BY <2>5, <2>6, <2>7, <3>3
  <2> QED
    BY <2>13, <2>14
<1> QED
  BY <1>12, <1>13, <1>14, <1>15, <1>16, <1>17, <1>18, InvPartsNext

\* The machine takes what is in a slot, or puts its product there.
LEMMA ProcessInv == ASSUME Inv, NEW b \in BusSlots, Process(b) PROVE Inv'
<1>1. /\ use[b] = "loading" /\ (\A x \in transfers : x.slot # b)
      /\ UNCHANGED <<running, content, providers, transfers, reserved, stored>>
  BY DEF Process
<1>2. PICK stack \in SlotStacks, stage \in {"free", "left"} :
        bus' = [bus EXCEPT ![b] = stack] /\ use' = [use EXCEPT ![b] = stage]
  BY StackFacts, StoragesAssumption DEF Process
<1>3. TypeOK /\ StagesOK
  BY DEF Inv
<1>4. /\ SlotsIn(use, providers, reserved, transfers, bus)
      /\ running => /\ ItemsIn(content, providers, reserved, transfers)
                    /\ CoversIn(content, stored, transfers)
                    /\ KeptIn(providers, reserved, transfers, stored)
                    /\ BackupIn(providers)
  BY InvParts
<1>5. TypeOK'
  <2>1. bus' \in [BusSlots -> SlotStacks]
    BY <1>2, <1>3 DEF TypeOK
  <2>2. use' \in [BusSlots -> {"free", "waiting", "loading", "failed", "left", "inserting"}]
    BY <1>2, <1>3 DEF TypeOK
  <2> QED
    BY <1>1, <1>3, <2>1, <2>2 DEF TypeOK
<1>6. \A c \in BusSlots : c # b => bus'[c] = bus[c] /\ use'[c] = use[c]
  BY <1>2, <1>3 DEF TypeOK
<1>7. use'[b] = stage /\ \A x \in transfers : x.slot \in BusSlots /\ x.slot # b
  BY <1>1, <1>2, <1>3 DEF TypeOK, Transfers
<1>8. StagesOK'
  BY <1>1, <1>3, <1>6, <1>7 DEF StagesOK
<1>9. SlotsIn(use', providers', reserved', transfers', bus')
  <2>1. ASSUME NEW c \in BusSlots, use'[c] \in {"waiting", "loading", "failed"}
        PROVE  \E j \in Items : FitsIn(providers', reserved', transfers', bus', c, j)
    <3>1. c # b
      BY <1>7, <2>1
    <3>2. PICK j \in Items : FitsIn(providers, reserved, transfers, bus, c, j)
      BY <1>4, <1>6, <2>1, <3>1 DEF SlotsIn
    <3>3. FitsIn(providers', reserved', transfers', bus', c, j)
      BY <1>1, <1>6, <3>1, <3>2 DEF FitsIn
    <3> QED
      BY <3>3
  <2> QED
    BY <1>1, <1>4, <1>6, <1>7, <2>1 DEF SlotsIn
<1> QED
  BY <1>1, <1>4, <1>5, <1>8, <1>9, InvPartsNext

\* Fewer transfers need no more room.
LEMMA FitsStill ==
    ASSUME NEW r \in [BusSlots -> [Places -> Nat]], NEW T \in SUBSET Transfers, IsFiniteSet(T),
           NEW U \in SUBSET T, NEW pr, NEW bs \in [BusSlots -> SlotStacks], NEW b \in BusSlots,
           NEW i \in Items, FitsIn(pr, r, T, bs, b, i)
    PROVE  FitsIn(pr, r, U, bs, b, i)
<1>1. IsFiniteSet(U) /\ U \in SUBSET Transfers
  BY FS_Subset
<1>2. ASSUME NEW p \in Places PROVE r[b][p] + SizeOf(ComingIn(U, b, p)) <= r[b][p] + SizeOf(ComingIn(T, b, p))
  <2> DEFINE S == ComingIn(T, b, p)
             V == ComingIn(U, b, p)
  <2>1. S \in SUBSET Transfers /\ IsFiniteSet(S) /\ V \in SUBSET S
    BY FS_Subset DEF ComingIn
  <2> HIDE DEF S, V
  <2>2. SizeOf(V) <= SizeOf(S) /\ SizeOf(V) \in Nat /\ SizeOf(S) \in Nat
    BY <2>1, SizeOfPart, SizeFacts
  <2>3. r[b][p] \in Nat
    OBVIOUS
  <2> QED
    BY <2>2, <2>3 DEF S, V
<1>3. PendingIn(r, U, b) <= PendingIn(r, T, b)
  BY <1>1, <1>2, PendingGrows
<1>4. PendingIn(r, U, b) \in Nat /\ PendingIn(r, T, b) \in Nat
  BY <1>1, PendingFacts
<1>5. bs[b].size \in Nat /\ MaxSize[i] \in Nat /\ bs[b].size + PendingIn(r, T, b) <= MaxSize[i]
  BY StackFacts DEF FitsIn
<1>6. bs[b].size + PendingIn(r, U, b) <= MaxSize[i]
  BY <1>3, <1>4, <1>5
<1> QED
  BY <1>6 DEF FitsIn

\* A transfer is answered.
LEMMA AnswerInv == ASSUME Inv, NEW x \in transfers, Answer(x) PROVE Inv'
<1> DEFINE others == {y \in transfers \ {x} : y.slot = x.slot}
           b == x.slot
           p == x.place
           T == transfers \ {x}
<1>1. PICK ok \in {FALSE, x.executed} :
        /\ transfers' = transfers \ {x}
        /\ content' = IF ok /\ x.kind = "extract" THEN Debited(content, x) ELSE content
        /\ use' = [use EXCEPT ![x.slot] =
             IF x.kind = "sink"
             THEN IF others # {} THEN @ ELSE IF bus[x.slot] = Empty THEN "free" ELSE "left"
             ELSE IF (~ok \/ @ = "failed") /\ others = {} THEN "left" ELSE IF ok THEN @ ELSE "failed"]
        /\ UNCHANGED <<running, providers, reserved, bus, stored>>
  BY DEF Answer
<1>2. TypeOK /\ StagesOK
  BY DEF Inv
<1>3. /\ reserved \in [BusSlots -> [Places -> Nat]] /\ bus \in [BusSlots -> SlotStacks]
      /\ transfers \in SUBSET Transfers /\ IsFiniteSet(transfers)
      /\ use \in [BusSlots -> {"free", "waiting", "loading", "failed", "left", "inserting"}]
      /\ content \in [ChestPlaces -> SlotStacks]
      /\ providers \in [Places -> [item : Items \cup {NoItem}, size : Nat, avail : Nat]]
  BY <1>2 DEF TypeOK
<1>4. /\ b \in BusSlots /\ p \in Places /\ x.kind \in {"sink", "extract"} /\ x.executed \in BOOLEAN
      /\ x.size \in Nat \ {0} /\ x \in Transfers
  BY <1>3 DEF Transfers
<1>5. /\ use[b] \in IF x.kind = "sink" THEN {"inserting"} ELSE {"loading", "failed"}
      /\ running
  <2>1. use[b] \in IF x.kind = "sink" THEN {"inserting"} ELSE {"loading", "failed"}
    BY <1>2 DEF StagesOK
  <2> QED
    BY <1>2, <1>4, <2>1 DEF StagesOK
<1>6. /\ SlotsIn(use, providers, reserved, transfers, bus)
      /\ ItemsIn(content, providers, reserved, transfers)
      /\ CoversIn(content, stored, transfers)
      /\ KeptIn(providers, reserved, transfers, stored)
      /\ BackupIn(providers)
  BY <1>5, InvParts
<1>7. T \in SUBSET Transfers /\ IsFiniteSet(T) /\ transfers' = T /\ T \in SUBSET transfers
  BY <1>1, <1>3, FS_Subset
\* What the stages become.
<1>8. \A c \in BusSlots \ {b} : use'[c] = use[c]
  BY <1>1, <1>3, <1>4
<1>9. /\ x.kind = "sink" => use'[b] \in {"inserting", "free", "left"} /\ (others # {} => use'[b] = "inserting")
      /\ x.kind = "extract" => /\ use'[b] \in {"loading", "failed", "left"}
                               /\ others # {} => use'[b] \in {"loading", "failed"}
  <2>1. use'[b] = IF x.kind = "sink"
                  THEN IF others # {} THEN use[b] ELSE IF bus[b] = Empty THEN "free" ELSE "left"
                  ELSE IF (~ok \/ use[b] = "failed") /\ others = {} THEN "left" ELSE IF ok THEN use[b] ELSE "failed"
    BY <1>1, <1>3, <1>4
  <2> HIDE DEF others
  <2>2. CASE x.kind = "sink"
    BY <1>5, <2>1, <2>2
  <2>3. CASE x.kind = "extract"
    BY <1>5, <2>1, <2>3
  <2> QED
    BY <1>4, <2>2, <2>3
<1>10. StagesOK'
  <2>1. \A c \in BusSlots : use'[c] # "waiting" => reserved'[c] = Nothing
    <3>1. reserved[b] = Nothing
      BY <1>2, <1>4, <1>5 DEF StagesOK
    <3> QED
      BY <1>1, <1>2, <1>8, <3>1 DEF StagesOK
  <2>2. ASSUME NEW y \in T
        PROVE  use'[y.slot] \in IF y.kind = "sink" THEN {"inserting"} ELSE {"loading", "failed"}
    <3>1. /\ y.slot \in BusSlots /\ y.kind \in {"sink", "extract"}
          /\ use[y.slot] \in IF y.kind = "sink" THEN {"inserting"} ELSE {"loading", "failed"}
      BY <1>2, <1>7 DEF StagesOK, Transfers
    <3>2. CASE y.slot # b
      BY <1>8, <3>1, <3>2
    <3>3. CASE y.slot = b
      <4>1. others # {}
        BY <3>3
      <4> HIDE DEF others
      <4>2. y.kind = x.kind
        BY <1>4, <1>5, <3>1, <3>3
      <4> QED
        BY <1>4, <1>9, <3>3, <4>1, <4>2
    <3> QED
      BY <3>2, <3>3
  <2> QED
    BY <1>1, <1>2, <1>5, <1>7, <2>1, <2>2 DEF StagesOK
<1> HIDE DEF others
\* What the sums become.
<1>11. \A q \in Places :
         /\ Arriving(T, q) <= Arriving(transfers, q)
         /\ Leaving(T, q) <= Leaving(transfers, q)
         /\ Gone(T, q) <= Gone(transfers, q)
         /\ Arriving(T, q) \in Nat /\ Leaving(T, q) \in Nat /\ Gone(T, q) \in Nat
         /\ Arriving(transfers, q) \in Nat /\ Leaving(transfers, q) \in Nat /\ Gone(transfers, q) \in Nat
  <2>1. \A q \in Places :
          /\ Arriving(T, q) \in Nat /\ Leaving(T, q) \in Nat /\ Gone(T, q) \in Nat
          /\ Arriving(transfers, q) \in Nat /\ Leaving(transfers, q) \in Nat /\ Gone(transfers, q) \in Nat
    BY <1>3, <1>7, TotalType
  <2>2. ASSUME NEW F PROVE SizeOf(T \cap F) <= SizeOf(transfers \cap F)
    <3>1. /\ SizeOf(transfers \cap F) \in Nat /\ SizeOf(T \cap F) \in Nat
          /\ x \in F => SizeOf(T \cap F) = SizeOf(transfers \cap F) - x.size
          /\ x \notin F => SizeOf(T \cap F) = SizeOf(transfers \cap F)
      BY <1>3, PartRemove
    <3> QED
      BY <1>4, <3>1
  <2>3. ASSUME NEW q \in Places
        PROVE  /\ Arriving(T, q) <= Arriving(transfers, q)
               /\ Leaving(T, q) <= Leaving(transfers, q)
               /\ Gone(T, q) <= Gone(transfers, q)
    <3>1. /\ Arriving(T, q) = SizeOf(T \cap SinksTo(q))
          /\ Leaving(T, q) = SizeOf(T \cap TakesFrom(q))
          /\ Gone(T, q) = SizeOf(T \cap TookFrom(q))
      BY <1>7, Where
    <3>2. /\ Arriving(transfers, q) = SizeOf(transfers \cap SinksTo(q))
          /\ Leaving(transfers, q) = SizeOf(transfers \cap TakesFrom(q))
          /\ Gone(transfers, q) = SizeOf(transfers \cap TookFrom(q))
      BY <1>3, Where
    <3> QED
      BY <2>2, <3>1, <3>2
  <2> QED
    BY <2>1, <2>3
<1>12. x.kind = "extract" /\ x.executed => Gone(T, p) = Gone(transfers, p) - x.size
  <2> SUFFICES ASSUME x.kind = "extract", x.executed PROVE Gone(T, p) = Gone(transfers, p) - x.size
    OBVIOUS
  <2>1. x \in TookFrom(p)
    BY <1>4 DEF TookFrom
  <2>2. SizeOf(T \cap TookFrom(p)) = SizeOf(transfers \cap TookFrom(p)) - x.size
    <3> DEFINE F == TookFrom(p)
    <3> HIDE DEF F
    <3>1. /\ SizeOf(transfers \cap F) \in Nat /\ SizeOf(T \cap F) \in Nat
          /\ x \in F => SizeOf(T \cap F) = SizeOf(transfers \cap F) - x.size
          /\ x \notin F => SizeOf(T \cap F) = SizeOf(transfers \cap F)
      BY <1>3, PartRemove
    <3> QED
      BY <2>1, <3>1 DEF F
  <2>3. Gone(T, p) = SizeOf(T \cap TookFrom(p)) /\ Gone(transfers, p) = SizeOf(transfers \cap TookFrom(p))
    BY <1>3, <1>7, Where
  <2> QED
    BY <2>2, <2>3
<1>13. \A q \in Places : stored[q].size \in Nat
  BY <1>2, StackFacts, PlacesFinite DEF TypeOK
<1>14. \A q \in Places : HeldIn(stored, T, q) <= HeldIn(stored, transfers, q)
                         /\ HeldIn(stored, T, q) \in Nat /\ HeldIn(stored, transfers, q) \in Nat
  <2> SUFFICES ASSUME NEW q \in Places
               PROVE  /\ HeldIn(stored, T, q) <= HeldIn(stored, transfers, q)
                      /\ HeldIn(stored, T, q) \in Nat /\ HeldIn(stored, transfers, q) \in Nat
    OBVIOUS
  <2>1. /\ Arriving(T, q) <= Arriving(transfers, q) /\ Gone(T, q) <= Gone(transfers, q)
        /\ Arriving(T, q) \in Nat /\ Gone(T, q) \in Nat
        /\ Arriving(transfers, q) \in Nat /\ Gone(transfers, q) \in Nat
        /\ stored[q].size \in Nat
    BY <1>11, <1>13
  <2> QED
    BY <2>1 DEF HeldIn
\* The account is debited.
<1>15. \A q \in ChestPlaces :
         /\ content'[q] \in SlotStacks
         /\ HeldIn(stored, T, q) > 0 => /\ HeldIn(stored, T, q) <= content'[q].size
                                        /\ content'[q].item = content[q].item
  <2> SUFFICES ASSUME NEW q \in ChestPlaces
               PROVE  /\ content'[q] \in SlotStacks
                      /\ HeldIn(stored, T, q) > 0 => /\ HeldIn(stored, T, q) <= content'[q].size
                                                     /\ content'[q].item = content[q].item
    OBVIOUS
  <2>1. q \in Places /\ content[q] \in SlotStacks /\ content[q].size \in Nat
    BY <1>3, PlacesFinite, StackFacts
  <2>2. HeldIn(stored, transfers, q) > 0 => HeldIn(stored, transfers, q) <= content[q].size
    BY <1>6 DEF CoversIn
  <2>3. CASE content'[q] = content[q]
    BY <1>14, <2>1, <2>2, <2>3
  <2>4. CASE content'[q] # content[q]
    <3>1. /\ ok /\ x.kind = "extract" /\ p \in ChestPlaces /\ q = p
          /\ content'[q] = Taken(content[q], x.size)
      BY <1>1, <1>3, <2>4 DEF Debited
    <3>2. x.executed
      BY <1>1, <3>1
    <3>3. /\ Gone(T, q) = Gone(transfers, q) - x.size
          /\ x.size <= Gone(transfers, q)
      BY <1>3, <1>12, <3>1, <3>2, TotalType
    <3>4. HeldIn(stored, T, q) = HeldIn(stored, transfers, q) - x.size
      <4>1. Arriving(T, q) = Arriving(transfers, q)
        <5>1. x \notin SinksTo(q)
          BY <3>1 DEF SinksTo
        <5>2. SizeOf(T \cap SinksTo(q)) = SizeOf(transfers \cap SinksTo(q))
          <6> DEFINE F == SinksTo(q)
          <6> HIDE DEF F
          <6>1. /\ SizeOf(transfers \cap F) \in Nat /\ SizeOf(T \cap F) \in Nat
                /\ x \in F => SizeOf(T \cap F) = SizeOf(transfers \cap F) - x.size
                /\ x \notin F => SizeOf(T \cap F) = SizeOf(transfers \cap F)
            BY <1>3, PartRemove
          <6> QED
            BY <5>1, <6>1 DEF F
        <5>3. /\ Arriving(T, q) = SizeOf(T \cap SinksTo(q))
              /\ Arriving(transfers, q) = SizeOf(transfers \cap SinksTo(q))
          BY <1>3, <1>7, Where
        <5> QED
          BY <5>2, <5>3
      <4>2. /\ Arriving(transfers, q) \in Nat /\ Gone(transfers, q) \in Nat /\ stored[q].size \in Nat
        BY <1>11, <1>13, <2>1
      <4> QED
        BY <1>4, <3>3, <4>1, <4>2 DEF HeldIn
    <3>5. x.size <= HeldIn(stored, transfers, q)
      BY <1>4, <1>11, <1>13, <2>1, <3>3 DEF HeldIn
    <3>6. HeldIn(stored, transfers, q) \in Nat
      BY <1>14, <2>1
    <3>7. x.size <= content[q].size /\ HeldIn(stored, transfers, q) <= content[q].size
      BY <1>4, <2>1, <2>2, <3>5, <3>6
    <3>8. content[q].item \in Items /\ content[q].size <= MaxSize[content[q].item]
      BY <1>4, <2>1, <3>7, StackFacts
    <3>9. content[q].size - x.size \in 0 .. MaxSize[content[q].item]
      BY <1>4, <2>1, <3>7, <3>8, StackFacts
    <3>10. content'[q] \in SlotStacks /\ content'[q].size = content[q].size - x.size
      BY <3>1, <3>8, <3>9, StackFacts DEF Taken
    <3>11. HeldIn(stored, T, q) > 0 => content[q].size - x.size # 0
      BY <1>4, <2>1, <3>4, <3>6, <3>7
    <3>12. HeldIn(stored, T, q) > 0 => content'[q].item = content[q].item
      BY <3>1, <3>11, StackFacts DEF Taken
    <3>13. HeldIn(stored, T, q) <= content'[q].size
      BY <1>4, <2>1, <3>4, <3>6, <3>7, <3>10
    <3> QED
      BY <3>10, <3>12, <3>13
  <2> QED
    BY <2>3, <2>4
<1>16. TypeOK'
  <2>1. content' \in [ChestPlaces -> SlotStacks]
    <3>1. DOMAIN content' = ChestPlaces /\ content' = [q \in ChestPlaces |-> content'[q]]
      BY <1>1, <1>3 DEF Debited
    <3> QED
      BY <1>15, <3>1
  <2>2. use' \in [BusSlots -> {"free", "waiting", "loading", "failed", "left", "inserting"}]
    BY <1>1, <1>3
  <2> QED
    BY <1>1, <1>2, <1>7, <2>1, <2>2 DEF TypeOK
<1>17. CoversIn(content', stored', transfers')
  <2> SUFFICES ASSUME NEW q \in ChestPlaces, HeldIn(stored, T, q) > 0
               PROVE  /\ HeldIn(stored, T, q) <= content'[q].size
                      /\ stored[q] # Empty => stored[q].item = content'[q].item
    BY <1>1, <1>7 DEF CoversIn
  <2>1. HeldIn(stored, transfers, q) > 0
    BY <1>14, PlacesFinite
  <2> QED
    BY <1>6, <1>15, <2>1 DEF CoversIn
<1>18. KeptIn(providers', reserved', transfers', stored')
  <2> SUFFICES ASSUME NEW q \in Places
               PROVE  providers[q].avail + PromisedIn(reserved, q) + Leaving(T, q) <= stored[q].size
    BY <1>1, <1>7 DEF KeptIn
  <2>1. providers[q].avail + PromisedIn(reserved, q) + Leaving(transfers, q) <= stored[q].size
    BY <1>6 DEF KeptIn
  <2>2. /\ providers[q].avail \in Nat /\ PromisedIn(reserved, q) \in Nat /\ stored[q].size \in Nat
        /\ Leaving(T, q) <= Leaving(transfers, q) /\ Leaving(T, q) \in Nat /\ Leaving(transfers, q) \in Nat
    BY <1>3, <1>11, <1>13, PromisedFacts
  <2> QED
    BY <2>1, <2>2
<1>19. ItemsIn(content', providers', reserved', transfers')
  <2>1. ASSUME NEW q \in Places, ClaimedIn(providers, reserved, T, q) > 0
        PROVE  providers[q].item = IF q \in ChestPlaces THEN content'[q].item ELSE q[2]
    <3>1. /\ providers[q].avail \in Nat /\ PromisedIn(reserved, q) \in Nat /\ stored[q].size \in Nat
      BY <1>3, <1>13, PromisedFacts
    <3>2. /\ Leaving(T, q) <= Leaving(transfers, q) /\ Leaving(T, q) \in Nat /\ Leaving(transfers, q) \in Nat
          /\ Gone(T, q) <= Gone(transfers, q) /\ Gone(T, q) \in Nat /\ Gone(transfers, q) \in Nat
          /\ Arriving(T, q) \in Nat
      BY <1>11
    <3>3. ClaimedIn(providers, reserved, transfers, q) > 0
      BY <2>1, <3>1, <3>2 DEF ClaimedIn
    <3>4. providers[q].item = IF q \in ChestPlaces THEN content[q].item ELSE q[2]
      BY <1>6, <3>3 DEF ItemsIn
    <3>5. providers[q].avail + PromisedIn(reserved, q) + Leaving(transfers, q) <= stored[q].size
      BY <1>6 DEF KeptIn
    <3>6. HeldIn(stored, T, q) > 0
      BY <2>1, <3>1, <3>2, <3>5 DEF ClaimedIn, HeldIn
    <3> QED
      BY <1>15, <3>4, <3>6
  <2>2. ASSUME NEW y \in T
        PROVE  /\ y.kind = "extract" => y.item = providers[y.place].item
               /\ y.kind = "sink" /\ y.place \notin ChestPlaces => y.item = y.place[2]
               /\ y.kind = "sink" /\ y.place \in ChestPlaces /\ ~y.executed => y.item = content'[y.place].item
    <3>1. y \in transfers
      BY <1>7
    <3>2. ASSUME y.kind = "sink", y.place \in ChestPlaces, ~y.executed
          PROVE  content'[y.place].item = content[y.place].item
      <4>1. y.size \in Nat \ {0} /\ y.size <= Arriving(T, y.place)
        BY <1>7, <3>2, TotalType
      <4>2. /\ y.place \in Places /\ Arriving(T, y.place) \in Nat /\ Gone(T, y.place) \in Nat
            /\ stored[y.place].size \in Nat
        BY <1>11, <1>13, <3>2, PlacesFinite
      <4>3. HeldIn(stored, T, y.place) > 0
        BY <4>1, <4>2 DEF HeldIn
      <4> QED
        BY <1>15, <3>2, <4>3
    <3> QED
      BY <1>6, <3>1, <3>2 DEF ItemsIn
  <2> QED
    BY <1>1, <1>7, <2>1, <2>2 DEF ItemsIn
<1>20. SlotsIn(use', providers', reserved', transfers', bus')
  <2>1. ASSUME NEW c \in BusSlots, use'[c] \in {"waiting", "loading", "failed"}
        PROVE  \E j \in Items : FitsIn(providers, reserved, T, bus, c, j)
    <3>1. use[c] \in {"waiting", "loading", "failed"}
      BY <1>4, <1>5, <1>8, <1>9, <2>1
    <3>2. PICK j \in Items : FitsIn(providers, reserved, transfers, bus, c, j)
      BY <1>6, <3>1 DEF SlotsIn
    <3>3. FitsIn(providers, reserved, T, bus, c, j)
      BY <1>3, <1>7, <3>2, FitsStill
    <3> QED
      BY <3>3
  <2>2. \A y \in T : y.kind = "sink" /\ bus[y.slot] # Empty => bus[y.slot].item = y.item
    BY <1>6, <1>7 DEF SlotsIn
  <2> QED
    BY <1>1, <1>7, <2>1, <2>2 DEF SlotsIn
<1> QED
  BY <1>1, <1>6, <1>10, <1>16, <1>17, <1>18, <1>19, <1>20, InvPartsNext

\* A slot is granted, and the transfers that load it are sent.
LEMMA ExtractInv == ASSUME Inv, NEW b \in BusSlots, Extract(b) PROVE Inv'
<1> DEFINE D == {q \in Places : reserved[b][q] > 0}
           new == {Transfer("extract", b, p, providers[p].item, reserved[b][p]) : p \in D}
<1>1. /\ use[b] = "waiting" /\ use' = [use EXCEPT ![b] = "loading"]
      /\ transfers' = transfers \cup new
      /\ reserved' = [reserved EXCEPT ![b] = Nothing]
      /\ UNCHANGED <<running, content, providers, bus, stored>>
  BY DEF Extract
<1>2. TypeOK /\ StagesOK
  BY DEF Inv
<1>3. /\ reserved \in [BusSlots -> [Places -> Nat]] /\ bus \in [BusSlots -> SlotStacks]
      /\ transfers \in SUBSET Transfers /\ IsFiniteSet(transfers)
      /\ use \in [BusSlots -> {"free", "waiting", "loading", "failed", "left", "inserting"}]
      /\ providers \in [Places -> [item : Items \cup {NoItem}, size : Nat, avail : Nat]]
  BY <1>2 DEF TypeOK
<1>4. running
  BY <1>1, <1>2 DEF StagesOK
<1>5. /\ SlotsIn(use, providers, reserved, transfers, bus)
      /\ ItemsIn(content, providers, reserved, transfers)
      /\ CoversIn(content, stored, transfers)
      /\ KeptIn(providers, reserved, transfers, stored)
      /\ BackupIn(providers)
  BY <1>4, InvParts
<1>6. PICK i \in Items : FitsIn(providers, reserved, transfers, bus, b, i)
  BY <1>1, <1>5 DEF SlotsIn
<1> DEFINE load(p) == Transfer("extract", b, p, i, reserved[b][p])
<1>7. \A p \in D : p \in Places /\ providers[p].item = i /\ reserved[b][p] \in Nat \ {0}
  BY <1>3, <1>6 DEF FitsIn
<1>8. new = {load(p) : p \in D}
  BY <1>7
<1>9. \A p \in D : /\ load(p) \in Transfers /\ load(p).kind = "extract" /\ load(p).slot = b
                   /\ load(p).place = p /\ load(p).item = i /\ load(p).size = reserved[b][p]
                   /\ load(p).executed = FALSE
  <2> SUFFICES ASSUME NEW p \in D PROVE load(p) \in Transfers
    BY DEF Transfer
  <2> QED
    BY <1>7 DEF Transfer, Transfers
<1>10. IsFiniteSet(new) /\ new \in SUBSET Transfers
  <2>1. IsFiniteSet(D)
    BY PlacesFinite, FS_Subset
  <2> DEFINE f == [p \in D |-> load(p)]
  <2>2. f \in Surjection(D, new)
    BY <1>8 DEF Surjection
  <2> HIDE DEF f, new, D
  <2>3. IsFiniteSet(new)
    BY <2>1, <2>2, FS_Surjection
  <2> QED
    BY <1>8, <1>9, <2>3
<1>11. \A y \in new : /\ y.kind = "extract" /\ y.slot = b /\ y.place \in D /\ y.item = i
                      /\ y.size = reserved[b][y.place] /\ y.executed = FALSE
                      /\ y = load(y.place)
  BY <1>8, <1>9
<1>12. \A p \in D : load(p) \in new
  BY <1>8
<1>13. \A x \in transfers : x.slot # b
  <2> SUFFICES ASSUME NEW x \in transfers, x.slot = b PROVE FALSE
    OBVIOUS
  <2>1. use[x.slot] \in IF x.kind = "sink" THEN {"inserting"} ELSE {"loading", "failed"}
    BY <1>2 DEF StagesOK
  <2> QED
    BY <1>1, <2>1
<1>14. transfers \cap new = {}
  BY <1>11, <1>13
<1> DEFINE T == transfers \cup new
<1>15. T \in SUBSET Transfers /\ IsFiniteSet(T) /\ transfers' = T
  BY <1>1, <1>3, <1>10, FS_Union
<1> HIDE DEF new, load
<1>30. ASSUME NEW F
       PROVE  /\ SizeOf(transfers \cap F) \in Nat /\ SizeOf(new \cap F) \in Nat
              /\ SizeOf(T \cap F) = SizeOf(transfers \cap F) + SizeOf(new \cap F)
  <2> DEFINE P == transfers \cap F
             Q == new \cap F
  <2>1. P \in SUBSET Transfers /\ IsFiniteSet(P) /\ Q \in SUBSET Transfers /\ IsFiniteSet(Q)
    BY <1>3, <1>10, FS_Subset
  <2>2. T \cap F = P \cup Q /\ P \cap Q = {}
    BY <1>14
  <2> HIDE DEF P, Q, T, D
  <2>3. SizeOf(P \cup Q) = SizeOf(P) + SizeOf(Q)
    BY <2>1, <2>2, SizeUnion
  <2>4. SizeOf(P) \in Nat /\ SizeOf(Q) \in Nat
    BY <2>1, SizeFacts
  <2> QED
    BY <2>2, <2>3, <2>4 DEF P, Q
\* What of the new transfers is to come.
<1>16. ASSUME NEW p \in Places, NEW F,
              \A y \in new : y \in F <=> y.place = p
       PROVE  SizeOf(new \cap F) = reserved[b][p]
  <2>1. reserved[b][p] \in Nat
    BY <1>3
  <2>2. CASE p \in D
    <3>1. new \cap F = {load(p)}
      <4>1. load(p) \in new \cap F
        BY <1>9, <1>12, <1>16, <2>2
      <4>2. \A y \in new \cap F : y = load(p)
        BY <1>11, <1>16
      <4> QED
        BY <4>1, <4>2
    <3>2. SizeOf({load(p)}) = load(p).size
      <4>1. load(p) \in Transfers
        BY <1>9, <2>2
      <4> QED
        BY <4>1, FS_EmptySet, SizeAdd
    <3> QED
      BY <1>9, <2>2, <3>1, <3>2
  <2>3. CASE p \notin D
    <3>1. new \cap F = {}
      BY <1>11, <1>16, <2>3
    <3>2. SizeOf({}) = 0
      BY SumEmpty DEF SizeOf
    <3>3. reserved[b][p] = 0
      BY <2>1, <2>3
    <3>4. SizeOf(new \cap F) = 0
      BY <3>1, <3>2
    <3> QED
      BY <3>3, <3>4
  <2> QED
    BY <2>2, <2>3
<1>17. ASSUME NEW F, \A y \in new : y \notin F PROVE SizeOf(new \cap F) = 0
  <2>1. new \cap F = {}
    BY <1>17
  <2>2. SizeOf({}) = 0
    BY SumEmpty DEF SizeOf
  <2> QED
    BY <2>1, <2>2
<1>18. ASSUME NEW p \in Places
       PROVE  /\ Arriving(T, p) = Arriving(transfers, p) /\ Gone(T, p) = Gone(transfers, p)
              /\ Leaving(T, p) = Leaving(transfers, p) + reserved[b][p]
  <2>1. /\ SizeOf(T \cap SinksTo(p)) = SizeOf(transfers \cap SinksTo(p)) + SizeOf(new \cap SinksTo(p))
        /\ SizeOf(transfers \cap SinksTo(p)) \in Nat
    BY <1>30
  <2>2. /\ SizeOf(T \cap TookFrom(p)) = SizeOf(transfers \cap TookFrom(p)) + SizeOf(new \cap TookFrom(p))
        /\ SizeOf(transfers \cap TookFrom(p)) \in Nat
    BY <1>30
  <2>3. SizeOf(T \cap TakesFrom(p)) = SizeOf(transfers \cap TakesFrom(p)) + SizeOf(new \cap TakesFrom(p))
    BY <1>30
  <2>4. SizeOf(new \cap SinksTo(p)) = 0
    <3>1. \A y \in new : y \notin SinksTo(p)
      BY <1>11 DEF SinksTo
    <3> QED
      BY <1>17, <3>1
  <2>5. SizeOf(new \cap TookFrom(p)) = 0
    <3>1. \A y \in new : y \notin TookFrom(p)
      BY <1>11 DEF TookFrom
    <3> QED
      BY <1>17, <3>1
  <2>6. SizeOf(new \cap TakesFrom(p)) = reserved[b][p]
    <3>1. \A y \in new : y \in TakesFrom(p) <=> y.place = p
      BY <1>10, <1>11 DEF TakesFrom
    <3> QED
      BY <1>16, <3>1
  <2>7. /\ Arriving(T, p) = SizeOf(T \cap SinksTo(p)) /\ Gone(T, p) = SizeOf(T \cap TookFrom(p))
        /\ Leaving(T, p) = SizeOf(T \cap TakesFrom(p))
    BY <1>15, Where
  <2>8. /\ Arriving(transfers, p) = SizeOf(transfers \cap SinksTo(p))
        /\ Gone(transfers, p) = SizeOf(transfers \cap TookFrom(p))
        /\ Leaving(transfers, p) = SizeOf(transfers \cap TakesFrom(p))
    BY <1>3, Where
  <2> QED
    BY <2>1, <2>2, <2>3, <2>4, <2>5, <2>6, <2>7, <2>8
<1>19. ASSUME NEW p \in Places PROVE PromisedIn(reserved', p) = PromisedIn(reserved, p) - reserved[b][p]
  <2>1. Nothing \in [Places -> Nat] /\ Nothing[p] = 0
    BY DEF Nothing
  <2>2. PromisedIn(reserved', p) = PromisedIn(reserved, p) + (Nothing[p] - reserved[b][p])
    BY <1>1, <1>3, <2>1, PromisedFacts
  <2>3. reserved[b][p] \in Nat /\ PromisedIn(reserved, p) \in Nat
    BY <1>3, PromisedFacts
  <2> QED
    BY <2>1, <2>2, <2>3
<1>20. reserved'[b] = Nothing /\ \A c \in BusSlots \ {b} : reserved'[c] = reserved[c]
  BY <1>1, <1>3
<1>21. use'[b] = "loading" /\ \A c \in BusSlots \ {b} : use'[c] = use[c]
  BY <1>1, <1>3
<1>22. reserved' \in [BusSlots -> [Places -> Nat]]
  BY <1>1, <1>3 DEF Nothing
<1>23. TypeOK'
  <2>1. use' \in [BusSlots -> {"free", "waiting", "loading", "failed", "left", "inserting"}]
    BY <1>1, <1>3
  <2> QED
    BY <1>1, <1>2, <1>15, <1>22, <2>1 DEF TypeOK
<1>24. StagesOK'
  <2>1. \A c \in BusSlots : use'[c] # "waiting" => reserved'[c] = Nothing
    BY <1>2, <1>20, <1>21 DEF StagesOK
  <2>2. ASSUME NEW x \in T
        PROVE  use'[x.slot] \in IF x.kind = "sink" THEN {"inserting"} ELSE {"loading", "failed"}
    <3>1. CASE x \in new
      BY <1>11, <1>21, <3>1
    <3>2. CASE x \in transfers
      <4>1. x.slot \in BusSlots \ {b}
        BY <1>3, <1>13, <3>2 DEF Transfers
      <4> QED
        BY <1>2, <1>21, <3>2, <4>1 DEF StagesOK
    <3> QED
      BY <3>1, <3>2
  <2>3. ASSUME NEW x \in T, NEW y \in T,
               x.kind = "extract" /\ y.kind = "extract" /\ x.slot = y.slot /\ x.place = y.place
        PROVE  x = y
    <3>1. CASE x \in new
      <4>1. y \in new
        BY <1>11, <1>13, <2>3, <3>1
      <4> QED
        BY <1>11, <2>3, <3>1, <4>1
    <3>2. CASE x \in transfers
      <4>1. y \in transfers
        BY <1>11, <1>13, <2>3, <3>2
      <4> QED
        BY <1>2, <2>3, <3>2, <4>1 DEF StagesOK
    <3> QED
      BY <3>1, <3>2
  <2>4. running'
    BY <1>1, <1>4
  <2> QED
    BY <1>15, <2>1, <2>2, <2>3, <2>4 DEF StagesOK
<1>25. \A p \in Places :
         /\ providers[p].avail \in Nat /\ PromisedIn(reserved, p) \in Nat /\ reserved[b][p] \in Nat
         /\ reserved[b][p] <= PromisedIn(reserved, p)
         /\ Leaving(transfers, p) \in Nat /\ Gone(transfers, p) \in Nat
  BY <1>3, PromisedFacts, TotalType
<1>26. CoversIn(content', stored', transfers')
  <2>1. \A p \in ChestPlaces : HeldIn(stored, T, p) = HeldIn(stored, transfers, p)
    BY <1>18, PlacesFinite DEF HeldIn
  <2> QED
    BY <1>1, <1>5, <1>15, <2>1 DEF CoversIn
<1>27. KeptIn(providers', reserved', transfers', stored')
  <2> SUFFICES ASSUME NEW p \in Places
               PROVE  providers[p].avail + PromisedIn(reserved', p) + Leaving(T, p) <= stored[p].size
    BY <1>1, <1>15 DEF KeptIn
  <2>1. providers[p].avail + PromisedIn(reserved, p) + Leaving(transfers, p) <= stored[p].size
    BY <1>5 DEF KeptIn
  <2>2. providers[p].avail + PromisedIn(reserved', p) + Leaving(T, p)
        = providers[p].avail + PromisedIn(reserved, p) + Leaving(transfers, p)
    <3>1. /\ PromisedIn(reserved', p) = PromisedIn(reserved, p) - reserved[b][p]
          /\ Leaving(T, p) = Leaving(transfers, p) + reserved[b][p]
      BY <1>18, <1>19
    <3>2. /\ providers[p].avail \in Nat /\ PromisedIn(reserved, p) \in Nat /\ reserved[b][p] \in Nat
          /\ Leaving(transfers, p) \in Nat
      BY <1>25
    <3> QED
      BY <3>1, <3>2
  <2> QED
    BY <2>1, <2>2
<1>28. ItemsIn(content', providers', reserved', transfers')
  <2>1. \A p \in Places : ClaimedIn(providers, reserved', T, p) = ClaimedIn(providers, reserved, transfers, p)
    <3> SUFFICES ASSUME NEW p \in Places
                 PROVE  ClaimedIn(providers, reserved', T, p) = ClaimedIn(providers, reserved, transfers, p)
      OBVIOUS
    <3>1. /\ PromisedIn(reserved', p) = PromisedIn(reserved, p) - reserved[b][p]
          /\ Leaving(T, p) = Leaving(transfers, p) + reserved[b][p] /\ Gone(T, p) = Gone(transfers, p)
      BY <1>18, <1>19
    <3> QED
      BY <1>25, <3>1 DEF ClaimedIn
  <2>2. ASSUME NEW x \in new PROVE x.kind = "extract" /\ x.item = providers[x.place].item
    BY <1>7, <1>11
  <2>3. \A x \in T :
          /\ x.kind = "extract" => x.item = providers[x.place].item
          /\ x.kind = "sink" /\ x.place \notin ChestPlaces => x.item = x.place[2]
          /\ x.kind = "sink" /\ x.place \in ChestPlaces /\ ~x.executed => x.item = content[x.place].item
    BY <1>5, <2>2 DEF ItemsIn
  <2> QED
    BY <1>1, <1>5, <1>15, <2>1, <2>3 DEF ItemsIn
<1>29. SlotsIn(use', providers', reserved', transfers', bus')
  <2>1. FitsIn(providers, reserved', T, bus, b, i)
    <3>1. ASSUME NEW p \in Places
          PROVE  reserved'[b][p] + SizeOf(ComingIn(T, b, p)) = reserved[b][p] + SizeOf(ComingIn(transfers, b, p))
      <4>1. /\ SizeOf(T \cap LoadsFrom(b, p))
               = SizeOf(transfers \cap LoadsFrom(b, p)) + SizeOf(new \cap LoadsFrom(b, p))
            /\ SizeOf(transfers \cap LoadsFrom(b, p)) \in Nat
        BY <1>30
      <4>2. \A y \in new : y \in LoadsFrom(b, p) <=> y.place = p
        BY <1>10, <1>11 DEF LoadsFrom
      <4>3. SizeOf(new \cap LoadsFrom(b, p)) = reserved[b][p]
        BY <1>16, <4>2
      <4>4. /\ ComingIn(T, b, p) = T \cap LoadsFrom(b, p)
            /\ ComingIn(transfers, b, p) = transfers \cap LoadsFrom(b, p)
        BY <1>3, <1>15, Where
      <4>5. reserved'[b][p] = 0 /\ reserved[b][p] \in Nat
        BY <1>20, <1>25 DEF Nothing
      <4>7. SizeOf(ComingIn(T, b, p)) = SizeOf(ComingIn(transfers, b, p)) + reserved[b][p]
        BY <4>1, <4>3, <4>4
      <4>8. SizeOf(ComingIn(transfers, b, p)) \in Nat
        BY <4>1, <4>4
      <4> QED
        BY <4>5, <4>7, <4>8
    <3>2. \A p \in Places : reserved'[b][p] + SizeOf(ComingIn(T, b, p))
                            <= reserved[b][p] + SizeOf(ComingIn(transfers, b, p))
      <4>1. \A p \in Places : reserved[b][p] + SizeOf(ComingIn(transfers, b, p)) \in Nat
        BY <1>3, <1>25, TotalType
      <4> SUFFICES ASSUME NEW p \in Places
                   PROVE  reserved'[b][p] + SizeOf(ComingIn(T, b, p))
                          <= reserved[b][p] + SizeOf(ComingIn(transfers, b, p))
        OBVIOUS
      <4>2. reserved'[b][p] + SizeOf(ComingIn(T, b, p)) = reserved[b][p] + SizeOf(ComingIn(transfers, b, p))
        BY <3>1
      <4>3. reserved[b][p] + SizeOf(ComingIn(transfers, b, p)) \in Nat
        BY <4>1
      <4> HIDE DEF D
      <4> QED
        BY <4>2, <4>3
    <3>3. PendingIn(reserved', T, b) <= PendingIn(reserved, transfers, b)
      BY <1>3, <1>15, <1>22, <3>2, PendingGrows
    <3>4. /\ PendingIn(reserved', T, b) \in Nat /\ PendingIn(reserved, transfers, b) \in Nat
          /\ bus[b].size \in Nat /\ MaxSize[i] \in Nat
      BY <1>3, <1>15, <1>22, PendingFacts, StackFacts
    <3>5. bus[b].size + PendingIn(reserved, transfers, b) <= MaxSize[i]
      BY <1>6 DEF FitsIn
    <3>6. bus[b].size + PendingIn(reserved', T, b) <= MaxSize[i]
      BY <3>3, <3>4, <3>5
    <3>7. \A p \in Places : ~(reserved'[b][p] > 0)
      BY <1>20 DEF Nothing
    <3>8. \A x \in T : x.kind = "extract" /\ x.slot = b => x.item = i
      BY <1>11, <1>13
    <3>9. bus[b] # Empty => bus[b].item = i
      BY <1>6 DEF FitsIn
    <3> QED
      BY <3>6, <3>7, <3>8, <3>9 DEF FitsIn
  <2>2. ASSUME NEW c \in BusSlots \ {b}, use'[c] \in {"waiting", "loading", "failed"}
        PROVE  \E j \in Items : FitsIn(providers, reserved', T, bus, c, j)
    <3>1. PICK j \in Items : FitsIn(providers, reserved, transfers, bus, c, j)
      BY <1>5, <1>21, <2>2 DEF SlotsIn
    <3>2. \A p : ComingIn(T, c, p) = ComingIn(transfers, c, p)
      BY <1>11 DEF ComingIn
    <3>3. PendingIn(reserved', T, c) = PendingIn(reserved, transfers, c)
      BY <1>20, <3>2 DEF PendingIn
    <3>4. \A x \in T : x.kind = "extract" /\ x.slot = c => x.item = j
      BY <1>11, <3>1 DEF FitsIn
    <3>5. FitsIn(providers, reserved', T, bus, c, j)
      BY <1>20, <3>1, <3>3, <3>4 DEF FitsIn
    <3> QED
      BY <3>5
  <2>3. \A x \in T : x.kind = "sink" /\ bus[x.slot] # Empty => bus[x.slot].item = x.item
    BY <1>5, <1>11 DEF SlotsIn
  <2> QED
    BY <1>1, <1>15, <2>1, <2>2, <2>3 DEF SlotsIn
<1> QED
  BY <1>1, <1>5, <1>23, <1>24, <1>26, <1>27, <1>28, <1>29, InvPartsNext

\* A computer executes an extraction: all of it is there, and there is room for it.
LEMMA TakesAll ==
    ASSUME Inv, NEW x \in transfers, x.kind = "extract", Execute(x)
    PROVE  /\ running /\ x.slot \in BusSlots /\ x.place \in Places /\ x.item \in Items
           /\ x.size \in Nat \ {0} /\ ~x.executed
           /\ stored[x.place].item = x.item /\ x.size <= stored[x.place].size
           /\ FitsIn(providers, reserved, transfers, bus, x.slot, x.item)
           /\ stored' = [stored EXCEPT ![x.place] =
                           IF x.place \in ChestPlaces THEN Taken(@, x.size) ELSE [item |-> @.item, size |-> @.size - x.size]]
           /\ bus' = [bus EXCEPT ![x.slot] = Put(@, x.item, x.size)]
           /\ bus[x.slot].size + x.size <= MaxSize[x.item]
<1> DEFINE b == x.slot
           p == x.place
           n == x.size
<1>1. TypeOK /\ StagesOK
  BY DEF Inv
<1>2. /\ reserved \in [BusSlots -> [Places -> Nat]] /\ bus \in [BusSlots -> SlotStacks]
      /\ transfers \in SUBSET Transfers /\ IsFiniteSet(transfers)
      /\ providers \in [Places -> [item : Items \cup {NoItem}, size : Nat, avail : Nat]]
  BY <1>1 DEF TypeOK
<1>3. /\ b \in BusSlots /\ p \in Places /\ x.item \in Items /\ n \in Nat \ {0} /\ x.executed \in BOOLEAN
  BY <1>2 DEF Transfers
<1>4. use[b] \in {"loading", "failed"}
  BY <1>1 DEF StagesOK
<1>5. running
  BY <1>1, <1>3, <1>4 DEF StagesOK
<1>6. /\ SlotsIn(use, providers, reserved, transfers, bus)
      /\ ItemsIn(content, providers, reserved, transfers)
      /\ CoversIn(content, stored, transfers)
      /\ KeptIn(providers, reserved, transfers, stored)
  BY <1>5, InvParts
<1>7. ~x.executed
  BY DEF Execute
<1>8. FitsIn(providers, reserved, transfers, bus, b, x.item)
  <2>1. PICK i \in Items : FitsIn(providers, reserved, transfers, bus, b, i)
    BY <1>3, <1>4, <1>6 DEF SlotsIn
  <2>2. x.item = i
    BY <2>1 DEF FitsIn
  <2> QED
    BY <2>1, <2>2
<1>9. /\ providers[p].avail \in Nat /\ PromisedIn(reserved, p) \in Nat
      /\ Leaving(transfers, p) \in Nat /\ Gone(transfers, p) \in Nat /\ Arriving(transfers, p) \in Nat
      /\ n <= Leaving(transfers, p) /\ stored[p].size \in Nat
  <2>1. stored[p].size \in Nat
    BY <1>1, <1>3, StackFacts DEF TypeOK
  <2> QED
    BY <1>2, <1>3, <1>7, <2>1, PromisedFacts, TotalType
<1>10. n <= stored[p].size
  <2>1. providers[p].avail + PromisedIn(reserved, p) + Leaving(transfers, p) <= stored[p].size
    BY <1>3, <1>6 DEF KeptIn
  <2> QED
    BY <1>3, <1>9, <2>1
<1>11. stored[p].item = x.item
  <2>1. x.item = providers[p].item
    BY <1>6 DEF ItemsIn
  <2>2. ClaimedIn(providers, reserved, transfers, p) > 0
    BY <1>3, <1>9 DEF ClaimedIn
  <2>3. providers[p].item = IF p \in ChestPlaces THEN content[p].item ELSE p[2]
    BY <1>3, <1>6, <2>2 DEF ItemsIn
  <2>4. CASE p \in ChestPlaces
    <3>1. HeldIn(stored, transfers, p) > 0
      BY <1>3, <1>9, <1>10 DEF HeldIn
    <3>2. stored[p] # Empty
      BY <1>3, <1>10, StackFacts
    <3>3. stored[p].item = content[p].item
      BY <1>6, <2>4, <3>1, <3>2 DEF CoversIn
    <3> QED
      BY <2>1, <2>3, <2>4, <3>3
  <2>5. CASE p \notin ChestPlaces
    <3>1. stored[p] \in [item : {p[2]}, size : Nat]
      BY <1>1, <1>3, <2>5 DEF TypeOK
    <3> QED
      BY <2>1, <2>3, <2>5, <3>1
  <2> QED
    BY <2>4, <2>5
<1>12. bus[b].size + n <= MaxSize[x.item] /\ bus[b].size \in Nat /\ MaxSize[x.item] \in Nat
  <2>1. x \in ComingIn(transfers, b, p)
    BY <1>7 DEF ComingIn
  <2>2. n <= SizeOf(ComingIn(transfers, b, p)) /\ SizeOf(ComingIn(transfers, b, p)) \in Nat
    BY <1>2, <2>1, TotalType
  <2>3. reserved[b][p] + SizeOf(ComingIn(transfers, b, p)) <= PendingIn(reserved, transfers, b)
    BY <1>2, <1>3, PendingFacts
  <2>4. PendingIn(reserved, transfers, b) \in Nat
    BY <1>2, <1>3, PendingFacts
  <2>5. bus[b].size + PendingIn(reserved, transfers, b) <= MaxSize[x.item]
    BY <1>8 DEF FitsIn
  <2>6. reserved[b][p] \in Nat /\ bus[b].size \in Nat /\ MaxSize[x.item] \in Nat
    BY <1>2, <1>3, StackFacts
  <2> QED
    BY <1>3, <2>2, <2>3, <2>4, <2>5, <2>6
<1>13. bus[b].size = 0 \/ bus[b].item = x.item
  <2>1. bus[b] # Empty => bus[b].item = x.item
    BY <1>8 DEF FitsIn
  <2> QED
    BY <1>2, <1>3, <2>1, StackFacts
<1> DEFINE room == IF bus[b].size = 0 \/ bus[b].item = stored[p].item THEN MaxSize[x.item] - bus[b].size ELSE 0
<1>14. room = MaxSize[x.item] - bus[b].size
  BY <1>11, <1>13
<1> DEFINE m == Least(n, Least(stored[p].size, room))
<1>15. m = n
  BY <1>3, <1>9, <1>10, <1>12, <1>14 DEF Least
<1>16. IF m = 0 THEN UNCHANGED <<bus, stored>>
       ELSE /\ stored' = [stored EXCEPT ![p] =
                 IF p \in ChestPlaces THEN Taken(@, m) ELSE [item |-> @.item, size |-> @.size - m]]
            /\ bus' = [bus EXCEPT ![b] = Put(@, stored[p].item, m)]
  BY DEF Execute
<1> HIDE DEF m, room
<1>17. /\ stored' = [stored EXCEPT ![p] =
            IF p \in ChestPlaces THEN Taken(@, n) ELSE [item |-> @.item, size |-> @.size - n]]
       /\ bus' = [bus EXCEPT ![b] = Put(@, x.item, n)]
  BY <1>3, <1>11, <1>15, <1>16
<1> QED
  BY <1>3, <1>5, <1>7, <1>8, <1>10, <1>11, <1>12, <1>17

\* A transfer is marked as executed.
LEMMA PartExecute ==
    ASSUME NEW S \in SUBSET Transfers, IsFiniteSet(S), NEW x \in S, NEW y \in Transfers,
           y.size = x.size, NEW F
    PROVE  LET U == (S \ {x}) \cup {y} IN
           /\ U \in SUBSET Transfers /\ IsFiniteSet(U)
           /\ SizeOf(S \cap F) \in Nat /\ SizeOf(U \cap F) \in Nat
           /\ x \in F /\ y \notin F => SizeOf(U \cap F) = SizeOf(S \cap F) - x.size
           /\ x \notin F /\ y \in F => SizeOf(U \cap F) <= SizeOf(S \cap F) + x.size
           /\ x \notin F /\ y \notin F => SizeOf(U \cap F) = SizeOf(S \cap F)
<1> DEFINE V == S \ {x}
           U == V \cup {y}
<1>1. V \in SUBSET Transfers /\ IsFiniteSet(V)
  BY FS_Subset
<1>2. U \in SUBSET Transfers /\ IsFiniteSet(U)
  BY <1>1, FS_AddElement
<1>3. /\ SizeOf(S \cap F) \in Nat /\ SizeOf((S \ {x}) \cap F) \in Nat
      /\ x \in F => SizeOf((S \ {x}) \cap F) = SizeOf(S \cap F) - x.size
      /\ x \notin F => SizeOf((S \ {x}) \cap F) = SizeOf(S \cap F)
  BY PartRemove
<1> HIDE DEF V
<1>4. /\ SizeOf(V \cap F) \in Nat /\ SizeOf((V \cup {y}) \cap F) \in Nat
      /\ y \in F => SizeOf((V \cup {y}) \cap F) <= SizeOf(V \cap F) + y.size
      /\ y \notin F => SizeOf((V \cup {y}) \cap F) = SizeOf(V \cap F)
  BY <1>1, PartAdd
<1>5. x.size \in Nat
  BY SizeFacts
<1>6. /\ SizeOf(V \cap F) \in Nat
      /\ x \in F => SizeOf(V \cap F) = SizeOf(S \cap F) - x.size
      /\ x \notin F => SizeOf(V \cap F) = SizeOf(S \cap F)
  BY <1>3 DEF V
<1>7. /\ SizeOf(U \cap F) \in Nat
      /\ x \in F /\ y \notin F => SizeOf(U \cap F) = SizeOf(S \cap F) - x.size
      /\ x \notin F /\ y \in F => SizeOf(U \cap F) <= SizeOf(S \cap F) + x.size
      /\ x \notin F /\ y \notin F => SizeOf(U \cap F) = SizeOf(S \cap F)
  BY <1>3, <1>4, <1>6
<1> QED
  BY <1>2, <1>3, <1>7 DEF V

\* What the sums become when a transfer is executed.
Done(T, x) == (T \ {x}) \cup {[x EXCEPT !.executed = TRUE]}

\* What is on its way, and what is gone, after a transfer was executed.
LEMMA ExecuteSums ==
    ASSUME NEW T \in SUBSET Transfers, IsFiniteSet(T), NEW x \in T, ~x.executed
    PROVE  /\ Done(T, x) \in SUBSET Transfers /\ IsFiniteSet(Done(T, x))
           /\ x.size \in Nat \ {0}
           /\ \A q : /\ Arriving(Done(T, x), q) \in Nat /\ Arriving(T, q) \in Nat
                     /\ Leaving(Done(T, x), q) \in Nat /\ Leaving(T, q) \in Nat
                     /\ Gone(Done(T, x), q) \in Nat /\ Gone(T, q) \in Nat
           /\ \A q : /\ x.kind = "sink" /\ q = x.place => Arriving(Done(T, x), q) = Arriving(T, q) - x.size
                     /\ ~(x.kind = "sink" /\ q = x.place) => Arriving(Done(T, x), q) = Arriving(T, q)
           /\ \A q : /\ x.kind = "extract" /\ q = x.place => Leaving(Done(T, x), q) = Leaving(T, q) - x.size
                     /\ ~(x.kind = "extract" /\ q = x.place) => Leaving(Done(T, x), q) = Leaving(T, q)
           /\ \A q : /\ x.kind = "extract" /\ q = x.place => Gone(Done(T, x), q) <= Gone(T, q) + x.size
                     /\ ~(x.kind = "extract" /\ q = x.place) => Gone(Done(T, x), q) = Gone(T, q)
           /\ \A c, q : ~(x.kind = "extract" /\ c = x.slot /\ q = x.place) =>
                          ComingIn(Done(T, x), c, q) = ComingIn(T, c, q)
           /\ x.kind = "extract" => SizeOf(ComingIn(Done(T, x), x.slot, x.place))
                                    = SizeOf(ComingIn(T, x.slot, x.place)) - x.size
<1> DEFINE y == [x EXCEPT !.executed = TRUE]
           U == (T \ {x}) \cup {y}
<1>1. /\ y \in Transfers /\ y.size = x.size /\ y.kind = x.kind /\ y.place = x.place /\ y.slot = x.slot
      /\ y.item = x.item /\ y.executed = TRUE /\ x \in Transfers /\ x.kind \in {"sink", "extract"}
      /\ x.size \in Nat \ {0}
  BY DEF Transfers
<1>2. Done(T, x) = U
  BY DEF Done
<1> HIDE DEF y
<1>3. U \in SUBSET Transfers /\ IsFiniteSet(U)
  <2>1. IsFiniteSet(T \ {x}) /\ T \ {x} \in SUBSET Transfers
    BY FS_Subset
  <2> QED
    BY <1>1, <2>1, FS_AddElement
<1>4. ASSUME NEW F
      PROVE  /\ SizeOf(T \cap F) \in Nat /\ SizeOf(U \cap F) \in Nat
             /\ x \in F /\ y \notin F => SizeOf(U \cap F) = SizeOf(T \cap F) - x.size
             /\ x \notin F /\ y \in F => SizeOf(U \cap F) <= SizeOf(T \cap F) + x.size
             /\ x \notin F /\ y \notin F => SizeOf(U \cap F) = SizeOf(T \cap F)
  BY <1>1, PartExecute
<1> HIDE DEF U
<1>5. /\ \A q : x \in SinksTo(q) <=> x.kind = "sink" /\ q = x.place
      /\ \A q : x \in TakesFrom(q) <=> x.kind = "extract" /\ q = x.place
      /\ \A q : x \notin TookFrom(q) /\ y \notin SinksTo(q) /\ y \notin TakesFrom(q)
      /\ \A q : y \in TookFrom(q) <=> x.kind = "extract" /\ q = x.place
      /\ \A c, q : y \notin LoadsFrom(c, q)
      /\ \A c, q : x \in LoadsFrom(c, q) <=> x.kind = "extract" /\ c = x.slot /\ q = x.place
  BY <1>1 DEF SinksTo, TakesFrom, TookFrom, LoadsFrom
<1>6. ASSUME NEW q
      PROVE  /\ Arriving(U, q) = SizeOf(U \cap SinksTo(q)) /\ Arriving(T, q) = SizeOf(T \cap SinksTo(q))
             /\ Leaving(U, q) = SizeOf(U \cap TakesFrom(q)) /\ Leaving(T, q) = SizeOf(T \cap TakesFrom(q))
             /\ Gone(U, q) = SizeOf(U \cap TookFrom(q)) /\ Gone(T, q) = SizeOf(T \cap TookFrom(q))
  BY <1>3, Where
<1>7. ASSUME NEW q
      PROVE  /\ Arriving(U, q) \in Nat /\ Arriving(T, q) \in Nat
             /\ Leaving(U, q) \in Nat /\ Leaving(T, q) \in Nat
             /\ Gone(U, q) \in Nat /\ Gone(T, q) \in Nat
  BY <1>3, TotalType
<1>8. ASSUME NEW q
      PROVE  /\ x.kind = "sink" /\ q = x.place => Arriving(U, q) = Arriving(T, q) - x.size
             /\ ~(x.kind = "sink" /\ q = x.place) => Arriving(U, q) = Arriving(T, q)
  <2>1. /\ x \in SinksTo(q) /\ y \notin SinksTo(q)
             => SizeOf(U \cap SinksTo(q)) = SizeOf(T \cap SinksTo(q)) - x.size
        /\ x \notin SinksTo(q) /\ y \notin SinksTo(q)
             => SizeOf(U \cap SinksTo(q)) = SizeOf(T \cap SinksTo(q))
    BY <1>4
  <2>2. y \notin SinksTo(q) /\ (x \in SinksTo(q) <=> x.kind = "sink" /\ q = x.place)
    BY <1>5
  <2>3. Arriving(U, q) = SizeOf(U \cap SinksTo(q)) /\ Arriving(T, q) = SizeOf(T \cap SinksTo(q))
    BY <1>6
  <2> QED
    BY <2>1, <2>2, <2>3
<1>9. ASSUME NEW q
      PROVE  /\ x.kind = "extract" /\ q = x.place => Leaving(U, q) = Leaving(T, q) - x.size
             /\ ~(x.kind = "extract" /\ q = x.place) => Leaving(U, q) = Leaving(T, q)
  <2>1. /\ x \in TakesFrom(q) /\ y \notin TakesFrom(q)
             => SizeOf(U \cap TakesFrom(q)) = SizeOf(T \cap TakesFrom(q)) - x.size
        /\ x \notin TakesFrom(q) /\ y \notin TakesFrom(q)
             => SizeOf(U \cap TakesFrom(q)) = SizeOf(T \cap TakesFrom(q))
    BY <1>4
  <2>2. y \notin TakesFrom(q) /\ (x \in TakesFrom(q) <=> x.kind = "extract" /\ q = x.place)
    BY <1>5
  <2>3. Leaving(U, q) = SizeOf(U \cap TakesFrom(q)) /\ Leaving(T, q) = SizeOf(T \cap TakesFrom(q))
    BY <1>6
  <2> QED
    BY <2>1, <2>2, <2>3
<1>10. ASSUME NEW q
       PROVE  /\ x.kind = "extract" /\ q = x.place => Gone(U, q) <= Gone(T, q) + x.size
              /\ ~(x.kind = "extract" /\ q = x.place) => Gone(U, q) = Gone(T, q)
  <2>1. /\ x \notin TookFrom(q) /\ y \in TookFrom(q)
             => SizeOf(U \cap TookFrom(q)) <= SizeOf(T \cap TookFrom(q)) + x.size
        /\ x \notin TookFrom(q) /\ y \notin TookFrom(q)
             => SizeOf(U \cap TookFrom(q)) = SizeOf(T \cap TookFrom(q))
    BY <1>4
  <2>2. x \notin TookFrom(q) /\ (y \in TookFrom(q) <=> x.kind = "extract" /\ q = x.place)
    BY <1>5
  <2>3. Gone(U, q) = SizeOf(U \cap TookFrom(q)) /\ Gone(T, q) = SizeOf(T \cap TookFrom(q))
    BY <1>6
  <2> QED
    BY <2>1, <2>2, <2>3
<1>11. ASSUME NEW c, NEW q, ~(x.kind = "extract" /\ c = x.slot /\ q = x.place)
       PROVE  ComingIn(U, c, q) = ComingIn(T, c, q)
  <2>1. x \notin LoadsFrom(c, q) /\ y \notin LoadsFrom(c, q)
    BY <1>5, <1>11
  <2>2. ComingIn(U, c, q) = U \cap LoadsFrom(c, q) /\ ComingIn(T, c, q) = T \cap LoadsFrom(c, q)
    BY <1>3, Where
  <2>3. U \cap LoadsFrom(c, q) = T \cap LoadsFrom(c, q)
    BY <2>1 DEF U
  <2> QED
    BY <2>2, <2>3
<1>12. ASSUME x.kind = "extract"
       PROVE  SizeOf(ComingIn(U, x.slot, x.place)) = SizeOf(ComingIn(T, x.slot, x.place)) - x.size
  <2> DEFINE F == LoadsFrom(x.slot, x.place)
  <2>1. x \in F /\ y \notin F
    BY <1>5, <1>12
  <2>2. ComingIn(U, x.slot, x.place) = U \cap F /\ ComingIn(T, x.slot, x.place) = T \cap F
    BY <1>3, Where
  <2> HIDE DEF F
  <2>3. SizeOf(U \cap F) = SizeOf(T \cap F) - x.size
    BY <1>4, <2>1
  <2> QED
    BY <2>2, <2>3
<1> QED
  BY <1>1, <1>2, <1>3, <1>7, <1>8, <1>9, <1>10, <1>11, <1>12

\* A computer executes a transfer.
LEMMA ExecuteStages ==
    ASSUME Inv, NEW x \in transfers, Execute(x)
    PROVE  /\ StagesOK' /\ running /\ transfers' = Done(transfers, x) /\ ~x.executed
           /\ UNCHANGED <<running, content, providers, reserved, use>>
<1>1. TypeOK /\ StagesOK
  BY DEF Inv
<1>2. /\ transfers' = Done(transfers, x) /\ ~x.executed
      /\ UNCHANGED <<running, content, providers, reserved, use>>
  BY DEF Execute, Done
<1>3. x \in Transfers /\ x.slot \in BusSlots
  BY <1>1 DEF TypeOK, Transfers
<1>4. running
  BY <1>1, <1>3 DEF StagesOK
<1> DEFINE y == [x EXCEPT !.executed = TRUE]
<1>5. y.kind = x.kind /\ y.place = x.place /\ y.slot = x.slot
  BY <1>3 DEF Transfers
<1>6. transfers' = (transfers \ {x}) \cup {y}
  BY <1>2 DEF Done
<1> HIDE DEF y
<1>7. \A z \in transfers' :
        use[z.slot] \in IF z.kind = "sink" THEN {"inserting"} ELSE {"loading", "failed"}
  BY <1>1, <1>5, <1>6 DEF StagesOK
<1>8. ASSUME NEW z \in transfers', NEW w \in transfers',
             z.kind = "extract" /\ w.kind = "extract" /\ z.slot = w.slot /\ z.place = w.place
      PROVE  z = w
  <2>1. CASE z \in transfers \ {x} /\ w \in transfers \ {x}
    BY <1>1, <1>8, <2>1 DEF StagesOK
  <2>2. CASE z = y /\ w \in transfers \ {x}
    <3>1. w = x
      BY <1>1, <1>5, <1>8, <2>2 DEF StagesOK
    <3> QED
      BY <2>2, <3>1
  <2>3. CASE w = y /\ z \in transfers \ {x}
    <3>1. z = x
      BY <1>1, <1>5, <1>8, <2>3 DEF StagesOK
    <3> QED
      BY <2>3, <3>1
  <2> QED
    BY <1>6, <2>1, <2>2, <2>3
<1>9. StagesOK'
  BY <1>1, <1>2, <1>7, <1>8 DEF StagesOK
<1> QED
  BY <1>2, <1>4, <1>9

\* What executing a transfer leaves as it is: the kinds, items and places.
LEMMA DoneItems ==
    ASSUME NEW T \in SUBSET Transfers, NEW x \in T
    PROVE  \A z \in Done(T, x) : \E w \in T :
             /\ z.kind = w.kind /\ z.slot = w.slot /\ z.place = w.place /\ z.item = w.item
             /\ z.executed \/ z = w
<1>1. x \in Transfers
  OBVIOUS
<1>2. /\ [x EXCEPT !.executed = TRUE].kind = x.kind /\ [x EXCEPT !.executed = TRUE].slot = x.slot
      /\ [x EXCEPT !.executed = TRUE].place = x.place /\ [x EXCEPT !.executed = TRUE].item = x.item
      /\ [x EXCEPT !.executed = TRUE].executed = TRUE
  BY <1>1 DEF Transfers
<1> QED
  BY <1>2 DEF Done

\* A computer executes an extraction.
LEMMA TakeInv == ASSUME Inv, NEW x \in transfers, x.kind = "extract", Execute(x) PROVE Inv'
<1> DEFINE b == x.slot
           p == x.place
           n == x.size
           T == Done(transfers, x)
<1>1. /\ running /\ b \in BusSlots /\ p \in Places /\ x.item \in Items
      /\ n \in Nat \ {0} /\ ~x.executed
      /\ stored[p].item = x.item /\ n <= stored[p].size
      /\ FitsIn(providers, reserved, transfers, bus, b, x.item)
      /\ stored' = [stored EXCEPT ![p] =
                      IF p \in ChestPlaces THEN Taken(@, n) ELSE [item |-> @.item, size |-> @.size - n]]
      /\ bus' = [bus EXCEPT ![b] = Put(@, x.item, n)]
      /\ bus[b].size + n <= MaxSize[x.item]
  BY TakesAll
<1>2. TypeOK
  BY DEF Inv
<1>3. /\ reserved \in [BusSlots -> [Places -> Nat]] /\ bus \in [BusSlots -> SlotStacks]
      /\ transfers \in SUBSET Transfers /\ IsFiniteSet(transfers) /\ DOMAIN stored = Places
      /\ content \in [ChestPlaces -> SlotStacks]
      /\ providers \in [Places -> [item : Items \cup {NoItem}, size : Nat, avail : Nat]]
  BY <1>2 DEF TypeOK
<1>4. /\ SlotsIn(use, providers, reserved, transfers, bus)
      /\ ItemsIn(content, providers, reserved, transfers)
      /\ CoversIn(content, stored, transfers)
      /\ KeptIn(providers, reserved, transfers, stored)
      /\ BackupIn(providers)
  BY <1>1, InvParts
<1>5. StagesOK' /\ transfers' = T /\ UNCHANGED <<running, content, providers, reserved, use>>
  BY ExecuteStages
<1>6. T \in SUBSET Transfers /\ IsFiniteSet(T)
  BY <1>1, <1>3, ExecuteSums
<1>7. ASSUME NEW q \in Places
      PROVE  /\ Arriving(T, q) = Arriving(transfers, q)
             /\ q = p => Leaving(T, q) = Leaving(transfers, q) - n /\ Gone(T, q) <= Gone(transfers, q) + n
             /\ q # p => Leaving(T, q) = Leaving(transfers, q) /\ Gone(T, q) = Gone(transfers, q)
             /\ Arriving(transfers, q) \in Nat /\ Leaving(transfers, q) \in Nat /\ Gone(transfers, q) \in Nat
             /\ Arriving(T, q) \in Nat /\ Leaving(T, q) \in Nat /\ Gone(T, q) \in Nat
             /\ providers[q].avail \in Nat /\ PromisedIn(reserved, q) \in Nat /\ stored[q].size \in Nat
  <2>1. stored[q].size \in Nat
    BY <1>2, StackFacts DEF TypeOK
  <2>2. providers[q].avail \in Nat /\ PromisedIn(reserved, q) \in Nat
    BY <1>3, PromisedFacts
  <2>3. /\ Arriving(T, q) \in Nat /\ Arriving(transfers, q) \in Nat
        /\ Leaving(T, q) \in Nat /\ Leaving(transfers, q) \in Nat
        /\ Gone(T, q) \in Nat /\ Gone(transfers, q) \in Nat
    BY <1>1, <1>3, ExecuteSums
  <2>4. Arriving(T, q) = Arriving(transfers, q)
    BY <1>1, <1>3, ExecuteSums
  <2>5. /\ q = p => Leaving(T, q) = Leaving(transfers, q) - n
        /\ q # p => Leaving(T, q) = Leaving(transfers, q)
    BY <1>1, <1>3, ExecuteSums
  <2>6. /\ q = p => Gone(T, q) <= Gone(transfers, q) + n
        /\ q # p => Gone(T, q) = Gone(transfers, q)
    BY <1>1, <1>3, ExecuteSums
  <2> QED
    BY <2>1, <2>2, <2>3, <2>4, <2>5, <2>6
\* The stack that is taken from.
<1>8. /\ stored'[p].size = stored[p].size - n
      /\ p \in ChestPlaces => stored'[p] \in SlotStacks
      /\ p \in ChestPlaces /\ stored'[p] # Empty => stored'[p].item = stored[p].item
      /\ p \notin ChestPlaces => stored'[p] \in [item : {p[2]}, size : Nat]
      /\ \A q \in Places \ {p} : stored'[q] = stored[q]
      /\ DOMAIN stored' = Places
  <2>1. stored[p].size \in Nat /\ stored[p].size - n \in Nat
    BY <1>1, <1>7
  <2>2. \A q \in Places \ {p} : stored'[q] = stored[q]
    BY <1>1, <1>3
  <2>3. CASE p \in ChestPlaces
    <3>1. stored'[p] = Stack(x.item, stored[p].size - n)
      BY <1>1, <1>3, <2>3 DEF Taken
    <3>2. stored[p].size <= MaxSize[x.item] /\ MaxSize[x.item] \in Nat
      <4>1. stored[p] \in SlotStacks /\ stored[p].size # 0
        BY <1>1, <1>2, <2>1, <2>3 DEF TypeOK
      <4> QED
        BY <1>1, <4>1, StackFacts
    <3>3. stored[p].size - n \in 0 .. MaxSize[x.item]
      BY <1>1, <2>1, <3>2
    <3>4. stored'[p] \in SlotStacks /\ stored'[p].size = stored[p].size - n
      BY <1>1, <3>1, <3>3, StackFacts
    <3>5. stored'[p] # Empty => stored'[p].item = stored[p].item
      <4>1. stored'[p] # Empty => stored[p].size - n # 0
        BY <3>4, StackFacts
      <4> QED
        BY <1>1, <3>1, <4>1, StackFacts
    <3> QED
      BY <1>1, <1>3, <2>2, <2>3, <3>4, <3>5
  <2>4. CASE p \notin ChestPlaces
    <3>1. stored[p] \in [item : {p[2]}, size : Nat]
      BY <1>1, <1>2, <2>4 DEF TypeOK
    <3>2. stored'[p] = [item |-> stored[p].item, size |-> stored[p].size - n]
      BY <1>1, <1>3, <2>4
    <3>3. stored'[p] \in [item : {p[2]}, size : Nat] /\ stored'[p].size = stored[p].size - n
      BY <2>1, <3>1, <3>2
    <3> QED
      BY <1>1, <1>3, <2>2, <2>4, <3>3
  <2> QED
    BY <2>3, <2>4
\* The slot that is put into.
<1>9. /\ bus'[b] = [item |-> x.item, size |-> bus[b].size + n] /\ bus'[b] \in SlotStacks
      /\ \A c \in BusSlots \ {b} : bus'[c] = bus[c]
      /\ bus' \in [BusSlots -> SlotStacks]
  <2>1. bus'[b] = [item |-> x.item, size |-> bus[b].size + n]
    BY <1>1, <1>3 DEF Put
  <2>2. bus[b].size \in Nat /\ MaxSize[x.item] \in Nat
    BY <1>1, <1>3, StackFacts
  <2>3. bus[b].size + n \in 0 .. MaxSize[x.item] /\ bus[b].size + n # 0
    BY <1>1, <2>2
  <2>4. Stack(x.item, bus[b].size + n) = bus'[b]
    BY <2>1, <2>3 DEF Stack
  <2>5. bus'[b] \in SlotStacks
    BY <1>1, <2>3, <2>4, StackFacts
  <2>6. bus' \in [BusSlots -> SlotStacks]
    BY <1>1, <1>3, <2>1, <2>5 DEF Put
  <2>7. \A c \in BusSlots \ {b} : bus'[c] = bus[c]
    BY <1>1, <1>3
  <2> QED
    BY <2>1, <2>5, <2>6, <2>7
<1>10. TypeOK'
  <2>1. \A q \in ChestPlaces : stored'[q] \in SlotStacks
    BY <1>2, <1>8, PlacesFinite DEF TypeOK
  <2>2. \A q \in Places \ ChestPlaces : stored'[q] \in [item : {q[2]}, size : Nat]
    BY <1>2, <1>8 DEF TypeOK
  <2> QED
    BY <1>2, <1>5, <1>6, <1>8, <1>9, <2>1, <2>2 DEF TypeOK
<1> HIDE DEF T
<1>11. CoversIn(content', stored', transfers')
  <2> SUFFICES ASSUME NEW q \in ChestPlaces, HeldIn(stored', T, q) > 0
               PROVE  /\ HeldIn(stored', T, q) <= content[q].size
                      /\ stored'[q] # Empty => stored'[q].item = content[q].item
    BY <1>5 DEF CoversIn
  <2>1. q \in Places /\ content[q].size \in Nat
    BY <1>3, PlacesFinite, StackFacts
  <2>2. CASE q # p
    <3>1. HeldIn(stored', T, q) = HeldIn(stored, transfers, q) /\ stored'[q] = stored[q]
      BY <1>7, <1>8, <2>1, <2>2 DEF HeldIn
    <3> QED
      BY <1>4, <3>1 DEF CoversIn
  <2>3. CASE q = p
    <3>1. /\ Arriving(T, p) = Arriving(transfers, p) /\ Gone(T, p) <= Gone(transfers, p) + n
          /\ Arriving(transfers, p) \in Nat /\ Gone(transfers, p) \in Nat /\ Gone(T, p) \in Nat
          /\ stored[p].size \in Nat /\ stored'[p].size = stored[p].size - n
      BY <1>1, <1>7, <1>8
    <3>2. HeldIn(stored', T, p) <= HeldIn(stored, transfers, p) /\ HeldIn(stored, transfers, p) > 0
          /\ HeldIn(stored', T, p) \in Int /\ HeldIn(stored, transfers, p) \in Int
      BY <1>1, <3>1 DEF HeldIn
    <3>3. HeldIn(stored, transfers, p) <= content[p].size /\ (stored[p] # Empty => stored[p].item = content[p].item)
      BY <1>4, <2>3, <3>2 DEF CoversIn
    <3>4. stored[p] # Empty
      BY <1>1, <3>1, StackFacts
    <3> QED
      BY <1>8, <2>1, <2>3, <3>2, <3>3, <3>4
  <2> QED
    BY <2>2, <2>3
<1>12. KeptIn(providers', reserved', transfers', stored')
  <2> SUFFICES ASSUME NEW q \in Places
               PROVE  providers[q].avail + PromisedIn(reserved, q) + Leaving(T, q) <= stored'[q].size
    BY <1>5 DEF KeptIn
  <2>1. providers[q].avail + PromisedIn(reserved, q) + Leaving(transfers, q) <= stored[q].size
    BY <1>4 DEF KeptIn
  <2>2. CASE q # p
    BY <1>7, <1>8, <2>1, <2>2
  <2>3. CASE q = p
    <3>1. /\ Leaving(T, q) = Leaving(transfers, q) - n /\ stored'[q].size = stored[q].size - n
          /\ Leaving(transfers, q) \in Nat /\ providers[q].avail \in Nat
          /\ PromisedIn(reserved, q) \in Nat /\ stored[q].size \in Nat
      BY <1>7, <1>8, <2>3
    <3> QED
      BY <1>1, <2>1, <3>1
  <2> QED
    BY <2>2, <2>3
<1>13. ItemsIn(content', providers', reserved', transfers')
  <2>1. ASSUME NEW q \in Places, ClaimedIn(providers, reserved, T, q) > 0
        PROVE  providers[q].item = IF q \in ChestPlaces THEN content[q].item ELSE q[2]
    <3>1. /\ providers[q].avail \in Nat /\ PromisedIn(reserved, q) \in Nat
          /\ Leaving(transfers, q) \in Nat /\ Gone(transfers, q) \in Nat
          /\ Leaving(T, q) \in Nat /\ Gone(T, q) \in Nat
          /\ q = p => Leaving(T, q) = Leaving(transfers, q) - n /\ Gone(T, q) <= Gone(transfers, q) + n
          /\ q # p => Leaving(T, q) = Leaving(transfers, q) /\ Gone(T, q) = Gone(transfers, q)
      BY <1>7
    <3>2. ClaimedIn(providers, reserved, transfers, q) > 0
      <4>1. CASE q = p
        BY <1>1, <2>1, <3>1, <4>1 DEF ClaimedIn
      <4>2. CASE q # p
        BY <2>1, <3>1, <4>2 DEF ClaimedIn
      <4> QED
        BY <4>1, <4>2
    <3> QED
      BY <1>4, <3>2 DEF ItemsIn
  <2>2. ASSUME NEW z \in T
        PROVE  /\ z.kind = "extract" => z.item = providers[z.place].item
               /\ z.kind = "sink" /\ z.place \notin ChestPlaces => z.item = z.place[2]
               /\ z.kind = "sink" /\ z.place \in ChestPlaces /\ ~z.executed => z.item = content[z.place].item
    <3>1. PICK w \in transfers :
            /\ z.kind = w.kind /\ z.slot = w.slot /\ z.place = w.place /\ z.item = w.item
            /\ z.executed \/ z = w
      BY <1>3, DoneItems DEF T
    <3> QED
      BY <1>4, <3>1 DEF ItemsIn
  <2> QED
    BY <1>5, <2>1, <2>2 DEF ItemsIn
<1>14. SlotsIn(use', providers', reserved', transfers', bus')
  <2>1. FitsIn(providers, reserved, T, bus', b, x.item)
    <3>1. SizeOf(ComingIn(T, b, p)) = SizeOf(ComingIn(transfers, b, p)) - n
      BY <1>1, <1>3, ExecuteSums DEF T
    <3>2. \A q \in Places \ {p} : ComingIn(T, b, q) = ComingIn(transfers, b, q)
      BY <1>1, <1>3, ExecuteSums DEF T
    <3>3. n \in Nat
      BY <1>1
    <3>4. PendingIn(reserved, T, b) = PendingIn(reserved, transfers, b) - n
      <4>1. Fewer(SizeOf(ComingIn(T, b, p)), SizeOf(ComingIn(transfers, b, p)), n)
        BY <3>1 DEF Fewer
      <4>2. b \in BusSlots /\ p \in Places
        BY <1>1
      <4> HIDE DEF b, p, n
      <4>3. Fewer(PendingIn(reserved, T, b), PendingIn(reserved, transfers, b), n)
        BY <1>3, <1>6, <3>2, <3>3, <4>1, <4>2, PendingLess
      <4> QED
        BY <4>3 DEF Fewer
    <3>5. bus[b].size + PendingIn(reserved, transfers, b) <= MaxSize[x.item]
      BY <1>1 DEF FitsIn
    <3>6. PendingIn(reserved, transfers, b) \in Nat /\ bus[b].size \in Nat /\ MaxSize[x.item] \in Nat
      BY <1>1, <1>3, PendingFacts, StackFacts
    <3>7. bus'[b].size = bus[b].size + n /\ bus'[b].item = x.item
      BY <1>9
    <3>8. bus'[b].size + PendingIn(reserved, T, b) <= MaxSize[x.item]
      BY <3>3, <3>4, <3>5, <3>6, <3>7
    <3>9. ASSUME NEW z \in T, z.kind = "extract", z.slot = b PROVE z.item = x.item
      <4>1. PICK w \in transfers :
            /\ z.kind = w.kind /\ z.slot = w.slot /\ z.place = w.place /\ z.item = w.item
            /\ z.executed \/ z = w
        BY <1>3, DoneItems DEF T
      <4> QED
        BY <1>1, <3>9, <4>1 DEF FitsIn
    <3>10. \A q \in Places : reserved[b][q] > 0 => providers[q].item = x.item
      BY <1>1 DEF FitsIn
    <3> QED
      BY <3>7, <3>8, <3>9, <3>10 DEF FitsIn
  <2>2. ASSUME NEW c \in BusSlots \ {b}, use[c] \in {"waiting", "loading", "failed"}
        PROVE  \E j \in Items : FitsIn(providers, reserved, T, bus', c, j)
    <3>1. PICK j \in Items : FitsIn(providers, reserved, transfers, bus, c, j)
      BY <1>4, <2>2 DEF SlotsIn
    <3>2. \A q : ComingIn(T, c, q) = ComingIn(transfers, c, q)
      BY <1>1, <1>3, ExecuteSums DEF T
    <3>3. PendingIn(reserved, T, c) = PendingIn(reserved, transfers, c)
      BY <3>2 DEF PendingIn
    <3>4. ASSUME NEW z \in T, z.kind = "extract", z.slot = c PROVE z.item = j
      <4>1. PICK w \in transfers :
            /\ z.kind = w.kind /\ z.slot = w.slot /\ z.place = w.place /\ z.item = w.item
            /\ z.executed \/ z = w
        BY <1>3, DoneItems DEF T
      <4> QED
        BY <3>1, <3>4, <4>1 DEF FitsIn
    <3>5. bus'[c] = bus[c]
      BY <1>9
    <3>6. FitsIn(providers, reserved, T, bus', c, j)
      BY <3>1, <3>3, <3>4, <3>5 DEF FitsIn
    <3> QED
      BY <3>6
  <2>3. ASSUME NEW z \in T, z.kind = "sink", bus'[z.slot] # Empty PROVE bus'[z.slot].item = z.item
    <3>1. PICK w \in transfers :
            /\ z.kind = w.kind /\ z.slot = w.slot /\ z.place = w.place /\ z.item = w.item
            /\ z.executed \/ z = w
      BY <1>3, DoneItems DEF T
    <3>2. z.slot \in BusSlots /\ z.slot # b
      <4>1. z.slot \in BusSlots
        BY <1>6 DEF Transfers
      <4>2. StagesOK
        BY DEF Inv
      <4>3. use[b] # "inserting"
        BY <4>2 DEF StagesOK
      <4>4. use[w.slot] = "inserting"
        BY <2>3, <3>1, <4>2 DEF StagesOK
      <4> QED
        BY <3>1, <4>1, <4>3, <4>4
    <3>3. bus'[z.slot] = bus[z.slot]
      BY <1>9, <3>2
    <3> QED
      BY <1>4, <2>3, <3>1, <3>3 DEF SlotsIn
  <2> QED
    BY <1>5, <2>1, <2>2, <2>3, <1>1 DEF SlotsIn
<1> QED
  BY <1>4, <1>5, <1>10, <1>11, <1>12, <1>13, <1>14, InvPartsNext

\* A computer executes a transfer into a storage: it moves m of the item of the
\* slot, all that fits.
LEMMA SinkMoves ==
    ASSUME Inv, NEW x \in transfers, x.kind = "sink", Execute(x)
    PROVE  \E m \in 0 .. x.size :
             /\ m = 0 => UNCHANGED <<bus, stored>>
             /\ m # 0 => /\ bus[x.slot].item = x.item /\ m <= bus[x.slot].size
                         /\ stored' = [stored EXCEPT ![x.place] = Put(@, x.item, m)]
                         /\ bus' = [bus EXCEPT ![x.slot] = Taken(@, m)]
<1> DEFINE b == x.slot
           p == x.place
<1>1. TypeOK
  BY DEF Inv
<1>2. /\ b \in BusSlots /\ p \in Places /\ x.item \in Items /\ x.size \in Nat \ {0}
      /\ bus[b] \in SlotStacks /\ bus[b].size \in Nat /\ stored[p].size \in Nat
      /\ p \in ChestPlaces => stored[p] \in SlotStacks
      /\ MaxSize[x.item] \in Nat
  BY <1>1, StackFacts DEF TypeOK, Transfers
<1> DEFINE room == IF p \notin ChestPlaces THEN x.size
                   ELSE IF stored[p].size = 0 \/ stored[p].item = bus[b].item
                        THEN MaxSize[x.item] - stored[p].size ELSE 0
           m == Least(x.size, Least(bus[b].size, room))
<1>3. IF m = 0 THEN UNCHANGED <<bus, stored>>
      ELSE /\ stored' = [stored EXCEPT ![p] = Put(@, bus[b].item, m)]
           /\ bus' = [bus EXCEPT ![b] = Taken(@, m)]
  BY DEF Execute
<1>4. bus[b] # Empty => bus[b].item = x.item
  <2>1. SlotsIn(use, providers, reserved, transfers, bus)
    BY InvParts
  <2> QED
    BY <2>1 DEF SlotsIn
<1>5. room \in Nat
  <2>1. ASSUME p \in ChestPlaces, stored[p].size # 0, stored[p].item = bus[b].item
        PROVE  stored[p].size <= MaxSize[x.item]
    <3>1. stored[p].item \in Items /\ stored[p].size <= MaxSize[stored[p].item]
      BY <1>2, <2>1, StackFacts
    <3>2. bus[b] # Empty
      BY <2>1, <3>1, StackFacts
    <3> QED
      BY <1>4, <2>1, <3>1, <3>2
  <2> QED
    BY <1>2, <2>1
<1> HIDE DEF room
<1>6. m \in 0 .. x.size /\ m <= bus[b].size
  BY <1>2, <1>5 DEF Least
<1> HIDE DEF m
<1>7. ASSUME m # 0 PROVE bus[b].item = x.item
  <2>1. bus[b] # Empty
    BY <1>2, <1>6, <1>7, StackFacts
  <2> QED
    BY <1>4, <2>1
<1> QED
  BY <1>3, <1>6, <1>7

\* A computer executes a transfer into a storage.
LEMMA SinkInv == ASSUME Inv, NEW x \in transfers, x.kind = "sink", Execute(x) PROVE Inv'
<1> DEFINE b == x.slot
           p == x.place
           n == x.size
           T == Done(transfers, x)
<1>1. PICK m \in 0 .. n :
        /\ m = 0 => UNCHANGED <<bus, stored>>
        /\ m # 0 => /\ bus[b].item = x.item /\ m <= bus[b].size
                    /\ stored' = [stored EXCEPT ![p] = Put(@, x.item, m)]
                    /\ bus' = [bus EXCEPT ![b] = Taken(@, m)]
  BY SinkMoves
<1>2. TypeOK /\ StagesOK
  BY DEF Inv
<1>3. /\ reserved \in [BusSlots -> [Places -> Nat]] /\ bus \in [BusSlots -> SlotStacks]
      /\ transfers \in SUBSET Transfers /\ IsFiniteSet(transfers) /\ DOMAIN stored = Places
      /\ content \in [ChestPlaces -> SlotStacks]
      /\ providers \in [Places -> [item : Items \cup {NoItem}, size : Nat, avail : Nat]]
  BY <1>2 DEF TypeOK
<1>4. /\ StagesOK' /\ running /\ transfers' = T /\ ~x.executed
      /\ UNCHANGED <<running, content, providers, reserved, use>>
  BY ExecuteStages
<1>5. /\ SlotsIn(use, providers, reserved, transfers, bus)
      /\ ItemsIn(content, providers, reserved, transfers)
      /\ CoversIn(content, stored, transfers)
      /\ KeptIn(providers, reserved, transfers, stored)
      /\ BackupIn(providers)
  BY <1>4, InvParts
<1>6. /\ T \in SUBSET Transfers /\ IsFiniteSet(T) /\ n \in Nat \ {0} /\ m \in Nat /\ m <= n
      /\ b \in BusSlots /\ p \in Places /\ x.item \in Items /\ use[b] = "inserting"
  <2>1. T \in SUBSET Transfers /\ IsFiniteSet(T) /\ n \in Nat \ {0}
    BY <1>3, <1>4, ExecuteSums
  <2>2. b \in BusSlots /\ p \in Places /\ x.item \in Items
    BY <1>3 DEF Transfers
  <2>3. use[b] = "inserting"
    BY <1>2 DEF StagesOK
  <2> QED
    BY <1>1, <2>1, <2>2, <2>3
<1>7. ASSUME NEW q \in Places
      PROVE  /\ q = p => Arriving(T, q) = Arriving(transfers, q) - n /\ n <= Arriving(transfers, q)
             /\ q # p => Arriving(T, q) = Arriving(transfers, q)
             /\ Leaving(T, q) = Leaving(transfers, q) /\ Gone(T, q) = Gone(transfers, q)
             /\ Arriving(transfers, q) \in Nat /\ Leaving(transfers, q) \in Nat /\ Gone(transfers, q) \in Nat
             /\ Arriving(T, q) \in Nat
             /\ providers[q].avail \in Nat /\ PromisedIn(reserved, q) \in Nat /\ stored[q].size \in Nat
  <2>1. stored[q].size \in Nat
    BY <1>2, StackFacts DEF TypeOK
  <2>2. providers[q].avail \in Nat /\ PromisedIn(reserved, q) \in Nat
    BY <1>3, PromisedFacts
  <2>3. /\ Arriving(T, q) \in Nat /\ Arriving(transfers, q) \in Nat
        /\ Leaving(transfers, q) \in Nat /\ Gone(transfers, q) \in Nat
    BY <1>3, <1>4, ExecuteSums
  <2>4. /\ q = p => Arriving(T, q) = Arriving(transfers, q) - n
        /\ q # p => Arriving(T, q) = Arriving(transfers, q)
    BY <1>3, <1>4, ExecuteSums
  <2>5. Leaving(T, q) = Leaving(transfers, q) /\ Gone(T, q) = Gone(transfers, q)
    BY <1>3, <1>4, ExecuteSums
  <2>6. n <= Arriving(transfers, p)
    BY <1>3, <1>4, TotalType
  <2> QED
    BY <2>1, <2>2, <2>3, <2>4, <2>5, <2>6
\* What the place holds then.
<1>8. /\ \A q \in Places \ {p} : stored'[q] = stored[q]
      /\ stored'[p].size = stored[p].size + m /\ DOMAIN stored' = Places
      /\ m = 0 => stored'[p] = stored[p]
      /\ m # 0 => stored'[p] = [item |-> x.item, size |-> stored[p].size + m]
  <2>1. CASE m = 0
    BY <1>1, <1>3, <1>6, <1>7, <2>1
  <2>2. CASE m # 0
    <3>1. stored' = [stored EXCEPT ![p] = Put(@, x.item, m)]
      BY <1>1, <2>2
    <3> HIDE DEF p
    <3> QED
      BY <1>3, <1>6, <2>2, <3>1 DEF Put
  <2> QED
    BY <2>1, <2>2
<1>9. CoversIn(content', stored', transfers')
  <2> SUFFICES ASSUME NEW q \in ChestPlaces, HeldIn(stored', T, q) > 0
               PROVE  /\ HeldIn(stored', T, q) <= content[q].size
                      /\ stored'[q] # Empty => stored'[q].item = content[q].item
    BY <1>4 DEF CoversIn
  <2>1. q \in Places /\ content[q].size \in Nat
    BY <1>3, PlacesFinite, StackFacts
  <2> HIDE DEF T
  <2>2. CASE q # p
    <3>1. HeldIn(stored', T, q) = HeldIn(stored, transfers, q) /\ stored'[q] = stored[q]
      BY <1>7, <1>8, <2>1, <2>2 DEF HeldIn
    <3> QED
      BY <1>5, <3>1 DEF CoversIn
  <2>3. CASE q = p
    <3>1. /\ Arriving(T, p) = Arriving(transfers, p) - n /\ n <= Arriving(transfers, p)
          /\ Gone(T, p) = Gone(transfers, p)
          /\ Arriving(transfers, p) \in Nat /\ Gone(transfers, p) \in Nat
          /\ stored[p].size \in Nat /\ stored'[p].size = stored[p].size + m
      BY <1>6, <1>7, <1>8
    <3>2. /\ HeldIn(stored', T, p) <= HeldIn(stored, transfers, p) /\ HeldIn(stored, transfers, p) > 0
          /\ HeldIn(stored', T, p) \in Int /\ HeldIn(stored, transfers, p) \in Int
      <4>1. /\ HeldIn(stored', T, p) = stored[p].size + m + (Arriving(transfers, p) - n) + Gone(transfers, p)
            /\ HeldIn(stored, transfers, p) = stored[p].size + Arriving(transfers, p) + Gone(transfers, p)
        BY <3>1 DEF HeldIn
      <4>2. m \in Nat /\ n \in Nat /\ m <= n /\ n > 0
        BY <1>6
      <4> HIDE DEF n
      <4> QED
        BY <3>1, <4>1, <4>2
    <3>3. HeldIn(stored, transfers, p) <= content[p].size /\ (stored[p] # Empty => stored[p].item = content[p].item)
      BY <1>5, <2>3, <3>2 DEF CoversIn
    <3>4. x.item = content[p].item
      BY <1>4, <1>5, <2>3 DEF ItemsIn
    <3>5. stored'[p] # Empty => stored'[p].item = content[p].item
      BY <1>6, <1>8, <3>3, <3>4
    <3> QED
      BY <2>1, <2>3, <3>2, <3>3, <3>5
  <2> QED
    BY <2>2, <2>3
<1>10. p \in ChestPlaces => stored'[p] \in SlotStacks
  <2> SUFFICES ASSUME p \in ChestPlaces PROVE stored'[p] \in SlotStacks
    OBVIOUS
  <2>1. CASE m = 0
    BY <1>2, <1>8, <2>1 DEF TypeOK
  <2>2. CASE m # 0
    <3>1. content[p] \in SlotStacks
      BY <1>3
    <3>2. /\ Arriving(T, p) \in Nat /\ Gone(T, p) = Gone(transfers, p) /\ Gone(transfers, p) \in Nat
          /\ stored[p].size \in Nat /\ stored'[p].size = stored[p].size + m
      BY <1>6, <1>7, <1>8
    <3>3. HeldIn(stored', T, p) > 0 /\ stored'[p].size <= HeldIn(stored', T, p) /\ HeldIn(stored', T, p) \in Nat
      BY <1>6, <2>2, <3>2 DEF HeldIn
    <3>4. HeldIn(stored', T, p) <= content[p].size
      BY <1>4, <1>9, <3>3 DEF CoversIn
    <3>5. content[p].size \in Nat /\ content[p].size <= MaxSize[content[p].item] /\ content[p].size # 0
      BY <3>1, <3>3, <3>4, StackFacts
    <3>6. x.item = content[p].item /\ MaxSize[x.item] \in Nat
      BY <1>4, <1>5, <1>6, StackFacts DEF ItemsIn
    <3>7. stored[p].size + m \in 0 .. MaxSize[x.item] /\ stored[p].size + m # 0
      BY <1>6, <2>2, <3>2, <3>3, <3>4, <3>5, <3>6
    <3>8. stored'[p] = Stack(x.item, stored[p].size + m)
      BY <1>8, <2>2, <3>7 DEF Stack
    <3> QED
      BY <1>6, <3>7, <3>8, StackFacts
  <2> QED
    BY <2>1, <2>2
<1>11. p \notin ChestPlaces => stored'[p] \in [item : {p[2]}, size : Nat]
  <2> SUFFICES ASSUME p \notin ChestPlaces PROVE stored'[p] \in [item : {p[2]}, size : Nat]
    OBVIOUS
  <2>1. x.item = p[2]
    BY <1>5 DEF ItemsIn
  <2>2. stored[p] \in [item : {p[2]}, size : Nat]
    BY <1>2, <1>6 DEF TypeOK
  <2>3. stored[p].size + m \in Nat
    BY <1>6, <1>7
  <2> QED
    BY <1>6, <1>8, <2>1, <2>2, <2>3
\* What the slot holds then.
<1>12. /\ bus' \in [BusSlots -> SlotStacks]
       /\ bus'[b] # Empty => bus[b] # Empty /\ bus'[b].item = bus[b].item
       /\ \A c \in BusSlots \ {b} : bus'[c] = bus[c]
  <2>1. CASE m = 0
    BY <1>1, <1>3, <2>1
  <2>2. CASE m # 0
    <3>1. bus' = [bus EXCEPT ![b] = Taken(@, m)] /\ m <= bus[b].size
      BY <1>1, <2>2
    <3>2. /\ bus[b].size \in Nat /\ bus[b].item \in Items /\ bus[b].size <= MaxSize[bus[b].item]
          /\ MaxSize[bus[b].item] \in Nat /\ bus[b] # Empty
      BY <1>3, <1>6, <2>2, <3>1, StackFacts
    <3>3. bus[b].size - m \in 0 .. MaxSize[bus[b].item]
      BY <1>6, <3>1, <3>2
    <3>4. bus'[b] = Stack(bus[b].item, bus[b].size - m)
      BY <1>3, <1>6, <3>1 DEF Taken
    <3>5. bus'[b] \in SlotStacks
      BY <3>2, <3>3, <3>4, StackFacts
    <3>6. bus'[b] # Empty => bus'[b].item = bus[b].item
      <4>1. bus'[b] # Empty => bus[b].size - m # 0
        BY <3>4, <3>5, StackFacts
      <4> QED
        BY <3>4, <4>1, StackFacts
    <3>7. bus' \in [BusSlots -> SlotStacks]
      BY <1>3, <1>6, <3>1, <3>4, <3>5 DEF Taken
    <3>8. \A c \in BusSlots \ {b} : bus'[c] = bus[c]
      BY <1>3, <3>1
    <3> QED
      BY <3>2, <3>6, <3>7, <3>8
  <2> QED
    BY <2>1, <2>2
<1>13. TypeOK'
  <2>1. \A q \in ChestPlaces : stored'[q] \in SlotStacks
    BY <1>2, <1>8, <1>10, PlacesFinite DEF TypeOK
  <2>2. \A q \in Places \ ChestPlaces : stored'[q] \in [item : {q[2]}, size : Nat]
    BY <1>2, <1>8, <1>11 DEF TypeOK
  <2> QED
    BY <1>2, <1>4, <1>6, <1>8, <1>12, <2>1, <2>2 DEF TypeOK
<1> HIDE DEF T
<1>14. KeptIn(providers', reserved', transfers', stored')
  <2> SUFFICES ASSUME NEW q \in Places
               PROVE  providers[q].avail + PromisedIn(reserved, q) + Leaving(T, q) <= stored'[q].size
    BY <1>4 DEF KeptIn
  <2>1. providers[q].avail + PromisedIn(reserved, q) + Leaving(transfers, q) <= stored[q].size
    BY <1>5 DEF KeptIn
  <2>2. stored'[q].size >= stored[q].size /\ stored'[q].size \in Nat
    BY <1>6, <1>7, <1>8
  <2> QED
    BY <1>7, <2>1, <2>2
<1>15. ItemsIn(content', providers', reserved', transfers')
  <2>1. \A q \in Places : ClaimedIn(providers, reserved, T, q) = ClaimedIn(providers, reserved, transfers, q)
    BY <1>7 DEF ClaimedIn
  <2>2. ASSUME NEW z \in T
        PROVE  /\ z.kind = "extract" => z.item = providers[z.place].item
               /\ z.kind = "sink" /\ z.place \notin ChestPlaces => z.item = z.place[2]
               /\ z.kind = "sink" /\ z.place \in ChestPlaces /\ ~z.executed => z.item = content[z.place].item
    <3>1. PICK w \in transfers :
            /\ z.kind = w.kind /\ z.slot = w.slot /\ z.place = w.place /\ z.item = w.item
            /\ z.executed \/ z = w
      BY <1>3, DoneItems DEF T
    <3> QED
      BY <1>5, <3>1 DEF ItemsIn
  <2> QED
    BY <1>4, <1>5, <2>1, <2>2 DEF ItemsIn
<1>16. SlotsIn(use', providers', reserved', transfers', bus')
  <2>1. ASSUME NEW c \in BusSlots, use[c] \in {"waiting", "loading", "failed"}
        PROVE  \E j \in Items : FitsIn(providers, reserved, T, bus', c, j)
    <3>1. PICK j \in Items : FitsIn(providers, reserved, transfers, bus, c, j)
      BY <1>5, <2>1 DEF SlotsIn
    <3>2. \A q : ComingIn(T, c, q) = ComingIn(transfers, c, q)
      BY <1>3, <1>4, ExecuteSums DEF T
    <3>3. PendingIn(reserved, T, c) = PendingIn(reserved, transfers, c)
      BY <3>2 DEF PendingIn
    <3>4. ASSUME NEW z \in T, z.kind = "extract", z.slot = c PROVE z.item = j
      <4>1. PICK w \in transfers :
            /\ z.kind = w.kind /\ z.slot = w.slot /\ z.place = w.place /\ z.item = w.item
            /\ z.executed \/ z = w
        BY <1>3, DoneItems DEF T
      <4> QED
        BY <3>1, <3>4, <4>1 DEF FitsIn
    <3>5. bus'[c] = bus[c]
      BY <1>6, <1>12, <2>1
    <3>6. FitsIn(providers, reserved, T, bus', c, j)
      BY <3>1, <3>3, <3>4, <3>5 DEF FitsIn
    <3> QED
      BY <3>6
  <2>2. ASSUME NEW z \in T, z.kind = "sink", bus'[z.slot] # Empty PROVE bus'[z.slot].item = z.item
    <3>1. PICK w \in transfers :
            /\ z.kind = w.kind /\ z.slot = w.slot /\ z.place = w.place /\ z.item = w.item
            /\ z.executed \/ z = w
      BY <1>3, DoneItems DEF T
    <3>2. z.slot \in BusSlots
      BY <1>6 DEF Transfers
    <3>3. bus[z.slot] # Empty /\ bus'[z.slot].item = bus[z.slot].item
      BY <1>12, <2>2, <3>2
    <3> QED
      BY <1>5, <2>2, <3>1, <3>3 DEF SlotsIn
  <2> QED
    BY <1>4, <2>1, <2>2 DEF SlotsIn
<1> QED
  BY <1>4, <1>5, <1>9, <1>13, <1>14, <1>15, <1>16, InvPartsNext
-----------------------------------------------------------------------------
(***************************************************************************)
(* Insertion.                                                              *)
(***************************************************************************)
\* A chest with room for an item has a slot to sink it to.
LEMMA ChestSink ==
    ASSUME NEW c \in [ChestPlaces -> SlotStacks], NEW s \in ToSet(Chests), NEW i \in Items,
           PartSlots(c, s, i) # {} \/ FreeSlots(c, s) # {}
    PROVE  LET p == SlotToSink(c, s, i) IN
           /\ p \in ChestPlaces /\ (Room(c, p, i) \/ c[p] = Empty)
           /\ PartSlots(c, s, i) # {} => c[p].size \in 0 .. MaxSize[i]
<1> DEFINE part == PartSlots(c, s, i)
           free == FreeSlots(c, s)
           fullest == {p \in part : \A q \in part : c[q].size <= c[p].size}
<1>1. \A p \in SlotsOf(s) : p \in ChestPlaces /\ p[2] \in Nat /\ p[2] <= ChestSlots
  BY StoragesAssumption DEF SlotsOf, ChestPlaces
<1>2. part \subseteq SlotsOf(s) /\ free \subseteq SlotsOf(s) /\ MaxSize[i] \in Nat
  BY ItemsAssumption DEF PartSlots, FreeSlots
<1>3. \A p \in part : c[p].size \in Nat /\ c[p].size <= MaxSize[i]
  BY <1>1, <1>2, StackFacts DEF PartSlots, Room
<1>4. CASE part # {}
  <2>1. fullest # {}
    <3> DEFINE S == {c[p].size : p \in part}
    <3>1. S \in SUBSET Nat /\ S # {} /\ \A n \in S : n <= MaxSize[i]
      BY <1>3, <1>4
    <3> HIDE DEF S
    <3>2. PICK m \in S : \A n \in S : n <= m
      BY <1>2, <3>1, GreatestNumber
    <3> USE DEF S
    <3>3. PICK p \in part : m = c[p].size
      BY <3>2
    <3>4. \A q \in part : c[q].size <= c[p].size
      BY <3>2, <3>3
    <3> QED
      BY <3>4
  <2>2. \E p \in fullest : \A q \in fullest : p[2] <= q[2]
    <3> DEFINE S == {p[2] : p \in fullest}
    <3>1. S \in SUBSET Nat /\ S # {}
      BY <1>1, <1>2, <2>1
    <3> HIDE DEF S
    <3>2. PICK m \in S : \A n \in S : m <= n
      BY <3>1, LeastNatural
    <3> USE DEF S
    <3> QED
      BY <3>2
  <2>3. SlotToSink(c, s, i) = CHOOSE p \in fullest : \A q \in fullest : p[2] <= q[2]
    BY <1>4 DEF SlotToSink
  <2> HIDE DEF fullest
  <2>4. SlotToSink(c, s, i) \in fullest
    BY <2>2, <2>3
  <2>5. SlotToSink(c, s, i) \in part
    BY <2>4 DEF fullest
  <2> QED
    BY <1>1, <1>2, <1>3, <2>5 DEF PartSlots
<1>5. CASE part = {}
  <2>1. \E p \in free : \A q \in free : q[2] <= p[2]
    <3> DEFINE S == {p[2] : p \in free}
    <3>1. S \in SUBSET Nat /\ S # {} /\ \A n \in S : n <= ChestSlots
      BY <1>1, <1>2, <1>5
    <3> HIDE DEF S
    <3>2. PICK m \in S : \A n \in S : n <= m
      BY StoragesAssumption, <3>1, GreatestNumber
    <3> USE DEF S
    <3> QED
      BY <3>2
  <2>2. SlotToSink(c, s, i) = CHOOSE p \in free : \A q \in free : q[2] <= p[2]
    BY <1>5 DEF SlotToSink
  <2> HIDE DEF free
  <2>3. SlotToSink(c, s, i) \in free
    BY <2>1, <2>2
  <2> QED
    BY <1>1, <1>2, <1>5, <2>3 DEF free, FreeSlots
<1> QED
  BY <1>4, <1>5

\* The storages are the chests, the drawers and the ME network.
LEMMA StoragesAre ==
    /\ Len(Storages) \in Nat /\ DOMAIN Storages = 1 .. Len(Storages) /\ Len(Storages) > 0
    /\ \A k \in DOMAIN Storages :
         \/ Storages[k] \in ToSet(Chests)
         \/ Storages[k] = "drawer"
         \/ Storages[k] = "me" /\ HasME
<1> DEFINE N == ToSet(Chests) \cup {"drawer", "me"}
           drawer == <<"drawer">>
           me == IF HasME THEN <<"me">> ELSE <<>>
           most == Chests \o drawer
<1>1. Chests \in Seq(N)
  <2>1. Len(Chests) \in Nat /\ DOMAIN Chests = 1 .. Len(Chests)
    BY StoragesAssumption
  <2>2. \A k \in 1 .. Len(Chests) : Chests[k] \in N
    BY <2>1 DEF ToSet
  <2>3. Chests \in Seq(STRING)
    BY StoragesAssumption
  <2> QED
    BY <2>1, <2>2, <2>3
<1>2. /\ drawer \in Seq(N) /\ me \in Seq(N)
      /\ ToSet(drawer) = {"drawer"} /\ Len(drawer) = 1
      /\ ToSet(me) \subseteq {"me"} /\ (~HasME => ToSet(me) = {})
      /\ Len(me) \in Nat /\ Len(Chests) \in Nat
  <2>1. "drawer" \in N /\ "me" \in N
    OBVIOUS
  <2> HIDE DEF N
  <2> QED
    BY <2>1, StoragesAssumption DEF ToSet
<1>4. Storages = most \o me
  <2>1. Storages = Chests \o <<"drawer">> \o (IF HasME THEN <<"me">> ELSE <<>>)
    BY DEF Storages
  <2> QED
    BY <2>1
<1> HIDE DEF N, drawer, me
<1>3. /\ most \in Seq(N) /\ Len(most) = Len(Chests) + Len(drawer)
      /\ ToSet(most) = ToSet(Chests) \cup ToSet(drawer)
  <2>1. most \in Seq(N) /\ Len(most) = Len(Chests) + Len(drawer)
    BY <1>1, <1>2, ConcatProperties
  <2>2. ToSet(Chests \o drawer) = ToSet(Chests) \cup ToSet(drawer)
    BY <1>1, <1>2, SequenceSet
  <2> QED
    BY <2>1, <2>2
<1> HIDE DEF most
<1>5. /\ Storages \in Seq(N) /\ Len(Storages) = Len(most) + Len(me)
      /\ ToSet(Storages) = ToSet(most) \cup ToSet(me)
  <2>1. most \o me \in Seq(N) /\ Len(most \o me) = Len(most) + Len(me)
    BY <1>2, <1>3, ConcatProperties
  <2>2. ToSet(most \o me) = ToSet(most) \cup ToSet(me)
    BY <1>2, <1>3, SequenceSet
  <2> QED
    BY <1>4, <2>1, <2>2
<1>6. \A k \in DOMAIN Storages : Storages[k] \in ToSet(Storages)
  BY DEF ToSet
<1>7. Len(Storages) \in Nat /\ Len(Storages) > 0 /\ DOMAIN Storages = 1 .. Len(Storages)
  BY <1>2, <1>3, <1>5
<1> QED
  BY <1>2, <1>3, <1>5, <1>6, <1>7

\* Priorities are bounded numbers; those of chests tell whether there is room.
LEMMA PriorityFacts ==
    ASSUME NEW c \in [ChestPlaces -> SlotStacks], NEW i \in Items, NEW k \in DOMAIN Storages
    PROVE  LET s == Storages[k] IN
           /\ SinkPriority(c, s, i) \in 0 .. 3 + MaxSize[i]
           /\ s \in ToSet(Chests) /\ SinkPriority(c, s, i) # 0 =>
                PartSlots(c, s, i) # {} \/ FreeSlots(c, s) # {}
           /\ s = "drawer" /\ SinkPriority(c, s, i) # 0 => i \in Filtered
<1> DEFINE s == Storages[k]
<1>1. MaxSize[i] \in Nat
  BY ItemsAssumption
<1>2. s \in ToSet(Chests) \/ s = "drawer" \/ s = "me"
  BY StoragesAre
<1>3. "drawer" \notin ToSet(Chests) /\ "me" \notin ToSet(Chests)
  BY StoragesAssumption
<1> HIDE DEF s
<1>4. CASE s = "drawer"
  <2>1. SinkPriority(c, s, i) = IF i \in Filtered THEN 3 + MaxSize[i] ELSE 0
    BY <1>4 DEF SinkPriority
  <2> QED
    BY <1>1, <1>3, <1>4, <2>1 DEF s
<1>5. CASE s = "me"
  <2>1. SinkPriority(c, s, i) = 1
    BY <1>5 DEF SinkPriority
  <2> QED
    BY <1>1, <1>3, <1>5, <2>1 DEF s
<1>6. CASE s \in ToSet(Chests)
  <2>1. s # "drawer" /\ s # "me"
    BY <1>3, <1>6
  <2>2. SinkPriority(c, s, i) = IF PartSlots(c, s, i) # {} THEN 2 + c[SlotToSink(c, s, i)].size
                                ELSE IF FreeSlots(c, s) # {} THEN 2 ELSE 0
    BY <2>1 DEF SinkPriority
  <2>3. PartSlots(c, s, i) # {} => c[SlotToSink(c, s, i)].size \in 0 .. MaxSize[i]
    BY <1>6, ChestSink
  <2>4. SinkPriority(c, s, i) \in 0 .. 3 + MaxSize[i]
    BY <1>1, <2>2, <2>3
  <2>5. SinkPriority(c, s, i) # 0 => PartSlots(c, s, i) # {} \/ FreeSlots(c, s) # {}
    BY <2>2
  <2> QED
    BY <2>1, <2>4, <2>5 DEF s
<1> QED
  BY <1>2, <1>4, <1>5, <1>6 DEF s

\* The best storage is one of them.
LEMMA BestIsStorage ==
    ASSUME NEW c \in [ChestPlaces -> SlotStacks], NEW i \in Items
    PROVE  \E k \in DOMAIN Storages : BestStorage(c, i) = Storages[k]
<1> DEFINE prio(k) == SinkPriority(c, Storages[k], i)
           best(k) == \A m \in DOMAIN Storages : prio(m) <= prio(k) /\ (m < k => prio(m) < prio(k))
           S == {prio(k) : k \in DOMAIN Storages}
<1>1. DOMAIN Storages \in SUBSET Nat /\ DOMAIN Storages # {} /\ 3 + MaxSize[i] \in Nat
  <2>1. Len(Storages) \in Nat /\ DOMAIN Storages = 1 .. Len(Storages) /\ Len(Storages) > 0
    BY StoragesAre
  <2>2. 1 \in DOMAIN Storages
    BY <2>1
  <2>3. DOMAIN Storages \subseteq Nat
    BY <2>1
  <2> QED
    BY <2>2, <2>3, ItemsAssumption
<1>2. \A k \in DOMAIN Storages : prio(k) \in 0 .. 3 + MaxSize[i]
  BY PriorityFacts
<1> HIDE DEF prio
<1>3. S \in SUBSET Nat /\ S # {} /\ \A n \in S : n <= 3 + MaxSize[i]
  BY <1>1, <1>2
<1> HIDE DEF S
<1>4. PICK m \in S : \A n \in S : n <= m
  BY <1>1, <1>3, GreatestNumber
<1> DEFINE K == {k \in DOMAIN Storages : prio(k) = m}
<1>5. K \in SUBSET Nat /\ K # {}
  BY <1>1, <1>4 DEF S
<1> HIDE DEF K
<1>6. PICK k \in K : \A l \in K : k <= l
  BY <1>5, LeastNatural
<1>7. \A l \in DOMAIN Storages : prio(l) \in Nat /\ prio(l) <= m /\ l \in Nat
  BY <1>1, <1>2, <1>4 DEF S
<1>8. best(k)
  BY <1>6, <1>7 DEF K
<1>9. k \in DOMAIN Storages
  BY <1>6 DEF K
<1>10. BestStorage(c, i) = Storages[CHOOSE l \in DOMAIN Storages : best(l)]
  BY DEF BestStorage, prio
<1> HIDE DEF best
<1>11. (CHOOSE l \in DOMAIN Storages : best(l)) \in DOMAIN Storages
  BY <1>8, <1>9
<1> QED
  BY <1>10, <1>11

\* The place that a round of insertItem chooses has room for the item.
LEMMA SinkPlace ==
    ASSUME NEW c \in [ChestPlaces -> SlotStacks], NEW i \in Items,
           SinkPriority(c, BestStorage(c, i), i) # 0
    PROVE  LET s == BestStorage(c, i)
               p == IF s \in ToSet(Chests) THEN SlotToSink(c, s, i) ELSE <<s, i>>
           IN /\ p \in Places
              /\ p \in ChestPlaces => Room(c, p, i) \/ c[p] = Empty
              /\ p \notin ChestPlaces => p[2] = i
<1>1. PICK k \in DOMAIN Storages : BestStorage(c, i) = Storages[k]
  BY BestIsStorage
<1> DEFINE s == Storages[k]
<1>2. CASE s \in ToSet(Chests)
  <2>1. PartSlots(c, s, i) # {} \/ FreeSlots(c, s) # {}
    BY <1>1, <1>2, PriorityFacts
  <2> HIDE DEF s
  <2>2. SlotToSink(c, s, i) \in ChestPlaces /\ (Room(c, SlotToSink(c, s, i), i) \/ c[SlotToSink(c, s, i)] = Empty)
    BY <1>2, <2>1, ChestSink
  <2> QED
    BY <1>1, <1>2, <2>2, PlacesFinite DEF s
<1>3. CASE s \notin ToSet(Chests)
  <2>1. s = "drawer" \/ (s = "me" /\ HasME)
    BY <1>3, StoragesAre
  <2>2. s = "drawer" => i \in Filtered
    BY <1>1, PriorityFacts
  <2> HIDE DEF s
  <2>3. <<s, i>> \in Places /\ <<s, i>> \notin ChestPlaces
    BY <1>3, <2>1, <2>2 DEF Places, ChestPlaces, DrawerPlaces, MEPlaces
  <2> QED
    BY <1>1, <1>3, <2>3 DEF s
<1> QED
  BY <1>2, <1>3

\* What is so of the rest of the stack in slot b, of the accounts and of what
\* was sent after every round of insertItem.
Sinking(x, b) ==
    /\ x.rest \in SlotStacks /\ (x.rest # Empty => x.rest.item = bus[b].item)
    /\ x.content \in [ChestPlaces -> SlotStacks]
    /\ x.sent \subseteq Transfers /\ IsFiniteSet(x.sent)
    /\ \A y \in x.sent :
         /\ y.kind = "sink" /\ y.slot = b /\ y.item = bus[b].item /\ y.executed = FALSE
         /\ y.place \notin ChestPlaces => y.place[2] = y.item
         /\ y.place \in ChestPlaces => x.content[y.place].item = y.item
    /\ \A p \in ChestPlaces : content[p].size + Arriving(x.sent, p) <= x.content[p].size
    /\ \A p \in ChestPlaces : content[p] # Empty => x.content[p].item = content[p].item

\* A round of insertItem keeps this.
LEMMA SinkingStep ==
    ASSUME TypeOK, NEW b \in BusSlots, NEW x, Sinking(x, b) PROVE Sinking(SinkOne(x, b), b)
<1> DEFINE i == x.rest.item
           c == x.content
           s == BestStorage(c, i)
           p == IF s \in ToSet(Chests) THEN SlotToSink(c, s, i) ELSE <<s, i>>
           room == MaxSize[i] - c[p].size
           n == IF p \in ChestPlaces /\ c[p] # Empty /\ room < x.rest.size THEN room ELSE x.rest.size
           y == Transfer("sink", b, p, i, n)
           z == [rest |-> Stack(i, x.rest.size - n),
                 content |-> IF p \in ChestPlaces THEN Sunk(c, p, i, n) ELSE c,
                 sent |-> x.sent \cup {y}]
<1>1. CASE x.rest = Empty \/ SinkPriority(c, s, i) = 0
  BY <1>1 DEF SinkOne
<1>2. CASE x.rest # Empty /\ SinkPriority(c, s, i) # 0
  <2>1. SinkOne(x, b) = z
    BY <1>2 DEF SinkOne
  <2>2. i \in Items /\ i = bus[b].item /\ x.rest.size \in 1 .. MaxSize[i] /\ MaxSize[i] \in Nat
        /\ x.rest.size \in Nat /\ c \in [ChestPlaces -> SlotStacks]
    BY <1>2, StackFacts DEF Sinking
  <2>3. /\ p \in Places
        /\ p \in ChestPlaces => Room(c, p, i) \/ c[p] = Empty
        /\ p \notin ChestPlaces => p[2] = i
    BY <1>2, <2>2, SinkPlace
  <2> HIDE DEF p
  <2>4. p \in ChestPlaces => c[p] \in SlotStacks /\ c[p].size \in Nat /\ (c[p] = Empty <=> c[p].size = 0)
    BY <2>2, StackFacts
  <2>5. p \in ChestPlaces /\ c[p] # Empty => c[p].item = i /\ c[p].size < MaxSize[i]
    BY <2>3 DEF Room
  <2>6. n \in 1 .. x.rest.size /\ (p \in ChestPlaces => c[p].size + n \in 1 .. MaxSize[i])
    BY <2>2, <2>4, <2>5
  <2> HIDE DEF n, i, c
  <2>7. n \in Nat \ {0} /\ x.rest.size - n \in 0 .. MaxSize[i]
    BY <2>2, <2>6
  <2>8. z.rest \in SlotStacks /\ (z.rest # Empty => z.rest.item = bus[b].item)
    <3>1. Stack(i, x.rest.size - n) \in SlotStacks
      BY <2>2, <2>7, StackFacts
    <3>2. x.rest.size - n = 0 => Stack(i, x.rest.size - n) = Empty
      BY DEF Stack
    <3>3. x.rest.size - n # 0 => Stack(i, x.rest.size - n).item = i
      BY StackFacts
    <3> QED
      BY <2>2, <3>1, <3>2, <3>3
  <2>9. z.content \in [ChestPlaces -> SlotStacks]
    <3>1. p \in ChestPlaces => Stack(i, c[p].size + n) \in SlotStacks
      BY <2>2, <2>6, StackFacts
    <3> QED
      BY <2>2, <3>1 DEF Sunk
  <2>10. y \in Transfers
    BY <2>2, <2>3, <2>7 DEF Transfer, Transfers
  <2>11. /\ y.kind = "sink" /\ y.slot = b /\ y.item = i /\ y.executed = FALSE /\ y.place = p
         /\ y.size = n
    BY DEF Transfer
  <2>12. z.sent \subseteq Transfers /\ IsFiniteSet(z.sent)
    <3>1. x.sent \subseteq Transfers /\ IsFiniteSet(x.sent)
      BY DEF Sinking
    <3> HIDE DEF y
    <3> QED
      BY <2>10, <3>1, FS_AddElement
\* What the account of a chest shows.
  <2>13. ASSUME NEW q \in ChestPlaces
         PROVE  /\ q # p => z.content[q] = c[q]
                /\ q = p => z.content[q].size = c[p].size + n /\ z.content[q].item = i
    <3>1. CASE q # p
      BY <2>2, <3>1 DEF Sunk
    <3>2. CASE q = p
      <4>1. z.content[q] = Stack(i, c[p].size + n) /\ c[p].size + n # 0
        BY <2>2, <2>6, <3>2 DEF Sunk
      <4> QED
        BY <3>2, <4>1, StackFacts
    <3> QED
      BY <3>1, <3>2
  <2>14. ASSUME NEW w \in z.sent
         PROVE  /\ w.kind = "sink" /\ w.slot = b /\ w.item = bus[b].item /\ w.executed = FALSE
                /\ w.place \notin ChestPlaces => w.place[2] = w.item
                /\ w.place \in ChestPlaces => z.content[w.place].item = w.item
    <3>1. CASE w = y
      BY <2>2, <2>3, <2>11, <2>13, <3>1
    <3>2. CASE w \in x.sent
      <4>1. /\ w.kind = "sink" /\ w.slot = b /\ w.item = bus[b].item /\ w.executed = FALSE
            /\ w.place \notin ChestPlaces => w.place[2] = w.item
            /\ w.place \in ChestPlaces => c[w.place].item = w.item
        BY <3>2 DEF Sinking, c
      <4>2. w.place \in ChestPlaces => z.content[w.place].item = w.item
        BY <2>2, <2>13, <4>1
      <4> QED
        BY <4>1, <4>2
    <3> QED
      BY <2>14, <3>1, <3>2
  <2>15. ASSUME NEW q \in ChestPlaces
         PROVE  content[q].size + Arriving(z.sent, q) <= z.content[q].size
    <3>1. /\ content[q].size + Arriving(x.sent, q) <= c[q].size
          /\ x.sent \in SUBSET Transfers /\ IsFiniteSet(x.sent)
      BY DEF Sinking, c
    <3>2. content[q].size \in Nat /\ c[q].size \in Nat
      BY <2>2, StackFacts DEF TypeOK
    <3> DEFINE U == x.sent \cup {y}
    <3> HIDE DEF y
    <3>3. /\ SizeOf(x.sent \cap SinksTo(q)) \in Nat /\ SizeOf(U \cap SinksTo(q)) \in Nat
          /\ y \in SinksTo(q) => SizeOf(U \cap SinksTo(q)) <= SizeOf(x.sent \cap SinksTo(q)) + y.size
          /\ y \notin SinksTo(q) => SizeOf(U \cap SinksTo(q)) = SizeOf(x.sent \cap SinksTo(q))
      BY <2>10, <3>1, PartAdd
    <3>4. Arriving(x.sent, q) = SizeOf(x.sent \cap SinksTo(q))
      BY <3>1, Where
    <3>5. Arriving(U, q) = SizeOf(U \cap SinksTo(q))
      BY <2>12, Where
    <3>6. y \in SinksTo(q) <=> q = p
      BY <2>10, <2>11 DEF SinksTo
    <3>7. z.sent = U /\ n \in Nat /\ y.size = n
      BY <2>7, <2>11
    <3> HIDE DEF z, U
    <3>8. Arriving(U, q) \in Nat /\ Arriving(x.sent, q) \in Nat
      BY <3>3, <3>4, <3>5
    <3>9. CASE q = p
      <4>1. Arriving(U, q) <= Arriving(x.sent, q) + n
        BY <3>3, <3>4, <3>5, <3>6, <3>7, <3>9
      <4>2. z.content[q].size = c[q].size + n
        BY <2>13, <3>9
      <4> QED
        BY <3>1, <3>2, <3>7, <3>8, <4>1, <4>2
    <3>10. CASE q # p
      <4>1. Arriving(U, q) = Arriving(x.sent, q)
        BY <3>3, <3>4, <3>5, <3>6, <3>10
      <4>2. z.content[q].size = c[q].size
        BY <2>13, <3>10
      <4> QED
        BY <3>1, <3>2, <3>7, <3>8, <4>1, <4>2
    <3> QED
      BY <3>9, <3>10
  <2>16. ASSUME NEW q \in ChestPlaces, content[q] # Empty PROVE z.content[q].item = content[q].item
    <3>1. c[q].item = content[q].item
      BY <2>16 DEF Sinking, c
    <3>2. CASE q = p
      <4>1. content[q].size + Arriving(x.sent, q) <= c[q].size
        BY DEF Sinking, c
      <4>2. content[q].size \in Nat \ {0} /\ c[q].size \in Nat /\ Arriving(x.sent, q) \in Nat
        BY <2>2, <2>16, StackFacts, TotalType DEF TypeOK, Sinking
      <4>3. c[q] # Empty
        BY <4>1, <4>2, <2>4, <3>2
      <4> QED
        BY <2>5, <2>13, <3>1, <3>2, <4>3
    <3>3. CASE q # p
      BY <2>13, <3>1, <3>3
    <3> QED
      BY <3>2, <3>3
  <2> HIDE DEF z
  <2> QED
    BY <2>1, <2>8, <2>9, <2>12, <2>14, <2>15, <2>16 DEF Sinking
<1> QED
  BY <1>1, <1>2

\* The rounds of insertItem, as a function of their number.
Rounds(b, f) ==
    f = [k \in 0 .. bus[b].size |->
           IF k = 0 THEN [rest |-> bus[b], content |-> content, sent |-> {}] ELSE SinkOne(f[k - 1], b)]

\* There are such rounds: SinkAll takes the last of them.
LEMMA RoundsExist ==
    ASSUME TypeOK, NEW b \in BusSlots
    PROVE  \E f : Rounds(b, f) /\ SinkAll(b) = f[bus[b].size]
<1> DEFINE start == [rest |-> bus[b], content |-> content, sent |-> {}]
           upTo(n, f) == f = [k \in 0 .. n |-> IF k = 0 THEN start ELSE SinkOne(f[k - 1], b)]
           K == {n \in Nat : \E f : upTo(n, f)}
<1> HIDE DEF start
<1>1. 0 \in K
  <2> DEFINE f == [k \in 0 .. 0 |-> start]
  <2>1. f = [k \in 0 .. 0 |-> IF k = 0 THEN start ELSE SinkOne(f[k - 1], b)]
    OBVIOUS
  <2> QED
    BY <2>1
<1>2. ASSUME NEW n \in Nat, n \in K PROVE n + 1 \in K
  <2>1. PICK f : upTo(n, f)
    BY <1>2
  <2> DEFINE g == [k \in 0 .. n + 1 |-> IF k <= n THEN f[k] ELSE SinkOne(f[n], b)]
             h == [k \in 0 .. n + 1 |-> IF k = 0 THEN start ELSE SinkOne(g[k - 1], b)]
  <2>2. \A k \in 0 .. n : f[k] = IF k = 0 THEN start ELSE SinkOne(f[k - 1], b)
    BY <2>1
  <2>3. ASSUME NEW k \in 0 .. n + 1 PROVE g[k] = h[k]
    <3>1. CASE k = 0
      BY <2>2, <3>1
    <3>2. CASE k \in 1 .. n
      <4>1. k - 1 \in 0 .. n + 1 /\ k - 1 <= n /\ k \in 0 .. n /\ k # 0
        BY <3>2
      <4>2. g[k - 1] = f[k - 1] /\ g[k] = f[k]
        BY <4>1
      <4>3. f[k] = SinkOne(f[k - 1], b)
        BY <2>2, <4>1
      <4> QED
        BY <4>1, <4>2, <4>3
    <3>3. CASE k = n + 1
      <4>1. k - 1 = n /\ n \in 0 .. n + 1 /\ k # 0 /\ ~(k <= n)
        BY <3>3
      <4>2. g[n] = f[n] /\ g[k] = SinkOne(f[n], b)
        BY <4>1
      <4> QED
        BY <4>1, <4>2
    <3> QED
      BY <3>1, <3>2, <3>3
  <2>4. g = h
    BY <2>3
  <2>5. upTo(n + 1, g)
    BY <2>4
  <2> HIDE DEF upTo
  <2> QED
    BY <2>5
<1>3. Nat \subseteq K
  <2> HIDE DEF K
  <2> QED
    BY <1>1, <1>2, NumberInduction
<1>4. bus[b].size \in Nat
  BY StackFacts DEF TypeOK
<1>5. \E f : Rounds(b, f)
  BY <1>3, <1>4 DEF start, Rounds
<1>6. SinkAll(b) = (CHOOSE f : Rounds(b, f))[bus[b].size]
  BY DEF SinkAll, Rounds
<1> QED
  BY <1>5, <1>6

\* Hence it is so in the end.
LEMMA SinkAllFacts == ASSUME TypeOK, NEW b \in BusSlots PROVE Sinking(SinkAll(b), b)
<1>1. PICK f : Rounds(b, f) /\ SinkAll(b) = f[bus[b].size]
  BY RoundsExist
<1>2. bus[b].size \in Nat
  BY StackFacts DEF TypeOK
<1>3. /\ f[0] = [rest |-> bus[b], content |-> content, sent |-> {}]
      /\ \A k \in 1 .. bus[b].size : f[k] = SinkOne(f[k - 1], b)
  <2> DEFINE start == [rest |-> bus[b], content |-> content, sent |-> {}]
  <2>1. f = [k \in 0 .. bus[b].size |-> IF k = 0 THEN start ELSE SinkOne(f[k - 1], b)]
    BY <1>1 DEF Rounds
  <2> HIDE DEF start
  <2>2. \A k \in 0 .. bus[b].size : f[k] = IF k = 0 THEN start ELSE SinkOne(f[k - 1], b)
    BY <2>1
  <2>3. f[0] = start
    BY <1>2, <2>2
  <2>4. \A k \in 1 .. bus[b].size : f[k] = SinkOne(f[k - 1], b)
    BY <1>2, <2>2
  <2> QED
    BY <2>3, <2>4 DEF start
<1> DEFINE K == {k \in Nat : k <= bus[b].size => Sinking(f[k], b)}
<1>4. 0 \in K
  <2> DEFINE x == f[0]
  <2>1. x.rest = bus[b] /\ x.content = content /\ x.sent = {}
    BY <1>3
  <2>2. IsFiniteSet({})
    BY FS_EmptySet
  <2>3. \A p : Arriving({}, p) = 0
    BY NothingPending
  <2>4. bus[b] \in SlotStacks /\ content \in [ChestPlaces -> SlotStacks]
    BY DEF TypeOK
  <2>5. \A p \in ChestPlaces : content[p].size \in Nat
    BY <2>4, StackFacts
  <2> HIDE DEF x
  <2>6. Sinking(x, b)
    BY <2>1, <2>2, <2>3, <2>4, <2>5 DEF Sinking
  <2> QED
    BY <2>6 DEF x
<1>5. ASSUME NEW k \in Nat, k \in K PROVE k + 1 \in K
  <2> SUFFICES ASSUME k + 1 <= bus[b].size PROVE Sinking(f[k + 1], b)
    OBVIOUS
  <2>1. Sinking(f[k], b)
    BY <1>2, <1>5
  <2>2. f[k + 1] = SinkOne(f[k], b)
    <3>1. k + 1 \in 1 .. bus[b].size /\ (k + 1) - 1 = k
      BY <1>2
    <3> QED
      BY <1>3, <3>1
  <2>3. Sinking(SinkOne(f[k], b), b)
    BY <2>1, SinkingStep
  <2> QED
    BY <2>2, <2>3
<1>6. Nat \subseteq K
  <2> HIDE DEF K
  <2> QED
    BY <1>4, <1>5, NumberInduction
<1> QED
  BY <1>1, <1>2, <1>6

\* What is in a slot of the bus is put into the storages.
LEMMA InsertInv == ASSUME Inv, NEW b \in BusSlots, Insert(b) PROVE Inv'
<1> DEFINE done == SinkAll(b)
           new == done.sent
           T == transfers \cup new
<1>1. /\ running /\ use[b] = "left" /\ content' = done.content /\ transfers' = T
      /\ use' = [use EXCEPT ![b] = "inserting"]
      /\ UNCHANGED <<running, providers, reserved, bus, stored>>
  BY DEF Insert
<1>2. TypeOK /\ StagesOK
  BY DEF Inv
<1>3. Sinking(done, b)
  BY <1>2, SinkAllFacts
<1>4. /\ reserved \in [BusSlots -> [Places -> Nat]] /\ bus \in [BusSlots -> SlotStacks]
      /\ transfers \in SUBSET Transfers /\ IsFiniteSet(transfers)
      /\ use \in [BusSlots -> {"free", "waiting", "loading", "failed", "left", "inserting"}]
      /\ providers \in [Places -> [item : Items \cup {NoItem}, size : Nat, avail : Nat]]
      /\ content \in [ChestPlaces -> SlotStacks]
  BY <1>2 DEF TypeOK
<1>5. /\ SlotsIn(use, providers, reserved, transfers, bus)
      /\ ItemsIn(content, providers, reserved, transfers)
      /\ CoversIn(content, stored, transfers)
      /\ KeptIn(providers, reserved, transfers, stored)
      /\ BackupIn(providers)
  BY <1>1, InvParts
<1> HIDE DEF done
<1>6. /\ done.content \in [ChestPlaces -> SlotStacks]
      /\ new \in SUBSET Transfers /\ IsFiniteSet(new)
      /\ \A y \in new :
           /\ y.kind = "sink" /\ y.slot = b /\ y.item = bus[b].item /\ y.executed = FALSE
           /\ y.place \notin ChestPlaces => y.place[2] = y.item
           /\ y.place \in ChestPlaces => done.content[y.place].item = y.item
      /\ \A p \in ChestPlaces : content[p].size + Arriving(new, p) <= done.content[p].size
      /\ \A p \in ChestPlaces : content[p] # Empty => done.content[p].item = content[p].item
  BY <1>3 DEF Sinking
<1>7. T \in SUBSET Transfers /\ IsFiniteSet(T)
  BY <1>4, <1>6, FS_Union
<1>8. \A x \in transfers : x.slot # b
  <2> SUFFICES ASSUME NEW x \in transfers, x.slot = b PROVE FALSE
    OBVIOUS
  <2>1. use[x.slot] \in IF x.kind = "sink" THEN {"inserting"} ELSE {"loading", "failed"}
    BY <1>2 DEF StagesOK
  <2> QED
    BY <1>1, <2>1
<1>9. transfers \cap new = {}
  BY <1>6, <1>8
<1>10. use'[b] = "inserting" /\ \A c \in BusSlots \ {b} : use'[c] = use[c]
  BY <1>1, <1>4
<1> HIDE DEF new
<1>11. ASSUME NEW F
       PROVE  /\ SizeOf(transfers \cap F) \in Nat /\ SizeOf(new \cap F) \in Nat
              /\ SizeOf(T \cap F) = SizeOf(transfers \cap F) + SizeOf(new \cap F)
  <2> DEFINE P == transfers \cap F
             Q == new \cap F
  <2>1. P \in SUBSET Transfers /\ IsFiniteSet(P) /\ Q \in SUBSET Transfers /\ IsFiniteSet(Q)
    BY <1>4, <1>6, FS_Subset
  <2>2. T \cap F = P \cup Q /\ P \cap Q = {}
    BY <1>9
  <2> HIDE DEF P, Q, T
  <2>3. SizeOf(P \cup Q) = SizeOf(P) + SizeOf(Q)
    BY <2>1, <2>2, SizeUnion
  <2>4. SizeOf(P) \in Nat /\ SizeOf(Q) \in Nat
    BY <2>1, SizeFacts
  <2> QED
    BY <2>2, <2>3, <2>4 DEF P, Q
\* What is taken from the places does not change, what arrives grows.
<1>12. ASSUME NEW p
       PROVE  /\ Arriving(T, p) = Arriving(transfers, p) + Arriving(new, p)
              /\ Leaving(T, p) = Leaving(transfers, p) /\ Gone(T, p) = Gone(transfers, p)
              /\ Arriving(transfers, p) \in Nat /\ Arriving(new, p) \in Nat /\ Gone(transfers, p) \in Nat
  <2>1. /\ SentIn(T, "extract", p, FALSE) = SentIn(transfers, "extract", p, FALSE)
        /\ SentIn(T, "extract", p, TRUE) = SentIn(transfers, "extract", p, TRUE)
    BY <1>6 DEF SentIn
  <2>2. /\ Arriving(T, p) = SizeOf(T \cap SinksTo(p))
        /\ Arriving(transfers, p) = SizeOf(transfers \cap SinksTo(p))
        /\ Arriving(new, p) = SizeOf(new \cap SinksTo(p))
    BY <1>4, <1>6, <1>7, Where
  <2>3. /\ SizeOf(T \cap SinksTo(p)) = SizeOf(transfers \cap SinksTo(p)) + SizeOf(new \cap SinksTo(p))
        /\ SizeOf(transfers \cap SinksTo(p)) \in Nat /\ SizeOf(new \cap SinksTo(p)) \in Nat
    BY <1>11
  <2>4. Gone(transfers, p) \in Nat
    BY <1>4, TotalType
  <2> HIDE DEF T
  <2> QED
    BY <2>1, <2>2, <2>3, <2>4 DEF Leaving, Gone
<1>13. ASSUME NEW c \in BusSlots, NEW p PROVE ComingIn(T, c, p) = ComingIn(transfers, c, p)
  BY <1>6 DEF ComingIn
<1>14. TypeOK'
  <2>1. use' \in [BusSlots -> {"free", "waiting", "loading", "failed", "left", "inserting"}]
    BY <1>1, <1>4
  <2> QED
    BY <1>1, <1>2, <1>6, <1>7, <2>1 DEF TypeOK
<1>15. StagesOK'
  <2>1. \A c \in BusSlots : use'[c] # "waiting" => reserved'[c] = Nothing
    BY <1>1, <1>2, <1>10 DEF StagesOK
  <2>2. ASSUME NEW x \in T
        PROVE  use'[x.slot] \in IF x.kind = "sink" THEN {"inserting"} ELSE {"loading", "failed"}
    <3>1. CASE x \in new
      BY <1>6, <1>10, <3>1
    <3>2. CASE x \in transfers
      <4>1. x.slot \in BusSlots \ {b}
        BY <1>4, <1>8, <3>2 DEF Transfers
      <4> QED
        BY <1>2, <1>10, <3>2, <4>1 DEF StagesOK
    <3> QED
      BY <3>1, <3>2
  <2>3. ASSUME NEW x \in T, NEW y \in T,
               x.kind = "extract" /\ y.kind = "extract" /\ x.slot = y.slot /\ x.place = y.place
        PROVE  x = y
    <3>1. x \in transfers /\ y \in transfers
      <4>1. x \notin new /\ y \notin new
        BY <1>6, <2>3
      <4> QED
        BY <4>1
    <3> QED
      BY <1>2, <2>3, <3>1 DEF StagesOK
  <2> QED
    BY <1>1, <2>1, <2>2, <2>3 DEF StagesOK
<1>16. \A p \in ChestPlaces : /\ content[p] \in SlotStacks /\ content[p].size \in Nat
                              /\ done.content[p].size \in Nat
                              /\ content[p] = Empty <=> content[p].size = 0
  BY <1>4, <1>6, StackFacts
<1>17. \A p \in Places : stored[p].size \in Nat
  BY <1>2, StackFacts DEF TypeOK
<1>18. CoversIn(content', stored', transfers')
  <2> SUFFICES ASSUME NEW p \in ChestPlaces, HeldIn(stored, T, p) > 0
               PROVE  /\ HeldIn(stored, T, p) <= done.content[p].size
                      /\ stored[p] # Empty => stored[p].item = done.content[p].item
    BY <1>1 DEF CoversIn
  <2>1. p \in Places /\ stored[p].size \in Nat /\ (stored[p] = Empty <=> stored[p].size = 0)
    BY <1>2, <1>17, PlacesFinite, StackFacts DEF TypeOK
  <2>2. /\ Arriving(T, p) = Arriving(transfers, p) + Arriving(new, p) /\ Gone(T, p) = Gone(transfers, p)
        /\ Arriving(transfers, p) \in Nat /\ Arriving(new, p) \in Nat /\ Gone(transfers, p) \in Nat
        /\ content[p].size + Arriving(new, p) <= done.content[p].size
        /\ content[p].size \in Nat /\ done.content[p].size \in Nat
    BY <1>6, <1>12, <1>16
  <2> HIDE DEF T
  <2>3. /\ HeldIn(stored, T, p) = HeldIn(stored, transfers, p) + Arriving(new, p)
        /\ HeldIn(stored, transfers, p) \in Nat /\ stored[p].size <= HeldIn(stored, transfers, p)
    BY <2>1, <2>2 DEF HeldIn
  <2>4. HeldIn(stored, transfers, p) > 0 => /\ HeldIn(stored, transfers, p) <= content[p].size
                                            /\ stored[p] # Empty => stored[p].item = content[p].item
    BY <1>5 DEF CoversIn
  <2>5. HeldIn(stored, T, p) <= done.content[p].size
    <3>1. HeldIn(stored, transfers, p) <= content[p].size
      BY <2>2, <2>3, <2>4
    <3> QED
      BY <2>2, <2>3, <3>1
  <2>6. ASSUME stored[p] # Empty PROVE stored[p].item = done.content[p].item
    <3>1. HeldIn(stored, transfers, p) > 0
      BY <2>1, <2>3, <2>6
    <3>2. content[p] # Empty /\ stored[p].item = content[p].item
      BY <1>16, <2>2, <2>3, <2>4, <2>6, <3>1
    <3> QED
      BY <1>6, <3>2
  <2> QED
    BY <2>5, <2>6
<1>19. KeptIn(providers', reserved', transfers', stored')
  BY <1>1, <1>5, <1>12 DEF KeptIn
\* Of a chest with something that is claimed, the account shows its item.
<1>20. ItemsIn(content', providers', reserved', transfers')
  <2>1. \A p \in Places : ClaimedIn(providers, reserved, T, p) = ClaimedIn(providers, reserved, transfers, p)
    BY <1>12 DEF ClaimedIn
  <2>2. ASSUME NEW p \in ChestPlaces, ClaimedIn(providers, reserved, transfers, p) > 0
        PROVE  content[p] # Empty
    <3>1. p \in Places /\ stored[p].size \in Nat /\ content[p].size \in Nat
      BY <1>16, <1>17, PlacesFinite
    <3>2. /\ providers[p].avail \in Nat /\ PromisedIn(reserved, p) \in Nat
          /\ Leaving(transfers, p) \in Nat /\ Gone(transfers, p) \in Nat /\ Arriving(transfers, p) \in Nat
      BY <1>4, <3>1, PromisedFacts, TotalType
    <3>3. providers[p].avail + PromisedIn(reserved, p) + Leaving(transfers, p) <= stored[p].size
      BY <1>5, <3>1 DEF KeptIn
    <3>4. HeldIn(stored, transfers, p) > 0 /\ HeldIn(stored, transfers, p) \in Nat
      BY <2>2, <3>1, <3>2, <3>3 DEF ClaimedIn, HeldIn
    <3>5. HeldIn(stored, transfers, p) <= content[p].size
      BY <1>5, <3>4 DEF CoversIn
    <3> QED
      BY <1>16, <3>1, <3>4, <3>5
  <2>3. ASSUME NEW p \in Places, ClaimedIn(providers, reserved, T, p) > 0
        PROVE  providers[p].item = IF p \in ChestPlaces THEN done.content[p].item ELSE p[2]
    <3>1. providers[p].item = IF p \in ChestPlaces THEN content[p].item ELSE p[2]
      BY <1>5, <2>1, <2>3 DEF ItemsIn
    <3>2. p \in ChestPlaces => done.content[p].item = content[p].item
      BY <1>6, <2>1, <2>2, <2>3
    <3> QED
      BY <3>1, <3>2
  <2>4. ASSUME NEW x \in T
        PROVE  /\ x.kind = "extract" => x.item = providers[x.place].item
               /\ x.kind = "sink" /\ x.place \notin ChestPlaces => x.item = x.place[2]
               /\ x.kind = "sink" /\ x.place \in ChestPlaces /\ ~x.executed =>
                    x.item = done.content[x.place].item
    <3>1. CASE x \in new
      BY <1>6, <3>1
    <3>2. CASE x \in transfers
      <4>1. /\ x.kind = "extract" => x.item = providers[x.place].item
            /\ x.kind = "sink" /\ x.place \notin ChestPlaces => x.item = x.place[2]
            /\ x.kind = "sink" /\ x.place \in ChestPlaces /\ ~x.executed => x.item = content[x.place].item
        BY <1>5, <3>2 DEF ItemsIn
      <4>2. ASSUME x.kind = "sink", x.place \in ChestPlaces, ~x.executed
            PROVE  content[x.place] # Empty
        <5>1. x.size \in Nat \ {0} /\ x.size <= Arriving(transfers, x.place)
          BY <1>4, <3>2, <4>2, TotalType
        <5>2. /\ stored[x.place].size \in Nat /\ content[x.place].size \in Nat
              /\ Arriving(transfers, x.place) \in Nat /\ Gone(transfers, x.place) \in Nat
          BY <1>12, <1>16, <1>17, <4>2, PlacesFinite
        <5>3. HeldIn(stored, transfers, x.place) > 0 /\ HeldIn(stored, transfers, x.place) \in Nat
          BY <5>1, <5>2 DEF HeldIn
        <5>4. HeldIn(stored, transfers, x.place) <= content[x.place].size
          BY <1>5, <4>2, <5>3 DEF CoversIn
        <5> QED
          BY <1>16, <4>2, <5>2, <5>3, <5>4
      <4> QED
        BY <1>6, <4>1, <4>2
    <3> QED
      BY <3>1, <3>2
  <2> QED
    BY <1>1, <2>3, <2>4 DEF ItemsIn
<1>21. SlotsIn(use', providers', reserved', transfers', bus')
  <2>1. ASSUME NEW c \in BusSlots, use'[c] \in {"waiting", "loading", "failed"}
        PROVE  \E j \in Items : FitsIn(providers, reserved, T, bus, c, j)
    <3>1. PICK j \in Items : FitsIn(providers, reserved, transfers, bus, c, j)
      BY <1>5, <1>10, <2>1 DEF SlotsIn
    <3>2. PendingIn(reserved, T, c) = PendingIn(reserved, transfers, c)
      BY <1>13 DEF PendingIn
    <3>3. \A x \in T : x.kind = "extract" /\ x.slot = c => x.item = j
      BY <1>6, <3>1 DEF FitsIn
    <3>4. FitsIn(providers, reserved, T, bus, c, j)
      BY <3>1, <3>2, <3>3 DEF FitsIn
    <3> QED
      BY <3>4
  <2>2. \A x \in T : x.kind = "sink" /\ bus[x.slot] # Empty => bus[x.slot].item = x.item
    BY <1>5, <1>6 DEF SlotsIn
  <2> QED
    BY <1>1, <2>1, <2>2 DEF SlotsIn
<1> QED
  BY <1>1, <1>5, <1>14, <1>15, <1>18, <1>19, <1>20, <1>21, InvPartsNext
-----------------------------------------------------------------------------
(***************************************************************************)
(* The theorems.                                                           *)
(***************************************************************************)

\* Nothing changes.
LEMMA StutterInv == ASSUME Inv, UNCHANGED vars PROVE Inv'
<1>1. UNCHANGED <<running, content, providers, transfers, reserved, use, bus, stored>>
  BY DEF vars
<1>2. TypeOK' /\ StagesOK'
  BY <1>1 DEF Inv, TypeOK, StagesOK
<1>3. /\ SlotsIn(use, providers, reserved, transfers, bus)
      /\ running => /\ ItemsIn(content, providers, reserved, transfers)
                    /\ CoversIn(content, stored, transfers)
                    /\ KeptIn(providers, reserved, transfers, stored)
                    /\ BackupIn(providers)
  BY InvParts
<1> QED
  BY <1>1, <1>2, <1>3, InvPartsNext, Zenon

\* Every step keeps the invariant.
LEMMA NextInv == Inv /\ [Next]_vars => Inv'
<1> SUFFICES ASSUME Inv, [Next]_vars PROVE Inv'
  OBVIOUS
<1>1. CASE UpdateStorages
  BY <1>1, UpdateStoragesInv
<1>2. CASE EndOfCycle
  BY <1>2, EndOfCycleInv
<1>3. ASSUME NEW b \in BusSlots, NEW i \in Items, NEW n \in 1 .. MaxSize[i], Reserve(b, i, n)
      PROVE  Inv'
  BY <1>3, ReserveInv
<1>4. ASSUME NEW b \in BusSlots, Extract(b) PROVE Inv'
  BY <1>4, ExtractInv
<1>5. ASSUME NEW b \in BusSlots, Insert(b) PROVE Inv'
  BY <1>5, InsertInv
<1>6. ASSUME NEW b \in BusSlots, Process(b) PROVE Inv'
  BY <1>6, ProcessInv
<1>7. ASSUME NEW x \in transfers, Execute(x) PROVE Inv'
  <2>1. x.kind \in {"sink", "extract"}
    BY DEF Inv, TypeOK, Transfers
  <2>2. CASE x.kind = "sink"
    BY <1>7, <2>2, SinkInv
  <2>3. CASE x.kind = "extract"
    BY <1>7, <2>3, TakeInv
  <2> QED
    BY <2>1, <2>2, <2>3
<1>8. ASSUME NEW x \in transfers, Answer(x) PROVE Inv'
  BY <1>8, AnswerInv
<1>9. CASE UNCHANGED vars
  BY <1>9, StutterInv
<1> QED
  BY <1>1, <1>2, <1>3, <1>4, <1>5, <1>6, <1>7, <1>8, <1>9 DEF Next

\* What is taken from a chest is in its account: what is still to be taken is
\* there, and what was taken is counted until it is answered.
LEMMA ExtractionCovered == Inv => ExtractionFindsStack
<1> SUFFICES ASSUME Inv, NEW x \in transfers, x.kind = "extract", x.place \in ChestPlaces
             PROVE  /\ content[x.place].item = x.item
                    /\ Total("extract", x.place, FALSE) + Total("extract", x.place, TRUE)
                         <= content[x.place].size
  BY DEF ExtractionFindsStack
<1> DEFINE p == x.place
<1>1. TypeOK /\ running
  <2>1. TypeOK /\ transfers # {}
    BY DEF Inv
  <2> QED
    BY <2>1, NothingPending DEF TypeOK
<1>2. /\ ItemsIn(content, providers, reserved, transfers)
      /\ CoversIn(content, stored, transfers)
      /\ KeptIn(providers, reserved, transfers, stored)
  BY <1>1, InvParts
<1>3. /\ reserved \in [BusSlots -> [Places -> Nat]] /\ transfers \in SUBSET Transfers
      /\ IsFiniteSet(transfers) /\ content \in [ChestPlaces -> SlotStacks]
      /\ providers \in [Places -> [item : Items \cup {NoItem}, size : Nat, avail : Nat]]
  BY <1>1 DEF TypeOK
<1>4. p \in Places /\ content[p].size \in Nat /\ stored[p].size \in Nat
  BY <1>1, <1>3, PlacesFinite, StackFacts DEF TypeOK
<1>5. /\ providers[p].avail \in Nat /\ PromisedIn(reserved, p) \in Nat
      /\ Leaving(transfers, p) \in Nat /\ Gone(transfers, p) \in Nat /\ Arriving(transfers, p) \in Nat
  BY <1>3, <1>4, PromisedFacts, TotalType
<1>6. x.size \in Nat \ {0} /\ (x.size <= Leaving(transfers, p) \/ x.size <= Gone(transfers, p))
  BY <1>3, TotalType
<1>7. providers[p].avail + PromisedIn(reserved, p) + Leaving(transfers, p) <= stored[p].size
  BY <1>2, <1>4 DEF KeptIn
<1>8. ClaimedIn(providers, reserved, transfers, p) > 0
  <2>1. Leaving(transfers, p) > 0 \/ Gone(transfers, p) > 0
    BY <1>5, <1>6
  <2> QED
    BY <1>5, <2>1 DEF ClaimedIn
<1>9. content[p].item = x.item
  BY <1>2, <1>4, <1>8 DEF ItemsIn
<1>10. /\ HeldIn(stored, transfers, p) \in Nat /\ HeldIn(stored, transfers, p) > 0
       /\ Leaving(transfers, p) + Gone(transfers, p) <= HeldIn(stored, transfers, p)
  BY <1>4, <1>5, <1>6, <1>7 DEF HeldIn
<1>11. HeldIn(stored, transfers, p) <= content[p].size
  BY <1>2, <1>10 DEF CoversIn
<1>12. Leaving(transfers, p) + Gone(transfers, p) <= content[p].size
  BY <1>4, <1>5, <1>10, <1>11
<1>13. /\ Total("extract", p, FALSE) = Leaving(transfers, p)
       /\ Total("extract", p, TRUE) = Gone(transfers, p)
  BY SumsAre
<1> QED
  BY <1>9, <1>12, <1>13

\* The invariant of the storages: types, the stages of jobs and transfers, the
\* accounts, reservations and backups.
THEOREM StoragesInvariant == Spec => []Inv
<1>1. Init => Inv
  BY InitInv
<1>2. Inv /\ [Next]_vars => Inv'
  BY NextInv
<1> QED
  BY <1>1, <1>2, PTL DEF Spec

\* Whatever the chests, drawers and ME networks, and in whatever order computers
\* execute and answer the transfers or fail them: the accounts cover what the
\* chests hold, what was reserved is there, and backups are kept.
THEOREM AccountsAreHonest == Spec => []AccountsHold
<1>1. Inv => AccountsHold
  BY ExtractionCovered DEF Inv, AccountsHold
<1> QED
  BY <1>1, StoragesInvariant, PTL

\* Only the computer that executes an extraction marks it as executed.
LEMMA ExecutedByExecute ==
    ASSUME Inv, [Next]_vars, NEW x \in transfers, x.kind = "extract", ~x.executed,
           [x EXCEPT !.executed = TRUE] \in transfers'
    PROVE  Execute(x)
<1> DEFINE y == [x EXCEPT !.executed = TRUE]
<1>1. TypeOK /\ StagesOK
  BY DEF Inv
<1>2. transfers \in SUBSET Transfers /\ x \in Transfers
  BY <1>1 DEF TypeOK
<1>3. /\ y.kind = "extract" /\ y.slot = x.slot /\ y.place = x.place /\ y.executed = TRUE
      /\ y \in Transfers
  BY <1>2 DEF Transfers
<1> HIDE DEF y
<1>4. y \notin transfers /\ y \in transfers'
  BY <1>1, <1>3 DEF StagesOK, y
<1>5. ~ (transfers' = transfers)
  BY <1>4
<1>6. ASSUME NEW b \in BusSlots, Extract(b) PROVE FALSE
  <2>1. \A z \in transfers' \ transfers : z.executed = FALSE
    BY <1>6 DEF Extract, Transfer
  <2> QED
    BY <1>3, <1>4, <2>1
<1>7. ASSUME NEW b \in BusSlots, Insert(b) PROVE FALSE
  <2>1. Sinking(SinkAll(b), b)
    BY <1>1, SinkAllFacts
  <2>2. transfers' = transfers \cup SinkAll(b).sent
    BY <1>7 DEF Insert
  <2>3. \A z \in SinkAll(b).sent : z.executed = FALSE
    BY <2>1 DEF Sinking
  <2> QED
    BY <1>3, <1>4, <2>2, <2>3
<1>8. ASSUME NEW z \in transfers, Execute(z) PROVE z = x
  <2> DEFINE w == [z EXCEPT !.executed = TRUE]
  <2>1. transfers' = (transfers \ {z}) \cup {w}
    BY <1>8 DEF Execute
  <2>2. w.kind = z.kind /\ w.slot = z.slot /\ w.place = z.place
    BY <1>2 DEF Transfers
  <2> HIDE DEF w
  <2>3. y = w
    BY <1>4, <2>1
  <2> QED
    BY <1>1, <1>3, <2>2, <2>3 DEF StagesOK
<1>9. ASSUME NEW z \in transfers, Answer(z) PROVE FALSE
  <2>1. transfers' = transfers \ {z}
    BY <1>9 DEF Answer
  <2> QED
    BY <1>4, <2>1
<1>10. /\ ~UpdateStorages /\ ~EndOfCycle /\ ~UNCHANGED vars
       /\ \A b \in BusSlots : ~Process(b) /\ \A i \in Items : \A n \in 1 .. MaxSize[i] : ~Reserve(b, i, n)
  BY <1>5 DEF UpdateStorages, EndOfCycle, Process, Reserve, vars
<1>11. \E z \in transfers : Execute(z)
  BY <1>6, <1>7, <1>9, <1>10 DEF Next
<1> QED
  BY <1>8, <1>11

\* Jobs get all that they reserved, at any number of jobs and updates of the bus.
THEOREM JobsGetWhatTheyReserved == Spec => LoadedCompletely
<1>1. ASSUME Inv, [Next]_vars PROVE LoadsAll
  <2> SUFFICES ASSUME NEW x \in transfers, x.kind = "extract", ~x.executed,
                      [x EXCEPT !.executed = TRUE] \in transfers'
               PROVE  bus'[x.slot] = [item |-> x.item, size |-> bus[x.slot].size + x.size]
    BY DEF LoadsAll
  <2>1. Execute(x)
    BY <1>1, ExecutedByExecute
  <2>2. x.slot \in BusSlots /\ bus' = [bus EXCEPT ![x.slot] = Put(@, x.item, x.size)]
    BY <1>1, <2>1, TakesAll
  <2>3. bus \in [BusSlots -> SlotStacks]
    BY <1>1 DEF Inv, TypeOK
  <2> QED
    BY <2>2, <2>3 DEF Put
<1>2. Inv /\ [Next]_vars => [LoadsAll]_vars
  BY <1>1
<1> QED
  BY <1>2, StoragesInvariant, PTL DEF Spec, LoadedCompletely
-----------------------------------------------------------------------------
(***************************************************************************)
(* The controlling processes.                                              *)
(***************************************************************************)
\* What is remembered agrees with what is set, and a call with what it should set.
OutputOK(o) ==
    /\ phase # "setting" => sending[o] = "no"
    /\ kind = "conditional" => prev[o] = -1
    /\ kind # "conditional" /\ lost = 0 /\ sending[o] # "executed" => prev[o] = actual[o]
    /\ sending[o] = "executed" => actual[o] = out[o]
    /\ kind = "hysteresis" /\ sending[o] = "sent" =>
         (out[o] = 0 => seen[1] > Upper) /\ (out[o] = 1 => seen[1] < Lower)

\* What is on the ground is at most what the cycle has seen, until it drops more.
DropOK ==
    kind = "conditional" =>
        /\ value[1] <= Limit
        /\ phase = "seen" => value[1] <= seen[1]
        /\ sending[1] = "sent" => value[1] < Limit

ControlTypes ==
    /\ kind \in Kinds /\ value \in Readings(kind) /\ seen \in Readings(kind)
    /\ phase \in {"idle", "asked", "seen", "setting"}
    /\ prev \in [Outputs -> -1 .. 100] /\ out \in [Outputs -> -1 .. 100]
    /\ actual \in [Outputs -> -1 .. 100]
    /\ sending \in [Outputs -> {"no", "sent", "executed"}]
    /\ pid \in [isInit : {0, 1}, prevE : Int, accum : -100 .. 100]
    /\ changes \in 0 .. MaxChanges /\ lost \in 0 .. MaxLost

ControlInv == ControlTypes /\ (\A o \in Outputs : OutputOK(o)) /\ DropOK

\* Clamp is between its bounds.
LEMMA ClampBounds ==
    ASSUME NEW x \in Int, NEW low \in Int, NEW high \in Int, low <= high
    PROVE  Clamp(x, low, high) \in low .. high
<1> DEFINE m == IF x >= low THEN x ELSE low
           n == IF m <= high THEN m ELSE high
<1>1. Max({low, x}) = m
  <2>1. m \in {low, x} /\ \A y \in {low, x} : m >= y
    OBVIOUS
  <2>2. \A z \in {low, x} : (\A y \in {low, x} : z >= y) => z = m
    BY <2>1
  <2> HIDE DEF m
  <2> QED
    BY <2>1, <2>2 DEF Max
<1>2. m \in Int /\ low <= m
  OBVIOUS
<1> HIDE DEF m
<1>3. Min({high, m}) = n
  <2>1. n \in {high, m} /\ \A y \in {high, m} : n =< y
    BY <1>2
  <2>2. \A z \in {high, m} : (\A y \in {high, m} : z =< y) => z = n
    BY <1>2, <2>1
  <2> HIDE DEF n
  <2> QED
    BY <2>1, <2>2 DEF Min
<1>4. n \in low .. high
  BY <1>2
<1> QED
  BY <1>1, <1>3, <1>4 DEF Clamp

\* The controllers compute numbers in their ranges.
LEMMA PIDRange ==
    ASSUME NEW x \in [isInit : {0, 1}, prevE : Int, accum : -100 .. 100],
           NEW ts \in {1, 2}, NEW e \in Int
    PROVE  /\ PID(x, ts, e) \in [isInit : {0, 1}, prevE : Int, accum : -100 .. 100]
           /\ PIDOut(x, ts, e) \in 0 .. 100
<1>1. KP \in Int /\ KI \in Int /\ KD \in Int
  BY ParametersAssumption
<1>2. Accumulated(x, ts, e) \in -100 .. 100
  <2> DEFINE a == x.accum + ts * e * KI
  <2>1. a \in Int
    BY <1>1
  <2> HIDE DEF a
  <2>2. Clamp(a, -100, 100) \in -100 .. 100
    <3>1. -100 \in Int /\ 100 \in Int /\ -100 <= 100
      OBVIOUS
    <3> QED
      BY <2>1, <3>1, ClampBounds, Zenon
  <2> QED
    BY <2>2 DEF Accumulated, a
<1>3. PID(x, ts, e) \in [isInit : {0, 1}, prevE : Int, accum : -100 .. 100]
  BY <1>2 DEF PID
<1>4. PIDOut(x, ts, e) \in 0 .. 100
  <2> DEFINE d == IF x.isInit = 1 THEN 0 ELSE (e - x.prevE) \div ts
             c == PID(x, ts, e).accum
             a == 50 - (e * KP + c + d * KD)
  <2>1. d \in Int
    BY <1>1
  <2>2. c \in Int
    BY <1>3
  <2> HIDE DEF d, c
  <2>3. e * KP \in Int /\ d * KD \in Int
    BY <1>1, <2>1
  <2>4. a \in Int
    BY <2>2, <2>3
  <2> HIDE DEF a
  <2>5. Clamp(a, 0, 100) \in 0 .. 100
    <3>1. 0 \in Int /\ 100 \in Int /\ 0 <= 100
      OBVIOUS
    <3> QED
      BY <2>4, <3>1, ClampBounds, Zenon
  <2> QED
    BY <2>5 DEF PIDOut, d, c, a
<1> QED
  BY <1>3, <1>4

\* The mixer chooses one of its plastics, or none.
LEMMA MixerRange ==
    ASSUME NEW v \in Seq(Nat), v # <<>>, Len(v) <= 100
    PROVE  Mixer(v) \in 0 .. 100
<1> DEFINE IsLeast(n) == \A m \in DOMAIN v : v[n] < v[m] \/ (v[n] = v[m] /\ n <= m)
           least == CHOOSE n \in DOMAIN v : IsLeast(n)
           T == {v[n] : n \in DOMAIN v}
<1>1. DOMAIN v = 1 .. Len(v) /\ \A n \in DOMAIN v : v[n] \in Nat
  OBVIOUS
<1>2. T \subseteq Nat /\ T # {}
  BY <1>1, EmptySeq
<1>3. PICK t \in T : \A y \in T : t <= y
  <2> HIDE DEF T
  <2> QED
    BY <1>2, LeastNatural
<1> DEFINE U == {n \in DOMAIN v : v[n] = t}
<1>4. U \subseteq Nat /\ U # {}
  BY <1>1
<1>5. PICK n \in U : \A y \in U : n <= y
  <2> HIDE DEF U
  <2> QED
    BY <1>4, LeastNatural
<1>6. n \in DOMAIN v /\ v[n] = t
  OBVIOUS
<1>7. IsLeast(n)
  <2> SUFFICES ASSUME NEW m \in DOMAIN v PROVE v[n] < v[m] \/ (v[n] = v[m] /\ n <= m)
    OBVIOUS
  <2>1. t <= v[m] /\ v[m] \in Nat /\ t \in Nat
    BY <1>1, <1>2, <1>3
  <2>2. v[m] = t => n <= m
    BY <1>5
  <2> QED
    BY <1>6, <2>1, <2>2
<1>8. least \in DOMAIN v
  <2> HIDE DEF IsLeast
  <2> QED
    BY <1>6, <1>7
<1>9. Mixer(v) = IF v[least] >= NeededLevel THEN 0 ELSE least
  BY DEF Mixer
<1>10. \A l \in DOMAIN v : l \in 0 .. 100
  <2> SUFFICES ASSUME NEW l \in DOMAIN v PROVE l \in 0 .. 100
    OBVIOUS
  <2>1. l \in Int /\ 1 <= l /\ l <= Len(v) /\ Len(v) \in Nat
    BY <1>1
  <2>2. 0 <= l /\ l <= 100
    BY <2>1
  <2>3. \A x \in Int : 0 <= x /\ x <= 100 => x \in 0 .. 100
    OBVIOUS
  <2> QED
    BY <2>1, <2>2, <2>3, Zenon
<1>11. 0 \in 0 .. 100
  OBVIOUS
<1> QED
  BY <1>8, <1>9, <1>10, <1>11, Zenon

\* Every output that is computed is in its range.
LEMMA WantedRange ==
    ASSUME ControlTypes, NEW o \in Outputs, NEW ts \in {1, 2}
    PROVE  Wanted(o, seen, ts) \in -1 .. 100
<1>1. kind \in Reactors \cup FromStock \cup {"flux", "conditional"}
  BY ParametersAssumption DEF ControlTypes
<1>2. kind \in Reactors => seen[1] \in 0 .. 100 /\ NowE(seen[1]) \in Int /\ 1 \in Outputs
  BY DEF ControlTypes, Readings, NowE, Outputs, Reactors
<1>3. kind = "mixer" => Mixer(seen) \in 0 .. 100
  BY MixerRange DEF ControlTypes, Readings, Reactors
<1>4. kind = "pid" => PIDOut(pid, ts, NowE(seen[1])) \in 0 .. 100
  BY <1>2, PIDRange DEF ControlTypes, Reactors
<1>5. prev \in [Outputs -> -1 .. 100] /\ (kind = "conditional" => 1 \in Outputs)
  BY DEF ControlTypes, Outputs
<1>6. CASE kind = "hysteresis"
  BY <1>2, <1>5, <1>6 DEF Wanted, Hysteresis, Reactors
<1>7. CASE kind = "proportional"
  BY <1>2, <1>7 DEF Wanted, Reactors
<1>8. CASE kind = "pid"
  BY <1>4, <1>8 DEF Wanted
<1>9. CASE kind = "mixer"
  BY <1>3, <1>9 DEF Wanted
<1>10. CASE kind = "emitter"
  BY <1>10 DEF Wanted
<1>11. CASE kind = "flux"
  BY <1>11 DEF Wanted
<1>12. CASE kind = "conditional"
  BY <1>5, <1>12 DEF Wanted
<1> QED
  BY <1>1, <1>6, <1>7, <1>8, <1>9, <1>10, <1>11, <1>12 DEF Reactors, FromStock

\* A step that neither computes nor sets outputs.
LEMMA OutputsStay ==
    ASSUME ControlInv, UNCHANGED <<kind, prev, out, sending, actual, pid, lost>>,
           value' \in Readings(kind), seen' \in Readings(kind),
           phase' \in {"idle", "asked", "seen", "setting"}, changes' \in 0 .. MaxChanges,
           phase' # "setting" => \A o \in Outputs : sending[o] = "no",
           seen' = seen \/ \A o \in Outputs : sending[o] = "no",
           DropOK'
    PROVE  ControlInv'
<1>1. Outputs' = Outputs
  BY DEF Outputs
<1>2. ControlTypes'
  BY <1>1 DEF ControlInv, ControlTypes, Readings
<1>3. ASSUME NEW o \in Outputs PROVE OutputOK(o)'
  BY DEF ControlInv, OutputOK
<1> QED
  BY <1>1, <1>2, <1>3 DEF ControlInv

\* What a process reads is of its kind.
LEMMA ReadingFacts ==
    ASSUME ControlTypes
    PROVE  /\ Values[kind] \subseteq Readings(kind)
           /\ kind = "conditional" => value[1] \in Int /\ seen[1] \in Int /\ Limit \in Int /\ 1 \in Outputs
           /\ kind \in Reactors => <<0, value[2]>> \in Readings(kind)
           /\ ~Asks => kind \in Reactors
<1>1. kind = "conditional" => 1 \in Outputs /\ value \in Seq(Int) /\ Len(value) = 1
                              /\ seen \in Seq(Int) /\ Len(seen) = 1
  BY DEF ControlTypes, Readings, Reactors, Outputs
<1>2. kind = "conditional" => value[1] \in Int /\ seen[1] \in Int
  BY <1>1
<1>3. kind \in Reactors => <<0, value[2]>> \in Readings(kind)
  BY DEF ControlTypes, Readings
<1> QED
  BY <1>1, <1>2, <1>3, ParametersAssumption DEF ControlTypes, Asks

\* A cycle starts and looks at what there is to read.
LEMMA LookKeeps ==
    ASSUME ControlInv,
           \/ Cycle \/ Sense \/ SenseFails
           \/ CycleEnds \/ Change \/ Mix
    PROVE  ControlInv'
<1>1. /\ Values[kind] \subseteq Readings(kind)
      /\ kind = "conditional" => value[1] \in Int /\ seen[1] \in Int /\ Limit \in Int /\ 1 \in Outputs
      /\ kind \in Reactors => <<0, value[2]>> \in Readings(kind)
      /\ ~Asks => kind \in Reactors
  BY ReadingFacts DEF ControlInv
<1>2. /\ ControlTypes /\ DropOK /\ \A o \in Outputs : phase # "setting" => sending[o] = "no"
      /\ value \in Readings(kind) /\ seen \in Readings(kind) /\ changes \in 0 .. MaxChanges
      /\ phase \in {"idle", "asked", "seen", "setting"}
  BY DEF ControlInv, OutputOK, ControlTypes
<1>3. CASE Cycle
  <2>1. /\ phase = "idle" /\ phase' \in {"asked", "seen"}
        /\ seen' = IF Asks THEN value ELSE <<0, value[2]>>
        /\ UNCHANGED <<kind, value, prev, out, sending, actual, pid, changes, lost>>
    BY <1>3 DEF Cycle
  <2>2. seen' \in Readings(kind)
    BY <1>1, <1>2, <2>1
  <2>3. \A o \in Outputs : sending[o] = "no"
    BY <1>2, <2>1
  <2>4. DropOK'
    BY <1>1, <1>2, <2>1, <2>3 DEF DropOK, Reactors
  <2> QED
    BY <1>2, <2>1, <2>2, <2>3, <2>4, OutputsStay
<1>4. CASE Sense
  <2>1. /\ phase = "asked" /\ phase' = "seen" /\ seen' = value
        /\ UNCHANGED <<kind, value, prev, out, sending, actual, pid, changes, lost>>
    BY <1>4 DEF Sense
  <2>2. \A o \in Outputs : sending[o] = "no"
    BY <1>2, <2>1
  <2>3. DropOK'
    BY <1>1, <1>2, <2>1, <2>2 DEF DropOK
  <2> QED
    BY <1>2, <2>1, <2>2, <2>3, OutputsStay
<1>5. CASE SenseFails
  <2>1. /\ phase = "asked" /\ phase' = "idle"
        /\ UNCHANGED <<kind, value, seen, prev, out, sending, actual, pid, changes, lost>>
    BY <1>5 DEF SenseFails
  <2>2. DropOK'
    BY <1>2, <2>1 DEF DropOK
  <2> QED
    BY <1>2, <2>1, <2>2, OutputsStay
<1>6. CASE CycleEnds
  <2>1. /\ phase = "setting" /\ phase' = "idle" /\ seen' = value
        /\ \A o \in Outputs : sending[o] = "no"
        /\ UNCHANGED <<kind, value, prev, out, sending, actual, pid, changes, lost>>
    BY <1>6 DEF CycleEnds, Finished
  <2>2. DropOK'
    BY <1>2, <2>1 DEF DropOK
  <2> QED
    BY <1>2, <2>1, <2>2, OutputsStay
<1>7. CASE Change
  <2>1. /\ changes < MaxChanges /\ changes' = changes + 1 /\ value' \in Values[kind]
        /\ kind = "conditional" => value'[1] < value[1]
        /\ UNCHANGED <<kind, seen, phase, prev, out, sending, actual, pid, lost>>
    BY <1>7 DEF Change
  <2>2. changes' \in 0 .. MaxChanges
    BY <1>2, <2>1, ParametersAssumption
  <2>3. kind = "conditional" => value'[1] \in Int
    <3>1. value' \in Readings(kind)
      BY <1>1, <2>1
    <3>2. kind = "conditional" => value' \in Seq(Int) /\ Len(value') = 1
      BY <3>1 DEF Readings, Reactors
    <3> QED
      BY <3>2
  <2>4. DropOK'
    BY <1>1, <1>2, <2>1, <2>3 DEF DropOK
  <2> QED
    BY <1>1, <1>2, <2>1, <2>2, <2>4, OutputsStay
<1>8. CASE Mix
  <2>1. /\ kind = "mixer" /\ value' = [value EXCEPT ![actual[1]] = @ + 1]
        /\ actual[1] > 0
        /\ UNCHANGED <<kind, seen, phase, prev, out, sending, actual, pid, changes, lost>>
    BY <1>8 DEF Mix
  <2>2. value \in Seq(Nat) /\ value # <<>> /\ Len(value) <= 100
    BY <1>2, <2>1 DEF Readings, Reactors
  <2> DEFINE n == actual[1]
  <2> HIDE DEF n
  <2>3. value' \in Seq(Nat) /\ Len(value') = Len(value) /\ value' # <<>>
    <3>1. value' = [value EXCEPT ![n] = @ + 1]
      BY <2>1 DEF n
    <3>2. value \in [1 .. Len(value) -> Nat] /\ Len(value) \in Nat \ {0}
      BY <2>2, EmptySeq
    <3>3. value' \in [1 .. Len(value) -> Nat]
      <4>1. \A i \in 1 .. Len(value) :
              value'[i] = (IF i = n THEN value[i] + 1 ELSE value[i]) /\ value[i] \in Nat
        BY <3>1, <3>2
      <4>2. \A i \in 1 .. Len(value) : value'[i] \in Nat
        BY <4>1
      <4>3. value' = [i \in 1 .. Len(value) |-> value'[i]]
        BY <3>1, <3>2
      <4> QED
        BY <4>2, <4>3
    <3>4. value' \in Seq(Nat) /\ Len(value') = Len(value)
      BY <3>2, <3>3, SeqDef
    <3> QED
      BY <3>2, <3>4, EmptySeq
  <2>4. value' \in Readings(kind)
    BY <2>1, <2>2, <2>3 DEF Readings, Reactors
  <2>5. DropOK'
    BY <2>1 DEF DropOK
  <2> QED
    BY <1>2, <2>1, <2>4, <2>5, OutputsStay
<1> QED
  BY <1>3, <1>4, <1>5, <1>6, <1>7, <1>8

\* Outputs are computed, and those that are not remembered are sent.
LEMMA DecideKeeps ==
    ASSUME ControlInv, NEW ts \in {1, 2}, Decide(ts)
    PROVE  ControlInv'
<1>1. /\ phase = "seen" /\ phase' = "setting"
      /\ out' = [o \in Outputs |-> Wanted(o, seen, ts)]
      /\ sending' = [o \in Outputs |-> IF ToBeSent(o, out'[o]) THEN "sent" ELSE "no"]
      /\ pid' = IF kind = "pid" THEN PID(pid, ts, NowE(seen[1])) ELSE pid
      /\ UNCHANGED <<kind, value, seen, prev, actual, changes, lost>>
  BY DEF Decide
<1>2. ControlTypes /\ DropOK /\ \A o \in Outputs : OutputOK(o)
  BY DEF ControlInv
<1>3. Outputs' = Outputs
  BY <1>1 DEF Outputs
<1>4. out' \in [Outputs -> -1 .. 100]
  BY <1>1, <1>2, WantedRange
<1>5. pid' \in [isInit : {0, 1}, prevE : Int, accum : -100 .. 100]
  <2>1. CASE kind = "pid"
    <3>1. NowE(seen[1]) \in Int
      BY <1>2, <2>1 DEF ControlTypes, Readings, Reactors, NowE
    <3>2. pid \in [isInit : {0, 1}, prevE : Int, accum : -100 .. 100]
      BY <1>2 DEF ControlTypes
    <3> QED
      BY <1>1, <2>1, <3>1, <3>2, PIDRange
  <2> QED
    BY <1>1, <1>2, <2>1 DEF ControlTypes
<1>6. ControlTypes'
  BY <1>1, <1>2, <1>3, <1>4, <1>5 DEF ControlTypes, Readings
<1>7. ASSUME NEW o \in Outputs PROVE OutputOK(o)'
  <2>1. /\ out'[o] = Wanted(o, seen, ts)
        /\ sending'[o] \in {"sent", "no"} /\ (sending'[o] = "sent" => out'[o] # prev[o])
    BY <1>1 DEF ToBeSent
  <2>2. sending[o] = "no" /\ OutputOK(o)
    BY <1>1, <1>2 DEF OutputOK
  <2>3. kind = "hysteresis" /\ sending'[o] = "sent" =>
          (out'[o] = 0 => seen[1] > Upper) /\ (out'[o] = 1 => seen[1] < Lower)
    <3>1. kind = "hysteresis" => o = 1 /\ Wanted(o, seen, ts) = Hysteresis(seen[1])
      BY DEF Outputs, Wanted
    <3>2. /\ Hysteresis(seen[1]) = 0 => seen[1] > Upper \/ prev[1] = 0
          /\ Hysteresis(seen[1]) = 1 => seen[1] < Lower \/ prev[1] = 1
      <4>1. 0 # 1
        OBVIOUS
      <4> QED
        BY <4>1, Zenon DEF Hysteresis
    <3>3. ASSUME kind = "hysteresis", sending'[o] = "sent"
          PROVE  /\ out'[o] = 0 => Hysteresis(seen[1]) = 0 /\ prev[1] # 0
                 /\ out'[o] = 1 => Hysteresis(seen[1]) = 1 /\ prev[1] # 1
      BY <2>1, <3>1, <3>3, Zenon
    <3> QED
      BY <3>2, <3>3, Zenon
  <2> QED
    BY <1>1, <2>1, <2>2, <2>3 DEF OutputOK
<1>8. DropOK'
  <2>1. CASE kind = "conditional"
    <3>1. value[1] \in Int /\ seen[1] \in Int /\ Limit \in Int /\ 1 \in Outputs
      BY <1>2, <2>1, ReadingFacts
    <3>2. out'[1] = IF seen[1] < Limit THEN 1 ELSE prev[1]
      BY <1>1, <2>1, <3>1 DEF Wanted
    <3>3. sending'[1] = "sent" => out'[1] # prev[1]
      BY <1>1, <3>1 DEF ToBeSent
    <3> QED
      BY <1>1, <1>2, <2>1, <3>1, <3>2, <3>3 DEF DropOK
  <2> QED
    BY <1>1, <2>1 DEF DropOK
<1> QED
  BY <1>3, <1>6, <1>7, <1>8 DEF ControlInv

\* A computer sets an output.
LEMMA SetOutputKeeps ==
    ASSUME ControlInv, NEW o \in Outputs, SetOutput(o)
    PROVE  ControlInv'
<1>1. /\ sending[o] = "sent" /\ sending' = [sending EXCEPT ![o] = "executed"]
      /\ actual' = [actual EXCEPT ![o] = out[o]]
      /\ value' = IF kind = "conditional" THEN <<value[1] + 1>> ELSE value
      /\ UNCHANGED <<kind, seen, phase, prev, out, pid, changes, lost>>
  BY DEF SetOutput
<1>2. ControlTypes /\ DropOK /\ \A p \in Outputs : OutputOK(p)
  BY DEF ControlInv
<1>3. Outputs' = Outputs
  BY <1>1 DEF Outputs
<1>4. phase = "setting"
  BY <1>1, <1>2 DEF OutputOK
<1>5. value' \in Readings(kind) /\ DropOK'
  <2>1. CASE kind = "conditional"
    <3>1. value[1] \in Int /\ Limit \in Int /\ o = 1
      BY <1>2, <2>1, ReadingFacts DEF Outputs
    <3>2. value' = <<value[1] + 1>> /\ value[1] + 1 \in Int
      BY <1>1, <2>1, <3>1
    <3>3. value' \in Readings(kind) /\ value'[1] = value[1] + 1
      BY <2>1, <3>2 DEF Readings, Reactors
    <3>4. value[1] < Limit
      BY <1>1, <1>2, <2>1, <3>1 DEF DropOK
    <3>5. sending'[1] = "executed" /\ value'[1] <= Limit
      BY <1>1, <1>2, <3>1, <3>3, <3>4 DEF ControlTypes
    <3> QED
      BY <1>1, <1>4, <3>3, <3>5 DEF DropOK
  <2>2. CASE kind # "conditional"
    BY <1>1, <1>2, <2>2 DEF DropOK, ControlTypes
  <2> QED
    BY <2>1, <2>2
<1>6. ControlTypes'
  <2>1. out[o] \in -1 .. 100
    BY <1>2 DEF ControlTypes
  <2>2. actual' \in [Outputs -> -1 .. 100] /\ sending' \in [Outputs -> {"no", "sent", "executed"}]
    BY <1>1, <1>2, <2>1 DEF ControlTypes
  <2> QED
    BY <1>1, <1>2, <1>3, <1>5, <2>2 DEF ControlTypes, Readings
<1>7. ASSUME NEW p \in Outputs PROVE OutputOK(p)'
  <2>1. CASE p = o
    <3>1. sending'[p] = "executed" /\ actual'[p] = out[p]
      BY <1>1, <1>2, <2>1 DEF ControlTypes
    <3> QED
      BY <1>1, <1>2, <1>4, <3>1 DEF OutputOK
  <2>2. CASE p # o
    <3>1. sending'[p] = sending[p] /\ actual'[p] = actual[p]
      BY <1>1, <1>2, <2>2 DEF ControlTypes
    <3> QED
      BY <1>1, <1>2, <1>4, <3>1 DEF OutputOK
  <2> QED
    BY <2>1, <2>2
<1> QED
  BY <1>3, <1>5, <1>6, <1>7 DEF ControlInv

\* A call is over: it was answered, it failed, or its answer was lost.
LEMMA SettingEndsKeeps ==
    ASSUME ControlInv, NEW o \in Outputs,
           Answered(o) \/ SetFails(o) \/ AnswerLost(o)
    PROVE  ControlInv'
<1>1. PICK done \in BOOLEAN :
        /\ SettingEnds(o, done)
        /\ \/ done /\ sending[o] = "executed" /\ lost' = lost
           \/ ~done /\ sending[o] = "sent" /\ lost' = lost
           \/ ~done /\ sending[o] = "executed" /\ lost < MaxLost /\ lost' = lost + 1
  BY DEF Answered, SetFails, AnswerLost
<1>2. /\ sending' = [sending EXCEPT ![o] = "no"]
      /\ prev' = [prev EXCEPT ![o] = IF done /\ kind # "conditional" THEN out[o] ELSE prev[o]]
      /\ UNCHANGED <<kind, value, seen, phase, out, actual, pid, changes>>
  BY <1>1 DEF SettingEnds, Remembered
<1>3. ControlTypes /\ DropOK /\ \A p \in Outputs : OutputOK(p)
  BY DEF ControlInv
<1>4. Outputs' = Outputs
  BY <1>2 DEF Outputs
<1>5. lost' \in 0 .. MaxLost /\ (lost' = 0 => lost = 0 /\ (sending[o] = "executed" => done))
  BY <1>1, <1>3, ParametersAssumption DEF ControlTypes
<1>6. phase = "setting"
  BY <1>1, <1>3 DEF OutputOK
<1>7. ControlTypes'
  <2>1. (IF done /\ kind # "conditional" THEN out[o] ELSE prev[o]) \in -1 .. 100
    BY <1>3 DEF ControlTypes
  <2>2. prev' \in [Outputs -> -1 .. 100] /\ sending' \in [Outputs -> {"no", "sent", "executed"}]
    BY <1>2, <1>3, <2>1 DEF ControlTypes
  <2> QED
    BY <1>2, <1>3, <1>4, <1>5, <2>2 DEF ControlTypes, Readings
<1>8. ASSUME NEW p \in Outputs PROVE OutputOK(p)'
  <2>1. CASE p = o
    <3>1. /\ sending'[p] = "no"
          /\ prev'[p] = IF done /\ kind # "conditional" THEN out[p] ELSE prev[p]
      BY <1>2, <1>3, <2>1 DEF ControlTypes
    <3>2. OutputOK(p)
      BY <1>3
    <3>3. kind # "conditional" /\ lost' = 0 => prev'[p] = actual[p]
      BY <1>1, <1>5, <2>1, <3>1, <3>2 DEF OutputOK
    <3> QED
      BY <1>2, <1>6, <3>1, <3>2, <3>3 DEF OutputOK
  <2>2. CASE p # o
    <3>1. sending'[p] = sending[p] /\ prev'[p] = prev[p]
      BY <1>2, <1>3, <2>2 DEF ControlTypes
    <3> QED
      BY <1>2, <1>3, <1>5, <1>6, <3>1 DEF OutputOK
  <2> QED
    BY <2>1, <2>2
<1>9. DropOK'
  <2>1. kind = "conditional" => sending'[1] = "no"
    <3>1. kind = "conditional" => o = 1
      BY DEF Outputs
    <3> QED
      BY <1>2, <1>3, <3>1 DEF ControlTypes
  <2> QED
    BY <1>2, <1>3, <1>6, <2>1 DEF DropOK
<1> QED
  BY <1>4, <1>7, <1>8, <1>9 DEF ControlInv

\* Every step keeps the invariant.
LEMMA ControlGoesOn ==
    ASSUME ControlInv, [ControlNext]_(controlVars)
    PROVE  ControlInv'
<1>1. CASE \/ Cycle \/ Sense \/ SenseFails
           \/ CycleEnds \/ Change \/ Mix
  BY <1>1, LookKeeps
<1>2. ASSUME NEW ts \in {1, 2}, Decide(ts) PROVE ControlInv'
  BY <1>2, DecideKeeps
<1>3. ASSUME NEW o \in Outputs,
             SetOutput(o) \/ Answered(o) \/ SetFails(o) \/ AnswerLost(o)
      PROVE  ControlInv'
  BY <1>3, SetOutputKeeps, SettingEndsKeeps
<1>4. CASE UNCHANGED controlVars
  <2>1. UNCHANGED <<kind, value, seen, phase, prev, out, sending, actual, pid, changes, lost>>
    BY <1>4 DEF controlVars
  <2>2. Outputs' = Outputs
    BY <2>1 DEF Outputs
  <2>3. ControlTypes' /\ DropOK' /\ \A o \in Outputs : OutputOK(o)'
    BY <2>1, <2>2 DEF ControlInv, ControlTypes, Readings, OutputOK, DropOK
  <2> QED
    BY <2>2, <2>3 DEF ControlInv
<1> QED
  BY <1>1, <1>2, <1>3, <1>4 DEF ControlNext

\* It holds at first.
LEMMA ControlStarts ==
    ASSUME ControlInit
    PROVE  ControlInv
<1>1. /\ kind \in Kinds /\ value \in Values[kind] /\ seen = value /\ phase = "idle"
      /\ prev = [o \in Outputs |-> -1] /\ out = prev /\ actual = prev
      /\ sending = [o \in Outputs |-> "no"]
      /\ pid = [isInit |-> 1, prevE |-> 0, accum |-> 0]
      /\ changes = 0 /\ lost = 0
  BY DEF ControlInit
<1>2. Values[kind] \subseteq Readings(kind)
  BY <1>1, ParametersAssumption
<1>3. MaxChanges \in Nat /\ MaxLost \in Nat
  BY ParametersAssumption
<1>4. ControlTypes
  <2>1. prev \in [Outputs -> -1 .. 100] /\ sending \in [Outputs -> {"no", "sent", "executed"}]
    BY <1>1
  <2>2. pid \in [isInit : {0, 1}, prevE : Int, accum : -100 .. 100]
    BY <1>1
  <2> QED
    BY <1>1, <1>2, <1>3, <2>1, <2>2 DEF ControlTypes
<1>5. \A o \in Outputs : OutputOK(o)
  BY <1>1 DEF OutputOK
<1>6. DropOK
  BY <1>1, ParametersAssumption DEF DropOK, Outputs
<1> QED
  BY <1>4, <1>5, <1>6 DEF ControlInv

\* ControlInv is an invariant of every kind of controlling process.
THEOREM ControlInvariant == ControlSpec => []ControlInv
<1>1. ControlInit => ControlInv
  BY ControlStarts
<1>2. ControlInv /\ [ControlNext]_(controlVars) => ControlInv'
  BY ControlGoesOn
<1> QED
  BY <1>1, <1>2, PTL DEF ControlSpec

\* Every variable keeps its type: all outputs are in their ranges.
THEOREM ControlTypesHold == ControlSpec => []ControlTypeOK
<1>1. ControlInv => ControlTypeOK
  BY DEF ControlInv, ControlTypes, ControlTypeOK
<1> QED
  BY <1>1, ControlInvariant, PTL

\* As long as no answer is lost, what a process remembers to have set is what the
\* game has; and the conditional process never drops more than its predicate allows,
\* however many answers are lost.
THEOREM OutputsAreRemembered == ControlSpec => []RemembersWhatIs
<1>1. ControlInv => OutputsRemembered
  <2> SUFFICES ASSUME ControlInv, lost = 0, NEW o \in Outputs, sending[o] = "no", prev[o] # -1
               PROVE  prev[o] = actual[o]
    BY DEF OutputsRemembered
  <2> QED
    BY DEF ControlInv, OutputOK
<1>2. ControlInv => NoExcess
  BY DEF ControlInv, DropOK, NoExcess
<1>3. ControlInv => ControlTypeOK
  BY DEF ControlInv, ControlTypes, ControlTypeOK
<1>4. ControlInv => RemembersWhatIs
  BY <1>1, <1>2, <1>3 DEF RemembersWhatIs
<1> QED
  BY <1>4, ControlInvariant, PTL

\* A reactor is switched only after its value has crossed the whole band.
THEOREM ReactorsDoNotChatter == ControlSpec => NoChatter
<1>1. ControlInv /\ [ControlNext]_(controlVars) => [CrossesBand]_(controlVars)
  <2> SUFFICES ASSUME ControlInv, [ControlNext]_(controlVars), kind = "hysteresis", actual'[1] # actual[1]
               PROVE  CrossesBand
    BY DEF CrossesBand
  <2>1. PICK o \in Outputs : SetOutput(o)
    BY DEF ControlNext, controlVars, Cycle, Sense, SenseFails,
           CycleEnds, Change, Mix, Decide,
           Answered, SetFails, AnswerLost, SettingEnds
  <2>2. o = 1 /\ sending[1] = "sent" /\ OutputOK(1)
    BY <2>1 DEF Outputs, SetOutput, ControlInv
  <2>3. actual'[1] = out[1]
    <3>1. actual' = [actual EXCEPT ![o] = out[o]] /\ actual \in [Outputs -> -1 .. 100]
      BY <2>1 DEF SetOutput, ControlInv, ControlTypes
    <3> QED
      BY <2>2, <3>1
  <2> QED
    BY <2>2, <2>3 DEF OutputOK, CrossesBand
<1> QED
  BY <1>1, ControlInvariant, PTL DEF ControlSpec, NoChatter

\* Nothing is sent that the game has already, while no answers are lost.
THEOREM NothingIsRepeated == ControlSpec => NoRepetition
<1>1. ControlInv /\ [ControlNext]_(controlVars) => [SendsNews]_(controlVars)
  <2> SUFFICES ASSUME ControlInv, [ControlNext]_(controlVars), lost = 0,
                      NEW o \in Outputs, kind # "conditional",
                      sending[o] = "no", sending'[o] = "sent"
               PROVE  out'[o] # actual[o]
    BY DEF SendsNews
  <2>1. prev[o] = actual[o] /\ sending \in [Outputs -> {"no", "sent", "executed"}]
    BY DEF ControlInv, OutputOK, ControlTypes
  <2>2. PICK ts \in {1, 2} : Decide(ts)
    <3>1. ASSUME NEW p \in Outputs, SetOutput(p) PROVE FALSE
      BY <2>1, <3>1 DEF SetOutput
    <3>2. ASSUME NEW p \in Outputs,
                 Answered(p) \/ SetFails(p) \/ AnswerLost(p)
          PROVE  FALSE
      BY <2>1, <3>2 DEF Answered, SetFails, AnswerLost, SettingEnds
    <3> QED
      BY <3>1, <3>2 DEF ControlNext, controlVars, Cycle, Sense,
                        SenseFails, CycleEnds, Change, Mix
  <2>3. out'[o] # prev[o]
    BY <2>2 DEF Decide, ToBeSent
  <2> QED
    BY <2>1, <2>3
<1> QED
  BY <1>1, ControlInvariant, PTL DEF ControlSpec, NoRepetition
-----------------------------------------------------------------------------
(***************************************************************************)
(* The process that takes items out of a machine.  `stored' and `phase'    *)
(* are declared above.                                                     *)
(***************************************************************************)
CONSTANTS Name, Label, Entries, Size, SlotFilter, Stored0, Produces, MaxProduced
VARIABLES info, machine, listed, outputs, produced

Inputless == INSTANCE CppInputless

\* A slot of the machine holds what the machine puts there.
Holds(x, slot) ==
    x = Inputless!Empty \/ (x.item = Produces[slot] /\ x.size \in 1 .. MaxSize[x.item])

InputlessTypes ==
    /\ stored \in [Items -> Nat] /\ info \in [Items -> [avail : Nat, backup : Nat]]
    /\ machine \in [Inputless!Slots -> [item : Items \cup {NoItem}, size : Nat]]
    /\ listed \in [Inputless!Slots -> [item : Items \cup {NoItem}, size : Nat]]
    /\ outputs \in SUBSET Inputless!Transfers /\ IsFiniteSet(outputs)
    /\ phase \in {"idle", "asked", "listed", "working"} /\ produced \in 0 .. MaxProduced

\* Transfers are sent within a cycle, which knows how much is stored, and take
\* what their slots hold.
InputlessInv ==
    /\ InputlessTypes
    /\ \A slot \in Inputless!Slots : Holds(machine[slot], slot) /\ Holds(listed[slot], slot)
    /\ \A o \in outputs : o.size # 0 /\ o.item = Produces[o.slot]
    /\ phase # "working" => outputs = {}
    /\ phase \in {"asked", "listed"} => \A i \in Items : info[i].avail = stored[i]
    /\ Inputless!NeverTooMuch

\* The instance has the same operators of the library.
LEMMA SameFinite == ASSUME NEW S PROVE Inputless!IsFiniteSet(S) <=> IsFiniteSet(S)
BY DEF Inputless!IsFiniteSet, IsFiniteSet

\* The same for sums.
LEMMA SameSum == ASSUME NEW f, NEW S PROVE Inputless!SumFunctionOnSet(f, S) = SumFunctionOnSet(f, S)
BY DEF Inputless!SumFunctionOnSet, SumFunctionOnSet, Inputless!FoldFunctionOnSet, FoldFunctionOnSet,
       Inputless!MapThenFoldSet, MapThenFoldSet

\* The same for the greatest number.
LEMMA SameMax == ASSUME NEW S PROVE Inputless!Max(S) = Max(S)
BY DEF Inputless!Max, Max

\* How much is needed is a number.
LEMMA NeededFacts ==
    ASSUME Inputless!InputlessAssumption, NEW i PROVE Inputless!NeededOf(i) \in Int
<1> DEFINE D == {m \in DOMAIN Entries : Inputless!Accepts(Entries[m].item, i)}
           S == {Entries[n].needed : n \in D}
<1>1. IsFiniteSet(D) /\ \A n \in D : Entries[n].needed \in Int
  <2>1. IsFiniteSet(DOMAIN Entries) /\ \A n \in DOMAIN Entries : Entries[n].needed \in Int
    BY SameFinite DEF Inputless!InputlessAssumption
  <2> QED
    BY <2>1, FS_Subset
<1>3. Inputless!NeededOf(i) = Max({0} \cup S)
  BY SameMax DEF Inputless!NeededOf
<1> HIDE DEF D
<1>2. IsFiniteSet(S) /\ S \in SUBSET Int
  <2> DEFINE g == [n \in D |-> Entries[n].needed]
  <2>1. g \in Surjection(D, S)
    BY DEF Surjection
  <2>2. IsFiniteSet(S)
    <3> HIDE DEF g, S
    <3> QED
      BY <1>1, <2>1, FS_Surjection
  <2> QED
    BY <1>1, <2>2
<1> HIDE DEF S
<1>4. {0} \cup S \in SUBSET Int /\ IsFiniteSet({0} \cup S) /\ {0} \cup S # {}
  <2>1. IsFiniteSet({0})
    BY FS_Singleton
  <2>2. IsFiniteSet({0} \cup S)
    BY <1>2, <2>1, FS_Union
  <2> QED
    BY <1>2, <2>2
<1> DEFINE U == {0} \cup S
<1>5. U \subseteq Int
  BY <1>4
<1>6. Max(U) \in U
  <2>1. U \in SUBSET Int /\ IsFiniteSet(U) /\ U # {}
    BY <1>4
  <2> HIDE DEF U
  <2> QED
    BY <2>1, GreatestOfFinite
<1>7. Inputless!NeededOf(i) = Max(U)
  BY <1>3
<1> HIDE DEF U
<1> QED
  BY <1>5, <1>6, <1>7, Zenon

\* The bound is one of two numbers.
LEMMA BoundFacts ==
    ASSUME NEW m \in Int, NEW n \in Int
    PROVE  Max({m, n}) \in Int /\ Max({m, n}) >= m /\ Max({m, n}) >= n
<1>1. {m, n} \in SUBSET Int /\ IsFiniteSet({m, n}) /\ {m, n} # {}
  <2>1. IsFiniteSet({m}) /\ IsFiniteSet({n}) /\ {m, n} = {m} \cup {n}
    BY FS_Singleton
  <2> QED
    BY <2>1, FS_Union
<1>2. Max({m, n}) \in {m, n} /\ \A y \in {m, n} : Max({m, n}) >= y
  BY <1>1, GreatestOfFinite
<1> QED
  BY <1>2

\* What is sent when one more transfer is, or one less.
LEMMA SentFacts ==
    ASSUME NEW T \in SUBSET Inputless!Transfers, IsFiniteSet(T), NEW i
    PROVE  /\ Inputless!SentOf(T, i) \in Nat
           /\ \A o \in Inputless!Transfers :
                Inputless!SentOf(T \cup {o}, i) <= Inputless!SentOf(T, i) + IF o.item = i THEN o.size ELSE 0
           /\ \A o \in T :
                Inputless!SentOf(T \ {o}, i) = Inputless!SentOf(T, i) - IF o.item = i THEN o.size ELSE 0
<1> DEFINE of(U) == {o \in U : o.item = i}
           f == Inputless!Sizes
           sum(U) == SumFunctionOnSet(f, U)
<1>1. \A U : Inputless!SentOf(U, i) = sum(of(U))
  BY SameSum DEF Inputless!SentOf
<1>2. \A o \in Inputless!Transfers : f[o] = o.size /\ f[o] \in Nat
  BY DEF Inputless!Sizes, Inputless!Transfers
<1>3. of(T) \in SUBSET Inputless!Transfers /\ IsFiniteSet(of(T))
  BY FS_Subset
<1> HIDE DEF f
<1>4. sum(of(T)) \in Nat
  BY <1>2, <1>3, SumNatural
<1>5. ASSUME NEW o \in Inputless!Transfers
      PROVE  sum(of(T \cup {o})) <= sum(of(T)) + IF o.item = i THEN o.size ELSE 0
  <2>1. CASE o.item # i \/ o \in T
    <3>1. of(T \cup {o}) = of(T)
      BY <2>1
    <3>2. o.size \in Nat
      BY <1>2
    <3> HIDE DEF sum, of
    <3> QED
      BY <1>4, <3>1, <3>2
  <2>2. CASE o.item = i /\ o \notin T
    <3> DEFINE S == of(T) \cup {o}
    <3>1. of(T \cup {o}) = S /\ o \in S \ of(T) /\ of(T) \in SUBSET S
      BY <2>2
    <3>2. IsFiniteSet(S) /\ \A x \in S : f[x] \in Int
      <4>1. IsFiniteSet(S)
        <5> HIDE DEF of
        <5> QED
          BY <1>3, FS_AddElement
      <4>2. \A x \in S : x \in Inputless!Transfers
        BY <1>3
      <4> QED
        BY <1>2, <4>1, <4>2
    <3> HIDE DEF S, of
    <3>3. sum(of(T) \cup {o}) = f[o] + sum(of(T))
      BY <3>1, <3>2, SumInserts
    <3>4. sum(of(T \cup {o})) = o.size + sum(of(T))
      BY <1>2, <3>1, <3>3 DEF S
    <3>5. o.size \in Nat
      BY <1>2
    <3> HIDE DEF sum
    <3> QED
      BY <1>4, <2>2, <3>4, <3>5
  <2> QED
    BY <2>1, <2>2
<1>6. ASSUME NEW o \in T
      PROVE  sum(of(T \ {o})) = sum(of(T)) - IF o.item = i THEN o.size ELSE 0
  <2>1. CASE o.item # i
    <3>1. of(T \ {o}) = of(T)
      BY <2>1
    <3> HIDE DEF sum, of
    <3> QED
      BY <1>4, <2>1, <3>1
  <2>2. CASE o.item = i
    <3>1. of(T \ {o}) = of(T) \ {o} /\ o \in of(T) /\ o \in Inputless!Transfers
      BY <2>2
    <3>2. \A x \in of(T) : f[x] \in Int
      BY <1>2, <1>3
    <3> HIDE DEF of
    <3>3. sum(of(T)) = f[o] + sum(of(T) \ {o}) /\ IsFiniteSet(of(T) \ {o})
      BY <1>3, <3>1, <3>2, SumRemoves, FS_Subset
    <3>4. sum(of(T) \ {o}) \in Int
      BY <3>2, <3>3, SumRemoves
    <3>5. f[o] = o.size /\ o.size \in Nat
      BY <1>2, <3>1
    <3>6. sum(of(T) \ {o}) = sum(of(T)) - o.size
      <4> HIDE DEF sum
      <4> QED
        BY <1>4, <3>3, <3>4, <3>5
    <3> HIDE DEF sum
    <3> QED
      BY <2>2, <3>1, <3>6, Zenon
  <2> QED
    BY <2>1, <2>2
<1> HIDE DEF sum, of
<1> QED
  BY <1>1, <1>4, <1>5, <1>6

\* What has been planned so far: what is sent counts as stored, and nothing is sent
\* beyond what is needed.
Planned(x) ==
    /\ x \in [avail : [Items -> Int], outputs : SUBSET Inputless!Transfers] /\ IsFiniteSet(x.outputs)
    /\ \A o \in x.outputs : o.size # 0 /\ o.item = Produces[o.slot]
    /\ \A i \in Items :
         /\ stored[i] + Inputless!SentOf(x.outputs, i) <= x.avail[i]
         /\ x.avail[i] <= stored[i] \/ x.avail[i] <= Inputless!NeededOf(i)

\* One slot keeps it so.
LEMMA PlanSlotKeeps ==
    ASSUME Inputless!InputlessAssumption, InputlessInv, NEW x, Planned(x), NEW slot \in Inputless!Slots
    PROVE  Planned(Inputless!PlanSlot(x, slot))
<1> DEFINE i == listed[slot].item
           n == Inputless!Least(Inputless!NeededOf(i) - x.avail[i], listed[slot].size)
           o == [slot |-> slot, item |-> i, size |-> n]
           y == Inputless!Counted(x, i, n)
           z == [y EXCEPT !.outputs = @ \cup {o}]
<1>1. Inputless!PlanSlot(x, slot) =
        IF slot \notin SlotFilter \/ listed[slot] = Inputless!Empty \/ ~Inputless!Worth(n) THEN x ELSE z
  BY DEF Inputless!PlanSlot
<1>2. CASE slot \notin SlotFilter \/ listed[slot] = Inputless!Empty \/ ~Inputless!Worth(n)
  BY <1>1, <1>2
<1>3. CASE ~(slot \notin SlotFilter \/ listed[slot] = Inputless!Empty \/ ~Inputless!Worth(n))
  <2>1. Holds(listed[slot], slot) /\ listed[slot] # Inputless!Empty /\ n > 0
    BY <1>3 DEF InputlessInv, Inputless!Worth
  <2>2. i = Produces[slot] /\ i \in Items
    BY <2>1 DEF Holds, Inputless!InputlessAssumption
  <2>3. listed[slot].size \in Nat
    BY DEF InputlessInv, InputlessTypes
  <2>4. Inputless!NeededOf(i) \in Int
    BY NeededFacts
  <2>5. x.avail \in [Items -> Int] /\ x.outputs \in SUBSET Inputless!Transfers /\ IsFiniteSet(x.outputs)
    BY DEF Planned
  <2> HIDE DEF i
  <2>6. x.avail[i] \in Int
    BY <2>2, <2>5
  <2>7. n \in Nat \ {0} /\ n <= Inputless!NeededOf(i) - x.avail[i]
    BY <2>1, <2>3, <2>4, <2>6 DEF Inputless!Least
  <2> HIDE DEF n
  <2>8. o \in Inputless!Transfers
    BY <2>2, <2>7 DEF Inputless!Transfers
  <2>9. z.avail = [x.avail EXCEPT ![i] = @ + n] /\ z.outputs = x.outputs \cup {o}
        /\ z = [avail |-> z.avail, outputs |-> z.outputs]
    <3> DEFINE a == [x.avail EXCEPT ![i] = @ + n]
    <3>1. x = [avail |-> x.avail, outputs |-> x.outputs]
      BY DEF Planned
    <3>2. y = [x EXCEPT !.avail = a]
      BY DEF Inputless!Counted
    <3> HIDE DEF a, y, o
    <3>3. y = [avail |-> a, outputs |-> x.outputs]
      BY <3>1, <3>2
    <3>4. z = [avail |-> a, outputs |-> x.outputs \cup {o}]
      BY <3>3
    <3> QED
      BY <3>4 DEF a
  <2> HIDE DEF z, y
  <2>10. z.avail \in [Items -> Int] /\ z.avail[i] = x.avail[i] + n
         /\ \A j \in Items \ {i} : z.avail[j] = x.avail[j]
    BY <2>2, <2>5, <2>6, <2>7, <2>9
  <2>11. z.outputs \in SUBSET Inputless!Transfers /\ IsFiniteSet(z.outputs)
    <3> HIDE DEF o
    <3> QED
      BY <2>5, <2>8, <2>9, FS_AddElement
  <2>12. \A p \in z.outputs : p.size # 0 /\ p.item = Produces[p.slot]
    BY <2>2, <2>7, <2>9 DEF Planned
  <2>13. ASSUME NEW j \in Items
         PROVE  /\ stored[j] + Inputless!SentOf(z.outputs, j) <= z.avail[j]
                /\ z.avail[j] <= stored[j] \/ z.avail[j] <= Inputless!NeededOf(j)
    <3>1. /\ stored[j] + Inputless!SentOf(x.outputs, j) <= x.avail[j]
          /\ x.avail[j] <= stored[j] \/ x.avail[j] <= Inputless!NeededOf(j)
      BY DEF Planned
    <3>2. stored[j] \in Nat /\ x.avail[j] \in Int
      BY <2>5 DEF InputlessInv, InputlessTypes
    <3>3. Inputless!SentOf(x.outputs, j) \in Nat /\ Inputless!SentOf(z.outputs, j) \in Nat
      BY <2>5, <2>11, SentFacts
    <3>4. Inputless!SentOf(z.outputs, j) <= Inputless!SentOf(x.outputs, j) + IF o.item = j THEN o.size ELSE 0
      BY <2>5, <2>8, <2>9, SentFacts
    <3>5. o.item = i /\ o.size = n
      OBVIOUS
    <3> HIDE DEF o
    <3>6. CASE j = i
      <4>1. Inputless!SentOf(z.outputs, j) <= Inputless!SentOf(x.outputs, j) + n
        BY <3>4, <3>5, <3>6
      <4> QED
        BY <2>4, <2>7, <2>10, <3>1, <3>2, <3>3, <3>6, <4>1
    <3>7. CASE j # i
      <4>1. Inputless!SentOf(z.outputs, j) <= Inputless!SentOf(x.outputs, j)
        BY <3>3, <3>4, <3>5, <3>7
      <4> QED
        BY <2>10, <3>1, <3>2, <3>3, <3>7, <4>1
    <3> QED
      BY <3>6, <3>7
  <2>14. z \in [avail : [Items -> Int], outputs : SUBSET Inputless!Transfers]
    BY <2>9, <2>10, <2>11
  <2>15. Planned(z)
    BY <2>11, <2>12, <2>13, <2>14 DEF Planned
  <2>16. Inputless!PlanSlot(x, slot) = z
    BY <1>1, <1>3
  <2> QED
    BY <2>15, <2>16
<1> QED
  BY <1>2, <1>3

\* The rounds of the loop over the first k slots.
FirstRounds(f, k, start) ==
    f = [n \in 0 .. k |-> IF n = 0 THEN start ELSE Inputless!PlanSlot(f[n - 1], n)]

\* There are such rounds for any number of slots.
LEMMA RoundsOfSlots == ASSUME NEW start, NEW k \in Nat PROVE \E f : FirstRounds(f, k, start)
<1> DEFINE K == {m \in Nat : \E f : FirstRounds(f, m, start)}
<1>1. 0 \in K
  <2> DEFINE f == [n \in 0 .. 0 |-> start]
  <2>1. f = [n \in 0 .. 0 |-> IF n = 0 THEN start ELSE Inputless!PlanSlot(f[n - 1], n)]
    OBVIOUS
  <2> QED
    BY <2>1 DEF FirstRounds
<1>2. ASSUME NEW m \in Nat, m \in K PROVE m + 1 \in K
  <2>1. PICK f : FirstRounds(f, m, start)
    BY <1>2
  <2> DEFINE g == [n \in 0 .. m + 1 |-> IF n <= m THEN f[n] ELSE Inputless!PlanSlot(f[m], m + 1)]
             h == [n \in 0 .. m + 1 |-> IF n = 0 THEN start ELSE Inputless!PlanSlot(g[n - 1], n)]
  <2>2. \A n \in 0 .. m : f[n] = IF n = 0 THEN start ELSE Inputless!PlanSlot(f[n - 1], n)
    <3> DEFINE F(n) == IF n = 0 THEN start ELSE Inputless!PlanSlot(f[n - 1], n)
    <3>1. f = [n \in 0 .. m |-> F(n)]
      BY <2>1 DEF FirstRounds
    <3> HIDE DEF F
    <3>2. \A n \in 0 .. m : f[n] = F(n)
      BY <3>1
    <3> QED
      BY <3>2 DEF F
  <2>3. ASSUME NEW n \in 0 .. m + 1 PROVE g[n] = h[n]
    <3>1. CASE n = 0
      BY <2>2, <3>1
    <3>2. CASE n \in 1 .. m
      <4>1. n - 1 \in 0 .. m + 1 /\ n - 1 <= m /\ n \in 0 .. m /\ n # 0 /\ n <= m
        BY <3>2
      <4>2. g[n - 1] = f[n - 1] /\ g[n] = f[n]
        BY <4>1
      <4>3. f[n] = Inputless!PlanSlot(f[n - 1], n)
        BY <2>2, <4>1
      <4> QED
        BY <4>1, <4>2, <4>3
    <3>3. CASE n = m + 1
      <4>1. n - 1 = m /\ m \in 0 .. m + 1 /\ n # 0 /\ ~(n <= m)
        BY <3>3
      <4>2. g[m] = f[m] /\ g[n] = Inputless!PlanSlot(f[m], n)
        BY <3>3, <4>1
      <4> QED
        BY <4>1, <4>2
    <3> QED
      BY <3>1, <3>2, <3>3
  <2>4. g = h
    BY <2>3
  <2>5. FirstRounds(g, m + 1, start)
    BY <2>4 DEF FirstRounds
  <2> QED
    BY <2>5
<1>3. Nat \subseteq K
  <2> HIDE DEF K
  <2> QED
    BY <1>1, <1>2, NumberInduction
<1> QED
  BY <1>3

\* Hence the plan is as it should.
LEMMA PlanSlotsFacts ==
    ASSUME Inputless!InputlessAssumption, InputlessInv, phase = "listed"
    PROVE  Planned(Inputless!PlanSlots)
<1> DEFINE start == [avail |-> [i \in Items |-> Inputless!GetAvail(info, i, TRUE)], outputs |-> {}]
           f == CHOOSE g : FirstRounds(g, Size, start)
<1>1. Size \in Nat
  BY DEF Inputless!InputlessAssumption
<1>2. Inputless!PlanSlots = f[Size]
  BY DEF Inputless!PlanSlots, FirstRounds
<1>3. Planned(start)
  <2>1. \A i \in Items : Inputless!GetAvail(info, i, TRUE) = stored[i] /\ stored[i] \in Nat
    BY DEF InputlessInv, InputlessTypes, Inputless!GetAvail
  <2>2. IsFiniteSet({})
    BY FS_EmptySet
  <2>3. ASSUME NEW i \in Items PROVE Inputless!SentOf({}, i) = 0
    <3>1. {o \in {} : o.item = i} = {}
      OBVIOUS
    <3> QED
      BY <3>1, SameSum, SumEmpty DEF Inputless!SentOf
  <2>4. start \in [avail : [Items -> Int], outputs : SUBSET Inputless!Transfers]
    <3> DEFINE a == [i \in Items |-> Inputless!GetAvail(info, i, TRUE)]
    <3>1. a \in [Items -> Int]
      <4> DEFINE G(i) == Inputless!GetAvail(info, i, TRUE)
      <4>1. \A i \in Items : G(i) \in Nat
        BY <2>1, Zenon
      <4> HIDE DEF G
      <4>2. [i \in Items |-> G(i)] \in [Items -> Int]
        BY <4>1
      <4> QED
        BY <4>2 DEF G
    <3> HIDE DEF a
    <3>2. [avail |-> a, outputs |-> {}] \in [avail : [Items -> Int], outputs : SUBSET Inputless!Transfers]
      BY <3>1
    <3> QED
      BY <3>2 DEF a
  <2>5. start.outputs = {} /\ \A i \in Items : start.avail[i] = stored[i]
    BY <2>1
  <2> HIDE DEF start
  <2>6. \A i \in Items : stored[i] + Inputless!SentOf(start.outputs, i) <= start.avail[i]
                         /\ start.avail[i] <= stored[i]
    <3> SUFFICES ASSUME NEW i \in Items
                 PROVE  stored[i] + Inputless!SentOf(start.outputs, i) <= start.avail[i]
                        /\ start.avail[i] <= stored[i]
      OBVIOUS
    <3>1. stored[i] \in Nat /\ start.avail[i] = stored[i]
      BY <2>1, <2>5
    <3>2. Inputless!SentOf(start.outputs, i) = 0
      BY <2>3, <2>5
    <3> QED
      BY <3>1, <3>2
  <2> QED
    BY <2>2, <2>4, <2>5, <2>6 DEF Planned
<1> HIDE DEF start
<1>4. FirstRounds(f, Size, start)
  BY <1>1, RoundsOfSlots
<1> HIDE DEF f
<1>5. f[0] = start /\ \A n \in 1 .. Size : f[n] = Inputless!PlanSlot(f[n - 1], n)
  <2> DEFINE F(n) == IF n = 0 THEN start ELSE Inputless!PlanSlot(f[n - 1], n)
  <2>1. f = [n \in 0 .. Size |-> F(n)]
    BY <1>4 DEF FirstRounds
  <2> HIDE DEF F
  <2>2. \A n \in 0 .. Size : f[n] = F(n)
    BY <2>1
  <2> QED
    BY <1>1, <2>2 DEF F
<1> DEFINE K == {n \in Nat : n <= Size => Planned(f[n])}
<1>6. 0 \in K
  BY <1>3, <1>5
<1>7. ASSUME NEW n \in Nat, n \in K PROVE n + 1 \in K
  <2> SUFFICES ASSUME n + 1 <= Size PROVE Planned(f[n + 1])
    OBVIOUS
  <2>1. Planned(f[n]) /\ n + 1 \in 1 .. Size /\ n + 1 - 1 = n
    BY <1>1, <1>7
  <2>2. f[n + 1] = Inputless!PlanSlot(f[n], n + 1)
    BY <1>5, <2>1
  <2>3. n + 1 \in Inputless!Slots
    BY <2>1 DEF Inputless!Slots
  <2> QED
    BY <2>1, <2>2, <2>3, PlanSlotKeeps
<1>8. Nat \subseteq K
  <2> HIDE DEF K
  <2> QED
    BY <1>6, <1>7, NumberInduction
<1> QED
  BY <1>1, <1>2, <1>8

\* Together with what is stored no more is on its way than is needed.
BoundOf(i) == Max({Inputless!NeededOf(i), Stored0[i]})

\* The bound is a number.
LEMMA BoundOfFacts ==
    ASSUME Inputless!InputlessAssumption, NEW i \in Items
    PROVE  /\ BoundOf(i) \in Int /\ BoundOf(i) >= Inputless!NeededOf(i) /\ BoundOf(i) >= Stored0[i]
           /\ Inputless!Max({Inputless!NeededOf(i), Stored0[i]}) = BoundOf(i)
<1>1. Inputless!NeededOf(i) \in Int /\ Stored0[i] \in Int
  BY NeededFacts DEF Inputless!InputlessAssumption
<1> QED
  BY <1>1, BoundFacts, SameMax DEF BoundOf

\* What was planned stays below the bound.
LEMMA PlanKeeps ==
    ASSUME Inputless!InputlessAssumption, InputlessInv, Inputless!Plan PROVE InputlessInv'
<1> DEFINE plan == Inputless!PlanSlots
<1>1. /\ phase = "listed" /\ phase' = "working" /\ outputs' = plan.outputs
      /\ listed' = Inputless!Nowhere /\ UNCHANGED <<stored, info, machine, produced>>
  BY DEF Inputless!Plan
<1>2. Planned(plan)
  BY <1>1, PlanSlotsFacts
<1> HIDE DEF plan
<1>3. /\ outputs' \in SUBSET Inputless!Transfers /\ IsFiniteSet(outputs')
      /\ \A o \in outputs' : o.size # 0 /\ o.item = Produces[o.slot]
  BY <1>1, <1>2 DEF Planned
<1>4. InputlessTypes' /\ \A slot \in Inputless!Slots : Holds(listed'[slot], slot)
  BY <1>1, <1>3 DEF InputlessInv, InputlessTypes, Inputless!Nowhere, Inputless!Empty, Holds
<1>5. ASSUME NEW i \in Items PROVE stored'[i] + Inputless!SentOf(outputs', i) <= BoundOf(i)
  <2>1. stored[i] \in Nat /\ Inputless!SentOf(outputs, i) \in Nat /\ Inputless!SentOf(outputs', i) \in Nat
    BY <1>3, SentFacts DEF InputlessInv, InputlessTypes
  <2>2. stored[i] + Inputless!SentOf(outputs, i) <= BoundOf(i)
    BY BoundOfFacts DEF InputlessInv, Inputless!NeverTooMuch, Inputless!Sent
  <2>3. /\ stored[i] + Inputless!SentOf(outputs', i) <= plan.avail[i]
        /\ plan.avail[i] <= stored[i] \/ plan.avail[i] <= Inputless!NeededOf(i)
        /\ plan.avail[i] \in Int
    BY <1>1, <1>2 DEF Planned
  <2>4. Inputless!NeededOf(i) \in Int /\ BoundOf(i) \in Int /\ BoundOf(i) >= Inputless!NeededOf(i)
    BY NeededFacts, BoundOfFacts
  <2>5. stored'[i] = stored[i]
    BY <1>1
  <2> QED
    BY <2>1, <2>2, <2>3, <2>4, <2>5
<1>6. Inputless!NeverTooMuch'
  BY <1>5, BoundOfFacts DEF Inputless!NeverTooMuch, Inputless!Sent, Inputless!NeededOf
<1> QED
  BY <1>1, <1>3, <1>4, <1>6 DEF InputlessInv

\* What is taken out of the machine was on its way.
LEMMA OutputKeeps ==
    ASSUME Inputless!InputlessAssumption, InputlessInv, Inputless!ItemsAssumption, NEW o \in outputs,
           Inputless!ProcessOutput(o) \/ Inputless!OutputFails(o)
    PROVE  InputlessInv'
<1> DEFINE stack == machine[o.slot]
           n == IF Inputless!ProcessOutput(o) THEN Inputless!Least(o.size, stack.size) ELSE 0
<1>1. /\ outputs' = outputs \ {o} /\ UNCHANGED <<info, listed, phase, produced>>
      /\ stored' = IF n = 0 THEN stored ELSE [stored EXCEPT ![stack.item] = @ + n]
      /\ machine' = machine \/ machine' = [machine EXCEPT ![o.slot] = Inputless!Stack(stack.item, stack.size - n)]
  BY DEF Inputless!ProcessOutput, Inputless!OutputFails
<1>2. /\ o \in Inputless!Transfers /\ o.size # 0 /\ o.item = Produces[o.slot]
      /\ outputs \in SUBSET Inputless!Transfers /\ IsFiniteSet(outputs)
  BY DEF InputlessInv, InputlessTypes
<1>3. o.slot \in Inputless!Slots /\ o.item \in Items /\ o.size \in Nat
  BY <1>2 DEF Inputless!Transfers
<1>4. stack \in [item : Items \cup {NoItem}, size : Nat] /\ Holds(stack, o.slot)
  BY <1>3 DEF InputlessInv, InputlessTypes
<1>5. n \in Nat /\ n <= o.size /\ n <= stack.size
  BY <1>3, <1>4 DEF Inputless!Least
<1> HIDE DEF n
<1>6. n # 0 => stack.item = o.item
  <2>1. stack = Inputless!Empty => n = 0
    BY <1>4, <1>5 DEF Inputless!Empty
  <2> QED
    BY <1>2, <1>4, <2>1 DEF Holds
<1> HIDE DEF stack
<1>7. outputs' \in SUBSET Inputless!Transfers /\ IsFiniteSet(outputs')
  BY <1>1, <1>2, FS_Subset
<1>8. ASSUME NEW i \in Items
      PROVE  stored'[i] \in Nat /\ stored'[i] = stored[i] + (IF i = o.item THEN n ELSE 0)
  BY <1>1, <1>3, <1>5, <1>6 DEF InputlessInv, InputlessTypes
<1>9. stored' \in [Items -> Nat]
  <2>1. DOMAIN stored' = Items /\ stored' = [i \in DOMAIN stored' |-> stored'[i]]
    BY <1>1 DEF InputlessInv, InputlessTypes
  <2> QED
    BY <1>8, <2>1
<1>10. ASSUME NEW slot \in Inputless!Slots
       PROVE  machine'[slot] \in [item : Items \cup {NoItem}, size : Nat] /\ Holds(machine'[slot], slot)
  <2>1. machine[slot] \in [item : Items \cup {NoItem}, size : Nat] /\ Holds(machine[slot], slot)
    BY DEF InputlessInv, InputlessTypes
  <2>2. CASE machine'[slot] = machine[slot]
    BY <2>1, <2>2
  <2>3. CASE slot = o.slot /\ machine'[slot] = Inputless!Stack(stack.item, stack.size - n)
    <3>1. stack.item \in Items \cup {NoItem} /\ stack.size \in Nat
      BY <1>4
    <3>2. CASE stack.size - n = 0
      BY <2>3, <3>2 DEF Inputless!Stack, Inputless!Empty, Holds
    <3>3. CASE stack.size - n # 0
      <4>1. machine'[slot] = [item |-> stack.item, size |-> stack.size - n]
        BY <2>3, <3>3 DEF Inputless!Stack
      <4>2. stack.size - n \in Nat /\ stack.size - n >= 1 /\ stack.size - n <= stack.size /\ stack.size # 0
        BY <1>5, <3>1, <3>3
      <4>3. stack # Inputless!Empty
        BY <4>2 DEF Inputless!Empty
      <4>4. stack.item = Produces[slot] /\ stack.size \in 1 .. MaxSize[stack.item]
        BY <1>4, <2>3, <4>3 DEF Holds
      <4>5. stack.item \in Items
        BY <1>3, <2>3, <4>4 DEF Inputless!InputlessAssumption
      <4>6. MaxSize[stack.item] \in Nat
        BY <4>5 DEF Inputless!ItemsAssumption
      <4>7. stack.size - n \in 1 .. MaxSize[stack.item]
        BY <4>2, <4>4, <4>6
      <4> QED
        BY <3>1, <4>1, <4>2, <4>4, <4>7 DEF Holds
    <3> QED
      BY <3>2, <3>3
  <2>4. machine \in [Inputless!Slots -> [item : Items \cup {NoItem}, size : Nat]]
    BY DEF InputlessInv, InputlessTypes
  <2> QED
    BY <1>1, <2>2, <2>3, <2>4
<1>11. machine' \in [Inputless!Slots -> [item : Items \cup {NoItem}, size : Nat]]
  <2>1. DOMAIN machine' = Inputless!Slots /\ machine' = [slot \in DOMAIN machine' |-> machine'[slot]]
    BY <1>1 DEF InputlessInv, InputlessTypes
  <2> QED
    BY <1>10, <2>1
<1>12. InputlessTypes'
  BY <1>1, <1>7, <1>9, <1>11 DEF InputlessInv, InputlessTypes
<1>13. ASSUME NEW i \in Items PROVE stored'[i] + Inputless!SentOf(outputs', i) <= BoundOf(i)
  <2>1. /\ Inputless!SentOf(outputs, i) \in Nat
        /\ Inputless!SentOf(outputs', i) = Inputless!SentOf(outputs, i) - IF o.item = i THEN o.size ELSE 0
    BY <1>1, <1>2, SentFacts
  <2>2. stored[i] + Inputless!SentOf(outputs, i) <= BoundOf(i)
    BY BoundOfFacts DEF InputlessInv, Inputless!NeverTooMuch, Inputless!Sent
  <2>3. BoundOf(i) \in Int /\ stored[i] \in Nat
    BY BoundOfFacts DEF InputlessInv, InputlessTypes
  <2>4. stored'[i] = stored[i] + (IF i = o.item THEN n ELSE 0)
    BY <1>8
  <2>5. CASE i = o.item
    BY <1>3, <1>5, <2>1, <2>2, <2>3, <2>4, <2>5
  <2>6. CASE i # o.item
    BY <2>1, <2>2, <2>3, <2>4, <2>6
  <2> QED
    BY <2>5, <2>6
<1>14. Inputless!NeverTooMuch'
  BY <1>13, BoundOfFacts DEF Inputless!NeverTooMuch, Inputless!Sent, Inputless!NeededOf
<1>15. phase = "working"
  BY DEF InputlessInv
<1> QED
  BY <1>1, <1>10, <1>12, <1>14, <1>15 DEF InputlessInv

\* The environment and the other steps.
LEMMA OtherStepsKeep ==
    ASSUME Inputless!InputlessAssumption, InputlessInv, Inputless!ItemsAssumption,
           \/ Inputless!Cycle \/ Inputless!List \/ Inputless!EndOfCycle
           \/ \E slot \in Inputless!Slots : Inputless!Produce(slot)
           \/ \E i \in Items : Inputless!Use(i)
    PROVE  InputlessInv'
<1>1. /\ outputs' = outputs /\ outputs \in SUBSET Inputless!Transfers /\ IsFiniteSet(outputs)
      /\ \A o \in outputs' : o.size # 0 /\ o.item = Produces[o.slot]
  BY DEF InputlessInv, InputlessTypes, Inputless!Cycle, Inputless!List, Inputless!EndOfCycle,
         Inputless!Produce, Inputless!Use
<1>2. ASSUME stored' \in [Items -> Nat], \A i \in Items : stored'[i] <= stored[i] PROVE Inputless!NeverTooMuch'
  <2>1. ASSUME NEW i \in Items PROVE stored'[i] + Inputless!SentOf(outputs, i) <= BoundOf(i)
    <3>1. stored[i] + Inputless!SentOf(outputs, i) <= BoundOf(i)
      BY BoundOfFacts DEF InputlessInv, Inputless!NeverTooMuch, Inputless!Sent
    <3>2. Inputless!SentOf(outputs, i) \in Nat /\ BoundOf(i) \in Int
      BY <1>1, SentFacts, BoundOfFacts
    <3>3. stored[i] \in Nat /\ stored'[i] \in Nat /\ stored'[i] <= stored[i]
      BY <1>2 DEF InputlessInv, InputlessTypes
    <3> QED
      BY <3>1, <3>2, <3>3
  <2> QED
    BY <1>1, <2>1, BoundOfFacts DEF Inputless!NeverTooMuch, Inputless!Sent, Inputless!NeededOf
<1>3. CASE Inputless!Cycle
  <2>1. /\ phase = "idle" /\ phase' \in {"asked", "working"} /\ UNCHANGED <<stored, machine, listed, produced>>
        /\ info' = [i \in Items |-> [avail |-> stored[i], backup |-> 0]]
    BY <1>3 DEF Inputless!Cycle
  <2>2. stored \in [Items -> Nat]
    BY DEF InputlessInv, InputlessTypes
  <2>3. info' \in [Items -> [avail : Nat, backup : Nat]] /\ \A i \in Items : info'[i].avail = stored[i]
    BY <2>1, <2>2
  <2>4. Inputless!NeverTooMuch'
    <3>1. stored' \in [Items -> Nat] /\ \A i \in Items : stored'[i] <= stored[i]
      BY <2>1, <2>2
    <3> QED
      BY <1>2, <3>1
  <2> QED
    BY <1>1, <2>1, <2>3, <2>4 DEF InputlessInv, InputlessTypes
<1>4. CASE Inputless!List \/ Inputless!EndOfCycle
  <2>1. /\ phase \in {"asked", "working"} /\ phase' \in {"listed", "idle"} /\ (phase' = "listed" => info' = info)
        /\ (phase' = "listed" <=> phase = "asked") /\ (phase' = "idle" => outputs = {})
        /\ UNCHANGED <<stored, machine, produced>> /\ (listed' = machine \/ listed' = listed)
        /\ info' = info \/ info' = Inputless!Unknown
    BY <1>4 DEF Inputless!List, Inputless!EndOfCycle
  <2>2. stored \in [Items -> Nat] /\ Inputless!Unknown \in [Items -> [avail : Nat, backup : Nat]]
    BY DEF InputlessInv, InputlessTypes, Inputless!Unknown
  <2>3. Inputless!NeverTooMuch'
    <3>1. stored' \in [Items -> Nat] /\ \A i \in Items : stored'[i] <= stored[i]
      BY <2>1, <2>2
    <3> QED
      BY <1>2, <3>1
  <2> QED
    BY <1>1, <2>1, <2>2, <2>3 DEF InputlessInv, InputlessTypes
<1>5. ASSUME NEW slot \in Inputless!Slots, Inputless!Produce(slot) PROVE InputlessInv'
  <2> DEFINE i == Produces[slot]
  <2>1. /\ produced < MaxProduced /\ machine[slot].size < MaxSize[i] /\ produced' = produced + 1
        /\ machine' = [machine EXCEPT ![slot] = Inputless!Stack(i, @.size + 1)]
        /\ UNCHANGED <<stored, info, listed, phase>>
    BY <1>5 DEF Inputless!Produce
  <2>2. i \in Items
    BY DEF Inputless!InputlessAssumption
  <2>3. MaxSize[i] \in Nat
    BY <2>2 DEF Inputless!ItemsAssumption
  <2> HIDE DEF i
  <2>4. machine \in [Inputless!Slots -> [item : Items \cup {NoItem}, size : Nat]]
    BY DEF InputlessInv, InputlessTypes
  <2>5. machine[slot].size \in Nat
    BY <2>4
  <2>6. machine'[slot] = [item |-> i, size |-> machine[slot].size + 1]
    BY <2>1, <2>4, <2>5 DEF Inputless!Stack
  <2>7. machine' \in [Inputless!Slots -> [item : Items \cup {NoItem}, size : Nat]]
    BY <2>1, <2>2, <2>4, <2>5 DEF Inputless!Stack
  <2>8. machine'[slot].size \in 1 .. MaxSize[i] /\ machine'[slot].item = i
    BY <2>1, <2>3, <2>5, <2>6
  <2>9. \A s \in Inputless!Slots : Holds(machine'[s], s)
    <3> SUFFICES ASSUME NEW s \in Inputless!Slots PROVE Holds(machine'[s], s)
      OBVIOUS
    <3>1. CASE s = slot
      BY <2>8, <3>1 DEF Holds, i
    <3>2. CASE s # slot
      <4>1. machine'[s] = machine[s]
        BY <2>1, <2>4, <3>2
      <4> QED
        BY <4>1 DEF InputlessInv
    <3> QED
      BY <3>1, <3>2
  <2>10. stored' \in [Items -> Nat] /\ \A j \in Items : stored'[j] <= stored[j]
    BY <2>1 DEF InputlessInv, InputlessTypes
  <2>11. Inputless!NeverTooMuch'
    BY <1>2, <2>10
  <2>12. produced' \in 0 .. MaxProduced
    <3>1. MaxProduced \in Nat /\ produced \in 0 .. MaxProduced
      BY DEF Inputless!InputlessAssumption, InputlessInv, InputlessTypes
    <3> QED
      BY <2>1, <3>1
  <2>13. InputlessTypes'
    BY <1>1, <2>1, <2>7, <2>12 DEF InputlessInv, InputlessTypes
  <2> QED
    BY <1>1, <2>1, <2>9, <2>11, <2>13 DEF InputlessInv
<1>6. ASSUME NEW i \in Items, Inputless!Use(i) PROVE InputlessInv'
  <2>1. /\ stored[i] > 0 /\ phase = "idle" /\ stored' = [stored EXCEPT ![i] = @ - 1]
        /\ UNCHANGED <<info, machine, listed, phase, produced>>
    BY <1>6 DEF Inputless!Use
  <2>2. stored' \in [Items -> Nat] /\ \A j \in Items : stored'[j] <= stored[j]
    BY <2>1 DEF InputlessInv, InputlessTypes
  <2>3. Inputless!NeverTooMuch'
    BY <1>2, <2>2
  <2> QED
    BY <1>1, <2>1, <2>2, <2>3 DEF InputlessInv, InputlessTypes
<1> QED
  BY <1>3, <1>4, <1>5, <1>6

\* InputlessInv is an invariant of the process, whatever the machine makes.
THEOREM InputlessInvariant ==
    ASSUME Inputless!InputlessAssumption, Inputless!ItemsAssumption
    PROVE  Inputless!Spec => []InputlessInv
<1>1. Inputless!Init => InputlessInv
  <2> SUFFICES ASSUME Inputless!Init PROVE InputlessInv
    OBVIOUS
  <2>1. /\ stored = Stored0 /\ info = Inputless!Unknown /\ machine = Inputless!Nowhere
        /\ listed = Inputless!Nowhere /\ outputs = {} /\ phase = "idle" /\ produced = 0
    BY DEF Inputless!Init
  <2>2. InputlessTypes
    <3>1. Inputless!Nowhere \in [Inputless!Slots -> [item : Items \cup {NoItem}, size : Nat]]
      BY DEF Inputless!Nowhere, Inputless!Empty
    <3>2. Inputless!Unknown \in [Items -> [avail : Nat, backup : Nat]]
      BY DEF Inputless!Unknown
    <3>3. MaxProduced \in Nat /\ Stored0 \in [Items -> Nat] /\ IsFiniteSet({})
      BY FS_EmptySet DEF Inputless!InputlessAssumption
    <3> QED
      BY <2>1, <3>1, <3>2, <3>3 DEF InputlessTypes
  <2>3. \A slot \in Inputless!Slots : Holds(machine[slot], slot) /\ Holds(listed[slot], slot)
    BY <2>1 DEF Holds, Inputless!Nowhere
  <2>4. ASSUME NEW i \in Items PROVE stored[i] + Inputless!SentOf(outputs, i) <= BoundOf(i)
    <3>1. Inputless!SentOf({}, i) = 0
      <4>1. {o \in {} : o.item = i} = {}
        OBVIOUS
      <4> QED
        BY <4>1, SameSum, SumEmpty DEF Inputless!SentOf
    <3>2. BoundOf(i) \in Int /\ BoundOf(i) >= Stored0[i] /\ Stored0[i] \in Nat
      BY BoundOfFacts DEF Inputless!InputlessAssumption
    <3> QED
      BY <2>1, <3>1, <3>2
  <2>5. Inputless!NeverTooMuch
    BY <2>4, BoundOfFacts DEF Inputless!NeverTooMuch, Inputless!Sent
  <2> QED
    BY <2>1, <2>2, <2>3, <2>5 DEF InputlessInv
<1>2. InputlessInv /\ [Inputless!Next]_(Inputless!vars) => InputlessInv'
  <2> SUFFICES ASSUME InputlessInv, [Inputless!Next]_(Inputless!vars) PROVE InputlessInv'
    OBVIOUS
  <2>1. CASE UNCHANGED Inputless!vars
    BY <2>1 DEF Inputless!vars, InputlessInv, InputlessTypes, Inputless!NeverTooMuch, Inputless!Sent,
                Inputless!NeededOf
  <2>2. CASE Inputless!Plan
    BY <2>2, PlanKeeps
  <2>3. ASSUME NEW o \in outputs, Inputless!ProcessOutput(o) \/ Inputless!OutputFails(o) PROVE InputlessInv'
    BY <2>3, OutputKeeps
  <2>4. CASE \/ Inputless!Cycle \/ Inputless!List \/ Inputless!EndOfCycle
             \/ \E slot \in Inputless!Slots : Inputless!Produce(slot)
             \/ \E i \in Items : Inputless!Use(i)
    BY <2>4, OtherStepsKeep
  <2> QED
    BY <2>1, <2>2, <2>3, <2>4 DEF Inputless!Next
<1> QED
  BY <1>1, <1>2, PTL DEF Inputless!Spec

\* Several slots of one cycle together never bring more of an item than is needed.
THEOREM NothingIsTakenInExcess ==
    ASSUME Inputless!InputlessAssumption, Inputless!ItemsAssumption
    PROVE  Inputless!Spec => [](Inputless!TypeOK /\ Inputless!NeverTooMuch)
<1>1. InputlessInv => Inputless!TypeOK /\ Inputless!NeverTooMuch
  <2> SUFFICES ASSUME InputlessInv PROVE Inputless!TypeOK
    BY DEF InputlessInv
  <2>1. ASSUME NEW contents \in {machine, listed}, NEW slot \in Inputless!Slots
        PROVE  contents[slot] = Inputless!Empty \/ contents[slot].size \in 1 .. MaxSize[contents[slot].item]
    BY DEF InputlessInv, Holds
  <2>2. \A o \in outputs : o.slot \in Inputless!Slots /\ o.item \in Items /\ o.size \in Nat \ {0}
    BY DEF InputlessInv, InputlessTypes, Inputless!Transfers
  <2> QED
    BY <2>1, <2>2 DEF Inputless!TypeOK, InputlessInv, InputlessTypes
<1> QED
  BY <1>1, InputlessInvariant, PTL
=============================================================================
