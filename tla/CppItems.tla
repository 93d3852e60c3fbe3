------------------------------ MODULE CppItems ------------------------------
(***************************************************************************)
(* How the C++ server chooses items for filters, how many sets of a recipe *)
(* it can make of what is stored, which recipes it wants first (Factory.h, *)
(* Factory.cpp), and where a stack would go in an inventory (Item.cpp).    *)
(* These are the functions the processes plan with; `info' is the map of   *)
(* ItemInfo by item, [avail, backup], of the items that were ever listed.  *)
(* Slots count from 1 here and from 0 in the code.                         *)
(***************************************************************************)
EXTENDS Integers, Sequences, FiniteSets, SequencesExt, FiniteSetsExt

CONSTANTS
    Items,
    NoItem,         \* the null pointer to an item
    Name, Label,    \* the two strings of an item that filters look at
    MaxSize         \* Item.maxSize

\* What an instance has to satisfy.
ItemsAssumption ==
    /\ IsFiniteSet(Items) /\ NoItem \notin Items
    /\ MaxSize \in [Items -> Nat \ {0}]

Empty == [item |-> NoItem, size |-> 0]
Stack(i, n) == IF n = 0 THEN Empty ELSE [item |-> i, size |-> n]
Least(m, n) == IF m < n THEN m ELSE n
Most(m, n) == IF m < n THEN n ELSE m

(***************************************************************************)
(* A filter is one of the four kinds of ItemFilters; fn is any predicate.  *)
(***************************************************************************)
FilterName(n) == [kind |-> "name", name |-> n]
FilterLabel(l) == [kind |-> "label", label |-> l]
FilterLabelName(l, n) == [kind |-> "labelName", label |-> l, name |-> n]
FilterFn(accepted) == [kind |-> "fn", accepted |-> accepted]

Accepts(filter, i) ==
    CASE filter.kind = "name" -> Name[i] = filter.name
      [] filter.kind = "label" -> Label[i] = filter.label
      [] filter.kind = "labelName" -> Label[i] = filter.label /\ Name[i] = filter.name
      [] filter.kind = "fn" -> i \in filter.accepted

GetAvail(info, i, allowBackup) ==
    IF i \notin DOMAIN info THEN 0
    ELSE IF allowBackup THEN info[i].avail
    ELSE Most(0, info[i].avail - info[i].backup)

\* The visitor of getItem looks the candidates up by name or by label, or tries
\* the predicate on every item.
Candidates(info, filter) ==
    CASE filter.kind = "name" -> {i \in DOMAIN info : Name[i] = filter.name}
      [] filter.kind = "label" -> {i \in DOMAIN info : Label[i] = filter.label}
      [] filter.kind = "labelName" ->
            {i \in {j \in DOMAIN info : Label[j] = filter.label} : Name[i] = filter.name}
      [] OTHER -> {i \in DOMAIN info : Accepts(filter, i)}

\* The item of which there is most, the first of equals in the order of a hash
\* map: some fixed choice.  Without any, the result stays null.
GetItem(info, filter) ==
    LET found == {i \in Candidates(info, filter) : info[i].avail > 0}
    IN IF found = {} THEN NoItem
       ELSE CHOOSE i \in found : \A j \in found : info[j].avail <= info[i].avail
-----------------------------------------------------------------------------
(***************************************************************************)
(* Recipes are [out, in, data] with out a sequence of [item, size] and in  *)
(* a sequence of [item, size, extraBackup, allowBackup, data].             *)
(***************************************************************************)
Sum(s) == FoldSeq(LAMBDA x, total : x + total, 0, s)

\* What the configuration gives as a recipe.
IsRecipe(recipe) ==
    /\ DOMAIN recipe.in = 1 .. Len(recipe.in) /\ Len(recipe.in) \in Nat \ {0}
    /\ \A k \in DOMAIN recipe.in : /\ recipe.in[k].size \in Nat \ {0} /\ recipe.in[k].extraBackup \in Nat
                                  /\ recipe.in[k].allowBackup \in BOOLEAN
    /\ DOMAIN recipe.out = 1 .. Len(recipe.out) /\ Len(recipe.out) \in Nat
    /\ \A k \in DOMAIN recipe.out : recipe.out[k].size \in Int
AreRecipes(recipes) ==
    /\ DOMAIN recipes = 1 .. Len(recipes) /\ Len(recipes) \in Nat
    /\ \A r \in DOMAIN recipes : IsRecipe(recipes[r])

\* The ingredient whose allowances count when several resolve to item i: the
\* first that must leave the backup, or else the first.
Deciding(recipe, in, i) ==
    LET uses == {k \in DOMAIN in : in[k] = i}
        strict == {k \in uses : ~recipe.in[k].allowBackup}
    IN Min(IF strict # {} THEN strict ELSE uses)

\* Mutant of Needed: an item that two ingredients resolve to is counted once.
NeededOnce(recipe, in, i) == recipe.in[CHOOSE k \in DOMAIN in : in[k] = i].size

Needed(recipe, in, i) ==
    SumFunctionOnSet([k \in DOMAIN in |-> recipe.in[k].size], {k \in DOMAIN in : in[k] = i})

\* Mutant of Clips: the stack size does not limit the sets.
ClipsNone(recipe, in) == {}

Clips(recipe, in) ==
    {MaxSize[in[k]] \div recipe.in[k].size : k \in {m \in DOMAIN in : in[m] # NoItem}}

\* resolveRecipeInputs: the items for the ingredients, and how many sets of
\* them there are.
ResolveRecipeInputs(info, recipe, clipToMaxStackSize) ==
    LET in == [k \in DOMAIN recipe.in |-> GetItem(info, recipe.in[k].item)]
        found == {in[k] : k \in DOMAIN in} \ {NoItem}
        left(i) == LET d == recipe.in[Deciding(recipe, in, i)]
                   IN Most(0, GetAvail(info, i, d.allowBackup) - d.extraBackup)
        sets == {left(i) \div Needed(recipe, in, i) : i \in found}
    IN [in |-> in,
        inAvail |-> IF \E k \in DOMAIN in : in[k] = NoItem THEN 0
                    ELSE Min(sets \cup IF clipToMaxStackSize THEN Clips(recipe, in) ELSE {})]

\* What is stored of an output, as a fraction of what shall be: <<stored, wanted>>.
Share(info, out) == <<GetAvail(info, GetItem(info, out.item), TRUE), out.size>>
Below(x, y) == x[1] * y[2] < y[1] * x[2]
Missing(info, recipe) ==
    {share \in {Share(info, recipe.out[k]) : k \in DOMAIN recipe.out} : share[1] < share[2]}
Lowest(shares) == CHOOSE x \in shares : \A y \in shares : ~Below(y, x)

\* Demand.fullness: 2 for a recipe without outputs.
Fullness(info, recipe) ==
    IF recipe.out = <<>> THEN <<2, 1>>
    ELSE Lowest(Missing(info, recipe))

Wanted(info, recipe) == recipe.out = <<>> \/ Missing(info, recipe) # {}

Before(info, x, y) == Below(Fullness(info, x), Fullness(info, y))

\* getDemand: the positions of the recipes it returns, and these in the order
\* of the sort (unstable: the order of equals is some fixed choice).  The n-th
\* has n - 1 before it.
Demanded(info, recipes, clip) ==
    {r \in DOMAIN recipes : /\ Wanted(info, recipes[r])
                            /\ ResolveRecipeInputs(info, recipes[r], clip).inAvail # 0}
Earlier(info, recipes, r, s) ==
    \/ Before(info, recipes[r], recipes[s])
    \/ ~Before(info, recipes[s], recipes[r]) /\ r < s
GetDemand(info, recipes, clip) ==
    LET demanded == Demanded(info, recipes, clip)
        before(r) == {s \in demanded : Earlier(info, recipes, s, r)}
    IN [n \in 1 .. Cardinality(demanded) |-> CHOOSE r \in demanded : Cardinality(before(r)) = n - 1]

\* Factory::reserve.
Reserve(info, i, n) == [info EXCEPT ![i].avail = @ - n]
-----------------------------------------------------------------------------
RoomOf(stack, i) == IF stack.item = i THEN MaxSize[i] - stack.size ELSE 0

\* One slot in the loop of insertIntoInventory.
FillSlot(x, slot, i) ==
    LET n == Least(x.size, RoomOf(x.inventory[slot], i)) IN
    IF n = 0 THEN x
    ELSE [inventory |-> [x.inventory EXCEPT ![slot] = Stack(i, @.size + n)],
          size |-> x.size - n,
          actions |-> Append(x.actions, <<slot, n>>)]

\* insertIntoInventory puts as much of a stack as fits on stacks of the same
\* item, and the rest into the first empty slot.
InsertIntoInventory(inventory, i, size) ==
    LET start == [inventory |-> inventory, size |-> Least(size, MaxSize[i]), actions |-> <<>>]
        filled == FoldLeftDomain(LAMBDA x, slot : FillSlot(x, slot, i), start, inventory)
        free == {slot \in DOMAIN inventory : inventory[slot] = Empty}
    IN IF filled.size > 0 /\ free # {}
       THEN [inventory |-> [filled.inventory EXCEPT ![Min(free)] = Stack(i, filled.size)],
             actions |-> Append(filled.actions, <<Min(free), filled.size>>),
             totalSize |-> Least(size, MaxSize[i])]
       ELSE [inventory |-> filled.inventory,
             actions |-> filled.actions,
             totalSize |-> Least(size, MaxSize[i]) - filled.size]
=============================================================================
