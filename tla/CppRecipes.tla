----------------------------- MODULE CppRecipes -----------------------------
(***************************************************************************)
(* One cycle of the C++ factory as the recipes see it: storages list what  *)
(* they hold, the backups of the configuration are set aside, and then     *)
(* processes take sets of inputs for what is wanted, each with a fresh     *)
(* look at what the others left.  The functions themselves are in CppItems. *)
(***************************************************************************)
EXTENDS CppItems

CONSTANTS
    Recipes,        \* the recipes of all processes
    Backups,        \* Factory.backups: a sequence of [item, size]
    MaxStored       \* bound: how many of an item the storages list

\* What an instance has to satisfy.
RecipesAssumption ==
    /\ AreRecipes(Recipes) /\ MaxStored \in Nat
    /\ DOMAIN Backups = 1 .. Len(Backups) /\ Len(Backups) \in Nat
    /\ \A n \in DOMAIN Backups : Backups[n].size \in Nat

ASSUME PlanningAssumption == ItemsAssumption /\ RecipesAssumption

VARIABLES
    listing,        \* updateAndBackupItems() is under way
    info,           \* Factory.items
    listed          \* what was available when the processes started

planningVars == <<listing, info, listed>>

Known == [avail : Nat, backup : Nat]
PlanningTypeOK ==
    /\ listing \in BOOLEAN
    /\ DOMAIN info \subseteq Items /\ info \in [DOMAIN info -> Known]
    /\ listed \in [IF listing THEN {} ELSE DOMAIN info -> Nat]

None == [i \in {} |-> Empty]
PlanningInit ==
    listing = TRUE /\ info = None /\ listed = None

\* A storage lists n of item i: getOrAddItemInfo and addProvider; n is
\* 0 for what an ME network could craft.
AddProvider(i, n) ==
    /\ listing
    /\ info' = [j \in DOMAIN info \cup {i} |->
         IF j # i THEN info[j]
         ELSE IF i \in DOMAIN info THEN [info[i] EXCEPT !.avail = @ + n]
         ELSE [avail |-> n, backup |-> 0]]
    /\ info'[i].avail <= MaxStored
    /\ UNCHANGED <<listing, listed>>

BackUp(x, backup) ==
    LET i == GetItem(x, backup.item)
    IN IF i = NoItem THEN x ELSE [x EXCEPT ![i].backup = @ + backup.size]

\* One backup of the configuration after the other.
BackUpAll(x) ==
    LET after[n \in 0 .. Len(Backups)] == IF n = 0 THEN x ELSE BackUp(after[n - 1], Backups[n])
    IN after[Len(Backups)]

\* All storages have listed: the continuation of updateAndBackupItems.
BackupItems ==
    /\ listing
    /\ listing' = FALSE
    /\ info' = BackUpAll(info)
    /\ listed' = [i \in DOMAIN info |-> info[i].avail]

\* A process starts up to inAvail sets of a recipe that getDemand returns: it
\* reserves each ingredient.
TakeInputs(r, sets) ==
    LET resolved == ResolveRecipeInputs(info, Recipes[r], TRUE) IN
    /\ ~listing
    /\ r \in Demanded(info, Recipes, TRUE) /\ sets <= resolved.inAvail
    /\ info' = [i \in DOMAIN info |->
         [info[i] EXCEPT !.avail = @ - sets * Needed(Recipes[r], resolved.in, i)]]
    /\ UNCHANGED <<listing, listed>>

\* endOfCycle() clears the map.
EndOfCycle ==
    /\ ~listing
    /\ listing' = TRUE /\ info' = None /\ listed' = None

PlanningNext ==
    \/ \E i \in Items, n \in 0 .. MaxStored : AddProvider(i, n)
    \/ BackupItems \/ EndOfCycle
    \/ \E r \in DOMAIN Recipes, sets \in 1 .. MaxStored : TakeInputs(r, sets)

PlanningSpec == PlanningInit /\ [][PlanningNext]_planningVars
-----------------------------------------------------------------------------
(***************************************************************************)
(* What the functions promise, whatever the storages hold.                 *)
(***************************************************************************)
\* The items the ingredients of recipe r stand for, and what of item i they
\* may use up: the strictest of the ingredients decides.
InputsOf(r) == [k \in DOMAIN Recipes[r].in |-> GetItem(info, Recipes[r].in[k].item)]
Strict(r, i) == \E k \in DOMAIN InputsOf(r) : InputsOf(r)[k] = i /\ ~Recipes[r].in[k].allowBackup
\* "extraBackup" of the first ingredient for item i that is as strict as any.
Extra(r, i) ==
    LET decides(k) == /\ InputsOf(r)[k] = i
                      /\ Strict(r, i) => ~Recipes[r].in[k].allowBackup
    IN Recipes[r].in[CHOOSE k \in DOMAIN InputsOf(r) :
           decides(k) /\ \A m \in DOMAIN InputsOf(r) : decides(m) => k <= m].extraBackup
Suffice(r, sets) ==
    /\ \A k \in DOMAIN InputsOf(r) :
        /\ InputsOf(r)[k] # NoItem
        /\ sets * Recipes[r].in[k].size <= MaxSize[InputsOf(r)[k]]
    /\ \A i \in ToSet(InputsOf(r)) \ {NoItem} :
         sets * SumFunction([k \in DOMAIN InputsOf(r) |-> IF InputsOf(r)[k] = i THEN Recipes[r].in[k].size ELSE 0])
            + Extra(r, i) + (IF Strict(r, i) THEN info[i].backup ELSE 0) <= info[i].avail

\* resolveRecipeInputs finds the largest number of sets that is there for all
\* ingredients at once, also when several of them resolve to one item, within
\* one stack for each ingredient and without the backups.
SetsAreMost ==
    \A r \in DOMAIN Recipes :
        LET sets == ResolveRecipeInputs(info, Recipes[r], TRUE).inAvail
        IN /\ sets > 0 => Suffice(r, sets)
           /\ ~Suffice(r, sets + 1)

\* However many recipes take from an item in a cycle, what the configuration
\* sets aside of it stays, unless some recipe may use it up: by an ingredient
\* that may, while all that may not could have found another item.
BackupIsKept ==
    \A i \in DOMAIN info : ~listing =>
        \/ info[i].avail >= Least(listed[i], info[i].backup)
        \/ \E r \in DOMAIN Recipes :
             LET uses == {in \in ToSet(Recipes[r].in) : Accepts(in.item, i)}
             IN /\ \E in \in uses : in.allowBackup
                /\ \A in \in uses : in.allowBackup \/ \E j \in Items \ {i} : Accepts(in.item, j)

\* All backups of the configuration count, also two that meet the same item;
\* of interchangeable items the one of which there is most is kept.
BackupsAddUp ==
    ~listing => SumFunction([i \in DOMAIN info |-> info[i].backup]) =
        SumFunction([k \in DOMAIN Backups |->
               IF \E i \in DOMAIN info : Accepts(Backups[k].item, i) /\ listed[i] > 0
               THEN Backups[k].size ELSE 0])

\* getDemand returns every recipe that lacks an output and has inputs, once, and
\* a recipe is never after one that is nearer to its set point.
NeediestFirst ==
    LET demands == GetDemand(info, Recipes, TRUE)
        stored(out) == Max({0} \cup {info[i].avail : i \in {j \in DOMAIN info : Accepts(out.item, j)}})
        lacking(r) == {out \in ToSet(Recipes[r].out) : stored(out) < out.size}
    IN /\ ToSet(demands) = {r \in DOMAIN Recipes :
             Suffice(r, 1) /\ (Recipes[r].out = <<>> \/ lacking(r) # {})}
       /\ \A m \in DOMAIN demands, n \in DOMAIN demands : m < n =>
            /\ demands[m] # demands[n]
            /\ \A later \in lacking(demands[n]) : \E out \in lacking(demands[m]) :
                 stored(out) * later.size <= stored(later) * out.size

\* The plan for a recipe is the best that the storages and the backups allow, and
\* the neediest recipe comes first, against a definition of both that does not
\* follow the code.
PlansAreBest == PlanningTypeOK /\ SetsAreMost /\ BackupIsKept /\ BackupsAddUp /\ NeediestFirst
=============================================================================
