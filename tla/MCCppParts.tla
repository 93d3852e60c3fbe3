----------------------------- MODULE MCCppParts -----------------------------
(***************************************************************************)
(* Instances for TLC of the parts of the C++ server that its processes     *)
(* build on: planning, promises and the value codec.  They do not act on   *)
(* each other here: a behaviour is one of a single part, and the variables *)
(* of the others stay as they are.                                         *)
(***************************************************************************)
EXTENDS CppPromises, CppRecipes, TLC

CONSTANTS NoStack

VARIABLES
    part,
    sent, wire, stack, received, failed                                 \* codec

codecVars == <<sent, wire, stack, received, failed>>
mcVars == <<part, planningVars, vars, codecVars>>
-----------------------------------------------------------------------------
(***************************************************************************)
(* Ore and dust share a label, dust and plate share a name; the alloy      *)
(* takes an ore twice, once by its label.                                  *)
(***************************************************************************)
ByName(n) == [kind |-> "name", name |-> n]
ByLabel(l) == [kind |-> "label", label |-> l]
ByBoth(l, n) == [kind |-> "labelName", label |-> l, name |-> n]
Among(accepted) == [kind |-> "fn", accepted |-> accepted]
In(filter, size, allowBackup, extra) ==
    [item |-> filter, size |-> size, extraBackup |-> extra, allowBackup |-> allowBackup, data |-> <<>>]
Recipe(out, in) == [out |-> out, in |-> in, data |-> 0]
Alloys == <<
    Recipe(<<[item |-> ByBoth("l2", "n2"), size |-> 3]>>,
           <<In(ByLabel("l1"), 1, TRUE, 0), In(ByName("n1"), 1, FALSE, 0)>>),
    Recipe(<<[item |-> ByLabel("l2"), size |-> 2], [item |-> ByBoth("l1", "n2"), size |-> 3]>>,
           <<In(Among({"ore"}), 2, FALSE, 0)>>),
    Recipe(<<>>, <<In(Among({"ore", "dust"}), 1, FALSE, 1)>>)>>
MCItems == {"ore", "dust", "plate"}
MCName == "ore" :> "n1" @@ "dust" :> "n2" @@ "plate" :> "n2"
MCLabel == "ore" :> "l1" @@ "dust" :> "l1" @@ "plate" :> "l2"
MCMaxSize == "ore" :> 4 @@ "dust" :> 3 @@ "plate" :> 2
MCBackups == <<[item |-> ByName("n1"), size |-> 1], [item |-> ByLabel("l1"), size |-> 1]>>
-----------------------------------------------------------------------------
(***************************************************************************)
(* A cycle with an output (3), a job of two inputs (8, 9) and a group of   *)
(* two calls (12, 13), and a process that has nothing to do after its      *)
(* answer (15).                                                            *)
(***************************************************************************)
Nodes == <<
    <<"mapTo", <<2>>, 0>>, <<"all", <<3, 4, 14>>, 0>>, <<"action", <<>>, 0>>,
    <<"finally", <<5>>, 0>>, <<"map", <<6>>, 0>>, <<"then", <<7>>, 10>>,
    <<"all", <<8, 9>>, 0>>, <<"mapTo", <<11>>, 0>>, <<"action", <<>>, 0>>,
    <<"all", <<12, 13>>, 0>>, <<"action", <<>>, 0>>, <<"action", <<>>, 0>>,
    <<"action", <<>>, 0>>, <<"then", <<15>>, 16>>, <<"action", <<>>, 0>>,
    <<"scheduled", <<>>, 0>> >>
MCPromises == DOMAIN Nodes
MCKind == [p \in MCPromises |-> Nodes[p][1]]
MCFrom == [p \in MCPromises |-> Nodes[p][2]]
MCInner == [p \in MCPromises |-> Nodes[p][3]]
-----------------------------------------------------------------------------
(***************************************************************************)
(* Inventories with empty slots at the end, in between, or everywhere, and *)
(* a name that has to be escaped.                                          *)
(***************************************************************************)
Plain == [size |-> 64, name |-> <<"a">>, others |-> {}]
Odd == [size |-> 1, name |-> <<"@", "b", "@">>,
        others |-> {<<[t |-> "str", s |-> <<"t">>], [t |-> "bool", b |-> 1]>>,
                    <<[t |-> "str", s |-> <<>>], [t |-> "table", m |-> {}]>>}]
Codec == INSTANCE CppCodec WITH
    Inventories <- {<<Plain, NoStack, Odd>>, <<Odd, NoStack, NoStack>>, <<NoStack>>, <<NoStack, Plain>>},
    NoStack <- NoStack, MaxLists <- 2, MaxRead <- 3
-----------------------------------------------------------------------------
\* Of the parts that a behaviour is not about the expression is not started, the
\* factory has listed nothing, and the variables of the codec have no value.
NoCodec == sent = "" /\ wire = "" /\ stack = "" /\ received = "" /\ failed = ""

MCInit ==
    /\ Init /\ PlanningInit
    /\ \/ part \in {"planning", "promises"} /\ NoCodec
       \/ part = "codec" /\ Codec!Init

MCNext ==
    \/ part = "planning" /\ PlanningNext /\ UNCHANGED <<part, vars, codecVars>>
    \/ part = "promises" /\ Next /\ UNCHANGED <<part, planningVars, codecVars>>
    \/ part = "codec" /\ Codec!Next /\ UNCHANGED <<part, planningVars, vars>>

\* Fairness of CppPromises: handlers go on, and actions are answered or fail.
MCSpec ==
    /\ MCInit /\ [][MCNext]_mcVars
    /\ WF_vars(part = "promises" /\ Call)
    /\ \A p \in DOMAIN Nodes :
         WF_vars(/\ part = "promises" /\ Nodes[p][1] \in {"action", "scheduled"}
                        /\ \E outcome \in {"ok", "fail"} : Complete(p, outcome))
-----------------------------------------------------------------------------
\* The expression completes whatever fails (RootCompletes of CppPromises).
ExpressionCompletes == <>(part = "promises" => told[Root] # <<>>)

\* Inventories arrive as they were listed, in any pieces and with any characters
\* in the names, and nothing stays behind (ListsArrive, NothingIsHeldBack and
\* NeverFails of CppCodec).
ListsArrive ==
    part = "codec" =>
        Codec!TypeOK /\ Codec!ListsArrive /\ Codec!NothingIsHeldBack /\ Codec!NeverFails
=============================================================================
