---------------------------- MODULE MCCppServer ----------------------------
(* Instances of CppServer for TLC. *)
EXTENDS CppServer

CONSTANTS c1, c2, n1, n2, g1, g2, g3

\* A crafting grid on one computer, and single actions that either can do.
MCSize == [g \in Groups |-> IF g = g1 THEN 2 ELSE 1]
MCAccesses == [g \in Groups |-> CASE g = g1 -> <<n1>> [] g = g2 -> <<n1, n2>> [] g = g3 -> <<n2, n1>>]
=============================================================================
