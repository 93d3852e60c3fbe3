---------------------------- MODULE MCConnection ----------------------------
(* An instance of Connection for TLC. *)
EXTENDS Connection

CONSTANTS c1, c2, c3, n1, n2, g1, g2

\* A crafting grid on one computer, and a single request that either can do.
MCSize == [g \in Groups |-> IF g = g1 THEN 2 ELSE 1]
MCAccesses == [g \in Groups |-> IF g = g1 THEN <<n1>> ELSE <<n2, n1>>]
=============================================================================
