--------------------------- MODULE MCCoordinator ---------------------------
(* A root agent and two below it, side by side or one under the other; one *)
(* of them is created by Spawn.  For liveness, two agents in any trees.    *)
EXTENDS Coordinator

CONSTANTS g1, g2, g3, c1, w1

MCParents ==
  [a \in Agents |-> CASE a = g1 -> {NoAgent} [] a = g2 -> {g1} [] a = g3 -> {g1, g2}]

MCAnyParents == [a \in Agents |-> Agents \cup {NoAgent}]
=============================================================================
