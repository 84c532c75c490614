---------------------------- MODULE MCNodePorts ----------------------------
(* One Service selects all pods, the others only compete for ports. *)
EXTENDS NodePorts, TLC

CONSTANT front

MCSelected == [s \in Svcs |-> IF s = front THEN Pods ELSE {}]
Symmetry == Permutations(Pods)
=============================================================================
