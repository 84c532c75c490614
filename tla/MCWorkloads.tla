---------------------------- MODULE MCWorkloads ----------------------------
(* One Deployment of one or two replicas, with or without a pod beside it. *)
EXTENDS Workloads, TLC

CONSTANTS solo, web, web0, web1

(* A bound of workloads_crash: a pass over podman brings nothing back that *)
(* was deleted while it ran; what it brings back is for the other runs.    *)
NothingComesBack ==
  revived = {} /\ \A d \in Deps : deps[d] = Absent \/ deps[d].t # Stub

MCInst == [d \in Deps |-> [i \in 0..(MaxReplicas - 1) |-> IF i = 0 THEN web0 ELSE web1]]
=============================================================================
