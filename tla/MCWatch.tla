------------------------------ MODULE MCWatch ------------------------------
(* One watcher of a collection of pods; the default namespace is a third   *)
(* key that is not in the collection.                                      *)
EXTENDS Watch, TLC

CONSTANTS pod1, pod2, default

MCResources == {pod1, pod2}
MCNsOf == pod1 :> default @@ pod2 :> default
=============================================================================
