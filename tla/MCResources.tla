---------------------------- MODULE MCResources ----------------------------
(***************************************************************************)
(* The modules about what q8s keeps beside the store, one part of them at  *)
(* a time: the parts share clients and startup (module Requests), and in a *)
(* behaviour only the part in focus moves.                                 *)
(***************************************************************************)
EXTENDS ConfigFiles, Traefik, Networks, SyncLoop, Patches, TLC

CONSTANTS
  Parts,
  c1, c2,                                              \* clients
  standard, large, hostpath, cm, sec, pvc, solo, dep, job, cron, ka, kb, vx, vy,  \* files
  p1, s1, i1, t1, t2, t3, mw, web, db, dns, none, e1, e2  \* traefik

VARIABLE focus

F(K, z) == [q \in K |-> z]
MCConfigMapBodies ==
  {[data |-> F({ka}, vx), bin |-> Nothing], [data |-> F({ka}, vy), bin |-> F({kb}, vx)]}
MCSecretBodies ==
  {[data |-> F({ka}, vx), str |-> F({kb}, vx)], [data |-> F({ka}, vy), str |-> Nothing],
   [data |-> Nothing, str |-> Nothing]}
T(secret, config, all, opt) ==
  "secret" :> secret @@ "config" :> config @@ "all" :> all @@ "optional" :> opt
MCTemplates == {T(sec, Absent, TRUE, FALSE), T(Absent, cm, FALSE, FALSE)}
MCCasts == {{sec, job}, {cm, cron}, {cm, dep}, {pvc}}
MCEnvCasts == {{sec, solo}}

MCPodSpecs == {[label |-> web, via |-> dns]}
MCEntryPoints == [t \in {t1, t2, t3} |-> IF t = t3 THEN {e1} ELSE {e1, e2}]
MCStages == {{p1, s1, i1}, {p1, s1, t3}, {t1, t2}, {mw}}

MCSubnets == {[base |-> 0, size |-> 4], [base |-> 4, size |-> 8]}

U(active, restarts, exit, result, healthy) ==
  [unit |-> TRUE, active |-> active, restarts |-> restarts, exit |-> exit,
   result |-> result, healthy |-> healthy]
MCUnitStates ==
  { U("active", 0, 0, "success", TRUE), U("active", 1, 0, "success", TRUE),
    U("activating", 1, 1, "exit-code", TRUE), U("inactive", 0, 0, "success", TRUE),
    [U("running", 0, 0, "success", FALSE) EXCEPT !.unit = FALSE] }
MCScenes == {Watchdogged, Rollouts, Batch, Groups}

One == Leaf("one")
Two == Leaf("two")
Three == Leaf("three")
Container(n, image) == Map("name" :> n @@ "image" :> image)
Meta(labels) == Map("name" :> Leaf("obj") @@ "labels" :> Map(labels))
MCApplied ==
  { Map("metadata" :> Meta("app" :> One) @@ "data" :> Map("k" :> One) @@
        "spec" :> Map("containers" :> List(<<Container(One, One), Container(Two, One)>>))),
    Map("metadata" :> Map("name" :> Leaf("obj")) @@
        "spec" :> Map("containers" :> List(<<Container(Two, Two)>>))) }
Op(o, path) == [op |-> o, path |-> path]
Of(o, path, w) == [op |-> o, path |-> path, value |-> w]
From(o, from, path) == [op |-> o, path |-> path, from |-> from]
MCJsonPatches ==
  { << Of("add", <<"data", "k">>, Two), From("copy", <<"data", "k">>, <<"data", "j">>) >>,
    << Of("test", <<"data", "k">>, One), From("move", <<"data", "k">>, <<"data", "j">>) >>,
    << Op("remove", <<"data", "j">>), Of("replace", <<"data", "k">>, One) >>,
    << Of("replace", <<"metadata", "name">>, Leaf("other")) >>,
    << Op("remove", <<"spec", "containers", "0">>) >>,
    << Of("replace", <<"spec", "containers", "0", "image">>, Two),
       Of("add", <<"spec", "containers", "-">>, Container(Three, One)) >>,
    << Of("add", <<"spec", "containers", "0">>, Container(Three, One)) >> }
OfContainers(cs) == Map("spec" :> Map("containers" :> List(cs)))
MCMergePatches ==
  { OfContainers(<<Container(One, Two), Container(Three, One)>>),
    OfContainers(<<Map("name" :> Two @@ "$patch" :> Leaf("delete")), Container(One, One)>>),
    OfContainers(<<Map("$patch" :> Leaf("replace")), Container(Two, One)>>),
    Map("spec" :> Map("containers" :> List(<<Container(Two, Two)>>) @@
         "$setElementOrder/containers" :> List(<<Map("name" :> Two), Map("name" :> One)>>))),
    Map("data" :> Map("$patch" :> Leaf("delete")) @@ "metadata" :> Map("labels" :> Null)),
    Map("data" :> Map("j" :> Two @@ "k" :> Null)),
    Map("metadata" :> Map("labels" :> Map("app" :> Two @@ "$retainKeys" :> List(<<Leaf("app")>>)))) }
MCStatuses == {One}
MCDigits == "0" :> 0 @@ "1" :> 1

---------------------------------------------------------------------------
filesOwn == <<cast, obj, tmpfs, units, notes>>
traefikOwn == <<stage, routing, late, raced, clashed>>
netOwn == <<space, netUnit, net, cache, guest, gfile, joined, tangled, refilled, down>>
patchOwn == <<doc, stores, last>>
allVars == <<focus, tasks, alive, filesOwn, traefikOwn, netOwn, syncVars, patchOwn>>

Init ==
  /\ focus \in Parts
  /\ FilesInit /\ TraefikInit /\ NetworksInit /\ SyncInit /\ PatchesInit
  /\ focus = "files" \/ cast = CHOOSE C \in Casts : TRUE
  /\ focus = "traefik" \/ stage = CHOOSE S \in Stages : TRUE
  /\ focus = "sync" \/ scene = CHOOSE S \in Scenes : TRUE

(* Bound: with the backends of a TCP route, two callers are at work at a   *)
(* time; with those of an Ingress, all three.                              *)
FewOnTcp == t3 \in stage => Cardinality({a \in Callers : tasks[a] # <<>>}) <= 2

SyncOnly(A) ==
  focus = "sync" /\ A /\ UNCHANGED <<focus, tasks, alive, filesOwn, traefikOwn, netOwn, patchOwn>>

Next ==
  \/ focus = "files" /\ FilesNext /\ UNCHANGED <<focus, traefikOwn, netOwn, syncVars, patchOwn>>
  \/ focus = "traefik" /\ TraefikNext /\ FewOnTcp' /\ UNCHANGED <<focus, filesOwn, netOwn, syncVars, patchOwn>>
  \/ focus = "networks" /\ NetworksNext
     /\ UNCHANGED <<focus, filesOwn, traefikOwn, syncVars, patchOwn>>
  \/ SyncOnly(SyncNext)
  \/ focus = "patches" /\ PatchesNext /\ UNCHANGED <<focus, filesOwn, traefikOwn, netOwn, syncVars>>

(* The fairness of SyncSpec. *)
Spec ==
  /\ Init /\ [][Next]_allVars
  /\ WF_syncVars(SyncOnly(LoopStep)) /\ SF_syncVars(SyncOnly(QuietFires))

(* The type invariants of the parts. *)
ResourcesTypeOK ==
  FilesTypeOK /\ TraefikTypeOK /\ NetworksTypeOK /\ SyncTypeOK /\ PatchesTypeOK
=============================================================================
