------------------------------- MODULE Watch -------------------------------
(***************************************************************************)
(* Watches (serveWatch in internal/server/handler.go) over the store: an   *)
(* HTTP client lists a collection, then opens a watch on it; the serving   *)
(* goroutine compares what it has seen with the collection each time the   *)
(* channel of Store.Changed() is closed, and streams the differences.      *)
(*                                                                         *)
(* A notification is the epoch counter of Store moving on: a goroutine     *)
(* that obtained the channel of epoch e wakes once epoch > e.              *)
(***************************************************************************)
EXTENDS Store

CONSTANTS
  Watchers,   \* watch connections
  Watched     \* the keys of the collection they watch

ASSUME WatchedAssumption == Watched \subseteq Keys

VARIABLES
  wpc,    \* "off", "listed" (client only), "subscribe", "wait"
  seen,   \* the serving goroutine's map: key to resourceVersion
  sub,    \* the epoch of the channel it waits on
  view,   \* what the client knows from its list and the events since
  gap     \* keys that changed between the client's list and the watch

watchVars == <<wpc, seen, sub, view, gap>>
wvars == <<vars, watchVars>>

Listing == [k \in Watched |-> mem.obj[k]]
Nothing == [k \in Watched |-> Absent]

WInit ==
  /\ Init
  /\ wpc = [w \in Watchers |-> "off"]
  /\ seen = [w \in Watchers |-> Nothing]
  /\ sub = [w \in Watchers |-> 0]
  /\ view = [w \in Watchers |-> Nothing]
  /\ gap = [w \in Watchers |-> {}]

WGoto(w, from, to) ==
  /\ phase = "up"
  /\ wpc[w] = from
  /\ wpc' = [wpc EXCEPT ![w] = to]

(* The client's GET of the collection. *)
List(w) ==
  /\ WGoto(w, "off", "listed")
  /\ view' = [view EXCEPT ![w] = Listing]
  /\ UNCHANGED <<vars, seen, sub, gap>>

(* The watch request: what the collection holds now is never sent.  The    *)
(* resourceVersion the client listed at is not looked at.                  *)
Open(w) ==
  /\ WGoto(w, "listed", "subscribe")
  /\ seen' = [seen EXCEPT ![w] = Listing]
  /\ gap' = [gap EXCEPT ![w] = {k \in Watched : Listing[k] # view[w][k]}]
  /\ UNCHANGED <<vars, sub, view>>

(* Mutation test: a wait on a channel obtained before the last event. *)
SubscribeFaulty(w) ==
  /\ WGoto(w, "subscribe", "wait")
  /\ sub' = [sub EXCEPT ![w] = epoch - 1]
  /\ UNCHANGED <<vars, seen, view, gap>>

(* The select evaluates Store.Changed(): the channel current by then. *)
Subscribe(w) ==
  /\ WGoto(w, "subscribe", "wait")
  /\ sub' = [sub EXCEPT ![w] = epoch]
  /\ UNCHANGED <<vars, seen, view, gap>>

(* The events of one comparison.  Equal resourceVersions are no event. *)
Changed(w) == {k \in Watched : Listing[k] # seen[w][k]}
Added(w)   == {k \in Changed(w) : seen[w][k] = Absent}
Deleted(w) == {k \in Changed(w) : Listing[k] = Absent}

(* ADDED and MODIFIED carry the object, DELETED removes it. *)
Received(w) ==
  [k \in Watched |-> IF k \in Deleted(w) THEN Absent
                     ELSE IF k \in Changed(w) THEN Listing[k] ELSE view[w][k]]

(* Mutation test: a deleted key stays in the map of seen objects. *)
DiffFaulty(w) ==
  /\ WGoto(w, "wait", "subscribe")
  /\ epoch > sub[w]
  /\ view' = [view EXCEPT ![w] = Received(w)]
  /\ gap' = [gap EXCEPT ![w] = @ \ Changed(w)]
  /\ seen' = [seen EXCEPT ![w] =
                [k \in Watched |-> IF k \in Deleted(w) THEN seen[w][k] ELSE Listing[k]]]
  /\ UNCHANGED <<vars, sub>>

(* Mutation test: the wait is for the notification after the next one. *)
DiffLate(w) ==
  /\ WGoto(w, "wait", "subscribe")
  /\ epoch > sub[w] + 1
  /\ view' = [view EXCEPT ![w] = Received(w)]
  /\ gap' = [gap EXCEPT ![w] = @ \ Changed(w)]
  /\ seen' = [seen EXCEPT ![w] = Listing]
  /\ UNCHANGED <<vars, sub>>

(* Woken by the closed channel: list, compare, stream the events. *)
Diff(w) ==
  /\ WGoto(w, "wait", "subscribe")
  /\ epoch > sub[w]
  /\ view' = [view EXCEPT ![w] = Received(w)]
  /\ gap' = [gap EXCEPT ![w] = @ \ Changed(w)]
  /\ seen' = [seen EXCEPT ![w] = Listing]
  /\ UNCHANGED <<vars, sub>>

(* The request context ends or a write fails: the handler returns. *)
Disconnect(w) ==
  /\ wpc[w] # "off"
  /\ wpc' = [wpc EXCEPT ![w] = "off"]
  /\ gap' = [gap EXCEPT ![w] = {}]
  /\ UNCHANGED <<vars, seen, sub, view>>

WatchStep(w) == Subscribe(w) \/ Diff(w)

(* A stopping server drops every connection. *)
StoreStep ==
  /\ Next
  /\ IF phase' = "up"
       THEN UNCHANGED watchVars
       ELSE /\ wpc' = [w \in Watchers |-> "off"]
            /\ gap' = [w \in Watchers |-> {}]
            /\ UNCHANGED <<seen, sub, view>>

WNext ==
  \/ StoreStep
  \/ \E w \in Watchers : List(w) \/ Open(w) \/ WatchStep(w) \/ Disconnect(w)

WSpec == WInit /\ [][WNext]_wvars

(* Serving goroutines and savers run; clients, exits and faults need not. *)
WFairness ==
  /\ \A s \in Savers : WF_wvars(SaverStep(s) /\ UNCHANGED watchVars)
  /\ \A w \in Watchers : WF_wvars(WatchStep(w))

FairWSpec == WSpec /\ WFairness

---------------------------------------------------------------------------
WTypeOK ==
  /\ wpc \in [Watchers -> {"off", "listed", "subscribe", "wait"}]
  /\ seen \in [Watchers -> [Watched -> Nat \cup {Absent}]]
  /\ sub \in [Watchers -> Nat]
  /\ view \in [Watchers -> [Watched -> Nat \cup {Absent}]]
  /\ gap \in [Watchers -> SUBSET Watched]

Watching(w) == wpc[w] \in {"subscribe", "wait"}

(* Some mutation has not been announced yet: its `go s.save()` or its      *)
(* recordEvent has still to call notifyChanged.                            *)
NotificationDue == \E s \in Savers : pc[s] \in {"notify", "event"}

(* The events a client receives rebuild what the server believes it sent,  *)
(* except for keys that changed between the client's list and its watch    *)
(* and not since: no event is doubled, dropped or misattributed by the     *)
(* comparison (handler.go, serveWatch).                                    *)
ViewFollowsSeen ==
  \A w \in Watchers : Watching(w) =>
    \A k \in Watched \ gap[w] : view[w][k] = seen[w][k]

(* A watcher never shows a state newer than the store's, nor does it go    *)
(* back: what it has seen of a key was stamped no later than now, and a    *)
(* comparison only replaces it by something stamped later.                 *)
SeenAdvances ==
  [][\A w \in Watchers, k \in Watched :
       Watching(w) /\ Watching(w)' /\ seen'[w][k] # seen[w][k] /\ seen'[w][k] # Absent
         => (seen[w][k] # Absent => seen[w][k] < seen'[w][k]) /\ seen'[w][k] <= mem.rv]_wvars

(* What a watch does guarantee: as long as a change is announced while the *)
(* watcher waits, the watcher catches up with the whole collection, unless *)
(* its client leaves or the server exits.                                  *)
AnnouncedIsDelivered ==
  \A w \in Watchers :
    (wpc[w] = "wait" /\ NotificationDue /\ seen[w] # Listing)
      ~> (seen[w] = Listing \/ wpc[w] = "off")

(* The comment of serveWatch: successive snapshots are diffed "each time   *)
(* Store.Changed() fires (any mutation ...)".  If so, a watcher that waits *)
(* while no notification is due has seen everything.                       *)
SleepsOnlyWhenCurrent ==
  \A w \in Watchers :
    wpc[w] = "wait" /\ epoch = sub[w] /\ ~NotificationDue => seen[w] = Listing

---------------------------------------------------------------------------
(* The inductive invariant behind the theorems of StoreProofs. *)

(* What a watcher has seen of a key was stamped no later than the counter  *)
(* and than what is stored under that key now.                             *)
SeenIsPast ==
  \A w \in Watchers, k \in Watched :
    Watching(w) /\ seen[w][k] # Absent =>
      /\ seen[w][k] <= mem.rv
      /\ mem.obj[k] # Absent => seen[w][k] <= mem.obj[k]

WInv ==
  /\ WTypeOK
  /\ ViewFollowsSeen
  /\ \A w \in Watchers : Watching(w) => phase = "up"
  /\ SeenIsPast
=============================================================================
