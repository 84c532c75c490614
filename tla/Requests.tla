------------------------------ MODULE Requests ------------------------------
(***************************************************************************)
(* How the handlers of internal/server/handler.go, and startup, are        *)
(* written in ConfigFiles and Traefik.  Go serves every request in a       *)
(* goroutine of its own and startup runs in main's, so the steps of two    *)
(* callers interleave; within one caller they are sequential.  What a      *)
(* caller has left to do is a list of tasks, each of them the stages one   *)
(* object still goes through, and one step does one stage.                 *)
(***************************************************************************)
EXTENDS Integers, FiniteSets, Sequences, SequencesExt

CONSTANTS
  Clients,  \* requests that may be under way at a time, one per client
  Main,     \* startup
  Absent

VARIABLES
  tasks,  \* caller -> tasks left, each a record with its stages in do
  alive   \* q8s runs

Callers == Clients \cup {Main}

Now(a) == Head(tasks[a])
On(a, stage) ==
  alive /\ tasks[a] # <<>> /\ Now(a).do # <<>> /\ Head(Now(a).do) = stage

(* The head task goes on with the stages in do, more tasks follow it. *)
Finish(a, do, more) ==
  tasks' = [tasks EXCEPT ![a] =
              (IF do = <<>> THEN <<>> ELSE <<[Head(@) EXCEPT !.do = do]>>) \o more \o Tail(@)]
Proceed(a) == Finish(a, Tail(Now(a).do), <<>>)
Abandon(a) == Finish(a, <<>>, <<>>)

(* List what is stored of S when the turn comes, then do for each. *)
Listing(S, do) == [do |-> <<"list">>, of |-> S, then |-> do]

Idle(a) == alive /\ tasks[a] = <<>>
Starting == tasks[Main] # <<>>
Settled == alive /\ \A a \in Callers : tasks[a] = <<>>
Forget == tasks' = [a \in Callers |-> <<>>]
=============================================================================
