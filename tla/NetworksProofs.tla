--------------------------- MODULE NetworksProofs ---------------------------
(* Of the subnet cache, for any number of namespaces, pods and clients,    *)
(* over deaths and starts of q8s.                                          *)
EXTENDS Networks, ListLemmas

USE NetworksAssumption

---------------------------------------------------------------------------
(* Lists of tasks                                                          *)

LEMMA SteadyIf ==
  ASSUME NEW R, NEW todo \in Seq(R), \A task \in R : Steady(task)
  PROVE  SteadyList(todo)
  <1>1. /\ Len(todo) \in Nat /\ DOMAIN todo = 1..Len(todo)
        /\ \A j \in 1..Len(todo) : todo[j] \in R /\ todo[j] \in Range(todo)
        /\ todo = [j \in 1..Len(todo) |-> todo[j]]
    BY DEF Range
  <1>2. todo \in [1..Len(todo) -> Range(todo)]
    BY <1>1
  <1>3. todo \in Seq(Range(todo))
    BY <1>1, <1>2, SeqDef
  <1>4. Range(todo) \subseteq R
    BY <1>1 DEF Range
  <1>. QED
    BY <1>3, <1>4 DEF SteadyList

LEMMA SteadyOne ==
  ASSUME NEW task, Steady(task)
  PROVE  SteadyList(<<task>>)
  <1>1. <<task>> \in Seq({task}) /\ \A t \in {task} : Steady(t)
    OBVIOUS
  <1> DEFINE todo == <<task>>
             R == {task}
  <1>2. todo \in Seq(R) /\ \A t \in R : Steady(t)
    BY <1>1
  <1> HIDE DEF todo, R
  <1>3. SteadyList(todo)
    BY <1>2, SteadyIf
  <1>. QED
    BY <1>3 DEF todo

LEMMA SteadyNone == SteadyList(<<>>)
  <1> DEFINE todo == <<>>
             R == {}
  <1>1. todo \in Seq(R) /\ \A t \in R : Steady(t)
    OBVIOUS
  <1> HIDE DEF todo, R
  <1>2. SteadyList(todo)
    BY <1>1, SteadyIf
  <1>. QED
    BY <1>2 DEF todo

LEMMA SteadyAppended ==
  ASSUME NEW s, NEW u, SteadyList(s), SteadyList(u)
  PROVE  SteadyList(s \o u)
  <1> DEFINE R == Range(s) \cup Range(u)
  <1>1. s \in Seq(R) /\ u \in Seq(R) /\ \A task \in R : Steady(task)
    <2>1. /\ s \in Seq(Range(s)) /\ u \in Seq(Range(u))
          /\ \A task \in R : Steady(task)
      BY DEF SteadyList
    <2>2. Range(s) \subseteq R /\ Range(u) \subseteq R
      OBVIOUS
    <2> HIDE DEF R
    <2>. QED
      BY <2>1, <2>2, SeqWiden
  <1> HIDE DEF R
  <1>2. s \o u \in Seq(R)
    BY <1>1
  <1>. QED
    BY <1>1, <1>2, SteadyIf

LEMMA SteadyTail ==
  ASSUME NEW s, SteadyList(s), s # <<>>
  PROVE  SteadyList(Tail(s)) /\ Steady(Head(s)) /\ Head(s) = s[1]
  <1>1. s \in Seq(Range(s)) /\ \A task \in Range(s) : Steady(task)
    BY DEF SteadyList
  <1>2. Tail(s) \in Seq(Range(s)) /\ Head(s) \in Range(s) /\ Head(s) = s[1]
    BY <1>1
  <1>. QED
    BY <1>1, <1>2, SteadyIf

(* A list given by its elements. *)
LEMMA SteadyByElement ==
  ASSUME NEW k \in Nat, NEW s, s = [j \in 1..k |-> s[j]], \A j \in 1..k : Steady(s[j])
  PROVE  SteadyList(s)
  <1> DEFINE R == Range(s)
  <1>1. s \in [1..k -> R] /\ \A task \in R : Steady(task)
    BY DEF Range
  <1> HIDE DEF R
  <1>2. s \in Seq(R)
    BY <1>1, SeqDef
  <1>. QED
    BY <1>1, <1>2, SteadyIf

---------------------------------------------------------------------------
(* What is left to do after a step                                         *)

ListsKept ==
  /\ tasks' \in [Callers -> Range(tasks')]
  /\ \A a \in Callers : SteadyList(tasks'[a]) \/ Posting(tasks'[a])

LEMMA ListChanged ==
  ASSUME CacheInv, NEW a \in Callers, NEW todo, SteadyList(todo) \/ Posting(todo),
         tasks' = [tasks EXCEPT ![a] = todo]
  PROVE  ListsKept /\ tasks'[a] = todo /\ \A c \in Callers \ {a} : tasks'[c] = tasks[c]
  <1>1. tasks \in [Callers -> Range(tasks)]
    BY DEF CacheInv
  <1>2. DOMAIN tasks' = Callers /\ tasks' = [c \in Callers |-> tasks'[c]]
    BY <1>1
  <1>3. tasks'[a] = todo /\ \A c \in Callers \ {a} : tasks'[c] = tasks[c]
    BY <1>1
  <1>4. tasks' \in [Callers -> Range(tasks')]
    BY <1>2 DEF Range
  <1>. QED
    BY <1>3, <1>4 DEF ListsKept, CacheInv

(* What is to be forgotten stays so while the tasks that do it stay.       *)
LEMMA StillForgetting ==
  ASSUME CacheInv, NEW a \in Callers,
         \A c \in Callers \ {a} : tasks'[c] = tasks[c],
         NEW n,
         \A j \in DOMAIN tasks[a] : Forgets(tasks[a][j], n) =>
           \E i \in DOMAIN tasks'[a] : tasks'[a][i] = tasks[a][j],
         Forgetting(n)
  PROVE  Forgetting(n)'
  <1>1. PICK b \in Clients : \E j \in DOMAIN tasks[b] : Forgets(tasks[b][j], n)
    BY DEF Forgetting
  <1>2. PICK j \in DOMAIN tasks[b] : Forgets(tasks[b][j], n)
    BY <1>1
  <1>3. b \in Callers
    BY DEF Callers
  <1>4. \E i \in DOMAIN tasks'[b] : tasks'[b][i] = tasks[b][j]
    <2>1. CASE b = a
      BY <1>2, <2>1
    <2>2. CASE b # a
      BY <1>2, <1>3, <2>2
    <2>. QED
      BY <2>1, <2>2
  <1>5. \E i \in DOMAIN tasks'[b] : Forgets(tasks'[b][i], n)
    BY <1>2, <1>4
  <1>. QED
    BY <1>5 DEF Forgetting, Forgets

(* A caller whose head task is replaced by some others keeps the rest. *)
LEMMA RestKept ==
  ASSUME NEW s, NEW R, s \in Seq(R), s # <<>>, NEW Q, NEW u \in Seq(Q)
  PROVE  \A j \in 2..Len(s) : \E i \in DOMAIN (u \o Tail(s)) : (u \o Tail(s))[i] = s[j]
  <1> DEFINE T == R \cup Q
  <1>1. s \in Seq(T) /\ u \in Seq(T)
    <2>1. R \subseteq T /\ Q \subseteq T
      OBVIOUS
    <2> HIDE DEF T
    <2>. QED
      BY <2>1, SeqWiden
  <1> HIDE DEF T
  <1>2. Tail(s) \in Seq(T) /\ Len(Tail(s)) = Len(s) - 1 /\ Len(s) \in Nat /\ Len(u) \in Nat
    BY <1>1
  <1>3. \A j \in 2..Len(s) : Tail(s)[j - 1] = s[j]
    BY <1>1
  <1>4. u \o Tail(s) \in Seq(T) /\ Len(u \o Tail(s)) = Len(u) + Len(Tail(s))
    BY <1>1, <1>2
  <1> SUFFICES ASSUME NEW j \in 2..Len(s)
               PROVE  \E i \in DOMAIN (u \o Tail(s)) : (u \o Tail(s))[i] = s[j]
    OBVIOUS
  <1>5. Len(u) + j - 1 \in DOMAIN (u \o Tail(s))
    BY <1>2, <1>4
  <1>6. (u \o Tail(s))[Len(u) + j - 1] = Tail(s)[j - 1]
    BY <1>1, <1>2, <1>4, <1>5
  <1>. QED
    BY <1>3, <1>5, <1>6

(* A step on the first task keeps the lists in shape and what is to be     *)
(* forgotten, unless the step forgets.                                     *)
Moves(a) ==
  ListsKept /\ \A n : Forgetting(n) => Forgetting(n)'

LEMMA StageOfSteady ==
  ASSUME CacheInv, NEW a \in Callers, tasks[a] # <<>>
  PROVE  /\ tasks[a] \in Seq(Range(tasks[a])) /\ Now(a) = tasks[a][1]
         /\ Len(tasks[a]) \in Nat \ {0} /\ DOMAIN tasks[a] = 1..Len(tasks[a])
         /\ "do" \in DOMAIN Now(a)
         /\ \/ SteadyList(tasks[a]) /\ (Now(a).do \in Seq(OtherStages) \/ Lists(Now(a)))
            \/ Posting(tasks[a]) /\ Now(a).do \in Seq(PostStages)
  <1>1. tasks[a] \in Seq(Range(tasks[a]))
    BY DEF CacheInv, SteadyList, Posting
  <1>2. Now(a) = tasks[a][1] /\ Len(tasks[a]) \in Nat \ {0} /\ DOMAIN tasks[a] = 1..Len(tasks[a])
    BY <1>1 DEF Now
  <1>3. CASE SteadyList(tasks[a])
    <2>1. Steady(Now(a))
      BY <1>3, SteadyTail DEF Now
    <2>. QED
      BY <1>1, <1>2, <1>3, <2>1 DEF Steady
  <1>4. CASE Posting(tasks[a])
    BY <1>1, <1>2, <1>4 DEF Posting
  <1>. QED
    BY <1>3, <1>4 DEF CacheInv

LEMMA HeadReplaced ==
  ASSUME CacheInv, NEW a \in Callers, tasks[a] # <<>>, Head(Now(a).do) # "forget",
         NEW u, SteadyList(u), SteadyList(tasks[a]),
         tasks' = [tasks EXCEPT ![a] = u \o Tail(tasks[a])]
  PROVE  Moves(a)
  <1> DEFINE s == tasks[a]
             todo == u \o Tail(s)
  <1>1. SteadyList(Tail(s))
    BY SteadyTail
  <1>2. SteadyList(todo)
    BY <1>1, SteadyAppended
  <1>3. ListsKept /\ tasks'[a] = todo /\ \A c \in Callers \ {a} : tasks'[c] = tasks[c]
    <2> HIDE DEF todo
    <2>1. tasks' = [tasks EXCEPT ![a] = todo]
      BY DEF todo
    <2>. QED
      BY <1>2, <2>1, ListChanged
  <1>4. s \in Seq(Range(s)) /\ u \in Seq(Range(u)) /\ DOMAIN s = 1..Len(s) /\ Len(s) \in Nat
    BY DEF SteadyList
  <1>5. \A j \in 2..Len(s) : \E i \in DOMAIN todo : todo[i] = s[j]
    <2> DEFINE R == Range(s)
               Q == Range(u)
    <2>1. s \in Seq(R) /\ u \in Seq(Q) /\ s # <<>>
      BY <1>4
    <2> HIDE DEF R, Q, s
    <2>2. \A j \in 2..Len(s) : \E i \in DOMAIN (u \o Tail(s)) : (u \o Tail(s))[i] = s[j]
      BY <2>1, RestKept
    <2>. QED
      BY <2>2
  <1>6. s[1].do # ForgetStages
    BY StageOfSteady DEF ForgetStages
  <1>7. ASSUME NEW n, Forgetting(n) PROVE Forgetting(n)'
    <2>1. ASSUME NEW j \in DOMAIN s, Forgets(s[j], n)
          PROVE  \E i \in DOMAIN tasks'[a] : tasks'[a][i] = s[j]
      <3>1. j # 1
        BY <1>6, <2>1 DEF Forgets
      <3>2. j \in 2..Len(s)
        BY <1>4, <2>1, <3>1
      <3> HIDE DEF s, todo
      <3>. QED
        BY <1>3, <1>5, <3>2
    <2> HIDE DEF todo
    <2>. QED
      BY <1>3, <1>7, <2>1, StillForgetting
  <1>. QED
    BY <1>3, <1>7 DEF Moves

(* A request that posts a pod has nothing to forget. *)
LEMMA PostingMoves ==
  ASSUME CacheInv, NEW a \in Callers, Posting(tasks[a]),
         NEW todo, SteadyList(todo) \/ Posting(todo),
         tasks' = [tasks EXCEPT ![a] = todo]
  PROVE  Moves(a)
  <1>1. ListsKept /\ \A c \in Callers \ {a} : tasks'[c] = tasks[c]
    BY ListChanged
  <1>2. DOMAIN tasks[a] = {1} /\ tasks[a][1].do \in Seq(PostStages)
    BY DEF Posting
  <1>3. tasks[a][1].do # ForgetStages
    <2>1. ForgetStages[1] = "forget" /\ Len(ForgetStages) = 2
      BY DEF ForgetStages
    <2>2. ForgetStages \notin Seq(PostStages)
      <3> SUFFICES ASSUME ForgetStages \in Seq(PostStages) PROVE FALSE
        OBVIOUS
      <3>1. ForgetStages[1] \in PostStages
        BY <2>1
      <3>. QED
        BY <2>1, <3>1 DEF PostStages
    <2>. QED
      BY <1>2, <2>2
  <1>4. ASSUME NEW n, Forgetting(n) PROVE Forgetting(n)'
    BY <1>1, <1>2, <1>3, <1>4, StillForgetting DEF Forgets
  <1>. QED
    BY <1>1, <1>4 DEF Moves

LEMMA FinishMoves ==
  ASSUME CacheInv, NEW a \in Callers, tasks[a] # <<>>, Head(Now(a).do) # "forget",
         NEW do, NEW more, SteadyList(more),
         \/ SteadyList(tasks[a]) /\ do \in Seq(OtherStages)
         \/ Posting(tasks[a]) /\ do \in Seq(PostStages) /\ more = <<>>,
         Finish(a, do, more)
  PROVE  Moves(a)
  <1> DEFINE head == IF do = <<>> THEN <<>> ELSE <<[Head(tasks[a]) EXCEPT !.do = do]>>
             u == head \o more
  <1>1. tasks' = [tasks EXCEPT ![a] = u \o Tail(tasks[a])]
    BY DEF Finish
  <1>2. CASE SteadyList(tasks[a]) /\ do \in Seq(OtherStages)
    <2>1. SteadyList(head)
      <3>1. CASE do = <<>>
        BY <3>1, SteadyNone
      <3>2. CASE do # <<>>
        <4>1. Steady(Head(tasks[a]))
          BY <1>2, SteadyTail
        <4>2. Steady([Head(tasks[a]) EXCEPT !.do = do])
          BY <1>2, <4>1 DEF Steady
        <4>. QED
          BY <3>2, <4>2, SteadyOne
      <3>. QED
        BY <3>1, <3>2
    <2>2. SteadyList(u)
      <3> HIDE DEF head
      <3>. QED
        BY <2>1, SteadyAppended
    <2> HIDE DEF u
    <2>. QED
      BY <1>1, <1>2, <2>2, HeadReplaced
  <1>3. CASE Posting(tasks[a]) /\ do \in Seq(PostStages) /\ more = <<>>
    <2>1. Tail(tasks[a]) = <<>>
      <3> DEFINE s == tasks[a]
                 R == Range(s)
      <3>1. s \in Seq(R) /\ Len(s) = 1
        BY <1>3 DEF Posting
      <3> HIDE DEF s, R
      <3>2. Tail(s) \in Seq(R) /\ Len(Tail(s)) = 0
        BY <3>1
      <3>3. Tail(s) = <<>>
        BY <3>2, EmptySeq
      <3>. QED
        BY <3>3 DEF s
    <2>2. u \o Tail(tasks[a]) = head
      <3> DEFINE t == [Head(tasks[a]) EXCEPT !.do = do]
      <3>1. <<t>> \in Seq({t}) /\ <<>> \in Seq({t})
        OBVIOUS
      <3>2. head \in Seq({t})
        BY <3>1
      <3>3. u = head \o <<>> /\ u \o Tail(tasks[a]) = (head \o <<>>) \o <<>>
        BY <1>3, <2>1
      <3> HIDE DEF head, u, t
      <3>. QED
        BY <3>2, <3>3
    <2>3. SteadyList(head) \/ Posting(head)
      <3>1. CASE do = <<>>
        BY <3>1, SteadyNone
      <3>2. CASE do # <<>>
        <4> DEFINE t == [Head(tasks[a]) EXCEPT !.do = do]
        <4>1. "do" \in DOMAIN Head(tasks[a])
          BY <1>3 DEF Posting
        <4>2. "do" \in DOMAIN t /\ t.do = do
          BY <4>1
        <4> HIDE DEF t
        <4>3. <<t>> \in Seq(Range(<<t>>)) /\ Len(<<t>>) = 1 /\ <<t>>[1] = t
          BY DEF Range
        <4>4. Posting(<<t>>)
          BY <1>3, <4>2, <4>3 DEF Posting
        <4>. QED
          BY <3>2, <4>4 DEF t
      <3>. QED
        BY <3>1, <3>2
    <2> HIDE DEF head
    <2>. QED
      BY <1>1, <1>3, <2>2, <2>3, PostingMoves
  <1>. QED
    BY <1>2, <1>3

(* A step that goes on to the next stage. *)
LEMMA ProceedMoves ==
  ASSUME CacheInv, NEW a \in Callers, tasks[a] # <<>>, Now(a).do # <<>>,
         Head(Now(a).do) \notin {"forget", "guests", "spaces"}, Proceed(a)
  PROVE  Moves(a)
  <1>0. ~Lists(Now(a))
    BY DEF Lists
  <1>1. CASE SteadyList(tasks[a]) /\ Now(a).do \in Seq(OtherStages)
    <2>1. Tail(Now(a).do) \in Seq(OtherStages)
      BY <1>1
    <2>. QED
      BY <1>1, <2>1, FinishMoves, SteadyNone DEF Proceed
  <1>2. CASE Posting(tasks[a]) /\ Now(a).do \in Seq(PostStages)
    <2>1. Tail(Now(a).do) \in Seq(PostStages)
      BY <1>2
    <2>. QED
      BY <1>2, <2>1, FinishMoves, SteadyNone DEF Proceed
  <1>. QED
    BY <1>0, <1>1, <1>2, StageOfSteady

(* A step that rewrites the first task only. *)
LEMMA RewriteMoves ==
  ASSUME CacheInv, NEW a \in Callers, tasks[a] # <<>>, Head(Now(a).do) # "forget",
         NEW t, "do" \in DOMAIN t,
         \/ SteadyList(tasks[a]) /\ Steady(t)
         \/ Posting(tasks[a]) /\ t.do \in Seq(PostStages),
         tasks' = [tasks EXCEPT ![a] = [@ EXCEPT ![1] = t]]
  PROVE  Moves(a)
  <1> DEFINE s == tasks[a]
             R == Range(s) \cup {t}
             todo == [s EXCEPT ![1] = t]
  <1>0. tasks' = [tasks EXCEPT ![a] = todo]
    OBVIOUS
  <1>1. /\ s \in Seq(R) /\ Len(s) \in Nat \ {0} /\ DOMAIN s = 1..Len(s) /\ s # <<>>
        /\ \A task \in Range(s) : task \in R
    <2>1. s \in Seq(Range(s)) /\ Len(s) \in Nat \ {0} /\ DOMAIN s = 1..Len(s)
      BY StageOfSteady
    <2>2. Range(s) \subseteq R
      OBVIOUS
    <2> HIDE DEF R
    <2>. QED
      BY <2>1, <2>2, SeqWiden
  <1>2. /\ todo \in Seq(R) /\ Len(todo) = Len(s) /\ todo[1] = t
        /\ \A j \in 2..Len(s) : todo[j] = s[j]
    <2>1. t \in R
      OBVIOUS
    <2> HIDE DEF R, s
    <2>. QED
      BY <1>1, <2>1
  <1>3. CASE SteadyList(s) /\ Steady(t)
    <2>1. \A task \in R : Steady(task)
      BY <1>3 DEF SteadyList
    <2>2. SteadyList(todo)
      <3> HIDE DEF R, s, todo
      <3>. QED
        BY <1>2, <2>1, SteadyIf
    <2>3. ListsKept /\ tasks'[a] = todo /\ \A c \in Callers \ {a} : tasks'[c] = tasks[c]
      <3> HIDE DEF R, s, todo
      <3>. QED
        BY <1>0, <2>2, ListChanged
    <2>4. s[1].do # ForgetStages
      BY StageOfSteady DEF ForgetStages
    <2>5. ASSUME NEW n, Forgetting(n) PROVE Forgetting(n)'
      <3>1. ASSUME NEW j \in DOMAIN s, Forgets(s[j], n)
            PROVE  \E i \in DOMAIN todo : todo[i] = s[j]
        <4>1. j # 1
          BY <2>4, <3>1 DEF Forgets
        <4> HIDE DEF R, s, todo
        <4>. QED
          BY <1>1, <1>2, <3>1, <4>1
      <3> HIDE DEF R, todo
      <3>. QED
        BY <2>3, <2>5, <3>1, StillForgetting
    <2>. QED
      BY <2>3, <2>5 DEF Moves
  <1>4. CASE Posting(s) /\ t.do \in Seq(PostStages)
    <2>1. Len(todo) = 1 /\ todo[1] = t
      BY <1>2, <1>4 DEF Posting
    <2>2. todo \in Seq(Range(todo))
      <3> DEFINE Q == {t}
      <3>1. t \in Q /\ Q \subseteq Range(todo)
        <4> HIDE DEF R, s, todo
        <4>. QED
          BY <1>2, <2>1 DEF Range
      <3>2. todo \in Seq(Range(todo))
        <4> HIDE DEF R, s, todo
        <4>1. todo = [j \in 1..1 |-> todo[j]]
          BY <1>2, <2>1
        <4>2. todo \in [1..1 -> Range(todo)]
          BY <2>1, <3>1, <4>1
        <4>. QED
          BY <4>2, SeqDef
      <3>. QED
        BY <3>2
    <2>3. Posting(todo)
      <3> HIDE DEF R, s, todo
      <3>. QED
        BY <1>4, <2>1, <2>2 DEF Posting
    <2> HIDE DEF R, todo
    <2>. QED
      BY <1>0, <1>4, <2>3, PostingMoves
  <1>. QED
    BY <1>3, <1>4

---------------------------------------------------------------------------
(* The cache over the steps                                                *)

(* Steps on which what is cached and stored, and the networks there are,   *)
(* stay.                                                                   *)
LEMMA QuietCache ==
  ASSUME CacheInv, ListsKept, \A n : Forgetting(n) => Forgetting(n)',
         net' \in [Spaces -> Range(net')],
         \A n \in Spaces : net[n] # Absent => net'[n] = net[n],
         cache' = cache, space' = space, refilled' = refilled, IsFiniteSet(guest')
  PROVE  CacheInv'
  <1>1. cache' \in [Spaces -> Range(cache')]
    BY DEF CacheInv
  <1>2. \A n \in space' \ refilled' : cache'[n] # Absent => net'[n] = cache'[n]
    BY DEF CacheInv
  <1>3. \A n \in Spaces \ (space' \cup refilled') : cache'[n] # Absent => Forgetting(n)'
    BY DEF CacheInv
  <1>. QED
    BY <1>1, <1>2, <1>3 DEF CacheInv, ListsKept

LEMMA MoveCache ==
  ASSUME CacheInv, NEW a \in Callers, Moves(a),
         UNCHANGED <<space, net, cache, guest, refilled>>
  PROVE  CacheInv'
  <1>1. net' \in [Spaces -> Range(net')] /\ IsFiniteSet(guest')
    BY DEF CacheInv
  <1>. QED
    BY <1>1, QuietCache DEF Moves

LEMMA RestCache == CacheInv /\ UNCHANGED netVars => CacheInv'
  BY DEF netVars, CacheInv, Forgetting

---------------------------------------------------------------------------
(* Requests                                                                *)

LEMMA WordLists ==
  /\ \A x \in OtherStages : <<x>> \in Seq(OtherStages)
  /\ \A x, y \in OtherStages : <<x, y>> \in Seq(OtherStages)
  /\ \A x, y, z \in OtherStages : <<x, y, z>> \in Seq(OtherStages)
  /\ \A x, y, z, w \in OtherStages : <<x, y, z, w>> \in Seq(OtherStages)
  OBVIOUS

LEMMA TasksOfRequests ==
  ASSUME NEW n, NEW p
  PROVE  /\ SteadyList(AttachTasks(n)) /\ SteadyList(DetachTasks(n))
         /\ DetachTasks(n)[2] = Space(ForgetStages, n) /\ 2 \in DOMAIN DetachTasks(n)
         /\ SteadyList(<< Pod(<<"stop", "drop">>, p, Absent) >>)
         /\ Posting(<< Pod(<<"namespaces", "store", "namespaces", "write", "run">>, p, Absent) >>)
  <1>0. {"unit", "ensure", "namespaces", "write", "connect", "disconnect", "forget", "rmunit",
         "stop", "drop"} \subseteq OtherStages
    BY DEF OtherStages, PostStages
  <1>1. SteadyList(AttachTasks(n))
    <2>1. Steady(Space(<<"unit", "ensure">>, n))
      BY <1>0, WordLists DEF Space, Steady
    <2>2. Steady(Each(<<"namespaces", "write", "namespaces", "connect">>, n))
      BY <1>0, WordLists DEF Each, Steady, Lists
    <2>3. AttachTasks(n) = <<Space(<<"unit", "ensure">>, n)>> \o
                           <<Each(<<"namespaces", "write", "namespaces", "connect">>, n)>>
      BY DEF AttachTasks
    <2>. QED
      BY <2>1, <2>2, <2>3, SteadyOne, SteadyAppended
  <1>2. SteadyList(DetachTasks(n))
    <2>1. Steady(Each(<<"disconnect", "namespaces", "write">>, n))
      BY <1>0, WordLists DEF Each, Steady, Lists
    <2>2. Steady(Space(<<"forget", "rmunit">>, n))
      BY <1>0, WordLists DEF Space, Steady
    <2>3. DetachTasks(n) = <<Each(<<"disconnect", "namespaces", "write">>, n)>> \o
                           <<Space(<<"forget", "rmunit">>, n)>>
      BY DEF DetachTasks
    <2>. QED
      BY <2>1, <2>2, <2>3, SteadyOne, SteadyAppended
  <1>3. DetachTasks(n)[2] = Space(ForgetStages, n) /\ 2 \in DOMAIN DetachTasks(n)
    BY DEF DetachTasks, ForgetStages
  <1>4. SteadyList(<< Pod(<<"stop", "drop">>, p, Absent) >>)
    <2>1. Steady(Pod(<<"stop", "drop">>, p, Absent))
      BY <1>0, WordLists DEF Pod, Steady
    <2>. QED
      BY <2>1, SteadyOne
  <1>5. Posting(<< Pod(<<"namespaces", "store", "namespaces", "write", "run">>, p, Absent) >>)
    <2> DEFINE do == <<"namespaces", "store", "namespaces", "write", "run">>
               t == Pod(do, p, Absent)
    <2>1. do \in Seq(PostStages)
      BY DEF PostStages
    <2>2. "do" \in DOMAIN t /\ t.do = do
      BY DEF Pod
    <2> HIDE DEF t, do
    <2>3. <<t>> \in Seq(Range(<<t>>)) /\ Len(<<t>>) = 1 /\ <<t>>[1] = t
      BY DEF Range
    <2>4. Posting(<<t>>)
      BY <2>1, <2>2, <2>3 DEF Posting
    <2>. QED
      BY <2>4 DEF t, do
  <1>. QED
    BY <1>1, <1>2, <1>3, <1>4, <1>5

(* A caller that begins had nothing to forget. *)
LEMMA Begun ==
  ASSUME CacheInv, NEW a \in Callers, tasks[a] = <<>>,
         NEW todo, SteadyList(todo) \/ Posting(todo), tasks' = [tasks EXCEPT ![a] = todo]
  PROVE  Moves(a) /\ tasks'[a] = todo
  <1>1. ListsKept /\ tasks'[a] = todo /\ \A c \in Callers \ {a} : tasks'[c] = tasks[c]
    BY ListChanged
  <1>2. DOMAIN tasks[a] = {}
    OBVIOUS
  <1>3. ASSUME NEW n, Forgetting(n) PROVE Forgetting(n)'
    BY <1>1, <1>2, <1>3, StillForgetting
  <1>. QED
    BY <1>1, <1>3 DEF Moves

LEMMA CreateSpaceCache ==
  ASSUME CacheInv, NEW a \in Clients, NEW n \in Spaces, CreateSpace(a, n)
  PROVE  CacheInv'
  <1>0. a \in Callers /\ tasks[a] = <<>>
    BY DEF Callers, CreateSpace, Admitted, Idle
  <1>1. Moves(a)
    BY <1>0, Begun, TasksOfRequests DEF CreateSpace
  <1>2. ~Forgetting(n)
    BY DEF CreateSpace, Untouched, Forgetting, Forgets
  <1>3. cache[n] = Absent \/ n \in refilled
    BY <1>2 DEF CacheInv, CreateSpace
  <1>4. IsFiniteSet(space')
    BY FS_AddElement DEF CacheInv, CreateSpace
  <1>5. \A m \in space' \ refilled' : cache'[m] # Absent => net'[m] = cache'[m]
    BY <1>3 DEF CacheInv, CreateSpace
  <1>6. \A m \in Spaces \ (space' \cup refilled') : cache'[m] # Absent => Forgetting(m)'
    BY <1>1 DEF CacheInv, CreateSpace, Moves
  <1>. QED
    BY <1>1, <1>4, <1>5, <1>6 DEF CacheInv, CreateSpace, Moves, ListsKept

LEMMA DeleteSpaceCache ==
  ASSUME CacheInv, NEW a \in Clients, NEW n \in Spaces, DeleteSpace(a, n)
  PROVE  CacheInv'
  <1>0. a \in Callers /\ tasks[a] = <<>>
    BY DEF Callers, DeleteSpace, Admitted, Idle
  <1>1. Moves(a) /\ tasks'[a] = DetachTasks(n)
    BY <1>0, Begun, TasksOfRequests DEF DeleteSpace
  <1>2. Forgetting(n)'
    <2>1. 2 \in DOMAIN tasks'[a] /\ tasks'[a][2] = Space(ForgetStages, n)
      BY <1>1, TasksOfRequests
    <2>2. Forgets(tasks'[a][2], n)
      BY <2>1 DEF Forgets, Space
    <2>. QED
      BY <2>1, <2>2 DEF Forgetting, Forgets
  <1>4. IsFiniteSet(space')
    BY FS_Subset DEF CacheInv, DeleteSpace
  <1>5. \A m \in space' \ refilled' : cache'[m] # Absent => net'[m] = cache'[m]
    BY DEF CacheInv, DeleteSpace
  <1>6. \A m \in Spaces \ (space' \cup refilled') : cache'[m] # Absent => Forgetting(m)'
    BY <1>1, <1>2 DEF CacheInv, DeleteSpace, Moves
  <1>. QED
    BY <1>1, <1>4, <1>5, <1>6 DEF CacheInv, DeleteSpace, Moves, ListsKept

LEMMA GuestRequestsCache ==
  ASSUME CacheInv, NEW a \in Clients, NEW p \in Guests, PostGuest(a, p) \/ DeleteGuest(a, p)
  PROVE  CacheInv'
  <1>0. a \in Callers /\ tasks[a] = <<>>
    BY DEF Callers, PostGuest, DeleteGuest, Admitted, Idle
  <1>1. Moves(a)
    BY <1>0, Begun, TasksOfRequests DEF PostGuest, DeleteGuest
  <1>. QED
    BY <1>0, <1>1, MoveCache DEF PostGuest, DeleteGuest

---------------------------------------------------------------------------
(* Stages                                                                  *)

(* Stages that only go on. *)
LEMMA PlainStageCache ==
  ASSUME CacheInv, NEW a \in Callers,
         \/ WriteNetUnit(a) \/ WriteGuest(a) \/ StopGuest(a) \/ Connect(a) \/ Disconnect(a)
         \/ RemoveNetUnit(a)
  PROVE  CacheInv'
  <1>1. /\ tasks[a] # <<>> /\ Now(a).do # <<>> /\ Proceed(a)
        /\ Head(Now(a).do) \notin {"forget", "guests", "spaces"}
        /\ UNCHANGED <<space, net, cache, guest, refilled>>
    BY DEF WriteNetUnit, WriteGuest, StopGuest, Connect, Disconnect, RemoveNetUnit, On
  <1>. QED
    BY <1>1, ProceedMoves, MoveCache

LEMMA GuestsCache ==
  ASSUME CacheInv, NEW a \in Callers, StoreGuest(a) \/ DropGuest(a)
  PROVE  CacheInv'
  <1>1. /\ tasks[a] # <<>> /\ Now(a).do # <<>> /\ Head(Now(a).do) \in {"store", "drop"}
        /\ UNCHANGED <<space, net, cache, refilled>>
    BY DEF StoreGuest, DropGuest, On
  <1>2. IsFiniteSet(guest')
    <2>1. guest' \subseteq guest \cup {Now(a).p}
      BY DEF StoreGuest, DropGuest
    <2>2. IsFiniteSet(guest)
      BY DEF CacheInv
    <2>3. IsFiniteSet(guest \cup {Now(a).p})
      BY <2>2, FS_AddElement
    <2>. QED
      BY <2>1, <2>3, FS_Subset
  <1>3. Moves(a)
    <2>1. CASE Proceed(a)
      BY <1>1, <2>1, ProceedMoves
    <2>2. CASE StoreGuest(a) /\ Abandon(a)
      <3>1. Head(Now(a).do) = "store"
        BY <2>2 DEF StoreGuest, On
      <3>2. Posting(tasks[a]) /\ Now(a).do \in Seq(PostStages)
        <4>1. Now(a).do \notin Seq(OtherStages)
          <5> SUFFICES ASSUME Now(a).do \in Seq(OtherStages) PROVE FALSE
            OBVIOUS
          <5>1. Head(Now(a).do) \in OtherStages
            BY <1>1
          <5>. QED
            BY <3>1, <5>1 DEF OtherStages, PostStages
        <4>2. ~Lists(Now(a))
          BY <3>1 DEF Lists
        <4>. QED
          BY <1>1, <4>1, <4>2, StageOfSteady
      <3>3. <<>> \in Seq(PostStages)
        OBVIOUS
      <3>. QED
        BY <1>1, <2>2, <3>1, <3>2, <3>3, FinishMoves, SteadyNone DEF Abandon
    <2>. QED
      BY <2>1, <2>2 DEF StoreGuest, DropGuest
  <1>4. net' \in [Spaces -> Range(net')]
    BY <1>1 DEF CacheInv
  <1>. QED
    BY <1>1, <1>2, <1>3, <1>4, QuietCache DEF Moves

LEMMA NetStageCache ==
  ASSUME CacheInv, NEW a \in Callers, EnsureNetwork(a) \/ RunGuest(a)
  PROVE  CacheInv'
  <1>1. /\ tasks[a] # <<>> /\ Now(a).do # <<>> /\ Proceed(a)
        /\ Head(Now(a).do) \notin {"forget", "guests", "spaces"}
        /\ UNCHANGED <<space, cache, guest, refilled>>
    BY DEF EnsureNetwork, RunGuest, On
  <1>2. DOMAIN net = Spaces /\ net = [n \in Spaces |-> net[n]]
    BY DEF CacheInv
  <1>3. net' \in [Spaces -> Range(net')] /\ \A n \in Spaces : net[n] # Absent => net'[n] = net[n]
    <2>1. CASE EnsureNetwork(a)
      <3>1. /\ DOMAIN net' = Spaces /\ net' = [n \in Spaces |-> net'[n]]
            /\ \A n \in Spaces : net[n] # Absent => net'[n] = net[n]
        BY <1>2, <2>1 DEF EnsureNetwork
      <3>. QED
        BY <3>1 DEF Range
    <2>2. CASE RunGuest(a)
      <3>1. StartContainer(Now(a).p)
        BY <2>2 DEF RunGuest
      <3>2. \/ net' = net
            \/ \E s \in Subnets : \E f :
                 net' = [n \in Spaces |-> IF n \in DOMAIN f /\ net[n] = Absent THEN s ELSE net[n]]
        BY <3>1 DEF StartContainer
      <3>3. /\ DOMAIN net' = Spaces /\ net' = [n \in Spaces |-> net'[n]]
            /\ \A n \in Spaces : net[n] # Absent => net'[n] = net[n]
        BY <1>2, <3>2
      <3>. QED
        BY <3>3 DEF Range
    <2>. QED
      BY <2>1, <2>2
  <1>4. Moves(a) /\ IsFiniteSet(guest')
    BY <1>1, ProceedMoves DEF CacheInv
  <1>. QED
    BY <1>1, <1>3, <1>4, QuietCache DEF Moves

LEMMA HealCache ==
  ASSUME CacheInv, NEW a \in Callers, HealGuest(a)
  PROVE  CacheInv'
  <1>1. /\ tasks[a] # <<>> /\ Now(a).do # <<>> /\ Head(Now(a).do) = "heal"
        /\ UNCHANGED <<space, net, cache, guest, refilled>>
    BY DEF HealGuest, On
  <1>2. Moves(a)
    <2>1. CASE Proceed(a)
      BY <1>1, <2>1, ProceedMoves
    <2>2. CASE Finish(a, <<"write", "run">>, <<>>)
      <3>1. <<"write", "run">> \in Seq(OtherStages) /\ <<"write", "run">> \in Seq(PostStages)
        BY DEF OtherStages, PostStages
      <3>2. SteadyList(tasks[a]) \/ Posting(tasks[a])
        BY DEF CacheInv
      <3>. QED
        BY <1>1, <2>2, <3>1, <3>2, FinishMoves, SteadyNone
    <2>. QED
      BY <2>1, <2>2 DEF HealGuest
  <1>. QED
    BY <1>1, <1>2, MoveCache

(* Of a task that lists, what is to be done for each. *)
LEMMA ListsThen ==
  ASSUME CacheInv, NEW a \in Callers, tasks[a] # <<>>, Now(a).do # <<>>,
         Head(Now(a).do) \in {"guests", "spaces"}
  PROVE  SteadyList(tasks[a]) /\ Now(a).then \in Seq(OtherStages)
  <1>1. ASSUME NEW S \in {OtherStages, PostStages} PROVE Now(a).do \notin Seq(S)
    <2> SUFFICES ASSUME Now(a).do \in Seq(S) PROVE FALSE
      OBVIOUS
    <2>1. Head(Now(a).do) \in S
      OBVIOUS
    <2>. QED
      BY <2>1 DEF OtherStages, PostStages
  <1>. QED
    BY <1>1, StageOfSteady DEF Lists

LEMMA ListGuestsCache ==
  ASSUME CacheInv, NEW a \in Callers, ListGuests(a)
  PROVE  CacheInv'
  <1> DEFINE ps == SetToSeq(guest)
             more == [j \in 1..Len(ps) |-> Pod(Now(a).then, ps[j], Now(a).n)]
  <1>1. /\ tasks[a] # <<>> /\ Now(a).do # <<>> /\ Head(Now(a).do) = "guests"
        /\ Finish(a, <<>>, more)
        /\ UNCHANGED <<space, net, cache, guest, refilled>>
    BY DEF ListGuests, On
  <1>2. SteadyList(tasks[a]) /\ Now(a).then \in Seq(OtherStages)
    BY <1>1, ListsThen
  <1>3. SteadyList(more)
    <2>1. Len(ps) \in Nat
      <3>1. ps \in Seq(guest)
        BY SetToSeqIsSeq DEF CacheInv
      <3>. QED
        BY <3>1
    <2>2. more = [j \in 1..Len(ps) |-> more[j]]
      OBVIOUS
    <2>3. ASSUME NEW p PROVE Steady(Pod(Now(a).then, p, Now(a).n))
      BY <1>2 DEF Steady, Pod
    <2>4. \A j \in 1..Len(ps) : Steady(more[j])
      BY <2>3
    <2> HIDE DEF ps, more
    <2>. QED
      BY <2>1, <2>2, <2>4, SteadyByElement
  <1>4. <<>> \in Seq(OtherStages)
    OBVIOUS
  <1>5. Moves(a)
    <2> HIDE DEF more
    <2>. QED
      BY <1>1, <1>2, <1>3, <1>4, FinishMoves
  <1>. QED
    BY <1>1, <1>5, MoveCache

LEMMA ListSpacesCache ==
  ASSUME CacheInv, NEW a \in Callers, ListSpaces(a)
  PROVE  CacheInv'
  <1> DEFINE ns == SetToSeq(space)
             each == [j \in 1..Len(ns) |-> Space(Now(a).then, ns[j])]
             rest == IF Now(a).then = <<"ensure">>
                       THEN << Each(<<"namespaces", "write", "again", "connectAll">>, space) >>
                       ELSE <<>>
  <1>1. /\ tasks[a] # <<>> /\ Now(a).do # <<>> /\ Head(Now(a).do) = "spaces"
        /\ Finish(a, <<>>, each \o rest)
        /\ UNCHANGED <<space, net, cache, guest, refilled>>
    BY DEF ListSpaces, On
  <1>2. SteadyList(tasks[a]) /\ Now(a).then \in Seq(OtherStages)
    BY <1>1, ListsThen
  <1>3. SteadyList(each)
    <2>1. Len(ns) \in Nat
      <3>1. ns \in Seq(space)
        BY SetToSeqIsSeq DEF CacheInv
      <3>. QED
        BY <3>1
    <2>2. each = [j \in 1..Len(ns) |-> each[j]]
      OBVIOUS
    <2>3. ASSUME NEW n PROVE Steady(Space(Now(a).then, n))
      BY <1>2 DEF Steady, Space
    <2>4. \A j \in 1..Len(ns) : Steady(each[j])
      BY <2>3
    <2> HIDE DEF ns, each
    <2>. QED
      BY <2>1, <2>2, <2>4, SteadyByElement
  <1>4. SteadyList(rest)
    <2>1. Steady(Each(<<"namespaces", "write", "again", "connectAll">>, space))
      <3>1. {"namespaces", "write", "again", "connectAll"} \subseteq OtherStages
        BY DEF OtherStages, PostStages
      <3>. QED
        BY <3>1, WordLists DEF Each, Steady, Lists
    <2>. QED
      BY <2>1, SteadyOne, SteadyNone
  <1>5. <<>> \in Seq(OtherStages)
    OBVIOUS
  <1>6. Moves(a)
    <2> HIDE DEF each, rest
    <2>1. SteadyList(each \o rest)
      BY <1>3, <1>4, SteadyAppended
    <2>. QED
      BY <1>1, <1>2, <1>5, <2>1, FinishMoves
  <1>. QED
    BY <1>1, <1>6, MoveCache

LEMMA ForgetCache ==
  ASSUME CacheInv, NEW a \in Callers, ForgetSubnet(a)
  PROVE  CacheInv'
  <1> DEFINE n == Now(a).n
             s == tasks[a]
             do == Tail(Now(a).do)
             u == IF do = <<>> THEN <<>> ELSE <<[Head(s) EXCEPT !.do = do]>>
             todo == (u \o <<>>) \o Tail(s)
  <1>1. /\ s # <<>> /\ Now(a).do # <<>> /\ Head(Now(a).do) = "forget"
        /\ tasks' = [tasks EXCEPT ![a] = todo]
        /\ cache' = [cache EXCEPT ![n] = Absent] /\ refilled' = refilled \ {n}
        /\ UNCHANGED <<space, net, guest>>
    BY DEF ForgetSubnet, On, Proceed, Finish
  <1>2. SteadyList(s) /\ Now(a).do \in Seq(OtherStages)
    <2>1. ~Lists(Now(a))
      BY <1>1 DEF Lists
    <2>2. Now(a).do \notin Seq(PostStages)
      <3> SUFFICES ASSUME Now(a).do \in Seq(PostStages) PROVE FALSE
        OBVIOUS
      <3>1. Head(Now(a).do) \in PostStages
        BY <1>1
      <3>. QED
        BY <1>1, <3>1 DEF PostStages
    <2>. QED
      BY <1>1, <2>1, <2>2, StageOfSteady
  <1>3. SteadyList(u \o <<>>) /\ SteadyList(Tail(s))
    <2>1. SteadyList(u)
      <3>1. do \in Seq(OtherStages)
        BY <1>1, <1>2
      <3>2. Steady(Head(s)) /\ "do" \in DOMAIN Head(s)
        BY <1>1, <1>2, SteadyTail DEF Steady
      <3>3. Steady([Head(s) EXCEPT !.do = do])
        BY <3>1, <3>2 DEF Steady
      <3>. QED
        BY <3>3, SteadyOne, SteadyNone
    <2> HIDE DEF u
    <2>. QED
      BY <1>1, <1>2, <2>1, SteadyTail, SteadyNone, SteadyAppended
  <1>4. SteadyList(todo)
    BY <1>3, SteadyAppended
  <1>5. ListsKept /\ tasks'[a] = todo /\ \A c \in Callers \ {a} : tasks'[c] = tasks[c]
    <2> HIDE DEF todo
    <2>. QED
      BY <1>1, <1>4, ListChanged
  <1>6. ASSUME NEW m, m # n, Forgetting(m) PROVE Forgetting(m)'
    <2>1. s \in Seq(Range(s)) /\ DOMAIN s = 1..Len(s) /\ Len(s) \in Nat /\ s[1] = Now(a)
      BY <1>1, StageOfSteady
    <2>2. \A j \in 2..Len(s) : \E i \in DOMAIN todo : todo[i] = s[j]
      <3> DEFINE R == Range(s)
                 v == u \o <<>>
                 Q == Range(v)
      <3>1. s \in Seq(R) /\ v \in Seq(Q) /\ s # <<>>
        BY <1>1, <1>3, <2>1 DEF SteadyList
      <3> HIDE DEF R, Q, s, v
      <3>2. \A j \in 2..Len(s) : \E i \in DOMAIN (v \o Tail(s)) : (v \o Tail(s))[i] = s[j]
        BY <3>1, RestKept
      <3>. QED
        BY <3>2 DEF v, s
    <2>3. ASSUME NEW j \in DOMAIN s, Forgets(s[j], m)
          PROVE  \E i \in DOMAIN tasks'[a] : tasks'[a][i] = s[j]
      <3>1. j # 1
        BY <1>6, <2>1, <2>3 DEF Forgets
      <3>2. j \in 2..Len(s)
        BY <2>1, <2>3, <3>1
      <3> HIDE DEF s, todo
      <3>. QED
        BY <1>5, <2>2, <3>2
    <2> HIDE DEF todo, n
    <2>. QED
      BY <1>5, <1>6, <2>3, StillForgetting
  <1>7. cache' \in [Spaces -> Range(cache')] /\ \A m \in Spaces : cache'[m] = IF m = n THEN Absent ELSE cache[m]
    <2>1. DOMAIN cache = Spaces
      BY DEF CacheInv
    <2>2. /\ DOMAIN cache' = Spaces /\ cache' = [m \in Spaces |-> cache'[m]]
          /\ \A m \in Spaces : cache'[m] = IF m = n THEN Absent ELSE cache[m]
      BY <1>1, <2>1
    <2>. QED
      BY <2>2 DEF Range
  <1>8. \A m \in space' \ refilled' : cache'[m] # Absent => net'[m] = cache'[m]
    BY <1>1, <1>7 DEF CacheInv
  <1>9. \A m \in Spaces \ (space' \cup refilled') : cache'[m] # Absent => Forgetting(m)'
    <2> HIDE DEF n
    <2>. QED
      BY <1>1, <1>6, <1>7 DEF CacheInv
  <1>. QED
    <2> HIDE DEF n
    <2>. QED
      BY <1>1, <1>5, <1>7, <1>8, <1>9 DEF CacheInv, ListsKept

---------------------------------------------------------------------------
(* Lookups                                                                 *)

(* A lookup goes on within the first task. *)
LEMMA LookupMoves ==
  ASSUME CacheInv, NEW a \in Callers, tasks[a] # <<>>, Now(a).do # <<>>,
         Head(Now(a).do) \in {"namespaces", "again", "lookup", "fill"},
         NEW pre, pre \in {<<>>, <<"lookup">>, <<"fill">>},
         NEW t, "do" \in DOMAIN t, t.do = pre \o Tail(Now(a).do),
         tasks' = [tasks EXCEPT ![a] = [@ EXCEPT ![1] = t]]
  PROVE  Moves(a)
  <1>1. ~Lists(Now(a))
    BY DEF Lists
  <1>2. CASE SteadyList(tasks[a]) /\ Now(a).do \in Seq(OtherStages)
    <2>1. pre \in Seq(OtherStages) /\ Tail(Now(a).do) \in Seq(OtherStages)
      <3>1. "lookup" \in OtherStages /\ "fill" \in OtherStages
        BY DEF OtherStages, PostStages
      <3>2. pre \in Seq(OtherStages)
        <4>1. <<>> \in Seq(OtherStages) /\ \A x \in OtherStages : <<x>> \in Seq(OtherStages)
          OBVIOUS
        <4>. QED
          BY <3>1, <4>1
      <3>. QED
        BY <1>2, <3>2
    <2>2. Steady(t)
      BY <2>1 DEF Steady
    <2>. QED
      BY <1>2, <2>2, RewriteMoves
  <1>3. CASE Posting(tasks[a]) /\ Now(a).do \in Seq(PostStages)
    <2>1. pre \in Seq(PostStages) /\ Tail(Now(a).do) \in Seq(PostStages)
      <3>1. "lookup" \in PostStages /\ "fill" \in PostStages
        BY DEF PostStages
      <3>2. pre \in Seq(PostStages)
        <4>1. <<>> \in Seq(PostStages) /\ \A x \in PostStages : <<x>> \in Seq(PostStages)
          OBVIOUS
        <4>. QED
          BY <3>1, <4>1
      <3>. QED
        BY <1>3, <3>2
    <2>2. t.do \in Seq(PostStages)
      BY <2>1
    <2>. QED
      BY <1>3, <2>2, RewriteMoves
  <1>. QED
    BY <1>1, <1>2, <1>3, StageOfSteady

LEMMA ListNamespacesCache ==
  ASSUME CacheInv, NEW a \in Callers, ListNamespaces(a)
  PROVE  CacheInv'
  <1>1. /\ tasks[a] # <<>> /\ Now(a).do # <<>> /\ Head(Now(a).do) \in {"namespaces", "again"}
        /\ UNCHANGED <<space, net, cache, guest, refilled>>
    BY DEF ListNamespaces, On
  <1>2. PICK S : LookUpAll(a, S)
    BY DEF ListNamespaces
  <1> DEFINE pre == IF S = {} THEN <<>> ELSE <<"lookup">>
             t == [Now(a) EXCEPT !.do = pre \o Tail(Now(a).do),
                                 !.left = S, !.at = [m \in {} |-> NoAddress]]
  <1>3. "do" \in DOMAIN Now(a) /\ Now(a) = tasks[a][1]
    BY <1>1, StageOfSteady
  <1>4. "do" \in DOMAIN t /\ t.do = pre \o Tail(Now(a).do)
    BY <1>3
  <1>5. tasks' = [tasks EXCEPT ![a] = [@ EXCEPT ![1] = t]]
    <2>1. a \in DOMAIN tasks /\ 1 \in DOMAIN tasks[a]
      BY <1>1, StageOfSteady DEF CacheInv
    <2>2. tasks' = [tasks EXCEPT ![a][1] = t]
      BY <1>2 DEF LookUpAll
    <2> HIDE DEF t
    <2>. QED
      BY <2>1, <2>2
  <1>6. pre \in {<<>>, <<"lookup">>}
    OBVIOUS
  <1>7. Moves(a)
    <2> HIDE DEF t, pre
    <2>. QED
      BY <1>1, <1>4, <1>5, <1>6, LookupMoves
  <1>. QED
    BY <1>1, <1>7, MoveCache

LEMMA ResolvedMoves ==
  ASSUME CacheInv, NEW a \in Callers, tasks[a] # <<>>, Now(a).do # <<>>,
         Head(Now(a).do) \in {"lookup", "fill"}, NEW n, NEW ip, Resolved(a, n, ip)
  PROVE  Moves(a)
  <1> DEFINE pre == IF Now(a).left = {n} THEN <<>> ELSE <<"lookup">>
             do == IF Now(a).left = {n} THEN Tail(Now(a).do) ELSE <<"lookup">> \o Tail(Now(a).do)
             at == [m \in DOMAIN Now(a).at \cup {n} |-> IF m = n THEN ip ELSE Now(a).at[m]]
             t == [Now(a) EXCEPT !.do = do, !.left = Now(a).left \ {n}, !.at = at, !.got = Absent]
  <1>3. "do" \in DOMAIN Now(a) /\ Now(a) = tasks[a][1]
    BY StageOfSteady
  <1>4. "do" \in DOMAIN t /\ t.do = do
    <2> HIDE DEF do, at
    <2>. QED
      BY <1>3
  <1>5. tasks' = [tasks EXCEPT ![a] = [@ EXCEPT ![1] = t]]
    BY <1>3 DEF Resolved
  <1>6. do = pre \o Tail(Now(a).do)
    <2>1. PICK R : Now(a).do \in Seq(R)
      BY StageOfSteady DEF Lists
    <2>2. Tail(Now(a).do) \in Seq(R)
      BY <2>1
    <2>. QED
      BY <2>2, ConcatEmptySeq
  <1>7. pre \in {<<>>, <<"lookup">>}
    OBVIOUS
  <1> HIDE DEF t, pre, do
  <1>. QED
    BY <1>4, <1>5, <1>6, <1>7, LookupMoves

LEMMA LookupCache ==
  ASSUME CacheInv, NEW a \in Callers, Lookup(a)
  PROVE  CacheInv'
  <1> DEFINE n == CHOOSE m \in Now(a).left : TRUE
  <1>1. /\ tasks[a] # <<>> /\ Now(a).do # <<>> /\ Head(Now(a).do) = "lookup"
        /\ UNCHANGED <<space, net, cache, guest, refilled>>
    BY DEF Lookup, On
  <1>2. \/ \E ip : Resolved(a, n, ip)
        \/ tasks' = [tasks EXCEPT ![a][1].do = <<"fill">> \o Tail(Now(a).do), ![a][1].got = net[n]]
    BY DEF Lookup
  <1>3. Moves(a)
    <2>1. CASE \E ip : Resolved(a, n, ip)
      <3> HIDE DEF n
      <3>. QED
        BY <1>1, <2>1, ResolvedMoves
    <2>2. CASE tasks' = [tasks EXCEPT ![a][1].do = <<"fill">> \o Tail(Now(a).do), ![a][1].got = net[n]]
      <3> DEFINE do == <<"fill">> \o Tail(Now(a).do)
                 t == [tasks[a][1] EXCEPT !.do = do, !.got = net[n]]
      <3>1. /\ "do" \in DOMAIN tasks[a][1] /\ a \in DOMAIN tasks /\ 1 \in DOMAIN tasks[a]
        BY <1>1, StageOfSteady DEF CacheInv
      <3>2. tasks' = [tasks EXCEPT ![a] = [@ EXCEPT ![1] = t]]
        <4> HIDE DEF n, do
        <4>1. tasks' = [tasks EXCEPT ![a][1].do = do, ![a][1].got = net[n]]
          BY <2>2 DEF do
        <4>. QED
          BY <3>1, <4>1
      <3>3. "do" \in DOMAIN t /\ t.do = do
        <4> HIDE DEF do
        <4>. QED
          BY <3>1
      <3> HIDE DEF n, t
      <3>. QED
        BY <1>1, <3>2, <3>3, LookupMoves
    <2>. QED
      BY <1>2, <2>1, <2>2
  <1>. QED
    BY <1>1, <1>3, MoveCache

LEMMA FillCache ==
  ASSUME CacheInv, NEW a \in Callers, Fill(a)
  PROVE  CacheInv'
  <1> DEFINE n == CHOOSE m \in Now(a).left : TRUE
  <1>1. /\ tasks[a] # <<>> /\ Now(a).do # <<>> /\ Head(Now(a).do) = "fill"
        /\ UNCHANGED <<space, net, guest>>
        /\ cache' = [cache EXCEPT ![n] = Now(a).got]
        /\ Resolved(a, n, LastUsable(Now(a).got))
        /\ refilled' = IF n \in space /\ net[n] = Now(a).got THEN refilled ELSE refilled \cup {n}
    BY DEF Fill, On
  <1> HIDE DEF n
  <1>2. Moves(a)
    BY <1>1, ResolvedMoves
  <1>3. cache' \in [Spaces -> Range(cache')] /\ \A m \in Spaces : cache'[m] = IF m = n THEN Now(a).got ELSE cache[m]
    <2>1. DOMAIN cache = Spaces
      BY DEF CacheInv
    <2>2. /\ DOMAIN cache' = Spaces /\ cache' = [m \in Spaces |-> cache'[m]]
          /\ \A m \in Spaces : cache'[m] = IF m = n THEN Now(a).got ELSE cache[m]
      BY <1>1, <2>1
    <2>. QED
      BY <2>2 DEF Range
  <1>4. \A m \in space' \ refilled' : cache'[m] # Absent => net'[m] = cache'[m]
    BY <1>1, <1>3 DEF CacheInv
  <1>5. \A m \in Spaces \ (space' \cup refilled') : cache'[m] # Absent => Forgetting(m)'
    BY <1>1, <1>2, <1>3 DEF CacheInv, Moves
  <1>. QED
    BY <1>1, <1>2, <1>3, <1>4, <1>5 DEF CacheInv, Moves, ListsKept

---------------------------------------------------------------------------
(* podman, deaths and starts                                               *)

LEMMA RemoveNetworkCache ==
  ASSUME CacheInv, NEW n \in Spaces, RemoveNetwork(n)
  PROVE  CacheInv'
  <1>1. /\ n \notin space /\ net' = [net EXCEPT ![n] = Absent]
        /\ UNCHANGED <<space, cache, guest, tasks, refilled>>
    BY DEF RemoveNetwork
  <1>2. net' \in [Spaces -> Range(net')] /\ \A m \in Spaces \ {n} : net'[m] = net[m]
    <2>1. DOMAIN net = Spaces
      BY DEF CacheInv
    <2>2. /\ DOMAIN net' = Spaces /\ net' = [m \in Spaces |-> net'[m]]
          /\ \A m \in Spaces \ {n} : net'[m] = net[m]
      BY <1>1, <2>1
    <2>. QED
      BY <2>2 DEF Range
  <1>3. \A m \in space' \ refilled' : cache'[m] # Absent => net'[m] = cache'[m]
    BY <1>1, <1>2 DEF CacheInv
  <1>. QED
    BY <1>1, <1>2, <1>3 DEF CacheInv, Forgetting

LEMMA DieCache ==
  ASSUME CacheInv, DieNetworks
  PROVE  CacheInv'
  <1>1. /\ tasks' = [a \in Callers |-> <<>>] /\ cache' = [n \in Spaces |-> Absent]
        /\ UNCHANGED <<space, net, guest>>
    BY DEF DieNetworks, Forget
  <1>2. tasks' \in [Callers -> Range(tasks')] /\ \A a \in Callers : SteadyList(tasks'[a])
    BY <1>1, SteadyNone DEF Range
  <1>3. cache' \in [Spaces -> Range(cache')] /\ \A n \in Spaces : cache'[n] = Absent
    BY <1>1 DEF Range
  <1>. QED
    BY <1>1, <1>2, <1>3 DEF CacheInv

LEMMA BootCache ==
  ASSUME CacheInv, BootNetworks
  PROVE  CacheInv'
  <1>1. /\ tasks' = [tasks EXCEPT ![Main] = BootTasks]
        /\ UNCHANGED <<space, net, cache, guest, refilled>>
    BY DEF BootNetworks
  <1>2. SteadyList(BootTasks)
    <2> DEFINE first == [do |-> <<"spaces">>, then |-> <<"unit">>]
               second == Each(<<"namespaces", "heal">>, Absent)
               third == [do |-> <<"spaces">>, then |-> <<"ensure">>]
    <2>1. {"unit", "namespaces", "heal", "ensure"} \subseteq OtherStages
      BY DEF OtherStages, PostStages
    <2>2. Steady(first) /\ Steady(second) /\ Steady(third)
      BY <2>1, WordLists DEF Steady, Lists, Each
    <2>3. BootTasks = (<<first>> \o <<second>>) \o <<third>>
      BY DEF BootTasks
    <2> HIDE DEF first, second, third
    <2>. QED
      BY <2>2, <2>3, SteadyOne, SteadyAppended
  <1>3. Main \in Callers /\ \A b \in Clients : b \in Callers \ {Main}
    BY DEF Callers
  <1>4. ListsKept /\ \A c \in Callers \ {Main} : tasks'[c] = tasks[c]
    BY <1>1, <1>2, <1>3, ListChanged
  <1>5. \A n : Forgetting(n) => Forgetting(n)'
    BY <1>3, <1>4 DEF Forgetting, Forgets
  <1>6. net' \in [Spaces -> Range(net')]
    BY <1>1 DEF CacheInv
  <1>. QED
    BY <1>1, <1>4, <1>5, <1>6, QuietCache DEF CacheInv

LEMMA InitCache == NetworksInit => CacheInv
  <1> SUFFICES ASSUME NetworksInit PROVE CacheInv
    OBVIOUS
  <1>1. tasks \in [Callers -> Range(tasks)] /\ \A a \in Callers : SteadyList(tasks[a])
    BY SteadyNone DEF NetworksInit, Range
  <1>2. net \in [Spaces -> Range(net)] /\ cache \in [Spaces -> Range(cache)]
    BY DEF NetworksInit, Range
  <1>3. IsFiniteSet(space) /\ IsFiniteSet(guest)
    BY FS_EmptySet DEF NetworksInit
  <1>. QED
    BY <1>1, <1>2, <1>3 DEF NetworksInit, CacheInv

LEMMA NextCache == CacheInv /\ [NetworksNext]_netVars => CacheInv'
  <1> SUFFICES ASSUME CacheInv, NetworksNext PROVE CacheInv'
    BY RestCache
  <1>1. ASSUME NEW a \in Clients, NEW n \in Spaces, CreateSpace(a, n) \/ DeleteSpace(a, n)
        PROVE  CacheInv'
    BY <1>1, CreateSpaceCache, DeleteSpaceCache
  <1>2. ASSUME NEW a \in Clients, NEW p \in Guests, PostGuest(a, p) \/ DeleteGuest(a, p)
        PROVE  CacheInv'
    BY <1>2, GuestRequestsCache
  <1>3. ASSUME NEW a \in Callers, NetworksStep(a) PROVE CacheInv'
    BY <1>3, PlainStageCache, GuestsCache, NetStageCache, HealCache, ListGuestsCache,
       ListSpacesCache, ForgetCache, ListNamespacesCache, LookupCache, FillCache DEF NetworksStep
  <1>4. ASSUME NEW n \in Spaces, RemoveNetwork(n) PROVE CacheInv'
    BY <1>4, RemoveNetworkCache
  <1>5. CASE DieNetworks \/ BootNetworks
    BY <1>5, DieCache, BootCache
  <1>. QED
    BY <1>1, <1>2, <1>3, <1>4, <1>5 DEF NetworksNext

(* subnetForNamespace asks podman without the lock, dropSubnetCache comes  *)
(* some steps after the namespace left the store: still, no namespace      *)
(* inherits the subnet of an earlier one of its name, unless a lookup of   *)
(* the old one ended after it was forgotten.                               *)
THEOREM NoInheritedSubnet == NetworksSpec => []CacheFollowsNetworks
  <1>1. CacheInv => CacheFollowsNetworks
    BY DEF CacheInv, CacheFollowsNetworks
  <1>. QED
    BY <1>1, InitCache, NextCache, PTL DEF NetworksSpec
=============================================================================
