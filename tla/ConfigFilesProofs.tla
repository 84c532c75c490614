--------------------------- MODULE ConfigFilesProofs ---------------------------
(***************************************************************************)
(* Of the files that q8s keeps beside the store, for any number of objects *)
(* and any contents, over updates, deletes, namespace deletes, deaths and  *)
(* starts of q8s that interleave.  FilesInv, in ConfigFiles, is the        *)
(* inductive invariant.                                                    *)
(***************************************************************************)
EXTENDS ConfigFiles, ListLemmas

USE FilesAssumption, ContentsAssumption

---------------------------------------------------------------------------
(* Stages                                                                  *)

LEMMA ThirdStage ==
  ASSUME NEW x, NEW y, NEW z
  PROVE  <<x, y>> \o <<z>> = <<x, y, z>>
  <1>1. PICK s, t, u, R : s = <<x, y>> /\ t = <<z>> /\ u = <<x, y, z>> /\ R = {x, y, z}
    OBVIOUS
  <1>2. s \in Seq(R) /\ t \in Seq(R) /\ u \in Seq(R)
    BY <1>1
  <1>3. Len(s) = 2 /\ s[1] = x /\ s[2] = y /\ Len(t) = 1 /\ t[1] = z
        /\ Len(u) = 3 /\ u[1] = x /\ u[2] = y /\ u[3] = z
    BY <1>1
  <1>4. s \o t \in Seq(R) /\ Len(s \o t) = Len(s) + Len(t)
        /\ \A i \in 1..(Len(s) + Len(t)) : (s \o t)[i] = IF i <= Len(s) THEN s[i] ELSE t[i - Len(s)]
    BY <1>2, ConcatProperties
  <1>5. \A i \in 1..3 : (s \o t)[i] = u[i]
    <2>1. \A i \in 1..3 : i = 1 \/ i = 2 \/ i = 3
      OBVIOUS
    <2>2. (s \o t)[1] = x /\ (s \o t)[2] = y
      BY <1>3, <1>4
    <2>3. (s \o t)[3] = t[3 - Len(s)]
      BY <1>3, <1>4
    <2>4. 3 - Len(s) = 1
      BY <1>3
    <2>5. (s \o t)[3] = z
      BY <1>3, <2>3, <2>4
    <2> SUFFICES ASSUME NEW i \in 1..3 PROVE (s \o t)[i] = u[i]
      OBVIOUS
    <2>. QED
      BY <1>3, <2>1, <2>2, <2>5
  <1>6. s \o t = u
    BY <1>2, <1>3, <1>4, <1>5, SeqEqual
  <1>. QED
    BY <1>1, <1>6

(* What a task does first, and what is left once that is done. *)
Staged(do) ==
  /\ do # <<>> /\ Head(do) \in Range(do)
  /\ Tail(do) = <<>> \/ Tail(do) \in Shapes
  /\ Range(Tail(do)) = Range(do) \ {Head(do)}
  /\ Range(do) \subseteq Making \/ Range(do) \cap Making = {}
  /\ "env" \in Range(do) => Head(do) = "env"
  /\ "quad" \in Range(do) => Head(do) \in {"env", "quad"}
  /\ "prune" \in Range(do) => Head(do) = "prune"
  /\ Head(do) = "env" /\ do # <<"env">> => Len(do) # 1 /\ "quad" \in Range(do)
  /\ Tail(do) = <<>> => Range(do) = {Head(do)}
  /\ Len(do) = 1 => Tail(do) = <<>>
  /\ Head(do) = "healTimer" => Tail(do) = <<>>
  /\ Range(do) \cap {"list", "rmtree", "purge"} = {}
  /\ Head(do) \in {"stop", "unlink", "unlinkTimer", "rmdir", "drop"} => Range(do) \cap Making = {}
  /\ Head(do) = "drop" => do = <<"drop">>

LEMMA ShapesStaged == \A do \in Shapes : Staged(do)
  <1>1. Staged(<<"data">>)
    BY ShortTails, SMTT(30) DEF Staged, Shapes, Restores, Making, Renewing
  <1>2. Staged(<<"files">>)
    BY ShortTails, SMTT(30) DEF Staged, Shapes, Restores, Making, Renewing
  <1>3. Staged(<<"env">>)
    BY ShortTails, SMTT(30) DEF Staged, Shapes, Restores, Making, Renewing
  <1>4. Staged(<<"heal">>)
    BY ShortTails, SMTT(30) DEF Staged, Shapes, Restores, Making, Renewing
  <1>5. Staged(<<"bind">>)
    BY ShortTails, SMTT(30) DEF Staged, Shapes, Restores, Making, Renewing
  <1>6. Staged(<<"heal", "healTimer">>)
    BY ShortTails, SMTT(30) DEF Staged, Shapes, Restores, Making, Renewing
  <1>7. Staged(<<"prune", "files">>)
    BY ShortTails, SMTT(30) DEF Staged, Shapes, Restores, Making, Renewing
  <1>8. Staged(<<"volume">>)
    BY ShortTails, SMTT(30) DEF Staged, Shapes, Restores, Making, Renewing
  <1>9. Staged(<<"healTimer">>)
    BY ShortTails, SMTT(30) DEF Staged, Shapes, Restores, Making, Renewing
  <1>10. Staged(<<"env", "quad">>)
    BY ShortTails, SMTT(30) DEF Staged, Shapes, Restores, Making, Renewing
  <1>11. Staged(<<"quad">>)
    BY ShortTails, SMTT(30) DEF Staged, Shapes, Restores, Making, Renewing
  <1>12. Staged(<<"env", "quad", "start">>)
    BY ShortTails, SMTT(30) DEF Staged, Shapes, Restores, Making, Renewing
  <1>13. Staged(<<"quad", "start">>)
    BY ShortTails, SMTT(30) DEF Staged, Shapes, Restores, Making, Renewing
  <1>14. Staged(<<"start">>)
    BY ShortTails, SMTT(30) DEF Staged, Shapes, Restores, Making, Renewing
  <1>15. Staged(<<"env", "quad", "timer">>)
    BY ShortTails, SMTT(30) DEF Staged, Shapes, Restores, Making, Renewing
  <1>16. Staged(<<"quad", "timer">>)
    BY ShortTails, SMTT(30) DEF Staged, Shapes, Restores, Making, Renewing
  <1>17. Staged(<<"timer">>)
    BY ShortTails, SMTT(30) DEF Staged, Shapes, Restores, Making, Renewing
  <1>18. Staged(<<"env", "quad", "timer", "start">>)
    BY ShortTails, SMTT(30) DEF Staged, Shapes, Restores, Making, Renewing
  <1>19. Staged(<<"quad", "timer", "start">>)
    BY ShortTails, SMTT(30) DEF Staged, Shapes, Restores, Making, Renewing
  <1>20. Staged(<<"timer", "start">>)
    BY ShortTails, SMTT(30) DEF Staged, Shapes, Restores, Making, Renewing
  <1>21. Staged(<<"rmdir">>)
    BY ShortTails, SMTT(30) DEF Staged, Shapes, Restores, Making, Renewing
  <1>22. Staged(<<"unlink">>)
    BY ShortTails, SMTT(30) DEF Staged, Shapes, Restores, Making, Renewing
  <1>23. Staged(<<"stop", "unlink">>)
    BY ShortTails, SMTT(30) DEF Staged, Shapes, Restores, Making, Renewing
  <1>24. Staged(<<"stop", "unlink", "unlinkTimer">>)
    BY ShortTails, SMTT(30) DEF Staged, Shapes, Restores, Making, Renewing
  <1>25. Staged(<<"unlink", "unlinkTimer">>)
    BY ShortTails, SMTT(30) DEF Staged, Shapes, Restores, Making, Renewing
  <1>26. Staged(<<"unlinkTimer">>)
    BY ShortTails, SMTT(30) DEF Staged, Shapes, Restores, Making, Renewing
  <1>27. Staged(<<"stop", "unlink", "drop">>)
    BY ShortTails, SMTT(30) DEF Staged, Shapes, Restores, Making, Renewing
  <1>28. Staged(<<"unlink", "drop">>)
    BY ShortTails, SMTT(30) DEF Staged, Shapes, Restores, Making, Renewing
  <1>29. Staged(<<"drop">>)
    BY ShortTails, SMTT(30) DEF Staged, Shapes, Restores, Making, Renewing
  <1>30. Staged(<<"stop", "unlink", "unlinkTimer", "drop">>)
    BY ShortTails, SMTT(30) DEF Staged, Shapes, Restores, Making, Renewing
  <1>31. Staged(<<"unlink", "unlinkTimer", "drop">>)
    BY ShortTails, SMTT(30) DEF Staged, Shapes, Restores, Making, Renewing
  <1>32. Staged(<<"unlinkTimer", "drop">>)
    BY ShortTails, SMTT(30) DEF Staged, Shapes, Restores, Making, Renewing
  <1>. QED
    BY <1>1, <1>2, <1>3, <1>4, <1>5, <1>6, <1>7, <1>8, <1>9, <1>10, <1>11, <1>12, <1>13, <1>14, <1>15, <1>16, <1>17, <1>18, <1>19, <1>20, <1>21, <1>22, <1>23, <1>24, <1>25, <1>26, <1>27, <1>28, <1>29, <1>30, <1>31, <1>32 DEF Shapes, Restores

---------------------------------------------------------------------------
(* Lists of tasks                                                          *)

(* The first element of s gives way to front, back follows the others. *)
Replacement(s, front, back, new) ==
  /\ new \in Seq(Range(new))
  /\ Range(new) = Range(front) \cup Range(Tail(s)) \cup Range(back)
  /\ Range(s) = {Head(s)} \cup Range(Tail(s)) /\ Head(s) = s[1] /\ Len(s) \in Nat \ {0}
  /\ DOMAIN s = 1..Len(s) /\ DOMAIN new = 1..Len(new)
  /\ Len(new) = Len(front) + (Len(s) - 1) + Len(back)
  /\ \A i \in 1..Len(front) : new[i] = front[i]
  /\ \A i \in 2..Len(s) : new[Len(front) + (i - 1)] = s[i]
  /\ \A i \in 1..Len(back) : new[Len(front) + (Len(s) - 1) + i] = back[i]

LEMMA Replaced ==
  ASSUME NEW s, s \in Seq(Range(s)), s # <<>>,
         NEW front, front \in Seq(Range(front)), NEW back, back \in Seq(Range(back)),
         NEW new, new = front \o Tail(s) \o back
  PROVE  Replacement(s, front, back, new)
  <1>1. /\ DOMAIN s = 1..Len(s) /\ Len(s) \in Nat \ {0} /\ Head(s) = s[1]
        /\ Tail(s) \in Seq(Range(s)) /\ Len(Tail(s)) = Len(s) - 1
        /\ \A i \in 1..(Len(s) - 1) : Tail(s)[i] = s[i + 1]
    OBVIOUS
  <1>2. /\ DOMAIN front = 1..Len(front) /\ Len(front) \in Nat
        /\ DOMAIN back = 1..Len(back) /\ Len(back) \in Nat
        /\ DOMAIN Tail(s) = 1..(Len(s) - 1)
    BY <1>1
  <1> DEFINE R == Range(s) \cup Range(front) \cup Range(back)
             t == Tail(s)
  <1>3. front \in Seq(R) /\ t \in Seq(R) /\ back \in Seq(R)
    <2>1. Range(s) \subseteq R /\ Range(front) \subseteq R /\ Range(back) \subseteq R
      OBVIOUS
    <2> HIDE DEF R
    <2>. QED
      BY <1>1, <2>1, SeqWiden DEF t
  <1> HIDE DEF R, t
  <1>4. /\ front \o t \in Seq(R) /\ Len(front \o t) = Len(front) + Len(t)
        /\ \A i \in 1..Len(front) : (front \o t)[i] = front[i]
        /\ \A i \in 1..Len(t) : (front \o t)[Len(front) + i] = t[i]
    BY <1>3
  <1>5. Len(t) = Len(s) - 1 /\ \A i \in 1..Len(t) : t[i] = s[i + 1]
    BY <1>1 DEF t
  <1>6. /\ new \in Seq(R) /\ Len(new) = Len(front \o t) + Len(back)
        /\ \A i \in 1..Len(front \o t) : new[i] = (front \o t)[i]
        /\ \A i \in 1..Len(back) : new[Len(front \o t) + i] = back[i]
    BY <1>3, <1>4 DEF t
  <1>7. DOMAIN new = 1..Len(new) /\ Len(new) = Len(front) + (Len(s) - 1) + Len(back)
    BY <1>4, <1>5, <1>6
  <1>8. new \in Seq(Range(new))
    BY <1>6, SeqOfRange
  <1>9. \A i \in 1..Len(front) : new[i] = front[i]
    BY <1>2, <1>4, <1>6, <1>7, <1>5, <1>1
  <1>10. \A i \in 2..Len(s) : new[Len(front) + (i - 1)] = s[i]
    <2> SUFFICES ASSUME NEW i \in 2..Len(s) PROVE new[Len(front) + (i - 1)] = s[i]
      OBVIOUS
    <2>1. i - 1 \in 1..Len(t) /\ Len(front) + (i - 1) \in 1..Len(front \o t)
      BY <1>1, <1>2, <1>4, <1>5
    <2>2. new[Len(front) + (i - 1)] = t[i - 1]
      BY <1>4, <1>6, <2>1
    <2>3. t[i - 1] = s[(i - 1) + 1] /\ (i - 1) + 1 = i
      BY <1>1, <1>5, <2>1
    <2>. QED
      BY <2>2, <2>3
  <1>11. \A i \in 1..Len(back) : new[Len(front) + (Len(s) - 1) + i] = back[i]
    BY <1>4, <1>5, <1>6, SMTT(30)
  <1>12. Range(new) = Range(front) \cup Range(t) \cup Range(back)
    <2>1. Range(front \o t) = Range(front) \cup Range(t)
      BY <1>3, RangeConcatenation
    <2>2. Range((front \o t) \o back) = Range(front \o t) \cup Range(back)
      <3> DEFINE u == front \o t
      <3>1. u \in Seq(R)
        BY <1>4
      <3> HIDE DEF u
      <3>2. Range(u \o back) = Range(u) \cup Range(back)
        BY <1>3, <3>1, RangeConcatenation
      <3>. QED
        BY <3>2 DEF u
    <2>. QED
      BY <2>1, <2>2 DEF t
  <1>13. Range(s) = {Head(s)} \cup Range(t)
    <2>1. \A j \in 1..Len(s) : j = 1 \/ \E i \in 1..(Len(s) - 1) : s[j] = s[i + 1]
      <3> SUFFICES ASSUME NEW j \in 1..Len(s), j # 1 PROVE \E i \in 1..(Len(s) - 1) : s[j] = s[i + 1]
        OBVIOUS
      <3>1. j - 1 \in 1..(Len(s) - 1) /\ (j - 1) + 1 = j
        BY <1>1
      <3>. QED
        BY <3>1
    <2>2. DOMAIN t = 1..(Len(s) - 1)
      BY <1>2 DEF t
    <2>3. \A i \in 1..(Len(s) - 1) : t[i] = s[i + 1] /\ i + 1 \in 1..Len(s)
      BY <1>1, <1>5
    <2>4. Range(t) \subseteq Range(s)
      BY <1>1, <2>2, <2>3 DEF Range
    <2>5. Range(s) \subseteq {Head(s)} \cup Range(t)
      <3> SUFFICES ASSUME NEW j \in 1..Len(s) PROVE s[j] = s[1] \/ \E i \in DOMAIN t : t[i] = s[j]
        BY <1>1 DEF Range
      <3>. QED
        BY <2>1, <2>2, <2>3, ZenonT(40)
    <2>6. Head(s) \in Range(s)
      BY <1>1 DEF Range
    <2>. QED
      BY <2>4, <2>5, <2>6
  <1>. QED
    BY <1>1, <1>7, <1>8, <1>9, <1>10, <1>11, <1>12, <1>13 DEF t, Replacement

(* The lists of tasks after a step of a. *)
Advancement(a, front, back) ==
  /\ tasks' \in [Callers -> Range(tasks')]
  /\ \A c \in Callers : tasks'[c] \in Seq(Range(tasks'[c]))
  /\ \A c \in Callers \ {a} : tasks'[c] = tasks[c]
  /\ tasks'[a] = front \o Tail(tasks[a]) \o back
  /\ Range(tasks'[a]) = Range(front) \cup Range(Tail(tasks[a])) \cup Range(back)
  /\ Range(tasks[a]) = {Now(a)} \cup Range(Tail(tasks[a])) /\ Now(a) = tasks[a][1]
  /\ Len(tasks[a]) \in Nat \ {0} /\ DOMAIN tasks[a] = 1..Len(tasks[a])
  /\ DOMAIN tasks'[a] = 1..Len(tasks'[a])
  /\ Len(tasks'[a]) = Len(front) + (Len(tasks[a]) - 1) + Len(back)
  /\ \A i \in 1..Len(front) : tasks'[a][i] = front[i]
  /\ \A i \in 2..Len(tasks[a]) : tasks'[a][Len(front) + (i - 1)] = tasks[a][i]
  /\ \A i \in 1..Len(back) : tasks'[a][Len(front) + (Len(tasks[a]) - 1) + i] = back[i]

LEMMA Advanced ==
  ASSUME TasksInv, NEW a \in Callers, tasks[a] # <<>>,
         NEW front, front \in Seq(Range(front)), NEW back, back \in Seq(Range(back)),
         tasks' = [tasks EXCEPT ![a] = front \o Tail(tasks[a]) \o back]
  PROVE  Advancement(a, front, back)
  <1>1. tasks \in [Callers -> Range(tasks)] /\ \A c \in Callers : tasks[c] \in Seq(Range(tasks[c]))
    BY DEF TasksInv
  <1>2. tasks'[a] = front \o Tail(tasks[a]) \o back /\ \A c \in Callers \ {a} : tasks'[c] = tasks[c]
    BY <1>1
  <1>3. DOMAIN tasks' = Callers /\ tasks' = [c \in Callers |-> tasks'[c]]
    BY <1>1
  <1>4. tasks' \in [Callers -> Range(tasks')]
    BY <1>3 DEF Range
  <1>0. PICK s, new : s = tasks[a] /\ new = tasks'[a]
    OBVIOUS
  <1>5. s \in Seq(Range(s)) /\ s # <<>> /\ new = front \o Tail(s) \o back
    BY <1>0, <1>1, <1>2
  <1>6. Replacement(s, front, back, new)
    BY <1>5, Replaced
  <1>7. \A c \in Callers : tasks'[c] \in Seq(Range(tasks'[c]))
    <2> SUFFICES ASSUME NEW c \in Callers PROVE tasks'[c] \in Seq(Range(tasks'[c]))
      OBVIOUS
    <2>1. CASE c = a
      BY <1>0, <1>6, <2>1 DEF Replacement
    <2>2. CASE c # a
      BY <1>1, <1>2, <2>2
    <2>. QED
      BY <2>1, <2>2
  <1>. QED
    BY <1>0, <1>2, <1>4, <1>6, <1>7 DEF Now, Replacement, Advancement

LEMMA SmallLists ==
  /\ <<>> \in Seq(Range(<<>>)) /\ Range(<<>>) = {} /\ Len(<<>>) = 0
  /\ \A t : <<t>> \in Seq(Range(<<t>>)) /\ Range(<<t>>) = {t} /\ Len(<<t>>) = 1 /\ <<t>>[1] = t
  <1>1. Range(<<>>) = {} /\ \A t : Range(<<t>>) = {t}
    BY ShortTails
  <1>2. <<>> \in Seq({}) /\ Len(<<>>) = 0
    OBVIOUS
  <1>3. \A t : <<t>> \in Seq({t}) /\ Len(<<t>>) = 1 /\ <<t>>[1] = t
    OBVIOUS
  <1>. QED
    BY <1>1, <1>2, <1>3

LEMMA TodoFields ==
  ASSUME NEW do, NEW o, NEW b
  PROVE  /\ Todo(do, o, b).do = do /\ Todo(do, o, b).o = o /\ Todo(do, o, b).b = b
         /\ "o" \in DOMAIN Todo(do, o, b) /\ "of" \notin DOMAIN Todo(do, o, b)
  BY DEF Todo

LEMMA TaskKinds ==
  ASSUME cast \in Casts
  PROVE
  /\ \A t : IsTodo(t) => "o" \in DOMAIN t /\ "of" \notin DOMAIN t /\ t = Todo(t.do, t.o, t.b) /\ Staged(t.do)
                         /\ t.o \in Objects /\ ~IsPurge(t) /\ ~IsListing(t)
  /\ \A t : IsListing(t) => "of" \in DOMAIN t /\ "o" \notin DOMAIN t /\ t.do = <<"list">> /\ ~IsPurge(t)
                            /\ t.then \in Shapes
  /\ \A t : IsPurge(t) => "o" \notin DOMAIN t /\ "of" \notin DOMAIN t
                          /\ t.do \in {<<"rmtree", "purge">>, <<"purge">>}
  <1>1. ASSUME NEW t, IsTodo(t)
        PROVE  "o" \in DOMAIN t /\ "of" \notin DOMAIN t /\ t = Todo(t.do, t.o, t.b) /\ Staged(t.do)
    BY <1>1, ShapesStaged DEF IsTodo, Todo
  <1>2. ASSUME NEW t, IsListing(t)
        PROVE  "of" \in DOMAIN t /\ "o" \notin DOMAIN t /\ t.do = <<"list">> /\ t.then \in Shapes
    BY <1>2 DEF IsListing, Listing, Shapes
  <1>3. ASSUME NEW t, IsPurge(t)
        PROVE  "o" \notin DOMAIN t /\ "of" \notin DOMAIN t /\ t.do \in {<<"rmtree", "purge">>, <<"purge">>}
    BY <1>3 DEF IsPurge
  <1>4. ASSUME NEW t, IsTodo(t) PROVE t.o \in Objects
    BY <1>4 DEF IsTodo, Fits
  <1>. QED
    BY <1>1, <1>2, <1>3, <1>4

(* A task goes on with the stages it has left. *)
GoesOn(t, u) ==
  /\ IsTodo(u) /\ [t EXCEPT !.do = Tail(t.do)] = u
  /\ u.o = t.o /\ u.b = t.b /\ Range(u.do) = Range(t.do) \ {Head(t.do)}
  /\ Range(u.do) # {} /\ "env" \notin Range(u.do)
  /\ Makes(u) <=> Makes(t)
  /\ u.do # <<"env">>

LEMMA TodoGoesOn ==
  ASSUME cast \in Casts, NEW t, IsTodo(t), Head(t.do) # "env", Tail(t.do) # <<>>,
         NEW u, u = Todo(Tail(t.do), t.o, t.b)
  PROVE  GoesOn(t, u)
  <1>1. t = Todo(t.do, t.o, t.b) /\ Staged(t.do) /\ t.do \in Shapes /\ t.o \in cast
    BY TaskKinds DEF IsTodo
  <1>2. u.do = Tail(t.do) /\ u.o = t.o /\ u.b = t.b /\ "o" \in DOMAIN u
    BY TodoFields
  <1>3. Range(u.do) = Range(t.do) \ {Head(t.do)} /\ u.do \in Shapes
    BY <1>1, <1>2 DEF Staged
  <1>4. Range(u.do) # {}
    BY <1>3, ShapesStaged DEF Staged
  <1>5. "env" \notin Range(t.do) /\ "env" \notin Range(u.do)
    BY <1>1, <1>3 DEF Staged
  <1>6. IsTodo(u)
    <2>1. Fits(u.do, u.o)
      BY <1>2, <1>3, <1>5 DEF IsTodo, Fits
    <2>2. Range(u.do) \cap Renewing # {} => u.b \in Bodies(u.o)
      BY <1>2, <1>3 DEF IsTodo
    <2>3. "quad" \in Range(u.do) => u.b \in [t : Templates, file : BOOLEAN]
      BY <1>2, <1>3, <1>5 DEF IsTodo
    <2>. QED
      BY <1>1, <1>2, <1>3, <2>1, <2>2, <2>3 DEF IsTodo
  <1>7. Makes(u) <=> Makes(t)
    BY <1>1, <1>3, <1>4, <1>6 DEF Makes, Staged
  <1>8. [t EXCEPT !.do = Tail(t.do)] = u
    <2>1. t = [do |-> t.do, o |-> t.o, b |-> t.b]
      BY <1>1 DEF Todo
    <2>2. [t EXCEPT !.do = Tail(t.do)] = [do |-> Tail(t.do), o |-> t.o, b |-> t.b]
      BY <2>1
    <2>. QED
      BY <2>2 DEF Todo
  <1>9. u.do # <<"env">>
    <2>1. "env" \in Range(<<"env">>)
      BY ShortTails
    <2>. QED
      BY <1>5, <2>1
  <1>. QED
    BY <1>2, <1>3, <1>4, <1>5, <1>6, <1>7, <1>8, <1>9 DEF GoesOn

(* The task in hand. *)
LEMMA TaskInHand ==
  ASSUME TasksInv, cast \in Casts, NEW a \in Callers, tasks[a] # <<>>
  PROVE  /\ Now(a) \in Range(tasks[a]) /\ Now(a) = tasks[a][1]
         /\ DOMAIN tasks[a] = 1..Len(tasks[a]) /\ Len(tasks[a]) \in Nat \ {0}
         /\ a \in {Main, Client}
         /\ IsTodo(Now(a)) \/ IsListing(Now(a)) \/ IsPurge(Now(a))
         /\ a = Main => IsListing(Now(a)) \/ Makes(Now(a))
         /\ a = Client => IsTodo(Now(a)) \/ IsPurge(Now(a))
  <1>1. tasks[a] \in Seq(Range(tasks[a])) /\ a \in {Main, Client}
    BY DEF TasksInv, Callers
  <1>2. /\ Now(a) = tasks[a][1] /\ DOMAIN tasks[a] = 1..Len(tasks[a]) /\ Len(tasks[a]) \in Nat \ {0}
    BY <1>1 DEF Now
  <1>3. Now(a) \in Range(tasks[a])
    BY <1>2 DEF Range
  <1>. QED
    BY <1>1, <1>2, <1>3 DEF TasksInv, Makes

LEMMA StageInHand ==
  ASSUME TasksInv, cast \in Casts, NEW a \in Callers, NEW stage, On(a, stage),
         stage \notin {"list", "rmtree", "purge"}
  PROVE  /\ alive /\ tasks[a] # <<>> /\ IsTodo(Now(a)) /\ Now(a) \in Todos(a)
         /\ Head(Now(a).do) = stage /\ stage \in Range(Now(a).do) /\ Staged(Now(a).do)
         /\ Now(a).o \in Objects
  <1>1. alive /\ tasks[a] # <<>> /\ Head(Now(a).do) = stage
    BY DEF On
  <1>2. IsTodo(Now(a))
    <2>1. CASE IsListing(Now(a))
      BY <1>1, <2>1, TaskKinds, ShortTails
    <2>2. CASE IsPurge(Now(a))
      BY <1>1, <2>2, TaskKinds, ShortTails
    <2>. QED
      BY <1>1, <2>1, <2>2, TaskInHand
  <1>. QED
    BY <1>1, <1>2, TaskInHand, TaskKinds DEF Todos, Staged

(* What a has done of its task in hand; the task goes on or is over.       *)
Remainder(a, front) ==
  \/ front = <<>>
  \/ /\ Head(Now(a).do) # "env" /\ Tail(Now(a).do) # <<>>
     /\ front = << Todo(Tail(Now(a).do), Now(a).o, Now(a).b) >>

Progress(a) ==
  /\ TasksInv'
  /\ \A c \in Callers \ {a} : tasks'[c] = tasks[c]
  /\ \A u \in Todos(a)' : u \in Todos(a) \/
       /\ u.o = Now(a).o /\ u.b = Now(a).b /\ Head(Now(a).do) # "env" /\ IsTodo(u)
       /\ Range(u.do) = Range(Now(a).do) \ {Head(Now(a).do)} /\ (Makes(u) <=> Makes(Now(a)))
  /\ \A t \in Todos(a) : t = Now(a) \/ t \in Todos(a)'
  /\ \A o, s : Listed(o, s)' <=> Listed(o, s)
  /\ Purging' <=> Purging
  /\ (\E t \in Range(tasks'[Client]) : t.do = <<"purge">>) =>
       \E t \in Range(tasks[Client]) : t.do = <<"purge">>
  /\ \A c \in Callers : InHand(c)' => c # a /\ InHand(c) /\ Now(c)' = Now(c)
  /\ Starting' => Starting
  /\ OrderInv => OrderInv'

LEMMA Goes ==
  ASSUME TasksInv, cast \in Casts, cast' = cast, alive' = alive,
         NEW a \in Callers, NEW stage, On(a, stage), stage \notin {"list", "rmtree", "purge"},
         NEW front, Remainder(a, front), tasks' = [tasks EXCEPT ![a] = front \o Tail(tasks[a])]
  PROVE  Progress(a)
  <1>1. /\ alive /\ tasks[a] # <<>> /\ IsTodo(Now(a)) /\ Now(a) \in Todos(a) /\ Staged(Now(a).do)
        /\ Head(Now(a).do) = stage
    BY StageInHand
  <1>2. PICK t : t = Now(a)
    OBVIOUS
  <1>3. \A u \in Range(front) :
          /\ IsTodo(u) /\ u.o = t.o /\ u.b = t.b /\ Range(u.do) = Range(t.do) \ {Head(t.do)}
          /\ (Makes(u) <=> Makes(t)) /\ "env" \notin Range(u.do) /\ u.do # <<"env">>
          /\ "o" \in DOMAIN u /\ "of" \notin DOMAIN u /\ ~IsPurge(u)
          /\ Head(t.do) # "env" /\ front = <<u>> /\ Len(front) = 1 /\ front[1] = u
    <2>1. CASE front = <<>>
      BY <2>1, SmallLists
    <2>2. CASE Head(t.do) # "env" /\ Tail(t.do) # <<>> /\ front = << Todo(Tail(t.do), t.o, t.b) >>
      <3>1. PICK u : u = Todo(Tail(t.do), t.o, t.b)
        OBVIOUS
      <3>2. front = <<u>> /\ Range(front) = {u} /\ Len(front) = 1 /\ front[1] = u
        BY <2>2, <3>1, SmallLists
      <3>3. IsTodo(u) /\ u.o = t.o /\ u.b = t.b /\ Range(u.do) = Range(t.do) \ {Head(t.do)}
            /\ (Makes(u) <=> Makes(t)) /\ "env" \notin Range(u.do) /\ u.do # <<"env">>
        <4>1. IsTodo(t) /\ Head(t.do) # "env" /\ Tail(t.do) # <<>>
          BY <1>1, <1>2, <2>2
        <4>2. GoesOn(t, u)
          BY <4>1, <3>1, TodoGoesOn
        <4>. QED
          BY <4>2 DEF GoesOn
      <3>4. "o" \in DOMAIN u /\ "of" \notin DOMAIN u /\ ~IsPurge(u)
        BY <3>3, TaskKinds
      <3>. QED
        BY <2>2, <3>2, <3>3, <3>4
    <2>. QED
      BY <1>2, <2>1, <2>2 DEF Remainder
  <1>4. /\ front \in Seq(Range(front)) /\ Len(front) \in {0, 1} /\ (Len(front) = 1 => front[1] \in Range(front))
        /\ Range(front) = {} \/ Len(front) = 1
    <2>1. CASE front = <<>>
      BY <2>1, SmallLists
    <2>2. CASE front = << Todo(Tail(t.do), t.o, t.b) >>
      BY <2>2, SmallLists
    <2>. QED
      BY <1>2, <2>1, <2>2 DEF Remainder
  <1>5. PICK s, new : s = tasks[a] /\ new = tasks'[a]
    OBVIOUS
  <1>6. tasks \in [Callers -> Range(tasks)] /\ s \in Seq(Range(s)) /\ a \in {Main, Client}
    BY <1>1, <1>5 DEF TasksInv, Callers
  <1>7. front \o Tail(s) \o <<>> = front \o Tail(s)
    <2>1. Range(front) \subseteq Range(front) \cup Range(s) /\ Range(s) \subseteq Range(front) \cup Range(s)
      OBVIOUS
    <2>2. Tail(s) \in Seq(Range(s))
      BY <1>1, <1>5, <1>6
    <2>3. front \in Seq(Range(front) \cup Range(s)) /\ Tail(s) \in Seq(Range(front) \cup Range(s))
      BY <1>4, <2>1, <2>2, SeqWiden
    <2>. QED
      BY <2>3
  <1>8. /\ tasks' \in [Callers -> Range(tasks')]
        /\ \A c \in Callers : tasks'[c] \in Seq(Range(tasks'[c]))
        /\ \A c \in Callers \ {a} : tasks'[c] = tasks[c]
        /\ Range(new) = Range(front) \cup Range(Tail(s))
        /\ Range(s) = {t} \cup Range(Tail(s)) /\ t = s[1] /\ Len(s) \in Nat \ {0} /\ DOMAIN s = 1..Len(s)
        /\ DOMAIN new = 1..Len(new) /\ Len(new) = Len(front) + (Len(s) - 1)
        /\ \A i \in 1..Len(front) : new[i] = front[i]
        /\ \A i \in 2..Len(s) : new[Len(front) + (i - 1)] = s[i]
    <2>1. tasks' = [tasks EXCEPT ![a] = front \o Tail(tasks[a]) \o <<>>]
      BY <1>5, <1>7
    <2>2. <<>> \in Seq(Range(<<>>)) /\ Len(<<>>) = 0 /\ Range(<<>>) = {}
      BY SmallLists
    <2>3. Advancement(a, front, <<>>)
      BY <1>1, <1>4, <2>1, <2>2, Advanced
    <2>4. /\ tasks' \in [Callers -> Range(tasks')]
          /\ \A c \in Callers : tasks'[c] \in Seq(Range(tasks'[c]))
          /\ \A c \in Callers \ {a} : tasks'[c] = tasks[c]
      BY <2>3 DEF Advancement
    <2>5. /\ Range(new) = Range(front) \cup Range(Tail(s))
          /\ Range(s) = {t} \cup Range(Tail(s)) /\ t = s[1] /\ Len(s) \in Nat \ {0} /\ DOMAIN s = 1..Len(s)
      BY <1>2, <1>5, <2>2, <2>3 DEF Advancement
    <2>6. /\ DOMAIN new = 1..Len(new) /\ Len(new) = Len(front) + (Len(s) - 1)
          /\ \A i \in 1..Len(front) : new[i] = front[i]
          /\ \A i \in 2..Len(s) : new[Len(front) + (i - 1)] = s[i]
      BY <1>4, <1>5, <2>2, <2>3, <2>5 DEF Advancement
    <2>. QED
      BY <2>4, <2>5, <2>6
  <1>9. \A j \in DOMAIN new : \/ j = 1 /\ Len(front) = 1 /\ new[j] = front[1] /\ new[j] \in Range(front)
                              \/ \E i \in 2..Len(s) : j = Len(front) + (i - 1) /\ new[j] = s[i]
    <2> SUFFICES ASSUME NEW j \in 1..Len(new), j > Len(front)
                 PROVE  \E i \in 2..Len(s) : j = Len(front) + (i - 1)
      BY <1>4, <1>8
    <2>1. (j - Len(front)) + 1 \in 2..Len(s) /\ j = Len(front) + (((j - Len(front)) + 1) - 1)
      BY <1>4, <1>8
    <2>. QED
      BY <2>1

  <1>10. \A c \in Callers \ {a} : tasks'[c] = tasks[c]
    BY <1>8
  <1>11. \A u : (IsTodo(u)' <=> IsTodo(u)) /\ (Makes(u)' <=> Makes(u)) /\ (IsListing(u)' <=> IsListing(u))
                /\ (IsPurge(u)' <=> IsPurge(u))
    BY DEF IsTodo, Makes, IsListing, IsPurge, Bodies
  <1>12. /\ \A u \in Range(new) : u \in Range(front) \/ u \in Range(s)
         /\ \A u \in Range(s) : u = t \/ u \in Range(new)
    BY <1>8
  <1>13. Makes(t) /\ a = Client => Len(s) = 1
    <2>1. t \in Range(s)
      BY <1>8
    <2>. QED
      BY <1>2, <1>5, <2>1 DEF TasksInv
  <1>14. TasksInv'
    <2>1. /\ \A c \in Clients \ {Client} : tasks'[c] = <<>>
          /\ ~alive' => \A c \in Callers : tasks'[c] = <<>>
      BY <1>1, <1>6, <1>8 DEF TasksInv, Callers
    <2>2. \A u \in Range(tasks'[Main]) : IsListing(u) \/ Makes(u)
      <3>1. CASE a = Main
        <4>1. \A u \in Range(s) : IsListing(u) \/ Makes(u)
          BY <1>5, <3>1 DEF TasksInv
        <4>2. Makes(t)
          BY <1>1, <1>2, <1>8, <4>1, TaskKinds
        <4>. QED
          BY <1>3, <1>5, <1>12, <3>1, <4>1, <4>2
      <3>2. CASE a # Main
        BY <1>10, <3>2 DEF TasksInv, Callers
      <3>. QED
        BY <3>1, <3>2
    <2>3. \A u \in Range(tasks'[Client]) : IsTodo(u) \/ IsPurge(u)
      <3>1. CASE a = Client
        BY <1>3, <1>5, <1>12, <3>1 DEF TasksInv
      <3>2. CASE a # Client
        BY <1>10, <3>2 DEF TasksInv, Callers
      <3>. QED
        BY <3>1, <3>2
    <2>4. \A u \in Todos(Client)' :
            u.do # <<"env">> /\ Range(u.do) \cap {"data", "bind", "heal", "healTimer"} = {}
      <3>1. CASE a = Client
        <4>1. \A u \in Todos(Client) :
                u.do # <<"env">> /\ Range(u.do) \cap {"data", "bind", "heal", "healTimer"} = {}
          BY DEF TasksInv
        <4>2. t \in Todos(Client)
          BY <1>1, <1>2, <3>1
        <4>3. \A u \in Range(s) : "o" \in DOMAIN u => u \in Todos(Client)
          BY <1>5, <3>1 DEF Todos
        <4>. QED
          BY <1>3, <1>5, <1>12, <3>1, <4>1, <4>2, <4>3 DEF Todos
      <3>2. CASE a # Client
        BY <1>10, <3>2 DEF TasksInv, Callers, Todos
      <3>. QED
        BY <3>1, <3>2
    <2>5. (\E u \in Range(tasks'[Client]) : Makes(u)) => Len(tasks'[Client]) = 1
      <3>1. CASE a = Client
        <4> SUFFICES ASSUME NEW u \in Range(new), Makes(u) PROVE Len(new) = 1
          BY <1>5, <3>1
        <4>1. CASE u \in Range(front)
          BY <1>3, <1>8, <1>13, <3>1, <4>1, SMTT(30)
        <4>2. CASE u \in Range(Tail(s))
          <5>1. u \in Range(s)
            BY <1>8, <4>2
          <5>2. Len(s) = 1
            BY <1>5, <3>1, <5>1 DEF TasksInv
          <5>3. Tail(s) \in Seq(Range(s)) /\ Len(Tail(s)) = 0
            BY <1>1, <1>5, <1>6, <5>2
          <5>4. Tail(s) = <<>>
            BY <5>3, EmptySeq
          <5>. QED
            BY <4>2, <5>4, ShortTails
        <4>. QED
          BY <1>8, <4>1, <4>2
      <3>2. CASE a # Client
        BY <1>10, <3>2 DEF TasksInv, Callers
      <3>. QED
        BY <3>1, <3>2
    <2>6. \A j \in DOMAIN tasks'[Client] : IsPurge(tasks'[Client][j]) => j = Len(tasks'[Client])
      <3>1. CASE a = Client
        <4>1. \A j \in DOMAIN s : IsPurge(s[j]) => j = Len(s)
          BY <1>5, <3>1 DEF TasksInv
        <4> SUFFICES ASSUME NEW j \in DOMAIN new, IsPurge(new[j]) PROVE j = Len(new)
          BY <1>5, <3>1
        <4>2. PICK i \in 2..Len(s) : j = Len(front) + (i - 1) /\ new[j] = s[i]
          BY <1>3, <1>9
        <4>3. i \in DOMAIN s /\ i = Len(s)
          BY <1>8, <4>1, <4>2
        <4>. QED
          BY <1>8, <4>2, <4>3
      <3>2. CASE a # Client
        BY <1>10, <3>2 DEF TasksInv, Callers
      <3>. QED
        BY <3>1, <3>2
    <2>7. \A c \in Callers : \A j \in DOMAIN tasks'[c] \ {1} :
            "quad" \in Range(tasks'[c][j].do) => "env" \in Range(tasks'[c][j].do)
      <3> SUFFICES ASSUME NEW c \in Callers, NEW j \in DOMAIN tasks'[c] \ {1}
                   PROVE  "quad" \in Range(tasks'[c][j].do) => "env" \in Range(tasks'[c][j].do)
        OBVIOUS
      <3>1. CASE c = a
        <4>1. PICK i \in 2..Len(s) : new[j] = s[i]
          BY <1>5, <1>9, <3>1
        <4>2. i \in DOMAIN s \ {1}
          BY <1>8
        <4>3. "quad" \in Range(s[i].do) => "env" \in Range(s[i].do)
          BY <1>5, <4>2 DEF TasksInv
        <4>. QED
          BY <1>5, <3>1, <4>1, <4>3
      <3>2. CASE c # a
        BY <1>10, <3>2 DEF TasksInv
      <3>. QED
        BY <3>1, <3>2
    <2>. QED
      BY <1>8, <1>11, <2>1, <2>2, <2>3, <2>4, <2>5, <2>6, <2>7 DEF TasksInv
  <1>15. /\ \A u \in Todos(a)' : u \in Todos(a) \/
              /\ u.o = Now(a).o /\ u.b = Now(a).b /\ Head(Now(a).do) # "env" /\ IsTodo(u)
              /\ Range(u.do) = Range(Now(a).do) \ {Head(Now(a).do)} /\ (Makes(u) <=> Makes(Now(a)))
         /\ \A u \in Todos(a) : u = Now(a) \/ u \in Todos(a)'
    BY <1>2, <1>3, <1>5, <1>12 DEF Todos
  <1>16. \A o, x : Listed(o, x)' <=> Listed(o, x)
    <2>1. CASE a = Main
      <3>1. \A u : "of" \in DOMAIN u => (u \in Range(new) <=> u \in Range(s))
        <4>1. "of" \notin DOMAIN t
          BY <1>1, <1>2, TaskKinds
        <4>. QED
          BY <1>3, <1>8, <4>1
      <3>. QED
        BY <1>5, <2>1, <3>1 DEF Listed
    <2>2. CASE a # Main
      BY <1>10, <2>2 DEF Listed, Callers
    <2>. QED
      BY <2>1, <2>2
  <1>17. /\ Purging' <=> Purging
         /\ (\E u \in Range(tasks'[Client]) : u.do = <<"purge">>) =>
              \E u \in Range(tasks[Client]) : u.do = <<"purge">>
    <2>1. CASE a = Client
      <3>1. ~IsPurge(t)
        BY <1>1, <1>2, TaskKinds
      <3>2. \A u \in Range(front) : u.do # <<"purge">>
        <4>1. "purge" \in Range(<<"purge">>)
          BY ShortTails
        <4>2. \A u \in Range(front) : "purge" \notin Range(u.do)
          BY <1>3, TaskKinds DEF Staged
        <4>. QED
          BY <4>1, <4>2
      <3>3. Purging' <=> Purging
        BY <1>3, <1>5, <1>8, <1>11, <2>1, <3>1 DEF Purging
      <3>. QED
        BY <1>5, <1>12, <2>1, <3>2, <3>3
    <2>2. CASE a # Client
      <3>1. tasks'[Client] = tasks[Client]
        BY <1>10, <2>2 DEF Callers
      <3>. QED
        BY <1>11, <3>1 DEF Purging
    <2>. QED
      BY <2>1, <2>2
  <1>18. \A c \in Callers : InHand(c)' => c # a /\ InHand(c) /\ Now(c)' = Now(c)
    <2>1. ASSUME NEW c \in Callers, c # a, InHand(c)' PROVE InHand(c) /\ Now(c)' = Now(c)
      BY <1>10, <2>1 DEF InHand, Now
    <2>2. ~InHand(a)'
      <3> SUFFICES ASSUME InHand(a)' PROVE FALSE
        OBVIOUS
      <3>1. new # <<>> /\ "quad" \in Range(Now(a)'.do) /\ "env" \notin Range(Now(a)'.do)
        BY <1>5 DEF InHand
      <3>2. 1 \in DOMAIN new /\ Now(a)' = new[1]
        <4>1. new \in Seq(Range(new))
          BY <1>5, <1>8
        <4>. QED
          BY <1>5, <3>1, <4>1 DEF Now
      <3>3. CASE Len(front) = 1 /\ new[1] \in Range(front)
        <4>1. Range(new[1].do) = Range(t.do) \ {Head(t.do)} /\ Head(t.do) # "env" /\ Staged(t.do)
          BY <1>1, <1>2, <1>3, <3>3
        <4>. QED
          BY <3>1, <3>2, <4>1 DEF Staged
      <3>4. CASE \E i \in 2..Len(s) : new[1] = s[i]
        <4>1. PICK i \in 2..Len(s) : new[1] = s[i]
          BY <3>4
        <4>2. i \in DOMAIN tasks[a] \ {1}
          BY <1>5, <1>8
        <4>3. "quad" \in Range(tasks[a][i].do) => "env" \in Range(tasks[a][i].do)
          BY <4>2 DEF TasksInv
        <4>. QED
          BY <1>5, <3>1, <3>2, <4>1, <4>3
      <3>. QED
        BY <1>9, <3>2, <3>3, <3>4
    <2>. QED
      BY <2>1, <2>2
  <1>19. Starting' => Starting
    BY <1>1, <1>10 DEF Starting, Callers
  <1>20. OrderInv => OrderInv'
    <2>1. CASE a # Main
      BY <1>10, <2>1 DEF OrderInv, Callers, Restoring, Healing
    <2>2. CASE a = Main
      <3>0. OrderInv' <=> \A w \in cast : \A j \in DOMAIN new : Restoring(new[j], w) =>
                            \E k \in DOMAIN new : k > j /\ Healing(new[k], w)
        <4>1. new = tasks'[Main]
          BY <1>5, <2>2
        <4>. QED
          BY <4>1 DEF OrderInv, Restoring, Healing
      <3> SUFFICES ASSUME OrderInv, NEW w \in cast, NEW j \in DOMAIN new, Restoring(new[j], w)
                   PROVE  \E k \in DOMAIN new : k > j /\ Healing(new[k], w)
        BY <3>0
      <3>1. new[j] \notin Range(front)
        BY <1>3 DEF Restoring
      <3>2. PICK i \in 2..Len(s) : j = Len(front) + (i - 1) /\ new[j] = s[i]
        BY <1>9, <3>1
      <3>3. i \in DOMAIN s
        BY <1>8
      <3>4. PICK k \in DOMAIN s : k > i /\ Healing(s[k], w)
        BY <1>5, <2>2, <3>2, <3>3 DEF OrderInv
      <3>5. /\ k \in 2..Len(s) /\ Len(front) + (k - 1) \in DOMAIN new /\ Len(front) + (k - 1) > j
            /\ new[Len(front) + (k - 1)] = s[k]
        BY <1>4, <1>8, <3>2, <3>4, SMTT(30)
      <3>. QED
        BY <3>4, <3>5
    <2>. QED
      BY <2>1, <2>2
  <1>. QED
    BY <1>10, <1>14, <1>15, <1>16, <1>17, <1>18, <1>19, <1>20 DEF Progress

LEMMA TodoExcept ==
  ASSUME NEW t, IsTodo(t), NEW do
  PROVE  [t EXCEPT !.do = do] = Todo(do, t.o, t.b)
  <1>1. t = [do |-> t.do, o |-> t.o, b |-> t.b]
    BY DEF IsTodo, Todo
  <1>2. [t EXCEPT !.do = do] = [do |-> do, o |-> t.o, b |-> t.b]
    BY <1>1
  <1>. QED
    BY <1>2 DEF Todo

LEMMA FinishIsRemainder ==
  ASSUME TasksInv, cast \in Casts, NEW a \in Callers, NEW stage, On(a, stage),
         stage \notin {"list", "rmtree", "purge"},
         Abandon(a) \/ (Proceed(a) /\ stage # "env")
  PROVE  /\ \E front : Remainder(a, front) /\ tasks' = [tasks EXCEPT ![a] = front \o Tail(tasks[a])]
         /\ Proceed(a) /\ Tail(Now(a).do) # <<>> =>
              tasks' = [tasks EXCEPT ![a] =
                << Todo(Tail(Now(a).do), Now(a).o, Now(a).b) >> \o Tail(tasks[a])]
  <1>1. /\ tasks[a] # <<>> /\ IsTodo(Now(a)) /\ Head(Now(a).do) = stage /\ a \in {Main, Client}
    BY StageInHand, TaskInHand
  <1>2. PICK s : s = tasks[a]
    OBVIOUS
  <1>3. tasks \in [Callers -> Range(tasks)] /\ Now(a) = Head(s)
    BY <1>2 DEF TasksInv, Now
  <1>4. <<>> \o <<>> = <<>> /\ \A u : <<u>> \o <<>> = <<u>>
    OBVIOUS
  <1>5. CASE Abandon(a)
    <2>1. tasks' = [tasks EXCEPT ![a] = <<>> \o <<>> \o Tail(s)]
      BY <1>2, <1>5 DEF Abandon, Finish
    <2>2. Remainder(a, <<>>) /\ tasks' = [tasks EXCEPT ![a] = <<>> \o Tail(tasks[a])]
      BY <1>2, <1>4, <2>1 DEF Remainder
    <2>3. Proceed(a) /\ Tail(Now(a).do) # <<>> =>
            tasks' = [tasks EXCEPT ![a] =
              << Todo(Tail(Now(a).do), Now(a).o, Now(a).b) >> \o Tail(tasks[a])]
      <3> SUFFICES ASSUME Proceed(a), Tail(Now(a).do) # <<>>
                   PROVE  tasks' = [tasks EXCEPT ![a] =
                            << Todo(Tail(Now(a).do), Now(a).o, Now(a).b) >> \o Tail(tasks[a])]
        OBVIOUS
      <3>1. tasks' = [tasks EXCEPT ![a] = <<[Head(s) EXCEPT !.do = Tail(Now(a).do)]>> \o <<>> \o Tail(s)]
        BY <1>2 DEF Proceed, Finish
      <3>2. [Now(a) EXCEPT !.do = Tail(Now(a).do)] = Todo(Tail(Now(a).do), Now(a).o, Now(a).b)
        BY <1>1, TodoExcept
      <3>. QED
        BY <1>2, <1>3, <1>4, <3>1, <3>2
    <2>. QED
      BY <2>2, <2>3
  <1>6. CASE Proceed(a) /\ stage # "env"
    <2>1. CASE Tail(Now(a).do) = <<>>
      <3>1. tasks' = [tasks EXCEPT ![a] = <<>> \o <<>> \o Tail(s)]
        BY <1>2, <1>6, <2>1 DEF Proceed, Finish
      <3>. QED
        BY <1>2, <1>4, <2>1, <3>1 DEF Remainder
    <2>2. CASE Tail(Now(a).do) # <<>>
      <3>1. tasks' = [tasks EXCEPT ![a] = <<[Head(s) EXCEPT !.do = Tail(Now(a).do)]>> \o <<>> \o Tail(s)]
        BY <1>2, <1>6, <2>2 DEF Proceed, Finish
      <3>2. [Now(a) EXCEPT !.do = Tail(Now(a).do)] = Todo(Tail(Now(a).do), Now(a).o, Now(a).b)
        BY <1>1, TodoExcept
      <3>3. PICK u : u = Todo(Tail(Now(a).do), Now(a).o, Now(a).b)
        OBVIOUS
      <3>4. tasks' = [tasks EXCEPT ![a] = <<u>> \o Tail(tasks[a])]
        BY <1>2, <1>3, <1>4, <3>1, <3>2, <3>3
      <3>5. Remainder(a, <<u>>)
        BY <1>1, <1>6, <2>2, <3>3 DEF Remainder
      <3>. QED
        BY <3>3, <3>4, <3>5
    <2>. QED
      BY <2>1, <2>2
  <1>. QED
    BY <1>5, <1>6

(* What is pending after a stage is done ...                               *)
Proceeded(a, stage) ==
  /\ Progress(a) /\ alive /\ alive'
  /\ \A c \in Callers : \A o, x : Pending(c, o, x)' => Pending(c, o, x)
  /\ \A c \in Callers : \A o, x : Pending(c, o, x) /\ (o # Now(a).o \/ x # stage) => Pending(c, o, x)'
  /\ \A o, x : Listed(o, x)' <=> Listed(o, x)
  /\ \A o, x : AtStart(o, x)' => AtStart(o, x)
  /\ \A o, x : AtStart(o, x) /\ (o # Now(a).o \/ x # stage) => AtStart(o, x)'
  /\ Purging' <=> Purging

(* ... and when the task is given up. *)
Abandoned(a) ==
  /\ Progress(a) /\ alive /\ alive'
  /\ \A c \in Callers : \A o, x : Pending(c, o, x)' => Pending(c, o, x)
  /\ \A c \in Callers : \A o, x : Pending(c, o, x) /\ (o # Now(a).o \/ c # a) => Pending(c, o, x)'
  /\ \A o, x : Listed(o, x)' <=> Listed(o, x)
  /\ \A o, x : AtStart(o, x) /\ o # Now(a).o => AtStart(o, x)'
  /\ \A o, x : AtStart(o, x) /\ a # Main => AtStart(o, x)'
  /\ Purging' <=> Purging

LEMMA StageDone ==
  ASSUME TasksInv, cast \in Casts, cast' = cast, alive' = alive, NEW a \in Callers, NEW stage, On(a, stage),
         stage \notin {"list", "rmtree", "purge", "env"}, Proceed(a)
  PROVE  Proceeded(a, stage)
  <1>1. /\ alive /\ tasks[a] # <<>> /\ IsTodo(Now(a)) /\ Head(Now(a).do) = stage /\ Staged(Now(a).do)
        /\ Now(a) \in Todos(a)
    BY StageInHand
  <1>2. PICK front : Remainder(a, front) /\ tasks' = [tasks EXCEPT ![a] = front \o Tail(tasks[a])]
    BY FinishIsRemainder
  <1>3. Progress(a)
    BY <1>2, Goes
  <1>4. \A c \in Callers : \A o, x : Pending(c, o, x)' => Pending(c, o, x)
    <2> SUFFICES ASSUME NEW c \in Callers, NEW o, NEW x, Pending(c, o, x)' PROVE Pending(c, o, x)
      OBVIOUS
    <2>1. CASE c = a
      <3>1. PICK u \in Todos(a)' : u.o = o /\ x \in Range(u.do)
        BY <2>1 DEF Pending
      <3>. QED
        BY <1>1, <1>3, <2>1, <3>1 DEF Progress, Pending
    <2>2. CASE c # a
      BY <1>3, <2>2 DEF Progress, Pending, Todos
    <2>. QED
      BY <2>1, <2>2
  <1>5. \A c \in Callers : \A o, x : Pending(c, o, x) /\ (o # Now(a).o \/ x # stage) => Pending(c, o, x)'
    <2> SUFFICES ASSUME NEW c \in Callers, NEW o, NEW x, Pending(c, o, x), o # Now(a).o \/ x # stage
                 PROVE  Pending(c, o, x)'
      OBVIOUS
    <2>1. CASE c = a
      <3>1. PICK t \in Todos(a) : t.o = o /\ x \in Range(t.do)
        BY <2>1 DEF Pending
      <3>2. CASE t # Now(a)
        BY <1>3, <2>1, <3>1, <3>2 DEF Progress, Pending
      <3>3. CASE t = Now(a)
        <4>1. x # stage /\ x \in Range(Now(a).do)
          BY <3>1, <3>3
        <4>2. Tail(Now(a).do) # <<>> /\ x \in Range(Tail(Now(a).do))
          BY <1>1, <4>1 DEF Staged
        <4>3. PICK u : u = Todo(Tail(Now(a).do), Now(a).o, Now(a).b)
          OBVIOUS
        <4>4. tasks' = [tasks EXCEPT ![a] = <<u>> \o Tail(tasks[a])]
          BY <4>2, <4>3, FinishIsRemainder
        <4>5. u \in Range(tasks'[a])
          <5>1. PICK s : s = tasks[a]
            OBVIOUS
          <5>2. tasks \in [Callers -> Range(tasks)] /\ s \in Seq(Range(s))
            BY <5>1 DEF TasksInv
          <5>3. tasks'[a] = <<u>> \o Tail(s)
            BY <4>4, <5>1, <5>2
          <5>4. Tail(s) \in Seq(Range(s))
            BY <1>1, <5>1, <5>2
          <5>5. 1 \in DOMAIN (<<u>> \o Tail(s)) /\ (<<u>> \o Tail(s))[1] = u
            BY <5>4
          <5>. QED
            BY <5>3, <5>5 DEF Range
        <4>6. u.o = o /\ x \in Range(u.do) /\ "o" \in DOMAIN u
          BY <3>1, <3>3, <4>2, <4>3, TodoFields
        <4>. QED
          BY <2>1, <4>5, <4>6 DEF Pending, Todos
      <3>. QED
        BY <3>2, <3>3
    <2>2. CASE c # a
      BY <1>3, <2>2 DEF Progress, Pending, Todos
    <2>. QED
      BY <2>1, <2>2
  <1>6. (\A o, x : Listed(o, x)' <=> Listed(o, x)) /\ (Purging' <=> Purging)
    BY <1>3 DEF Progress
  <1>7. Main \in Callers
    BY DEF Callers
  <1>8. \A o, x : AtStart(o, x)' => AtStart(o, x)
    BY <1>4, <1>6, <1>7 DEF AtStart
  <1>9. \A o, x : AtStart(o, x) /\ (o # Now(a).o \/ x # stage) => AtStart(o, x)'
    BY <1>1, <1>5, <1>6, <1>7 DEF AtStart
  <1>. QED
    BY <1>1, <1>3, <1>4, <1>5, <1>6, <1>8, <1>9 DEF Proceeded

LEMMA TaskDone ==
  ASSUME TasksInv, cast \in Casts, cast' = cast, alive' = alive, NEW a \in Callers, NEW stage, On(a, stage),
         stage \notin {"list", "rmtree", "purge"}, Abandon(a)
  PROVE  Abandoned(a)
  <1>1. alive /\ tasks[a] # <<>> /\ IsTodo(Now(a)) /\ Now(a) \in Todos(a)
    BY StageInHand
  <1>2. PICK front : Remainder(a, front) /\ tasks' = [tasks EXCEPT ![a] = front \o Tail(tasks[a])]
    BY FinishIsRemainder
  <1>3. Progress(a)
    BY <1>2, Goes
  <1>4. \A c \in Callers : \A o, x : Pending(c, o, x)' => Pending(c, o, x)
    <2> SUFFICES ASSUME NEW c \in Callers, NEW o, NEW x, Pending(c, o, x)' PROVE Pending(c, o, x)
      OBVIOUS
    <2>1. CASE c = a
      <3>1. PICK u \in Todos(a)' : u.o = o /\ x \in Range(u.do)
        BY <2>1 DEF Pending
      <3>. QED
        BY <1>1, <1>3, <2>1, <3>1 DEF Progress, Pending
    <2>2. CASE c # a
      BY <1>3, <2>2 DEF Progress, Pending, Todos
    <2>. QED
      BY <2>1, <2>2
  <1>5. \A c \in Callers : \A o, x : Pending(c, o, x) /\ (o # Now(a).o \/ c # a) => Pending(c, o, x)'
    BY <1>3 DEF Progress, Pending, Todos
  <1>6. (\A o, x : Listed(o, x)' <=> Listed(o, x)) /\ (Purging' <=> Purging)
    BY <1>3 DEF Progress
  <1>7. Main \in Callers
    BY DEF Callers
  <1>8. /\ \A o, x : AtStart(o, x) /\ o # Now(a).o => AtStart(o, x)'
        /\ \A o, x : AtStart(o, x) /\ a # Main => AtStart(o, x)'
    BY <1>1, <1>5, <1>6, <1>7 DEF AtStart
  <1>. QED
    BY <1>1, <1>3, <1>4, <1>5, <1>6, <1>8 DEF Abandoned

---------------------------------------------------------------------------
(* Stages that leave what is stored                                            *)

LEMMA Kinds ==
  /\ \A o \in Dirs : o \notin Claims /\ o \notin Workloads /\ o \in Objects
  /\ \A o \in Claims : o \notin Workloads /\ o \notin Dirs /\ o \in Objects
  /\ \A o \in Workloads : o \notin Dirs /\ o \notin Claims /\ o \in Objects
  /\ \A o \in CronJobs : o \in Workloads /\ o \notin Pods \cup Replicas \cup Jobs
  /\ \A o \in Secrets : o \notin ConfigMaps /\ o \in Dirs
  /\ \A o \in ConfigMaps : o \notin Secrets /\ o \in Dirs
  /\ Client \in Callers /\ Main \in Callers /\ Client # Main
  /\ Workloads \subseteq Objects /\ Dirs \subseteq Objects /\ Claims \subseteq Objects
  BY DEF Objects, Workloads, Dirs, Callers

(* A caller that makes something for an object nobody else touches finds   *)
(* it stored, and not about to go.                                         *)
LEMMA MakingStands ==
  ASSUME FilesInv, NEW a \in Callers, tasks[a] # <<>>, IsTodo(Now(a)), Range(Now(a).do) \subseteq Making,
         Now(a).o \notin blurred
  PROVE  /\ Exists(Now(a).o) /\ ~Gone(Now(a).o)
         /\ Range(Now(a).do) \cap Renewing # {} => Now(a).b = obj[Now(a).o]
         /\ "quad" \in Range(Now(a).do) /\ "env" \notin Range(Now(a).do) =>
              Now(a).b.t = obj[Now(a).o] /\ (Now(a).b.file => Now(a).b.t.secret # Absent)
  <1>1. TasksInv /\ BlurInv /\ cast \in Casts
    BY DEF FilesInv
  <1>2. Now(a) \in Todos(a) /\ a \in {Main, Client} /\ Makes(Now(a)) /\ Now(a).o \in Objects
    BY <1>1, TaskInHand, TaskKinds DEF Todos, Makes
  <1>3. /\ Exists(Now(a).o)
        /\ Range(Now(a).do) \cap Renewing # {} => Now(a).b = obj[Now(a).o]
        /\ "quad" \in Range(Now(a).do) /\ "env" \notin Range(Now(a).do) =>
             Now(a).b.t = obj[Now(a).o] /\ (Now(a).b.file => Now(a).b.t.secret # Absent)
    BY <1>1, <1>2 DEF BlurInv
  <1>4. CASE a = Client
    <2>1. /\ Len(tasks[Client]) = 1 /\ Now(a) = tasks[Client][1] /\ DOMAIN tasks[Client] = 1..Len(tasks[Client])
          /\ Now(a) \in Range(tasks[Client])
      BY <1>1, <1>2, <1>4, TaskInHand DEF TasksInv
    <2>2. \A t \in Range(tasks[Client]) : t = Now(a)
      BY <2>1 DEF Range
    <2>3. ~Purging
      BY <1>1, <2>2, TaskKinds DEF Purging
    <2>4. ~Pending(Client, Now(a).o, "drop")
      BY <2>2 DEF Pending, Todos, Making, Renewing
    <2>. QED
      BY <1>3, <2>3, <2>4 DEF Gone
  <1>5. CASE a = Main
    <2>1. Starting
      BY <1>5 DEF Starting
    <2>2. ~Purging
      BY <1>1, <1>2, <1>3, <2>1 DEF BlurInv
    <2>3. ~Pending(Client, Now(a).o, "drop")
      BY <1>1, <2>1 DEF BlurInv, Pending
    <2>. QED
      BY <1>3, <2>2, <2>3 DEF Gone
  <1>. QED
    BY <1>2, <1>3, <1>4, <1>5

(* A caller that takes something away is the client, and the object goes.  *)
LEMMA TearingGoes ==
  ASSUME FilesInv, NEW a \in Callers, tasks[a] # <<>>, IsTodo(Now(a)), Range(Now(a).do) \cap Making = {}
  PROVE  /\ a = Client /\ Gone(Now(a).o)
         /\ Now(a).o \in Dirs \cup Claims => ~Exists(Now(a).o) \/ Purging
  <1>1. TasksInv /\ BlurInv /\ cast \in Casts
    BY DEF FilesInv
  <1>2. ~Makes(Now(a)) /\ Now(a) \in Todos(a) /\ ~IsListing(Now(a))
    <2>1. Range(Now(a).do) # {}
      BY <1>1, TaskKinds DEF Staged
    <2>. QED
      BY <1>1, <2>1, TaskInHand, TaskKinds DEF Makes, Todos
  <1>3. a = Client
    BY <1>1, <1>2, TaskInHand
  <1>4. Gone(Now(a).o)
    BY <1>1, <1>2, <1>3 DEF BlurInv
  <1>5. \A o \in Dirs \cup Claims : ~Pending(Client, o, "drop")
    <2>1. \A t \in Todos(Client) : "drop" \in Range(t.do) => t.o \in Workloads
      BY <1>1, TaskKinds DEF TasksInv, Todos, IsTodo, Fits
    <2>. QED
      BY <2>1, Kinds DEF Pending
  <1>. QED
    BY <1>3, <1>4, <1>5 DEF Gone

(* Of what is stored nothing changes, and no deletion is forgotten.        *)
LEMMA BlurKept ==
  ASSUME FilesInv, NEW a \in Callers, tasks[a] # <<>>, IsTodo(Now(a)), Progress(a),
         UNCHANGED <<cast, obj>>, blurred \subseteq blurred', \A o : Gone(o) => Gone(o)'
  PROVE  BlurInv'
  <1>1. TasksInv /\ BlurInv /\ cast \in Casts /\ Now(a) \in Todos(a) /\ Staged(Now(a).do)
    BY TaskInHand, TaskKinds DEF FilesInv, Todos
  <1>2. \A c \in Callers : \A u \in Todos(c)' : u \in Todos(c) \/
          /\ c = a /\ u.o = Now(a).o /\ u.b = Now(a).b /\ Head(Now(a).do) # "env" /\ IsTodo(u)
          /\ Range(u.do) = Range(Now(a).do) \ {Head(Now(a).do)} /\ (Makes(u) <=> Makes(Now(a)))
    BY DEF Progress, Todos
  <1>3. Starting' => \A u \in Todos(Client)' : u.o \in blurred'
    BY <1>1, <1>2, Kinds DEF BlurInv, Progress
  <1>4. Starting' /\ Purging' => \A o \in Objects : Exists(o)' => o \in blurred'
    BY <1>1 DEF BlurInv, Progress, Exists
  <1>5. \A u : Makes(u)' <=> Makes(u)
    BY DEF Makes, IsTodo, Bodies
  <1>6. \A u \in Todos(Client)' : Makes(u)' \/ Gone(u.o)'
    <2> SUFFICES ASSUME NEW u \in Todos(Client)', ~Makes(u) PROVE Gone(u.o)
      BY <1>5
    <2>1. CASE u \in Todos(Client)
      BY <1>1, <2>1 DEF BlurInv
    <2>2. CASE u \notin Todos(Client)
      <3>1. a = Client /\ u.o = Now(a).o /\ ~Makes(Now(a))
        BY <1>2, <2>2, Kinds
      <3>. QED
        BY <1>1, <3>1 DEF BlurInv
    <2>. QED
      BY <2>1, <2>2
  <1>7. \A c \in Callers : \A u \in Todos(c)' : u.o \notin blurred' /\ Range(u.do) \subseteq Making =>
          /\ Exists(u.o)'
          /\ Range(u.do) \cap Renewing # {} => u.b = obj'[u.o]
          /\ "quad" \in Range(u.do) /\ "env" \notin Range(u.do) =>
               u.b.t = obj'[u.o] /\ (u.b.file => u.b.t.secret # Absent)
    <2> SUFFICES ASSUME NEW c \in Callers, NEW u \in Todos(c)', u.o \notin blurred, Range(u.do) \subseteq Making
                 PROVE  /\ Exists(u.o)
                        /\ Range(u.do) \cap Renewing # {} => u.b = obj[u.o]
                        /\ "quad" \in Range(u.do) /\ "env" \notin Range(u.do) =>
                             u.b.t = obj[u.o] /\ (u.b.file => u.b.t.secret # Absent)
      BY DEF Exists
    <2>1. CASE u \in Todos(c)
      BY <1>1, <2>1 DEF BlurInv
    <2>2. CASE u \notin Todos(c)
      <3>1. /\ c = a /\ u.o = Now(a).o /\ u.b = Now(a).b /\ Head(Now(a).do) # "env"
            /\ Range(u.do) = Range(Now(a).do) \ {Head(Now(a).do)} /\ Makes(Now(a))
        BY <1>2, <2>2 DEF Makes
      <3>2. /\ Range(Now(a).do) \subseteq Making /\ "env" \notin Range(Now(a).do)
            /\ ("quad" \in Range(u.do) => "quad" \in Range(Now(a).do))
            /\ Range(u.do) \cap Renewing \subseteq Range(Now(a).do) \cap Renewing
        BY <1>1, <3>1 DEF Makes, Staged
      <3>3. /\ Exists(Now(a).o)
            /\ Range(Now(a).do) \cap Renewing # {} => Now(a).b = obj[Now(a).o]
            /\ "quad" \in Range(Now(a).do) /\ "env" \notin Range(Now(a).do) =>
                 Now(a).b.t = obj[Now(a).o] /\ (Now(a).b.file => Now(a).b.t.secret # Absent)
        BY <1>1, <3>1, <3>2 DEF BlurInv
      <3>. QED
        BY <3>1, <3>2, <3>3
    <2>. QED
      BY <2>1, <2>2
  <1>8. \A o \in Objects : Exists(o)' => o \in cast'
    BY <1>1 DEF BlurInv, Exists
  <1>. QED
    BY <1>3, <1>4, <1>6, <1>7, <1>8 DEF BlurInv

---------------------------------------------------------------------------
(* What a step leaves alone                                                *)

FileTypes ==
  /\ dir \in [Dirs -> Contents \cup {Absent}]
  /\ env \in [Workloads -> Contents \cup {Absent}]
  /\ DOMAIN quad = Claims \cup Workloads
  /\ \A v \in Claims : quad[v] \in ClaimSpecs \cup {Absent}
  /\ \A w \in Workloads : quad[w] \in [t : Templates, file : BOOLEAN] \cup {Absent}
  /\ timer \subseteq CronJobs /\ running \subseteq Workloads
  /\ blurred \subseteq Objects /\ lost \subseteq Workloads /\ stale \subseteq Objects

(* The lists give the types of what is on them. *)
LEMMA TypesKept ==
  ASSUME cast \in Casts, cast' = cast, TasksInv', FileTypes',
         DOMAIN obj' = Objects, \A o \in Objects : obj'[o] # Absent => obj'[o] \in Bodies(o)
  PROVE  FilesTypeOK'
  <1>1. \A a \in Callers : \A j \in DOMAIN tasks'[a] : tasks'[a][j].do # <<>>
    <2> SUFFICES ASSUME NEW a \in Callers, NEW j \in DOMAIN tasks'[a] PROVE tasks'[a][j].do # <<>>
      OBVIOUS
    <2>1. PICK t : t = tasks'[a][j]
      OBVIOUS
    <2>2. t \in Range(tasks'[a]) /\ a \in {Main, Client}
      BY <2>1 DEF Range, TasksInv, Callers
    <2>3. \A u : (IsTodo(u)' <=> IsTodo(u)) /\ (Makes(u)' <=> Makes(u)) /\ (IsListing(u)' <=> IsListing(u))
                /\ (IsPurge(u)' <=> IsPurge(u))
      BY DEF IsTodo, Makes, IsListing, IsPurge, Bodies
    <2>4. IsTodo(t) \/ IsListing(t) \/ IsPurge(t)
      BY <2>2, <2>3 DEF TasksInv, Makes
    <2>5. t.do # <<>>
      BY <2>4, TaskKinds, ShortTails DEF Staged
    <2>. QED
      BY <2>1, <2>5
  <1>. QED
    BY <1>1 DEF FilesTypeOK, FileTypes, Exists, Bodies

(* Nothing of o changes but the lists, and nothing it waits for is         *)
(* forgotten.                                                              *)
Steady(o) ==
  /\ obj'[o] = obj[o] /\ (o \in blurred => o \in blurred') /\ (o \in lost => o \in lost')
  /\ o \in stale => o \in stale'
  /\ o \in Dirs => dir'[o] = dir[o]
  /\ o \in Claims \cup Workloads => quad'[o] = quad[o]
  /\ (o \in timer' <=> o \in timer) /\ (o \in running' <=> o \in running)
  /\ o \in Workloads => (EnvFits(o) => EnvFits(o)')
  /\ (Purging' <=> Purging) /\ (Gone(o)' <=> Gone(o))
  /\ \A x : Pending(Client, o, x)' <=> Pending(Client, o, x)
  /\ \A x : AtStart(o, x) => AtStart(o, x)'

LEMMA StillFine ==
  ASSUME NEW o, Fine(o), Steady(o)
  PROVE  Fine(o)'
  <1>1. DirFine(o)'
    <2>1. o \in Dirs => (Follows(o) => Follows(o)')
      BY DEF Steady, Follows
    <2>. QED
      BY <2>1 DEF Fine, DirFine, Steady, Exists
  <1>2. OrphanFine(o)'
    BY DEF Fine, OrphanFine, Steady
  <1>3. RenderFine(o)'
    BY DEF Fine, RenderFine, Steady
  <1>4. EnvFine(o)'
    BY DEF Fine, EnvFine, Steady
  <1>. QED
    BY <1>1, <1>2, <1>3, <1>4 DEF Fine

LEMMA GoneKept ==
  ASSUME NEW a \in Callers, NEW stage, Proceeded(a, stage), stage # "drop", obj' = obj
  PROVE  \A o : Gone(o)' <=> Gone(o)
  <1>1. \A o : Pending(Client, o, "drop")' <=> Pending(Client, o, "drop")
    BY Kinds DEF Proceeded
  <1>. QED
    BY <1>1 DEF Gone, Exists, Proceeded

(* A stage done for one object is the business of no other. *)
Aside(a) ==
  /\ UNCHANGED <<cast, obj, env, alive, blurred, lost>>
  /\ \A o \in Objects \ {Now(a).o} :
       /\ o \in Dirs => dir'[o] = dir[o]
       /\ o \in Claims \cup Workloads => quad'[o] = quad[o]
       /\ (o \in timer' <=> o \in timer) /\ (o \in running' <=> o \in running)
       /\ o \in stale => o \in stale'
  /\ \A w \in Workloads : w \in stale => w \in stale'

LEMMA StageKeepsInv ==
  ASSUME FilesInv, NEW a \in Callers, NEW stage, On(a, stage),
         stage \notin {"list", "rmtree", "purge", "env", "drop"}, Proceeded(a, stage), Aside(a),
         FileTypes', \A o : o = Now(a).o => Fine(o)'
  PROVE  FilesInv'
  <1>1. TasksInv /\ OrderInv /\ MomentInv /\ cast \in Casts /\ FilesTypeOK /\ Progress(a)
        /\ UNCHANGED <<cast, obj, env, alive, blurred, lost>> /\ alive'
    BY DEF FilesInv, Proceeded, Aside
  <1>2. IsTodo(Now(a)) /\ tasks[a] # <<>>
    BY <1>1, StageInHand
  <1>3. \A o : Gone(o)' <=> Gone(o)
    BY <1>1, GoneKept
  <1>4. BlurInv'
    BY <1>1, <1>2, <1>3, BlurKept
  <1>5. TasksInv' /\ OrderInv'
    BY <1>1 DEF Progress
  <1>6. FilesTypeOK'
    BY <1>1, <1>5, TypesKept DEF FilesTypeOK, Exists
  <1>7. \A w \in Workloads : EnvFits(w) => EnvFits(w)'
    BY <1>1 DEF EnvFits, Aside, SecretEnv, DataOf, Referred
  <1>8. MomentInv'
    <2>1. \A c \in Callers : (InHand(c) /\ Now(c).o \notin blurred /\ Now(c).b.file => EnvFits(Now(c).o))'
      <3> SUFFICES ASSUME NEW c \in Callers, (InHand(c) /\ Now(c).o \notin blurred /\ Now(c).b.file)'
                   PROVE  EnvFits(Now(c).o)'
        OBVIOUS
      <3>1. InHand(c) /\ Now(c)' = Now(c)
        BY <1>1 DEF Progress
      <3>2. EnvFits(Now(c).o)
        BY <1>1, <3>1 DEF MomentInv
      <3>3. Now(c).o \in Workloads
        BY <1>1, <3>1, TaskInHand, TaskKinds DEF InHand, IsTodo, Fits
      <3>4. PICK w : w = Now(c).o
        OBVIOUS
      <3>5. EnvFits(w)' 
        BY <1>7, <3>2, <3>3, <3>4
      <3>. QED
        BY <3>1, <3>4, <3>5
    <2>2. (\E t \in Range(tasks'[Client]) : t.do = <<"purge">>) => \A w \in Workloads \ blurred' : env'[w] = Absent
      BY <1>1 DEF MomentInv, Progress
    <2>. QED
      BY <1>1, <2>1, <2>2 DEF MomentInv
  <1>9. \A o \in Objects : Fine(o)'
    <2> SUFFICES ASSUME NEW o \in Objects, o # Now(a).o PROVE Fine(o)'
      OBVIOUS
    <2>1. Fine(o)
      BY DEF FilesInv
    <2>2. (Purging' <=> Purging) /\ (\A x : Pending(Client, o, x)' <=> Pending(Client, o, x))
          /\ (\A x : AtStart(o, x) => AtStart(o, x)')
      BY Kinds DEF Proceeded
    <2>3. Steady(o)
      BY <1>1, <1>3, <1>7, <2>2 DEF Steady, Aside
    <2>. QED
      BY <2>1, <2>3, StillFine
  <1>. QED
    BY <1>1, <1>4, <1>5, <1>6, <1>8, <1>9 DEF FilesInv

---------------------------------------------------------------------------
(* Contents of files                                                       *)

(* g is written over f. *)
Merged(f, g) ==
  /\ Over(f, g) \in Contents /\ DOMAIN Over(f, g) = DOMAIN f \cup DOMAIN g
  /\ \A k \in DOMAIN g : k \in DOMAIN Over(f, g) /\ Over(f, g)[k] = g[k]
  /\ \A k \in DOMAIN f \ DOMAIN g : k \in DOMAIN Over(f, g) /\ Over(f, g)[k] = f[k]
  /\ DOMAIN f \subseteq DOMAIN g => Over(f, g) = g

LEMMA Merging ==
  /\ \A f \in Contents : DOMAIN f \subseteq Keys /\ f = [k \in DOMAIN f |-> f[k]]
                         /\ \A k \in DOMAIN f : f[k] \in Values
  /\ \A f, g \in Contents : Merged(f, g)
  /\ \A K : \A f \in Contents : [k \in DOMAIN f \cap K |-> f[k]] \in Contents
  <1>1. ASSUME NEW f \in Contents
        PROVE  DOMAIN f \subseteq Keys /\ f = [k \in DOMAIN f |-> f[k]] /\ \A k \in DOMAIN f : f[k] \in Values
    <2>1. PICK K \in SUBSET Keys : f \in [K -> Values]
      BY DEF Contents
    <2>. QED
      BY <2>1
  <1>2. ASSUME NEW K \in SUBSET Keys, NEW h \in [K -> Values]
        PROVE  h \in Contents
    BY <1>2 DEF Contents
  <1>3. ASSUME NEW f \in Contents, NEW g \in Contents
        PROVE  Merged(f, g)
    <2>1. /\ DOMAIN Over(f, g) = DOMAIN f \cup DOMAIN g
          /\ \A k \in DOMAIN g : Over(f, g)[k] = g[k]
          /\ \A k \in DOMAIN f \ DOMAIN g : Over(f, g)[k] = f[k]
      BY DEF Over
    <2>2. Over(f, g) \in [DOMAIN f \cup DOMAIN g -> Values]
      BY <1>1 DEF Over
    <2>3. DOMAIN f \cup DOMAIN g \in SUBSET Keys
      BY <1>1
    <2>4. ASSUME DOMAIN f \subseteq DOMAIN g PROVE Over(f, g) = g
      <3>1. DOMAIN f \cup DOMAIN g = DOMAIN g
        BY <2>4
      <3>2. Over(f, g) = [k \in DOMAIN g |-> g[k]]
        BY <3>1 DEF Over
      <3>. QED
        BY <1>1, <3>2
    <2>5. Over(f, g) \in Contents
      BY <1>2, <2>2, <2>3
    <2>. QED
      BY <2>1, <2>4, <2>5 DEF Merged
  <1>4. ASSUME NEW f \in Contents, NEW K PROVE [k \in DOMAIN f \cap K |-> f[k]] \in Contents
    <2>1. [k \in DOMAIN f \cap K |-> f[k]] \in [DOMAIN f \cap K -> Values] /\ DOMAIN f \cap K \in SUBSET Keys
      BY <1>1
    <2>. QED
      BY <1>2, <2>1
  <1>. QED
    BY <1>1, <1>3, <1>4

LEMMA BodyTypes ==
  /\ \A o \in ConfigMaps : Bodies(o) = ConfigMapBodies /\ \A b \in Bodies(o) : b.data \in Contents /\ b.bin \in Contents
  /\ \A o \in Secrets : Bodies(o) \subseteq Contents
  /\ \A o \in Claims : Bodies(o) = ClaimSpecs
  /\ \A o \in Workloads : Bodies(o) = Templates
  /\ \A o \in Objects : Absent \notin Bodies(o)
  /\ Absent \notin ClaimSpecs \/ Claims = {}
  /\ Absent \notin [t : Templates, file : BOOLEAN]
  /\ Absent \notin Contents
  <1>1. ASSUME NEW o \in ConfigMaps
        PROVE  Bodies(o) = ConfigMapBodies /\ \A b \in Bodies(o) : b.data \in Contents /\ b.bin \in Contents
    <2>1. Bodies(o) = ConfigMapBodies
      BY DEF Bodies
    <2>. QED
      BY <2>1
  <1>2. ASSUME NEW o \in Secrets PROVE Bodies(o) \subseteq Contents
    <2>1. Bodies(o) = {Normalize(b) : b \in SecretBodies}
      BY Kinds DEF Bodies
    <2>2. \A b \in SecretBodies : Normalize(b) \in Contents
      <3> SUFFICES ASSUME NEW b \in SecretBodies PROVE Normalize(b) \in Contents
        OBVIOUS
      <3>1. b.data \in Contents /\ b.str \in Contents
        OBVIOUS
      <3>2. Merged(b.data, b.str)
        BY <3>1, Merging
      <3>. QED
        BY <3>2 DEF Normalize, Merged
    <2>. QED
      BY <2>1, <2>2
  <1>3. ASSUME NEW o \in Claims PROVE Bodies(o) = ClaimSpecs
    BY Kinds DEF Bodies, Dirs
  <1>4. ASSUME NEW o \in Workloads PROVE Bodies(o) = Templates
    BY Kinds DEF Bodies, Dirs
  <1>5. Absent \notin ClaimSpecs \/ Claims = {}
    BY <1>3, Kinds
  <1>. QED
    BY <1>1, <1>2, <1>3, <1>4, <1>5

---------------------------------------------------------------------------
(* Stages that make something, stages that take something away                 *)

MakingTask(a, stage) ==
  /\ Range(Now(a).do) \subseteq Making
  /\ Now(a).o \notin blurred =>
       /\ Exists(Now(a).o) /\ ~Gone(Now(a).o) /\ ~Purging
       /\ stage \in Renewing => Now(a).b = obj[Now(a).o]
       /\ stage = "quad" => Now(a).b.t = obj[Now(a).o] /\ (Now(a).b.file => Now(a).b.t.secret # Absent)
       /\ a = Client => \A x : Pending(Client, Now(a).o, x) <=> x \in Range(Now(a).do)
       /\ a # Client => \A x : ~Pending(Client, Now(a).o, x)

LEMMA MakingStage ==
  ASSUME FilesInv, NEW a \in Callers, NEW stage, On(a, stage), stage \in Making
  PROVE  MakingTask(a, stage)
  <1>1. TasksInv /\ BlurInv /\ cast \in Casts
    BY DEF FilesInv
  <1>2. /\ tasks[a] # <<>> /\ IsTodo(Now(a)) /\ Head(Now(a).do) = stage /\ stage \in Range(Now(a).do)
        /\ Staged(Now(a).do) /\ Now(a) \in Todos(a)
    <2>1. stage \notin {"list", "rmtree", "purge"}
      BY DEF Making, Renewing
    <2>. QED
      BY <1>1, <2>1, StageInHand
  <1>3. Range(Now(a).do) \subseteq Making /\ Makes(Now(a))
    BY <1>2 DEF Staged, Makes
  <1>4. ASSUME Now(a).o \notin blurred
        PROVE  /\ Exists(Now(a).o) /\ ~Gone(Now(a).o) /\ ~Purging
               /\ stage \in Renewing => Now(a).b = obj[Now(a).o]
               /\ stage = "quad" => Now(a).b.t = obj[Now(a).o] /\ (Now(a).b.file => Now(a).b.t.secret # Absent)
    <2>1. /\ Exists(Now(a).o) /\ ~Gone(Now(a).o)
          /\ Range(Now(a).do) \cap Renewing # {} => Now(a).b = obj[Now(a).o]
          /\ "quad" \in Range(Now(a).do) /\ "env" \notin Range(Now(a).do) =>
               Now(a).b.t = obj[Now(a).o] /\ (Now(a).b.file => Now(a).b.t.secret # Absent)
      BY <1>2, <1>3, <1>4, MakingStands
    <2>2. stage = "quad" => "env" \notin Range(Now(a).do)
      BY <1>2 DEF Staged
    <2>. QED
      BY <1>2, <2>1, <2>2 DEF Gone
  <1>5. ASSUME a = Client PROVE \A x : Pending(Client, Now(a).o, x) <=> x \in Range(Now(a).do)
    <2>1. Len(tasks[Client]) = 1 /\ Now(a) = tasks[Client][1] /\ DOMAIN tasks[Client] = 1..Len(tasks[Client])
          /\ Now(a) \in Range(tasks[Client])
      BY <1>1, <1>2, <1>3, <1>5, TaskInHand DEF TasksInv
    <2>2. \A t \in Range(tasks[Client]) : t = Now(a)
      BY <2>1 DEF Range
    <2>. QED
      BY <1>2, <1>5, <2>2 DEF Pending, Todos
  <1>6. ASSUME a # Client, Now(a).o \notin blurred PROVE \A x : ~Pending(Client, Now(a).o, x)
    <2>1. a = Main /\ Starting
      BY <1>1, <1>2, <1>6, TaskInHand DEF Starting
    <2>. QED
      BY <1>1, <1>6, <2>1 DEF BlurInv, Pending
  <1>. QED
    BY <1>3, <1>4, <1>5, <1>6 DEF MakingTask

LEMMA TearingStage ==
  ASSUME FilesInv, NEW a \in Callers, NEW stage, On(a, stage),
         stage \in {"rmdir", "stop", "unlink", "unlinkTimer", "drop"}
  PROVE  /\ a = Client /\ Gone(Now(a).o) /\ Range(Now(a).do) \cap Making = {}
         /\ Now(a).o \in Dirs \cup Claims => ~Exists(Now(a).o) \/ Purging
  <1>1. TasksInv /\ cast \in Casts
    BY DEF FilesInv
  <1>2. tasks[a] # <<>> /\ IsTodo(Now(a)) /\ Head(Now(a).do) = stage /\ Staged(Now(a).do)
    BY <1>1, StageInHand
  <1>3. Range(Now(a).do) \cap Making = {}
    BY <1>2 DEF Staged
  <1>. QED
    BY <1>2, <1>3, TearingGoes

---------------------------------------------------------------------------
(* The files of ConfigMaps and Secrets                                     *)

(* A stage for a ConfigMap or Secret o that touches dir[o] only. *)
LEMMA DirStage ==
  ASSUME FilesInv, NEW a \in Callers, NEW stage, On(a, stage),
         stage \in {"files", "data", "prune", "rmdir"}, Proceed(a),
         NEW o, o = Now(a).o, NEW new \in Contents \cup {Absent}, dir' = [dir EXCEPT ![o] = new],
         UNCHANGED <<cast, obj, env, units, alive, notes>>,
         Proceeded(a, stage) => DirFine(o)',
         o \notin blurred /\ Gone(o) => new = Absent
  PROVE  FilesInv'
  <1>1. TasksInv /\ BlurInv /\ cast \in Casts /\ FilesTypeOK /\ Fine(o)
    BY StageInHand DEF FilesInv
  <1>2. IsTodo(Now(a)) /\ stage \in Range(Now(a).do) /\ o \in Objects
    BY <1>1, StageInHand
  <1>3. o \in Dirs /\ dir'[o] = new
    BY <1>1, <1>2 DEF IsTodo, Fits, FilesTypeOK
  <1>4. Proceeded(a, stage)
    BY <1>1, StageDone
  <1>5. Aside(a)
    BY <1>1, Kinds DEF Aside, FilesTypeOK, units, notes
  <1>6. FileTypes'
    BY <1>1, <1>3 DEF FilesTypeOK, FileTypes, units, notes
  <1>7. OrphanFine(o)'
    <2>1. (Gone(o)' <=> Gone(o)) /\ o \notin Workloads /\ o \notin Claims
      BY <1>3, <1>4, GoneKept, Kinds
    <2>2. o \notin timer /\ o \notin running
      BY <1>1, <2>1 DEF FilesTypeOK, Workloads
    <2>. QED
      BY <1>3, <2>1, <2>2 DEF OrphanFine, units, notes
  <1>8. RenderFine(o)' /\ EnvFine(o)'
    BY <1>3, Kinds DEF RenderFine, EnvFine
  <1>. QED
    BY <1>4, <1>5, <1>6, <1>7, <1>8, StageKeepsInv DEF Fine

LEMMA WriteFilesInv ==
  ASSUME FilesInv, NEW a \in Callers, WriteFiles(a)
  PROVE  FilesInv'
  <1>1. /\ TasksInv /\ cast \in Casts /\ FilesTypeOK /\ On(a, "files") /\ Proceed(a)
        /\ UNCHANGED <<cast, obj, env, units, alive, notes>>
    BY DEF FilesInv, WriteFiles
  <1>2. PICK o : o = Now(a).o
    OBVIOUS
  <1>3. /\ IsTodo(Now(a)) /\ Head(Now(a).do) = "files" /\ "files" \in Range(Now(a).do) /\ o \in Objects
        /\ Staged(Now(a).do)
    BY <1>1, <1>2, StageInHand
  <1>4. o \in Dirs /\ Now(a).b \in Bodies(o)
    BY <1>2, <1>3 DEF IsTodo, Fits, Renewing
  <1>5. MakingTask(a, "files")
    BY <1>1, MakingStage DEF Making, Renewing
  <1>6. PICK new : new = IF o \in ConfigMaps THEN Over(Now(a).b.data, Now(a).b.bin) ELSE Now(a).b
    OBVIOUS
  <1>7. /\ new \in Contents
        /\ o \in Secrets => new = Now(a).b
        /\ o \in ConfigMaps => \A k \in DOMAIN Now(a).b.data \ DOMAIN Now(a).b.bin :
                                 k \in DOMAIN new /\ new[k] = Now(a).b.data[k]
    <2>1. CASE o \in ConfigMaps
      <3>1. Now(a).b.data \in Contents /\ Now(a).b.bin \in Contents /\ o \notin Secrets
        BY <1>4, <2>1, BodyTypes, Kinds
      <3>2. Merged(Now(a).b.data, Now(a).b.bin)
        BY <3>1, Merging
      <3>. QED
        BY <1>6, <2>1, <3>1, <3>2 DEF Merged
    <2>2. CASE o \notin ConfigMaps
      BY <1>4, <1>6, <2>2, BodyTypes, Kinds DEF Dirs
    <2>. QED
      BY <2>1, <2>2
  <1>8. PICK d : d = IF dir[o] = Absent THEN new ELSE Over(dir[o], new)
    OBVIOUS
  <1>9. /\ d \in Contents /\ (dir[o] = Absent \/ dir[o] \in Contents)
        /\ \A k \in DOMAIN new : k \in DOMAIN d /\ d[k] = new[k]
        /\ dir[o] = Absent \/ DOMAIN dir[o] \subseteq DOMAIN new => d = new
    <2>1. dir[o] = Absent \/ dir[o] \in Contents
      BY <1>1, <1>4 DEF FilesTypeOK
    <2>2. CASE dir[o] = Absent
      BY <1>7, <1>8, <2>2
    <2>3. CASE dir[o] # Absent
      <3>1. Merged(dir[o], new) /\ d = Over(dir[o], new)
        BY <1>7, <1>8, <2>1, <2>3, Merging
      <3>. QED
        BY <2>1, <2>3, <3>1 DEF Merged
    <2>. QED
      BY <2>2, <2>3
  <1>10. dir' = [dir EXCEPT ![o] = d]
    BY <1>2, <1>6, <1>8 DEF WriteFiles
  <1>11. ASSUME Proceeded(a, "files") PROVE DirFine(o)'
    <2> SUFFICES ASSUME o \notin blurred PROVE Follows(o)'
      BY <1>1 DEF DirFine, notes
    <2>1. /\ Exists(o) /\ ~Gone(o) /\ ~Purging /\ Now(a).b = obj[o] /\ Range(Now(a).do) \subseteq Making
          /\ a = Client => \A x : Pending(Client, o, x) <=> x \in Range(Now(a).do)
          /\ a # Client => \A x : ~Pending(Client, o, x)
      BY <1>2, <1>5 DEF MakingTask, Renewing
    <2>2. dir'[o] = d /\ d # Absent
      BY <1>1, <1>4, <1>9, <1>10, BodyTypes DEF FilesTypeOK
    <2>3. ASSUME o \in Secrets PROVE d = obj[o]
      <3>1. ~Pending(Client, o, "prune")
        BY <1>3, <2>1 DEF Staged
      <3>2. DirFine(o)
        BY <1>4, Kinds DEF FilesInv, Fine
      <3>3. Follows(o) \/ dir[o] = Absent \/ DOMAIN dir[o] \subseteq DOMAIN obj[o]
        BY <1>4, <2>1, <2>3, <3>1, <3>2 DEF DirFine
      <3>. QED
        BY <1>7, <1>9, <2>1, <2>3, <3>3 DEF Follows
    <2>4. ASSUME o \in ConfigMaps
          PROVE  \A k \in DOMAIN obj[o].data \ DOMAIN obj[o].bin : k \in DOMAIN d /\ d[k] = obj[o].data[k]
      BY <1>7, <1>9, <2>1, <2>4
    <2>. QED
      BY <1>1, <2>2, <2>3, <2>4 DEF Follows
  <1>12. ~(o \notin blurred /\ Gone(o))
    BY <1>2, <1>5 DEF MakingTask
  <1>. QED
    BY <1>1, <1>2, <1>9, <1>10, <1>11, <1>12, DirStage

LEMMA RestoreDataInv ==
  ASSUME FilesInv, NEW a \in Callers, RestoreData(a)
  PROVE  FilesInv'
  <1>1. /\ TasksInv /\ cast \in Casts /\ FilesTypeOK /\ On(a, "data") /\ Proceed(a)
        /\ UNCHANGED <<cast, obj, env, units, alive, notes>>
    BY DEF FilesInv, RestoreData
  <1>2. PICK o : o = Now(a).o
    OBVIOUS
  <1>3. IsTodo(Now(a)) /\ "data" \in Range(Now(a).do) /\ o \in Objects
    BY <1>1, <1>2, StageInHand
  <1>4. o \in ConfigMaps /\ o \in Dirs /\ o \notin Secrets /\ Now(a).b \in Bodies(o)
    BY <1>2, <1>3, Kinds DEF IsTodo, Fits, Renewing
  <1>5. MakingTask(a, "data")
    BY <1>1, MakingStage DEF Making, Renewing
  <1>6. Now(a).b.data \in Contents
    BY <1>4, BodyTypes
  <1>7. PICK d : d = IF dir[o] = Absent THEN Now(a).b.data ELSE Over(dir[o], Now(a).b.data)
    OBVIOUS
  <1>8. d \in Contents /\ \A k \in DOMAIN Now(a).b.data : k \in DOMAIN d /\ d[k] = Now(a).b.data[k]
    <2>1. dir[o] = Absent \/ dir[o] \in Contents
      BY <1>1, <1>4 DEF FilesTypeOK
    <2>2. CASE dir[o] = Absent
      BY <1>6, <1>7, <2>2
    <2>3. CASE dir[o] # Absent
      <3>1. Merged(dir[o], Now(a).b.data) /\ d = Over(dir[o], Now(a).b.data)
        BY <1>6, <1>7, <2>1, <2>3, Merging
      <3>. QED
        BY <3>1 DEF Merged
    <2>. QED
      BY <2>2, <2>3
  <1>9. dir' = [dir EXCEPT ![o] = d]
    BY <1>2, <1>7 DEF RestoreData
  <1>10. ASSUME Proceeded(a, "data") PROVE DirFine(o)'
    <2> SUFFICES ASSUME o \notin blurred PROVE Follows(o)'
      BY <1>1 DEF DirFine, notes
    <2>1. Now(a).b = obj[o]
      BY <1>2, <1>5 DEF MakingTask, Renewing
    <2>2. dir'[o] = d /\ d # Absent
      BY <1>1, <1>4, <1>8, <1>9, BodyTypes DEF FilesTypeOK
    <2>. QED
      BY <1>1, <1>4, <1>8, <2>1, <2>2 DEF Follows
  <1>11. ~(o \notin blurred /\ Gone(o))
    BY <1>2, <1>5 DEF MakingTask
  <1>. QED
    BY <1>1, <1>2, <1>8, <1>9, <1>10, <1>11, DirStage

LEMMA PruneFilesInv ==
  ASSUME FilesInv, NEW a \in Callers, PruneFiles(a)
  PROVE  FilesInv'
  <1>1. /\ TasksInv /\ cast \in Casts /\ FilesTypeOK /\ On(a, "prune") /\ Proceed(a)
        /\ UNCHANGED <<cast, obj, env, units, alive, notes>>
    BY DEF FilesInv, PruneFiles
  <1>2. PICK o : o = Now(a).o
    OBVIOUS
  <1>3. /\ IsTodo(Now(a)) /\ "prune" \in Range(Now(a).do) /\ o \in Objects /\ Head(Now(a).do) = "prune"
        /\ Now(a).do \in Shapes
    BY <1>1, <1>2, StageInHand DEF IsTodo
  <1>4. o \in Secrets /\ o \in Dirs /\ o \notin ConfigMaps
    BY <1>2, <1>3, Kinds DEF IsTodo, Fits
  <1>5. MakingTask(a, "prune")
    BY <1>1, MakingStage DEF Making
  <1>6. Now(a).do = <<"prune", "files">>
    <2>1. \A do \in Shapes : do # <<"prune", "files">> => Head(do) # "prune"
      BY ShortTails, SMTT(30) DEF Shapes, Restores
    <2>. QED
      BY <1>3, <2>1
  <1>7. "files" \in Range(Now(a).do)
    BY <1>6, ShortTails
  <1>8. PICK d : d = IF dir[o] = Absent THEN Absent ELSE [k \in DOMAIN dir[o] \cap DOMAIN Now(a).b |-> dir[o][k]]
    OBVIOUS
  <1>9. /\ d \in Contents \cup {Absent} /\ (d = Absent <=> dir[o] = Absent)
        /\ d # Absent => DOMAIN d \subseteq DOMAIN Now(a).b
        /\ dir[o] \in Contents /\ dir[o] = Now(a).b => d = dir[o]
    <2>1. dir[o] \in Contents \cup {Absent}
      BY <1>1, <1>4 DEF FilesTypeOK
    <2>2. ASSUME dir[o] \in Contents, dir[o] = Now(a).b PROVE d = dir[o]
      <3>1. dir[o] = [k \in DOMAIN dir[o] |-> dir[o][k]] /\ dir[o] # Absent
        BY <2>2, Merging, BodyTypes
      <3>2. DOMAIN dir[o] \cap DOMAIN Now(a).b = DOMAIN dir[o]
        BY <2>2
      <3>. QED
        BY <1>8, <3>1, <3>2
    <2>3. CASE dir[o] = Absent
      BY <1>8, <2>2, <2>3, BodyTypes
    <2>4. CASE dir[o] \in Contents
      <3>0. dir[o] # Absent
        BY <2>4, BodyTypes
      <3>1. d = [k \in DOMAIN dir[o] \cap DOMAIN Now(a).b |-> dir[o][k]] /\ d \in Contents
        <4>1. d = [k \in DOMAIN dir[o] \cap DOMAIN Now(a).b |-> dir[o][k]]
          BY <1>8, <3>0
        <4>2. \A K : [k \in DOMAIN dir[o] \cap K |-> dir[o][k]] \in Contents
          BY <2>4, Merging
        <4>. QED
          BY <4>1, <4>2
      <3>2. DOMAIN d = DOMAIN dir[o] \cap DOMAIN Now(a).b
        BY <3>1
      <3>. QED
        BY <2>2, <2>4, <3>1, <3>2, BodyTypes
    <2>. QED
      BY <2>1, <2>3, <2>4
  <1>10. dir' = [dir EXCEPT ![o] = d]
    BY <1>2, <1>8 DEF PruneFiles
  <1>11. ASSUME Proceeded(a, "prune") PROVE DirFine(o)'
    <2> SUFFICES ASSUME o \notin blurred, Exists(o) PROVE DirFine(o)'
      BY <1>1 DEF DirFine, notes, Exists
    <2>1. /\ Exists(o) /\ ~Gone(o) /\ ~Purging /\ obj[o] = Now(a).b
          /\ a = Client => \A x : Pending(Client, o, x) <=> x \in Range(Now(a).do)
          /\ a # Client => \A x : ~Pending(Client, o, x)
      <3>1. Range(Now(a).do) \cap Renewing # {}
        BY <1>7 DEF Renewing
      <3>2. tasks[a] # <<>> /\ Range(Now(a).do) \subseteq Making
        BY <1>1, <1>5 DEF On, MakingTask
      <3>3. Now(a).b = obj[Now(a).o]
        BY <1>2, <1>3, <3>1, <3>2, MakingStands
      <3>. QED
        BY <1>2, <1>5, <3>3 DEF MakingTask
    <2>2. dir'[o] = d
      BY <1>1, <1>4, <1>10 DEF FilesTypeOK
    <2>3. DirFine(o)
      BY <1>3 DEF FilesInv, Fine
    <2>4. CASE Follows(o)
      <3>1. dir[o] = obj[o] /\ dir[o] \in Contents
        BY <1>1, <1>4, <2>4 DEF Follows, FilesTypeOK
      <3>2. dir'[o] = dir[o]
        BY <1>9, <2>1, <2>2, <3>1
      <3>. QED
        BY <1>1, <1>4, <2>4, <3>2 DEF DirFine, Follows
    <2>5. CASE a = Client
      <3>1. Pending(Client, o, "files")'
        <4>1. Pending(Client, o, "files")
          BY <1>7, <2>1, <2>5
        <4>. QED
          BY <1>11, <4>1, Kinds DEF Proceeded
      <3>2. dir'[o] = Absent \/ DOMAIN dir'[o] \subseteq DOMAIN obj'[o]
        BY <1>1, <1>9, <2>1, <2>2
      <3>. QED
        BY <3>1, <3>2 DEF DirFine
    <2>6. CASE a # Client /\ ~Follows(o)
      <3>1. dir[o] = Absent /\ AtStart(o, "files")
        BY <1>4, <2>1, <2>3, <2>6 DEF DirFine
      <3>2. dir'[o] = Absent /\ AtStart(o, "files")'
        BY <1>9, <2>2, <3>1, <1>11 DEF Proceeded
      <3>. QED
        BY <1>4, <3>2 DEF DirFine
    <2>. QED
      BY <2>4, <2>5, <2>6
  <1>12. ~(o \notin blurred /\ Gone(o))
    BY <1>2, <1>5 DEF MakingTask
  <1>. QED
    BY <1>1, <1>2, <1>9, <1>10, <1>11, <1>12, DirStage

LEMMA RemoveDirInv ==
  ASSUME FilesInv, NEW a \in Callers, RemoveDir(a)
  PROVE  FilesInv'
  <1>1. /\ TasksInv /\ cast \in Casts /\ On(a, "rmdir") /\ Proceed(a)
        /\ UNCHANGED <<cast, obj, env, units, alive, notes>>
    BY DEF FilesInv, RemoveDir
  <1>2. PICK o : o = Now(a).o
    OBVIOUS
  <1>3. IsTodo(Now(a)) /\ "rmdir" \in Range(Now(a).do)
    BY <1>1, StageInHand
  <1>4. o \in Dirs
    BY <1>2, <1>3 DEF IsTodo, Fits
  <1>5. ~Exists(o) \/ Purging
    BY <1>1, <1>2, <1>4, TearingStage
  <1>6. dir' = [dir EXCEPT ![o] = Absent]
    BY <1>2 DEF RemoveDir
  <1>7. ASSUME Proceeded(a, "rmdir") PROVE DirFine(o)'
    BY <1>1, <1>5, <1>7 DEF DirFine, Proceeded, Exists
  <1>. QED
    BY <1>1, <1>2, <1>6, <1>7, DirStage

---------------------------------------------------------------------------
(* Quadlet files, timers and units                                         *)

(* A stage for a claim or workload o that touches its files or unit only. *)
LEMMA UnitStage ==
  ASSUME FilesInv, NEW a \in Callers, NEW stage, On(a, stage),
         stage \in {"quad", "timer", "start", "volume", "bind", "stop", "unlink", "unlinkTimer", "heal",
                    "healTimer"},
         Proceed(a), NEW o, o = Now(a).o, UNCHANGED <<cast, obj, dir, env, alive, blurred, lost>>, Aside(a),
         FileTypes', Proceeded(a, stage) => OrphanFine(o)' /\ RenderFine(o)' /\ EnvFine(o)'
  PROVE  FilesInv'
  <1>1. TasksInv /\ cast \in Casts
    BY DEF FilesInv
  <1>2. IsTodo(Now(a)) /\ stage \in Range(Now(a).do)
    BY <1>1, StageInHand
  <1>3. o \notin Dirs
    BY <1>2, Kinds DEF IsTodo, Fits
  <1>4. DirFine(o)'
    BY <1>3 DEF DirFine
  <1>5. Proceeded(a, stage)
    BY <1>1, StageDone
  <1>. QED
    BY <1>4, <1>5, StageKeepsInv DEF Fine

LEMMA WriteQuadletInv ==
  ASSUME FilesInv, NEW a \in Callers, WriteQuadlet(a)
  PROVE  FilesInv'
  <1>1. /\ TasksInv /\ MomentInv /\ cast \in Casts /\ FilesTypeOK /\ On(a, "quad") /\ Proceed(a)
        /\ UNCHANGED <<cast, obj, dir, env, timer, running, alive, blurred, lost, stale>>
    BY DEF FilesInv, WriteQuadlet, tmpfs, notes
  <1>2. PICK o, b : o = Now(a).o /\ b = Now(a).b
    OBVIOUS
  <1>3. /\ IsTodo(Now(a)) /\ "quad" \in Range(Now(a).do) /\ o \in Objects /\ Head(Now(a).do) = "quad"
        /\ Staged(Now(a).do) /\ tasks[a] # <<>>
    BY <1>1, <1>2, StageInHand
  <1>4. "env" \notin Range(Now(a).do)
    BY <1>3 DEF Staged
  <1>5. o \in Workloads /\ o \notin Claims /\ b \in [t : Templates, file : BOOLEAN] /\ b # Absent
    BY <1>2, <1>3, <1>4, Kinds, BodyTypes DEF IsTodo, Fits
  <1>6. MakingTask(a, "quad")
    BY <1>1, MakingStage DEF Making
  <1>7. quad' = [quad EXCEPT ![o] = b] /\ quad'[o] = b
    BY <1>1, <1>2, <1>5 DEF WriteQuadlet, FilesTypeOK
  <1>8. Aside(a)
    BY <1>1, <1>2, <1>7 DEF Aside, FilesTypeOK
  <1>9. FileTypes'
    BY <1>1, <1>5, <1>7 DEF FilesTypeOK, FileTypes
  <1>10. ASSUME Proceeded(a, "quad") PROVE OrphanFine(o)' /\ RenderFine(o)' /\ EnvFine(o)'
    <2>1. (Gone(o)' <=> Gone(o)) /\ RenderFine(o)
      BY <1>1, <1>3, <1>10, GoneKept DEF FilesInv, Fine
    <2>2. o \notin blurred => ~Gone(o) /\ b.t = obj[o] /\ (b.file => b.t.secret # Absent)
      BY <1>2, <1>6 DEF MakingTask
    <2>3. OrphanFine(o)'
      BY <1>1, <2>1, <2>2 DEF OrphanFine
    <2>4. \A x : x # "quad" /\ Pending(Client, o, x) => Pending(Client, o, x)'
      BY <1>10, Kinds DEF Proceeded
    <2>5. \A x : x # "quad" /\ AtStart(o, x) => AtStart(o, x)'
      BY <1>10 DEF Proceeded
    <2>6. RenderFine(o)'
      BY <1>1, <1>5, <1>7, <2>1, <2>2, <2>4, <2>5 DEF RenderFine
    <2>7. o \notin blurred /\ b.file => EnvFits(o)
      <3>1. InHand(a)
        BY <1>3, <1>4 DEF InHand, IsTodo
      <3>2. Now(a).o \notin blurred /\ Now(a).b.file => EnvFits(Now(a).o)
        BY <1>1, <3>1 DEF MomentInv
      <3>. QED
        BY <1>2, <3>2
    <2>8. EnvFits(o) => EnvFits(o)'
      BY <1>1 DEF EnvFits, SecretEnv, DataOf, Referred
    <2>9. EnvFine(o)'
      BY <1>1, <1>7, <2>7, <2>8 DEF EnvFine
    <2>. QED
      BY <2>3, <2>6, <2>9
  <1>. QED
    BY <1>1, <1>2, <1>8, <1>9, <1>10, UnitStage

LEMMA WriteTimerInv ==
  ASSUME FilesInv, NEW a \in Callers, WriteTimer(a)
  PROVE  FilesInv'
  <1>1. /\ TasksInv /\ cast \in Casts /\ FilesTypeOK /\ On(a, "timer") /\ Proceed(a)
        /\ UNCHANGED <<cast, obj, dir, env, quad, running, alive, blurred, lost, stale>>
    BY DEF FilesInv, WriteTimer, tmpfs, notes
  <1>2. PICK o : o = Now(a).o
    OBVIOUS
  <1>3. IsTodo(Now(a)) /\ "timer" \in Range(Now(a).do) /\ o \in Objects
    BY <1>1, <1>2, StageInHand
  <1>4. o \in CronJobs
    BY <1>2, <1>3 DEF IsTodo, Fits
  <1>5. MakingTask(a, "timer")
    BY <1>1, MakingStage DEF Making
  <1>6. timer' = timer \cup {o}
    BY <1>2 DEF WriteTimer
  <1>7. Aside(a)
    BY <1>1, <1>2, <1>6 DEF Aside
  <1>8. FileTypes'
    BY <1>1, <1>4, <1>6 DEF FilesTypeOK, FileTypes
  <1>9. ASSUME Proceeded(a, "timer") PROVE OrphanFine(o)' /\ RenderFine(o)' /\ EnvFine(o)'
    <2>1. (Gone(o)' <=> Gone(o)) /\ RenderFine(o) /\ EnvFine(o)
      BY <1>1, <1>3, <1>9, GoneKept DEF FilesInv, Fine
    <2>2. o \notin blurred => ~Gone(o)
      BY <1>2, <1>5 DEF MakingTask
    <2>3. OrphanFine(o)'
      BY <1>1, <2>1, <2>2 DEF OrphanFine
    <2>4. \A x : x # "timer" => (Pending(Client, o, x)' <=> Pending(Client, o, x))
      BY <1>9, Kinds DEF Proceeded
    <2>5. \A x : x # "timer" /\ AtStart(o, x) => AtStart(o, x)'
      BY <1>9 DEF Proceeded
    <2>6. RenderFine(o)'
      BY <1>1, <1>4, <1>6, <2>1, <2>4, <2>5, Kinds DEF RenderFine
    <2>7. EnvFits(o) => EnvFits(o)'
      BY <1>1 DEF EnvFits, SecretEnv, DataOf, Referred
    <2>8. EnvFine(o)'
      BY <1>1, <2>1, <2>4, <2>5, <2>7 DEF EnvFine
    <2>. QED
      BY <2>3, <2>6, <2>8
  <1>. QED
    BY <1>1, <1>2, <1>7, <1>8, <1>9, UnitStage

LEMMA StartInv ==
  ASSUME FilesInv, NEW a \in Callers, Start(a)
  PROVE  FilesInv'
  <1>1. /\ TasksInv /\ cast \in Casts /\ FilesTypeOK /\ On(a, "start") /\ Proceed(a)
        /\ UNCHANGED <<cast, obj, dir, env, quad, timer, alive, blurred, lost, stale>>
    BY DEF FilesInv, Start, tmpfs, notes
  <1>2. PICK o : o = Now(a).o
    OBVIOUS
  <1>3. IsTodo(Now(a)) /\ "start" \in Range(Now(a).do) /\ o \in Objects
    BY <1>1, <1>2, StageInHand
  <1>4. o \in Workloads /\ o \notin Claims
    BY <1>2, <1>3, Kinds DEF IsTodo, Fits
  <1>5. MakingTask(a, "start")
    BY <1>1, MakingStage DEF Making
  <1>6. running' = running \cup {o}
    BY <1>2 DEF Start
  <1>7. Aside(a)
    BY <1>1, <1>2, <1>6 DEF Aside
  <1>8. FileTypes'
    BY <1>1, <1>4, <1>6 DEF FilesTypeOK, FileTypes
  <1>9. ASSUME Proceeded(a, "start") PROVE OrphanFine(o)' /\ RenderFine(o)' /\ EnvFine(o)'
    <2>1. (Gone(o)' <=> Gone(o)) /\ RenderFine(o) /\ EnvFine(o)
      BY <1>1, <1>3, <1>9, GoneKept DEF FilesInv, Fine
    <2>2. o \notin blurred => ~Gone(o)
      BY <1>2, <1>5 DEF MakingTask
    <2>3. OrphanFine(o)'
      BY <1>1, <2>1, <2>2 DEF OrphanFine
    <2>4. \A x : x # "start" => (Pending(Client, o, x)' <=> Pending(Client, o, x))
      BY <1>9, Kinds DEF Proceeded
    <2>5. \A x : x # "start" /\ AtStart(o, x) => AtStart(o, x)'
      BY <1>9 DEF Proceeded
    <2>6. RenderFine(o)'
      BY <1>1, <1>4, <2>1, <2>4, <2>5 DEF RenderFine
    <2>7. EnvFits(o) => EnvFits(o)'
      BY <1>1 DEF EnvFits, SecretEnv, DataOf, Referred
    <2>8. EnvFine(o)'
      BY <1>1, <2>1, <2>4, <2>5, <2>7 DEF EnvFine
    <2>. QED
      BY <2>3, <2>6, <2>8
  <1>. QED
    BY <1>1, <1>2, <1>7, <1>8, <1>9, UnitStage

LEMMA WriteVolumeInv ==
  ASSUME FilesInv, NEW a \in Callers, WriteVolume(a)
  PROVE  FilesInv'
  <1>1. /\ TasksInv /\ cast \in Casts /\ FilesTypeOK /\ On(a, "volume") /\ Proceed(a)
        /\ UNCHANGED <<cast, obj, dir, env, timer, running, alive, blurred, lost, stale>>
    BY DEF FilesInv, WriteVolume, tmpfs, notes
  <1>2. PICK o, b : o = Now(a).o /\ b = Now(a).b
    OBVIOUS
  <1>3. IsTodo(Now(a)) /\ "volume" \in Range(Now(a).do) /\ o \in Objects
    BY <1>1, <1>2, StageInHand
  <1>4. o \in Claims /\ o \notin Workloads /\ b \in ClaimSpecs
    BY <1>2, <1>3, Kinds, BodyTypes DEF IsTodo, Fits, Renewing
  <1>5. MakingTask(a, "volume")
    BY <1>1, MakingStage DEF Making, Renewing
  <1>6. /\ DOMAIN quad' = DOMAIN quad /\ \A p \in DOMAIN quad : p # o => quad'[p] = quad[p]
        /\ quad'[o] \in ClaimSpecs \cup {Absent} /\ (b # HostPath => quad'[o] = b)
    BY <1>1, <1>2, <1>4 DEF WriteVolume, FilesTypeOK, Volume
  <1>7. Aside(a)
    BY <1>1, <1>2, <1>6 DEF Aside, FilesTypeOK
  <1>8. FileTypes'
    <2>1. \A w \in Workloads : quad'[w] \in [t : Templates, file : BOOLEAN] \cup {Absent}
      BY <1>1, <1>4, <1>6 DEF FilesTypeOK
    <2>2. \A v \in Claims : quad'[v] \in ClaimSpecs \cup {Absent}
      BY <1>1, <1>4, <1>6 DEF FilesTypeOK
    <2>. QED
      BY <1>1, <1>6, <2>1, <2>2 DEF FilesTypeOK, FileTypes
  <1>9. ASSUME Proceeded(a, "volume") PROVE OrphanFine(o)' /\ RenderFine(o)' /\ EnvFine(o)'
    <2>1. Gone(o)' <=> Gone(o)
      BY <1>1, <1>9, GoneKept
    <2>2. o \notin blurred => ~Gone(o) /\ b = obj[o]
      BY <1>2, <1>5 DEF MakingTask, Renewing
    <2>3. OrphanFine(o)'
      BY <1>1, <2>1, <2>2 DEF OrphanFine
    <2>4. RenderFine(o)'
      BY <1>1, <1>4, <1>6, <2>2 DEF RenderFine
    <2>5. EnvFine(o)'
      BY <1>4 DEF EnvFine
    <2>. QED
      BY <2>3, <2>4, <2>5
  <1>. QED
    BY <1>1, <1>2, <1>7, <1>8, <1>9, UnitStage

LEMMA BindInv ==
  ASSUME FilesInv, NEW a \in Callers, Bind(a)
  PROVE  FilesInv'
  <1>1. /\ TasksInv /\ cast \in Casts /\ FilesTypeOK /\ On(a, "bind") /\ Proceed(a)
        /\ UNCHANGED <<cast, obj, dir, env, timer, running, alive, blurred, lost>>
    BY DEF FilesInv, Bind, tmpfs
  <1>2. PICK o, b : o = Now(a).o /\ b = Now(a).b
    OBVIOUS
  <1>3. IsTodo(Now(a)) /\ "bind" \in Range(Now(a).do) /\ o \in Objects
    BY <1>1, <1>2, StageInHand
  <1>4. o \in Claims /\ o \notin Workloads /\ b \in ClaimSpecs
    BY <1>2, <1>3, Kinds, BodyTypes DEF IsTodo, Fits, Renewing
  <1>5. MakingTask(a, "bind")
    BY <1>1, MakingStage DEF Making, Renewing
  <1>6. /\ DOMAIN quad' = DOMAIN quad /\ \A p \in DOMAIN quad : p # o => quad'[p] = quad[p]
        /\ quad'[o] \in ClaimSpecs \cup {Absent} /\ (b # HostPath => quad'[o] = b)
    <2>1. b # Absent /\ o \in DOMAIN quad /\ quad[o] \in ClaimSpecs \cup {Absent}
      BY <1>1, <1>4, BodyTypes DEF FilesTypeOK
    <2>2. quad' = IF Volume(b) = Absent THEN quad ELSE [quad EXCEPT ![o] = Volume(b)]
      BY <1>2 DEF Bind
    <2>3. CASE b = HostPath
      BY <2>1, <2>2, <2>3 DEF Volume
    <2>4. CASE b # HostPath
      BY <1>4, <2>1, <2>2, <2>4 DEF Volume
    <2>. QED
      BY <2>3, <2>4
  <1>7. /\ stale' \subseteq stale /\ stale \ {o} \subseteq stale' /\ (o \notin stale' /\ o \in stale => b = obj[o])
    BY <1>2 DEF Bind
  <1>8. Aside(a)
    BY <1>1, <1>2, <1>4, <1>6, <1>7 DEF Aside, FilesTypeOK
  <1>9. FileTypes'
    <2>1. \A w \in Workloads : quad'[w] \in [t : Templates, file : BOOLEAN] \cup {Absent}
      BY <1>1, <1>4, <1>6 DEF FilesTypeOK
    <2>2. \A v \in Claims : quad'[v] \in ClaimSpecs \cup {Absent}
      BY <1>1, <1>4, <1>6 DEF FilesTypeOK
    <2>. QED
      BY <1>1, <1>6, <1>7, <2>1, <2>2 DEF FilesTypeOK, FileTypes
  <1>10. ASSUME Proceeded(a, "bind") PROVE OrphanFine(o)' /\ RenderFine(o)' /\ EnvFine(o)'
    <2>1. Gone(o)' <=> Gone(o)
      BY <1>1, <1>10, GoneKept
    <2>2. o \notin blurred => ~Gone(o) /\ b = obj[o]
      BY <1>2, <1>5 DEF MakingTask, Renewing
    <2>3. OrphanFine(o)'
      BY <1>1, <2>1, <2>2 DEF OrphanFine
    <2>4. RenderFine(o)'
      BY <1>1, <1>4, <1>6, <2>2 DEF RenderFine
    <2>5. EnvFine(o)'
      BY <1>4 DEF EnvFine
    <2>. QED
      BY <2>3, <2>4, <2>5
  <1>. QED
    BY <1>1, <1>2, <1>8, <1>9, <1>10, UnitStage

(* Of an object that goes, only OrphanFine is left to ask. *)
LEMMA TearingUnit ==
  ASSUME FilesInv, NEW a \in Callers, NEW stage, On(a, stage), stage \in {"stop", "unlink", "unlinkTimer"},
         Proceed(a), NEW o, o = Now(a).o, UNCHANGED <<cast, obj, dir, env, alive, blurred, lost>>, Aside(a),
         FileTypes', Proceeded(a, stage) => OrphanFine(o)'
  PROVE  FilesInv'
  <1>1. Gone(o)
    BY TearingStage
  <1>2. ASSUME Proceeded(a, stage) PROVE RenderFine(o)' /\ EnvFine(o)'
    <2>1. Gone(o)'
      BY <1>1, <1>2, GoneKept
    <2>. QED
      BY <2>1 DEF RenderFine, EnvFine
  <1>. QED
    BY <1>2, UnitStage

LEMMA StopWorkloadInv ==
  ASSUME FilesInv, NEW a \in Callers, StopWorkload(a)
  PROVE  FilesInv'
  <1>1. /\ TasksInv /\ cast \in Casts /\ FilesTypeOK /\ On(a, "stop") /\ Proceed(a)
        /\ UNCHANGED <<cast, obj, dir, env, quad, timer, alive, blurred, lost, stale>>
    BY DEF FilesInv, StopWorkload, tmpfs, notes
  <1>2. PICK o : o = Now(a).o
    OBVIOUS
  <1>3. o \in Objects
    BY <1>1, <1>2, StageInHand
  <1>4. running' = running \ {o}
    BY <1>2 DEF StopWorkload
  <1>5. Aside(a)
    BY <1>1, <1>2, <1>4 DEF Aside
  <1>6. FileTypes'
    BY <1>1, <1>4 DEF FilesTypeOK, FileTypes
  <1>7. ASSUME Proceeded(a, "stop") PROVE OrphanFine(o)'
    <2>1. (Gone(o)' <=> Gone(o)) /\ OrphanFine(o)
      BY <1>1, <1>3, <1>7, GoneKept DEF FilesInv, Fine
    <2>2. \A x : x # "stop" /\ Pending(Client, o, x) => Pending(Client, o, x)'
      BY <1>7, Kinds DEF Proceeded
    <2>. QED
      BY <1>1, <1>4, <2>1, <2>2 DEF OrphanFine
  <1>. QED
    BY <1>1, <1>2, <1>5, <1>6, <1>7, TearingUnit

LEMMA UnlinkQuadletInv ==
  ASSUME FilesInv, NEW a \in Callers, UnlinkQuadlet(a)
  PROVE  FilesInv'
  <1>1. /\ TasksInv /\ cast \in Casts /\ FilesTypeOK /\ On(a, "unlink") /\ Proceed(a)
        /\ UNCHANGED <<cast, obj, dir, env, timer, running, alive, blurred, lost, stale>>
    BY DEF FilesInv, UnlinkQuadlet, tmpfs, notes
  <1>2. PICK o : o = Now(a).o
    OBVIOUS
  <1>3. IsTodo(Now(a)) /\ "unlink" \in Range(Now(a).do) /\ o \in Objects
    BY <1>1, <1>2, StageInHand
  <1>4. o \in Claims \cup Workloads /\ o \notin Dirs
    BY <1>2, <1>3, Kinds DEF IsTodo, Fits
  <1>5. quad' = [quad EXCEPT ![o] = Absent] /\ quad'[o] = Absent
    BY <1>1, <1>2, <1>4 DEF UnlinkQuadlet, FilesTypeOK
  <1>6. Aside(a)
    BY <1>1, <1>2, <1>5 DEF Aside, FilesTypeOK
  <1>7. FileTypes'
    BY <1>1, <1>4, <1>5 DEF FilesTypeOK, FileTypes
  <1>8. ASSUME Proceeded(a, "unlink") PROVE OrphanFine(o)'
    <2>1. (Gone(o)' <=> Gone(o)) /\ OrphanFine(o)
      BY <1>1, <1>3, <1>8, GoneKept DEF FilesInv, Fine
    <2>2. \A x : x # "unlink" /\ Pending(Client, o, x) => Pending(Client, o, x)'
      BY <1>8, Kinds DEF Proceeded
    <2>. QED
      BY <1>1, <1>4, <1>5, <2>1, <2>2 DEF OrphanFine
  <1>. QED
    BY <1>1, <1>2, <1>6, <1>7, <1>8, TearingUnit

LEMMA UnlinkTimerInv ==
  ASSUME FilesInv, NEW a \in Callers, UnlinkTimer(a)
  PROVE  FilesInv'
  <1>1. /\ TasksInv /\ cast \in Casts /\ FilesTypeOK /\ On(a, "unlinkTimer") /\ Proceed(a)
        /\ UNCHANGED <<cast, obj, dir, env, quad, running, alive, blurred, lost, stale>>
    BY DEF FilesInv, UnlinkTimer, tmpfs, notes
  <1>2. PICK o : o = Now(a).o
    OBVIOUS
  <1>3. o \in Objects
    BY <1>1, <1>2, StageInHand
  <1>4. timer' = timer \ {o}
    BY <1>2 DEF UnlinkTimer
  <1>5. Aside(a)
    BY <1>1, <1>2, <1>4 DEF Aside
  <1>6. FileTypes'
    BY <1>1, <1>4 DEF FilesTypeOK, FileTypes
  <1>7. ASSUME Proceeded(a, "unlinkTimer") PROVE OrphanFine(o)'
    <2>1. (Gone(o)' <=> Gone(o)) /\ OrphanFine(o)
      BY <1>1, <1>3, <1>7, GoneKept DEF FilesInv, Fine
    <2>2. \A x : x # "unlinkTimer" /\ Pending(Client, o, x) => Pending(Client, o, x)'
      BY <1>7, Kinds DEF Proceeded
    <2>. QED
      BY <1>1, <1>4, <2>1, <2>2 DEF OrphanFine
  <1>. QED
    BY <1>1, <1>2, <1>5, <1>6, <1>7, TearingUnit

---------------------------------------------------------------------------
(* Healing                                                                 *)

(* Startup puts u in the place of its task and v at the end of its list.   *)
Mended(u, v) ==
  /\ TasksInv'
  /\ \A c \in Callers \ {Main} : tasks'[c] = tasks[c]
  /\ \A t \in Todos(Main)' : t \in Todos(Main) \/ t = u \/ t = v
  /\ \A t \in Todos(Main) : t = Now(Main) \/ t \in Todos(Main)'
  /\ u \in Todos(Main)'
  /\ \A o, x : Listed(o, x)' <=> Listed(o, x)
  /\ ~InHand(Main)'
  /\ OrderInv => OrderInv'

LEMMA Mends ==
  ASSUME TasksInv, cast \in Casts, cast' = cast, alive, alive' = alive, tasks[Main] # <<>>,
         NEW u, Makes(u), "quad" \in Range(u.do) => "env" \in Range(u.do), u.do # <<"env">>,
         NEW v, Makes(v), v.do = <<"start">>,
         "of" \notin DOMAIN Now(Main),
         tasks' = [tasks EXCEPT ![Main] = <<u>> \o Tail(tasks[Main]) \o <<v>>]
  PROVE  Mended(u, v)
  <1>1. PICK s, new : s = tasks[Main] /\ new = tasks'[Main]
    OBVIOUS
  <1>2. Main \in Callers /\ tasks \in [Callers -> Range(tasks)] /\ s \in Seq(Range(s))
    BY <1>1, Kinds DEF TasksInv
  <1>3. /\ \A c \in Callers : tasks'[c] \in Seq(Range(tasks'[c]))
        /\ tasks' \in [Callers -> Range(tasks')]
        /\ \A c \in Callers \ {Main} : tasks'[c] = tasks[c]
        /\ Range(new) = {u} \cup Range(Tail(s)) \cup {v}
        /\ Range(s) = {Now(Main)} \cup Range(Tail(s)) /\ Now(Main) = s[1]
        /\ Len(s) \in Nat \ {0} /\ DOMAIN s = 1..Len(s) /\ DOMAIN new = 1..Len(new)
        /\ Len(new) = Len(s) + 1 /\ new[1] = u /\ new[Len(s) + 1] = v
        /\ \A i \in 2..Len(s) : new[i] = s[i]
    <2>1. PICK front, back : front = <<u>> /\ back = <<v>>
      OBVIOUS
    <2>2. /\ front \in Seq(Range(front)) /\ Range(front) = {u} /\ Len(front) = 1 /\ front[1] = u
          /\ back \in Seq(Range(back)) /\ Range(back) = {v} /\ Len(back) = 1 /\ back[1] = v
      BY <2>1, SmallLists
    <2>3. Advancement(Main, front, back)
      BY <1>2, <2>1, <2>2, Advanced
    <2>4. /\ \A c \in Callers : tasks'[c] \in Seq(Range(tasks'[c]))
          /\ tasks' \in [Callers -> Range(tasks')]
          /\ \A c \in Callers \ {Main} : tasks'[c] = tasks[c]
          /\ Range(new) = Range(front) \cup Range(Tail(s)) \cup Range(back)
          /\ Range(s) = {Now(Main)} \cup Range(Tail(s)) /\ Now(Main) = s[1]
          /\ Len(s) \in Nat \ {0} /\ DOMAIN s = 1..Len(s) /\ DOMAIN new = 1..Len(new)
          /\ Len(new) = Len(front) + (Len(s) - 1) + Len(back)
          /\ \A i \in 1..Len(front) : new[i] = front[i]
          /\ \A i \in 2..Len(s) : new[Len(front) + (i - 1)] = s[i]
          /\ \A i \in 1..Len(back) : new[Len(front) + (Len(s) - 1) + i] = back[i]
      BY <1>1, <2>3 DEF Advancement
    <2>5. Len(new) = Len(s) + 1 /\ new[1] = u /\ new[Len(s) + 1] = v
      BY <2>2, <2>4
    <2>6. \A i \in 2..Len(s) : new[i] = s[i]
      <3> SUFFICES ASSUME NEW i \in 2..Len(s) PROVE new[i] = s[i]
        OBVIOUS
      <3>1. new[Len(front) + (i - 1)] = s[i] /\ Len(front) + (i - 1) = i
        BY <2>2, <2>4
      <3>. QED
        BY <3>1
    <2>. QED
      BY <2>2, <2>4, <2>5, <2>6
  <1>4. IsTodo(u) /\ IsTodo(v) /\ "o" \in DOMAIN u /\ "of" \notin DOMAIN u /\ "of" \notin DOMAIN v
    BY TaskKinds DEF Makes
  <1>5. \A t : (IsTodo(t)' <=> IsTodo(t)) /\ (Makes(t)' <=> Makes(t)) /\ (IsListing(t)' <=> IsListing(t))
                /\ (IsPurge(t)' <=> IsPurge(t))
    BY DEF IsTodo, Makes, IsListing, IsPurge, Bodies
  <1>6. "quad" \notin Range(v.do) /\ "env" \notin Range(v.do)
    BY ShortTails
  <1>7. \A j \in DOMAIN new : j = 1 \/ j \in 2..Len(s) \/ (j = Len(s) + 1 /\ new[j] = v)
    BY <1>3
  <1>8. tasks'[Client] = tasks[Client]
    BY <1>3, Kinds
  <1>9. TasksInv'
    <2>1. /\ \A c \in Clients \ {Client} : tasks'[c] = <<>>
          /\ ~alive' => \A c \in Callers : tasks'[c] = <<>>
      BY <1>3 DEF TasksInv, Callers
    <2>2. \A t \in Range(tasks'[Main]) : IsListing(t) \/ Makes(t)
      <3>1. \A t \in Range(s) : IsListing(t) \/ Makes(t)
        BY <1>1 DEF TasksInv
      <3>. QED
        BY <1>1, <1>3, <3>1
    <2>3. \A c \in Callers : \A j \in DOMAIN tasks'[c] \ {1} :
            "quad" \in Range(tasks'[c][j].do) => "env" \in Range(tasks'[c][j].do)
      <3> SUFFICES ASSUME NEW c \in Callers, NEW j \in DOMAIN tasks'[c] \ {1}
                   PROVE  "quad" \in Range(tasks'[c][j].do) => "env" \in Range(tasks'[c][j].do)
        OBVIOUS
      <3>1. CASE c = Main
        <4>1. CASE j \in 2..Len(s)
          <5>1. j \in DOMAIN s \ {1}
            BY <1>3, <4>1
          <5>2. "quad" \in Range(s[j].do) => "env" \in Range(s[j].do)
            BY <1>1, <1>2, <5>1 DEF TasksInv
          <5>. QED
            BY <1>1, <1>3, <3>1, <4>1, <5>2
        <4>2. CASE new[j] = v
          BY <1>1, <1>6, <3>1, <4>2
        <4>. QED
          BY <1>1, <1>7, <3>1, <4>1, <4>2
      <3>2. CASE c # Main
        BY <1>3, <3>2 DEF TasksInv
      <3>. QED
        BY <3>1, <3>2
    <2>4. Todos(Client)' = Todos(Client)
      BY <1>8 DEF Todos
    <2>5. /\ \A t \in Range(tasks'[Client]) : IsTodo(t) \/ IsPurge(t)
          /\ (\E t \in Range(tasks'[Client]) : Makes(t)) => Len(tasks'[Client]) = 1
          /\ \A j \in DOMAIN tasks'[Client] : IsPurge(tasks'[Client][j]) => j = Len(tasks'[Client])
      BY <1>8 DEF TasksInv
    <2>6. \A t \in Todos(Client)' :
            t.do # <<"env">> /\ Range(t.do) \cap {"data", "bind", "heal", "healTimer"} = {}
      BY <2>4 DEF TasksInv
    <2>. QED
      BY <1>3, <1>5, <2>1, <2>2, <2>3, <2>5, <2>6 DEF TasksInv
  <1>10. /\ \A t \in Todos(Main)' : t \in Todos(Main) \/ t = u \/ t = v
         /\ \A t \in Todos(Main) : t = Now(Main) \/ t \in Todos(Main)'
         /\ u \in Todos(Main)'
    BY <1>1, <1>3, <1>4 DEF Todos
  <1>11. \A o, x : Listed(o, x)' <=> Listed(o, x)
    <2>1. \A t : "of" \in DOMAIN t => (t \in Range(new) <=> t \in Range(s))
      BY <1>3, <1>4
    <2>. QED
      BY <1>1, <2>1 DEF Listed
  <1>12. ~InHand(Main)'
    <2>1. Now(Main)' = u
      BY <1>1, <1>2, <1>3 DEF Now
    <2>. QED
      BY <2>1 DEF InHand
  <1>13. OrderInv => OrderInv'
    <2>0. OrderInv' <=> \A w \in cast : \A j \in DOMAIN new : Restoring(new[j], w) =>
                          \E k \in DOMAIN new : k > j /\ Healing(new[k], w)
      BY <1>1 DEF OrderInv, Restoring, Healing
    <2> SUFFICES ASSUME OrderInv, NEW w \in cast, NEW j \in DOMAIN new, Restoring(new[j], w)
                 PROVE  \E k \in DOMAIN new : k > j /\ Healing(new[k], w)
      BY <2>0
    <2>1. "of" \notin DOMAIN u /\ "of" \notin DOMAIN v /\ u.do # <<"env">> /\ v.do # <<"env">>
      BY <1>4, <1>6, ShortTails
    <2>2. j \in 2..Len(s)
      BY <1>3, <1>7, <2>1 DEF Restoring
    <2>3. j \in DOMAIN s /\ new[j] = s[j]
      BY <1>3, <2>2
    <2>4. PICK k \in DOMAIN s : k > j /\ Healing(s[k], w)
      BY <1>1, <2>3 DEF OrderInv
    <2>5. k \in 2..Len(s) /\ k \in DOMAIN new /\ new[k] = s[k]
      BY <1>3, <2>2, <2>4
    <2>. QED
      BY <2>4, <2>5
  <1>. QED
    BY <1>3, <1>9, <1>10, <1>11, <1>12, <1>13 DEF Mended

LEMMA MendKeepsInv ==
  ASSUME FilesInv, NEW stage \in {"heal", "healTimer"}, On(Main, stage),
         NEW o, o = Now(Main).o,
         NEW u, Makes(u), u.o = o, u.b = Now(Main).b, "quad" \in Range(u.do) => "env" \in Range(u.do),
         u.do # <<"env">>,
         NEW v, Makes(v), v.do = <<"start">>, v.o = o,
         tasks' = [tasks EXCEPT ![Main] = <<u>> \o Tail(tasks[Main]) \o <<v>>],
         UNCHANGED <<cast, obj, tmpfs, units, alive, notes>>,
         IF stage = "heal" THEN quad[o] = Absent /\ "quad" \in Range(u.do)
                                /\ (o \in CronJobs => "timer" \in Range(u.do))
                           ELSE Range(u.do) = {"timer"}
  PROVE  FilesInv'
  <1>1. TasksInv /\ OrderInv /\ BlurInv /\ MomentInv /\ cast \in Casts /\ FilesTypeOK
    BY DEF FilesInv
  <1>2. UNCHANGED <<cast, obj, dir, env, quad, timer, running, alive, blurred, lost, stale>>
    BY DEF tmpfs, units, notes
  <1>3. /\ alive /\ tasks[Main] # <<>> /\ IsTodo(Now(Main)) /\ Head(Now(Main).do) = stage /\ o \in Objects
        /\ stage \in Range(Now(Main).do) /\ Staged(Now(Main).do) /\ Now(Main) \in Todos(Main)
    BY <1>1, Kinds, StageInHand
  <1>4. Mended(u, v)
    <2>1. "of" \notin DOMAIN Now(Main)
      BY <1>1, <1>3, TaskKinds
    <2>. QED
      BY <1>1, <1>2, <1>3, <2>1, Mends
  <1>5. TasksInv' /\ OrderInv'
    BY <1>1, <1>4 DEF Mended
  <1>6. o \in Workloads /\ o \notin Claims /\ o \notin Dirs
    BY <1>3, Kinds DEF IsTodo, Fits
  <1>7. MakingTask(Main, stage)
    BY Kinds, MakingStage DEF Making, Renewing
  <1>8. FilesTypeOK'
    BY <1>1, <1>2, <1>5, TypesKept DEF FilesTypeOK, FileTypes, Exists
  <1>9. tasks'[Client] = tasks[Client]
    BY <1>4, Kinds DEF Mended
  <1>10. /\ \A p, x : Pending(Client, p, x)' <=> Pending(Client, p, x)
         /\ Purging' <=> Purging
         /\ \A p : Gone(p)' <=> Gone(p)
         /\ Todos(Client)' = Todos(Client)
    <2>1. /\ \A p, x : Pending(Client, p, x)' <=> Pending(Client, p, x)
          /\ Purging' <=> Purging
          /\ Todos(Client)' = Todos(Client)
      BY <1>9 DEF Pending, Todos, Purging, IsPurge
    <2>. QED
      BY <1>2, <2>1 DEF Gone, Exists
  <1>11. \A p, x : p # o /\ AtStart(p, x) => AtStart(p, x)'
    BY <1>2, <1>4 DEF AtStart, Pending, Mended
  <1>12. \A x : x \notin Range(Now(Main).do) /\ AtStart(o, x) => AtStart(o, x)'
    BY <1>2, <1>4 DEF AtStart, Pending, Mended
  <1>13. \A x : x \in Range(u.do) => AtStart(o, x)'
    BY <1>4 DEF AtStart, Pending, Mended
  <1>14. \A w \in Workloads : EnvFits(w) => EnvFits(w)'
    BY <1>2 DEF EnvFits, SecretEnv, DataOf, Referred
  <1>15. BlurInv'
    <2>1. Starting
      BY <1>3 DEF Starting
    <2>2. (\A t \in Todos(Client)' : t.o \in blurred') /\ (Purging' => \A p \in Objects : Exists(p)' => p \in blurred')
      BY <1>1, <1>2, <1>10, <2>1 DEF BlurInv, Exists
    <2>3. \A t : Makes(t)' <=> Makes(t)
      BY <1>2 DEF Makes, IsTodo, Bodies
    <2>4. \A t \in Todos(Client)' : Makes(t)' \/ Gone(t.o)'
      BY <1>1, <1>10, <2>3 DEF BlurInv
    <2>5. \A c \in Callers : \A t \in Todos(c)' : t.o \notin blurred' /\ Range(t.do) \subseteq Making =>
            /\ Exists(t.o)'
            /\ Range(t.do) \cap Renewing # {} => t.b = obj'[t.o]
            /\ "quad" \in Range(t.do) /\ "env" \notin Range(t.do) =>
                 t.b.t = obj'[t.o] /\ (t.b.file => t.b.t.secret # Absent)
      <3> SUFFICES ASSUME NEW c \in Callers, NEW t \in Todos(c)', t.o \notin blurred, Range(t.do) \subseteq Making
                   PROVE  /\ Exists(t.o)
                          /\ Range(t.do) \cap Renewing # {} => t.b = obj[t.o]
                          /\ "quad" \in Range(t.do) /\ "env" \notin Range(t.do) =>
                               t.b.t = obj[t.o] /\ (t.b.file => t.b.t.secret # Absent)
        BY <1>2 DEF Exists
      <3>1. CASE t \in Todos(c)
        BY <1>1, <3>1 DEF BlurInv
      <3>2. CASE t \notin Todos(c)
        <4>1. c = Main /\ (t = u \/ t = v)
          BY <1>4, <3>2 DEF Mended, Todos
        <4>2. Exists(o) /\ Now(Main).b = obj[o]
          BY <1>7, <4>1 DEF MakingTask, Renewing
        <4>3. Range(v.do) \cap Renewing = {} /\ "quad" \notin Range(v.do)
          BY ShortTails DEF Renewing
        <4>. QED
          BY <4>1, <4>2, <4>3
      <3>. QED
        BY <3>1, <3>2
    <2>6. \A p \in Objects : Exists(p)' => p \in cast'
      BY <1>1, <1>2 DEF BlurInv, Exists
    <2>. QED
      BY <2>2, <2>4, <2>5, <2>6 DEF BlurInv
  <1>16. MomentInv'
    <2>1. \A c \in Callers : (InHand(c) /\ Now(c).o \notin blurred /\ Now(c).b.file => EnvFits(Now(c).o))'
      <3> SUFFICES ASSUME NEW c \in Callers, (InHand(c) /\ Now(c).o \notin blurred /\ Now(c).b.file)'
                   PROVE  EnvFits(Now(c).o)'
        OBVIOUS
      <3>1. c # Main /\ tasks'[c] = tasks[c]
        BY <1>4 DEF Mended
      <3>2. InHand(c) /\ Now(c)' = Now(c)
        BY <3>1 DEF InHand, Now
      <3>3. EnvFits(Now(c).o)
        BY <1>1, <1>2, <3>2 DEF MomentInv
      <3>4. PICK w : w = Now(c).o
        OBVIOUS
      <3>5. w \in Workloads
        BY <1>1, <3>2, <3>4, TaskInHand, TaskKinds DEF InHand, IsTodo, Fits
      <3>6. EnvFits(w)'
        BY <1>14, <3>3, <3>4, <3>5
      <3>. QED
        BY <3>2, <3>4, <3>6
    <2>2. (\E t \in Range(tasks'[Client]) : t.do = <<"purge">>) => \A w \in Workloads \ blurred' : env'[w] = Absent
      BY <1>1, <1>2, <1>9 DEF MomentInv
    <2>. QED
      BY <1>2, <1>3, <2>1, <2>2 DEF MomentInv
  <1>17. ASSUME NEW p \in Objects, p # o PROVE Fine(p)'
    <2>1. Steady(p)
      BY <1>2, <1>10, <1>11, <1>14, <1>17 DEF Steady
    <2>2. Fine(p)
      BY DEF FilesInv
    <2>. QED
      BY <2>1, <2>2, StillFine
  <1>18. Fine(o)'
    <2>1. DirFine(o)'
      BY <1>6 DEF DirFine
    <2>2. OrphanFine(o) /\ RenderFine(o) /\ EnvFine(o)
      BY <1>3 DEF FilesInv, Fine
    <2>3. OrphanFine(o)'
      BY <1>2, <1>10, <2>2 DEF OrphanFine
    <2>4. RenderFine(o)' /\ EnvFine(o)'
      <3>1. CASE stage = "heal"
        <4>1. quad'[o] = Absent /\ AtStart(o, "quad")' /\ (o \in CronJobs => AtStart(o, "timer")')
          BY <1>2, <1>13, <3>1
        <4>. QED
          BY <1>6, <4>1 DEF RenderFine, EnvFine
      <3>2. CASE stage = "healTimer"
        <4>1. Range(Now(Main).do) = {"healTimer"}
          BY <1>3, <3>2 DEF Staged
        <4>2. \A x : x # "healTimer" /\ AtStart(o, x) => AtStart(o, x)'
          BY <1>12, <4>1
        <4>3. AtStart(o, "timer")'
          BY <1>13, <3>2
        <4>4. RenderFine(o)'
          BY <1>2, <1>6, <1>10, <2>2, <4>2, <4>3 DEF RenderFine
        <4>5. EnvFine(o)'
          BY <1>2, <1>10, <1>14, <2>2, <4>2 DEF EnvFine
        <4>. QED
          BY <4>4, <4>5
      <3>. QED
        BY <3>1, <3>2
    <2>. QED
      BY <2>1, <2>3, <2>4 DEF Fine
  <1>. QED
    BY <1>1, <1>2, <1>5, <1>8, <1>15, <1>16, <1>17, <1>18 DEF FilesInv

(* Only startup heals. *)
LEMMA OnlyStartupHeals ==
  ASSUME TasksInv, cast \in Casts, NEW a \in Callers, NEW stage \in {"heal", "healTimer"}, On(a, stage)
  PROVE  a = Main
  <1>1. Now(a) \in Todos(a) /\ stage \in Range(Now(a).do) /\ tasks[a] # <<>>
    BY StageInHand
  <1>2. a # Client
    BY <1>1 DEF TasksInv
  <1>. QED
    BY <1>1, <1>2, TaskInHand

LEMMA HealInv ==
  ASSUME FilesInv, NEW a \in Callers, Heal(a)
  PROVE  FilesInv'
  <1>1. /\ TasksInv /\ cast \in Casts /\ FilesTypeOK /\ On(a, "heal")
        /\ UNCHANGED <<cast, obj, tmpfs, units, alive, notes>>
    BY DEF FilesInv, Heal
  <1>2. UNCHANGED <<cast, obj, dir, env, quad, timer, running, alive, blurred, lost, stale>>
    BY <1>1 DEF tmpfs, units, notes
  <1>3. PICK o : o = Now(a).o
    OBVIOUS
  <1>4. IsTodo(Now(a)) /\ "heal" \in Range(Now(a).do) /\ o \in Objects
    BY <1>1, <1>3, StageInHand
  <1>5. o \in Workloads /\ o \in cast /\ Now(a).b \in Bodies(o)
    BY <1>3, <1>4 DEF IsTodo, Fits, Renewing
  <1>6. CASE quad[o] # Absent
    <2>1. Proceed(a)
      BY <1>3, <1>6 DEF Heal
    <2>2. Aside(a)
      BY <1>2 DEF Aside
    <2>3. FileTypes'
      BY <1>1, <1>2 DEF FilesTypeOK, FileTypes
    <2>4. ASSUME Proceeded(a, "heal") PROVE OrphanFine(o)' /\ RenderFine(o)' /\ EnvFine(o)'
      <3>1. (Gone(o)' <=> Gone(o)) /\ OrphanFine(o) /\ RenderFine(o) /\ EnvFine(o)
        BY <1>2, <1>4, <2>4, GoneKept DEF FilesInv, Fine
      <3>2. \A x : x # "heal" => (Pending(Client, o, x)' <=> Pending(Client, o, x))
        BY <2>4, Kinds DEF Proceeded
      <3>3. \A x : x # "heal" /\ AtStart(o, x) => AtStart(o, x)'
        BY <2>4 DEF Proceeded
      <3>4. OrphanFine(o)'
        BY <1>2, <3>1, <3>2 DEF OrphanFine
      <3>5. o \notin Claims
        BY <1>5, Kinds
      <3>6. RenderFine(o)'
        BY <1>2, <1>6, <3>1, <3>2, <3>3, <3>5 DEF RenderFine
      <3>7. EnvFits(o) => EnvFits(o)'
        BY <1>2 DEF EnvFits, SecretEnv, DataOf, Referred
      <3>8. EnvFine(o)'
        BY <1>2, <3>1, <3>2, <3>3, <3>7 DEF EnvFine
      <3>. QED
        BY <3>4, <3>6, <3>8
    <2>. QED
      BY <1>1, <1>2, <1>3, <2>1, <2>2, <2>3, <2>4, UnitStage
  <1>7. CASE quad[o] = Absent
    <2>1. a = Main
      BY <1>1, OnlyStartupHeals
    <2>2. PICK do : do = <<"env", "quad">> \o (IF o \in CronJobs THEN <<"timer">> ELSE <<>>)
      OBVIOUS
    <2>3. /\ do \in Shapes /\ {"env", "quad"} \subseteq Range(do) /\ Range(do) \subseteq {"env", "quad", "timer"}
          /\ "timer" \in Range(do) <=> o \in CronJobs
          /\ do # <<"env">>
      <3>1. CASE o \in CronJobs
        <4>1. do = <<"env", "quad", "timer">>
          <5>1. do = <<"env", "quad">> \o <<"timer">>
            BY <2>2, <3>1
          <5>2. <<"env", "quad">> \o <<"timer">> = <<"env", "quad", "timer">>
            BY ThirdStage
          <5>. QED
            BY <5>1, <5>2
        <4>. QED
          BY <3>1, <4>1, ShortTails DEF Shapes
      <3>2. CASE o \notin CronJobs
        <4>1. do = <<"env", "quad">>
          BY <2>2, <3>2
        <4>. QED
          BY <3>2, <4>1, ShortTails DEF Shapes
      <3>. QED
        BY <3>1, <3>2
    <2>4. PICK u, v : u = Todo(do, o, Now(a).b) /\ v = Todo(<<"start">>, o, Absent)
      OBVIOUS
    <2>5. /\ u.do = do /\ u.o = o /\ u.b = Now(a).b /\ "o" \in DOMAIN u
          /\ v.do = <<"start">> /\ v.o = o /\ v.b = Absent /\ "o" \in DOMAIN v
      BY <2>4, TodoFields
    <2>6. Makes(u)
      BY <1>5, <2>3, <2>4, <2>5 DEF Makes, IsTodo, Fits, Making, Renewing
    <2>7. Makes(v)
      BY <1>5, <2>4, <2>5, ShortTails DEF Makes, IsTodo, Fits, Making, Renewing, Shapes
    <2>8. tasks' = [tasks EXCEPT ![a] = <<u>> \o Tail(tasks[a]) \o <<v>>]
      BY <1>3, <1>7, <2>2, <2>4 DEF Heal
    <2>. QED
      BY <1>1, <1>3, <1>7, <2>1, <2>3, <2>5, <2>6, <2>7, <2>8, MendKeepsInv
  <1>. QED
    BY <1>6, <1>7

LEMMA HealTimerInv ==
  ASSUME FilesInv, NEW a \in Callers, HealTimer(a)
  PROVE  FilesInv'
  <1>1. /\ TasksInv /\ cast \in Casts /\ FilesTypeOK /\ On(a, "healTimer")
        /\ UNCHANGED <<cast, obj, tmpfs, units, alive, notes>>
    BY DEF FilesInv, HealTimer
  <1>2. UNCHANGED <<cast, obj, dir, env, quad, timer, running, alive, blurred, lost, stale>>
    BY <1>1 DEF tmpfs, units, notes
  <1>3. PICK o : o = Now(a).o
    OBVIOUS
  <1>4. /\ IsTodo(Now(a)) /\ "healTimer" \in Range(Now(a).do) /\ o \in Objects /\ Staged(Now(a).do)
        /\ Head(Now(a).do) = "healTimer"
    BY <1>1, <1>3, StageInHand
  <1>5. o \in CronJobs /\ o \in Workloads /\ o \notin Claims /\ o \in cast
    BY <1>3, <1>4, Kinds DEF IsTodo, Fits
  <1>6. CASE o \in timer
    <2>1. Proceed(a)
      <3>1. Abandon(a) /\ Tail(Now(a).do) = <<>>
        BY <1>3, <1>4, <1>6 DEF HealTimer, Staged
      <3>. QED
        BY <3>1 DEF Abandon, Proceed
    <2>2. Aside(a)
      BY <1>2 DEF Aside
    <2>3. FileTypes'
      BY <1>1, <1>2 DEF FilesTypeOK, FileTypes
    <2>4. ASSUME Proceeded(a, "healTimer") PROVE OrphanFine(o)' /\ RenderFine(o)' /\ EnvFine(o)'
      <3>1. (Gone(o)' <=> Gone(o)) /\ OrphanFine(o) /\ RenderFine(o) /\ EnvFine(o)
        BY <1>2, <1>4, <2>4, GoneKept DEF FilesInv, Fine
      <3>2. \A x : x # "healTimer" => (Pending(Client, o, x)' <=> Pending(Client, o, x))
        BY <2>4, Kinds DEF Proceeded
      <3>3. \A x : x # "healTimer" /\ AtStart(o, x) => AtStart(o, x)'
        BY <2>4 DEF Proceeded
      <3>4. OrphanFine(o)'
        BY <1>2, <3>1, <3>2 DEF OrphanFine
      <3>5. RenderFine(o)'
        BY <1>2, <1>5, <1>6, <3>1, <3>2, <3>3 DEF RenderFine
      <3>6. EnvFits(o) => EnvFits(o)'
        BY <1>2 DEF EnvFits, SecretEnv, DataOf, Referred
      <3>7. EnvFine(o)'
        BY <1>2, <3>1, <3>2, <3>3, <3>6 DEF EnvFine
      <3>. QED
        BY <3>4, <3>5, <3>7
    <2>. QED
      BY <1>1, <1>2, <1>3, <2>1, <2>2, <2>3, <2>4, UnitStage
  <1>7. CASE o \notin timer
    <2>1. a = Main
      BY <1>1, OnlyStartupHeals
    <2>2. PICK u, v : u = Todo(<<"timer">>, o, Now(a).b) /\ v = Todo(<<"start">>, o, Absent)
      OBVIOUS
    <2>3. /\ u.do = <<"timer">> /\ u.o = o /\ u.b = Now(a).b /\ "o" \in DOMAIN u
          /\ v.do = <<"start">> /\ v.o = o /\ v.b = Absent /\ "o" \in DOMAIN v
      BY <2>2, TodoFields
    <2>4. Range(u.do) = {"timer"} /\ u.do # <<"env">> /\ Range(v.do) = {"start"}
      BY <2>3, ShortTails
    <2>5. Makes(u)
      BY <1>5, <2>2, <2>3, <2>4 DEF Makes, IsTodo, Fits, Making, Renewing, Shapes
    <2>6. Makes(v)
      BY <1>5, <2>2, <2>3, <2>4 DEF Makes, IsTodo, Fits, Making, Renewing, Shapes
    <2>7. tasks' = [tasks EXCEPT ![a] = <<u>> \o Tail(tasks[a]) \o <<v>>]
      <3>1. [Now(a) EXCEPT !.do = <<"timer">>] = u
        BY <1>3, <1>4, <2>2, TodoExcept
      <3>. QED
        BY <1>3, <1>7, <2>2, <3>1 DEF HealTimer
    <2>. QED
      BY <1>1, <1>3, <2>1, <2>3, <2>4, <2>5, <2>6, <2>7, MendKeepsInv
  <1>. QED
    BY <1>6, <1>7

---------------------------------------------------------------------------
(* Env files                                                               *)

(* A caller puts u in the place of its task. *)
Rendered(a, u) ==
  /\ TasksInv'
  /\ \A c \in Callers \ {a} : tasks'[c] = tasks[c]
  /\ \A t \in Todos(a)' : t \in Todos(a) \/ t = u
  /\ \A t \in Todos(a) : t = Now(a) \/ t \in Todos(a)'
  /\ u \in Todos(a)' /\ Now(a)' = u
  /\ \A o, x : Listed(o, x)' <=> Listed(o, x)
  /\ Purging' <=> Purging
  /\ (\E t \in Range(tasks'[Client]) : t.do = <<"purge">>) =>
       \E t \in Range(tasks[Client]) : t.do = <<"purge">>
  /\ Starting' => Starting
  /\ OrderInv => OrderInv'

LEMMA Renders ==
  ASSUME TasksInv, cast \in Casts, cast' = cast, alive, alive' = alive,
         NEW a \in Callers, tasks[a] # <<>>, Makes(Now(a)),
         NEW u, Makes(u), "env" \notin Range(u.do), Range(u.do) \cap Renewing = {},
         tasks' = [tasks EXCEPT ![a] = <<u>> \o Tail(tasks[a])]
  PROVE  Rendered(a, u)
  <1>1. PICK s, new : s = tasks[a] /\ new = tasks'[a]
    OBVIOUS
  <1>2. tasks \in [Callers -> Range(tasks)] /\ s \in Seq(Range(s)) /\ a \in {Main, Client}
    BY <1>1, TaskInHand DEF TasksInv
  <1>3. /\ \A c \in Callers : tasks'[c] \in Seq(Range(tasks'[c]))
        /\ tasks' \in [Callers -> Range(tasks')]
        /\ \A c \in Callers \ {a} : tasks'[c] = tasks[c]
        /\ Range(new) = {u} \cup Range(Tail(s))
        /\ Range(s) = {Now(a)} \cup Range(Tail(s)) /\ Now(a) = s[1]
        /\ Len(s) \in Nat \ {0} /\ DOMAIN s = 1..Len(s) /\ DOMAIN new = 1..Len(new)
        /\ Len(new) = Len(s) /\ new[1] = u
        /\ \A i \in 2..Len(s) : new[i] = s[i]
    <2>1. PICK front : front = <<u>>
      OBVIOUS
    <2>2. /\ front \in Seq(Range(front)) /\ Range(front) = {u} /\ Len(front) = 1 /\ front[1] = u
          /\ <<>> \in Seq(Range(<<>>)) /\ Range(<<>>) = {} /\ Len(<<>>) = 0
      BY <2>1, SmallLists
    <2>3. front \o Tail(s) \o <<>> = front \o Tail(s)
      <3>1. Range(front) \subseteq Range(front) \cup Range(s) /\ Range(s) \subseteq Range(front) \cup Range(s)
        OBVIOUS
      <3>2. Tail(s) \in Seq(Range(s))
        BY <1>1, <1>2
      <3>3. front \in Seq(Range(front) \cup Range(s)) /\ Tail(s) \in Seq(Range(front) \cup Range(s))
        BY <2>2, <3>1, <3>2, SeqWiden
      <3>. QED
        BY <3>3
    <2>4. tasks' = [tasks EXCEPT ![a] = front \o Tail(tasks[a]) \o <<>>]
      BY <1>1, <2>1, <2>3
    <2>5. Advancement(a, front, <<>>)
      BY <2>2, <2>4, Advanced
    <2>6. /\ \A c \in Callers : tasks'[c] \in Seq(Range(tasks'[c]))
          /\ tasks' \in [Callers -> Range(tasks')]
          /\ \A c \in Callers \ {a} : tasks'[c] = tasks[c]
          /\ Range(new) = Range(front) \cup Range(Tail(s)) \cup Range(<<>>)
          /\ Range(s) = {Now(a)} \cup Range(Tail(s)) /\ Now(a) = s[1]
          /\ Len(s) \in Nat \ {0} /\ DOMAIN s = 1..Len(s) /\ DOMAIN new = 1..Len(new)
          /\ Len(new) = Len(front) + (Len(s) - 1) + Len(<<>>)
          /\ \A i \in 1..Len(front) : new[i] = front[i]
          /\ \A i \in 2..Len(s) : new[Len(front) + (i - 1)] = s[i]
      BY <1>1, <2>5 DEF Advancement
    <2>7. Len(new) = Len(s) /\ new[1] = u
      BY <2>2, <2>6
    <2>8. \A i \in 2..Len(s) : new[i] = s[i]
      <3> SUFFICES ASSUME NEW i \in 2..Len(s) PROVE new[i] = s[i]
        OBVIOUS
      <3>1. new[Len(front) + (i - 1)] = s[i] /\ Len(front) + (i - 1) = i
        BY <2>2, <2>6
      <3>. QED
        BY <3>1
    <2>. QED
      BY <2>2, <2>6, <2>7, <2>8
  <1>4. /\ IsTodo(u) /\ "o" \in DOMAIN u /\ "of" \notin DOMAIN u /\ ~IsPurge(u) /\ Staged(u.do)
        /\ "of" \notin DOMAIN Now(a) /\ ~IsPurge(Now(a)) /\ "o" \in DOMAIN Now(a) /\ Now(a).do # <<"purge">>
    <2>1. IsTodo(u) /\ IsTodo(Now(a))
      BY DEF Makes
    <2>2. Now(a).do # <<"purge">>
      BY <2>1, TaskKinds, ShortTails DEF Staged
    <2>. QED
      BY <2>1, <2>2, TaskKinds
  <1>5. \A t : (IsTodo(t)' <=> IsTodo(t)) /\ (Makes(t)' <=> Makes(t)) /\ (IsListing(t)' <=> IsListing(t))
                /\ (IsPurge(t)' <=> IsPurge(t))
    BY DEF IsTodo, Makes, IsListing, IsPurge, Bodies
  <1>6. a = Client => Len(s) = 1 /\ Len(new) = 1 /\ \A t \in Range(new) : t = u
    <2>1. ASSUME a = Client PROVE Len(s) = 1
      <3>1. Now(a) \in Range(tasks[a])
        BY <1>1, <1>3
      <3>. QED
        BY <1>1, <2>1, <3>1 DEF TasksInv
    <2>2. ASSUME Len(s) = 1 PROVE \A t \in Range(new) : t = u
      BY <1>3, <2>2 DEF Range
    <2>. QED
      BY <1>3, <2>1, <2>2
  <1>7. TasksInv'
    <2>1. /\ \A c \in Clients \ {Client} : tasks'[c] = <<>>
          /\ ~alive' => \A c \in Callers : tasks'[c] = <<>>
      BY <1>2, <1>3 DEF TasksInv, Callers
    <2>2. \A t \in Range(tasks'[Main]) : IsListing(t) \/ Makes(t)
      <3>1. CASE a = Main
        <4>1. \A t \in Range(s) : IsListing(t) \/ Makes(t)
          BY <1>1, <3>1 DEF TasksInv
        <4>. QED
          BY <1>1, <1>3, <3>1, <4>1
      <3>2. CASE a # Main
        BY <1>3, <3>2, Kinds DEF TasksInv
      <3>. QED
        BY <3>1, <3>2
    <2>3. /\ \A t \in Range(tasks'[Client]) : IsTodo(t) \/ IsPurge(t)
          /\ (\E t \in Range(tasks'[Client]) : Makes(t)) => Len(tasks'[Client]) = 1
          /\ \A j \in DOMAIN tasks'[Client] : IsPurge(tasks'[Client][j]) => j = Len(tasks'[Client])
          /\ \A t \in Todos(Client)' :
               t.do # <<"env">> /\ Range(t.do) \cap {"data", "bind", "heal", "healTimer"} = {}
      <3>1. CASE a = Client
        <4>1. \A j \in DOMAIN new : new[j] = u
          BY <1>6, <3>1 DEF Range
        <4>2. u.do # <<"env">> /\ Range(u.do) \cap {"data", "bind", "heal", "healTimer"} = {}
          BY ShortTails DEF Renewing
        <4>. QED
          BY <1>1, <1>4, <1>6, <3>1, <4>1, <4>2 DEF Todos
      <3>2. CASE a # Client
        <4>1. tasks'[Client] = tasks[Client] /\ Todos(Client)' = Todos(Client)
          BY <1>3, <3>2, Kinds DEF Todos
        <4>. QED
          BY <4>1 DEF TasksInv
      <3>. QED
        BY <3>1, <3>2
    <2>4. \A c \in Callers : \A j \in DOMAIN tasks'[c] \ {1} :
            "quad" \in Range(tasks'[c][j].do) => "env" \in Range(tasks'[c][j].do)
      <3> SUFFICES ASSUME NEW c \in Callers, NEW j \in DOMAIN tasks'[c] \ {1}
                   PROVE  "quad" \in Range(tasks'[c][j].do) => "env" \in Range(tasks'[c][j].do)
        OBVIOUS
      <3>1. CASE c = a
        <4>1. j \in 2..Len(s) /\ j \in DOMAIN s \ {1}
          BY <1>1, <1>3, <3>1
        <4>2. "quad" \in Range(s[j].do) => "env" \in Range(s[j].do)
          BY <1>1, <1>2, <4>1 DEF TasksInv
        <4>. QED
          BY <1>1, <1>3, <3>1, <4>1, <4>2
      <3>2. CASE c # a
        BY <1>3, <3>2 DEF TasksInv
      <3>. QED
        BY <3>1, <3>2
    <2>. QED
      BY <1>3, <1>5, <2>1, <2>2, <2>3, <2>4 DEF TasksInv
  <1>8. /\ \A t \in Todos(a)' : t \in Todos(a) \/ t = u
        /\ \A t \in Todos(a) : t = Now(a) \/ t \in Todos(a)'
        /\ u \in Todos(a)'
    BY <1>1, <1>3, <1>4 DEF Todos
  <1>9. \A o, x : Listed(o, x)' <=> Listed(o, x)
    <2>1. CASE a = Main
      <3>1. \A t : "of" \in DOMAIN t => (t \in Range(new) <=> t \in Range(s))
        BY <1>3, <1>4
      <3>. QED
        BY <1>1, <2>1, <3>1 DEF Listed
    <2>2. CASE a # Main
      BY <1>3, <2>2, Kinds DEF Listed
    <2>. QED
      BY <2>1, <2>2
  <1>10. /\ Purging' <=> Purging
         /\ (\E t \in Range(tasks'[Client]) : t.do = <<"purge">>) =>
              \E t \in Range(tasks[Client]) : t.do = <<"purge">>
    <2>1. CASE a = Client
      <3>1. \A t \in Range(tasks'[Client]) : ~IsPurge(t) /\ t.do # <<"purge">>
        <4>1. "purge" \in Range(<<"purge">>) /\ "purge" \notin Range(u.do)
          BY <1>4, ShortTails DEF Staged
        <4>. QED
          BY <1>1, <1>4, <1>6, <2>1, <4>1
      <3>2. \A t \in Range(tasks[Client]) : t = Now(a)
        <4>0. 1..1 = {1}
          OBVIOUS
        <4>1. DOMAIN s = {1}
          BY <1>3, <1>6, <2>1, <4>0
        <4>. QED
          BY <1>1, <1>3, <2>1, <4>1 DEF Range
      <3>. QED
        BY <1>4, <1>5, <3>1, <3>2 DEF Purging
    <2>2. CASE a # Client
      <3>1. tasks'[Client] = tasks[Client]
        BY <1>3, <2>2, Kinds
      <3>. QED
        BY <1>5, <3>1 DEF Purging
    <2>. QED
      BY <2>1, <2>2
  <1>11. Now(a)' = u
    BY <1>1, <1>2, <1>3 DEF Now
  <1>12. Starting' => Starting
    BY <1>3, Kinds DEF Starting
  <1>13. OrderInv => OrderInv'
    <2>1. CASE a # Main
      <3>1. tasks'[Main] = tasks[Main]
        BY <1>3, <2>1, Kinds
      <3>. QED
        BY <3>1, ZenonT(40) DEF OrderInv, Restoring, Healing
    <2>2. CASE a = Main
      <3>0. OrderInv' <=> \A w \in cast : \A j \in DOMAIN new : Restoring(new[j], w) =>
                            \E k \in DOMAIN new : k > j /\ Healing(new[k], w)
        <4>1. new = tasks'[Main]
          BY <1>1, <2>2
        <4>. QED
          BY <4>1 DEF OrderInv, Restoring, Healing
      <3> SUFFICES ASSUME OrderInv, NEW w \in cast, NEW j \in DOMAIN new, Restoring(new[j], w)
                   PROVE  \E k \in DOMAIN new : k > j /\ Healing(new[k], w)
        BY <3>0
      <3>1. u.do # <<"env">>
        BY ShortTails
      <3>2. j \in 2..Len(s)
        BY <1>3, <1>4, <3>1 DEF Restoring
      <3>3. j \in DOMAIN s /\ new[j] = s[j]
        BY <1>3, <3>2
      <3>4. PICK k \in DOMAIN s : k > j /\ Healing(s[k], w)
        BY <1>1, <2>2, <3>3 DEF OrderInv
      <3>5. k \in 2..Len(s) /\ k \in DOMAIN new /\ new[k] = s[k]
        BY <1>3, <3>2, <3>4
      <3>. QED
        BY <3>4, <3>5
    <2>. QED
      BY <2>1, <2>2
  <1>. QED
    BY <1>3, <1>7, <1>8, <1>9, <1>10, <1>11, <1>12, <1>13 DEF Rendered

(* What follows the resolution of an env. *)
LEMMA EnvFirst ==
  \A do \in Shapes : Head(do) = "env" /\ do # <<"env">> =>
    /\ Tail(do) # <<>> /\ Tail(do) \in Shapes /\ Len(do) # 1 /\ Len(do) > 1
    /\ "quad" \in Range(Tail(do)) /\ Range(Tail(do)) \cap Renewing = {} /\ Range(Tail(do)) \subseteq Making
    /\ "timer" \in Range(do) => "timer" \in Range(Tail(do))
    /\ {"env", "quad"} \subseteq Range(do)
  <1> DEFINE Good(do) ==
        /\ Tail(do) # <<>> /\ Tail(do) \in Shapes /\ Len(do) # 1 /\ Len(do) > 1
        /\ "quad" \in Range(Tail(do)) /\ Range(Tail(do)) \cap Renewing = {} /\ Range(Tail(do)) \subseteq Making
        /\ "timer" \in Range(do) => "timer" \in Range(Tail(do))
        /\ {"env", "quad"} \subseteq Range(do)
  <1>1. \A do \in Shapes : Head(do) = "env" /\ do # <<"env">> =>
          do \in {<<"env", "quad">>, <<"env", "quad", "start">>, <<"env", "quad", "timer">>,
                  <<"env", "quad", "timer", "start">>}
    BY ShortTails, SMTT(30) DEF Shapes, Restores
  <1>2. \A do \in {<<"env", "quad">>, <<"env", "quad", "start">>, <<"env", "quad", "timer">>,
                  <<"env", "quad", "timer", "start">>} : do \in Shapes
    BY DEF Shapes
  <1>3. Good(<<"env", "quad">>)
    <2>1. Tail(<<"env", "quad">>) = <<"quad">>
      BY ShortTails
    <2>2. <<"quad">> \in Shapes
      BY DEF Shapes
    <2>. QED
      BY <2>1, <2>2, ShortTails DEF Making, Renewing
  <1>4. Good(<<"env", "quad", "start">>)
    <2>1. Tail(<<"env", "quad", "start">>) = <<"quad", "start">>
      BY ShortTails
    <2>2. <<"quad", "start">> \in Shapes
      BY DEF Shapes
    <2>. QED
      BY <2>1, <2>2, ShortTails DEF Making, Renewing
  <1>5. Good(<<"env", "quad", "timer">>)
    <2>1. Tail(<<"env", "quad", "timer">>) = <<"quad", "timer">>
      BY ShortTails
    <2>2. <<"quad", "timer">> \in Shapes
      BY DEF Shapes
    <2>. QED
      BY <2>1, <2>2, ShortTails DEF Making, Renewing
  <1>6. Good(<<"env", "quad", "timer", "start">>)
    <2>1. Tail(<<"env", "quad", "timer", "start">>) = <<"quad", "timer", "start">>
      BY ShortTails
    <2>2. <<"quad", "timer", "start">> \in Shapes
      BY DEF Shapes
    <2>. QED
      BY <2>1, <2>2, ShortTails DEF Making, Renewing
  <1> HIDE DEF Good
  <1>7. \A do \in Shapes : Head(do) = "env" /\ do # <<"env">> => Good(do)
    BY <1>1, <1>3, <1>4, <1>5, <1>6
  <1>. QED
    BY <1>7 DEF Good

(* Giving up a task that makes something takes no deletion back. *)
LEMMA GoneStands ==
  ASSUME NEW a \in Callers, Abandoned(a), Range(Now(a).do) \subseteq Making, obj' = obj
  PROVE  \A o : Gone(o)' <=> Gone(o)
  <1>1. ASSUME NEW o, Pending(Client, o, "drop") PROVE Pending(Client, o, "drop")'
    <2>1. PICK t \in Todos(Client) : t.o = o /\ "drop" \in Range(t.do)
      BY <1>1 DEF Pending
    <2>2. t \in Todos(Client)'
      <3>1. CASE a = Client
        <4>1. t # Now(a)
          BY <2>1 DEF Making, Renewing
        <4>. QED
          BY <3>1, <4>1 DEF Abandoned, Progress
      <3>2. CASE a # Client
        BY <3>2, Kinds DEF Abandoned, Progress, Todos
      <3>. QED
        BY <3>1, <3>2
    <2>. QED
      BY <2>1, <2>2 DEF Pending
  <1>2. \A o : Pending(Client, o, "drop")' => Pending(Client, o, "drop")
    BY Kinds DEF Abandoned
  <1>. QED
    BY <1>1, <1>2 DEF Gone, Exists, Abandoned

LEMMA EnvTypes ==
  /\ \A t \in Templates : FilesTypeOK => SecretEnv(t) \in Contents
  /\ \A t \in Templates : t.secret = Absent => DOMAIN SecretEnv(t) = {}
  <1>1. ASSUME NEW t \in Templates, FilesTypeOK PROVE SecretEnv(t) \in Contents
    <2>1. t.secret \in Secrets \cup {Absent}
      OBVIOUS
    <2>2. DataOf(t.secret) \in Contents
      <3>1. CASE t.secret = Absent \/ obj[t.secret] = Absent
        <4>1. DataOf(t.secret) = Nothing
          BY <3>1 DEF DataOf
        <4>2. Nothing \in [{} -> Values]
          BY DEF Nothing
        <4>. QED
          BY <4>1, <4>2 DEF Contents
      <3>2. CASE t.secret # Absent /\ obj[t.secret] # Absent
        <4>1. t.secret \in Secrets /\ t.secret \notin ConfigMaps /\ t.secret \in Objects
          BY <2>1, <3>2, Kinds
        <4>2. DataOf(t.secret) = obj[t.secret] /\ obj[t.secret] \in Bodies(t.secret)
          BY <1>1, <3>2, <4>1 DEF DataOf, FilesTypeOK, Exists
        <4>. QED
          BY <4>1, <4>2, BodyTypes
      <3>. QED
        BY <3>1, <3>2
    <2>3. \A K : [k \in DOMAIN DataOf(t.secret) \cap K |-> DataOf(t.secret)[k]] \in Contents
      BY <2>2, Merging
    <2>. QED
      BY <2>3 DEF SecretEnv, Referred
  <1>2. ASSUME NEW t \in Templates, t.secret = Absent PROVE DOMAIN SecretEnv(t) = {}
    BY <1>2 DEF SecretEnv, Referred, DataOf, Nothing
  <1>. QED
    BY <1>1, <1>2

(* A workload that env is resolved for. *)
LEMMA EnvInHand ==
  ASSUME FilesInv, NEW a \in Callers, On(a, "env")
  PROVE  /\ tasks[a] # <<>> /\ IsTodo(Now(a)) /\ Makes(Now(a)) /\ Now(a) \in Todos(a) /\ alive
         /\ Head(Now(a).do) = "env" /\ "env" \in Range(Now(a).do) /\ Now(a).do \in Shapes
         /\ Now(a).o \in Workloads /\ Now(a).b \in Templates /\ MakingTask(a, "env")
         /\ a = Client /\ Starting => Now(a).o \in blurred
         /\ a = Main => Starting
         /\ a \in {Main, Client}
  <1>1. TasksInv /\ BlurInv /\ cast \in Casts
    BY DEF FilesInv
  <1>2. /\ tasks[a] # <<>> /\ IsTodo(Now(a)) /\ Now(a) \in Todos(a) /\ alive
        /\ Head(Now(a).do) = "env" /\ "env" \in Range(Now(a).do) /\ Now(a).do \in Shapes
    BY <1>1, StageInHand DEF IsTodo
  <1>3. Now(a).o \in Workloads /\ Now(a).b \in Templates
    <2>1. Now(a).o \in Workloads /\ Now(a).b \in Bodies(Now(a).o)
      BY <1>2 DEF IsTodo, Fits, Renewing
    <2>. QED
      BY <2>1, BodyTypes
  <1>4. MakingTask(a, "env")
    BY MakingStage DEF Making, Renewing
  <1>5. Makes(Now(a))
    BY <1>2, <1>4 DEF Makes, MakingTask
  <1>6. a \in {Main, Client}
    BY <1>1, <1>2, TaskInHand
  <1>. QED
    BY <1>1, <1>2, <1>3, <1>4, <1>5, <1>6 DEF BlurInv, Starting

(* A workload whose env cannot be rendered is passed over. *)
LEMMA ResolveFails ==
  ASSUME FilesInv, NEW a \in Callers, On(a, "env"), Abandon(a), NEW w, w = Now(a).o,
         UNCHANGED <<cast, obj, dir, env, quad, timer, running, alive, stale>>,
         lost' = lost \cup {w}, blurred' = IF a = Main THEN blurred ELSE blurred \cup {w}
  PROVE  FilesInv'
  <1>1. TasksInv /\ BlurInv /\ OrderInv /\ MomentInv /\ cast \in Casts /\ FilesTypeOK
    BY DEF FilesInv
  <1>2. /\ tasks[a] # <<>> /\ IsTodo(Now(a)) /\ w \in Workloads /\ w \in Objects /\ w \notin Dirs /\ w \notin Claims
        /\ MakingTask(a, "env") /\ a \in {Main, Client}
    BY EnvInHand, Kinds
  <1>3. Abandoned(a)
    BY <1>1, TaskDone
  <1>4. Progress(a) /\ alive' /\ (Purging' <=> Purging)
    BY <1>3 DEF Abandoned
  <1>5. \A o : Gone(o)' <=> Gone(o)
    BY <1>2, <1>3, GoneStands DEF MakingTask
  <1>6. TasksInv' /\ OrderInv'
    BY <1>1, <1>4 DEF Progress
  <1>7. BlurInv'
    BY <1>2, <1>4, <1>5, BlurKept
  <1>8. FileTypes'
    BY <1>1, <1>2 DEF FilesTypeOK, FileTypes
  <1>9. FilesTypeOK'
    BY <1>1, <1>6, <1>8, TypesKept DEF FilesTypeOK, Exists
  <1>10. \A x \in Workloads : EnvFits(x) => EnvFits(x)'
    BY DEF EnvFits, SecretEnv, DataOf, Referred
  <1>11. MomentInv'
    <2>1. \A c \in Callers : (InHand(c) /\ Now(c).o \notin blurred /\ Now(c).b.file => EnvFits(Now(c).o))'
      <3> SUFFICES ASSUME NEW c \in Callers, (InHand(c) /\ Now(c).o \notin blurred /\ Now(c).b.file)'
                   PROVE  EnvFits(Now(c).o)'
        OBVIOUS
      <3>1. InHand(c) /\ Now(c)' = Now(c)
        BY <1>4 DEF Progress
      <3>2. EnvFits(Now(c).o)
        BY <1>1, <3>1 DEF MomentInv
      <3>3. PICK x : x = Now(c).o
        OBVIOUS
      <3>4. x \in Workloads
        BY <1>1, <3>1, <3>3, TaskInHand, TaskKinds DEF InHand, IsTodo, Fits
      <3>5. EnvFits(x)'
        BY <1>10, <3>2, <3>3, <3>4
      <3>. QED
        BY <3>1, <3>3, <3>5
    <2>2. (\E t \in Range(tasks'[Client]) : t.do = <<"purge">>) => \A x \in Workloads \ blurred' : env'[x] = Absent
      BY <1>1, <1>4 DEF MomentInv, Progress
    <2>. QED
      BY <1>4, <2>1, <2>2 DEF MomentInv
  <1>12. ASSUME NEW o \in Objects, o # w PROVE Fine(o)'
    <2>1. /\ \A x : Pending(Client, o, x)' <=> Pending(Client, o, x)
          /\ \A x : AtStart(o, x) => AtStart(o, x)'
      BY <1>3, <1>12, Kinds DEF Abandoned
    <2>2. Steady(o)
      BY <1>4, <1>5, <1>10, <2>1 DEF Steady
    <2>3. Fine(o)
      BY DEF FilesInv
    <2>. QED
      BY <2>2, <2>3, StillFine
  <1>13. Fine(w)'
    <2>1. DirFine(w)' /\ EnvFine(w)'
      BY <1>2 DEF DirFine, EnvFine
    <2>2. OrphanFine(w)'
      BY <1>2, <1>5 DEF OrphanFine, MakingTask
    <2>3. RenderFine(w)'
      <3>1. CASE a = Main
        <4>1. Pending(Client, w, "quad")' <=> Pending(Client, w, "quad")
          BY <1>3, <3>1, Kinds DEF Abandoned
        <4>2. RenderFine(w)
          BY <1>2 DEF FilesInv, Fine
        <4>. QED
          BY <1>2, <1>5, <3>1, <4>1, <4>2 DEF RenderFine
      <3>2. CASE a # Main
        BY <1>2, <3>2 DEF RenderFine
      <3>. QED
        BY <3>1, <3>2
    <2>. QED
      BY <2>1, <2>2, <2>3 DEF Fine
  <1>. QED
    BY <1>1, <1>6, <1>7, <1>9, <1>11, <1>12, <1>13 DEF FilesInv

(* RestoreEnvFiles renders w's env again. *)
LEMMA ResolveRestores ==
  ASSUME FilesInv, On(Main, "env"), Now(Main).do = <<"env">>, Abandon(Main),
         NEW w, w = Now(Main).o, NEW t, t = Now(Main).b,
         UNCHANGED <<cast, obj, dir, quad, timer, running, alive, blurred>>,
         env' = IF DOMAIN SecretEnv(t) # {} THEN [env EXCEPT ![w] = SecretEnv(t)] ELSE env,
         lost' = IF DOMAIN SecretEnv(t) # {} \/ t.secret = Absent THEN lost \ {w} ELSE lost \cup {w},
         stale' = stale \ {w}
  PROVE  FilesInv'
  <1>1. TasksInv /\ BlurInv /\ OrderInv /\ MomentInv /\ cast \in Casts /\ FilesTypeOK /\ Main \in Callers
    BY Kinds DEF FilesInv
  <1>2. /\ tasks[Main] # <<>> /\ IsTodo(Now(Main)) /\ w \in Workloads /\ w \in Objects /\ w \notin Dirs
        /\ w \notin Claims /\ MakingTask(Main, "env") /\ Starting /\ t \in Templates
    BY <1>1, EnvInHand, Kinds
  <1>3. Abandoned(Main)
    BY <1>1, TaskDone
  <1>4. Progress(Main) /\ alive /\ alive' /\ (Purging' <=> Purging)
    BY <1>3 DEF Abandoned
  <1>5. \A o : Gone(o)' <=> Gone(o)
    BY <1>1, <1>2, <1>3, GoneStands DEF MakingTask
  <1>6. TasksInv' /\ OrderInv'
    BY <1>1, <1>4 DEF Progress
  <1>7. BlurInv'
    BY <1>1, <1>2, <1>4, <1>5, BlurKept
  <1>8. SecretEnv(t) \in Contents /\ SecretEnv(t) # Absent
    BY <1>1, <1>2, EnvTypes, BodyTypes
  <1>9. FileTypes'
    BY <1>1, <1>2, <1>8, SMTT(30) DEF FilesTypeOK, FileTypes
  <1>10. FilesTypeOK'
    BY <1>1, <1>6, <1>9, TypesKept, SMTT(30) DEF FilesTypeOK, Exists
  <1>11. \A x \in Workloads \ {w} : env'[x] = env[x] /\ (EnvFits(x) => EnvFits(x)')
    <2>1. \A x \in Workloads \ {w} : env'[x] = env[x] /\ (x \in stale' <=> x \in stale)
      BY <1>1 DEF FilesTypeOK
    <2>2. \A u : SecretEnv(u)' = SecretEnv(u)
      BY Zenon DEF SecretEnv, DataOf, Referred
    <2>. QED
      BY <2>1, <2>2, Zenon DEF EnvFits
  <1>12. w \notin blurred => ~Gone(w) /\ Exists(w) /\ ~Purging /\ t = obj[w] /\ \A x : ~Pending(Client, w, x)
    BY <1>2, Kinds DEF MakingTask, Renewing
  <1>13. MomentInv'
    <2>1. \A c \in Callers : (InHand(c) /\ Now(c).o \notin blurred /\ Now(c).b.file => EnvFits(Now(c).o))'
      <3> SUFFICES ASSUME NEW c \in Callers, (InHand(c) /\ Now(c).o \notin blurred /\ Now(c).b.file)'
                   PROVE  FALSE
        OBVIOUS
      <3>1. c # Main /\ InHand(c) /\ Now(c)' = Now(c)
        BY <1>4 DEF Progress
      <3>2. Now(c) \in Todos(c) /\ c = Client
        BY <1>1, <3>1, TaskInHand DEF InHand, Todos
      <3>. QED
        BY <1>1, <1>2, <3>1, <3>2 DEF BlurInv
    <2>2. (\E u \in Range(tasks'[Client]) : u.do = <<"purge">>) => \A x \in Workloads \ blurred' : env'[x] = Absent
      <3> SUFFICES ASSUME \E u \in Range(tasks'[Client]) : u.do = <<"purge">>
                   PROVE  \A x \in Workloads \ blurred : env'[x] = Absent
        OBVIOUS
      <3>1. PICK u \in Range(tasks[Client]) : u.do = <<"purge">>
        BY <1>4 DEF Progress
      <3>2. IsPurge(u)
        <4>1. "purge" \in Range(<<"purge">>)
          BY ShortTails
        <4>. QED
          BY <1>1, <3>1, <4>1, TaskKinds DEF TasksInv, Staged
      <3>3. Purging
        BY <3>1, <3>2 DEF Purging
      <3>4. w \in blurred
        BY <1>12, <3>3
      <3>. QED
        BY <1>1, <1>11, <3>1, <3>4 DEF MomentInv
    <2>. QED
      BY <1>4, <2>1, <2>2 DEF MomentInv
  <1>14. ASSUME NEW o \in Objects, o # w PROVE Fine(o)'
    <2>1. /\ \A x : Pending(Client, o, x)' <=> Pending(Client, o, x)
          /\ \A x : AtStart(o, x) => AtStart(o, x)'
      BY <1>3, <1>14, Kinds DEF Abandoned
    <2>2. Steady(o)
      BY <1>4, <1>5, <1>11, <1>14, <2>1 DEF Steady
    <2>3. Fine(o)
      BY DEF FilesInv
    <2>. QED
      BY <2>2, <2>3, StillFine
  <1>15. Fine(w)'
    <2>1. DirFine(w)'
      BY <1>2 DEF DirFine
    <2>2. OrphanFine(w)'
      BY <1>5, <1>12 DEF OrphanFine
    <2>3. AtStart(w, "heal")' /\ (w \in CronJobs => AtStart(w, "healTimer")')
      <3>1. tasks[Main][1] = Now(Main) /\ 1 \in DOMAIN tasks[Main] /\ w \in cast /\ "o" \in DOMAIN Now(Main)
        BY <1>1, <1>2, TaskInHand DEF IsTodo
      <3>2. Restoring(tasks[Main][1], w)
        BY <3>1 DEF Restoring
      <3>3. PICK k \in DOMAIN tasks[Main] : Healing(tasks[Main][k], w)
        BY <1>1, <3>1, <3>2 DEF OrderInv
      <3>4. tasks[Main][k] \in Range(tasks[Main])
        BY DEF Range
      <3>5. Listed(w, "heal") /\ (w \in CronJobs => Listed(w, "healTimer"))
        BY <3>3, <3>4 DEF Healing, Listed
      <3>6. Listed(w, "heal")' /\ (w \in CronJobs => Listed(w, "healTimer")')
        BY <1>4, <3>5 DEF Progress
      <3>. QED
        BY <3>6 DEF AtStart
    <2>4. RenderFine(w)
      BY <1>2 DEF FilesInv, Fine
    <2>5. w \notin blurred => ~Pending(Client, w, "quad")'
      BY <1>3, <1>12, Kinds DEF Abandoned
    <2>6. w \notin blurred /\ quad[w] # Absent => quad[w].t = obj[w] /\ (quad[w].file => obj[w].secret # Absent)
      BY <1>2, <1>12, <2>4 DEF RenderFine
    <2>7. RenderFine(w)'
      BY <1>2, <2>3, <2>6 DEF RenderFine
    <2>8. EnvFine(w)'
      <3> SUFFICES ASSUME w \notin blurred, w \notin lost', quad[w] # Absent, quad[w].file
                   PROVE  EnvFits(w)'
        BY DEF EnvFine
      <3>1. DOMAIN SecretEnv(t) # {} /\ t = obj[w]
        BY <1>12, <2>6
      <3>2. env'[w] = SecretEnv(t)
        BY <1>1, <1>2, <3>1 DEF FilesTypeOK
      <3>3. env'[w] = SecretEnv(obj[w])'
        <4>1. SecretEnv(obj[w])' = SecretEnv(obj[w])
          BY DEF SecretEnv, DataOf, Referred
        <4>2. SecretEnv(t) = SecretEnv(obj[w])
          BY <3>1 DEF SecretEnv
        <4>. QED
          BY <3>2, <4>1, <4>2
      <3>. QED
        BY <1>8, <3>2, <3>3 DEF EnvFits
    <2>. QED
      BY <2>1, <2>2, <2>7, <2>8 DEF Fine
  <1>. QED
    BY <1>1, <1>6, <1>7, <1>10, <1>13, <1>14, <1>15 DEF FilesInv

(* What was resolved is on its way to the quadlet file. *)
LEMMA ResolveRenders ==
  ASSUME FilesInv, NEW a \in Callers, On(a, "env"), Now(a).do # <<"env">>,
         NEW w, w = Now(a).o, NEW t, t = Now(a).b,
         NEW u, u = Todo(Tail(Now(a).do), w, Rendering(t)),
         tasks' = [tasks EXCEPT ![a] = <<u>> \o Tail(tasks[a])],
         UNCHANGED <<cast, obj, dir, quad, timer, running, alive, blurred>>,
         env' = IF DOMAIN SecretEnv(t) # {} THEN [env EXCEPT ![w] = SecretEnv(t)] ELSE env,
         lost' = lost \ {w}, stale' = stale \ {w}
  PROVE  FilesInv'
  <1>1. TasksInv /\ BlurInv /\ OrderInv /\ MomentInv /\ cast \in Casts /\ FilesTypeOK
    BY DEF FilesInv
  <1>2. /\ tasks[a] # <<>> /\ IsTodo(Now(a)) /\ Makes(Now(a)) /\ Now(a) \in Todos(a) /\ alive
        /\ Head(Now(a).do) = "env" /\ Now(a).do \in Shapes /\ "env" \in Range(Now(a).do)
        /\ w \in Workloads /\ w \in Objects /\ w \notin Dirs /\ w \notin Claims /\ w \in cast
        /\ t \in Templates /\ MakingTask(a, "env") /\ a \in {Main, Client}
        /\ (a = Client /\ Starting => w \in blurred) /\ (a = Main => Starting) /\ Fits(Now(a).do, w)
    BY EnvInHand, Kinds DEF IsTodo
  <1>3. /\ u.do = Tail(Now(a).do) /\ u.o = w /\ u.b = Rendering(t) /\ "o" \in DOMAIN u
        /\ u.do \in Shapes /\ "quad" \in Range(u.do) /\ Range(u.do) \cap Renewing = {}
        /\ Range(u.do) \subseteq Making /\ "env" \notin Range(u.do)
        /\ (w \in CronJobs => "timer" \in Range(u.do))
    <2>1. u.do = Tail(Now(a).do) /\ u.o = w /\ u.b = Rendering(t) /\ "o" \in DOMAIN u
      BY TodoFields
    <2>2. /\ Tail(Now(a).do) \in Shapes
          /\ "quad" \in Range(Tail(Now(a).do)) /\ Range(Tail(Now(a).do)) \cap Renewing = {}
          /\ Range(Tail(Now(a).do)) \subseteq Making
          /\ "timer" \in Range(Now(a).do) => "timer" \in Range(Tail(Now(a).do))
          /\ {"env", "quad"} \subseteq Range(Now(a).do)
      BY <1>2, EnvFirst
    <2>3. w \in CronJobs => "timer" \in Range(Now(a).do)
      BY <1>2, <2>2 DEF Fits
    <2>4. "env" \notin Range(Tail(Now(a).do))
      BY <2>2 DEF Renewing
    <2>. QED
      BY <2>1, <2>2, <2>3, <2>4
  <1>4. u.b \in [t : Templates, file : BOOLEAN] /\ u.b.t = t /\ u.b.file = (DOMAIN SecretEnv(t) # {})
    <2>1. PICK f \in BOOLEAN : f = (DOMAIN SecretEnv(t) # {})
      OBVIOUS
    <2>2. u.b = [t |-> t, file |-> f]
      BY <1>3, <2>1 DEF Rendering
    <2>3. u.b.t = t /\ u.b.file = f /\ u.b \in [t : Templates, file : BOOLEAN]
      BY <1>2, <2>2
    <2>. QED
      BY <2>1, <2>3, Zenon
  <1>5. Makes(u)
    <2>1. Fits(u.do, u.o)
      <3>1. Range(u.do) \subseteq {"prune", "quad", "timer", "start"}
        BY <1>3 DEF Making
      <3>2. Range(u.do) \subseteq Range(Now(a).do)
        BY <1>1, <1>2, <1>3, TaskKinds DEF Staged
      <3>. QED
        BY <1>2, <1>3, <3>1, <3>2 DEF Fits
    <2>. QED
      BY <1>2, <1>3, <1>4, <2>1 DEF Makes, IsTodo
  <1>6. Rendered(a, u)
    BY <1>1, <1>2, <1>3, <1>5, Renders
  <1>7. TasksInv' /\ OrderInv' /\ (Purging' <=> Purging) /\ (Starting' => Starting) /\ u \in Todos(a)'
    BY <1>1, <1>6 DEF Rendered
  <1>8. \A o, x : o # w => (Pending(Client, o, x)' <=> Pending(Client, o, x))
    BY <1>2, <1>3, <1>6, Kinds DEF Pending, Rendered, Todos
  <1>9. \A o, x : o # w /\ AtStart(o, x) => AtStart(o, x)'
    BY <1>2, <1>3, <1>6, Kinds DEF AtStart, Pending, Rendered, Todos
  <1>10. \A x : x \in Range(u.do) => (a = Client => Pending(Client, w, x)') /\ (a = Main => AtStart(w, x)')
    BY <1>3, <1>7 DEF AtStart, Pending
  <1>11. a = Main => Todos(Client)' = Todos(Client) /\ \A x : Pending(Client, w, x)' <=> Pending(Client, w, x)
    BY <1>6, Kinds DEF Rendered, Pending, Todos
  <1>12. \A o : Gone(o)' <=> Gone(o)
    <2>1. Pending(Client, w, "drop")' <=> Pending(Client, w, "drop")
      <3>1. CASE a = Main
        BY <1>11, <3>1
      <3>2. CASE a = Client
        <4>1. "drop" \notin Range(u.do) /\ "drop" \notin Range(Now(a).do)
          BY <1>3, <1>2 DEF Making, Renewing, MakingTask
        <4>2. \A y \in Todos(Client) : "drop" \in Range(y.do) => y \in Todos(Client)'
          BY <1>6, <3>2, <4>1 DEF Rendered
        <4>3. \A y \in Todos(Client)' : "drop" \in Range(y.do) => y \in Todos(Client)
          BY <1>6, <3>2, <4>1 DEF Rendered
        <4>. QED
          BY <4>2, <4>3 DEF Pending
      <3>. QED
        BY <1>2, <3>1, <3>2
    <2>2. \A o : Pending(Client, o, "drop")' <=> Pending(Client, o, "drop")
      BY <1>8, <2>1
    <2>. QED
      BY <1>7, <2>2 DEF Gone, Exists
  <1>13. SecretEnv(t) \in Contents /\ SecretEnv(t) # Absent
    BY <1>1, <1>2, EnvTypes, BodyTypes
  <1>14. FileTypes'
    BY <1>1, <1>2, <1>13 DEF FilesTypeOK, FileTypes
  <1>15. FilesTypeOK'
    BY <1>1, <1>7, <1>14, TypesKept DEF FilesTypeOK, Exists
  <1>16. \A x \in Workloads \ {w} : env'[x] = env[x] /\ (EnvFits(x) => EnvFits(x)')
    <2> SUFFICES ASSUME NEW x \in Workloads \ {w} PROVE env'[x] = env[x] /\ (EnvFits(x) => EnvFits(x)')
      OBVIOUS
    <2>1. env'[x] = env[x]
      BY <1>1 DEF FilesTypeOK
    <2>2. SecretEnv(obj[x])' = SecretEnv(obj[x])
      BY DEF SecretEnv, DataOf, Referred
    <2>. QED
      BY <2>1, <2>2 DEF EnvFits
  <1>17. w \notin blurred => ~Gone(w) /\ Exists(w) /\ ~Purging /\ t = obj[w]
    BY <1>2 DEF MakingTask, Renewing
  <1>18. BlurInv'
    <2>1. Starting' => \A y \in Todos(Client)' : y.o \in blurred'
      BY <1>1, <1>2, <1>3, <1>6, <1>7, Kinds DEF BlurInv, Rendered, Todos
    <2>2. Starting' /\ Purging' => \A o \in Objects : Exists(o)' => o \in blurred'
      BY <1>1, <1>7 DEF BlurInv, Exists
    <2>3. \A y : Makes(y)' <=> Makes(y)
      BY DEF Makes, IsTodo, Bodies
    <2>4. \A y \in Todos(Client)' : Makes(y)' \/ Gone(y.o)'
      <3> SUFFICES ASSUME NEW y \in Todos(Client)' PROVE Makes(y) \/ Gone(y.o)
        BY <1>12, <2>3
      <3>1. y \in Todos(Client) \/ y = u
        BY <1>2, <1>6, Kinds DEF Rendered, Todos
      <3>. QED
        BY <1>1, <1>5, <3>1 DEF BlurInv
    <2>5. \A c \in Callers : \A y \in Todos(c)' : y.o \notin blurred' /\ Range(y.do) \subseteq Making =>
            /\ Exists(y.o)'
            /\ Range(y.do) \cap Renewing # {} => y.b = obj'[y.o]
            /\ "quad" \in Range(y.do) /\ "env" \notin Range(y.do) =>
                 y.b.t = obj'[y.o] /\ (y.b.file => y.b.t.secret # Absent)
      <3> SUFFICES ASSUME NEW c \in Callers, NEW y \in Todos(c)', y.o \notin blurred, Range(y.do) \subseteq Making
                   PROVE  /\ Exists(y.o)
                          /\ Range(y.do) \cap Renewing # {} => y.b = obj[y.o]
                          /\ "quad" \in Range(y.do) /\ "env" \notin Range(y.do) =>
                               y.b.t = obj[y.o] /\ (y.b.file => y.b.t.secret # Absent)
        BY DEF Exists
      <3>1. CASE y \in Todos(c)
        BY <1>1, <3>1 DEF BlurInv
      <3>2. CASE y = u
        <4>1. Exists(w) /\ t = obj[w] /\ (u.b.file => t.secret # Absent)
          BY <1>2, <1>3, <1>4, <1>17, <3>2, EnvTypes
        <4>. QED
          BY <1>3, <1>4, <3>2, <4>1
      <3>. QED
        BY <1>6, <3>1, <3>2 DEF Rendered, Todos
    <2>6. \A o \in Objects : Exists(o)' => o \in cast'
      BY <1>1 DEF BlurInv, Exists
    <2>. QED
      BY <2>1, <2>2, <2>4, <2>5, <2>6 DEF BlurInv
  <1>19. ASSUME w \notin blurred, DOMAIN SecretEnv(t) # {} PROVE EnvFits(w)'
    <2>1. env'[w] = SecretEnv(t) /\ t = obj[w]
      BY <1>1, <1>2, <1>17, <1>19 DEF FilesTypeOK
    <2>2. SecretEnv(obj[w])' = SecretEnv(obj[w])
      BY DEF SecretEnv, DataOf, Referred
    <2>3. SecretEnv(t) = SecretEnv(obj[w])
      BY <2>1 DEF SecretEnv
    <2>. QED
      BY <1>13, <2>1, <2>2, <2>3 DEF EnvFits
  <1>20. MomentInv'
    <2>1. \A c \in Callers : (InHand(c) /\ Now(c).o \notin blurred /\ Now(c).b.file => EnvFits(Now(c).o))'
      <3> SUFFICES ASSUME NEW c \in Callers, (InHand(c) /\ Now(c).o \notin blurred /\ Now(c).b.file)'
                   PROVE  EnvFits(Now(c).o)'
        OBVIOUS
      <3>1. CASE c = a
        <4>1. Now(c)' = u
          BY <1>6, <3>1 DEF Rendered
        <4>2. EnvFits(w)'
          BY <1>3, <1>4, <1>19, <4>1
        <4>. QED
          BY <1>3, <4>1, <4>2
      <3>2. CASE c # a
        <4>1. tasks'[c] = tasks[c]
          BY <1>6, <3>2 DEF Rendered
        <4>2. InHand(c) /\ Now(c)' = Now(c) /\ Now(c).o \notin blurred
          <5>1. InHand(c)
            BY <4>1 DEF InHand, Now
          <5>2. Now(c)' = Now(c)
            BY <4>1 DEF Now
          <5>. QED
            BY <5>1, <5>2
        <4>3. EnvFits(Now(c).o)
          BY <1>1, <4>1, <4>2 DEF MomentInv, InHand
        <4>4. PICK x : x = Now(c).o
          OBVIOUS
        <4>5. x \in Workloads /\ c \in {Main, Client} /\ Now(c) \in Todos(c)
          BY <1>1, <4>2, <4>4, TaskInHand, TaskKinds DEF InHand, IsTodo, Fits, Todos
        <4>6. x # w
          <5>1. CASE c = Client
            <6>1. Starting
              BY <1>2, <3>2, <5>1
            <6>. QED
              BY <1>1, <4>2, <4>5, <5>1, <6>1 DEF BlurInv
          <5>2. CASE c = Main
            <6>1. a = Client /\ Starting
              BY <1>2, <3>2, <4>2, <5>2 DEF InHand, Starting
            <6>. QED
              BY <1>2, <4>2, <4>4, <6>1
          <5>. QED
            BY <4>5, <5>1, <5>2
        <4>7. EnvFits(x)'
          BY <1>16, <4>3, <4>4, <4>5, <4>6
        <4>. QED
          BY <4>2, <4>4, <4>7
      <3>. QED
        BY <3>1, <3>2
    <2>2. (\E y \in Range(tasks'[Client]) : y.do = <<"purge">>) => \A x \in Workloads \ blurred' : env'[x] = Absent
      <3> SUFFICES ASSUME \E y \in Range(tasks'[Client]) : y.do = <<"purge">>
                   PROVE  \A x \in Workloads \ blurred : env'[x] = Absent
        OBVIOUS
      <3>1. PICK y \in Range(tasks[Client]) : y.do = <<"purge">>
        BY <1>6 DEF Rendered
      <3>2. IsPurge(y)
        <4>1. "purge" \in Range(<<"purge">>)
          BY ShortTails
        <4>. QED
          BY <1>1, <3>1, <4>1, TaskKinds DEF TasksInv, Staged
      <3>3. Purging
        BY <3>1, <3>2 DEF Purging
      <3>4. w \in blurred
        BY <1>17, <3>3
      <3>. QED
        BY <1>1, <1>16, <3>1, <3>4 DEF MomentInv
    <2>. QED
      BY <1>2, <2>1, <2>2 DEF MomentInv
  <1>21. ASSUME NEW o \in Objects, o # w PROVE Fine(o)'
    <2>1. Steady(o)
      BY <1>7, <1>8, <1>9, <1>12, <1>16, <1>21 DEF Steady
    <2>2. Fine(o)
      BY DEF FilesInv
    <2>. QED
      BY <2>1, <2>2, StillFine
  <1>22. Fine(w)'
    <2>1. DirFine(w)'
      BY <1>2 DEF DirFine
    <2>2. OrphanFine(w)'
      BY <1>12, <1>17 DEF OrphanFine
    <2>3. Pending(Client, w, "quad")' \/ AtStart(w, "quad")'
      BY <1>2, <1>3, <1>10
    <2>4. w \in CronJobs => Pending(Client, w, "timer")' \/ AtStart(w, "timer")'
      BY <1>2, <1>3, <1>10
    <2>5. w \notin blurred /\ quad[w] # Absent /\ ~Pending(Client, w, "quad")' =>
            quad[w].t = obj[w] /\ (quad[w].file => obj[w].secret # Absent)
      <3>1. RenderFine(w)
        BY <1>2 DEF FilesInv, Fine
      <3>2. CASE a = Client
        BY <1>3, <1>10, <3>2
      <3>3. CASE a = Main
        BY <1>2, <1>11, <1>17, <3>1, <3>3 DEF RenderFine
      <3>. QED
        BY <1>2, <3>2, <3>3
    <2>6. RenderFine(w)'
      BY <1>2, <2>3, <2>4, <2>5 DEF RenderFine
    <2>7. EnvFine(w)'
      BY <2>3 DEF EnvFine
    <2>. QED
      BY <2>1, <2>2, <2>6, <2>7 DEF Fine
  <1>. QED
    BY <1>1, <1>7, <1>15, <1>18, <1>20, <1>21, <1>22 DEF FilesInv

LEMMA ResolveEnvInv ==
  ASSUME FilesInv, NEW a \in Callers, ResolveEnv(a)
  PROVE  FilesInv'
  <1>1. TasksInv /\ cast \in Casts /\ On(a, "env")
    BY DEF FilesInv, ResolveEnv
  <1>2. PICK w, t : w = Now(a).o /\ t = Now(a).b
    OBVIOUS
  <1>4. UNCHANGED <<cast, obj, dir, quad, timer, running, alive>>
    BY DEF ResolveEnv, units
  <1>5. Head(Now(a).do) = "env" /\ Now(a).do \in Shapes /\ a \in {Main, Client} /\ Now(a) \in Todos(a)
    BY <1>1, EnvInHand
  <1>6. CASE ~(Resolvable(t) /\ Writable(t))
    <2>1. /\ Abandon(a) /\ env' = env /\ lost' = lost \cup {w} /\ stale' = stale
          /\ blurred' = IF a = Main THEN blurred ELSE blurred \cup {w}
      BY <1>2, <1>6 DEF ResolveEnv
    <2>. QED
      BY <1>1, <1>2, <1>4, <2>1, ResolveFails
  <1>7. CASE Resolvable(t) /\ Writable(t)
    <2>1. /\ tasks' = [tasks EXCEPT ![a] =
                (IF Len(Now(a).do) = 1 THEN <<>> ELSE <<Todo(Tail(Now(a).do), w, Rendering(t))>>) \o Tail(tasks[a])]
          /\ env' = IF DOMAIN SecretEnv(t) # {} THEN [env EXCEPT ![w] = SecretEnv(t)] ELSE env
          /\ lost' = IF DOMAIN SecretEnv(t) # {} \/ t.secret = Absent \/ Len(Now(a).do) > 1 THEN lost \ {w} ELSE lost \cup {w}
          /\ stale' = stale \ {w} /\ blurred' = blurred
      BY <1>2, <1>7 DEF ResolveEnv
    <2>2. CASE Now(a).do = <<"env">>
      <3>1. Len(Now(a).do) = 1
        BY <2>2
      <3>2. a = Main
        BY <1>1, <1>5, <2>2 DEF TasksInv
      <3>3. Abandon(a)
        <4>1. <<>> \o <<>> = <<>>
          OBVIOUS
        <4>. QED
          BY <2>1, <3>1, <4>1 DEF Abandon, Finish
      <3>. QED
        <4>1. On(Main, "env") /\ Now(Main).do = <<"env">> /\ Abandon(Main) /\ w = Now(Main).o /\ t = Now(Main).b
          BY <1>1, <1>2, <2>2, <3>2, <3>3
        <4>2. /\ env' = IF DOMAIN SecretEnv(t) # {} THEN [env EXCEPT ![w] = SecretEnv(t)] ELSE env
              /\ lost' = IF DOMAIN SecretEnv(t) # {} \/ t.secret = Absent THEN lost \ {w} ELSE lost \cup {w}
          <5>1. ~(Len(Now(a).do) > 1)
            BY <3>1
          <5>. QED
            BY <2>1, <5>1
        <4>. QED
          BY <1>4, <2>1, <4>1, <4>2, ResolveRestores
    <2>3. CASE Now(a).do # <<"env">>
      <3>1. Len(Now(a).do) # 1 /\ Len(Now(a).do) > 1
        BY <1>5, <2>3, EnvFirst
      <3>2. PICK u : u = Todo(Tail(Now(a).do), w, Rendering(t))
        OBVIOUS
      <3>. QED
        BY <1>1, <1>2, <1>4, <2>1, <2>3, <3>1, <3>2, ResolveRenders
    <2>. QED
      BY <2>2, <2>3
  <1>. QED
    BY <1>6, <1>7

---------------------------------------------------------------------------
(* Listings                                                                *)

(* A list with one task for each object of a finite set. *)
Enlisted(S, f, s) ==
  /\ s \in Seq(Range(s)) /\ Len(s) \in Nat /\ DOMAIN s = 1..Len(s)
  /\ \A t \in Range(s) : \E o \in S : t = f[o]
  /\ \A o \in S : f[o] \in Range(s)

LEMMA Enlists ==
  ASSUME NEW S, IsFiniteSet(S), NEW os, os = SetToSeq(S), NEW f,
         NEW s, s = [j \in 1..Len(os) |-> f[os[j]]]
  PROVE  Enlisted(S, f, s)
  <1>1. os \in Seq(S) /\ Range(os) = S
    BY SetToSeqIsSeq, SetToSeqCovers
  <1>2. DOMAIN os = 1..Len(os) /\ Len(os) \in Nat /\ \A j \in 1..Len(os) : os[j] \in S
    BY <1>1
  <1>3. DOMAIN s = 1..Len(os) /\ \A j \in DOMAIN s : s[j] = f[os[j]]
    OBVIOUS
  <1>4. \A t \in Range(s) : \E o \in S : t = f[o]
    BY <1>2, <1>3 DEF Range
  <1>5. \A o \in S : f[o] \in Range(s)
    BY <1>1, <1>2, <1>3 DEF Range
  <1>6. s \in [1..Len(os) -> Range(s)]
    BY <1>3 DEF Range
  <1>7. s \in Seq(Range(s)) /\ Len(s) = Len(os)
    BY <1>2, <1>6, SeqDef
  <1>. QED
    BY <1>2, <1>3, <1>4, <1>5, <1>7 DEF Enlisted

(* Startup puts a task in the place of L for each of its objects that is   *)
(* stored.                                                                 *)
Itemized(L) ==
  /\ TasksInv'
  /\ \A c \in Callers \ {Main} : tasks'[c] = tasks[c]
  /\ \A t \in Todos(Main)' : t \in Todos(Main) \/
       (t.o \in L.of /\ Exists(t.o) /\ t = Todo(L.then, t.o, obj[t.o]) /\ Makes(t))
  /\ \A t \in Todos(Main) : t \in Todos(Main)'
  /\ \A o \in L.of : Exists(o) => Todo(L.then, o, obj[o]) \in Todos(Main)'
  /\ \A o, x : Listed(o, x) => Listed(o, x)' \/ (o \in L.of /\ x \in Range(L.then))
  /\ ~InHand(Main)'
  /\ OrderInv => OrderInv'

LEMMA RestoresRenew ==
  \A do \in Restores : /\ do \in Shapes /\ Range(do) \subseteq Renewing /\ Range(do) \subseteq Making
                       /\ "quad" \notin Range(do) /\ (do = <<"env">> <=> "env" \in Range(do))
  <1>1. {"data", "files", "env", "heal", "bind", "healTimer"} \subseteq Renewing
    BY DEF Renewing
  <1>2. \A do \in Restores : Range(do) \subseteq Renewing /\ (do = <<"env">> <=> "env" \in Range(do))
    BY <1>1, ShortTails DEF Restores
  <1>. QED
    BY <1>2 DEF Shapes, Making, Renewing

LEMMA Itemizes ==
  ASSUME TasksInv, FilesTypeOK, cast \in Casts, UNCHANGED <<cast, obj, alive>>, alive, tasks[Main] # <<>>,
         \A o \in Objects : Exists(o) => o \in cast,
         NEW L, L = Now(Main), IsListing(L),
         NEW S, S = {o \in L.of : Exists(o)},
         NEW front, Enlisted(S, [o \in S |-> Todo(L.then, o, obj[o])], front),
         tasks' = [tasks EXCEPT ![Main] = front \o Tail(tasks[Main]) \o <<>>]
  PROVE  Itemized(L)
  <1>1. PICK s, new : s = tasks[Main] /\ new = tasks'[Main]
    OBVIOUS
  <1>2. Main \in Callers /\ tasks \in [Callers -> Range(tasks)] /\ s \in Seq(Range(s))
    BY <1>1, Kinds DEF TasksInv
  <1>3. front \in Seq(Range(front)) /\ Len(front) \in Nat /\ DOMAIN front = 1..Len(front)
    BY DEF Enlisted
  <1>4. /\ \A c \in Callers : tasks'[c] \in Seq(Range(tasks'[c]))
        /\ tasks' \in [Callers -> Range(tasks')]
        /\ \A c \in Callers \ {Main} : tasks'[c] = tasks[c]
        /\ Range(new) = Range(front) \cup Range(Tail(s))
        /\ Range(s) = {L} \cup Range(Tail(s)) /\ L = s[1]
        /\ Len(s) \in Nat \ {0} /\ DOMAIN s = 1..Len(s) /\ DOMAIN new = 1..Len(new)
        /\ Len(new) = Len(front) + (Len(s) - 1)
        /\ \A i \in 1..Len(front) : new[i] = front[i]
        /\ \A i \in 2..Len(s) : new[Len(front) + (i - 1)] = s[i]
    <2>0. PICK none : none = <<>>
      OBVIOUS
    <2>1. none \in Seq(Range(none)) /\ Range(none) = {} /\ Len(none) = 0
      BY <2>0, SmallLists
    <2>2. Advancement(Main, front, none)
      BY <1>2, <1>3, <2>0, <2>1, Advanced
    <2>3. /\ \A c \in Callers : tasks'[c] \in Seq(Range(tasks'[c]))
          /\ tasks' \in [Callers -> Range(tasks')]
          /\ \A c \in Callers \ {Main} : tasks'[c] = tasks[c]
          /\ Range(new) = Range(front) \cup Range(Tail(s)) \cup Range(none)
          /\ Range(s) = {L} \cup Range(Tail(s)) /\ L = s[1]
          /\ Len(s) \in Nat \ {0} /\ DOMAIN s = 1..Len(s) /\ DOMAIN new = 1..Len(new)
          /\ Len(new) = Len(front) + (Len(s) - 1) + Len(none)
          /\ \A i \in 1..Len(front) : new[i] = front[i]
          /\ \A i \in 2..Len(s) : new[Len(front) + (i - 1)] = s[i]
      BY <1>1, <2>2 DEF Advancement
    <2>4. Range(new) = Range(front) \cup Range(Tail(s))
      BY <2>1, <2>3
    <2>5. Len(new) = Len(front) + (Len(s) - 1)
      <3>1. PICK m : m = Len(front) + (Len(s) - 1) /\ m \in Int
        BY <1>3, <2>3
      <3>2. Len(new) = m + 0
        BY <2>1, <2>3, <3>1
      <3>. QED
        BY <3>1, <3>2
    <2>. QED
      BY <2>3, <2>4, <2>5
  <1>5. \A j \in DOMAIN new : \/ j \in 1..Len(front) /\ new[j] \in Range(front)
                              \/ \E i \in 2..Len(s) : j = Len(front) + (i - 1) /\ new[j] = s[i]
    <2> SUFFICES ASSUME NEW j \in 1..Len(new)
                 PROVE  \/ j \in 1..Len(front) /\ new[j] \in Range(front)
                        \/ \E i \in 2..Len(s) : j = Len(front) + (i - 1) /\ new[j] = s[i]
      BY <1>4
    <2>1. CASE j > Len(front)
      <3>1. (j - Len(front)) + 1 \in 2..Len(s) /\ j = Len(front) + (((j - Len(front)) + 1) - 1)
        BY <1>3, <1>4, <2>1
      <3>. QED
        BY <1>4, <3>1
    <2>2. CASE ~(j > Len(front))
      <3>1. j \in 1..Len(front) /\ new[j] = front[j]
        BY <1>3, <1>4, <2>2
      <3>. QED
        BY <1>3, <3>1 DEF Range
    <2>. QED
      BY <2>1, <2>2
  <1>6. /\ L.then \in Restores /\ L.then \in Shapes /\ Range(L.then) \subseteq Making
        /\ "quad" \notin Range(L.then) /\ \A o \in L.of : o \in Objects /\ Fits(L.then, o)
    BY RestoresRenew DEF IsListing
  <1>7. \A o \in L.of : Exists(o) => Makes(Todo(L.then, o, obj[o]))
    <2> SUFFICES ASSUME NEW o \in L.of, Exists(o) PROVE Makes(Todo(L.then, o, obj[o]))
      OBVIOUS
    <2>1. PICK u : u = Todo(L.then, o, obj[o])
      OBVIOUS
    <2>2. u.do = L.then /\ u.o = o /\ u.b = obj[o] /\ "o" \in DOMAIN u
      BY <2>1, TodoFields
    <2>3. obj[o] \in Bodies(o) /\ o \in cast
      BY <1>6 DEF FilesTypeOK
    <2>. QED
      BY <1>6, <2>1, <2>2, <2>3 DEF Makes, IsTodo
  <1>8. /\ \A u \in Range(front) : /\ "o" \in DOMAIN u /\ "of" \notin DOMAIN u /\ u.do = L.then
                                   /\ u.o \in L.of /\ Exists(u.o) /\ u = Todo(L.then, u.o, obj[u.o])
                                   /\ Makes(u)
        /\ \A o \in L.of : Exists(o) => Todo(L.then, o, obj[o]) \in Range(front)
    <2>1. ASSUME NEW u \in Range(front)
          PROVE  /\ "o" \in DOMAIN u /\ "of" \notin DOMAIN u /\ u.do = L.then
                 /\ u.o \in L.of /\ Exists(u.o) /\ u = Todo(L.then, u.o, obj[u.o])
      <3>1. PICK o \in S : u = [p \in S |-> Todo(L.then, p, obj[p])][o]
        BY DEF Enlisted
      <3>2. u = Todo(L.then, o, obj[o]) /\ o \in L.of /\ Exists(o)
        BY <3>1
      <3>3. u.o = o
        BY <3>2, TodoFields
      <3>4. "o" \in DOMAIN u /\ "of" \notin DOMAIN u /\ u.do = L.then
        BY <3>2, TodoFields
      <3>. QED
        BY <3>2, <3>3, <3>4
    <2>2. \A u \in Range(front) : Makes(u)
      BY <1>7, <2>1
    <2>3. ASSUME NEW o \in L.of, Exists(o) PROVE Todo(L.then, o, obj[o]) \in Range(front)
      <3>1. o \in S
        BY <2>3
      <3>2. [p \in S |-> Todo(L.then, p, obj[p])][o] \in Range(front)
        BY <3>1 DEF Enlisted
      <3>. QED
        BY <3>1, <3>2
    <2>. QED
      BY <2>1, <2>2, <2>3
  <1>9. \A t : (IsTodo(t)' <=> IsTodo(t)) /\ (Makes(t)' <=> Makes(t)) /\ (IsListing(t)' <=> IsListing(t))
                /\ (IsPurge(t)' <=> IsPurge(t))
    BY DEF IsTodo, Makes, IsListing, IsPurge, Bodies
  <1>10. tasks'[Client] = tasks[Client]
    BY <1>4, Kinds
  <1>11. \A j \in DOMAIN new : \/ j \in 1..Len(front) /\ new[j] \in Range(front) /\ new[j].do = L.then
                               \/ \E i \in DOMAIN s \ {1} : j = Len(front) + (i - 1) /\ new[j] = s[i]
    BY <1>4, <1>5, <1>8
  <1>12. TasksInv'
    <2>1. /\ \A c \in Clients \ {Client} : tasks'[c] = <<>>
          /\ ~alive' => \A c \in Callers : tasks'[c] = <<>>
      BY <1>4 DEF TasksInv, Callers
    <2>2. \A t \in Range(tasks'[Main]) : IsListing(t) \/ Makes(t)
      <3>1. \A t \in Range(s) : IsListing(t) \/ Makes(t)
        BY <1>1 DEF TasksInv
      <3>. QED
        BY <1>1, <1>4, <1>8, <3>1
    <2>3. \A c \in Callers : \A j \in DOMAIN tasks'[c] \ {1} :
            "quad" \in Range(tasks'[c][j].do) => "env" \in Range(tasks'[c][j].do)
      <3> SUFFICES ASSUME NEW c \in Callers, NEW j \in DOMAIN tasks'[c] \ {1}
                   PROVE  "quad" \in Range(tasks'[c][j].do) => "env" \in Range(tasks'[c][j].do)
        OBVIOUS
      <3>1. CASE c = Main
        <4>0. \A i \in DOMAIN s \ {1} : "quad" \in Range(s[i].do) => "env" \in Range(s[i].do)
          BY <1>1, <1>2 DEF TasksInv
        <4>. QED
          BY <1>1, <1>6, <1>11, <3>1, <4>0
      <3>2. CASE c # Main
        BY <1>4, <3>2 DEF TasksInv
      <3>. QED
        BY <3>1, <3>2
    <2>4. Todos(Client)' = Todos(Client)
      BY <1>10 DEF Todos
    <2>5. /\ \A t \in Range(tasks'[Client]) : IsTodo(t) \/ IsPurge(t)
          /\ (\E t \in Range(tasks'[Client]) : Makes(t)) => Len(tasks'[Client]) = 1
          /\ \A j \in DOMAIN tasks'[Client] : IsPurge(tasks'[Client][j]) => j = Len(tasks'[Client])
      BY <1>10 DEF TasksInv
    <2>6. \A t \in Todos(Client)' :
            t.do # <<"env">> /\ Range(t.do) \cap {"data", "bind", "heal", "healTimer"} = {}
      BY <2>4 DEF TasksInv
    <2>. QED
      BY <1>4, <1>9, <2>1, <2>2, <2>3, <2>5, <2>6 DEF TasksInv
  <1>13. /\ \A t \in Todos(Main)' : t \in Todos(Main) \/
              (t.o \in L.of /\ Exists(t.o) /\ t = Todo(L.then, t.o, obj[t.o]) /\ Makes(t))
         /\ \A t \in Todos(Main) : t \in Todos(Main)'
         /\ \A o \in L.of : Exists(o) => Todo(L.then, o, obj[o]) \in Todos(Main)'
    <2>1. "o" \notin DOMAIN L
      BY TaskKinds
    <2>2. \A o : "o" \in DOMAIN Todo(L.then, o, obj[o])
      BY TodoFields
    <2>3. \A t \in Todos(Main)' : t \in Todos(Main) \/
            (t.o \in L.of /\ Exists(t.o) /\ t = Todo(L.then, t.o, obj[t.o]) /\ Makes(t))
      <3> SUFFICES ASSUME NEW t \in Todos(Main)', t \notin Range(front) PROVE t \in Todos(Main)
        BY <1>8
      <3>. QED
        BY <1>1, <1>4 DEF Todos
    <2>4. \A t \in Todos(Main) : t \in Todos(Main)'
      BY <1>1, <1>4, <2>1 DEF Todos
    <2>5. \A o \in L.of : Exists(o) => Todo(L.then, o, obj[o]) \in Todos(Main)'
      BY <1>1, <1>4, <1>8, <2>2 DEF Todos
    <2>. QED
      BY <2>3, <2>4, <2>5
  <1>14. \A o, x : Listed(o, x) => Listed(o, x)' \/ (o \in L.of /\ x \in Range(L.then))
    BY <1>1, <1>4 DEF Listed
  <1>15. ~InHand(Main)'
    <2> SUFFICES ASSUME InHand(Main)' PROVE FALSE
      OBVIOUS
    <2>1. new # <<>> /\ "quad" \in Range(Now(Main)'.do) /\ "env" \notin Range(Now(Main)'.do)
      BY <1>1 DEF InHand
    <2>2. 1 \in DOMAIN new /\ Now(Main)' = new[1]
      <3>1. new \in Seq(Range(new))
        BY <1>1, <1>2, <1>4
      <3>. QED
        BY <1>1, <2>1, <3>1 DEF Now
    <2>3. \A i \in DOMAIN s \ {1} : "quad" \in Range(s[i].do) => "env" \in Range(s[i].do)
      BY <1>1, <1>2 DEF TasksInv
    <2>. QED
      BY <1>6, <1>11, <2>1, <2>2, <2>3
  <1>16. OrderInv => OrderInv'
    <2>0. OrderInv' <=> \A w \in cast : \A j \in DOMAIN new : Restoring(new[j], w) =>
                          \E k \in DOMAIN new : k > j /\ Healing(new[k], w)
      BY <1>1 DEF OrderInv, Restoring, Healing
    <2> SUFFICES ASSUME OrderInv, NEW w \in cast, NEW j \in DOMAIN new, Restoring(new[j], w)
                 PROVE  \E k \in DOMAIN new : k > j /\ Healing(new[k], w)
      BY <2>0
    <2>1. PICK i \in DOMAIN s : Restoring(s[i], w) /\ (j \in 1..Len(front) \/ j = Len(front) + (i - 1))
      <3>1. CASE j \in 1..Len(front) /\ new[j] \in Range(front)
        <4>1. "of" \notin DOMAIN new[j] /\ new[j].do = L.then /\ new[j].o \in L.of
          BY <1>8, <3>1
        <4>2. w \in L.of /\ L.then = <<"env">>
          BY <4>1 DEF Restoring
        <4>3. Restoring(L, w)
          BY <4>2, TaskKinds DEF Restoring
        <4>4. 1 \in DOMAIN s /\ s[1] = L
          BY <1>4
        <4>. QED
          BY <3>1, <4>3, <4>4
      <3>2. CASE \E i \in DOMAIN s \ {1} : j = Len(front) + (i - 1) /\ new[j] = s[i]
        BY <3>2
      <3>. QED
        BY <1>11, <3>1, <3>2
    <2>2. PICK k \in DOMAIN s : k > i /\ Healing(s[k], w)
      BY <1>1, <2>1 DEF OrderInv
    <2>3. k \in 2..Len(s) /\ i \in 1..Len(s)
      BY <1>4, <2>2
    <2>4. Len(front) + (k - 1) \in DOMAIN new /\ Len(front) + (k - 1) > j
      BY <1>3, <1>4, <2>1, <2>2, <2>3
    <2>5. new[Len(front) + (k - 1)] = s[k]
      BY <1>4, <2>3
    <2>. QED
      BY <2>2, <2>4, <2>5
  <1>. QED
    BY <1>4, <1>12, <1>13, <1>14, <1>15, <1>16 DEF Itemized

LEMMA ListInv ==
  ASSUME FilesInv, NEW a \in Callers, List_(a)
  PROVE  FilesInv'
  <1>1. /\ TasksInv /\ BlurInv /\ OrderInv /\ MomentInv /\ FilesTypeOK /\ cast \in Casts /\ On(a, "list")
        /\ UNCHANGED <<cast, obj, dir, env, quad, timer, running, alive, blurred, lost, stale>>
    BY DEF FilesInv, List_, tmpfs, units, notes
  <1>2. alive /\ tasks[a] # <<>> /\ Head(Now(a).do) = "list"
    BY <1>1 DEF On
  <1>3. IsListing(Now(a)) /\ a = Main
    <2>1. ~IsTodo(Now(a)) /\ ~IsPurge(Now(a))
      BY <1>1, <1>2, TaskKinds, ShortTails DEF Staged
    <2>. QED
      BY <1>1, <1>2, <2>1, TaskInHand
  <1>4. PICK L, S, os, front :
          /\ L = Now(Main) /\ S = {o \in L.of : Exists(o)} /\ os = SetToSeq(S)
          /\ front = [j \in 1..Len(os) |-> Todo(L.then, os[j], obj[os[j]])]
    OBVIOUS
  <1>5. S \subseteq cast /\ IsFiniteSet(S)
    <2>1. S \subseteq cast
      BY <1>1, <1>3, <1>4 DEF BlurInv, IsListing
    <2>. QED
      BY <1>1, <2>1, FS_Subset
  <1>6. Enlisted(S, [o \in S |-> Todo(L.then, o, obj[o])], front)
    <2>1. PICK f : f = [o \in S |-> Todo(L.then, o, obj[o])]
      OBVIOUS
    <2>2. \A j \in 1..Len(os) : os[j] \in S
      BY <1>4, <1>5, SetToSeqIsSeq
    <2>3. front = [j \in 1..Len(os) |-> f[os[j]]]
      BY <1>4, <2>1, <2>2
    <2>4. IsFiniteSet(S) /\ os = SetToSeq(S)
      BY <1>4, <1>5
    <2>5. Enlisted(S, f, front)
      BY <2>3, <2>4, Enlists
    <2>. QED
      BY <2>1, <2>5
  <1>7. tasks' = [tasks EXCEPT ![Main] = front \o Tail(tasks[Main]) \o <<>>]
    <2>1. PICK s : s = tasks[Main]
      OBVIOUS
    <2>2. tasks' = [tasks EXCEPT ![Main] = <<>> \o front \o Tail(s)]
      BY <1>1, <1>3, <1>4, <2>1 DEF List_, Finish, TasksInv
    <2>3. s \in Seq(Range(s)) /\ s # <<>>
      BY <1>2, <1>3, <2>1, Kinds, <1>1 DEF TasksInv
    <2>4. Tail(s) \in Seq(Range(s)) /\ front \in Seq(Range(front))
      BY <1>6, <2>3 DEF Enlisted
    <2>5. <<>> \o front = front
      BY <2>4
    <2>6. (front \o Tail(s)) \o <<>> = front \o Tail(s)
      <3> DEFINE R == Range(s) \cup Range(front)
      <3>1. Range(s) \subseteq R /\ Range(front) \subseteq R
        OBVIOUS
      <3> HIDE DEF R
      <3>2. front \in Seq(R) /\ Tail(s) \in Seq(R)
        BY <2>4, <3>1, SeqWiden
      <3>. QED
        BY <3>2
    <2>. QED
      BY <2>1, <2>2, <2>5, <2>6
  <1>8. Itemized(L)
    BY <1>1, <1>2, <1>3, <1>4, <1>6, <1>7, Itemizes DEF BlurInv
  <1>9. TasksInv' /\ OrderInv' /\ tasks'[Client] = tasks[Client]
    BY <1>1, <1>8, Kinds DEF Itemized
  <1>10. L.then \in Restores /\ Range(L.then) \subseteq Making /\ "quad" \notin Range(L.then)
    BY <1>3, <1>4, RestoresRenew DEF IsListing
  <1>11. Todos(Client)' = Todos(Client) /\ (Purging' <=> Purging) /\ (\A o, x : Pending(Client, o, x)' <=> Pending(Client, o, x))
    BY <1>9 DEF Todos, Purging, IsPurge, Pending
  <1>12. \A o : Gone(o)' <=> Gone(o)
    BY <1>1, <1>11 DEF Gone, Exists
  <1>13. \A o, x : Exists(o) /\ AtStart(o, x) => AtStart(o, x)'
    <2> SUFFICES ASSUME NEW o, NEW x, Exists(o), AtStart(o, x) PROVE AtStart(o, x)'
      OBVIOUS
    <2>1. CASE Pending(Main, o, x)
      BY <1>8, <2>1 DEF Itemized, AtStart, Pending
    <2>2. CASE Listed(o, x)
      <3>1. CASE Listed(o, x)'
        BY <3>1 DEF AtStart
      <3>2. CASE o \in L.of /\ x \in Range(L.then)
        <4>1. PICK u : u = Todo(L.then, o, obj[o])
          OBVIOUS
        <4>2. u \in Todos(Main)' /\ u.o = o /\ u.do = L.then
          BY <1>8, <3>2, <4>1, TodoFields DEF Itemized
        <4>. QED
          BY <3>2, <4>2 DEF AtStart, Pending
      <3>. QED
        BY <1>8, <2>2, <3>1, <3>2 DEF Itemized
    <2>. QED
      BY <1>2, <2>1, <2>2 DEF AtStart
  <1>14. FilesTypeOK'
    <2>1. FileTypes'
      BY <1>1 DEF FilesTypeOK, FileTypes
    <2>. QED
      BY <1>1, <1>9, <2>1, TypesKept DEF FilesTypeOK, Exists
  <1>15. \A w : EnvFits(w) => EnvFits(w)'
    <2> SUFFICES ASSUME NEW w PROVE EnvFits(w) => EnvFits(w)'
      OBVIOUS
    <2>1. SecretEnv(obj[w])' = SecretEnv(obj[w])
      BY <1>1 DEF SecretEnv, DataOf, Referred
    <2>. QED
      BY <1>1, <2>1 DEF EnvFits
  <1>16. BlurInv'
    <2>0. Starting
      BY <1>2, <1>3 DEF Starting
    <2>1. Starting' => \A t \in Todos(Client)' : t.o \in blurred'
      BY <1>1, <1>11, <2>0 DEF BlurInv
    <2>2. Starting' /\ Purging' => \A o \in Objects : Exists(o)' => o \in blurred'
      BY <1>1, <1>11, <2>0 DEF BlurInv, Exists
    <2>3. \A t : Makes(t)' <=> Makes(t)
      BY <1>1 DEF Makes, IsTodo, Bodies
    <2>4. \A t \in Todos(Client)' : Makes(t)' \/ Gone(t.o)'
      BY <1>1, <1>11, <1>12, <2>3 DEF BlurInv
    <2>5. \A c \in Callers : \A t \in Todos(c)' : t.o \notin blurred' /\ Range(t.do) \subseteq Making =>
            /\ Exists(t.o)'
            /\ Range(t.do) \cap Renewing # {} => t.b = obj'[t.o]
            /\ "quad" \in Range(t.do) /\ "env" \notin Range(t.do) =>
                 t.b.t = obj'[t.o] /\ (t.b.file => t.b.t.secret # Absent)
      <3> SUFFICES ASSUME NEW c \in Callers, NEW t \in Todos(c)', t.o \notin blurred, Range(t.do) \subseteq Making
                   PROVE  /\ Exists(t.o)
                          /\ Range(t.do) \cap Renewing # {} => t.b = obj[t.o]
                          /\ "quad" \in Range(t.do) /\ "env" \notin Range(t.do) =>
                               t.b.t = obj[t.o] /\ (t.b.file => t.b.t.secret # Absent)
        BY <1>1 DEF Exists
      <3>1. CASE t \in Todos(c)
        BY <1>1, <3>1 DEF BlurInv
      <3>2. CASE c = Main /\ Exists(t.o) /\ t = Todo(L.then, t.o, obj[t.o])
        <4>1. t.do = L.then /\ t.b = obj[t.o]
          BY <3>2, TodoFields
        <4>. QED
          BY <1>10, <3>2, <4>1
      <3>. QED
        BY <1>8, <3>1, <3>2 DEF Itemized, Todos
    <2>6. \A o \in Objects : Exists(o)' => o \in cast'
      BY <1>1 DEF BlurInv, Exists
    <2>. QED
      BY <2>1, <2>2, <2>4, <2>5, <2>6 DEF BlurInv
  <1>17. MomentInv'
    <2>1. \A c \in Callers : (InHand(c) /\ Now(c).o \notin blurred /\ Now(c).b.file => EnvFits(Now(c).o))'
      <3> SUFFICES ASSUME NEW c \in Callers, (InHand(c) /\ Now(c).o \notin blurred /\ Now(c).b.file)'
                   PROVE  EnvFits(Now(c).o)'
        OBVIOUS
      <3>1. c # Main
        BY <1>8 DEF Itemized
      <3>2. tasks'[c] = tasks[c]
        BY <1>8, <3>1 DEF Itemized
      <3>3. Now(c)' = Now(c)
        BY <3>2 DEF Now
      <3>4. InHand(c)
        BY <3>2, <3>3 DEF InHand
      <3>5. EnvFits(Now(c).o)
        BY <1>1, <3>3, <3>4 DEF MomentInv
      <3>6. PICK w : w = Now(c).o
        OBVIOUS
      <3>7. EnvFits(w)'
        BY <1>15, <3>5, <3>6
      <3>. QED
        BY <3>3, <3>6, <3>7
    <2>2. (\E t \in Range(tasks'[Client]) : t.do = <<"purge">>) => \A w \in Workloads \ blurred' : env'[w] = Absent
      BY <1>1, <1>9 DEF MomentInv
    <2>. QED
      BY <1>1, <1>2, <2>1, <2>2 DEF MomentInv
  <1>18. ASSUME NEW o \in Objects PROVE Fine(o)'
    <2>1. Fine(o)
      BY DEF FilesInv
    <2>2. CASE Exists(o)
      <3>1. Steady(o)
        BY <1>1, <1>11, <1>12, <1>13, <1>15, <2>2 DEF Steady
      <3>. QED
        BY <2>1, <3>1, StillFine
    <2>3. CASE ~Exists(o)
      <3>1. Gone(o) /\ Gone(o)' /\ ~Exists(o)'
        BY <1>1, <1>12, <2>3 DEF Gone, Exists
      <3>2. OrphanFine(o)'
        BY <1>1, <1>11, <2>1, <3>1 DEF Fine, OrphanFine
      <3>3. DirFine(o)' /\ RenderFine(o)' /\ EnvFine(o)'
        BY <3>1 DEF DirFine, RenderFine, EnvFine
      <3>. QED
        BY <3>2, <3>3 DEF Fine
    <2>. QED
      BY <2>2, <2>3
  <1>. QED
    BY <1>1, <1>9, <1>14, <1>16, <1>17, <1>18 DEF FilesInv

---------------------------------------------------------------------------
(* Objects leave the store                                                 *)

(* What has gone is fine when nothing but its teardown keeps its files.    *)
LEMMA GoneIsFine ==
  ASSUME NEW o, Gone(o)', OrphanFine(o)', ~Exists(o)' \/ Purging' \/ o \notin Dirs
  PROVE  Fine(o)'
  <1>1. DirFine(o)' /\ RenderFine(o)' /\ EnvFine(o)'
    BY DEF DirFine, RenderFine, EnvFine
  <1>. QED
    BY <1>1 DEF Fine

(* The end of a namespace delete: nothing else is on the client's list.    *)
Ending(a) ==
  /\ a = Client /\ IsPurge(Now(a)) /\ alive /\ tasks[Client] = <<Now(a)>> /\ Todos(Client) = {} /\ Purging
  /\ \A o : Gone(o)
  /\ \A o, x : ~Pending(Client, o, x)
  /\ \A t \in Todos(Main) : t.o \in blurred

LEMMA PurgeEnds ==
  ASSUME FilesInv, NEW a \in Callers, NEW stage \in {"rmtree", "purge"}, On(a, stage)
  PROVE  Ending(a)
  <1>1. TasksInv /\ BlurInv /\ cast \in Casts
    BY DEF FilesInv
  <1>2. alive /\ tasks[a] # <<>> /\ Head(Now(a).do) = stage
    BY DEF On
  <1>3. IsPurge(Now(a))
    <2>1. ~IsTodo(Now(a))
      BY <1>1, <1>2, TaskKinds DEF Staged
    <2>2. ~IsListing(Now(a))
      BY <1>1, <1>2, TaskKinds, ShortTails
    <2>. QED
      BY <1>1, <1>2, <2>1, <2>2, TaskInHand
  <1>4. a = Client
    <2>1. ~IsTodo(Now(a)) /\ ~IsListing(Now(a))
      BY <1>1, <1>3, TaskKinds
    <2>. QED
      BY <1>1, <1>2, <2>1, TaskInHand DEF Makes
  <1>5. PICK s : s = tasks[Client]
    OBVIOUS
  <1>6. s \in Seq(Range(s)) /\ Now(a) = s[1] /\ DOMAIN s = 1..Len(s) /\ Len(s) \in Nat \ {0} /\ Now(a) \in Range(s)
    <2>1. s \in Seq(Range(s))
      BY <1>1, <1>5, Kinds DEF TasksInv
    <2>. QED
      <3>1. /\ Now(a) \in Range(tasks[a]) /\ Now(a) = tasks[a][1]
            /\ DOMAIN tasks[a] = 1..Len(tasks[a]) /\ Len(tasks[a]) \in Nat \ {0}
        BY <1>1, <1>2, TaskInHand
      <3>2. s = tasks[a]
        BY <1>4, <1>5
      <3>. QED
        BY <2>1, <3>1, <3>2
  <1>7. Len(s) = 1
    <2>1. \A j \in DOMAIN s : IsPurge(s[j]) => j = Len(s)
      BY <1>1, <1>5 DEF TasksInv
    <2>2. 1 \in DOMAIN s /\ IsPurge(s[1])
      BY <1>3, <1>6
    <2>. QED
      BY <2>1, <2>2
  <1>8. s = <<Now(a)>>
    <2>1. <<Now(a)>> \in Seq(Range(s)) /\ Len(<<Now(a)>>) = 1 /\ <<Now(a)>>[1] = Now(a)
      BY <1>6
    <2>2. \A i \in 1..1 : i = 1
      OBVIOUS
    <2>. QED
      BY <1>6, <1>7, <2>1, <2>2, SeqEqual
  <1>9. Range(s) = {Now(a)}
    BY <1>8, ShortTails
  <1>10. Todos(Client) = {} /\ Purging
    BY <1>1, <1>3, <1>5, <1>9, TaskKinds DEF Todos, Purging
  <1>11. (\A o : Gone(o)) /\ \A o, x : ~Pending(Client, o, x)
    BY <1>10 DEF Gone, Pending
  <1>12. \A t \in Todos(Main) : t.o \in blurred
    <2> SUFFICES ASSUME NEW t \in Todos(Main), t.o \notin blurred PROVE FALSE
      OBVIOUS
    <2>1. Makes(t) /\ Starting /\ t.o \in Objects
      <3>1. t \in Range(tasks[Main]) /\ "o" \in DOMAIN t
        BY DEF Todos
      <3>2. Makes(t)
        BY <1>1, <3>1, TaskKinds DEF TasksInv
      <3>3. Starting
        BY <3>1, ShortTails DEF Starting
      <3>. QED
        BY <1>1, <3>2, <3>3, TaskKinds DEF Makes
    <2>2. Exists(t.o)
      BY <1>1, <2>1, Kinds DEF BlurInv, Makes
    <2>. QED
      BY <1>1, <1>10, <2>1, <2>2 DEF BlurInv
  <1>. QED
    BY <1>2, <1>3, <1>4, <1>5, <1>8, <1>10, <1>11, <1>12 DEF Ending

LEMMA EndKeepsInv ==
  ASSUME FilesInv, Ending(Client),
         NEW rest, tasks' = [tasks EXCEPT ![Client] = rest],
         UNCHANGED <<cast, units, alive, notes>>,
         dir' \in [Dirs -> Contents \cup {Absent}], \A o \in Dirs : dir'[o] \in {dir[o], Absent},
         env' \in [Workloads -> Contents \cup {Absent}],
         \/ rest = <<>> /\ obj' = [o \in Objects |-> Absent]
         \/ /\ rest = << [do |-> <<"purge">>] >> /\ obj' = obj
            /\ \A w \in Workloads : env'[w] = Absent
  PROVE  FilesInv'
  <1>1. TasksInv /\ BlurInv /\ OrderInv /\ MomentInv /\ FilesTypeOK /\ cast \in Casts
    BY DEF FilesInv
  <1>2. UNCHANGED <<cast, quad, timer, running, alive, blurred, lost, stale>> /\ alive
    BY DEF units, notes, Ending
  <1>3. PICK p : p = [do |-> <<"purge">>]
    OBVIOUS
  <1>4. IsPurge(p) /\ "o" \notin DOMAIN p /\ p.do = <<"purge">>
    BY <1>3 DEF IsPurge
  <1>5. rest = <<>> \/ rest = <<p>>
    BY <1>3
  <1>6. /\ rest \in Seq(Range(rest)) /\ (\A t \in Range(rest) : t = p) /\ Len(rest) \in {0, 1}
        /\ DOMAIN rest = 1..Len(rest) /\ \A j \in DOMAIN rest : j = 1 /\ rest[j] = p /\ Len(rest) = 1
    <2>1. CASE rest = <<>>
      BY <2>1, SmallLists
    <2>2. CASE rest = <<p>>
      <3>1. rest \in Seq(Range(rest)) /\ Range(rest) = {p} /\ Len(rest) = 1 /\ rest[1] = p
        BY <2>2, SmallLists
      <3>2. DOMAIN rest = 1..1 /\ \A j \in 1..1 : j = 1
        BY <3>1
      <3>. QED
        BY <3>1, <3>2
    <2>. QED
      BY <1>5, <2>1, <2>2
  <1>7. /\ tasks \in [Callers -> Range(tasks)] /\ tasks'[Client] = rest
        /\ \A c \in Callers \ {Client} : tasks'[c] = tasks[c]
    BY <1>1, Kinds DEF TasksInv
  <1>8. tasks'[Main] = tasks[Main] /\ Todos(Main)' = Todos(Main) /\ (Starting' <=> Starting)
    BY <1>7, Kinds DEF Todos, Starting
  <1>9. Todos(Client)' = {} /\ \A o, x : ~Pending(Client, o, x)'
    BY <1>4, <1>6, <1>7 DEF Todos, Pending
  <1>10. \A t : (IsTodo(t)' <=> IsTodo(t)) /\ (Makes(t)' <=> Makes(t)) /\ (IsListing(t)' <=> IsListing(t))
                /\ (IsPurge(t)' <=> IsPurge(t))
    BY <1>2 DEF IsTodo, Makes, IsListing, IsPurge, Bodies
  <1>11. TasksInv'
    <2>1. tasks' \in [Callers -> Range(tasks')]
      <3>1. DOMAIN tasks' = Callers /\ tasks' = [c \in Callers |-> tasks'[c]]
        BY <1>7
      <3>. QED
        BY <3>1 DEF Range
    <2>2. \A c \in Callers : tasks'[c] \in Seq(Range(tasks'[c]))
      <3> SUFFICES ASSUME NEW c \in Callers PROVE tasks'[c] \in Seq(Range(tasks'[c]))
        OBVIOUS
      <3>1. CASE c = Client
        BY <1>6, <1>7, <3>1
      <3>2. CASE c # Client
        BY <1>1, <1>7, <3>2 DEF TasksInv
      <3>. QED
        BY <3>1, <3>2
    <2>3. /\ \A c \in Clients \ {Client} : tasks'[c] = <<>>
          /\ ~alive' => \A c \in Callers : tasks'[c] = <<>>
      BY <1>1, <1>2, <1>7 DEF TasksInv, Callers
    <2>4. \A t \in Range(tasks'[Main]) : IsListing(t) \/ Makes(t)
      BY <1>1, <1>8 DEF TasksInv
    <2>5. /\ \A t \in Range(tasks'[Client]) : IsPurge(t)
          /\ \A t \in Range(tasks'[Client]) : ~Makes(t)
      BY <1>1, <1>4, <1>6, <1>7, TaskKinds DEF Makes
    <2>6. \A j \in DOMAIN tasks'[Client] : IsPurge(tasks'[Client][j]) => j = Len(tasks'[Client])
      BY <1>6, <1>7
    <2>7. \A c \in Callers : \A j \in DOMAIN tasks'[c] \ {1} :
            "quad" \in Range(tasks'[c][j].do) => "env" \in Range(tasks'[c][j].do)
      <3> SUFFICES ASSUME NEW c \in Callers, NEW j \in DOMAIN tasks'[c] \ {1}
                   PROVE  "quad" \in Range(tasks'[c][j].do) => "env" \in Range(tasks'[c][j].do)
        OBVIOUS
      <3>1. CASE c = Client
        BY <1>6, <1>7, <3>1
      <3>2. CASE c # Client
        BY <1>1, <1>7, <3>2 DEF TasksInv
      <3>. QED
        BY <3>1, <3>2
    <2>. QED
      BY <1>9, <1>10, <2>1, <2>2, <2>3, <2>4, <2>5, <2>6, <2>7 DEF TasksInv
  <1>12. OrderInv'
    BY <1>1, <1>2, <1>8 DEF OrderInv, Restoring, Healing
  <1>13. /\ DOMAIN obj' = Objects /\ \A o \in Objects : obj'[o] = obj[o] \/ obj'[o] = Absent
    BY <1>1 DEF FilesTypeOK
  <1>14. FilesTypeOK'
    <2>1. FileTypes'
      BY <1>1, <1>2 DEF FilesTypeOK, FileTypes
    <2>2. \A o \in Objects : obj'[o] # Absent => obj'[o] \in Bodies(o)
      BY <1>1, <1>13 DEF FilesTypeOK, Exists
    <2>. QED
      BY <1>1, <1>2, <1>11, <1>13, <2>1, <2>2, TypesKept
  <1>15. rest # <<>> => Purging'
    BY <1>4, <1>5, <1>7, SmallLists, <1>10 DEF Purging
  <1>16. \A o \in Objects : Gone(o)' /\ (~Exists(o)' \/ Purging')
    BY <1>15 DEF Gone, Exists
  <1>17. BlurInv'
    <2>1. Starting' => \A t \in Todos(Client)' : t.o \in blurred'
      BY <1>9
    <2>2. Starting' /\ Purging' => \A o \in Objects : Exists(o)' => o \in blurred'
      BY <1>1, <1>2, <1>8, <1>13 DEF BlurInv, Exists, Ending
    <2>3. \A t \in Todos(Client)' : Makes(t)' \/ Gone(t.o)'
      BY <1>9
    <2>4. \A c \in Callers : \A t \in Todos(c)' : t.o \in blurred'
      <3> SUFFICES ASSUME NEW c \in Callers, NEW t \in Todos(c)' PROVE t.o \in blurred'
        OBVIOUS
      <3>1. c # Client
        BY <1>9
      <3>2. tasks'[c] = tasks[c]
        BY <1>7, <3>1
      <3>3. c = Main
        BY <1>1, <3>1, <3>2, ShortTails DEF TasksInv, Callers, Todos
      <3>. QED
        BY <1>2, <1>8, <3>3 DEF Ending
    <2>5. \A o \in Objects : Exists(o)' => o \in cast'
      BY <1>1, <1>2, <1>13 DEF BlurInv, Exists
    <2>. QED
      BY <2>1, <2>2, <2>3, <2>4, <2>5 DEF BlurInv
  <1>18. MomentInv'
    <2>1. \A c \in Callers : (InHand(c) /\ Now(c).o \notin blurred => FALSE)'
      <3> SUFFICES ASSUME NEW c \in Callers, (InHand(c) /\ Now(c).o \notin blurred)' PROVE FALSE
        OBVIOUS
      <3>1. Now(c)' \in Todos(c)'
        <4>1. tasks'[c] \in Seq(Range(tasks'[c])) /\ tasks'[c] # <<>>
          BY <1>11 DEF TasksInv, InHand
        <4>2. Now(c)' = tasks'[c][1] /\ 1 \in DOMAIN tasks'[c]
          BY <4>1 DEF Now
        <4>. QED
          BY <4>2 DEF InHand, Todos, Range
      <3>2. c # Client
        BY <1>9, <3>1
      <3>3. tasks'[c] = tasks[c]
        BY <1>7, <3>2
      <3>4. c = Main
        BY <1>1, <3>2, <3>3 DEF TasksInv, Callers, InHand
      <3>. QED
        BY <1>2, <1>8, <3>1, <3>4 DEF Ending
    <2>2. (\E t \in Range(tasks'[Client]) : t.do = <<"purge">>) => \A w \in Workloads \ blurred' : env'[w] = Absent
      <3>1. CASE rest = <<>>
        BY <1>7, <3>1, ShortTails
      <3>2. CASE rest # <<>>
        BY <3>2
      <3>. QED
        BY <3>1, <3>2
    <2>. QED
      BY <1>2, <2>1, <2>2 DEF MomentInv
  <1>19. ASSUME NEW o \in Objects PROVE Fine(o)'
    <2>1. OrphanFine(o)
      BY DEF FilesInv, Fine
    <2>2. o \notin blurred =>
            /\ o \in Dirs => dir[o] = Absent
            /\ o \in Claims \cup Workloads => quad[o] = Absent
            /\ o \notin timer /\ o \notin running
      BY <2>1 DEF OrphanFine, Ending
    <2>3. OrphanFine(o)'
      BY <1>2, <2>2 DEF OrphanFine
    <2>. QED
      BY <1>16, <2>3, GoneIsFine
  <1>. QED
    BY <1>1, <1>2, <1>11, <1>12, <1>14, <1>17, <1>18, <1>19 DEF FilesInv

LEMMA RemoveTreeInv ==
  ASSUME FilesInv, NEW a \in Callers, RemoveTree(a)
  PROVE  FilesInv'
  <1>1. On(a, "rmtree") /\ Proceed(a) /\ UNCHANGED <<cast, obj, units, alive, notes>> /\ FilesTypeOK
    BY DEF RemoveTree, FilesInv
  <1>2. Ending(a)
    BY <1>1, PurgeEnds
  <1>3. Now(a).do = <<"rmtree", "purge">>
    <2>1. Head(<<"purge">>) = "purge"
      BY ShortTails
    <2>. QED
      BY <1>1, <1>2, <2>1 DEF Ending, IsPurge, On
  <1>4. Now(a) = [do |-> <<"rmtree", "purge">>]
    BY <1>2, <1>3 DEF Ending, IsPurge
  <1>5. PICK p : p = [do |-> <<"purge">>]
    OBVIOUS
  <1>6. tasks' = [tasks EXCEPT ![Client] = <<p>>]
    <2>1. PICK t : t = Now(a)
      OBVIOUS
    <2>2. Tail(t.do) = <<"purge">>
      BY <1>3, <2>1, ShortTails
    <2>3. [t EXCEPT !.do = <<"purge">>] = p
      BY <1>4, <1>5, <2>1
    <2>4. tasks[Client] = <<t>> /\ a = Client
      BY <1>2, <2>1 DEF Ending
    <2>5. Head(<<t>>) = t /\ Tail(<<t>>) = <<>> /\ <<p>> \o <<>> \o <<>> = <<p>>
      BY ShortTails
    <2>6. <<"purge">> # <<>>
      OBVIOUS
    <2>7. tasks' = [tasks EXCEPT ![Client] = <<[t EXCEPT !.do = <<"purge">>]>> \o <<>> \o <<>>]
      BY <1>1, <2>1, <2>2, <2>4, <2>5, <2>6 DEF Proceed, Finish
    <2>. QED
      BY <2>3, <2>5, <2>7
  <1>7. /\ dir' \in [Dirs -> Contents \cup {Absent}] /\ \A o \in Dirs : dir'[o] \in {dir[o], Absent}
        /\ env' \in [Workloads -> Contents \cup {Absent}] /\ \A w \in Workloads : env'[w] = Absent
    BY <1>1 DEF RemoveTree, FilesTypeOK
  <1>8. PICK rest : rest = <<p>>
    OBVIOUS
  <1>9. a = Client
    BY <1>2 DEF Ending
  <1>10. obj' = obj /\ UNCHANGED <<cast, units, alive, notes>>
    BY <1>1
  <1>. QED
    BY <1>2, <1>5, <1>6, <1>7, <1>8, <1>9, <1>10, EndKeepsInv

LEMMA PurgeStoreInv ==
  ASSUME FilesInv, NEW a \in Callers, PurgeStore(a)
  PROVE  FilesInv'
  <1>1. On(a, "purge") /\ Proceed(a) /\ UNCHANGED <<cast, dir, env, units, alive, notes>> /\ FilesTypeOK
    BY DEF PurgeStore, FilesInv, tmpfs
  <1>2. Ending(a)
    BY <1>1, PurgeEnds
  <1>3. Now(a).do = <<"purge">>
    <2>1. Head(<<"rmtree", "purge">>) = "rmtree"
      BY ShortTails
    <2>. QED
      BY <1>1, <1>2, <2>1 DEF Ending, IsPurge, On
  <1>4. tasks' = [tasks EXCEPT ![Client] = <<>>]
    <2>1. PICK t : t = Now(a)
      OBVIOUS
    <2>2. Tail(t.do) = <<>>
      BY <1>3, <2>1, ShortTails
    <2>3. tasks[Client] = <<t>> /\ a = Client
      BY <1>2, <2>1 DEF Ending
    <2>4. Tail(<<t>>) = <<>> /\ <<>> \o <<>> \o <<>> = <<>>
      BY ShortTails
    <2>5. tasks' = [tasks EXCEPT ![Client] = <<>> \o <<>> \o <<>>]
      BY <1>1, <2>1, <2>2, <2>3, <2>4 DEF Proceed, Finish
    <2>. QED
      BY <2>4, <2>5
  <1>5. PICK rest : rest = <<>>
    OBVIOUS
  <1>6. /\ dir' \in [Dirs -> Contents \cup {Absent}] /\ \A o \in Dirs : dir'[o] \in {dir[o], Absent}
        /\ env' \in [Workloads -> Contents \cup {Absent}]
    BY <1>1 DEF FilesTypeOK
  <1>7. obj' = [o \in Objects |-> Absent] /\ UNCHANGED <<cast, units, alive, notes>> /\ a = Client
    BY <1>1, <1>2 DEF PurgeStore, Ending
  <1>. QED
    BY <1>2, <1>4, <1>5, <1>6, <1>7, EndKeepsInv

(* The secret values of a template are those of its Secret. *)
LEMMA SameSecrets ==
  ASSUME DOMAIN obj = Objects, NEW t \in Templates, \A o \in Secrets : obj'[o] = obj[o]
  PROVE  SecretEnv(t)' = SecretEnv(t)
  <1>1. t.secret \in Secrets \cup {Absent}
    OBVIOUS
  <1>2. DataOf(t.secret)' = DataOf(t.secret)
    BY <1>1 DEF DataOf
  <1>. QED
    BY <1>2 DEF SecretEnv, Referred

LEMMA DropInv ==
  ASSUME FilesInv, NEW a \in Callers, Drop(a)
  PROVE  FilesInv'
  <1>1. /\ TasksInv /\ BlurInv /\ OrderInv /\ MomentInv /\ FilesTypeOK /\ cast \in Casts /\ On(a, "drop")
        /\ Proceed(a)
        /\ UNCHANGED <<cast, dir, env, quad, timer, running, alive, blurred, lost, stale>>
    BY DEF FilesInv, Drop, tmpfs, units, notes
  <1>2. PICK w : w = Now(a).o
    OBVIOUS
  <1>3. /\ alive /\ tasks[a] # <<>> /\ IsTodo(Now(a)) /\ Now(a) \in Todos(a) /\ Now(a).do = <<"drop">>
        /\ Range(Now(a).do) = {"drop"} /\ Head(Now(a).do) = "drop"
    BY <1>1, StageInHand, ShortTails DEF Staged
  <1>4. a = Client /\ Gone(w)
    BY <1>1, <1>2, TearingStage
  <1>5. w \in Workloads /\ w \in Objects /\ w \notin Dirs /\ w \notin Claims /\ w \notin Secrets
    BY <1>2, <1>3, Kinds DEF IsTodo, Fits
  <1>6. Proceeded(a, "drop") /\ Progress(a)
    <2>1. Proceeded(a, "drop")
      BY <1>1, StageDone
    <2>. QED
      BY <2>1 DEF Proceeded
  <1>7. obj' = [obj EXCEPT ![w] = Absent] /\ DOMAIN obj = Objects
    BY <1>1, <1>2 DEF Drop, FilesTypeOK
  <1>8. DOMAIN obj' = Objects /\ ~Exists(w)' /\ \A o : o # w => obj'[o] = obj[o] /\ (Exists(o)' <=> Exists(o))
    <2>1. DOMAIN obj' = Objects /\ obj'[w] = Absent
      BY <1>5, <1>7
    <2>2. \A o : o # w => obj'[o] = obj[o]
      BY <1>7
    <2>. QED
      BY <2>1, <2>2 DEF Exists
  <1>9. \A o : Gone(o)' <=> Gone(o)
    <2>1. Gone(w)'
      BY <1>8 DEF Gone
    <2>2. \A o : o # w => (Pending(Client, o, "drop")' <=> Pending(Client, o, "drop"))
      BY <1>2, <1>6, Kinds DEF Proceeded
    <2>3. Purging' <=> Purging
      BY <1>6 DEF Proceeded
    <2>. QED
      BY <1>4, <1>8, <2>1, <2>2, <2>3 DEF Gone
  <1>10. \A c \in Callers : \A t \in Todos(c)' : t \in Todos(c)
    <2>1. \A t \in Todos(a)' : t \in Todos(a)
      <3> SUFFICES ASSUME NEW t \in Todos(a)', t \notin Todos(a) PROVE FALSE
        OBVIOUS
      <3>1. IsTodo(t) /\ Range(t.do) = {}
        BY <1>3, <1>6 DEF Progress
      <3>. QED
        BY <1>1, <3>1, TaskKinds DEF Staged
    <2>. QED
      BY <1>6, <2>1 DEF Progress, Todos
  <1>11. TasksInv' /\ OrderInv'
    BY <1>1, <1>6 DEF Progress
  <1>12. FilesTypeOK'
    <2>1. FileTypes'
      BY <1>1 DEF FilesTypeOK, FileTypes
    <2>2. \A o \in Objects : obj'[o] # Absent => obj'[o] \in Bodies(o)
      BY <1>1, <1>8 DEF FilesTypeOK, Exists
    <2>. QED
      BY <1>1, <1>8, <1>11, <2>1, <2>2, TypesKept
  <1>13. Starting => w \in blurred
    BY <1>1, <1>2, <1>3, <1>4 DEF BlurInv
  <1>14. \A t \in Todos(Client) : ~Makes(t)
    <2> SUFFICES ASSUME NEW t \in Todos(Client), Makes(t) PROVE FALSE
      OBVIOUS
    <2>1. t \in Range(tasks[Client]) /\ Len(tasks[Client]) = 1
      BY <1>1 DEF TasksInv, Todos
    <2>2. DOMAIN tasks[Client] = 1..1 /\ Now(a) = tasks[Client][1]
      BY <1>1, <1>3, <1>4, <2>1, TaskInHand
    <2>3. t = Now(a)
      BY <2>1, <2>2 DEF Range
    <2>. QED
      BY <1>3, <2>3 DEF Makes, Making, Renewing
  <1>15. ASSUME NEW c \in Callers, NEW t \in Todos(c)', t.o \notin blurred, Range(t.do) \subseteq Making
         PROVE  t.o # w /\ t \in Todos(c)
    <2>1. t \in Todos(c)
      BY <1>10
    <2>2. c # Client
      <3>1. t \in Todos(Client) => IsTodo(t)
        BY <1>1, TaskKinds DEF TasksInv, Todos
      <3>. QED
        BY <1>14, <1>15, <2>1, <3>1 DEF Makes
    <2>3. Starting
      BY <1>1, <2>1, <2>2, ShortTails DEF TasksInv, Callers, Todos, Starting
    <2>. QED
      BY <1>13, <1>15, <2>1, <2>3
  <1>16. BlurInv'
    <2>1. Starting' => \A t \in Todos(Client)' : t.o \in blurred'
      BY <1>1, <1>6, <1>10, Kinds DEF BlurInv, Progress
    <2>2. Starting' /\ Purging' => \A o \in Objects : Exists(o)' => o \in blurred'
      BY <1>1, <1>6, <1>8 DEF BlurInv, Progress
    <2>3. \A t : Makes(t)' <=> Makes(t)
      BY <1>1 DEF Makes, IsTodo, Bodies
    <2>4. \A t \in Todos(Client)' : Makes(t)' \/ Gone(t.o)'
      BY <1>1, <1>9, <1>10, <2>3, Kinds DEF BlurInv
    <2>5. \A c \in Callers : \A t \in Todos(c)' : t.o \notin blurred' /\ Range(t.do) \subseteq Making =>
            /\ Exists(t.o)'
            /\ Range(t.do) \cap Renewing # {} => t.b = obj'[t.o]
            /\ "quad" \in Range(t.do) /\ "env" \notin Range(t.do) =>
                 t.b.t = obj'[t.o] /\ (t.b.file => t.b.t.secret # Absent)
      <3> SUFFICES ASSUME NEW c \in Callers, NEW t \in Todos(c)', t.o \notin blurred, Range(t.do) \subseteq Making
                   PROVE  /\ Exists(t.o)'
                          /\ Range(t.do) \cap Renewing # {} => t.b = obj'[t.o]
                          /\ "quad" \in Range(t.do) /\ "env" \notin Range(t.do) =>
                               t.b.t = obj'[t.o] /\ (t.b.file => t.b.t.secret # Absent)
        BY <1>1
      <3>1. t.o # w /\ t \in Todos(c)
        BY <1>15
      <3>2. /\ Exists(t.o)
            /\ Range(t.do) \cap Renewing # {} => t.b = obj[t.o]
            /\ "quad" \in Range(t.do) /\ "env" \notin Range(t.do) =>
                 t.b.t = obj[t.o] /\ (t.b.file => t.b.t.secret # Absent)
        BY <1>1, <3>1 DEF BlurInv
      <3>3. obj'[t.o] = obj[t.o] /\ (Exists(t.o)' <=> Exists(t.o))
        BY <1>8, <3>1
      <3>. QED
        BY <3>2, <3>3
    <2>6. \A o \in Objects : Exists(o)' => o \in cast'
      BY <1>1, <1>8 DEF BlurInv
    <2>. QED
      BY <2>1, <2>2, <2>4, <2>5, <2>6 DEF BlurInv
  <1>17. \A o \in Workloads : o # w /\ Exists(o) => (EnvFits(o) => EnvFits(o)')
    <2> SUFFICES ASSUME NEW o \in Workloads, o # w, Exists(o), EnvFits(o) PROVE EnvFits(o)'
      OBVIOUS
    <2>1. obj[o] \in Templates
      BY <1>1, Kinds, BodyTypes DEF FilesTypeOK
    <2>2. \A p \in Secrets : obj'[p] = obj[p]
      BY <1>5, <1>8
    <2>3. PICK t \in Templates : t = obj[o]
      BY <2>1
    <2>4. SecretEnv(t)' = SecretEnv(t)
      BY <1>7, <2>2, SameSecrets
    <2>5. obj'[o] = t
      BY <1>8, <2>3
    <2>6. SecretEnv(obj[o])' = SecretEnv(obj[o])
      BY <2>3, <2>4, <2>5 DEF SecretEnv
    <2>. QED
      BY <1>1, <2>6 DEF EnvFits
  <1>18. MomentInv'
    <2>1. \A c \in Callers : (InHand(c) /\ Now(c).o \notin blurred /\ Now(c).b.file => EnvFits(Now(c).o))'
      <3> SUFFICES ASSUME NEW c \in Callers, (InHand(c) /\ Now(c).o \notin blurred /\ Now(c).b.file)'
                   PROVE  EnvFits(Now(c).o)'
        OBVIOUS
      <3>1. InHand(c) /\ Now(c)' = Now(c) /\ tasks[c] # <<>>
        BY <1>6 DEF Progress, InHand
      <3>2. EnvFits(Now(c).o) /\ Now(c).o \notin blurred
        BY <1>1, <3>1 DEF MomentInv
      <3>3. IsTodo(Now(c)) /\ Now(c) \in Todos(c) /\ Now(c).o \in Workloads /\ Range(Now(c).do) \subseteq Making
        <4>1. IsTodo(Now(c)) /\ Now(c) \in Todos(c)
          BY <1>1, <3>1, TaskInHand, TaskKinds DEF InHand, Todos
        <4>. QED
          BY <1>1, <3>1, <4>1, TaskKinds DEF InHand, IsTodo, Fits, Staged, Making
      <3>4. PICK t : t = Now(c)
        OBVIOUS
      <3>5. t \in Todos(c)'
        BY <1>6, <3>1, <3>3, <3>4 DEF Progress, Todos
      <3>6. t.o # w
        BY <1>15, <3>2, <3>3, <3>4, <3>5
      <3>7. Exists(t.o)
        BY <1>1, <3>2, <3>3, <3>4 DEF BlurInv
      <3>8. PICK x : x = t.o
        OBVIOUS
      <3>9. EnvFits(x)'
        BY <1>17, <3>2, <3>3, <3>4, <3>6, <3>7, <3>8
      <3>. QED
        BY <3>1, <3>4, <3>8, <3>9
    <2>2. (\E t \in Range(tasks'[Client]) : t.do = <<"purge">>) => \A x \in Workloads \ blurred' : env'[x] = Absent
      BY <1>1, <1>6 DEF MomentInv, Progress
    <2>. QED
      BY <1>1, <1>3, <2>1, <2>2 DEF MomentInv
  <1>19. \A o, x : x # "drop" => (Pending(Client, o, x)' <=> Pending(Client, o, x))
    BY <1>6, Kinds DEF Proceeded
  <1>20. ASSUME NEW o \in Objects PROVE Fine(o)'
    <2>1. Fine(o)
      BY DEF FilesInv
    <2>2. CASE o # w /\ Exists(o)
      <3>1. \A x : AtStart(o, x) => AtStart(o, x)'
        BY <1>2, <1>6, <2>2 DEF Proceeded
      <3>2. \A x : Pending(Client, o, x)' <=> Pending(Client, o, x)
        BY <1>2, <1>6, <2>2, Kinds DEF Proceeded
      <3>3. (Purging' <=> Purging) /\ obj'[o] = obj[o]
        BY <1>6, <1>8, <2>2 DEF Proceeded
      <3>4. Steady(o)
        BY <1>1, <1>9, <1>17, <2>2, <3>1, <3>2, <3>3 DEF Steady
      <3>. QED
        BY <2>1, <3>4, StillFine
    <2>3. CASE o = w \/ ~Exists(o)
      <3>1. Gone(o) /\ Gone(o)' /\ ~Exists(o)'
        BY <1>4, <1>8, <1>9, <2>3 DEF Gone
      <3>2. OrphanFine(o)'
        BY <1>1, <1>19, <2>1, <3>1 DEF Fine, OrphanFine
      <3>. QED
        BY <3>1, <3>2, GoneIsFine
    <2>. QED
      BY <2>2, <2>3
  <1>. QED
    BY <1>1, <1>11, <1>12, <1>16, <1>18, <1>20 DEF FilesInv

---------------------------------------------------------------------------
(* Requests                                                                *)

(* What a request asks of o: to be made what it is stored as, or to go.    *)
Asks(o, do, b) ==
  /\ \/ do = <<>>
     \/ /\ do \in Shapes /\ Fits(do, o) /\ Range(do) \cap {"data", "bind", "heal", "healTimer"} = {}
        /\ do # <<"env">> /\ ("quad" \in Range(do) => "env" \in Range(do))
  /\ DOMAIN obj' = Objects /\ \A p \in Objects \ {o} : obj'[p] = obj[p]
  /\ stale' \subseteq Objects /\ stale \subseteq stale' \cup {o} /\ (obj' = obj \/ Refer(o) \subseteq stale')
  /\ \/ /\ Range(do) \subseteq Making /\ obj'[o] = b /\ b \in Bodies(o)
        /\ o \in Workloads => "quad" \in Range(do) /\ (o \in CronJobs => "timer" \in Range(do))
        /\ o \in Claims => o \in stale' \/ "volume" \in Range(do)
        /\ o \in Dirs => "files" \in Range(do) /\ (o \in Secrets => "prune" \in Range(do) \/ ~Exists(o))
     \/ /\ Range(do) \cap Making = {}
        /\ obj'[o] = Absent \/ (obj' = obj /\ "drop" \in Range(do))
        /\ o \in Dirs => "rmdir" \in Range(do)
        /\ o \in Claims \cup Workloads => "unlink" \in Range(do)
        /\ o \in Workloads => "stop" \in Range(do)
        /\ o \in CronJobs => "unlinkTimer" \in Range(do)

LEMMA CallKeepsInv ==
  ASSUME FilesInv, NEW o \in cast, NEW do, NEW b, Asks(o, do, b),
         Call(IF do = <<>> THEN <<>> ELSE <<Todo(do, o, b)>>, {o}),
         UNCHANGED <<cast, tmpfs, units, alive, lost>>
  PROVE  FilesInv'
  <1>1. /\ TasksInv /\ BlurInv /\ OrderInv /\ MomentInv /\ FilesTypeOK /\ cast \in Casts
        /\ UNCHANGED <<cast, dir, env, quad, timer, running, alive, lost>>
    BY DEF FilesInv, tmpfs, units
  <1>2. /\ alive /\ tasks[Client] = <<>>
        /\ blurred' = IF Starting THEN blurred \cup {o} ELSE blurred \ ({o} \ Dirs)
    BY DEF Call, Idle
  <1>3. Todos(Client) = {} /\ ~Purging /\ \A p, x : ~Pending(Client, p, x)
    BY <1>2, ShortTails DEF Todos, Purging, Pending
  <1>4. \A p : Gone(p) <=> ~Exists(p)
    BY <1>3 DEF Gone
  <1>5. o \in Objects
    BY <1>1
  <1>6. PICK u, rest : u = Todo(do, o, b) /\ rest = IF do = <<>> THEN <<>> ELSE <<u>>
    OBVIOUS
  <1>7. tasks' = [tasks EXCEPT ![Client] = rest]
    BY <1>6 DEF Call
  <1>8. u.do = do /\ u.o = o /\ u.b = b /\ "o" \in DOMAIN u
    BY <1>6, TodoFields
  <1>9. do # <<>> => IsTodo(u)
    <2> SUFFICES ASSUME do # <<>> PROVE IsTodo(u)
      OBVIOUS
    <2>1. Range(do) \cap Renewing # {} => b \in Bodies(o)
      BY DEF Asks, Making
    <2>. QED
      BY <1>6, <1>8, <2>1 DEF IsTodo, Asks
  <1>10. /\ rest \in Seq(Range(rest)) /\ Range(rest) = (IF do = <<>> THEN {} ELSE {u}) /\ Len(rest) \in {0, 1}
         /\ DOMAIN rest = 1..Len(rest)
         /\ \A j \in DOMAIN rest : j = 1 /\ rest[j] = u /\ Len(rest) = 1 /\ do # <<>>
    <2>1. CASE do = <<>>
      BY <1>6, <2>1, SmallLists
    <2>2. CASE do # <<>>
      <3>1. rest \in Seq(Range(rest)) /\ Range(rest) = {u} /\ Len(rest) = 1 /\ rest[1] = u
        BY <1>6, <2>2, SmallLists
      <3>2. DOMAIN rest = 1..1 /\ \A j \in 1..1 : j = 1
        BY <3>1
      <3>. QED
        BY <2>2, <3>1, <3>2
    <2>. QED
      BY <2>1, <2>2
  <1>11. /\ tasks \in [Callers -> Range(tasks)] /\ tasks'[Client] = rest
         /\ \A c \in Callers \ {Client} : tasks'[c] = tasks[c]
    BY <1>1, <1>7, Kinds DEF TasksInv
  <1>12. tasks'[Main] = tasks[Main] /\ Todos(Main)' = Todos(Main) /\ (Starting' <=> Starting)
    BY <1>11, Kinds DEF Todos, Starting
  <1>13. \A t : (IsTodo(t)' <=> IsTodo(t)) /\ (Makes(t)' <=> Makes(t)) /\ (IsListing(t)' <=> IsListing(t))
                /\ (IsPurge(t)' <=> IsPurge(t))
    BY <1>1 DEF IsTodo, Makes, IsListing, IsPurge, Bodies
  <1>14. \A t \in Todos(Client)' : t = u /\ do # <<>>
    BY <1>10, <1>11 DEF Todos
  <1>15. \A p, x : Pending(Client, p, x)' <=> p = o /\ x \in Range(do)
    <2>1. ASSUME NEW p, NEW x, Pending(Client, p, x)' PROVE p = o /\ x \in Range(do)
      BY <1>8, <1>14, <2>1 DEF Pending
    <2>2. ASSUME NEW x \in Range(do) PROVE Pending(Client, o, x)'
      <3>1. do # <<>>
        BY <2>2, ShortTails
      <3>2. u \in Todos(Client)'
        BY <1>8, <1>10, <1>11, <3>1 DEF Todos
      <3>. QED
        BY <1>8, <2>2, <3>2 DEF Pending
    <2>. QED
      BY <2>1, <2>2
  <1>16. ~Purging'
    BY <1>1, <1>9, <1>10, <1>11, <1>13, TaskKinds DEF Purging
  <1>17. \A p, x : AtStart(p, x)' <=> AtStart(p, x)
    <2>1. \A p, x : (Listed(p, x)' <=> Listed(p, x)) /\ (Pending(Main, p, x)' <=> Pending(Main, p, x))
      BY <1>12 DEF Listed, Pending
    <2>. QED
      BY <1>1, <2>1 DEF AtStart
  <1>18. TasksInv'
    <2>1. tasks' \in [Callers -> Range(tasks')]
      <3>1. DOMAIN tasks' = Callers /\ tasks' = [c \in Callers |-> tasks'[c]]
        BY <1>7, <1>11
      <3>. QED
        BY <3>1 DEF Range
    <2>2. \A c \in Callers : tasks'[c] \in Seq(Range(tasks'[c]))
      <3> SUFFICES ASSUME NEW c \in Callers PROVE tasks'[c] \in Seq(Range(tasks'[c]))
        OBVIOUS
      <3>1. CASE c = Client
        BY <1>10, <1>11, <3>1
      <3>2. CASE c # Client
        BY <1>1, <1>11, <3>2 DEF TasksInv
      <3>. QED
        BY <3>1, <3>2
    <2>3. /\ \A c \in Clients \ {Client} : tasks'[c] = <<>>
          /\ ~alive' => \A c \in Callers : tasks'[c] = <<>>
      BY <1>1, <1>2, <1>11 DEF TasksInv, Callers
    <2>4. \A t \in Range(tasks'[Main]) : IsListing(t) \/ Makes(t)
      BY <1>1, <1>12 DEF TasksInv
    <2>5. \A t \in Range(tasks'[Client]) : IsTodo(t)
      BY <1>9, <1>10, <1>11
    <2>6. (\E t \in Range(tasks'[Client]) : Makes(t)) => Len(tasks'[Client]) = 1
      <3> SUFFICES ASSUME NEW t \in Range(rest) PROVE Len(rest) = 1
        BY <1>11
      <3>1. PICK j \in DOMAIN rest : t = rest[j]
        BY DEF Range
      <3>. QED
        BY <1>10, <3>1
    <2>7. \A j \in DOMAIN tasks'[Client] : IsPurge(tasks'[Client][j]) => j = Len(tasks'[Client])
      BY <1>10, <1>11
    <2>8. \A c \in Callers : \A j \in DOMAIN tasks'[c] \ {1} :
            "quad" \in Range(tasks'[c][j].do) => "env" \in Range(tasks'[c][j].do)
      <3> SUFFICES ASSUME NEW c \in Callers, NEW j \in DOMAIN tasks'[c] \ {1}
                   PROVE  "quad" \in Range(tasks'[c][j].do) => "env" \in Range(tasks'[c][j].do)
        OBVIOUS
      <3>1. CASE c = Client
        BY <1>10, <1>11, <3>1
      <3>2. CASE c # Client
        BY <1>1, <1>11, <3>2 DEF TasksInv
      <3>. QED
        BY <3>1, <3>2
    <2>9. \A t \in Todos(Client)' :
            t.do # <<"env">> /\ Range(t.do) \cap {"data", "bind", "heal", "healTimer"} = {}
      BY <1>8, <1>14 DEF Asks
    <2>. QED
      BY <1>13, <2>1, <2>2, <2>3, <2>4, <2>5, <2>6, <2>7, <2>8, <2>9 DEF TasksInv
  <1>19. OrderInv'
    BY <1>1, <1>12 DEF OrderInv, Restoring, Healing
  <1>20. FilesTypeOK'
    <2>1. blurred' \subseteq Objects
      BY <1>1, <1>2, <1>5 DEF FilesTypeOK
    <2>2. FileTypes'
      BY <1>1, <2>1 DEF FilesTypeOK, FileTypes, Asks
    <2>3. \A p \in Objects : obj'[p] # Absent => obj'[p] \in Bodies(p)
      BY <1>1, <1>5 DEF FilesTypeOK, Exists, Asks
    <2>. QED
      BY <1>1, <1>18, <2>2, <2>3, TypesKept DEF Asks
  <1>21. \A p \in Objects \ {o} : obj'[p] = obj[p] /\ (Exists(p)' <=> Exists(p)) /\ (p \in blurred' <=> p \in blurred)
    BY <1>2 DEF Exists, Asks
  <1>22. \A p \in Objects \ {o} : Gone(p)' <=> Gone(p)
    BY <1>4, <1>15, <1>16, <1>21 DEF Gone
  <1>23. Range(do) \subseteq Making => ~Gone(o)' /\ Exists(o)'
    <2> SUFFICES ASSUME Range(do) \subseteq Making PROVE ~Gone(o)' /\ Exists(o)'
      OBVIOUS
    <2>1. "drop" \notin Range(do)
      BY DEF Making, Renewing
    <2>2. Exists(o)'
      <3>1. CASE obj'[o] = b /\ b \in Bodies(o)
        BY <1>5, <3>1, BodyTypes DEF Exists
      <3>2. CASE /\ Range(do) \cap Making = {} /\ (o \in Dirs => "rmdir" \in Range(do))
                 /\ o \in Claims \cup Workloads => "unlink" \in Range(do)
        <4>1. Range(do) = {}
          BY <3>2
        <4>. QED
          BY <1>5, <3>2, <4>1 DEF Objects
      <3>. QED
        BY <3>1, <3>2 DEF Asks
    <2>. QED
      BY <1>15, <1>16, <2>1, <2>2 DEF Gone
  <1>24. ~(Range(do) \subseteq Making) => Gone(o)' /\ Range(do) \cap Making = {}
    BY <1>15 DEF Gone, Exists, Asks
  <1>25. Starting => o \in blurred'
    BY <1>2
  <1>26. BlurInv'
    <2>1. Starting' => \A t \in Todos(Client)' : t.o \in blurred'
      BY <1>8, <1>12, <1>14, <1>25
    <2>2. \A p \in Objects : Exists(p)' => p \in cast'
      BY <1>1, <1>21 DEF BlurInv
    <2>3. \A t \in Todos(Client)' : Makes(t)' \/ Gone(t.o)'
      <3>1. CASE Range(do) \subseteq Making
        BY <1>8, <1>9, <1>13, <1>14, <3>1 DEF Makes
      <3>2. CASE ~(Range(do) \subseteq Making)
        BY <1>8, <1>14, <1>24, <3>2
      <3>. QED
        BY <3>1, <3>2
    <2>4. \A c \in Callers : \A t \in Todos(c)' : t.o \notin blurred' /\ Range(t.do) \subseteq Making =>
            /\ Exists(t.o)'
            /\ Range(t.do) \cap Renewing # {} => t.b = obj'[t.o]
            /\ "quad" \in Range(t.do) /\ "env" \notin Range(t.do) =>
                 t.b.t = obj'[t.o] /\ (t.b.file => t.b.t.secret # Absent)
      <3> SUFFICES ASSUME NEW c \in Callers, NEW t \in Todos(c)', t.o \notin blurred', Range(t.do) \subseteq Making
                   PROVE  /\ Exists(t.o)'
                          /\ Range(t.do) \cap Renewing # {} => t.b = obj'[t.o]
                          /\ "quad" \in Range(t.do) /\ "env" \notin Range(t.do) =>
                               t.b.t = obj'[t.o] /\ (t.b.file => t.b.t.secret # Absent)
        OBVIOUS
      <3>1. CASE c = Client
        <4>1. t.o = o /\ t.do = do /\ t.b = b /\ do # <<>>
          BY <1>8, <1>14, <3>1
        <4>2. Exists(o)' /\ Range(do) \subseteq Making
          BY <1>23, <4>1
        <4>3. "quad" \in Range(do) => "env" \in Range(do)
          BY <4>1 DEF Asks
        <4>4. Range(do) \cap Renewing # {} => b = obj'[o]
          BY <4>2 DEF Asks, Making
        <4>. QED
          BY <4>1, <4>2, <4>3, <4>4
      <3>2. CASE c = Main
        <4>1. t \in Todos(Main)
          BY <1>12, <3>2
        <4>2. Starting /\ t.o \in Objects
          <5>1. t \in Range(tasks[Main]) /\ "o" \in DOMAIN t
            BY <4>1 DEF Todos
          <5>2. Starting
            BY <5>1, ShortTails DEF Starting
          <5>3. Makes(t)
            BY <1>1, <5>1, TaskKinds DEF TasksInv
          <5>. QED
            BY <1>1, <5>2, <5>3, TaskKinds DEF Makes
        <4>3. t.o \in Objects \ {o} /\ t.o \notin blurred
          BY <1>21, <1>25, <4>2
        <4>4. /\ Exists(t.o)
              /\ Range(t.do) \cap Renewing # {} => t.b = obj[t.o]
              /\ "quad" \in Range(t.do) /\ "env" \notin Range(t.do) =>
                   t.b.t = obj[t.o] /\ (t.b.file => t.b.t.secret # Absent)
          BY <1>1, <4>1, <4>3, Kinds DEF BlurInv
        <4>5. obj'[t.o] = obj[t.o] /\ Exists(t.o)'
          BY <1>21, <4>3, <4>4
        <4>. QED
          BY <4>4, <4>5
      <3>3. CASE c \notin {Client, Main}
        BY <1>1, <1>11, <3>3, ShortTails DEF TasksInv, Callers, Todos
      <3>. QED
        BY <3>1, <3>2, <3>3
    <2>. QED
      BY <1>16, <2>1, <2>2, <2>3, <2>4 DEF BlurInv
  <1>27. \A p \in Workloads \ {o} : Exists(p) => (EnvFits(p) => EnvFits(p)')
    <2> SUFFICES ASSUME NEW p \in Workloads \ {o}, Exists(p), EnvFits(p) PROVE EnvFits(p)'
      OBVIOUS
    <2>1. p \in Objects /\ obj[p] \in Templates /\ obj'[p] = obj[p] /\ (p \in stale => p \in stale')
      BY <1>1, Kinds, BodyTypes DEF FilesTypeOK, Asks
    <2>2. PICK t \in Templates : t = obj[p]
      BY <2>1
    <2>3. CASE p \in stale'
      BY <1>1, <2>3 DEF EnvFits
    <2>4. CASE p \notin stale'
      <3>1. SecretEnv(t)' = SecretEnv(t)
        <4>1. CASE obj' = obj
          BY <4>1 DEF SecretEnv, DataOf, Referred
        <4>2. CASE Refer(o) \subseteq stale'
          <5>1. t.secret # o
            BY <2>2, <2>4, <4>2 DEF Refer
          <5>2. t.secret = Absent \/ t.secret \in Objects \ {o}
            BY <5>1, Kinds
          <5>3. t.secret = Absent \/ obj'[t.secret] = obj[t.secret]
            BY <5>2, <1>21
          <5>4. DataOf(t.secret)' = DataOf(t.secret)
            BY <5>3 DEF DataOf
          <5>. QED
            BY <5>4 DEF SecretEnv, Referred
        <4>. QED
          BY <4>1, <4>2 DEF Asks
      <3>2. SecretEnv(obj[p])' = SecretEnv(obj[p])
        <4>1. obj'[p] = t
          BY <2>1, <2>2
        <4>. QED
          BY <2>2, <3>1, <4>1 DEF SecretEnv
      <3>. QED
        BY <1>1, <2>1, <2>4, <3>2 DEF EnvFits
    <2>. QED
      BY <2>3, <2>4
  <1>28. MomentInv'
    <2>1. \A c \in Callers : (InHand(c) /\ Now(c).o \notin blurred /\ Now(c).b.file => EnvFits(Now(c).o))'
      <3> SUFFICES ASSUME NEW c \in Callers, (InHand(c) /\ Now(c).o \notin blurred /\ Now(c).b.file)'
                   PROVE  EnvFits(Now(c).o)'
        OBVIOUS
      <3>1. c # Client
        <4> SUFFICES ASSUME c = Client PROVE FALSE
          OBVIOUS
        <4>1. rest # <<>> /\ Now(c)' = Head(rest)
          BY <1>11 DEF InHand, Now
        <4>2. do # <<>> /\ Now(c)' = u
          BY <1>6, <4>1, ShortTails
        <4>. QED
          BY <1>8, <4>2 DEF InHand, Asks
      <3>2. tasks'[c] = tasks[c]
        BY <1>11, <3>1
      <3>3. Now(c)' = Now(c) /\ tasks[c] # <<>>
        <4>1. Now(c)' = Now(c)
          BY <3>2 DEF Now
        <4>. QED
          BY <3>2, <4>1 DEF InHand
      <3>4. InHand(c)
        BY <3>2, <3>3 DEF InHand
      <3>5. c = Main /\ Starting /\ Now(c) \in Todos(c) /\ IsTodo(Now(c)) /\ Makes(Now(c))
        <4>1. c = Main /\ Now(c) \in Todos(c)
          BY <1>1, <3>1, <3>3, <3>4, TaskInHand DEF InHand, Todos
        <4>. QED
          BY <1>1, <3>3, <3>4, <4>1, TaskInHand, TaskKinds DEF InHand, Starting, Makes
      <3>6. PICK w : w = Now(c).o
        OBVIOUS
      <3>7. w \in Workloads /\ w \in Objects
        BY <3>4, <3>5, <3>6, Kinds DEF IsTodo, Fits, InHand
      <3>8. w # o /\ w \notin blurred
        BY <1>21, <1>25, <3>3, <3>5, <3>6, <3>7
      <3>9. Exists(w)
        BY <1>1, <3>5, <3>6, <3>8 DEF BlurInv, Makes
      <3>10. EnvFits(w)
        BY <1>1, <3>3, <3>4, <3>6, <3>8 DEF MomentInv
      <3>11. EnvFits(w)'
        BY <1>27, <3>7, <3>8, <3>9, <3>10
      <3>. QED
        BY <3>3, <3>6, <3>11
    <2>2. ~ \E t \in Range(tasks'[Client]) : t.do = <<"purge">>
      <3> SUFFICES ASSUME NEW t \in Range(rest), t.do = <<"purge">> PROVE FALSE
        BY <1>11
      <3>1. IsTodo(t)
        BY <1>9, <1>10
      <3>2. Staged(t.do) /\ "purge" \in Range(t.do)
        BY <1>1, <3>1, TaskKinds, ShortTails
      <3>. QED
        BY <3>2 DEF Staged
    <2>. QED
      BY <1>1, <1>2, <2>1, <2>2 DEF MomentInv
  <1>29. ASSUME NEW p \in Objects, p # o PROVE Fine(p)'
    <2>1. Fine(p)
      BY DEF FilesInv
    <2>2. CASE Exists(p)
      <3>1. (Purging' <=> Purging) /\ (Gone(p)' <=> Gone(p)) /\ \A x : Pending(Client, p, x)' <=> Pending(Client, p, x)
        BY <1>3, <1>15, <1>16, <1>22, <1>29
      <3>2. p \in Workloads => (EnvFits(p) => EnvFits(p)')
        BY <1>27, <1>29, <2>2
      <3>3. obj'[p] = obj[p] /\ (p \in blurred => p \in blurred') /\ (p \in stale => p \in stale')
        BY <1>21, <1>29 DEF Asks
      <3>4. Steady(p)
        BY <1>1, <1>17, <3>1, <3>2, <3>3 DEF Steady
      <3>. QED
        BY <2>1, <3>4, StillFine
    <2>3. CASE ~Exists(p)
      <3>1. Gone(p) /\ Gone(p)' /\ ~Exists(p)'
        BY <1>4, <1>21, <1>22, <1>29, <2>3
      <3>2. OrphanFine(p)'
        BY <1>1, <1>3, <1>21, <1>29, <2>1, <3>1 DEF Fine, OrphanFine
      <3>. QED
        BY <3>1, <3>2, GoneIsFine
    <2>. QED
      BY <2>2, <2>3
  <1>30. Fine(o)'
    <2>1. Fine(o)
      BY <1>5 DEF FilesInv
    <2>2. CASE Range(do) \subseteq Making
      <3>1. ~Gone(o)' /\ Exists(o)'
        BY <1>23, <2>2
      <3>2. /\ o \in Workloads => "quad" \in Range(do) /\ (o \in CronJobs => "timer" \in Range(do))
            /\ o \in Claims => o \in stale' \/ "volume" \in Range(do)
            /\ o \in Dirs => "files" \in Range(do) /\ (o \in Secrets => "prune" \in Range(do) \/ ~Exists(o))
        <4>1. CASE Range(do) \cap Making = {}
          <5>1. Range(do) = {}
            BY <2>2, <4>1
          <5>. QED
            BY <1>5, <3>1, <5>1, Kinds DEF Asks, Exists, Objects
        <4>2. CASE Range(do) \cap Making # {}
          BY <4>2 DEF Asks
        <4>. QED
          BY <4>1, <4>2
      <3>3. OrphanFine(o)'
        BY <3>1 DEF OrphanFine
      <3>4. DirFine(o)'
        <4> SUFFICES ASSUME o \in Dirs, o \notin blurred' PROVE DirFine(o)'
          BY DEF DirFine
        <4>1. "files" \in Range(do) /\ (o \in Secrets => "prune" \in Range(do) \/ ~Exists(o))
          BY <3>2
        <4>2. ~Exists(o) => dir[o] = Absent
          <5>1. o \notin blurred
            BY <1>2
          <5>. QED
            BY <1>3, <1>4, <2>1, <5>1 DEF Fine, OrphanFine
        <4>. QED
          BY <1>1, <1>15, <4>1, <4>2 DEF DirFine
      <3>5. RenderFine(o)'
        BY <1>15, <3>2, Kinds DEF RenderFine
      <3>6. EnvFine(o)'
        BY <1>15, <3>2 DEF EnvFine
      <3>. QED
        BY <3>3, <3>4, <3>5, <3>6 DEF Fine
    <2>3. CASE ~(Range(do) \subseteq Making)
      <3>1. Gone(o)' /\ Range(do) \cap Making = {}
        BY <1>24, <2>3
      <3>2. /\ obj'[o] = Absent \/ (obj' = obj /\ "drop" \in Range(do))
            /\ o \in Dirs => "rmdir" \in Range(do)
            /\ o \in Claims \cup Workloads => "unlink" \in Range(do)
            /\ o \in Workloads => "stop" \in Range(do)
            /\ o \in CronJobs => "unlinkTimer" \in Range(do)
        BY <2>3 DEF Asks
      <3>3. (o \in timer => o \in CronJobs) /\ (o \in running => o \in Workloads)
        BY <1>1 DEF FilesTypeOK
      <3>4. OrphanFine(o)'
        BY <1>1, <1>15, <3>2, <3>3 DEF OrphanFine
      <3>5. ~Exists(o)' \/ o \notin Dirs
        <4>1. "drop" \in Range(do) => o \in Workloads
          <5>1. CASE do = <<>>
            BY <5>1, ShortTails
          <5>2. CASE do # <<>>
            BY <5>2 DEF Asks, Fits
          <5>. QED
            BY <5>1, <5>2
        <4>. QED
          BY <3>2, <4>1, Kinds DEF Exists
      <3>. QED
        BY <3>1, <3>4, <3>5, GoneIsFine
    <2>. QED
      BY <2>2, <2>3
  <1>. QED
    BY <1>1, <1>18, <1>19, <1>20, <1>26, <1>28, <1>29, <1>30 DEF FilesInv

(* What is left to do for o once it is stored. *)
Wanted(o, do) ==
  /\ \/ do = <<>>
     \/ /\ do \in Shapes /\ Fits(do, o) /\ Range(do) \cap {"data", "bind", "heal", "healTimer"} = {}
        /\ do # <<"env">> /\ ("quad" \in Range(do) => "env" \in Range(do))
  /\ Range(do) \subseteq Making
  /\ o \in Workloads => "quad" \in Range(do) /\ (o \in CronJobs => "timer" \in Range(do))
  /\ o \in Claims => Exists(o) \/ "volume" \in Range(do)
  /\ o \in Dirs => "files" \in Range(do) /\ (o \in Secrets => "prune" \in Range(do) \/ ~Exists(o))

LEMMA StoreInv ==
  ASSUME FilesInv, NEW o \in cast, NEW b \in Bodies(o), NEW do, Wanted(o, do),
         CreateThen(o, b, do) \/ UpdateThen(o, b, do)
  PROVE  FilesInv'
  <1>1. cast \in Casts /\ FilesTypeOK /\ o \in Objects
    BY DEF FilesInv
  <1>2. StoreThen(o, b, do)
    BY DEF CreateThen, UpdateThen
  <1>3. DOMAIN obj' = Objects /\ obj'[o] = b /\ \A p \in Objects \ {o} : obj'[p] = obj[p]
    BY <1>1, <1>2 DEF StoreThen, FilesTypeOK
  <1>4. Refer(o) \subseteq Objects
    BY Kinds DEF Refer
  <1>5. /\ stale' \subseteq Objects /\ stale \subseteq stale' \cup {o} /\ Refer(o) \subseteq stale'
        /\ o \in Claims => o \in stale' \/ "volume" \in Range(do)
    <2>1. CASE CreateThen(o, b, do)
      BY <1>1, <1>4, <2>1 DEF CreateThen, FilesTypeOK, Wanted
    <2>2. CASE UpdateThen(o, b, do)
      BY <1>1, <1>4, <2>2 DEF UpdateThen, FilesTypeOK, Wanted
    <2>. QED
      BY <2>1, <2>2
  <1>6. Asks(o, do, b)
    BY <1>3, <1>5 DEF Asks, Wanted
  <1>. QED
    BY <1>2, <1>6, CallKeepsInv DEF StoreThen

LEMMA Wants ==
  /\ \A o \in ConfigMaps : Wanted(o, <<"files">>)
  /\ \A o \in Secrets : (~Exists(o) => Wanted(o, <<"files">>)) /\ Wanted(o, <<"prune", "files">>)
  /\ \A o \in Claims : Wanted(o, <<"volume">>) /\ (Exists(o) => Wanted(o, <<>>))
  /\ \A o \in Workloads \ CronJobs : Wanted(o, <<"env", "quad">>) /\ Wanted(o, <<"env", "quad", "start">>)
  /\ \A o \in CronJobs : Wanted(o, <<"env", "quad", "timer", "start">>)
  <1>1. /\ <<"files">> \in Shapes /\ <<"prune", "files">> \in Shapes /\ <<"volume">> \in Shapes
        /\ <<"env", "quad">> \in Shapes /\ <<"env", "quad", "start">> \in Shapes
        /\ <<"env", "quad", "timer", "start">> \in Shapes
    BY DEF Shapes, Restores
  <1>2. {"files", "prune", "volume", "env", "quad", "start", "timer"} \subseteq Making
    BY DEF Making, Renewing
  <1>3. \A o \in ConfigMaps : Wanted(o, <<"files">>)
    BY <1>1, <1>2, ShortTails, Kinds DEF Wanted, Fits
  <1>4. \A o \in Secrets : ~Exists(o) => Wanted(o, <<"files">>)
    BY <1>1, <1>2, ShortTails, Kinds DEF Wanted, Fits
  <1>5. \A o \in Secrets : Wanted(o, <<"prune", "files">>)
    BY <1>1, <1>2, ShortTails, Kinds DEF Wanted, Fits
  <1>6. \A o \in Claims : Wanted(o, <<"volume">>)
    BY <1>1, <1>2, ShortTails, Kinds DEF Wanted, Fits
  <1>7. \A o \in Claims : Exists(o) => Wanted(o, <<>>)
    BY ShortTails, Kinds DEF Wanted
  <1>8. \A o \in Workloads \ CronJobs : Wanted(o, <<"env", "quad">>)
    <2>1. Range(<<"env", "quad">>) = {"env", "quad"} /\ <<"env", "quad">> # <<"env">>
      BY ShortTails
    <2>. QED
      BY <1>1, <1>2, <2>1, Kinds DEF Wanted, Fits
  <1>9. \A o \in Workloads \ CronJobs : Wanted(o, <<"env", "quad", "start">>)
    <2>1. Range(<<"env", "quad", "start">>) = {"env", "quad", "start"} /\ <<"env", "quad", "start">> # <<"env">>
      BY ShortTails
    <2>. QED
      BY <1>1, <1>2, <2>1, Kinds DEF Wanted, Fits
  <1>10. \A o \in CronJobs : Wanted(o, <<"env", "quad", "timer", "start">>)
    <2>1. /\ Range(<<"env", "quad", "timer", "start">>) = {"env", "quad", "timer", "start"}
          /\ <<"env", "quad", "timer", "start">> # <<"env">>
      BY ShortTails
    <2>. QED
      BY <1>1, <1>2, <2>1, Kinds DEF Wanted, Fits
  <1>. QED
    BY <1>3, <1>4, <1>5, <1>6, <1>7, <1>8, <1>9, <1>10

LEMMA RequestInv ==
  ASSUME FilesInv, NEW o \in cast, NEW b \in Bodies(o),
         \/ PostConfigMap(o, b) \/ PutConfigMap(o, b) \/ PostSecret(o, b) \/ PatchSecret(o, b)
         \/ PostClaim(o, b) \/ PatchClaim(o, b) \/ PostJob(o, b) \/ PatchJob(o, b)
         \/ PostCronJob(o, b) \/ PatchCronJob(o, b) \/ PostWorkload(o, b) \/ PatchWorkload(o, b)
  PROVE  FilesInv'
  <1>0. \A p \in Pods \cup Replicas \cup Jobs : p \in Workloads \ CronJobs
    BY Kinds DEF Workloads
  <1>1. CASE PostConfigMap(o, b) \/ PutConfigMap(o, b)
    BY <1>1, Wants, StoreInv DEF PostConfigMap, PutConfigMap
  <1>2. CASE PostSecret(o, b)
    <2>1. o \in Secrets /\ ~Exists(o) /\ CreateThen(o, b, <<"files">>)
      BY <1>2 DEF PostSecret, CreateThen
    <2>. QED
      BY <2>1, Wants, StoreInv
  <1>3. CASE PatchSecret(o, b)
    BY <1>3, Wants, StoreInv DEF PatchSecret
  <1>4. CASE PostClaim(o, b)
    BY <1>4, Wants, StoreInv DEF PostClaim
  <1>5. CASE PatchClaim(o, b)
    <2>1. o \in Claims /\ Exists(o) /\ UpdateThen(o, b, <<>>)
      BY <1>5 DEF PatchClaim, UpdateThen
    <2>. QED
      BY <2>1, Wants, StoreInv
  <1>6. CASE PostJob(o, b) \/ PatchJob(o, b)
    BY <1>0, <1>6, Wants, StoreInv DEF PostJob, PatchJob
  <1>7. CASE PostCronJob(o, b) \/ PatchCronJob(o, b)
    BY <1>7, Wants, StoreInv DEF PostCronJob, PatchCronJob
  <1>8. CASE PostWorkload(o, b) \/ PatchWorkload(o, b)
    BY <1>0, <1>8, Wants, StoreInv DEF PostWorkload, PatchWorkload
  <1>. QED
    BY <1>1, <1>2, <1>3, <1>4, <1>5, <1>6, <1>7, <1>8

(* The stages of a teardown. *)
LEMMA Teardowns ==
  ASSUME NEW o \in Objects
  PROVE
  /\ Teardown(o) \in Shapes /\ Fits(Teardown(o), o) /\ Teardown(o) # <<>> /\ Teardown(o) # <<"env">>
  /\ Range(Teardown(o)) \subseteq {"rmdir", "stop", "unlink", "unlinkTimer"}
  /\ o \in Dirs => "rmdir" \in Range(Teardown(o))
  /\ o \in Claims \cup Workloads => "unlink" \in Range(Teardown(o))
  /\ o \in Workloads => "stop" \in Range(Teardown(o))
  /\ o \in CronJobs => "unlinkTimer" \in Range(Teardown(o))
  <1>1. CASE o \in Dirs
    <2>1. Teardown(o) = <<"rmdir">> /\ Range(<<"rmdir">>) = {"rmdir"} /\ <<"rmdir">> \in Shapes
      BY <1>1, ShortTails DEF Teardown, Shapes
    <2>. QED
      BY <1>1, <2>1, Kinds, ShortTails DEF Fits
  <1>2. CASE o \in Claims
    <2>1. Teardown(o) = <<"unlink">> /\ Range(<<"unlink">>) = {"unlink"} /\ <<"unlink">> \in Shapes
      BY <1>2, ShortTails, Kinds DEF Teardown, Shapes
    <2>. QED
      BY <1>2, <2>1, Kinds, ShortTails DEF Fits
  <1>3. CASE o \in CronJobs
    <2>1. /\ Teardown(o) = <<"stop", "unlink", "unlinkTimer">>
          /\ Range(<<"stop", "unlink", "unlinkTimer">>) = {"stop", "unlink", "unlinkTimer"}
          /\ <<"stop", "unlink", "unlinkTimer">> \in Shapes
      BY <1>3, ShortTails, Kinds DEF Teardown, Shapes
    <2>. QED
      BY <1>3, <2>1, Kinds, ShortTails DEF Fits
  <1>4. CASE o \in Workloads \ CronJobs
    <2>1. /\ Teardown(o) = <<"stop", "unlink">> /\ Range(<<"stop", "unlink">>) = {"stop", "unlink"}
          /\ <<"stop", "unlink">> \in Shapes
      BY <1>4, ShortTails, Kinds DEF Teardown, Shapes
    <2>. QED
      BY <1>4, <2>1, Kinds, ShortTails DEF Fits
  <1>. QED
    BY <1>1, <1>2, <1>3, <1>4 DEF Objects

LEMMA FourthStage ==
  ASSUME NEW x, NEW y, NEW z, NEW e
  PROVE  <<x, y, z>> \o <<e>> = <<x, y, z, e>>
  <1>1. PICK s, t, u, R : s = <<x, y, z>> /\ t = <<e>> /\ u = <<x, y, z, e>> /\ R = {x, y, z, e}
    OBVIOUS
  <1>2. s \in Seq(R) /\ t \in Seq(R) /\ u \in Seq(R)
    BY <1>1
  <1>3. Len(s) = 3 /\ s[1] = x /\ s[2] = y /\ s[3] = z /\ Len(t) = 1 /\ t[1] = e
        /\ Len(u) = 4 /\ u[1] = x /\ u[2] = y /\ u[3] = z /\ u[4] = e
    BY <1>1
  <1>4. s \o t \in Seq(R) /\ Len(s \o t) = Len(s) + Len(t)
        /\ \A i \in 1..(Len(s) + Len(t)) : (s \o t)[i] = IF i <= Len(s) THEN s[i] ELSE t[i - Len(s)]
    BY <1>2, ConcatProperties
  <1>5. \A i \in 1..4 : (s \o t)[i] = u[i]
    <2>1. \A i \in 1..4 : i = 1 \/ i = 2 \/ i = 3 \/ i = 4
      OBVIOUS
    <2>2. (s \o t)[1] = x /\ (s \o t)[2] = y /\ (s \o t)[3] = z
      BY <1>3, <1>4
    <2>3. (s \o t)[4] = t[4 - Len(s)]
      BY <1>3, <1>4
    <2>4. 4 - Len(s) = 1
      BY <1>3
    <2>5. (s \o t)[4] = e
      BY <1>3, <2>3, <2>4
    <2> SUFFICES ASSUME NEW i \in 1..4 PROVE (s \o t)[i] = u[i]
      OBVIOUS
    <2>. QED
      BY <1>3, <2>1, <2>2, <2>5
  <1>6. s \o t = u
    BY <1>2, <1>3, <1>4, <1>5, SeqEqual
  <1>. QED
    BY <1>1, <1>6

(* A workload leaves the store when its files have gone. *)
LEMMA TeardownDrops ==
  ASSUME NEW o \in Workloads, NEW do, do = Teardown(o) \o <<"drop">>
  PROVE
  /\ do \in Shapes /\ Fits(do, o) /\ do # <<>> /\ do # <<"env">>
  /\ Range(do) \subseteq {"stop", "unlink", "unlinkTimer", "drop"}
  /\ {"stop", "unlink", "drop"} \subseteq Range(do)
  /\ o \in CronJobs => "unlinkTimer" \in Range(do)
  <1>1. CASE o \in CronJobs
    <2>1. Teardown(o) = <<"stop", "unlink", "unlinkTimer">>
      BY <1>1, Kinds DEF Teardown
    <2>2. do = <<"stop", "unlink", "unlinkTimer", "drop">>
      BY <2>1, FourthStage
    <2>3. /\ Range(<<"stop", "unlink", "unlinkTimer", "drop">>) = {"stop", "unlink", "unlinkTimer", "drop"}
          /\ <<"stop", "unlink", "unlinkTimer", "drop">> \in Shapes
      BY ShortTails DEF Shapes
    <2>4. Range(do) = {"stop", "unlink", "unlinkTimer", "drop"} /\ do \in Shapes
      BY <2>2, <2>3
    <2>6. do # <<>> /\ do # <<"env">>
      <3>1. do # <<>>
        BY <2>4, ShapesStaged DEF Staged
      <3>2. ASSUME do = <<"env">> PROVE FALSE
        <4>1. Range(do) = {"env"}
          BY <3>2, ShortTails
        <4>. QED
          BY <2>4, <4>1
      <3>. QED
        BY <3>1, <3>2
    <2>5. Fits(do, o)
      BY <1>1, <2>4, Kinds DEF Fits
    <2>. QED
      BY <1>1, <2>4, <2>5, <2>6
  <1>2. CASE o \notin CronJobs
    <2>1. Teardown(o) = <<"stop", "unlink">>
      BY <1>2, Kinds DEF Teardown
    <2>2. do = <<"stop", "unlink", "drop">>
      BY <2>1, ThirdStage
    <2>3. /\ Range(<<"stop", "unlink", "drop">>) = {"stop", "unlink", "drop"}
          /\ <<"stop", "unlink", "drop">> \in Shapes
      BY ShortTails DEF Shapes
    <2>4. Range(do) = {"stop", "unlink", "drop"} /\ do \in Shapes
      BY <2>2, <2>3
    <2>6. do # <<>> /\ do # <<"env">>
      <3>1. do # <<>>
        BY <2>4, ShapesStaged DEF Staged
      <3>2. ASSUME do = <<"env">> PROVE FALSE
        <4>1. Range(do) = {"env"}
          BY <3>2, ShortTails
        <4>. QED
          BY <2>4, <4>1
      <3>. QED
        BY <3>1, <3>2
    <2>5. Fits(do, o)
      BY <1>2, <2>4, Kinds DEF Fits
    <2>. QED
      BY <1>2, <2>4, <2>5, <2>6
  <1>. QED
    BY <1>1, <1>2

LEMMA DeleteObjectInv ==
  ASSUME FilesInv, NEW o \in cast, DeleteObject(o)
  PROVE  FilesInv'
  <1>1. /\ cast \in Casts /\ FilesTypeOK /\ o \in Objects /\ Exists(o)
        /\ UNCHANGED <<cast, tmpfs, units, alive, lost>>
    BY DEF FilesInv, DeleteObject
  <1>2. CASE o \in Workloads
    <2>1. PICK do : do = Teardown(o) \o <<"drop">>
      OBVIOUS
    <2>2. /\ do \in Shapes /\ Fits(do, o) /\ do # <<>> /\ do # <<"env">>
          /\ Range(do) \subseteq {"stop", "unlink", "unlinkTimer", "drop"}
          /\ {"stop", "unlink", "drop"} \subseteq Range(do)
          /\ o \in CronJobs => "unlinkTimer" \in Range(do)
      BY <1>2, <2>1, TeardownDrops
    <2>3. obj' = obj /\ stale' = stale /\ Call(<<Todo(do, o, Absent)>>, {o})
      BY <1>2, <2>1 DEF DeleteObject
    <2>4. Asks(o, do, Absent)
      BY <1>1, <1>2, <2>2, <2>3, Kinds DEF Asks, Making, Renewing, FilesTypeOK
    <2>. QED
      BY <1>1, <2>2, <2>3, <2>4, CallKeepsInv
  <1>3. CASE o \notin Workloads
    <2>1. PICK do : do = Teardown(o)
      OBVIOUS
    <2>2. /\ do \in Shapes /\ Fits(do, o) /\ do # <<>> /\ do # <<"env">>
          /\ Range(do) \subseteq {"rmdir", "stop", "unlink", "unlinkTimer"}
          /\ o \in Dirs => "rmdir" \in Range(do)
          /\ o \in Claims \cup Workloads => "unlink" \in Range(do)
          /\ o \in Workloads => "stop" \in Range(do)
          /\ o \in CronJobs => "unlinkTimer" \in Range(do)
      BY <1>1, <2>1, Teardowns
    <2>3. /\ obj' = [obj EXCEPT ![o] = Absent] /\ stale' = stale \cup Refer(o)
          /\ Call(<<Todo(do, o, Absent)>>, {o})
      BY <1>3, <2>1 DEF DeleteObject
    <2>4. DOMAIN obj' = Objects /\ obj'[o] = Absent /\ \A p \in Objects \ {o} : obj'[p] = obj[p]
      BY <1>1, <2>3 DEF FilesTypeOK
    <2>5. stale' \subseteq Objects /\ stale \subseteq stale' \cup {o} /\ Refer(o) \subseteq stale'
      BY <1>1, <2>3, Kinds DEF FilesTypeOK, Refer
    <2>6. Asks(o, do, Absent)
      BY <2>2, <2>4, <2>5 DEF Asks, Making, Renewing
    <2>. QED
      BY <1>1, <2>2, <2>3, <2>6, CallKeepsInv
  <1>. QED
    BY <1>2, <1>3

(* The tasks of a namespace delete: teardowns, then the purge. *)
Purges(os, rest) ==
  /\ rest \in Seq(Range(rest)) /\ DOMAIN rest = 1..Len(rest) /\ Len(rest) \in Nat \ {0}
  /\ \A t \in Range(rest) :
       \/ IsPurge(t) /\ t.do = <<"rmtree", "purge">>
       \/ /\ IsTodo(t) /\ t.o \in os /\ Range(t.do) \cap Making = {} /\ ~Makes(t)
          /\ t.do # <<"env">> /\ t.do # <<"purge">>
  /\ \A o \in os : \E t \in Range(rest) : "o" \in DOMAIN t /\ t.o = o /\ t.do = Teardown(o)
  /\ \A j \in DOMAIN rest : IsPurge(rest[j]) <=> j = Len(rest)

LEMMA PurgeLists ==
  ASSUME cast \in Casts, NEW os, os \subseteq cast, NEW rest, rest = PurgeTasks(SetToSeq(os))
  PROVE  Purges(os, rest)
  <1>1. IsFiniteSet(os)
    BY FS_Subset
  <1>2. PICK s, p, more, tail :
          /\ s = SetToSeq(os) /\ p = [do |-> <<"rmtree", "purge">>] /\ tail = <<p>>
          /\ more = [j \in 1..Len(s) |-> Todo(Teardown(s[j]), s[j], Absent)]
    OBVIOUS
  <1>3. PICK f : f = [o \in os |-> Todo(Teardown(o), o, Absent)]
    OBVIOUS
  <1>4. Enlisted(os, f, more)
    <2>1. \A j \in 1..Len(s) : s[j] \in os
      BY <1>1, <1>2, SetToSeqIsSeq
    <2>2. more = [j \in 1..Len(s) |-> f[s[j]]]
      BY <1>2, <1>3, <2>1
    <2>3. s = SetToSeq(os)
      BY <1>2
    <2>. QED
      BY <1>1, <2>2, <2>3, Enlists
  <1>5. /\ more \in Seq(Range(more)) /\ Len(more) \in Nat /\ DOMAIN more = 1..Len(more)
        /\ tail \in Seq(Range(tail)) /\ Range(tail) = {p} /\ Len(tail) = 1 /\ tail[1] = p
    BY <1>2, <1>4, SmallLists DEF Enlisted
  <1>6. rest = more \o tail
    BY <1>2 DEF PurgeTasks
  <1>7. more \in Seq(Range(more) \cup Range(tail)) /\ tail \in Seq(Range(more) \cup Range(tail))
    <2>1. Range(more) \subseteq Range(more) \cup Range(tail) /\ Range(tail) \subseteq Range(more) \cup Range(tail)
      OBVIOUS
    <2>. QED
      BY <1>5, <2>1, SeqWiden
  <1>8. /\ rest \in Seq(Range(more) \cup Range(tail)) /\ Len(rest) = Len(more) + Len(tail)
        /\ \A i \in 1..(Len(more) + Len(tail)) :
             rest[i] = IF i <= Len(more) THEN more[i] ELSE tail[i - Len(more)]
    BY <1>6, <1>7, ConcatProperties
  <1>9. /\ rest \in Seq(Range(rest)) /\ Len(rest) = Len(more) + 1 /\ Len(rest) \in Nat \ {0}
        /\ DOMAIN rest = 1..Len(rest)
    BY <1>5, <1>8, SeqOfRange
  <1>10. Range(rest) = Range(more) \cup {p}
    BY <1>5, <1>6, <1>7, RangeConcatenation
  <1>11. rest[Len(rest)] = p /\ \A j \in 1..Len(more) : rest[j] = more[j] /\ rest[j] \in Range(more)
    <2>1. rest[Len(more) + 1] = tail[(Len(more) + 1) - Len(more)] /\ (Len(more) + 1) - Len(more) = 1
      BY <1>5, <1>8
    <2>2. \A j \in 1..Len(more) : rest[j] = more[j]
      BY <1>5, <1>8
    <2>3. \A j \in 1..Len(more) : more[j] \in Range(more)
      BY <1>5 DEF Range
    <2>. QED
      BY <1>5, <1>9, <2>1, <2>2, <2>3
  <1>12. ASSUME NEW t \in Range(more)
         PROVE  /\ IsTodo(t) /\ t.o \in os /\ Range(t.do) \cap Making = {} /\ ~Makes(t)
                /\ t.do # <<"env">> /\ t.do # <<"purge">> /\ ~IsPurge(t)
    <2>1. PICK o \in os : t = Todo(Teardown(o), o, Absent)
      BY <1>3, <1>4 DEF Enlisted
    <2>2. o \in Objects /\ o \in cast
      OBVIOUS
    <2>3. t.do = Teardown(o) /\ t.o = o /\ t.b = Absent /\ "o" \in DOMAIN t
      BY <2>1, TodoFields
    <2>4. /\ t.do \in Shapes /\ Fits(t.do, o) /\ t.do # <<"env">>
          /\ Range(t.do) \subseteq {"rmdir", "stop", "unlink", "unlinkTimer"}
      BY <2>2, <2>3, Teardowns
    <2>5. Range(t.do) \cap Making = {} /\ "quad" \notin Range(t.do) /\ Range(t.do) \cap Renewing = {}
      BY <2>4 DEF Making, Renewing
    <2>6. IsTodo(t)
      BY <2>1, <2>2, <2>3, <2>4, <2>5 DEF IsTodo
    <2>7. Range(t.do) # {} /\ t.do # <<"purge">> /\ ~IsPurge(t)
      <3>1. Staged(t.do) /\ ~IsPurge(t)
        BY <2>6, TaskKinds
      <3>2. "purge" \in Range(<<"purge">>)
        BY ShortTails
      <3>. QED
        BY <3>1, <3>2 DEF Staged
    <2>. QED
      BY <2>3, <2>4, <2>5, <2>6, <2>7 DEF Makes
  <1>13. IsPurge(p) /\ p.do = <<"rmtree", "purge">>
    BY <1>2 DEF IsPurge
  <1>14. \A o \in os : \E t \in Range(rest) : "o" \in DOMAIN t /\ t.o = o /\ t.do = Teardown(o)
    <2> SUFFICES ASSUME NEW o \in os PROVE \E t \in Range(rest) : "o" \in DOMAIN t /\ t.o = o /\ t.do = Teardown(o)
      OBVIOUS
    <2>1. f[o] \in Range(rest) /\ f[o] = Todo(Teardown(o), o, Absent)
      BY <1>3, <1>4, <1>10 DEF Enlisted
    <2>. QED
      BY <2>1, TodoFields
  <1>15. \A j \in DOMAIN rest : IsPurge(rest[j]) <=> j = Len(rest)
    <2> SUFFICES ASSUME NEW j \in 1..Len(rest), j # Len(rest) PROVE ~IsPurge(rest[j])
      BY <1>9, <1>11, <1>13
    <2>1. j \in 1..Len(more)
      BY <1>5, <1>9
    <2>. QED
      BY <1>11, <1>12, <2>1
  <1>. QED
    BY <1>9, <1>10, <1>12, <1>13, <1>14, <1>15 DEF Purges

LEMMA DeleteAllInv ==
  ASSUME FilesInv, DeleteAll
  PROVE  FilesInv'
  <1>1. /\ TasksInv /\ BlurInv /\ OrderInv /\ MomentInv /\ FilesTypeOK /\ cast \in Casts
        /\ UNCHANGED <<cast, obj, dir, env, quad, timer, running, alive, lost, stale>>
    BY DEF FilesInv, DeleteAll, tmpfs, units
  <1>2. PICK os, rest : os = {o \in cast : Exists(o)} /\ rest = PurgeTasks(SetToSeq(os))
    OBVIOUS
  <1>3. /\ alive /\ tasks[Client] = <<>> /\ tasks' = [tasks EXCEPT ![Client] = rest]
        /\ blurred' = IF Starting THEN blurred \cup os ELSE blurred \ (os \ Dirs)
    BY <1>2 DEF DeleteAll, Call, Idle
  <1>4. Purges(os, rest) /\ os \subseteq Objects
    BY <1>1, <1>2, PurgeLists
  <1>5. Todos(Client) = {} /\ ~Purging /\ \A p, x : ~Pending(Client, p, x)
    BY <1>3, ShortTails DEF Todos, Purging, Pending
  <1>6. \A o \in Objects : Exists(o) <=> o \in os
    BY <1>1, <1>2 DEF BlurInv
  <1>7. /\ tasks \in [Callers -> Range(tasks)] /\ tasks'[Client] = rest
        /\ \A c \in Callers \ {Client} : tasks'[c] = tasks[c]
    BY <1>1, <1>3, Kinds DEF TasksInv
  <1>8. tasks'[Main] = tasks[Main] /\ Todos(Main)' = Todos(Main) /\ (Starting' <=> Starting)
    BY <1>7, Kinds DEF Todos, Starting
  <1>9. \A t : (IsTodo(t)' <=> IsTodo(t)) /\ (Makes(t)' <=> Makes(t)) /\ (IsListing(t)' <=> IsListing(t))
                /\ (IsPurge(t)' <=> IsPurge(t))
    BY <1>1 DEF IsTodo, Makes, IsListing, IsPurge, Bodies
  <1>10. Purging'
    <2>1. Len(rest) \in DOMAIN rest /\ IsPurge(rest[Len(rest)])
      BY <1>4 DEF Purges
    <2>2. rest[Len(rest)] \in Range(rest)
      BY <2>1 DEF Range
    <2>. QED
      BY <1>7, <1>9, <2>1, <2>2 DEF Purging
  <1>11. \A t \in Todos(Client)' : IsTodo(t) /\ t.o \in os /\ Range(t.do) \cap Making = {} /\ ~Makes(t) /\ t.do # <<"env">>
    BY <1>1, <1>4, <1>7, TaskKinds DEF Todos, Purges
  <1>12. TasksInv'
    <2>1. tasks' \in [Callers -> Range(tasks')]
      <3>1. DOMAIN tasks' = Callers /\ tasks' = [c \in Callers |-> tasks'[c]]
        BY <1>3, <1>7
      <3>. QED
        BY <3>1 DEF Range
    <2>2. \A c \in Callers : tasks'[c] \in Seq(Range(tasks'[c]))
      <3> SUFFICES ASSUME NEW c \in Callers PROVE tasks'[c] \in Seq(Range(tasks'[c]))
        OBVIOUS
      <3>1. CASE c = Client
        BY <1>4, <1>7, <3>1 DEF Purges
      <3>2. CASE c # Client
        BY <1>1, <1>7, <3>2 DEF TasksInv
      <3>. QED
        BY <3>1, <3>2
    <2>3. /\ \A c \in Clients \ {Client} : tasks'[c] = <<>>
          /\ ~alive' => \A c \in Callers : tasks'[c] = <<>>
      BY <1>1, <1>3, <1>7 DEF TasksInv, Callers
    <2>4. \A t \in Range(tasks'[Main]) : IsListing(t) \/ Makes(t)
      BY <1>1, <1>8 DEF TasksInv
    <2>5. \A t \in Range(tasks'[Client]) : IsTodo(t) \/ IsPurge(t)
      BY <1>4, <1>7 DEF Purges
    <2>6. \A t \in Range(tasks'[Client]) : ~Makes(t)
      BY <1>1, <1>4, <1>7, TaskKinds DEF Purges, Makes
    <2>7. \A j \in DOMAIN tasks'[Client] : IsPurge(tasks'[Client][j]) => j = Len(tasks'[Client])
      BY <1>4, <1>7 DEF Purges
    <2>8. \A c \in Callers : \A j \in DOMAIN tasks'[c] \ {1} :
            "quad" \in Range(tasks'[c][j].do) => "env" \in Range(tasks'[c][j].do)
      <3> SUFFICES ASSUME NEW c \in Callers, NEW j \in DOMAIN tasks'[c] \ {1}
                   PROVE  "quad" \in Range(tasks'[c][j].do) => "env" \in Range(tasks'[c][j].do)
        OBVIOUS
      <3>1. CASE c = Client
        <4>1. PICK t : t = rest[j] /\ t \in Range(rest)
          BY <1>7, <3>1 DEF Range
        <4>2. "quad" \notin Range(t.do)
          <5>1. CASE t.do = <<"rmtree", "purge">>
            BY <5>1, ShortTails
          <5>2. CASE Range(t.do) \cap Making = {}
            BY <5>2 DEF Making
          <5>. QED
            BY <1>4, <4>1, <5>1, <5>2 DEF Purges
        <4>. QED
          BY <1>7, <3>1, <4>1, <4>2
      <3>2. CASE c # Client
        BY <1>1, <1>7, <3>2 DEF TasksInv
      <3>. QED
        BY <3>1, <3>2
    <2>9. \A t \in Todos(Client)' :
            t.do # <<"env">> /\ Range(t.do) \cap {"data", "bind", "heal", "healTimer"} = {}
      BY <1>11 DEF Making, Renewing
    <2>. QED
      BY <1>9, <2>1, <2>2, <2>3, <2>4, <2>5, <2>6, <2>7, <2>8, <2>9 DEF TasksInv
  <1>13. OrderInv'
    BY <1>1, <1>8 DEF OrderInv, Restoring, Healing
  <1>14. FilesTypeOK'
    <2>1. blurred' \subseteq Objects
      BY <1>1, <1>3, <1>4 DEF FilesTypeOK
    <2>2. FileTypes'
      BY <1>1, <2>1 DEF FilesTypeOK, FileTypes
    <2>. QED
      BY <1>1, <1>12, <2>2, TypesKept DEF FilesTypeOK, Exists
  <1>15. \A o : Gone(o)'
    BY <1>10 DEF Gone
  <1>16. \A o \in Objects : Starting /\ Exists(o) => o \in blurred'
    BY <1>3, <1>6
  <1>17. \A o : Starting /\ o \notin blurred' => o \notin blurred
    BY <1>3
  <1>18. BlurInv'
    <2>1. Starting' => \A t \in Todos(Client)' : t.o \in blurred'
      BY <1>3, <1>8, <1>11
    <2>2. Starting' /\ Purging' => \A o \in Objects : Exists(o)' => o \in blurred'
      BY <1>1, <1>8, <1>16 DEF Exists
    <2>3. \A o \in Objects : Exists(o)' => o \in cast'
      BY <1>1 DEF BlurInv, Exists
    <2>4. \A t \in Todos(Client)' : Makes(t)' \/ Gone(t.o)'
      BY <1>15
    <2>5. \A c \in Callers : \A t \in Todos(c)' : t.o \notin blurred' /\ Range(t.do) \subseteq Making =>
            /\ Exists(t.o)'
            /\ Range(t.do) \cap Renewing # {} => t.b = obj'[t.o]
            /\ "quad" \in Range(t.do) /\ "env" \notin Range(t.do) =>
                 t.b.t = obj'[t.o] /\ (t.b.file => t.b.t.secret # Absent)
      <3> SUFFICES ASSUME NEW c \in Callers, NEW t \in Todos(c)', t.o \notin blurred', Range(t.do) \subseteq Making
                   PROVE  /\ Exists(t.o)
                          /\ Range(t.do) \cap Renewing # {} => t.b = obj[t.o]
                          /\ "quad" \in Range(t.do) /\ "env" \notin Range(t.do) =>
                               t.b.t = obj[t.o] /\ (t.b.file => t.b.t.secret # Absent)
        BY <1>1 DEF Exists
      <3>1. CASE c = Client
        BY <1>11, <3>1 DEF Makes
      <3>2. CASE c = Main
        <4>1. t \in Todos(Main)
          BY <1>8, <3>2
        <4>2. Starting
          BY <4>1, ShortTails DEF Todos, Starting
        <4>. QED
          BY <1>1, <1>17, <4>1, <4>2, Kinds DEF BlurInv
      <3>3. CASE c \notin {Client, Main}
        BY <1>1, <1>7, <3>3, ShortTails DEF TasksInv, Callers, Todos
      <3>. QED
        BY <3>1, <3>2, <3>3
    <2>. QED
      BY <2>1, <2>2, <2>3, <2>4, <2>5 DEF BlurInv
  <1>19. MomentInv'
    <2>1. \A c \in Callers : (InHand(c) /\ Now(c).o \notin blurred /\ Now(c).b.file => EnvFits(Now(c).o))'
      <3> SUFFICES ASSUME NEW c \in Callers, (InHand(c) /\ Now(c).o \notin blurred /\ Now(c).b.file)'
                   PROVE  EnvFits(Now(c).o)'
        OBVIOUS
      <3>1. c # Client
        <4> SUFFICES ASSUME c = Client PROVE FALSE
          OBVIOUS
        <4>1. Now(c)' \in Todos(Client)'
          <5>1. rest # <<>> /\ Now(c)' = Head(rest) /\ "o" \in DOMAIN Now(c)'
            BY <1>7 DEF InHand, Now
          <5>2. Now(c)' = rest[1] /\ 1 \in DOMAIN rest
            BY <1>4, <5>1 DEF Purges
          <5>3. Now(c)' \in Range(rest)
            BY <5>2 DEF Range
          <5>. QED
            BY <1>7, <5>1, <5>3 DEF Todos
        <4>. QED
          BY <1>11, <4>1 DEF InHand, Making
      <3>2. tasks'[c] = tasks[c]
        BY <1>7, <3>1
      <3>3. Now(c)' = Now(c) /\ tasks[c] # <<>>
        <4>1. Now(c)' = Now(c)
          BY <3>2 DEF Now
        <4>. QED
          BY <3>2, <4>1 DEF InHand
      <3>4. InHand(c)
        BY <3>2, <3>3 DEF InHand
      <3>5. c = Main /\ Starting
        BY <1>1, <3>1, <3>3, TaskInHand DEF Starting
      <3>6. EnvFits(Now(c).o)
        BY <1>1, <1>17, <3>3, <3>4, <3>5 DEF MomentInv
      <3>7. PICK w : w = Now(c).o
        OBVIOUS
      <3>8. EnvFits(w)'
        <4>1. SecretEnv(obj[w])' = SecretEnv(obj[w])
          BY <1>1 DEF SecretEnv, DataOf, Referred
        <4>. QED
          BY <1>1, <3>6, <3>7, <4>1 DEF EnvFits
      <3>. QED
        BY <3>3, <3>7, <3>8
    <2>2. ~ \E t \in Range(tasks'[Client]) : t.do = <<"purge">>
      <3> SUFFICES ASSUME NEW t \in Range(rest), t.do = <<"purge">> PROVE FALSE
        BY <1>7
      <3>1. t.do = <<"rmtree", "purge">>
        BY <1>4 DEF Purges
      <3>2. Head(<<"rmtree", "purge">>) = "rmtree" /\ Head(<<"purge">>) = "purge"
        BY ShortTails
      <3>. QED
        BY <3>1, <3>2
    <2>. QED
      BY <1>1, <1>3, <2>1, <2>2 DEF MomentInv
  <1>20. ASSUME NEW o \in Objects PROVE Fine(o)'
    <2>1. CASE Exists(o)
      <3>1. PICK t \in Range(rest) : "o" \in DOMAIN t /\ t.o = o /\ t.do = Teardown(o)
        BY <1>4, <1>6, <2>1 DEF Purges
      <3>2. \A x \in Range(Teardown(o)) : Pending(Client, o, x)'
        BY <1>7, <3>1 DEF Pending, Todos
      <3>3. (o \in timer => o \in CronJobs) /\ (o \in running => o \in Workloads)
        BY <1>1 DEF FilesTypeOK
      <3>4. OrphanFine(o)'
        BY <1>1, <3>2, <3>3, Teardowns DEF OrphanFine
      <3>. QED
        BY <1>10, <1>15, <3>4, GoneIsFine
    <2>2. CASE ~Exists(o)
      <3>1. o \notin blurred' => o \notin blurred
        BY <1>3, <1>6, <2>2
      <3>2. OrphanFine(o) /\ Gone(o)
        BY <2>2 DEF FilesInv, Fine, Gone
      <3>3. OrphanFine(o)'
        BY <1>1, <1>5, <3>1, <3>2 DEF OrphanFine
      <3>. QED
        BY <1>10, <1>15, <3>3, GoneIsFine
    <2>. QED
      BY <2>1, <2>2
  <1>. QED
    BY <1>1, <1>12, <1>13, <1>14, <1>18, <1>19, <1>20 DEF FilesInv

(* Nobody has anything left to do. *)
LEMMA NothingLeft ==
  ASSUME NEW a, tasks[a] = <<>>
  PROVE  /\ Range(tasks[a]) = {} /\ Todos(a) = {} /\ ~InHand(a)
         /\ \A o, x : ~Pending(a, o, x)
  <1>1. Range(tasks[a]) = {}
    BY ShortTails
  <1>. QED
    BY <1>1 DEF Todos, InHand, Pending

LEMMA AllIdle ==
  (\A a \in Callers : tasks[a] = <<>>) =>
    /\ ~Purging /\ ~Starting /\ \A o, x : ~Listed(o, x)
    /\ \A o : Gone(o) <=> ~Exists(o)
    /\ \A a \in Callers : Range(tasks[a]) = {} /\ Todos(a) = {} /\ ~InHand(a)
    /\ \A a \in Callers : \A o, x : ~Pending(a, o, x)
  <1> SUFFICES ASSUME \A a \in Callers : tasks[a] = <<>>
               PROVE  /\ ~Purging /\ ~Starting /\ \A o, x : ~Listed(o, x)
                      /\ \A o : Gone(o) <=> ~Exists(o)
                      /\ \A a \in Callers : Range(tasks[a]) = {} /\ Todos(a) = {} /\ ~InHand(a)
                      /\ \A a \in Callers : \A o, x : ~Pending(a, o, x)
    OBVIOUS
  <1>1. /\ \A a \in Callers : Range(tasks[a]) = {} /\ Todos(a) = {} /\ ~InHand(a)
        /\ \A a \in Callers : \A o, x : ~Pending(a, o, x)
    BY NothingLeft
  <1>2. ~Purging /\ ~Starting /\ \A o, x : ~Listed(o, x)
    BY <1>1, Kinds DEF Purging, Starting, Listed
  <1>3. \A o : Gone(o) <=> ~Exists(o)
    BY <1>1, <1>2, Kinds DEF Gone
  <1>. QED
    BY <1>1, <1>2, <1>3

LEMMA IdleTasks ==
  tasks = [a \in Callers |-> <<>>] => TasksInv /\ OrderInv /\ \A a \in Callers : tasks[a] = <<>>
  <1> SUFFICES ASSUME tasks = [a \in Callers |-> <<>>]
               PROVE  TasksInv /\ OrderInv /\ \A a \in Callers : tasks[a] = <<>>
    OBVIOUS
  <1>1. \A a \in Callers : tasks[a] = <<>>
    OBVIOUS
  <1>2. tasks \in [Callers -> Range(tasks)]
    BY DEF Range
  <1>3. \A a \in Callers : tasks[a] \in Seq(Range(tasks[a])) /\ Range(tasks[a]) = {} /\ Todos(a) = {}
    BY <1>1, SmallLists, NothingLeft
  <1>4. \A a \in Callers : DOMAIN tasks[a] = {}
    BY <1>1
  <1>5. TasksInv
    BY <1>1, <1>2, <1>3, <1>4, Kinds DEF TasksInv, Callers
  <1>6. OrderInv
    BY <1>4, Kinds DEF OrderInv
  <1>. QED
    BY <1>1, <1>5, <1>6

(* q8s dies: the lists are lost, and what the client's names is blurred.   *)
LEMMA DieInv ==
  ASSUME FilesInv, Die
  PROVE  FilesInv'
  <1>1. /\ TasksInv /\ BlurInv /\ OrderInv /\ MomentInv /\ FilesTypeOK /\ cast \in Casts
        /\ UNCHANGED <<cast, obj, quad, timer, running, lost, stale>> /\ ~alive'
        /\ tasks' = [a \in Callers |-> <<>>]
        /\ dir' = [o \in Dirs |-> Absent] /\ env' = [w \in Workloads |-> Absent]
    BY DEF FilesInv, Die, units, Forget
  <1>2. PICK P : P = {tasks[Client][j].o : j \in {i \in DOMAIN tasks[Client] : "o" \in DOMAIN tasks[Client][i]}}
    OBVIOUS
  <1>3. blurred' = (blurred \ Dirs) \cup (P \ Dirs)
    BY <1>2 DEF Die
  <1>4. \A t \in Todos(Client) : t.o \in P
    <2> SUFFICES ASSUME NEW t \in Todos(Client) PROVE t.o \in P
      OBVIOUS
    <2>1. PICK j \in DOMAIN tasks[Client] : t = tasks[Client][j]
      BY DEF Todos, Range
    <2>. QED
      BY <1>2, <2>1 DEF Todos
  <1>5. P \subseteq Objects
    <2> SUFFICES ASSUME NEW o \in P PROVE o \in Objects
      OBVIOUS
    <2>1. PICK j \in DOMAIN tasks[Client] : "o" \in DOMAIN tasks[Client][j] /\ o = tasks[Client][j].o
      BY <1>2
    <2>2. tasks[Client][j] \in Range(tasks[Client])
      BY DEF Range
    <2>. QED
      BY <1>1, <2>1, <2>2, TaskKinds DEF TasksInv
  <1>6. TasksInv' /\ OrderInv' /\ \A a \in Callers : tasks'[a] = <<>>
    <2>1. (tasks = [a \in Callers |-> <<>>] => TasksInv /\ OrderInv /\ \A a \in Callers : tasks[a] = <<>>)'
      BY IdleTasks, PTL
    <2>. QED
      BY <1>1, <2>1
  <1>7. \A x : (x \in cast => x \in Objects) /\ (x \in P => x \in Objects)
    BY <1>1, <1>5 DEF FilesInv
  <1>8. FilesTypeOK'
    <2>1. FileTypes'
      BY <1>1, <1>3, <1>5 DEF FilesTypeOK, FileTypes
    <2>. QED
      BY <1>1, <1>6, <2>1, TypesKept DEF FilesTypeOK, Exists
  <1>9. /\ ~Purging' /\ ~Starting' /\ \A o : Gone(o)' <=> ~Exists(o)
        /\ \A a \in Callers : Range(tasks'[a]) = {} /\ Todos(a)' = {} /\ ~InHand(a)'
    <2>1. ((\A a \in Callers : tasks[a] = <<>>) =>
             /\ ~Purging /\ ~Starting /\ \A o, x : ~Listed(o, x)
             /\ \A o : Gone(o) <=> ~Exists(o)
             /\ \A a \in Callers : Range(tasks[a]) = {} /\ Todos(a) = {} /\ ~InHand(a)
             /\ \A a \in Callers : \A o, x : ~Pending(a, o, x))'
      BY AllIdle, PTL
    <2>2. \A o : Exists(o)' <=> Exists(o)
      BY <1>1 DEF Exists
    <2>. QED
      BY <1>6, <2>1, <2>2
  <1>10. BlurInv'
    <2>1. \A o \in Objects : Exists(o)' => o \in cast'
      BY <1>1 DEF BlurInv, Exists
    <2>. QED
      BY <1>9, <2>1, Kinds DEF BlurInv
  <1>11. MomentInv'
    BY <1>1, <1>9, Kinds DEF MomentInv
  <1>12. ASSUME NEW o \in Objects, NEW x, o \notin blurred', o \notin Dirs
         PROVE  o \notin blurred /\ ~Pending(Client, o, x)
    BY <1>3, <1>4, <1>12 DEF Pending
  <1>13. ASSUME NEW o, NEW x PROVE AtStart(o, x)'
    BY <1>1 DEF AtStart
  <1>14. ASSUME NEW o \in Objects PROVE Fine(o)'
    <2>1. /\ o \in Dirs => dir'[o] = Absent /\ o \notin Claims \cup Workloads /\ o \notin timer /\ o \notin running
          /\ o \in Dirs \/ o \in Claims \cup Workloads
      BY <1>1, Kinds DEF FilesTypeOK, Objects
    <2>2. Exists(o)' <=> Exists(o)
      BY <1>1 DEF Exists
    <2>3. DirFine(o)'
      BY <1>13, <2>1 DEF DirFine
    <2>4. OrphanFine(o) /\ RenderFine(o)
      BY DEF FilesInv, Fine
    <2>5. OrphanFine(o)'
      <3> SUFFICES ASSUME o \notin blurred', Gone(o)'
                   PROVE  OrphanFine(o)'
        BY DEF OrphanFine
      <3>1. CASE o \in Dirs
        BY <1>1, <2>1, <3>1 DEF OrphanFine
      <3>2. CASE o \notin Dirs
        <4>1. Gone(o) /\ o \notin blurred
          BY <1>9, <1>12, <3>2 DEF Gone
        <4>. QED
          BY <1>1, <1>12, <2>4, <3>2, <4>1 DEF OrphanFine
      <3>. QED
        BY <3>1, <3>2
    <2>6. RenderFine(o)'
      <3>1. ASSUME o \in Workloads \ blurred', ~Gone(o)', quad'[o] # Absent
            PROVE  quad'[o].t = obj'[o] /\ (quad'[o].file => obj'[o].secret # Absent)
        <4>1. o \notin Dirs /\ o \notin blurred
          BY <1>12, <3>1, Kinds
        <4>2. ~Gone(o)
          BY <1>1, <1>12, <2>4, <3>1, <4>1 DEF OrphanFine
        <4>. QED
          BY <1>1, <1>12, <2>4, <3>1, <4>1, <4>2 DEF RenderFine
      <3>. QED
        BY <1>13, <3>1 DEF RenderFine
    <2>7. EnvFine(o)'
      BY <1>13 DEF EnvFine
    <2>. QED
      BY <2>3, <2>5, <2>6, <2>7 DEF Fine
  <1>. QED
    BY <1>1, <1>6, <1>8, <1>10, <1>11, <1>14 DEF FilesInv

(* What startup goes through: the listings of RestoreFiles, then those of  *)
(* ReconcileQuadlets.                                                      *)
Sound(s) == s \in Seq(Range(s)) /\ Len(s) \in Nat /\ DOMAIN s = 1..Len(s)

LEMMA Chained ==
  ASSUME NEW s, Sound(s), NEW t, Sound(t)
  PROVE  /\ Sound(s \o t) /\ Range(s \o t) = Range(s) \cup Range(t)
         /\ Len(s \o t) = Len(s) + Len(t)
         /\ \A i \in 1..Len(s) : (s \o t)[i] = s[i]
         /\ \A i \in 1..Len(t) : (s \o t)[Len(s) + i] = t[i]
  <1>1. PICK n : n = s \o t
    OBVIOUS
  <1>2. /\ s \in Seq(Range(s)) /\ t \in Seq(Range(t)) /\ Len(s) \in Nat /\ Len(t) \in Nat
        /\ DOMAIN s = 1..Len(s) /\ DOMAIN t = 1..Len(t)
    BY DEF Sound
  <1>3. /\ Len(n) = Len(s) + Len(t) /\ DOMAIN n = 1..Len(n)
        /\ \A i \in 1..Len(s) : n[i] = s[i]
        /\ \A i \in 1..Len(t) : n[Len(s) + i] = t[i]
    BY <1>1, <1>2
  <1>4. Range(n) = Range(s) \cup Range(t)
    <2>1. ASSUME NEW i \in 1..Len(n) PROVE n[i] \in Range(s) \cup Range(t)
      <3>1. CASE i <= Len(s)
        <4>1. i \in DOMAIN s /\ n[i] = s[i]
          BY <1>2, <1>3, <3>1
        <4>. QED
          BY <4>1 DEF Range
      <3>2. CASE ~(i <= Len(s))
        <4>1. PICK j \in 1..Len(t) : i = Len(s) + j
          <5>1. i - Len(s) \in 1..Len(t) /\ i = Len(s) + (i - Len(s))
            BY <1>2, <1>3, <3>2
          <5>. QED
            BY <5>1
        <4>2. j \in DOMAIN t /\ n[i] = t[j]
          BY <1>2, <1>3, <4>1
        <4>. QED
          BY <4>2 DEF Range
      <3>. QED
        BY <3>1, <3>2
    <2>2. ASSUME NEW i \in 1..Len(s) PROVE s[i] \in Range(n)
      <3>1. i \in DOMAIN n /\ n[i] = s[i]
        BY <1>2, <1>3
      <3>. QED
        BY <3>1 DEF Range
    <2>3. ASSUME NEW i \in 1..Len(t) PROVE t[i] \in Range(n)
      <3>1. Len(s) + i \in DOMAIN n /\ n[Len(s) + i] = t[i]
        BY <1>2, <1>3
      <3>. QED
        BY <3>1 DEF Range
    <2>. QED
      BY <1>2, <1>3, <2>1, <2>2, <2>3 DEF Range
  <1>5. n \in Seq(Range(n))
    <2>1. s \in Seq(Range(n)) /\ t \in Seq(Range(n))
      BY <1>2, <1>4, SeqWiden
    <2>. QED
      BY <1>1, <2>1
  <1>6. Len(n) \in Nat
    BY <1>2, <1>3
  <1>. QED
    BY <1>1, <1>3, <1>4, <1>5, <1>6 DEF Sound

LEMMA AllLists ==
  ASSUME NEW S, NEW do
  PROVE  /\ Sound(All(S, do))
         /\ Range(All(S, do)) = IF S \cap cast = {} THEN {} ELSE {Listing(S, do)}
  <1>1. CASE S \cap cast = {}
    BY <1>1, SmallLists DEF All, Sound
  <1>2. CASE S \cap cast # {}
    <2>1. PICK t : t = Listing(S, do)
      OBVIOUS
    <2>2. All(S, do) = <<t>>
      BY <1>2, <2>1 DEF All
    <2>3. <<t>> \in Seq(Range(<<t>>)) /\ Range(<<t>>) = {t} /\ Len(<<t>>) = 1
      BY SmallLists
    <2>4. DOMAIN <<t>> = 1..1
      OBVIOUS
    <2>. QED
      BY <1>2, <2>1, <2>2, <2>3, <2>4 DEF Sound
  <1>. QED
    BY <1>1, <1>2

LEMMA ListingFields ==
  ASSUME NEW S, NEW do
  PROVE  /\ Listing(S, do).of = S /\ Listing(S, do).then = do /\ Listing(S, do).do = <<"list">>
         /\ "of" \in DOMAIN Listing(S, do) /\ "o" \notin DOMAIN Listing(S, do)
  BY DEF Listing

(* The listing of S is on the list when somebody uses one of S. *)
Lists(s, S, do) == S \cap cast # {} => Listing(S, do) \in Range(s)

RestoreListed(s) ==
  /\ Sound(s)
  /\ Lists(s, ConfigMaps, <<"data">>) /\ Lists(s, Secrets, <<"files">>)
  /\ Lists(s, Replicas, <<"env">>) /\ Lists(s, Jobs, <<"env">>) /\ Lists(s, CronJobs, <<"env">>)
  /\ \A t \in Range(s) : \/ t = Listing(ConfigMaps, <<"data">>) \/ t = Listing(Secrets, <<"files">>)
                         \/ \E S \in SUBSET Workloads : t = Listing(S, <<"env">>)

LEMMA RestoreLists == RestoreListed(RestoreFiles)
  <1>1. PICK a, b, c, d, e, f :
          /\ a = All(ConfigMaps, <<"data">>) /\ b = All(Secrets, <<"files">>)
          /\ c = All(Replicas, <<"env">>) /\ d = All(PodsIn(""), <<"env">>)
          /\ e = All(Jobs, <<"env">>) /\ f = All(CronJobs, <<"env">>)
    OBVIOUS
  <1>2. RestoreFiles = a \o b \o c \o d \o e \o f
    BY <1>1 DEF RestoreFiles
  <1>3. Sound(a) /\ Sound(b) /\ Sound(c) /\ Sound(d) /\ Sound(e) /\ Sound(f)
    BY <1>1, AllLists
  <1>4. PICK ab : ab = a \o b
    OBVIOUS
  <1>5. Sound(ab) /\ Range(ab) = Range(a) \cup Range(b)
    BY <1>3, <1>4, Chained
  <1>6. PICK abc : abc = ab \o c
    OBVIOUS
  <1>7. Sound(abc) /\ Range(abc) = Range(a) \cup Range(b) \cup Range(c)
    BY <1>3, <1>5, <1>6, Chained
  <1>8. PICK abcd : abcd = abc \o d
    OBVIOUS
  <1>9. Sound(abcd) /\ Range(abcd) = Range(a) \cup Range(b) \cup Range(c) \cup Range(d)
    BY <1>3, <1>7, <1>8, Chained
  <1>10. PICK abcde : abcde = abcd \o e
    OBVIOUS
  <1>11. Sound(abcde) /\ Range(abcde) = Range(a) \cup Range(b) \cup Range(c) \cup Range(d) \cup Range(e)
    BY <1>3, <1>9, <1>10, Chained
  <1>12. PICK s : s = abcde \o f
    OBVIOUS
  <1>13. /\ Sound(s)
         /\ Range(s) = Range(a) \cup Range(b) \cup Range(c) \cup Range(d) \cup Range(e) \cup Range(f)
    BY <1>3, <1>11, <1>12, Chained
  <1>14. s = RestoreFiles
    BY <1>2, <1>4, <1>6, <1>8, <1>10, <1>12
  <1>15. /\ Range(a) = IF ConfigMaps \cap cast = {} THEN {} ELSE {Listing(ConfigMaps, <<"data">>)}
         /\ Range(b) = IF Secrets \cap cast = {} THEN {} ELSE {Listing(Secrets, <<"files">>)}
         /\ Range(c) = IF Replicas \cap cast = {} THEN {} ELSE {Listing(Replicas, <<"env">>)}
         /\ Range(d) = IF PodsIn("") \cap cast = {} THEN {} ELSE {Listing(PodsIn(""), <<"env">>)}
         /\ Range(e) = IF Jobs \cap cast = {} THEN {} ELSE {Listing(Jobs, <<"env">>)}
         /\ Range(f) = IF CronJobs \cap cast = {} THEN {} ELSE {Listing(CronJobs, <<"env">>)}
    BY <1>1, AllLists
  <1>16. /\ Lists(s, ConfigMaps, <<"data">>) /\ Lists(s, Secrets, <<"files">>)
         /\ Lists(s, Replicas, <<"env">>) /\ Lists(s, Jobs, <<"env">>) /\ Lists(s, CronJobs, <<"env">>)
    BY <1>13, <1>15 DEF Lists
  <1>17. {Replicas, PodsIn(""), Jobs, CronJobs} \subseteq SUBSET Workloads
    BY DEF Workloads, PodsIn
  <1>18. ASSUME NEW t \in Range(s)
         PROVE  \/ t = Listing(ConfigMaps, <<"data">>) \/ t = Listing(Secrets, <<"files">>)
                \/ \E S \in SUBSET Workloads : t = Listing(S, <<"env">>)
    BY <1>13, <1>15, <1>17
  <1>. QED
    BY <1>13, <1>14, <1>16, <1>18 DEF RestoreListed

HealListed(s) ==
  /\ Sound(s)
  /\ Lists(s, Replicas, <<"heal">>) /\ Lists(s, Pods, <<"heal">>) /\ Lists(s, Claims, <<"bind">>)
  /\ Lists(s, Jobs, <<"heal">>) /\ Lists(s, CronJobs, <<"heal", "healTimer">>)
  /\ \A t \in Range(s) : \/ t = Listing(Claims, <<"bind">>) \/ t = Listing(CronJobs, <<"heal", "healTimer">>)
                         \/ \E S \in SUBSET Workloads : t = Listing(S, <<"heal">>)

LEMMA HealLists == HealListed(ReconcileQuadlets)
  <1>1. PICK a, b, c, d, e :
          /\ a = All(Replicas, <<"heal">>) /\ b = All(Pods, <<"heal">>)
          /\ c = All(Claims, <<"bind">>) /\ d = All(Jobs, <<"heal">>)
          /\ e = All(CronJobs, <<"heal", "healTimer">>)
    OBVIOUS
  <1>2. ReconcileQuadlets = a \o b \o c \o d \o e
    BY <1>1 DEF ReconcileQuadlets
  <1>3. Sound(a) /\ Sound(b) /\ Sound(c) /\ Sound(d) /\ Sound(e)
    BY <1>1, AllLists
  <1>4. PICK ab : ab = a \o b
    OBVIOUS
  <1>5. Sound(ab) /\ Range(ab) = Range(a) \cup Range(b)
    BY <1>3, <1>4, Chained
  <1>6. PICK abc : abc = ab \o c
    OBVIOUS
  <1>7. Sound(abc) /\ Range(abc) = Range(a) \cup Range(b) \cup Range(c)
    BY <1>3, <1>5, <1>6, Chained
  <1>8. PICK abcd : abcd = abc \o d
    OBVIOUS
  <1>9. Sound(abcd) /\ Range(abcd) = Range(a) \cup Range(b) \cup Range(c) \cup Range(d)
    BY <1>3, <1>7, <1>8, Chained
  <1>10. PICK s : s = abcd \o e
    OBVIOUS
  <1>11. Sound(s) /\ Range(s) = Range(a) \cup Range(b) \cup Range(c) \cup Range(d) \cup Range(e)
    BY <1>3, <1>9, <1>10, Chained
  <1>12. s = ReconcileQuadlets
    BY <1>2, <1>4, <1>6, <1>8, <1>10
  <1>13. /\ Range(a) = IF Replicas \cap cast = {} THEN {} ELSE {Listing(Replicas, <<"heal">>)}
         /\ Range(b) = IF Pods \cap cast = {} THEN {} ELSE {Listing(Pods, <<"heal">>)}
         /\ Range(c) = IF Claims \cap cast = {} THEN {} ELSE {Listing(Claims, <<"bind">>)}
         /\ Range(d) = IF Jobs \cap cast = {} THEN {} ELSE {Listing(Jobs, <<"heal">>)}
         /\ Range(e) = IF CronJobs \cap cast = {} THEN {} ELSE {Listing(CronJobs, <<"heal", "healTimer">>)}
    BY <1>1, AllLists
  <1>14. /\ Lists(s, Replicas, <<"heal">>) /\ Lists(s, Pods, <<"heal">>) /\ Lists(s, Claims, <<"bind">>)
         /\ Lists(s, Jobs, <<"heal">>) /\ Lists(s, CronJobs, <<"heal", "healTimer">>)
    BY <1>11, <1>13 DEF Lists
  <1>15. {Replicas, Pods, Jobs} \subseteq SUBSET Workloads
    BY DEF Workloads
  <1>16. ASSUME NEW t \in Range(s)
         PROVE  \/ t = Listing(Claims, <<"bind">>) \/ t = Listing(CronJobs, <<"heal", "healTimer">>)
                \/ \E S \in SUBSET Workloads : t = Listing(S, <<"heal">>)
    BY <1>11, <1>13, <1>15
  <1>. QED
    BY <1>11, <1>12, <1>14, <1>16 DEF HealListed

(* Startup's list, taken as a whole: everything anybody uses is restored   *)
(* and then healed.                                                        *)
BootListed(s) ==
  /\ Sound(s)
  /\ Lists(s, ConfigMaps, <<"data">>) /\ Lists(s, Secrets, <<"files">>) /\ Lists(s, Claims, <<"bind">>)
  /\ \A S \in {Replicas, Jobs, CronJobs} : Lists(s, S, <<"env">>)
  /\ \A S \in {Replicas, Pods, Jobs} : Lists(s, S, <<"heal">>)
  /\ Lists(s, CronJobs, <<"heal", "healTimer">>)
  /\ \A t \in Range(s) : IsListing(t) /\ "o" \notin DOMAIN t /\ t.do = <<"list">>
  /\ \A w \in cast : \A i \in DOMAIN s : Restoring(s[i], w) => \E k \in DOMAIN s : k > i /\ Healing(s[k], w)

LEMMA ListingsFit ==
  /\ IsListing(Listing(ConfigMaps, <<"data">>)) /\ IsListing(Listing(Secrets, <<"files">>))
  /\ IsListing(Listing(Claims, <<"bind">>)) /\ IsListing(Listing(CronJobs, <<"heal", "healTimer">>))
  /\ \A S \in SUBSET Workloads : IsListing(Listing(S, <<"env">>)) /\ IsListing(Listing(S, <<"heal">>))
  <1>1. ASSUME NEW S, S \subseteq Objects, NEW do \in Restores, \A o \in S : Fits(do, o)
        PROVE  IsListing(Listing(S, do))
    BY <1>1, ListingFields DEF IsListing
  <1>2. {<<"data">>, <<"files">>, <<"env">>, <<"heal">>, <<"bind">>, <<"heal", "healTimer">>} \subseteq Restores
    BY DEF Restores
  <1>3. \A o \in ConfigMaps : Fits(<<"data">>, o)
    BY ShortTails, Kinds DEF Fits
  <1>4. \A o \in Secrets : Fits(<<"files">>, o)
    BY ShortTails, Kinds DEF Fits
  <1>5. \A o \in Claims : Fits(<<"bind">>, o)
    BY ShortTails, Kinds DEF Fits
  <1>6. \A o \in CronJobs : Fits(<<"heal", "healTimer">>, o)
    BY ShortTails, Kinds DEF Fits
  <1>7. \A o \in Workloads : Fits(<<"env">>, o)
    BY ShortTails, Kinds DEF Fits
  <1>8. \A o \in Workloads : Fits(<<"heal">>, o)
    BY ShortTails, Kinds DEF Fits
  <1>9. IsListing(Listing(ConfigMaps, <<"data">>))
    BY <1>1, <1>2, <1>3, Kinds
  <1>10. IsListing(Listing(Secrets, <<"files">>))
    BY <1>1, <1>2, <1>4, Kinds
  <1>11. IsListing(Listing(Claims, <<"bind">>))
    BY <1>1, <1>2, <1>5, Kinds
  <1>12. IsListing(Listing(CronJobs, <<"heal", "healTimer">>))
    BY <1>1, <1>2, <1>6, Kinds
  <1>13. \A S \in SUBSET Workloads : IsListing(Listing(S, <<"env">>))
    BY <1>1, <1>2, <1>7, Kinds
  <1>14. \A S \in SUBSET Workloads : IsListing(Listing(S, <<"heal">>))
    BY <1>1, <1>2, <1>8, Kinds
  <1>. QED
    BY <1>9, <1>10, <1>11, <1>12, <1>13, <1>14

LEMMA BootLists == BootListed(FilesBoot)
  <1>1. PICK s, r, h : r = RestoreFiles /\ h = ReconcileQuadlets /\ s = r \o h
    OBVIOUS
  <1>2. s = FilesBoot
    BY <1>1 DEF FilesBoot
  <1>3. RestoreListed(r) /\ HealListed(h)
    BY <1>1, RestoreLists, HealLists
  <1>4. Sound(r) /\ Sound(h)
    BY <1>3 DEF RestoreListed, HealListed
  <1>5. /\ Sound(s) /\ Range(s) = Range(r) \cup Range(h) /\ Len(s) = Len(r) + Len(h)
        /\ \A i \in 1..Len(r) : s[i] = r[i]
        /\ \A i \in 1..Len(h) : s[Len(r) + i] = h[i]
    BY <1>1, <1>4, Chained
  <1>6. \A S, do : Lists(r, S, do) \/ Lists(h, S, do) => Lists(s, S, do)
    BY <1>5 DEF Lists
  <1>7. /\ Lists(s, ConfigMaps, <<"data">>) /\ Lists(s, Secrets, <<"files">>) /\ Lists(s, Claims, <<"bind">>)
        /\ \A S \in {Replicas, Jobs, CronJobs} : Lists(s, S, <<"env">>)
        /\ \A S \in {Replicas, Pods, Jobs} : Lists(s, S, <<"heal">>)
        /\ Lists(s, CronJobs, <<"heal", "healTimer">>)
    BY <1>3, <1>6 DEF RestoreListed, HealListed
  <1>8. ASSUME NEW t \in Range(s) PROVE IsListing(t) /\ "o" \notin DOMAIN t /\ t.do = <<"list">>
    <2>1. IsListing(t) /\ \E S, do : t = Listing(S, do)
      BY <1>3, <1>5, ListingsFit DEF RestoreListed, HealListed
    <2>. QED
      BY <2>1, ListingFields
  <1>9. ASSUME NEW t \in Range(h) PROVE t.then # <<"env">>
    <2>1. \E S : t \in {Listing(S, <<"bind">>), Listing(S, <<"heal", "healTimer">>), Listing(S, <<"heal">>)}
      BY <1>3 DEF HealListed
    <2>2. t.then \in {<<"bind">>, <<"heal", "healTimer">>, <<"heal">>}
      BY <2>1, ListingFields
    <2>3. Head(<<"env">>) = "env" /\ Head(t.then) # "env"
      BY <2>2, ShortTails
    <2>. QED
      BY <2>3
  <1>10. ASSUME NEW w \in cast, NEW i \in DOMAIN s, Restoring(s[i], w)
         PROVE  \E k \in DOMAIN s : k > i /\ Healing(s[k], w)
    <2>1. DOMAIN s = 1..Len(s) /\ Len(s) \in Nat /\ DOMAIN h = 1..Len(h) /\ Len(h) \in Nat /\ Len(r) \in Nat
          /\ DOMAIN r = 1..Len(r)
      BY <1>4, <1>5 DEF Sound
    <2>2. PICK t : t = s[i] /\ t \in Range(s)
      BY DEF Range
    <2>3. w \in t.of /\ t.then = <<"env">>
      BY <1>8, <1>10, <2>2 DEF Restoring
    <2>4. i \in 1..Len(r)
      <3> SUFFICES ASSUME ~(i <= Len(r)) PROVE FALSE
        BY <2>1
      <3>1. i - Len(r) \in 1..Len(h) /\ i = Len(r) + (i - Len(r))
        BY <1>5, <2>1
      <3>2. s[i] = h[i - Len(r)] /\ i - Len(r) \in DOMAIN h
        BY <1>5, <2>1, <3>1
      <3>3. t \in Range(h)
        BY <2>2, <3>2 DEF Range
      <3>. QED
        BY <1>9, <2>3, <3>3
    <2>5. w \in Workloads
      <3>1. IsListing(t)
        BY <1>8, <2>2
      <3>2. Fits(<<"env">>, w)
        BY <2>3, <3>1 DEF IsListing
      <3>. QED
        BY <3>2, ShortTails DEF Fits
    <2>6. PICK u \in Range(h) : Healing(u, w)
      <3>1. CASE w \in CronJobs
        <4>1. Listing(CronJobs, <<"heal", "healTimer">>) \in Range(h)
          BY <1>3, <3>1 DEF HealListed, Lists
        <4>. QED
          BY <3>1, <4>1, ListingFields, ShortTails DEF Healing
      <3>2. CASE w \notin CronJobs
        <4>1. PICK S \in {Replicas, Pods, Jobs} : w \in S
          BY <2>5, <3>2 DEF Workloads
        <4>2. Listing(S, <<"heal">>) \in Range(h)
          BY <1>3, <4>1 DEF HealListed, Lists
        <4>. QED
          BY <3>2, <4>1, <4>2, ListingFields, ShortTails DEF Healing
      <3>. QED
        BY <3>1, <3>2
    <2>7. PICK k \in DOMAIN h : u = h[k]
      BY DEF Range
    <2>8. Len(r) + k \in DOMAIN s /\ Len(r) + k > i /\ s[Len(r) + k] = u
      BY <1>5, <2>1, <2>4, <2>7
    <2>. QED
      BY <2>6, <2>8
  <1>. QED
    BY <1>2, <1>5, <1>7, <1>8, <1>10 DEF BootListed

(* q8s starts: whatever is stored is on startup's list.                    *)
LEMMA BootInv ==
  ASSUME FilesInv, Boot_
  PROVE  FilesInv'
  <1>1. /\ TasksInv /\ BlurInv /\ OrderInv /\ MomentInv /\ FilesTypeOK /\ cast \in Casts
        /\ UNCHANGED <<cast, obj, dir, env, quad, timer, running, blurred, lost, stale>>
        /\ ~alive /\ alive'
    BY DEF FilesInv, Boot_, tmpfs, units, notes
  <1>2. PICK s : s = FilesBoot
    OBVIOUS
  <1>3. BootListed(s) /\ tasks' = [tasks EXCEPT ![Main] = s]
    BY <1>2, BootLists DEF Boot_
  <1>4. \A a \in Callers : tasks[a] = <<>>
    BY <1>1 DEF TasksInv
  <1>5. /\ ~Purging /\ \A o : Gone(o) <=> ~Exists(o)
        /\ \A a \in Callers : \A o, x : ~Pending(a, o, x)
    BY <1>4, AllIdle
  <1>6. /\ tasks \in [Callers -> Range(tasks)] /\ tasks'[Main] = s
        /\ \A c \in Callers \ {Main} : tasks'[c] = <<>>
    BY <1>1, <1>3, <1>4, Kinds DEF TasksInv
  <1>7. \A t \in Range(s) : IsListing(t) /\ "o" \notin DOMAIN t /\ t.do = <<"list">>
    BY <1>3 DEF BootListed
  <1>8. Range(<<>>) = {}
    BY ShortTails
  <1>9. \A c \in Callers : Todos(c)' = {}
    BY <1>6, <1>7, <1>8 DEF Todos
  <1>10. /\ ~Purging' /\ \A c \in Callers : \A o, x : ~Pending(c, o, x)'
         /\ \A o : Gone(o)' <=> ~Exists(o)
    <2>1. ~Purging' /\ \A c \in Callers : \A o, x : ~Pending(c, o, x)'
      BY <1>6, <1>8, <1>9, Kinds DEF Purging, Pending
    <2>. QED
      BY <1>1, <2>1, Kinds DEF Gone, Exists
  <1>11. Sound(s)
    BY <1>3 DEF BootListed
  <1>12. ASSUME NEW c \in Callers PROVE ~InHand(c)'
    <2>1. CASE c = Main
      <3> SUFFICES ASSUME s # <<>>, "o" \in DOMAIN Now(c)' PROVE FALSE
        BY <1>6, <2>1 DEF InHand
      <3>1. Now(c)' = s[1] /\ 1 \in DOMAIN s
        BY <1>6, <1>11, <2>1 DEF Now, Sound
      <3>2. Now(c)' \in Range(s)
        BY <3>1 DEF Range
      <3>. QED
        BY <1>7, <3>2
    <2>2. CASE c # Main
      BY <1>6, <2>2 DEF InHand
    <2>. QED
      BY <2>1, <2>2
  <1>13. TasksInv'
    <2>1. tasks' \in [Callers -> Range(tasks')]
      <3>1. DOMAIN tasks' = Callers /\ tasks' = [c \in Callers |-> tasks'[c]]
        BY <1>3, <1>6
      <3>. QED
        BY <3>1 DEF Range
    <2>2. \A c \in Callers : tasks'[c] \in Seq(Range(tasks'[c]))
      BY <1>6, <1>11, SmallLists DEF Sound
    <2>3. /\ \A a \in Clients \ {Client} : tasks'[a] = <<>>
          /\ ~alive' => \A a \in Callers : tasks'[a] = <<>>
      BY <1>1, <1>6, FilesAssumption DEF Callers
    <2>4. \A t \in Range(tasks'[Main]) : IsListing(t)' \/ Makes(t)'
      <3>1. \A t : IsListing(t)' <=> IsListing(t)
        BY DEF IsListing
      <3>. QED
        BY <1>6, <1>7, <3>1
    <2>5. Range(tasks'[Client]) = {} /\ DOMAIN tasks'[Client] = {}
      BY <1>6, <1>8, Kinds
    <2>6. \A a \in Callers : \A j \in DOMAIN tasks'[a] \ {1} :
            "quad" \in Range(tasks'[a][j].do) => "env" \in Range(tasks'[a][j].do)
      <3> SUFFICES ASSUME NEW a \in Callers, NEW j \in DOMAIN tasks'[a] \ {1}
                   PROVE  "quad" \notin Range(tasks'[a][j].do)
        OBVIOUS
      <3>1. a = Main
        BY <1>6
      <3>2. s[j] \in Range(s) /\ tasks'[a][j] = s[j]
        BY <1>6, <3>1 DEF Range
      <3>3. tasks'[a][j].do = <<"list">>
        BY <1>7, <3>2
      <3>4. Range(<<"list">>) = {"list"}
        BY ShortTails
      <3>. QED
        BY <3>3, <3>4
    <2>. QED
      BY <1>9, <2>1, <2>2, <2>3, <2>4, <2>5, <2>6, Kinds DEF TasksInv
  <1>14. OrderInv'
    BY <1>1, <1>3, <1>6 DEF OrderInv, BootListed, Restoring, Healing
  <1>15. FilesTypeOK'
    <2>1. FileTypes'
      BY <1>1 DEF FilesTypeOK, FileTypes
    <2>. QED
      BY <1>1, <1>13, <2>1, TypesKept DEF FilesTypeOK, Exists
  <1>16. BlurInv'
    <2>1. \A o \in Objects : Exists(o)' => o \in cast'
      BY <1>1 DEF BlurInv, Exists
    <2>. QED
      BY <1>9, <1>10, <2>1, Kinds DEF BlurInv
  <1>17. MomentInv'
    BY <1>1, <1>6, <1>8, <1>12, Kinds DEF MomentInv
  <1>18. ASSUME NEW S, NEW do, Lists(s, S, do), NEW o \in S, o \in Objects, Exists(o), NEW x \in Range(do)
         PROVE  AtStart(o, x)'
    <2>1. o \in cast
      BY <1>1, <1>18 DEF BlurInv
    <2>2. Listing(S, do) \in Range(tasks'[Main])
      BY <1>6, <1>18, <2>1 DEF Lists
    <2>3. Listed(o, x)'
      BY <2>2, ListingFields DEF Listed
    <2>. QED
      BY <2>3 DEF AtStart
  <1>19. ASSUME NEW o \in Objects, Exists(o)
         PROVE  /\ o \in ConfigMaps => AtStart(o, "data")' 
                /\ o \in Secrets => AtStart(o, "files")'
                /\ o \in Claims => AtStart(o, "bind")'
                /\ o \in Workloads \ Pods => AtStart(o, "env")'
                /\ o \in Workloads => AtStart(o, "heal")'
                /\ o \in CronJobs => AtStart(o, "healTimer")'
    <2>1. /\ "data" \in Range(<<"data">>) /\ "files" \in Range(<<"files">>) /\ "bind" \in Range(<<"bind">>)
          /\ "env" \in Range(<<"env">>) /\ "heal" \in Range(<<"heal">>)
          /\ {"heal", "healTimer"} \subseteq Range(<<"heal", "healTimer">>)
      BY ShortTails
    <2>2. o \in ConfigMaps => AtStart(o, "data")'
      BY <1>3, <1>18, <1>19, <2>1 DEF BootListed
    <2>3. o \in Secrets => AtStart(o, "files")'
      BY <1>3, <1>18, <1>19, <2>1 DEF BootListed
    <2>4. o \in Claims => AtStart(o, "bind")'
      BY <1>3, <1>18, <1>19, <2>1 DEF BootListed
    <2>5. \A S \in {Replicas, Jobs, CronJobs} : o \in S => AtStart(o, "env")'
      BY <1>3, <1>18, <1>19, <2>1 DEF BootListed
    <2>6. \A S \in {Replicas, Pods, Jobs} : o \in S => AtStart(o, "heal")'
      BY <1>3, <1>18, <1>19, <2>1 DEF BootListed
    <2>7. o \in CronJobs => AtStart(o, "heal")' /\ AtStart(o, "healTimer")'
      BY <1>3, <1>18, <1>19, <2>1 DEF BootListed
    <2>. QED
      BY <2>2, <2>3, <2>4, <2>5, <2>6, <2>7 DEF Workloads
  <1>20. ASSUME NEW o \in Objects PROVE Fine(o)'
    <2>1. DirFine(o) /\ OrphanFine(o) /\ RenderFine(o) /\ EnvFine(o)
      BY DEF FilesInv, Fine
    <2>2. Exists(o)' <=> Exists(o)
      BY <1>1 DEF Exists
    <2>3. o \in Dirs => dir[o] = Absent
      BY <1>1 DEF MomentInv
    <2>4. o \in Dirs => o \in ConfigMaps \/ (o \in Secrets /\ o \notin ConfigMaps)
      BY Kinds DEF Dirs
    <2>5. DirFine(o)'
      BY <1>1, <1>19, <2>2, <2>3, <2>4 DEF DirFine
    <2>6. OrphanFine(o)'
      BY <1>1, <1>5, <1>10, <2>1, Kinds DEF OrphanFine
    <2>7. RenderFine(o)'
      <3> SUFFICES ASSUME Exists(o) PROVE RenderFine(o)'
        BY <1>10 DEF RenderFine
      <3>1. ASSUME o \in Workloads \ blurred', quad'[o] # Absent
            PROVE  quad'[o].t = obj'[o] /\ (quad'[o].file => obj'[o].secret # Absent)
        BY <1>1, <1>5, <2>1, <3>1, Kinds DEF RenderFine
      <3>. QED
        BY <1>19, <3>1 DEF RenderFine
    <2>8. EnvFine(o)'
      BY <1>10, <1>19 DEF EnvFine
    <2>. QED
      BY <2>5, <2>6, <2>7, <2>8 DEF Fine
  <1>. QED
    BY <1>1, <1>13, <1>14, <1>15, <1>16, <1>17, <1>20 DEF FilesInv

LEMMA FilesInitInv ==
  ASSUME FilesInit
  PROVE  FilesInv
  <1>1. /\ cast \in Casts /\ obj = [o \in Objects |-> Absent] /\ dir = [o \in Dirs |-> Absent]
        /\ env = [w \in Workloads |-> Absent] /\ quad = [o \in Claims \cup Workloads |-> Absent]
        /\ timer = {} /\ running = {} /\ alive /\ blurred = {} /\ lost = {} /\ stale = {}
        /\ tasks = [a \in Callers |-> <<>>]
    BY DEF FilesInit
  <1>2. TasksInv /\ OrderInv /\ \A a \in Callers : tasks[a] = <<>>
    BY <1>1, IdleTasks
  <1>3. /\ ~Purging /\ ~Starting /\ \A o : Gone(o) <=> ~Exists(o)
        /\ \A a \in Callers : Range(tasks[a]) = {} /\ Todos(a) = {} /\ ~InHand(a)
    BY <1>2, AllIdle
  <1>4. \A o \in Objects : ~Exists(o) /\ Gone(o)
    BY <1>1, <1>3 DEF Exists
  <1>5. FilesTypeOK
    <2>1. \A a \in Callers : DOMAIN tasks[a] = {}
      BY <1>2
    <2>. QED
      BY <1>1, <1>4, <2>1 DEF FilesTypeOK
  <1>6. BlurInv
    BY <1>3, <1>4, Kinds DEF BlurInv
  <1>7. MomentInv
    BY <1>1, <1>3, Kinds DEF MomentInv
  <1>8. ASSUME NEW o \in Objects PROVE Fine(o)
    <2>1. DirFine(o) /\ RenderFine(o) /\ EnvFine(o)
      BY <1>4 DEF DirFine, RenderFine, EnvFine
    <2>2. OrphanFine(o)
      BY <1>1 DEF OrphanFine
    <2>. QED
      BY <2>1, <2>2 DEF Fine
  <1>. QED
    BY <1>1, <1>2, <1>5, <1>6, <1>7, <1>8 DEF FilesInv

LEMMA FilesStutter ==
  ASSUME FilesInv, UNCHANGED filesVars
  PROVE  FilesInv'
  <1>1. /\ UNCHANGED <<cast, obj, dir, env, quad, timer, running, tasks, alive, blurred, lost, stale>>
        /\ TasksInv /\ OrderInv /\ BlurInv /\ MomentInv /\ FilesTypeOK /\ cast \in Casts
    BY DEF filesVars, tmpfs, units, notes, FilesInv
  <1>2. \A t : (IsTodo(t)' <=> IsTodo(t)) /\ (Makes(t)' <=> Makes(t)) /\ (IsListing(t)' <=> IsListing(t))
                /\ (IsPurge(t)' <=> IsPurge(t))
    BY <1>1 DEF IsTodo, Makes, IsListing, IsPurge, Bodies
  <1>3. \A a : Todos(a)' = Todos(a)
    BY <1>1 DEF Todos
  <1>4. /\ Purging' <=> Purging
        /\ \A a, o, x : Pending(a, o, x)' <=> Pending(a, o, x)
        /\ \A o : Exists(o)' <=> Exists(o)
    BY <1>1, <1>2, <1>3 DEF Purging, Pending, Exists
  <1>5. /\ \A o : Gone(o)' <=> Gone(o)
        /\ \A o, x : AtStart(o, x)' <=> AtStart(o, x)
        /\ Starting' <=> Starting
    BY <1>1, <1>4 DEF Gone, AtStart, Listed, Starting
  <1>6. \A a : Now(a)' = Now(a) /\ (InHand(a)' <=> InHand(a))
    BY <1>1 DEF InHand, Now
  <1>7. TasksInv'
    BY <1>1, <1>2, <1>3 DEF TasksInv
  <1>8. OrderInv'
    BY <1>1 DEF OrderInv, Restoring, Healing
  <1>9. BlurInv'
    BY <1>1, <1>2, <1>3, <1>4, <1>5 DEF BlurInv
  <1>10. \A w : EnvFits(w)' <=> EnvFits(w)
    BY <1>1 DEF EnvFits, SecretEnv, DataOf, Referred
  <1>11. MomentInv'
    BY <1>1, <1>6, <1>10 DEF MomentInv
  <1>12. FilesTypeOK'
    BY <1>1, <1>4 DEF FilesTypeOK, Bodies
  <1>13. ASSUME NEW o \in Objects PROVE Fine(o)'
    <2>1. Fine(o)
      BY DEF FilesInv
    <2>2. Steady(o)
      BY <1>1, <1>4, <1>5, <1>10 DEF Steady
    <2>. QED
      BY <2>1, <2>2, StillFine
  <1>. QED
    BY <1>1, <1>7, <1>8, <1>9, <1>11, <1>12, <1>13 DEF FilesInv

(* Every step, of any caller, keeps the invariant.                         *)
LEMMA FilesNextInv ==
  ASSUME FilesInv, FilesNext
  PROVE  FilesInv'
  <1>1. CASE ClientCalls
    <2>1. CASE \E o \in cast : \E b \in Bodies(o) :
                 \/ PostConfigMap(o, b) \/ PutConfigMap(o, b) \/ PostSecret(o, b) \/ PatchSecret(o, b)
                 \/ PostClaim(o, b) \/ PatchClaim(o, b) \/ PostJob(o, b) \/ PatchJob(o, b)
                 \/ PostCronJob(o, b) \/ PatchCronJob(o, b) \/ PostWorkload(o, b) \/ PatchWorkload(o, b)
      BY <2>1, RequestInv
    <2>2. CASE \E o \in cast : DeleteObject(o)
      BY <2>2, DeleteObjectInv
    <2>3. CASE DeleteAll
      BY <2>3, DeleteAllInv
    <2>. QED
      BY <1>1, <2>1, <2>2, <2>3 DEF ClientCalls
  <1>2. ASSUME NEW a \in Callers, FilesStep(a)
        PROVE  FilesInv'
    <2>1. CASE List_(a)
      BY <2>1, ListInv
    <2>2. CASE WriteFiles(a)
      BY <2>2, WriteFilesInv
    <2>3. CASE RestoreData(a)
      BY <2>3, RestoreDataInv
    <2>4. CASE PruneFiles(a)
      BY <2>4, PruneFilesInv
    <2>5. CASE RemoveDir(a)
      BY <2>5, RemoveDirInv
    <2>6. CASE RemoveTree(a)
      BY <2>6, RemoveTreeInv
    <2>7. CASE ResolveEnv(a)
      BY <2>7, ResolveEnvInv
    <2>8. CASE WriteQuadlet(a)
      BY <2>8, WriteQuadletInv
    <2>9. CASE WriteTimer(a)
      BY <2>9, WriteTimerInv
    <2>10. CASE Start(a)
      BY <2>10, StartInv
    <2>11. CASE WriteVolume(a)
      BY <2>11, WriteVolumeInv
    <2>12. CASE StopWorkload(a)
      BY <2>12, StopWorkloadInv
    <2>13. CASE UnlinkQuadlet(a)
      BY <2>13, UnlinkQuadletInv
    <2>14. CASE UnlinkTimer(a)
      BY <2>14, UnlinkTimerInv
    <2>15. CASE Drop(a)
      BY <2>15, DropInv
    <2>16. CASE PurgeStore(a)
      BY <2>16, PurgeStoreInv
    <2>17. CASE Heal(a)
      BY <2>17, HealInv
    <2>18. CASE HealTimer(a)
      BY <2>18, HealTimerInv
    <2>19. CASE Bind(a)
      BY <2>19, BindInv
    <2>. QED
      BY <1>2, <2>1, <2>2, <2>3, <2>4, <2>5, <2>6, <2>7, <2>8, <2>9, <2>10, <2>11, <2>12, <2>13, <2>14,
         <2>15, <2>16, <2>17, <2>18, <2>19 DEF FilesStep
  <1>3. CASE Die
    BY <1>3, DieInv
  <1>4. CASE Boot_
    BY <1>4, BootInv
  <1>. QED
    BY <1>1, <1>2, <1>3, <1>4 DEF FilesNext

(* Every reachable state, at any interleaving of requests and startup and  *)
(* whenever q8s dies, satisfies the inductive invariant.                   *)
THEOREM FilesInvariant == FilesSpec => []FilesInv
  <1>1. FilesInit => FilesInv
    BY FilesInitInv
  <1>2. FilesInv /\ [FilesNext]_filesVars => FilesInv'
    BY FilesNextInv, FilesStutter
  <1>. QED
    BY <1>1, <1>2, PTL DEF FilesSpec

(* The tables, the files, the sets and the lists of tasks hold only what   *)
(* their declarations say, over every sequence of calls and starts.        *)
THEOREM FilesTypeCorrect == FilesSpec => []FilesTypeOK
  <1>1. FilesInv => FilesTypeOK
    BY DEF FilesInv
  <1>. QED
    BY <1>1, FilesInvariant, PTL

(* Nobody has anything left: what the invariant says of each object then.  *)
LEMMA SettledIsFine ==
  ASSUME FilesInv, Settled, NEW o \in Objects
  PROVE  /\ ~Purging /\ (Gone(o) <=> ~Exists(o))
         /\ \A x : ~Pending(Client, o, x) /\ ~AtStart(o, x)
         /\ DirFine(o) /\ OrphanFine(o) /\ RenderFine(o) /\ EnvFine(o)
  <1>1. alive /\ \A a \in Callers : tasks[a] = <<>>
    BY DEF Settled
  <1>2. DirFine(o) /\ OrphanFine(o) /\ RenderFine(o) /\ EnvFine(o)
    BY DEF FilesInv, Fine
  <1>3. /\ ~Purging /\ (Gone(o) <=> ~Exists(o)) /\ \A x : ~Listed(o, x)
        /\ \A a \in Callers : \A x : ~Pending(a, o, x)
    BY <1>1, AllIdle
  <1>. QED
    BY <1>1, <1>2, <1>3, Kinds DEF AtStart

(* Between requests the directory of a Secret is its data and that of a    *)
(* ConfigMap holds its data, for any bodies and any history.               *)
THEOREM FilesAreTheirData == FilesSpec => []FilesFollowData
  <1>1. ASSUME FilesInv PROVE FilesFollowData
    <2> SUFFICES ASSUME Settled, NEW o \in Dirs \ blurred, Exists(o) PROVE Follows(o)
      BY DEF FilesFollowData, Follows
    <2>1. o \in Objects
      BY Kinds
    <2>. QED
      BY <1>1, <2>1, SettledIsFine DEF DirFine
  <1>. QED
    BY <1>1, FilesInvariant, PTL

(* Between requests nothing on disk or in systemd belongs to an object     *)
(* that is not stored.                                                     *)
THEOREM NothingIsOrphaned == FilesSpec => []NothingOrphaned
  <1>1. ASSUME FilesInv PROVE NothingOrphaned
    <2> SUFFICES ASSUME Settled, NEW o \in Objects \ blurred, ~Exists(o)
                 PROVE  /\ o \in Dirs => dir[o] = Absent
                        /\ o \in Claims \cup Workloads => quad[o] = Absent
                        /\ o \notin timer /\ o \notin running
      BY DEF NothingOrphaned
    <2>. QED
      BY <1>1, SettledIsFine DEF OrphanFine
  <1>. QED
    BY <1>1, FilesInvariant, PTL

(* Between requests what is stored has its quadlet file, of its current    *)
(* body, and a CronJob its timer file.                                     *)
THEOREM StoredIsRendered == FilesSpec => []StoredAreRendered
  <1>1. ASSUME FilesInv, Settled
        PROVE  /\ \A w \in Workloads \ lost : Exists(w) =>
                    /\ quad[w] # Absent
                    /\ w \notin blurred => quad[w].t = obj[w]
                    /\ w \in CronJobs => w \in timer
               /\ \A v \in Claims \ (blurred \cup stale) :
                    Exists(v) /\ obj[v] # HostPath => quad[v] = obj[v]
    <2>1. ASSUME NEW w \in Workloads \ lost, Exists(w)
          PROVE  /\ quad[w] # Absent
                 /\ w \notin blurred => quad[w].t = obj[w]
                 /\ w \in CronJobs => w \in timer
      BY <1>1, <2>1, SettledIsFine, Kinds DEF RenderFine
    <2>2. ASSUME NEW v \in Claims \ (blurred \cup stale), Exists(v), obj[v] # HostPath
          PROVE  quad[v] = obj[v]
      BY <1>1, <2>2, SettledIsFine, Kinds DEF RenderFine
    <2>. QED
      BY <2>1, <2>2
  <1>2. FilesInv => StoredAreRendered
    BY <1>1 DEF StoredAreRendered
  <1>. QED
    BY <1>2, FilesInvariant, PTL

(* Between requests a quadlet file of a Deployment, Job or CronJob that    *)
(* names an env file finds it, with the values of its Secret.              *)
THEOREM EnvFilesAreRendered == FilesSpec => []EnvFilesRendered
  <1>1. ASSUME FilesInv PROVE EnvFilesRendered
    <2> SUFFICES ASSUME Settled, NEW w \in Workloads \ (Pods \cup blurred \cup lost) PROVE EnvFileOK(w)
      BY DEF EnvFilesRendered
    <2>. QED
      BY <1>1, SettledIsFine, Kinds DEF EnvFine, EnvFileOK, EnvFits
  <1>. QED
    BY <1>1, FilesInvariant, PTL

(* A step of one caller is nobody else's, and only one kind of step does   *)
(* the stage that purges the store.                                        *)
LEMMA StepsOwn ==
  ASSUME NEW a \in Callers, FilesStep(a), tasks \in [Callers -> Range(tasks)]
  PROVE  /\ \A c \in Callers \ {a} : tasks'[c] = tasks[c]
         /\ On(a, "purge") => PurgeStore(a)
  <1>1. CASE List_(a)
    BY <1>1 DEF List_, Finish, On
  <1>2. CASE ResolveEnv(a)
    BY <1>2 DEF ResolveEnv, Abandon, Finish, On
  <1>3. CASE Heal(a)
    BY <1>3 DEF Heal, Proceed, Finish, On
  <1>4. CASE HealTimer(a)
    BY <1>4 DEF HealTimer, Abandon, Finish, On
  <1>5. ASSUME Proceed(a), NEW stage, On(a, stage), stage # "purge"
        PROVE  (\A c \in Callers \ {a} : tasks'[c] = tasks[c]) /\ ~On(a, "purge")
    BY <1>5 DEF Proceed, Finish, On
  <1>6. CASE WriteFiles(a) \/ RestoreData(a) \/ PruneFiles(a) \/ RemoveDir(a) \/ RemoveTree(a)
    BY <1>5, <1>6 DEF WriteFiles, RestoreData, PruneFiles, RemoveDir, RemoveTree
  <1>7. CASE WriteQuadlet(a) \/ WriteTimer(a) \/ Start(a) \/ WriteVolume(a) \/ StopWorkload(a)
    BY <1>5, <1>7 DEF WriteQuadlet, WriteTimer, Start, WriteVolume, StopWorkload
  <1>8. CASE UnlinkQuadlet(a) \/ UnlinkTimer(a) \/ Drop(a) \/ Bind(a)
    BY <1>5, <1>8 DEF UnlinkQuadlet, UnlinkTimer, Drop, Bind
  <1>9. CASE PurgeStore(a)
    BY <1>9 DEF PurgeStore, Proceed, Finish
  <1>. QED
    BY <1>1, <1>2, <1>3, <1>4, <1>6, <1>7, <1>8, <1>9 DEF FilesStep

(* The step that purges the store for a namespace delete leaves no file,   *)
(* unit, timer or env file of any object that no other caller was at,      *)
(* whatever was stored before and however often q8s died.                  *)
THEOREM PurgeIsComplete == FilesSpec => PurgeLeavesNothing
  <1>1. ASSUME FilesInv, FilesNext, On(Client, "purge"), alive', tasks'[Client] = <<>>
        PROVE  \A o \in Objects \ blurred :
                 /\ o \in Dirs => dir'[o] = Absent
                 /\ o \in Workloads => env'[o] = Absent /\ o \notin running'
                 /\ o \in Claims \cup Workloads => quad'[o] = Absent
                 /\ o \notin timer'
    <2>1. Ending(Client) /\ Now(Client).do = <<"purge">> /\ Now(Client) \in Range(tasks[Client])
      <3>1. Ending(Client)
        BY <1>1, PurgeEnds, Kinds
      <3>2. Head(<<"rmtree", "purge">>) # "purge"
        BY ShortTails
      <3>3. Now(Client).do = <<"purge">>
        BY <1>1, <3>1, <3>2 DEF Ending, IsPurge, On
      <3>4. Range(<<Now(Client)>>) = {Now(Client)}
        BY ShortTails
      <3>. QED
        BY <3>1, <3>3, <3>4 DEF Ending
    <2>2. UNCHANGED <<dir, env, quad, timer, running>>
      <3>1. tasks \in [Callers -> Range(tasks)]
        BY <1>1 DEF FilesInv, TasksInv
      <3>2. CASE ClientCalls
        BY <1>1, <3>2 DEF ClientCalls, PostConfigMap, PutConfigMap, PostSecret, PatchSecret, PostClaim, PatchClaim,
           PostJob, PatchJob, PostCronJob, PatchCronJob, PostWorkload, PatchWorkload, CreateThen, UpdateThen,
           StoreThen, DeleteObject, DeleteAll, Call, Idle, On
      <3>3. ASSUME NEW a \in Callers, FilesStep(a)
            PROVE  UNCHANGED <<dir, env, quad, timer, running>>
        <4>1. a = Client
          BY <1>1, <3>1, <3>3, StepsOwn, Kinds DEF On
        <4>2. PurgeStore(Client)
          BY <1>1, <3>1, <3>3, <4>1, StepsOwn
        <4>. QED
          BY <4>2 DEF PurgeStore, tmpfs, units
      <3>. QED
        BY <1>1, <3>2, <3>3 DEF FilesNext, Die, Boot_, On
    <2>3. ASSUME NEW o \in Objects \ blurred
          PROVE  /\ o \in Dirs => dir[o] = Absent
                 /\ o \in Workloads => env[o] = Absent /\ o \notin running
                 /\ o \in Claims \cup Workloads => quad[o] = Absent
                 /\ o \notin timer
      <3>1. OrphanFine(o) /\ Gone(o) /\ \A x : ~Pending(Client, o, x)
        BY <1>1, <2>1 DEF FilesInv, Fine, Ending
      <3>2. o \in Workloads => env[o] = Absent
        BY <1>1, <2>1 DEF FilesInv, MomentInv
      <3>. QED
        BY <3>1, <3>2 DEF OrphanFine
    <2>. QED
      BY <2>2, <2>3
  <1>2. ASSUME FilesInv, [FilesNext]_filesVars
        PROVE  [On(Client, "purge") /\ alive' /\ tasks'[Client] = <<>> =>
                  \A o \in Objects \ blurred :
                    /\ o \in Dirs => dir'[o] = Absent
                    /\ o \in Workloads => env'[o] = Absent /\ o \notin running'
                    /\ o \in Claims \cup Workloads => quad'[o] = Absent
                    /\ o \notin timer']_filesVars
    BY <1>1, <1>2
  <1>. QED
    BY <1>2, FilesInvariant, PTL DEF FilesSpec, PurgeLeavesNothing

================================================================================
