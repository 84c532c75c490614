----------------------------- MODULE ListLemmas -----------------------------
(* Facts about the lists that passes and requests work through. *)
EXTENDS SequencesExt, FiniteSetTheorems, SequenceTheorems, TLAPS

(* SetToSeq lists a finite set. *)
LEMMA SetToSeqIsSeq ==
  ASSUME NEW S, IsFiniteSet(S)
  PROVE  SetToSeq(S) \in Seq(S)
  <1>1. ExistsBijection(1..Cardinality(S), S) /\ Cardinality(S) \in Nat
    BY FS_CardinalityType
  <1>2. \E f \in [1..Cardinality(S) -> S] : IsInjective(f)
    BY <1>1 DEF ExistsBijection, Bijection, Injection
  <1>3. SetToSeq(S) \in [1..Cardinality(S) -> S]
    BY <1>2 DEF SetToSeq
  <1>. QED
    BY <1>1, <1>3, SeqDef

(* ... and misses none of its elements. *)
LEMMA SetToSeqCovers ==
  ASSUME NEW S, IsFiniteSet(S)
  PROVE  Range(SetToSeq(S)) = S
  <1> DEFINE n == Cardinality(S)
  <1>1. ExistsBijection(1..n, S) /\ n \in Nat
    BY FS_CardinalityType
  <1>2. \E f \in [1..n -> S] : IsInjective(f)
    BY <1>1 DEF ExistsBijection, Bijection, Injection
  <1>3. SetToSeq(S) \in [1..n -> S] /\ IsInjective(SetToSeq(S))
    BY <1>2 DEF SetToSeq
  <1>4. SetToSeq(S) \in Injection(1..n, S)
    BY <1>3 DEF Injection
  <1>5. Cardinality(1..n) = n
    BY <1>1, FS_Interval
  <1> HIDE DEF n
  <1>6. SetToSeq(S) \in Surjection(1..n, S)
    BY <1>4, <1>5, FS_Injection DEF n
  <1>. QED
    BY <1>3, <1>6 DEF Surjection, Range

(* Every element of a list is of the set the list is over. *)
LEMMA SeqWiden ==
  ASSUME NEW S, NEW T, S \subseteq T, NEW s \in Seq(S)
  PROVE  s \in Seq(T) /\ \A j \in 1..Len(s) : s[j] \in S
  OBVIOUS

(* What is first, and what is left, of lists of up to four. *)
LEMMA ShortTails ==
  /\ Range(<<>>) = {}
  /\ \A x : Range(<<x>>) = {x} /\ Tail(<<x>>) = <<>> /\ Head(<<x>>) = x
  /\ \A x, y : Range(<<x, y>>) = {x, y} /\ Tail(<<x, y>>) = <<y>> /\ Head(<<x, y>>) = x
  /\ \A x, y, z : /\ Range(<<x, y, z>>) = {x, y, z} /\ Tail(<<x, y, z>>) = <<y, z>>
                  /\ Head(<<x, y, z>>) = x
  /\ \A x, y, z, u : /\ Range(<<x, y, z, u>>) = {x, y, z, u} /\ Tail(<<x, y, z, u>>) = <<y, z, u>>
                     /\ Head(<<x, y, z, u>>) = x
  <1>1. ASSUME NEW x PROVE Range(<<x>>) = {x} /\ Tail(<<x>>) = <<>> /\ Head(<<x>>) = x
    <2>1. DOMAIN <<x>> = {1}
      OBVIOUS
    <2>. QED
      BY <2>1 DEF Range
  <1>2. ASSUME NEW x, NEW y
        PROVE  Range(<<x, y>>) = {x, y} /\ Tail(<<x, y>>) = <<y>> /\ Head(<<x, y>>) = x
    <2>1. DOMAIN <<x, y>> = {1, 2}
      OBVIOUS
    <2>. QED
      BY <2>1 DEF Range
  <1>3. ASSUME NEW x, NEW y, NEW z
        PROVE  /\ Range(<<x, y, z>>) = {x, y, z} /\ Tail(<<x, y, z>>) = <<y, z>>
               /\ Head(<<x, y, z>>) = x
    <2>1. DOMAIN <<x, y, z>> = {1, 2, 3}
      OBVIOUS
    <2>. QED
      BY <2>1 DEF Range
  <1>4. ASSUME NEW x, NEW y, NEW z, NEW u
        PROVE  /\ Range(<<x, y, z, u>>) = {x, y, z, u} /\ Tail(<<x, y, z, u>>) = <<y, z, u>>
               /\ Head(<<x, y, z, u>>) = x
    <2>1. DOMAIN <<x, y, z, u>> = {1, 2, 3, 4}
      OBVIOUS
    <2>. QED
      BY <2>1 DEF Range
  <1>5. Range(<<>>) = {}
    BY DEF Range
  <1>. QED
    BY <1>1, <1>2, <1>3, <1>4, <1>5

(* A list without repetitions, as the orders of a finite set are. *)
Once(ps) == \A i, j \in 1..Len(ps) : ps[i] = ps[j] => i = j

LEMMA SetToSeqsCovers ==
  ASSUME NEW S, IsFiniteSet(S), NEW ps \in SetToSeqs(S)
  PROVE  ps \in Seq(S) /\ Once(ps) /\ \A x \in S : \E j \in 1..Len(ps) : ps[j] = x
  <1> DEFINE n == Cardinality(S)
  <1>1. n \in Nat
    BY FS_CardinalityType
  <1>2. Cardinality(1..n) = n
    BY <1>1, FS_Interval
  <1>5. ps \in [1..n -> S] /\ \A i, j \in 1..n : i # j => ps[i] # ps[j]
    BY DEF SetToSeqs
  <1> HIDE DEF n
  <1>3. ps \in Injection(1..n, S)
    BY <1>5 DEF Injection, IsInjective
  <1>4. ps \in Surjection(1..n, S)
    BY <1>2, <1>3, FS_Injection DEF n
  <1>6. ps \in Seq(S) /\ Len(ps) = n
    BY <1>1, <1>5
  <1>7. Once(ps)
    BY <1>5, <1>6 DEF Once
  <1>. QED
    BY <1>4, <1>6, <1>7 DEF Surjection

(* Two lists joined ... *)
LEMMA Joined ==
  ASSUME NEW S, NEW q \in Seq(S), NEW r \in Seq(S)
  PROVE  /\ q \o r \in Seq(S) /\ Len(q \o r) = Len(q) + Len(r)
         /\ \A j \in 1..Len(q) : (q \o r)[j] = q[j]
         /\ \A j \in (Len(q) + 1)..(Len(q) + Len(r)) : (q \o r)[j] = r[j - Len(q)]
         /\ \A j \in 1..Len(r) : (q \o r)[Len(q) + j] = r[j]
  <1>1. /\ q \o r \in Seq(S) /\ Len(q \o r) = Len(q) + Len(r)
        /\ \A i \in 1..(Len(q) + Len(r)) :
             (q \o r)[i] = IF i <= Len(q) THEN q[i] ELSE r[i - Len(q)]
    BY ConcatProperties
  <1>2. Len(q) \in Nat /\ Len(r) \in Nat
    BY LenProperties
  <1>3. ASSUME NEW j \in 1..Len(r) PROVE (q \o r)[Len(q) + j] = r[j]
    <2>1. Len(q) + j \in 1..(Len(q) + Len(r)) /\ ~(Len(q) + j <= Len(q)) /\ Len(q) + j - Len(q) = j
      BY <1>2
    <2>. QED
      BY <1>1, <2>1
  <1>. QED
    BY <1>1, <1>2, <1>3

LEMMA OneElement ==
  ASSUME NEW S, NEW x \in S
  PROVE  <<x>> \in Seq(S) /\ Len(<<x>>) = 1 /\ <<x>>[1] = x
  OBVIOUS

(* ... three of a length, with one element to follow ... *)
InParts(r, n, A, B, D, x) ==
  /\ Len(r) = n + n + n + 1
  /\ DOMAIN r = 1..(n + n + n + 1)
  /\ \A j \in 1..n : r[j] = A[j] /\ r[n + j] = B[j] /\ r[n + n + j] = D[j]
  /\ r[n + n + n + 1] = x

LEMMA FourParts ==
  ASSUME NEW S, NEW n \in Nat, NEW A \in Seq(S), NEW B \in Seq(S), NEW D \in Seq(S), NEW x \in S,
         Len(A) = n, Len(B) = n, Len(D) = n
  PROVE  InParts(A \o B \o D \o <<x>>, n, A, B, D, x)
  <1>r. PICK r : r = A \o B \o D \o <<x>>
    OBVIOUS
  <1>0. \A q, t \in Seq(S) :
          /\ q \o t \in Seq(S) /\ Len(q \o t) = Len(q) + Len(t)
          /\ \A j \in 1..Len(q) : (q \o t)[j] = q[j]
          /\ \A j \in 1..Len(t) : (q \o t)[Len(q) + j] = t[j]
    <2> SUFFICES ASSUME NEW q \in Seq(S), NEW t \in Seq(S)
                 PROVE  /\ q \o t \in Seq(S) /\ Len(q \o t) = Len(q) + Len(t)
                        /\ \A j \in 1..Len(q) : (q \o t)[j] = q[j]
                        /\ \A j \in 1..Len(t) : (q \o t)[Len(q) + j] = t[j]
      OBVIOUS
    <2>1. q \o t \in Seq(S) /\ Len(q \o t) = Len(q) + Len(t)
      OBVIOUS
    <2>2. \A j \in 1..Len(q) : (q \o t)[j] = q[j]
      BY Joined
    <2>3. \A j \in 1..Len(t) : (q \o t)[Len(q) + j] = t[j]
      BY Joined
    <2>. QED
      BY <2>1, <2>2, <2>3
  <1>1. PICK e : e = <<x>>
    OBVIOUS
  <1>2. e \in Seq(S) /\ Len(e) = 1 /\ e[1] = x
    BY <1>1, OneElement, Zenon
  <1>3. PICK AB : AB = A \o B
    OBVIOUS
  <1>4. /\ AB \in Seq(S) /\ Len(AB) = n + n
        /\ \A j \in 1..n : AB[j] = A[j] /\ AB[n + j] = B[j]
    <2>1. /\ A \o B \in Seq(S) /\ Len(A \o B) = Len(A) + Len(B)
          /\ \A j \in 1..Len(A) : (A \o B)[j] = A[j]
          /\ \A j \in 1..Len(B) : (A \o B)[Len(A) + j] = B[j]
      BY <1>0
    <2>. QED
      BY <1>3, <2>1
  <1>5. PICK ABD : ABD = AB \o D
    OBVIOUS
  <1>6. /\ ABD \in Seq(S) /\ Len(ABD) = n + n + n
        /\ \A j \in 1..(n + n) : ABD[j] = AB[j]
        /\ \A j \in 1..n : ABD[n + n + j] = D[j]
    <2>1. /\ AB \o D \in Seq(S) /\ Len(AB \o D) = Len(AB) + Len(D)
          /\ \A j \in 1..Len(AB) : (AB \o D)[j] = AB[j]
          /\ \A j \in 1..Len(D) : (AB \o D)[Len(AB) + j] = D[j]
      BY <1>0, <1>4
    <2>. QED
      BY <1>4, <1>5, <2>1
  <1>7. /\ r \in Seq(S) /\ Len(r) = n + n + n + 1
        /\ \A j \in 1..(n + n + n) : r[j] = ABD[j]
        /\ r[n + n + n + 1] = x
    <2>1. r = ABD \o e
      BY <1>1, <1>3, <1>5, <1>r, Zenon
    <2>2. /\ ABD \o e \in Seq(S) /\ Len(ABD \o e) = Len(ABD) + Len(e)
          /\ \A j \in 1..Len(ABD) : (ABD \o e)[j] = ABD[j]
          /\ \A j \in 1..Len(e) : (ABD \o e)[Len(ABD) + j] = e[j]
      BY <1>0, <1>2, <1>6
    <2>3. 1 \in 1..Len(e)
      BY <1>2
    <2>. QED
      BY <1>2, <1>6, <2>1, <2>2, <2>3
  <1>8. ASSUME NEW j \in 1..n PROVE r[j] = A[j] /\ r[n + j] = B[j] /\ r[n + n + j] = D[j]
    <2>1. /\ j \in 1..(n + n + n) /\ n + j \in 1..(n + n + n) /\ n + n + j \in 1..(n + n + n)
          /\ j \in 1..(n + n) /\ n + j \in 1..(n + n)
      OBVIOUS
    <2>. QED
      BY <1>4, <1>6, <1>7, <2>1
  <1>9. DOMAIN r = 1..(n + n + n + 1)
    BY <1>7
  <1>10. InParts(r, n, A, B, D, x)
    BY <1>7, <1>8, <1>9 DEF InParts
  <1>. QED
    BY <1>10, <1>r, Zenon

(* ... and one with an element to follow. *)
InEnd(r, A, x) ==
  /\ Len(r) = Len(A) + 1 /\ DOMAIN r = 1..(Len(A) + 1)
  /\ \A j \in 1..Len(A) : r[j] = A[j]
  /\ r[Len(A) + 1] = x

LEMMA EndIs ==
  ASSUME NEW S, NEW A \in Seq(S), NEW x \in S
  PROVE  InEnd(A \o <<x>>, A, x) /\ A \o <<x>> \in Seq(S) /\ Len(A) \in Nat
  <1>1. PICK e : e = <<x>>
    OBVIOUS
  <1>2. e \in Seq(S) /\ Len(e) = 1 /\ e[1] = x
    BY <1>1, OneElement, Zenon
  <1>3. /\ A \o e \in Seq(S) /\ Len(A \o e) = Len(A) + Len(e)
        /\ \A j \in 1..Len(A) : (A \o e)[j] = A[j]
    BY <1>2, Joined
  <1>4. \A j \in 1..Len(e) : (A \o e)[Len(A) + j] = e[j]
    BY <1>2, Joined
  <1>5. 1 \in 1..Len(e) /\ Len(A) \in Nat
    BY <1>2, LenProperties
  <1>6. InEnd(A \o e, A, x)
    <2>1. (A \o e)[Len(A) + 1] = x
      BY <1>2, <1>4, <1>5
    <2>2. DOMAIN (A \o e) = 1..(Len(A) + 1) /\ Len(A \o e) = Len(A) + 1
      BY <1>2, <1>3
    <2>. QED
      BY <1>3, <2>1, <2>2 DEF InEnd
  <1>. QED
    BY <1>1, <1>3, <1>5, <1>6, Zenon

(* What is left of the list q of tasks when its first goes on with the     *)
(* stages do, or ends, and others come next.                               *)
Rest(q, do, more) ==
  (IF do = <<>> THEN <<>> ELSE <<[Head(q) EXCEPT !.do = do]>>) \o more \o Tail(q)

LEMMA RestOn ==
  ASSUME NEW S, NEW q \in Seq(S), q # <<>>, NEW do, do # <<>>,
         [Head(q) EXCEPT !.do = do] \in S
  PROVE  /\ Rest(q, do, <<>>) \in Seq(S) /\ Len(Rest(q, do, <<>>)) = Len(q)
         /\ Rest(q, do, <<>>)[1] = [q[1] EXCEPT !.do = do]
         /\ \A j \in 2..Len(q) : Rest(q, do, <<>>)[j] = q[j]
  <1>1. PICK t \in S : t = [Head(q) EXCEPT !.do = do]
    OBVIOUS
  <1>2. Rest(q, do, <<>>) = <<t>> \o Tail(q)
    BY <1>1, ConcatEmptySeq DEF Rest
  <1>3. Tail(q) \in Seq(S) /\ Len(q) \in Nat \ {0} /\ Len(Tail(q)) = Len(q) - 1
        /\ \A j \in 1..(Len(q) - 1) : Tail(q)[j] = q[j + 1]
    BY HeadTailProperties, LenProperties, EmptySeq
  <1>4. <<t>> \in Seq(S) /\ Len(<<t>>) = 1 /\ <<t>>[1] = t
    OBVIOUS
  <1>5. PICK u : u = <<t>>
    OBVIOUS
  <1>6. /\ u \o Tail(q) \in Seq(S) /\ Len(u \o Tail(q)) = Len(q)
        /\ (u \o Tail(q))[1] = t
        /\ \A j \in 2..Len(q) : (u \o Tail(q))[j] = q[j]
    <2>1. /\ u \o Tail(q) \in Seq(S) /\ Len(u \o Tail(q)) = Len(u) + Len(Tail(q))
          /\ \A i \in 1..(Len(u) + Len(Tail(q))) :
               (u \o Tail(q))[i] = IF i <= Len(u) THEN u[i] ELSE Tail(q)[i - Len(u)]
      BY <1>3, <1>4, <1>5, ConcatProperties
    <2>2. ASSUME NEW j \in 2..Len(q) PROVE (u \o Tail(q))[j] = q[j]
      <3>1. j - 1 \in 1..(Len(q) - 1) /\ j \in 1..Len(q) /\ ~(j <= 1) /\ (j - 1) + 1 = j
        BY <1>3, <2>2
      <3>2. (u \o Tail(q))[j] = Tail(q)[j - 1]
        BY <1>3, <1>4, <1>5, <2>1, <3>1
      <3>. QED
        BY <1>3, <3>1, <3>2
    <2>. QED
      BY <1>3, <1>4, <1>5, <2>1, <2>2
  <1>7. Rest(q, do, <<>>) = u \o Tail(q)
    BY <1>2, <1>5, Zenon
  <1>8. t = [q[1] EXCEPT !.do = do]
    <2>1. Head(q) = q[1]
      OBVIOUS
    <2>. QED
      BY <1>1, <2>1, Zenon
  <1>. QED
    BY <1>6, <1>7, <1>8, Zenon

LEMMA RestMore ==
  ASSUME NEW S, NEW q \in Seq(S), q # <<>>, NEW more \in Seq(S)
  PROVE  /\ Rest(q, <<>>, more) \in Seq(S)
         /\ Len(Rest(q, <<>>, more)) = Len(more) + Len(q) - 1
         /\ \A j \in 1..Len(more) : Rest(q, <<>>, more)[j] = more[j]
         /\ \A j \in (Len(more) + 1)..(Len(more) + Len(q) - 1) :
              Rest(q, <<>>, more)[j] = q[j - Len(more) + 1]
  <1>1. Rest(q, <<>>, more) = more \o Tail(q)
    BY ConcatEmptySeq DEF Rest
  <1>2. Tail(q) \in Seq(S) /\ Len(q) \in Nat \ {0} /\ Len(Tail(q)) = Len(q) - 1
        /\ Len(more) \in Nat
        /\ \A j \in 1..(Len(q) - 1) : Tail(q)[j] = q[j + 1]
    BY HeadTailProperties, LenProperties, EmptySeq
  <1>3. /\ more \o Tail(q) \in Seq(S) /\ Len(more \o Tail(q)) = Len(more) + Len(Tail(q))
        /\ \A i \in 1..(Len(more) + Len(Tail(q))) :
             (more \o Tail(q))[i] = IF i <= Len(more) THEN more[i] ELSE Tail(q)[i - Len(more)]
    BY <1>2, ConcatProperties
  <1>4. ASSUME NEW j \in (Len(more) + 1)..(Len(more) + Len(q) - 1)
        PROVE  (more \o Tail(q))[j] = q[j - Len(more) + 1]
    <2>1. j - Len(more) \in 1..(Len(q) - 1) /\ ~(j <= Len(more)) /\ j \in 1..(Len(more) + Len(Tail(q)))
      BY <1>2
    <2>2. (more \o Tail(q))[j] = Tail(q)[j - Len(more)]
      BY <1>3, <2>1
    <2>. QED
      BY <1>2, <2>1, <2>2
  <1>5. Len(more \o Tail(q)) = Len(more) + Len(q) - 1
        /\ \A j \in 1..Len(more) : (more \o Tail(q))[j] = more[j]
    BY <1>2, <1>3
  <1>. QED
    BY <1>1, <1>3, <1>4, <1>5, Zenon

LEMMA RestTail ==
  ASSUME NEW S, NEW q \in Seq(S), q # <<>>
  PROVE  /\ Rest(q, <<>>, <<>>) \in Seq(S)
         /\ Len(Rest(q, <<>>, <<>>)) = Len(q) - 1
         /\ \A j \in 1..(Len(q) - 1) : Rest(q, <<>>, <<>>)[j] = q[j + 1]
  <1>1. Tail(q) \in Seq(S) /\ Len(Tail(q)) = Len(q) - 1
        /\ \A j \in 1..(Len(q) - 1) : Tail(q)[j] = q[j + 1]
    BY HeadTailProperties, LenProperties, EmptySeq
  <1>2. Rest(q, <<>>, <<>>) = Tail(q)
    BY <1>1, ConcatEmptySeq DEF Rest
  <1>. QED
    BY <1>1, <1>2, Zenon
=============================================================================
