------------------------- MODULE SubscriptionsProofs -------------------------
(***************************************************************************)
(* The frames of a subscription add up, for any files, contents, meanings, *)
(* subscriptions, channels and bounds.                                     *)
(*                                                                         *)
(* The frames on their way lead the client from what it holds to what its  *)
(* task last reported, and what the task last reported is the current      *)
(* projection unless it is about to look.  `changes` has no initial value: *)
(* its events lead from one projection to the next, but where its client   *)
(* started is not on that path, so only the paths they touch, and those it *)
(* read as the task did, are right.                                        *)
(*                                                                         *)
(* First: what a net change between two projections does to the client     *)
(* that applies it.  The recursive merge walk and the sort of the edges    *)
(* are reasoned about by induction over a set of naturals (SetInduction).  *)
(***************************************************************************)
EXTENDS Subscriptions, FiniteSetTheorems, FunctionTheorems, WellFoundedInduction, TLAPS

-----------------------------------------------------------------------------
(* Net changes, for any files, contents and meanings.                      *)

\* A set of naturals that holds zero, and with each number the next, holds all.
LEMMA SetInduction ==
    ASSUME NEW S, 0 \in S, \A n \in Nat : n \in S => n + 1 \in S
    PROVE  \A n \in Nat : n \in S
<1> DEFINE R == {p \in Nat \X Nat : p[1] < p[2]}
           T == {n \in Nat : n \notin S}
<1>1. IsWellFoundedOn(R, Nat)
  BY NatLessThanWellFounded DEF OpToRel
<1>2. SUFFICES ASSUME T # {} PROVE FALSE
  OBVIOUS
<1>3. PICK x \in T : \A y \in T : <<y, x>> \notin R
  <2> HIDE DEF R
  <2>1. QED
    BY <1>1, <1>2, WFMin
<1>4. x \in Nat /\ x # 0
  OBVIOUS
<1>5. x - 1 \in Nat /\ <<x - 1, x>> \in R
  BY <1>4
<1>6. x - 1 \in S
  BY <1>3, <1>5
<1>7. QED
  BY <1>4, <1>5, <1>6

-----------------------------------------------------------------------------
(* How often an edge occurs in a list.                                     *)

\* Every edge there may be: the file, the target, the kind and the surface.
Edges == Files \X Files \X {0, 1, 2} \X Surfaces

\* How often e occurs in s, and in s from position i on.
Count(s, e) == Cardinality({k \in DOMAIN s : s[k] = e})
CountFrom(s, i, e) == Cardinality({k \in i..Len(s) : s[k] = e})

\* Occurrences are counted by naturals, in a whole list and in what is left of it.
LEMMA CountsAreNat ==
    ASSUME NEW S, NEW s \in Seq(S), NEW i \in Nat, NEW e
    PROVE  /\ IsFiniteSet({k \in DOMAIN s : s[k] = e}) /\ Count(s, e) \in Nat
           /\ IsFiniteSet({k \in i..Len(s) : s[k] = e}) /\ CountFrom(s, i, e) \in Nat
<1>1. IsFiniteSet(1..Len(s)) /\ IsFiniteSet(i..Len(s))
  BY FS_Interval
<1>2. DOMAIN s = 1..Len(s)
  OBVIOUS
<1>3. IsFiniteSet({k \in DOMAIN s : s[k] = e})
  BY <1>1, <1>2, FS_Subset
<1>4. IsFiniteSet({k \in i..Len(s) : s[k] = e})
  BY <1>1, FS_Subset
<1>5. QED
  BY <1>3, <1>4, FS_CardinalityType DEF Count, CountFrom

\* A list is what is left of it from its first position.
LEMMA CountIsFromOne ==
    ASSUME NEW S, NEW s \in Seq(S), NEW e
    PROVE  Count(s, e) = CountFrom(s, 1, e)
<1>1. DOMAIN s = 1..Len(s)
  OBVIOUS
<1>2. QED
  BY <1>1 DEF Count, CountFrom

\* One position further there is one occurrence less, if the position was one.
LEMMA CountNext ==
    ASSUME NEW S, NEW s \in Seq(S), NEW i \in 1..Len(s), NEW e
    PROVE  CountFrom(s, i, e) =
             CountFrom(s, i + 1, e) + (IF s[i] = e THEN 1 ELSE 0)
<1> DEFINE A == {k \in i..Len(s) : s[k] = e}
           B == {k \in (i + 1)..Len(s) : s[k] = e}
<1>1. IsFiniteSet(B) /\ Cardinality(B) \in Nat
  <2>1. i + 1 \in Nat
    OBVIOUS
  <2>2. IsFiniteSet((i + 1)..Len(s))
    BY <2>1, FS_Interval
  <2>3. IsFiniteSet(B)
    BY <2>2, FS_Subset
  <2>4. QED
    BY <2>3, FS_CardinalityType
<1>2. CASE s[i] = e
  <2>1. A = B \cup {i} /\ i \notin B
    BY <1>2
  <2>2. Cardinality(A) = Cardinality(B) + 1
    <3> HIDE DEF A, B
    <3>1. QED
      BY <1>1, <2>1, FS_AddElement
  <2>3. QED
    BY <1>2, <2>2 DEF CountFrom
<1>3. CASE s[i] # e
  <2>1. A = B
    <3>1. \A k \in A : k # i
      BY <1>3
    <3>2. \A k \in i..Len(s) : k # i => k \in (i + 1)..Len(s)
      OBVIOUS
    <3>3. \A k \in (i + 1)..Len(s) : k \in i..Len(s)
      OBVIOUS
    <3>4. QED
      BY <3>1, <3>2, <3>3
  <2>2. CountFrom(s, i, e) = Cardinality(B)
    BY <2>1 DEF CountFrom
  <2>3. QED
    BY <1>1, <1>3, <2>2 DEF CountFrom
<1>4. QED
  BY <1>2, <1>3

\* Past the end there is nothing to count.
LEMMA CountPastEnd ==
    ASSUME NEW S, NEW s \in Seq(S), NEW i \in Nat, i > Len(s), NEW e
    PROVE  CountFrom(s, i, e) = 0
<1>1. {k \in i..Len(s) : s[k] = e} = {}
  OBVIOUS
<1>2. QED
  BY <1>1, FS_EmptySet DEF CountFrom

\* Positions moved by the same distance are as many.
LEMMA Shifted ==
    ASSUME NEW A, NEW d \in Int, IsFiniteSet(A), A \subseteq Int
    PROVE  Cardinality({k + d : k \in A}) = Cardinality(A)
<1> DEFINE B == {k + d : k \in A}
           f == [k \in A |-> k + d]
<1>1. f \in [A -> B] /\ \A b \in B : \E k \in A : f[k] = b
  OBVIOUS
<1>2. \A a, b \in A : f[a] = f[b] => a = b
  OBVIOUS
<1> HIDE DEF f, B
<1>3. f \in Bijection(A, B)
  BY <1>1, <1>2, Fun_IsBij
<1>4. ExistsBijection(A, B)
  BY <1>3, Fun_ExistsBij
<1>5. QED
  BY <1>4, FS_Bijection DEF B

\* An element put in front adds an occurrence of itself.
LEMMA CountCons ==
    ASSUME NEW S, NEW s \in Seq(S), NEW x \in S, NEW e
    PROVE  /\ <<x>> \o s \in Seq(S)
           /\ Count(<<x>> \o s, e) = Count(s, e) + (IF x = e THEN 1 ELSE 0)
<1> DEFINE t == <<x>> \o s
           A == {k \in DOMAIN s : s[k] = e}
           B == {k \in 2..Len(t) : t[k] = e}
<1>1. /\ t \in Seq(S) /\ Len(t) = Len(s) + 1 /\ t[1] = x
      /\ \A k \in 1..Len(s) : t[k + 1] = s[k]
  OBVIOUS
<1> HIDE DEF t
<1>2. B = {k + 1 : k \in A}
  <2>1. ASSUME NEW k \in B
        PROVE  k \in {j + 1 : j \in A}
    <3>1. k - 1 \in A /\ k = (k - 1) + 1
      BY <1>1
    <3>2. QED
      BY <3>1
  <2>2. ASSUME NEW k \in A
        PROVE  k + 1 \in B
    BY <1>1
  <2>3. QED
    BY <2>1, <2>2
<1>3. Cardinality(B) = Cardinality(A)
  <2>1. IsFiniteSet(A)
    BY CountsAreNat
  <2>2. A \subseteq Int /\ 1 \in Int
    OBVIOUS
  <2> HIDE DEF A, B
  <2>3. Cardinality({k + 1 : k \in A}) = Cardinality(A)
    BY <2>1, <2>2, Shifted
  <2>4. QED
    BY <1>2, <2>3
<1>4. Count(t, e) = CountFrom(t, 2, e) + (IF x = e THEN 1 ELSE 0)
  <2>1. 1 \in 1..Len(t)
    BY <1>1
  <2>2. QED
    BY <1>1, <2>1, CountIsFromOne, CountNext
<1>5. QED
  BY <1>1, <1>3, <1>4 DEF Count, CountFrom, t

\* What is left of a list, as a list of its own.
LEMMA CountSubSeq ==
    ASSUME NEW S, NEW s \in Seq(S), NEW i \in 1..(Len(s) + 1), NEW e
    PROVE  /\ SubSeq(s, i, Len(s)) \in Seq(S)
           /\ Count(SubSeq(s, i, Len(s)), e) = CountFrom(s, i, e)
<1> DEFINE t == SubSeq(s, i, Len(s))
           A == {k \in DOMAIN t : t[k] = e}
           B == {k \in i..Len(s) : s[k] = e}
<1>1. /\ t \in Seq(S) /\ Len(t) = Len(s) - i + 1
      /\ \A k \in 1..Len(t) : t[k] = s[k + (i - 1)]
  OBVIOUS
<1> HIDE DEF t
<1>2. B = {k + (i - 1) : k \in A}
  <2>1. ASSUME NEW k \in B
        PROVE  k \in {j + (i - 1) : j \in A}
    <3>1. k - (i - 1) \in A /\ k = (k - (i - 1)) + (i - 1)
      BY <1>1
    <3>2. QED
      BY <3>1
  <2>2. ASSUME NEW k \in A
        PROVE  k + (i - 1) \in B
    BY <1>1
  <2>3. QED
    BY <2>1, <2>2
<1>3. Cardinality(B) = Cardinality(A)
  <2>1. IsFiniteSet(A)
    BY <1>1, CountsAreNat
  <2>2. A \subseteq Int /\ i - 1 \in Int
    BY <1>1
  <2> HIDE DEF A, B
  <2>3. Cardinality({k + (i - 1) : k \in A}) = Cardinality(A)
    BY <2>1, <2>2, Shifted
  <2>4. QED
    BY <1>2, <2>3
<1>4. QED
  BY <1>1, <1>3 DEF Count, CountFrom, t

-----------------------------------------------------------------------------
(* The merge walk of two sorted lists of edges.                            *)

\* One step of the merge walk from <<i, j>>, as its table w gives the rest.
Merge(w, old, new, i, j) ==
    IF i > Len(old)
    THEN [added |-> SubSeq(new, j, Len(new)), removed |-> <<>>]
    ELSE IF j > Len(new)
    THEN [added |-> <<>>, removed |-> SubSeq(old, i, Len(old))]
    ELSE IF Precedes(old[i], new[j])
    THEN [w[<<i + 1, j>>] EXCEPT !.removed = <<old[i]>> \o @]
    ELSE IF Precedes(new[j], old[i])
    THEN [w[<<i, j + 1>>] EXCEPT !.added = <<new[j]>> \o @]
    ELSE w[<<i + 1, j + 1>>]

Board(old, new) == (1..(Len(old) + 1)) \X (1..(Len(new) + 1))
Left(old, new, p) == (Len(old) + 1 - p[1]) + (Len(new) + 1 - p[2])

\* w is the walk where at most n steps are left.
Walks(w, n, old, new) ==
    w = [p \in {q \in Board(old, new) : Left(old, new, q) <= n} |->
            Merge(w, old, new, p[1], p[2])]

Walked(w, old, new) ==
    w = [p \in Board(old, new) |-> Merge(w, old, new, p[1], p[2])]

\* EdgeMultisetDiff is what a table filled by the walk holds at its start.
LEMMA DiffIsWalk ==
    ASSUME NEW old, NEW new
    PROVE  EdgeMultisetDiff(old, new) = (CHOOSE w : Walked(w, old, new))[<<1, 1>>]
BY DEF EdgeMultisetDiff, Walked, Merge, Board

\* Each step of the walk stays on the board and comes closer to its end.
LEMMA BoardStep ==
    ASSUME NEW old \in Seq(Edges), NEW new \in Seq(Edges),
           NEW i \in 1..(Len(old) + 1), NEW j \in 1..(Len(new) + 1)
    PROVE  /\ <<i, j>> \in Board(old, new)
           /\ Left(old, new, <<i, j>>) \in Nat
           /\ i <= Len(old) =>
                /\ i + 1 \in 1..(Len(old) + 1)
                /\ <<i + 1, j>> \in Board(old, new)
                /\ Left(old, new, <<i + 1, j>>) < Left(old, new, <<i, j>>)
           /\ j <= Len(new) =>
                /\ j + 1 \in 1..(Len(new) + 1)
                /\ <<i, j + 1>> \in Board(old, new)
                /\ Left(old, new, <<i, j + 1>>) < Left(old, new, <<i, j>>)
           /\ i <= Len(old) /\ j <= Len(new) =>
                /\ <<i + 1, j + 1>> \in Board(old, new)
                /\ Left(old, new, <<i + 1, j + 1>>) < Left(old, new, <<i, j>>)
<1>1. \A a \in 1..(Len(old) + 1), b \in 1..(Len(new) + 1) :
        /\ <<a, b>> \in Board(old, new)
        /\ Left(old, new, <<a, b>>) = (Len(old) + 1 - a) + (Len(new) + 1 - b)
  BY DEF Board, Left
<1>2. /\ Len(old) \in Nat /\ Len(new) \in Nat
      /\ i <= Len(old) => i + 1 \in 1..(Len(old) + 1)
      /\ j <= Len(new) => j + 1 \in 1..(Len(new) + 1)
  OBVIOUS
<1>3. i <= Len(old) =>
        /\ <<i + 1, j>> \in Board(old, new)
        /\ Left(old, new, <<i + 1, j>>) < Left(old, new, <<i, j>>)
  <2>1. SUFFICES ASSUME i <= Len(old)
                 PROVE  /\ <<i + 1, j>> \in Board(old, new)
                        /\ Left(old, new, <<i + 1, j>>) < Left(old, new, <<i, j>>)
    OBVIOUS
  <2>2. /\ <<i + 1, j>> \in Board(old, new)
        /\ Left(old, new, <<i + 1, j>>) = (Len(old) + 1 - (i + 1)) + (Len(new) + 1 - j)
        /\ Left(old, new, <<i, j>>) = (Len(old) + 1 - i) + (Len(new) + 1 - j)
    BY <1>1, <1>2, <2>1
  <2>3. QED
    BY <1>2, <2>2
<1>4. j <= Len(new) =>
        /\ <<i, j + 1>> \in Board(old, new)
        /\ Left(old, new, <<i, j + 1>>) < Left(old, new, <<i, j>>)
  <2>1. SUFFICES ASSUME j <= Len(new)
                 PROVE  /\ <<i, j + 1>> \in Board(old, new)
                        /\ Left(old, new, <<i, j + 1>>) < Left(old, new, <<i, j>>)
    OBVIOUS
  <2>2. /\ <<i, j + 1>> \in Board(old, new)
        /\ Left(old, new, <<i, j + 1>>) = (Len(old) + 1 - i) + (Len(new) + 1 - (j + 1))
        /\ Left(old, new, <<i, j>>) = (Len(old) + 1 - i) + (Len(new) + 1 - j)
    BY <1>1, <1>2, <2>1
  <2>3. QED
    BY <1>2, <2>2
<1>5. i <= Len(old) /\ j <= Len(new) =>
        /\ <<i + 1, j + 1>> \in Board(old, new)
        /\ Left(old, new, <<i + 1, j + 1>>) < Left(old, new, <<i, j>>)
  <2>1. SUFFICES ASSUME i <= Len(old), j <= Len(new)
                 PROVE  /\ <<i + 1, j + 1>> \in Board(old, new)
                        /\ Left(old, new, <<i + 1, j + 1>>) < Left(old, new, <<i, j>>)
    OBVIOUS
  <2>2. /\ <<i + 1, j + 1>> \in Board(old, new)
        /\ Left(old, new, <<i + 1, j + 1>>)
             = (Len(old) + 1 - (i + 1)) + (Len(new) + 1 - (j + 1))
        /\ Left(old, new, <<i, j>>) = (Len(old) + 1 - i) + (Len(new) + 1 - j)
    BY <1>1, <1>2, <2>1
  <2>3. QED
    BY <1>2, <2>2
<1>6. <<i, j>> \in Board(old, new) /\ Left(old, new, <<i, j>>) \in Nat
  <2>1. /\ <<i, j>> \in Board(old, new)
        /\ Left(old, new, <<i, j>>) = (Len(old) + 1 - i) + (Len(new) + 1 - j)
    BY <1>1
  <2>2. QED
    BY <1>2, <2>1
<1>7. QED
  BY <1>2, <1>3, <1>4, <1>5, <1>6

\* The walk has a table: by induction on the distance to its end, the part of
\* the table within each distance exists.
LEMMA WalkExists ==
    ASSUME NEW old \in Seq(Edges), NEW new \in Seq(Edges)
    PROVE  \E w : Walked(w, old, new)
<1> DEFINE S == {n \in Nat : \E w : Walks(w, n, old, new)}
           Bd == Board(old, new)
           Lf(q) == Left(old, new, q)
<1>1. 0 \in S
  <2> DEFINE w == [p \in {q \in Bd : Lf(q) <= 0} |->
                     [added |-> SubSeq(new, p[2], Len(new)), removed |-> <<>>]]
  <2>1. ASSUME NEW p \in Bd, Lf(p) <= 0
        PROVE  p[1] > Len(old)
    BY <2>1 DEF Board, Left
  <2>2. Walks(w, 0, old, new)
    BY <2>1 DEF Walks, Merge
  <2>3. QED
    BY <2>2
<1>2. ASSUME NEW n \in Nat, n \in S
      PROVE  n + 1 \in S
  <2>1. PICK w : Walks(w, n, old, new)
    BY <1>2
  <2> DEFINE D == {q \in Bd : Lf(q) <= n}
             E == {q \in Bd : Lf(q) <= n + 1}
             v == [p \in E |-> IF p \in D THEN w[p]
                               ELSE Merge(w, old, new, p[1], p[2])]
  <2>2. \A q \in Bd : Lf(q) \in Nat
    BY DEF Board, Left
  <2>3. D \subseteq E
    BY <2>2
  <2>4. \A q \in D : v[q] = w[q]
    BY <2>3
  <2>5. \A q \in D : w[q] = Merge(w, old, new, q[1], q[2])
    BY <2>1 DEF Walks
  <2>6. ASSUME NEW p \in E
        PROVE  v[p] = Merge(v, old, new, p[1], p[2])
    <3>1. PICK i \in 1..(Len(old) + 1), j \in 1..(Len(new) + 1) : p = <<i, j>>
      BY DEF Board
    <3>2. Left(old, new, <<i, j>>) <= n + 1
      BY <3>1
    <3>3. \A q \in Board(old, new) :
            Left(old, new, q) < Left(old, new, <<i, j>>) => v[q] = w[q]
      BY <2>2, <2>4, <3>1, <3>2
    <3>4. v[p] = Merge(w, old, new, p[1], p[2])
      BY <2>5, <2>4
    <3>5. Merge(v, old, new, i, j) = Merge(w, old, new, i, j)
      <4> HIDE DEF v, D, E, S, Bd, Lf
      <4>1. i <= Len(old) => v[<<i + 1, j>>] = w[<<i + 1, j>>]
        BY <3>3, BoardStep
      <4>2. j <= Len(new) => v[<<i, j + 1>>] = w[<<i, j + 1>>]
        BY <3>3, BoardStep
      <4>3. i <= Len(old) /\ j <= Len(new) => v[<<i + 1, j + 1>>] = w[<<i + 1, j + 1>>]
        BY <3>3, BoardStep
      <4>4. (i > Len(old) \/ i <= Len(old)) /\ (j > Len(new) \/ j <= Len(new))
        OBVIOUS
      <4>5. QED
        BY <4>1, <4>2, <4>3, <4>4 DEF Merge
    <3>6. QED
      BY <3>1, <3>4, <3>5
  <2>7. Walks(v, n + 1, old, new)
    BY <2>6 DEF Walks
  <2>8. QED
    BY <2>7
<1> HIDE DEF S
<1>3. \A n \in Nat : n \in S
  BY <1>1, <1>2, SetInduction
<1>4. PICK w : Walks(w, Len(old) + Len(new), old, new)
  BY <1>3 DEF S
<1>5. \A q \in Bd : Lf(q) <= Len(old) + Len(new)
  BY DEF Board, Left
<1>6. QED
  BY <1>4, <1>5 DEF Walks, Walked
\* An edge is its four parts, which are numbers.
LEMMA EdgeParts ==
    ASSUME NEW a \in Edges
    PROVE  /\ a = <<a[1], a[2], a[3], a[4]>>
           /\ \A k \in 1..4 : a[k] \in Int
<1>1. PICK f \in Files, g \in Files, k \in {0, 1, 2}, s \in Surfaces :
        a = <<f, g, k, s>>
  BY DEF Edges
<1>2. a[1] = f /\ a[2] = g /\ a[3] = k /\ a[4] = s
  BY <1>1
<1>3. f \in Int /\ g \in Int /\ k \in Int /\ s \in Int
  BY DeltasAssumption DEF Surfaces
<1>4. QED
  BY <1>1, <1>2, <1>3

\* Precedes is the lexicographic order of the four parts.
LEMMA PrecedesIs ==
    ASSUME NEW a \in Edges, NEW c \in Edges
    PROVE  Precedes(a, c) <=>
             \/ a[1] < c[1]
             \/ a[1] = c[1] /\ a[2] < c[2]
             \/ a[1] = c[1] /\ a[2] = c[2] /\ a[3] < c[3]
             \/ a[1] = c[1] /\ a[2] = c[2] /\ a[3] = c[3] /\ a[4] < c[4]
<1>1. ASSUME NEW P(_)
      PROVE  /\ (\E i \in 1..4 : P(i)) <=> P(1) \/ P(2) \/ P(3) \/ P(4)
             /\ \A j \in 1..(1 - 1) : P(j)
             /\ (\A j \in 1..(2 - 1) : P(j)) <=> P(1)
             /\ (\A j \in 1..(3 - 1) : P(j)) <=> P(1) /\ P(2)
             /\ (\A j \in 1..(4 - 1) : P(j)) <=> P(1) /\ P(2) /\ P(3)
  OBVIOUS
<1> DEFINE L(i) == a[i] < c[i] /\ \A j \in 1..(i - 1) : a[j] = c[j]
<1>2. /\ L(1) <=> a[1] < c[1]
      /\ L(2) <=> a[1] = c[1] /\ a[2] < c[2]
      /\ L(3) <=> a[1] = c[1] /\ a[2] = c[2] /\ a[3] < c[3]
      /\ L(4) <=> a[1] = c[1] /\ a[2] = c[2] /\ a[3] = c[3] /\ a[4] < c[4]
  OBVIOUS
<1>3. Precedes(a, c) <=> \E i \in 1..4 : L(i)
  BY DEF Precedes
<1> HIDE DEF L
<1>4. (\E i \in 1..4 : L(i)) <=> L(1) \/ L(2) \/ L(3) \/ L(4)
  OBVIOUS
<1>5. QED
  BY <1>2, <1>3, <1>4

\* Two edges neither of which precedes the other are the same edge.
LEMMA PrecedesTotal ==
    ASSUME NEW a \in Edges, NEW c \in Edges
    PROVE  Precedes(a, c) \/ Precedes(c, a) \/ a = c
BY EdgeParts, PrecedesIs

\* Precedes is a strict order.
LEMMA PrecedesStrict ==
    ASSUME NEW a \in Edges, NEW c \in Edges, NEW d \in Edges
    PROVE  /\ ~Precedes(a, a)
           /\ Precedes(a, c) /\ Precedes(c, d) => Precedes(a, d)
BY EdgeParts, PrecedesIs

\* What a multiset difference is made of.
IsDiff(d) == \E a, r \in Seq(Edges) : d = [added |-> a, removed |-> r]

\* The parts of a difference.
LEMMA DiffParts ==
    ASSUME NEW d, NEW a \in Seq(Edges), NEW r \in Seq(Edges),
           d = [added |-> a, removed |-> r]
    PROVE  IsDiff(d) /\ d.added = a /\ d.removed = r
BY DEF IsDiff

\* A difference with one more edge added or removed.
LEMMA DiffExtended ==
    ASSUME NEW d, NEW x, NEW a, NEW r, d = [added |-> a, removed |-> r]
    PROVE  /\ [d EXCEPT !.removed = <<x>> \o @] = [added |-> a, removed |-> <<x>> \o r]
           /\ [d EXCEPT !.added = <<x>> \o @] = [added |-> <<x>> \o a, removed |-> r]
<1>1. ASSUME NEW y
      PROVE  /\ [d EXCEPT !.removed = y] = [added |-> a, removed |-> y]
             /\ [d EXCEPT !.added = y] = [added |-> y, removed |-> r]
  OBVIOUS
<1>2. d.removed = r /\ d.added = a
  OBVIOUS
<1>3. /\ [d EXCEPT !.removed = <<x>> \o @] = [d EXCEPT !.removed = <<x>> \o r]
      /\ [d EXCEPT !.added = <<x>> \o @] = [d EXCEPT !.added = <<x>> \o a]
  BY <1>2
<1>4. QED
  BY <1>1, <1>3

\* CountsAreNat, for every start.
LEMMA CountsFromAreNat ==
    ASSUME NEW S, NEW s \in Seq(S), NEW e
    PROVE  /\ Count(s, e) \in Nat
           /\ \A i \in Nat : CountFrom(s, i, e) \in Nat
<1>1. ASSUME NEW i \in Nat
      PROVE  CountFrom(s, i, e) \in Nat
  BY CountsAreNat
<1>2. QED
  BY <1>1, CountsAreNat

\* By induction on the distance to the end: what the walk from <<i, j>> finds
\* removed and added accounts for what is left of the two lists.
LEMMA WalkCounts ==
    ASSUME NEW old \in Seq(Edges), NEW new \in Seq(Edges), NEW w,
           Walked(w, old, new), NEW e
    PROVE  /\ IsDiff(w[<<1, 1>>])
           /\ Count(new, e) + Count(w[<<1, 1>>].removed, e) =
                Count(old, e) + Count(w[<<1, 1>>].added, e)
<1> DEFINE Good(i, j) ==
               /\ IsDiff(w[<<i, j>>])
               /\ CountFrom(new, j, e) + Count(w[<<i, j>>].removed, e) =
                    CountFrom(old, i, e) + Count(w[<<i, j>>].added, e)
           S == {n \in Nat : \A i \in 1..(Len(old) + 1), j \in 1..(Len(new) + 1) :
                                Left(old, new, <<i, j>>) <= n => Good(i, j)}
<1>1. ASSUME NEW i \in 1..(Len(old) + 1), NEW j \in 1..(Len(new) + 1),
             \A k \in 1..(Len(old) + 1), m \in 1..(Len(new) + 1) :
               Left(old, new, <<k, m>>) < Left(old, new, <<i, j>>) => Good(k, m)
      PROVE  Good(i, j)
  <2>1. w[<<i, j>>] = Merge(w, old, new, i, j)
    BY BoardStep DEF Walked
  <2>2. /\ CountFrom(new, j, e) \in Nat /\ CountFrom(old, i, e) \in Nat
        /\ CountFrom(new, j + 1, e) \in Nat /\ CountFrom(old, i + 1, e) \in Nat
        /\ \A s \in Seq(Edges) : Count(s, e) \in Nat
        /\ Count(<<>>, e) = 0 /\ <<>> \in Seq(Edges)
    <3>1. {k \in DOMAIN <<>> : <<>>[k] = e} = {}
      OBVIOUS
    <3>2. Count(<<>>, e) = 0 /\ <<>> \in Seq(Edges)
      BY <3>1, FS_EmptySet DEF Count
    <3>3. i \in Nat /\ j \in Nat /\ i + 1 \in Nat /\ j + 1 \in Nat
      OBVIOUS
    <3>4. \A s \in Seq(Edges) : Count(s, e) \in Nat
      BY CountsFromAreNat
    <3>5. /\ CountFrom(new, j, e) \in Nat /\ CountFrom(old, i, e) \in Nat
          /\ CountFrom(new, j + 1, e) \in Nat /\ CountFrom(old, i + 1, e) \in Nat
      BY <3>3, CountsFromAreNat
    <3>6. QED
      BY <3>2, <3>4, <3>5
  <2>3. CASE i > Len(old)
    <3>1. w[<<i, j>>] = [added |-> SubSeq(new, j, Len(new)), removed |-> <<>>]
      BY <2>1, <2>3 DEF Merge
    <3>2. /\ SubSeq(new, j, Len(new)) \in Seq(Edges)
          /\ Count(SubSeq(new, j, Len(new)), e) = CountFrom(new, j, e)
      BY CountSubSeq
    <3>3. CountFrom(old, i, e) = 0
      BY <2>3, CountPastEnd
    <3>4. /\ IsDiff(w[<<i, j>>])
          /\ w[<<i, j>>].added = SubSeq(new, j, Len(new)) /\ w[<<i, j>>].removed = <<>>
      BY <2>2, <3>1, <3>2, DiffParts
    <3>5. CountFrom(new, j, e) + Count(<<>>, e) =
            CountFrom(old, i, e) + Count(SubSeq(new, j, Len(new)), e)
      BY <2>2, <3>2, <3>3
    <3>6. QED
      BY <3>4, <3>5
  <2>4. CASE ~(i > Len(old)) /\ j > Len(new)
    <3>1. w[<<i, j>>] = [added |-> <<>>, removed |-> SubSeq(old, i, Len(old))]
      BY <2>1, <2>4 DEF Merge
    <3>2. /\ SubSeq(old, i, Len(old)) \in Seq(Edges)
          /\ Count(SubSeq(old, i, Len(old)), e) = CountFrom(old, i, e)
      BY CountSubSeq
    <3>3. CountFrom(new, j, e) = 0
      BY <2>4, CountPastEnd
    <3>4. /\ IsDiff(w[<<i, j>>])
          /\ w[<<i, j>>].added = <<>> /\ w[<<i, j>>].removed = SubSeq(old, i, Len(old))
      <4> DEFINE r == SubSeq(old, i, Len(old))
                 d == w[<<i, j>>]
      <4>1. d = [added |-> <<>>, removed |-> r] /\ r \in Seq(Edges)
        BY <3>1, <3>2
      <4> HIDE DEF r, d
      <4>2. IsDiff(d) /\ d.added = <<>> /\ d.removed = r
        BY <2>2, <4>1, DiffParts
      <4>3. QED
        BY <4>2 DEF r, d
    <3>5. CountFrom(new, j, e) + Count(SubSeq(old, i, Len(old)), e) =
            CountFrom(old, i, e) + Count(<<>>, e)
      BY <2>2, <3>2, <3>3
    <3>6. QED
      BY <3>4, <3>5
  <2>5. CASE ~(i > Len(old)) /\ ~(j > Len(new))
    <3>0. i <= Len(old) /\ j <= Len(new)
      BY <2>5
    <3> DEFINE x == IF old[i] = e THEN 1 ELSE 0
               y == IF new[j] = e THEN 1 ELSE 0
    <3>x. x \in Nat /\ y \in Nat
      OBVIOUS
    <3>1. /\ old[i] \in Edges /\ new[j] \in Edges
          /\ i \in 1..Len(old) /\ j \in 1..Len(new)
      BY <2>5
    <3>2. /\ CountFrom(old, i, e) =
               CountFrom(old, i + 1, e) + x
          /\ CountFrom(new, j, e) =
               CountFrom(new, j + 1, e) + y
      BY <3>1, CountNext
    <3>3. CASE Precedes(old[i], new[j])
      <4>1. Good(i + 1, j)
        BY <1>1, <3>0, BoardStep
      <4>2. PICK a \in Seq(Edges), r \in Seq(Edges) :
              w[<<i + 1, j>>] = [added |-> a, removed |-> r]
        BY <4>1 DEF IsDiff
      <4>3. w[<<i, j>>] = [added |-> a, removed |-> <<old[i]>> \o r]
        <5>1. w[<<i, j>>] = [w[<<i + 1, j>>] EXCEPT !.removed = <<old[i]>> \o @]
          BY <2>1, <2>5, <3>3 DEF Merge
        <5> DEFINE d == w[<<i + 1, j>>]
        <5>2. d = [added |-> a, removed |-> r]
          BY <4>2
        <5>3. w[<<i, j>>] = [d EXCEPT !.removed = <<old[i]>> \o @]
          BY <5>1
        <5> HIDE DEF d
        <5>4. QED
          BY <5>2, <5>3, DiffExtended
      <4>4. /\ <<old[i]>> \o r \in Seq(Edges)
            /\ Count(<<old[i]>> \o r, e) = Count(r, e) + x
        BY <3>1, CountCons
      <4>5. CountFrom(new, j, e) + Count(r, e) =
              CountFrom(old, i + 1, e) + Count(a, e)
        BY <4>1, <4>2
      <4>6. /\ IsDiff(w[<<i, j>>])
            /\ w[<<i, j>>].added = a /\ w[<<i, j>>].removed = <<old[i]>> \o r
        <5> DEFINE d == w[<<i, j>>]
                   b == a
                   q == <<old[i]>> \o r
        <5>1. d = [added |-> b, removed |-> q] /\ b \in Seq(Edges) /\ q \in Seq(Edges)
          BY <4>2, <4>3, <4>4
        <5> HIDE DEF d, b, q
        <5>2. IsDiff(d) /\ d.added = b /\ d.removed = q
          BY <5>1, DiffParts
        <5>3. QED
          BY <5>2 DEF d, b, q
      <4>7. Count(a, e) \in Nat /\ Count(r, e) \in Nat
        BY <2>2
      <4>8. CountFrom(new, j, e) + Count(<<old[i]>> \o r, e) =
              CountFrom(old, i, e) + Count(a, e)
        <5> DEFINE n0 == CountFrom(new, j, e)
                   n1 == CountFrom(new, j + 1, e)
                   o0 == CountFrom(old, i, e)
                   o1 == CountFrom(old, i + 1, e)
                   ca == Count(a, e)
                   cr == Count(r, e)
                   cx == Count(<<old[i]>> \o r, e)
        <5>1. /\ n0 \in Nat /\ n1 \in Nat /\ o0 \in Nat /\ o1 \in Nat
              /\ ca \in Nat /\ cr \in Nat
          BY <2>2, <4>7
        <5>2. n0 = n1 + y /\ o0 = o1 + x
          BY <3>2
        <5>3. cx = cr + x
          BY <4>4
        <5>4. n0 + cr = o1 + ca
          BY <4>5
        <5> HIDE DEF n0, n1, o0, o1, ca, cr, x, y, cx
        <5>5. n0 + cx = o0 + ca
          BY <3>x, <5>1, <5>2, <5>3, <5>4
        <5>6. QED
          BY <5>5 DEF n0, n1, o0, o1, ca, cr, cx
      <4>9. QED
        BY <4>6, <4>8
    <3>4. CASE ~Precedes(old[i], new[j]) /\ Precedes(new[j], old[i])
      <4>1. Good(i, j + 1)
        BY <1>1, <3>0, BoardStep
      <4>2. PICK a \in Seq(Edges), r \in Seq(Edges) :
              w[<<i, j + 1>>] = [added |-> a, removed |-> r]
        BY <4>1 DEF IsDiff
      <4>3. w[<<i, j>>] = [added |-> <<new[j]>> \o a, removed |-> r]
        <5>1. w[<<i, j>>] = [w[<<i, j + 1>>] EXCEPT !.added = <<new[j]>> \o @]
          BY <2>1, <2>5, <3>4 DEF Merge
        <5> DEFINE d == w[<<i, j + 1>>]
        <5>2. d = [added |-> a, removed |-> r]
          BY <4>2
        <5>3. w[<<i, j>>] = [d EXCEPT !.added = <<new[j]>> \o @]
          BY <5>1
        <5> HIDE DEF d
        <5>4. QED
          BY <5>2, <5>3, DiffExtended
      <4>4. /\ <<new[j]>> \o a \in Seq(Edges)
            /\ Count(<<new[j]>> \o a, e) = Count(a, e) + y
        BY <3>1, CountCons
      <4>5. CountFrom(new, j + 1, e) + Count(r, e) =
              CountFrom(old, i, e) + Count(a, e)
        BY <4>1, <4>2
      <4>6. /\ IsDiff(w[<<i, j>>])
            /\ w[<<i, j>>].added = <<new[j]>> \o a /\ w[<<i, j>>].removed = r
        <5> DEFINE d == w[<<i, j>>]
                   b == <<new[j]>> \o a
                   q == r
        <5>1. d = [added |-> b, removed |-> q] /\ b \in Seq(Edges) /\ q \in Seq(Edges)
          BY <4>2, <4>3, <4>4
        <5> HIDE DEF d, b, q
        <5>2. IsDiff(d) /\ d.added = b /\ d.removed = q
          BY <5>1, DiffParts
        <5>3. QED
          BY <5>2 DEF d, b, q
      <4>7. Count(a, e) \in Nat /\ Count(r, e) \in Nat
        BY <2>2
      <4>8. CountFrom(new, j, e) + Count(r, e) =
              CountFrom(old, i, e) + Count(<<new[j]>> \o a, e)
        <5> DEFINE n0 == CountFrom(new, j, e)
                   n1 == CountFrom(new, j + 1, e)
                   o0 == CountFrom(old, i, e)
                   o1 == CountFrom(old, i + 1, e)
                   ca == Count(a, e)
                   cr == Count(r, e)
                   cx == Count(<<new[j]>> \o a, e)
        <5>1. /\ n0 \in Nat /\ n1 \in Nat /\ o0 \in Nat /\ o1 \in Nat
              /\ ca \in Nat /\ cr \in Nat
          BY <2>2, <4>7
        <5>2. n0 = n1 + y /\ o0 = o1 + x
          BY <3>2
        <5>3. cx = ca + y
          BY <4>4
        <5>4. n1 + cr = o0 + ca
          BY <4>5
        <5> HIDE DEF n0, n1, o0, o1, ca, cr, x, y, cx
        <5>5. n0 + cr = o0 + cx
          BY <3>x, <5>1, <5>2, <5>3, <5>4
        <5>6. QED
          BY <5>5 DEF n0, n1, o0, o1, ca, cr, cx
      <4>9. QED
        BY <4>6, <4>8
    <3>5. CASE ~Precedes(old[i], new[j]) /\ ~Precedes(new[j], old[i])
      <4>1. Good(i + 1, j + 1)
        BY <1>1, <3>0, BoardStep
      <4>2. PICK a \in Seq(Edges), r \in Seq(Edges) :
              w[<<i + 1, j + 1>>] = [added |-> a, removed |-> r]
        BY <4>1 DEF IsDiff
      <4>3. w[<<i, j>>] = [added |-> a, removed |-> r]
        BY <2>1, <2>5, <3>5, <4>2 DEF Merge
      <4>4. x = y
        <5>1. old[i] = new[j]
          BY <3>1, <3>5, PrecedesTotal
        <5>2. QED
          BY <5>1
      <4>5. CountFrom(new, j + 1, e) + Count(r, e) =
              CountFrom(old, i + 1, e) + Count(a, e)
        BY <4>1, <4>2
      <4>6. /\ IsDiff(w[<<i, j>>])
            /\ w[<<i, j>>].added = a /\ w[<<i, j>>].removed = r
        BY <4>3, DiffParts
      <4>7. Count(a, e) \in Nat /\ Count(r, e) \in Nat
        BY <2>2
      <4>8. CountFrom(new, j, e) + Count(r, e) =
              CountFrom(old, i, e) + Count(a, e)
        <5> DEFINE n0 == CountFrom(new, j, e)
                   n1 == CountFrom(new, j + 1, e)
                   o0 == CountFrom(old, i, e)
                   o1 == CountFrom(old, i + 1, e)
                   ca == Count(a, e)
                   cr == Count(r, e)
        <5>1. /\ n0 \in Nat /\ n1 \in Nat /\ o0 \in Nat /\ o1 \in Nat
              /\ ca \in Nat /\ cr \in Nat
          BY <2>2, <4>7
        <5>2. n0 = n1 + y /\ o0 = o1 + x
          BY <3>2
        <5>3. x = y
          BY <4>4
        <5>4. n1 + cr = o1 + ca
          BY <4>5
        <5> HIDE DEF n0, n1, o0, o1, ca, cr, x, y
        <5>5. n0 + cr = o0 + ca
          BY <3>x, <5>1, <5>2, <5>3, <5>4
        <5>6. QED
          BY <5>5 DEF n0, n1, o0, o1, ca, cr
      <4>9. QED
        BY <4>6, <4>8
    <3>6. QED
      BY <3>3, <3>4, <3>5
  <2>6. QED
    BY <2>3, <2>4, <2>5
<1> HIDE DEF Good
<1>2. \A i \in 1..(Len(old) + 1), j \in 1..(Len(new) + 1) :
        Left(old, new, <<i, j>>) \in Nat
  BY BoardStep
<1>3. 0 \in S
  BY <1>1, <1>2
<1>4. ASSUME NEW n \in Nat, n \in S
      PROVE  n + 1 \in S
  <2>1. ASSUME NEW i \in 1..(Len(old) + 1), NEW j \in 1..(Len(new) + 1),
               Left(old, new, <<i, j>>) <= n + 1
        PROVE  Good(i, j)
    <3>1. \A k \in 1..(Len(old) + 1), m \in 1..(Len(new) + 1) :
            Left(old, new, <<k, m>>) < Left(old, new, <<i, j>>) => Good(k, m)
      BY <1>2, <1>4, <2>1
    <3>2. QED
      BY <1>1, <3>1
  <2>2. QED
    BY <2>1
<1> HIDE DEF S
<1>5. \A n \in Nat : n \in S
  BY <1>3, <1>4, SetInduction
<1>6. Good(1, 1)
  <2>1. 1 \in 1..(Len(old) + 1) /\ 1 \in 1..(Len(new) + 1)
    OBVIOUS
  <2>2. Left(old, new, <<1, 1>>) \in Nat
    BY <1>2, <2>1
  <2>3. QED
    BY <1>5, <2>1, <2>2 DEF S
<1>7. Count(new, e) = CountFrom(new, 1, e) /\ Count(old, e) = CountFrom(old, 1, e)
  BY CountIsFromOne
<1>8. QED
  BY <1>6, <1>7 DEF Good

-----------------------------------------------------------------------------
(* Tallies: multisets of edges.                                            *)

\* A tally counts occurrences.
LEMMA TalliesCount ==
    ASSUME NEW s \in Seq(Edges), NEW e
    PROVE  /\ Times(Tally(s), e) = Count(s, e)
           /\ Count(s, e) \in Nat
           /\ e \in DOMAIN Tally(s) <=> Count(s, e) # 0
           /\ e \in DOMAIN Tally(s) => Tally(s)[e] = Count(s, e)
<1> DEFINE K == {k \in DOMAIN s : s[k] = e}
<1>1. IsFiniteSet(K) /\ Cardinality(K) \in Nat
  BY CountsAreNat DEF Count
<1>2. e \in DOMAIN Tally(s) <=> K # {}
  BY DEF Tally
<1>3. K # {} <=> Cardinality(K) # 0
  <2> HIDE DEF K
  <2>1. QED
    BY <1>1, FS_EmptySet
<1>4. e \in DOMAIN Tally(s) => Tally(s)[e] = Count(s, e)
  BY DEF Tally, Count
<1>5. QED
  BY <1>1, <1>2, <1>3, <1>4 DEF Count, Times

\* Lists with the same counts have the same tally.
LEMMA TalliesAgree ==
    ASSUME NEW s \in Seq(Edges), NEW t \in Seq(Edges),
           \A e : Count(s, e) = Count(t, e)
    PROVE  Tally(s) = Tally(t)
<1>1. \A e : e \in DOMAIN Tally(s) <=> e \in DOMAIN Tally(t)
  BY TalliesCount
<1>2. DOMAIN Tally(s) = DOMAIN Tally(t)
  BY <1>1
<1>3. \A e \in DOMAIN Tally(s) : Tally(s)[e] = Tally(t)[e]
  BY <1>2, TalliesCount
<1>4. /\ Tally(s) = [e \in DOMAIN Tally(s) |-> Tally(s)[e]]
      /\ Tally(t) = [e \in DOMAIN Tally(t) |-> Tally(t)[e]]
  BY DEF Tally
<1>5. QED
  BY <1>2, <1>3, <1>4

\* The merge walk of two lists of edges nets their multisets out, whatever
\* order the lists are in.
LEMMA DiffCounts ==
    ASSUME NEW old \in Seq(Edges), NEW new \in Seq(Edges)
    PROVE  \E a, r \in Seq(Edges) :
             /\ EdgeMultisetDiff(old, new) = [added |-> a, removed |-> r]
             /\ \A e : Count(new, e) + Count(r, e) = Count(old, e) + Count(a, e)
<1> DEFINE w == CHOOSE w : Walked(w, old, new)
           d == w[<<1, 1>>]
<1>1. Walked(w, old, new)
  BY WalkExists
<1>2. EdgeMultisetDiff(old, new) = d
  BY DiffIsWalk
<1> HIDE DEF w
<1>3. IsDiff(d)
  BY <1>1, WalkCounts
<1>4. \A e : Count(new, e) + Count(d.removed, e) = Count(old, e) + Count(d.added, e)
  BY <1>1, WalkCounts
<1> HIDE DEF d
<1>5. PICK a \in Seq(Edges), r \in Seq(Edges) : d = [added |-> a, removed |-> r]
  BY <1>3 DEF IsDiff
<1>6. d.added = a /\ d.removed = r
  BY <1>5
<1>7. QED
  BY <1>2, <1>4, <1>5, <1>6

\* What the multiset difference adds to and removes from the tally of the old
\* edges makes the tally of the new ones; an empty difference changes nothing.
LEMMA EdgesAddUp ==
    ASSUME NEW old \in Seq(Edges), NEW new \in Seq(Edges)
    PROVE  LET d == EdgeMultisetDiff(old, new)
           IN  /\ ApplyTally(Tally(old), d.added, d.removed) = Tally(new)
               /\ d.added = <<>> /\ d.removed = <<>> => Tally(old) = Tally(new)
<1>1. PICK a \in Seq(Edges), r \in Seq(Edges) :
        /\ EdgeMultisetDiff(old, new) = [added |-> a, removed |-> r]
        /\ \A e : Count(new, e) + Count(r, e) = Count(old, e) + Count(a, e)
  BY DiffCounts
<1> DEFINE n(e) == (Times(Tally(old), e) + Times(Tally(a), e)) - Times(Tally(r), e)
           known == DOMAIN Tally(old) \cup DOMAIN Tally(a) \cup DOMAIN Tally(r)
           T == ApplyTally(Tally(old), a, r)
<1>2. \A e : n(e) = Count(new, e) /\ Count(new, e) \in Nat
  <2>1. SUFFICES ASSUME NEW e PROVE n(e) = Count(new, e) /\ Count(new, e) \in Nat
    OBVIOUS
  <2>2. /\ Times(Tally(old), e) = Count(old, e) /\ Times(Tally(a), e) = Count(a, e)
        /\ Times(Tally(r), e) = Count(r, e)
        /\ Count(old, e) \in Nat /\ Count(a, e) \in Nat /\ Count(r, e) \in Nat
        /\ Count(new, e) \in Nat
    BY TalliesCount
  <2>3. Count(new, e) + Count(r, e) = Count(old, e) + Count(a, e)
    BY <1>1
  <2>4. QED
    BY <2>2, <2>3
<1>3. \A e : Count(new, e) # 0 => e \in known
  <2>1. SUFFICES ASSUME NEW e, e \notin known PROVE Count(new, e) = 0
    OBVIOUS
  <2>2. Count(old, e) = 0 /\ Count(a, e) = 0 /\ Count(r, e) \in Nat /\ Count(new, e) \in Nat
    BY <2>1, TalliesCount
  <2>3. Count(new, e) + Count(r, e) = Count(old, e) + Count(a, e)
    BY <1>1
  <2>4. QED
    BY <2>2, <2>3
<1>4. T = [e \in {x \in known : n(x) # 0} |-> n(e)]
  BY DEF ApplyTally
<1>5. Tally(new) = [e \in DOMAIN Tally(new) |-> Tally(new)[e]]
  BY DEF Tally
<1>6. \A e : /\ e \in DOMAIN Tally(new) <=> Count(new, e) # 0
             /\ e \in DOMAIN Tally(new) => Tally(new)[e] = Count(new, e)
  BY TalliesCount
<1>7. T = Tally(new)
  <2> HIDE DEF n, known, T
  <2>1. {x \in known : n(x) # 0} = DOMAIN Tally(new)
    BY <1>2, <1>3, <1>6
  <2>2. \A e \in DOMAIN Tally(new) : n(e) = Tally(new)[e]
    BY <1>2, <1>6
  <2>3. QED
    BY <1>4, <1>5, <2>1, <2>2
<1>8. ASSUME a = <<>>, r = <<>>
      PROVE  Tally(old) = Tally(new)
  <2>1. ASSUME NEW e
        PROVE  Count(old, e) = Count(new, e)
    <3>1. {k \in DOMAIN <<>> : <<>>[k] = e} = {}
      OBVIOUS
    <3>2. Count(<<>>, e) = 0
      BY <3>1, FS_EmptySet DEF Count
    <3>3. Count(old, e) \in Nat /\ Count(new, e) \in Nat
      BY TalliesCount
    <3>4. Count(new, e) + Count(r, e) = Count(old, e) + Count(a, e)
      BY <1>1
    <3>5. QED
      BY <1>8, <3>2, <3>3, <3>4
  <2>2. QED
    BY <2>1, TalliesAgree
<1>9. /\ EdgeMultisetDiff(old, new).added = a
      /\ EdgeMultisetDiff(old, new).removed = r
  BY <1>1
<1>10. QED
  BY <1>7, <1>8, <1>9

-----------------------------------------------------------------------------
(* The sorted edges are a list of edges.                                   *)

\* The edge of a resolved link.
EdgeAt(base, r) == EdgeOf(r[1], LinkOf(base, r))

\* The resolved links that sort before r.
Below(base, r) ==
    {q \in Resolved(base) : \/ Precedes(EdgeAt(base, q), EdgeAt(base, r))
                            \/ EdgeAt(base, q) = EdgeAt(base, r) /\ q[2] < r[2]}

\* SortedEdges lists the resolved links by rank.
LEMMA SortedIs ==
    ASSUME NEW base
    PROVE  SortedEdges(base) =
             [n \in 1..Cardinality(Resolved(base)) |->
                EdgeAt(base, CHOOSE r \in Resolved(base) :
                               Cardinality(Below(base, r)) = n - 1)]
BY DEF SortedEdges, EdgeAt, Below

\* A resolved link is a file and the place of a link in it.
LEMMA ResolvedParts ==
    ASSUME NEW base \in KnowledgeBases, NEW r \in Resolved(base)
    PROVE  /\ r = <<r[1], r[2]>> /\ r[1] \in Files /\ r[2] \in Nat
           /\ r[2] \in DOMAIN Of(base, r[1]).links
           /\ Of(base, r[1]) \in FileMeaning
           /\ EdgeAt(base, r) \in Edges
           /\ EdgeAt(base, r)[1] = r[1]
<1>1. PICK f \in GraphNodes(base), i \in UNION {DOMAIN Meaning[c].links : c \in Contents} :
        r = <<f, i>>
  BY DEF Resolved
<1>2. /\ f \in Files /\ base[f] \in Contents
  BY <1>1 DEF GraphNodes, Catalog, KnowledgeBases
<1>3. Of(base, f) \in FileMeaning
  BY <1>2, DeltasAssumption DEF Of
<1>4. i \in DOMAIN Of(base, f).links /\ Of(base, f).links[i].to \in GraphNodes(base)
  BY <1>1 DEF Resolved
<1> DEFINE Link == [to : Files, surface : Surfaces, slot : BOOLEAN]
           ls == Of(base, f).links
<1>5. ls \in Seq(Link)
  BY <1>3 DEF FileMeaning
<1>6. ls[i] \in Link /\ i \in Nat
  <2> HIDE DEF Link, ls
  <2>1. i \in DOMAIN ls
    BY <1>4 DEF ls
  <2>2. QED
    BY <1>5, <2>1
<1>7. ls[i].to \in Files /\ ls[i].surface \in Surfaces /\ ls[i].slot \in BOOLEAN
  BY <1>6
<1>8. EdgeKind(ls[i]) \in {0, 1, 2}
  BY DEF EdgeKind
<1>9. EdgeAt(base, r) = <<f, ls[i].to, EdgeKind(ls[i]), ls[i].surface>>
  BY <1>1 DEF EdgeAt, EdgeOf, LinkOf
<1>10. EdgeAt(base, r) \in Edges
  <2> HIDE DEF ls
  <2>1. QED
    BY <1>2, <1>7, <1>8, <1>9 DEF Edges
<1>11. r[1] = f /\ r[2] = i
  BY <1>1
<1>12. EdgeAt(base, r)[1] = f
  BY <1>9
<1>13. QED
  BY <1>1, <1>2, <1>3, <1>4, <1>6, <1>10, <1>11, <1>12
\* Finitely many links resolve.
LEMMA ResolvedFinite ==
    ASSUME NEW base \in KnowledgeBases
    PROVE  IsFiniteSet(Resolved(base))
<1> DEFINE G == GraphNodes(base)
           at == [f \in G |-> {f} \X DOMAIN Of(base, f).links]
           T == {at[f] : f \in G}
<1>1. IsFiniteSet(G)
  BY DeltasAssumption, FS_Subset DEF GraphNodes, Catalog
<1>2. ASSUME NEW f \in G
      PROVE  IsFiniteSet(at[f])
  <2>1. /\ f \in Files /\ base[f] \in Contents
    BY DEF GraphNodes, Catalog, KnowledgeBases
  <2>2. Of(base, f) \in FileMeaning
    BY <2>1, DeltasAssumption DEF Of
  <2>3. PICK L : Of(base, f).links \in Seq(L)
    BY <2>2 DEF FileMeaning
  <2>4. /\ DOMAIN Of(base, f).links = 1..Len(Of(base, f).links)
        /\ Len(Of(base, f).links) \in Nat
    BY <2>3
  <2>5. IsFiniteSet(DOMAIN Of(base, f).links)
    <3> DEFINE n == Len(Of(base, f).links)
    <3>1. n \in Int /\ 1 \in Int /\ DOMAIN Of(base, f).links = 1..n
      BY <2>4
    <3> HIDE DEF n
    <3>2. IsFiniteSet(1..n)
      BY <3>1, FS_Interval
    <3>3. QED
      BY <3>1, <3>2
  <2>6. IsFiniteSet({f})
    BY FS_Singleton
  <2>7. at[f] = {f} \X DOMAIN Of(base, f).links
    OBVIOUS
  <2>8. QED
    BY <2>5, <2>6, <2>7, FS_Product
<1>3. at \in Surjection(G, T)
  <2>1. at \in [G -> T] /\ \A t \in T : \E f \in G : at[f] = t
    OBVIOUS
  <2> HIDE DEF at, T
  <2>2. QED
    BY <2>1, Fun_IsSurj
<1>4. IsFiniteSet(T)
  <2> HIDE DEF G, at, T
  <2>1. QED
    BY <1>1, <1>3, FS_Surjection
<1>5. IsFiniteSet(UNION T)
  <2>1. \A t \in T : IsFiniteSet(t)
    BY <1>2
  <2> HIDE DEF T
  <2>2. QED
    BY <1>4, <2>1, FS_UNION
<1>6. Resolved(base) \subseteq UNION T
  <2>1. SUFFICES ASSUME NEW r \in Resolved(base) PROVE r \in UNION T
    OBVIOUS
  <2>2. r = <<r[1], r[2]>> /\ r[1] \in G /\ r[2] \in DOMAIN Of(base, r[1]).links
    BY DEF Resolved
  <2>3. r \in at[r[1]]
    BY <2>2
  <2>4. QED
    BY <2>2, <2>3
<1>7. QED
  BY <1>5, <1>6, FS_Subset

\* The resolved links are strictly and totally ordered.
LEMMA BelowIsOrder ==
    ASSUME NEW base \in KnowledgeBases
    PROVE  /\ \A r \in Resolved(base) : r \notin Below(base, r)
           /\ \A q, r \in Resolved(base) :
                /\ q # r => q \in Below(base, r) \/ r \in Below(base, q)
                /\ q \in Below(base, r) => Below(base, q) \subseteq Below(base, r)
<1>1. \A r \in Resolved(base) :
        EdgeAt(base, r) \in Edges /\ r[2] \in Int /\ r = <<r[1], r[2]>>
          /\ EdgeAt(base, r)[1] = r[1]
  BY ResolvedParts
<1>2. ASSUME NEW r \in Resolved(base)
      PROVE  r \notin Below(base, r)
  BY <1>1, PrecedesStrict DEF Below
<1>3. ASSUME NEW q \in Resolved(base), NEW r \in Resolved(base), q # r
      PROVE  q \in Below(base, r) \/ r \in Below(base, q)
  <2>1. CASE EdgeAt(base, q) = EdgeAt(base, r)
    <3>1. q[1] = r[1]
      BY <1>1, <2>1
    <3>2. q[2] # r[2]
      BY <1>1, <1>3, <3>1
    <3>3. q[2] < r[2] \/ r[2] < q[2]
      BY <1>1, <3>2
    <3>4. QED
      BY <2>1, <3>3 DEF Below
  <2>2. CASE EdgeAt(base, q) # EdgeAt(base, r)
    BY <1>1, <2>2, PrecedesTotal DEF Below
  <2>3. QED
    BY <2>1, <2>2
<1>4. ASSUME NEW q \in Resolved(base), NEW r \in Resolved(base), q \in Below(base, r),
             NEW p \in Below(base, q)
      PROVE  p \in Below(base, r)
  <2>1. p \in Resolved(base)
    BY DEF Below
  <2> DEFINE a == EdgeAt(base, p)
             b == EdgeAt(base, q)
             c == EdgeAt(base, r)
  <2>2. /\ Precedes(a, b) \/ (a = b /\ p[2] < q[2])
        /\ Precedes(b, c) \/ (b = c /\ q[2] < r[2])
    BY <1>4 DEF Below
  <2>3. a \in Edges /\ b \in Edges /\ c \in Edges
    BY <1>1, <2>1
  <2>4. p[2] \in Int /\ q[2] \in Int /\ r[2] \in Int
    BY <1>1, <2>1
  <2>5. p[2] < q[2] /\ q[2] < r[2] => p[2] < r[2]
    BY <2>4
  <2>6. Precedes(a, b) /\ Precedes(b, c) => Precedes(a, c)
    BY <2>3, PrecedesStrict
  <2>7. Precedes(a, c) \/ (a = c /\ p[2] < r[2])
    <3> HIDE DEF a, b, c
    <3>1. QED
      BY <2>2, <2>5, <2>6
  <2>8. QED
    BY <2>1, <2>7 DEF Below
<1>5. QED
  BY <1>2, <1>3, <1>4

\* Each rank below their number is taken by one link: ranks of a strict total
\* order differ, and as many different ranks as there are links leave none out.
LEMMA RanksAreTaken ==
    ASSUME NEW base \in KnowledgeBases, NEW n \in 1..Cardinality(Resolved(base))
    PROVE  \E r \in Resolved(base) : Cardinality(Below(base, r)) = n - 1
<1> DEFINE R == Resolved(base)
           N == Cardinality(R)
           B(r) == Below(base, r)
           rank == [r \in R |-> Cardinality(B(r))]
<1>1. IsFiniteSet(R) /\ N \in Nat
  BY ResolvedFinite, FS_CardinalityType
<1>2. ASSUME NEW r \in R
      PROVE  /\ IsFiniteSet(B(r)) /\ Cardinality(B(r)) \in 0..(N - 1)
  <2>1. B(r) \subseteq R \ {r}
    BY BelowIsOrder DEF Below
  <2>2. IsFiniteSet(R \ {r}) /\ Cardinality(R \ {r}) = N - 1
    <3> HIDE DEF R
    <3>1. QED
      BY <1>1, FS_RemoveElement
  <2>3. IsFiniteSet(B(r)) /\ Cardinality(B(r)) <= N - 1
    <3> HIDE DEF R, B, N
    <3>1. QED
      BY <2>1, <2>2, FS_Subset
  <2>4. Cardinality(B(r)) \in Nat
    <3> HIDE DEF B
    <3>1. QED
      BY <2>3, FS_CardinalityType
  <2>5. QED
    <3> HIDE DEF R, B, N
    <3>1. QED
      BY <1>1, <2>3, <2>4
<1>3. ASSUME NEW q \in R, NEW r \in R, q \in B(r)
      PROVE  Cardinality(B(q)) # Cardinality(B(r))
  <2>1. B(q) \subseteq B(r) /\ B(q) # B(r)
    BY <1>3, BelowIsOrder
  <2>2. IsFiniteSet(B(r))
    BY <1>2
  <2> HIDE DEF B
  <2>3. QED
    BY <2>1, <2>2, FS_Subset
<1>4. ASSUME NEW q \in R, NEW r \in R, rank[q] = rank[r]
      PROVE  q = r
  <2>1. q # r => q \in B(r) \/ r \in B(q)
    BY BelowIsOrder
  <2>2. Cardinality(B(q)) = Cardinality(B(r))
    BY <1>4
  <2> HIDE DEF B, R
  <2>3. QED
    BY <1>3, <2>1, <2>2
<1>5. rank \in [R -> 0..(N - 1)]
  BY <1>2
<1>6. rank \in Injection(R, 0..(N - 1))
  <2> HIDE DEF rank, R, N
  <2>1. QED
    BY <1>4, <1>5, Fun_IsInj
<1>7. IsFiniteSet(0..(N - 1)) /\ Cardinality(0..(N - 1)) = N
  <2>1. 0 \in Int /\ N - 1 \in Int
    BY <1>1
  <2> HIDE DEF N
  <2>2. QED
    BY <1>1, <2>1, FS_Interval
<1>8. rank \in Surjection(R, 0..(N - 1))
  <2>1. N = Cardinality(R)
    OBVIOUS
  <2> HIDE DEF rank, R, N
  <2>2. QED
    BY <1>6, <1>7, <2>1, FS_Injection
<1>9. n - 1 \in 0..(N - 1)
  BY <1>1
<1>10. \E r \in R : rank[r] = n - 1
  <2> HIDE DEF rank, R, N
  <2>1. \A k \in 0..(N - 1) : \E r \in R : rank[r] = k
    BY <1>8 DEF Surjection
  <2>2. QED
    BY <1>9, <2>1
<1>11. QED
  BY <1>10

\* So the sorted edges of a knowledge base are a list of edges.
LEMMA SortedEdgesAreEdges ==
    ASSUME NEW base \in KnowledgeBases
    PROVE  SortedEdges(base) \in Seq(Edges)
<1>1. Cardinality(Resolved(base)) \in Nat
  BY ResolvedFinite, FS_CardinalityType
<1>2. ASSUME NEW n \in 1..Cardinality(Resolved(base))
      PROVE  EdgeAt(base, CHOOSE r \in Resolved(base) :
                            Cardinality(Below(base, r)) = n - 1) \in Edges
  BY RanksAreTaken, ResolvedParts
<1> DEFINE N == Cardinality(Resolved(base))
           edge(n) == EdgeAt(base, CHOOSE r \in Resolved(base) :
                                     Cardinality(Below(base, r)) = n - 1)
<1>3. SortedEdges(base) = [n \in 1..N |-> edge(n)]
  BY SortedIs
<1>4. \A n \in 1..N : edge(n) \in Edges
  BY <1>2
<1>5. N \in Nat
  BY <1>1
<1> HIDE DEF N, edge
<1>6. QED
  BY <1>3, <1>4, <1>5

-----------------------------------------------------------------------------
(* Maps.                                                                   *)

\* A function, be it of no entries.
IsMap(m) == m = [k \in DOMAIN m |-> m[k]]

\* The entries that are new or changed.
Moved(old, new) == (DOMAIN new \ DOMAIN old) \cup Changed(old, new)

\* The entries that are new or changed and the names that are gone make the new
\* map of the old one, and are none only when the maps are the same.
LEMMA MapsAddUp ==
    ASSUME NEW old, NEW new, IsMap(old), IsMap(new)
    PROVE  /\ ApplyMap(old, Restricted(new, Moved(old, new)), DOMAIN old \ DOMAIN new)
                = new
           /\ Restricted(new, Moved(old, new)) = <<>> /\ DOMAIN old \ DOMAIN new = {}
                => old = new
<1> DEFINE put == Restricted(new, Moved(old, new))
           gone == DOMAIN old \ DOMAIN new
           m == ApplyMap(old, put, gone)
<1>1. DOMAIN put = Moved(old, new) /\ \A k \in Moved(old, new) : put[k] = new[k]
  BY DEF Restricted
<1>2. m = [k \in (DOMAIN old \ gone) \cup Moved(old, new) |->
             IF k \in Moved(old, new) THEN put[k] ELSE old[k]]
  BY <1>1 DEF ApplyMap
<1>3. (DOMAIN old \ gone) \cup Moved(old, new) = DOMAIN new
  BY DEF Moved, Changed
<1>4. \A k \in DOMAIN new :
        (IF k \in Moved(old, new) THEN put[k] ELSE old[k]) = new[k]
  BY <1>1 DEF Moved, Changed
<1>5. m = new
  <2> HIDE DEF m, put, gone
  <2>1. QED
    BY <1>2, <1>3, <1>4 DEF IsMap
<1>6. ASSUME put = <<>>, gone = {}
      PROVE  old = new
  <2>1. DOMAIN <<>> = {}
    OBVIOUS
  <2>2. Moved(old, new) = {}
    <3> HIDE DEF put
    <3>1. QED
      BY <1>1, <1>6, <2>1
  <2>3. DOMAIN old = DOMAIN new /\ \A k \in DOMAIN old : old[k] = new[k]
    BY <1>6, <2>2 DEF Moved, Changed
  <2>4. QED
    BY <2>3 DEF IsMap
<1>7. QED
  BY <1>5, <1>6

\* The same of a list of paths, which has no entries to change.
LEMMA PathsAddUp ==
    ASSUME NEW old, NEW new
    PROVE  LET d == PathsDelta(old, new)
               kept(p) == [f \in DOMAIN p |-> TRUE]
           IN  /\ ApplyMap(kept(old), [f \in DOMAIN d.put |-> TRUE], d.gone) = kept(new)
               /\ d.put = <<>> /\ d.gone = {} => kept(old) = kept(new)
<1> DEFINE d == PathsDelta(old, new)
           kept(p) == [f \in DOMAIN p |-> TRUE]
<1>1. d.put = [k \in DOMAIN new \ DOMAIN old |-> new[k]]
      /\ d.gone = DOMAIN old \ DOMAIN new
  BY DEF PathsDelta, Restricted
<1>2. DOMAIN d.put = DOMAIN new \ DOMAIN old
  BY <1>1
<1>3. ApplyMap(kept(old), [f \in DOMAIN d.put |-> TRUE], d.gone) = kept(new)
  <2> DEFINE P == [f \in DOMAIN d.put |-> TRUE]
  <2>1. DOMAIN kept(old) = DOMAIN old /\ DOMAIN P = DOMAIN new \ DOMAIN old
    BY <1>2
  <2>2. ApplyMap(kept(old), P, d.gone) =
          [k \in (DOMAIN old \ d.gone) \cup (DOMAIN new \ DOMAIN old) |->
             IF k \in DOMAIN new \ DOMAIN old THEN P[k] ELSE kept(old)[k]]
    BY <2>1 DEF ApplyMap
  <2>3. (DOMAIN old \ d.gone) \cup (DOMAIN new \ DOMAIN old) = DOMAIN new
    BY <1>1
  <2>4. \A k \in DOMAIN new :
          (IF k \in DOMAIN new \ DOMAIN old THEN P[k] ELSE kept(old)[k]) = TRUE
    BY <1>2
  <2> DEFINE v(k) == IF k \in DOMAIN new \ DOMAIN old THEN P[k] ELSE kept(old)[k]
  <2>5. ApplyMap(kept(old), P, d.gone) = [k \in DOMAIN new |-> v(k)]
    BY <2>2, <2>3
  <2>6. \A k \in DOMAIN new : v(k) = TRUE
    BY <2>4
  <2>7. [k \in DOMAIN new |-> v(k)] = [k \in DOMAIN new |-> TRUE]
    <3> HIDE DEF v
    <3>1. QED
      BY <2>6
  <2>8. QED
    BY <2>5, <2>7
<1>4. ASSUME d.put = <<>>, d.gone = {}
      PROVE  kept(old) = kept(new)
  <2>1. DOMAIN <<>> = {}
    OBVIOUS
  <2>2. DOMAIN new \ DOMAIN old = {} /\ DOMAIN old \ DOMAIN new = {}
    BY <1>1, <1>2, <1>4, <2>1
  <2>3. DOMAIN old = DOMAIN new
    BY <2>2
  <2>4. QED
    BY <2>3
<1>5. QED
  BY <1>3, <1>4

\* What the projections are made of.
LEMMA ProjectionsAreMaps ==
    ASSUME NEW base
    PROVE  /\ IsMap(FilesSnapshot(base)) /\ IsMap(TypesSnapshot(base))
           /\ IsMap(DiagnosticsSnapshot(base))
           /\ IsMap(LinkGraphView(base).nodes)
           /\ IsMap(TypeGraphView(base).nodes) /\ IsMap(TypeGraphView(base).edges)
           /\ LinkGraphView(base) =
                [nodes |-> LinkGraphView(base).nodes, edges |-> SortedEdges(base)]
<1>1. IsMap(FilesSnapshot(base))
  BY DEF IsMap, FilesSnapshot
<1>2. IsMap(TypesSnapshot(base))
  BY DEF IsMap, TypesSnapshot, Introspection
<1>3. IsMap(DiagnosticsSnapshot(base))
  BY DEF IsMap, DiagnosticsSnapshot
<1>4. IsMap(LinkGraphView(base).nodes)
  BY DEF IsMap, LinkGraphView
<1>5. IsMap(TypeGraphView(base).nodes)
  BY DEF IsMap, TypeGraphView
<1>6. IsMap(TypeGraphView(base).edges)
  BY DEF IsMap, TypeGraphView, TypeGraphEdges
<1>7. LinkGraphView(base) =
        [nodes |-> LinkGraphView(base).nodes, edges |-> SortedEdges(base)]
  BY DEF LinkGraphView
<1>8. QED
  BY <1>1, <1>2, <1>3, <1>4, <1>5, <1>6, <1>7

\* A diagnostics delta names files, and says by their absence from the new
\* snapshot which are clear; that is the difference of two maps.
LEMMA DiagnosticsIsMapDelta ==
    ASSUME NEW old, NEW new
    PROVE  DiagnosticsDelta(old, new) =
             [put |-> Restricted(new, Moved(old, new)), gone |-> DOMAIN old \ DOMAIN new]
<1> DEFINE names == ChangedFiles(old, new)
<1>1. names \cap DOMAIN new = Moved(old, new)
  BY DEF ChangedFiles, Moved, Changed
<1>2. names \ DOMAIN new = DOMAIN old \ DOMAIN new
  BY DEF ChangedFiles
<1>3. DiagnosticsDelta(old, new) =
        [put |-> Restricted(new, names \cap DOMAIN new), gone |-> names \ DOMAIN new]
  BY DEF DiagnosticsDelta
<1> HIDE DEF names
<1>4. QED
  BY <1>1, <1>2, <1>3

-----------------------------------------------------------------------------
(* Net changes add up.                                                     *)

\* The channels that report net changes; `lifecycle` reports a state.
DeltaChannels == VersionChannels \ {"lifecycle"}

\* What a net change holds adds to what its client holds of the old projection
\* makes what it should hold of the new; an empty one is reported by no event
\* because there is nothing to add.
THEOREM NetChangesAddUp ==
    ASSUME NEW ch \in DeltaChannels, NEW j \in KnowledgeBases, NEW k \in KnowledgeBases
    PROVE  LET old == Project(ch, j)
               new == Project(ch, k)
               d   == NetChange(ch, old, new)
           IN  /\ Applied(ch, Kept(ch, old), d) = Kept(ch, new)
               /\ IsEmptyDelta(ch, d) => Kept(ch, old) = Kept(ch, new)
<1> DEFINE old == Project(ch, j)
           new == Project(ch, k)
           d   == NetChange(ch, old, new)
           Goal == /\ Applied(ch, Kept(ch, old), d) = Kept(ch, new)
                   /\ IsEmptyDelta(ch, d) => Kept(ch, old) = Kept(ch, new)
<1>0. SUFFICES Goal
  OBVIOUS
<1>1. CASE ch \in {"changes", "types", "diagnostics"}
  <2>1. IsMap(old) /\ IsMap(new)
    BY <1>1, ProjectionsAreMaps DEF Project
  <2>2. d = [put |-> Restricted(new, Moved(old, new)), gone |-> DOMAIN old \ DOMAIN new]
    BY <1>1, DiagnosticsIsMapDelta DEF NetChange, FilesDelta, TypesDelta, Moved
  <2>3. Kept(ch, old) = old /\ Kept(ch, new) = new
    BY <1>1 DEF Kept
  <2>4. Applied(ch, old, d) = ApplyMap(old, d.put, d.gone)
    BY <1>1 DEF Applied
  <2>5. IsEmptyDelta(ch, d) => d.put = <<>> /\ d.gone = {}
    BY DEF IsEmptyDelta, MapDeltaEmpty
  <2>6. /\ d.put = Restricted(new, Moved(old, new))
        /\ d.gone = DOMAIN old \ DOMAIN new
    BY <2>2
  <2> HIDE DEF old, new, d
  <2>7. QED
    BY <2>1, <2>3, <2>4, <2>5, <2>6, MapsAddUp
<1>2. CASE ch = "files"
  <2>1. d = PathsDelta(old, new)
    BY <1>2 DEF NetChange
  <2>2. /\ Kept(ch, old) = [f \in DOMAIN old |-> TRUE]
        /\ Kept(ch, new) = [f \in DOMAIN new |-> TRUE]
    BY <1>2 DEF Kept
  <2>3. Applied(ch, Kept(ch, old), d) =
          ApplyMap(Kept(ch, old), [f \in DOMAIN d.put |-> TRUE], d.gone)
    BY <1>2 DEF Applied
  <2>4. IsEmptyDelta(ch, d) => d.put = <<>> /\ d.gone = {}
    BY DEF IsEmptyDelta, MapDeltaEmpty
  <2> HIDE DEF old, new, d
  <2> DEFINE kept(p) == [f \in DOMAIN p |-> TRUE]
             e == PathsDelta(old, new)
  <2>5. /\ ApplyMap(kept(old), [f \in DOMAIN e.put |-> TRUE], e.gone) = kept(new)
        /\ e.put = <<>> /\ e.gone = {} => kept(old) = kept(new)
    BY PathsAddUp
  <2>6. QED
    BY <2>1, <2>2, <2>3, <2>4, <2>5
<1>3. CASE ch = "link_graph"
  <2> DEFINE on == LinkGraphView(j).nodes
             nn == LinkGraphView(k).nodes
             oe == SortedEdges(j)
             ne == SortedEdges(k)
             de == EdgeMultisetDiff(oe, ne)
             put == Restricted(nn, Moved(on, nn))
             gone == DOMAIN on \ DOMAIN nn
  <2>1. old = [nodes |-> on, edges |-> oe] /\ new = [nodes |-> nn, edges |-> ne]
    BY <1>3, ProjectionsAreMaps DEF Project
  <2>2. IsMap(on) /\ IsMap(nn)
    BY ProjectionsAreMaps
  <2>3. oe \in Seq(Edges) /\ ne \in Seq(Edges)
    BY SortedEdgesAreEdges
  <2> HIDE DEF on, nn, oe, ne
  <2>4. old.nodes = on /\ old.edges = oe /\ new.nodes = nn /\ new.edges = ne
    BY <2>1
  <2>5. /\ Kept(ch, old) = [nodes |-> on, edges |-> Tally(oe)]
        /\ Kept(ch, new) = [nodes |-> nn, edges |-> Tally(ne)]
    BY <1>3, <2>1 DEF Kept
  <2>6. d = [put |-> put, gone |-> gone, edges |-> de]
    <3> HIDE DEF old, new
    <3>1. QED
      BY <1>3, <2>4 DEF NetChange, LinkGraphDelta, Moved
  <2>7. d.put = put /\ d.gone = gone /\ d.edges = de
    BY <2>6
  <2> HIDE DEF d, old, new, de, put, gone
  <2>8. Applied(ch, Kept(ch, old), d) =
          [nodes |-> ApplyMap(on, put, gone),
           edges |-> ApplyTally(Tally(oe), de.added, de.removed)]
    BY <1>3, <2>5, <2>7 DEF Applied
  <2>9. /\ ApplyMap(on, put, gone) = nn
        /\ put = <<>> /\ gone = {} => on = nn
    BY <2>2, MapsAddUp DEF put, gone
  <2>10. /\ ApplyTally(Tally(oe), de.added, de.removed) = Tally(ne)
         /\ de.added = <<>> /\ de.removed = <<>> => Tally(oe) = Tally(ne)
    BY <2>3, EdgesAddUp DEF de
  <2>11. IsEmptyDelta(ch, d) => /\ put = <<>> /\ gone = {}
                                /\ de.added = <<>> /\ de.removed = <<>>
    BY <1>3, <2>7 DEF IsEmptyDelta, MapDeltaEmpty
  <2>12. QED
    BY <2>5, <2>8, <2>9, <2>10, <2>11
<1>4. CASE ch = "type_graph"
  <2> DEFINE on == TypeGraphView(j).nodes
             nn == TypeGraphView(k).nodes
             oe == TypeGraphView(j).edges
             ne == TypeGraphView(k).edges
             put == Restricted(nn, Moved(on, nn))
             gone == DOMAIN on \ DOMAIN nn
             add == Restricted(ne, Moved(oe, ne))
             rem == DOMAIN oe \ DOMAIN ne
  <2>1. old = [nodes |-> on, edges |-> oe] /\ new = [nodes |-> nn, edges |-> ne]
    <3>1. ASSUME NEW base
          PROVE  TypeGraphView(base) = [nodes |-> TypeGraphView(base).nodes,
                                        edges |-> TypeGraphView(base).edges]
      BY DEF TypeGraphView
    <3>2. old = TypeGraphView(j) /\ new = TypeGraphView(k)
      BY <1>4 DEF Project
    <3>3. QED
      BY <3>1, <3>2
  <2>2. IsMap(on) /\ IsMap(nn) /\ IsMap(oe) /\ IsMap(ne)
    BY ProjectionsAreMaps
  <2> HIDE DEF on, nn, oe, ne
  <2>4. old.nodes = on /\ old.edges = oe /\ new.nodes = nn /\ new.edges = ne
    BY <2>1
  <2>5. Kept(ch, old) = old /\ Kept(ch, new) = new
    BY <1>4 DEF Kept
  <2>6. d = [put |-> put, gone |-> gone, edges |-> [added |-> add, removed |-> rem]]
    <3> HIDE DEF old, new
    <3>1. QED
      BY <1>4, <2>4 DEF NetChange, TypeGraphDelta, Moved
  <2>7. /\ d.put = put /\ d.gone = gone
        /\ d.edges.added = add /\ d.edges.removed = rem
    BY <2>6
  <2> HIDE DEF d, old, new, put, gone, add, rem
  <2>8. Applied(ch, old, d) =
          [nodes |-> ApplyMap(on, put, gone), edges |-> ApplyMap(oe, add, rem)]
    BY <1>4, <2>4, <2>7 DEF Applied
  <2>9. /\ ApplyMap(on, put, gone) = nn
        /\ put = <<>> /\ gone = {} => on = nn
    BY <2>2, MapsAddUp DEF put, gone
  <2>10. /\ ApplyMap(oe, add, rem) = ne
         /\ add = <<>> /\ rem = {} => oe = ne
    BY <2>2, MapsAddUp DEF add, rem
  <2>11. IsEmptyDelta(ch, d) => /\ put = <<>> /\ gone = {}
                                /\ add = <<>> /\ rem = {}
    BY <1>4, <2>7 DEF IsEmptyDelta, MapDeltaEmpty
  <2>12. QED
    BY <2>1, <2>5, <2>8, <2>9, <2>10, <2>11
<1>5. QED
  BY <1>1, <1>2, <1>3, <1>4 DEF DeltaChannels, VersionChannels

-----------------------------------------------------------------------------
(* Frames on their way.                                                    *)

\* A sequence, of whatever frames.
IsList(P) == \E S : P \in Seq(S)

\* What a queue of frames does when a frame joins and when one leaves.
LEMMA ListIs ==
    ASSUME NEW P, IsList(P)
    PROVE  /\ Len(P) \in Nat
           /\ \A f : /\ IsList(Append(P, f)) /\ Len(Append(P, f)) = Len(P) + 1
                     /\ Append(P, f)[Len(P) + 1] = f
                     /\ \A i \in 1..Len(P) : Append(P, f)[i] = P[i]
           /\ P = <<>> <=> Len(P) = 0
           /\ P # <<>> => /\ IsList(Tail(P)) /\ Len(Tail(P)) = Len(P) - 1
                          /\ Head(P) = P[1]
                          /\ \A i \in 1..(Len(P) - 1) : Tail(P)[i] = P[i + 1]
                          /\ \A f : /\ Append(P, f) # <<>>
                                    /\ Head(Append(P, f)) = Head(P)
                                    /\ Tail(Append(P, f)) = Append(Tail(P), f)
<1>1. PICK S : P \in Seq(S)
  BY DEF IsList
<1>2. ASSUME NEW f
      PROVE  /\ IsList(Append(P, f)) /\ Len(Append(P, f)) = Len(P) + 1
             /\ Append(P, f)[Len(P) + 1] = f
             /\ \A i \in 1..Len(P) : Append(P, f)[i] = P[i]
  <2>1. P \in Seq(S \cup {f}) /\ f \in S \cup {f}
    BY <1>1
  <2>2. Append(P, f) \in Seq(S \cup {f})
    BY <2>1
  <2>3. QED
    BY <2>1, <2>2 DEF IsList
<1>3. ASSUME P # <<>>
      PROVE  /\ IsList(Tail(P)) /\ Len(Tail(P)) = Len(P) - 1
             /\ Head(P) = P[1]
             /\ \A i \in 1..(Len(P) - 1) : Tail(P)[i] = P[i + 1]
  <2>1. Tail(P) \in Seq(S)
    BY <1>1, <1>3
  <2>2. QED
    BY <1>1, <1>3, <2>1 DEF IsList
<1>4. ASSUME P # <<>>, NEW f
      PROVE  /\ Append(P, f) # <<>> /\ Head(Append(P, f)) = Head(P)
             /\ Tail(Append(P, f)) = Append(Tail(P), f)
  <2> DEFINE T == S \cup {f}
             Q == Append(P, f)
  <2>1. P \in Seq(T) /\ f \in T /\ Q \in Seq(T) /\ Len(Q) = Len(P) + 1
    <3>1. P \in Seq(T) /\ f \in T
      BY <1>1
    <3> HIDE DEF T
    <3>2. QED
      BY <3>1
  <2>2. Len(P) \in Nat /\ Len(P) >= 1
    BY <1>1, <1>4
  <2>3. Q # <<>> /\ Head(Q) = Head(P)
    <3> HIDE DEF T
    <3>1. QED
      BY <1>4, <2>1, <2>2
  <2>4. Tail(Q) \in Seq(T) /\ Tail(P) \in Seq(T) /\ Append(Tail(P), f) \in Seq(T)
    <3> HIDE DEF T
    <3>1. QED
      BY <1>4, <2>1, <2>2, <2>3
  <2>5. Len(Tail(Q)) = Len(P) /\ Len(Append(Tail(P), f)) = Len(P)
    <3> HIDE DEF T
    <3>1. QED
      BY <1>4, <2>1, <2>2, <2>3, <2>4
  <2>6. ASSUME NEW i \in 1..Len(P)
        PROVE  Tail(Q)[i] = Append(Tail(P), f)[i]
    <3> HIDE DEF T
    <3>1. Tail(Q)[i] = Q[i + 1]
      BY <2>1, <2>2, <2>3
    <3>2. CASE i = Len(P)
      BY <1>4, <2>1, <2>2, <2>4, <3>1, <3>2
    <3>3. CASE i # Len(P)
      <4>1. Q[i + 1] = P[i + 1]
        BY <2>1, <2>2, <3>3
      <4>2. Append(Tail(P), f)[i] = Tail(P)[i]
        BY <1>4, <2>1, <2>2, <2>4, <3>3
      <4>3. Tail(P)[i] = P[i + 1]
        BY <1>4, <2>1, <2>2, <3>3
      <4>4. QED
        BY <3>1, <4>1, <4>2, <4>3
    <3>4. QED
      BY <3>2, <3>3
  <2>7. Tail(Q) = Append(Tail(P), f)
    <3> DEFINE A == Tail(Q)
               B == Append(Tail(P), f)
    <3>1. A \in Seq(T) /\ B \in Seq(T) /\ Len(A) = Len(B)
           /\ \A i \in 1..Len(A) : A[i] = B[i]
      BY <2>4, <2>5, <2>6
    <3> HIDE DEF A, B, T
    <3>2. A = B
      BY <3>1
    <3>3. QED
      BY <3>2 DEF A, B
  <2>8. QED
    BY <2>3, <2>7
<1>5. P = <<>> <=> Len(P) = 0
  BY <1>1
<1>6. Len(P) \in Nat
  BY <1>1
<1>7. QED
  BY <1>2, <1>3, <1>4, <1>5, <1>6

\* A client that holds v holds w once it has had the frames of P.
Chain(ch, v, P, w) ==
    \E h : /\ h[0] = v /\ h[Len(P)] = w
           /\ \A i \in 1..Len(P) : h[i] = Took(ch, h[i - 1], P[i])

\* Without frames a client holds what it held.
LEMMA ChainEmpty ==
    ASSUME NEW ch, NEW v, NEW w
    PROVE  Chain(ch, v, <<>>, w) <=> v = w
<1>1. ASSUME v = w
      PROVE  Chain(ch, v, <<>>, w)
  <2> DEFINE h == [i \in {0} |-> v]
  <2>1. h[0] = v /\ Len(<<>>) = 0 /\ 1..0 = {}
    OBVIOUS
  <2> HIDE DEF h
  <2>2. /\ h[0] = v /\ h[Len(<<>>)] = w
        /\ \A i \in 1..Len(<<>>) : h[i] = Took(ch, h[i - 1], <<>>[i])
    BY <1>1, <2>1
  <2>3. QED
    BY <2>2 DEF Chain
<1>2. QED
  BY <1>1 DEF Chain

\* A frame sent is the last one taken.
LEMMA ChainAppend ==
    ASSUME NEW ch, NEW v, NEW w, NEW P, IsList(P), Chain(ch, v, P, w), NEW f
    PROVE  Chain(ch, v, Append(P, f), Took(ch, w, f))
<1> DEFINE Q == Append(P, f)
           n == Len(P)
<1>1. PICK h : /\ h[0] = v /\ h[n] = w
               /\ \A i \in 1..n : h[i] = Took(ch, h[i - 1], P[i])
  BY DEF Chain
<1>2. /\ n \in Nat /\ Len(Q) = n + 1 /\ Q[n + 1] = f
      /\ \A i \in 1..n : Q[i] = P[i]
  BY ListIs
<1> DEFINE g == [i \in 0..(n + 1) |-> IF i = n + 1 THEN Took(ch, w, f) ELSE h[i]]
<1> HIDE DEF Q, n
<1>3. g[0] = v /\ g[n] = w /\ g[n + 1] = Took(ch, w, f)
  BY <1>1, <1>2
<1>4. ASSUME NEW i \in 1..(n + 1)
      PROVE  g[i] = Took(ch, g[i - 1], Q[i])
  <2>1. CASE i = n + 1
    <3>1. i - 1 = n
      BY <1>2, <2>1
    <3> HIDE DEF g
    <3>2. QED
      BY <1>2, <1>3, <2>1, <3>1
  <2>2. CASE i # n + 1
    <3>1. i \in 1..n /\ i - 1 \in 0..n /\ i - 1 # n + 1
      BY <1>2, <2>2
    <3>2. g[i] = h[i] /\ g[i - 1] = h[i - 1]
      BY <1>2, <2>2, <3>1
    <3> HIDE DEF g
    <3>3. QED
      BY <1>1, <1>2, <3>1, <3>2
  <2>3. QED
    BY <2>1, <2>2
<1> HIDE DEF g
<1>5. QED
  BY <1>2, <1>3, <1>4 DEF Chain, Q

\* The frame received is the first one taken.
LEMMA ChainHead ==
    ASSUME NEW ch, NEW v, NEW w, NEW P, IsList(P), P # <<>>, Chain(ch, v, P, w)
    PROVE  Chain(ch, Took(ch, v, Head(P)), Tail(P), w)
<1> DEFINE Q == Tail(P)
           n == Len(P)
<1>1. PICK h : /\ h[0] = v /\ h[n] = w
               /\ \A i \in 1..n : h[i] = Took(ch, h[i - 1], P[i])
  BY DEF Chain
<1>2. /\ n \in Nat /\ n # 0 /\ Len(Q) = n - 1 /\ Head(P) = P[1]
      /\ \A i \in 1..(n - 1) : Q[i] = P[i + 1]
  BY ListIs
<1> DEFINE g == [i \in 0..(n - 1) |-> h[i + 1]]
<1> HIDE DEF Q, n
<1>3. g[0] = Took(ch, v, Head(P)) /\ g[n - 1] = w
  <2>1. g[0] = h[1] /\ g[n - 1] = h[n]
    BY <1>2
  <2>2. h[1] = Took(ch, h[1 - 1], P[1])
    BY <1>1, <1>2
  <2>3. QED
    BY <1>1, <1>2, <2>1, <2>2
<1>4. ASSUME NEW i \in 1..(n - 1)
      PROVE  g[i] = Took(ch, g[i - 1], Q[i])
  <2>1. g[i] = h[i + 1] /\ g[i - 1] = h[i]
    BY <1>2
  <2>2. i + 1 \in 1..n /\ (i + 1) - 1 = i
    BY <1>2
  <2>3. h[i + 1] = Took(ch, h[(i + 1) - 1], P[i + 1])
    BY <1>1, <2>2
  <2>4. QED
    BY <1>2, <2>1, <2>2, <2>3
<1> HIDE DEF g
<1>5. QED
  BY <1>2, <1>3, <1>4 DEF Chain, Q

-----------------------------------------------------------------------------
(* Where a subscription and its client may be.                             *)

\* The channels whose client starts from an initial value.
MapChannels == VersionChannels \ {"changes", "lifecycle"}

\* The frames on their way to a client.
Pending(st, fr, q) == IF st = "sending" THEN Append(q, fr) ELSE q

\* A task that has yet to report.
Early(st, fr) ==
    \/ st = "sending" /\ fr.type = "ack"
    \/ st \in {"baseline", "probe", "was", "payload", "gate", "snapshot"}

\* Where the task of a channel may be while its connection lasts.
Stages(ch) ==
    {"sending", "waiting", "woken"} \cup
    (IF ch = "changes" THEN {"baseline"}
     ELSE IF ch = "lifecycle" THEN {"probe", "was", "payload"}
     ELSE {"gate", "snapshot"})

\* A state of a task, in which `stale` tells that a wake-up is on its way, is
\* fresh when it is neither looking at the held state nor about to.
Fresh(st, fr, stale) == ~Early(st, fr) /\ st # "woken" /\ ~stale

\* The frames on their way make what the task last reported, and that is current
\* unless the task is about to look.
MapTrack(ch, st, fr, q, v, l, base, stale) ==
    /\ Chain(ch, v, Pending(st, fr, q), IF Early(st, fr) THEN None ELSE Kept(ch, l))
    /\ ~Early(st, fr) => l \in Snapshots(ch)
    /\ Fresh(st, fr, stale) => Kept(ch, l) = View(ch, base)

\* The client ends up knowing w, and hears of nothing the engine is not.
LifeTrack(st, fr, q, v, l, ready, stale) ==
    \E w : /\ Chain("lifecycle", v, Pending(st, fr, q), w)
           /\ Early(st, fr) => w = None
           /\ st = "was" => \E n : l = <<n>>
           /\ st = "payload" => \E n, b : l = <<n, b>> /\ b \in BOOLEAN /\ (b => ready)
           /\ ~Early(st, fr) => /\ l \in BOOLEAN /\ w \in BOOLEAN
                                /\ (l => w) /\ (w => ready)
           /\ Fresh(st, fr, stale) => w = ready

\* h is the series of projections the events of P lead through, up to l.
Leads(P, l, h) ==
    /\ h[Len(P)] = l
    /\ \A i \in 0..Len(P) : h[i] \in FileMaps
    /\ \A i \in 1..Len(P) : P[i].type = "event" /\ P[i].delta = FilesDelta(h[i - 1], h[i])

\* a and c hold the same at f.
Same(a, c, f) == /\ f \in DOMAIN a <=> f \in DOMAIN c
                 /\ f \in DOMAIN a => a[f] = c[f]

\* A path no event of the series touches is held as the task last read it.
Agrees(v, P, l, ms, h) ==
    \A f \in Files \ ms : (\A i \in 0..Len(P) : Same(h[i], l, f)) => Same(v, l, f)

\* A client that starts before its task has a baseline learns what it starts from
\* with the ack; one that starts after misses what differs at that moment.
ChangesTrack(st, fr, q, v, l, ms, base, stale) ==
    LET P == Pending(st, fr, q)
    IN  /\ Early(st, fr) => /\ l = None
                            /\ \/ v = None /\ P = <<Ack>>
                               \/ v \in FileMaps /\ P = <<>>
        /\ ~Early(st, fr) =>
              /\ l \in Snapshots("changes")
              /\ \/ v = None /\ P # <<>> /\ Head(P) = Ack /\ \E h : Leads(Tail(P), l, h)
                 \/ v \in FileMaps /\ \E h : Leads(P, l, h) /\ Agrees(v, P, l, ms, h)
        /\ Fresh(st, fr, stale) => l = FilesSnapshot(base)

\* What is so of a subscription of channel ch in stage st, with frame fr to send,
\* queue q, client view v, last report l and missed paths ms, when base is held.
OnTrack(ch, st, fr, q, v, l, ms, base, ready, stale) ==
    /\ IsList(q) /\ st \in Stages(ch)
    /\ st = "sending" => fr = Ack \/ fr.type \in {"initial", "event"}
    /\ ch = "lifecycle" => LifeTrack(st, fr, q, v, l, ready, stale)
    /\ ch = "changes" => ChangesTrack(st, fr, q, v, l, ms, base, stale)
    /\ ch \in MapChannels => MapTrack(ch, st, fr, q, v, l, base, stale)

-----------------------------------------------------------------------------
(* Tables and file maps.                                                   *)

\* The tables hold the projections they stand for.
LEMMA Tables ==
    ASSUME NEW ch \in Channels, NEW k \in KnowledgeBases
    PROVE  /\ Snapshot(ch, k) = Project(ch, k) /\ Snapshot(ch, k) \in Snapshots(ch)
           /\ View(ch, k) = Kept(ch, Snapshot(ch, k))
<1>1. Snapshot(ch, k) = Project(ch, k)
  BY DEF Snapshot, Projections
<1>2. View(ch, k) = Kept(ch, Project(ch, k))
  BY DEF View, Views
<1>3. QED
  BY <1>1, <1>2 DEF Snapshots

\* Every net change a task may report adds up (NetChangesAddUp).
LEMMA ReportsAddUp ==
    ASSUME NEW ch \in Channels \ {"lifecycle"},
           NEW l \in Snapshots(ch), NEW k \in KnowledgeBases
    PROVE  LET d == Delta(ch, l, Snapshot(ch, k))
           IN  /\ d = NetChange(ch, l, Snapshot(ch, k))
               /\ Applied(ch, Kept(ch, l), d) = View(ch, k)
               /\ IsEmptyDelta(ch, d) => Kept(ch, l) = View(ch, k)
<1>1. PICK j \in KnowledgeBases : l = Snapshot(ch, j)
  BY DEF Snapshots
<1>2. /\ l = Project(ch, j) /\ Snapshot(ch, k) = Project(ch, k)
      /\ Snapshot(ch, k) \in Snapshots(ch) /\ View(ch, k) = Kept(ch, Snapshot(ch, k))
  BY <1>1, Tables
<1>3. ch \in DeltaChannels
  BY SubscriptionsAssumption DEF DeltaChannels
<1>4. Delta(ch, l, Snapshot(ch, k)) = NetChange(ch, l, Snapshot(ch, k))
  <2> DEFINE p == <<l, Snapshot(ch, k)>>
  <2>1. p \in Snapshots(ch) \X Snapshots(ch) /\ p[1] = l /\ p[2] = Snapshot(ch, k)
    BY <1>2
  <2>2. NetChanges[ch][p] = NetChange(ch, p[1], p[2])
    <3> HIDE DEF p
    <3>1. QED
      BY <2>1 DEF NetChanges
  <2>3. QED
    BY <2>1, <2>2 DEF Delta
<1>5. QED
  BY <1>2, <1>3, <1>4, NetChangesAddUp

\* The files projection is a file map.
LEMMA FilesAreMaps ==
    ASSUME NEW k \in KnowledgeBases
    PROVE  FilesSnapshot(k) \in FileMaps
<1> DEFINE F == Catalog(k)
           v(f) == IF Of(k, f).kind = "asset" THEN NoHash ELSE k[f]
<1>1. F \in SUBSET Files /\ \A f \in F : v(f) \in Contents \cup {NoHash}
  BY DEF Catalog, KnowledgeBases
<1>2. FilesSnapshot(k) = [f \in F |-> v(f)]
  BY DEF FilesSnapshot
<1>3. [f \in F |-> v(f)] \in [F -> Contents \cup {NoHash}]
  BY <1>1
<1> HIDE DEF F, v
<1>4. QED
  BY <1>1, <1>2, <1>3 DEF FileMaps

\* What a file map is.
LEMMA FileMapsAre ==
    ASSUME NEW m \in FileMaps
    PROVE  /\ IsMap(m) /\ DOMAIN m \subseteq Files /\ m # None
           /\ \A f \in DOMAIN m : m[f] \in Contents \cup {NoHash}
<1>1. PICK F \in SUBSET Files : m \in [F -> Contents \cup {NoHash}]
  BY DEF FileMaps
<1>2. QED
  BY <1>1, NoneIsNoView DEF IsMap

\* A `changes` event applied to any file map, be it the one the event starts
\* from or not: the paths it touches are as the event says, the others as before.
LEMMA FileMapsAddUp ==
    ASSUME NEW v \in FileMaps, NEW a \in FileMaps, NEW c \in FileMaps
    PROVE  LET d == FilesDelta(a, c)
               m == Applied("changes", v, d)
           IN  /\ m \in FileMaps
               /\ \A f : IF Same(a, c, f) THEN Same(m, v, f) ELSE Same(m, c, f)
<1> DEFINE d == FilesDelta(a, c)
           m == Applied("changes", v, d)
<1>1. /\ d.put = Restricted(c, Moved(a, c)) /\ d.gone = DOMAIN a \ DOMAIN c
  BY DEF FilesDelta, Moved
<1>2. DOMAIN d.put = Moved(a, c) /\ \A f \in Moved(a, c) : d.put[f] = c[f]
  BY <1>1 DEF Restricted
<1>3. m = ApplyMap(v, d.put, d.gone)
  BY DEF Applied
<1> DEFINE M == (DOMAIN v \ d.gone) \cup DOMAIN d.put
           x(f) == IF f \in DOMAIN d.put THEN d.put[f] ELSE v[f]
<1>4. m = [f \in M |-> x(f)]
  BY <1>3 DEF ApplyMap
<1>5. /\ \A n \in {v, a, c} :
           DOMAIN n \subseteq Files /\ \A f \in DOMAIN n : n[f] \in Contents \cup {NoHash}
  BY FileMapsAre
<1>6. \A f \in M : f \in Files /\ x(f) \in Contents \cup {NoHash}
  BY <1>2, <1>5 DEF Moved, Changed
<1>7. m \in FileMaps
  <2>1. m \in [M -> Contents \cup {NoHash}] /\ M \in SUBSET Files
    <3> HIDE DEF m, M, x
    <3>1. QED
      BY <1>4, <1>6
  <2> HIDE DEF m, M
  <2>2. QED
    BY <2>1 DEF FileMaps
<1>8. ASSUME NEW f
      PROVE  IF Same(a, c, f) THEN Same(m, v, f) ELSE Same(m, c, f)
  <2>1. DOMAIN m = M /\ (f \in M => m[f] = x(f))
    BY <1>4
  <2>2. /\ f \in M <=> (f \in DOMAIN v /\ f \notin d.gone) \/ f \in Moved(a, c)
        /\ f \in Moved(a, c) => x(f) = c[f]
        /\ f \notin Moved(a, c) => x(f) = v[f]
    BY <1>2
  <2>3. f \in d.gone <=> f \in DOMAIN a /\ f \notin DOMAIN c
    BY <1>1
  <2>4. f \in Moved(a, c) <=> f \in DOMAIN c /\ (f \in DOMAIN a => a[f] # c[f])
    BY DEF Moved, Changed
  <2>5. QED
    <3> HIDE DEF m, M, x, d
    <3>1. QED
      BY <2>1, <2>2, <2>3, <2>4 DEF Same
<1>9. QED
  BY <1>7, <1>8
\* Being the same at a path is an equivalence.
LEMMA SameIsEquivalence ==
    ASSUME NEW a, NEW b, NEW c, NEW f
    PROVE  /\ Same(a, a, f)
           /\ Same(a, b, f) => Same(b, a, f)
           /\ Same(a, b, f) /\ Same(b, c, f) => Same(a, c, f)
BY DEF Same

\* With no event on its way the series is the projection last read.
LEMMA LeadsNowhere ==
    ASSUME NEW l \in FileMaps
    PROVE  \E h : /\ Leads(<<>>, l, h)
                  /\ \A v, ms : (\A f \in Files \ ms : Same(v, l, f))
                                  => Agrees(v, <<>>, l, ms, h)
<1> DEFINE h == [i \in {0} |-> l]
<1>1. h[0] = l /\ Len(<<>>) = 0 /\ 1..0 = {} /\ 0..0 = {0}
  OBVIOUS
<1> HIDE DEF h
<1>2. Leads(<<>>, l, h)
  BY <1>1 DEF Leads
<1>3. QED
  BY <1>2 DEF Agrees

\* An event sent leads one projection further; a path it touches is right when
\* it arrives, and the others are as right as they were.
LEMMA LeadsAppend ==
    ASSUME NEW P, IsList(P), NEW l \in FileMaps, NEW h, Leads(P, l, h),
           NEW c \in FileMaps, NEW fr, fr.type = "event", fr.delta = FilesDelta(l, c)
    PROVE  \E g : /\ Leads(Append(P, fr), c, g)
                  /\ \A v, ms : Agrees(v, P, l, ms, h) => Agrees(v, Append(P, fr), c, ms, g)
<1> DEFINE Q == Append(P, fr)
           n == Len(P)
           g == [i \in 0..(n + 1) |-> IF i = n + 1 THEN c ELSE h[i]]
<1>1. /\ n \in Nat /\ Len(Q) = n + 1 /\ Q[n + 1] = fr
      /\ \A i \in 1..n : Q[i] = P[i]
  BY ListIs
<1>2. /\ h[n] = l /\ \A i \in 0..n : h[i] \in FileMaps
      /\ \A i \in 1..n : P[i].type = "event" /\ P[i].delta = FilesDelta(h[i - 1], h[i])
  BY DEF Leads
<1> HIDE DEF Q, n
<1>3. g[n + 1] = c /\ \A i \in 0..n : g[i] = h[i]
  BY <1>1
<1> HIDE DEF g
<1>4. ASSUME NEW i \in 1..(n + 1)
      PROVE  Q[i].type = "event" /\ Q[i].delta = FilesDelta(g[i - 1], g[i])
  <2>1. CASE i = n + 1
    <3>1. i - 1 = n /\ n \in 0..n
      BY <1>1, <2>1
    <3>2. g[i - 1] = l /\ g[i] = c /\ Q[i] = fr
      BY <1>1, <1>2, <1>3, <2>1, <3>1
    <3>3. QED
      BY <3>2
  <2>2. CASE i # n + 1
    <3>1. i \in 1..n /\ i \in 0..n /\ i - 1 \in 0..n
      BY <1>1, <2>2
    <3>2. g[i - 1] = h[i - 1] /\ g[i] = h[i] /\ Q[i] = P[i]
      BY <1>1, <1>3, <3>1
    <3>3. QED
      BY <1>2, <3>1, <3>2
  <2>3. QED
    BY <2>1, <2>2
<1>5. \A i \in 0..(n + 1) : g[i] \in FileMaps
  <2>1. \A i \in 0..(n + 1) : i = n + 1 \/ i \in 0..n
    BY <1>1
  <2>2. QED
    BY <1>2, <1>3, <2>1
<1>6. Leads(Q, c, g)
  BY <1>1, <1>3, <1>4, <1>5 DEF Leads
<1>7. ASSUME NEW v, NEW ms, Agrees(v, P, l, ms, h), NEW f \in Files \ ms,
             \A i \in 0..(n + 1) : Same(g[i], c, f)
      PROVE  Same(v, c, f)
  <2>1. \A i \in 0..n : Same(h[i], c, f)
    <3>1. \A i \in 0..n : i \in 0..(n + 1)
      BY <1>1
    <3>2. QED
      BY <1>3, <1>7, <3>1
  <2>2. n \in 0..n
    BY <1>1
  <2>3. Same(l, c, f)
    BY <1>2, <2>1, <2>2
  <2>4. \A i \in 0..n : Same(h[i], l, f)
    BY <2>1, <2>3, SameIsEquivalence
  <2>5. Same(v, l, f)
    BY <1>7, <2>4 DEF Agrees, n
  <2>6. QED
    BY <2>3, <2>5, SameIsEquivalence
<1>8. QED
  BY <1>1, <1>6, <1>7 DEF Agrees, Q

\* An event received is one to go fewer, and a path it touches is now right.
LEMMA LeadsHead ==
    ASSUME NEW P, IsList(P), P # <<>>, NEW l, NEW h, Leads(P, l, h),
           NEW v \in FileMaps, NEW ms, Agrees(v, P, l, ms, h)
    PROVE  /\ Took("changes", v, Head(P)) \in FileMaps
           /\ \E g : /\ Leads(Tail(P), l, g)
                     /\ Agrees(Took("changes", v, Head(P)), Tail(P), l, ms, g)
<1> DEFINE Q == Tail(P)
           n == Len(P)
           u == Took("changes", v, Head(P))
           g == [i \in 0..(n - 1) |-> h[i + 1]]
<1>1. /\ n \in Nat /\ n # 0 /\ Len(Q) = n - 1 /\ Head(P) = P[1]
      /\ \A i \in 1..(n - 1) : Q[i] = P[i + 1]
  BY ListIs
<1>2. /\ h[n] = l /\ \A i \in 0..n : h[i] \in FileMaps
      /\ \A i \in 1..n : P[i].type = "event" /\ P[i].delta = FilesDelta(h[i - 1], h[i])
  BY DEF Leads
<1>3. Head(P).type = "event" /\ Head(P).delta = FilesDelta(h[0], h[1])
  <2>1. 1 \in 1..n /\ 1 - 1 = 0
    BY <1>1
  <2>2. P[1].type = "event" /\ P[1].delta = FilesDelta(h[1 - 1], h[1])
    BY <1>2, <2>1
  <2>3. QED
    BY <1>1, <2>1, <2>2
<1>4. u = Applied("changes", v, FilesDelta(h[0], h[1]))
  BY <1>3 DEF Took
<1>5. h[0] \in FileMaps /\ h[1] \in FileMaps
  BY <1>1, <1>2
<1>6. /\ u \in FileMaps
      /\ \A f : IF Same(h[0], h[1], f) THEN Same(u, v, f) ELSE Same(u, h[1], f)
  BY <1>4, <1>5, FileMapsAddUp
<1> HIDE DEF Q, n, u
<1>7. \A i \in 0..(n - 1) : g[i] = h[i + 1] /\ i + 1 \in 0..n
  BY <1>1
<1> HIDE DEF g
<1>8. ASSUME NEW i \in 1..(n - 1)
      PROVE  Q[i].type = "event" /\ Q[i].delta = FilesDelta(g[i - 1], g[i])
  <2>1. i + 1 \in 1..n /\ (i + 1) - 1 = i /\ (i - 1) + 1 = i
        /\ i \in 0..(n - 1) /\ i - 1 \in 0..(n - 1)
    BY <1>1
  <2>2. g[i] = h[i + 1] /\ g[i - 1] = h[i]
    <3>1. g[i - 1] = h[(i - 1) + 1]
      BY <1>7, <2>1
    <3>2. QED
      BY <1>7, <2>1, <3>1
  <2>3. P[i + 1].type = "event" /\ P[i + 1].delta = FilesDelta(h[(i + 1) - 1], h[i + 1])
    BY <1>2, <2>1
  <2>4. QED
    BY <1>1, <2>1, <2>2, <2>3
<1>9. Leads(Q, l, g)
  <2>1. n - 1 \in 0..(n - 1) /\ (n - 1) + 1 = n
    BY <1>1
  <2>2. g[n - 1] = l
    BY <1>2, <1>7, <2>1
  <2>3. \A i \in 0..(n - 1) : g[i] \in FileMaps
    BY <1>2, <1>7
  <2>4. QED
    BY <1>1, <1>8, <2>2, <2>3 DEF Leads
<1>10. ASSUME NEW f \in Files \ ms, \A i \in 0..(n - 1) : Same(g[i], l, f)
       PROVE  Same(u, l, f)
  <2>1. 0 \in 0..(n - 1) /\ 0 + 1 = 1
    BY <1>1
  <2>2. Same(h[1], l, f)
    BY <1>7, <1>10, <2>1
  <2>3. CASE Same(h[0], h[1], f)
    <3>1. ASSUME NEW i \in 0..n
          PROVE  Same(h[i], l, f)
      <4>1. CASE i = 0
        BY <2>2, <2>3, <4>1, SameIsEquivalence
      <4>2. CASE i # 0
        <5>1. i - 1 \in 0..(n - 1) /\ (i - 1) + 1 = i
          BY <1>1, <4>2
        <5>2. QED
          BY <1>7, <1>10, <5>1
      <4>3. QED
        BY <4>1, <4>2
    <3>2. Same(v, l, f)
      BY <3>1 DEF Agrees, n
    <3>3. QED
      BY <1>6, <2>3, <3>2, SameIsEquivalence
  <2>4. CASE ~Same(h[0], h[1], f)
    BY <1>6, <2>2, <2>4, SameIsEquivalence
  <2>5. QED
    BY <2>3, <2>4
<1>11. QED
  BY <1>1, <1>6, <1>9, <1>10 DEF Agrees, Q, u

-----------------------------------------------------------------------------
(* What each step does to one subscription.                                *)

\* The channels and how a client of each is tracked.
LEMMA ChannelIs ==
    ASSUME NEW ch \in Channels
    PROVE  ch = "changes" \/ ch = "lifecycle" \/ ch \in MapChannels
BY SubscriptionsAssumption DEF MapChannels

\* A build swapped in: the wake-up it owes excuses what has yet to be told.
LEMMA PublishTracks ==
    ASSUME NEW ch, NEW st, NEW fr, NEW q, NEW v, NEW l, NEW ms, NEW b, NEW rd, NEW stl,
           OnTrack(ch, st, fr, q, v, l, ms, b, rd, stl), rd \in BOOLEAN, NEW c
    PROVE  OnTrack(ch, st, fr, q, v, l, ms, c, TRUE, TRUE)
<1>1. ~Fresh(st, fr, TRUE)
  BY DEF Fresh
<1>2. ch = "lifecycle" => LifeTrack(st, fr, q, v, l, TRUE, TRUE)
  BY <1>1 DEF OnTrack, LifeTrack
<1>3. ch = "changes" => ChangesTrack(st, fr, q, v, l, ms, c, TRUE)
  BY <1>1 DEF OnTrack, ChangesTrack
<1>4. ch \in MapChannels => MapTrack(ch, st, fr, q, v, l, c, TRUE)
  BY <1>1 DEF OnTrack, MapTrack
<1>5. QED
  BY <1>2, <1>3, <1>4 DEF OnTrack

\* The kind of an ack.
LEMMA AckIs == Ack.type = "ack"
BY DEF Ack

\* An ack on its own in the queue.
LEMMA EmptyIsList == IsList(<<>>) /\ <<Ack>> = Append(<<>>, Ack)
<1>1. <<>> \in Seq({})
  OBVIOUS
<1>2. QED
  BY <1>1 DEF IsList

\* A new subscription has an ack to send and a client that holds nothing.
LEMMA SubscribeTracks ==
    ASSUME NEW ch \in Channels, NEW ms, NEW b, NEW rd, NEW stl
    PROVE  OnTrack(ch, "sending", Ack, <<>>, None, None, ms, b, rd, stl)
<1> DEFINE P == Pending("sending", Ack, <<>>)
<1>1. P = <<Ack>> /\ P = Append(<<>>, Ack)
  BY EmptyIsList DEF Pending
<1>2. Early("sending", Ack) /\ ~Fresh("sending", Ack, stl)
  BY AckIs DEF Early, Fresh
<1>3. Chain(ch, None, P, None)
  <2>1. Took(ch, None, Ack) = None
    BY AckIs DEF Took
  <2>2. Chain(ch, None, Append(<<>>, Ack), Took(ch, None, Ack))
    BY ChainEmpty, ChainAppend, EmptyIsList
  <2>3. QED
    BY <1>1, <2>1, <2>2
<1>4. LifeTrack("sending", Ack, <<>>, None, None, rd, stl) \/ ch # "lifecycle"
  BY <1>2, <1>3 DEF LifeTrack
<1>5. ChangesTrack("sending", Ack, <<>>, None, None, ms, b, stl)
  BY <1>1, <1>2 DEF ChangesTrack
<1>6. MapTrack(ch, "sending", Ack, <<>>, None, None, b, stl)
  BY <1>2, <1>3 DEF MapTrack
<1>7. "sending" \in Stages(ch)
  BY DEF Stages
<1>8. QED
  BY <1>4, <1>5, <1>6, <1>7, EmptyIsList DEF OnTrack

\* Where a task goes once it sent its frame.
After(ch, fr) == IF fr.type = "ack" THEN AfterAck(ch) ELSE "waiting"

\* The frame being sent joins the queue.
LEMMA SendTracks ==
    ASSUME NEW ch \in Channels, NEW fr, NEW q, NEW v, NEW l, NEW ms, NEW b, NEW rd, NEW stl,
           OnTrack(ch, "sending", fr, q, v, l, ms, b, rd, stl)
    PROVE  OnTrack(ch, After(ch, fr), None, Append(q, fr), v, l, ms, b, rd, stl)
<1> DEFINE st == After(ch, fr)
           Q == Append(q, fr)
<1>1. /\ st \in {"baseline", "probe", "gate", "waiting"} /\ st \in Stages(ch)
      /\ st # "waiting" <=> fr.type = "ack"
      /\ st = "probe" => ch = "lifecycle"
      /\ st = "baseline" => ch = "changes"
  BY ChannelIs DEF After, AfterAck, Stages, MapChannels
<1> HIDE DEF st
<1>2. Pending(st, None, Q) = Pending("sending", fr, q)
  BY <1>1 DEF Pending
<1>3. /\ Early(st, None) <=> Early("sending", fr)
      /\ Fresh(st, None, stl) <=> Fresh("sending", fr, stl)
  BY <1>1 DEF Early, Fresh
<1>4. IsList(Q)
  BY ListIs DEF OnTrack
<1>5. ch = "lifecycle" => LifeTrack(st, None, Q, v, l, rd, stl)
  BY <1>1, <1>2, <1>3 DEF OnTrack, LifeTrack
<1>6. ch = "changes" => ChangesTrack(st, None, Q, v, l, ms, b, stl)
  BY <1>2, <1>3 DEF OnTrack, ChangesTrack
<1>7. ch \in MapChannels => MapTrack(ch, st, None, Q, v, l, b, stl)
  BY <1>2, <1>3 DEF OnTrack, MapTrack
<1>8. QED
  BY <1>1, <1>4, <1>5, <1>6, <1>7 DEF OnTrack, st

\* The frame a client receives is the first one on its way.
LEMMA PendingTail ==
    ASSUME NEW st, NEW fr, NEW q, IsList(q), q # <<>>
    PROVE  /\ IsList(Pending(st, fr, q)) /\ Pending(st, fr, q) # <<>>
           /\ Head(Pending(st, fr, q)) = Head(q)
           /\ Pending(st, fr, Tail(q)) = Tail(Pending(st, fr, q))
           /\ IsList(Tail(q))
BY ListIs DEF Pending

\* A client takes a frame; on the ack of `changes` it reads the files, and what
\* its task had already read differently is missed.
LEMMA ReceiveTracks ==
    ASSUME NEW ch \in Channels, NEW st, NEW fr, NEW q, NEW v, NEW l, NEW ms,
           NEW b \in KnowledgeBases, NEW rd, NEW stl,
           OnTrack(ch, st, fr, q, v, l, ms, b, rd, stl), q # <<>>
    PROVE  LET own  == Head(q).type = "ack" /\ ch = "changes"
               read == FilesSnapshot(b)
           IN  OnTrack(ch, st, fr, Tail(q), IF own THEN read ELSE Took(ch, v, Head(q)), l,
                       IF own /\ l # None THEN Differing(read, l) ELSE ms, b, rd, stl)
<1> DEFINE own == Head(q).type = "ack" /\ ch = "changes"
           read == FilesSnapshot(b)
           u == IF own THEN read ELSE Took(ch, v, Head(q))
           mt == IF own /\ l # None THEN Differing(read, l) ELSE ms
           P == Pending(st, fr, q)
<1>1. /\ IsList(P) /\ P # <<>> /\ Head(P) = Head(q)
      /\ Pending(st, fr, Tail(q)) = Tail(P) /\ IsList(Tail(q))
  BY PendingTail DEF OnTrack
<1>2. CASE ch # "changes"
  <2>1. u = Took(ch, v, Head(P))
    BY <1>1, <1>2
  <2>2. \A w : Chain(ch, v, P, w) => Chain(ch, u, Tail(P), w)
    BY <1>1, <2>1, ChainHead
  <2> HIDE DEF u, P
  <2>3. ch = "lifecycle" => LifeTrack(st, fr, Tail(q), u, l, rd, stl)
    <3>1. SUFFICES ASSUME ch = "lifecycle"
                   PROVE  LifeTrack(st, fr, Tail(q), u, l, rd, stl)
      OBVIOUS
    <3>2. LifeTrack(st, fr, q, v, l, rd, stl)
      BY <3>1 DEF OnTrack
    <3>3. QED
      BY <1>1, <2>2, <3>1, <3>2 DEF LifeTrack, P
  <2>4. ch \in MapChannels => MapTrack(ch, st, fr, Tail(q), u, l, b, stl)
    <3>1. SUFFICES ASSUME ch \in MapChannels
                   PROVE  MapTrack(ch, st, fr, Tail(q), u, l, b, stl)
      OBVIOUS
    <3>2. MapTrack(ch, st, fr, q, v, l, b, stl)
      BY <3>1 DEF OnTrack
    <3>3. QED
      BY <1>1, <2>2, <3>2 DEF MapTrack, P
  <2>5. QED
    BY <1>1, <1>2, <2>3, <2>4 DEF OnTrack, u
<1>3. CASE ch = "changes"
  <2>1. ChangesTrack(st, fr, q, v, l, ms, b, stl)
    BY <1>3 DEF OnTrack
  <2>2. read \in FileMaps /\ l \in Snapshots("changes") => l \in FileMaps
    BY FilesAreMaps, <1>3, Tables DEF Snapshots, Project
  <2>3. read \in FileMaps
    BY FilesAreMaps
  <2>4. ChangesTrack(st, fr, Tail(q), u, l, mt, b, stl)
    <3>1. CASE Early(st, fr)
      <4>1. l = None /\ v = None /\ P = <<Ack>>
        BY <1>1, <2>1, <3>1 DEF ChangesTrack
      <4>2. Head(q) = Ack /\ Tail(P) = <<>>
        BY <1>1, <4>1
      <4>3. u = read
        BY <1>3, <4>2, AckIs
      <4>4. ~Fresh(st, fr, stl)
        BY <3>1 DEF Fresh
      <4> HIDE DEF u, read, mt
      <4>5. QED
        BY <1>1, <2>3, <3>1, <4>1, <4>2, <4>3, <4>4 DEF ChangesTrack
    <3>2. CASE ~Early(st, fr)
      <4>1. l \in FileMaps /\ l # None
        BY <2>1, <2>2, <2>3, <3>2, FileMapsAre DEF ChangesTrack
      <4>2. CASE v = None /\ Head(P) = Ack /\ \E h : Leads(Tail(P), l, h)
        <5>1. u = read /\ mt = Differing(read, l)
          BY <1>1, <1>3, <4>1, <4>2, AckIs
        <5>2. PICK h : Leads(Tail(P), l, h)
          BY <4>2
        <5>3. \A f \in Files \ mt : Same(read, l, f)
          BY <5>1 DEF Differing, Same
        <5>4. Agrees(u, Tail(P), l, mt, h)
          BY <5>1, <5>3 DEF Agrees
        <5> HIDE DEF u, mt, read
        <5>5. QED
          BY <1>1, <2>1, <2>3, <3>2, <5>1, <5>2, <5>4 DEF ChangesTrack
      <4>3. CASE v \in FileMaps /\ \E h : Leads(P, l, h) /\ Agrees(v, P, l, ms, h)
        <5>1. PICK h : Leads(P, l, h) /\ Agrees(v, P, l, ms, h)
          BY <4>3
        <5>2. Head(P).type = "event"
          <6>1. 1 \in 1..Len(P) /\ Head(P) = P[1]
            BY <1>1, ListIs
          <6>2. QED
            BY <5>1, <6>1 DEF Leads
        <5>3. u = Took("changes", v, Head(P)) /\ mt = ms
          BY <1>1, <1>3, <5>2
        <5>4. u \in FileMaps /\ \E g : Leads(Tail(P), l, g) /\ Agrees(u, Tail(P), l, ms, g)
          BY <1>1, <4>3, <5>1, <5>3, LeadsHead
        <5> HIDE DEF u, mt, P
        <5>5. QED
          BY <1>1, <2>1, <3>2, <5>3, <5>4 DEF ChangesTrack
      <4>4. QED
        BY <2>1, <3>2, <4>2, <4>3 DEF ChangesTrack
    <3>3. QED
      BY <3>1, <3>2
  <2> HIDE DEF u, mt
  <2>5. QED
    BY <1>1, <1>3, <2>4 DEF OnTrack, MapChannels, u, mt
<1>4. QED
  BY <1>2, <1>3

-----------------------------------------------------------------------------
(* The task's own steps.                                                   *)

\* The task of `changes` reads its baseline; what the client read before it and
\* holds differently is missed.
LEMMA BaselineTracks ==
    ASSUME NEW fr, NEW q, NEW v, NEW l, NEW ms, NEW b \in KnowledgeBases, NEW rd, NEW stl,
           "changes" \in Channels, OnTrack("changes", "baseline", fr, q, v, l, ms, b, rd, stl)
    PROVE  OnTrack("changes", "waiting", fr, q, v, FilesSnapshot(b),
                   IF v = None THEN {} ELSE Differing(v, FilesSnapshot(b)), b, rd, stl)
<1> DEFINE base == FilesSnapshot(b)
           mt == IF v = None THEN {} ELSE Differing(v, base)
<1>1. /\ base \in FileMaps /\ base \in Snapshots("changes")
  BY FilesAreMaps, Tables DEF Project
<1>2. /\ Pending("baseline", fr, q) = q /\ Pending("waiting", fr, q) = q
      /\ Early("baseline", fr) /\ ~Early("waiting", fr)
  BY DEF Pending, Early
<1>3. (v = None /\ q = <<Ack>>) \/ (v \in FileMaps /\ q = <<>>)
  BY <1>2 DEF OnTrack, ChangesTrack
<1>4. PICK h : /\ Leads(<<>>, base, h)
               /\ \A x, m : (\A f \in Files \ m : Same(x, base, f))
                               => Agrees(x, <<>>, base, m, h)
  BY <1>1, LeadsNowhere
<1>5. ChangesTrack("waiting", fr, q, v, base, mt, b, stl)
  <2>1. CASE v = None /\ q = <<Ack>>
    <3>1. q # <<>> /\ Head(q) = Ack /\ Tail(q) = <<>>
      BY <2>1
    <3> HIDE DEF base, mt
    <3>2. QED
      BY <1>1, <1>2, <1>4, <2>1, <3>1 DEF ChangesTrack, base
  <2>2. CASE v \in FileMaps /\ q = <<>>
    <3>1. mt = Differing(v, base)
      BY <2>2, FileMapsAre
    <3>2. \A f \in Files \ mt : Same(v, base, f)
      BY <3>1 DEF Differing, Same
    <3>3. Agrees(v, <<>>, base, mt, h)
      BY <1>4, <3>2
    <3> HIDE DEF base, mt
    <3>4. QED
      BY <1>1, <1>2, <1>4, <2>2, <3>3 DEF ChangesTrack, base
  <2>3. QED
    BY <1>3, <2>1, <2>2
<1>6. QED
  BY <1>5 DEF OnTrack, MapChannels, Stages

\* A lifecycle task reads the version,
LEMMA ProbeVersionTracks ==
    ASSUME NEW fr, NEW q, NEW v, NEW l, NEW ms, NEW b, NEW rd, NEW stl, NEW n,
           OnTrack("lifecycle", "probe", fr, q, v, l, ms, b, rd, stl)
    PROVE  OnTrack("lifecycle", "was", fr, q, v, <<n>>, ms, b, rd, stl)
<1>1. /\ Pending("probe", fr, q) = q /\ Pending("was", fr, q) = q
      /\ Early("probe", fr) /\ Early("was", fr) /\ ~Fresh("was", fr, stl)
  BY DEF Pending, Early, Fresh
<1>2. LifeTrack("was", fr, q, v, <<n>>, rd, stl)
  BY <1>1 DEF OnTrack, LifeTrack
<1>3. QED
  BY <1>2 DEF OnTrack, MapChannels, Stages

\* the state it will compare with,
LEMMA ProbeStateTracks ==
    ASSUME NEW fr, NEW q, NEW v, NEW l, NEW ms, NEW b, NEW rd \in BOOLEAN, NEW stl,
           OnTrack("lifecycle", "was", fr, q, v, l, ms, b, rd, stl)
    PROVE  OnTrack("lifecycle", "payload", fr, q, v, Append(l, rd), ms, b, rd, stl)
<1>1. /\ Pending("payload", fr, q) = q /\ Pending("was", fr, q) = q
      /\ Early("payload", fr) /\ Early("was", fr) /\ ~Fresh("payload", fr, stl)
  BY DEF Pending, Early, Fresh
<1>2. PICK n : l = <<n>>
  BY DEF OnTrack, LifeTrack
<1>3. Append(l, rd) = <<n, rd>>
  <2> DEFINE A == Append(<<n>>, rd)
             B == <<n, rd>>
  <2>1. /\ A \in Seq({n, rd}) /\ Len(A) = 2 /\ A[1] = n /\ A[2] = rd
        /\ B \in Seq({n, rd}) /\ Len(B) = 2 /\ B[1] = n /\ B[2] = rd
    OBVIOUS
  <2>2. A = B
    <3> HIDE DEF A, B
    <3>1. \A i \in 1..2 : i = 1 \/ i = 2
      OBVIOUS
    <3>2. \A i \in 1..Len(A) : A[i] = B[i]
      BY <2>1, <3>1
    <3>3. QED
      BY <2>1, <3>2
  <2>3. QED
    BY <1>2, <2>2
<1>4. LifeTrack("payload", fr, q, v, <<n, rd>>, rd, stl)
  BY <1>1 DEF OnTrack, LifeTrack
<1>5. QED
  BY <1>3, <1>4 DEF OnTrack, MapChannels, Stages

\* and the state it sends, which may be a later one: ready stays ready.
LEMMA ProbePayloadTracks ==
    ASSUME NEW fr, NEW q, NEW v, NEW l, NEW ms, NEW b, NEW rd \in BOOLEAN, NEW stl, NEW at,
           OnTrack("lifecycle", "payload", fr, q, v, l, ms, b, rd, stl)
    PROVE  OnTrack("lifecycle", "sending", InitialValue(at, rd), q, v, l[2], ms, b, rd, stl)
<1> DEFINE g == InitialValue(at, rd)
<1>1. g.type = "initial" /\ g.payload = rd
  BY DEF InitialValue
<1> HIDE DEF g
<1>2. /\ Pending("payload", fr, q) = q /\ Pending("sending", g, q) = Append(q, g)
      /\ Early("payload", fr) /\ ~Early("sending", g)
  BY <1>1 DEF Pending, Early
<1>3. PICK n, c : l = <<n, c>> /\ c \in BOOLEAN /\ (c => rd)
  BY DEF OnTrack, LifeTrack
<1>4. l[2] = c
  BY <1>3
<1>5. Chain("lifecycle", v, q, None)
  BY <1>2 DEF OnTrack, LifeTrack
<1>6. Chain("lifecycle", v, Append(q, g), rd)
  <2>1. Took("lifecycle", None, g) = rd
    BY <1>1 DEF Took
  <2>2. QED
    BY <1>5, <2>1, ChainAppend DEF OnTrack
<1>7. LifeTrack("sending", g, q, v, c, rd, stl)
  BY <1>2, <1>3, <1>6 DEF LifeTrack
<1>8. QED
  BY <1>1, <1>4, <1>7 DEF OnTrack, MapChannels, Stages, g

\* A task at the gate has nothing to say yet.
LEMMA GateTracks ==
    ASSUME NEW ch \in Channels, NEW fr, NEW q, NEW v, NEW l, NEW ms, NEW b, NEW rd,
           NEW stl, NEW slt, OnTrack(ch, "gate", fr, q, v, l, ms, b, rd, stl)
    PROVE  /\ OnTrack(ch, "gate", fr, q, v, l, ms, b, rd, slt)
           /\ OnTrack(ch, "snapshot", fr, q, v, l, ms, b, rd, stl)
           /\ ch \in MapChannels
<1>1. /\ Pending("gate", fr, q) = q /\ Pending("snapshot", fr, q) = q
      /\ Early("gate", fr) /\ Early("snapshot", fr)
      /\ \A x : ~Fresh("gate", fr, x) /\ ~Fresh("snapshot", fr, x)
  BY DEF Pending, Early, Fresh
<1>2. ch \in MapChannels /\ ch # "changes" /\ ch # "lifecycle"
  BY ChannelIs DEF OnTrack, Stages, MapChannels
<1>3. MapTrack(ch, "gate", fr, q, v, l, b, stl)
  BY <1>2 DEF OnTrack
<1>4. /\ MapTrack(ch, "gate", fr, q, v, l, b, slt)
      /\ MapTrack(ch, "snapshot", fr, q, v, l, b, stl)
  BY <1>1, <1>3 DEF MapTrack
<1>5. QED
  BY <1>2, <1>4 DEF OnTrack, Stages

\* The initial value is the projection of what is held now.
LEMMA InitialTracks ==
    ASSUME NEW ch \in Channels, NEW fr, NEW q, NEW v, NEW l, NEW ms,
           NEW b \in KnowledgeBases, NEW rd, NEW stl, NEW at,
           OnTrack(ch, "snapshot", fr, q, v, l, ms, b, rd, stl)
    PROVE  OnTrack(ch, "sending", InitialValue(at, View(ch, b)), q, v, Snapshot(ch, b),
                   ms, b, rd, stl)
<1> DEFINE g == InitialValue(at, View(ch, b))
<1>1. g.type = "initial" /\ g.payload = View(ch, b)
  BY DEF InitialValue
<1> HIDE DEF g
<1>2. /\ Pending("snapshot", fr, q) = q /\ Pending("sending", g, q) = Append(q, g)
      /\ Early("snapshot", fr) /\ ~Early("sending", g)
  BY <1>1 DEF Pending, Early
<1>3. ch \in MapChannels /\ ch # "changes" /\ ch # "lifecycle"
  BY ChannelIs DEF OnTrack, Stages, MapChannels
<1>4. Chain(ch, v, q, None)
  BY <1>2, <1>3 DEF OnTrack, MapTrack
<1>5. Chain(ch, v, Append(q, g), View(ch, b))
  <2>1. Took(ch, None, g) = View(ch, b)
    BY <1>1 DEF Took
  <2>2. QED
    BY <1>4, <2>1, ChainAppend DEF OnTrack
<1>6. MapTrack(ch, "sending", g, q, v, Snapshot(ch, b), b, stl)
  BY <1>2, <1>5, Tables DEF MapTrack
<1>7. QED
  BY <1>1, <1>3, <1>6 DEF OnTrack, Stages, g

\* A wake-up taken: the task looks before it waits again.
LEMMA WakeTracks ==
    ASSUME NEW ch, NEW fr, NEW q, NEW v, NEW l, NEW ms, NEW b, NEW rd, NEW stl, NEW slt,
           OnTrack(ch, "waiting", fr, q, v, l, ms, b, rd, stl)
    PROVE  OnTrack(ch, "woken", fr, q, v, l, ms, b, rd, slt)
<1>1. /\ Pending("waiting", fr, q) = q /\ Pending("woken", fr, q) = q
      /\ ~Early("waiting", fr) /\ ~Early("woken", fr) /\ ~Fresh("woken", fr, slt)
  BY DEF Pending, Early, Fresh
<1>2. ch = "lifecycle" => LifeTrack("woken", fr, q, v, l, rd, slt)
  BY <1>1 DEF OnTrack, LifeTrack
<1>3. ch = "changes" => ChangesTrack("woken", fr, q, v, l, ms, b, slt)
  BY <1>1 DEF OnTrack, ChangesTrack
<1>4. ch \in MapChannels => MapTrack(ch, "woken", fr, q, v, l, b, slt)
  BY <1>1 DEF OnTrack, MapTrack
<1>5. QED
  BY <1>2, <1>3, <1>4 DEF OnTrack, Stages
\* A woken task reports what changed since it last reported, or nothing.
LEMMA DeltaTracks ==
    ASSUME NEW ch \in Channels, ch # "lifecycle", NEW fr, NEW q, NEW v, NEW l, NEW ms,
           NEW b \in KnowledgeBases, NEW rd, NEW stl, NEW at,
           OnTrack(ch, "woken", fr, q, v, l, ms, b, rd, stl)
    PROVE  LET cur == Snapshot(ch, b)
               d   == Delta(ch, l, cur)
           IN  IF IsEmptyDelta(ch, d)
               THEN OnTrack(ch, "waiting", fr, q, v, l, ms, b, rd, stl)
               ELSE OnTrack(ch, "sending", ChangeEvent(at, d), q, v, cur, ms, b, rd, stl)
<1> DEFINE cur == Snapshot(ch, b)
           d == Delta(ch, l, cur)
           g == ChangeEvent(at, d)
<1>1. g.type = "event" /\ g.delta = d
  BY DEF ChangeEvent
<1>2. /\ Pending("woken", fr, q) = q /\ Pending("waiting", fr, q) = q
      /\ Pending("sending", g, q) = Append(q, g)
      /\ ~Early("woken", fr) /\ ~Early("waiting", fr) /\ ~Early("sending", g)
  BY <1>1 DEF Pending, Early
<1>3. IsList(q)
  BY DEF OnTrack
<1>4. CASE ch = "changes"
  <2>1. ChangesTrack("woken", fr, q, v, l, ms, b, stl)
    BY <1>4 DEF OnTrack
  <2>2. l \in Snapshots("changes") /\ cur \in Snapshots("changes")
    BY <1>2, <1>4, <2>1, Tables DEF ChangesTrack
  <2>3. /\ d = NetChange(ch, l, cur)
        /\ IsEmptyDelta(ch, d) => Kept(ch, l) = View(ch, b)
    BY <1>4, <2>2, ReportsAddUp
  <2>4. d = FilesDelta(l, cur)
    BY <1>4, <2>3 DEF NetChange
  <2>5. cur = FilesSnapshot(b) /\ View(ch, b) = cur /\ Kept(ch, l) = l
    BY <1>4, Tables DEF Project, Kept
  <2>6. l \in FileMaps /\ cur \in FileMaps
    <3>1. \A x \in Snapshots("changes") : x \in FileMaps
      BY <1>4, FilesAreMaps, Tables DEF Snapshots, Project
    <3>2. QED
      BY <2>2, <3>1
  <2>7. \/ v = None /\ q # <<>> /\ Head(q) = Ack /\ \E h : Leads(Tail(q), l, h)
        \/ v \in FileMaps /\ \E h : Leads(q, l, h) /\ Agrees(v, q, l, ms, h)
    BY <1>2, <2>1 DEF ChangesTrack
  <2>8. CASE IsEmptyDelta(ch, d)
    <3>1. l = FilesSnapshot(b)
      BY <2>3, <2>5, <2>8
    <3>2. ChangesTrack("waiting", fr, q, v, l, ms, b, stl)
      BY <1>2, <2>2, <2>7, <3>1 DEF ChangesTrack
    <3>3. OnTrack(ch, "waiting", fr, q, v, l, ms, b, rd, stl)
      BY <1>3, <1>4, <3>2 DEF OnTrack, MapChannels, Stages
    <3>4. QED
      BY <2>8, <3>3
  <2>9. CASE ~IsEmptyDelta(ch, d)
    <3>0. g.type = "event" /\ g.delta = FilesDelta(l, cur)
      BY <1>1, <2>4
    <3> HIDE DEF g, cur, d
    <3>1. ChangesTrack("sending", g, q, v, cur, ms, b, stl)
      <4>1. CASE v = None /\ q # <<>> /\ Head(q) = Ack /\ \E h : Leads(Tail(q), l, h)
        <5>1. PICK h : Leads(Tail(q), l, h)
          BY <4>1
        <5>2. IsList(Tail(q))
          BY <1>3, <4>1, ListIs
        <5>3. \E x : Leads(Append(Tail(q), g), cur, x)
          BY <2>6, <3>0, <5>1, <5>2, LeadsAppend
        <5>4. /\ Append(q, g) # <<>> /\ Head(Append(q, g)) = Ack
              /\ Tail(Append(q, g)) = Append(Tail(q), g)
          BY <1>3, <4>1, ListIs
        <5>5. QED
          BY <1>2, <2>2, <2>5, <4>1, <5>3, <5>4 DEF ChangesTrack
      <4>2. CASE v \in FileMaps /\ \E h : Leads(q, l, h) /\ Agrees(v, q, l, ms, h)
        <5>1. PICK h : Leads(q, l, h) /\ Agrees(v, q, l, ms, h)
          BY <4>2
        <5>2. \E x : Leads(Append(q, g), cur, x) /\ Agrees(v, Append(q, g), cur, ms, x)
          BY <1>3, <2>6, <3>0, <5>1, LeadsAppend
        <5>3. QED
          BY <1>2, <2>2, <2>5, <4>2, <5>2 DEF ChangesTrack
      <4>3. QED
        BY <2>7, <4>1, <4>2
    <3>2. OnTrack(ch, "sending", g, q, v, cur, ms, b, rd, stl)
      BY <1>1, <1>3, <1>4, <3>1 DEF OnTrack, MapChannels, Stages
    <3>3. QED
      BY <2>9, <3>2 DEF g, cur, d
  <2>10. QED
    BY <2>8, <2>9
<1>5. CASE ch # "changes"
  <2>1. ch \in MapChannels
    BY <1>5, ChannelIs
  <2>2. MapTrack(ch, "woken", fr, q, v, l, b, stl)
    BY <2>1 DEF OnTrack
  <2>3. l \in Snapshots(ch) /\ Chain(ch, v, q, Kept(ch, l))
    BY <1>2, <2>2 DEF MapTrack
  <2>4. /\ Applied(ch, Kept(ch, l), d) = View(ch, b)
        /\ IsEmptyDelta(ch, d) => Kept(ch, l) = View(ch, b)
    BY <2>3, ReportsAddUp
  <2>5. CASE IsEmptyDelta(ch, d)
    <3>1. MapTrack(ch, "waiting", fr, q, v, l, b, stl)
      BY <1>2, <2>3, <2>4, <2>5 DEF MapTrack
    <3>2. OnTrack(ch, "waiting", fr, q, v, l, ms, b, rd, stl)
      BY <1>3, <1>5, <3>1 DEF OnTrack, Stages
    <3>3. QED
      BY <2>5, <3>2
  <2>6. CASE ~IsEmptyDelta(ch, d)
    <3>1. Took(ch, Kept(ch, l), g) = View(ch, b)
      BY <1>1, <2>4 DEF Took
    <3>2. View(ch, b) = Kept(ch, cur) /\ cur \in Snapshots(ch)
      BY Tables
    <3>3. Chain(ch, v, Append(q, g), Kept(ch, cur))
      BY <1>3, <2>3, <3>1, <3>2, ChainAppend
    <3>4. MapTrack(ch, "sending", g, q, v, cur, b, stl)
      <4> HIDE DEF g, cur
      <4>1. QED
        BY <1>2, <3>2, <3>3 DEF MapTrack
    <3>5. OnTrack(ch, "sending", g, q, v, cur, ms, b, rd, stl)
      <4> HIDE DEF g, cur
      <4>1. QED
        BY <1>1, <1>3, <1>5, <3>4 DEF OnTrack, Stages
    <3>6. QED
      BY <2>6, <3>5
  <2>7. QED
    BY <2>5, <2>6
<1>6. QED
  BY <1>4, <1>5

\* A woken lifecycle task reports that the engine became ready, once.
LEMMA ReadyTracks ==
    ASSUME NEW fr, NEW q, NEW v, NEW l, NEW ms, NEW b, NEW rd \in BOOLEAN, NEW stl, NEW at,
           OnTrack("lifecycle", "woken", fr, q, v, l, ms, b, rd, stl)
    PROVE  IF rd /\ ~l
           THEN OnTrack("lifecycle", "sending", ChangeEvent(at, rd), q, v, rd, ms, b, rd, stl)
           ELSE OnTrack("lifecycle", "waiting", fr, q, v, rd, ms, b, rd, stl)
<1> DEFINE g == ChangeEvent(at, rd)
<1>1. g.type = "event" /\ g.delta = rd
  BY DEF ChangeEvent
<1> HIDE DEF g
<1>2. /\ Pending("woken", fr, q) = q /\ Pending("waiting", fr, q) = q
      /\ Pending("sending", g, q) = Append(q, g)
      /\ ~Early("woken", fr) /\ ~Early("waiting", fr) /\ ~Early("sending", g)
  BY <1>1 DEF Pending, Early
<1>3. IsList(q)
  BY DEF OnTrack
<1>4. PICK w : /\ Chain("lifecycle", v, q, w)
               /\ l \in BOOLEAN /\ w \in BOOLEAN /\ (l => w) /\ (w => rd)
  BY <1>2 DEF OnTrack, LifeTrack
<1>5. CASE rd /\ ~l
  <2>1. Took("lifecycle", w, g) = rd
    BY <1>1 DEF Took
  <2>2. Chain("lifecycle", v, Append(q, g), rd)
    BY <1>3, <1>4, <2>1, ChainAppend
  <2>3. LifeTrack("sending", g, q, v, rd, rd, stl)
    BY <1>2, <1>5, <2>2 DEF LifeTrack
  <2>4. OnTrack("lifecycle", "sending", g, q, v, rd, ms, b, rd, stl)
    BY <1>1, <1>3, <2>3 DEF OnTrack, MapChannels, Stages
  <2>5. QED
    BY <1>5, <2>4 DEF g
<1>6. CASE ~(rd /\ ~l)
  <2>1. w = rd
    BY <1>4, <1>6
  <2>2. LifeTrack("waiting", fr, q, v, rd, rd, stl)
    BY <1>2, <1>4, <2>1 DEF LifeTrack
  <2>3. OnTrack("lifecycle", "waiting", fr, q, v, rd, ms, b, rd, stl)
    BY <1>3, <2>2 DEF OnTrack, MapChannels, Stages
  <2>4. QED
    BY <1>6, <2>3
<1>7. QED
  BY <1>5, <1>6

-----------------------------------------------------------------------------
(* The inductive invariant.                                                *)

\* A subscription is on track with what the engine holds.
Tracked(s) ==
    OnTrack(channel[s], stage[s], frame[s], queue[s], view[s], last[s], missed[s],
            kb, version > 0, swapped \/ seen[s] # chan)

\* What the engine publishes.
HeldInv ==
    /\ kb \in KnowledgeBases /\ version \in Nat /\ swapped \in BOOLEAN /\ chan \in Nat
    /\ version = 0 => \A f \in Files : kb[f] = Gone

\* Every subscription has a place in every table.
Domains ==
    /\ DOMAIN channel = Subs /\ DOMAIN stage = Subs /\ DOMAIN frame = Subs
    /\ DOMAIN queue = Subs /\ DOMAIN view = Subs /\ DOMAIN last = Subs
    /\ DOMAIN missed = Subs /\ DOMAIN seen = Subs /\ DOMAIN stamp = Subs

\* A subscription over has nothing in its queue; one that lasts is on track.
SubInv(s) ==
    /\ seen[s] \in Nat /\ seen[s] <= chan
    /\ ~Live(s) => queue[s] = <<>>
    /\ Live(s) => channel[s] \in Channels /\ Tracked(s)
    /\ stage[s] = "off" => view[s] = None /\ last[s] = None

\* The inductive invariant.
FramesInv == HeldInv /\ Domains /\ \A s \in Subs : SubInv(s)

\* Before the first build there are no files to read.
LEMMA NoFiles ==
    ASSUME HeldInv
    PROVE  (IF version = 0 THEN <<>> ELSE FilesSnapshot(kb)) = FilesSnapshot(kb)
<1>1. SUFFICES ASSUME version = 0 PROVE <<>> = FilesSnapshot(kb)
  OBVIOUS
<1>2. Catalog(kb) = {}
  BY <1>1 DEF HeldInv, Catalog
<1>3. DOMAIN FilesSnapshot(kb) = {} /\ IsMap(FilesSnapshot(kb))
  BY <1>2, ProjectionsAreMaps DEF FilesSnapshot
<1> DEFINE m == FilesSnapshot(kb)
<1>4. m = [i \in {} |-> m[i]] /\ <<>> = [i \in {} |-> m[i]]
  <2> HIDE DEF m
  <2>1. <<>> = [i \in {} |-> m[i]]
    OBVIOUS
  <2>2. QED
    BY <1>3, <2>1 DEF IsMap, m
<1>5. QED
  BY <1>4

\* FramesInv holds at the start.
LEMMA InitFrames == Init => FramesInv
<1>1. SUFFICES ASSUME Init PROVE FramesInv
  OBVIOUS
<1>2. HeldInv
  BY <1>1 DEF Init, HeldInv, KnowledgeBases
<1>3. Domains
  BY <1>1 DEF Init, Domains
<1>4. ASSUME NEW s \in Subs
      PROVE  SubInv(s)
  BY <1>1 DEF Init, SubInv, Live
<1>5. QED
  BY <1>2, <1>3, <1>4 DEF FramesInv

\* A step of the subscription s.
StepOf(s) ==
    /\ UNCHANGED heldVars /\ Domains'
    /\ \A t \in Subs \ {s} :
         /\ channel'[t] = channel[t] /\ stage'[t] = stage[t] /\ frame'[t] = frame[t]
         /\ queue'[t] = queue[t] /\ view'[t] = view[t] /\ last'[t] = last[t]
         /\ missed'[t] = missed[t] /\ seen'[t] = seen[t]

\* A step of one subscription leaves the others on their tracks.
LEMMA OthersKeep ==
    ASSUME FramesInv, NEW s \in Subs, StepOf(s), SubInv(s)'
    PROVE  FramesInv'
<1>1. HeldInv' /\ Domains'
  BY DEF FramesInv, HeldInv, StepOf, heldVars
<1>2. ASSUME NEW t \in Subs, t # s
      PROVE  SubInv(t)'
  <2>1. /\ channel'[t] = channel[t] /\ stage'[t] = stage[t] /\ frame'[t] = frame[t]
        /\ queue'[t] = queue[t] /\ view'[t] = view[t] /\ last'[t] = last[t]
        /\ missed'[t] = missed[t] /\ seen'[t] = seen[t]
        /\ kb' = kb /\ version' = version /\ swapped' = swapped /\ chan' = chan
    BY <1>2 DEF StepOf, heldVars
  <2>2. SubInv(t)
    BY DEF FramesInv
  <2>3. Tracked(t) => Tracked(t)'
    BY <2>1 DEF Tracked
  <2>4. QED
    BY <2>1, <2>2, <2>3 DEF SubInv, Live
<1>3. QED
  BY <1>1, <1>2 DEF FramesInv

\* FramesInv is kept by a build swapped in,
LEMMA PublishKeepsFrames == FramesInv /\ Publish => FramesInv'
<1>1. SUFFICES ASSUME FramesInv, Publish PROVE FramesInv'
  OBVIOUS
<1>2. /\ kb' \in KnowledgeBases /\ version' = version + 1 /\ swapped' = TRUE /\ chan' = chan
      /\ channel' = channel /\ stage' = stage /\ seen' = seen /\ last' = last
      /\ frame' = frame /\ missed' = missed /\ queue' = queue /\ view' = view
      /\ stamp' = stamp
  BY <1>1 DEF Publish, subVars, clientVars
<1>3. HeldInv' /\ Domains'
  BY <1>1, <1>2 DEF FramesInv, HeldInv, Domains
<1>4. ASSUME NEW s \in Subs
      PROVE  SubInv(s)'
  <2>1. SubInv(s)
    BY <1>1 DEF FramesInv
  <2>2. /\ (version > 0) \in BOOLEAN /\ (version' > 0) = TRUE
        /\ (swapped' \/ seen'[s] # chan') = TRUE
    BY <1>1, <1>2 DEF FramesInv, HeldInv
  <2>3. Tracked(s) => Tracked(s)'
    <3>1. SUFFICES ASSUME Tracked(s) PROVE Tracked(s)'
      OBVIOUS
    <3>2. OnTrack(channel[s], stage[s], frame[s], queue[s], view[s], last[s], missed[s],
                  kb', TRUE, TRUE)
      BY <2>2, <3>1, PublishTracks DEF Tracked
    <3>3. QED
      BY <1>2, <2>2, <3>2 DEF Tracked
  <2>4. QED
    BY <1>2, <2>1, <2>3 DEF SubInv, Live
<1>5. QED
  BY <1>3, <1>4 DEF FramesInv

\* by the wake-up of its subscribers,
LEMMA BroadcastKeepsFrames == FramesInv /\ Broadcast => FramesInv'
<1>1. SUFFICES ASSUME FramesInv, Broadcast PROVE FramesInv'
  OBVIOUS
<1>2. /\ kb' = kb /\ version' = version /\ swapped' = FALSE /\ swapped = TRUE
      /\ channel' = channel /\ stage' = stage /\ seen' = seen /\ last' = last
      /\ frame' = frame /\ missed' = missed /\ queue' = queue /\ view' = view
      /\ stamp' = stamp
      /\ chan' = chan + 1 \/ (chan' = chan /\ \A s \in Subs : ~Live(s))
  BY <1>1 DEF Broadcast, subVars, clientVars, FramesInv, HeldInv
<1>3. HeldInv' /\ Domains'
  <2>1. HeldInv /\ Domains
    BY <1>1 DEF FramesInv
  <2>2. chan' \in Nat
    BY <1>2, <2>1 DEF HeldInv
  <2>3. HeldInv'
    BY <1>2, <2>1, <2>2 DEF HeldInv
  <2>4. QED
    BY <1>2, <2>1, <2>3 DEF Domains
<1>4. ASSUME NEW s \in Subs
      PROVE  SubInv(s)'
  <2>1. SubInv(s) /\ chan \in Nat
    BY <1>1 DEF FramesInv, HeldInv
  <2>2. CASE Live(s)
    <3>1. chan' = chan + 1 /\ seen[s] \in Nat /\ seen[s] <= chan
      BY <1>2, <2>1, <2>2 DEF SubInv
    <3>2. (swapped \/ seen[s] # chan) = TRUE /\ (swapped' \/ seen'[s] # chan') = TRUE
      BY <1>2, <2>1, <3>1
    <3>3. Tracked(s)'
      BY <1>2, <2>1, <2>2, <3>2 DEF Tracked, SubInv
    <3>4. QED
      BY <1>2, <2>1, <2>2, <3>1, <3>3 DEF SubInv, Live
  <2>3. CASE ~Live(s)
    BY <1>2, <2>1, <2>3 DEF SubInv, Live
  <2>4. QED
    BY <2>2, <2>3
<1>5. QED
  BY <1>3, <1>4 DEF FramesInv

\* by a new subscription,
LEMMA SubscribeKeepsFrames ==
    ASSUME NEW s \in Subs, NEW ch \in Channels
    PROVE  FramesInv /\ Subscribe(s, ch) => FramesInv'
<1>1. SUFFICES ASSUME FramesInv, Subscribe(s, ch) PROVE FramesInv'
  OBVIOUS
<1>2. /\ stage[s] = "off" /\ SubInv(s) /\ Domains /\ chan \in Nat
      /\ channel' = [channel EXCEPT ![s] = ch] /\ seen' = [seen EXCEPT ![s] = chan]
      /\ frame' = [frame EXCEPT ![s] = Ack] /\ stage' = [stage EXCEPT ![s] = "sending"]
      /\ UNCHANGED <<heldVars, last, missed, queue, view, stamp>>
  BY <1>1 DEF Subscribe, Emit, clientVars, FramesInv, HeldInv
<1>3. StepOf(s)
  BY <1>2 DEF StepOf, Domains, heldVars
<1>4. /\ channel'[s] = ch /\ seen'[s] = chan /\ frame'[s] = Ack /\ stage'[s] = "sending"
      /\ queue'[s] = <<>> /\ view'[s] = None /\ last'[s] = None /\ chan' = chan
  BY <1>2 DEF Domains, SubInv, Live, heldVars
<1>5. Tracked(s)'
  BY <1>4, SubscribeTracks DEF Tracked
<1>6. SubInv(s)'
  BY <1>2, <1>4, <1>5 DEF SubInv, Live
<1>7. QED
  BY <1>1, <1>3, <1>6, OthersKeep

\* by a frame sent,
LEMMA SendKeepsFrames ==
    ASSUME NEW s \in Subs
    PROVE  FramesInv /\ Send(s) => FramesInv'
<1>1. SUFFICES ASSUME FramesInv, Send(s) PROVE FramesInv'
  OBVIOUS
<1>2. /\ stage[s] = "sending" /\ SubInv(s) /\ Domains
      /\ queue' = [queue EXCEPT ![s] = Append(queue[s], frame[s])]
      /\ stage' = [stage EXCEPT ![s] = After(channel[s], frame[s])]
      /\ frame' = [frame EXCEPT ![s] = None]
      /\ UNCHANGED <<heldVars, channel, seen, last, missed, view, stamp>>
  BY <1>1 DEF Send, AfterSend, After, FramesInv
<1>3. StepOf(s)
  BY <1>2 DEF StepOf, Domains, heldVars
<1>4. /\ queue'[s] = Append(queue[s], frame[s]) /\ frame'[s] = None
      /\ stage'[s] = After(channel[s], frame[s])
      /\ channel'[s] = channel[s] /\ view'[s] = view[s] /\ last'[s] = last[s]
      /\ missed'[s] = missed[s] /\ seen'[s] = seen[s]
      /\ kb' = kb /\ version' = version /\ swapped' = swapped /\ chan' = chan
  BY <1>2 DEF Domains, heldVars
<1>5. Live(s) /\ Tracked(s) /\ channel[s] \in Channels
  BY <1>2 DEF SubInv, Live
<1>6. Tracked(s)'
  <2>1. OnTrack(channel[s], After(channel[s], frame[s]), None, Append(queue[s], frame[s]),
                view[s], last[s], missed[s], kb, version > 0, swapped \/ seen[s] # chan)
    BY <1>2, <1>5, SendTracks DEF Tracked
  <2>2. QED
    BY <1>4, <2>1 DEF Tracked
<1>7. After(channel[s], frame[s]) \notin {"off", "ended"}
  BY DEF After, AfterAck
<1>8. SubInv(s)'
  BY <1>2, <1>4, <1>5, <1>6, <1>7 DEF SubInv, Live
<1>9. QED
  BY <1>1, <1>3, <1>8, OthersKeep

\* by a frame received,
LEMMA ReceiveKeepsFrames ==
    ASSUME NEW s \in Subs
    PROVE  FramesInv /\ Receive(s) => FramesInv'
<1>1. SUFFICES ASSUME FramesInv, Receive(s) PROVE FramesInv'
  OBVIOUS
<1> DEFINE f == Head(queue[s])
           read == FilesSnapshot(kb)
           own == f.type = "ack" /\ channel[s] = "changes"
           v2 == IF own THEN read ELSE Took(channel[s], view[s], f)
           ms2 == IF own /\ last[s] # None THEN Differing(read, last[s]) ELSE missed[s]
<1>2. /\ queue[s] # <<>> /\ SubInv(s) /\ Domains /\ HeldInv
      /\ queue' = [queue EXCEPT ![s] = Tail(queue[s])]
      /\ view' = [view EXCEPT ![s] = v2]
      /\ missed' = [missed EXCEPT ![s] = ms2]
      /\ DOMAIN stamp' = DOMAIN stamp
      /\ UNCHANGED <<heldVars, channel, stage, seen, last, frame>>
  BY <1>1, NoFiles DEF Receive, FramesInv
<1> HIDE DEF f, read, own, v2, ms2
<1>3. StepOf(s)
  BY <1>2 DEF StepOf, Domains, heldVars
<1>4. /\ queue'[s] = Tail(queue[s]) /\ view'[s] = v2 /\ missed'[s] = ms2
      /\ frame'[s] = frame[s] /\ stage'[s] = stage[s]
      /\ channel'[s] = channel[s] /\ last'[s] = last[s] /\ seen'[s] = seen[s]
      /\ kb' = kb /\ version' = version /\ swapped' = swapped /\ chan' = chan
  BY <1>2 DEF Domains, heldVars
<1>5. Live(s) /\ Tracked(s) /\ channel[s] \in Channels /\ kb \in KnowledgeBases
  BY <1>2 DEF SubInv, HeldInv
<1>6. Tracked(s)'
  <2>1. OnTrack(channel[s], stage[s], frame[s], Tail(queue[s]), v2, last[s], ms2,
                kb, version > 0, swapped \/ seen[s] # chan)
    BY <1>2, <1>5, ReceiveTracks DEF Tracked, f, read, own, v2, ms2
  <2>2. QED
    BY <1>4, <2>1 DEF Tracked
<1>7. SubInv(s)'
  BY <1>2, <1>4, <1>5, <1>6 DEF SubInv, Live
<1>8. QED
  BY <1>1, <1>3, <1>7, OthersKeep

\* by a connection dropped,
LEMMA DropKeepsFrames ==
    ASSUME NEW s \in Subs
    PROVE  FramesInv /\ Drop(s) => FramesInv'
<1>1. SUFFICES ASSUME FramesInv, Drop(s) PROVE FramesInv'
  OBVIOUS
<1>2. SubInv(s) /\ Domains
  BY <1>1 DEF FramesInv
<1>3. StepOf(s)
  BY <1>1, <1>2 DEF Drop, StepOf, Domains, heldVars
<1>4. /\ stage'[s] = "ended" /\ queue'[s] = <<>> /\ seen'[s] = seen[s] /\ chan' = chan
  BY <1>1, <1>2 DEF Drop, Domains, heldVars
<1>5. SubInv(s)'
  BY <1>2, <1>4 DEF SubInv, Live
<1>6. QED
  BY <1>1, <1>3, <1>5, OthersKeep

\* What each remaining step of a task leaves alone: its queue, its client and
\* the held state.
Quiet(s) ==
    /\ Domains' /\ UNCHANGED <<heldVars, channel, queue, view>>
    /\ \A t \in Subs \ {s} :
         /\ stage'[t] = stage[t] /\ frame'[t] = frame[t] /\ last'[t] = last[t]
         /\ missed'[t] = missed[t] /\ seen'[t] = seen[t]

\* and by a step of a task that leaves its queue and client alone and its frame,
\* stage and last report on track.
LEMMA TaskKeepsFrames ==
    ASSUME NEW s \in Subs, FramesInv, Quiet(s), Live(s),
           stage'[s] \notin {"off", "ended"}, seen'[s] \in {seen[s], chan},
           OnTrack(channel[s], stage'[s], frame'[s], queue[s], view[s], last'[s],
                   missed'[s], kb, version > 0, swapped \/ seen'[s] # chan)
    PROVE  FramesInv'
<1>1. SubInv(s) /\ HeldInv
  BY DEF FramesInv
<1>2. /\ channel'[s] = channel[s] /\ queue'[s] = queue[s] /\ view'[s] = view[s]
      /\ kb' = kb /\ version' = version /\ swapped' = swapped /\ chan' = chan
  BY DEF Quiet, heldVars
<1>3. Tracked(s)'
  BY <1>2 DEF Tracked
<1>4. SubInv(s)'
  BY <1>1, <1>2, <1>3 DEF SubInv, Live, HeldInv
<1>5. StepOf(s)
  BY DEF StepOf, Quiet
<1>6. QED
  BY <1>4, <1>5, OthersKeep

\* Every step of a task.
LEMMA TaskStepKeepsFrames ==
    ASSUME NEW s \in Subs
    PROVE  FramesInv /\ TaskStep(s) => FramesInv'
<1>1. SUFFICES ASSUME FramesInv, TaskStep(s) PROVE FramesInv'
  OBVIOUS
<1>2. /\ SubInv(s) /\ Domains /\ HeldInv /\ kb \in KnowledgeBases
      /\ (version > 0) \in BOOLEAN
  BY <1>1 DEF FramesInv, HeldInv
<1>3. ASSUME Live(s)
      PROVE  channel[s] \in Channels /\ Tracked(s)
  BY <1>2, <1>3 DEF SubInv
<1> DEFINE rd == version > 0
           stl == swapped \/ seen[s] # chan
<1>4. CASE Send(s)
  BY <1>1, <1>4, SendKeepsFrames
<1>5. CASE Baseline(s)
  <2> DEFINE base == FilesSnapshot(kb)
             mt == IF view[s] = None THEN {} ELSE Differing(view[s], base)
  <2>1. /\ stage[s] = "baseline" /\ last' = [last EXCEPT ![s] = base]
        /\ missed' = [missed EXCEPT ![s] = mt]
        /\ stage' = [stage EXCEPT ![s] = "waiting"]
        /\ UNCHANGED <<frame, heldVars, channel, seen, queue, view, stamp>>
    BY <1>2, <1>5, NoFiles DEF Baseline, GoTo, clientVars
  <2>2. Live(s)
    BY <2>1 DEF Live
  <2> HIDE DEF base, mt
  <2>3. Quiet(s)
    BY <1>2, <2>1 DEF Quiet, Domains
  <2>4. /\ stage'[s] = "waiting" /\ frame'[s] = frame[s] /\ last'[s] = base
        /\ missed'[s] = mt /\ seen'[s] = seen[s]
    BY <1>2, <2>1 DEF Domains
  <2>5. channel[s] = "changes"
    BY <1>3, <2>1, <2>2 DEF Tracked, OnTrack, Stages
  <2>6. OnTrack("changes", "waiting", frame[s], queue[s], view[s], base, mt, kb, rd, stl)
    BY <1>2, <1>3, <2>1, <2>2, <2>5, BaselineTracks DEF Tracked, base, mt
  <2>7. QED
    BY <1>1, <2>2, <2>3, <2>4, <2>5, <2>6, TaskKeepsFrames
<1>6. CASE ProbeVersion(s)
  <2>1. /\ stage[s] = "probe" /\ last' = [last EXCEPT ![s] = <<version>>]
        /\ stage' = [stage EXCEPT ![s] = "was"]
        /\ UNCHANGED <<frame, heldVars, channel, seen, missed, queue, view, stamp>>
    BY <1>6 DEF ProbeVersion, GoTo, clientVars
  <2>2. Live(s)
    BY <2>1 DEF Live
  <2>3. Quiet(s)
    BY <1>2, <2>1 DEF Quiet, Domains
  <2>4. /\ stage'[s] = "was" /\ frame'[s] = frame[s] /\ last'[s] = <<version>>
        /\ missed'[s] = missed[s] /\ seen'[s] = seen[s]
    BY <1>2, <2>1 DEF Domains
  <2>5. channel[s] = "lifecycle"
    BY <1>3, <2>1, <2>2 DEF Tracked, OnTrack, Stages
  <2>6. OnTrack("lifecycle", "was", frame[s], queue[s], view[s], <<version>>, missed[s],
                kb, rd, stl)
    BY <1>3, <2>1, <2>2, <2>5, ProbeVersionTracks DEF Tracked
  <2>7. QED
    BY <1>1, <2>2, <2>3, <2>4, <2>5, <2>6, TaskKeepsFrames
<1>7. CASE ProbeState(s)
  <2>1. /\ stage[s] = "was" /\ last' = [last EXCEPT ![s] = Append(last[s], rd)]
        /\ stage' = [stage EXCEPT ![s] = "payload"]
        /\ UNCHANGED <<frame, heldVars, channel, seen, missed, queue, view, stamp>>
    BY <1>7 DEF ProbeState, GoTo, clientVars
  <2>2. Live(s)
    BY <2>1 DEF Live
  <2>3. Quiet(s)
    BY <1>2, <2>1 DEF Quiet, Domains
  <2>4. /\ stage'[s] = "payload" /\ frame'[s] = frame[s] /\ last'[s] = Append(last[s], rd)
        /\ missed'[s] = missed[s] /\ seen'[s] = seen[s]
    BY <1>2, <2>1 DEF Domains
  <2>5. channel[s] = "lifecycle"
    BY <1>3, <2>1, <2>2 DEF Tracked, OnTrack, Stages
  <2>6. OnTrack("lifecycle", "payload", frame[s], queue[s], view[s], Append(last[s], rd),
                missed[s], kb, rd, stl)
    BY <1>2, <1>3, <2>1, <2>2, <2>5, ProbeStateTracks DEF Tracked
  <2>7. QED
    BY <1>1, <2>2, <2>3, <2>4, <2>5, <2>6, TaskKeepsFrames
<1>8. CASE ProbePayload(s)
  <2> DEFINE g == InitialValue(last[s][1], rd)
  <2>1. /\ stage[s] = "payload" /\ last' = [last EXCEPT ![s] = last[s][2]]
        /\ frame' = [frame EXCEPT ![s] = g] /\ stage' = [stage EXCEPT ![s] = "sending"]
        /\ UNCHANGED <<heldVars, channel, seen, missed, queue, view, stamp>>
    BY <1>8 DEF ProbePayload, Emit, clientVars
  <2>2. Live(s)
    BY <2>1 DEF Live
  <2> HIDE DEF g
  <2>3. Quiet(s)
    BY <1>2, <2>1 DEF Quiet, Domains
  <2>4. /\ stage'[s] = "sending" /\ frame'[s] = g /\ last'[s] = last[s][2]
        /\ missed'[s] = missed[s] /\ seen'[s] = seen[s]
    BY <1>2, <2>1 DEF Domains
  <2>5. channel[s] = "lifecycle"
    BY <1>3, <2>1, <2>2 DEF Tracked, OnTrack, Stages
  <2>6. OnTrack("lifecycle", "sending", g, queue[s], view[s], last[s][2],
                missed[s], kb, rd, stl)
    BY <1>2, <1>3, <2>1, <2>2, <2>5, ProbePayloadTracks DEF Tracked, g
  <2>7. QED
    BY <1>1, <2>2, <2>3, <2>4, <2>5, <2>6, TaskKeepsFrames
<1>9. CASE Gate(s)
  <2>1. /\ stage[s] = "gate"
        /\ UNCHANGED <<frame, heldVars, channel, last, missed, queue, view, stamp>>
        /\ \/ stage' = [stage EXCEPT ![s] = "snapshot"] /\ seen' = seen
           \/ stage' = stage /\ seen' = [seen EXCEPT ![s] = chan]
    BY <1>9 DEF Gate, GoTo, clientVars
  <2>2. Live(s)
    BY <2>1 DEF Live
  <2>3. Quiet(s)
    BY <1>2, <2>1 DEF Quiet, Domains
  <2>4. /\ frame'[s] = frame[s] /\ last'[s] = last[s] /\ missed'[s] = missed[s]
        /\ \/ stage'[s] = "snapshot" /\ seen'[s] = seen[s]
           \/ stage'[s] = "gate" /\ seen'[s] = chan
    BY <1>2, <2>1 DEF Domains
  <2>5. OnTrack(channel[s], "gate", frame[s], queue[s], view[s], last[s], missed[s],
                kb, rd, stl)
    BY <1>3, <2>1, <2>2 DEF Tracked
  <2>6. OnTrack(channel[s], stage'[s], frame[s], queue[s], view[s], last[s], missed[s],
                kb, rd, swapped \/ seen'[s] # chan)
    BY <1>3, <2>2, <2>4, <2>5, GateTracks
  <2>7. QED
    BY <1>1, <2>2, <2>3, <2>4, <2>6, TaskKeepsFrames
<1>10. CASE ReportInitial(s)
  <2> DEFINE g == InitialValue(version, View(channel[s], kb))
             cur == Snapshot(channel[s], kb)
  <2>1. /\ stage[s] = "snapshot" /\ last' = [last EXCEPT ![s] = cur]
        /\ frame' = [frame EXCEPT ![s] = g] /\ stage' = [stage EXCEPT ![s] = "sending"]
        /\ UNCHANGED <<heldVars, channel, seen, missed, queue, view, stamp>>
    BY <1>10 DEF ReportInitial, Emit, clientVars
  <2>2. Live(s)
    BY <2>1 DEF Live
  <2> HIDE DEF g, cur
  <2>3. Quiet(s)
    BY <1>2, <2>1 DEF Quiet, Domains
  <2>4. /\ stage'[s] = "sending" /\ frame'[s] = g /\ last'[s] = cur
        /\ missed'[s] = missed[s] /\ seen'[s] = seen[s]
    BY <1>2, <2>1 DEF Domains
  <2>5. OnTrack(channel[s], "sending", g, queue[s], view[s], cur, missed[s], kb, rd, stl)
    BY <1>2, <1>3, <2>1, <2>2, InitialTracks DEF Tracked, g, cur
  <2>6. QED
    BY <1>1, <2>2, <2>3, <2>4, <2>5, TaskKeepsFrames
<1>11. CASE Wake(s)
  <2>1. /\ stage[s] = "waiting" /\ seen' = [seen EXCEPT ![s] = chan]
        /\ stage' = [stage EXCEPT ![s] = "woken"]
        /\ UNCHANGED <<frame, heldVars, channel, last, missed, queue, view, stamp>>
    BY <1>11 DEF Wake, GoTo, clientVars
  <2>2. Live(s)
    BY <2>1 DEF Live
  <2>3. Quiet(s)
    BY <1>2, <2>1 DEF Quiet, Domains
  <2>4. /\ stage'[s] = "woken" /\ frame'[s] = frame[s] /\ last'[s] = last[s]
        /\ missed'[s] = missed[s] /\ seen'[s] = chan
    BY <1>2, <2>1 DEF Domains
  <2>5. OnTrack(channel[s], "woken", frame[s], queue[s], view[s], last[s], missed[s],
                kb, rd, swapped \/ seen'[s] # chan)
    BY <1>3, <2>1, <2>2, WakeTracks DEF Tracked
  <2>6. QED
    BY <1>1, <2>2, <2>3, <2>4, <2>5, TaskKeepsFrames
<1>12. CASE ReportDelta(s)
  <2> DEFINE ch == channel[s]
             cur == Snapshot(ch, kb)
             d == Delta(ch, last[s], cur)
             g == ChangeEvent(version, d)
  <2>1. /\ stage[s] = "woken" /\ ch # "lifecycle"
        /\ UNCHANGED <<heldVars, channel, seen, missed, queue, view, stamp>>
        /\ IF IsEmptyDelta(ch, d)
           THEN stage' = [stage EXCEPT ![s] = "waiting"] /\ frame' = frame /\ last' = last
           ELSE /\ stage' = [stage EXCEPT ![s] = "sending"]
                /\ frame' = [frame EXCEPT ![s] = g] /\ last' = [last EXCEPT ![s] = cur]
    BY <1>12 DEF ReportDelta, Emit, GoTo, clientVars
  <2>2. Live(s)
    BY <2>1 DEF Live
  <2>5. IF IsEmptyDelta(ch, d)
        THEN OnTrack(ch, "waiting", frame[s], queue[s], view[s], last[s], missed[s], kb, rd, stl)
        ELSE OnTrack(ch, "sending", g, queue[s], view[s], cur, missed[s], kb, rd, stl)
    BY <1>2, <1>3, <2>1, <2>2, DeltaTracks DEF Tracked
  <2> HIDE DEF g, cur, d
  <2>3. Quiet(s)
    BY <1>2, <2>1 DEF Quiet, Domains
  <2>4. /\ missed'[s] = missed[s] /\ seen'[s] = seen[s]
        /\ IF IsEmptyDelta(ch, d)
           THEN stage'[s] = "waiting" /\ frame'[s] = frame[s] /\ last'[s] = last[s]
           ELSE stage'[s] = "sending" /\ frame'[s] = g /\ last'[s] = cur
    BY <1>2, <2>1 DEF Domains
  <2>6. QED
    BY <1>1, <2>2, <2>3, <2>4, <2>5, TaskKeepsFrames
<1>13. CASE ReportReady(s)
  <2> DEFINE g == ChangeEvent(version, rd)
  <2>1. /\ stage[s] = "woken" /\ channel[s] = "lifecycle"
        /\ UNCHANGED <<heldVars, channel, seen, missed, queue, view, stamp>>
        /\ last' = [last EXCEPT ![s] = rd]
        /\ IF rd /\ ~last[s]
           THEN /\ stage' = [stage EXCEPT ![s] = "sending"]
                /\ frame' = [frame EXCEPT ![s] = g]
           ELSE stage' = [stage EXCEPT ![s] = "waiting"] /\ frame' = frame
    BY <1>13 DEF ReportReady, Emit, GoTo, clientVars
  <2>2. Live(s)
    BY <2>1 DEF Live
  <2>3. IF rd /\ ~last[s]
        THEN OnTrack("lifecycle", "sending", g, queue[s], view[s], rd, missed[s], kb, rd, stl)
        ELSE OnTrack("lifecycle", "waiting", frame[s], queue[s], view[s], rd, missed[s],
                     kb, rd, stl)
    <3>1. /\ OnTrack("lifecycle", "woken", frame[s], queue[s], view[s], last[s], missed[s],
                     kb, rd, stl)
          /\ rd \in BOOLEAN
      BY <1>2, <1>3, <2>1, <2>2 DEF Tracked
    <3> HIDE DEF rd, stl
    <3>2. QED
      BY <3>1, ReadyTracks
  <2> HIDE DEF g
  <2>4. Quiet(s)
    BY <1>2, <2>1 DEF Quiet, Domains
  <2>5. /\ missed'[s] = missed[s] /\ seen'[s] = seen[s] /\ last'[s] = rd
        /\ IF rd /\ ~last[s]
           THEN stage'[s] = "sending" /\ frame'[s] = g
           ELSE stage'[s] = "waiting" /\ frame'[s] = frame[s]
    BY <1>2, <2>1 DEF Domains
  <2>6. QED
    BY <1>1, <2>1, <2>2, <2>3, <2>4, <2>5, TaskKeepsFrames
<1>14. QED
  BY <1>1, <1>4, <1>5, <1>6, <1>7, <1>8, <1>9, <1>10, <1>11, <1>12, <1>13 DEF TaskStep

\* FramesInv is inductive.
LEMMA StepsKeepFrames == FramesInv /\ [Next]_vars => FramesInv'
<1>1. SUFFICES ASSUME FramesInv, [Next]_vars PROVE FramesInv'
  OBVIOUS
<1>2. CASE UNCHANGED vars
  <2>1. /\ HeldInv' /\ Domains'
    BY <1>1, <1>2 DEF FramesInv, HeldInv, Domains, vars, heldVars, subVars, clientVars
  <2>2. ASSUME NEW s \in Subs
        PROVE  SubInv(s)'
    <3>1. SubInv(s)
      BY <1>1 DEF FramesInv
    <3>2. QED
      BY <1>2, <3>1 DEF SubInv, Live, Tracked, vars, heldVars, subVars, clientVars
  <2>3. QED
    BY <2>1, <2>2 DEF FramesInv
<1>3. CASE Next
  BY <1>1, <1>3, PublishKeepsFrames, BroadcastKeepsFrames, SubscribeKeepsFrames,
     TaskStepKeepsFrames, ReceiveKeepsFrames, DropKeepsFrames DEF Next
<1>4. QED
  BY <1>1, <1>2, <1>3

\* FramesInv gives the property: with no frame on its way and no wake-up due,
\* the client holds what the task last reported, and that is current.
LEMMA FramesInvSuffices == FramesInv => FramesAddUp
<1>1. SUFFICES ASSUME FramesInv, NEW s \in Subs, Settled(s), version > 0
               PROVE  Current(s)
  BY DEF FramesAddUp
<1>2. /\ stage[s] = "waiting" /\ queue[s] = <<>> /\ ~(swapped \/ seen[s] # chan)
  BY <1>1 DEF Settled
<1>3. Live(s) /\ channel[s] \in Channels /\ Tracked(s) /\ kb \in KnowledgeBases
  BY <1>1, <1>2 DEF FramesInv, SubInv, Live, HeldInv
<1> DEFINE ch == channel[s]
           fr == frame[s]
           v == view[s]
           l == last[s]
           ms == missed[s]
           stl == swapped \/ seen[s] # chan
<1>4. OnTrack(ch, "waiting", fr, <<>>, v, l, ms, kb, version > 0, stl) /\ stl = FALSE
  BY <1>2, <1>3 DEF Tracked
<1>5. /\ Pending("waiting", fr, <<>>) = <<>> /\ ~Early("waiting", fr)
      /\ Fresh("waiting", fr, stl)
  BY <1>4 DEF Pending, Early, Fresh
<1>6. CASE ch = "lifecycle"
  <2>1. PICK w : Chain("lifecycle", v, <<>>, w) /\ w = (version > 0)
    BY <1>4, <1>5, <1>6 DEF OnTrack, LifeTrack
  <2>2. v = (version > 0)
    BY <2>1, ChainEmpty
  <2>3. QED
    BY <1>6, <2>2 DEF Current, Wanted
<1>7. CASE ch = "changes"
  <2>1. /\ l = FilesSnapshot(kb)
        /\ v \in FileMaps /\ \E h : Leads(<<>>, l, h) /\ Agrees(v, <<>>, l, ms, h)
    BY <1>4, <1>5, <1>7 DEF OnTrack, ChangesTrack
  <2>2. PICK h : Leads(<<>>, l, h) /\ Agrees(v, <<>>, l, ms, h)
    BY <2>1
  <2>3. \A f \in Files \ ms : Same(v, l, f)
    <3>1. \A f : Same(h[0], l, f)
      BY <2>2, SameIsEquivalence DEF Leads
    <3>2. \A i \in 0..Len(<<>>) : i = 0
      OBVIOUS
    <3>3. QED
      BY <2>2, <3>1, <3>2 DEF Agrees
  <2>4. Wanted(s) = l /\ l \in FileMaps
    BY <1>3, <1>7, <2>1, Tables, FilesAreMaps DEF Wanted, Project, Kept
  <2>5. Differing(v, l) \subseteq ms
    <3>1. DOMAIN v \subseteq Files /\ DOMAIN l \subseteq Files
      BY <2>1, <2>4, FileMapsAre
    <3>2. QED
      BY <2>3, <3>1 DEF Differing, Same
  <2>6. v # None
    BY <2>1, FileMapsAre
  <2>7. QED
    BY <1>7, <2>4, <2>5, <2>6 DEF Current
<1>8. CASE ch \in MapChannels
  <2>1. Chain(ch, v, <<>>, Kept(ch, l)) /\ Kept(ch, l) = View(ch, kb)
    BY <1>4, <1>5, <1>8 DEF OnTrack, MapTrack
  <2>2. v = View(ch, kb)
    BY <2>1, ChainEmpty
  <2>3. QED
    BY <1>8, <2>2 DEF Current, Wanted, MapChannels
<1>9. QED
  BY <1>3, <1>6, <1>7, <1>8, ChannelIs

\* The frames of a subscription add up, whatever the engine builds while they
\* are on their way.
THEOREM EveryFrameAddsUp == Spec => []FramesAddUp
<1>1. Spec => []FramesInv
  BY InitFrames, StepsKeepFrames, PTL DEF Spec
<1>2. QED
  BY <1>1, FramesInvSuffices, PTL
=============================================================================
