------------------------- MODULE CommitStreamProofs -------------------------
(* Theorems about module CommitStream, for any list of trees, any number   *)
(* of subscriptions and commits, any page and any bounds of the buffers.   *)
EXTENDS CommitStream, FiniteSetTheorems, SequenceTheorems, TLAPS

-----------------------------------------------------------------------------
(* The newest commits of a set.                                            *)

\* The commits of a set that are newer than c.
After(S, c) == {d \in S : d > c}

LEMMA NewestDef ==
    ASSUME NEW n, NEW S, NEW c
    PROVE  c \in Newest(n, S) <=> c \in S /\ Cardinality(After(S, c)) < n
BY DEF Newest, After

LEMMA AfterFinite ==
    ASSUME NEW S, IsFiniteSet(S), NEW c
    PROVE  IsFiniteSet(After(S, c)) /\ Cardinality(After(S, c)) \in Nat
<1>1. After(S, c) \in SUBSET S
  BY DEF After
<1> QED
  BY <1>1, FS_Subset, FS_CardinalityType

LEMMA AfterMonotone ==
    ASSUME NEW S, NEW T, IsFiniteSet(T), S \subseteq T, NEW c
    PROVE  /\ Cardinality(After(S, c)) <= Cardinality(After(T, c))
           /\ Cardinality(After(S, c)) \in Nat /\ Cardinality(After(T, c)) \in Nat
<1>1. IsFiniteSet(After(T, c)) /\ After(S, c) \in SUBSET After(T, c)
  BY AfterFinite DEF After
<1>2. IsFiniteSet(S)
  BY FS_Subset
<1> QED
  BY <1>1, <1>2, FS_Subset, FS_CardinalityType, AfterFinite

\* A commit among the newest of a set is among the newest of each part it is in.
LEMMA NewestOfPart ==
    ASSUME NEW n \in Nat, NEW S, NEW T, IsFiniteSet(T), S \subseteq T,
           NEW c \in S, c \in Newest(n, T)
    PROVE  c \in Newest(n, S)
<1>1. Cardinality(After(T, c)) < n
  BY NewestDef
<1>2. Cardinality(After(S, c)) < n
  BY <1>1, AfterMonotone
<1> QED
  BY <1>2, NewestDef

\* A commit that is not among the newest n has n of them after it: take the
\* newest that is not among them, all after that one are.
LEMMA NewestAbove ==
    ASSUME NEW n \in Nat, NEW S \in SUBSET Nat, IsFiniteSet(S),
           NEW c \in S, c \notin Newest(n, S)
    PROVE  Cardinality(After(Newest(n, S), c)) >= n
<1> DEFINE Rest  == S \ Newest(n, S)
           Tails == {After(S, d) : d \in Rest}
<1>0. Rest \subseteq Nat /\ c \in Rest /\ S \subseteq Nat
  OBVIOUS
<1>1. Tails \subseteq FiniteSubsetsOf(S) /\ Tails # {}
  <2>1. \A d \in Rest : After(S, d) \subseteq S /\ IsFiniteSet(After(S, d))
    BY AfterFinite DEF After
  <2>2. \A d \in Rest : After(S, d) \in FiniteSubsetsOf(S)
    BY <2>1 DEF FiniteSubsetsOf
  <2>3. Tails # {}
    BY <1>0
  <2> QED
    BY <2>2, <2>3
<1>2. PICK T \in Tails : \A U \in Tails : <<U, T>> \notin StrictSubsetOrdering(S)
  <2> HIDE DEF Tails
  <2> QED
    BY <1>1, FS_StrictSubsetOrderingWellFounded, WFMin
<1>3. PICK h \in Rest : T = After(S, h)
  BY <1>2
<1>4. ASSUME NEW d \in Rest PROVE d <= h
  <2> SUFFICES ASSUME d > h PROVE FALSE
    OBVIOUS
  <2>0. d \in Nat /\ h \in Nat /\ d \in S
    BY <1>0
  <2>1. /\ \A e \in S : e > d => e > h
        /\ ~ (d > d)
    BY <1>0, <2>0
  <2>2. After(S, d) \subseteq After(S, h) /\ d \in After(S, h) /\ d \notin After(S, d)
    BY <2>0, <2>1 DEF After
  <2>3. IsFiniteSet(After(S, d)) /\ IsFiniteSet(After(S, h))
    BY AfterFinite
  <2> QED
    <3>1. After(S, d) \in SUBSET S /\ After(S, h) \in SUBSET S
      BY DEF After
    <3>2. After(S, d) # After(S, h)
      BY <2>2
    <3>3. <<After(S, d), After(S, h)>> \in StrictSubsetOrdering(S)
      BY <2>2, <3>1, <3>2 DEF StrictSubsetOrdering
    <3> QED
      BY <1>2, <1>3, <3>3
<1>5. After(S, h) \subseteq After(Newest(n, S), c)
  <2>1. h \in Nat /\ c <= h
    BY <1>0, <1>4
  <2>2. \A e \in S : e > h => e \notin Rest /\ e > c
    BY <1>0, <1>4, <2>1
  <2> QED
    BY <2>2 DEF After
<1>6. Cardinality(After(S, h)) >= n
  BY <1>3, NewestDef, AfterFinite
<1>7. Newest(n, S) \in SUBSET S
  BY DEF Newest
<1>8. IsFiniteSet(Newest(n, S))
  BY <1>7, FS_Subset
<1>9. IsFiniteSet(After(Newest(n, S), c)) /\ Cardinality(After(Newest(n, S), c)) \in Nat
  BY <1>8, AfterFinite
<1>10. Cardinality(After(S, h)) <= Cardinality(After(Newest(n, S), c))
  BY <1>5, <1>9, FS_Subset
<1> QED
  BY <1>6, <1>9, <1>10, AfterFinite

-----------------------------------------------------------------------------
(* Type correctness.                                                       *)

\* The variables TypeOK says nothing of, and caches as functions.
MoreTypes ==
    /\ leaked \in [Trees -> Nat] /\ fails \in Nat
    /\ cache \in [Receivers -> [Trees -> SUBSET Nat]]
    /\ emitted \in [Receivers -> SUBSET Nat] /\ frame \in [Receivers -> SUBSET Nat]
    /\ told \in [Receivers -> SUBSET Nat] /\ old \in [Receivers -> SUBSET Nat]
    /\ again \in [Receivers -> SUBSET Nat]
    /\ blind \in [Receivers -> SUBSET Trees]
    /\ queue \in [Receivers -> Seq(SUBSET Nat)]

Types == TypeOK /\ MoreTypes

\* What landing adds to a log.
LEMMA LandAdds ==
    ASSUME log \in [Trees -> Seq(1..MaxCommits)], clock \in 0..MaxCommits,
           NEW t \in Trees, NEW n \in 1..2, Land(t, n)
    PROVE  /\ log' \in [Trees -> Seq(1..MaxCommits)] /\ clock' \in 0..MaxCommits
           /\ clock' = clock + n
           /\ Commits(t)' = Commits(t) \cup (clock + 1)..(clock + n)
           /\ \A u \in Trees \ {t} : Commits(u)' = Commits(u)
<1> DEFINE new == [i \in 1..n |-> clock + n + 1 - i]
<1>1. /\ clock' = clock + n /\ clock + n <= MaxCommits
      /\ log' = [log EXCEPT ![t] = new \o @]
  BY DEF Land
<1>2. MaxCommits \in Nat /\ clock \in Nat
  BY GitWatchAssumption
<1>3. new \in Seq(1..MaxCommits) /\ Len(new) = n
  <2>1. n \in Nat /\ \A i \in 1..n : clock + n + 1 - i \in 1..MaxCommits
    BY <1>1, <1>2
  <2>2. new \in [1..n -> 1..MaxCommits]
    BY <2>1
  <2> QED
    BY <2>1, <2>2, SeqDef
<1>4. log[t] \in Seq(1..MaxCommits)
  OBVIOUS
<1> DEFINE both == new \o log[t]
<1>5. /\ both \in Seq(1..MaxCommits) /\ Len(both) = n + Len(log[t])
      /\ \A i \in 1..(n + Len(log[t])) :
            both[i] = IF i <= n THEN new[i] ELSE log[t][i - n]
  BY <1>3, <1>4, ConcatProperties
<1>6. DOMAIN both = 1..(n + Len(log[t])) /\ DOMAIN log[t] = 1..Len(log[t])
      /\ Len(log[t]) \in Nat
  BY <1>4, <1>5, LenProperties
<1>7. log' \in [Trees -> Seq(1..MaxCommits)] /\ log'[t] = both
  BY <1>1, <1>5
<1>8. Commits(t)' = {both[i] : i \in 1..(n + Len(log[t]))}
  BY <1>6, <1>7 DEF Commits
<1>9. \A i \in 1..n : new[i] = clock + n + 1 - i
  OBVIOUS
<1> HIDE DEF new, both
<1>10. ASSUME NEW c \in (clock + 1)..(clock + n) PROVE c \in Commits(t)'
  <2>1. clock + n + 1 - c \in 1..n /\ clock + n + 1 - (clock + n + 1 - c) = c
    BY <1>2
  <2>2. clock + n + 1 - c \in 1..(n + Len(log[t]))
    BY <1>6, <2>1
  <2>3. both[clock + n + 1 - c] = c
    BY <1>5, <1>9, <2>1, <2>2
  <2> QED
    BY <1>8, <2>2, <2>3
<1>11. ASSUME NEW c \in Commits(t) PROVE c \in Commits(t)'
  <2>1. PICK i \in 1..Len(log[t]) : c = log[t][i]
    BY <1>6 DEF Commits
  <2>2. i + n \in 1..(n + Len(log[t])) /\ ~(i + n <= n) /\ (i + n) - n = i
    BY <1>6
  <2>3. both[i + n] = c
    BY <1>5, <2>1, <2>2
  <2> QED
    BY <1>8, <2>2, <2>3
<1>12. ASSUME NEW c \in Commits(t)'
       PROVE  c \in Commits(t) \cup (clock + 1)..(clock + n)
  <2>1. PICK i \in 1..(n + Len(log[t])) : c = both[i]
    BY <1>8
  <2>2. CASE i <= n
    <3>1. i \in 1..n /\ c = clock + n + 1 - i
      BY <1>5, <1>9, <2>1, <2>2
    <3> QED
      BY <1>2, <3>1
  <2>3. CASE ~(i <= n)
    <3>1. i - n \in 1..Len(log[t]) /\ c = log[t][i - n]
      BY <1>5, <1>6, <2>1, <2>3
    <3> QED
      BY <1>6, <3>1 DEF Commits
  <2> QED
    BY <2>2, <2>3
<1>13. \A u \in Trees \ {t} : Commits(u)' = Commits(u)
  BY <1>1 DEF Commits
<1>14. clock' \in 0..MaxCommits
  BY <1>1, <1>2
<1> QED
  BY <1>1, <1>7, <1>10, <1>11, <1>12, <1>13, <1>14

\* What is read of a log is in it; what a task holds are numbers of commits.
LEMMA ReadTypes ==
    ASSUME Types
    PROVE  /\ \A t \in Trees : Commits(t) \subseteq Nat
           /\ \A t \in Trees, ok \in BOOLEAN : LogRead(t, ok) \subseteq Commits(t)
           /\ \A s \in Receivers : HeldOids(cache[s]) \in SUBSET Nat
           /\ \A S : Newest(Limit, S) \subseteq S
<1>1. \A S : Newest(Limit, S) \subseteq S
  BY DEF Newest
<1>2. ASSUME NEW t \in Trees PROVE Commits(t) \subseteq Nat
  <2>1. log[t] \in Seq(1..MaxCommits)
    BY DEF Types, TypeOK
  <2>2. \A i \in DOMAIN log[t] : log[t][i] \in 1..MaxCommits
    BY <2>1, LenProperties, ElementOfSeq
  <2> QED
    BY <2>2 DEF Commits
<1>3. \A t \in Trees, ok \in BOOLEAN : LogRead(t, ok) \subseteq Commits(t)
  BY <1>1 DEF LogRead
<1>4. \A s \in Receivers : HeldOids(cache[s]) \in SUBSET Nat
  BY DEF Types, MoreTypes, HeldOids
<1> QED
  BY <1>1, <1>2, <1>3, <1>4

LEMMA StreamTypeInit == Init => Types
<1> SUFFICES ASSUME Init PROVE Types
    OBVIOUS
<1> USE GitWatchAssumption, CommitStreamAssumption
    DEF Init, GitInit
<1>1. \A t \in Trees : <<>> \in Seq(1..MaxCommits)
  OBVIOUS
<1>2. MoreTypes
  BY DEF MoreTypes, Nowhere
<1>3. \A s \in Receivers, t \in Trees : cache[s][t] = {}
  BY DEF Nowhere
<1>4. TypeOK
  <2>1. ready \in BOOLEAN /\ stage \in [Receivers -> Stages]
    BY DEF Stages
  <2>2. /\ inbox \in [Receivers -> Seq(Trees)] /\ relog \in [Receivers -> Seq(Trees)]
        /\ armed \in [Receivers -> SUBSET Trees]
    OBVIOUS
  <2>3. \A s \in Receivers : Len(inbox[s]) = 0 /\ Len(queue[s]) = 0
    BY EmptySeq
  <2>4. log \in [Trees -> Seq(1..MaxCommits)] /\ clock \in 0..MaxCommits
    BY <1>1
  <2> QED
    BY <1>3, <2>1, <2>2, <2>3, <2>4 DEF TypeOK
<1> QED
  BY <1>2, <1>4 DEF Types

\* Commits that land, watchers that report, and the rebuild a task waits for.
LEMMA StreamTypeWorld ==
    ASSUME Types,
           \/ BecomeReady
           \/ \E t \in Trees, n \in 1..2 : Land(t, n) /\ UNCHANGED streamVars
           \/ \E t \in Trees : GitEvent(t)
    PROVE  Types'
<1> USE GitWatchAssumption, CommitStreamAssumption
<1>1. CASE BecomeReady
  BY <1>1 DEF BecomeReady, Types, TypeOK, MoreTypes, Commits, gitVars, watchVars, busVars,
         taskVars, clientVars, faultVars
<1>2. ASSUME NEW t \in Trees, NEW n \in 1..2, Land(t, n), UNCHANGED streamVars
      PROVE  Types'
  <2>1. /\ log' \in [Trees -> Seq(1..MaxCommits)] /\ clock' \in 0..MaxCommits
        /\ \A u \in Trees : Commits(u) \subseteq Commits(u)'
    BY <1>2, LandAdds DEF Types, TypeOK
  <2>2. \A s \in Receivers, u \in Trees : cache'[s][u] \subseteq Commits(u)'
    BY <1>2, <2>1 DEF streamVars, taskVars, Types, TypeOK
  <2> QED
    BY <1>2, <2>1, <2>2 DEF Land, streamVars, Types, TypeOK, MoreTypes, busVars, taskVars,
           clientVars, faultVars
<1>3. ASSUME NEW t \in Trees, GitEvent(t) PROVE Types'
  <2>1. \A r \in Receivers : /\ inbox'[r] \in Seq(Trees)
                             /\ Len(inbox'[r]) <= EventBuffer
    <3> TAKE r \in Receivers
    <3>1. inbox[r] \in Seq(Trees) /\ Len(inbox[r]) \in Nat /\ Len(inbox[r]) <= EventBuffer
      BY LenProperties DEF Types, TypeOK
    <3>2. CASE r \notin open
      BY <1>3, <3>1, <3>2 DEF GitEvent, Notify
    <3>3. CASE r \in open /\ Len(inbox[r]) < EventBuffer
      BY <1>3, <3>1, <3>3, AppendProperties DEF GitEvent, Notify
    <3>4. CASE r \in open /\ ~(Len(inbox[r]) < EventBuffer)
      <4>1. /\ inbox[r] # <<>> /\ inbox'[r] = Append(Tail(inbox[r]), t)
        BY <1>3, <3>1, <3>4 DEF GitEvent, Notify
      <4> QED
        BY <3>1, <4>1, HeadTailProperties, AppendProperties
    <3> QED
      BY <3>2, <3>3, <3>4
  <2>2. inbox' \in [Receivers -> Seq(Trees)]
    BY <1>3, <2>1 DEF GitEvent, Notify
  <2>3. lagged' \subseteq open'
    BY <1>3 DEF GitEvent, Notify, Types, TypeOK
  <2>4. \A u \in Trees : Commits(u)' = Commits(u)
    BY <1>3 DEF GitEvent, Notify, gitVars, Commits
  <2>5. /\ raised' = raised \ {t} /\ UNCHANGED <<gitVars, refs, open, streamVars>>
    BY <1>3 DEF GitEvent, Notify
  <2>6. TypeOK'
    BY <2>1, <2>2, <2>3, <2>4, <2>5 DEF streamVars, Types, TypeOK, gitVars, taskVars
  <2> QED
    BY <2>5, <2>6
       DEF streamVars, Types, MoreTypes, taskVars, clientVars, faultVars
<1> QED
  BY <1>1, <1>2, <1>3

LEMMA StreamTypeTask ==
    ASSUME Types, NEW s \in Receivers, Subscribe(s) \/ TaskStep(s) PROVE Types'
<1> USE GitWatchAssumption, CommitStreamAssumption
    DEF Types, TypeOK, MoreTypes, gitVars, watchVars, busVars, taskVars,
        clientVars, faultVars, GoTo
<1>0. \A t \in Trees : Commits(t)' = Commits(t)
  <2>1. UNCHANGED log
    BY Zenon DEF TaskStep, Subscribe, ReadMembers, ArmWatches, ReadLog, SendSeed, Seed,
                 TakeEvent, SendNew, SendFrame
  <2> QED
    BY <2>1 DEF Commits
<1>1. CASE Subscribe(s)
  BY <1>0, <1>1 DEF Subscribe, Stages
<1>2. CASE ReadMembers(s)
  BY <1>0, <1>2 DEF ReadMembers, Stages
<1>3. CASE ArmWatches(s)
  <2>1. /\ armed' = [armed EXCEPT ![s] = Armable(Trees)]
        /\ relog' = [relog EXCEPT ![s] = TreeList] /\ GoTo(s, "seeding")
        /\ UNCHANGED <<gitVars, raised, busVars, ready, cache, emitted, frame,
                       queue, old, clientVars, faultVars>>
    BY <1>3 DEF ArmWatches
  <2>2. refs' \in [Trees -> Nat]
    BY <1>3 DEF ArmWatches, Arm
  <2>3. armed' \in [Receivers -> SUBSET Trees]
    BY <2>1 DEF Armable
  <2>4. relog' \in [Receivers -> Seq(Trees)]
    BY <2>1, FinitelyMany
  <2>5. stage' \in [Receivers -> Stages]
    BY <2>1 DEF Stages
  <2>6. TypeOK'
    BY <1>0, <2>1, <2>2, <2>3, <2>4, <2>5
  <2> QED
    BY <2>1, <2>6
<1>4. CASE ReadLog(s)
  <2> DEFINE t == Head(relog[s])
  <2>1. relog[s] \in Seq(Trees) /\ relog[s] # <<>>
    BY <1>4 DEF ReadLog
  <2>2. t \in Trees /\ Tail(relog[s]) \in Seq(Trees)
    BY <2>1, HeadTailProperties
  <2>3. /\ Commits(t) \subseteq Nat
        /\ \A ok \in BOOLEAN : LogRead(t, ok) \subseteq Commits(t)
    BY <2>2, ReadTypes
  <2>4. PICK ok \in BOOLEAN :
          /\ cache' = [cache EXCEPT ![s][t] = LogRead(t, ok)]
          /\ fails' = IF ok THEN fails ELSE fails + 1
          /\ blind' = IF ok THEN blind ELSE [blind EXCEPT ![s] = @ \cup {t}]
    BY <1>4 DEF ReadLog
  <2>5. /\ cache' \in [Receivers -> [Trees -> SUBSET Nat]]
        /\ \A r \in Receivers, u \in Trees : cache'[r][u] \subseteq Commits(u)
    <3> HIDE DEF t
    <3> QED
      BY <2>2, <2>3, <2>4
  <2>6. old' \in [Receivers -> SUBSET Nat]
    <3> HIDE DEF t
    <3> QED
      BY <1>4, <2>3 DEF ReadLog, t
  <2>7. fails' \in Nat /\ blind' \in [Receivers -> SUBSET Trees]
    <3> HIDE DEF t
    <3>1. fails' \in Nat
      BY <2>4
    <3>2. blind' \in [Receivers -> SUBSET Trees]
      BY <2>2, <2>4
    <3> QED
      BY <3>1, <3>2
  <2>8. relog' \in [Receivers -> Seq(Trees)]
    BY <1>4, <2>2 DEF ReadLog
  <2>9. UNCHANGED <<gitVars, watchVars, busVars, ready, stage, armed, emitted, frame, queue,
                    clientVars, leaked>>
    BY <1>4 DEF ReadLog
  <2> HIDE DEF t
  <2>10. TypeOK'
    BY <1>0, <2>5, <2>8, <2>9
  <2>11. MoreTypes'
    BY <2>5, <2>6, <2>7, <2>9
  <2> QED
    BY <2>10, <2>11
<1>5. CASE SendSeed(s)
  <2>1. HeldOids(cache[s]) \in SUBSET Nat /\ Newest(Limit, HeldOids(cache[s])) \in SUBSET Nat
    BY ReadTypes
  <2>2. /\ emitted' = [emitted EXCEPT ![s] = HeldOids(cache[s])]
        /\ frame' = [frame EXCEPT ![s] = Newest(Limit, HeldOids(cache[s]))]
        /\ GoTo(s, "sending")
        /\ UNCHANGED <<gitVars, watchVars, busVars, ready, armed, cache, relog, queue, old,
                       clientVars, faultVars>>
    BY <1>5 DEF SendSeed, Seed, Emit
  <2>3. emitted' \in [Receivers -> SUBSET Nat] /\ frame' \in [Receivers -> SUBSET Nat]
    BY <2>1, <2>2
  <2>4. stage' \in [Receivers -> Stages]
    BY <2>2 DEF Stages
  <2>5. TypeOK'
    BY <1>0, <2>2, <2>4
  <2> QED
    BY <2>2, <2>3, <2>5
<1>6. CASE TakeEvent(s)
  <2>1. CASE s \in lagged
    <3>1. /\ lagged' = lagged \ {s} /\ relog' = [relog EXCEPT ![s] = TreeList]
          /\ UNCHANGED inbox
      BY <1>6, <2>1 DEF TakeEvent
    <3> QED
      <4>1. /\ GoTo(s, "relogging")
            /\ UNCHANGED <<gitVars, watchVars, open, ready, armed, cache, emitted, frame,
                            queue, old, clientVars, faultVars>>
        BY <1>6 DEF TakeEvent
      <4>2. TypeOK'
        BY <1>0, <3>1, <4>1, FinitelyMany DEF Stages
      <4> QED
        BY <4>1, <4>2
  <2>2. CASE s \notin lagged
    <3>1. inbox[s] \in Seq(Trees) /\ inbox[s] # <<>>
      BY <1>6, <2>2 DEF TakeEvent
    <3>2. /\ Head(inbox[s]) \in Trees /\ Tail(inbox[s]) \in Seq(Trees)
          /\ Len(Tail(inbox[s])) = Len(inbox[s]) - 1 /\ Len(inbox[s]) \in Nat
      BY <3>1, HeadTailProperties, LenProperties
    <3>3. /\ inbox' = [inbox EXCEPT ![s] = Tail(@)] /\ UNCHANGED lagged
          /\ relog' = [relog EXCEPT ![s] = <<Head(inbox[s])>>]
      BY <1>6, <2>2 DEF TakeEvent
    <3>4. <<Head(inbox[s])>> \in Seq(Trees)
      BY <3>2
    <3>5. /\ inbox' \in [Receivers -> Seq(Trees)]
          /\ \A r \in Receivers : Len(inbox'[r]) <= EventBuffer
      <4>1. /\ inbox'[s] = Tail(inbox[s]) /\ Len(inbox[s]) <= EventBuffer
            /\ \A r \in Receivers \ {s} : inbox'[r] = inbox[r] /\ Len(inbox[r]) <= EventBuffer
        BY <3>3
      <4>2. Len(inbox'[s]) <= EventBuffer
        BY <3>2, <4>1
      <4>3. inbox' \in [Receivers -> Seq(Trees)]
        BY <3>2, <3>3
      <4> QED
        BY <4>1, <4>2, <4>3
    <3>6. /\ GoTo(s, "relogging")
          /\ UNCHANGED <<gitVars, watchVars, open, ready, armed, cache, emitted, frame, queue,
                          old, clientVars, faultVars>>
      BY <1>6 DEF TakeEvent
    <3>7. relog' \in [Receivers -> Seq(Trees)] /\ stage' \in [Receivers -> Stages]
      BY <3>3, <3>4, <3>6 DEF Stages
    <3>8. \A r \in Receivers : /\ Len(queue'[r]) <= FrameBuffer
                                /\ \A t \in Trees : cache'[r][t] \subseteq Commits(t)'
      BY <1>0, <3>6
    <3>9. TypeOK'
      BY <3>3, <3>5, <3>6, <3>7, <3>8
    <3> QED
      BY <3>6, <3>9
  <2> QED
    BY <2>1, <2>2
<1>7. CASE SendNew(s)
  <2>1. HeldOids(cache[s]) \in SUBSET Nat
    BY ReadTypes
  <2>2. /\ emitted' = [emitted EXCEPT ![s] = HeldOids(cache[s])]
        /\ UNCHANGED <<gitVars, watchVars, busVars, ready, armed, cache, relog, queue, old,
                        clientVars, faultVars>>
    BY <1>7 DEF SendNew
  <2> DEFINE new == HeldOids(cache[s]) \ emitted[s]
  <2>3. stage' \in [Receivers -> Stages] /\ frame' \in [Receivers -> SUBSET Nat]
    <3>1. new \in SUBSET Nat
      BY <2>1
    <3>2. IF new = {} THEN GoTo(s, "waiting") /\ UNCHANGED frame ELSE Emit(s, new)
      BY <1>7 DEF SendNew
    <3> HIDE DEF new
    <3>3. \/ stage' = [stage EXCEPT ![s] = "waiting"] /\ frame' = frame
          \/ stage' = [stage EXCEPT ![s] = "sending"] /\ frame' = [frame EXCEPT ![s] = new]
      BY <3>2 DEF Emit
    <3>4. stage' \in [Receivers -> Stages]
      BY <3>3 DEF Stages
    <3> QED
      BY <3>1, <3>3, <3>4
  <2>4. TypeOK'
    <3>1. UNCHANGED <<gitVars, watchVars, busVars, ready, armed, cache, relog, queue>>
      BY <2>2
    <3> QED
      BY <1>0, <2>3, <3>1
  <2> QED
    BY <2>1, <2>2, <2>3, <2>4
<1>8. CASE SendFrame(s)
  <2>1. /\ queue[s] \in Seq(SUBSET Nat) /\ frame[s] \in SUBSET Nat
        /\ Len(queue[s]) < FrameBuffer /\ Len(queue[s]) \in Nat
    BY <1>8, LenProperties DEF SendFrame
  <2>2. /\ Append(queue[s], frame[s]) \in Seq(SUBSET Nat)
        /\ Len(Append(queue[s], frame[s])) <= FrameBuffer
    BY <2>1, AppendProperties
  <2>3. /\ queue' = [queue EXCEPT ![s] = Append(queue[s], frame[s])]
        /\ frame' = [frame EXCEPT ![s] = {}] /\ GoTo(s, "waiting")
        /\ UNCHANGED <<gitVars, watchVars, busVars, ready, armed, cache, emitted,
                       relog, old, clientVars, faultVars>>
    BY <1>8 DEF SendFrame
  <2>4. /\ queue' \in [Receivers -> Seq(SUBSET Nat)]
        /\ \A r \in Receivers : Len(queue'[r]) <= FrameBuffer
    <3>1. /\ queue'[s] = Append(queue[s], frame[s])
          /\ \A r \in Receivers \ {s} : queue'[r] = queue[r] /\ Len(queue[r]) <= FrameBuffer
      BY <2>3
    <3>2. queue' \in [Receivers -> Seq(SUBSET Nat)]
      BY <2>2, <2>3
    <3> QED
      BY <2>2, <3>1, <3>2
  <2>5. frame' \in [Receivers -> SUBSET Nat] /\ stage' \in [Receivers -> Stages]
    BY <2>3 DEF Stages
  <2>6. \A r \in Receivers : /\ Len(inbox'[r]) <= EventBuffer
                              /\ \A t \in Trees : cache'[r][t] \subseteq Commits(t)'
    BY <1>0, <2>3
  <2>7. TypeOK'
    BY <2>3, <2>4, <2>5, <2>6
  <2> QED
    BY <2>3, <2>4, <2>5, <2>7
<1> QED
  BY <1>1, <1>2, <1>3, <1>4, <1>5, <1>6, <1>7, <1>8 DEF TaskStep

LEMMA StreamTypeClient ==
    ASSUME Types, NEW s \in Receivers, Receive(s) \/ Abort(s) PROVE Types'
<1> USE GitWatchAssumption, CommitStreamAssumption
    DEF Types, TypeOK, MoreTypes, gitVars, watchVars, busVars, taskVars,
        clientVars, faultVars
<1>0. \A t \in Trees : Commits(t)' = Commits(t)
  BY DEF Receive, Abort, EndTask, Commits
<1>1. CASE Receive(s)
  <2>1. queue[s] \in Seq(SUBSET Nat) /\ queue[s] # <<>>
    BY <1>1 DEF Receive
  <2>2. /\ Head(queue[s]) \in SUBSET Nat /\ Tail(queue[s]) \in Seq(SUBSET Nat)
        /\ Len(Tail(queue[s])) = Len(queue[s]) - 1 /\ Len(queue[s]) \in Nat
    BY <2>1, HeadTailProperties, LenProperties
  <2> QED
    <3>1. /\ queue' \in [Receivers -> Seq(SUBSET Nat)]
          /\ \A r \in Receivers : Len(queue'[r]) <= FrameBuffer
      BY <1>1, <2>2 DEF Receive
    <3>2. told' \in [Receivers -> SUBSET Nat] /\ again' \in [Receivers -> SUBSET Nat]
      BY <1>1, <2>2 DEF Receive
    <3>3. UNCHANGED <<gitVars, watchVars, busVars, ready, stage, taskVars, old, faultVars>>
      BY <1>1 DEF Receive
    <3>4. TypeOK'
      BY <1>0, <3>1, <3>3
    <3> QED
      BY <3>1, <3>2, <3>3, <3>4
<1>2. CASE Abort(s)
  <2>1. /\ Vacate(s) /\ UNCHANGED <<gitVars, ready, fails>>
    BY <1>2 DEF Abort, EndTask
  <2>2. refs' \in [Trees -> Nat] /\ leaked' \in [Trees -> Nat] /\ raised' \subseteq Trees
    <3>1. refs \in [Trees -> Nat] /\ leaked \in [Trees -> Nat] /\ raised \subseteq Trees
      OBVIOUS
    <3>2. CASE stage[s] = "arming"
      <4>1. /\ Arm(Trees) /\ UNCHANGED raised
            /\ leaked' = [t \in Trees |-> IF t \in Armable(Trees) THEN leaked[t] + 1
                                          ELSE leaked[t]]
        BY <1>2, <3>2 DEF Abort, EndTask
      <4> QED
        BY <3>1, <4>1 DEF Arm
    <3>3. CASE stage[s] # "arming"
      <4>1. Disarm(armed[s]) /\ UNCHANGED leaked
        BY <1>2, <3>3 DEF Abort, EndTask
      <4>2. \A t \in Trees : refs[t] > 0 => refs[t] - 1 \in Nat
        BY <3>1
      <4> QED
        BY <3>1, <4>1, <4>2 DEF Disarm
    <3> QED
      BY <3>2, <3>3
  <2>3. cache' \in [Receivers -> [Trees -> SUBSET Nat]]
        /\ \A r \in Receivers, t \in Trees : cache'[r][t] \subseteq cache[r][t]
    <3>1. cache' = [cache EXCEPT ![s] = Nowhere]
      BY <2>1 DEF Vacate
    <3>2. Nowhere \in [Trees -> SUBSET Nat] /\ \A t \in Trees : Nowhere[t] = {}
      BY DEF Nowhere
    <3>3. cache \in [Receivers -> [Trees -> SUBSET Nat]]
      OBVIOUS
    <3> HIDE DEF Types, TypeOK, MoreTypes
    <3> QED
      BY <3>1, <3>2, <3>3
  <2> QED
    BY <1>0, <2>1, <2>2, <2>3 DEF Vacate, Stages
<1> QED
  BY <1>1, <1>2

LEMMA StreamTypeStep == Types /\ [Next]_vars => Types'
<1> SUFFICES ASSUME Types, [Next]_vars PROVE Types'
    OBVIOUS
<1>1. CASE UNCHANGED vars
  BY <1>1 DEF vars, Types, TypeOK, MoreTypes, Commits, taskVars
<1>2. CASE Next
  BY <1>2, StreamTypeWorld, StreamTypeTask, StreamTypeClient DEF Next
<1> QED
  BY <1>1, <1>2

\* Every variable keeps its type and every buffer its bound; what a task holds
\* of a tree is in the tree's log.
THEOREM StreamTypeCorrect == Spec => []TypeOK
<1>1. Types => TypeOK
  BY DEF Types
<1> QED
  BY <1>1, StreamTypeInit, StreamTypeStep, PTL DEF Spec

-----------------------------------------------------------------------------
(* The counts of the watches.                                              *)

ArmedBy(t) == {s \in Receivers : t \in armed[s]}

\* A task has armed nothing before its arm nor after its end.
ArmedLate ==
    \A s \in Receivers : stage[s] \in {"off", "gate", "arming", "ended"} => armed[s] = {}

LEMMA ArmedByFinite ==
    \A t : IsFiniteSet(ArmedBy(t)) /\ Cardinality(ArmedBy(t)) \in Nat
<1> TAKE t
<1>1. ArmedBy(t) \in SUBSET Receivers
  BY DEF ArmedBy
<1> QED
  BY <1>1, FinitelyMany, FS_Subset, FS_CardinalityType

\* Only an arm and an abort touch what is counted.
LEMMA CountsUntouched ==
    ASSUME Types, ArmedLate, RefsBalance, NEW s \in Receivers,
           UNCHANGED <<refs, armed, leaked>>,
           stage' = stage \/ \E st \in Stages \ {"off", "gate", "arming", "ended"} :
                                stage' = [stage EXCEPT ![s] = st]
    PROVE  ArmedLate' /\ RefsBalance'
<1>1. RefsBalance'
  BY DEF RefsBalance
<1>2. stage \in [Receivers -> Stages]
  BY DEF Types, TypeOK
<1>3. ArmedLate'
  BY <1>2 DEF ArmedLate
<1> QED
  BY <1>1, <1>3

LEMMA CountsStep ==
    ASSUME Types, ArmedLate, RefsBalance, Next PROVE ArmedLate' /\ RefsBalance'
<1> USE DEF gitVars, watchVars, busVars, taskVars, clientVars, faultVars, GoTo
<1> DEFINE Kept(s) ==
        /\ UNCHANGED <<refs, armed, leaked>>
        /\ stage' = stage \/ \E st \in Stages \ {"off", "gate", "arming", "ended"} :
                                stage' = [stage EXCEPT ![s] = st]
<1>0. /\ refs \in [Trees -> Nat] /\ leaked \in [Trees -> Nat]
      /\ armed \in [Receivers -> SUBSET Trees] /\ stage \in [Receivers -> Stages]
  BY DEF Types, TypeOK, MoreTypes
<1>1. CASE BecomeReady \/ (\E t \in Trees, n \in 1..2 : Land(t, n) /\ UNCHANGED streamVars)
           \/ (\E t \in Trees : GitEvent(t))
  <2>1. UNCHANGED <<refs, armed, leaked, stage>>
    BY <1>1 DEF BecomeReady, Land, GitEvent, Notify, streamVars
  <2> QED
    BY <2>1 DEF ArmedLate, RefsBalance
<1>2. ASSUME NEW s \in Receivers, Subscribe(s) \/ ReadMembers(s)
      PROVE  ArmedLate' /\ RefsBalance'
  <2>1. /\ UNCHANGED <<refs, armed, leaked>>
        /\ stage[s] \in {"off", "gate"}
        /\ \E st \in {"gate", "arming"} : stage' = [stage EXCEPT ![s] = st]
    BY <1>2 DEF Subscribe, ReadMembers
  <2> QED
    BY <1>0, <2>1 DEF ArmedLate, RefsBalance
<1>3. ASSUME NEW s \in Receivers, ArmWatches(s) PROVE ArmedLate' /\ RefsBalance'
  <2>1. /\ stage[s] = "arming" /\ stage' = [stage EXCEPT ![s] = "seeding"]
        /\ armed' = [armed EXCEPT ![s] = Armable(Trees)] /\ armed[s] = {}
        /\ refs' = [t \in Trees |-> IF t \in Armable(Trees) THEN refs[t] + 1 ELSE refs[t]]
        /\ leaked' = leaked
    BY <1>3 DEF ArmWatches, Arm, ArmedLate
  <2>2. ArmedLate'
    BY <1>0, <2>1 DEF ArmedLate
  <2>3. ASSUME NEW t \in Trees
        PROVE  refs'[t] = Cardinality(ArmedBy(t)') + leaked'[t]
    <3>1. refs[t] = Cardinality(ArmedBy(t)) + leaked[t]
      BY DEF RefsBalance, ArmedBy
    <3>2. CASE t \in Armable(Trees)
      <4>1. ArmedBy(t)' = ArmedBy(t) \cup {s} /\ s \notin ArmedBy(t)
        BY <1>0, <2>1, <3>2 DEF ArmedBy
      <4>2. Cardinality(ArmedBy(t)') = Cardinality(ArmedBy(t)) + 1
        BY <4>1, ArmedByFinite, FS_AddElement
      <4> QED
        BY <1>0, <2>1, <3>1, <3>2, <4>2, ArmedByFinite
    <3>3. CASE t \notin Armable(Trees)
      <4>1. ArmedBy(t)' = ArmedBy(t)
        BY <1>0, <2>1, <3>3 DEF ArmedBy
      <4> QED
        BY <2>1, <3>1, <3>3, <4>1
    <3> QED
      BY <3>2, <3>3
  <2> QED
    BY <2>2, <2>3 DEF RefsBalance, ArmedBy
<1>4. ASSUME NEW s \in Receivers,
             \/ ReadLog(s) \/ SendSeed(s) \/ TakeEvent(s) \/ SendNew(s) \/ SendFrame(s)
             \/ Receive(s)
      PROVE  ArmedLate' /\ RefsBalance'
  <2>1. UNCHANGED <<refs, armed, leaked>>
    BY <1>4 DEF ReadLog, SendSeed, Seed, TakeEvent, SendNew, SendFrame, Receive
  <2>2. \/ stage' = stage
        \/ \E st \in {"sending", "waiting", "relogging"} : stage' = [stage EXCEPT ![s] = st]
    BY <1>4 DEF ReadLog, SendSeed, Seed, TakeEvent, SendNew, SendFrame, Receive, Emit
  <2> QED
    BY <2>1, <2>2, CountsUntouched DEF Stages
<1>5. ASSUME NEW s \in Receivers, Abort(s) PROVE ArmedLate' /\ RefsBalance'
  <2>1. /\ stage' = [stage EXCEPT ![s] = "ended"] /\ armed' = [armed EXCEPT ![s] = {}]
    BY <1>5 DEF Abort, EndTask, Vacate
  <2>2. ArmedLate'
    BY <1>0, <2>1 DEF ArmedLate
  <2>3. ASSUME NEW t \in Trees
        PROVE  refs'[t] = Cardinality(ArmedBy(t)') + leaked'[t]
    <3>1. refs[t] = Cardinality(ArmedBy(t)) + leaked[t]
      BY DEF RefsBalance, ArmedBy
    <3>2. ArmedBy(t)' = ArmedBy(t) \ {s}
      BY <1>0, <2>1 DEF ArmedBy
    <3>3. CASE stage[s] = "arming"
      <4>1. /\ refs' = [u \in Trees |-> IF u \in Armable(Trees) THEN refs[u] + 1 ELSE refs[u]]
            /\ leaked' = [u \in Trees |-> IF u \in Armable(Trees) THEN leaked[u] + 1
                                          ELSE leaked[u]]
        BY <1>5, <3>3 DEF Abort, EndTask, Arm
      <4>2. ArmedBy(t)' = ArmedBy(t)
        BY <3>2, <3>3 DEF ArmedBy, ArmedLate
      <4> QED
        BY <1>0, <3>1, <4>1, <4>2, ArmedByFinite
    <3>4. CASE stage[s] # "arming"
      <4>1. /\ refs' = [u \in Trees |-> IF u \in armed[s] /\ refs[u] > 0 THEN refs[u] - 1
                                        ELSE refs[u]]
            /\ leaked' = leaked
        BY <1>5, <3>4 DEF Abort, EndTask, Disarm
      <4>2. Cardinality(ArmedBy(t)') = IF t \in armed[s] THEN Cardinality(ArmedBy(t)) - 1
                                       ELSE Cardinality(ArmedBy(t))
        <5>1. Cardinality(ArmedBy(t) \ {s}) = IF s \in ArmedBy(t) THEN Cardinality(ArmedBy(t)) - 1
                                              ELSE Cardinality(ArmedBy(t))
          BY ArmedByFinite, FS_RemoveElement
        <5>2. s \in ArmedBy(t) <=> t \in armed[s]
          BY DEF ArmedBy
        <5> QED
          BY <3>2, <5>1, <5>2
      <4>3. t \in armed[s] => Cardinality(ArmedBy(t)) # 0
        BY ArmedByFinite, FS_EmptySet DEF ArmedBy
      <4>4. t \in armed[s] => refs[t] > 0
        BY <1>0, <3>1, <4>3, ArmedByFinite
      <4> QED
        BY <1>0, <3>1, <4>1, <4>2, <4>4, ArmedByFinite
    <3> QED
      BY <3>3, <3>4
  <2> QED
    BY <2>2, <2>3 DEF RefsBalance, ArmedBy
<1> QED
  BY <1>1, <1>2, <1>3, <1>4, <1>5 DEF Next, TaskStep

Counts == Types /\ ArmedLate /\ RefsBalance

LEMMA CountsInvariant == Spec => []Counts
<1>1. Init => Counts
  <2> SUFFICES ASSUME Init PROVE ArmedLate /\ RefsBalance
    BY StreamTypeInit DEF Counts
  <2>1. \A t \in Trees : ArmedBy(t) = {}
    BY DEF Init, ArmedBy
  <2>2. \A t \in Trees : Cardinality(ArmedBy(t)) = 0 /\ refs[t] = 0 /\ leaked[t] = 0
    BY <2>1, FS_EmptySet DEF Init, GitInit
  <2> QED
    BY <2>2 DEF Init, ArmedLate, RefsBalance, ArmedBy
<1>2. Counts /\ [Next]_vars => Counts'
  <2> SUFFICES ASSUME Counts, [Next]_vars PROVE Counts'
    OBVIOUS
  <2>1. Types'
    BY StreamTypeStep DEF Counts
  <2>2. CASE UNCHANGED vars
    BY <2>1, <2>2 DEF vars, taskVars, faultVars, Counts, ArmedLate, RefsBalance
  <2>3. CASE Next
    BY <2>1, <2>3, CountsStep DEF Counts
  <2> QED
    BY <2>2, <2>3
<1> QED
  BY <1>1, <1>2, PTL DEF Spec

\* The interest count of a tree is the number of tasks that armed it and the
\* arms that an abort cut off: no task takes back a count of another, although
\* two of them may have counted different trees.
THEOREM WatchesAreCounted == Spec => []RefsBalance
<1>1. Counts => RefsBalance
  BY DEF Counts
<1> QED
  BY <1>1, CountsInvariant, PTL

-----------------------------------------------------------------------------
(* What is told once.                                                      *)

\* A commit is numbered once, in one tree.
LogsApart ==
    /\ \A t \in Trees : Commits(t) \subseteq 1..clock
    /\ \A t, u \in Trees : t # u => Commits(t) \cap Commits(u) = {}

\* The commits of the frames that wait for the client; all that it was or is
\* being told; and all that, with what its seed was chosen from.
OnWay(s) == UNION {queue[s][i] : i \in 1..Len(queue[s])}

Delivered(s) == told[s] \cup frame[s] \cup OnWay(s)

Handled(s) == Delivered(s) \cup old[s]

Seeded(s) == stage[s] \in {"sending", "waiting", "relogging"}

\* What failed reads lost track of.
Excused(s) == UNION {Commits(t) : t \in blind[s]}

\* Nothing is told before the seed, and nothing read before it is begun.
InStages(s) ==
    /\ ~Seeded(s) => told[s] = {} /\ queue[s] = <<>>
    /\ ~Seeded(s) /\ stage[s] # "seeding" => old[s] = {}
    /\ stage[s] # "sending" => frame[s] = {}
    /\ Handled(s) \subseteq 1..clock

\* What was handled and is still among a tree's newest is in the cache of it...
CacheKeeps(s) ==
    \A t \in Trees \ blind[s] :
        Handled(s) \cap Newest(Limit, Commits(t)) \subseteq cache[s][t]

\* ... and what is in a cache and was handled counts as told.
CountedAsTold(s) ==
    Seeded(s) => \A t \in Trees \ blind[s] :
                    Handled(s) \cap cache[s][t] \subseteq emitted[s]

\* A frame behind another, or behind the first that told the client anything,
\* has nothing of those before it.
FramesApart(s) ==
    /\ told[s] # {} => (told[s] \cup old[s]) \cap OnWay(s) \subseteq Excused(s)
    /\ \A i, j \in 1..Len(queue[s]) :
          i < j => (queue[s][i] \cup old[s]) \cap queue[s][j] \subseteq Excused(s)
    /\ told[s] # {} \/ queue[s] # <<>> =>
          frame[s] \cap (told[s] \cup old[s] \cup OnWay(s)) \subseteq Excused(s)

ToldOnce(s) == again[s] \subseteq Excused(s)

Telling(s) ==
    InStages(s) /\ CacheKeeps(s) /\ CountedAsTold(s) /\ FramesApart(s) /\ ToldOnce(s)

TellInv == LogsApart /\ \A s \in Receivers : Telling(s)

-----------------------------------------------------------------------------
(* What is not missed.                                                     *)

\* A task that waits has counted all it holds, and has nothing left to read.
AllCounted(s) ==
    stage[s] \in {"sending", "waiting"} =>
        emitted[s] = HeldOids(cache[s]) /\ relog[s] = <<>>

\* What counts as told was told, or a full window of newer commits was.
ToldOrPassed(s) ==
    Seeded(s) => \A c \in emitted[s] :
        c \in Delivered(s) \/ Cardinality(After(Delivered(s), c)) >= Limit

InList(t, list) == \E i \in 1..Len(list) : list[i] = t

\* The cache of a tree a task has armed is up to date, or the task will hear.
WillHear(s) ==
    \A t \in armed[s] \ blind[s] :
        \/ cache[s][t] = Newest(Limit, Commits(t))
        \/ t \in raised \/ s \in lagged
        \/ InList(t, inbox[s]) \/ InList(t, relog[s])

Hearing(s) ==
    AllCounted(s) /\ ToldOrPassed(s) /\ (Live(s) => s \in open) /\ WillHear(s)

HearInv == \A s \in Receivers : Hearing(s)

-----------------------------------------------------------------------------
(* The steps of a task and its client keep what is told once.              *)

\* Nothing of r's task and client is touched.
Same(r) ==
    /\ stage'[r] = stage[r] /\ cache'[r] = cache[r] /\ emitted'[r] = emitted[r]
    /\ frame'[r] = frame[r] /\ queue'[r] = queue[r] /\ told'[r] = told[r]
    /\ old'[r] = old[r] /\ again'[r] = again[r] /\ blind'[r] = blind[r]

LEMMA OthersSame ==
    ASSUME Types, NEW s \in Receivers,
           Subscribe(s) \/ TaskStep(s) \/ Receive(s) \/ Abort(s)
    PROVE  /\ UNCHANGED <<log, clock>>
           /\ \A r \in Receivers \ {s} : Same(r)
<1> USE DEF Same, gitVars, watchVars, busVars, taskVars, clientVars, faultVars, GoTo, Emit
<1>0. \A r \in Receivers : cache[r] \in [Trees -> SUBSET Nat]
  BY DEF Types, MoreTypes
<1>1. CASE Subscribe(s)
  BY <1>1 DEF Subscribe
<1>2. CASE ReadMembers(s)
  BY <1>2 DEF ReadMembers
<1>3. CASE ArmWatches(s)
  BY <1>3 DEF ArmWatches
<1>4. CASE ReadLog(s)
  BY <1>4 DEF ReadLog
<1>5. CASE SendSeed(s)
  BY <1>5 DEF SendSeed, Seed
<1>6. CASE TakeEvent(s)
  BY <1>6 DEF TakeEvent
<1>7. CASE SendNew(s)
  <2>1. /\ UNCHANGED <<log, clock, cache, queue, told, old, again, blind>>
        /\ \E e : emitted' = [emitted EXCEPT ![s] = e]
        /\ \E st : stage' = [stage EXCEPT ![s] = st]
        /\ frame' = frame \/ \E f : frame' = [frame EXCEPT ![s] = f]
    BY <1>7 DEF SendNew
  <2>2. /\ emitted \in [Receivers -> SUBSET Nat] /\ stage \in [Receivers -> Stages]
        /\ frame \in [Receivers -> SUBSET Nat]
    BY DEF Types, TypeOK, MoreTypes
  <2>3. \A r \in Receivers \ {s} : emitted'[r] = emitted[r]
    BY <2>1, <2>2
  <2>4. \A r \in Receivers \ {s} : stage'[r] = stage[r]
    BY <2>1, <2>2
  <2>5. \A r \in Receivers \ {s} : frame'[r] = frame[r]
    BY <2>1, <2>2
  <2> QED
    BY <2>1, <2>3, <2>4, <2>5
<1>8. CASE SendFrame(s)
  BY <1>8 DEF SendFrame
<1>9. CASE Receive(s)
  BY <1>9 DEF Receive
<1>10. CASE Abort(s)
  BY <1>10 DEF Abort, EndTask, Vacate
<1> QED
  BY <1>1, <1>2, <1>3, <1>4, <1>5, <1>6, <1>7, <1>8, <1>9, <1>10 DEF TaskStep

LEMMA TellingSame ==
    ASSUME UNCHANGED <<log, clock>>, NEW r \in Receivers, Same(r), Telling(r)
    PROVE  Telling(r)'
BY DEF Same, Telling, InStages, CacheKeeps, CountedAsTold, FramesApart, ToldOnce, Seeded,
       Handled, Delivered, OnWay, Excused, Commits

LEMMA LogsApartSame == LogsApart /\ UNCHANGED <<log, clock>> => LogsApart'
BY DEF LogsApart, Commits

\* Commits that land are new to everyone.
LEMMA TellingLand ==
    ASSUME Types, TellInv, NEW t \in Trees, NEW n \in 1..2, Land(t, n), UNCHANGED streamVars
    PROVE  TellInv'
<1>1. /\ clock \in Nat /\ clock' = clock + n
      /\ Commits(t)' = Commits(t) \cup (clock + 1)..(clock + n)
      /\ \A u \in Trees \ {t} : Commits(u)' = Commits(u)
  BY LandAdds DEF Types, TypeOK
<1>2. LogsApart'
  <2>1. \A u \in Trees : Commits(u)' \subseteq 1..clock'
    BY <1>1 DEF TellInv, LogsApart
  <2>2. \A u, v \in Trees : u # v => Commits(u)' \cap Commits(v)' = {}
    BY <1>1 DEF TellInv, LogsApart
  <2> QED
    BY <2>1, <2>2 DEF LogsApart
<1>3. ASSUME NEW s \in Receivers PROVE Telling(s)'
  <2>1. /\ Handled(s)' = Handled(s) /\ Delivered(s)' = Delivered(s)
        /\ OnWay(s)' = OnWay(s) /\ Seeded(s)' = Seeded(s)
        /\ UNCHANGED <<stage, cache, emitted, frame, queue, told, old, again, blind>>
    BY DEF streamVars, taskVars, clientVars, faultVars, Handled, Delivered, OnWay, Seeded
  <2>2. Telling(s)
    BY DEF TellInv
  <2>3. Excused(s) \subseteq Excused(s)'
    BY <1>1, <2>1 DEF Excused, Types, MoreTypes
  <2>4. InStages(s)'
    BY <1>1, <2>1, <2>2 DEF Telling, InStages
  <2>5. CacheKeeps(s)'
    <3> SUFFICES ASSUME NEW u \in Trees \ blind[s], NEW c \in Handled(s),
                        c \in Newest(Limit, Commits(u)')
                 PROVE  c \in cache[s][u]
      BY <2>1 DEF CacheKeeps
    <3>1. c \in Commits(u)' /\ c <= clock /\ c \in Nat
      BY <1>1, <2>2 DEF Newest, Telling, InStages
    <3>2. c \in Commits(u)
      BY <1>1, <3>1
    <3>3. Commits(u) \subseteq Commits(u)'
      BY <1>1
    <3>4. Commits(u)' \in SUBSET (1..clock')
      BY <1>2 DEF LogsApart
    <3>5. IsFiniteSet(Commits(u)')
      <4>1. 1 \in Int /\ clock' \in Int
        BY <1>1
      <4> QED
        BY <3>4, <4>1, FS_Interval, FS_Subset
    <3>6. c \in Newest(Limit, Commits(u))
      BY <3>2, <3>3, <3>5, NewestOfPart, CommitStreamAssumption
    <3> QED
      BY <2>2, <3>6 DEF Telling, CacheKeeps
  <2>6. CountedAsTold(s)'
    BY <2>1, <2>2 DEF Telling, CountedAsTold
  <2>7. FramesApart(s)'
    BY <2>1, <2>2, <2>3 DEF Telling, FramesApart
  <2>8. ToldOnce(s)'
    BY <2>1, <2>2, <2>3 DEF Telling, ToldOnce
  <2> QED
    BY <2>4, <2>5, <2>6, <2>7, <2>8 DEF Telling
<1> QED
  BY <1>2, <1>3 DEF TellInv

\* A task that only moves on.
LEMMA TellingMoves ==
    ASSUME Types, NEW s \in Receivers, Telling(s),
           Subscribe(s) \/ ReadMembers(s) \/ ArmWatches(s) \/ TakeEvent(s)
    PROVE  Telling(s)'
<1>1. /\ UNCHANGED <<log, clock, cache, emitted, frame, queue, told, old, again, blind>>
      /\ \/ stage[s] \in {"off", "gate", "arming"} /\ stage'[s] \in {"gate", "arming", "seeding"}
         \/ stage[s] = "waiting" /\ stage'[s] = "relogging"
  BY DEF Types, TypeOK, Subscribe, ReadMembers, ArmWatches, TakeEvent, GoTo, gitVars,
         watchVars, busVars, taskVars, clientVars, faultVars
<1>2. /\ Handled(s)' = Handled(s) /\ Delivered(s)' = Delivered(s) /\ OnWay(s)' = OnWay(s)
      /\ Seeded(s)' = Seeded(s) /\ Excused(s)' = Excused(s)
      /\ \A t \in Trees : Commits(t)' = Commits(t)
  BY <1>1 DEF Handled, Delivered, OnWay, Seeded, Excused, Commits
<1>3. InStages(s)'
  BY <1>1, <1>2 DEF Telling, InStages, Seeded
<1>4. CacheKeeps(s)' /\ CountedAsTold(s)'
  BY <1>1, <1>2 DEF Telling, CacheKeeps, CountedAsTold
<1>5. FramesApart(s)' /\ ToldOnce(s)'
  BY <1>1, <1>2 DEF Telling, FramesApart, ToldOnce
<1> QED
  BY <1>3, <1>4, <1>5 DEF Telling

LEMMA TellingReadLog ==
    ASSUME Types, LogsApart, NEW s \in Receivers, Telling(s), ReadLog(s) PROVE Telling(s)'
<1> DEFINE t == Head(relog[s])
<1>1. relog[s] \in Seq(Trees) /\ relog[s] # <<>> /\ clock \in Nat
  BY DEF ReadLog, Types, TypeOK
<1>2. t \in Trees
  BY <1>1, HeadTailProperties
<1>3. PICK ok \in BOOLEAN :
        /\ cache' = [cache EXCEPT ![s][t] = LogRead(t, ok)]
        /\ blind' = IF ok THEN blind ELSE [blind EXCEPT ![s] = @ \cup {t}]
  BY DEF ReadLog
<1>4. /\ UNCHANGED <<log, clock, stage, emitted, frame, queue, told, again>>
      /\ stage[s] \in {"seeding", "relogging"}
      /\ old' = IF stage[s] = "seeding" THEN [old EXCEPT ![s] = @ \cup Commits(t)] ELSE old
  BY DEF ReadLog, gitVars, busVars, clientVars
<1> HIDE DEF t
<1>5. /\ cache'[s][t] = LogRead(t, ok)
      /\ \A u \in Trees \ {t} : cache'[s][u] = cache[s][u]
      /\ ok => blind'[s] = blind[s]
      /\ ~ok => t \in blind'[s]
      /\ blind[s] \subseteq blind'[s]
  BY <1>2, <1>3 DEF Types, MoreTypes
<1>6. /\ Delivered(s)' = Delivered(s) /\ OnWay(s)' = OnWay(s)
      /\ Seeded(s)' = Seeded(s) /\ Excused(s) \subseteq Excused(s)'
      /\ \A u \in Trees : Commits(u)' = Commits(u)
  BY <1>4, <1>5 DEF Delivered, OnWay, Seeded, Excused, Commits
<1>7. /\ Handled(s) \subseteq Handled(s)' /\ Handled(s)' \subseteq Handled(s) \cup Commits(t)
      /\ Seeded(s) => old'[s] = old[s] /\ Handled(s)' = Handled(s)
  BY <1>2, <1>4, <1>6 DEF Handled, Seeded, Types, MoreTypes
<1>8. InStages(s)'
  BY <1>2, <1>4, <1>6, <1>7 DEF Telling, InStages, LogsApart, Seeded
<1>9. \A u \in Trees \ {t} : Handled(s)' \cap Commits(u) \subseteq Handled(s)
  BY <1>2, <1>7 DEF LogsApart
<1>10. \A S : Newest(Limit, S) \subseteq S
  BY DEF Newest
<1>11. t \notin blind'[s] => cache'[s][t] = Newest(Limit, Commits(t))
  BY <1>5 DEF LogRead
<1>12. CacheKeeps(s)'
  <2> SUFFICES ASSUME NEW u \in Trees \ blind'[s]
               PROVE  Handled(s)' \cap Newest(Limit, Commits(u)) \subseteq cache'[s][u]
    BY <1>6 DEF CacheKeeps
  <2>1. CASE u = t
    BY <1>11, <2>1
  <2>2. CASE u # t
    BY <1>5, <1>9, <1>10, <2>2 DEF Telling, CacheKeeps
  <2> QED
    BY <2>1, <2>2
<1>13. CountedAsTold(s)'
  <2> SUFFICES ASSUME Seeded(s), NEW u \in Trees \ blind'[s]
               PROVE  Handled(s) \cap cache'[s][u] \subseteq emitted[s]
    BY <1>4, <1>6, <1>7 DEF CountedAsTold
  <2>1. CASE u = t
    BY <1>5, <1>11, <2>1 DEF Telling, CacheKeeps, CountedAsTold
  <2>2. CASE u # t
    BY <1>5, <2>2 DEF Telling, CountedAsTold
  <2> QED
    BY <2>1, <2>2
<1>14. FramesApart(s)'
  <2>1. CASE Seeded(s)
    BY <1>4, <1>6, <1>7, <2>1 DEF Telling, FramesApart
  <2>2. CASE ~Seeded(s)
    <3>1. told'[s] = {} /\ queue'[s] = <<>> /\ Len(queue'[s]) = 0
      BY <1>4, <2>2, EmptySeq DEF Telling, InStages
    <3> QED
      BY <3>1 DEF FramesApart
  <2> QED
    BY <2>1, <2>2
<1>15. ToldOnce(s)'
  BY <1>4, <1>6 DEF Telling, ToldOnce
<1> QED
  BY <1>8, <1>12, <1>13, <1>14, <1>15 DEF Telling

\* What a task holds is in the logs.
LEMMA HeldInLogs ==
    ASSUME Types, LogsApart, NEW s \in Receivers
    PROVE  /\ HeldOids(cache[s]) \subseteq 1..clock
           /\ \A t \in Trees : cache[s][t] \subseteq HeldOids(cache[s])
BY DEF Types, TypeOK, LogsApart, HeldOids

LEMMA TellingSeed ==
    ASSUME Types, LogsApart, NEW s \in Receivers, Telling(s), SendSeed(s) PROVE Telling(s)'
<1> DEFINE page == Newest(Limit, HeldOids(cache[s]))
<1>1. /\ stage[s] = "seeding" /\ stage'[s] = "sending"
      /\ emitted'[s] = HeldOids(cache[s]) /\ frame'[s] = page
      /\ UNCHANGED <<log, clock, cache, queue, told, old, again, blind>>
  BY DEF SendSeed, Seed, Emit, GoTo, gitVars, watchVars, clientVars, faultVars, Types,
         TypeOK, MoreTypes
<1>2. told[s] = {} /\ queue[s] = <<>> /\ Len(queue[s]) = 0
  BY <1>1, EmptySeq DEF Telling, InStages, Seeded
<1>3. page \subseteq HeldOids(cache[s])
  BY DEF Newest
<1> HIDE DEF page
<1>4. /\ \A t \in Trees : Commits(t)' = Commits(t)
      /\ Excused(s)' = Excused(s) /\ Seeded(s)'
      /\ Handled(s)' = page \cup old[s] /\ old[s] \subseteq Handled(s)
  BY <1>1, <1>2 DEF Commits, Excused, Handled, Delivered, OnWay, Seeded
<1>5. InStages(s)'
  BY <1>1, <1>3, <1>4, HeldInLogs DEF Telling, InStages
<1>6. CountedAsTold(s)'
  BY <1>1, HeldInLogs DEF CountedAsTold
<1>7. ASSUME NEW t \in Trees \ blind[s], NEW c \in Handled(s)',
             c \in Newest(Limit, Commits(t))
      PROVE  c \in cache[s][t]
  <2>1. CASE c \in old[s]
    BY <1>4, <1>7, <2>1 DEF Telling, CacheKeeps
  <2>2. CASE c \in page
    <3>1. PICK u \in Trees : c \in cache[s][u]
      BY <1>3, <2>2 DEF HeldOids
    <3>2. c \in Commits(u) /\ c \in Commits(t)
      BY <1>7, <3>1 DEF Types, TypeOK, Newest
    <3>3. u = t
      BY <3>2 DEF LogsApart
    <3> QED
      BY <3>1, <3>3
  <2> QED
    BY <1>4, <2>1, <2>2
<1>8. CacheKeeps(s)'
  BY <1>1, <1>4, <1>7 DEF CacheKeeps
<1>9. FramesApart(s)' /\ ToldOnce(s)'
  BY <1>1, <1>2, <1>4 DEF Telling, FramesApart, ToldOnce
<1> QED
  BY <1>5, <1>6, <1>8, <1>9 DEF Telling

LEMMA TellingNew ==
    ASSUME Types, LogsApart, NEW s \in Receivers, Telling(s), SendNew(s) PROVE Telling(s)'
<1> DEFINE new == HeldOids(cache[s]) \ emitted[s]
<1>1. /\ stage[s] = "relogging" /\ emitted'[s] = HeldOids(cache[s])
      /\ UNCHANGED <<log, clock, cache, queue, told, old, again, blind>>
  BY DEF SendNew, gitVars, watchVars, busVars, clientVars, faultVars, Types, MoreTypes
<1>2. IF new = {} THEN GoTo(s, "waiting") /\ UNCHANGED frame ELSE Emit(s, new)
  BY DEF SendNew
<1>3. frame[s] = {}
  BY <1>1 DEF Telling, InStages
<1> HIDE DEF new
<1>4. /\ frame'[s] = new /\ stage'[s] \in {"waiting", "sending"}
      /\ stage'[s] # "sending" => new = {}
  BY <1>2, <1>3 DEF Emit, GoTo, Types, TypeOK, MoreTypes
<1>5. /\ \A t \in Trees : Commits(t)' = Commits(t)
      /\ Excused(s)' = Excused(s) /\ Seeded(s)' /\ Seeded(s) /\ OnWay(s)' = OnWay(s)
      /\ Handled(s)' = Handled(s) \cup new
  BY <1>1, <1>3, <1>4 DEF Commits, Excused, Handled, Delivered, OnWay, Seeded
<1>6. new \subseteq HeldOids(cache[s])
  BY DEF new
<1>7. InStages(s)'
  BY <1>1, <1>4, <1>5, <1>6, HeldInLogs DEF Telling, InStages
<1>8. CountedAsTold(s)'
  BY <1>1, HeldInLogs DEF CountedAsTold
<1>9. ASSUME NEW c \in new
      PROVE  \E t \in Trees : c \in cache[s][t] /\ c \in Commits(t)
  BY <1>6 DEF HeldOids, Types, TypeOK
<1>10. CacheKeeps(s)'
  <2> SUFFICES ASSUME NEW t \in Trees \ blind[s], NEW c \in Handled(s)',
                      c \in Newest(Limit, Commits(t))
               PROVE  c \in cache[s][t]
    BY <1>1, <1>5 DEF CacheKeeps
  <2>1. CASE c \in Handled(s)
    BY <2>1 DEF Telling, CacheKeeps
  <2>2. CASE c \in new
    BY <1>9, <2>2 DEF LogsApart, Newest
  <2> QED
    BY <1>5, <2>1, <2>2
<1>11. new \cap Handled(s) \subseteq Excused(s)
  <2> SUFFICES ASSUME NEW c \in new, c \in Handled(s) PROVE c \in Excused(s)
    OBVIOUS
  <2>1. PICK t \in Trees : c \in cache[s][t] /\ c \in Commits(t)
    BY <1>9
  <2>2. c \notin emitted[s]
    BY DEF new
  <2>3. t \in blind[s]
    BY <1>5, <2>1, <2>2 DEF Telling, CountedAsTold
  <2> QED
    BY <2>1, <2>3 DEF Excused
<1>12. FramesApart(s)' /\ ToldOnce(s)'
  <2>1. told[s] \cup old[s] \cup OnWay(s) \subseteq Handled(s)
    BY DEF Handled, Delivered
  <2> QED
    BY <1>1, <1>4, <1>5, <1>11, <2>1 DEF Telling, FramesApart, ToldOnce
<1> QED
  BY <1>7, <1>8, <1>10, <1>12 DEF Telling

LEMMA FrameQueued ==
    ASSUME Types, NEW s \in Receivers, NEW n, n = Len(queue[s]), SendFrame(s)
    PROVE  /\ stage[s] = "sending" /\ stage'[s] = "waiting" /\ frame'[s] = {}
           /\ UNCHANGED <<log, clock, cache, emitted, told, old, again, blind>>
           /\ n \in Nat /\ Len(queue'[s]) = n + 1 /\ queue'[s][n + 1] = frame[s]
           /\ \A i \in 1..n : queue'[s][i] = queue[s][i]
           /\ queue'[s] # <<>> /\ (n > 0 => queue[s] # <<>>)
           /\ OnWay(s)' = OnWay(s) \cup frame[s]
<1>1. /\ stage[s] = "sending" /\ stage'[s] = "waiting" /\ frame'[s] = {}
      /\ queue'[s] = Append(queue[s], frame[s])
      /\ UNCHANGED <<log, clock, cache, emitted, told, old, again, blind>>
  BY DEF SendFrame, GoTo, gitVars, watchVars, busVars, clientVars, faultVars, Types, TypeOK,
         MoreTypes
<1>2. /\ n \in Nat /\ Len(queue'[s]) = n + 1 /\ queue'[s][n + 1] = frame[s]
      /\ \A i \in 1..n : queue'[s][i] = queue[s][i]
      /\ queue'[s] # <<>> /\ (n > 0 => queue[s] # <<>>)
  <2>1. queue[s] \in Seq(SUBSET Nat) /\ frame[s] \in SUBSET Nat
    BY DEF Types, MoreTypes
  <2> QED
    BY <1>1, <2>1, AppendProperties, LenProperties, EmptySeq
<1>3. OnWay(s)' = OnWay(s) \cup frame[s]
  <2>1. OnWay(s)' = UNION {queue'[s][i] : i \in 1..(n + 1)}
    BY <1>2 DEF OnWay
  <2>2. OnWay(s) = UNION {queue[s][i] : i \in 1..n}
    BY DEF OnWay
  <2>3. \A i \in 1..(n + 1) : i \in 1..n \/ i = n + 1
    BY <1>2
  <2>4. \A i \in 1..n : i \in 1..(n + 1)
    BY <1>2
  <2>5. n + 1 \in 1..(n + 1)
    BY <1>2
  <2>6. OnWay(s)' \subseteq OnWay(s) \cup frame[s]
    BY <1>2, <2>1, <2>2, <2>3
  <2>7. OnWay(s) \subseteq OnWay(s)' /\ frame[s] \subseteq OnWay(s)'
    BY <1>2, <2>1, <2>2, <2>4, <2>5
  <2> QED
    BY <2>6, <2>7
<1> QED
  BY <1>1, <1>2, <1>3

LEMMA TellingSend ==
    ASSUME Types, NEW s \in Receivers, Telling(s), SendFrame(s) PROVE Telling(s)'
<1> DEFINE n == Len(queue[s])
<1>1. /\ stage[s] = "sending" /\ stage'[s] = "waiting" /\ frame'[s] = {}
      /\ UNCHANGED <<log, clock, cache, emitted, told, old, again, blind>>
  BY FrameQueued
<1>2. /\ n \in Nat /\ Len(queue'[s]) = n + 1 /\ queue'[s][n + 1] = frame[s]
      /\ \A i \in 1..n : queue'[s][i] = queue[s][i]
      /\ queue'[s] # <<>> /\ (n > 0 => queue[s] # <<>>)
  BY FrameQueued
<1> HIDE DEF n
<1>3. OnWay(s)' = OnWay(s) \cup frame[s]
  BY FrameQueued
<1>4. /\ \A t \in Trees : Commits(t)' = Commits(t)
      /\ Excused(s)' = Excused(s) /\ Seeded(s)' /\ Seeded(s)
      /\ Handled(s)' = Handled(s)
  BY <1>1, <1>3 DEF Commits, Excused, Handled, Delivered, Seeded
<1>5. InStages(s)'
  BY <1>1, <1>4 DEF Telling, InStages
<1>6. CacheKeeps(s)' /\ CountedAsTold(s)'
  BY <1>1, <1>4 DEF Telling, CacheKeeps, CountedAsTold
<1>7. FramesApart(s)'
  <2>1. told'[s] # {} => (told'[s] \cup old'[s]) \cap OnWay(s)' \subseteq Excused(s)'
    BY <1>1, <1>3, <1>4 DEF Telling, FramesApart
  <2>2. ASSUME NEW i \in 1..Len(queue'[s]), NEW j \in 1..Len(queue'[s]), i < j
        PROVE  (queue'[s][i] \cup old'[s]) \cap queue'[s][j] \subseteq Excused(s)'
    <3>1. i \in 1..n /\ (j \in 1..n \/ j = n + 1)
      BY <1>2, <2>2
    <3>2. CASE j \in 1..n
      BY <1>1, <1>2, <1>4, <2>2, <3>1, <3>2 DEF Telling, FramesApart, n
    <3>3. CASE j = n + 1
      <4>1. queue[s] # <<>> /\ queue[s][i] \subseteq OnWay(s)
        BY <1>2, <3>1 DEF OnWay, n
      <4>2. frame[s] \cap (old[s] \cup OnWay(s)) \subseteq Excused(s)
        BY <4>1 DEF Telling, FramesApart
      <4> QED
        BY <1>1, <1>2, <1>4, <3>1, <3>3, <4>1, <4>2
    <3> QED
      BY <3>1, <3>2, <3>3
  <2> QED
    BY <1>1, <2>1, <2>2 DEF FramesApart
<1>8. ToldOnce(s)'
  BY <1>1, <1>4 DEF Telling, ToldOnce
<1> QED
  BY <1>5, <1>6, <1>7, <1>8 DEF Telling

LEMMA FrameTaken ==
    ASSUME Types, NEW s \in Receivers, NEW n, n = Len(queue[s]),
           NEW commits, commits = Head(queue[s]), Receive(s)
    PROVE  /\ queue[s] # <<>>
           /\ told'[s] = told[s] \cup commits
           /\ again'[s] = again[s] \cup
                 (commits \cap (IF told[s] = {} THEN {} ELSE told[s] \cup old[s]))
           /\ UNCHANGED <<log, clock, stage, cache, emitted, frame, old, blind>>
           /\ n \in Nat \ {0} /\ Len(queue'[s]) = n - 1 /\ commits = queue[s][1]
           /\ \A i \in 1..(n - 1) : queue'[s][i] = queue[s][i + 1]
           /\ OnWay(s) = OnWay(s)' \cup commits
           /\ commits \subseteq OnWay(s)
           /\ \A j \in 2..n : queue[s][j] \subseteq OnWay(s)
           /\ \A c \in OnWay(s)' : \E j \in 2..n : c \in queue[s][j]
<1>1. /\ queue[s] # <<>> /\ queue'[s] = Tail(queue[s])
      /\ told'[s] = told[s] \cup commits
      /\ again'[s] = again[s] \cup
            (commits \cap (IF told[s] = {} THEN {} ELSE told[s] \cup old[s]))
      /\ UNCHANGED <<log, clock, stage, cache, emitted, frame, old, blind>>
  BY DEF Receive, gitVars, watchVars, busVars, taskVars, faultVars, Types, MoreTypes
<1>2. /\ n \in Nat \ {0} /\ Len(queue'[s]) = n - 1 /\ commits = queue[s][1]
      /\ \A i \in 1..(n - 1) : queue'[s][i] = queue[s][i + 1]
  <2>1. queue[s] \in Seq(SUBSET Nat)
    BY DEF Types, MoreTypes
  <2> QED
    BY <1>1, <2>1, HeadTailProperties, EmptySeq
<1>3. /\ OnWay(s) = OnWay(s)' \cup commits
      /\ commits \subseteq OnWay(s)
      /\ \A j \in 2..n : queue[s][j] \subseteq OnWay(s)
      /\ \A c \in OnWay(s)' : \E j \in 2..n : c \in queue[s][j]
  <2>1. OnWay(s)' = UNION {queue'[s][i] : i \in 1..(n - 1)}
    BY <1>2 DEF OnWay
  <2>2. OnWay(s) = UNION {queue[s][i] : i \in 1..n}
    BY DEF OnWay
  <2>3. \A i \in 1..(n - 1) : i + 1 \in 2..n
    BY <1>2
  <2>4. \A i \in 2..n : i - 1 \in 1..(n - 1) /\ (i - 1) + 1 = i /\ i \in 1..n
    BY <1>2
  <2>5. \A i \in 1..n : i = 1 \/ i \in 2..n
    BY <1>2
  <2>6. 1 \in 1..n
    BY <1>2
  <2>7. \A j \in 2..n : queue[s][j] \subseteq OnWay(s)
    BY <2>2, <2>4
  <2>8. \A c \in OnWay(s)' : \E j \in 2..n : c \in queue[s][j]
    BY <1>2, <2>1, <2>3
  <2>9. ASSUME NEW j \in 2..n PROVE queue[s][j] \subseteq OnWay(s)'
    <3>1. j - 1 \in 1..(n - 1) /\ queue'[s][j - 1] = queue[s][j]
      BY <1>2, <2>4
    <3> QED
      BY <2>1, <3>1
  <2>10. commits \subseteq OnWay(s)
    BY <1>2, <2>2, <2>6
  <2> QED
    BY <1>2, <2>2, <2>5, <2>7, <2>8, <2>9, <2>10
<1> QED
  BY <1>1, <1>2, <1>3

LEMMA TellingReceive ==
    ASSUME Types, NEW s \in Receivers, Telling(s), Receive(s) PROVE Telling(s)'
<1> DEFINE commits == Head(queue[s])
           n == Len(queue[s])
<1>1. /\ queue[s] # <<>>
      /\ told'[s] = told[s] \cup commits
      /\ again'[s] = again[s] \cup
            (commits \cap (IF told[s] = {} THEN {} ELSE told[s] \cup old[s]))
      /\ UNCHANGED <<log, clock, stage, cache, emitted, frame, old, blind>>
  BY FrameTaken
<1>2. /\ n \in Nat \ {0} /\ Len(queue'[s]) = n - 1 /\ commits = queue[s][1]
      /\ \A i \in 1..(n - 1) : queue'[s][i] = queue[s][i + 1]
  BY FrameTaken
<1>3. /\ OnWay(s) = OnWay(s)' \cup commits
      /\ commits \subseteq OnWay(s)
      /\ \A j \in 2..n : queue[s][j] \subseteq OnWay(s)
      /\ \A c \in OnWay(s)' : \E j \in 2..n : c \in queue[s][j]
  BY FrameTaken
<1> HIDE DEF n, commits
<1>4. /\ \A t \in Trees : Commits(t)' = Commits(t)
      /\ Excused(s)' = Excused(s) /\ Seeded(s)' = Seeded(s)
      /\ Handled(s)' = Handled(s)
  BY <1>1, <1>3 DEF Commits, Excused, Handled, Delivered, Seeded
<1>5. Seeded(s)
  BY <1>1 DEF Telling, InStages
<1>6. InStages(s)'
  BY <1>1, <1>4, <1>5 DEF Telling, InStages
<1>7. CacheKeeps(s)' /\ CountedAsTold(s)'
  BY <1>1, <1>4 DEF Telling, CacheKeeps, CountedAsTold
<1>8. \A j \in 2..n : (commits \cup old[s]) \cap queue[s][j] \subseteq Excused(s)
  <2>1. \A j \in 2..n : 1 < j /\ j \in 1..n /\ 1 \in 1..n
    BY <1>2
  <2> QED
    BY <1>2, <2>1 DEF Telling, FramesApart, n
<1>9. FramesApart(s)'
  <2>1. (told'[s] \cup old'[s]) \cap OnWay(s)' \subseteq Excused(s)'
    BY <1>1, <1>3, <1>4, <1>8 DEF Telling, FramesApart
  <2>2. ASSUME NEW i \in 1..Len(queue'[s]), NEW j \in 1..Len(queue'[s]), i < j
        PROVE  (queue'[s][i] \cup old'[s]) \cap queue'[s][j] \subseteq Excused(s)'
    <3>1. /\ i + 1 \in 1..n /\ j + 1 \in 1..n /\ i + 1 < j + 1
          /\ i \in 1..(n - 1) /\ j \in 1..(n - 1)
      BY <1>2, <2>2
    <3>2. (queue[s][i + 1] \cup old[s]) \cap queue[s][j + 1] \subseteq Excused(s)
      BY <3>1 DEF Telling, FramesApart, n
    <3> QED
      BY <1>1, <1>2, <1>4, <3>1, <3>2
  <2>3. frame'[s] \cap (told'[s] \cup old'[s] \cup OnWay(s)') \subseteq Excused(s)'
    BY <1>1, <1>3, <1>4 DEF Telling, FramesApart
  <2> QED
    BY <2>1, <2>2, <2>3 DEF FramesApart
<1>10. ToldOnce(s)'
  BY <1>1, <1>3, <1>4 DEF Telling, ToldOnce, FramesApart
<1> QED
  BY <1>6, <1>7, <1>9, <1>10 DEF Telling

LEMMA TellingAbort ==
    ASSUME Types, NEW s \in Receivers, Abort(s) PROVE Telling(s)'
<1>1. /\ stage'[s] = "ended" /\ queue'[s] = <<>>
      /\ frame'[s] = {} /\ told'[s] = {} /\ old'[s] = {} /\ again'[s] = {}
  BY DEF Abort, EndTask, Vacate, Types, TypeOK, MoreTypes
<1>2. Len(queue'[s]) = 0 /\ ~Seeded(s)'
  BY <1>1, EmptySeq DEF Seeded
<1>3. OnWay(s)' = {} /\ Delivered(s)' = {} /\ Handled(s)' = {}
  BY <1>1, <1>2 DEF OnWay, Delivered, Handled
<1> QED
  BY <1>1, <1>2, <1>3
     DEF Telling, InStages, CacheKeeps, CountedAsTold, FramesApart, ToldOnce

Told == Counts /\ TellInv

LEMMA ToldInvariant == Spec => []Told
<1>1. Init => TellInv
  <2> SUFFICES ASSUME Init PROVE TellInv
    OBVIOUS
  <2>1. LogsApart
    BY DEF Init, GitInit, LogsApart, Commits
  <2>2. ASSUME NEW s \in Receivers PROVE Telling(s)
    <3>1. Len(queue[s]) = 0
      BY EmptySeq DEF Init
    <3>2. OnWay(s) = {} /\ Delivered(s) = {} /\ Handled(s) = {} /\ ~Seeded(s)
      BY <3>1 DEF Init, OnWay, Delivered, Handled, Seeded
    <3> QED
      BY <3>1, <3>2
         DEF Init, Telling, InStages, CacheKeeps, CountedAsTold, FramesApart, ToldOnce
  <2> QED
    BY <2>1, <2>2 DEF TellInv
<1>2. Counts /\ TellInv /\ [Next]_vars => TellInv'
  <2> SUFFICES ASSUME Types, TellInv, [Next]_vars PROVE TellInv'
    BY DEF Counts
  <2>1. ASSUME UNCHANGED <<log, clock>>, \A r \in Receivers : Same(r) PROVE TellInv'
    BY <2>1, TellingSame, LogsApartSame DEF TellInv
  <2>2. CASE UNCHANGED vars
    BY <2>1, <2>2 DEF vars, taskVars, Same
  <2>3. CASE BecomeReady
    BY <2>1, <2>3 DEF BecomeReady, gitVars, taskVars, clientVars, faultVars, Same
  <2>4. CASE \E t \in Trees, n \in 1..2 : Land(t, n) /\ UNCHANGED streamVars
    BY <2>4, TellingLand
  <2>5. CASE \E t \in Trees : GitEvent(t)
    BY <2>1, <2>5 DEF GitEvent, Notify, streamVars, gitVars, taskVars, clientVars, faultVars,
                      Same
  <2>6. ASSUME NEW s \in Receivers, Subscribe(s) \/ TaskStep(s) \/ Receive(s) \/ Abort(s)
        PROVE  TellInv'
    <3>1. LogsApart' /\ \A r \in Receivers \ {s} : Telling(r)'
      BY <2>6, OthersSame, TellingSame, LogsApartSame DEF TellInv
    <3>2. Telling(s)'
      BY <2>6, TellingMoves, TellingReadLog, TellingSeed, TellingNew, TellingSend,
         TellingReceive, TellingAbort
         DEF TaskStep, TellInv
    <3> QED
      BY <3>1, <3>2 DEF TellInv
  <2> QED
    BY <2>2, <2>3, <2>4, <2>5, <2>6 DEF Next
<1> QED
  BY <1>1, <1>2, CountsInvariant, PTL DEF Spec, Told

\* No client is told a commit twice, nor one that its first page was chosen
\* over, unless a read of that tree's log failed meanwhile.
THEOREM CommitsAppearOnce == Spec => []AppearOnce
<1>1. Told => AppearOnce
  BY DEF Told, TellInv, Telling, ToldOnce, Excused, AppearOnce
<1> QED
  BY <1>1, ToldInvariant, PTL

-----------------------------------------------------------------------------
(* No step makes a task deaf to a tree it has armed.                       *)

\* The same, of what a task reads.
SameReads(r) ==
    /\ Same(r) /\ relog'[r] = relog[r] /\ armed'[r] = armed[r]
    /\ r \in open => r \in open'

LEMMA DeliveredSame ==
    ASSUME NEW r \in Receivers, Same(r) PROVE Delivered(r)' = Delivered(r)
BY DEF Same, Delivered, OnWay

\* A watch that a task has armed is counted.
Watched == \A r \in Receivers : \A t \in armed[r] : refs[t] > 0

LEMMA ArmedIsWatched == Counts => Watched
<1> SUFFICES ASSUME Counts, NEW r \in Receivers, NEW t \in armed[r] PROVE refs[t] > 0
    BY DEF Watched
<1>1. t \in Trees /\ leaked[t] \in Nat
  BY DEF Counts, Types, TypeOK, MoreTypes
<1>2. refs[t] = Cardinality(ArmedBy(t)) + leaked[t]
  BY <1>1 DEF Counts, RefsBalance, ArmedBy
<1>3. Cardinality(ArmedBy(t)) # 0
  BY ArmedByFinite, FS_EmptySet DEF ArmedBy
<1> QED
  BY <1>1, <1>2, <1>3, ArmedByFinite

LEMMA HearingSame ==
    ASSUME Types, UNCHANGED log, NEW r \in Receivers, SameReads(r), Hearing(r),
           inbox'[r] = inbox[r],
           r \in lagged => r \in lagged',
           \A t \in armed[r] : t \in raised => t \in raised'
    PROVE  Hearing(r)'
<1>1. Delivered(r)' = Delivered(r)
  BY DeliveredSame DEF SameReads
<1>2. AllCounted(r)' /\ (Live(r) => r \in open)'
  BY DEF Hearing, AllCounted, SameReads, Same, Live, HeldOids
<1>3. ToldOrPassed(r)'
  BY <1>1 DEF Hearing, ToldOrPassed, SameReads, Same, Seeded
<1>4. WillHear(r)'
  <2>1. \A t \in Trees : Commits(t)' = Commits(t)
    BY DEF Commits
  <2>2. armed[r] \subseteq Trees
    BY DEF Types, TypeOK
  <2> QED
    BY <2>1, <2>2 DEF Hearing, WillHear, SameReads, Same, InList
<1> QED
  BY <1>2, <1>3, <1>4 DEF Hearing

\* A step of one task, or the end of it, leaves the others what they need.
LEMMA HearingOthers ==
    ASSUME Counts, Watched', NEW s \in Receivers,
           Subscribe(s) \/ TaskStep(s) \/ Receive(s) \/ Abort(s),
           NEW r \in Receivers \ {s}, Hearing(r)
    PROVE  Hearing(r)'
<1> USE DEF gitVars, watchVars, busVars, taskVars, clientVars, faultVars
<1>1. /\ relog'[r] = relog[r] /\ armed'[r] = armed[r] /\ inbox'[r] = inbox[r]
      /\ (r \in open => r \in open') /\ (r \in lagged => r \in lagged')
  <2>1. /\ relog \in [Receivers -> Seq(Trees)] /\ armed \in [Receivers -> SUBSET Trees]
        /\ inbox \in [Receivers -> Seq(Trees)]
    BY DEF Counts, Types, TypeOK
  <2>2. /\ relog' = relog \/ \E x : relog' = [relog EXCEPT ![s] = x]
        /\ armed' = armed \/ \E x : armed' = [armed EXCEPT ![s] = x]
        /\ inbox' = inbox \/ \E x : inbox' = [inbox EXCEPT ![s] = x]
    BY Zenon DEF TaskStep, Subscribe, ReadMembers, ArmWatches, ReadLog, SendSeed, Seed,
                 TakeEvent, SendNew, SendFrame, Receive, Abort, EndTask, Vacate
  <2>3. /\ open' = open \/ open' = open \cup {s} \/ open' = open \ {s}
        /\ lagged' = lagged \/ lagged' = lagged \ {s}
    BY Zenon DEF TaskStep, Subscribe, ReadMembers, ArmWatches, ReadLog, SendSeed, Seed,
                 TakeEvent, SendNew, SendFrame, Receive, Abort, EndTask, Vacate
  <2>4. relog'[r] = relog[r]
    BY <2>1, <2>2
  <2>5. armed'[r] = armed[r]
    BY <2>1, <2>2
  <2>6. inbox'[r] = inbox[r]
    BY <2>1, <2>2
  <2> QED
    BY <2>3, <2>4, <2>5, <2>6
<1>2. \A t \in armed[r] : t \in raised => t \in raised'
  <2>1. raised' = raised \/ raised' = {t \in raised : refs'[t] > 0}
    BY Zenon DEF TaskStep, Subscribe, ReadMembers, ArmWatches, ReadLog, SendSeed, Seed,
                 TakeEvent, SendNew, SendFrame, Receive, Abort, EndTask, Disarm
  <2>2. \A t \in armed'[r] : refs'[t] > 0
    BY DEF Watched
  <2> QED
    BY <1>1, <2>1, <2>2
<1>3. Same(r) /\ UNCHANGED log
  BY OthersSame DEF Counts
<1> QED
  BY <1>1, <1>2, <1>3, HearingSame DEF Counts, SameReads

LEMMA HearingLand ==
    ASSUME Counts, HearInv, NEW t \in Trees, NEW n \in 1..2, Land(t, n), UNCHANGED streamVars
    PROVE  HearInv'
<1> SUFFICES ASSUME NEW r \in Receivers PROVE Hearing(r)'
    BY DEF HearInv
<1>1. /\ UNCHANGED <<refs, inbox, lagged, open>>
      /\ raised' = IF refs[t] > 0 THEN raised \cup {t} ELSE raised
      /\ Same(r) /\ relog'[r] = relog[r] /\ armed'[r] = armed[r] /\ stage'[r] = stage[r]
  BY DEF Land, busVars, streamVars, taskVars, clientVars, faultVars, Same
<1>2. Hearing(r)
  BY DEF HearInv
<1>3. Delivered(r)' = Delivered(r)
  BY <1>1, DeliveredSame
<1>4. AllCounted(r)' /\ (Live(r) => r \in open)'
  BY <1>1, <1>2 DEF Hearing, AllCounted, Same, Live, HeldOids
<1>5. ToldOrPassed(r)'
  BY <1>1, <1>2, <1>3 DEF Hearing, ToldOrPassed, Same, Seeded
<1>6. WillHear(r)'
  <2> SUFFICES ASSUME NEW u \in armed[r] \ blind[r],
                      u \notin raised', r \notin lagged,
                      ~InList(u, inbox[r]), ~InList(u, relog[r])
               PROVE  cache[r][u] = Newest(Limit, Commits(u)')
    BY <1>1 DEF WillHear, Same, InList
  <2>1. u \in Trees /\ refs[u] > 0
    BY ArmedIsWatched DEF Watched, Counts, Types, TypeOK
  <2>2. u # t /\ u \notin raised
    BY <1>1, <2>1
  <2>3. Commits(u)' = Commits(u)
    BY <2>1, <2>2, LandAdds DEF Counts, Types, TypeOK
  <2> QED
    BY <1>2, <2>2, <2>3 DEF Hearing, WillHear
<1> QED
  BY <1>4, <1>5, <1>6 DEF Hearing

\* An event reaches every open receiver, or the receiver learns that it lost one.
LEMMA HearingNotify ==
    ASSUME Counts, HearInv, NEW t \in Trees, GitEvent(t) PROVE HearInv'
<1> SUFFICES ASSUME NEW r \in Receivers PROVE Hearing(r)'
    BY DEF HearInv
<1>1. /\ UNCHANGED <<log, clock, refs, open>> /\ raised' = raised \ {t}
      /\ lagged' = lagged \cup {q \in open : Len(inbox[q]) = EventBuffer}
      /\ Same(r) /\ relog'[r] = relog[r] /\ armed'[r] = armed[r] /\ stage'[r] = stage[r]
  BY DEF GitEvent, Notify, gitVars, streamVars, taskVars, clientVars, faultVars, Same
<1>2. Hearing(r)
  BY DEF HearInv
<1>3. Delivered(r)' = Delivered(r)
  BY <1>1, DeliveredSame
<1>4. AllCounted(r)' /\ (Live(r) => r \in open)'
  BY <1>1, <1>2 DEF Hearing, AllCounted, Same, Live, HeldOids
<1>5. ToldOrPassed(r)'
  BY <1>1, <1>2, <1>3 DEF Hearing, ToldOrPassed, Same, Seeded
<1>6. WillHear(r)'
  <2> SUFFICES ASSUME NEW u \in armed[r] \ blind[r],
                      cache[r][u] # Newest(Limit, Commits(u)),
                      u \notin raised', r \notin lagged',
                      ~InList(u, relog[r])
               PROVE  InList(u, inbox'[r])
    BY <1>1 DEF WillHear, Same, InList, Commits
  <2>1. stage[r] \in Stages /\ stage[r] \notin {"off", "ended"}
    BY DEF Counts, ArmedLate, Types, TypeOK
  <2>2. r \in open
    BY <1>2, <2>1 DEF Hearing, Live
  <2>3. /\ inbox[r] \in Seq(Trees) /\ Len(inbox[r]) \in Nat /\ Len(inbox[r]) <= EventBuffer
        /\ EventBuffer \in Nat
    BY GitWatchAssumption, LenProperties DEF Counts, Types, TypeOK
  <2>4. Len(inbox[r]) < EventBuffer
    BY <1>1, <2>2, <2>3
  <2>5. inbox'[r] = Append(inbox[r], t)
    BY <2>2, <2>4 DEF GitEvent, Notify
  <2>6. /\ Len(inbox'[r]) = Len(inbox[r]) + 1 /\ inbox'[r][Len(inbox[r]) + 1] = t
        /\ \A i \in 1..Len(inbox[r]) : inbox'[r][i] = inbox[r][i]
    BY <2>3, <2>5, AppendProperties
  <2>7. CASE u = t
    <3>1. Len(inbox[r]) + 1 \in 1..Len(inbox'[r])
      BY <2>3, <2>6
    <3> QED
      BY <2>6, <2>7, <3>1 DEF InList
  <2>8. CASE u # t
    <3>1. InList(u, inbox[r])
      BY <1>1, <1>2, <2>8 DEF Hearing, WillHear
    <3>2. \A i \in 1..Len(inbox[r]) : i \in 1..Len(inbox'[r])
      BY <2>3, <2>6
    <3> QED
      BY <2>6, <3>1, <3>2 DEF InList
  <2> QED
    BY <2>7, <2>8
<1> QED
  BY <1>4, <1>5, <1>6 DEF Hearing

\* A task before its arm, and one that ends, has armed nothing.
LEMMA HearingEnds ==
    ASSUME Counts, NEW s \in Receivers, Hearing(s),
           Subscribe(s) \/ ReadMembers(s) \/ Abort(s)
    PROVE  Hearing(s)'
<1>0. /\ armed \in [Receivers -> SUBSET Trees] /\ stage \in [Receivers -> Stages]
  BY DEF Counts, Types, TypeOK
<1>1. armed'[s] = {} /\ stage'[s] \in {"gate", "arming", "ended"}
  <2>1. CASE Subscribe(s)
    BY <1>0, <2>1 DEF Subscribe, GoTo, taskVars, Counts, ArmedLate
  <2>2. CASE ReadMembers(s)
    BY <1>0, <2>2 DEF ReadMembers, GoTo, taskVars, Counts, ArmedLate
  <2>3. CASE Abort(s)
    BY <1>0, <2>3 DEF Abort, EndTask, Vacate
  <2> QED
    BY <2>1, <2>2, <2>3
<1>2. stage'[s] # "ended" => s \in open'
  <2>1. CASE Subscribe(s)
    BY <2>1 DEF Subscribe
  <2>2. CASE ReadMembers(s)
    BY <2>2 DEF ReadMembers, busVars, Hearing, Live
  <2>3. CASE Abort(s)
    BY <1>0, <2>3 DEF Abort, EndTask, Vacate
  <2> QED
    BY <2>1, <2>2, <2>3
<1> QED
  BY <1>1, <1>2 DEF Hearing, AllCounted, ToldOrPassed, Seeded, Live, WillHear

LEMMA HearingArms ==
    ASSUME Counts, NEW s \in Receivers, Hearing(s), ArmWatches(s) PROVE Hearing(s)'
<1>1. /\ stage[s] = "arming" /\ stage'[s] = "seeding" /\ UNCHANGED open
      /\ armed'[s] \subseteq Trees /\ relog'[s] = TreeList
  BY DEF ArmWatches, Armable, GoTo, busVars, Counts, Types, TypeOK
<1>2. ASSUME NEW t \in Trees PROVE InList(t, TreeList)
  BY FinitelyMany, LenProperties DEF Trees, InList
<1> QED
  BY <1>1, <1>2 DEF Hearing, AllCounted, ToldOrPassed, Seeded, Live, WillHear

LEMMA HearingReadLog ==
    ASSUME Counts, NEW s \in Receivers, Hearing(s), ReadLog(s) PROVE Hearing(s)'
<1> DEFINE t == Head(relog[s])
<1>1. /\ relog[s] \in Seq(Trees) /\ relog[s] # <<>> /\ stage[s] \in {"seeding", "relogging"}
      /\ cache \in [Receivers -> [Trees -> SUBSET Nat]] /\ blind \in [Receivers -> SUBSET Trees]
      /\ relog \in [Receivers -> Seq(Trees)] /\ armed[s] \subseteq Trees
  BY DEF ReadLog, Counts, Types, TypeOK, MoreTypes
<1>2. PICK ok \in BOOLEAN :
        /\ cache' = [cache EXCEPT ![s][t] = LogRead(t, ok)]
        /\ blind' = IF ok THEN blind ELSE [blind EXCEPT ![s] = @ \cup {t}]
  BY DEF ReadLog
<1>3. /\ UNCHANGED <<log, stage, emitted, frame, queue, told, armed, raised, inbox, lagged,
                     open>>
      /\ relog'[s] = Tail(relog[s])
  BY <1>1 DEF ReadLog, gitVars, watchVars, busVars, clientVars
<1>4. /\ t \in Trees /\ t = relog[s][1] /\ Len(relog[s]) \in Nat \ {0}
      /\ Len(Tail(relog[s])) = Len(relog[s]) - 1
      /\ \A i \in 1..Len(Tail(relog[s])) : Tail(relog[s])[i] = relog[s][i + 1]
  BY <1>1, HeadTailProperties, EmptySeq
<1> HIDE DEF t
<1>5. /\ t \notin blind'[s] => cache'[s][t] = Newest(Limit, Commits(t))
      /\ \A u \in Trees \ {t} : cache'[s][u] = cache[s][u]
      /\ blind[s] \subseteq blind'[s]
  BY <1>1, <1>2, <1>4 DEF LogRead
<1>6. ASSUME NEW u, u # t, InList(u, relog[s]) PROVE InList(u, Tail(relog[s]))
  <2>1. PICK i \in 1..Len(relog[s]) : relog[s][i] = u
    BY <1>6 DEF InList
  <2>2. i # 1
    BY <1>4, <1>6, <2>1
  <2>3. i - 1 \in 1..Len(Tail(relog[s])) /\ (i - 1) + 1 = i
    BY <1>4, <2>2
  <2> QED
    BY <1>4, <2>1, <2>3 DEF InList
<1>7. WillHear(s)'
  <2> SUFFICES ASSUME NEW u \in armed[s] \ blind'[s],
                      cache'[s][u] # Newest(Limit, Commits(u)),
                      u \notin raised, s \notin lagged, ~InList(u, inbox[s])
               PROVE  InList(u, relog'[s])
    BY <1>3 DEF WillHear, Commits, InList
  <2>1. u \in Trees /\ u # t
    BY <1>1, <1>5
  <2>2. InList(u, relog[s])
    BY <1>5, <2>1 DEF Hearing, WillHear
  <2> QED
    BY <1>3, <1>6, <2>1, <2>2
<1>8. ToldOrPassed(s)'
  <2>1. Delivered(s)' = Delivered(s)
    BY <1>3 DEF Delivered, OnWay
  <2> QED
    BY <1>3, <2>1 DEF Hearing, ToldOrPassed, Seeded
<1>9. AllCounted(s)' /\ (Live(s) => s \in open)'
  BY <1>1, <1>3 DEF Hearing, AllCounted, Live
<1> QED
  BY <1>7, <1>8, <1>9 DEF Hearing

\* The page of the seed passes over a commit only for a full page of newer ones.
LEMMA HearingSeed ==
    ASSUME Told, NEW s \in Receivers, Hearing(s), SendSeed(s) PROVE Hearing(s)'
<1> DEFINE held == HeldOids(cache[s])
           page == Newest(Limit, held)
<1>1. /\ stage[s] = "seeding" /\ stage'[s] = "sending" /\ relog[s] = <<>>
      /\ emitted'[s] = held /\ frame'[s] = page
      /\ UNCHANGED <<log, clock, cache, queue, told, blind, armed, raised, inbox, lagged,
                     open, relog>>
  BY DEF SendSeed, Seed, Emit, GoTo, gitVars, watchVars, clientVars, faultVars, Told, Counts,
         Types, TypeOK, MoreTypes
<1>2. told[s] = {} /\ queue[s] = <<>> /\ Len(queue[s]) = 0
  BY <1>1, EmptySeq DEF Told, TellInv, Telling, InStages, Seeded
<1>3. Delivered(s)' = page
  BY <1>1, <1>2 DEF Delivered, OnWay
<1>4. held \in SUBSET Nat /\ IsFiniteSet(held)
  <2>1. held \in SUBSET (1..clock) /\ clock \in Nat
    BY HeldInLogs DEF Told, TellInv, Counts, Types, TypeOK
  <2>2. IsFiniteSet(1..clock)
    BY <2>1, FS_Interval
  <2> QED
    BY <2>1, <2>2, FS_Subset
<1>5. ASSUME NEW c \in held, c \notin page PROVE Cardinality(After(page, c)) >= Limit
  BY <1>4, <1>5, NewestAbove, CommitStreamAssumption
<1>6. ToldOrPassed(s)'
  BY <1>1, <1>3, <1>5 DEF ToldOrPassed, After
<1>7. AllCounted(s)' /\ (Live(s) => s \in open)'
  BY <1>1 DEF AllCounted, Hearing, Live, HeldOids
<1>8. WillHear(s)'
  BY <1>1 DEF Hearing, WillHear, InList, Commits
<1> QED
  BY <1>6, <1>7, <1>8 DEF Hearing

LEMMA HearingTakes ==
    ASSUME Counts, NEW s \in Receivers, Hearing(s), TakeEvent(s) PROVE Hearing(s)'
<1>1. /\ stage[s] = "waiting" /\ stage'[s] = "relogging" /\ relog[s] = <<>>
      /\ UNCHANGED <<log, clock, cache, emitted, frame, queue, told, blind, armed, raised,
                     open>>
      /\ relog \in [Receivers -> Seq(Trees)] /\ inbox \in [Receivers -> Seq(Trees)]
      /\ armed[s] \subseteq Trees
  BY DEF TakeEvent, GoTo, gitVars, watchVars, clientVars, faultVars, Counts, Types, TypeOK,
         Hearing, AllCounted
<1>2. Delivered(s)' = Delivered(s)
  BY <1>1 DEF Delivered, OnWay
<1>3. ToldOrPassed(s)' /\ AllCounted(s)' /\ (Live(s) => s \in open)'
  BY <1>1, <1>2 DEF Hearing, ToldOrPassed, AllCounted, Seeded, Live
<1>4. WillHear(s)'
  <2> SUFFICES ASSUME NEW u \in armed[s] \ blind[s],
                      cache[s][u] # Newest(Limit, Commits(u)), u \notin raised
               PROVE  InList(u, inbox'[s]) \/ InList(u, relog'[s])
    <3>1. \A u \in Trees : Commits(u)' = Commits(u)
      BY <1>1 DEF Commits
    <3>2. \A u : /\ InList(u, inbox[s])' <=> InList(u, inbox'[s])
                 /\ InList(u, relog[s])' <=> InList(u, relog'[s])
      BY DEF InList
    <3> QED
      BY <1>1, <3>1, <3>2 DEF WillHear
  <2>1. ~InList(u, <<>>)
    BY EmptySeq DEF InList
  <2>2. s \in lagged \/ InList(u, inbox[s])
    BY <1>1, <2>1 DEF Hearing, WillHear
  <2>3. CASE s \in lagged
    <3>1. relog'[s] = TreeList
      BY <1>1, <2>3 DEF TakeEvent
    <3>2. InList(u, TreeList)
      BY <1>1, FinitelyMany, LenProperties DEF Trees, InList
    <3> QED
      BY <3>1, <3>2
  <2>4. CASE s \notin lagged
    <3>1. /\ inbox[s] # <<>> /\ inbox'[s] = Tail(inbox[s])
          /\ relog'[s] = <<Head(inbox[s])>> /\ inbox[s] \in Seq(Trees)
      BY <1>1, <2>4 DEF TakeEvent
    <3>2. /\ Head(inbox[s]) = inbox[s][1] /\ Len(inbox[s]) \in Nat \ {0}
          /\ Len(Tail(inbox[s])) = Len(inbox[s]) - 1
          /\ \A i \in 1..Len(Tail(inbox[s])) : Tail(inbox[s])[i] = inbox[s][i + 1]
      BY <3>1, HeadTailProperties, EmptySeq
    <3>3. PICK i \in 1..Len(inbox[s]) : inbox[s][i] = u
      BY <2>2, <2>4 DEF InList
    <3>4. CASE i = 1
      BY <3>1, <3>2, <3>3, <3>4 DEF InList
    <3>5. CASE i # 1
      <4>1. i - 1 \in 1..Len(Tail(inbox[s])) /\ (i - 1) + 1 = i
        BY <3>2, <3>5
      <4> QED
        BY <3>1, <3>2, <3>3, <4>1 DEF InList
    <3> QED
      BY <3>4, <3>5
  <2> QED
    BY <2>3, <2>4
<1> QED
  BY <1>3, <1>4 DEF Hearing

LEMMA HearingNew ==
    ASSUME Told, Told', NEW s \in Receivers, Hearing(s), SendNew(s) PROVE Hearing(s)'
<1> DEFINE new == HeldOids(cache[s]) \ emitted[s]
<1>1. /\ stage[s] = "relogging" /\ emitted'[s] = HeldOids(cache[s]) /\ relog[s] = <<>>
      /\ UNCHANGED <<log, clock, cache, queue, told, blind, armed, raised, inbox, lagged,
                     open, relog>>
  BY DEF SendNew, gitVars, watchVars, busVars, clientVars, faultVars, Told, Counts, Types,
         MoreTypes
<1>2. IF new = {} THEN GoTo(s, "waiting") /\ UNCHANGED frame ELSE Emit(s, new)
  BY DEF SendNew
<1>3. frame[s] = {}
  BY <1>1 DEF Told, TellInv, Telling, InStages
<1> HIDE DEF new
<1>4. frame'[s] = new /\ stage'[s] \in {"waiting", "sending"}
  <2>1. frame \in [Receivers -> SUBSET Nat] /\ stage \in [Receivers -> Stages]
    BY DEF Told, Counts, Types, TypeOK, MoreTypes
  <2>2. CASE new = {}
    BY <1>2, <1>3, <2>1, <2>2 DEF GoTo
  <2>3. CASE new # {}
    BY <1>2, <2>1, <2>3 DEF Emit, GoTo
  <2> QED
    BY <2>2, <2>3
<1>5. Delivered(s)' = Delivered(s) \cup new
  BY <1>1, <1>3, <1>4 DEF Delivered, OnWay
<1>6. IsFiniteSet(Delivered(s)')
  <2>1. Delivered(s)' \in SUBSET (1..clock) /\ clock \in Nat
    BY <1>1 DEF Told, TellInv, Telling, InStages, Handled, Counts, Types, TypeOK
  <2>2. IsFiniteSet(1..clock)
    BY <2>1, FS_Interval
  <2> QED
    BY <2>1, <2>2, FS_Subset
<1>7. ToldOrPassed(s)'
  <2> SUFFICES ASSUME NEW c \in HeldOids(cache[s]), c \notin Delivered(s)'
               PROVE  Cardinality(After(Delivered(s)', c)) >= Limit
    BY <1>1 DEF ToldOrPassed, After
  <2>1. c \in emitted[s]
    BY <1>5 DEF new
  <2>2. Cardinality(After(Delivered(s), c)) >= Limit
    BY <1>1, <1>5, <2>1 DEF Hearing, ToldOrPassed, Seeded
  <2>3. /\ Cardinality(After(Delivered(s), c)) <= Cardinality(After(Delivered(s)', c))
        /\ Cardinality(After(Delivered(s), c)) \in Nat
        /\ Cardinality(After(Delivered(s)', c)) \in Nat
    BY <1>5, <1>6, AfterMonotone
  <2> QED
    BY <2>2, <2>3, CommitStreamAssumption
<1>8. AllCounted(s)' /\ (Live(s) => s \in open)'
  BY <1>1, <1>4 DEF AllCounted, Hearing, Live, HeldOids
<1>9. WillHear(s)'
  BY <1>1 DEF Hearing, WillHear, InList, Commits
<1> QED
  BY <1>7, <1>8, <1>9 DEF Hearing

LEMMA HearingSends ==
    ASSUME Counts, NEW s \in Receivers, Hearing(s), SendFrame(s) \/ Receive(s)
    PROVE  Hearing(s)'
<1>0. Delivered(s)' = Delivered(s)
  BY FrameQueued, FrameTaken DEF Counts, Delivered
<1>1. /\ UNCHANGED <<log, clock, cache, emitted, blind, armed, raised, inbox, lagged, open,
                     relog>>
      /\ \/ stage'[s] = stage[s]
         \/ stage[s] = "sending" /\ stage'[s] = "waiting"
  BY DEF SendFrame, Receive, GoTo, gitVars, watchVars, busVars, taskVars, faultVars, Counts,
         Types, TypeOK
<1>2. Seeded(s)' = Seeded(s)
  BY <1>1 DEF Seeded
<1>3. ToldOrPassed(s)'
  BY <1>0, <1>1, <1>2 DEF Hearing, ToldOrPassed
<1>4. AllCounted(s)' /\ (Live(s) => s \in open)'
  BY <1>1 DEF Hearing, AllCounted, Live, HeldOids
<1>5. WillHear(s)'
  BY <1>1 DEF Hearing, WillHear, InList, Commits
<1> QED
  BY <1>3, <1>4, <1>5 DEF Hearing

Heard == Told /\ HearInv

LEMMA HeardInvariant == Spec => []Heard
<1>1. Init => HearInv
  <2> SUFFICES ASSUME Init, NEW s \in Receivers PROVE Hearing(s)
    BY DEF HearInv
  <2> QED
    BY DEF Init, GitInit, Hearing, AllCounted, ToldOrPassed, Seeded, Live, WillHear
<1>2. Told /\ Told' /\ Watched' /\ HearInv /\ [Next]_vars => HearInv'
  <2> SUFFICES ASSUME Told, Told', Watched', HearInv, [Next]_vars PROVE HearInv'
    OBVIOUS
  <2>1. ASSUME UNCHANGED <<log, inbox, lagged, raised>>, \A r \in Receivers : SameReads(r)
        PROVE  HearInv'
    BY <2>1, HearingSame DEF HearInv, Told, Counts
  <2>2. CASE UNCHANGED vars
    BY <2>1, <2>2 DEF vars, taskVars, Same, SameReads
  <2>3. CASE BecomeReady
    BY <2>1, <2>3 DEF BecomeReady, gitVars, watchVars, busVars, taskVars, clientVars,
           faultVars, Same, SameReads
  <2>4. CASE \E t \in Trees, n \in 1..2 : Land(t, n) /\ UNCHANGED streamVars
    BY <2>4, HearingLand DEF Told
  <2>5. CASE \E t \in Trees : GitEvent(t)
    BY <2>5, HearingNotify DEF Told
  <2>6. ASSUME NEW s \in Receivers, Subscribe(s) \/ TaskStep(s) \/ Receive(s) \/ Abort(s)
        PROVE  HearInv'
    <3>1. \A r \in Receivers \ {s} : Hearing(r)'
      BY <2>6, HearingOthers DEF HearInv, Told
    <3>2. Hearing(s)'
      BY <2>6, HearingEnds, HearingArms, HearingReadLog, HearingSeed, HearingTakes,
         HearingNew, HearingSends
         DEF TaskStep, HearInv, Told
    <3> QED
      BY <3>1, <3>2 DEF HearInv
  <2> QED
    BY <2>2, <2>3, <2>4, <2>5, <2>6 DEF Next
<1>3. Told => Counts
  BY DEF Told
<1> QED
  BY <1>1, <1>2, <1>3, ArmedIsWatched, ToldInvariant, PTL DEF Spec, Heard

\* With nothing on its way, a client's window has every commit of the watched
\* trees that belongs there, whatever landed between the arm, the seed and the
\* loop, and whatever events were lost.
THEOREM WindowsAreCovered == Spec => []WindowCovered
<1>1. Heard => WindowCovered
  <2> SUFFICES ASSUME Heard, NEW s \in Receivers, Settled(s),
                      NEW c \in Newest(Limit, told[s] \cup
                                              UNION {Commits(t) : t \in Seen(s)}),
                      c \notin told[s]
               PROVE  FALSE
    BY DEF WindowCovered, Covered
  <2> DEFINE all == told[s] \cup UNION {Commits(t) : t \in Seen(s)}
  <2>1. Hearing(s) /\ Telling(s) /\ LogsApart /\ Types /\ clock \in Nat
    BY DEF Heard, HearInv, Told, TellInv, Counts, Types, TypeOK
  <2>2. /\ stage[s] = "waiting" /\ queue[s] = <<>> /\ inbox[s] = <<>> /\ s \notin lagged
        /\ armed[s] \cap raised = {} /\ relog[s] = <<>> /\ emitted[s] = HeldOids(cache[s])
    BY <2>1 DEF Settled, Hearing, AllCounted
  <2>3. Delivered(s) = told[s]
    <3>1. frame[s] = {} /\ Len(queue[s]) = 0
      BY <2>1, <2>2, EmptySeq DEF Telling, InStages
    <3> QED
      BY <3>1 DEF Delivered, OnWay
  <2>4. PICK t \in armed[s] \ blind[s] : c \in Commits(t)
    BY DEF Newest, Seen
  <2>5. t \in Trees /\ Commits(t) \subseteq all
    BY <2>1 DEF Types, TypeOK, Seen
  <2>6. IsFiniteSet(all)
    <3>1. IsFiniteSet(1..clock)
      BY <2>1, FS_Interval
    <3>2. told[s] \subseteq 1..clock
      BY <2>1 DEF Telling, InStages, Handled, Delivered
    <3>3. \A u \in Seen(s) : Commits(u) \subseteq 1..clock
      BY <2>1 DEF LogsApart, Seen, Types, TypeOK
    <3>4. all \in SUBSET (1..clock)
      BY <3>2, <3>3
    <3> QED
      BY <3>1, <3>4, FS_Subset
  <2> HIDE DEF all
  <2>7. c \in Newest(Limit, all)
    BY DEF all
  <2>8. c \in Newest(Limit, Commits(t))
    BY <2>4, <2>5, <2>6, <2>7, NewestOfPart, CommitStreamAssumption
  <2>9. cache[s][t] = Newest(Limit, Commits(t))
    <3>1. ~InList(t, <<>>)
      BY EmptySeq DEF InList
    <3> QED
      BY <2>1, <2>2, <3>1 DEF Hearing, WillHear
  <2>10. c \in emitted[s]
    BY <2>2, <2>5, <2>8, <2>9 DEF HeldOids
  <2>11. Cardinality(After(told[s], c)) >= Limit
    BY <2>1, <2>2, <2>3, <2>10 DEF Hearing, ToldOrPassed, Seeded
  <2>12. /\ Cardinality(After(told[s], c)) <= Cardinality(After(all, c))
         /\ Cardinality(After(told[s], c)) \in Nat /\ Cardinality(After(all, c)) \in Nat
    <3>1. told[s] \subseteq all
      BY DEF all
    <3> QED
      BY <2>6, <3>1, AfterMonotone
  <2>13. Cardinality(After(all, c)) < Limit
    BY <2>7, NewestDef
  <2> QED
    BY <2>11, <2>12, <2>13, CommitStreamAssumption
<1> QED
  BY <1>1, HeardInvariant, PTL

=============================================================================
