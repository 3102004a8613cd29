-------------------------- MODULE EventClientProofs --------------------------
(***************************************************************************)
(* What holds of the buffer and of its client for every set of types, caps *)
(* and chains of timers.  None of the properties is inductive.  That no    *)
(* stale event runs needs every answer to reach the events from before the *)
(* load (AnswersReach), so that the first one lifts the watermark over all *)
(* of them; that losses are explained needs an answer to miss only what    *)
(* was pushed out or came after it (AnswersMiss), and that what left a     *)
(* ring was pushed out of it (GoneIsPushed).                               *)
(***************************************************************************)
EXTENDS EventClient, FiniteSetTheorems, WellFoundedInduction, TLAPS

Event == [type : Types, stamp : Nat]

BufferTyped ==
  /\ now \in Nat \ {0}
  /\ log \in Seq(Event) /\ Len(log) <= MaxEvents
  /\ rings \in [Types -> SUBSET Ids]
  /\ \A t \in Types : Cardinality(rings[t]) <= Cap[t]

\* Stamps never go back, and none is zero or in the future.
StampsRise ==
  \A i \in Ids :
    /\ log[i].stamp \in 1 .. now
    /\ \A j \in Ids : i < j => log[i].stamp <= log[j].stamp

Younger(i) == {j \in Ids : j > i}
YoungerAlike(i) == {j \in Ids : j > i /\ log[j].type = log[i].type}

RingsTyped == \A t \in Types : \A i \in rings[t] : log[i].type = t

\* An event that has left its ring was pushed out of it.
GoneIsPushed ==
  \A i \in Ids :
    i \notin rings[log[i].type] =>
      Cardinality(YoungerAlike(i)) >= Cap[log[i].type]

BufferInv == BufferTyped /\ StampsRise /\ RingsTyped /\ GoneIsPushed

ClientTyped ==
  /\ subs \subseteq Types
  /\ timer \in Loops \cup {NoTimer}
  /\ loop \in [Loops -> {"idle", "armed", "asked", "answered", "lost"}]
  /\ answer \in [Loops -> SUBSET Ids]
  /\ lastSeen \in Nat /\ primed \in BOOLEAN /\ turns \in Nat
  /\ turn \in [1 .. MaxEvents -> Nat]
  /\ excused \subseteq Ids
  /\ born \in 0 .. Len(log) /\ loads \in Nat

\* The watermark is the stamp of an event.
WatermarkSound ==
  lastSeen # 0 => \E j \in Ids : log[j].stamp = lastSeen

HandledIsSeen ==
  \A i \in 1 .. MaxEvents :
    Handled(i) => primed /\ i \in Ids /\ log[i].stamp <= lastSeen

\* An answer holds an event at least as late as any from before the load.
AnswersReach ==
  \A l \in Loops : loop[l] = "answered" =>
    \A i \in 1 .. born : \E j \in answer[l] : i <= j

\* What an answer does not hold was pushed out, or emitted after it.
AnswersMiss ==
  \A l \in Loops : loop[l] = "answered" =>
    \A i \in Ids :
      i \in answer[l] \/ Pushed(i) \/ \A j \in answer[l] : j < i

\* Once an answer was handled, all that is older than the load is passed.
PrimedIsPast ==
  primed => \A i \in 1 .. born : log[i].stamp <= lastSeen

\* The handle the client holds is of a chain that runs, for someone.
TimerIsHeld == timer # NoTimer => subs # {} /\ loop[timer] # "idle"

Inv ==
  /\ BufferInv
  /\ ClientTyped
  /\ WatermarkSound
  /\ HandledIsSeen
  /\ AnswersReach
  /\ AnswersMiss
  /\ PrimedIsPast
  /\ NoStaleReplay
  /\ LossExplained
  /\ PollingAlive
  /\ TimerIsHeld

-----------------------------------------------------------------------------
\* A nonempty set of naturals has a least element.
LEMMA Least ==
  ASSUME NEW S \in SUBSET Nat, S # {}
  PROVE  \E m \in S : \A i \in S : m <= i
<1> DEFINE Less == {p \in Nat \X Nat : p[1] < p[2]}
<1>1. IsWellFoundedOn(Less, Nat)
  BY NatLessThanWellFounded, Zenon DEF OpToRel
<1>2. PICK m \in S : \A i \in S : <<i, m>> \notin Less
  <2> HIDE DEF Less
  <2> QED
    BY <1>1, WFMin
<1>3. \A i \in S : ~(i < m)
  BY <1>2
<1> QED
  BY <1>3

\* The latest element is among the newest.
LEMMA NewestHoldsLast ==
  ASSUME NEW S \in SUBSET Nat, NEW k \in Nat \ {0}, NEW n \in S,
         \A i \in S : i <= n
  PROVE  n \in Newest(S, k)
<1>1. \A j \in S : ~(j > n)
  OBVIOUS
<1>2. {j \in S : j > n} = {}
  BY <1>1
<1> QED
  BY <1>2, FS_EmptySet DEF Newest

\* An element that is not among the newest k has k later ones.
LEMMA NewestDrops ==
  ASSUME NEW S \in SUBSET Nat, IsFiniteSet(S), NEW k \in Nat,
         NEW i \in S, i \notin Newest(S, k)
  PROVE  Cardinality({j \in S : j > i}) >= k
<1> DEFINE T == {j \in S : j > i}
<1>1. T \in SUBSET S
  OBVIOUS
<1>2. Cardinality(T) \in Nat
  <2> HIDE DEF T
  <2> QED
    BY <1>1, FS_Subset, FS_CardinalityType
<1>3. ~(Cardinality(T) < k)
  BY DEF Newest
<1> QED
  BY <1>2, <1>3

\* A ring that was within its cap is within it after one more append.
LEMMA NewestWithinCap ==
  ASSUME NEW R \in SUBSET Nat, IsFiniteSet(R), NEW k \in Nat \ {0},
         Cardinality(R) <= k, NEW n \in Nat, \A i \in R : i < n
  PROVE  Cardinality(Newest(R \cup {n}, k)) <= k
<1> DEFINE S == R \cup {n}
           N == Newest(S, k)
<1>1. /\ IsFiniteSet(S) /\ Cardinality(S) = Cardinality(R) + 1
      /\ Cardinality(R) \in Nat /\ n \notin R /\ N \in SUBSET S
  BY FS_AddElement, FS_CardinalityType DEF Newest
<1>2. CASE Cardinality(R) < k
  <2>1. Cardinality(N) <= Cardinality(S)
    BY <1>1, FS_Subset
  <2>2. Cardinality(N) \in Nat
    BY <1>1, FS_Subset, FS_CardinalityType
  <2> QED
    BY <1>1, <1>2, <2>1, <2>2
<1>3. CASE Cardinality(R) = k
  <2>1. R # {}
    BY <1>3, FS_EmptySet
  <2>2. PICK m \in R : \A i \in R : m <= i
    BY <2>1, Least
  <2> DEFINE U == (R \ {m}) \cup {n}
  <2>3. IsFiniteSet(U) /\ Cardinality(U) = k
    <3>1. IsFiniteSet(R \ {m}) /\ Cardinality(R \ {m}) = k - 1
      BY <1>3, FS_RemoveElement
    <3>2. n \notin R \ {m}
      BY <1>1
    <3> QED
      BY <3>1, <3>2, FS_AddElement
  <2>4. {j \in S : j > m} = U
    <3>1. n > m /\ \A j \in R : j > m <=> j # m
      BY <2>2
    <3> QED
      BY <3>1
  <2>5. m \notin N
    BY <2>3, <2>4 DEF Newest
  <2>6. N \in SUBSET U
    BY <1>1, <2>5
  <2> QED
    BY <2>3, <2>6, FS_Subset
<1> QED
  BY <1>1, <1>2, <1>3

\* The sets that Pushed counts are finite.
LEMMA YoungerFinite ==
  ASSUME BufferTyped, NEW i
  PROVE  /\ IsFiniteSet(Younger(i)) /\ IsFiniteSet(YoungerAlike(i))
         /\ Cardinality(Younger(i)) \in Nat
         /\ Cardinality(YoungerAlike(i)) \in Nat
<1>1. IsFiniteSet(Ids) /\ Len(log) \in Nat
  BY FS_Interval DEF BufferTyped, Ids
<1>2. Younger(i) \in SUBSET Ids /\ YoungerAlike(i) \in SUBSET Ids
  BY DEF Younger, YoungerAlike
<1> QED
  BY <1>1, <1>2, FS_Subset, FS_CardinalityType

LEMMA PushedIs ==
  ASSUME NEW i
  PROVE  Pushed(i) <=> \/ Cardinality(YoungerAlike(i)) >= Cap[log[i].type]
                       \/ Cardinality(Younger(i)) >= Limit
  BY DEF Pushed, Younger, YoungerAlike

-----------------------------------------------------------------------------
LEMMA InitInv ==
  ASSUME Init
  PROVE  Inv
<1> USE BoundsAssumption, CapAssumption DEF Init, BufferInit, Loaded, Handled
<1>1. log = <<>> /\ Len(log) = 0 /\ Ids = {}
  BY DEF Ids
<1>2. BufferInv
  <2>1. BufferTyped
    <3>1. \A t \in Types : rings[t] = {}
      OBVIOUS
    <3>2. \A t \in Types : Cardinality(rings[t]) = 0
      BY <3>1, FS_EmptySet
    <3> QED
      BY <1>1, <3>2 DEF BufferTyped, Event
  <2> QED
    BY <1>1, <2>1 DEF BufferInv, StampsRise, RingsTyped, GoneIsPushed
<1>3. ClientTyped
  BY <1>1 DEF ClientTyped
<1> QED
  BY <1>1, <1>2, <1>3 DEF Inv, WatermarkSound, HandledIsSeen, AnswersReach,
     AnswersMiss, PrimedIsPast, NoStaleReplay, LossExplained, PollingAlive,
     TimerIsHeld

LEMMA EventFields ==
  ASSUME BufferTyped, NEW i \in Ids
  PROVE  log[i].type \in Types /\ log[i].stamp \in Nat /\ i \in Nat
<1>1. log[i] \in Event /\ i \in Nat
  BY DEF BufferTyped, Ids
<1> QED
  BY <1>1 DEF Event

\* What an append does to the log.
LEMMA LogGrows ==
  ASSUME BufferInv, NEW t \in Types, Record(t)
  PROVE  /\ Len(log) \in Nat /\ Len(log') = Len(log) + 1
         /\ log' \in Seq(Event) /\ Len(log') <= MaxEvents
         /\ Ids' = Ids \cup {Len(log) + 1} /\ Len(log) + 1 \notin Ids
         /\ \A i \in Ids : log'[i] = log[i] /\ i < Len(log) + 1
         /\ log'[Len(log) + 1] = [type |-> t, stamp |-> now]
<1> USE BoundsAssumption
<1>1. log \in Seq(Event) /\ [type |-> t, stamp |-> now] \in Event
  BY DEF BufferInv, BufferTyped, Event
<1>2. log' = Append(log, [type |-> t, stamp |-> now]) /\ Len(log) < MaxEvents
  BY DEF Record
<1>3. Len(log) \in Nat /\ Len(log') = Len(log) + 1 /\ log' \in Seq(Event)
  BY <1>1, <1>2
<1>4. Ids' = 1 .. Len(log) + 1 /\ Ids = 1 .. Len(log)
  BY <1>3 DEF Ids
<1>5. Ids' = Ids \cup {Len(log) + 1} /\ Len(log) + 1 \notin Ids
  BY <1>3, <1>4
<1>6. \A i \in Ids : log'[i] = log[i] /\ i < Len(log) + 1
  BY <1>1, <1>2, <1>3, <1>4
<1>7. log'[Len(log) + 1] = [type |-> t, stamp |-> now]
  BY <1>1, <1>2, <1>3
<1>8. Len(log') <= MaxEvents
  BY <1>2, <1>3
<1> QED
  BY <1>3, <1>5, <1>6, <1>7, <1>8

\* An event that was pushed out stays pushed out.
LEMMA PushedStays ==
  ASSUME BufferInv, NEW t \in Types, Record(t), NEW i \in Ids
  PROVE  /\ Cardinality(YoungerAlike(i)) <= Cardinality(YoungerAlike(i)')
         /\ Cardinality(YoungerAlike(i)') \in Nat
         /\ Pushed(i) => Pushed(i)'
<1>1. /\ IsFiniteSet(Ids') /\ Younger(i)' \in SUBSET Ids'
      /\ YoungerAlike(i)' \in SUBSET Ids'
  <2>1. Ids' = 1 .. Len(log') /\ Len(log') \in Nat
    BY LogGrows DEF Ids
  <2> QED
    BY <2>1, FS_Interval DEF Younger, YoungerAlike
<1>2. /\ Younger(i) \in SUBSET Younger(i)'
      /\ YoungerAlike(i) \in SUBSET YoungerAlike(i)'
  BY LogGrows DEF Younger, YoungerAlike
<1>3. /\ IsFiniteSet(Younger(i)') /\ IsFiniteSet(YoungerAlike(i)')
      /\ Cardinality(Younger(i)') \in Nat
      /\ Cardinality(YoungerAlike(i)') \in Nat
  BY <1>1, FS_Subset, FS_CardinalityType
<1>4. /\ Cardinality(Younger(i)) <= Cardinality(Younger(i)')
      /\ Cardinality(YoungerAlike(i)) <= Cardinality(YoungerAlike(i)')
  BY <1>2, <1>3, FS_Subset
<1>5. /\ Cardinality(Younger(i)) \in Nat
      /\ Cardinality(YoungerAlike(i)) \in Nat
  BY YoungerFinite DEF BufferInv
<1>6. log[i].type \in Types /\ log'[i] = log[i]
  BY LogGrows, EventFields DEF BufferInv
<1>7. Cap[log[i].type] \in Nat /\ Limit \in Nat
  BY <1>6, CapAssumption, LimitAssumption
<1>8. Pushed(i)' <=> \/ Cardinality(YoungerAlike(i)') >= Cap[log[i].type]
                     \/ Cardinality(Younger(i)') >= Limit
  BY <1>6 DEF Pushed, Younger, YoungerAlike
<1> QED
  BY <1>3, <1>4, <1>5, <1>7, <1>8, PushedIs

LEMMA RecordKeeps ==
  ASSUME BufferInv, NEW t \in Types, Record(t)
  PROVE  BufferInv'
<1> DEFINE n == Len(log) + 1
           N == Newest(rings[t] \cup {n}, Cap[t])
<1>0. /\ Len(log) \in Nat /\ Ids' = Ids \cup {n} /\ n \notin Ids
      /\ log' \in Seq(Event) /\ Len(log') <= MaxEvents /\ Len(log') = n
      /\ \A i \in Ids : log'[i] = log[i] /\ i < n
      /\ log'[n] = [type |-> t, stamp |-> now]
  BY LogGrows
<1>1. rings' = [rings EXCEPT ![t] = N] /\ now' = now
  BY DEF Record
<1>2. /\ rings \in [Types -> SUBSET Ids] /\ n \in Nat /\ now \in Nat \ {0}
      /\ Cap[t] \in Nat \ {0} /\ Cardinality(rings[t]) <= Cap[t]
  BY <1>0, CapAssumption DEF BufferInv, BufferTyped
<1>3. N \in SUBSET (rings[t] \cup {n})
  BY DEF Newest
<1>4. Cardinality(N) <= Cap[t]
  <2>1. rings[t] \in SUBSET Nat /\ IsFiniteSet(rings[t])
    <3>1. rings[t] \in SUBSET Ids /\ IsFiniteSet(Ids) /\ Ids \in SUBSET Nat
      <4>1. Ids = 1 .. Len(log)
        BY DEF Ids
      <4>2. IsFiniteSet(Ids)
        BY <1>0, <4>1, FS_Interval
      <4>3. Ids \in SUBSET Nat
        BY <1>0, <4>1
      <4> QED
        BY <1>2, <4>2, <4>3
    <3> QED
      BY <3>1, FS_Subset
  <2>2. \A i \in rings[t] : i < n
    BY <1>2, <1>0
  <2> HIDE DEF n
  <2> QED
    BY <1>2, <2>1, <2>2, NewestWithinCap
<1>5. BufferTyped'
  <2>1. rings' \in [Types -> SUBSET Ids']
    BY <1>1, <1>2, <1>3, <1>0
  <2>2. \A u \in Types : Cardinality(rings'[u]) <= Cap[u]
    BY <1>1, <1>2, <1>4 DEF BufferInv, BufferTyped
  <2>3. log' \in Seq(Event) /\ Len(log') <= MaxEvents
    BY <1>0
  <2> QED
    BY <1>1, <1>2, <2>1, <2>2, <2>3 DEF BufferTyped
<1>6. StampsRise'
  <2>1. \A i \in Ids :
          /\ log[i].stamp \in 1 .. now
          /\ \A j \in Ids : i < j => log[i].stamp <= log[j].stamp
    BY DEF BufferInv, StampsRise
  <2>2. \A i \in Ids' : log'[i].stamp \in 1 .. now
    BY <1>2, <2>1, <1>0
  <2>3. ASSUME NEW i \in Ids', NEW j \in Ids', i < j
        PROVE  log'[i].stamp <= log'[j].stamp
    <3>1. i \in Ids
      <4>1. i \in 1 .. n /\ j \in 1 .. n
        BY <1>0 DEF Ids
      <4> QED
        BY <1>0, <1>2, <2>3, <4>1
    <3>2. CASE j \in Ids
      BY <2>1, <2>3, <3>1, <3>2, <1>0
    <3>3. CASE j = n
      <4>1. log'[j].stamp = now /\ log'[i].stamp = log[i].stamp
        BY <3>1, <3>3, <1>0
      <4>2. log[i].stamp \in 1 .. now
        BY <2>1, <3>1
      <4> QED
        BY <1>2, <4>1, <4>2
    <3> QED
      BY <3>2, <3>3, <1>0
  <2> QED
    BY <1>1, <2>2, <2>3 DEF StampsRise
<1>7. RingsTyped'
  <2>1. ASSUME NEW u \in Types, NEW i \in rings'[u]
        PROVE  log'[i].type = u
    <3>1. CASE i \in rings[u]
      <4>1. i \in Ids /\ log[i].type = u
        BY <1>2, <3>1 DEF BufferInv, RingsTyped
      <4> QED
        BY <4>1, <1>0
    <3>2. CASE i \notin rings[u]
      <4>1. u = t /\ i = n
        BY <1>1, <1>2, <1>3, <2>1, <3>2
      <4> QED
        BY <4>1, <1>0
    <3> QED
      BY <3>1, <3>2
  <2> QED
    BY <2>1 DEF RingsTyped
<1>8. GoneIsPushed'
  <2>1. ASSUME NEW i \in Ids', i \notin rings'[log'[i].type]
        PROVE  Cardinality(YoungerAlike(i)') >= Cap[log'[i].type]
    <3>1. i # n
      <4>1. SUFFICES ASSUME i = n PROVE FALSE
        OBVIOUS
      <4>2. log'[i].type = t /\ rings'[t] = N
        BY <1>1, <1>2, <4>1, <1>0
      <4>3. rings[t] \cup {n} \in SUBSET Nat /\ n \in rings[t] \cup {n}
            /\ \A j \in rings[t] \cup {n} : j <= n
        BY <1>2, <1>0 DEF Ids
      <4>4. n \in N
        <5> HIDE DEF n
        <5> QED
          BY <1>2, <4>3, NewestHoldsLast
      <4> QED
        BY <2>1, <4>1, <4>2, <4>4
    <3>2. i \in Ids /\ log'[i] = log[i]
      BY <3>1, <1>0
    <3>3. log[i].type \in Types /\ Cap[log[i].type] \in Nat
      BY <3>2, EventFields, CapAssumption DEF BufferInv
    <3>4. /\ Cardinality(YoungerAlike(i)) <= Cardinality(YoungerAlike(i)')
          /\ Cardinality(YoungerAlike(i)') \in Nat
          /\ Cardinality(YoungerAlike(i)) \in Nat
      BY <3>2, PushedStays, YoungerFinite DEF BufferInv
    <3>5. CASE i \notin rings[log[i].type]
      BY <3>2, <3>3, <3>4, <3>5 DEF BufferInv, GoneIsPushed
    <3>6. CASE i \in rings[log[i].type]
      <4>1. log[i].type = t /\ i \notin N /\ i \in rings[t] \cup {n}
        BY <1>1, <1>2, <2>1, <3>2, <3>3, <3>6
      <4> DEFINE S == rings[t] \cup {n}
                 L == {j \in S : j > i}
      <4>2. S \in SUBSET Nat /\ S \in SUBSET Ids'
        BY <1>0, <1>2 DEF Ids
      <4>3. IsFiniteSet(S) /\ IsFiniteSet(YoungerAlike(i)')
        <5>1. Ids' = 1 .. Len(log') /\ Len(log') \in Nat
          BY <1>0 DEF Ids
        <5>2. YoungerAlike(i)' \in SUBSET Ids'
          BY DEF YoungerAlike
        <5>3. IsFiniteSet(Ids')
          BY <5>1, FS_Interval
        <5> HIDE DEF S
        <5> QED
          BY <4>2, <5>2, <5>3, FS_Subset
      <4>4. Cardinality(L) >= Cap[t]
        <5>1. i \in S /\ i \notin Newest(S, Cap[t])
          BY <4>1
        <5> HIDE DEF S
        <5> QED
          BY <1>2, <4>2, <4>3, <5>1, NewestDrops
      <4>5. L \in SUBSET YoungerAlike(i)'
        <5>1. \A j \in S : log'[j].type = t
          <6>1. \A j \in rings[t] : j \in Ids /\ log[j].type = t
            BY <1>2 DEF BufferInv, RingsTyped
          <6> QED
            BY <1>0, <6>1
        <5>2. \A j \in L : j \in Ids' /\ j > i /\ log'[j].type = log'[i].type
          BY <3>2, <4>1, <4>2, <5>1
        <5>3. L \in SUBSET {j \in Ids' : j > i /\ log'[j].type = log'[i].type}
          BY <5>2
        <5> QED
          BY <5>3 DEF YoungerAlike
      <4>6. Cardinality(L) <= Cardinality(YoungerAlike(i)')
            /\ Cardinality(L) \in Nat
        <5> HIDE DEF L
        <5> QED
          BY <4>3, <4>5, FS_Subset, FS_CardinalityType
      <4> HIDE DEF L
      <4> QED
        BY <1>2, <3>2, <3>4, <4>1, <4>4, <4>6
    <3> QED
      BY <3>5, <3>6
  <2> QED
    BY <2>1 DEF GoneIsPushed
<1> QED
  BY <1>5, <1>6, <1>7, <1>8 DEF BufferInv

\* An event is emitted.
LEMMA EmitKeeps ==
  ASSUME Inv, NEW t \in Types, Emit(t)
  PROVE  Inv'
<1> DEFINE n == Len(log) + 1
<1>0. Record(t) /\ UNCHANGED clientVars /\ BufferInv /\ BufferTyped
  BY DEF Emit, Inv, BufferInv
<1>1. /\ Len(log) \in Nat /\ Len(log') = n /\ Ids' = Ids \cup {n}
      /\ n \notin Ids /\ \A i \in Ids : log'[i] = log[i] /\ i < n
      /\ log'[n] = [type |-> t, stamp |-> now] /\ Len(log') <= MaxEvents
  BY <1>0, LogGrows
<1>2. BufferInv'
  BY <1>0, RecordKeeps
<1>3. \A i \in Ids : Pushed(i) => Pushed(i)'
  BY <1>0, PushedStays
<1>4. /\ subs' = subs /\ timer' = timer /\ loop' = loop /\ answer' = answer
      /\ lastSeen' = lastSeen /\ primed' = primed /\ turns' = turns
      /\ turn' = turn /\ excused' = excused /\ born' = born
      /\ loads' = loads
  BY <1>0 DEF clientVars
<1>5. ClientTyped'
  <2>1. answer' \in [Loops -> SUBSET Ids'] /\ excused' \subseteq Ids'
    BY <1>1, <1>4 DEF Inv, ClientTyped
  <2>2. born' \in 0 .. Len(log')
    BY <1>1, <1>4 DEF Inv, ClientTyped
  <2> QED
    BY <1>4, <2>1, <2>2 DEF Inv, ClientTyped
<1>6. WatermarkSound'
  BY <1>1, <1>4 DEF Inv, WatermarkSound
<1>7. HandledIsSeen'
  BY <1>1, <1>4 DEF Inv, HandledIsSeen, Handled
<1>8. AnswersReach'
  BY <1>1, <1>4 DEF Inv, AnswersReach
<1>9. AnswersMiss'
  <2>1. ASSUME NEW l \in Loops, loop[l] = "answered", NEW i \in Ids'
        PROVE  i \in answer[l] \/ Pushed(i)' \/ \A j \in answer[l] : j < i
    <3>1. CASE i \in Ids
      BY <1>3, <2>1, <3>1 DEF Inv, AnswersMiss
    <3>2. CASE i = n
      BY <1>1, <3>2 DEF Inv, ClientTyped
    <3> QED
      BY <1>1, <3>1, <3>2
  <2> QED
    BY <1>4, <2>1 DEF AnswersMiss
<1>10. born \in Nat /\ \A i \in 1 .. born : i \in Ids
  BY <1>1 DEF Inv, ClientTyped, Ids
<1>11. PrimedIsPast'
  BY <1>1, <1>4, <1>10 DEF Inv, PrimedIsPast
<1>12. NoStaleReplay'
  <2>1. DOMAIN turn = 1 .. MaxEvents
    BY DEF Inv, ClientTyped
  <2>2. \A i \in 1 .. MaxEvents : Handled(i) => i \in Ids
    BY DEF Inv, HandledIsSeen
  <2> QED
    BY <1>1, <1>4, <2>1, <2>2 DEF Inv, NoStaleReplay, Handled
<1>13. LossExplained'
  <2>1. ASSUME NEW i \in Ids', log'[i].stamp <= lastSeen
        PROVE  Handled(i) \/ i \in excused \/ Pushed(i)' \/ SameMs(i)'
    <3>1. CASE i \in Ids
      <4>1. SameMs(i) => SameMs(i)'
        BY <1>1, <3>1 DEF SameMs
      <4> QED
        BY <1>1, <1>3, <2>1, <3>1, <4>1 DEF Inv, LossExplained
    <3>2. CASE i = n
      <4>1. log'[i].stamp = now /\ now \in Nat \ {0} /\ lastSeen \in Nat
        BY <1>0, <1>1, <3>2 DEF BufferTyped, Inv, ClientTyped
      <4>2. PICK j \in Ids : log[j].stamp = lastSeen
        BY <2>1, <4>1 DEF Inv, WatermarkSound
      <4>3. log[j].stamp \in 1 .. now
        BY <1>0 DEF BufferInv, StampsRise
      <4>4. j \in Ids' /\ j < i /\ log'[j].stamp = log'[i].stamp
        BY <1>1, <2>1, <3>2, <4>1, <4>2, <4>3
      <4> QED
        BY <4>4 DEF SameMs
    <3> QED
      BY <1>1, <3>1, <3>2
  <2> QED
    BY <1>4, <2>1 DEF LossExplained, Handled
<1>14. PollingAlive' /\ TimerIsHeld'
  BY <1>4 DEF Inv, PollingAlive, TimerIsHeld
<1> QED
  BY <1>2, <1>5, <1>6, <1>7, <1>8, <1>9, <1>11, <1>12, <1>13, <1>14 DEF Inv

\* The clock moves on.
LEMMA TickKeeps ==
  ASSUME Inv, TimePasses
  PROVE  Inv'
<1>1. now' = now + 1 /\ UNCHANGED <<log, rings>> /\ UNCHANGED clientVars
  BY DEF TimePasses, Tick
<1>2. BufferInv'
  <2>1. Ids' = Ids /\ now \in Nat \ {0}
    BY <1>1 DEF Ids, Inv, BufferInv, BufferTyped
  <2>2. BufferTyped'
    BY <1>1, <2>1 DEF Inv, BufferInv, BufferTyped
  <2>3. StampsRise'
    BY <1>1, <2>1 DEF Inv, BufferInv, StampsRise
  <2>4. RingsTyped' /\ GoneIsPushed'
    BY <1>1, <2>1 DEF Inv, BufferInv, RingsTyped, GoneIsPushed, YoungerAlike
  <2> QED
    BY <2>2, <2>3, <2>4 DEF BufferInv
<1> QED
  BY <1>1, <1>2 DEF Inv, clientVars, ClientTyped, WatermarkSound,
     HandledIsSeen, AnswersReach, AnswersMiss, PrimedIsPast, NoStaleReplay,
     LossExplained, PollingAlive, TimerIsHeld, Handled, Pushed, SameMs, Ids

\* What only the client's steps can break: the buffer stays as it is.
BufferStill == UNCHANGED bufferVars

LEMMA StillKeeps ==
  ASSUME Inv, BufferStill
  PROVE  /\ BufferInv' /\ Ids' = Ids /\ log' = log
         /\ \A i \in Ids : (Pushed(i)' <=> Pushed(i))
                           /\ (SameMs(i)' <=> SameMs(i))
<1>1. now' = now /\ log' = log /\ rings' = rings
  BY DEF BufferStill, bufferVars
<1>2. BufferInv'
  BY <1>1 DEF Inv, BufferInv, BufferTyped, StampsRise, RingsTyped,
     GoneIsPushed, YoungerAlike, Ids
<1> QED
  BY <1>1, <1>2 DEF Ids, Pushed, SameMs

-----------------------------------------------------------------------------
\* What every step of the client owes when it handles nothing.
Unhandled == UNCHANGED <<lastSeen, primed, turns, turn, excused, born, loads>>

\* The chains' states, the handle and the subscriptions after a step.
ChainsTyped ==
  /\ subs \subseteq Types
  /\ timer \in Loops \cup {NoTimer}
  /\ loop \in [Loops -> {"idle", "armed", "asked", "answered", "lost"}]

LEMMA ChainsKeep ==
  ASSUME Inv, BufferStill, Unhandled, answer' = answer, ChainsTyped',
         PollingAlive', TimerIsHeld',
         \A l \in Loops : loop'[l] = "answered" => loop[l] = "answered"
  PROVE  Inv'
<1>1. /\ BufferInv' /\ Ids' = Ids /\ log' = log
      /\ \A i \in Ids : (Pushed(i)' <=> Pushed(i))
                        /\ (SameMs(i)' <=> SameMs(i))
  BY StillKeeps
<1>2. /\ lastSeen' = lastSeen /\ primed' = primed /\ turns' = turns
      /\ turn' = turn /\ excused' = excused /\ born' = born
      /\ loads' = loads
  BY DEF Unhandled
<1>3. ClientTyped'
  BY <1>1, <1>2 DEF Inv, ClientTyped, ChainsTyped
<1>4. WatermarkSound' /\ HandledIsSeen' /\ AnswersReach' /\ PrimedIsPast'
  BY <1>1, <1>2 DEF Inv, WatermarkSound, HandledIsSeen, AnswersReach,
     PrimedIsPast, Handled
<1>5. AnswersMiss'
  BY <1>1, <1>2 DEF Inv, AnswersMiss
<1>6. NoStaleReplay' /\ LossExplained'
  BY <1>1, <1>2 DEF Inv, NoStaleReplay, LossExplained, Handled
<1> QED
  BY <1>1, <1>3, <1>4, <1>5, <1>6 DEF Inv

LEMMA SubscribeKeeps ==
  ASSUME Inv, NEW t \in Types, Subscribe(t)
  PROVE  Inv'
<1>1. BufferStill /\ Unhandled /\ answer' = answer /\ subs' = subs \cup {t}
  BY DEF Subscribe, BufferStill, Unhandled
<1>2. ChainsTyped /\ PollingAlive /\ TimerIsHeld
  BY DEF Inv, ClientTyped, ChainsTyped
<1>3. CASE timer = NoTimer
  <2>1. PICK l \in Loops : loop[l] = "idle" /\ Arms(l)
    BY <1>3 DEF Subscribe
  <2>2. loop' = [loop EXCEPT ![l] = "armed"] /\ timer' = l
    BY <2>1 DEF Arms
  <2>3. ChainsTyped' /\ loop'[l] = "armed" /\ timer' # NoTimer
    BY <1>1, <1>2, <2>2, NoTimerAssumption DEF ChainsTyped
  <2>4. \A k \in Loops : loop'[k] = "answered" => loop[k] = "answered"
    BY <1>2, <2>2 DEF ChainsTyped
  <2>5. PollingAlive' /\ TimerIsHeld'
    BY <1>1, <2>2, <2>3 DEF PollingAlive, TimerIsHeld
  <2> QED
    BY <1>1, <2>3, <2>4, <2>5, ChainsKeep
<1>4. CASE timer # NoTimer
  <2>1. timer' = timer /\ loop' = loop
    BY <1>4 DEF Subscribe
  <2>2. ChainsTyped' /\ PollingAlive' /\ TimerIsHeld'
    BY <1>1, <1>2, <1>4, <2>1 DEF ChainsTyped, PollingAlive, TimerIsHeld
  <2> QED
    BY <1>1, <2>1, <2>2, ChainsKeep
<1> QED
  BY <1>3, <1>4

LEMMA UnsubscribeKeeps ==
  ASSUME Inv, NEW t \in Types, Unsubscribe(t)
  PROVE  Inv'
<1>1. BufferStill /\ Unhandled /\ answer' = answer /\ subs' = subs \ {t}
  BY DEF Unsubscribe, BufferStill, Unhandled
<1>2. ChainsTyped /\ PollingAlive /\ TimerIsHeld /\ t \in subs
  BY DEF Inv, ClientTyped, ChainsTyped, Unsubscribe
<1>3. CASE subs' = {}
  <2>1. /\ timer' = NoTimer
        /\ loop' = [l \in Loops |-> IF l = timer /\ loop[l] = "armed"
                                    THEN "idle" ELSE loop[l]]
    BY <1>3 DEF Unsubscribe
  <2>2. ChainsTyped'
    BY <1>1, <1>2, <2>1 DEF ChainsTyped
  <2>3. \A k \in Loops : loop'[k] = "answered" => loop[k] = "answered"
    BY <2>1
  <2>4. PollingAlive' /\ TimerIsHeld'
    BY <1>3, <2>1 DEF PollingAlive, TimerIsHeld
  <2> QED
    BY <1>1, <2>2, <2>3, <2>4, ChainsKeep
<1>4. CASE subs' # {}
  <2>1. timer' = timer /\ loop' = loop
    BY <1>4 DEF Unsubscribe
  <2>2. ChainsTyped' /\ PollingAlive' /\ TimerIsHeld'
    BY <1>1, <1>2, <1>4, <2>1 DEF ChainsTyped, PollingAlive, TimerIsHeld
  <2> QED
    BY <1>1, <2>1, <2>2, ChainsKeep
<1> QED
  BY <1>3, <1>4

LEMMA FiresKeeps ==
  ASSUME Inv, NEW l \in Loops, Fires(l)
  PROVE  Inv'
<1>1. /\ BufferStill /\ Unhandled /\ answer' = answer
      /\ subs' = subs /\ timer' = timer
      /\ loop' = [loop EXCEPT ![l] = "asked"]
  BY DEF Fires, BufferStill, Unhandled
<1>2. ChainsTyped /\ PollingAlive /\ TimerIsHeld
  BY DEF Inv, ClientTyped, ChainsTyped
<1>3. ChainsTyped'
  BY <1>1, <1>2 DEF ChainsTyped
<1>4. \A k \in Loops : loop'[k] = "answered" => loop[k] = "answered"
  BY <1>1, <1>2 DEF ChainsTyped
<1>5. PollingAlive' /\ TimerIsHeld'
  BY <1>1, <1>2, NoTimerAssumption DEF ChainsTyped, PollingAlive, TimerIsHeld
<1> QED
  BY <1>1, <1>3, <1>4, <1>5, ChainsKeep

\* What the finally block leaves behind.
LEMMA ReschedulesWell ==
  ASSUME ChainsTyped, TimerIsHeld, NEW l \in Loops, loop[l] # "idle",
         Reschedules(l), subs' = subs
  PROVE  /\ ChainsTyped' /\ PollingAlive' /\ TimerIsHeld'
         /\ loop'[l] # "answered"
         /\ \A k \in Loops : loop'[k] = "answered" => loop[k] = "answered"
<1>1. CASE subs # {}
  BY <1>1, NoTimerAssumption
  DEF Reschedules, Arms, ChainsTyped, PollingAlive, TimerIsHeld
<1>2. CASE subs = {}
  BY <1>2 DEF Reschedules, ChainsTyped, PollingAlive, TimerIsHeld
<1> QED
  BY <1>1, <1>2

LEMMA FailsKeeps ==
  ASSUME Inv, NEW l \in Loops, Fails(l)
  PROVE  Inv'
<1>1. /\ BufferStill /\ Unhandled /\ answer' = answer /\ subs' = subs
      /\ loop[l] = "asked" /\ Reschedules(l)
  BY DEF Fails, BufferStill, Unhandled
<1>2. ChainsTyped /\ TimerIsHeld
  BY DEF Inv, ClientTyped, ChainsTyped
<1>3. /\ ChainsTyped' /\ PollingAlive' /\ TimerIsHeld'
      /\ \A k \in Loops : loop'[k] = "answered" => loop[k] = "answered"
  BY <1>1, <1>2, ReschedulesWell
<1> QED
  BY <1>1, <1>3, ChainsKeep

LEMMA LostKeeps ==
  ASSUME Inv, NEW l \in Loops, Lost(l)
  PROVE  Inv'
<1>1. /\ BufferStill /\ Unhandled /\ answer' = answer
      /\ subs' = subs /\ timer' = timer
      /\ loop' = [loop EXCEPT ![l] = "lost"]
  BY DEF Lost, BufferStill, Unhandled
<1>2. ChainsTyped /\ PollingAlive /\ TimerIsHeld
  BY DEF Inv, ClientTyped, ChainsTyped
<1>3. ChainsTyped'
  BY <1>1, <1>2 DEF ChainsTyped
<1>4. \A k \in Loops : loop'[k] = "answered" => loop[k] = "answered"
  BY <1>1, <1>2 DEF ChainsTyped
<1>5. PollingAlive' /\ TimerIsHeld'
  BY <1>1, <1>2, NoTimerAssumption DEF ChainsTyped, PollingAlive, TimerIsHeld
<1> QED
  BY <1>1, <1>3, <1>4, <1>5, ChainsKeep

-----------------------------------------------------------------------------
\* A snapshot holds the latest event, and misses only what was pushed out.
LEMMA SnapshotHolds ==
  ASSUME BufferInv
  PROVE  /\ Snapshot \in SUBSET Ids
         /\ Len(log) \in Ids => Len(log) \in Snapshot
         /\ \A i \in Ids : i \in Snapshot \/ Pushed(i)
<1> DEFINE U == UNION {rings[t] : t \in Types}
<1>1. /\ Len(log) \in Nat /\ Ids = 1 .. Len(log) /\ Ids \in SUBSET Nat
      /\ rings \in [Types -> SUBSET Ids] /\ Limit \in Nat \ {0}
  BY LimitAssumption DEF BufferInv, BufferTyped, Ids
<1>2. U \in SUBSET Ids /\ U \in SUBSET Nat
  BY <1>1
<1>3. IsFiniteSet(Ids)
  BY <1>1, FS_Interval
<1>4. IsFiniteSet(U)
  <2> HIDE DEF U
  <2> QED
    BY <1>2, <1>3, FS_Subset
<1>5. Snapshot = Newest(U, Limit)
  BY DEF Snapshot
<1>6. Snapshot \in SUBSET Ids
  BY <1>2, <1>5 DEF Newest
<1>7. \A i \in Ids : i \in U \/ Cardinality(YoungerAlike(i)) >= Cap[log[i].type]
  <2>1. \A i \in Ids : log[i].type \in Types
    BY EventFields DEF BufferInv
  <2> QED
    BY <2>1 DEF BufferInv, GoneIsPushed
<1>8. ASSUME Len(log) \in Ids
      PROVE  Len(log) \in Snapshot
  <2> DEFINE n == Len(log)
  <2>1. \A j \in Ids : ~(j > n)
    BY <1>1
  <2>2. YoungerAlike(n) = {}
    BY <2>1 DEF YoungerAlike
  <2>3. Cap[log[n].type] \in Nat \ {0}
    BY <1>8, EventFields, CapAssumption DEF BufferInv
  <2>4. Cardinality(YoungerAlike(n)) = 0
    BY <2>2, FS_EmptySet
  <2>5. n \in U
    BY <1>7, <1>8, <2>3, <2>4
  <2>6. \A i \in U : i <= n
    BY <1>1, <1>2
  <2> HIDE DEF U, n
  <2> QED
    BY <1>1, <1>2, <1>5, <2>5, <2>6, NewestHoldsLast DEF n
<1>9. ASSUME NEW i \in Ids, i \notin Snapshot
      PROVE  Pushed(i)
  <2>1. CASE i \notin U
    BY <1>7, <2>1, PushedIs
  <2>2. CASE i \in U
    <3> DEFINE L == {j \in U : j > i}
    <3>1. Cardinality(L) >= Limit
      <4> HIDE DEF U
      <4> QED
        BY <1>1, <1>2, <1>4, <1>5, <1>9, <2>2, NewestDrops
    <3>2. L \in SUBSET Younger(i)
      BY <1>2 DEF Younger
    <3>3. IsFiniteSet(Younger(i)) /\ Cardinality(Younger(i)) \in Nat
      BY YoungerFinite DEF BufferInv
    <3>4. Cardinality(L) <= Cardinality(Younger(i)) /\ Cardinality(L) \in Nat
      <4> HIDE DEF L
      <4> QED
        BY <3>2, <3>3, FS_Subset, FS_CardinalityType
    <3>5. Cardinality(Younger(i)) >= Limit
      <4> HIDE DEF L
      <4> QED
        BY <1>1, <3>1, <3>3, <3>4
    <3> QED
      BY <3>5, PushedIs
  <2> QED
    BY <2>1, <2>2
<1> QED
  BY <1>6, <1>8, <1>9

LEMMA ServesKeeps ==
  ASSUME Inv, NEW l \in Loops, Serves(l)
  PROVE  Inv'
<1>1. /\ BufferStill /\ Unhandled /\ loop[l] = "asked"
      /\ subs' = subs /\ timer' = timer
      /\ loop' = [loop EXCEPT ![l] = "answered"]
      /\ answer' = [answer EXCEPT ![l] = Snapshot]
  BY DEF Serves, BufferStill, Unhandled
<1>2. /\ BufferInv' /\ Ids' = Ids /\ log' = log
      /\ \A i \in Ids : (Pushed(i)' <=> Pushed(i))
                        /\ (SameMs(i)' <=> SameMs(i))
  BY <1>1, StillKeeps
<1>3. /\ lastSeen' = lastSeen /\ primed' = primed /\ turns' = turns
      /\ turn' = turn /\ excused' = excused /\ born' = born
      /\ loads' = loads
  BY <1>1 DEF Unhandled
<1>4. /\ Snapshot \in SUBSET Ids
      /\ Len(log) \in Ids => Len(log) \in Snapshot
      /\ \A i \in Ids : i \in Snapshot \/ Pushed(i)
  BY SnapshotHolds DEF Inv
<1>5. ClientTyped
  BY DEF Inv
<1>6. ClientTyped'
  BY <1>1, <1>2, <1>3, <1>4, <1>5 DEF ClientTyped
<1>7. WatermarkSound' /\ HandledIsSeen' /\ PrimedIsPast'
  BY <1>2, <1>3 DEF Inv, WatermarkSound, HandledIsSeen, PrimedIsPast, Handled
<1>8. /\ answer'[l] = Snapshot /\ loop'[l] = "answered"
      /\ \A k \in Loops : k # l =>
            answer'[k] = answer[k] /\ loop'[k] = loop[k]
  BY <1>1, <1>5 DEF ClientTyped
<1>9. AnswersReach'
  <2>1. ASSUME NEW i \in 1 .. born
        PROVE  Len(log) \in Ids /\ i <= Len(log)
    BY <1>5 DEF Inv, BufferInv, BufferTyped, ClientTyped, Ids
  <2> QED
    BY <1>3, <1>4, <1>8, <2>1 DEF Inv, AnswersReach
<1>10. AnswersMiss'
  BY <1>2, <1>4, <1>8 DEF Inv, AnswersMiss
<1>11. NoStaleReplay' /\ LossExplained'
  BY <1>2, <1>3 DEF Inv, NoStaleReplay, LossExplained, Handled
<1>12. PollingAlive' /\ TimerIsHeld'
  BY <1>1, <1>5 DEF Inv, PollingAlive, TimerIsHeld, ClientTyped
<1> QED
  BY <1>2, <1>6, <1>7, <1>9, <1>10, <1>11, <1>12 DEF Inv

-----------------------------------------------------------------------------
\* The events of an answer are finitely many.
LEMMA FiredIsFinite ==
  ASSUME BufferTyped, NEW S \in SUBSET Ids
  PROVE  IsFiniteSet(S) /\ Cardinality(S) \in Nat
<1>1. IsFiniteSet(Ids)
  BY FS_Interval DEF BufferTyped, Ids
<1> QED
  BY <1>1, FS_Subset, FS_CardinalityType

\* Each has a place from 1 on,
LEMMA PlaceIsPositive ==
  ASSUME BufferTyped, NEW S \in SUBSET Ids, NEW n \in Nat, NEW i \in S
  PROVE  n + Place(i, S) \in Nat \ {0}
<1> DEFINE P == {j \in S : j = i \/ Before(j, i)}
<1>1. P \in SUBSET Ids /\ i \in P
  OBVIOUS
<1>2. Place(i, S) = Cardinality(P)
  BY DEF Place
<1> HIDE DEF P
<1>3. IsFiniteSet(P) /\ Cardinality(P) \in Nat /\ P # {}
  BY <1>1, FiredIsFinite
<1>4. Cardinality(P) # 0
  BY <1>3, FS_EmptySet
<1> QED
  BY <1>2, <1>3, <1>4

\* and one with a smaller place comes before in the order of the loop.
LEMMA PlaceOrders ==
  ASSUME BufferTyped, NEW S \in SUBSET Ids, NEW n \in Nat,
         NEW i \in S, NEW j \in S,
         n + Place(j, S) < n + Place(i, S)
  PROVE  Before(j, i)
<1>1. SUFFICES ASSUME ~Before(j, i) PROVE FALSE
  OBVIOUS
<1> DEFINE P == {k \in S : k = i \/ Before(k, i)}
           Q == {k \in S : k = j \/ Before(k, j)}
<1>2. \A k \in S : log[k].stamp \in Nat /\ k \in Nat
  BY EventFields
<1>3. i = j \/ Before(i, j)
  BY <1>1, <1>2 DEF Before
<1>4. P \subseteq Q
  BY <1>2, <1>3 DEF Before
<1>5. Q \in SUBSET Ids /\ P \in SUBSET Ids
  OBVIOUS
<1>6. Place(i, S) = Cardinality(P) /\ Place(j, S) = Cardinality(Q)
  BY DEF Place
<1> HIDE DEF P, Q
<1>7. IsFiniteSet(Q) /\ Cardinality(Q) \in Nat /\ Cardinality(P) \in Nat
  BY <1>5, FiredIsFinite
<1>8. Cardinality(P) <= Cardinality(Q)
  BY <1>4, <1>7, FS_Subset
<1> QED
  BY <1>6, <1>7, <1>8

\* What handling an answer does, in the terms the invariant speaks of.
LEMMA HandlesDoes ==
  ASSUME Inv, NEW l \in Loops, Handles(l)
  PROVE  /\ loop[l] = "answered" /\ answer[l] \in SUBSET Ids
         /\ lastSeen' \in Nat /\ lastSeen <= lastSeen' /\ primed' = TRUE
         /\ lastSeen' # lastSeen =>
              \E j \in answer[l] : log[j].stamp = lastSeen'
         /\ \A j \in answer[l] : log[j].stamp <= lastSeen'
         /\ turns' \in Nat /\ turn' \in [1 .. MaxEvents -> Nat]
         /\ \A i \in 1 .. MaxEvents :
              \/ turn'[i] = turn[i]
              \/ /\ turn'[i] # 0
                 /\ i \in answer[l] /\ log[i].stamp > lastSeen
                 /\ ~PassedOver(i)
         /\ excused \subseteq excused' /\ excused' \subseteq Ids
         /\ \A i \in answer[l] : log[i].stamp > lastSeen =>
              turn'[i] # 0 \/ i \in excused'
         /\ \A i \in 1 .. MaxEvents : turn[i] # 0 => turn'[i] # 0
<1> DEFINE fresh == Fresh(answer[l])
           fired == {i \in fresh : log[i].type \in subs /\ ~PassedOver(i)}
<1>1. /\ loop[l] = "answered"
      /\ turn' = [i \in DOMAIN turn |->
                      IF i \in fired THEN turns + Place(i, fired) ELSE turn[i]]
      /\ excused' = excused \cup (fresh \ fired)
      /\ turns' = turns + Cardinality(fired)
      /\ primed' = TRUE
      /\ Watermark(answer[l])
  BY DEF Handles
<1>2. ClientTyped /\ BufferTyped
  BY DEF Inv, BufferInv
<1>3. answer[l] \in SUBSET Ids /\ lastSeen \in Nat /\ turns \in Nat
      /\ turn \in [1 .. MaxEvents -> Nat] /\ excused \subseteq Ids
  BY <1>2 DEF ClientTyped
<1>4. \A j \in Ids : log[j].stamp \in Nat /\ j \in 1 .. MaxEvents
  <2>1. \A j \in Ids : log[j].stamp \in Nat
    BY <1>2, EventFields
  <2>2. Len(log) \in Nat /\ Len(log) <= MaxEvents /\ MaxEvents \in Nat
    BY <1>2, BoundsAssumption DEF BufferTyped
  <2>3. \A j \in Ids : j \in 1 .. MaxEvents
    BY <2>2 DEF Ids
  <2> QED
    BY <2>1, <2>3
<1>5. /\ lastSeen' \in Nat /\ lastSeen <= lastSeen'
      /\ lastSeen' # lastSeen =>
              \E j \in answer[l] : log[j].stamp = lastSeen'
      /\ \A j \in answer[l] : log[j].stamp <= lastSeen'
  BY <1>1, <1>3, <1>4 DEF Watermark, Stamps
<1>6. /\ fresh \in SUBSET answer[l] /\ fired \in SUBSET fresh
      /\ \A i \in answer[l] : i \in fresh <=> log[i].stamp > lastSeen
      /\ \A i \in fired : ~PassedOver(i)
  BY DEF Fresh
<1> HIDE DEF fresh, fired
<1>9. /\ Cardinality(fired) \in Nat
      /\ \A i \in fired : turns + Place(i, fired) \in Nat \ {0}
  BY <1>2, <1>3, <1>6, FiredIsFinite, PlaceIsPositive
<1>7. turns' \in Nat /\ turn' \in [1 .. MaxEvents -> Nat]
  BY <1>1, <1>3, <1>9
<1>8. \A i \in 1 .. MaxEvents :
        turn'[i] = IF i \in fired THEN turns + Place(i, fired) ELSE turn[i]
  BY <1>1, <1>3
<1>10. excused \subseteq excused' /\ excused' \subseteq Ids
  BY <1>1, <1>3, <1>6
<1>11. \A i \in answer[l] : log[i].stamp > lastSeen =>
              turn'[i] # 0 \/ i \in excused'
  BY <1>1, <1>3, <1>4, <1>6, <1>8, <1>9
<1>12. \A i \in 1 .. MaxEvents :
              \/ turn'[i] = turn[i]
              \/ /\ turn'[i] # 0
                 /\ i \in answer[l] /\ log[i].stamp > lastSeen
                 /\ ~PassedOver(i)
  BY <1>6, <1>8, <1>9
<1>13. \A i \in 1 .. MaxEvents : turn[i] # 0 => turn'[i] # 0
  BY <1>8, <1>9
<1> QED
  BY <1>1, <1>3, <1>5, <1>7, <1>10, <1>11, <1>12, <1>13

LEMMA HandlesKeeps ==
  ASSUME Inv, NEW l \in Loops, Handles(l)
  PROVE  Inv'
<1>0. BufferStill /\ subs' = subs /\ born' = born /\ loads' = loads
      /\ answer' = [answer EXCEPT ![l] = {}] /\ Reschedules(l)
  BY DEF Handles, BufferStill
<1>1. /\ BufferInv' /\ Ids' = Ids /\ log' = log
      /\ \A i \in Ids : (Pushed(i)' <=> Pushed(i))
                        /\ (SameMs(i)' <=> SameMs(i))
  BY <1>0, StillKeeps
<1>2. /\ loop[l] = "answered" /\ answer[l] \in SUBSET Ids
      /\ lastSeen' \in Nat /\ lastSeen <= lastSeen' /\ primed' = TRUE
      /\ lastSeen' # lastSeen => \E j \in answer[l] : log[j].stamp = lastSeen'
      /\ \A j \in answer[l] : log[j].stamp <= lastSeen'
      /\ turns' \in Nat /\ turn' \in [1 .. MaxEvents -> Nat]
      /\ excused \subseteq excused' /\ excused' \subseteq Ids
      /\ \A i \in answer[l] : log[i].stamp > lastSeen =>
              turn'[i] # 0 \/ i \in excused'
      /\ \A i \in 1 .. MaxEvents : turn[i] # 0 => turn'[i] # 0
  BY HandlesDoes
<1>3. \A i \in 1 .. MaxEvents :
        \/ turn'[i] = turn[i]
        \/ /\ turn'[i] # 0
           /\ i \in answer[l] /\ log[i].stamp > lastSeen /\ ~PassedOver(i)
  BY HandlesDoes
<1>4. ClientTyped /\ TimerIsHeld /\ ChainsTyped /\ BufferTyped
  BY DEF Inv, BufferInv, ClientTyped, ChainsTyped
<1>5. /\ ChainsTyped' /\ PollingAlive' /\ TimerIsHeld'
      /\ loop'[l] # "answered"
      /\ \A k \in Loops : loop'[k] = "answered" => loop[k] = "answered"
  <2>1. loop[l] # "idle"
    BY <1>2
  <2> QED
    BY <1>0, <1>4, <2>1, ReschedulesWell
<1>6. lastSeen \in Nat /\ \A i \in Ids :
        log[i].stamp \in Nat /\ i \in Nat /\ i \in 1 .. MaxEvents
  <2>1. \A i \in Ids : log[i].stamp \in Nat /\ i \in Nat
    BY <1>4, EventFields
  <2>2. Len(log) \in Nat /\ Len(log) <= MaxEvents /\ MaxEvents \in Nat
    BY <1>4, BoundsAssumption DEF BufferTyped
  <2>3. \A i \in Ids : i \in 1 .. MaxEvents
    BY <2>2 DEF Ids
  <2> QED
    BY <1>4, <2>1, <2>3 DEF ClientTyped
<1>7. ClientTyped'
  BY <1>0, <1>1, <1>2, <1>4, <1>5 DEF ClientTyped, ChainsTyped
<1>8. WatermarkSound'
  BY <1>1, <1>2 DEF Inv, WatermarkSound
<1>9. HandledIsSeen'
  <2>1. ASSUME NEW i \in 1 .. MaxEvents, turn'[i] # 0
        PROVE  i \in Ids /\ log[i].stamp <= lastSeen'
    <3>1. CASE turn'[i] = turn[i]
      BY <1>2, <1>6, <2>1, <3>1 DEF Inv, HandledIsSeen, Handled
    <3>2. CASE turn'[i] # turn[i]
      BY <1>2, <1>3, <2>1, <3>2
    <3> QED
      BY <3>1, <3>2
  <2> QED
    BY <1>1, <1>2, <2>1 DEF HandledIsSeen, Handled
<1>10. /\ \A k \in Loops : loop'[k] = "answered" =>
              k # l /\ loop[k] = "answered" /\ answer'[k] = answer[k]
  BY <1>0, <1>4, <1>5 DEF ClientTyped
<1>11. AnswersReach' /\ AnswersMiss'
  BY <1>0, <1>1, <1>10 DEF Inv, AnswersReach, AnswersMiss
<1>12. \A i, j \in Ids : i <= j => log[i].stamp <= log[j].stamp
  <2>1. ASSUME NEW i \in Ids, NEW j \in Ids, i <= j
        PROVE  log[i].stamp <= log[j].stamp
    <3>1. i = j \/ i < j
      BY <1>6, <2>1
    <3> QED
      BY <1>6, <3>1 DEF Inv, BufferInv, StampsRise
  <2> QED
    BY <2>1
<1>13. PrimedIsPast'
  <2>1. ASSUME NEW i \in 1 .. born
        PROVE  log[i].stamp <= lastSeen'
    <3>1. PICK j \in answer[l] : i <= j
      BY <1>2 DEF Inv, AnswersReach
    <3>2. i \in Ids
      BY <1>4 DEF ClientTyped, BufferTyped, Ids
    <3>3. j \in Ids /\ log[j].stamp <= lastSeen'
      BY <1>2, <3>1
    <3>4. log[i].stamp <= log[j].stamp
      BY <1>12, <3>1, <3>2, <3>3
    <3>5. log[i].stamp \in Nat /\ log[j].stamp \in Nat /\ lastSeen' \in Nat
      BY <1>2, <1>6, <3>2, <3>3
    <3> QED
      BY <3>3, <3>4, <3>5
  <2> QED
    BY <1>0, <1>1, <2>1 DEF PrimedIsPast
<1>14. NoStaleReplay'
  <2>1. ASSUME NEW i \in 1 .. MaxEvents, turn'[i] # 0,
               log[i].type \in PrimedPast
        PROVE  i > born
    <3>1. CASE turn'[i] = turn[i]
      BY <1>4, <2>1, <3>1 DEF Inv, NoStaleReplay, Handled, ClientTyped
    <3>2. CASE turn'[i] # turn[i]
      <4>1. /\ i \in Ids /\ log[i].stamp > lastSeen /\ primed
        BY <1>2, <1>3, <2>1, <3>2 DEF PassedOver
      <4>2. ~(i \in 1 .. born)
        BY <1>6, <4>1 DEF Inv, PrimedIsPast
      <4>3. born \in Nat
        BY <1>4 DEF ClientTyped, BufferTyped
      <4> QED
        BY <2>1, <4>2, <4>3
    <3> QED
      BY <3>1, <3>2
  <2>2. DOMAIN turn' = 1 .. MaxEvents
    BY <1>2
  <2> QED
    BY <1>0, <1>1, <2>1, <2>2 DEF NoStaleReplay, Handled
<1>15. LossExplained'
  <2>1. ASSUME NEW i \in Ids, log[i].stamp <= lastSeen'
        PROVE  turn'[i] # 0 \/ i \in excused' \/ Pushed(i) \/ SameMs(i)
    <3>1. CASE log[i].stamp <= lastSeen
      BY <1>2, <1>6, <3>1 DEF Inv, LossExplained, Handled
    <3>2. CASE log[i].stamp > lastSeen
      <4>1. PICK j \in answer[l] : log[j].stamp = lastSeen'
        BY <1>2, <1>6, <2>1, <3>2
      <4>2. i \in answer[l] \/ Pushed(i) \/ j < i
        BY <1>2, <4>1 DEF Inv, AnswersMiss
      <4>3. CASE i \in answer[l]
        BY <1>2, <3>2, <4>3
      <4>4. CASE j < i
        <5>1. j \in Ids /\ log[j].stamp <= log[i].stamp
          BY <1>2, <1>6, <1>12, <4>1, <4>4
        <5>2. log[j].stamp = log[i].stamp
          BY <1>2, <1>6, <2>1, <4>1, <5>1
        <5> QED
          BY <4>4, <5>1, <5>2 DEF SameMs
      <4> QED
        BY <4>2, <4>3, <4>4
    <3> QED
      BY <1>6, <3>1, <3>2
  <2> QED
    BY <1>1, <2>1 DEF LossExplained, Handled
<1> QED
  BY <1>1, <1>5, <1>7, <1>8, <1>9, <1>11, <1>13, <1>14, <1>15 DEF Inv

LEMMA ReloadKeeps ==
  ASSUME Inv, Reload
  PROVE  Inv'
<1>1. /\ BufferStill /\ loads' = loads + 1 /\ born' = Len(log)
      /\ subs' = {} /\ timer' = NoTimer /\ loop' = [l \in Loops |-> "idle"]
      /\ answer' = [l \in Loops |-> {}] /\ lastSeen' = 0 /\ primed' = FALSE
      /\ turns' = 0 /\ turn' = [i \in 1 .. MaxEvents |-> 0]
      /\ excused' = {}
  BY DEF Reload, Loaded, BufferStill
<1>2. BufferInv' /\ Ids' = Ids /\ log' = log
  BY <1>1, StillKeeps
<1>3. ClientTyped'
  <2>1. Len(log) \in Nat /\ loads \in Nat
    BY DEF Inv, BufferInv, BufferTyped, ClientTyped
  <2>2. born' \in 0 .. Len(log')
    BY <1>1, <1>2, <2>1
  <2>3. turn' \in [1 .. MaxEvents -> Nat] /\ answer' \in [Loops -> SUBSET Ids']
    BY <1>1
  <2>4. loop' \in [Loops -> {"idle", "armed", "asked", "answered", "lost"}]
    BY <1>1
  <2>5. primed' \in BOOLEAN /\ turns' \in Nat /\ lastSeen' \in Nat
    BY <1>1
  <2>6. excused' \subseteq Ids' /\ subs' \subseteq Types
    BY <1>1
  <2>7. loads' \in Nat /\ timer' \in Loops \cup {NoTimer}
    BY <1>1, <2>1
  <2> QED
    BY <2>2, <2>3, <2>4, <2>5, <2>6, <2>7 DEF ClientTyped
<1>4. \A i \in Ids : ~(log[i].stamp <= 0)
  BY DEF Inv, BufferInv, BufferTyped, StampsRise
<1>5. /\ WatermarkSound' /\ HandledIsSeen' /\ AnswersReach' /\ AnswersMiss'
      /\ PrimedIsPast' /\ NoStaleReplay' /\ PollingAlive' /\ TimerIsHeld'
  BY <1>1 DEF WatermarkSound, HandledIsSeen, AnswersReach, AnswersMiss,
     PrimedIsPast, NoStaleReplay, PollingAlive, TimerIsHeld, Handled
<1>6. LossExplained'
  BY <1>1, <1>2, <1>4 DEF LossExplained
<1> QED
  BY <1>2, <1>3, <1>5, <1>6 DEF Inv

LEMMA NextKeeps ==
  ASSUME Inv, [Next]_vars
  PROVE  Inv'
<1>1. CASE Next
  BY <1>1, EmitKeeps, TickKeeps, SubscribeKeeps, UnsubscribeKeeps, FiresKeeps,
     ServesKeeps, FailsKeeps, LostKeeps, HandlesKeeps, ReloadKeeps DEF Next
<1>2. CASE UNCHANGED vars
  <2>1. BufferStill /\ Unhandled /\ answer' = answer
        /\ subs' = subs /\ timer' = timer /\ loop' = loop
    BY <1>2 DEF vars, clientVars, BufferStill, Unhandled
  <2>2. ChainsTyped' /\ PollingAlive' /\ TimerIsHeld'
    BY <2>1 DEF Inv, ClientTyped, ChainsTyped, PollingAlive, TimerIsHeld
  <2> QED
    BY <2>1, <2>2, ChainsKeep
<1> QED
  BY <1>1, <1>2

-----------------------------------------------------------------------------
(* The inductive invariant holds of every reachable state, however many    *)
(* types, chains of timers and loads of the client there are.              *)
THEOREM InvAlways == Spec => []Inv
<1>1. Init => Inv
  BY InitInv
<1>2. Inv /\ [Next]_vars => Inv'
  BY NextKeeps
<1> QED
  BY <1>1, <1>2, PTL DEF Spec

(* The client and the buffer stay well typed and every ring within its     *)
(* cap (event_bus/event_replay.py, _DEFAULT_CAPS).                         *)
THEOREM TypeCorrect == Spec => []TypeOK
<1>1. Inv => TypeOK
  BY DEF Inv, BufferInv, BufferTyped, ClientTyped, TypeOK, Event
<1> QED
  BY <1>1, InvAlways, PTL

(* A restart of Steam never fires again what runs a side effect or revives *)
(* a finished sync (STALE_ON_RELOAD_EVENTS and IMPERATIVE_EVENTS).         *)
THEOREM StaleNeverReplayed == Spec => []NoStaleReplay
<1>1. Inv => NoStaleReplay
  BY DEF Inv
<1> QED
  BY <1>1, InvAlways, PTL

(* Whatever the watermark has passed was handled, left out on purpose,     *)
(* pushed out of the buffer, or shares its millisecond with an earlier     *)
(* event.                                                                  *)
THEOREM LossesExplained == Spec => []LossExplained
<1>1. Inv => LossExplained
  BY DEF Inv
<1> QED
  BY <1>1, InvAlways, PTL

(* While a type has a handler, the client holds the handle of a chain of   *)
(* timers that is armed or has a poll out (ensurePolling, scheduleNext):   *)
(* no order of subscriptions and overlapping polls ends the polling, only  *)
(* a call that never settles.                                              *)
THEOREM PollingNeverDies == Spec => []PollingAlive
<1>1. Inv => PollingAlive
  BY DEF Inv
<1> QED
  BY <1>1, InvAlways, PTL

\* Handling an answer goes through its events in the order of the stamps, and
\* through those of one millisecond from the newest on.
LEMMA HandlesInOrder ==
  ASSUME Inv, NEW l \in Loops, Handles(l), NEW i \in 1 .. MaxEvents,
         NEW j \in 1 .. MaxEvents, turn'[i] # turn[i], ~Handled(j),
         turn'[j] \in 1 .. turn'[i] - 1
  PROVE  Before(j, i)
<1> DEFINE fired == {k \in Fresh(answer[l]) : log[k].type \in subs /\ ~PassedOver(k)}
<1>1. /\ turn' = [k \in DOMAIN turn |->
                      IF k \in fired THEN turns + Place(k, fired) ELSE turn[k]]
  BY DEF Handles
<1>2. BufferTyped /\ DOMAIN turn = 1 .. MaxEvents /\ turns \in Nat
      /\ answer[l] \in SUBSET Ids
  BY DEF Inv, BufferInv, ClientTyped
<1>3. fired \in SUBSET Ids
  BY <1>2 DEF Fresh
<1> HIDE DEF fired
<1>4. i \in fired /\ turn'[i] = turns + Place(i, fired)
  BY <1>1, <1>2
<1>5. j \in fired /\ turn'[j] = turns + Place(j, fired)
  BY <1>1, <1>2 DEF Handled
<1>6. turn'[i] \in Nat /\ turn'[j] < turn'[i]
  <2>1. turn'[i] \in Nat \ {0}
    BY <1>2, <1>3, <1>4, PlaceIsPositive
  <2> QED
    BY <2>1
<1> QED
  BY <1>2, <1>3, <1>4, <1>5, <1>6, PlaceOrders

(* A handler runs for no event twice and for none that is not later than   *)
(* all that earlier answers had handled, even with two polls out; inside   *)
(* an answer the loop of pollOnce runs them in the order of their stamps,  *)
(* and those of one millisecond newest first.                              *)
THEOREM HandledOnceInOrder == Spec => OnceInOrder
<1> DEFINE A == \A i, j \in DOMAIN turn :
                  turn'[i] \notin {0, turn[i]} =>
                    /\ Handled(j) => log[j].stamp < log'[i].stamp
                    /\ ~Handled(j) /\ turn'[j] \in 1 .. turn'[i] - 1 =>
                           \/ log'[j].stamp < log'[i].stamp
                           \/ log'[j].stamp = log'[i].stamp /\ j > i
<1>1. Inv /\ [Next]_vars => [A]_vars
  <2> SUFFICES ASSUME Inv, Next PROVE A
    OBVIOUS
  <2>1. CASE turn' = turn
    BY <2>1
  <2>2. CASE Reload
    BY <2>2 DEF Reload, Loaded, Inv, ClientTyped
  <2>3. ASSUME NEW l \in Loops, Handles(l)
        PROVE  A
    <3>1. DOMAIN turn = 1 .. MaxEvents /\ lastSeen \in Nat
      BY DEF Inv, ClientTyped
    <3>2. log' = log
      BY <2>3 DEF Handles, bufferVars
    <3>3. \A i \in 1 .. MaxEvents : turn'[i] # turn[i] =>
            i \in answer[l] /\ log[i].stamp > lastSeen
      BY <2>3, HandlesDoes
    <3>4. \A j \in 1 .. MaxEvents : Handled(j) =>
            j \in Ids /\ log[j].stamp <= lastSeen
      BY DEF Inv, HandledIsSeen
    <3>5. \A j \in Ids : log[j].stamp \in Nat
      BY EventFields DEF Inv, BufferInv
    <3>6. answer[l] \in SUBSET Ids
      BY DEF Inv, ClientTyped
    <3>7. \A i, j \in 1 .. MaxEvents :
            turn'[i] # turn[i] /\ Handled(j) => log[j].stamp < log[i].stamp
      BY <3>1, <3>3, <3>4, <3>5, <3>6
    <3>8. \A i, j \in 1 .. MaxEvents :
            turn'[i] # turn[i] /\ ~Handled(j) /\ turn'[j] \in 1 .. turn'[i] - 1 =>
              \/ log[j].stamp < log[i].stamp
              \/ log[j].stamp = log[i].stamp /\ j > i
      BY <2>3, HandlesInOrder DEF Before
    <3> QED
      BY <3>1, <3>2, <3>7, <3>8
  <2> QED
    BY <2>1, <2>2, <2>3 DEF Next, Emit, TimePasses, Subscribe, Unsubscribe,
       Fires, Serves, Fails, Lost, clientVars
<1> QED
  BY <1>1, InvAlways, PTL DEF Spec, OnceInOrder

=============================================================================
