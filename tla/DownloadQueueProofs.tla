------------------------ MODULE DownloadQueueProofs ------------------------
(***************************************************************************)
(* Theorems about module DownloadQueue, for every value of its constants.  *)
(*                                                                         *)
(* NoDuplicateKey and LiveInstallHoldsSlot are not inductive: a reload     *)
(* takes the queue from the file, the file comes from the copies of the    *)
(* saves, and a batch is spawned long after it was popped.  IInv adds what *)
(* these steps rely on.  Three invariants build on it: StageInv, where each*)
(* item can be; SpawnInv, what the file and the copies that may replace it *)
(* do not hold; FileInv, what they do hold and which ends were published.  *)
(***************************************************************************)
EXTENDS DownloadQueue, SequenceTheorems, FiniteSetTheorems, TLAPS

\* Whatever a reload may bring back has no key twice.
CopiesKeyedOnce ==
  /\ KeyedOnce(disk)
  /\ \A s \in Savers : KeyedOnce(snap[s])
  /\ loaded # <<>> => KeyedOnce(loaded[1])

\* A popped item keeps its slot until it is spawned.
BatchHoldsSlot ==
  \A i \in ToSet(batch) : running[KeyOf[i]] = i /\ install[i] \notin Alive

\* No slot is taken before the queue is loaded.
EmptyUntilLoaded ==
  /\ boot \in {"down", "loading"} => \A k \in Keys : running[k] = NoItem
  /\ worker # "off" => boot = "up"

IInv ==
  /\ TypeOK
  /\ NoDuplicateKey
  /\ LiveInstallHoldsSlot
  /\ CopiesKeyedOnce
  /\ BatchHoldsSlot
  /\ EmptyUntilLoaded

-----------------------------------------------------------------------------
(* Sequences of items.                                                     *)

\* What RemoveAt returns: the same items in the same order, less one.
LEMMA RemoveAtIsSeq ==
  ASSUME NEW S, NEW s \in Seq(S), NEW n \in DOMAIN s
  PROVE  /\ RemoveAt(s, n) \in Seq(S)
         /\ Len(RemoveAt(s, n)) = Len(s) - 1
         /\ \A m \in DOMAIN RemoveAt(s, n) :
              RemoveAt(s, n)[m] = s[IF m < n THEN m ELSE m + 1]
<1> DEFINE front == SubSeq(s, 1, n-1)
           back == SubSeq(s, n+1, Len(s))
<1>1. n \in 1..Len(s) /\ Len(s) \in Nat
  BY LenProperties
<1>2. /\ front \in Seq(S) /\ Len(front) = n - 1
      /\ \A m \in 1..(n-1) : front[m] = s[m]
  BY <1>1
<1>3. /\ back \in Seq(S) /\ Len(back) = Len(s) - n
      /\ \A m \in 1..(Len(s)-n) : back[m] = s[n+m]
  BY <1>1
<1>4. RemoveAt(s, n) = front \o back
  BY DEF RemoveAt
<1> HIDE DEF front, back
<1>5. /\ front \o back \in Seq(S)
      /\ Len(front \o back) = Len(s) - 1
      /\ \A m \in 1..(Len(s)-1) : (front \o back)[m] =
           IF m <= n - 1 THEN front[m] ELSE back[m - (n - 1)]
  <2>1. /\ front \o back \in Seq(S)
        /\ Len(front \o back) = Len(front) + Len(back)
        /\ \A m \in 1..(Len(front) + Len(back)) : (front \o back)[m] =
             IF m <= Len(front) THEN front[m] ELSE back[m - Len(front)]
    BY <1>2, <1>3, ConcatProperties
  <2>2. Len(front) = n - 1 /\ Len(front) + Len(back) = Len(s) - 1
    BY <1>1, <1>2, <1>3
  <2> QED
    BY <2>1, <2>2
<1>6. DOMAIN (front \o back) = 1..(Len(s) - 1)
  BY <1>5, LenProperties
<1>7. ASSUME NEW m \in 1..(Len(s) - 1)
      PROVE  (front \o back)[m] = s[IF m < n THEN m ELSE m + 1]
  <2>1. CASE m < n
    <3>1. m <= n - 1 /\ m \in 1..(n-1)
      BY <1>1, <2>1
    <3> QED
      BY <1>2, <1>5, <2>1, <3>1
  <2>2. CASE ~(m < n)
    <3> DEFINE l == m - (n - 1)
    <3>1. l \in 1..(Len(s) - n) /\ n + l = m + 1 /\ ~(m <= n - 1)
      BY <1>1, <2>2
    <3>2. (front \o back)[m] = back[l]
      BY <1>5, <3>1
    <3>3. back[l] = s[n + l]
      BY <1>3, <3>1
    <3> QED
      BY <2>2, <3>1, <3>2, <3>3
  <2> QED
    BY <2>1, <2>2
<1> QED
  BY <1>4, <1>5, <1>6, <1>7

\* The pending keys stay distinct when an item leaves the queue.
LEMMA RemoveAtKeyedOnce ==
  ASSUME NEW s \in Seq(Items), KeyedOnce(s), NEW n \in DOMAIN s
  PROVE  /\ KeyedOnce(RemoveAt(s, n))
         /\ ToSet(RemoveAt(s, n)) = ToSet(s) \ {s[n]}
<1>1. /\ n \in 1..Len(s) /\ Len(s) \in Nat /\ DOMAIN s = 1..Len(s)
      /\ DOMAIN RemoveAt(s, n) = 1..(Len(s) - 1)
  BY RemoveAtIsSeq, LenProperties
<1> DEFINE At(m) == IF m < n THEN m ELSE m + 1
<1>2. ASSUME NEW m \in DOMAIN RemoveAt(s, n)
      PROVE  At(m) \in DOMAIN s /\ RemoveAt(s, n)[m] = s[At(m)]
  <2>1. At(m) \in DOMAIN s
    BY <1>1
  <2>2. RemoveAt(s, n)[m] = s[At(m)]
    BY RemoveAtIsSeq
  <2> QED
    BY <2>1, <2>2
<1>3. \A m, l \in DOMAIN RemoveAt(s, n) : At(m) = At(l) => m = l
  BY <1>1
<1>4. KeyedOnce(RemoveAt(s, n))
  <2> HIDE DEF At
  <2> QED
    BY <1>2, <1>3 DEF KeyedOnce
<1>5. ToSet(RemoveAt(s, n)) \subseteq ToSet(s) \ {s[n]}
  <2>1. \A m \in DOMAIN RemoveAt(s, n) : At(m) # n
    BY <1>1
  <2>2. \A l \in DOMAIN s : l # n => s[l] # s[n]
    BY DEF KeyedOnce
  <2> HIDE DEF At
  <2> QED
    BY <1>2, <2>1, <2>2 DEF ToSet
<1>6. ASSUME NEW l \in DOMAIN s, l # n
      PROVE  s[l] \in ToSet(RemoveAt(s, n))
  <2> DEFINE m == IF l < n THEN l ELSE l - 1
  <2>1. m \in DOMAIN RemoveAt(s, n) /\ At(m) = l
    BY <1>1, <1>6
  <2>2. RemoveAt(s, n)[m] = s[l]
    BY <1>2, <2>1
  <2> QED
    BY <2>1, <2>2 DEF ToSet
<1> QED
  BY <1>4, <1>5, <1>6 DEF ToSet

LEMMA SubSeqIsSeq ==
  ASSUME NEW S, NEW s \in Seq(S), NEW m \in 1..(Len(s) + 1), NEW n \in 0..Len(s)
  PROVE  /\ SubSeq(s, m, n) \in Seq(S)
         /\ DOMAIN SubSeq(s, m, n) = 1..(n - m + 1)
         /\ \A l \in 1..(n - m + 1) : SubSeq(s, m, n)[l] = s[m + l - 1]
<1>1. m \in Int /\ n \in Int /\ \A l \in m..n : s[l] \in S
  BY LenProperties
<1>2. /\ SubSeq(s, m, n) \in Seq(S)
      /\ Len(SubSeq(s, m, n)) = IF m <= n THEN n - m + 1 ELSE 0
      /\ \A l \in 1..(n - m + 1) : SubSeq(s, m, n)[l] = s[m + l - 1]
  BY <1>1, SubSeqProperties
<1>3. 1..(n - m + 1) = 1..(IF m <= n THEN n - m + 1 ELSE 0)
  BY <1>1
<1> QED
  BY <1>2, <1>3, LenProperties

LEMMA SubSeqKeyedOnce ==
  ASSUME NEW s \in Seq(Items), KeyedOnce(s), NEW m \in 1..(Len(s) + 1), NEW n \in 0..Len(s)
  PROVE  /\ SubSeq(s, m, n) \in Seq(Items)
         /\ KeyedOnce(SubSeq(s, m, n))
         /\ ToSet(SubSeq(s, m, n)) = {s[l] : l \in m..n}
<1>1. Len(s) \in Nat /\ DOMAIN s = 1..Len(s)
  BY LenProperties
<1>2. /\ SubSeq(s, m, n) \in Seq(Items)
      /\ DOMAIN SubSeq(s, m, n) = 1..(n - m + 1)
      /\ \A l \in 1..(n - m + 1) : SubSeq(s, m, n)[l] = s[m + l - 1]
  BY SubSeqIsSeq
<1>3. KeyedOnce(SubSeq(s, m, n))
  <2> SUFFICES ASSUME NEW k \in 1..(n - m + 1), NEW l \in 1..(n - m + 1),
                      KeyOf[s[m + k - 1]] = KeyOf[s[m + l - 1]]
               PROVE  k = l
    BY <1>2 DEF KeyedOnce
  <2>1. m + k - 1 \in DOMAIN s /\ m + l - 1 \in DOMAIN s
    BY <1>1
  <2>2. m + k - 1 = m + l - 1
    BY <2>1 DEF KeyedOnce
  <2> QED
    BY <2>2
<1>4. ToSet(SubSeq(s, m, n)) \subseteq {s[l] : l \in m..n}
  BY <1>1, <1>2 DEF ToSet
<1>5. ASSUME NEW l \in m..n
      PROVE  s[l] \in ToSet(SubSeq(s, m, n))
  <2>1. l - m + 1 \in DOMAIN SubSeq(s, m, n) /\ m + (l - m + 1) - 1 = l
    BY <1>2
  <2> QED
    BY <1>2, <2>1 DEF ToSet
<1> QED
  BY <1>2, <1>3, <1>4, <1>5

LEMMA AppendKeyedOnce ==
  ASSUME NEW s \in Seq(Items), KeyedOnce(s), NEW i \in Items,
         \A j \in ToSet(s) : KeyOf[j] # KeyOf[i]
  PROVE  /\ Append(s, i) \in Seq(Items)
         /\ KeyedOnce(Append(s, i))
         /\ ToSet(Append(s, i)) = ToSet(s) \cup {i}
<1>1. /\ Append(s, i) \in Seq(Items) /\ Len(s) \in Nat /\ DOMAIN s = 1..Len(s)
      /\ DOMAIN Append(s, i) = 1..(Len(s) + 1)
      /\ \A m \in 1..Len(s) : Append(s, i)[m] = s[m]
      /\ Append(s, i)[Len(s) + 1] = i
  BY LenProperties, AppendProperties
<1>2. \A m \in 1..Len(s) : s[m] \in ToSet(s)
  BY <1>1 DEF ToSet
<1>3. KeyedOnce(Append(s, i))
  BY <1>1, <1>2 DEF KeyedOnce
<1>4. ToSet(Append(s, i)) = ToSet(s) \cup {i}
  BY <1>1 DEF ToSet
<1> QED
  BY <1>1, <1>3, <1>4

-----------------------------------------------------------------------------
(* Type correctness.                                                       *)

LEMMA BusyIsFinite ==
  IsFiniteSet(Keys) /\ IsFiniteSet(Busy) /\ Cardinality(Busy) \in Nat
<1>1. [i \in Items |-> KeyOf[i]] \in Surjection(Items, Keys)
  BY DEF Surjection, Keys
<1>2. IsFiniteSet(Keys)
  BY <1>1, FS_Surjection, ItemsAssumption
<1> QED
  BY <1>2, FS_Subset, FS_CardinalityType DEF Busy

\* The worker pops at least one item and no more than are queued.
LEMMA PopCountInRange ==
  ASSUME TypeOK, queue # <<>>, Cardinality(Busy) < MaxConcurrent
  PROVE  PopCount \in 1..Len(queue)
<1>1. queue \in Seq(Items) /\ Len(queue) \in Nat /\ Len(queue) # 0
  BY LenProperties, EmptySeq DEF TypeOK
<1> QED
  BY <1>1, BusyIsFinite, BoundsAssumption DEF PopCount

\* What saves that met may leave in the file is one of the copied lists or <<>>.
LEMMA CopiesAreLists ==
  ASSUME TypeOK, NEW q \in {<<>>} \cup Copies
  PROVE  q \in Seq(Items) /\ (q = <<>> \/ \E s \in Savers : q = snap[s])
<1>1. CASE q = <<>>
  BY <1>1
<1>2. CASE q \in Copies
  <2>1. PICK s \in DOMAIN savePc : q = snap[s]
    BY <1>2 DEF Copies
  <2> QED
    BY <2>1 DEF TypeOK
<1> QED
  BY <1>1, <1>2

LEMMA TypeInit == Init => TypeOK
<1> SUFFICES ASSUME Init
             PROVE  TypeOK
  OBVIOUS
<1>1. trusted \in BOOLEAN /\ astray \in BOOLEAN
  BY DEF Init, SaveInit
<1> QED
  BY <1>1, BoundsAssumption DEF Init, TypeOK, SaveInit, InstallStates, Statuses, Outcomes

LEMMA TypeStep == TypeOK /\ [Next]_vars => TypeOK'
<1> SUFFICES ASSUME TypeOK, [Next]_vars
             PROVE  TypeOK'
  OBVIOUS
<1> USE ItemsAssumption, BoundsAssumption
<1>1. ASSUME NEW s \in Savers, Snapshot(s)
      PROVE  TypeOK'
  BY <1>1 DEF TypeOK, Snapshot, CopyList, procVars, taskVars, workVars
<1>2. ASSUME NEW s \in Savers, Publish(s)
      PROVE  TypeOK'
  <2>1. disk' \in Seq(Items)
    BY <1>2, CopiesAreLists DEF TypeOK, Publish, PublishSave
  <2>2. trusted' \in BOOLEAN
    BY <1>2 DEF TypeOK, Publish, PublishSave
  <2>3. /\ savePc' \in [Savers -> {"idle", "begun", "snapped"}]
        /\ snap' \in [Savers -> Seq(Items)] /\ solo' \subseteq Savers
    BY <1>2 DEF TypeOK, Publish, PublishSave
  <2> QED
    BY <1>2, <2>1, <2>2, <2>3 DEF TypeOK, Publish, procVars, taskVars, workVars
<1>3. ASSUME SavesMeet
      PROVE  TypeOK'
  <2>1. disk' \in Seq(Items)
    BY <1>3, CopiesAreLists DEF SavesMeet, Clash
  <2> QED
    BY <1>3, <2>1 DEF TypeOK, SavesMeet, Clash, procVars, taskVars, workVars
<1>4. CASE StartLoad
  BY <1>4 DEF TypeOK, StartLoad, taskVars, workVars, fileVars, saveVars
<1>5. CASE LoadRead
  BY <1>5 DEF TypeOK, LoadRead, taskVars, workVars, fileVars, saveVars
<1>6. CASE LoadAssign
  BY <1>6 DEF TypeOK, LoadAssign, InstallStates, Statuses, Outcomes
<1>7. CASE Stop
  BY <1>7 DEF TypeOK, Stop, Saves, BeginSave, Savers, Stopper, taskVars
<1>19. AtRisk \subseteq Items
  BY DEF AtRisk, TypeOK, ToSet
<1>18. CASE StopEarly
  <2>1. forfeited' \subseteq Items
    BY <1>18, <1>19 DEF TypeOK, StopEarly
  <2> QED
    BY <1>18, <2>1
       DEF TypeOK, StopEarly, Saves, BeginSave, Savers, Stopper, procVars, taskVars, workVars
<1>8. CASE StopDone
  BY <1>8 DEF TypeOK, StopDone, taskVars, workVars, fileVars, saveVars
<1>9. CASE Exit
  <2>1. ToSet(queue) \subseteq Items
    BY DEF TypeOK, ToSet
  <2>2. forfeited' \subseteq Items
    BY <1>9, <2>1 DEF TypeOK, Exit
  <2>3. install' \in [Items -> InstallStates]
    BY <1>9 DEF TypeOK, Exit, InstallStates
  <2>4. /\ savePc' \in [Savers -> {"idle", "begun", "snapped"}]
        /\ snap' \in [Savers -> Seq(Items)]
        /\ disk' \in Seq(Items) /\ solo' \subseteq Savers /\ trusted' \in BOOLEAN
    BY <1>9 DEF TypeOK, Exit, EndSaves
  <2>5. astray' \in BOOLEAN
    BY <1>9 DEF Exit
  <2> QED
    BY <1>9, <2>2, <2>3, <2>4, <2>5 DEF TypeOK, Exit
<1>10. ASSUME NEW i \in Items, Add(i)
       PROVE  TypeOK'
  <2>1. forfeited' \subseteq Items
    BY <1>10, <1>19 DEF TypeOK, Add
  <2> QED
    BY <1>10, <2>1
       DEF TypeOK, Add, Saves, BeginSave, Savers, Statuses, procVars, taskVars, workVars
<1>11. ASSUME NEW k \in Keys, CancelRunning(k)
       PROVE  TypeOK'
  BY <1>11 DEF TypeOK, CancelRunning, TaskOf, procVars, workVars, fileVars, saveVars
<1>12. ASSUME NEW n \in DOMAIN queue, CancelQueued(n)
       PROVE  TypeOK'
  <2>1. RemoveAt(queue, n) \in Seq(Items) /\ queue[n] \in Items
    BY RemoveAtIsSeq DEF TypeOK
  <2>2. forfeited' \subseteq Items
    BY <1>12, <1>19 DEF TypeOK, CancelQueued
  <2> QED
    BY <1>12, <2>1, <2>2
       DEF TypeOK, CancelQueued, Saves, BeginSave, Savers, Statuses, procVars, taskVars, workVars
<1>13. ASSUME NEW i \in Items, CancelEmit(i)
       PROVE  TypeOK'
  BY <1>13 DEF TypeOK, CancelEmit, Outcomes, procVars, taskVars, workVars, fileVars, saveVars
<1>14. CASE Pop
  <2>1. PopCount \in 1..Len(queue) /\ Len(queue) \in Nat /\ queue \in Seq(Items)
    BY <1>14, PopCountInRange, LenProperties DEF Pop, TypeOK
  <2>2. batch' \in Seq(Items) /\ queue' \in Seq(Items)
    BY <1>14, <2>1, SubSeqIsSeq DEF Pop
  <2>3. running' \in [Keys -> Items \cup {NoItem}]
    <3>1. ASSUME NEW k \in Keys, \E n \in 1..PopCount : KeyOf[queue[n]] = k
          PROVE  queue[CHOOSE n \in 1..PopCount : KeyOf[queue[n]] = k] \in Items
      <4>1. (CHOOSE n \in 1..PopCount : KeyOf[queue[n]] = k) \in 1..Len(queue)
        BY <2>1, <3>1
      <4> QED
        BY <2>1, <4>1
    <3> QED
      BY <1>14, <3>1 DEF Pop, TypeOK
  <2> QED
    BY <1>14, <2>2, <2>3
       DEF TypeOK, Pop, Saves, BeginSave, Savers, Worker, procVars
<1>15. CASE Spawn
  <2>1. ToSet(batch) \subseteq Items
    BY DEF TypeOK, ToSet
  <2>2. tasks' \in [Keys -> Items \cup {NoItem}]
    BY <1>15, <2>1 DEF TypeOK, Spawn
  <2>3. install' \in [Items -> InstallStates]
    BY <1>15 DEF TypeOK, Spawn, InstallStates, Alive
  <2> QED
    BY <1>15, <2>2, <2>3 DEF TypeOK, Spawn, procVars, fileVars, saveVars
<1>16. ASSUME NEW i \in Items, InstallStep(i)
       PROVE  TypeOK'
  <2>1. ASSUME NEW t \in InstallStates, NEW st \in Statuses, NEW e \in SUBSET Outcomes,
               Moves(i, t, st, e), cancelReq' \subseteq cancelReq
        PROVE  TypeOK'
    BY <2>1 DEF TypeOK, Moves, procVars, workVars, fileVars, saveVars
  <2>2. status[i] \in Statuses
    BY DEF TypeOK
  <2> USE <2>2 DEF InstallStates, Alive, Waiting, Unwinding, Statuses, Outcomes
  <2>3. CASE Reject(i)
    BY <2>1, <2>3 DEF Reject
  <2>4. CASE Begin(i)
    BY <2>1, <2>4 DEF Begin
  <2>5. CASE Installed(i)
    BY <2>1, <2>5 DEF Installed
  <2>6. CASE WarmedUp(i)
    BY <2>1, <2>6 DEF WarmedUp
  <2>7. CASE Complete(i)
    BY <2>1, <2>7 DEF Complete
  <2>8. CASE InstallFailed(i)
    BY <2>1, <2>8 DEF InstallFailed
  <2>9. CASE Raised(i)
    BY <2>1, <2>9 DEF Raised
  <2>10. CASE Cancelled(i)
    BY <2>1, <2>10 DEF Cancelled
  <2>11. CASE Finish(i)
    BY <2>11 DEF TypeOK, Finish, Cleanup, procVars, workVars, fileVars, saveVars
  <2>12. CASE NeverEntered(i)
    BY <2>12 DEF TypeOK, NeverEntered, procVars, workVars, fileVars, saveVars
  <2> QED
    BY <1>16, <2>3, <2>4, <2>5, <2>6, <2>7, <2>8, <2>9, <2>10, <2>11, <2>12
       DEF InstallStep
<1>17. CASE UNCHANGED vars
  BY <1>17 DEF TypeOK, vars, procVars, taskVars, workVars, fileVars, saveVars
<1> QED
  BY <1>1, <1>2, <1>3, <1>4, <1>5, <1>6, <1>7, <1>8, <1>9, <1>10, <1>11, <1>12,
     <1>13, <1>14, <1>15, <1>16, <1>17, <1>18
     DEF Next, SaveStep, Lifecycle, Calls

\* Every variable keeps its type, from the constructors on and through every
\* interleaving of calls, worker, installs, saves, stops and restarts.
THEOREM TypeCorrect == Spec => []TypeOK
BY TypeInit, TypeStep, PTL DEF Spec

-----------------------------------------------------------------------------
(* The inductive invariant.                                                *)

LEMMA EmptyKeyedOnce == KeyedOnce(<<>>) /\ ToSet(<<>>) = {}
BY DEF KeyedOnce, ToSet

LEMMA InvInit == Init => IInv
<1> SUFFICES ASSUME Init
             PROVE  IInv
  OBVIOUS
<1>1. TypeOK
  BY TypeInit
<1>2. NoDuplicateKey
  BY EmptyKeyedOnce, ItemsAssumption DEF Init, NoDuplicateKey, Busy
<1>3. LiveInstallHoldsSlot
  BY DEF Init, LiveInstallHoldsSlot, Alive, Waiting, Unwinding
<1>4. CopiesKeyedOnce
  BY EmptyKeyedOnce DEF Init, SaveInit, CopiesKeyedOnce
<1>5. BatchHoldsSlot
  BY EmptyKeyedOnce DEF Init, BatchHoldsSlot
<1>6. EmptyUntilLoaded
  BY DEF Init, EmptyUntilLoaded
<1> QED
  BY <1>1, <1>2, <1>3, <1>4, <1>5, <1>6 DEF IInv

\* The slots: what queue, running, tasks, install, batch and boot must satisfy.
SlotsInv == NoDuplicateKey /\ LiveInstallHoldsSlot /\ BatchHoldsSlot /\ EmptyUntilLoaded

\* A step that touches none of them keeps it.
LEMMA SlotsFrame ==
  ASSUME IInv, UNCHANGED <<boot, worker, batch, queue, running, tasks, install>>
  PROVE  SlotsInv'
<1>1. NoDuplicateKey' /\ LiveInstallHoldsSlot'
  BY DEF IInv, NoDuplicateKey, LiveInstallHoldsSlot, Busy
<1>2. BatchHoldsSlot' /\ EmptyUntilLoaded'
  BY DEF IInv, BatchHoldsSlot, EmptyUntilLoaded
<1> QED
  BY <1>1, <1>2 DEF SlotsInv

\* A step that starts at most a save, and neither reads nor writes the file.
LEMMA CopiesFrame ==
  ASSUME CopiesKeyedOnce, UNCHANGED <<disk, snap>>, loaded' \in {loaded, <<>>, <<disk>>}
  PROVE  CopiesKeyedOnce'
BY DEF CopiesKeyedOnce, KeyedOnce

\* A pending or popped item has no live install.
LEMMA PendingNotAlive ==
  ASSUME IInv
  PROVE  /\ ToSet(queue) \subseteq Items /\ ToSet(batch) \subseteq Items
         /\ \A i \in ToSet(queue) : install[i] \notin Alive
<1>1. ToSet(queue) \subseteq Items /\ ToSet(batch) \subseteq Items
  BY DEF IInv, TypeOK, ToSet
<1> QED
  BY <1>1, ItemsAssumption DEF IInv, NoDuplicateKey, LiveInstallHoldsSlot

\* The queue is replaced while nothing else of the slots changes.
LEMMA QueueChanges ==
  ASSUME IInv, UNCHANGED <<boot, worker, batch, running, tasks, install>>,
         KeyedOnce(queue'), \A i \in ToSet(queue') : running[KeyOf[i]] = NoItem
  PROVE  SlotsInv'
<1>1. NoDuplicateKey'
  BY DEF IInv, NoDuplicateKey, Busy, KeyedOnce, ToSet
<1>2. LiveInstallHoldsSlot' /\ BatchHoldsSlot' /\ EmptyUntilLoaded'
  BY DEF IInv, LiveInstallHoldsSlot, BatchHoldsSlot, EmptyUntilLoaded
<1> QED
  BY <1>1, <1>2 DEF SlotsInv

-----------------------------------------------------------------------------
(* The steps of the saves, of start, stop and the end of the process.      *)

LEMMA SaveStepsKeepInv ==
  ASSUME IInv, SaveStep \/ SavesMeet
  PROVE  SlotsInv' /\ CopiesKeyedOnce'
<1>1. SlotsInv'
  BY SlotsFrame DEF SaveStep, SavesMeet, Snapshot, Publish, procVars, taskVars, workVars
<1>2. ASSUME NEW s \in Savers, Snapshot(s)
      PROVE  CopiesKeyedOnce'
  <2>1. /\ disk' = disk /\ loaded' = loaded
        /\ \A t \in Savers : snap'[t] = snap[t] \/ snap'[t] = queue
    BY <1>2 DEF Snapshot, CopyList, procVars, IInv, TypeOK
  <2> QED
    BY <2>1 DEF IInv, CopiesKeyedOnce, NoDuplicateKey, KeyedOnce
<1>3. \A q \in {<<>>} \cup Copies : KeyedOnce(q)
  BY CopiesAreLists, EmptyKeyedOnce DEF IInv, CopiesKeyedOnce
<1>4. ASSUME NEW s \in Savers, Publish(s)
      PROVE  CopiesKeyedOnce'
  <2>1. loaded' = loaded /\ \A t \in Savers : snap'[t] = snap[t] \/ snap'[t] = <<>>
    BY <1>4 DEF Publish, PublishSave, procVars, IInv, TypeOK
  <2>2. KeyedOnce(disk')
    BY <1>3, <1>4 DEF Publish, PublishSave, IInv, CopiesKeyedOnce
  <2>3. \A t \in Savers : KeyedOnce(snap'[t])
    BY <2>1, EmptyKeyedOnce DEF IInv, CopiesKeyedOnce
  <2> QED
    BY <2>1, <2>2, <2>3 DEF IInv, CopiesKeyedOnce, KeyedOnce
<1>5. ASSUME SavesMeet
      PROVE  CopiesKeyedOnce'
  <2>1. KeyedOnce(disk') /\ UNCHANGED <<loaded, snap>>
    BY <1>3, <1>5 DEF SavesMeet, Clash, procVars
  <2> QED
    BY <2>1 DEF IInv, CopiesKeyedOnce, KeyedOnce
<1> QED
  BY <1>1, <1>2, <1>4, <1>5 DEF SaveStep

LEMMA LifecycleKeepsInv ==
  ASSUME IInv, TypeOK', Lifecycle
  PROVE  SlotsInv' /\ CopiesKeyedOnce'
<1> USE DEF IInv
<1>1. CASE StartLoad
  <2>1. NoDuplicateKey' /\ LiveInstallHoldsSlot' /\ BatchHoldsSlot'
    BY <1>1 DEF StartLoad, NoDuplicateKey, LiveInstallHoldsSlot, BatchHoldsSlot, Busy,
                taskVars, workVars
  <2>2. EmptyUntilLoaded'
    BY <1>1 DEF StartLoad, EmptyUntilLoaded, taskVars, workVars
  <2>3. CopiesKeyedOnce'
    BY <1>1, CopiesFrame DEF StartLoad, fileVars, saveVars
  <2> QED
    BY <2>1, <2>2, <2>3 DEF SlotsInv
<1>2. CASE LoadRead
  BY <1>2, SlotsFrame, CopiesFrame DEF LoadRead, taskVars, workVars, fileVars, saveVars
<1>3. CASE LoadAssign
  <2>1. /\ \A k \in Keys : running[k] = NoItem
        /\ running' = running /\ KeyedOnce(queue') /\ queue' \in Seq(Items)
    BY <1>3 DEF LoadAssign, EmptyUntilLoaded, CopiesKeyedOnce, TypeOK
  <2>2. \A i \in Items : KeyOf[i] \in Keys
    BY DEF Keys
  <2>3. NoDuplicateKey'
    <3>1. \A i \in ToSet(queue') : KeyOf[i] \in Keys
      BY <2>1, <2>2 DEF ToSet
    <3> QED
      BY <2>1, <3>1 DEF NoDuplicateKey, Busy, KeyedOnce, ToSet
  <2>4. LiveInstallHoldsSlot'
    <3>1. \A i \in Items : install[i] \notin Alive
      BY <2>1, <2>2, ItemsAssumption DEF LiveInstallHoldsSlot
    <3>2. \A i \in Items : install'[i] \in {"none", install[i]}
      BY <1>3 DEF LoadAssign
    <3> QED
      BY <3>1, <3>2 DEF LiveInstallHoldsSlot, Alive, Waiting, Unwinding
  <2>5. BatchHoldsSlot'
    <3>1. ToSet(batch) = {}
      BY <2>1, <2>2, PendingNotAlive, ItemsAssumption DEF BatchHoldsSlot
    <3> QED
      BY <1>3, <3>1 DEF LoadAssign, BatchHoldsSlot, ToSet
  <2>6. EmptyUntilLoaded'
    BY <1>3 DEF LoadAssign, EmptyUntilLoaded
  <2>7. CopiesKeyedOnce'
    <3>1. disk' = disk /\ loaded' = <<>> /\ \A s \in Savers : snap'[s] \in {snap[s], queue}
      BY <1>3 DEF LoadAssign
    <3> QED
      BY <3>1 DEF CopiesKeyedOnce, NoDuplicateKey, KeyedOnce
  <2> QED
    BY <2>3, <2>4, <2>5, <2>6, <2>7 DEF SlotsInv
<1>4. CASE Stop
  <2>1. NoDuplicateKey' /\ LiveInstallHoldsSlot'
    BY <1>4 DEF Stop, NoDuplicateKey, LiveInstallHoldsSlot, Busy, taskVars
  <2>2. BatchHoldsSlot' /\ EmptyUntilLoaded'
    BY <1>4, EmptyKeyedOnce DEF Stop, BatchHoldsSlot, EmptyUntilLoaded
  <2>3. CopiesKeyedOnce'
    BY <1>4, CopiesFrame DEF Stop, Saves, BeginSave
  <2> QED
    BY <2>1, <2>2, <2>3 DEF SlotsInv
<1>5. CASE StopDone
  <2>1. NoDuplicateKey' /\ LiveInstallHoldsSlot' /\ BatchHoldsSlot'
    BY <1>5 DEF StopDone, NoDuplicateKey, LiveInstallHoldsSlot, BatchHoldsSlot, Busy,
                taskVars, workVars
  <2>2. EmptyUntilLoaded'
    BY <1>5 DEF StopDone, EmptyUntilLoaded, taskVars, workVars
  <2>3. CopiesKeyedOnce'
    BY <1>5, CopiesFrame DEF StopDone, fileVars, saveVars
  <2> QED
    BY <2>1, <2>2, <2>3 DEF SlotsInv
<1>6. CASE Exit
  <2>1. NoDuplicateKey'
    BY <1>6, EmptyKeyedOnce DEF Exit, NoDuplicateKey, Busy
  <2>2. LiveInstallHoldsSlot'
    <3>1. \A i \in Items : install'[i] \notin Alive
      BY <1>6 DEF Exit, Alive, Waiting, Unwinding
    <3> QED
      BY <3>1 DEF LiveInstallHoldsSlot
  <2>3. BatchHoldsSlot' /\ EmptyUntilLoaded'
    BY <1>6, EmptyKeyedOnce DEF Exit, BatchHoldsSlot, EmptyUntilLoaded
  <2>4. CopiesKeyedOnce'
    BY <1>6, EmptyKeyedOnce DEF Exit, EndSaves, CopiesKeyedOnce, TypeOK
  <2> QED
    BY <2>1, <2>2, <2>3, <2>4 DEF SlotsInv
<1>7. CASE StopEarly
  BY <1>7, SlotsFrame, CopiesFrame
     DEF StopEarly, Saves, BeginSave, procVars, taskVars, workVars
<1> QED
  BY <1>1, <1>2, <1>3, <1>4, <1>5, <1>6, <1>7 DEF Lifecycle

-----------------------------------------------------------------------------
(* The steps of the calls, of the worker and of the installs.              *)

LEMMA CallsKeepInv ==
  ASSUME IInv, Calls
  PROVE  SlotsInv' /\ CopiesKeyedOnce'
<1>1. queue \in Seq(Items) /\ KeyedOnce(queue) /\ \A i \in ToSet(queue) : running[KeyOf[i]] = NoItem
  BY DEF IInv, TypeOK, NoDuplicateKey
<1>2. ASSUME NEW i \in Items, Add(i)
      PROVE  SlotsInv' /\ CopiesKeyedOnce'
  <2>1. /\ queue' = Append(queue, i) /\ running[KeyOf[i]] = NoItem
        /\ \A j \in ToSet(queue) : KeyOf[j] # KeyOf[i]
        /\ UNCHANGED <<boot, worker, batch, running, tasks, install>>
    BY <1>2 DEF Add, procVars, taskVars, workVars
  <2>2. KeyedOnce(queue') /\ ToSet(queue') = ToSet(queue) \cup {i}
    BY <1>1, <2>1, AppendKeyedOnce
  <2>3. SlotsInv'
    BY <1>1, <2>1, <2>2, QueueChanges
  <2>4. CopiesKeyedOnce'
    BY <1>2, CopiesFrame DEF IInv, Add, Saves, BeginSave, procVars
  <2> QED
    BY <2>3, <2>4
<1>3. ASSUME NEW n \in DOMAIN queue, CancelQueued(n)
      PROVE  SlotsInv' /\ CopiesKeyedOnce'
  <2>1. /\ queue' = RemoveAt(queue, n)
        /\ UNCHANGED <<boot, worker, batch, running, tasks, install>>
    BY <1>3 DEF CancelQueued, procVars, taskVars, workVars
  <2>2. KeyedOnce(queue') /\ ToSet(queue') \subseteq ToSet(queue)
    BY <1>1, <2>1, RemoveAtKeyedOnce
  <2>3. SlotsInv'
    BY <1>1, <2>1, <2>2, QueueChanges
  <2>4. CopiesKeyedOnce'
    BY <1>3, CopiesFrame DEF IInv, CancelQueued, Saves, BeginSave, procVars
  <2> QED
    BY <2>3, <2>4
<1>4. ASSUME NEW k \in Keys, CancelRunning(k)
      PROVE  SlotsInv' /\ CopiesKeyedOnce'
  BY <1>4, SlotsFrame, CopiesFrame DEF IInv, CancelRunning, procVars, workVars, fileVars, saveVars
<1>5. ASSUME NEW i \in Items, CancelEmit(i)
      PROVE  SlotsInv' /\ CopiesKeyedOnce'
  BY <1>5, SlotsFrame, CopiesFrame DEF IInv, CancelEmit, procVars, taskVars, workVars, fileVars, saveVars
<1> QED
  BY <1>2, <1>3, <1>4, <1>5 DEF Calls

\* What the pop does: the front of the queue moves into the slots of its keys.
LEMMA PopMoves ==
  ASSUME IInv, Pop
  PROVE  /\ ToSet(batch') \cup ToSet(queue') = ToSet(queue)
         /\ KeyedOnce(queue')
         /\ \A i \in ToSet(batch') : running'[KeyOf[i]] = i
         /\ \A i \in ToSet(queue') : running'[KeyOf[i]] = NoItem
         /\ \A k \in Keys : running'[k] # running[k] =>
              /\ running[k] = NoItem /\ running'[k] \in ToSet(batch')
              /\ running'[k] \in Items /\ KeyOf[running'[k]] = k
<1> DEFINE c == PopCount
           top(k) == CHOOSE n \in 1..c : KeyOf[queue[n]] = k
<1>1. /\ queue \in Seq(Items) /\ KeyedOnce(queue) /\ DOMAIN queue = 1..Len(queue)
      /\ c \in 1..Len(queue) /\ Len(queue) \in Nat
      /\ \A i \in ToSet(queue) : running[KeyOf[i]] = NoItem
  BY PopCountInRange, LenProperties DEF IInv, Pop, TypeOK, NoDuplicateKey
<1>2. /\ batch' = SubSeq(queue, 1, c)
      /\ queue' = SubSeq(queue, c + 1, Len(queue))
      /\ running' = [k \in Keys |-> IF \E n \in 1..c : KeyOf[queue[n]] = k
                                    THEN queue[top(k)] ELSE running[k]]
  BY DEF Pop
<1> HIDE DEF c
<1>3. /\ ToSet(batch') = {queue[n] : n \in 1..c}
      /\ ToSet(queue') = {queue[n] : n \in (c+1)..Len(queue)} /\ KeyedOnce(queue')
  <2>1. /\ 1 \in 1..(Len(queue) + 1) /\ c \in 0..Len(queue)
        /\ c + 1 \in 1..(Len(queue) + 1) /\ Len(queue) \in 0..Len(queue)
    BY <1>1
  <2> QED
    BY <1>1, <1>2, <2>1, SubSeqKeyedOnce
<1>4. \A n \in 1..Len(queue) : /\ queue[n] \in Items /\ queue[n] \in ToSet(queue)
                               /\ KeyOf[queue[n]] \in Keys
  BY <1>1 DEF ToSet, Keys
<1>5. ASSUME NEW k \in Keys, \E n \in 1..c : KeyOf[queue[n]] = k
      PROVE  /\ top(k) \in 1..c /\ KeyOf[queue[top(k)]] = k
             /\ running'[k] = queue[top(k)]
  <2>1. top(k) \in 1..c /\ KeyOf[queue[top(k)]] = k
    BY <1>5
  <2> QED
    BY <1>2, <1>5, <2>1
<1>6. ASSUME NEW n \in 1..c
      PROVE  running'[KeyOf[queue[n]]] = queue[n]
  <2> DEFINE k == KeyOf[queue[n]]
  <2>1. k \in Keys /\ top(k) \in 1..c /\ KeyOf[queue[top(k)]] = k /\ running'[k] = queue[top(k)]
    BY <1>1, <1>4, <1>5
  <2>2. top(k) = n
    BY <1>1, <2>1 DEF KeyedOnce
  <2> QED
    BY <2>1, <2>2
<1>7. ASSUME NEW n \in (c+1)..Len(queue)
      PROVE  running'[KeyOf[queue[n]]] = NoItem
  <2>1. KeyOf[queue[n]] \in Keys /\ running[KeyOf[queue[n]]] = NoItem
    BY <1>1, <1>4
  <2>2. ~ \E m \in 1..c : KeyOf[queue[m]] = KeyOf[queue[n]]
    BY <1>1 DEF KeyedOnce
  <2> QED
    BY <1>2, <2>1, <2>2
<1>8. ASSUME NEW k \in Keys, running'[k] # running[k]
      PROVE  /\ running[k] = NoItem /\ running'[k] \in ToSet(batch')
             /\ running'[k] \in Items /\ KeyOf[running'[k]] = k
  <2>1. \E n \in 1..c : KeyOf[queue[n]] = k
    BY <1>2, <1>8
  <2>2. /\ top(k) \in 1..Len(queue) /\ KeyOf[queue[top(k)]] = k
        /\ running'[k] = queue[top(k)] /\ queue[top(k)] \in ToSet(batch')
    BY <1>1, <1>3, <1>5, <2>1
  <2> HIDE DEF top
  <2> QED
    BY <1>1, <1>4, <2>2
<1>9. ToSet(batch') \cup ToSet(queue') = ToSet(queue)
  <2>1. 1..Len(queue) = (1..c) \cup ((c+1)..Len(queue))
    BY <1>1
  <2>2. ToSet(queue) = {queue[n] : n \in 1..Len(queue)}
    BY <1>1 DEF ToSet
  <2> QED
    BY <1>3, <2>1, <2>2
<1> QED
  BY <1>3, <1>6, <1>7, <1>8, <1>9

LEMMA PopKeepsInv ==
  ASSUME IInv, Pop
  PROVE  SlotsInv' /\ CopiesKeyedOnce'
<1>1. UNCHANGED <<boot, loaded, tasks, install, disk, snap>> /\ worker' = "saving" /\ worker = "poll"
  BY DEF Pop, Saves, BeginSave, procVars
<1>2. NoDuplicateKey'
  BY PopMoves DEF IInv, NoDuplicateKey, Busy
<1>3. LiveInstallHoldsSlot'
  <2> SUFFICES ASSUME NEW i \in Items, install[i] \in Alive
               PROVE  running'[KeyOf[i]] = i /\ tasks[KeyOf[i]] = i
    BY <1>1 DEF LiveInstallHoldsSlot
  <2>1. running[KeyOf[i]] = i /\ tasks[KeyOf[i]] = i /\ KeyOf[i] \in Keys /\ i # NoItem
    BY ItemsAssumption DEF IInv, LiveInstallHoldsSlot, Keys
  <2> QED
    BY <2>1, PopMoves
<1>4. BatchHoldsSlot'
  BY <1>1, PopMoves, PendingNotAlive DEF BatchHoldsSlot
<1>5. EmptyUntilLoaded'
  BY <1>1 DEF IInv, EmptyUntilLoaded
<1>6. CopiesKeyedOnce'
  BY <1>1, CopiesFrame DEF IInv
<1> QED
  BY <1>2, <1>3, <1>4, <1>5, <1>6 DEF SlotsInv

LEMMA SpawnKeepsInv ==
  ASSUME IInv, Spawn
  PROVE  SlotsInv' /\ CopiesKeyedOnce'
<1>1. /\ UNCHANGED <<boot, loaded, queue, running, disk, snap>>
      /\ worker' = "poll" /\ worker = "saving" /\ batch' = <<>>
  BY DEF Spawn, procVars, fileVars, saveVars
<1>2. NoDuplicateKey'
  BY <1>1 DEF IInv, NoDuplicateKey, Busy
<1>3. LiveInstallHoldsSlot'
  <2> SUFFICES ASSUME NEW i \in Items, install'[i] \in Alive
               PROVE  running[KeyOf[i]] = i /\ tasks'[KeyOf[i]] = i
    BY <1>1 DEF LiveInstallHoldsSlot
  <2>1. KeyOf[i] \in Keys
    BY DEF Keys
  <2>2. \A j \in ToSet(batch) : running[KeyOf[j]] = j
    BY DEF IInv, BatchHoldsSlot
  <2>3. running[KeyOf[i]] = i
    BY <2>2 DEF Spawn, IInv, LiveInstallHoldsSlot
  <2>4. \A j \in ToSet(batch) : KeyOf[j] = KeyOf[i] => j = i
    BY <2>2, <2>3
  <2>5. CASE i \in ToSet(batch)
    <3>1. (CHOOSE j \in ToSet(batch) : KeyOf[j] = KeyOf[i]) = i
      BY <2>4, <2>5
    <3> QED
      BY <2>1, <2>3, <2>5, <3>1 DEF Spawn
  <2>6. CASE i \notin ToSet(batch)
    <3>1. install[i] \in Alive /\ tasks[KeyOf[i]] = i
      BY <2>6 DEF Spawn, IInv, LiveInstallHoldsSlot
    <3> QED
      BY <2>1, <2>3, <2>4, <2>6, <3>1 DEF Spawn
  <2> QED
    BY <2>5, <2>6
<1>4. BatchHoldsSlot' /\ EmptyUntilLoaded'
  BY <1>1, EmptyKeyedOnce DEF IInv, BatchHoldsSlot, EmptyUntilLoaded
<1>5. CopiesKeyedOnce'
  BY <1>1, CopiesFrame DEF IInv
<1> QED
  BY <1>2, <1>3, <1>4, <1>5 DEF SlotsInv

\* An install that goes on keeps its slot; nothing else changes hands.
LEMMA MovesKeepInv ==
  ASSUME IInv, NEW i \in Items, install[i] \in Alive, NEW t \in InstallStates, NEW st, NEW e,
         Moves(i, t, st, e)
  PROVE  SlotsInv' /\ CopiesKeyedOnce'
<1>1. /\ UNCHANGED <<boot, loaded, worker, batch, queue, running, tasks, disk, snap>>
      /\ \A j \in Items : j # i => install'[j] = install[j]
  BY DEF Moves, procVars, workVars, fileVars, saveVars, IInv, TypeOK
<1>2. NoDuplicateKey' /\ EmptyUntilLoaded'
  BY <1>1 DEF IInv, NoDuplicateKey, Busy, EmptyUntilLoaded
<1>3. LiveInstallHoldsSlot'
  BY <1>1 DEF IInv, LiveInstallHoldsSlot
<1>4. BatchHoldsSlot'
  BY <1>1, PendingNotAlive DEF IInv, BatchHoldsSlot
<1>5. CopiesKeyedOnce'
  BY <1>1, CopiesFrame DEF IInv
<1> QED
  BY <1>2, <1>3, <1>4, <1>5 DEF SlotsInv

\* An install that ends frees its own slot and no other.
LEMMA FinishKeepsInv ==
  ASSUME IInv, NEW i \in Items, Finish(i)
  PROVE  SlotsInv' /\ CopiesKeyedOnce'
<1>1. /\ UNCHANGED <<boot, loaded, worker, batch, queue, disk, snap>>
      /\ install[i] \in Alive /\ install'[i] = "done"
      /\ \A j \in Items : j # i => install'[j] = install[j]
  BY DEF Finish, procVars, workVars, fileVars, saveVars, IInv, TypeOK, Alive, Waiting, Unwinding
<1>2. /\ running[KeyOf[i]] = i /\ KeyOf[i] \in Keys
      /\ \A k \in Keys : running'[k] = IF k = KeyOf[i] THEN NoItem ELSE running[k]
      /\ \A k \in Keys : tasks'[k] = IF k = KeyOf[i] THEN NoItem ELSE tasks[k]
  BY <1>1 DEF Finish, Cleanup, IInv, TypeOK, LiveInstallHoldsSlot, Keys
<1>3. \A j \in Items : KeyOf[j] \in Keys /\ j # NoItem
  BY ItemsAssumption DEF Keys
<1>4. NoDuplicateKey'
  BY <1>1, <1>2, <1>3, PendingNotAlive DEF IInv, NoDuplicateKey, Busy, ToSet
<1>5. LiveInstallHoldsSlot'
  <2> SUFFICES ASSUME NEW j \in Items, install'[j] \in Alive
               PROVE  running'[KeyOf[j]] = j /\ tasks'[KeyOf[j]] = j
    BY DEF LiveInstallHoldsSlot
  <2>1. j # i
    BY <1>1 DEF Alive, Waiting, Unwinding
  <2>2. running[KeyOf[j]] = j /\ tasks[KeyOf[j]] = j
    BY <1>1, <2>1 DEF IInv, LiveInstallHoldsSlot
  <2> QED
    BY <1>2, <1>3, <2>1, <2>2
<1>6. BatchHoldsSlot'
  <2> SUFFICES ASSUME NEW j \in ToSet(batch)
               PROVE  running'[KeyOf[j]] = j /\ install'[j] \notin Alive
    BY <1>1 DEF BatchHoldsSlot
  <2>1. j \in Items /\ running[KeyOf[j]] = j /\ install[j] \notin Alive
    BY PendingNotAlive DEF IInv, BatchHoldsSlot
  <2> QED
    BY <1>1, <1>2, <1>3, <2>1
<1>7. EmptyUntilLoaded'
  BY <1>1, <1>2 DEF IInv, EmptyUntilLoaded
<1>8. CopiesKeyedOnce'
  BY <1>1, CopiesFrame DEF IInv
<1> QED
  BY <1>4, <1>5, <1>6, <1>7, <1>8 DEF SlotsInv

LEMMA NeverEnteredKeepsInv ==
  ASSUME IInv, NEW i \in Items, NeverEntered(i)
  PROVE  SlotsInv' /\ CopiesKeyedOnce'
<1>1. /\ UNCHANGED <<boot, loaded, worker, batch, queue, running, tasks, disk, snap>>
      /\ install'[i] = "done" /\ \A j \in Items : j # i => install'[j] = install[j]
  BY DEF NeverEntered, procVars, workVars, fileVars, saveVars, IInv, TypeOK
<1>2. NoDuplicateKey' /\ EmptyUntilLoaded'
  BY <1>1 DEF IInv, NoDuplicateKey, Busy, EmptyUntilLoaded
<1>3. LiveInstallHoldsSlot' /\ BatchHoldsSlot'
  BY <1>1, PendingNotAlive
     DEF IInv, LiveInstallHoldsSlot, BatchHoldsSlot, Alive, Waiting, Unwinding
<1>4. CopiesKeyedOnce'
  BY <1>1, CopiesFrame DEF IInv
<1> QED
  BY <1>2, <1>3, <1>4 DEF SlotsInv

LEMMA InstallStepsKeepInv ==
  ASSUME IInv, NEW i \in Items, InstallStep(i)
  PROVE  SlotsInv' /\ CopiesKeyedOnce'
<1> USE DEF InstallStates, Alive, Waiting, Unwinding
<1>1. CASE Reject(i)
  BY <1>1, MovesKeepInv DEF Reject, Resumes
<1>2. CASE Begin(i)
  BY <1>2, MovesKeepInv DEF Begin, Resumes
<1>3. CASE Installed(i)
  BY <1>3, MovesKeepInv DEF Installed, Resumes
<1>4. CASE WarmedUp(i)
  BY <1>4, MovesKeepInv DEF WarmedUp, Resumes
<1>5. CASE Complete(i)
  BY <1>5, MovesKeepInv DEF Complete, Resumes
<1>6. CASE InstallFailed(i)
  BY <1>6, MovesKeepInv DEF InstallFailed, Resumes
<1>7. CASE Raised(i)
  BY <1>7, MovesKeepInv DEF Raised, Resumes
<1>8. CASE Cancelled(i)
  BY <1>8, MovesKeepInv DEF Cancelled
<1>9. CASE Finish(i)
  BY <1>9, FinishKeepsInv
<1>10. CASE NeverEntered(i)
  BY <1>10, NeverEnteredKeepsInv
<1> QED
  BY <1>1, <1>2, <1>3, <1>4, <1>5, <1>6, <1>7, <1>8, <1>9, <1>10 DEF InstallStep

LEMMA InvStep == IInv /\ [Next]_vars => IInv'
<1> SUFFICES ASSUME IInv, [Next]_vars
             PROVE  IInv'
  OBVIOUS
<1>1. TypeOK'
  BY TypeStep DEF IInv
<1>2. SlotsInv' /\ CopiesKeyedOnce'
  <2>1. CASE SaveStep \/ SavesMeet
    BY <2>1, SaveStepsKeepInv
  <2>2. CASE Lifecycle
    BY <1>1, <2>2, LifecycleKeepsInv
  <2>3. CASE Calls
    BY <2>3, CallsKeepInv
  <2>4. CASE Pop
    BY <2>4, PopKeepsInv
  <2>5. CASE Spawn
    BY <2>5, SpawnKeepsInv
  <2>6. CASE \E i \in Items : InstallStep(i)
    BY <2>6, InstallStepsKeepInv
  <2>7. CASE UNCHANGED vars
    BY <2>7, SlotsFrame, CopiesFrame DEF IInv, vars, procVars, taskVars, workVars, fileVars, saveVars
  <2> QED
    BY <2>1, <2>2, <2>3, <2>4, <2>5, <2>6, <2>7 DEF Next
<1> QED
  BY <1>1, <1>2 DEF IInv, SlotsInv

THEOREM InvHolds == Spec => []IInv
BY InvInit, InvStep, PTL DEF Spec

\* No two installs of one game: a key is pending or running, never both and
\* never twice, for any number of items, slots, saves in flight and restarts,
\* whether or not calls arrive while the queue is loaded.
THEOREM NoDuplicates == Spec => []NoDuplicateKey
<1>1. IInv => NoDuplicateKey
  BY DEF IInv
<1> QED
  BY <1>1, InvHolds, PTL

\* Every live install holds its own slot and its own task: cancel always finds
\* it, and the cleanup of one install never frees the slot of another.
THEOREM InstallsHoldSlots == Spec => []LiveInstallHoldsSlot
<1>1. IInv => LiveInstallHoldsSlot
  BY DEF IInv
<1> QED
  BY <1>1, InvHolds, PTL

-----------------------------------------------------------------------------
(* The cap on concurrent installs.                                         *)

\* Only the pop fills a slot.
LEMMA OnlyPopFillsSlots ==
  ASSUME IInv, [Next]_vars, ~Pop
  PROVE  Busy' \subseteq Busy
<1> SUFFICES \A k \in Keys : running'[k] \in {running[k], NoItem}
  BY DEF Busy
<1> USE DEF procVars, taskVars, workVars, fileVars, saveVars
<1>1. CASE SaveStep \/ SavesMeet
  BY <1>1 DEF SaveStep, SavesMeet, Snapshot, Publish
<1>2. CASE Lifecycle
  BY <1>2 DEF Lifecycle, StartLoad, LoadRead, LoadAssign, StopEarly, Stop, StopDone, Exit
<1>3. CASE Calls
  BY <1>3 DEF Calls, Add, CancelEmit, CancelRunning, CancelQueued
<1>4. CASE Spawn
  BY <1>4 DEF Spawn
<1>5. ASSUME NEW i \in Items, InstallStep(i)
      PROVE  \A k \in Keys : running'[k] \in {running[k], NoItem}
  <2>1. CASE Finish(i)
    BY <2>1 DEF Finish, Cleanup, IInv, TypeOK
  <2>2. CASE ~Finish(i)
    BY <1>5, <2>2 DEF InstallStep, Reject, Begin, Installed, WarmedUp, Complete, InstallFailed,
                      Raised, Cancelled, NeverEntered, Moves
  <2> QED
    BY <2>1, <2>2
<1>6. CASE UNCHANGED vars
  BY <1>6 DEF vars
<1> QED
  BY <1>1, <1>2, <1>3, <1>4, <1>5, <1>6 DEF Next

\* The pop fills no more slots than are free.
LEMMA PopRespectsCap ==
  ASSUME IInv, Pop
  PROVE  Cardinality(Busy') <= MaxConcurrent
<1> DEFINE c == PopCount
           filled == {KeyOf[queue[n]] : n \in 1..c}
           key == [n \in 1..c |-> KeyOf[queue[n]]]
<1>1. /\ c \in 1..Len(queue) /\ Len(queue) \in Nat
      /\ c <= MaxConcurrent - Cardinality(Busy)
  BY PopCountInRange, BusyIsFinite, LenProperties, BoundsAssumption
     DEF IInv, TypeOK, Pop, PopCount
<1>2. Busy' \subseteq Busy \cup filled
  BY DEF Pop, Busy
<1> HIDE DEF c
<1>3. IsFiniteSet(filled) /\ Cardinality(filled) \in Nat /\ Cardinality(filled) <= c
  <2>1. key \in Surjection(1..c, filled)
    BY DEF Surjection
  <2>2. c \in Nat /\ IsFiniteSet(1..c) /\ Cardinality(1..c) = c
    BY <1>1, FS_Interval
  <2>3. IsFiniteSet(filled) /\ Cardinality(filled) <= Cardinality(1..c)
    BY <2>1, <2>2, FS_Surjection
  <2> QED
    BY <2>2, <2>3, FS_CardinalityType
<1> HIDE DEF filled
<1>4. /\ IsFiniteSet(Busy \cup filled)
      /\ Cardinality(Busy \cup filled) =
           Cardinality(Busy) + Cardinality(filled) - Cardinality(Busy \cap filled)
  BY <1>3, BusyIsFinite, FS_Union
<1>5. Cardinality(Busy \cap filled) \in Nat
  BY BusyIsFinite, FS_Intersection, FS_CardinalityType
<1>6. IsFiniteSet(Busy') /\ Cardinality(Busy') <= Cardinality(Busy \cup filled)
  BY <1>2, <1>4, FS_Subset
<1>7. Cardinality(Busy') \in Nat
  BY <1>6, FS_CardinalityType
<1> QED
  BY <1>1, <1>3, <1>4, <1>5, <1>6, <1>7, BusyIsFinite, BoundsAssumption

SlotsCapped == Cardinality(Busy) <= MaxConcurrent

LEMMA SlotsStayCapped == IInv /\ SlotsCapped /\ [Next]_vars => SlotsCapped'
<1> SUFFICES ASSUME IInv, SlotsCapped, [Next]_vars
             PROVE  SlotsCapped'
  OBVIOUS
<1>1. CASE Pop
  BY <1>1, PopRespectsCap DEF SlotsCapped
<1>2. CASE ~Pop
  <2>1. Cardinality(Busy') \in Nat /\ Cardinality(Busy') <= Cardinality(Busy)
    BY <1>2, OnlyPopFillsSlots, BusyIsFinite, FS_Subset, FS_CardinalityType
  <2> QED
    BY <2>1, BusyIsFinite, BoundsAssumption DEF SlotsCapped
<1> QED
  BY <1>1, <1>2

\* Each live install has a slot of its own, so the slots bound the installs.
LEMMA InstallsFitSlots ==
  ASSUME IInv, SlotsCapped
  PROVE  ConcurrencyCap
<1> DEFINE live == {i \in Items : install[i] \in Alive}
           slot == [i \in live |-> KeyOf[i]]
<1>1. slot \in Injection(live, Busy)
  <2>1. \A i \in live : KeyOf[i] \in Busy /\ running[KeyOf[i]] = i
    BY ItemsAssumption DEF IInv, LiveInstallHoldsSlot, Busy, Keys
  <2> QED
    BY <2>1 DEF Injection, IsInjective
<1>2. Cardinality(live) \in Nat /\ Cardinality(live) <= Cardinality(Busy)
  BY <1>1, BusyIsFinite, FS_Injection, FS_CardinalityType
<1> QED
  BY <1>2, BusyIsFinite, BoundsAssumption DEF ConcurrencyCap, SlotsCapped

\* The installs at work never exceed max_concurrent, although slots are filled
\* by the worker, freed by the installs and kept by neither in common.
THEOREM CapRespected == Spec => []ConcurrencyCap
<1>1. Init => SlotsCapped
  <2> SUFFICES ASSUME Init
               PROVE  Busy = {}
    BY FS_EmptySet, BoundsAssumption DEF SlotsCapped
  <2> QED
    BY DEF Init, Busy
<1> QED
  BY <1>1, InvHolds, SlotsStayCapped, InstallsFitSlots, PTL DEF Spec

-----------------------------------------------------------------------------
(* What has become of each item: StageInv says which items nothing has     *)
(* happened to yet, and with them where every occupied slot comes from.    *)

\* Pending and popped items are as they were accepted.
PendingUntouched ==
  \A i \in ToSet(queue) \cup ToSet(batch) : install[i] = "none" /\ status[i] = "queued"

\* Nor has anything happened to an item before it is added, or by the spawn.
UntouchedUntilEntered ==
  \A i \in Items : /\ status[i] = "new" => install[i] = "none"
                   /\ install[i] = "created" => status[i] = "queued"

\* The worker has popped items only while it saves.
BatchWaits == worker # "saving" => batch = <<>>

StageInv == BatchWaits /\ PendingUntouched /\ UntouchedUntilEntered /\ SlotAccounted

\* A step that moves no item and keeps its boot, or finds every slot free.
LEMMA StageFrame ==
  ASSUME StageInv, UNCHANGED <<queue, worker, batch, install, status, running>>,
         boot \in {"stopping", "stopped"} => boot' \in {"stopping", "stopped"} \/ Busy = {}
  PROVE  StageInv'
<1>1. BatchWaits' /\ PendingUntouched' /\ UntouchedUntilEntered'
  BY DEF StageInv, BatchWaits, PendingUntouched, UntouchedUntilEntered
<1>2. SlotAccounted'
  BY DEF StageInv, SlotAccounted, Busy, Leaked
<1> QED
  BY <1>1, <1>2 DEF StageInv

\* The item of an occupied slot is an item, and the slot is that of its key.
LEMMA SlotsHoldItems ==
  ASSUME IInv
  PROVE  /\ \A k \in Busy : running[k] \in Items /\ KeyOf[running[k]] = k
         /\ \A i \in Items : KeyOf[i] \in Keys /\ i # NoItem
BY ItemsAssumption DEF IInv, TypeOK, NoDuplicateKey, Busy, Keys

LEMMA LifecycleKeepsStage ==
  ASSUME IInv, StageInv, Lifecycle
  PROVE  StageInv'
<1>1. CASE StartLoad
  BY <1>1, StageFrame DEF StartLoad, taskVars, workVars
<1>2. CASE LoadRead
  BY <1>2, StageFrame DEF LoadRead, taskVars, workVars
<1>3. CASE LoadAssign
  <2>1. /\ queue' = loaded[1] /\ batch' = batch /\ running' = running /\ Busy = {}
        /\ \A i \in Items : install'[i] = IF i \in ToSet(queue') THEN "none" ELSE install[i]
        /\ \A i \in Items : status'[i] = IF i \in ToSet(queue') THEN "queued" ELSE status[i]
    BY <1>3 DEF LoadAssign, IInv, EmptyUntilLoaded, Busy
  <2>2. ToSet(queue') \subseteq Items /\ ToSet(batch) = {}
    BY <1>3, <2>1, SlotsHoldItems, PendingNotAlive
       DEF LoadAssign, IInv, TypeOK, ToSet, BatchHoldsSlot, Busy
  <2>3. PendingUntouched' /\ BatchWaits'
    BY <1>3, <2>1, <2>2 DEF LoadAssign, PendingUntouched, BatchWaits, StageInv, IInv, EmptyUntilLoaded
  <2>4. UntouchedUntilEntered'
    BY <2>1 DEF StageInv, UntouchedUntilEntered
  <2>5. SlotAccounted'
    BY <2>1 DEF SlotAccounted, Busy
  <2> QED
    BY <2>3, <2>4, <2>5 DEF StageInv
<1>4. CASE Stop
  <2>1. /\ UNCHANGED <<queue, install, status, running>>
        /\ boot' = "stopping" /\ ToSet(batch') = {} /\ boot = "up"
    BY <1>4, EmptyKeyedOnce DEF Stop, taskVars
  <2>2. BatchWaits' /\ PendingUntouched' /\ UntouchedUntilEntered'
    BY <1>4, <2>1 DEF Stop, StageInv, BatchWaits, PendingUntouched, UntouchedUntilEntered
  <2>3. SlotAccounted'
    BY <2>1 DEF StageInv, SlotAccounted, PendingUntouched, Busy, Leaked
  <2> QED
    BY <2>2, <2>3 DEF StageInv
<1>5. CASE StopDone
  BY <1>5, StageFrame DEF StopDone, taskVars, workVars
<1>6. CASE Exit
  <2>1. /\ ToSet(queue') = {} /\ ToSet(batch') = {} /\ Busy' = {} /\ status' = status
        /\ \A i \in Items : install'[i] = IF install[i] \in Alive THEN "killed" ELSE install[i]
    BY <1>6, EmptyKeyedOnce DEF Exit, Busy
  <2>2. BatchWaits' /\ PendingUntouched' /\ SlotAccounted'
    BY <1>6, <2>1 DEF Exit, BatchWaits, PendingUntouched, SlotAccounted
  <2>3. UntouchedUntilEntered'
    BY <2>1 DEF StageInv, UntouchedUntilEntered, Alive, Waiting, Unwinding
  <2> QED
    BY <2>2, <2>3 DEF StageInv
<1>7. CASE StopEarly
  BY <1>7, StageFrame DEF StopEarly, procVars, taskVars, workVars
<1> QED
  BY <1>1, <1>2, <1>3, <1>4, <1>5, <1>6, <1>7 DEF Lifecycle

\* An item that is added or cancelled holds no slot.
LEMMA CallsKeepStage ==
  ASSUME IInv, StageInv, Calls
  PROVE  StageInv'
<1>1. /\ queue \in Seq(Items) /\ KeyedOnce(queue) /\ ToSet(batch) \subseteq Items
      /\ \A i \in ToSet(queue) : running[KeyOf[i]] = NoItem
      /\ \A i \in ToSet(batch) : running[KeyOf[i]] = i
  BY PendingNotAlive DEF IInv, TypeOK, NoDuplicateKey, BatchHoldsSlot
<1>2. ASSUME NEW i \in Items, Add(i)
      PROVE  StageInv'
  <2>1. /\ UNCHANGED <<boot, worker, batch, running, install>> /\ running[KeyOf[i]] = NoItem
        /\ status[i] = "new" /\ queue' = Append(queue, i)
        /\ \A j \in ToSet(queue) : KeyOf[j] # KeyOf[i]
        /\ \A j \in Items : status'[j] = IF j = i THEN "queued" ELSE status[j]
    BY <1>2 DEF Add, procVars, taskVars, workVars, IInv, TypeOK
  <2>2. ToSet(queue') = ToSet(queue) \cup {i}
    BY <1>1, <2>1, AppendKeyedOnce
  <2>3. ToSet(queue) \subseteq Items
    BY PendingNotAlive
  <2>4. BatchWaits' /\ PendingUntouched' /\ UntouchedUntilEntered'
    BY <1>1, <2>1, <2>2, <2>3 DEF StageInv, BatchWaits, PendingUntouched, UntouchedUntilEntered
  <2>5. SlotAccounted'
    BY <2>1, SlotsHoldItems DEF StageInv, SlotAccounted, Busy, Leaked
  <2> QED
    BY <2>4, <2>5 DEF StageInv
<1>3. ASSUME NEW n \in DOMAIN queue, CancelQueued(n)
      PROVE  StageInv'
  <2>1. queue[n] \in ToSet(queue) /\ queue[n] \in Items /\ running[KeyOf[queue[n]]] = NoItem
    BY <1>1 DEF ToSet
  <2>2. /\ UNCHANGED <<boot, worker, batch, running, install>> /\ queue' = RemoveAt(queue, n)
        /\ \A j \in Items : status'[j] = IF j = queue[n] THEN "cancelled" ELSE status[j]
    BY <1>3, <2>1 DEF CancelQueued, procVars, taskVars, workVars, IInv, TypeOK
  <2>3. ToSet(queue') \subseteq ToSet(queue) \ {queue[n]}
    BY <1>1, <2>2, RemoveAtKeyedOnce
  <2>4. ToSet(queue) \subseteq Items /\ queue[n] \notin ToSet(batch) /\ install[queue[n]] = "none"
    BY <1>1, <2>1, PendingNotAlive, SlotsHoldItems DEF StageInv, PendingUntouched
  <2>5. BatchWaits' /\ PendingUntouched' /\ UntouchedUntilEntered'
    BY <1>1, <2>2, <2>3, <2>4 DEF StageInv, BatchWaits, PendingUntouched, UntouchedUntilEntered
  <2>6. SlotAccounted'
    BY <2>1, <2>2, SlotsHoldItems DEF StageInv, SlotAccounted, Busy, Leaked
  <2> QED
    BY <2>5, <2>6 DEF StageInv
<1>4. ASSUME NEW k \in Keys, CancelRunning(k)
      PROVE  StageInv'
  BY <1>4, StageFrame DEF CancelRunning, procVars, workVars
<1>5. ASSUME NEW i \in Items, CancelEmit(i)
      PROVE  StageInv'
  BY <1>5, StageFrame DEF CancelEmit, procVars, taskVars, workVars
<1> QED
  BY <1>2, <1>3, <1>4, <1>5 DEF Calls

\* The pop fills slots with items of the batch, the spawn makes their installs
\* live: the slots stay accounted for.
LEMMA WorkerKeepsStage ==
  ASSUME IInv, StageInv, Pop \/ Spawn
  PROVE  StageInv'
<1>1. CASE Pop
  <2>1. /\ UNCHANGED <<boot, install, status>> /\ worker' = "saving"
        /\ ToSet(batch') \cup ToSet(queue') = ToSet(queue)
    BY <1>1, PopMoves DEF Pop, procVars
  <2>2. BatchWaits' /\ PendingUntouched' /\ UntouchedUntilEntered'
    BY <2>1 DEF StageInv, BatchWaits, PendingUntouched, UntouchedUntilEntered
  <2>3. boot = "up" /\ ToSet(batch) = {}
    BY <1>1, EmptyKeyedOnce DEF Pop, IInv, EmptyUntilLoaded, StageInv, BatchWaits
  <2>4. SlotAccounted'
    <3> SUFFICES ASSUME NEW k \in Keys, running'[k] # NoItem, running'[k] \notin ToSet(batch')
                 PROVE  \/ install[running'[k]] \in Alive
                        \/ /\ install[running'[k]] = "done" /\ status[running'[k]] = "queued"
                           /\ running'[KeyOf[running'[k]]] = running'[k]
      BY <2>1 DEF SlotAccounted, Busy, Leaked
    <3>1. running'[k] = running[k]
      BY <1>1, PopMoves
    <3>2. k \in Busy /\ KeyOf[running[k]] = k
      BY <3>1, SlotsHoldItems DEF Busy
    <3>3. install[running[k]] \in Alive \/ Leaked(running[k])
      BY <2>3, <3>2 DEF StageInv, SlotAccounted
    <3> QED
      BY <3>1, <3>2, <3>3 DEF Leaked
  <2> QED
    BY <2>2, <2>4 DEF StageInv
<1>2. CASE Spawn
  <2>1. /\ UNCHANGED <<boot, queue, status, running>> /\ batch' = <<>> /\ ToSet(batch') = {}
        /\ \A i \in Items : install'[i] = IF i \in ToSet(batch) THEN "created" ELSE install[i]
    BY <1>2, EmptyKeyedOnce DEF Spawn, procVars
  <2>2. \A i \in ToSet(queue) : i \in Items /\ i \notin ToSet(batch)
    BY PendingNotAlive, SlotsHoldItems DEF IInv, NoDuplicateKey, BatchHoldsSlot
  <2>3. BatchWaits' /\ PendingUntouched'
    BY <2>1, <2>2 DEF StageInv, BatchWaits, PendingUntouched
  <2>4. UntouchedUntilEntered'
    BY <2>1 DEF StageInv, PendingUntouched, UntouchedUntilEntered
  <2>5. SlotAccounted'
    BY <2>1, SlotsHoldItems DEF StageInv, SlotAccounted, Busy, Leaked, Alive
  <2> QED
    BY <2>3, <2>4, <2>5 DEF StageInv
<1> QED
  BY <1>1, <1>2

\* What a step of an install changes: the install that goes on stays live.
LEMMA MovesKeepStage ==
  ASSUME IInv, StageInv, NEW i \in Items, install[i] \in Alive,
         NEW t \in Alive \ {"created"}, NEW st \in Statuses \ {"new"}, NEW e, Moves(i, t, st, e)
  PROVE  StageInv'
<1>1. /\ UNCHANGED <<boot, worker, batch, queue, running>>
      /\ \A j \in Items : /\ install'[j] = IF j = i THEN t ELSE install[j]
                          /\ status'[j] = IF j = i THEN st ELSE status[j]
  BY DEF Moves, procVars, workVars, IInv, TypeOK
<1>2. i \notin ToSet(queue) \cup ToSet(batch)
  BY DEF StageInv, PendingUntouched, Alive, Waiting, Unwinding
<1>3. ToSet(queue) \cup ToSet(batch) \subseteq Items
  BY PendingNotAlive
<1>4. BatchWaits' /\ PendingUntouched'
  BY <1>1, <1>2, <1>3 DEF StageInv, BatchWaits, PendingUntouched
<1>5. UntouchedUntilEntered'
  BY <1>1 DEF StageInv, UntouchedUntilEntered
<1>6. SlotAccounted'
  BY <1>1, SlotsHoldItems DEF StageInv, SlotAccounted, Busy, Leaked
<1> QED
  BY <1>4, <1>5, <1>6 DEF StageInv

\* An install that ends in its coroutine gives its slot back; one that never
\* entered it leaves the slot to an item that is still marked as queued.
LEMMA EndsKeepStage ==
  ASSUME IInv, StageInv, NEW i \in Items, Finish(i) \/ NeverEntered(i)
  PROVE  StageInv'
<1>1. /\ UNCHANGED <<boot, worker, batch, queue, status>> /\ install[i] \in Alive
      /\ \A j \in Items : install'[j] = IF j = i THEN "done" ELSE install[j]
  BY DEF Finish, NeverEntered, procVars, workVars, IInv, TypeOK, Alive, Waiting, Unwinding
<1>2. i \notin ToSet(queue) \cup ToSet(batch)
  BY <1>1 DEF StageInv, PendingUntouched, Alive, Waiting, Unwinding
<1>3. ToSet(queue) \cup ToSet(batch) \subseteq Items
  BY PendingNotAlive
<1>4. BatchWaits' /\ PendingUntouched'
  BY <1>1, <1>2, <1>3 DEF StageInv, BatchWaits, PendingUntouched
<1>5. UntouchedUntilEntered'
  BY <1>1 DEF StageInv, UntouchedUntilEntered, Alive, Waiting, Unwinding
<1>6. CASE Finish(i)
  <2>1. \A k \in Keys : running'[k] = IF k = KeyOf[i] THEN NoItem ELSE running[k]
    BY <1>6 DEF Finish, Cleanup, IInv, TypeOK
  <2>2. SlotAccounted'
    BY <1>1, <2>1, SlotsHoldItems DEF StageInv, SlotAccounted, Busy, Leaked
  <2> QED
    BY <1>4, <1>5, <2>2 DEF StageInv
<1>7. CASE NeverEntered(i)
  <2>1. running' = running /\ install[i] = "created" /\ status[i] = "queued"
    BY <1>7 DEF NeverEntered, StageInv, UntouchedUntilEntered
  <2>2. SlotAccounted'
    BY <1>1, <2>1, SlotsHoldItems DEF StageInv, SlotAccounted, Busy, Leaked
  <2> QED
    BY <1>4, <1>5, <2>2 DEF StageInv
<1> QED
  BY <1>6, <1>7

LEMMA InstallStepsKeepStage ==
  ASSUME IInv, StageInv, NEW i \in Items, InstallStep(i)
  PROVE  StageInv'
<1> USE DEF Alive, Waiting, Unwinding, Statuses
<1>1. install[i] # "new" /\ (install[i] \in Alive => status[i] \in Statuses \ {"new"})
  BY DEF IInv, TypeOK, StageInv, UntouchedUntilEntered, InstallStates
<1>2. CASE Reject(i)
  BY <1>1, <1>2, MovesKeepStage DEF Reject, Resumes
<1>3. CASE Begin(i)
  BY <1>3, MovesKeepStage DEF Begin, Resumes
<1>4. CASE Installed(i)
  BY <1>1, <1>4, MovesKeepStage DEF Installed, Resumes
<1>5. CASE WarmedUp(i)
  BY <1>5, MovesKeepStage DEF WarmedUp, Resumes
<1>6. CASE Complete(i)
  BY <1>1, <1>6, MovesKeepStage DEF Complete, Resumes
<1>7. CASE InstallFailed(i)
  BY <1>7, MovesKeepStage DEF InstallFailed, Resumes
<1>8. CASE Raised(i)
  BY <1>8, MovesKeepStage DEF Raised, Resumes
<1>9. CASE Cancelled(i)
  BY <1>9, MovesKeepStage DEF Cancelled
<1>10. CASE Finish(i) \/ NeverEntered(i)
  BY <1>10, EndsKeepStage
<1> QED
  BY <1>2, <1>3, <1>4, <1>5, <1>6, <1>7, <1>8, <1>9, <1>10 DEF InstallStep

LEMMA StageStep == IInv /\ StageInv /\ [Next]_vars => StageInv'
<1> SUFFICES ASSUME IInv, StageInv, [Next]_vars
             PROVE  StageInv'
  OBVIOUS
<1>1. CASE SaveStep \/ SavesMeet
  BY <1>1, StageFrame DEF SaveStep, SavesMeet, Snapshot, Publish, procVars, taskVars, workVars
<1>2. CASE Lifecycle
  BY <1>2, LifecycleKeepsStage
<1>3. CASE Calls
  BY <1>3, CallsKeepStage
<1>4. CASE Pop \/ Spawn
  BY <1>4, WorkerKeepsStage
<1>5. CASE \E i \in Items : InstallStep(i)
  BY <1>5, InstallStepsKeepStage
<1>6. CASE UNCHANGED vars
  BY <1>6, StageFrame DEF vars, procVars, taskVars, workVars
<1> QED
  BY <1>1, <1>2, <1>3, <1>4, <1>5, <1>6 DEF Next

LEMMA StageHolds == Spec => []StageInv
<1>1. Init => StageInv
  BY EmptyKeyedOnce DEF Init, StageInv, BatchWaits, PendingUntouched, UntouchedUntilEntered,
     SlotAccounted, Busy
<1> QED
  BY <1>1, InvHolds, StageStep, PTL DEF Spec

\* No slot is occupied for nothing: its item waits for the worker's save or is
\* being installed, except a task cancelled before its first step and a batch
\* dropped by stop() - for any number of items, slots, calls and restarts.
THEOREM SlotsAccountedFor == Spec => []SlotAccounted
<1>1. StageInv => SlotAccounted
  BY DEF StageInv
<1> QED
  BY <1>1, StageHolds, PTL

-----------------------------------------------------------------------------
(* What is spawned has left the file, early calls included: SpawnInv says  *)
(* it of the copies that may become the file, and of the popped batch.     *)

\* A save that has met no other is the only one.  Nothing in its copy has been
\* spawned or popped, whether or not a load has replaced the list it copied.
SoloUnspawned ==
  /\ \A s \in solo :
       /\ InFlight = {s}
       /\ savePc[s] = "snapped" =>
            \A i \in ToSet(snap[s]) : install[i] = "none" /\ i \notin ToSet(batch)
  /\ trusted => InFlight \subseteq solo

\* When the worker's save is over the popped items have left the file.
BatchLeftFile ==
  trusted /\ savePc[Worker] = "idle" => ToSet(batch) \cap ToSet(disk) = {}

\* Until the load is through, the copies list what was added in this process,
\* and so does the file once it is no longer what the reader thread saw.
UnspawnedUntilLoaded ==
  /\ boot \in {"down", "loading"} =>
       \A s \in Savers : \A i \in ToSet(snap[s]) : install[i] = "none"
  /\ loaded # <<>> =>
       /\ boot = "loading"
       /\ \A i \in ToSet(disk) : install[i] = "none" \/ i \in ToSet(loaded[1])

SpawnInv == SoloUnspawned /\ UnspawnedUntilLoaded /\ BatchLeftFile /\ PersistBeforeSpawn

\* The file and the copies list items.
LEMMA CopiesListItems ==
  ASSUME IInv
  PROVE  ToSet(disk) \subseteq Items /\ \A s \in Savers : ToSet(snap[s]) \subseteq Items
BY DEF IInv, TypeOK, ToSet

\* A step that neither saves nor spawns, and leaves the load where it was or
\* abandons it.
LEMMA SpawnFrame ==
  ASSUME IInv, SpawnInv, UNCHANGED <<batch, savePc, snap, disk, solo, trusted>>,
         loaded' \in {loaded, <<>>},
         \/ boot' = boot
         \/ loaded = <<>> /\ (boot' \in {"down", "loading"} => boot = "down"),
         \A i \in Items : install[i] = "none" => install'[i] = "none"
  PROVE  SpawnInv'
<1> USE DEF SpawnInv
<1>1. InFlight' = InFlight /\ solo \subseteq Savers
  BY DEF InFlight, IInv, TypeOK
<1>2. SoloUnspawned'
  BY <1>1, CopiesListItems DEF SoloUnspawned
<1>3. BatchLeftFile' /\ PersistBeforeSpawn'
  BY CopiesListItems DEF BatchLeftFile, PersistBeforeSpawn
<1>4. UnspawnedUntilLoaded'
  BY CopiesListItems DEF UnspawnedUntilLoaded
<1> QED
  BY <1>2, <1>3, <1>4

\* A save begins: until it ends nothing is claimed of the file but what was
\* claimed before.
LEMMA BeginKeepsSpawn ==
  ASSUME IInv, SpawnInv, NEW s \in Savers, BeginSave(s), UNCHANGED <<install, loaded>>,
         boot' = boot \/ (boot = "up" /\ boot' = "stopping"),
         s = Worker \/ ToSet(batch') \subseteq ToSet(batch)
  PROVE  SpawnInv'
<1>1. /\ savePc' \in [Savers -> {"idle", "begun", "snapped"}]
      /\ savePc'[s] = "begun" /\ \A t \in Savers : t # s => savePc'[t] = savePc[t]
  BY DEF BeginSave, IInv, TypeOK
<1>2. InFlight' = InFlight \cup {s}
  BY <1>1 DEF InFlight, IInv, TypeOK
<1>3. /\ UNCHANGED <<snap, disk>> /\ solo' = IF InFlight = {} THEN {s} ELSE {}
      /\ trusted' = (trusted /\ InFlight = {})
  BY DEF BeginSave
<1>4. SoloUnspawned'
  BY <1>1, <1>2, <1>3 DEF SoloUnspawned
<1>5. BatchLeftFile'
  BY <1>1, <1>3 DEF SpawnInv, BatchLeftFile, Worker, Savers
<1>6. PersistBeforeSpawn'
  BY <1>3 DEF SpawnInv, PersistBeforeSpawn
<1>7. UnspawnedUntilLoaded'
  <2>1. loaded = <<>> \/ boot' = boot
    BY DEF SpawnInv, UnspawnedUntilLoaded
  <2> QED
    BY <1>3, <2>1 DEF SpawnInv, UnspawnedUntilLoaded
<1> QED
  BY <1>4, <1>5, <1>6, <1>7 DEF SpawnInv

\* Pending items have not been popped, let alone spawned.
LEMMA PendingUnspawned ==
  ASSUME IInv, StageInv
  PROVE  \A i \in ToSet(queue) : install[i] = "none" /\ i \notin ToSet(batch)
<1>1. \A i \in ToSet(queue) : i \in Items /\ i \notin ToSet(batch)
  BY PendingNotAlive, SlotsHoldItems DEF IInv, NoDuplicateKey, BatchHoldsSlot
<1> QED
  BY <1>1 DEF StageInv, PendingUntouched

LEMMA SavesKeepSpawn ==
  ASSUME IInv, StageInv, SpawnInv, SaveStep \/ SavesMeet
  PROVE  SpawnInv'
<1>1. /\ UNCHANGED <<boot, loaded, queue, batch, install>>
      /\ savePc \in [Savers -> {"idle", "begun", "snapped"}]
      /\ snap \in [Savers -> Seq(Items)] /\ solo \subseteq Savers /\ trusted \in BOOLEAN
  BY DEF SaveStep, SavesMeet, Snapshot, Publish, procVars, taskVars, workVars, IInv, TypeOK
<1>2. ASSUME NEW s \in Savers, Snapshot(s)
      PROVE  SpawnInv'
  <2>1. /\ savePc[s] = "begun" /\ UNCHANGED <<disk, solo, trusted>>
        /\ savePc' = [savePc EXCEPT ![s] = "snapped"] /\ snap' = [snap EXCEPT ![s] = queue]
    BY <1>2 DEF Snapshot, CopyList
  <2>2. InFlight' = InFlight
    BY <1>1, <2>1 DEF InFlight
  <2>3. SoloUnspawned'
    BY <1>1, <2>1, <2>2, PendingUnspawned DEF SpawnInv, SoloUnspawned
  <2>4. BatchLeftFile' /\ PersistBeforeSpawn'
    BY <1>1, <2>1 DEF SpawnInv, BatchLeftFile, PersistBeforeSpawn
  <2>5. UnspawnedUntilLoaded'
    BY <1>1, <2>1, PendingUnspawned DEF SpawnInv, UnspawnedUntilLoaded
  <2> QED
    BY <2>3, <2>4, <2>5 DEF SpawnInv
<1>3. ASSUME NEW s \in Savers, Publish(s)
      PROVE  SpawnInv'
  <2>1. /\ savePc[s] = "snapped" /\ solo' = solo \ {s}
        /\ savePc' = [savePc EXCEPT ![s] = "idle"] /\ snap' = [snap EXCEPT ![s] = <<>>]
    BY <1>3 DEF Publish, PublishSave
  <2>2. InFlight' = InFlight \ {s} /\ s \in InFlight
    BY <1>1, <2>1 DEF InFlight
  <2>3. trusted' => s \in solo /\ disk' = snap[s]
    BY <1>3, <2>2 DEF Publish, PublishSave, SpawnInv, SoloUnspawned
  <2>4. solo' = {} /\ (trusted' => InFlight' = {})
    BY <2>1, <2>2, <2>3 DEF SpawnInv, SoloUnspawned
  <2>5. trusted' => \A i \in ToSet(disk') : install[i] = "none" /\ i \notin ToSet(batch)
    BY <2>1, <2>3 DEF SpawnInv, SoloUnspawned
  <2>6. SoloUnspawned'
    BY <2>4 DEF SoloUnspawned
  <2>7. BatchLeftFile' /\ PersistBeforeSpawn'
    BY <1>1, <2>5 DEF BatchLeftFile, PersistBeforeSpawn
  <2>8. UnspawnedUntilLoaded'
    <3>1. disk' \in {disk, snap[s], <<>>} \cup Copies
      BY <1>3 DEF Publish, PublishSave
    <3>2. disk' = disk \/ disk' = <<>> \/ \E t \in Savers : disk' = snap[t]
      BY <3>1, CopiesAreLists DEF IInv
    <3>3. \A t \in Savers : snap'[t] = snap[t] \/ snap'[t] = <<>>
      BY <1>1, <2>1
    <3> QED
      BY <1>1, <3>2, <3>3, EmptyKeyedOnce DEF SpawnInv, UnspawnedUntilLoaded
  <2> QED
    BY <2>6, <2>7, <2>8 DEF SpawnInv
<1>4. ASSUME SavesMeet
      PROVE  SpawnInv'
  <2>1. InFlight \ solo # {} /\ UNCHANGED <<savePc, snap, solo, trusted>>
    BY <1>4 DEF SavesMeet, Clash
  <2>2. InFlight' = InFlight /\ ~trusted'
    BY <2>1 DEF InFlight, SpawnInv, SoloUnspawned
  <2>3. SoloUnspawned'
    BY <1>1, <2>1, <2>2 DEF SpawnInv, SoloUnspawned
  <2>4. UnspawnedUntilLoaded'
    <3>1. disk' \in {<<>>} \cup Copies
      BY <1>4 DEF SavesMeet, Clash
    <3>2. disk' = <<>> \/ \E t \in Savers : disk' = snap[t]
      BY <3>1, CopiesAreLists DEF IInv
    <3> QED
      BY <1>1, <2>1, <3>2, EmptyKeyedOnce DEF SpawnInv, UnspawnedUntilLoaded
  <2> QED
    BY <2>2, <2>3, <2>4 DEF SpawnInv, BatchLeftFile, PersistBeforeSpawn
<1> QED
  BY <1>2, <1>3, <1>4 DEF SaveStep

\* A load leaves the file alone, and a save that has begun with the list before
\* it; nothing of either has been spawned.
LEMMA LoadKeepsSpawn ==
  ASSUME IInv, StageInv, SpawnInv, LoadAssign
  PROVE  SpawnInv'
<1>1. batch = <<>> /\ ToSet(batch) = {}
  BY EmptyKeyedOnce DEF LoadAssign, IInv, EmptyUntilLoaded, StageInv, BatchWaits
<1>2. /\ UNCHANGED <<batch, disk, solo>> /\ trusted' = (InFlight = {})
      /\ \A i \in Items : install[i] = "none" => install'[i] = "none"
      /\ \A s \in Savers : /\ savePc'[s] = IF savePc[s] = "begun" THEN "snapped" ELSE savePc[s]
                           /\ snap'[s] = IF savePc[s] = "begun" THEN queue ELSE snap[s]
      /\ DOMAIN savePc' = Savers
  BY DEF LoadAssign
<1>3. DOMAIN savePc = Savers /\ solo \subseteq Savers
  BY DEF IInv, TypeOK
<1>4. InFlight' = InFlight
  BY <1>2, <1>3 DEF InFlight
<1>5. SoloUnspawned'
  <2> SUFFICES ASSUME NEW s \in solo
               PROVE  /\ InFlight = {s} /\ savePc[s] # "idle"
                      /\ \A i \in ToSet(snap'[s]) : install'[i] = "none"
    BY <1>1, <1>2, <1>4 DEF SoloUnspawned
  <2>1. InFlight = {s} /\ s \in Savers /\ savePc[s] \in {"begun", "snapped"}
    BY <1>3 DEF SpawnInv, SoloUnspawned, InFlight, IInv, TypeOK
  <2>2. \A i \in ToSet(snap'[s]) : i \in Items /\ install[i] = "none"
    BY <1>2, <2>1, PendingUnspawned, PendingNotAlive, CopiesListItems DEF SpawnInv, SoloUnspawned
  <2> QED
    BY <1>2, <2>1, <2>2
<1>6. PersistBeforeSpawn'
  <2>1. \A i \in ToSet(disk) : i \in Items /\ (install[i] = "none" \/ i \in ToSet(loaded[1]))
    BY CopiesListItems DEF LoadAssign, SpawnInv, UnspawnedUntilLoaded
  <2>2. \A i \in ToSet(disk) : install'[i] = "none"
    BY <2>1 DEF LoadAssign
  <2> QED
    BY <1>2, <2>2 DEF PersistBeforeSpawn
<1>7. BatchLeftFile'
  BY <1>1, <1>2 DEF BatchLeftFile
<1>8. UnspawnedUntilLoaded'
  BY DEF LoadAssign, UnspawnedUntilLoaded
<1> QED
  BY <1>5, <1>6, <1>7, <1>8 DEF SpawnInv

LEMMA LifecycleKeepsSpawn ==
  ASSUME IInv, StageInv, SpawnInv, Lifecycle
  PROVE  SpawnInv'
<1>1. CASE StartLoad
  <2>1. loaded = <<>>
    BY <1>1 DEF StartLoad, SpawnInv, UnspawnedUntilLoaded
  <2> QED
    BY <1>1, <2>1, SpawnFrame DEF StartLoad, taskVars, workVars, fileVars, saveVars
<1>2. CASE LoadRead
  <2>1. /\ UNCHANGED <<boot, batch, install, savePc, snap, disk, solo, trusted>>
        /\ boot = "loading" /\ loaded' = <<disk>>
    BY <1>2 DEF LoadRead, taskVars, workVars, fileVars, saveVars
  <2>2. InFlight' = InFlight
    BY <2>1 DEF InFlight
  <2>3. loaded'[1] = disk'
    BY <2>1
  <2>4. UnspawnedUntilLoaded'
    BY <2>1, <2>3 DEF SpawnInv, UnspawnedUntilLoaded
  <2>5. SoloUnspawned' /\ BatchLeftFile' /\ PersistBeforeSpawn'
    BY <2>1, <2>2 DEF SpawnInv, SoloUnspawned, BatchLeftFile, PersistBeforeSpawn
  <2> QED
    BY <2>4, <2>5 DEF SpawnInv
<1>3. CASE LoadAssign
  BY <1>3, LoadKeepsSpawn
<1>4. CASE Stop
  <2>1. BeginSave(Stopper) /\ boot = "up" /\ boot' = "stopping" /\ UNCHANGED <<loaded, install>>
        /\ ToSet(batch') = {}
    BY <1>4, EmptyKeyedOnce DEF Stop, Saves, taskVars
  <2> QED
    BY <2>1, BeginKeepsSpawn DEF Savers
<1>5. CASE StopDone
  <2>1. loaded = <<>>
    BY <1>5 DEF StopDone, SpawnInv, UnspawnedUntilLoaded
  <2> QED
    BY <1>5, <2>1, SpawnFrame DEF StopDone, taskVars, workVars, fileVars, saveVars
<1>6. CASE Exit
  <2>1. boot' = "down" /\ loaded' = <<>> /\ disk' = disk /\ solo' = {} /\ batch' = <<>>
        /\ trusted' = (trusted /\ InFlight = {})
        /\ \A i \in Items : install[i] = "none" => install'[i] = "none"
    BY <1>6 DEF Exit, EndSaves, Alive, Waiting, Unwinding
  <2>2. InFlight' = {} /\ \A s \in Savers : snap'[s] = <<>>
    BY <1>6 DEF Exit, EndSaves, InFlight, IInv, TypeOK
  <2>3. SoloUnspawned' /\ BatchLeftFile' /\ UnspawnedUntilLoaded'
    BY <2>1, <2>2, EmptyKeyedOnce DEF SoloUnspawned, BatchLeftFile, UnspawnedUntilLoaded
  <2>4. PersistBeforeSpawn'
    BY <2>1, CopiesListItems DEF SpawnInv, PersistBeforeSpawn
  <2> QED
    BY <2>3, <2>4 DEF SpawnInv
<1>7. CASE StopEarly
  <2>1. BeginSave(Stopper) /\ UNCHANGED <<boot, loaded, install, batch>>
    BY <1>7 DEF StopEarly, Saves, procVars, taskVars, workVars
  <2> QED
    BY <2>1, BeginKeepsSpawn DEF Savers
<1> QED
  BY <1>1, <1>2, <1>3, <1>4, <1>5, <1>6, <1>7 DEF Lifecycle

LEMMA CallsKeepSpawn ==
  ASSUME IInv, SpawnInv, Calls
  PROVE  SpawnInv'
<1>1. ASSUME NEW i \in Items, Add(i)
      PROVE  SpawnInv'
  BY <1>1, BeginKeepsSpawn DEF Add, Saves, procVars, taskVars, workVars, Savers
<1>2. ASSUME NEW n \in DOMAIN queue, CancelQueued(n)
      PROVE  SpawnInv'
  <2>1. BeginSave(<<"cancel", queue[n]>>) /\ queue[n] \in Items
        /\ UNCHANGED <<boot, loaded, install, batch>>
    BY <1>2 DEF CancelQueued, Saves, procVars, taskVars, workVars, IInv, TypeOK
  <2> QED
    BY <2>1, BeginKeepsSpawn DEF Savers
<1>3. ASSUME NEW k \in Keys, CancelRunning(k)
      PROVE  SpawnInv'
  BY <1>3, SpawnFrame DEF CancelRunning, procVars, workVars, fileVars, saveVars
<1>4. ASSUME NEW i \in Items, CancelEmit(i)
      PROVE  SpawnInv'
  BY <1>4, SpawnFrame DEF CancelEmit, procVars, taskVars, workVars, fileVars, saveVars
<1> QED
  BY <1>1, <1>2, <1>3, <1>4 DEF Calls

\* The worker saves before it spawns: what it spawns has left the file, and
\* every copy that may still replace it.
LEMMA WorkerKeepsSpawn ==
  ASSUME IInv, SpawnInv, Pop \/ Spawn
  PROVE  SpawnInv'
<1>1. CASE Pop
  <2>1. BeginSave(Worker) /\ UNCHANGED <<boot, loaded, install>>
    BY <1>1 DEF Pop, Saves, procVars
  <2> QED
    BY <2>1, BeginKeepsSpawn DEF Savers
<1>2. CASE Spawn
  <2>1. /\ UNCHANGED <<boot, loaded, savePc, snap, disk, solo, trusted>>
        /\ batch' = <<>> /\ savePc[Worker] = "idle" /\ boot = "up"
        /\ \A i \in Items : i \notin ToSet(batch) => install'[i] = install[i]
    BY <1>2 DEF Spawn, procVars, fileVars, saveVars, IInv, EmptyUntilLoaded
  <2>2. InFlight' = InFlight /\ solo \subseteq Savers
    BY <2>1 DEF InFlight, IInv, TypeOK
  <2>3. SoloUnspawned'
    BY <2>1, <2>2, CopiesListItems, EmptyKeyedOnce DEF SpawnInv, SoloUnspawned
  <2>4. PersistBeforeSpawn'
    BY <2>1, CopiesListItems DEF SpawnInv, BatchLeftFile, PersistBeforeSpawn
  <2>5. BatchLeftFile' /\ UnspawnedUntilLoaded'
    BY <2>1, EmptyKeyedOnce DEF SpawnInv, BatchLeftFile, UnspawnedUntilLoaded
  <2> QED
    BY <2>3, <2>4, <2>5 DEF SpawnInv
<1> QED
  BY <1>1, <1>2

\* A step of an install touches an item that was spawned, and only that one.
LEMMA InstallStepTouches ==
  ASSUME IInv, NEW i \in Items, InstallStep(i)
  PROVE  /\ UNCHANGED <<procVars, queue, workVars, cancelling, fileVars, saveVars, forfeited>>
         /\ install[i] \in Alive
         /\ \A j \in Items : j # i => /\ install'[j] = install[j] /\ status'[j] = status[j]
                                      /\ outcome'[j] = outcome[j]
<1> USE DEF Alive, Waiting, Unwinding
<1>1. ASSUME NEW t, NEW st, NEW e, Moves(i, t, st, e)
      PROVE  /\ UNCHANGED <<procVars, queue, workVars, cancelling, fileVars, saveVars, forfeited>>
             /\ \A j \in Items : j # i => /\ install'[j] = install[j] /\ status'[j] = status[j]
                                          /\ outcome'[j] = outcome[j]
  BY <1>1 DEF Moves, fileVars, IInv, TypeOK
<1>2. CASE Finish(i) \/ NeverEntered(i)
  BY <1>2 DEF Finish, NeverEntered, fileVars, IInv, TypeOK
<1>3. CASE ~Finish(i) /\ ~NeverEntered(i)
  <2>1. install[i] \in Alive
    BY <1>3 DEF InstallStep, Reject, Begin, Installed, WarmedUp, Complete, InstallFailed, Raised,
       Cancelled, Resumes
  <2>2. \E t, st, e : Moves(i, t, st, e)
    BY <1>3 DEF InstallStep, Reject, Begin, Installed, WarmedUp, Complete, InstallFailed, Raised,
       Cancelled
  <2> QED
    BY <1>1, <2>1, <2>2
<1> QED
  BY <1>2, <1>3

LEMMA SpawnStep == IInv /\ StageInv /\ SpawnInv /\ [Next]_vars => SpawnInv'
<1> SUFFICES ASSUME IInv, StageInv, SpawnInv, [Next]_vars
             PROVE  SpawnInv'
  OBVIOUS
<1>1. CASE SaveStep \/ SavesMeet
  BY <1>1, SavesKeepSpawn
<1>2. CASE Lifecycle
  BY <1>2, LifecycleKeepsSpawn
<1>3. CASE Calls
  BY <1>3, CallsKeepSpawn
<1>4. CASE Pop \/ Spawn
  BY <1>4, WorkerKeepsSpawn
<1>5. ASSUME NEW i \in Items, InstallStep(i)
      PROVE  SpawnInv'
  <2>1. \A j \in Items : install[j] = "none" => install'[j] = "none"
    BY <1>5, InstallStepTouches DEF Alive, Waiting, Unwinding
  <2> QED
    BY <1>5, <2>1, InstallStepTouches, SpawnFrame DEF procVars, workVars, fileVars, saveVars
<1>6. CASE UNCHANGED vars
  BY <1>6, SpawnFrame DEF vars, procVars, taskVars, workVars, fileVars, saveVars
<1> QED
  BY <1>1, <1>2, <1>3, <1>4, <1>5, <1>6 DEF Next

\* A crash installs nothing twice: what has been spawned has left the file,
\* although calls may save while the load is under way and any two saves may
\* meet.
THEOREM SpawnedHasLeftFile == Spec => []PersistBeforeSpawn
<1>1. Init => SpawnInv
  BY EmptyKeyedOnce DEF Init, SaveInit, InFlight, SpawnInv, SoloUnspawned, UnspawnedUntilLoaded,
     BatchLeftFile, PersistBeforeSpawn
<1>2. SpawnInv => PersistBeforeSpawn
  BY DEF SpawnInv
<1> QED
  BY <1>1, <1>2, SpawnStep, InvHolds, StageHolds, PTL DEF Spec

-----------------------------------------------------------------------------
(* The file, the published ends and what is lost, early calls included: a  *)
(* call that arrives while start() loads is accepted into a list that the  *)
(* load replaces.                                                          *)

\* While start() loads nothing has happened yet, or an early call has saved its
\* list over the file: then all that is pending there was forfeited by it.
AllForfeited == \A i \in Items : status[i] = "queued" /\ outcome[i] = {} => i \in forfeited
EarlyForfeited ==
  /\ boot = "down" => queue = <<>> /\ InFlight = {} /\ loaded = <<>>
  /\ boot = "loading" => \/ queue = <<>> /\ InFlight = {} /\ loaded \in {<<>>, <<disk>>}
                         \/ AllForfeited

\* A cancelled item is pending no more and its install is ending or over.
CancelledIsOver ==
  \A i \in Items : status[i] = "cancelled" =>
    /\ i \notin ToSet(queue) \cup ToSet(batch)
    /\ install[i] \notin {"created", "active", "warming", "finishing"}

\* An item has published an end exactly when its install is ending or over.
EndPublished ==
  \A i \in Items :
    /\ \/ i \in ToSet(queue) \cup ToSet(batch) \/ status[i] = "new"
       \/ install[i] \in {"created", "active", "warming", "finishing"}
       => outcome[i] = {}
    /\ install[i] \in {"rejecting", "failing", "completing"} \cup Unwinding => outcome[i] # {}

\* A save that has met no other is the only one, and holds the queue once it
\* has copied it, unless the list was replaced: any change since has started
\* another.
SoloHoldsQueue ==
  /\ \A s \in solo : InFlight = {s} /\ (savePc[s] = "snapped" /\ ~astray => snap[s] = queue)
  /\ trusted => InFlight \subseteq solo

FileInv ==
  /\ EarlyForfeited
  /\ CancelledIsOver
  /\ EndPublished
  /\ SoloHoldsQueue
  /\ DiskSettled
  /\ NoSilentLoss

\* The parts of FileInv: what the file holds, what was published, what is lost.
DiskInv == SoloHoldsQueue /\ DiskSettled
EndInv == CancelledIsOver /\ EndPublished
LossInv == EarlyForfeited /\ NoSilentLoss

LEMMA FileInvParts == FileInv <=> EndInv /\ DiskInv /\ LossInv
BY DEF FileInv, EndInv, DiskInv, LossInv

-----------------------------------------------------------------------------
(* The file.                                                               *)

\* A step that neither saves nor moves an item.
LEMMA DiskFrame ==
  ASSUME DiskInv, UNCHANGED <<queue, savePc, snap, disk, solo, trusted, astray>>,
         boot' = boot \/ boot' = "loading" \/ boot = "stopping"
  PROVE  DiskInv'
<1>1. InFlight' = InFlight
  BY DEF InFlight
<1> QED
  BY <1>1 DEF DiskInv, SoloHoldsQueue, DiskSettled

\* A save begins: the queue may change in the same step, and until the save
\* ends nothing is claimed of the file.
LEMMA BeginKeepsDisk ==
  ASSUME IInv, NEW s \in Savers, BeginSave(s)
  PROVE  DiskInv'
<1>1. /\ savePc' \in [Savers -> {"idle", "begun", "snapped"}]
      /\ savePc'[s] = "begun" /\ \A t \in Savers : t # s => savePc'[t] = savePc[t]
  BY DEF BeginSave, IInv, TypeOK
<1>2. InFlight' = InFlight \cup {s}
  BY <1>1 DEF InFlight, IInv, TypeOK
<1>3. /\ solo' = IF InFlight = {} THEN {s} ELSE {}
      /\ trusted' = (trusted /\ InFlight = {})
  BY DEF BeginSave
<1>4. SoloHoldsQueue'
  BY <1>1, <1>2, <1>3 DEF SoloHoldsQueue
<1>5. DiskSettled'
  BY <1>2 DEF DiskSettled
<1> QED
  BY <1>4, <1>5 DEF DiskInv

\* A save copies the queue, ends, or writes into that of another.
LEMMA SavesKeepDisk ==
  ASSUME IInv, DiskInv, SaveStep \/ SavesMeet
  PROVE  DiskInv' /\ InFlight # {}
<1>1. /\ UNCHANGED <<boot, queue, astray>>
      /\ savePc \in [Savers -> {"idle", "begun", "snapped"}]
      /\ snap \in [Savers -> Seq(Items)] /\ solo \subseteq Savers /\ trusted \in BOOLEAN
  BY DEF SaveStep, SavesMeet, Snapshot, Publish, procVars, taskVars, workVars, IInv, TypeOK
<1>2. ASSUME NEW s \in Savers, Snapshot(s)
      PROVE  DiskInv' /\ InFlight # {}
  <2>1. /\ savePc[s] = "begun" /\ UNCHANGED <<disk, solo, trusted>>
        /\ savePc' = [savePc EXCEPT ![s] = "snapped"] /\ snap' = [snap EXCEPT ![s] = queue]
    BY <1>2 DEF Snapshot, CopyList
  <2>2. InFlight' = InFlight /\ s \in InFlight
    BY <1>1, <2>1 DEF InFlight
  <2>3. SoloHoldsQueue'
    BY <1>1, <2>1, <2>2 DEF DiskInv, SoloHoldsQueue
  <2>4. DiskSettled'
    BY <2>2 DEF DiskSettled
  <2> QED
    BY <2>2, <2>3, <2>4 DEF DiskInv
<1>3. ASSUME NEW s \in Savers, Publish(s)
      PROVE  DiskInv' /\ InFlight # {}
  <2>1. /\ savePc[s] = "snapped" /\ solo' = solo \ {s}
        /\ savePc' = [savePc EXCEPT ![s] = "idle"] /\ snap' = [snap EXCEPT ![s] = <<>>]
    BY <1>3 DEF Publish, PublishSave
  <2>2. InFlight' = InFlight \ {s} /\ s \in InFlight
    BY <1>1, <2>1 DEF InFlight
  <2>3. trusted' => s \in solo /\ disk' = snap[s]
    BY <1>3, <2>2 DEF Publish, PublishSave, DiskInv, SoloHoldsQueue
  <2>4. trusted' => (~astray => disk' = queue) /\ InFlight' = {}
    BY <2>1, <2>2, <2>3 DEF DiskInv, SoloHoldsQueue
  <2>5. SoloHoldsQueue'
    <3>1. solo' = {}
      BY <2>1, <2>2 DEF DiskInv, SoloHoldsQueue
    <3> QED
      BY <2>4, <3>1 DEF SoloHoldsQueue
  <2>6. DiskSettled'
    BY <1>1, <2>4 DEF DiskSettled
  <2> QED
    BY <2>2, <2>5, <2>6 DEF DiskInv
<1>4. ASSUME SavesMeet
      PROVE  DiskInv' /\ InFlight # {}
  <2>1. InFlight \ solo # {} /\ UNCHANGED <<savePc, snap, solo, trusted>>
    BY <1>4 DEF SavesMeet, Clash
  <2>2. InFlight' = InFlight
    BY <2>1 DEF InFlight
  <2>3. ~trusted'
    BY <2>1 DEF DiskInv, SoloHoldsQueue
  <2>4. SoloHoldsQueue'
    BY <1>1, <2>1, <2>2, <2>3 DEF DiskInv, SoloHoldsQueue
  <2>5. DiskSettled'
    BY <2>3 DEF DiskSettled
  <2> QED
    BY <2>1, <2>4, <2>5 DEF DiskInv
<1> QED
  BY <1>2, <1>3, <1>4 DEF SaveStep

\* The load makes the queue and the file one, if it is the only one at them; a
\* stop and an exit leave the file to the saves.
LEMMA LifecycleKeepsDisk ==
  ASSUME IInv, DiskInv, Lifecycle
  PROVE  DiskInv'
<1>1. CASE StartLoad \/ LoadRead
  BY <1>1, DiskFrame DEF StartLoad, LoadRead, fileVars, saveVars
<1>2. CASE LoadAssign
  <2>1. /\ loaded # <<>> /\ queue' = loaded[1] /\ UNCHANGED <<disk, solo>>
        /\ trusted' = (InFlight = {}) /\ astray' = (InFlight # {} \/ loaded # <<disk>>)
    BY <1>2 DEF LoadAssign
  <2>2. InFlight' = InFlight
    BY <1>2 DEF LoadAssign, InFlight, IInv, TypeOK
  <2>3. SoloHoldsQueue'
    BY <2>1, <2>2 DEF DiskInv, SoloHoldsQueue
  <2>4. ASSUME ~astray'
        PROVE  disk' = queue'
    <3>1. loaded = <<disk>> /\ queue' = loaded[1] /\ disk' = disk
      BY <2>1, <2>4
    <3> QED
      BY <3>1
  <2>5. DiskSettled'
    BY <2>4 DEF DiskSettled
  <2> QED
    BY <2>3, <2>5 DEF DiskInv
<1>3. CASE StopEarly \/ Stop
  BY <1>3, BeginKeepsDisk DEF StopEarly, Stop, Saves, Savers
<1>4. CASE StopDone
  BY <1>4, DiskFrame DEF StopDone, fileVars, saveVars
<1>5. CASE Exit
  <2>1. boot' = "down" /\ solo' = {}
    BY <1>5 DEF Exit, EndSaves
  <2>2. InFlight' = {}
    BY <1>5 DEF Exit, EndSaves, InFlight, IInv, TypeOK
  <2> QED
    BY <2>1, <2>2 DEF DiskInv, SoloHoldsQueue, DiskSettled
<1> QED
  BY <1>1, <1>2, <1>3, <1>4, <1>5 DEF Lifecycle

\* A call that changes the queue begins its save in the same step.
LEMMA CallsKeepDisk ==
  ASSUME IInv, DiskInv, Calls
  PROVE  DiskInv'
<1>1. ASSUME NEW i \in Items, Add(i)
      PROVE  DiskInv'
  BY <1>1, BeginKeepsDisk DEF Add, Saves, Savers
<1>2. ASSUME NEW n \in DOMAIN queue, CancelQueued(n)
      PROVE  DiskInv'
  <2>1. BeginSave(<<"cancel", queue[n]>>) /\ queue[n] \in Items
    BY <1>2 DEF CancelQueued, Saves, IInv, TypeOK
  <2> QED
    BY <2>1, BeginKeepsDisk DEF Savers
<1>3. ASSUME NEW k \in Keys, CancelRunning(k)
      PROVE  DiskInv'
  BY <1>3, DiskFrame DEF CancelRunning, procVars, fileVars, saveVars
<1>4. ASSUME NEW i \in Items, CancelEmit(i)
      PROVE  DiskInv'
  BY <1>4, DiskFrame DEF CancelEmit, procVars, fileVars, saveVars
<1> QED
  BY <1>1, <1>2, <1>3, <1>4 DEF Calls

\* The worker's pop begins a save; the spawn leaves queue and file alone.
LEMMA WorkerKeepsDisk ==
  ASSUME IInv, DiskInv, Pop \/ Spawn
  PROVE  DiskInv'
<1>1. CASE Pop
  BY <1>1, BeginKeepsDisk DEF Pop, Saves, Savers
<1>2. CASE Spawn
  BY <1>2, DiskFrame DEF Spawn, procVars, fileVars, saveVars
<1> QED
  BY <1>1, <1>2

LEMMA DiskStep ==
  ASSUME IInv, DiskInv, [Next]_vars
  PROVE  DiskInv'
<1>1. CASE SaveStep \/ SavesMeet
  BY <1>1, SavesKeepDisk
<1>2. CASE Lifecycle
  BY <1>2, LifecycleKeepsDisk
<1>3. CASE Calls
  BY <1>3, CallsKeepDisk
<1>4. CASE Pop \/ Spawn
  BY <1>4, WorkerKeepsDisk
<1>5. ASSUME NEW i \in Items, InstallStep(i)
      PROVE  DiskInv'
  BY <1>5, InstallStepTouches, DiskFrame DEF procVars, fileVars, saveVars
<1>6. CASE UNCHANGED vars
  BY <1>6, DiskFrame DEF vars, procVars, fileVars, saveVars
<1> QED
  BY <1>1, <1>2, <1>3, <1>4, <1>5, <1>6 DEF Next

-----------------------------------------------------------------------------
(* The published ends.                                                     *)

\* A step that moves no item and publishes nothing.
LEMMA EndFrame ==
  ASSUME EndInv, UNCHANGED <<status, install, outcome>>,
         ToSet(queue') \cup ToSet(batch') \subseteq ToSet(queue) \cup ToSet(batch)
  PROVE  EndInv'
BY DEF EndInv, CancelledIsOver, EndPublished

\* No install is alive before the queue is loaded.
LEMMA NoneAliveUntilLoaded ==
  ASSUME IInv, boot \in {"down", "loading"}
  PROVE  \A i \in Items : install[i] \notin Alive
BY SlotsHoldItems DEF IInv, EmptyUntilLoaded, LiveInstallHoldsSlot

LEMMA LifecycleKeepsEnd ==
  ASSUME IInv, StageInv, EndInv, Lifecycle
  PROVE  EndInv'
<1>1. CASE StartLoad \/ LoadRead \/ StopEarly \/ StopDone
  BY <1>1, EndFrame DEF StartLoad, LoadRead, StopEarly, StopDone, taskVars, workVars
<1>2. CASE LoadAssign
  <2>1. /\ ToSet(batch') = {}
        /\ \A i \in Items :
             /\ install'[i] = IF i \in ToSet(queue') THEN "none" ELSE install[i]
             /\ status'[i] = IF i \in ToSet(queue') THEN "queued" ELSE status[i]
             /\ outcome'[i] = IF i \in ToSet(queue') THEN {} ELSE outcome[i]
    BY <1>2, EmptyKeyedOnce DEF LoadAssign, IInv, EmptyUntilLoaded, StageInv, BatchWaits
  <2>2. \A i \in Items : install[i] \notin Alive
    BY <1>2, NoneAliveUntilLoaded DEF LoadAssign
  <2>3. CancelledIsOver'
    BY <2>1, <2>2 DEF CancelledIsOver, Alive, Waiting
  <2>4. EndPublished'
    BY <2>1, <2>2 DEF EndInv, EndPublished, Alive, Waiting, Unwinding
  <2> QED
    BY <2>3, <2>4 DEF EndInv
<1>3. CASE Stop
  BY <1>3, EmptyKeyedOnce, EndFrame DEF Stop, taskVars
<1>4. CASE Exit
  <2>1. /\ ToSet(queue') = {} /\ ToSet(batch') = {}
        /\ UNCHANGED <<status, outcome>>
        /\ \A i \in Items : install'[i] \notin Alive
    BY <1>4, EmptyKeyedOnce DEF Exit, Alive, Waiting, Unwinding
  <2>2. EndPublished'
    BY <2>1 DEF EndInv, EndPublished, Alive, Waiting, Unwinding
  <2> QED
    BY <2>1, <2>2 DEF EndInv, CancelledIsOver, Alive, Waiting
<1> QED
  BY <1>1, <1>2, <1>3, <1>4 DEF Lifecycle

LEMMA CallsKeepEnd ==
  ASSUME IInv, StageInv, EndInv, Calls
  PROVE  EndInv'
<1>1. /\ queue \in Seq(Items) /\ KeyedOnce(queue) /\ ToSet(queue) \cup ToSet(batch) \subseteq Items
      /\ \A i \in ToSet(queue) : running[KeyOf[i]] = NoItem
      /\ \A i \in ToSet(batch) : running[KeyOf[i]] = i
  BY PendingNotAlive DEF IInv, TypeOK, NoDuplicateKey, BatchHoldsSlot
<1>2. ASSUME NEW i \in Items, Add(i)
      PROVE  EndInv'
  <2>1. /\ UNCHANGED <<batch, install, outcome>> /\ status[i] = "new"
        /\ queue' = Append(queue, i) /\ \A j \in ToSet(queue) : KeyOf[j] # KeyOf[i]
        /\ \A j \in Items : status'[j] = IF j = i THEN "queued" ELSE status[j]
    BY <1>2 DEF Add, taskVars, workVars, IInv, TypeOK
  <2>2. ToSet(queue') = ToSet(queue) \cup {i}
    BY <1>1, <2>1, AppendKeyedOnce
  <2>3. CancelledIsOver'
    BY <2>1, <2>2 DEF EndInv, CancelledIsOver, IInv, TypeOK
  <2>4. EndPublished'
    BY <2>1, <2>2 DEF EndInv, EndPublished
  <2> QED
    BY <2>3, <2>4 DEF EndInv
<1>3. ASSUME NEW n \in DOMAIN queue, CancelQueued(n)
      PROVE  EndInv'
  <2>1. queue[n] \in ToSet(queue) /\ queue[n] \in Items
    BY <1>1 DEF ToSet
  <2>2. /\ UNCHANGED <<batch, install, outcome>> /\ queue' = RemoveAt(queue, n)
        /\ \A j \in Items : status'[j] = IF j = queue[n] THEN "cancelled" ELSE status[j]
    BY <1>3, <2>1 DEF CancelQueued, taskVars, workVars, IInv, TypeOK
  <2>3. /\ ToSet(queue') = ToSet(queue) \ {queue[n]} /\ install[queue[n]] = "none"
        /\ queue[n] \notin ToSet(batch)
    BY <1>1, <2>1, <2>2, RemoveAtKeyedOnce, SlotsHoldItems DEF StageInv, PendingUntouched
  <2>4. CancelledIsOver'
    BY <2>1, <2>2, <2>3 DEF EndInv, CancelledIsOver, IInv, TypeOK
  <2>5. EndPublished'
    BY <2>1, <2>2, <2>3 DEF EndInv, EndPublished
  <2> QED
    BY <2>4, <2>5 DEF EndInv
<1>4. ASSUME NEW k \in Keys, CancelRunning(k)
      PROVE  EndInv'
  BY <1>4, EndFrame DEF CancelRunning, workVars
<1>5. ASSUME NEW i \in Items, CancelEmit(i)
      PROVE  EndInv'
  <2>1. /\ UNCHANGED <<queue, batch, install, status>>
        /\ \A j \in Items : outcome'[j] = IF j = i /\ status[i] = "cancelled"
                                          THEN outcome[j] \cup {"cancelled"} ELSE outcome[j]
    BY <1>5 DEF CancelEmit, taskVars, workVars, IInv, TypeOK
  <2>2. status[i] = "cancelled" =>
          /\ i \notin ToSet(queue) \cup ToSet(batch)
          /\ install[i] \notin {"created", "active", "warming", "finishing"}
    BY DEF EndInv, CancelledIsOver
  <2>3. CancelledIsOver'
    BY <2>1 DEF EndInv, CancelledIsOver
  <2>4. EndPublished'
    BY <2>1, <2>2 DEF EndInv, EndPublished
  <2> QED
    BY <2>3, <2>4 DEF EndInv
<1> QED
  BY <1>2, <1>3, <1>4, <1>5 DEF Calls

LEMMA WorkerKeepsEnd ==
  ASSUME IInv, StageInv, EndInv, Pop \/ Spawn
  PROVE  EndInv'
<1>1. CASE Pop
  BY <1>1, PopMoves, EndFrame DEF Pop
<1>2. CASE Spawn
  <2>1. /\ UNCHANGED <<queue, status, outcome>> /\ ToSet(batch') = {}
        /\ \A i \in Items : install'[i] = IF i \in ToSet(batch) THEN "created" ELSE install[i]
    BY <1>2, EmptyKeyedOnce DEF Spawn
  <2>2. \A i \in ToSet(batch) : i \in Items /\ status[i] = "queued"
    BY PendingNotAlive DEF StageInv, PendingUntouched
  <2>3. CancelledIsOver'
    BY <2>1, <2>2 DEF EndInv, CancelledIsOver, IInv, TypeOK
  <2>4. EndPublished'
    BY <2>1 DEF EndInv, EndPublished, Unwinding
  <2> QED
    BY <2>3, <2>4 DEF EndInv
<1> QED
  BY <1>1, <1>2

\* The coroutine publishes nothing until it ends, and an end when it does.
LEMMA MovesKeepEnd ==
  ASSUME IInv, StageInv, EndInv, NEW i \in Items, install[i] \in Alive,
         NEW t, NEW st \in Statuses \ {"new"}, NEW e, Moves(i, t, st, e),
         \/ /\ install[i] \in {"created", "active", "warming", "finishing"}
            /\ t \in {"active", "warming", "finishing"} /\ e = {} /\ st # "cancelled"
         \/ t \in {"rejecting", "failing", "completing"} \cup Unwinding /\ e # {}
  PROVE  EndInv'
<1> USE DEF Alive, Waiting, Unwinding
<1>1. /\ UNCHANGED <<queue, batch>>
      /\ \A j \in Items :
           /\ install'[j] = IF j = i THEN t ELSE install[j]
           /\ status'[j] = IF j = i THEN st ELSE status[j]
           /\ outcome'[j] = IF j = i THEN outcome[j] \cup e ELSE outcome[j]
  BY DEF Moves, workVars, IInv, TypeOK
<1>2. i \notin ToSet(queue) \cup ToSet(batch)
  BY DEF StageInv, PendingUntouched
<1>3. CancelledIsOver'
  BY <1>1, <1>2 DEF EndInv, CancelledIsOver, IInv, TypeOK
<1>4. EndPublished'
  BY <1>1, <1>2 DEF EndInv, EndPublished
<1> QED
  BY <1>3, <1>4 DEF EndInv

LEMMA InstallStepsKeepEnd ==
  ASSUME IInv, StageInv, EndInv, NEW i \in Items, InstallStep(i)
  PROVE  EndInv'
<1> USE DEF Alive, Waiting, Unwinding, Statuses
<1>1. /\ install[i] \in Alive => status[i] \in Statuses \ {"new"}
      /\ install[i] \in {"created", "active", "warming", "finishing"} => status[i] # "cancelled"
  BY DEF IInv, TypeOK, StageInv, UntouchedUntilEntered, EndInv, CancelledIsOver
<1>2. CASE Reject(i)
  BY <1>1, <1>2, MovesKeepEnd DEF Reject, Resumes
<1>3. CASE Begin(i)
  BY <1>3, MovesKeepEnd DEF Begin, Resumes
<1>4. CASE Installed(i)
  BY <1>1, <1>4, MovesKeepEnd DEF Installed, Resumes
<1>5. CASE WarmedUp(i)
  BY <1>5, MovesKeepEnd DEF WarmedUp, Resumes
<1>6. CASE Complete(i)
  BY <1>1, <1>6, MovesKeepEnd DEF Complete, Resumes
<1>7. CASE InstallFailed(i)
  BY <1>7, MovesKeepEnd DEF InstallFailed, Resumes
<1>8. CASE Raised(i)
  BY <1>8, MovesKeepEnd DEF Raised, Resumes
<1>9. CASE Cancelled(i)
  BY <1>9, MovesKeepEnd DEF Cancelled
<1>10. CASE Finish(i) \/ NeverEntered(i)
  <2>1. UNCHANGED <<queue, batch, status, outcome>> /\ install[i] # "none"
        /\ \A j \in Items : install'[j] = IF j = i THEN "done" ELSE install[j]
    BY <1>10 DEF Finish, NeverEntered, workVars, IInv, TypeOK
  <2>2. CancelledIsOver'
    BY <2>1 DEF EndInv, CancelledIsOver, IInv, TypeOK
  <2>3. EndPublished'
    BY <2>1 DEF EndInv, EndPublished
  <2> QED
    BY <2>2, <2>3 DEF EndInv
<1> QED
  BY <1>2, <1>3, <1>4, <1>5, <1>6, <1>7, <1>8, <1>9, <1>10 DEF InstallStep

LEMMA EndStep ==
  ASSUME IInv, StageInv, EndInv, [Next]_vars
  PROVE  EndInv'
<1>1. CASE SaveStep \/ SavesMeet
  BY <1>1, EndFrame DEF SaveStep, SavesMeet, Snapshot, Publish, taskVars, workVars
<1>2. CASE Lifecycle
  BY <1>2, LifecycleKeepsEnd
<1>3. CASE Calls
  BY <1>3, CallsKeepEnd
<1>4. CASE Pop \/ Spawn
  BY <1>4, WorkerKeepsEnd
<1>5. CASE \E i \in Items : InstallStep(i)
  BY <1>5, InstallStepsKeepEnd
<1>6. CASE UNCHANGED vars
  BY <1>6, EndFrame DEF vars, taskVars, workVars
<1> QED
  BY <1>1, <1>2, <1>3, <1>4, <1>5, <1>6 DEF Next

-----------------------------------------------------------------------------
(* What is lost.                                                           *)

\* A step that takes no item out of the queue, the file or a slot.
LEMMA LossFrame ==
  ASSUME NoSilentLoss, UNCHANGED <<queue, running, status, outcome, forfeited>>,
         boot \in {"down", "loading"} => boot' \in {"down", "loading"} /\ disk' = disk
  PROVE  NoSilentLoss'
BY DEF NoSilentLoss

\* A step after the load is through, which does not end the process.
LEMMA LoadedFrame ==
  ASSUME boot' \notin {"down", "loading"}
  PROVE  EarlyForfeited'
BY DEF EarlyForfeited

\* What is lost once all that is pending is forfeited: nothing.
LEMMA ForfeitedFrame ==
  ASSUME AllForfeited', boot' # "down"
  PROVE  LossInv'
BY DEF AllForfeited, LossInv, EarlyForfeited, NoSilentLoss

\* While start() loads, what is pending and not forfeited is in the file: an
\* early call forfeits it.
LEMMA PendingAtRisk ==
  ASSUME IInv, LossInv, boot = "loading", NEW i \in Items,
         status[i] = "queued", outcome[i] = {}, i \notin forfeited
  PROVE  i \in AtRisk /\ queue = <<>> /\ loaded \in {<<>>, <<disk>>}
<1>1. queue = <<>> /\ loaded \in {<<>>, <<disk>>}
  BY DEF LossInv, EarlyForfeited, AllForfeited
<1>2. running[KeyOf[i]] = NoItem
  BY SlotsHoldItems DEF IInv, EmptyUntilLoaded
<1> QED
  BY <1>1, <1>2, EmptyKeyedOnce, SlotsHoldItems DEF LossInv, NoSilentLoss, AtRisk

LEMMA LifecycleKeepsItems ==
  ASSUME IInv, DiskInv, LossInv, Lifecycle
  PROVE  LossInv'
<1>1. CASE StartLoad \/ LoadRead
  <2>1. NoSilentLoss'
    BY <1>1, LossFrame DEF StartLoad, LoadRead, taskVars, fileVars, saveVars, LossInv
  <2>2. InFlight' = InFlight
    BY <1>1 DEF StartLoad, LoadRead, fileVars, saveVars, InFlight
  <2>3. EarlyForfeited'
    BY <1>1, <2>2 DEF StartLoad, LoadRead, fileVars, saveVars, LossInv, EarlyForfeited, AllForfeited
  <2> QED
    BY <2>1, <2>3 DEF LossInv
<1>2. CASE LoadAssign
  <2>1. /\ boot = "loading" /\ boot' = "up" /\ loaded # <<>> /\ queue' = loaded[1]
        /\ \A i \in Items :
             i \notin ToSet(queue') => /\ status'[i] = status[i] /\ outcome'[i] = outcome[i]
                                       /\ (i \in forfeited' <=> i \in forfeited)
    BY <1>2 DEF LoadAssign
  <2>2. ASSUME NEW i \in Items, status'[i] = "queued", outcome'[i] = {}, i \notin forfeited'
        PROVE  i \in ToSet(queue')
    <3> SUFFICES ASSUME i \notin ToSet(queue')
                 PROVE  FALSE
      OBVIOUS
    <3>1. status[i] = "queued" /\ outcome[i] = {} /\ i \notin forfeited
      BY <2>1, <2>2
    <3>2. i \in ToSet(disk) /\ loaded = <<disk>>
      BY <2>1, <3>1, PendingAtRisk DEF AtRisk
    <3> QED
      BY <2>1, <3>2
  <2>3. NoSilentLoss'
    BY <2>2 DEF NoSilentLoss
  <2> QED
    BY <2>1, <2>3, LoadedFrame DEF LossInv
<1>3. CASE StopEarly
  <2>1. UNCHANGED <<boot, status, outcome>> /\ forfeited' = forfeited \cup AtRisk /\ boot = "loading"
    BY <1>3 DEF StopEarly, procVars
  <2>2. AllForfeited'
    BY <2>1, PendingAtRisk DEF AllForfeited
  <2> QED
    BY <2>1, <2>2, ForfeitedFrame
<1>4. CASE Stop \/ StopDone
  BY <1>4, LossFrame, LoadedFrame DEF Stop, StopDone, taskVars, LossInv
<1>5. CASE Exit
  <2>1. /\ UNCHANGED <<status, outcome, disk>> /\ boot' = "down" /\ boot # "down"
        /\ queue' = <<>> /\ loaded' = <<>>
        /\ \A i \in Items : i \notin forfeited' =>
             /\ i \notin forfeited /\ running[KeyOf[i]] # i
             /\ (trusted /\ InFlight = {} /\ ~astray) \/ i \notin ToSet(queue) \/ i \in ToSet(disk)
    BY <1>5 DEF Exit, EndSaves
  <2>2. InFlight' = {}
    BY <1>5 DEF Exit, EndSaves, InFlight, IInv, TypeOK
  <2>3. ASSUME NEW i \in Items, status[i] = "queued", outcome[i] = {}, i \notin forfeited'
        PROVE  i \in ToSet(disk)
    <3>1. CASE boot = "loading"
      BY <2>1, <2>3, <3>1, PendingAtRisk DEF AtRisk
    <3>2. CASE boot # "loading"
      <4>1. i \in ToSet(queue)
        BY <2>1, <2>3, <3>2 DEF LossInv, NoSilentLoss
      <4>2. trusted /\ InFlight = {} /\ ~astray => disk = queue
        BY <2>1, <3>2 DEF DiskInv, DiskSettled
      <4> QED
        BY <2>1, <2>3, <4>1, <4>2
    <3> QED
      BY <3>1, <3>2
  <2>4. NoSilentLoss'
    BY <2>1, <2>3 DEF NoSilentLoss
  <2>5. EarlyForfeited'
    BY <2>1, <2>2 DEF EarlyForfeited
  <2> QED
    BY <2>4, <2>5 DEF LossInv
<1> QED
  BY <1>1, <1>2, <1>3, <1>4, <1>5 DEF Lifecycle

LEMMA CallsKeepItems ==
  ASSUME IInv, LossInv, Calls
  PROVE  LossInv'
<1>1. queue \in Seq(Items) /\ KeyedOnce(queue)
  BY DEF IInv, TypeOK, NoDuplicateKey
<1>2. ASSUME NEW i \in Items, Add(i)
      PROVE  LossInv'
  <2>1. /\ UNCHANGED <<boot, running, outcome>> /\ boot # "down"
        /\ queue' = Append(queue, i) /\ \A j \in ToSet(queue) : KeyOf[j] # KeyOf[i]
        /\ \A j \in Items : j # i => status'[j] = status[j]
        /\ forfeited' = forfeited \cup AtRisk \cup (IF boot = "loading" THEN {i} ELSE {})
    BY <1>2 DEF Add, Serving, procVars, taskVars, IInv, TypeOK
  <2>2. CASE boot = "loading"
    <3>1. AllForfeited'
      BY <2>1, <2>2, PendingAtRisk DEF AllForfeited
    <3> QED
      BY <2>1, <2>2, <3>1, ForfeitedFrame
  <2>3. CASE boot # "loading"
    <3>1. ToSet(queue') = ToSet(queue) \cup {i}
      BY <1>1, <2>1, AppendKeyedOnce
    <3>2. NoSilentLoss'
      BY <2>1, <2>3, <3>1 DEF LossInv, NoSilentLoss
    <3> QED
      BY <2>1, <2>3, <3>2, LoadedFrame DEF LossInv
  <2> QED
    BY <2>2, <2>3
<1>3. ASSUME NEW n \in DOMAIN queue, CancelQueued(n)
      PROVE  LossInv'
  <2>1. /\ UNCHANGED <<boot, running, outcome>> /\ boot # "down"
        /\ queue' = RemoveAt(queue, n)
        /\ \A j \in Items : status'[j] = IF j = queue[n] THEN "cancelled" ELSE status[j]
        /\ forfeited' = forfeited \cup AtRisk
    BY <1>3 DEF CancelQueued, Serving, procVars, taskVars, IInv, TypeOK
  <2>2. CASE boot = "loading"
    <3>1. AllForfeited'
      BY <2>1, <2>2, PendingAtRisk DEF AllForfeited
    <3> QED
      BY <2>1, <2>2, <3>1, ForfeitedFrame
  <2>3. CASE boot # "loading"
    <3>1. ToSet(queue') = ToSet(queue) \ {queue[n]}
      BY <1>1, <2>1, RemoveAtKeyedOnce
    <3>2. NoSilentLoss'
      BY <2>1, <2>3, <3>1 DEF LossInv, NoSilentLoss
    <3> QED
      BY <2>1, <2>3, <3>2, LoadedFrame DEF LossInv
  <2> QED
    BY <2>2, <2>3
<1>4. ASSUME UNCHANGED <<procVars, queue, running, status, fileVars, forfeited>>,
             \A j \in Items : outcome[j] \subseteq outcome'[j]
      PROVE  LossInv'
  <2>1. NoSilentLoss'
    BY <1>4 DEF procVars, fileVars, saveVars, LossInv, NoSilentLoss
  <2>2. InFlight' = InFlight
    BY <1>4 DEF fileVars, saveVars, InFlight
  <2>3. AllForfeited => AllForfeited'
    BY <1>4 DEF AllForfeited
  <2>4. EarlyForfeited'
    BY <1>4, <2>2, <2>3 DEF procVars, fileVars, saveVars, LossInv, EarlyForfeited
  <2> QED
    BY <2>1, <2>4 DEF LossInv
<1>5. ASSUME NEW k \in Keys, CancelRunning(k)
      PROVE  LossInv'
  BY <1>4, <1>5 DEF CancelRunning
<1>6. ASSUME NEW i \in Items, CancelEmit(i)
      PROVE  LossInv'
  BY <1>4, <1>6 DEF CancelEmit, taskVars, IInv, TypeOK
<1> QED
  BY <1>2, <1>3, <1>5, <1>6 DEF Calls

\* A popped item holds its slot before anything else happens to it.
LEMMA WorkerKeepsItems ==
  ASSUME IInv, LossInv, Pop \/ Spawn
  PROVE  LossInv'
<1>3. boot' \notin {"down", "loading"}
  BY DEF Pop, Spawn, procVars, IInv, EmptyUntilLoaded
<1>1. CASE Pop
  <2>1. UNCHANGED <<boot, disk, status, outcome, forfeited>>
    BY <1>1 DEF Pop, Saves, BeginSave, procVars
  <2>2. /\ \A i \in ToSet(queue) : i \in ToSet(queue') \/ running'[KeyOf[i]] = i
        /\ \A i \in Items : running[KeyOf[i]] = i => running'[KeyOf[i]] = i
    BY <1>1, PopMoves, SlotsHoldItems
  <2> QED
    BY <1>3, <2>1, <2>2, LoadedFrame DEF LossInv, NoSilentLoss
<1>2. CASE Spawn
  BY <1>2, <1>3, LossFrame, LoadedFrame DEF Spawn, procVars, fileVars, saveVars, LossInv
<1> QED
  BY <1>1, <1>2

\* An install holds its slot until it has published its end.
LEMMA InstallStepsKeepItems ==
  ASSUME IInv, EndInv, LossInv, NEW i \in Items, InstallStep(i)
  PROVE  LossInv'
<1>4. boot' \notin {"down", "loading"}
  BY InstallStepTouches, NoneAliveUntilLoaded DEF procVars
<1>1. /\ UNCHANGED <<boot, queue, disk, forfeited>> /\ running[KeyOf[i]] = i
      /\ \A j \in Items : j # i => status'[j] = status[j] /\ outcome'[j] = outcome[j]
  BY InstallStepTouches DEF procVars, fileVars, saveVars, IInv, LiveInstallHoldsSlot
<1>2. CASE Finish(i)
  <2>1. /\ UNCHANGED <<status, outcome>>
        /\ \A j \in Items : running'[KeyOf[j]] = IF KeyOf[j] = KeyOf[i] THEN NoItem ELSE running[KeyOf[j]]
    BY <1>2, SlotsHoldItems DEF Finish, Cleanup, IInv, TypeOK
  <2>2. outcome[i] # {}
    BY <1>2 DEF Finish, EndInv, EndPublished
  <2> QED
    BY <1>1, <1>4, <2>1, <2>2, LoadedFrame DEF LossInv, NoSilentLoss
<1>3. CASE ~Finish(i)
  <2>1. running' = running
    BY <1>3 DEF InstallStep, Reject, Begin, Installed, WarmedUp, Complete, InstallFailed, Raised,
       Cancelled, NeverEntered, Moves
  <2> QED
    BY <1>1, <1>4, <2>1, LoadedFrame DEF LossInv, NoSilentLoss
<1> QED
  BY <1>2, <1>3

LEMMA LossStep ==
  ASSUME IInv, EndInv, DiskInv, LossInv, [Next]_vars
  PROVE  LossInv'
<1>1. CASE SaveStep \/ SavesMeet
  <2>1. /\ UNCHANGED <<procVars, queue, running, status, outcome, forfeited>>
        /\ boot # "down"
    BY <1>1, SavesKeepDisk DEF SaveStep, SavesMeet, Snapshot, Publish, taskVars, LossInv,
       EarlyForfeited
  <2>2. CASE boot = "loading"
    <3>1. AllForfeited
      BY <1>1, <2>2, SavesKeepDisk DEF LossInv, EarlyForfeited
    <3>2. AllForfeited' /\ boot' # "down"
      BY <2>1, <3>1 DEF AllForfeited, procVars
    <3> QED
      BY <3>2, ForfeitedFrame
  <2>3. CASE boot # "loading"
    BY <2>1, <2>3, LossFrame, LoadedFrame DEF procVars, LossInv
  <2> QED
    BY <2>2, <2>3
<1>2. CASE Lifecycle
  BY <1>2, LifecycleKeepsItems
<1>3. CASE Calls
  BY <1>3, CallsKeepItems
<1>4. CASE Pop \/ Spawn
  BY <1>4, WorkerKeepsItems
<1>5. CASE \E i \in Items : InstallStep(i)
  BY <1>5, InstallStepsKeepItems
<1>6. CASE UNCHANGED vars
  <2>1. NoSilentLoss'
    BY <1>6, LossFrame DEF vars, procVars, taskVars, fileVars, saveVars, LossInv
  <2>2. InFlight' = InFlight
    BY <1>6 DEF vars, fileVars, saveVars, InFlight
  <2>3. EarlyForfeited'
    BY <1>6, <2>2 DEF vars, procVars, fileVars, saveVars, LossInv, EarlyForfeited, AllForfeited
  <2> QED
    BY <2>1, <2>3 DEF LossInv
<1> QED
  BY <1>1, <1>2, <1>3, <1>4, <1>5, <1>6 DEF Next

-----------------------------------------------------------------------------
(* The three together.                                                     *)

LEMMA FileInit == Init => FileInv
<1> SUFFICES ASSUME Init
             PROVE  FileInv
  OBVIOUS
<1>1. InFlight = {} /\ solo = {} /\ disk = <<>> /\ ToSet(disk) = {}
  BY EmptyKeyedOnce DEF Init, SaveInit, InFlight
<1>2. EarlyForfeited /\ CancelledIsOver /\ SoloHoldsQueue
  BY <1>1 DEF Init, EarlyForfeited, CancelledIsOver, SoloHoldsQueue
<1>3. EndPublished
  BY DEF Init, EndPublished, Unwinding
<1>4. DiskSettled /\ NoSilentLoss
  BY <1>1 DEF Init, DiskSettled, NoSilentLoss
<1> QED
  BY <1>2, <1>3, <1>4 DEF FileInv

LEMMA FileStep == IInv /\ StageInv /\ FileInv /\ [Next]_vars => FileInv'
<1> SUFFICES ASSUME IInv, StageInv, FileInv, [Next]_vars
             PROVE  FileInv'
  OBVIOUS
<1>1. EndInv /\ DiskInv /\ LossInv
  BY FileInvParts
<1>2. EndInv' /\ DiskInv' /\ LossInv'
  BY <1>1, EndStep, DiskStep, LossStep
<1> QED
  BY <1>2 DEF FileInv, EndInv, DiskInv, LossInv

LEMMA FileHolds == Spec => []FileInv
BY FileInit, FileStep, InvHolds, StageHolds, PTL DEF Spec

\* Whenever the saves are over and the last one ran alone and succeeded, the
\* file holds the pending items: no change of the queue is left behind, in
\* whatever order loads, calls, pops, saves and stops fall, unless what is in
\* the file was saved by a call which the load has overrun.
THEOREM SettledFileIsQueue == Spec => []DiskSettled
<1>1. FileInv => DiskSettled
  BY DEF FileInv
<1> QED
  BY <1>1, FileHolds, PTL

\* An accepted item is pending, in its slot or has published its end, through
\* any number of cancels, stops, crashes and restarts and however early a call
\* comes, but for what an exit or an early call forfeits.
THEOREM AcceptedIsNeverLost == Spec => []NoSilentLoss
<1>1. FileInv => NoSilentLoss
  BY DEF FileInv
<1> QED
  BY <1>1, FileHolds, PTL

\* The verdicts of one item.
LEMMA VerdictStep ==
  ASSUME IInv, EndInv, [Next]_vars, NEW i \in Items, outcome[i] # {}
  PROVE  outcome'[i] \subseteq outcome[i] \cup {"cancelled"}
<1>1. CASE SaveStep \/ SavesMeet
  BY <1>1 DEF SaveStep, SavesMeet, Snapshot, Publish
<1>2. CASE Lifecycle
  BY <1>2 DEF Lifecycle, StartLoad, LoadRead, LoadAssign, StopEarly, Stop, StopDone, Exit
<1>3. CASE Calls
  BY <1>3 DEF Calls, Add, CancelRunning, CancelQueued, CancelEmit, IInv, TypeOK
<1>4. CASE Pop \/ Spawn
  BY <1>4 DEF Pop, Spawn
<1>5. ASSUME NEW j \in Items, InstallStep(j)
      PROVE  outcome'[i] \subseteq outcome[i] \cup {"cancelled"}
  <2>1. CASE j # i
    BY <1>5, <2>1, InstallStepTouches
  <2>2. CASE j = i
    <3>1. install[i] \notin {"created", "active", "warming", "finishing"}
      BY DEF EndInv, EndPublished
    <3>2. Cancelled(i) \/ Finish(i) \/ NeverEntered(i)
      BY <1>5, <2>2, <3>1 DEF InstallStep, Reject, Begin, Installed, WarmedUp, Complete,
         InstallFailed, Raised, Resumes
    <3> QED
      BY <3>2 DEF Cancelled, Moves, Finish, NeverEntered, IInv, TypeOK
  <2> QED
    BY <2>1, <2>2
<1>6. CASE UNCHANGED vars
  BY <1>6 DEF vars
<1> QED
  BY <1>1, <1>2, <1>3, <1>4, <1>5, <1>6 DEF Next

\* An install publishes one verdict, and after it at most a cancellation: no
\* step of any actor adds a second one.
THEOREM VerdictIsFinal == Spec => OneVerdict
<1> DEFINE A == \A i \in Items : outcome[i] # {} => outcome'[i] \subseteq outcome[i] \cup {"cancelled"}
<1>1. IInv /\ FileInv /\ [Next]_vars => [A]_vars
  BY VerdictStep, FileInvParts
<1>2. Spec => [][A]_vars
  BY <1>1, InvHolds, FileHolds, PTL DEF Spec
<1> QED
  BY <1>2 DEF OneVerdict
=============================================================================
