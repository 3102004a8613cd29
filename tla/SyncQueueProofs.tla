-------------------------- MODULE SyncQueueProofs --------------------------
(***************************************************************************)
(* The library sync, for every set of requests, number of stores and of    *)
(* runs: types, and the three safety properties of SyncService.            *)
(*                                                                         *)
(* The inductive invariant says what a run that is cancelled remembers     *)
(* (StopSticks), that the lock and the run are one (LockedRun), and where  *)
(* the last change of the install state is while it is not in the library: *)
(* at the end of the queue of the lock (LastFlipIsDisk).                   *)
(***************************************************************************)
EXTENDS SyncQueue, TLAPS

\* A run that asks for another store has one left.
StoresLeft == pc \in {"progress", "fetching"} => stores.done < stores.available

\* A run is under way exactly while some call holds the lock.
LockedRun == Held <=> Running

\* What is cancelled before its last fetch is over stays cancelled and is not
\* finalized; a run that is still fetching is not.
StopSticks ==
  /\ stopped => cancelled /\ ~finalized
  /\ pc \in {"setup", "starting", "progress", "fetching"} => ~finalized

\* The places of the lock's queue where an install state waits.
Flips == {n \in DOMAIN waiting : waiting[n] \in BOOLEAN}

\* The last of them is what the disk holds.
LastFlipIsDisk ==
  ~flipLost => \A n \in Flips : waiting[n] = installed \/ \E m \in Flips : m > n

\* With none waiting, nothing the library holds or may still be given
\* contradicts the disk.
NothingStale ==
  ~flipLost /\ Flips = {} =>
    /\ library \in {"absent", OnDisk}
    /\ Held => fetched \in {"absent", OnDisk}
    /\ single \in {"none", OnDisk}

IInv ==
  /\ TypeOK
  /\ StoresLeft
  /\ LockedRun
  /\ StopSticks
  /\ StrandedOnlyBehind
  /\ LastFlipIsDisk
  /\ NothingStale

-----------------------------------------------------------------------------
(* The queue of the lock.                                                  *)

LEMMA RemoveAtIsSeq ==
  ASSUME NEW S, NEW s \in Seq(S), NEW n \in DOMAIN s
  PROVE  RemoveAt(s, n) \in Seq(S)
  <1>1. n \in 1..Len(s) /\ Len(s) \in Nat
    OBVIOUS
  <1>2. SubSeq(s, 1, n-1) \in Seq(S) /\ SubSeq(s, n+1, Len(s)) \in Seq(S)
    BY <1>1
  <1>3. QED
    BY <1>2 DEF RemoveAt

\* A call joins the end: the install states that wait stay where they are.
LEMMA JoinKeepsFlips ==
  ASSUME waiting \in Seq(Requests \cup BOOLEAN), NEW r \in Requests \cup BOOLEAN,
         waiting' = Append(waiting, r)
  PROVE  /\ waiting' \in Seq(Requests \cup BOOLEAN)
         /\ DOMAIN waiting' = DOMAIN waiting \cup {Len(waiting) + 1}
         /\ \A n \in DOMAIN waiting : waiting'[n] = waiting[n]
         /\ waiting'[Len(waiting) + 1] = r
         /\ \A n \in DOMAIN waiting : n \in Nat /\ n < Len(waiting) + 1
         /\ Len(waiting) \in Nat
  OBVIOUS

\* The first leaves: the others move up by one place.
LEMMA LeaveShiftsFlips ==
  ASSUME waiting \in Seq(Requests \cup BOOLEAN), waiting # <<>>,
         waiting' = Tail(waiting)
  PROVE  /\ waiting' \in Seq(Requests \cup BOOLEAN)
         /\ 1 \in DOMAIN waiting /\ Head(waiting) = waiting[1]
         /\ DOMAIN waiting \subseteq Nat \ {0} /\ DOMAIN waiting' \subseteq Nat \ {0}
         /\ \A n \in Nat \ {0} : n \in DOMAIN waiting' <=> n + 1 \in DOMAIN waiting
         /\ \A n \in DOMAIN waiting' : waiting'[n] = waiting[n + 1]
  OBVIOUS

-----------------------------------------------------------------------------
(* A run begins.                                                           *)

\* Whoever gets the lock, the run it begins has fetched nothing and has not
\* been cancelled.
LEMMA RunStarts ==
  ASSUME IInv, NEW h \in Requests, NEW requests \in SUBSET Requests, Run(h, requests)
  PROVE  /\ RunTypeOK' /\ StoresLeft' /\ LockedRun' /\ StopSticks'
         /\ Held' /\ StrandedOnlyBehind'
         /\ holder' \in Requests /\ serving' \subseteq Requests
         /\ fetched' = "absent" /\ stopped' = FALSE
         /\ UNCHANGED <<library, single, installed, others, stranding, flipLost>>
  <1> USE DEF Run, RunBegins, IInv, TypeOK, RunTypeOK
  <1>1. RunTypeOK'
    <2>1. runs' \in 0..MaxRuns
      BY RunsAssumption
    <2>2. stores' \in [available : 0..NumStores, done : 0..NumStores]
      BY RunsAssumption
    <2>3. QED
      BY <2>1, <2>2
  <1>2. Held' /\ Running'
    BY RequestsAssumption DEF Held, Running
  <1>3. StoresLeft' /\ LockedRun' /\ StopSticks' /\ StrandedOnlyBehind'
    BY <1>2 DEF StoresLeft, LockedRun, StopSticks, StrandedOnlyBehind
  <1>4. QED
    BY <1>1, <1>2, <1>3

\* sync_all: queued, behind the lock, or a run at once.
LEMMA SyncAllKeepsInv ==
  ASSUME IInv, NEW r \in Requests, SyncAll(r)
  PROVE  IInv'
  <1> USE DEF IInv
  <1>1. call' \in [Requests -> {"new", "waiting", "running", "queued", "done"}]
    BY DEF SyncAll, Calls, TypeOK
  <1>2. CASE /\ Held /\ queued' = queued \cup {r}
             /\ UNCHANGED waiting /\ NoRun
    <2>1. TypeOK'
      BY <1>1, <1>2 DEF NoRun, TypeOK, RunTypeOK, runVars, gameVars, watchVars
    <2>2. Held' /\ StrandedOnlyBehind'
      BY <1>2 DEF NoRun, Held, StrandedOnlyBehind
    <2>3. QED
      BY <1>2, <2>1, <2>2 DEF NoRun, runVars, gameVars, watchVars, StoresLeft, LockedRun,
         Held, Running, StopSticks, Flips, LastFlipIsDisk, NothingStale, OnDisk
  <1>3. CASE waiting' = Append(waiting, r) /\ UNCHANGED queued /\ NoRun
    <2>1. TypeOK'
      BY <1>1, <1>3, JoinKeepsFlips DEF NoRun, TypeOK, RunTypeOK, runVars, gameVars, watchVars
    <2>2. Flips' = Flips /\ \A n \in Flips : waiting'[n] = waiting[n]
      BY <1>3, JoinKeepsFlips, RequestsAssumption DEF Flips, TypeOK
    <2>3. LastFlipIsDisk'
      BY <1>3, <2>2 DEF LastFlipIsDisk, NoRun, gameVars, watchVars
    <2>4. NothingStale'
      BY <1>3, <2>2 DEF NothingStale, NoRun, gameVars, watchVars, Held, OnDisk
    <2>5. QED
      BY <1>3, <2>1, <2>3, <2>4 DEF NoRun, runVars, watchVars, StoresLeft, LockedRun, Held,
         Running, StopSticks, StrandedOnlyBehind
  <1>4. CASE ~Held /\ waiting = <<>> /\ Run(r, {r}) /\ UNCHANGED <<waiting, queued>>
    <2>1. /\ RunTypeOK' /\ StoresLeft' /\ LockedRun' /\ StopSticks' /\ StrandedOnlyBehind'
          /\ holder' \in Requests /\ serving' \subseteq Requests
          /\ fetched' = "absent" /\ stopped' = FALSE
          /\ UNCHANGED <<library, single, installed, others, stranding, flipLost>>
      BY <1>4, RunStarts
    <2>2. TypeOK'
      BY <1>1, <1>4, <2>1 DEF TypeOK
    <2>3. LastFlipIsDisk' /\ NothingStale'
      BY <1>4, <2>1 DEF LastFlipIsDisk, NothingStale, Flips, OnDisk
    <2>4. QED
      BY <2>1, <2>2, <2>3
  <1>5. QED
    BY <1>2, <1>3, <1>4 DEF SyncAll

\* The first waiter takes the lock; those behind it move up.
LEMMA AcquireKeepsInv ==
  ASSUME IInv, Acquire
  PROVE  IInv'
  <1> USE DEF IInv, Acquire
  <1>1. /\ RunTypeOK' /\ StoresLeft' /\ LockedRun' /\ StopSticks' /\ StrandedOnlyBehind'
        /\ holder' \in Requests /\ serving' \subseteq Requests
        /\ fetched' = "absent" /\ stopped' = FALSE
        /\ UNCHANGED <<library, single, installed, others, stranding, flipLost>>
    BY RunStarts
  <1>2. /\ waiting' \in Seq(Requests \cup BOOLEAN)
        /\ 1 \in DOMAIN waiting /\ Head(waiting) = waiting[1]
        /\ DOMAIN waiting \subseteq Nat \ {0} /\ DOMAIN waiting' \subseteq Nat \ {0}
        /\ \A n \in Nat \ {0} : n \in DOMAIN waiting' <=> n + 1 \in DOMAIN waiting
        /\ \A n \in DOMAIN waiting' : waiting'[n] = waiting[n + 1]
    BY LeaveShiftsFlips DEF TypeOK
  <1>3. TypeOK'
    BY <1>1, <1>2 DEF TypeOK, Calls
  <1>4. 1 \notin Flips
    BY <1>2, RequestsAssumption DEF Flips
  <1>5. \A n \in Nat \ {0} : n \in Flips' <=> n + 1 \in Flips
    BY <1>2 DEF Flips
  <1>6. LastFlipIsDisk'
    <2> SUFFICES ASSUME ~flipLost', NEW n \in Flips'
                 PROVE  waiting'[n] = installed' \/ \E m \in Flips' : m > n
      BY DEF LastFlipIsDisk
    <2>1. n \in Nat \ {0} /\ n + 1 \in Flips /\ waiting'[n] = waiting[n + 1]
      BY <1>2, <1>5 DEF Flips
    <2>2. CASE waiting[n + 1] = installed
      BY <1>1, <2>1, <2>2
    <2>3. CASE \E m \in Flips : m > n + 1
      <3>1. PICK m \in Flips : m > n + 1
        BY <2>3
      <3>2. m \in Nat \ {0} /\ m - 1 \in Nat \ {0} /\ (m - 1) + 1 = m /\ m - 1 > n
        BY <1>2, <2>1, <3>1 DEF Flips
      <3>3. QED
        BY <1>5, <3>2
    <2>4. QED
      BY <1>1, <2>1, <2>2, <2>3 DEF LastFlipIsDisk
  <1>7. Flips' = {} => Flips = {}
    <2>1. \A n \in Flips : n # 1 /\ n - 1 \in Nat \ {0} /\ (n - 1) + 1 = n
      BY <1>2, <1>4 DEF Flips
    <2>2. QED
      BY <1>5, <2>1
  <1>8. NothingStale'
    BY <1>1, <1>7 DEF NothingStale, OnDisk
  <1>9. QED
    BY <1>1, <1>3, <1>6, <1>8

\* A run for what was queued follows at once: the caller keeps the lock.
LEMMA DrainKeepsInv ==
  ASSUME IInv, Drain
  PROVE  IInv'
  <1> USE DEF IInv, Drain
  <1>1. holder \in Requests
    BY DEF Through, LockedRun, Running, Held, TypeOK
  <1>2. /\ RunTypeOK' /\ StoresLeft' /\ LockedRun' /\ StopSticks' /\ StrandedOnlyBehind'
        /\ holder' \in Requests /\ serving' \subseteq Requests
        /\ fetched' = "absent" /\ stopped' = FALSE
        /\ UNCHANGED <<library, single, installed, others, stranding, flipLost>>
    BY <1>1, RunStarts DEF TypeOK
  <1>3. TypeOK'
    BY <1>2 DEF TypeOK
  <1>4. LastFlipIsDisk' /\ NothingStale'
    BY <1>2 DEF LastFlipIsDisk, NothingStale, Flips, OnDisk
  <1>5. QED
    BY <1>2, <1>3, <1>4

-----------------------------------------------------------------------------
(* The run.                                                                *)

\* Each stretch of a run keeps what the run knows of itself, whatever the
\* stores answer.
LEMMA StretchKeepsRun ==
  ASSUME RunTypeOK, StoresLeft,
         \/ SetUp \/ NoStores \/ NextStore \/ GiveUp \/ FetchStarts \/ Finalize
         \/ Delivered \/ Skips
  PROVE  RunTypeOK' /\ StoresLeft'
  <1> USE RunsAssumption DEF RunTypeOK, StoresLeft
  <1>1. CASE SetUp \/ NoStores \/ FetchStarts \/ Delivered \/ Skips
    BY <1>1 DEF SetUp, NoStores, FetchStarts, Delivered, Skips
  <1>2. CASE AtCheck
    <2>1. /\ stores' \in [available : 0..NumStores, done : 0..NumStores]
          /\ stores'.available = stores.available
      <3>1. CASE stores' = stores
        BY <3>1
      <3>2. CASE FetchOver
        <4>1. stores.done + 1 \in 0..NumStores
          BY <3>2 DEF FetchOver
        <4>2. QED
          BY <3>2, <4>1 DEF FetchOver
      <3>3. QED
        BY <1>2, <3>1, <3>2 DEF AtCheck
    <2>2. CASE NextStore
      BY <2>1, <2>2 DEF NextStore
    <2>3. CASE GiveUp
      BY <2>1, <2>3 DEF GiveUp
    <2>4. CASE Finalize
      BY <2>1, <2>4 DEF Finalize
    <2>5. QED
      BY <1>1, <2>2, <2>3, <2>4
  <1>3. QED
    BY <1>1, <1>2 DEF NextStore, GiveUp, Finalize, AtCheck

\* A stretch of a run replaces the library by what its first fetch found on
\* disk, or by nothing, and only when nobody has cancelled it.
LEMMA MovesKeepInv ==
  ASSUME IInv, Moves
  PROVE  IInv'
  <1> USE DEF IInv, Moves
  <1>1. \/ SetUp \/ NoStores \/ NextStore \/ GiveUp \/ FetchStarts \/ Finalize
        \/ Delivered \/ Skips
    OBVIOUS
  <1>2. RunTypeOK' /\ StoresLeft'
    BY <1>1, StretchKeepsRun DEF TypeOK
  <1>3. fetched' \in {fetched, "absent", OnDisk}
    BY DEF Learn
  <1>4. OnDisk' = OnDisk /\ OnDisk \in {"owned", "installed"}
    BY DEF OnDisk
  <1>5. library' \in {library, fetched'}
    OBVIOUS
  <1>6. TypeOK'
    BY <1>2, <1>3, <1>4, <1>5 DEF TypeOK, callVars, watchVars
  <1>7. Running /\ Running'
    BY <1>1 DEF Running, SetUp, NoStores, NextStore, GiveUp, FetchStarts, Finalize, Delivered,
       Skips, AtCheck, FetchOver
  <1>8. Held /\ Held' /\ LockedRun'
    BY <1>7 DEF LockedRun, Held, callVars
  <1>9. StopSticks'
    BY <1>1 DEF StopSticks, watchVars, SetUp, NoStores, NextStore, GiveUp, FetchStarts,
       Finalize, Delivered, Skips, AtCheck, FetchOver
  <1>10. StrandedOnlyBehind'
    BY <1>8 DEF StrandedOnlyBehind
  <1>11. LastFlipIsDisk'
    BY DEF LastFlipIsDisk, Flips, callVars, watchVars
  <1>12. NothingStale'
    BY <1>3, <1>4, <1>5, <1>8 DEF NothingStale, Flips, callVars, watchVars
  <1>13. QED
    BY <1>2, <1>6, <1>8, <1>9, <1>10, <1>11, <1>12

\* A run gives the lock back: at its end, behind a forced call or by an
\* exception.  What is queued is left behind in the last two only.
LEMMA EndsKeepInv ==
  ASSUME IInv, ForcedReturns \/ Returns \/ CallRaises
  PROVE  IInv'
  <1> USE DEF IInv
  <1>1. /\ Release
        /\ RunEnds \/ Raises
        /\ stranding' \in BOOLEAN /\ (queued # {} => stranding')
    BY DEF ForcedReturns, Returns, CallRaises
  <1>2. /\ pc' = "idle" /\ UNCHANGED <<runs, cancelled, signals, finalized>>
        /\ stores' \in [available : 0..NumStores, done : 0..NumStores]
    BY <1>1 DEF RunEnds, Raises, FetchOver, StoresLeft, TypeOK, RunTypeOK
  <1>3. TypeOK' /\ StoresLeft'
    BY <1>1, <1>2 DEF Release, TypeOK, RunTypeOK, StoresLeft, gameVars
  <1>4. ~Held' /\ LockedRun'
    BY <1>1, <1>2 DEF Release, Held, LockedRun, Running
  <1>5. StopSticks' /\ StrandedOnlyBehind'
    BY <1>1, <1>2 DEF Release, StopSticks, StrandedOnlyBehind
  <1>6. LastFlipIsDisk' /\ NothingStale'
    BY <1>1, <1>4 DEF Release, LastFlipIsDisk, NothingStale, Flips, OnDisk, gameVars
  <1>7. QED
    BY <1>3, <1>4, <1>5, <1>6

\* A cancellation before the last fetch is over is remembered by its run.
LEMMA CancelsKeepInv ==
  ASSUME IInv, Cancel \/ CancelDelivered
  PROVE  IInv'
  <1> USE DEF IInv
  <1>1. /\ UNCHANGED <<runs, pc, stores, finalized, callVars, gameVars, stranding, flipLost>>
        /\ \/ Cancel /\ cancelled' = TRUE
           \/ UNCHANGED <<cancelled, stopped>>
    BY DEF Cancel, CancelRun, CancelDelivered, SignalDelivered, watchVars
  <1>2. signals' \in Nat /\ others' \in 0..MaxOthers
    BY CallsAssumption DEF Cancel, CancelRun, CancelDelivered, SignalDelivered, TypeOK,
       RunTypeOK
  <1>3. /\ cancelled' \in BOOLEAN /\ stopped' \in BOOLEAN
        /\ stopped' => cancelled' /\ ~finalized
    <2>1. CASE Cancel
      BY <1>1, <2>1 DEF Cancel, CancelRun, StopSticks, TypeOK, RunTypeOK
    <2>2. CASE UNCHANGED <<cancelled, stopped>>
      BY <2>2 DEF StopSticks, TypeOK, RunTypeOK
    <2>3. QED
      BY <1>1, <2>1, <2>2
  <1>4. TypeOK'
    BY <1>1, <1>2, <1>3 DEF TypeOK, RunTypeOK, callVars, gameVars
  <1>5. QED
    BY <1>1, <1>3, <1>4 DEF StoresLeft, StopSticks, LockedRun, Held, Running,
       StrandedOnlyBehind, LastFlipIsDisk, NothingStale, Flips, OnDisk, callVars, gameVars

-----------------------------------------------------------------------------
(* The game: syncs of the store alone, and install states that wait.       *)

LEMMA SingleKeepsInv ==
  ASSUME IInv, SingleFetched \/ SingleWritten
  PROVE  IInv'
  <1> USE DEF IInv, SingleFetched, SingleWritten
  <1>1. TypeOK'
    BY CallsAssumption DEF TypeOK, RunTypeOK, OnDisk, runVars, callVars, watchVars
  <1>2. UNCHANGED <<runVars, callVars, fetched, installed, watchVars>>
    OBVIOUS
  <1>3. NothingStale'
    BY <1>2 DEF NothingStale, Flips, OnDisk, Held, callVars, watchVars
  <1>4. QED
    BY <1>1, <1>2, <1>3 DEF runVars, callVars, watchVars, StoresLeft, LockedRun, Held, Running,
       StopSticks, StrandedOnlyBehind, LastFlipIsDisk, Flips

\* A change of the install state joins the queue of the lock: it is the last.
LEMMA FlipKeepsInv ==
  ASSUME IInv, Flip
  PROVE  IInv'
  <1> USE DEF IInv, Flip
  <1>1. /\ waiting' \in Seq(Requests \cup BOOLEAN)
        /\ DOMAIN waiting' = DOMAIN waiting \cup {Len(waiting) + 1}
        /\ waiting'[Len(waiting) + 1] = installed'
        /\ \A n \in DOMAIN waiting : n \in Nat /\ n < Len(waiting) + 1
        /\ Len(waiting) \in Nat
    BY JoinKeepsFlips DEF TypeOK
  <1>2. TypeOK'
    BY <1>1, CallsAssumption DEF TypeOK, RunTypeOK, runVars, watchVars
  <1>3. Len(waiting) + 1 \in Flips'
    BY <1>1, <1>2 DEF Flips, TypeOK
  <1>4. LastFlipIsDisk'
    BY <1>1, <1>3 DEF LastFlipIsDisk, Flips
  <1>5. NothingStale'
    BY <1>3 DEF NothingStale
  <1>6. QED
    BY <1>2, <1>4, <1>5 DEF runVars, watchVars, StoresLeft, LockedRun, Held, Running,
       StopSticks, StrandedOnlyBehind

\* A handler the bus has given up on: nothing is owed any more.
LEMMA TimeoutKeepsInv ==
  ASSUME IInv, FlipTimesOut
  PROVE  IInv'
  <1> USE DEF IInv
  <1>1. PICK n \in DOMAIN waiting :
          /\ waiting' = RemoveAt(waiting, n) /\ flipLost' = TRUE
          /\ UNCHANGED <<runVars, call, holder, queued, serving, gameVars, others,
                         stopped, stranding>>
    BY DEF FlipTimesOut
  <1>2. waiting' \in Seq(Requests \cup BOOLEAN)
    BY <1>1, RemoveAtIsSeq DEF TypeOK
  <1>3. TypeOK'
    BY <1>1, <1>2 DEF TypeOK, RunTypeOK, runVars, gameVars
  <1>4. QED
    BY <1>1, <1>3 DEF runVars, gameVars, StoresLeft, LockedRun, Held, Running, StopSticks,
       StrandedOnlyBehind, LastFlipIsDisk, NothingStale

\* The handler at the head of the queue writes what it waited with.  If it was
\* the last, that is what the disk holds.
LEMMA RecordKeepsInv ==
  ASSUME IInv, FlipRecorded
  PROVE  IInv'
  <1> USE DEF IInv
  <1>0. /\ ~Held /\ waiting # <<>> /\ Head(waiting) \in BOOLEAN
        /\ waiting' = Tail(waiting)
        /\ library' = IF library = "absent" THEN "absent"
                      ELSE IF Head(waiting) THEN "installed" ELSE "owned"
        /\ flipLost' \in BOOLEAN /\ (~flipLost' => ~flipLost /\ single = "none")
        /\ UNCHANGED <<runVars, call, holder, queued, serving, fetched, single, installed,
                       others, stopped, stranding>>
    BY DEF FlipRecorded, TypeOK
  <1>1. /\ waiting' \in Seq(Requests \cup BOOLEAN)
        /\ 1 \in DOMAIN waiting /\ Head(waiting) = waiting[1]
        /\ DOMAIN waiting \subseteq Nat \ {0} /\ DOMAIN waiting' \subseteq Nat \ {0}
        /\ \A n \in Nat \ {0} : n \in DOMAIN waiting' <=> n + 1 \in DOMAIN waiting
        /\ \A n \in DOMAIN waiting' : waiting'[n] = waiting[n + 1]
    BY <1>0, LeaveShiftsFlips DEF TypeOK
  <1>2. TypeOK'
    <2>1. library' \in {"absent", "owned", "installed"}
      BY <1>0
    <2>2. RunTypeOK'
      BY <1>0 DEF TypeOK, RunTypeOK, runVars
    <2>3. QED
      BY <1>0, <1>1, <2>1, <2>2 DEF TypeOK
  <1>3. /\ 1 \in Flips /\ ~Held'
        /\ \A n \in Flips : n \in Nat \ {0}
    BY <1>0, <1>1 DEF Flips, Held
  <1>4. \A n \in Nat \ {0} : n \in Flips' <=> n + 1 \in Flips
    BY <1>1 DEF Flips
  <1>5. LastFlipIsDisk'
    <2> SUFFICES ASSUME ~flipLost', NEW n \in Flips'
                 PROVE  waiting'[n] = installed' \/ \E m \in Flips' : m > n
      BY DEF LastFlipIsDisk
    <2>1. n \in Nat \ {0} /\ n + 1 \in Flips /\ waiting'[n] = waiting[n + 1] /\ ~flipLost
      BY <1>0, <1>1, <1>4 DEF Flips
    <2>2. CASE waiting[n + 1] = installed
      BY <1>0, <2>1, <2>2
    <2>3. CASE \E m \in Flips : m > n + 1
      <3>1. PICK m \in Flips : m > n + 1
        BY <2>3
      <3>2. m \in Nat \ {0} /\ n \in Nat \ {0}
        BY <1>3, <2>1
      <3>3. m - 1 \in Nat \ {0} /\ (m - 1) + 1 = m /\ m - 1 > n
        BY <3>1, <3>2
      <3>4. QED
        BY <1>4, <3>2, <3>3
    <2>4. QED
      BY <2>1, <2>2, <2>3 DEF LastFlipIsDisk
  <1>6. NothingStale'
    <2> SUFFICES ASSUME ~flipLost', Flips' = {}
                 PROVE  library' \in {"absent", OnDisk'} /\ single' \in {"none", OnDisk'}
      BY <1>3 DEF NothingStale
    <2>1. \A n \in Flips : ~(n > 1)
      <3> SUFFICES ASSUME NEW n \in Flips, n > 1
                   PROVE  FALSE
        OBVIOUS
      <3>1. n \in Nat \ {0}
        BY <1>3
      <3>2. n - 1 \in Nat \ {0} /\ (n - 1) + 1 = n
        BY <3>1
      <3>3. QED
        BY <1>4, <3>2
    <2>2. ~flipLost /\ single = "none"
      BY <1>0
    <2>3. waiting[1] = installed
      BY <1>3, <2>1, <2>2 DEF LastFlipIsDisk
    <2>4. QED
      BY <1>0, <1>1, <2>2, <2>3 DEF OnDisk
  <1>7. QED
    BY <1>0, <1>2, <1>5, <1>6 DEF runVars, StoresLeft, LockedRun, Held, Running, StopSticks,
       StrandedOnlyBehind

-----------------------------------------------------------------------------
LEMMA InvStep == IInv /\ [Next]_vars => IInv'
  <1> SUFFICES ASSUME IInv, [Next]_vars
               PROVE  IInv'
    OBVIOUS
  <1>1. CASE Next
    BY <1>1, SyncAllKeepsInv, AcquireKeepsInv, RecordKeepsInv, MovesKeepInv, EndsKeepInv,
       DrainKeepsInv, SingleKeepsInv, CancelsKeepInv, FlipKeepsInv, TimeoutKeepsInv
    DEF Next, LockStep, RunStep, SingleStep
  <1>2. CASE UNCHANGED vars
    BY <1>2 DEF vars, runVars, callVars, gameVars, watchVars, IInv, TypeOK, RunTypeOK,
       StoresLeft, LockedRun, Held, Running, StopSticks, StrandedOnlyBehind, LastFlipIsDisk,
       NothingStale, Flips, OnDisk
  <1>3. QED
    BY <1>1, <1>2

LEMMA InvHolds == Spec => []IInv
  <1>1. Init => IInv
    <2> SUFFICES ASSUME Init
                 PROVE  IInv
      OBVIOUS
    <2>1. RunTypeOK
      <3>1. 0 \in 0..MaxRuns /\ 0 \in 0..NumStores
        BY RunsAssumption
      <3>2. QED
        BY <3>1 DEF Init, RunInit, RunTypeOK
    <2>2. others \in 0..MaxOthers /\ waiting \in Seq(Requests \cup BOOLEAN)
      BY CallsAssumption DEF Init
    <2>3. TypeOK
      BY <2>1, <2>2 DEF Init, TypeOK
    <2>4. QED
      BY <2>3, RequestsAssumption DEF Init, RunInit, IInv, StoresLeft, LockedRun, Held, Running,
         StopSticks, StrandedOnlyBehind, LastFlipIsDisk, NothingStale, Flips, OnDisk
  <1>2. QED
    BY <1>1, InvStep, PTL DEF Spec

\* Types of the sync: no store beyond the last is fetched, and only a call
\* that was made holds the lock.
THEOREM TypeCorrect == Spec => []TypeOK
  BY InvHolds, PTL DEF IInv

\* A request is left in the queue with the lock free only behind a forced call
\* or an exception, however the calls, runs and cancellations interleave.
THEOREM QueueServedOnRelease == Spec => []StrandedOnlyBehind
  BY InvHolds, PTL DEF IInv

\* A run cancelled before its last fetch is over never replaces the library.
THEOREM CancelledRunKeepsLibrary == Spec => []CancelKeepsLibrary
  <1>1. IInv => CancelKeepsLibrary
    BY DEF IInv, StopSticks, CancelKeepsLibrary
  <1>2. QED
    BY <1>1, InvHolds, PTL

\* With the lock free and no handler waiting, the library agrees with the disk
\* about the game, for every number of installs, removals, runs and syncs.
THEOREM LibraryAgreesWithDisk == Spec => []LibraryTracksInstalls
  <1>1. IInv => LibraryTracksInstalls
    BY DEF IInv, TypeOK, NothingStale, Flips, LibraryTracksInstalls
  <1>2. QED
    BY <1>1, InvHolds, PTL
=============================================================================
