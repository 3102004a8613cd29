----------------------------- MODULE SyncQueue -----------------------------
(***************************************************************************)
(* SyncService (core/sync_service.py): one run at a time behind a lock,    *)
(* requests that arrive meanwhile merged into one pending request, the     *)
(* library a run replaces and the install-state changes that wait for the  *)
(* lock to be recorded in it.                                              *)
(*                                                                         *)
(* asyncio.Lock is fair: a caller that finds it taken, or others waiting,  *)
(* joins the end of the queue, and a waiter takes the lock in a step of    *)
(* its own after it was released.  A sync of one store takes no lock.      *)
(***************************************************************************)
EXTENDS SyncRun, Sequences, SequencesExt

CONSTANTS
  Requests,    \* the calls of sync_all
  Forced,      \* those with force=True, which bypass the queue
  NoArtwork,   \* those with fetch_artwork=False
  NoCaller,    \* the lock is free
  MaxOthers    \* bound: calls of cancel, installs and removals of the game, and
               \* syncs of the one store

ASSUME RequestsAssumption ==
  /\ Forced \subseteq Requests /\ NoArtwork \subseteq Requests
  /\ NoCaller \notin Requests /\ Requests \cap BOOLEAN = {}
ASSUME CallsAssumption == MaxOthers \in Nat

VARIABLES
  call,       \* where each call of sync_all is
  holder,     \* the call that holds _lock
  waiting,    \* the waiters of _lock: calls, and install states to record
  queued,     \* _pending_request: the requests merged into it
  serving,    \* the requests the current run is for
  fetched,    \* libraries: what the run has learned of one game, of store one
  single,     \* the same of a sync of store one alone, or none is under way
  library,    \* _all_games: what it holds of the game
  installed,  \* the game is installed, on disk
  others,     \* how many of them there were
  stopped,    \* observer: the run was cancelled before its last fetch was over
  stranding,  \* observer: the last run released the lock without a look at queued
  flipLost    \* observer: an install state did not last: the bus gave up on its
              \* handler, or a sync of the store wrote what it had fetched before

callVars == <<call, holder, waiting, queued, serving>>
gameVars == <<fetched, single, library, installed>>
watchVars == <<stopped, stranding, flipLost>>
vars == <<runVars, callVars, gameVars, others, watchVars>>

Held == holder # NoCaller
OnDisk == IF installed THEN "installed" ELSE "owned"

TypeOK ==
  /\ RunTypeOK
  /\ call \in [Requests -> {"new", "waiting", "running", "queued", "done"}]
  /\ holder \in Requests \cup {NoCaller}
  /\ waiting \in Seq(Requests \cup BOOLEAN)
  /\ queued \subseteq Requests /\ serving \subseteq Requests
  /\ fetched \in {"absent", "owned", "installed"}
  /\ single \in {"none", "owned", "installed"}
  /\ library \in {"absent", "owned", "installed"}
  /\ installed \in BOOLEAN
  /\ others \in 0..MaxOthers
  /\ stopped \in BOOLEAN /\ stranding \in BOOLEAN /\ flipLost \in BOOLEAN

Init ==
  /\ RunInit
  /\ call = [r \in Requests |-> "new"]
  /\ holder = NoCaller /\ waiting = <<>> /\ queued = {} /\ serving = {}
  /\ fetched = "absent" /\ single = "none" /\ library = "absent" /\ installed = FALSE
  /\ others = 0
  /\ stopped = FALSE /\ stranding = FALSE /\ flipLost = FALSE

-----------------------------------------------------------------------------
(* The lock and the queue.                                                 *)

\* h holds the lock, and a run for these requests begins.
Run(h, requests) ==
  /\ RunBegins
  /\ holder' = h /\ serving' = requests /\ fetched' = "absent" /\ stopped' = FALSE
  /\ UNCHANGED <<library, single, installed, others, stranding, flipLost>>

Calls(r, state) == call' = [call EXCEPT ![r] = state]
NoRun == UNCHANGED <<runVars, holder, serving, gameVars, others, watchVars>>

\* Mutant: a queued request replaces the one before it.
SyncAllReplacing(r) ==
  /\ call[r] = "new"
  /\ \/ /\ Held /\ r \notin Forced
        /\ Calls(r, "queued") /\ queued' = {r}
        /\ UNCHANGED waiting /\ NoRun
     \/ /\ IF Held THEN r \in Forced ELSE waiting # <<>>
        /\ Calls(r, "waiting") /\ waiting' = Append(waiting, r)
        /\ UNCHANGED queued /\ NoRun
     \/ /\ ~Held /\ waiting = <<>>
        /\ Calls(r, "running") /\ Run(r, {r})
        /\ UNCHANGED <<waiting, queued>>

\* sync_all, _enqueue.  A forced call goes straight to the lock.
SyncAll(r) ==
  /\ call[r] = "new"
  /\ \/ /\ Held /\ r \notin Forced
        /\ Calls(r, "queued") /\ queued' = queued \cup {r}
        /\ UNCHANGED waiting /\ NoRun
     \/ /\ IF Held THEN r \in Forced ELSE waiting # <<>>
        /\ Calls(r, "waiting") /\ waiting' = Append(waiting, r)
        /\ UNCHANGED queued /\ NoRun
     \/ /\ ~Held /\ waiting = <<>>
        /\ Calls(r, "running") /\ Run(r, {r})
        /\ UNCHANGED <<waiting, queued>>

\* The first waiter, a call, takes the lock.
Acquire ==
  /\ ~Held /\ waiting # <<>> /\ Head(waiting) \in Requests
  /\ waiting' = Tail(waiting)
  /\ Calls(Head(waiting), "running") /\ Run(Head(waiting), {Head(waiting)})
  /\ UNCHANGED queued

\* The caller lets go of the lock.
Release ==
  /\ holder' = NoCaller /\ serving' = {}
  /\ call' = [r \in Requests |-> IF r \in serving \cup {holder} THEN "done" ELSE call[r]]
  /\ UNCHANGED <<waiting, queued, gameVars, others, stopped, flipLost>>

\* A forced call returns as soon as its run is over.
ForcedReturns ==
  /\ holder \in Forced /\ RunEnds /\ Release /\ stranding' = TRUE

\* Mutant: a run that was cancelled returns before the queue is read.
ReturnsIfCancelled ==
  /\ holder \notin Forced /\ (queued = {} \/ pc = "cancelling")
  /\ RunEnds /\ Release /\ stranding' = FALSE

\* Any other returns when nothing was queued meanwhile ...
Returns ==
  /\ holder \notin Forced /\ queued = {}
  /\ RunEnds /\ Release /\ stranding' = FALSE

\* Mutant: what was queued stays queued.
DrainKeeping ==
  /\ holder \notin Forced /\ queued # {} /\ Through
  /\ Run(holder, queued)
  /\ call' = [r \in Requests |-> IF r \in queued THEN "running"
                                 ELSE IF r \in serving \ {holder} THEN "done" ELSE call[r]]
  /\ UNCHANGED <<waiting, queued>>

\* ... and else runs what was.
Drain ==
  /\ holder \notin Forced /\ queued # {} /\ Through
  /\ Run(holder, queued)
  /\ queued' = {}
  /\ call' = [r \in Requests |-> IF r \in queued THEN "running"
                                 ELSE IF r \in serving \ {holder} THEN "done" ELSE call[r]]
  /\ UNCHANGED waiting

\* An exception leaves the call with its run.
CallRaises == Raises /\ Release /\ stranding' = TRUE

-----------------------------------------------------------------------------
(* The run and the library.                                                *)

\* What a fetch of the first store learns: the game as it is on disk now, or
\* nothing (an error, the timeout, a cancellation: each an empty library).
Learn ==
  IF pc = "fetching" /\ stores.done = 0 THEN fetched' \in {"absent", OnDisk}
  ELSE UNCHANGED fetched

Moves ==
  /\ \/ SetUp \/ NoStores \/ NextStore \/ GiveUp \/ FetchStarts \/ Finalize \/ Delivered
     \/ serving \subseteq NoArtwork /\ Skips
  /\ Learn
  /\ library' = IF finalized' /\ ~finalized THEN fetched' ELSE library
  /\ UNCHANGED <<callVars, single, installed, others, watchVars>>

\* sync_single_store: its fetch learns of the game ...
SingleFetched ==
  /\ others < MaxOthers /\ others' = others + 1
  /\ single = "none" /\ single' = OnDisk
  /\ UNCHANGED <<runVars, callVars, fetched, library, installed, watchVars>>

\* ... and its list, an empty one after an error, replaces that of the store,
\* whoever has the lock.
SingleWritten ==
  /\ single # "none" /\ single' = "none"
  /\ library' \in {single, "absent"}
  /\ UNCHANGED <<runVars, callVars, fetched, installed, others, watchVars>>

Cancel ==
  /\ others < MaxOthers /\ others' = others + 1
  /\ CancelRun
  /\ stopped' = (stopped \/ pc \in {"setup", "starting", "progress", "fetching"})
  /\ UNCHANGED <<callVars, gameVars, stranding, flipLost>>

\* SYNC_CANCELLED has reached its handlers.
CancelDelivered ==
  /\ SignalDelivered
  /\ UNCHANGED <<callVars, gameVars, others, watchVars>>

\* Mutant: the handler does not take the lock.
FlipUnlocked ==
  /\ others < MaxOthers /\ others' = others + 1
  /\ installed' = ~installed
  /\ library' = IF library = "absent" THEN "absent"
                ELSE IF installed' THEN "installed" ELSE "owned"
  /\ UNCHANGED <<runVars, callVars, fetched, single, watchVars>>

\* The game is installed or removed on disk, and the handler of the event that
\* says so, _on_shortcut_install_state_changed, asks for the lock.
Flip ==
  /\ others < MaxOthers /\ others' = others + 1
  /\ installed' = ~installed
  /\ waiting' = Append(waiting, installed')
  /\ UNCHANGED <<runVars, call, holder, queued, serving, fetched, single, library,
                 watchVars>>

\* It has the lock for the length of one step.  A game the library lacks is
\* ignored.
FlipRecorded ==
  /\ ~Held /\ waiting # <<>> /\ Head(waiting) \in BOOLEAN
  /\ waiting' = Tail(waiting)
  /\ library' = IF library = "absent" THEN "absent"
                ELSE IF Head(waiting) THEN "installed" ELSE "owned"
  /\ flipLost' = (flipLost \/ single # "none")
  /\ UNCHANGED <<runVars, call, holder, queued, serving, fetched, single, installed,
                 others, stopped, stranding>>

\* The bus gives a handler a minute (HANDLER_TIMEOUT_SECONDS).
FlipTimesOut ==
  \E n \in DOMAIN waiting :
    /\ Held /\ waiting[n] \in BOOLEAN
    /\ waiting' = RemoveAt(waiting, n)
    /\ flipLost' = TRUE
    /\ UNCHANGED <<runVars, call, holder, queued, serving, gameVars, others,
                   stopped, stranding>>

-----------------------------------------------------------------------------
SingleStep == SingleFetched \/ SingleWritten
RunStep == Moves \/ ForcedReturns \/ Returns \/ Drain
LockStep == Acquire \/ FlipRecorded

Next ==
  \/ \E r \in Requests : SyncAll(r)
  \/ LockStep \/ RunStep \/ SingleStep \/ CallRaises
  \/ Cancel \/ CancelDelivered \/ Flip \/ FlipTimesOut

Spec == Init /\ [][Next]_vars

\* The loop runs what is ready, and a fetch ends (a timeout bounds it).  Calls
\* and exceptions are not owed.
FairSpec ==
  Spec /\ WF_vars(RunStep) /\ WF_vars(LockStep) /\ WF_vars(CancelDelivered)

-----------------------------------------------------------------------------
(* Properties.                                                             *)

\* A second concurrent call "runs as soon as the current sync releases the
\* lock" (sync_all).  It can stay behind with the lock free only where the run
\* it waited for was forced or was left by an exception: the two ends of a run
\* that do not look at the queue.
StrandedOnlyBehind == queued # {} /\ ~Held => stranding

\* A queued request gets its run, however the runs before it end and whoever
\* else waits for the lock, except behind those two; and none is forgotten when
\* it is merged with others.
QueuedIsServed ==
  (\E r \in Requests : call[r] = "queued")
    ~> \A r \in Requests : call[r] = "queued" => stranding

\* A run whose cancellation was accepted before its last fetch was over never
\* replaces the library: what it has fetched is partial.
CancelKeepsLibrary == ~(stopped /\ finalized)

\* The library agrees with the disk about the game once every handler has had
\* the lock: an install or removal during a sync is recorded after the run
\* whose fetch may have missed it, and a sync of the store alone, which minds
\* no lock, undoes it only if it had fetched before and writes after it.
LibraryTracksInstalls ==
  ~Held /\ waiting = <<>> /\ ~flipLost => library \in {"absent", OnDisk}

\* A call of sync_all returns, with its run behind it or its request queued,
\* however many calls wait for the lock with it.
CallsReturn ==
  (\E r \in Requests : call[r] \in {"waiting", "running"})
    ~> \A r \in Requests : call[r] \notin {"waiting", "running"}
=============================================================================
