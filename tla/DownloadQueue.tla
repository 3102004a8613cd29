--------------------------- MODULE DownloadQueue ---------------------------
(***************************************************************************)
(* The download queue: DownloadService (services/download/service.py) and  *)
(* its worker (services/download/worker.py).                               *)
(*                                                                         *)
(* All callers are coroutines of one event loop, so an action is what runs *)
(* between two awaits.  The lock of the service never spans an await: a    *)
(* locked block is a part of one action.  A save of the queue runs in a    *)
(* thread of its own, as module SaveFile has it: it copies the live list   *)
(* at one moment (Snapshot) and replaces the file at a later one (Publish).*)
(*                                                                         *)
(* Items are the DownloadItem records: the accepted calls of add.  Several *)
(* items may carry the same key "store:game_id".                           *)
(***************************************************************************)
EXTENDS SaveFile, Naturals, FiniteSets, SequencesExt

CONSTANTS
  Items,          \* the items that may be added
  KeyOf,          \* the key "store:game_id" of each item
  CloudOnly,      \* the items of the microsoft store, which cannot be installed
  NoItem,         \* an absent entry of a dictionary
  MaxConcurrent,  \* the worker's cap on concurrent installs
  MaxBoots,       \* bound: how often the plugin process is started
  MaxSaves,       \* bound: calls that save arrive only below this many saves
  EarlyCalls      \* bound: FALSE if no call arrives while start() loads

Keys == {KeyOf[i] : i \in Items}

ASSUME ItemsAssumption ==
  /\ IsFiniteSet(Items)
  /\ NoItem \notin Items
  /\ KeyOf \in [Items -> Keys]
  /\ CloudOnly \subseteq Items
ASSUME BoundsAssumption ==
  /\ MaxConcurrent \in Nat \ {0}
  /\ MaxBoots \in Nat /\ MaxSaves \in Nat
  /\ EarlyCalls \in BOOLEAN

VARIABLES
  boot,       \* the plugin process and its service: down, loading, up, ...
  boots,      \* how often the process was started
  loaded,     \* what the thread of load_queue read: <<>> or <<list>>
  queue,      \* _queue
  running,    \* _running: the item of each key
  tasks,      \* _running_tasks: the item whose install task is registered
  install,    \* where the coroutine _run_install of each item is
  cancelReq,  \* the tasks with a CancelledError to be thrown at their next step
  status,     \* DownloadItem.status
  worker,     \* _worker_loop: off, poll (before its pop) or saving
  batch,      \* to_start: popped, waiting for the worker's save
  cancelling, \* the calls of cancel that wait for their save before they emit
  outcome,    \* observer: the terminal events published for each item
  astray,     \* observer: the file, or a save in flight, holds a list of early
              \* calls which the load has replaced
  forfeited   \* observer: items a process exit drops by design, or early calls

procVars == <<boot, boots, loaded>>
workVars == <<worker, batch>>
taskVars == <<running, tasks, install, cancelReq>>
fileVars == <<saveVars, astray>>
vars == <<procVars, queue, taskVars, status, workVars, cancelling, fileVars,
          outcome, forfeited>>

Worker == <<"worker", NoItem>>
Stopper == <<"stop", NoItem>>
Savers == {Worker, Stopper} \cup ({"add", "cancel"} \X Items)

\* Coroutine states of _run_install; in each it waits for something it awaits.
Unwinding == {"erroring", "cancelling"}   \* inside an except block
Waiting == {"active", "warming", "finishing", "rejecting", "failing", "completing"}
Alive == {"created"} \cup Waiting \cup Unwinding
InstallStates == {"none", "done", "killed"} \cup Alive
Statuses == {"new", "queued", "running", "complete", "failed", "cancelled"}
Outcomes == {"complete", "failed", "cancelled"}

Serving == boot # "down" /\ (EarlyCalls \/ boot # "loading")
MaySave == Cardinality(InFlight) < MaxSaves
Busy == {k \in Keys : running[k] # NoItem}
TaskOf(k) == tasks[k] # NoItem /\ install[tasks[k]] \in Alive

TypeOK ==
  /\ boot \in {"down", "loading", "up", "stopping", "stopped"}
  /\ boots \in 0..MaxBoots
  /\ loaded \in Seq(Seq(Items)) /\ Len(loaded) <= 1
  /\ queue \in Seq(Items)
  /\ running \in [Keys -> Items \cup {NoItem}]
  /\ tasks \in [Keys -> Items \cup {NoItem}]
  /\ install \in [Items -> InstallStates]
  /\ cancelReq \subseteq Items
  /\ status \in [Items -> Statuses]
  /\ worker \in {"off", "poll", "saving"}
  /\ batch \in Seq(Items)
  /\ cancelling \subseteq Items
  /\ savePc \in [Savers -> {"idle", "begun", "snapped"}]
  /\ snap \in [Savers -> Seq(Items)]
  /\ disk \in Seq(Items)
  /\ outcome \in [Items -> SUBSET Outcomes]
  /\ solo \subseteq Savers
  /\ trusted \in BOOLEAN /\ astray \in BOOLEAN
  /\ forfeited \subseteq Items

Init ==
  /\ boot = "down" /\ boots = 0 /\ loaded = <<>>
  /\ queue = <<>>
  /\ running = [k \in Keys |-> NoItem] /\ tasks = [k \in Keys |-> NoItem]
  /\ install = [i \in Items |-> "none"] /\ cancelReq = {}
  /\ status = [i \in Items |-> "new"]
  /\ worker = "off" /\ batch = <<>>
  /\ cancelling = {}
  /\ SaveInit(Savers) /\ astray = FALSE
  /\ outcome = [i \in Items |-> {}]
  /\ forfeited = {}

\* A save of the list of now, in a thread of its own.
Saves(s) == BeginSave(s) /\ astray' = (astray /\ InFlight # {})

-----------------------------------------------------------------------------
(* The threads of save_queue (module SaveFile).                            *)

\* The queue is copied item by item, without an await of the event loop.
Snapshot(s) ==
  /\ CopyList(s, queue)
  /\ UNCHANGED <<procVars, queue, taskVars, status, workVars, cancelling,
                 outcome, astray, forfeited>>

Publish(s) ==
  /\ PublishSave(s)
  /\ UNCHANGED <<procVars, queue, taskVars, status, workVars, cancelling,
                 outcome, astray, forfeited>>

SavesMeet ==
  /\ Clash
  /\ UNCHANGED <<procVars, queue, taskVars, status, workVars, cancelling,
                 outcome, astray, forfeited>>

-----------------------------------------------------------------------------
(* start, stop and the end of the process.                                 *)

StartLoad ==
  /\ boot = "down" /\ boots < MaxBoots
  /\ boot' = "loading" /\ boots' = boots + 1 /\ loaded' = <<>>
  /\ UNCHANGED <<queue, taskVars, status, workVars, cancelling, fileVars,
                 outcome, forfeited>>

\* The reader thread of load_queue.
LoadRead ==
  /\ boot = "loading" /\ loaded = <<>>
  /\ loaded' = <<disk>>
  /\ UNCHANGED <<boot, boots, queue, taskVars, status, workVars, cancelling,
                 fileVars, outcome, forfeited>>

\* self._queue = await load_queue(...): the name is bound to a new list, and
\* what early calls have put into the old one is gone.  A save begun before
\* holds the old list, which nothing changes any more.
LoadAssign ==
  /\ boot = "loading" /\ loaded # <<>>
  /\ boot' = "up" /\ worker' = "poll" /\ loaded' = <<>>
  /\ queue' = loaded[1]
  /\ LET again == ToSet(loaded[1]) IN
       /\ status' = [i \in Items |-> IF i \in again THEN "queued" ELSE status[i]]
       /\ install' = [i \in Items |-> IF i \in again THEN "none" ELSE install[i]]
       /\ outcome' = [i \in Items |-> IF i \in again THEN {} ELSE outcome[i]]
       /\ forfeited' = forfeited \ again
  /\ savePc' = [s \in Savers |-> IF savePc[s] = "begun" THEN "snapped" ELSE savePc[s]]
  /\ snap' = [s \in Savers |-> IF savePc[s] = "begun" THEN queue ELSE snap[s]]
  /\ trusted' = (InFlight = {})
  /\ astray' = (InFlight # {} \/ loaded # <<disk>>)
  /\ UNCHANGED <<boots, running, tasks, cancelReq, batch, cancelling, disk, solo>>

\* An early call saves its list over what the file holds, which may then
\* come back only by the read that is under way.
AtRisk == IF boot = "loading" THEN ToSet(disk) ELSE {}

\* stop() finds no worker yet and saves the list of now; start() goes on.
\* One such stop at a time (bound).
StopEarly ==
  /\ boot = "loading" /\ Serving /\ MaySave /\ savePc[Stopper] = "idle"
  /\ Saves(Stopper)
  /\ forfeited' = forfeited \cup AtRisk
  /\ UNCHANGED <<procVars, queue, taskVars, status, workVars, cancelling, outcome>>

\* The worker is cancelled where it waits: a batch it has popped but not yet
\* spawned is dropped.  Running installs go on.
Stop ==
  /\ boot = "up" /\ savePc[Stopper] = "idle"
  /\ boot' = "stopping" /\ worker' = "off" /\ batch' = <<>>
  /\ Saves(Stopper)
  /\ UNCHANGED <<boots, loaded, queue, taskVars, status, cancelling, outcome,
                 forfeited>>

StopDone ==
  /\ boot = "stopping" /\ savePc[Stopper] = "idle"
  /\ boot' = "stopped"
  /\ UNCHANGED <<boots, loaded, queue, taskVars, status, workVars, cancelling,
                 fileVars, outcome, forfeited>>

\* The process ends, after stop() or by a crash: only the file survives.
\* Running items are not persisted; a queued item may be missing from the
\* file only while a save is in flight or after one that went wrong.
Exit ==
  /\ boot # "down"
  /\ boot' = "down" /\ loaded' = <<>>
  /\ forfeited' = forfeited \cup {i \in Items : running[KeyOf[i]] = i}
                  \cup (IF trusted /\ InFlight = {} /\ ~astray THEN {}
                        ELSE ToSet(queue) \ ToSet(disk))
  /\ queue' = <<>>
  /\ running' = [k \in Keys |-> NoItem] /\ tasks' = [k \in Keys |-> NoItem]
  /\ install' = [i \in Items |-> IF install[i] \in Alive THEN "killed" ELSE install[i]]
  /\ cancelReq' = {} /\ worker' = "off" /\ batch' = <<>> /\ cancelling' = {}
  /\ EndSaves /\ astray' = FALSE
  /\ UNCHANGED <<boots, status, outcome>>

-----------------------------------------------------------------------------
(* The calls of the frontend.  A call that is refused changes nothing.     *)

\* Mutant: the already_running check is forgotten.
AddWhileRunning(i) ==
  /\ Serving /\ MaySave /\ status[i] = "new"
  /\ \A j \in ToSet(queue) : KeyOf[j] # KeyOf[i]
  /\ queue' = Append(queue, i)
  /\ status' = [status EXCEPT ![i] = "queued"]
  /\ Saves(<<"add", i>>)
  /\ UNCHANGED <<procVars, taskVars, workVars, cancelling, outcome, forfeited>>

\* Mutant: the new item is not saved.
AddUnsaved(i) ==
  /\ Serving /\ MaySave /\ status[i] = "new"
  /\ running[KeyOf[i]] = NoItem
  /\ \A j \in ToSet(queue) : KeyOf[j] # KeyOf[i]
  /\ queue' = Append(queue, i)
  /\ status' = [status EXCEPT ![i] = "queued"]
  /\ UNCHANGED <<procVars, taskVars, workVars, cancelling, fileVars, outcome, forfeited>>

Add(i) ==
  /\ Serving /\ MaySave /\ status[i] = "new"
  /\ running[KeyOf[i]] = NoItem                                \* already_running
  /\ \A j \in ToSet(queue) : KeyOf[j] # KeyOf[i]               \* already_queued
  /\ queue' = Append(queue, i)
  /\ status' = [status EXCEPT ![i] = "queued"]
  /\ Saves(<<"add", i>>)
  /\ forfeited' = forfeited \cup AtRisk \cup (IF boot = "loading" THEN {i} ELSE {})
  /\ UNCHANGED <<procVars, taskVars, workVars, cancelling, outcome>>

\* The call then waits for the task and returns success: no more state.
CancelRunning(k) ==
  /\ Serving /\ TaskOf(k)
  /\ cancelReq' = cancelReq \cup {tasks[k]}
  /\ UNCHANGED <<procVars, queue, running, tasks, install, status, workVars,
                 cancelling, fileVars, outcome, forfeited>>

\* Mutant: the shortened queue is not saved.
CancelQueuedUnsaved(n) ==
  /\ Serving /\ MaySave /\ n \in DOMAIN queue
  /\ ~TaskOf(KeyOf[queue[n]])
  /\ queue' = RemoveAt(queue, n)
  /\ status' = [status EXCEPT ![queue[n]] = "cancelled"]
  /\ cancelling' = cancelling \cup {queue[n]}
  /\ UNCHANGED <<procVars, taskVars, workVars, fileVars, outcome, forfeited>>

\* One cancel of an item waits for its save at a time (bound).
CancelQueued(n) ==
  /\ Serving /\ MaySave /\ n \in DOMAIN queue
  /\ ~TaskOf(KeyOf[queue[n]]) /\ queue[n] \notin cancelling
  /\ queue' = RemoveAt(queue, n)
  /\ status' = [status EXCEPT ![queue[n]] = "cancelled"]
  /\ cancelling' = cancelling \cup {queue[n]}
  /\ Saves(<<"cancel", queue[n]>>)
  /\ forfeited' = forfeited \cup AtRisk
  /\ UNCHANGED <<procVars, taskVars, workVars, outcome>>

\* The end is that of the item which was cancelled, not of the one that start
\* has loaded in its place.
CancelEmit(i) ==
  /\ i \in cancelling /\ savePc[<<"cancel", i>>] = "idle"
  /\ cancelling' = cancelling \ {i}
  /\ outcome' = IF status[i] = "cancelled"
                THEN [outcome EXCEPT ![i] = @ \cup {"cancelled"}] ELSE outcome
  /\ UNCHANGED <<procVars, queue, taskVars, status, workVars, fileVars, forfeited>>

-----------------------------------------------------------------------------
(* The worker.                                                             *)

\* Mutant: <= for < in the loop over the free slots.
PopCountOneMore == LET free == MaxConcurrent + 1 - Cardinality(Busy) IN
                   IF free < Len(queue) THEN free ELSE Len(queue)

PopCount == LET free == MaxConcurrent - Cardinality(Busy) IN
            IF free < Len(queue) THEN free ELSE Len(queue)

\* _pop_ready_items, then the first step of _dispatch_items.
Pop ==
  /\ worker = "poll" /\ queue # <<>> /\ Cardinality(Busy) < MaxConcurrent
  /\ batch' = SubSeq(queue, 1, PopCount)
  /\ queue' = SubSeq(queue, PopCount + 1, Len(queue))
  /\ running' = [k \in Keys |->
       IF \E n \in 1..PopCount : KeyOf[queue[n]] = k
       THEN queue[CHOOSE n \in 1..PopCount : KeyOf[queue[n]] = k]
       ELSE running[k]]
  /\ worker' = "saving"
  /\ Saves(Worker)
  /\ UNCHANGED <<procVars, tasks, install, cancelReq, status, cancelling,
                 outcome, forfeited>>

\* Mutant: the install tasks are spawned first, while the save is under way.
SpawnBeforeSave ==
  /\ worker = "saving"
  /\ install' = [i \in Items |-> IF i \in ToSet(batch) THEN "created" ELSE install[i]]
  /\ tasks' = [k \in Keys |->
       IF \E i \in ToSet(batch) : KeyOf[i] = k
       THEN CHOOSE i \in ToSet(batch) : KeyOf[i] = k
       ELSE tasks[k]]
  /\ worker' = "poll" /\ batch' = <<>>
  /\ UNCHANGED <<procVars, queue, running, cancelReq, status, cancelling,
                 fileVars, outcome, forfeited>>

\* Mutant: the task is not registered in _running_tasks.
SpawnUnregistered ==
  /\ worker = "saving" /\ savePc[Worker] = "idle"
  /\ install' = [i \in Items |-> IF i \in ToSet(batch) THEN "created" ELSE install[i]]
  /\ worker' = "poll" /\ batch' = <<>>
  /\ UNCHANGED <<procVars, queue, running, tasks, cancelReq, status, cancelling,
                 fileVars, outcome, forfeited>>

\* The rest of _dispatch_items, once its save has returned.
Spawn ==
  /\ worker = "saving" /\ savePc[Worker] = "idle"
  /\ install' = [i \in Items |-> IF i \in ToSet(batch) THEN "created" ELSE install[i]]
  /\ tasks' = [k \in Keys |->
       IF \E i \in ToSet(batch) : KeyOf[i] = k
       THEN CHOOSE i \in ToSet(batch) : KeyOf[i] = k
       ELSE tasks[k]]
  /\ worker' = "poll" /\ batch' = <<>>
  /\ UNCHANGED <<procVars, queue, running, cancelReq, status, cancelling,
                 fileVars, outcome, forfeited>>

-----------------------------------------------------------------------------
(* _run_install: one action per stretch between two awaits.                *)

\* The task of i resumes normally in state s.
Resumes(i, s) == install[i] = s /\ i \notin cancelReq

\* The coroutine goes to state t, its item to status st, publishing event e.
Moves(i, t, st, e) ==
  /\ install' = [install EXCEPT ![i] = t]
  /\ status' = [status EXCEPT ![i] = st]
  /\ outcome' = [outcome EXCEPT ![i] = @ \cup e]
  /\ UNCHANGED <<procVars, queue, running, tasks, workVars, cancelling,
                 fileVars, forfeited>>

\* _reject_microsoft publishes the failure and leaves the status alone.
Reject(i) ==
  /\ Resumes(i, "created") /\ i \in CloudOnly
  /\ Moves(i, "rejecting", status[i], {"failed"}) /\ UNCHANGED cancelReq

Begin(i) ==
  /\ Resumes(i, "created") /\ i \notin CloudOnly
  /\ Moves(i, "active", "running", {}) /\ UNCHANGED cancelReq

\* The store's installer returns success: the prefix warm-up starts.  It ends
\* by itself, by an error or by its timeout: in each case the install goes on.
Installed(i) ==
  /\ Resumes(i, "active")
  /\ Moves(i, "warming", status[i], {}) /\ UNCHANGED cancelReq

\* status = "complete", then the executable is looked up.
WarmedUp(i) ==
  /\ Resumes(i, "warming")
  /\ Moves(i, "finishing", "complete", {}) /\ UNCHANGED cancelReq

Complete(i) ==
  /\ Resumes(i, "finishing")
  /\ Moves(i, "completing", status[i], {"complete"}) /\ UNCHANGED cancelReq

\* Mutant: a status the readers of the queue do not know.
InstallFailedAsError(i) ==
  /\ Resumes(i, "active")
  /\ Moves(i, "failing", "error", {"failed"}) /\ UNCHANGED cancelReq

\* The store's installer returns a failure.
InstallFailed(i) ==
  /\ Resumes(i, "active")
  /\ Moves(i, "failing", "failed", {"failed"}) /\ UNCHANGED cancelReq

\* Mutant: an error while the completion is delivered reports a failure too.
RaisedLate(i) ==
  /\ \/ Resumes(i, "active")
     \/ Resumes(i, "completing")
  /\ Moves(i, "erroring", "failed", {"failed"}) /\ UNCHANGED cancelReq

\* No such store, or the installer raises: the except block of _run_install.
Raised(i) ==
  /\ \/ Resumes(i, "created")
     \/ Resumes(i, "active")
  /\ Moves(i, "erroring", "failed", {"failed"}) /\ UNCHANGED cancelReq

\* Mutant: the prefix warm-up swallows the cancellation.
CancelledOutsideWarmup(i) ==
  /\ i \in cancelReq /\ install[i] \in Waiting \ {"warming"}
  /\ cancelReq' = cancelReq \ {i}
  /\ Moves(i, "cancelling", "cancelled", {"cancelled"})

\* CancelledError inside the try block.
Cancelled(i) ==
  /\ i \in cancelReq /\ install[i] \in Waiting
  /\ cancelReq' = cancelReq \ {i}
  /\ Moves(i, "cancelling", "cancelled", {"cancelled"})

\* Mutant: only the task is forgotten.
CleanupTaskOnly(i) ==
  /\ tasks' = [tasks EXCEPT ![KeyOf[i]] = NoItem]
  /\ UNCHANGED running

\* _cleanup_running, the finally block: both entries of the key are popped.
Cleanup(i) ==
  /\ running' = [running EXCEPT ![KeyOf[i]] = NoItem]
  /\ tasks' = [tasks EXCEPT ![KeyOf[i]] = NoItem]

\* The awaited emit is over, or a CancelledError leaves an except block.
Finish(i) ==
  /\ \/ install[i] \in {"rejecting", "failing", "completing"} /\ i \notin cancelReq
     \/ install[i] \in Unwinding
  /\ install' = [install EXCEPT ![i] = "done"]
  /\ cancelReq' = cancelReq \ {i}
  /\ Cleanup(i)
  /\ UNCHANGED <<procVars, queue, status, workVars, cancelling, fileVars,
                 outcome, forfeited>>

\* A task cancelled before its first step never enters the coroutine: neither
\* the except block nor the finally block runs.
NeverEntered(i) ==
  /\ i \in cancelReq /\ install[i] = "created"
  /\ install' = [install EXCEPT ![i] = "done"]
  /\ cancelReq' = cancelReq \ {i}
  /\ UNCHANGED <<procVars, queue, running, tasks, status, workVars, cancelling,
                 fileVars, outcome, forfeited>>

-----------------------------------------------------------------------------
SaveStep == \E s \in Savers : Snapshot(s) \/ Publish(s)
Lifecycle == StartLoad \/ LoadRead \/ LoadAssign \/ StopEarly \/ Stop \/ StopDone \/ Exit
Calls ==
  \/ \E i \in Items : Add(i) \/ CancelEmit(i)
  \/ \E k \in Keys : CancelRunning(k)
  \/ \E n \in DOMAIN queue : CancelQueued(n)
InstallStep(i) ==
  \/ Reject(i) \/ Begin(i) \/ Installed(i) \/ WarmedUp(i) \/ Complete(i)
  \/ InstallFailed(i) \/ Raised(i) \/ Cancelled(i) \/ Finish(i) \/ NeverEntered(i)

Next == SaveStep \/ SavesMeet \/ Lifecycle \/ Calls \/ Pop \/ Spawn \/ \E i \in Items : InstallStep(i)

Spec == Init /\ [][Next]_vars

\* The event loop runs every ready coroutine and thread; installers end by
\* themselves.  Calls, stops and process ends are never owed.
Fairness ==
  /\ WF_vars(LoadRead \/ LoadAssign)
  /\ WF_vars(Pop \/ Spawn)
  /\ WF_vars(SaveStep)
  /\ \A i \in Items : WF_vars(InstallStep(i))

FairSpec == Spec /\ Fairness

-----------------------------------------------------------------------------
(* Safety.                                                                 *)

\* What persistence and the duplicate check rely on: a list of items in which
\* no key occurs twice.
KeyedOnce(q) == \A m, n \in DOMAIN q : KeyOf[q[m]] = KeyOf[q[n]] => m = n

\* A key is pending or running, never both and never twice, whatever the order
\* of add, cancel, pop and reload: the duplicate check of add, the worker's pop
\* and the load at start together keep it.
NoDuplicateKey ==
  /\ KeyedOnce(queue)
  /\ \A i \in ToSet(queue) : running[KeyOf[i]] = NoItem
  /\ \A k \in Busy : KeyOf[running[k]] = k

\* Every live install holds the entry of its key in _running and its own task
\* in _running_tasks: cancel finds it, add refuses its key, and the cleanup of
\* one install never frees the slot of another.
LiveInstallHoldsSlot ==
  \A i \in Items : install[i] \in Alive =>
    running[KeyOf[i]] = i /\ tasks[KeyOf[i]] = i

\* Never more installs at work than the cap, although the entries are freed by
\* the installs, filled by the worker and swept by nobody.
ConcurrencyCap ==
  /\ Cardinality(Busy) <= MaxConcurrent
  /\ Cardinality({i \in Items : install[i] \in Alive}) <= MaxConcurrent

\* A task that ended without entering its coroutine (its status was never
\* touched): its slot stays taken.
Leaked(i) == install[i] = "done" /\ running[KeyOf[i]] = i /\ status[i] = "queued"

\* An occupied slot is accounted for: its item waits for the worker's save, or
\* its install is alive.  The two exceptions are the task that was cancelled
\* before its first step and a batch dropped by stop().
SlotAccounted ==
  \A k \in Busy : LET i == running[k] IN
    \/ i \in ToSet(batch) \/ install[i] \in Alive
    \/ Leaked(i)
    \/ boot \in {"stopping", "stopped"} /\ install[i] = "none"

\* A finished task has given its slot back ("always _cleanup_running(item) in
\* a finally block", worker.py).
SlotFreedWhenTaskEnds == \A i \in Items : install[i] = "done" => running[KeyOf[i]] # i

\* Once every save is over and the last one ran alone and succeeded, the file
\* holds exactly the pending items: each change of the queue starts a save in
\* the same step, so no change is left behind, unless calls came while start()
\* was loading and no save has begun since the last of theirs has landed.
DiskSettled ==
  boot \notin {"down", "loading"} /\ InFlight = {} /\ trusted /\ ~astray => disk = queue

\* An item whose install was spawned is no longer in the file, so a crash does
\* not install it a second time: the worker saves before it spawns.
PersistBeforeSpawn ==
  trusted => \A i \in ToSet(disk) : install[i] = "none"

\* An accepted item is never silently lost, across stops, crashes and
\* restarts: it is pending, in its slot, or has published its end.  A process
\* exit forfeits the running items and those an unfinished save left out, and
\* a call that arrives while start() loads forfeits its own item and what the
\* file held, until the load brings it back.
NoSilentLoss ==
  \A i \in Items :
    status[i] = "queued" /\ outcome[i] = {} /\ i \notin forfeited =>
      \/ boot \in {"down", "loading"} /\ i \in ToSet(disk)
      \/ i \in ToSet(queue)
      \/ running[KeyOf[i]] = i

\* An item publishes one of complete and failed, and after it at most a
\* cancellation: a cancel that arrives while the event is being delivered.
\* (An item loaded again starts over: it is another object.)
OneVerdict ==
  [][\A i \in Items : outcome[i] # {} => outcome'[i] \subseteq outcome[i] \cup {"cancelled"}]_vars

-----------------------------------------------------------------------------
(* Liveness, under Fairness.                                               *)

\* A pending item gets its turn, unless the service stops or a slot has leaked.
QueuedIsServed ==
  \A i \in Items : i \in ToSet(queue) ~>
    (i \notin ToSet(queue) \/ boot # "up" \/ \E j \in Items : Leaked(j))

\* A cancelled install ends, and has published its end unless its slot leaked.
CancelTakesEffect ==
  \A i \in Items : i \in cancelReq ~>
    \/ boot = "down"
    \/ install[i] = "done" /\ (outcome[i] # {} \/ Leaked(i))
=============================================================================
