------------------------------ MODULE SyncRun ------------------------------
(***************************************************************************)
(* One run of the library sync, _run_sync (core/sync_run_mixin.py and      *)
(* core/sync_finalize_mixin.py): the control that its callers and the      *)
(* services it sets off have in common.  One action per stretch between    *)
(* two awaits.                                                             *)
(*                                                                         *)
(* Module SyncQueue adds the lock, the queue of requests and the library;  *)
(* module PostSync adds the services that take over when a run is through. *)
(***************************************************************************)
EXTENDS Naturals, FiniteSets

CONSTANTS
  MaxRuns,    \* bound: runs of _run_sync
  NumStores   \* bound: stores that may be available

ASSUME RunsAssumption == MaxRuns \in Nat \ {0} /\ NumStores \in Nat \ {0}

VARIABLES
  runs,       \* how many runs were started; the number of the current one
  pc,         \* where the current run is
  stores,     \* the stores available to it, and how many it has fetched
  cancelled,  \* _cancel_event
  signals,    \* SYNC_CANCELLED events not yet delivered
  finalized   \* it has replaced the library

runVars == <<runs, pc, stores, cancelled, signals, finalized>>

Runs == 1..MaxRuns
Running == pc # "idle"

RunTypeOK ==
  /\ runs \in 0..MaxRuns
  /\ pc \in {"idle", "setup", "starting", "progress", "fetching", "delivering",
             "delivered", "skipping", "cancelling"}
  /\ stores \in [available : 0..NumStores, done : 0..NumStores]
  /\ cancelled \in BOOLEAN
  /\ signals \in Nat
  /\ finalized \in BOOLEAN

RunInit ==
  /\ runs = 0 /\ pc = "idle" /\ stores = [available |-> 0, done |-> 0]
  /\ cancelled = FALSE /\ signals = 0 /\ finalized = FALSE

\* _setup_sync: a cancellation of the run before is forgotten.
RunBegins ==
  /\ runs < MaxRuns
  /\ runs' = runs + 1 /\ pc' = "setup"
  /\ cancelled' = FALSE /\ finalized' = FALSE
  /\ stores' = [available |-> 0, done |-> 0]
  /\ UNCHANGED signals

\* The availability probes have answered; SYNC_STARTED is emitted.
SetUp ==
  /\ pc = "setup" /\ pc' = "starting"
  /\ \E n \in 0..NumStores : stores' = [available |-> n, done |-> 0]
  /\ UNCHANGED <<runs, cancelled, signals, finalized>>

\* _sync_no_stores_shortcircuit: an empty SYNC_COMPLETE.
NoStores ==
  /\ pc = "starting" /\ stores.available = 0
  /\ pc' = "delivering"
  /\ UNCHANGED <<runs, stores, cancelled, signals, finalized>>

\* The places of the loop where the flag is checked: before the first store,
\* and when the fetch of a store is over.
FetchOver == pc = "fetching" /\ stores' = [stores EXCEPT !.done = @ + 1]
AtCheck == \/ pc = "starting" /\ stores.available > 0 /\ stores' = stores
           \/ FetchOver

\* Mutant: the flag is not looked at.
NextStoreUnchecked ==
  /\ AtCheck /\ stores'.done < stores.available
  /\ pc' = "progress"
  /\ UNCHANGED <<runs, cancelled, signals, finalized>>

\* Mutant: one store too many.
NextStoreOneMore ==
  /\ AtCheck /\ ~cancelled /\ stores'.done <= stores.available
  /\ pc' = "progress"
  /\ UNCHANGED <<runs, cancelled, signals, finalized>>

\* The progress event of the next store.
NextStore ==
  /\ AtCheck /\ ~cancelled /\ stores'.done < stores.available
  /\ pc' = "progress"
  /\ UNCHANGED <<runs, cancelled, signals, finalized>>

\* _sync_cancelled_result
GiveUp ==
  /\ AtCheck /\ cancelled
  /\ pc' = "cancelling" /\ signals' = signals + 1
  /\ UNCHANGED <<runs, cancelled, finalized>>

FetchStarts ==
  /\ pc = "progress" /\ pc' = "fetching"
  /\ UNCHANGED <<runs, stores, cancelled, signals, finalized>>

\* Mutant: the flag is checked before each store only.
FinalizeUnchecked ==
  /\ FetchOver /\ stores'.done = stores.available
  /\ pc' = "delivering"
  /\ finalized' = TRUE
  /\ UNCHANGED <<runs, cancelled, signals>>

\* _finalize_sync, to the SYNC_COMPLETE it emits.
Finalize ==
  /\ FetchOver /\ ~cancelled /\ stores'.done = stores.available
  /\ pc' = "delivering"
  /\ finalized' = TRUE
  /\ UNCHANGED <<runs, cancelled, signals>>

\* The metadata service takes SYNC_COMPLETE; the other handlers take longer.
Delivered ==
  /\ pc = "delivering" /\ pc' = "delivered"
  /\ UNCHANGED <<runs, stores, cancelled, signals, finalized>>

\* A finalized run without artwork reports that phase itself.
Skips ==
  /\ pc = "delivered" /\ finalized /\ pc' = "skipping"
  /\ UNCHANGED <<runs, stores, cancelled, signals, finalized>>

\* An exception leaves the run, in its set-up or after its last fetch.
Raises ==
  /\ \/ pc = "setup" /\ stores' = stores
     \/ FetchOver /\ ~cancelled /\ stores'.done = stores.available
  /\ pc' = "idle"
  /\ UNCHANGED <<runs, cancelled, signals, finalized>>

\* The run has nothing left to await.
Through == \/ pc \in {"delivered", "skipping"}
           \/ pc = "cancelling" /\ signals = 0

RunEnds ==
  /\ Through /\ pc' = "idle"
  /\ UNCHANGED <<runs, stores, cancelled, signals, finalized>>

\* cancel: accepted while a run holds the lock.  A fetch in flight is
\* interrupted and ends (FetchOver) with an empty library.
CancelRun ==
  /\ Running
  /\ cancelled' = TRUE /\ signals' = signals + 1
  /\ UNCHANGED <<runs, pc, stores, finalized>>

SignalDelivered ==
  /\ signals > 0 /\ signals' = signals - 1
  /\ UNCHANGED <<runs, pc, stores, cancelled, finalized>>
=============================================================================
