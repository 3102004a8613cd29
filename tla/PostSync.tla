------------------------------ MODULE PostSync ------------------------------
(***************************************************************************)
(* What happens after a library sync: metadata, artwork and compatibility  *)
(* run one after the other, each started by the event that ends the one    *)
(* before (services/metadata_service.py, services/artwork,                 *)
(* services/compatibility), while SyncService waits for the three events   *)
(* to report the sync complete (core/sync_service.py,                      *)
(* core/sync_finalize_mixin.py).                                           *)
(*                                                                         *)
(* The bus runs a coroutine handler in the loop, in the order of the       *)
(* emissions, and a plain function in a thread (event_bus.py, _invoke): an *)
(* event waits in posted for the handlers of the chain and in reports for  *)
(* _on_post_sync_phase, which tests the set of pending phases first and    *)
(* acts later (closing).                                                   *)
(***************************************************************************)
EXTENDS SyncRun, SequencesExt

CONSTANTS
  NoArtwork,   \* the runs called with fetch_artwork=False
  MaxCancels   \* bound: calls of cancel

ASSUME CancelsAssumption == NoArtwork \subseteq Runs /\ MaxCancels \in Nat

VARIABLES
  status,     \* SyncProgress.status
  tracked,    \* the bus holds the tracker (set_sync_progress)
  pending,    \* _post_sync_pending
  sent,       \* the runs whose SYNC_COMPLETE carries games
  meta,       \* MetadataService._enrichment_task
  batches,    \* runs whose batch of artwork fetches is under way
  compat,     \* CompatibilityService._enrichment_task
  orphans,    \* runs whose compat task was replaced at work, not yet in its finally
  posted,     \* events the coroutine handlers have not seen, in order
  reports,    \* phase-done events _on_post_sync_phase has not seen
  closing,    \* threads that have found the set empty and not yet acted
  watchdog,   \* _watchdog_task is asleep
  walk,       \* the size warm-up runs (size_backfill.is_running)
  cancels,    \* how often cancel was called
  mixed       \* observer: not only the chain of one run with artwork is about

barVars == <<status, tracked, pending>>
taskVars == <<meta, batches, compat, orphans>>
busVars == <<posted, reports, closing>>
restVars == <<sent, watchdog, walk, cancels, mixed>>
vars == <<runVars, barVars, taskVars, busVars, restVars>>

Phases == {"metadata", "artwork", "proton_meta"}   \* _registered_phases

\* Whose event it is, or what triggered a compat task: the chain of a run; the
\* event by which a run without artwork reports that phase itself, with no
\* games in it; a task that was replaced.
Origins == {"chain", "skip", "orphan"}
Events == [phase : Phases, run : Runs, by : Origins]
Event(p, r, o) == [phase |-> p, run |-> r, by |-> o]

\* The two events of the sync itself, in the same line.
SyncEvents == [phase : {"SYNC_COMPLETE", "SYNC_CANCELLED"}, run : Runs, by : {"chain"}]
SyncEvent(name) == Event(name, runs, "chain")
Tasks == [st : {"none", "created", "running", "dying"}, run : 0..MaxRuns, by : Origins]
Task(s, r, o) == [st |-> s, run |-> r, by |-> o]
NoTask == Task("none", 0, "chain")

TypeOK ==
  /\ RunTypeOK
  /\ status \in {"idle", "fetching", "syncing", "artwork", "metadata",
                 "proton_meta", "complete", "cancelled"}
  /\ tracked \in BOOLEAN
  /\ pending \subseteq Phases
  /\ sent \subseteq Runs
  /\ meta \in Tasks /\ meta.st # "dying" /\ compat \in Tasks
  /\ batches \subseteq Runs
  /\ orphans \subseteq Runs
  /\ posted \in Seq(Events \cup SyncEvents)
  /\ reports \subseteq Events /\ closing \subseteq Events
  /\ watchdog \in BOOLEAN /\ walk \in BOOLEAN
  /\ cancels \in 0..MaxCancels /\ mixed \in BOOLEAN

\* A walk left unfinished by the last process is resumed at boot.
Init ==
  /\ RunInit
  /\ status = "idle" /\ tracked = FALSE /\ pending = {}
  /\ sent = {}
  /\ meta = NoTask /\ compat = NoTask /\ batches = {} /\ orphans = {}
  /\ posted = <<>> /\ reports = {} /\ closing = {}
  /\ watchdog = FALSE /\ walk \in BOOLEAN
  /\ cancels = 0 /\ mixed = FALSE

\* Some task of the chain is at work or about to be.
AtWork ==
  \/ meta # NoTask \/ compat # NoTask
  \/ batches # {} \/ orphans # {} \/ \E n \in DOMAIN posted : posted[n].phase \in Phases

\* A coroutine handler takes the event that is next.
Takes(phase) == posted # <<>> /\ Head(posted).phase = phase

\* bus.emit(POST_SYNC_PHASE_CHANGED, active=False)
Emit(e) ==
  /\ posted' = Append(posted, e)
  /\ reports' = reports \cup {e}
  /\ UNCHANGED closing

-----------------------------------------------------------------------------
(* The metadata service.                                                   *)

\* What a cancelled task leaves unsaid.  Before its first step and inside its
\* loop it has said nothing and, cancelled, never will; while its event is
\* delivered, the handlers that have not begun are cancelled with it.
\* A task sends one event, and the next task begins where the last is cancelled:
\* there is never more than one.
Silenced(line) ==
  LET unheard == {n \in DOMAIN line : line[n].phase = "metadata"}
  IN  IF unheard = {} THEN line ELSE RemoveAt(line, CHOOSE n \in unheard : TRUE)
MetaUnheard == {e \in reports : e.phase = "metadata"}

\* _on_sync_complete: the task of an earlier run is cancelled, one is created.
MetaSpawn ==
  /\ Takes("SYNC_COMPLETE")
  /\ meta' = Task("created", Head(posted).run, "chain")
  /\ posted' = Silenced(Tail(posted)) /\ reports' = reports \ MetaUnheard
  /\ UNCHANGED <<batches, compat, orphans, closing>>

\* The first step of the task: with no games it goes straight to its finally.
MetaFirstStep ==
  /\ meta.st = "created"
  /\ IF meta.run \in sent
     THEN /\ meta' = [meta EXCEPT !.st = "running"]
          /\ status' = IF tracked THEN "metadata" ELSE status
          /\ UNCHANGED busVars
     ELSE /\ meta' = NoTask
          /\ Emit(Event("metadata", meta.run, "chain"))
          /\ UNCHANGED status
  /\ UNCHANGED <<runVars, tracked, pending, batches, compat, orphans, restVars>>

\* The loop is over, or was left because the tracker says cancelled.
MetaDone ==
  /\ meta.st = "running"
  /\ meta' = NoTask
  /\ Emit(Event("metadata", meta.run, "chain"))
  /\ UNCHANGED <<runVars, barVars, batches, compat, orphans, restVars>>

-----------------------------------------------------------------------------
(* The artwork service.                                                    *)

\* Mutant: the phase is reported when the batch is dispatched.
OnMetadataDoneEager ==
  /\ Takes("metadata")
  /\ LET e == Head(posted)
         done == Event("artwork", e.run, "chain")
     IN  /\ batches' = IF e.run \in sent \ NoArtwork
                       THEN batches \cup {e.run} ELSE batches
         /\ posted' = Append(Tail(posted), done)
         /\ reports' = reports \cup {done}
  /\ UNCHANGED <<runVars, barVars, meta, compat, orphans, closing, restVars>>

\* _on_metadata_phase_done: a batch, or nothing to fetch and the event at once.
OnMetadataDone ==
  /\ Takes("metadata")
  /\ LET e == Head(posted)
         skipped == Event("artwork", e.run, "chain")
     IN  IF e.run \in sent \ NoArtwork
         THEN /\ batches' = batches \cup {e.run}
              /\ posted' = Tail(posted) /\ UNCHANGED reports
         ELSE /\ posted' = Append(Tail(posted), skipped)
              /\ reports' = reports \cup {skipped} /\ UNCHANGED batches
  /\ UNCHANGED <<runVars, barVars, meta, compat, orphans, closing, restVars>>

\* The done callback: the event is sent whether the batch ended or was cancelled.
BatchDone(r) ==
  /\ r \in batches
  /\ batches' = batches \ {r}
  /\ Emit(Event("artwork", r, "chain"))
  /\ UNCHANGED <<runVars, barVars, meta, compat, orphans, restVars>>

-----------------------------------------------------------------------------
(* The compatibility service.                                              *)

CompatEvent == Event("proton_meta", compat.run, compat.by)
CompatUnheard == {e \in reports : e.phase = "proton_meta" /\ e.by # "orphan"}

\* _on_artwork_phase_done: the prior task is cancelled and forgotten.
OnArtworkDone ==
  /\ Takes("artwork")
  /\ orphans' = IF compat.st \in {"running", "dying"} THEN orphans \cup {compat.run} ELSE orphans
  /\ compat' = Task("created", Head(posted).run, Head(posted).by)
  /\ posted' = Tail(posted)
  /\ reports' = reports \ CompatUnheard
  /\ UNCHANGED <<runVars, barVars, meta, batches, closing, restVars>>

CompatFirstStep ==
  /\ compat.st = "created"
  /\ IF compat.by = "chain" /\ compat.run \in sent
     THEN /\ compat' = [compat EXCEPT !.st = "running"]
          /\ status' = IF tracked THEN "proton_meta" ELSE status
          /\ UNCHANGED reports
     ELSE /\ compat' = NoTask
          /\ reports' = reports \cup {CompatEvent}
          /\ UNCHANGED status
  /\ UNCHANGED <<runVars, tracked, pending, meta, batches, orphans, posted, closing, restVars>>

\* The loop is over, or was cancelled: either way the task reaches its finally.
CompatDone ==
  /\ compat.st \in {"running", "dying"}
  /\ compat' = NoTask
  /\ reports' = reports \cup {CompatEvent}
  /\ UNCHANGED <<runVars, barVars, meta, batches, orphans, posted, closing, restVars>>

OrphanDone(r) ==
  /\ r \in orphans
  /\ orphans' = orphans \ {r}
  /\ reports' = reports \cup {Event("proton_meta", r, "orphan")}
  /\ UNCHANGED <<runVars, barVars, meta, batches, compat, posted, closing, restVars>>

-----------------------------------------------------------------------------
(* SyncService waits for the phases.                                       *)

\* _on_post_sync_phase, to its test of the set ...
Report(e) ==
  /\ e \in reports
  /\ reports' = reports \ {e}
  /\ pending' = pending \ {e.phase}
  /\ closing' = IF pending' = {} THEN closing \cup {e} ELSE closing
  /\ UNCHANGED <<runVars, status, tracked, taskVars, posted, restVars>>

\* ... and what follows it.  _spawn_size_backfill calls create_task in the
\* thread of the handler, where no loop runs: it raises, and no walk starts.
Close(e) ==
  /\ e \in closing
  /\ closing' = closing \ {e}
  /\ status' = IF status = "cancelled" THEN status ELSE "complete"
  /\ tracked' = FALSE
  /\ UNCHANGED <<runVars, pending, taskVars, posted, reports, restVars>>

\* _post_sync_watchdog, half an hour after the last finalize.  (With nothing
\* pending it does nothing.)
WatchdogFires ==
  /\ watchdog /\ pending # {}
  /\ watchdog' = FALSE
  /\ pending' = {}
  /\ status' = IF status = "cancelled" THEN status ELSE "complete"
  /\ tracked' = FALSE /\ mixed' = TRUE
  /\ UNCHANGED <<runVars, sent, taskVars, busVars, walk, cancels>>

WalkEnds ==
  /\ walk /\ walk' = FALSE
  /\ UNCHANGED <<runVars, barVars, sent, taskVars, busVars, watchdog, cancels, mixed>>

-----------------------------------------------------------------------------
(* The run, as the chain sees it.                                          *)

\* _setup_sync stands the size warm-up down.
Begin ==
  /\ pc = "idle" /\ RunBegins
  /\ walk' = FALSE
  /\ mixed' = (AtWork \/ reports # {} \/ closing # {})
  /\ UNCHANGED <<barVars, taskVars, busVars, sent, watchdog, cancels>>

RunSetUp ==
  /\ SetUp
  /\ status' = "fetching" /\ tracked' = TRUE
  /\ UNCHANGED <<pending, taskVars, busVars, restVars>>

\* A step that shows nothing but a status.
Shows(s) == status' = s /\ UNCHANGED <<tracked, pending, taskVars, busVars, restVars>>

\* An empty SYNC_COMPLETE: no games, and the defaults for the rest.
RunEmpty ==
  /\ NoStores
  /\ mixed' = TRUE
  /\ posted' = Append(posted, SyncEvent("SYNC_COMPLETE"))
  /\ UNCHANGED <<barVars, taskVars, reports, closing, sent, watchdog, walk, cancels>>

\* The loop over the stores goes on.
RunFetches ==
  \/ NextStore /\ Shows("syncing")
  \/ FetchStarts /\ Shows(status)

RunGivesUp ==
  /\ GiveUp
  /\ status' = "cancelled"
  /\ posted' = Append(posted, SyncEvent("SYNC_CANCELLED"))
  /\ UNCHANGED <<tracked, pending, taskVars, reports, closing, restVars>>

\* Mutant: the watchdog is not armed.
RunFinalizesUnwatched(games) ==
  /\ Finalize
  /\ sent' = IF games THEN sent \cup {runs} ELSE sent
  /\ pending' = IF runs \in NoArtwork THEN Phases \ {"artwork"} ELSE Phases
  /\ status' = IF runs \in NoArtwork THEN status ELSE "artwork"
  /\ mixed' = (mixed \/ runs \in NoArtwork)
  /\ posted' = Append(posted, SyncEvent("SYNC_COMPLETE"))
  /\ UNCHANGED <<tracked, taskVars, reports, closing, watchdog, walk, cancels>>

\* _arm_artwork_phase, _arm_watchdog.  The library may turn out empty.
RunFinalizes(games) ==
  /\ Finalize
  /\ sent' = IF games THEN sent \cup {runs} ELSE sent
  /\ pending' = IF runs \in NoArtwork THEN Phases \ {"artwork"} ELSE Phases
  /\ status' = IF runs \in NoArtwork THEN status ELSE "artwork"
  /\ watchdog' = TRUE
  /\ mixed' = (mixed \/ runs \in NoArtwork)
  /\ posted' = Append(posted, SyncEvent("SYNC_COMPLETE"))
  /\ UNCHANGED <<tracked, taskVars, reports, closing, walk, cancels>>

RunDelivered ==
  Delivered /\ MetaSpawn /\ UNCHANGED <<barVars, restVars>>

\* A run without artwork emits the event of that phase and waits for it.
SkipEvent == Event("artwork", runs, "skip")
RunSkips ==
  /\ Skips /\ runs \in NoArtwork /\ Emit(SkipEvent)
  /\ UNCHANGED <<barVars, taskVars, restVars>>

RunOver ==
  /\ RunEnds \/ Raises
  /\ pc = "delivered" => ~(finalized /\ runs \in NoArtwork)
  /\ pc = "skipping" => /\ SkipEvent \notin reports \cup closing
                      /\ \A n \in DOMAIN posted : posted[n] # SkipEvent
  /\ Shows(status)

\* cancel: the tracker says cancelled whatever the run is at.
Cancel ==
  /\ cancels < MaxCancels /\ cancels' = cancels + 1
  /\ CancelRun
  /\ status' = "cancelled"
  /\ posted' = Append(posted, SyncEvent("SYNC_CANCELLED"))
  /\ UNCHANGED <<tracked, pending, taskVars, reports, closing, sent, watchdog, walk, mixed>>

\* SYNC_CANCELLED reaches the three services.  A batch that is cancelled ends by
\* BatchDone, a compat loop by CompatDone; a compat task whose event is being
\* delivered is cancelled in the middle of it.
TasksCancelled ==
  /\ SignalDelivered /\ Takes("SYNC_CANCELLED")
  /\ meta' = NoTask
  /\ compat' = IF compat.st \in {"running", "dying"} THEN [compat EXCEPT !.st = "dying"] ELSE NoTask
  /\ posted' = Silenced(Tail(posted))
  /\ reports' = reports \ (MetaUnheard \cup CompatUnheard)
  /\ UNCHANGED <<barVars, batches, orphans, closing, restVars>>

-----------------------------------------------------------------------------
RunStep ==
  \/ RunSetUp \/ RunEmpty \/ RunFetches \/ RunGivesUp \/ RunDelivered \/ RunSkips
  \/ \E games \in BOOLEAN : RunFinalizes(games)
  \/ RunOver \/ TasksCancelled

PhaseStep ==
  \/ MetaFirstStep \/ MetaDone
  \/ OnMetadataDone \/ OnArtworkDone
  \/ \E r \in batches : BatchDone(r)
  \/ CompatFirstStep \/ CompatDone
  \/ \E r \in orphans : OrphanDone(r)
  \/ \E e \in reports : Report(e)
  \/ \E e \in closing : Close(e)

Next ==
  \/ Begin \/ Cancel \/ RunStep \/ PhaseStep \/ WatchdogFires \/ WalkEnds

Spec == Init /\ [][Next]_vars

\* The loop and its threads run what is ready, the requests of a phase end or
\* time out, and the sleep of the watchdog ends.
FairSpec == Spec /\ WF_vars(PhaseStep) /\ WF_vars(WatchdogFires)

-----------------------------------------------------------------------------
(* Properties.                                                             *)

\* "Only when every registered phase reports done do we mark_complete": once a
\* sync with artwork shows complete, none of its tasks is at work, unless work
\* of an earlier sync was about when it began or the watchdog forced it.
CompleteMeansIdle == status = "complete" /\ ~mixed => ~AtWork

\* A sync cancelled before it has replaced the library shows cancelled until
\* the next one begins, unless work of an earlier sync was about: no step of
\* the loop over the stores overwrites the user's cancellation.
CancelledEarlySticks ==
  [][status = "cancelled" /\ ~mixed /\ ~finalized =>
     status' \in {"cancelled", "fetching"} \/ mixed']_vars

\* The bar of a sync that waits for its phases settles, whichever events a
\* cancellation or a newer sync swallows: the set of phases drains, and the
\* status is complete or cancelled when it has.
BarSettles == pending # {} ~> pending = {} /\ status \in {"complete", "cancelled"}

\* "Services' try/finally still emits the phase-done event after cancel, which
\* would otherwise flip status from cancelled to complete": once every service
\* has heard of the cancellation, the status is preserved until the next sync
\* begins.
CancelledSticks ==
  [][status = "cancelled" /\ signals = 0 => status' \in {"cancelled", "fetching"}]_vars

\* "The walk re-spawns when the sync's phases complete": it runs when the last
\* phase of a sync that found games has been reported.
WalkFollowsSync ==
  [][status # "complete" /\ status' = "complete" /\ ~mixed' /\ runs \in sent => walk']_vars
=============================================================================
