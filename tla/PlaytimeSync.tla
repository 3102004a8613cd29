---------------------------- MODULE PlaytimeSync ----------------------------
(***************************************************************************)
(* PlaytimeSyncService (services/playtime_sync) on the database of module  *)
(* Playtime.  A drain takes the lock, reads the finished sessions without  *)
(* a reported_at, asks the store of the oldest whether it is available and *)
(* sends that store's sessions one after another, stamping each when the   *)
(* store says yes; then the next store.  A drain is started by every       *)
(* session that ends and once when the plugin starts.                      *)
(*                                                                         *)
(* The service stops before PlaytimeService does, and closes its database  *)
(* under a drain that is waiting for an answer; the plugin may also be     *)
(* killed at any point.  The answer of a store can be lost.  The totals a  *)
(* drain pulls afterwards are for display only and left out.               *)
(***************************************************************************)
EXTENDS Playtime, FiniteSets

CONSTANTS
  Stores, SyncStores,  \* the stores, and _SYNC_STORES, those that take sessions
  StoreOf,             \* the store of each game
  RoundsDown,          \* the stores that count in minutes (GOG)
  MinReport,           \* the shortest session such a store does not round to 0
  MaxSends             \* bound: how often one session may be sent

ASSUME SyncAssumption ==
  /\ SyncStores \subseteq Stores
  /\ StoreOf \in [Games -> Stores]
  /\ MinReport \in Nat /\ MaxSends \in Nat \ {0}

VARIABLES
  waiting,   \* drains that have not had the lock yet
  at,        \* the drain that has it: idle, asks, sends or sent
  todo,      \* the rows it has read and not dealt with
  cur,       \* the one it deals with
  reported,  \* the rows with a reported_at
  sends,     \* how often the store has taken each session
  unsure,    \* observer: the store took it and the plugin does not know
  missed     \* observer: the last drain that read it could not send it

syncVars == <<waiting, at, todo, cur, reported, sends, unsure, missed>>
vars == <<playtimeVars, syncVars>>

Store(r) == StoreOf[row[r].game]
Counted == {r \in Closed : Long(r) /\ Store(r) \in SyncStores}
Tiny == {r \in Closed : Store(r) \in RoundsDown /\ row[r].secs < MinReport}

\* Mutant: the sessions of every finished row, stamped or not.
EveryFinished == Counted

\* get_unreported_sessions
Unreported == Counted \ reported

Oldest(rs) == {r \in rs : \A q \in rs : row[r].began <= row[q].began}

TypeOK ==
  /\ now \in Nat /\ up \in {"down", "up", "stopping"}
  /\ row \in [Ids -> [state : {"free", "open", "closed"}, game : Games \cup {NoGame},
                      began : Nat, secs : Nat]]
  /\ active \in [Games -> Ids \cup {NoId}]
  /\ daily \in [Ids -> Nat] /\ known \in [Ids -> Nat]
  /\ totals \in [Games -> SUBSET Ids]
  /\ waiting \in Nat
  /\ at \in {"idle", "asks", "sends", "sent"}
  /\ todo \subseteq Ids /\ cur \in Ids \cup {NoId}
  /\ {reported, unsure, missed} \subseteq SUBSET Ids
  /\ sends \in [Ids -> Nat]

Init ==
  /\ PlaytimeInit
  /\ waiting = 0 /\ at = "idle" /\ todo = {} /\ cur = NoId
  /\ reported = {} /\ unsure = {} /\ missed = {}
  /\ sends = [r \in Ids |-> 0]

-----------------------------------------------------------------------------
\* The plugin.

GameLaunched(g) == Launched(g) /\ UNCHANGED syncVars

Beat == Heartbeat /\ UNCHANGED syncVars

TimePasses == Tick /\ UNCHANGED syncVars

\* Mutant: the session is kept and PLAYTIME_UPDATED is not emitted.
StopsQuietly(g) ==
  /\ up # "down" /\ active[g] # NoId
  /\ EndSessions({g})
  /\ UNCHANGED <<now, up, syncVars>>

\* _on_game_stopped: PLAYTIME_UPDATED starts a drain if a session was counted
\* and the sync service still listens.
GameStopped(g) ==
  /\ up # "down" /\ active[g] # NoId
  /\ EndSessions({g})
  /\ waiting' = IF up = "up" /\ now - row[active[g]].began >= MinSession
                THEN waiting + 1 ELSE waiting
  /\ UNCHANGED <<now, up, at, todo, cur, reported, sends, unsure, missed>>

\* start_async_services: playtime, which closes the orphans, then
\* playtime_sync with its first drain.
Start ==
  /\ up = "down" /\ up' = "up"
  /\ ReconcileOrphans
  /\ waiting' = 1
  /\ UNCHANGED <<now, active, known, at, todo, cur, reported, sends, unsure, missed>>

\* stop_all_services: playtime_sync unsubscribes and closes its database.
StopSync ==
  /\ up = "up" /\ up' = "stopping"
  /\ UNCHANGED <<now, row, active, daily, totals, known, syncVars>>

\* What a process that ends leaves of its drains.
DrainsDie ==
  /\ waiting' = 0 /\ at' = "idle" /\ todo' = {} /\ cur' = NoId
  /\ unsure' = IF at = "sent" THEN unsure \cup {cur} ELSE unsure
  /\ UNCHANGED <<reported, sends, missed>>

\* playtime follows: the live sessions end as "plugin_unload", nobody hears of
\* it, and the process is left.
StopPlaytime ==
  /\ up = "stopping" /\ up' = "down"
  /\ EndSessions({g \in Games : active[g] # NoId})
  /\ DrainsDie
  /\ UNCHANGED now

Crash ==
  /\ up # "down"
  /\ ProcessEnds /\ DrainsDie

-----------------------------------------------------------------------------
\* The drain.

\* Mutant: the drain ends with the store it began with.
FirstStoreOnly(rest) ==
  LET same == {r \in rest : Store(r) = Store(cur)}
  IN  /\ todo' = same
      /\ \/ same # {} /\ cur' \in Oldest(same) /\ at' = "sends"
         \/ same = {} /\ cur' = NoId /\ at' = "idle"

\* The drain that has the lock turns to a row of the rest, of the same store
\* if there is one, or ends.
Turns(rest) ==
  LET same == {r \in rest : Store(r) = Store(cur)}
  IN  /\ todo' = rest
      /\ \/ same # {} /\ cur' \in Oldest(same) /\ at' = "sends"
         \/ same = {} /\ rest # {} /\ cur' \in Oldest(rest) /\ at' = "asks"
         \/ rest = {} /\ cur' = NoId /\ at' = "idle"

\* The rows it reads; with none it ends at once.
DrainReads(rs) ==
  /\ todo' = rs
  /\ IF rs = {} THEN cur' = NoId /\ at' = "idle"
     ELSE cur' \in Oldest(rs) /\ at' = "asks"

\* Mutant: a drain runs that nobody has asked for.
DrainUnasked ==
  /\ at = "idle" /\ up # "down"
  /\ waiting' = waiting - 1
  /\ IF up = "up"
     THEN DrainReads(Unreported) /\ missed' = missed \ Unreported
     ELSE UNCHANGED <<todo, cur, at, missed>>
  /\ UNCHANGED <<playtimeVars, reported, sends, unsure>>

\* _drain gets the lock.  A service that has been stopped has no database.
DrainBegins ==
  /\ waiting > 0 /\ at = "idle" /\ up # "down"
  /\ waiting' = waiting - 1
  /\ IF up = "up"
     THEN DrainReads(Unreported) /\ missed' = missed \ Unreported
     ELSE UNCHANGED <<todo, cur, at, missed>>
  /\ UNCHANGED <<playtimeVars, reported, sends, unsure>>

\* is_available of the store.
Available ==
  /\ at = "asks" /\ at' = "sends"
  /\ UNCHANGED <<playtimeVars, waiting, todo, cur, reported, sends, unsure, missed>>

\* It says no, or raises: the sessions of that store wait for another drain.
Unavailable ==
  /\ at = "asks"
  /\ LET skipped == {r \in todo : Store(r) = Store(cur)}
     IN  Turns(todo \ skipped) /\ missed' = missed \cup skipped
  /\ UNCHANGED <<playtimeVars, waiting, reported, sends, unsure>>

\* report_play_session: the store takes the session ...
StoreTakes ==
  /\ at = "sends" /\ cur \notin Tiny
  /\ sends[cur] < MaxSends
  /\ sends' = [sends EXCEPT ![cur] = @ + 1]
  /\ at' = "sent"
  /\ UNCHANGED <<playtimeVars, waiting, todo, cur, reported, unsure, missed>>

\* ... or there is no way to it, or no token.
SendFails ==
  /\ at = "sends" /\ cur \notin Tiny
  /\ Turns(todo \ {cur})
  /\ missed' = missed \cup {cur}
  /\ UNCHANGED <<playtimeVars, waiting, reported, sends, unsure>>

\* The answer does not get back.
AnswerLost ==
  /\ at = "sent"
  /\ Turns(todo \ {cur})
  /\ missed' = missed \cup {cur} /\ unsure' = unsure \cup {cur}
  /\ UNCHANGED <<playtimeVars, waiting, reported, sends>>

\* Mutant: a session is stamped when it is sent, whatever comes back.
StampsAnyway ==
  /\ at \in {"sends", "sent"} /\ up = "up"
  /\ reported' = reported \cup {cur}
  /\ Turns(todo \ {cur})
  /\ UNCHANGED <<playtimeVars, waiting, sends, unsure, missed>>

\* The answer is yes: at once for a session of no minutes.
SaidYes == at = "sent" \/ (at = "sends" /\ cur \in Tiny)

\* mark_session_reported, after a yes or for a session of no minutes.
Stamps ==
  /\ SaidYes
  /\ up = "up"
  /\ reported' = reported \cup {cur}
  /\ Turns(todo \ {cur})
  /\ UNCHANGED <<playtimeVars, waiting, sends, unsure, missed>>

\* The database is gone: mark_session_reported raises out of the drain.
StampRaises ==
  /\ SaidYes
  /\ up = "stopping"
  /\ at' = "idle" /\ todo' = {} /\ cur' = NoId
  /\ unsure' = IF at = "sent" THEN unsure \cup {cur} ELSE unsure
  /\ UNCHANGED <<playtimeVars, waiting, reported, sends, missed>>

Answer == Available \/ Unavailable
Outcome == StoreTakes \/ SendFails \/ Stamps \/ AnswerLost \/ StampRaises
Sync == DrainBegins \/ Answer \/ Outcome

Next ==
  \/ \E g \in Games : GameLaunched(g) \/ GameStopped(g)
  \/ Beat \/ TimePasses
  \/ Start \/ StopSync \/ StopPlaytime \/ Crash
  \/ Sync

\* A drain that can go on does: the requests it waits for have timeouts.
Spec == Init /\ [][Next]_vars /\ WF_vars(Sync)

-----------------------------------------------------------------------------
\* A store takes a session twice only if the plugin could not know that it had
\* taken it: the answer was lost, or the process or the service stopped before
\* the stamp.  Drains that meet never send the same session.
OnceIfKnown == \A r \in Ids : sends[r] > 1 => r \in unsure

\* A finished session that is not stamped is in the drain at work, or a drain
\* is yet to come, or the last drain tried it in vain.
NothingForgotten ==
  up = "up" => \A r \in Unreported : waiting > 0 \/ r \in todo \/ r \in missed

\* While the plugin stays up each finished session is stamped in the end, or
\* tried in vain.
FinishedIsReported ==
  \A r \in Ids : r \in Unreported ~> (r \notin Unreported \/ r \in missed \/ up # "up")

Ledger == INSTANCE Outbox WITH recorded <- Counted, sent <- sends, stamped <- reported

\* The database is an outbox: no session is sent before it has its final
\* duration, none after its stamp, none is stamped unsent.
ImplementsOutbox == Ledger!OutboxInit(Ids) /\ [][Ledger!OutboxNext(Ids, Tiny)]_(Ledger!outboxVars)
=============================================================================
