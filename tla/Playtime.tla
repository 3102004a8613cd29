------------------------------ MODULE Playtime ------------------------------
(***************************************************************************)
(* PlaytimeService (services/playtime): one row of play_sessions per play  *)
(* session, open until the game stops.  A heartbeat writes the running     *)
(* duration into the open rows; a start of the plugin closes the rows a    *)
(* crash has left open, with the last duration the heartbeat wrote.        *)
(* daily_stats adds each counted session to the day, game_stats is the sum *)
(* over the closed rows of the game, taken again whenever one is counted.  *)
(*                                                                         *)
(* Every handler runs without an await between its first statement and its *)
(* commit, so each is one step.  The frontend reports launches and exits   *)
(* and either report can be missed (Steam's interface reloads): any        *)
(* sequence of the two is possible.  A table of sums is represented by     *)
(* what has been added to it.                                              *)
(***************************************************************************)
EXTENDS Naturals

CONSTANTS
  Games,
  Ids,         \* the row ids; the id of a deleted row comes back here
  NoGame, NoId,
  MinSession,  \* _MIN_SESSION_SECONDS
  MaxTime      \* bound: the clock of a run

ASSUME PlaytimeAssumption ==
  /\ NoGame \notin Games /\ NoId \notin Ids
  /\ MinSession \in Nat \ {0} /\ MaxTime \in Nat

VARIABLES
  now,      \* datetime.now(UTC)
  up,       \* the plugin: down, up, or stopping (playtime_sync has stopped)
  row,      \* play_sessions; "free" where there is no row
  active,   \* _active: the row of each game with a live session
  daily,    \* daily_stats: how often each row has been added to it
  totals,   \* game_stats: per game, the rows its total sums
  known     \* observer: until when the plugin has followed each session

playtimeVars == <<now, up, row, active, daily, totals, known>>

NoRow == [state |-> "free", game |-> NoGame, began |-> 0, secs |-> 0]

Open == {r \in Ids : row[r].state = "open"}
Closed == {r \in Ids : row[r].state = "closed"}
Long(r) == row[r].secs >= MinSession

PlaytimeInit ==
  /\ now = 0 /\ up = "down"
  /\ row = [r \in Ids |-> NoRow]
  /\ active = [g \in Games |-> NoId]
  /\ daily = [r \in Ids |-> 0]
  /\ totals = [g \in Games |-> {}]
  /\ known = [r \in Ids |-> 0]

Tick ==
  /\ now < MaxTime
  /\ now' = now + 1
  /\ UNCHANGED <<up, row, active, daily, totals, known>>

\* _on_game_launched; a game with a live session is left alone.
Launched(g) ==
  /\ up # "down" /\ active[g] = NoId
  /\ \E r \in Ids :
       /\ row[r].state = "free"
       /\ row' = [row EXCEPT ![r] = [state |-> "open", game |-> g, began |-> now, secs |-> 0]]
       /\ active' = [active EXCEPT ![g] = r]
  /\ UNCHANGED <<now, up, daily, totals, known>>

\* _checkpoint_active: the running duration goes to the rows that are open.
Heartbeat ==
  /\ up = "up"
  /\ row' = [r \in Ids |-> IF row[r].state = "open" /\ \E g \in Games : active[g] = r
                           THEN [row[r] EXCEPT !.secs = now - row[r].began]
                           ELSE row[r]]
  /\ row' # row
  /\ UNCHANGED <<now, up, active, daily, totals, known>>

\* _refresh_game_stats, after the rows of counted have been closed.
Refreshed(counted) ==
  [g \in Games |->
     IF \E r \in counted : row'[r].game = g
     THEN {r \in Ids : row'[r].state = "closed" /\ row'[r].game = g /\ row'[r].secs > 0}
     ELSE totals[g]]

\* _end_session for the games of gs: a session too short to count is deleted,
\* a longer one is closed and counted.
EndSessions(gs) ==
  LET ending == {active[g] : g \in gs} \cap Ids
      long == {r \in ending : now - row[r].began >= MinSession}
  IN  /\ active' = [g \in Games |-> IF g \in gs THEN NoId ELSE active[g]]
      /\ row' = [r \in Ids |->
                   CASE r \in long -> [row[r] EXCEPT !.state = "closed",
                                                     !.secs = now - row[r].began]
                     [] r \in ending \ long -> NoRow
                     [] OTHER -> row[r]]
      /\ daily' = [r \in Ids |-> IF r \in long THEN daily[r] + 1 ELSE daily[r]]
      /\ totals' = Refreshed(long)
      /\ known' = [r \in Ids |-> CASE r \in long -> now
                                   [] r \in ending \ long -> 0
                                   [] OTHER -> known[r]]

\* Mutant: every row without a reported_at is taken for an orphan.
ReconcileAll ==
  /\ row' = [r \in Ids |-> IF row[r].state # "free"
                           THEN [row[r] EXCEPT !.state = "closed"] ELSE row[r]]
  /\ daily' = [r \in Ids |-> IF row[r].state # "free" /\ Long(r) THEN daily[r] + 1 ELSE daily[r]]
  /\ totals' = Refreshed({r \in Open : Long(r)})

\* _reconcile_orphans: the open rows are closed with the duration they hold.
ReconcileOrphans ==
  /\ row' = [r \in Ids |-> IF r \in Open THEN [row[r] EXCEPT !.state = "closed"]
                           ELSE row[r]]
  /\ daily' = [r \in Ids |-> IF r \in Open /\ Long(r) THEN daily[r] + 1 ELSE daily[r]]
  /\ totals' = Refreshed({r \in Open : Long(r)})

\* The process dies: the open rows stay open.
ProcessEnds ==
  /\ up' = "down"
  /\ active' = [g \in Games |-> NoId]
  /\ known' = [r \in Ids |-> IF r \in Open THEN now ELSE known[r]]
  /\ UNCHANGED <<now, row, daily, totals>>

-----------------------------------------------------------------------------
\* The open rows are those of the live sessions; after a crash there may be
\* open rows and no live session.
OpenIsLive ==
  /\ up # "down" => Open = {active[g] : g \in Games} \cap Ids
  /\ \A g \in Games : active[g] # NoId =>
       row[active[g]].state = "open" /\ row[active[g]].game = g

\* A session is added to the day once if it is closed and long enough, and
\* not at all if it is not.
CountedOnce ==
  \A r \in Ids : daily[r] = IF r \in Closed /\ Long(r) THEN 1 ELSE 0

\* The total of a game sums all the sessions that the days have, and beyond
\* them only closed ones of the same game.
TotalsAgree ==
  \A g \in Games :
    /\ {r \in Closed : row[r].game = g /\ Long(r)} \subseteq totals[g]
    /\ totals[g] \subseteq {r \in Closed : row[r].game = g}

\* No second of a game is in two sessions, and none is in a session that the
\* plugin was not running to see.
NeverCountedTwice ==
  \A r, q \in Ids :
    /\ r # q /\ row[r].state # "free" /\ row[q].state # "free" /\ row[r].game = row[q].game
         => \/ row[r].began + row[r].secs <= row[q].began
            \/ row[q].began + row[q].secs <= row[r].began
    /\ r \in Closed => row[r].began + row[r].secs <= known[r]

\* Play time is kept right across heartbeats, exits, crashes and restarts.
SessionLedger == OpenIsLive /\ CountedOnce /\ TotalsAgree /\ NeverCountedTwice
=============================================================================
