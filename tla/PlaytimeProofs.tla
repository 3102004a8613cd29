--------------------------- MODULE PlaytimeProofs ---------------------------
(***************************************************************************)
(* What each operation of module Playtime does to the ledger, for every    *)
(* set of games and rows.  SessionLedger is not inductive: that two        *)
(* sessions of a game share no second needs the open one to lie behind all *)
(* the others (OpenIsLatest), through a crash and its reconciliation too,  *)
(* and that a closed one ends when it was last seen needs the same of the  *)
(* rows a crash left open (SeenToTheEnd).                                  *)
(***************************************************************************)
EXTENDS Playtime, TLAPS

Rows == [state : {"free", "open", "closed"}, game : Games \cup {NoGame},
         began : Nat, secs : Nat]

LedgerTyped ==
  /\ now \in Nat /\ up \in {"down", "up", "stopping"}
  /\ row \in [Ids -> Rows]
  /\ active \in [Games -> Ids \cup {NoId}]
  /\ daily \in [Ids -> Nat] /\ known \in [Ids -> Nat]
  /\ totals \in [Games -> SUBSET Ids]

\* A row is about a game, and its duration has passed.
RowsSound ==
  \A r \in Ids : row[r].state # "free" =>
    row[r].game \in Games /\ row[r].began + row[r].secs <= now

\* The open session of a game began when all its others had ended.
OpenIsLatest ==
  \A r \in Open : \A q \in Ids \ {r} :
    row[q].state # "free" /\ row[q].game = row[r].game =>
      row[q].state = "closed" /\ row[q].began + row[q].secs <= row[r].began

\* The rows a dead process has left hold no more than it has seen.
SeenToTheEnd ==
  up = "down" => \A r \in Open : row[r].began + row[r].secs <= known[r]

\* A process that is down has no live session.
NoneLiveWhenDown == up = "down" => \A g \in Games : active[g] = NoId

LedgerInv ==
  /\ LedgerTyped
  /\ RowsSound
  /\ OpenIsLatest
  /\ SeenToTheEnd
  /\ NoneLiveWhenDown
  /\ SessionLedger

\* Closed rows are never touched again.
ClosedStay == \A r \in Closed : row'[r] = row[r]

-----------------------------------------------------------------------------
\* The database of a first start.
LEMMA LedgerStarts == PlaytimeInit => LedgerInv
<1> SUFFICES ASSUME PlaytimeInit PROVE LedgerInv
  OBVIOUS
<1>1. Open = {} /\ Closed = {}
  BY DEF PlaytimeInit, NoRow, Open, Closed
<1>2. LedgerTyped
  BY DEF PlaytimeInit, NoRow, LedgerTyped, Rows
<1>3. RowsSound /\ OpenIsLatest /\ SeenToTheEnd /\ NoneLiveWhenDown
  BY <1>1 DEF PlaytimeInit, NoRow, RowsSound, OpenIsLatest, SeenToTheEnd, NoneLiveWhenDown
<1>4. SessionLedger
  BY <1>1, PlaytimeAssumption
     DEF PlaytimeInit, NoRow, SessionLedger, OpenIsLive, CountedOnce, TotalsAgree, NeverCountedTwice
<1> QED
  BY <1>2, <1>3, <1>4 DEF LedgerInv

\* Time alone changes nothing but the clock.
LEMMA TickKeeps == LedgerInv /\ Tick => LedgerInv' /\ ClosedStay
<1> SUFFICES ASSUME LedgerInv, Tick PROVE LedgerInv' /\ ClosedStay
  OBVIOUS
<1>1. LedgerTyped'
  BY DEF LedgerInv, LedgerTyped, Tick
<1>2. RowsSound'
  BY DEF LedgerInv, LedgerTyped, Rows, RowsSound, Tick
<1>3. OpenIsLatest' /\ SeenToTheEnd' /\ NoneLiveWhenDown' /\ ClosedStay
  BY DEF LedgerInv, OpenIsLatest, SeenToTheEnd, NoneLiveWhenDown, ClosedStay, Open, Tick
<1>4. SessionLedger'
  BY DEF LedgerInv, SessionLedger, OpenIsLive, CountedOnce, TotalsAgree, NeverCountedTwice,
         Open, Closed, Long, Tick
<1> QED
  BY <1>1, <1>2, <1>3, <1>4 DEF LedgerInv

\* A launch opens a row behind all the others of its game.
LEMMA LaunchKeeps ==
  ASSUME LedgerInv, NEW g \in Games, Launched(g)
  PROVE  LedgerInv' /\ ClosedStay
<1> PICK n \in Ids :
      /\ row[n].state = "free"
      /\ row' = [row EXCEPT ![n] = [state |-> "open", game |-> g, began |-> now, secs |-> 0]]
      /\ active' = [active EXCEPT ![g] = n]
  BY DEF Launched
<1>1. /\ up # "down" /\ active[g] = NoId
      /\ UNCHANGED <<now, up, daily, totals, known>>
  BY DEF Launched
<1>2. LedgerTyped'
  BY <1>1 DEF LedgerInv, LedgerTyped, Rows
<1>3. /\ row'[n] = [state |-> "open", game |-> g, began |-> now, secs |-> 0]
      /\ \A r \in Ids \ {n} : row'[r] = row[r]
      /\ active'[g] = n /\ \A h \in Games \ {g} : active'[h] = active[h]
  BY DEF LedgerInv, LedgerTyped
<1>4. Open' = Open \cup {n} /\ Closed' = Closed /\ n \notin Open \cup Closed
  BY <1>3 DEF Open, Closed
<1>5. ClosedStay
  BY <1>3, <1>4 DEF ClosedStay, Closed
<1>6. \A r \in Open : row[r].game # g
  BY <1>1, PlaytimeAssumption DEF Open, LedgerInv, SessionLedger, OpenIsLive
<1>7. RowsSound'
  BY <1>1, <1>3 DEF LedgerInv, LedgerTyped, RowsSound
<1>8. OpenIsLatest'
  BY <1>1, <1>3, <1>4, <1>6 DEF LedgerInv, LedgerTyped, Rows, RowsSound, OpenIsLatest, Open
<1>9. SeenToTheEnd' /\ NoneLiveWhenDown'
  BY <1>1 DEF SeenToTheEnd, NoneLiveWhenDown
<1>10. OpenIsLive'
  BY <1>1, <1>3, <1>4, PlaytimeAssumption DEF LedgerInv, LedgerTyped, SessionLedger, OpenIsLive, Open
<1>11. CountedOnce'
  <2> SUFFICES ASSUME NEW r \in Ids
               PROVE  daily'[r] = IF r \in Closed' /\ Long(r)' THEN 1 ELSE 0
    BY DEF CountedOnce
  <2> QED
    BY <1>1, <1>3, <1>4 DEF LedgerInv, SessionLedger, CountedOnce, Long
<1>12. TotalsAgree'
  BY <1>1, <1>3, <1>4 DEF LedgerInv, SessionLedger, TotalsAgree, Long, Closed
<1>13. NeverCountedTwice'
  <2> SUFFICES ASSUME NEW r \in Ids, NEW q \in Ids
               PROVE  /\ r # q /\ row'[r].state # "free" /\ row'[q].state # "free"
                           /\ row'[r].game = row'[q].game
                           => \/ row'[r].began + row'[r].secs <= row'[q].began
                              \/ row'[q].began + row'[q].secs <= row'[r].began
                      /\ r \in Closed' => row'[r].began + row'[r].secs <= known'[r]
    BY DEF NeverCountedTwice
  <2>1. CASE r # n /\ q # n
    BY <1>1, <1>3, <1>4, <2>1 DEF LedgerInv, SessionLedger, NeverCountedTwice
  <2>2. CASE r = n \/ q = n
    BY <1>1, <1>3, <1>4, <1>6, <2>2
       DEF LedgerInv, LedgerTyped, Rows, RowsSound, SessionLedger, NeverCountedTwice, Closed
  <2> QED
    BY <2>1, <2>2
<1> QED
  BY <1>2, <1>5, <1>7, <1>8, <1>9, <1>10, <1>11, <1>12, <1>13 DEF LedgerInv, SessionLedger

\* A heartbeat brings the live rows up to now, and no further.
LEMMA HeartbeatKeeps == LedgerInv /\ Heartbeat => LedgerInv' /\ ClosedStay
<1> SUFFICES ASSUME LedgerInv, Heartbeat PROVE LedgerInv' /\ ClosedStay
  OBVIOUS
<1>1. up = "up" /\ UNCHANGED <<now, up, active, daily, totals, known>>
  BY DEF Heartbeat
<1>2. \A r \in Ids : row'[r] = IF r \in Open THEN [row[r] EXCEPT !.secs = now - row[r].began]
                               ELSE row[r]
  BY <1>1 DEF Heartbeat, LedgerInv, SessionLedger, OpenIsLive, Open
<1>3. \A r \in Open : now - row[r].began \in Nat
  BY DEF LedgerInv, LedgerTyped, Rows, RowsSound, Open
<1>4. /\ \A r \in Ids : /\ row[r] \in Rows /\ row'[r].state = row[r].state
                        /\ row'[r].game = row[r].game /\ row'[r].began = row[r].began
      /\ \A r \in Open : row'[r].secs = now - row[r].began
      /\ \A r \in Ids \ Open : row'[r] = row[r]
  BY <1>2 DEF LedgerInv, LedgerTyped, Rows, Open
<1>5. Open' = Open /\ Closed' = Closed /\ Open \cap Closed = {}
  BY <1>4 DEF Open, Closed
<1>6. LedgerTyped'
  <2>1. DOMAIN row' = Ids /\ row' = [r \in Ids |-> row'[r]]
    BY DEF Heartbeat
  <2>2. ASSUME NEW r \in Ids
        PROVE  row'[r] \in Rows
    <3>1. CASE r \in Open
      BY <1>2, <1>3, <1>4, <3>1 DEF Rows
    <3>2. CASE r \notin Open
      BY <1>4, <3>2
    <3> QED
      BY <3>1, <3>2
  <2> QED
    BY <1>1, <2>1, <2>2 DEF LedgerInv, LedgerTyped
<1>7. RowsSound'
  BY <1>1, <1>3, <1>4 DEF LedgerInv, LedgerTyped, Rows, RowsSound, Open
<1>8. OpenIsLatest'
  BY <1>4, <1>5 DEF LedgerInv, OpenIsLatest, Open
<1>9. SeenToTheEnd' /\ NoneLiveWhenDown' /\ ClosedStay
  BY <1>1, <1>4, <1>5 DEF SeenToTheEnd, NoneLiveWhenDown, ClosedStay, Closed
<1>10. OpenIsLive'
  BY <1>1, <1>4, <1>5 DEF LedgerInv, LedgerTyped, SessionLedger, OpenIsLive
<1>11. \A r \in Closed : row'[r] = row[r] /\ Long(r)' = Long(r)
  BY <1>4, <1>5 DEF Closed, Long
<1>12. CountedOnce' /\ TotalsAgree'
  BY <1>1, <1>4, <1>5, <1>11 DEF LedgerInv, SessionLedger, CountedOnce, TotalsAgree
<1>13. NeverCountedTwice'
  <2> SUFFICES ASSUME NEW r \in Ids, NEW q \in Ids
               PROVE  /\ r # q /\ row'[r].state # "free" /\ row'[q].state # "free"
                           /\ row'[r].game = row'[q].game
                           => \/ row'[r].began + row'[r].secs <= row'[q].began
                              \/ row'[q].began + row'[q].secs <= row'[r].began
                      /\ r \in Closed' => row'[r].began + row'[r].secs <= known'[r]
    BY DEF NeverCountedTwice
  <2>1. CASE r \notin Open /\ q \notin Open
    BY <1>1, <1>4, <1>5, <2>1 DEF LedgerInv, SessionLedger, NeverCountedTwice
  <2>2. CASE r \in Open \/ q \in Open
    BY <1>1, <1>4, <1>5, <2>2
       DEF LedgerInv, SessionLedger, NeverCountedTwice, OpenIsLatest, Open, Closed
  <2> QED
    BY <2>1, <2>2
<1> QED
  BY <1>6, <1>7, <1>8, <1>9, <1>10, <1>12, <1>13 DEF LedgerInv, SessionLedger

\* A crash leaves the rows as they are.
LEMMA CrashKeeps == LedgerInv /\ ProcessEnds => LedgerInv' /\ ClosedStay
<1> SUFFICES ASSUME LedgerInv, ProcessEnds PROVE LedgerInv' /\ ClosedStay
  OBVIOUS
<1>1. /\ up' = "down" /\ UNCHANGED <<now, row, daily, totals>>
      /\ \A g \in Games : active'[g] = NoId
      /\ \A r \in Ids : known'[r] = IF r \in Open THEN now ELSE known[r]
      /\ Open' = Open /\ Closed' = Closed
  BY DEF ProcessEnds, Open, Closed
<1>2. LedgerTyped'
  BY DEF ProcessEnds, LedgerInv, LedgerTyped
<1>3. RowsSound' /\ OpenIsLatest' /\ ClosedStay /\ NoneLiveWhenDown'
  BY <1>1 DEF LedgerInv, RowsSound, OpenIsLatest, ClosedStay, NoneLiveWhenDown
<1>4. SeenToTheEnd'
  BY <1>1 DEF LedgerInv, RowsSound, SeenToTheEnd, Open
<1>5. OpenIsLive' /\ CountedOnce' /\ TotalsAgree'
  BY <1>1 DEF LedgerInv, SessionLedger, OpenIsLive, CountedOnce, TotalsAgree, Long
<1>6. NeverCountedTwice'
  BY <1>1 DEF LedgerInv, LedgerTyped, SessionLedger, NeverCountedTwice, Open, Closed
<1> QED
  BY <1>2, <1>3, <1>4, <1>5, <1>6 DEF LedgerInv, SessionLedger

-----------------------------------------------------------------------------
(* The totals are taken again for the games of the sessions just counted.  *)

\* They then have every counted session and only closed ones, if that is what
\* the sessions newly closed are about.
LEMMA RefreshedTotals ==
  ASSUME LedgerTyped, LedgerTyped', TotalsAgree, ClosedStay,
         NEW counted \in SUBSET Closed',
         totals' = Refreshed(counted),
         Closed \subseteq Closed',
         \A r \in Closed' : Long(r)' => r \in Closed \cup counted
  PROVE  TotalsAgree'
<1> SUFFICES ASSUME NEW g \in Games
             PROVE  /\ {r \in Closed' : row'[r].game = g /\ Long(r)'} \subseteq totals'[g]
                    /\ totals'[g] \subseteq {r \in Closed' : row'[r].game = g}
  BY DEF TotalsAgree
<1>1. CASE \E r \in counted : row'[r].game = g
  <2>1. totals'[g] = {r \in Ids : row'[r].state = "closed" /\ row'[r].game = g /\ row'[r].secs > 0}
    BY <1>1 DEF Refreshed
  <2>2. \A r \in Closed' : Long(r)' => row'[r].secs > 0
    BY PlaytimeAssumption DEF Closed, Long, LedgerTyped, Rows
  <2> QED
    BY <2>1, <2>2 DEF Closed
<1>2. CASE ~\E r \in counted : row'[r].game = g
  <2>1. totals'[g] = totals[g]
    BY <1>2 DEF Refreshed
  <2>2. \A r \in Closed : row'[r] = row[r] /\ (Long(r)' <=> Long(r))
    BY DEF ClosedStay, Long
  <2>3. \A r \in Closed' : Long(r)' /\ row'[r].game = g => r \in Closed
    BY <1>2
  <2> QED
    BY <2>1, <2>2, <2>3 DEF TotalsAgree
<1> QED
  BY <1>1, <1>2

LEMMA RefreshedTyped ==
  ASSUME LedgerTyped, NEW counted, totals' = Refreshed(counted)
  PROVE  totals' \in [Games -> SUBSET Ids]
<1> SUFFICES ASSUME NEW g \in Games
             PROVE  /\ (IF \E r \in counted : row'[r].game = g
                        THEN {r \in Ids : row'[r].state = "closed" /\ row'[r].game = g
                                           /\ row'[r].secs > 0}
                        ELSE totals[g]) \in SUBSET Ids
  BY DEF Refreshed
<1> QED
  BY DEF LedgerTyped

\* A start closes what a crash has left open, with what it holds.
LEMMA ReconcileKeeps ==
  ASSUME LedgerInv, up = "down", up' = "up", ReconcileOrphans, UNCHANGED <<now, active, known>>
  PROVE  LedgerInv' /\ ClosedStay
<1>1. \A r \in Ids : row[r] \in Rows
  BY DEF LedgerInv, LedgerTyped
<1>2. ASSUME NEW r \in Ids
      PROVE  /\ row'[r] \in Rows
             /\ r \in Open => row'[r].state = "closed"
             /\ r \notin Open => row'[r] = row[r]
             /\ row'[r].game = row[r].game
             /\ row'[r].began = row[r].began
             /\ row'[r].secs = row[r].secs
             /\ (row'[r].state # "free") <=> (row[r].state # "free")
             /\ Long(r)' <=> Long(r)
             /\ daily'[r] = IF r \in Open /\ Long(r) THEN daily[r] + 1 ELSE daily[r]
  <2>1. /\ row'[r] = IF r \in Open THEN [row[r] EXCEPT !.state = "closed"] ELSE row[r]
        /\ daily'[r] = IF r \in Open /\ Long(r) THEN daily[r] + 1 ELSE daily[r]
    BY DEF ReconcileOrphans
  <2>2. CASE r \in Open
    <3>1. row'[r] = [row[r] EXCEPT !.state = "closed"] /\ row[r].state = "open"
      BY <2>1, <2>2 DEF Open
    <3> QED
      BY <1>1, <2>1, <2>2, <3>1 DEF Rows, Long
  <2>3. CASE r \notin Open
    BY <1>1, <2>1, <2>3 DEF Long
  <2> QED
    BY <2>2, <2>3
<1>3. Open' = {} /\ Closed' = Closed \cup Open /\ Open \cap Closed = {}
  BY <1>2 DEF Open, Closed
<1>4. ClosedStay
  BY <1>2, <1>3 DEF ClosedStay, Closed
<1>5. totals' = Refreshed({r \in Open : Long(r)})
  BY DEF ReconcileOrphans
<1>6. LedgerTyped'
  <2>2. row' \in [Ids -> Rows]
    BY <1>2 DEF ReconcileOrphans
  <2>3. daily' \in [Ids -> Nat]
    BY DEF ReconcileOrphans, LedgerInv, LedgerTyped
  <2>4. totals' \in [Games -> SUBSET Ids]
    BY <1>5, RefreshedTyped DEF LedgerInv
  <2> QED
    BY <2>2, <2>3, <2>4 DEF LedgerInv, LedgerTyped
<1>7. RowsSound'
  BY <1>2 DEF LedgerInv, RowsSound
<1>8. OpenIsLatest' /\ SeenToTheEnd' /\ NoneLiveWhenDown'
  BY <1>3 DEF OpenIsLatest, SeenToTheEnd, NoneLiveWhenDown
<1>9. OpenIsLive'
  BY <1>3, PlaytimeAssumption DEF LedgerInv, NoneLiveWhenDown, OpenIsLive
<1>10. CountedOnce'
  <2> SUFFICES ASSUME NEW r \in Ids
               PROVE  daily'[r] = IF r \in Closed' /\ Long(r)' THEN 1 ELSE 0
    BY DEF CountedOnce
  <2>1. daily[r] = IF r \in Closed /\ Long(r) THEN 1 ELSE 0
    BY DEF LedgerInv, SessionLedger, CountedOnce
  <2> QED
    BY <1>2, <1>3, <2>1
<1>11. TotalsAgree'
  <2> DEFINE counted == {r \in Open : Long(r)}
  <2>1. counted \in SUBSET Closed' /\ Closed \subseteq Closed'
    BY <1>3
  <2>2. \A r \in Closed' : Long(r)' => r \in Closed \cup counted
    BY <1>2, <1>3 DEF Open, Closed
  <2> HIDE DEF counted
  <2>3. totals' = Refreshed(counted)
    BY <1>5 DEF counted
  <2> QED
    BY <1>4, <1>6, <2>1, <2>2, <2>3, RefreshedTotals DEF LedgerInv, SessionLedger
<1>12. NeverCountedTwice'
  <2>1. \A r \in Closed' : row'[r].began + row'[r].secs <= known'[r]
    BY <1>2, <1>3 DEF LedgerInv, SessionLedger, NeverCountedTwice, SeenToTheEnd, Open, Closed
  <2>2. \A r, q \in Ids :
          r # q /\ row'[r].state # "free" /\ row'[q].state # "free" /\ row'[r].game = row'[q].game
            => \/ row'[r].began + row'[r].secs <= row'[q].began
               \/ row'[q].began + row'[q].secs <= row'[r].began
    BY <1>2 DEF LedgerInv, SessionLedger, NeverCountedTwice
  <2> QED
    BY <2>1, <2>2 DEF NeverCountedTwice
<1> QED
  BY <1>4, <1>6, <1>7, <1>8, <1>9, <1>10, <1>11, <1>12 DEF LedgerInv, SessionLedger

\* Sessions end, some of them too short to keep; with the last of them the
\* process may end too.
LEMMA EndKeeps ==
  ASSUME LedgerInv, up # "down", now' = now,
         NEW gs \in SUBSET Games, \A g \in gs : active[g] # NoId,
         EndSessions(gs),
         up' = up \/ (up' = "down" /\ \A g \in Games \ gs : active[g] = NoId)
  PROVE  LedgerInv' /\ ClosedStay
<1> DEFINE ending == {active[g] : g \in gs} \cap Ids
           long == {r \in ending : now - row[r].began >= MinSession}
<1>1. /\ ending \subseteq Open
      /\ \A g \in gs : active[g] \in ending
      /\ \A g \in Games \ gs : active[g] \notin ending
  BY PlaytimeAssumption DEF LedgerInv, LedgerTyped, SessionLedger, OpenIsLive, Open
<1>2. \A r \in Ids : row[r] \in Rows
  BY DEF LedgerInv, LedgerTyped
<1>3. /\ \A g \in Games : active'[g] = IF g \in gs THEN NoId ELSE active[g]
      /\ active' = [g \in Games |-> active'[g]]
      /\ \A r \in Ids : daily'[r] = IF r \in long THEN daily[r] + 1 ELSE daily[r]
      /\ totals' = Refreshed(long)
      /\ \A r \in Ids : r \notin ending => known'[r] = known[r]
      /\ \A r \in long : known'[r] = now
      /\ \A r \in ending \ long : known'[r] = 0
      /\ daily' = [r \in Ids |-> daily'[r]] /\ known' = [r \in Ids |-> known'[r]]
  BY DEF EndSessions
<1>4. ASSUME NEW r \in Ids
      PROVE  /\ row'[r] \in Rows
             /\ r \in long => /\ row'[r].state = "closed" /\ row'[r].game = row[r].game
                              /\ row'[r].began = row[r].began
                              /\ row'[r].secs = now - row[r].began
             /\ r \in ending \ long => row'[r].state = "free"
             /\ r \notin ending => row'[r] = row[r]
  <2>1. CASE r \in long
    <3>1. row'[r] = [row[r] EXCEPT !.state = "closed", !.secs = now - row[r].began]
      BY <2>1 DEF EndSessions
    <3>2. now - row[r].began \in Nat
      BY <1>1, <1>2, <2>1 DEF LedgerInv, LedgerTyped, RowsSound, Rows, Open
    <3> QED
      BY <1>2, <2>1, <3>1, <3>2 DEF Rows
  <2>2. CASE r \in ending \ long
    <3>1. row'[r] = NoRow
      BY <2>2 DEF EndSessions
    <3> QED
      BY <2>2, <3>1 DEF NoRow, Rows
  <2>3. CASE r \notin ending
    <3>1. row'[r] = row[r]
      BY <2>3 DEF EndSessions
    <3> QED
      BY <1>2, <2>3, <3>1
  <2> QED
    BY <2>1, <2>2, <2>3
<1>5. /\ \A r \in long : r \in ending /\ now - row[r].began >= MinSession /\ Long(r)'
      /\ \A r \in Ids \ ending : Long(r)' <=> Long(r)
  BY <1>4 DEF Long
<1> HIDE DEF long
<1>6. Open' = Open \ ending /\ Closed' = Closed \cup long /\ Open \cap Closed = {}
  BY <1>1, <1>4, <1>5 DEF Open, Closed
<1>7. ClosedStay
  BY <1>1, <1>4, <1>6 DEF ClosedStay, Closed
<1>8. LedgerTyped'
  <2>1. active' \in [Games -> Ids \cup {NoId}]
    BY <1>3 DEF LedgerInv, LedgerTyped
  <2>2. row' \in [Ids -> Rows]
    BY <1>4 DEF EndSessions
  <2>3. daily' \in [Ids -> Nat] /\ known' \in [Ids -> Nat]
    <3>1. now \in Nat /\ 0 \in Nat /\ \A r \in Ids : daily[r] \in Nat /\ known[r] \in Nat
      BY DEF LedgerInv, LedgerTyped
    <3>2. \A r \in Ids : daily'[r] \in Nat
      BY <1>3, <3>1
    <3>3. \A r \in Ids : known'[r] \in Nat
      BY <1>3, <3>1
    <3> QED
      BY <1>3, <3>2, <3>3
  <2>4. totals' \in [Games -> SUBSET Ids]
    BY <1>3, RefreshedTyped DEF LedgerInv
  <2> QED
    BY <2>1, <2>2, <2>3, <2>4 DEF LedgerInv, LedgerTyped
<1>9. RowsSound'
  BY <1>1, <1>2, <1>4, <1>5 DEF LedgerInv, LedgerTyped, RowsSound, Rows, Open
<1>10. OpenIsLatest'
  <2> SUFFICES ASSUME NEW r \in Open', NEW q \in Ids \ {r},
                      row'[q].state # "free", row'[q].game = row'[r].game
               PROVE  row'[q].state = "closed" /\ row'[q].began + row'[q].secs <= row'[r].began
    BY DEF OpenIsLatest
  <2>1. r \in Open /\ row'[r] = row[r]
    BY <1>4, <1>6 DEF Open
  <2>2. q \notin ending
    BY <1>1, <1>4, <2>1 DEF LedgerInv, OpenIsLatest, Open
  <2> QED
    BY <1>4, <2>1, <2>2 DEF LedgerInv, OpenIsLatest
<1>11. /\ up' = "down" => Open' = {} /\ \A g \in Games : active'[g] = NoId
  <2>1. Open = {active[g] : g \in Games} \cap Ids
    BY DEF LedgerInv, SessionLedger, OpenIsLive
  <2>2. SUFFICES ASSUME up' = "down"
                 PROVE  Open' = {} /\ \A g \in Games : active'[g] = NoId
    OBVIOUS
  <2>3. \A g \in Games \ gs : active[g] = NoId
    BY <2>2
  <2>4. \A r \in Open : r \in ending
    BY <1>1, <2>1, <2>3, PlaytimeAssumption
  <2> QED
    BY <1>3, <1>6, <2>3, <2>4
<1>12. SeenToTheEnd' /\ NoneLiveWhenDown'
  BY <1>11 DEF SeenToTheEnd, NoneLiveWhenDown
<1>13. OpenIsLive'
  <2>1. Open = {active[g] : g \in Games} \cap Ids
    BY DEF LedgerInv, SessionLedger, OpenIsLive
  <2>2. Open' = {active'[g] : g \in Games} \cap Ids
    BY <1>1, <1>3, <1>6, <2>1, PlaytimeAssumption
  <2>3. ASSUME NEW g \in Games, active'[g] # NoId
        PROVE  row'[active'[g]].state = "open" /\ row'[active'[g]].game = g
    <3>1. g \notin gs /\ active'[g] = active[g] /\ active[g] \notin ending /\ active[g] \in Ids
      BY <1>1, <1>3, <2>3 DEF LedgerInv, LedgerTyped
    <3> QED
      BY <1>4, <2>3, <3>1 DEF LedgerInv, SessionLedger, OpenIsLive
  <2> QED
    BY <2>2, <2>3 DEF OpenIsLive
<1>14. CountedOnce'
  <2> SUFFICES ASSUME NEW r \in Ids
               PROVE  daily'[r] = IF r \in Closed' /\ Long(r)' THEN 1 ELSE 0
    BY DEF CountedOnce
  <2>1. daily[r] = IF r \in Closed /\ Long(r) THEN 1 ELSE 0
    BY DEF LedgerInv, SessionLedger, CountedOnce
  <2> QED
    BY <1>1, <1>3, <1>5, <1>6, <2>1
<1>15. TotalsAgree'
  <2>1. long \in SUBSET Closed' /\ Closed \subseteq Closed'
    BY <1>6
  <2>2. \A r \in Closed' : Long(r)' => r \in Closed \cup long
    BY <1>6
  <2> QED
    BY <1>3, <1>7, <1>8, <2>1, <2>2, RefreshedTotals DEF LedgerInv, SessionLedger
<1>16. NeverCountedTwice'
  <2>1. ASSUME NEW r \in Closed'
        PROVE  row'[r].began + row'[r].secs <= known'[r]
    <3>1. CASE r \in long
      BY <1>1, <1>2, <1>3, <1>4, <1>5, <3>1 DEF LedgerInv, LedgerTyped, Rows, Open
    <3>2. CASE r \notin long
      <4>1. r \in Closed /\ r \notin ending /\ r \in Ids
        BY <1>1, <1>6, <3>2 DEF Closed
      <4> QED
        BY <1>3, <1>4, <4>1 DEF LedgerInv, SessionLedger, NeverCountedTwice
    <3> QED
      BY <3>1, <3>2
  <2>2. ASSUME NEW r \in Ids, NEW q \in Ids, r # q,
               row'[r].state # "free", row'[q].state # "free", row'[r].game = row'[q].game
        PROVE  \/ row'[r].began + row'[r].secs <= row'[q].began
               \/ row'[q].began + row'[q].secs <= row'[r].began
    <3>1. CASE r \notin ending /\ q \notin ending
      BY <1>4, <2>2, <3>1 DEF LedgerInv, SessionLedger, NeverCountedTwice
    <3>2. CASE r \in ending
      <4>1. r \in long /\ r \in Open /\ q \notin Open
        BY <1>1, <1>4, <2>2, <3>2 DEF LedgerInv, OpenIsLatest, Open
      <4> QED
        BY <1>1, <1>4, <2>2, <4>1 DEF LedgerInv, OpenIsLatest, Open
    <3>3. CASE q \in ending
      <4>1. q \in long /\ q \in Open /\ r \notin Open
        BY <1>1, <1>4, <2>2, <3>3 DEF LedgerInv, OpenIsLatest, Open
      <4> QED
        BY <1>1, <1>4, <2>2, <4>1 DEF LedgerInv, OpenIsLatest, Open
    <3> QED
      BY <3>1, <3>2, <3>3
  <2> QED
    BY <2>1, <2>2 DEF NeverCountedTwice
<1> QED
  BY <1>7, <1>8, <1>9, <1>10, <1>12, <1>13, <1>14, <1>15, <1>16 DEF LedgerInv, SessionLedger

=============================================================================
