------------------------- MODULE PlaytimeSyncProofs -------------------------
(***************************************************************************)
(* Theorems about PlaytimeSync, for every set of games, rows and stores:   *)
(* its types, the ledger of sessions, that no session is forgotten, that   *)
(* none is sent twice knowingly, and that it implements Outbox.            *)
(*                                                                         *)
(* DrainInv is what a drain relies on between two answers: the rows it has *)
(* read stay finished and unstamped until it stamps them itself, since the *)
(* lock keeps other drains out, and a row that a store has taken and that  *)
(* is not stamped is the one in hand or one the plugin is unsure of.       *)
(***************************************************************************)
EXTENDS PlaytimeSync, PlaytimeProofs

DrainTyped ==
  /\ waiting \in Nat
  /\ at \in {"idle", "asks", "sends", "sent"}
  /\ todo \subseteq Ids /\ cur \in Ids \cup {NoId}
  /\ {reported, unsure, missed} \subseteq SUBSET Ids
  /\ sends \in [Ids -> Nat]

DrainInv ==
  /\ DrainTyped
  /\ at = "idle" => todo = {} /\ cur = NoId
  /\ at # "idle" => cur \in todo /\ up # "down"
  /\ todo \subseteq Unreported
  /\ reported \subseteq Counted
  /\ at = "sent" => sends[cur] > 0
  /\ \A r \in Ids \ reported : sends[r] > 0 => r \in unsure \/ (at = "sent" /\ cur = r)
  /\ OnceIfKnown

Inv == LedgerInv /\ DrainInv /\ NothingForgotten

-----------------------------------------------------------------------------
LEMMA Typed == ASSUME LedgerTyped, DrainTyped PROVE TypeOK
BY DEF TypeOK, LedgerTyped, DrainTyped, Rows

\* Finished sessions stay as they are, whatever else the ledger does.
LEMMA CountedStay ==
  ASSUME ClosedStay
  PROVE  /\ \A r \in Closed : r \in Closed'
         /\ \A r \in Closed : r \in Counted' <=> r \in Counted
         /\ \A r \in Closed : r \in Tiny' <=> r \in Tiny
         /\ Counted \subseteq Counted' /\ Counted \subseteq Closed /\ Counted \subseteq Ids
<1>1. \A r \in Closed : row'[r] = row[r] /\ r \in Ids /\ r \in Closed'
  BY DEF ClosedStay, Closed
<1> QED
  BY <1>1 DEF Counted, Tiny, Store, Long

LEMMA InvStarts == Init => Inv
<1> SUFFICES ASSUME Init PROVE Inv
  OBVIOUS
<1>1. LedgerInv
  BY LedgerStarts DEF Init
<1>2. DrainInv
  BY DEF Init, DrainInv, DrainTyped, OnceIfKnown
<1>3. NothingForgotten
  BY DEF Init, PlaytimeInit, NothingForgotten
<1> QED
  BY <1>1, <1>2, <1>3 DEF Inv

-----------------------------------------------------------------------------
(* Steps of the ledger.                                                    *)

\* A drain does not notice what happens to the ledger while it waits.
LEMMA DrainUnmoved ==
  ASSUME DrainInv, ClosedStay, up' # "down" \/ at = "idle",
         waiting' \in Nat, UNCHANGED <<at, todo, cur, reported, sends, unsure, missed>>
  PROVE  DrainInv'
<1>1. Counted \subseteq Counted'
  BY CountedStay
<1> QED
  BY <1>1 DEF DrainInv, DrainTyped, Unreported, OnceIfKnown

\* Nor does a process that ends leave one behind.
LEMMA DrainsGone ==
  ASSUME DrainInv, ClosedStay, DrainsDie
  PROVE  DrainInv'
<1>1. Counted \subseteq Counted'
  BY CountedStay
<1>2. cur \in Ids \/ at # "sent"
  BY DEF DrainInv, DrainTyped
<1> QED
  BY <1>1, <1>2 DEF DrainInv, DrainTyped, DrainsDie, OnceIfKnown

LEMMA LaunchedStep == ASSUME Inv, NEW g \in Games, GameLaunched(g) PROVE Inv'
<1>1. LedgerInv' /\ ClosedStay /\ up' = up /\ up # "down" /\ UNCHANGED syncVars
  BY LaunchKeeps DEF Inv, GameLaunched, Launched
<1>2. DrainInv'
  BY <1>1, DrainUnmoved DEF Inv, syncVars, DrainInv, DrainTyped
<1>3. Counted' = Counted
  <2>1. PICK n \in Ids : row[n].state = "free"
          /\ row' = [row EXCEPT ![n] = [state |-> "open", game |-> g, began |-> now, secs |-> 0]]
    BY DEF GameLaunched, Launched
  <2>2. Closed' = Closed /\ \A r \in Closed : row'[r] = row[r]
    BY <2>1 DEF Inv, LedgerInv, LedgerTyped, Closed
  <2> QED
    BY <2>2 DEF Counted, Long, Store
<1> QED
  BY <1>1, <1>2, <1>3 DEF Inv, NothingForgotten, Unreported, syncVars

\* Counted changes with the closed rows alone.
LEMMA CountedFixed ==
  ASSUME Closed' = Closed, ClosedStay
  PROVE  Counted' = Counted
BY DEF ClosedStay, Counted, Long, Store

LEMMA BeatStep == ASSUME Inv, Beat PROVE Inv'
<1>1. LedgerInv' /\ ClosedStay /\ up' = up /\ up # "down" /\ UNCHANGED syncVars
  BY HeartbeatKeeps DEF Inv, Beat, Heartbeat
<1>2. DrainInv'
  BY <1>1, DrainUnmoved DEF Inv, syncVars, DrainInv, DrainTyped
<1>3. Closed' = Closed
  <2>1. \A r \in Ids : row'[r].state = row[r].state
    BY DEF Beat, Heartbeat, Inv, LedgerInv, LedgerTyped, Rows
  <2> QED
    BY <2>1 DEF Closed
<1> QED
  BY <1>1, <1>2, <1>3, CountedFixed DEF Inv, NothingForgotten, Unreported, syncVars

LEMMA TickStep == ASSUME Inv, TimePasses PROVE Inv'
<1>1. LedgerInv' /\ ClosedStay /\ up' = up /\ row' = row /\ UNCHANGED syncVars
  BY TickKeeps DEF Inv, TimePasses, Tick
<1>2. DrainInv'
  BY <1>1, DrainUnmoved DEF Inv, syncVars, DrainInv, DrainTyped
<1>3. Closed' = Closed
  BY <1>1 DEF Closed
<1> QED
  BY <1>1, <1>2, <1>3, CountedFixed DEF Inv, NothingForgotten, Unreported, syncVars

LEMMA StartStep == ASSUME Inv, Start PROVE Inv'
<1>1. LedgerInv' /\ ClosedStay
  BY ReconcileKeeps DEF Inv, Start
<1>2. DrainInv'
  BY <1>1, DrainUnmoved DEF Inv, Start
<1> QED
  BY <1>1, <1>2 DEF Inv, NothingForgotten, Start

LEMMA StopSyncStep == ASSUME Inv, StopSync PROVE Inv'
<1>1. LedgerInv' /\ ClosedStay
  BY DEF Inv, StopSync, LedgerInv, LedgerTyped, RowsSound, OpenIsLatest, SeenToTheEnd,
         NoneLiveWhenDown, SessionLedger, OpenIsLive, CountedOnce, TotalsAgree,
         NeverCountedTwice, ClosedStay, Open, Closed, Long
<1>2. DrainInv'
  BY <1>1, DrainUnmoved DEF Inv, StopSync, syncVars, DrainInv, DrainTyped
<1> QED
  BY <1>1, <1>2 DEF Inv, NothingForgotten, StopSync

LEMMA StopPlaytimeStep == ASSUME Inv, StopPlaytime PROVE Inv'
<1> DEFINE gs == {g \in Games : active[g] # NoId}
<1>1. LedgerInv' /\ ClosedStay
  <2>1. gs \in SUBSET Games /\ (\A g \in gs : active[g] # NoId)
        /\ \A g \in Games \ gs : active[g] = NoId
    OBVIOUS
  <2>2. EndSessions(gs) /\ up # "down" /\ now' = now /\ up' = "down"
    BY DEF StopPlaytime
  <2> HIDE DEF gs
  <2> QED
    BY <2>1, <2>2, EndKeeps DEF Inv
<1>2. DrainInv'
  BY <1>1, DrainsGone DEF Inv, StopPlaytime
<1> QED
  BY <1>1, <1>2 DEF Inv, NothingForgotten, StopPlaytime

LEMMA CrashStep == ASSUME Inv, Crash PROVE Inv'
<1>1. LedgerInv' /\ ClosedStay
  BY CrashKeeps DEF Inv, Crash
<1>2. DrainInv'
  BY <1>1, DrainsGone DEF Inv, Crash
<1> QED
  BY <1>1, <1>2 DEF Inv, NothingForgotten, Crash, ProcessEnds

\* A session that ends brings at most itself to the finished ones, and asks
\* for a drain if it is one of them.
LEMMA StoppedStep == ASSUME Inv, NEW g \in Games, GameStopped(g) PROVE Inv'
<1>1. /\ up # "down" /\ active[g] # NoId /\ EndSessions({g}) /\ up' = up /\ now' = now
      /\ waiting' = IF up = "up" /\ now - row[active[g]].began >= MinSession
                    THEN waiting + 1 ELSE waiting
      /\ UNCHANGED <<at, todo, cur, reported, sends, unsure, missed>>
  BY DEF GameStopped
<1>2. waiting \in Nat /\ waiting' \in Nat /\ waiting' >= waiting
  BY <1>1 DEF Inv, DrainInv, DrainTyped
<1>3. LedgerInv' /\ ClosedStay
  BY <1>1, EndKeeps DEF Inv
<1>4. DrainInv'
  BY <1>1, <1>2, <1>3, DrainUnmoved DEF Inv
<1>5. ASSUME up = "up", NEW r \in Unreported', r \notin Unreported
      PROVE  waiting' > 0
  <2>1. r \in Closed' /\ r \notin Closed /\ r \in Ids
    BY <1>1, <1>3, <1>5, CountedStay DEF Unreported, Counted, Closed
  <2>2. r = active[g] /\ now - row[r].began >= MinSession
    BY <1>1, <2>1 DEF EndSessions, Closed, NoRow
  <2> QED
    BY <1>1, <1>2, <1>5, <2>2
<1>6. NothingForgotten'
  BY <1>1, <1>2, <1>5 DEF Inv, NothingForgotten
<1> QED
  BY <1>3, <1>4, <1>6 DEF Inv

-----------------------------------------------------------------------------
(* Steps of a drain.                                                       *)

\* Nothing of the ledger changes under it.
LEMMA LedgerFixed ==
  ASSUME LedgerInv, UNCHANGED playtimeVars
  PROVE  /\ LedgerInv' /\ ClosedStay
         /\ Counted' = Counted /\ Tiny' = Tiny
         /\ Open' = Open /\ Closed' = Closed /\ up' = up
BY DEF playtimeVars, LedgerInv, LedgerTyped, RowsSound, OpenIsLatest, SeenToTheEnd,
       NoneLiveWhenDown, SessionLedger, OpenIsLive, CountedOnce, TotalsAgree,
       NeverCountedTwice, ClosedStay, Counted, Tiny, Store, Open, Closed, Long

\* Wherever a drain turns, it has a row of the rest in hand or is over.
LEMMA TurnsTo ==
  ASSUME NEW rest \in SUBSET Ids, Turns(rest)
  PROVE  /\ todo' = rest
         /\ \/ at' \in {"asks", "sends"} /\ cur' \in rest
            \/ at' = "idle" /\ cur' = NoId /\ rest = {}
BY DEF Turns, Oldest

\* A row leaves the rest stamped, or tried in vain, or not known to be sent.
LEMMA DrainTurns ==
  ASSUME Inv, UNCHANGED playtimeVars, at # "idle",
         NEW gone \in SUBSET todo, Turns(todo \ gone),
         waiting' = waiting, sends' = sends,
         reported' \in SUBSET Ids, unsure' \in SUBSET Ids, missed' \in SUBSET Ids,
         reported \subseteq reported', reported' \subseteq reported \cup gone,
         unsure \subseteq unsure', missed \subseteq missed',
         gone \subseteq missed' \cup reported',
         at = "sent" => cur \in unsure' \cup reported'
  PROVE  Inv'
<1>1. /\ LedgerInv' /\ Counted' = Counted /\ up' = up
  BY LedgerFixed DEF Inv
<1>2. /\ todo' = todo \ gone
      /\ \/ at' \in {"asks", "sends"} /\ cur' \in todo \ gone
         \/ at' = "idle" /\ cur' = NoId /\ todo \ gone = {}
  <2>1. todo \ gone \in SUBSET Ids
    BY DEF Inv, DrainInv, DrainTyped
  <2> QED
    BY <2>1, TurnsTo
<1>3. DrainTyped'
  BY <1>2 DEF Inv, DrainInv, DrainTyped
<1>4. /\ at' = "idle" => todo' = {} /\ cur' = NoId
      /\ at' # "idle" => cur' \in todo' /\ up' # "down"
      /\ at' # "sent"
  BY <1>1, <1>2 DEF Inv, DrainInv
<1>5. todo' \subseteq Unreported' /\ reported' \subseteq Counted'
  BY <1>1, <1>2 DEF Inv, DrainInv, Unreported
<1>6. \A r \in Ids \ reported' : sends'[r] > 0 => r \in unsure'
  BY DEF Inv, DrainInv
<1>7. OnceIfKnown'
  BY DEF Inv, DrainInv, OnceIfKnown
<1>8. NothingForgotten'
  BY <1>1, <1>2 DEF Inv, NothingForgotten, Unreported
<1> QED
  BY <1>1, <1>3, <1>4, <1>5, <1>6, <1>7, <1>8 DEF Inv, DrainInv

LEMMA BeginsStep == ASSUME Inv, DrainBegins PROVE Inv'
<1>1. /\ LedgerInv' /\ Counted' = Counted /\ up' = up
      /\ up # "down" /\ at = "idle" /\ waiting' = waiting - 1 /\ waiting > 0
      /\ UNCHANGED <<reported, sends, unsure>>
  BY LedgerFixed DEF Inv, DrainBegins
<1>2. Unreported' = Unreported /\ Unreported \subseteq Ids
  BY <1>1 DEF Unreported, Counted, Closed
<1>3. CASE up = "up"
  <2>1. /\ todo' = Unreported /\ missed' = missed \ Unreported
        /\ \/ at' = "asks" /\ cur' \in Unreported
           \/ at' = "idle" /\ cur' = NoId /\ Unreported = {}
    BY <1>3 DEF DrainBegins, DrainReads, Oldest
  <2>2. DrainTyped'
    BY <1>1, <1>2, <2>1 DEF Inv, DrainInv, DrainTyped
  <2>3. DrainInv'
    BY <1>1, <1>2, <2>1, <2>2 DEF Inv, DrainInv, OnceIfKnown
  <2> QED
    BY <1>1, <1>2, <2>1, <2>3 DEF Inv, NothingForgotten
<1>4. CASE up # "up"
  <2>1. UNCHANGED <<todo, cur, at, missed>>
    BY <1>4 DEF DrainBegins
  <2> QED
    BY <1>1, <1>2, <1>4, <2>1 DEF Inv, DrainInv, DrainTyped, OnceIfKnown, NothingForgotten
<1> QED
  BY <1>3, <1>4

LEMMA AnswerStep == ASSUME Inv, Answer PROVE Inv'
<1>1. CASE Available
  BY <1>1, LedgerFixed
     DEF Available, Inv, DrainInv, DrainTyped, OnceIfKnown, NothingForgotten, Unreported
<1>2. CASE Unavailable
  <2> DEFINE skipped == {r \in todo : Store(r) = Store(cur)}
  <2>1. /\ UNCHANGED playtimeVars /\ at = "asks" /\ Turns(todo \ skipped)
        /\ missed' = missed \cup skipped /\ UNCHANGED <<waiting, reported, sends, unsure>>
    BY <1>2 DEF Unavailable
  <2>2. skipped \in SUBSET todo /\ missed \cup skipped \subseteq Ids
        /\ reported \subseteq Ids /\ unsure \subseteq Ids
    BY DEF Inv, DrainInv, DrainTyped
  <2> HIDE DEF skipped
  <2> QED
    BY <2>1, <2>2, DrainTurns
<1> QED
  BY <1>1, <1>2 DEF Answer

\* The row in hand was sent before only if the plugin is unsure of it.
LEMMA TakesStep == ASSUME Inv, StoreTakes PROVE Inv'
<1>1. /\ LedgerInv' /\ Counted' = Counted /\ up' = up
      /\ at = "sends" /\ at' = "sent" /\ cur \in todo /\ cur \in Ids
      /\ sends' = [sends EXCEPT ![cur] = @ + 1]
      /\ UNCHANGED <<waiting, todo, cur, reported, unsure, missed>>
  BY LedgerFixed DEF Inv, StoreTakes, DrainInv, DrainTyped
<1>2. cur \notin reported /\ (sends[cur] > 0 => cur \in unsure)
  BY <1>1 DEF Inv, DrainInv, Unreported
<1>3. /\ DrainTyped' /\ sends'[cur] = sends[cur] + 1 /\ sends[cur] \in Nat
      /\ \A r \in Ids \ {cur} : sends'[r] = sends[r]
  BY <1>1 DEF Inv, DrainInv, DrainTyped
<1>4. OnceIfKnown'
  BY <1>1, <1>2, <1>3 DEF Inv, DrainInv, OnceIfKnown
<1>5. DrainInv'
  BY <1>1, <1>2, <1>3, <1>4 DEF Inv, DrainInv, Unreported
<1> QED
  BY <1>1, <1>5 DEF Inv, NothingForgotten, Unreported

LEMMA OutcomeStep == ASSUME Inv, Outcome PROVE Inv'
<1>1. reported \subseteq Ids /\ unsure \subseteq Ids /\ missed \subseteq Ids
      /\ (at # "idle" => cur \in todo /\ cur \in Ids)
  BY DEF Inv, DrainInv, DrainTyped
<1>2. CASE SendFails
  <2>1. at = "sends" /\ UNCHANGED playtimeVars /\ Turns(todo \ {cur})
        /\ missed' = missed \cup {cur} /\ UNCHANGED <<waiting, reported, sends, unsure>>
    BY <1>2 DEF SendFails
  <2> QED
    BY <1>1, <2>1, DrainTurns
<1>3. CASE AnswerLost
  <2>1. at = "sent" /\ UNCHANGED playtimeVars /\ Turns(todo \ {cur})
        /\ missed' = missed \cup {cur} /\ unsure' = unsure \cup {cur}
        /\ UNCHANGED <<waiting, reported, sends>>
    BY <1>3 DEF AnswerLost
  <2> QED
    BY <1>1, <2>1, DrainTurns
<1>4. CASE Stamps
  <2>1. at # "idle" /\ UNCHANGED playtimeVars /\ Turns(todo \ {cur})
        /\ reported' = reported \cup {cur} /\ UNCHANGED <<waiting, sends, unsure, missed>>
    BY <1>4 DEF Stamps, SaidYes
  <2> QED
    BY <1>1, <2>1, DrainTurns
<1>5. CASE StampRaises
  <2>1. /\ LedgerInv' /\ Counted' = Counted /\ up' = up /\ up = "stopping"
    BY <1>5, LedgerFixed DEF Inv, StampRaises
  <2>2. DrainInv'
    BY <1>1, <1>5, <2>1 DEF StampRaises, SaidYes, Inv, DrainInv, DrainTyped, OnceIfKnown
  <2> QED
    BY <2>1, <2>2 DEF Inv, NothingForgotten
<1> QED
  BY <1>2, <1>3, <1>4, <1>5, TakesStep DEF Outcome

LEMMA InvStep == Inv /\ [Next]_vars => Inv'
<1> SUFFICES ASSUME Inv, [Next]_vars PROVE Inv'
  OBVIOUS
<1>1. ASSUME NEW g \in Games, GameLaunched(g) \/ GameStopped(g) PROVE Inv'
  BY <1>1, LaunchedStep, StoppedStep
<1>2. CASE Beat \/ TimePasses
  BY <1>2, BeatStep, TickStep
<1>3. CASE Start \/ StopSync \/ StopPlaytime \/ Crash
  BY <1>3, StartStep, StopSyncStep, StopPlaytimeStep, CrashStep
<1>4. CASE Sync
  BY <1>4, BeginsStep, AnswerStep, OutcomeStep DEF Sync
<1>5. CASE UNCHANGED vars
  <2>1. UNCHANGED playtimeVars /\ UNCHANGED syncVars
    BY <1>5 DEF vars
  <2>2. LedgerInv' /\ Counted' = Counted /\ up' = up
    BY <2>1, LedgerFixed DEF Inv
  <2> QED
    BY <2>1, <2>2
       DEF syncVars, Inv, DrainInv, DrainTyped, OnceIfKnown, NothingForgotten, Unreported
<1> QED
  BY <1>1, <1>2, <1>3, <1>4, <1>5 DEF Next

\* The inductive invariant of the plugin's play time.
THEOREM InvAlways == Spec => []Inv
BY InvStarts, InvStep, PTL DEF Spec

\* The state keeps its types, for every set of games, rows and stores.
THEOREM TypeCorrect == Spec => []TypeOK
<1>1. Inv => TypeOK
  BY Typed DEF Inv, DrainInv, LedgerInv
<1> QED
  BY <1>1, InvAlways, PTL

\* Open rows belong to live sessions, each session is counted once, totals and
\* days agree, and no second of a game is counted twice, across crashes.
THEOREM LedgerKept == Spec => []SessionLedger
<1>1. Inv => SessionLedger
  BY DEF Inv, LedgerInv
<1> QED
  BY <1>1, InvAlways, PTL

\* A store takes a session a second time only if the plugin could not know of
\* the first.
THEOREM SentOnceIfKnown == Spec => []OnceIfKnown
<1>1. Inv => OnceIfKnown
  BY DEF Inv, DrainInv
<1> QED
  BY <1>1, InvAlways, PTL

\* Every finished session is in the drain at work, before one, or was tried.
THEOREM NoneForgotten == Spec => []NothingForgotten
<1>1. Inv => NothingForgotten
  BY DEF Inv
<1> QED
  BY <1>1, InvAlways, PTL

-----------------------------------------------------------------------------
(* The refinement.                                                         *)

\* What the ledger does is at most a Record.
LEMMA LedgerRecords ==
  ASSUME ClosedStay, UNCHANGED <<reported, sends>>
  PROVE  Ledger!OutboxNext(Ids, Tiny)
<1>1. Counted \subseteq Counted' /\ Counted' \in SUBSET Ids
  BY CountedStay DEF Counted, Closed
<1>2. Ledger!Record(Counted')
  BY <1>1 DEF Ledger!Record
<1> QED
  BY <1>1, <1>2 DEF Ledger!OutboxNext

LEMMA StepRefines ==
  ASSUME Inv, [Next]_vars
  PROVE  [Ledger!OutboxNext(Ids, Tiny)]_(Ledger!outboxVars)
<1>1. ASSUME NEW g \in Games, GameLaunched(g)
      PROVE  Ledger!OutboxNext(Ids, Tiny)
  <2>1. ClosedStay /\ UNCHANGED <<reported, sends>>
    BY <1>1, LaunchKeeps DEF Inv, GameLaunched, syncVars
  <2> QED
    BY <2>1, LedgerRecords
<1>2. ASSUME NEW g \in Games, GameStopped(g)
      PROVE  Ledger!OutboxNext(Ids, Tiny)
  <2>1. ClosedStay /\ UNCHANGED <<reported, sends>>
    BY <1>2, EndKeeps DEF Inv, GameStopped
  <2> QED
    BY <2>1, LedgerRecords
<1>3. CASE Beat \/ TimePasses \/ Start \/ Crash
  <2>1. ClosedStay /\ UNCHANGED <<reported, sends>>
    BY <1>3, HeartbeatKeeps, TickKeeps, ReconcileKeeps, CrashKeeps
       DEF Inv, Beat, TimePasses, Start, Crash, DrainsDie, syncVars
  <2> QED
    BY <2>1, LedgerRecords
<1>4. CASE StopSync
  <2>1. ClosedStay /\ UNCHANGED <<reported, sends>>
    BY <1>4 DEF StopSync, syncVars, ClosedStay
  <2> QED
    BY <2>1, LedgerRecords
<1>5. CASE StopPlaytime
  <2> DEFINE gs == {g \in Games : active[g] # NoId}
  <2>1. gs \in SUBSET Games /\ (\A g \in gs : active[g] # NoId)
        /\ \A g \in Games \ gs : active[g] = NoId
    OBVIOUS
  <2>2. EndSessions(gs) /\ up # "down" /\ now' = now /\ up' = "down"
        /\ UNCHANGED <<reported, sends>>
    BY <1>5 DEF StopPlaytime, DrainsDie
  <2> HIDE DEF gs
  <2>3. ClosedStay
    BY <2>1, <2>2, EndKeeps DEF Inv
  <2> QED
    BY <2>2, <2>3, LedgerRecords
<1>6. ASSUME UNCHANGED playtimeVars, reported' = reported, sends' = sends
      PROVE  UNCHANGED Ledger!outboxVars
  <2>1. Counted' = Counted
    BY <1>6, LedgerFixed DEF Inv
  <2> QED
    BY <1>6, <2>1 DEF Ledger!outboxVars
<1>7. CASE DrainBegins \/ Answer \/ SendFails \/ AnswerLost \/ StampRaises
  BY <1>6, <1>7 DEF DrainBegins, Answer, Available, Unavailable, SendFails, AnswerLost, StampRaises
<1>8. CASE StoreTakes
  <2>1. Counted' = Counted /\ cur \in Counted \ reported /\ cur \in Ids
    BY <1>8, LedgerFixed DEF StoreTakes, Inv, DrainInv, DrainTyped, Unreported
  <2>2. Ledger!Send(cur)
    BY <1>8, <2>1 DEF Ledger!Send, StoreTakes
  <2> QED
    BY <2>1, <2>2 DEF Ledger!OutboxNext
<1>9. CASE Stamps
  <2>1. Counted' = Counted /\ cur \in Counted /\ cur \in Ids
    BY <1>9, LedgerFixed DEF Stamps, SaidYes, Inv, DrainInv, DrainTyped, Unreported
  <2>2. sends[cur] > 0 \/ cur \in Tiny
    BY <1>9 DEF Stamps, SaidYes, Inv, DrainInv
  <2>3. Ledger!Stamp(cur, Tiny)
    BY <1>9, <2>1, <2>2 DEF Ledger!Stamp, Stamps
  <2> QED
    BY <2>1, <2>3 DEF Ledger!OutboxNext
<1>10. CASE UNCHANGED vars
  BY <1>6, <1>10 DEF vars, syncVars
<1> QED
  BY <1>1, <1>2, <1>3, <1>4, <1>5, <1>7, <1>8, <1>9, <1>10 DEF Next, Sync, Outcome

\* The database is the outbox it is meant to be: a session is sent once it has
\* its final duration, never after its stamp, and never stamped unsent.
THEOREM OutboxImplemented == Spec => ImplementsOutbox
<1>1. Init => Ledger!OutboxInit(Ids)
  BY DEF Init, PlaytimeInit, NoRow, Ledger!OutboxInit, Counted, Closed
<1>2. Inv /\ [Next]_vars => [Ledger!OutboxNext(Ids, Tiny)]_(Ledger!outboxVars)
  BY StepRefines
<1> QED
  BY <1>1, <1>2, InvAlways, PTL DEF Spec, ImplementsOutbox

=============================================================================
