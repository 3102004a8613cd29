----------------------------- MODULE EventClient -----------------------------
(***************************************************************************)
(* EventBusClient (src/src/api/event-bus-client.ts) polling the backend's  *)
(* replay buffer.  Decky has no push channel: a chain of timers asks for a *)
(* snapshot, hands what is newer than lastSeen to the handlers and arms    *)
(* the next timer.  The client dies with the Steam client (Reload); the    *)
(* backend and its rings live on.  A restart of the backend reloads the    *)
(* client too, which is the initial state again.                           *)
(***************************************************************************)
EXTENDS ReplayBuffer

CONSTANTS
    PrimedPast,  \* IMPERATIVE_EVENTS and STALE_ON_RELOAD_EVENTS
    Loops,       \* chains of timers (bound: how many can run at once)
    NoTimer,     \* the null of the field timer
    MaxLoads     \* bound: loads of the client

ASSUME PrimedAssumption == PrimedPast \subseteq Types
ASSUME NoTimerAssumption == NoTimer \notin Loops
ASSUME LoadsAssumption == MaxLoads \in Nat

VARIABLES
    subs,      \* subscribers: the types with at least one handler
    timer,     \* timer: the chain whose handle the client holds, or NoTimer
    loop,      \* per chain: idle, armed, asked (the call is out), answered,
               \* or lost (the call never settles)
    answer,    \* per chain: the snapshot on its way back
    lastSeen,  \* lastSeenTimestamp
    primed,    \* primed
    turns,     \* observer: how many events were handled since the load
    turn,      \* observer: the place of an event among them, 0 if it has none
    excused,   \* observer: events answered and handled by nobody, with reason
    born,      \* observer: how many events were emitted before this load
    loads      \* how many times the client has been loaded

clientVars ==
    <<subs, timer, loop, answer, lastSeen, primed, turns, turn,
      excused, born, loads>>
vars == <<bufferVars, clientVars>>

\* The singleton as the bundle is evaluated.
Loaded ==
    [subs |-> {}, timer |-> NoTimer, loop |-> [l \in Loops |-> "idle"],
     answer |-> [l \in Loops |-> {}], lastSeen |-> 0, primed |-> FALSE,
     turns |-> 0, turn |-> [i \in 1 .. MaxEvents |-> 0]]

Init ==
    /\ BufferInit
    /\ subs = Loaded.subs
    /\ timer = Loaded.timer
    /\ loop = Loaded.loop
    /\ answer = Loaded.answer
    /\ lastSeen = Loaded.lastSeen
    /\ primed = Loaded.primed
    /\ turns = Loaded.turns
    /\ turn = Loaded.turn
    /\ excused = {}
    /\ born = 0
    /\ loads = 1

-----------------------------------------------------------------------------
\* The backend.

Emit(t) == Record(t) /\ UNCHANGED clientVars

TimePasses == Tick /\ UNCHANGED clientVars

-----------------------------------------------------------------------------
\* The client.

\* scheduleNext: the handle of the chain overwrites whatever timer held.
Arms(l) ==
    /\ loop' = [loop EXCEPT ![l] = "armed"]
    /\ timer' = l

\* subscribe and ensurePolling: a chain is started when timer is null.
Subscribe(t) ==
    /\ t \notin subs
    /\ subs' = subs \cup {t}
    /\ IF timer = NoTimer
       THEN \E l \in Loops : loop[l] = "idle" /\ Arms(l)
       ELSE UNCHANGED <<timer, loop>>
    /\ UNCHANGED <<answer, lastSeen, primed, turns, turn, excused,
                   born, loads>>
    /\ UNCHANGED bufferVars

\* The last handler of a type goes; without any, stopPolling.  clearTimeout
\* stops a timer that is armed and does nothing to a poll that is out.
Unsubscribe(t) ==
    /\ t \in subs
    /\ subs' = subs \ {t}
    /\ IF subs' = {}
       THEN /\ timer' = NoTimer
            /\ loop' = [l \in Loops |->
                            IF l = timer /\ loop[l] = "armed"
                            THEN "idle" ELSE loop[l]]
       ELSE UNCHANGED <<timer, loop>>
    /\ UNCHANGED <<answer, lastSeen, primed, turns, turn, excused,
                   born, loads>>
    /\ UNCHANGED bufferVars

\* The timer fires and pollOnce sends the call; timer keeps the old handle.
Fires(l) ==
    /\ loop[l] = "armed"
    /\ loop' = [loop EXCEPT ![l] = "asked"]
    /\ UNCHANGED <<subs, timer, answer, lastSeen, primed, turns, turn,
                   excused, born, loads>>
    /\ UNCHANGED bufferVars

\* subscribe_replay in the backend.
Serves(l) ==
    /\ loop[l] = "asked"
    /\ loop' = [loop EXCEPT ![l] = "answered"]
    /\ answer' = [answer EXCEPT ![l] = Snapshot]
    /\ UNCHANGED <<subs, timer, lastSeen, primed, turns, turn, excused,
                   born, loads>>
    /\ UNCHANGED bufferVars

\* The finally block of pollOnce.
Reschedules(l) ==
    IF subs # {}
    THEN Arms(l)
    ELSE /\ loop' = [loop EXCEPT ![l] = "idle"]
         /\ timer' = NoTimer

\* Mutant: the flag is set in the finally block.
FailsPrimed(l) ==
    /\ loop[l] = "asked"
    /\ primed' = TRUE
    /\ Reschedules(l)
    /\ UNCHANGED <<subs, answer, lastSeen, turns, turn, excused, born, loads>>
    /\ UNCHANGED bufferVars

\* Mutant: the next timer is armed at the end of the try block.
FailsSilently(l) ==
    /\ loop[l] = "asked"
    /\ loop' = [loop EXCEPT ![l] = "idle"]
    /\ UNCHANGED <<subs, timer, answer, lastSeen, primed, turns, turn,
                   excused, born, loads>>
    /\ UNCHANGED bufferVars

\* The call is rejected.
Fails(l) ==
    /\ loop[l] = "asked"
    /\ Reschedules(l)
    /\ UNCHANGED <<subs, answer, lastSeen, primed, turns, turn, excused,
                   born, loads>>
    /\ UNCHANGED bufferVars

\* The call never settles.  Nothing bounds it: neither catch nor finally is
\* reached, and timer keeps the handle of a chain that does nothing any more.
Lost(l) ==
    /\ loop[l] = "asked"
    /\ loop' = [loop EXCEPT ![l] = "lost"]
    /\ UNCHANGED <<subs, timer, answer, lastSeen, primed, turns, turn,
                   excused, born, loads>>
    /\ UNCHANGED bufferVars

Stamps(S) == {log[i].stamp : i \in S}

\* Strictly newer than the watermark.
Fresh(S) == {i \in S : log[i].stamp > lastSeen}

\* What the first answer after a load passes over without handling it.
PassedOver(i) == ~primed /\ log[i].type \in PrimedPast

\* Mutant: without the Math.max over the watermark so far.
WatermarkOfAnswer(S) ==
    IF S = {}
    THEN UNCHANGED lastSeen
    ELSE lastSeen' \in Stamps(S) /\ \A s \in Stamps(S) : s <= lastSeen'

\* Mutant: the clock at the time the answer is handled.
WatermarkOfClock(S) == lastSeen' = IF S = {} THEN lastSeen ELSE now

\* lastSeenTimestamp becomes the latest stamp of the answer, if later.
Watermark(S) ==
    /\ lastSeen' \in {lastSeen} \cup Stamps(S)
    /\ \A s \in {lastSeen} \cup Stamps(S) : s <= lastSeen'

\* The order of the loop over an answer: a snapshot is newest first, and the
\* stable sort by stamp leaves the events of one millisecond that way.
Before(i, j) ==
    \/ log[i].stamp < log[j].stamp
    \/ log[i].stamp = log[j].stamp /\ i > j

\* Mutant: the answer is not sorted.
PlaceAsSent(i, S) == Cardinality({j \in S : j >= i})

Place(i, S) == Cardinality({j \in S : j = i \/ Before(j, i)})

\* The rest of pollOnce, which no other code interrupts: the fresh events are
\* dispatched one by one.
Handles(l) ==
    LET fresh == Fresh(answer[l])
        fired == {i \in fresh : log[i].type \in subs /\ ~PassedOver(i)}
    IN
    /\ loop[l] = "answered"
    /\ turn' = [i \in DOMAIN turn |->
                    IF i \in fired THEN turns + Place(i, fired) ELSE turn[i]]
    /\ excused' = excused \cup (fresh \ fired)
    /\ turns' = turns + Cardinality(fired)
    /\ primed' = TRUE
    /\ Watermark(answer[l])
    /\ answer' = [answer EXCEPT ![l] = {}]
    /\ Reschedules(l)
    /\ UNCHANGED <<subs, born, loads>>
    /\ UNCHANGED bufferVars

\* Steam restarts: a new client meets the old rings.
Reload ==
    /\ loads < MaxLoads
    /\ loads' = loads + 1
    /\ born' = Len(log)
    /\ subs' = Loaded.subs
    /\ timer' = Loaded.timer
    /\ loop' = Loaded.loop
    /\ answer' = Loaded.answer
    /\ lastSeen' = Loaded.lastSeen
    /\ primed' = Loaded.primed
    /\ turns' = Loaded.turns
    /\ turn' = Loaded.turn
    /\ excused' = {}
    /\ UNCHANGED bufferVars

Next ==
    \/ \E t \in Types : Emit(t)
    \/ TimePasses
    \/ \E t \in Types : Subscribe(t)
    \/ \E t \in Types : Unsubscribe(t)
    \/ \E l \in Loops : Fires(l)
    \/ \E l \in Loops : Serves(l)
    \/ \E l \in Loops : Fails(l)
    \/ \E l \in Loops : Lost(l)
    \/ \E l \in Loops : Handles(l)
    \/ Reload

Spec == Init /\ [][Next]_vars

\* Timers fire, answers are processed, and a chain that keeps asking is
\* answered some day, unless a call of its never settles.  Nothing is assumed
\* of who emits or subscribes.
FairSpec ==
    /\ Spec
    /\ \A l \in Loops :
        /\ WF_vars(Fires(l))
        /\ SF_vars(Serves(l))
        /\ WF_vars(Handles(l))

-----------------------------------------------------------------------------
TypeOK ==
    /\ now \in Nat
    /\ log \in Seq([type : Types, stamp : Nat])
    /\ rings \in [Types -> SUBSET Ids]
    /\ \A t \in Types : Cardinality(rings[t]) <= Cap[t]
    /\ subs \subseteq Types
    /\ timer \in Loops \cup {NoTimer}
    /\ loop \in [Loops -> {"idle", "armed", "asked", "answered", "lost"}]
    /\ answer \in [Loops -> SUBSET Ids]
    /\ lastSeen \in Nat
    /\ primed \in BOOLEAN
    /\ turns \in Nat
    /\ turn \in [1 .. MaxEvents -> Nat]
    /\ excused \subseteq Ids
    /\ born \in 0 .. Len(log)
    /\ loads \in Nat

Handled(i) == turn[i] # 0

(* A handler runs for an event that is later, by its stamp, than all that  *)
(* earlier answers had handled, whatever order the answers of two polls    *)
(* come back in: none is handled twice.  Inside an answer no event comes   *)
(* before an earlier one, except that those of one millisecond run newest  *)
(* first, as the snapshot has them (pollOnce: "Sort ascending so handlers  *)
(* see them in emission order").                                           *)
OnceInOrder ==
    [][\A i, j \in DOMAIN turn :
            turn'[i] \notin {0, turn[i]} =>
                /\ Handled(j) => log[j].stamp < log'[i].stamp
                /\ ~Handled(j) /\ turn'[j] \in 1 .. turn'[i] - 1 =>
                       \/ log'[j].stamp < log'[i].stamp
                       \/ log'[j].stamp = log'[i].stamp /\ j > i]_vars

(* What runs a side effect or revives a finished sync is handled only when *)
(* it was emitted after the load: a Steam restart does not fire it again.  *)
NoStaleReplay ==
    \A i \in DOMAIN turn :
        Handled(i) /\ log[i].type \in PrimedPast => i > born

\* Enough later events came to push it out of its ring or of a snapshot.
Pushed(i) ==
    \/ Cardinality({j \in Ids : j > i /\ log[j].type = log[i].type})
            >= Cap[log[i].type]
    \/ Cardinality({j \in Ids : j > i}) >= Limit

SameMs(i) == \E j \in Ids : j < i /\ log[j].stamp = log[i].stamp

(* An event the watermark has passed was handled or excused, except when   *)
(* later events pushed it out of the buffer or an earlier event carries    *)
(* the same millisecond: nothing else is ever lost between the buffer and  *)
(* the handlers.                                                           *)
LossExplained ==
    \A i \in Ids :
        log[i].stamp <= lastSeen =>
            Handled(i) \/ i \in excused \/ Pushed(i) \/ SameMs(i)

(* While someone listens, the client holds the handle of a chain that has  *)
(* not ended: it is armed, or its poll is out.  Only a call that never     *)
(* settles can stop the polling.                                           *)
PollingAlive ==
    subs # {} => timer # NoTimer /\ loop[timer] # "idle"

(* The chain whose handle the client holds waits for a call that never     *)
(* settles: ensurePolling starts no other.                                 *)
Stuck == timer # NoTimer /\ loop[timer] = "lost"

(* While the buffer holds something newer than the watermark and someone   *)
(* listens, the watermark moves on, through polls that overlap and calls   *)
(* that are rejected: no event waits for ever, except behind a call that   *)
(* never settles.                                                          *)
WatermarkMoves ==
    \A m \in 0 .. MaxMs - 1 :
        (lastSeen = m /\ Fresh(Snapshot) # {}) ~>
            (lastSeen # m \/ subs = {} \/ Stuck)
=============================================================================
