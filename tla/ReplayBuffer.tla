---------------------------- MODULE ReplayBuffer ----------------------------
(***************************************************************************)
(* EventReplayBuffer (event_bus/event_replay.py): one ring of recent       *)
(* events per event type.  The bus records every emission, the client asks *)
(* for a snapshot.  An event is its place in log, the order of emission.   *)
(* Its stamp is time.monotonic() as the snapshot shows it, rounded to a    *)
(* millisecond: several events can carry the same one.                     *)
(***************************************************************************)
EXTENDS Naturals, Sequences, FiniteSets

CONSTANTS
    Types,       \* the event types the client watches
    Cap,         \* _DEFAULT_CAPS and the fallback: entries kept per type
    Limit,       \* MAX_SNAPSHOT_ENTRIES: entries one snapshot returns
    MaxEvents,   \* bound: emissions
    MaxMs        \* bound: milliseconds

ASSUME CapAssumption == Cap \in [Types -> Nat \ {0}]
ASSUME LimitAssumption == Limit \in Nat \ {0}
ASSUME BoundsAssumption == MaxEvents \in Nat /\ MaxMs \in Nat

VARIABLES
    now,     \* the clock, in milliseconds
    log,     \* every event emitted, in order: its type and stamp
    rings    \* _buffers: the events each ring still holds

bufferVars == <<now, log, rings>>

Ids == 1 .. Len(log)

\* A deque(maxlen=k) after its last append, or a newest-first list cut to k.
Newest(S, k) == {i \in S : Cardinality({j \in S : j > i}) < k}

\* snapshot(events, limit): the rings merged, the newest Limit entries.
Snapshot == Newest(UNION {rings[t] : t \in Types}, Limit)

BufferInit ==
    /\ now = 1
    /\ log = <<>>
    /\ rings = [t \in Types |-> {}]

\* Mutant: a deque without maxlen.
RecordForever(t) ==
    /\ Len(log) < MaxEvents
    /\ log' = Append(log, [type |-> t, stamp |-> now])
    /\ rings' = [rings EXCEPT ![t] = @ \cup {Len(log) + 1}]
    /\ UNCHANGED now

\* EventBus.emit: the replay recorder runs before any handler.
Record(t) ==
    /\ Len(log) < MaxEvents
    /\ log' = Append(log, [type |-> t, stamp |-> now])
    /\ rings' = [rings EXCEPT ![t] = Newest(@ \cup {Len(log) + 1}, Cap[t])]
    /\ UNCHANGED now

Tick ==
    /\ now < MaxMs
    /\ now' = now + 1
    /\ UNCHANGED <<log, rings>>
=============================================================================
