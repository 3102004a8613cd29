------------------------------- MODULE Outbox -------------------------------
(***************************************************************************)
(* What services/playtime_sync promises: "the DB is the queue".  A session *)
(* that has been recorded is sent to its store, once or more often, and    *)
(* then stamped; it is never sent before it is recorded, never again once  *)
(* it is stamped, and never stamped unsent, save for the sessions the      *)
(* store would round to nothing.                                           *)
(***************************************************************************)
EXTENDS Naturals

VARIABLES
  recorded,  \* the finished sessions that are to be sent
  sent,      \* how often the store of each session has taken it
  stamped    \* the sessions with a reported_at

outboxVars == <<recorded, sent, stamped>>

OutboxInit(S) == recorded = {} /\ stamped = {} /\ sent = [s \in S |-> 0]

Record(new) ==
  /\ recorded' = recorded \cup new
  /\ UNCHANGED <<sent, stamped>>

Send(s) ==
  /\ s \in recorded \ stamped
  /\ sent' = [sent EXCEPT ![s] = @ + 1]
  /\ UNCHANGED <<recorded, stamped>>

Stamp(s, tiny) ==
  /\ s \in recorded
  /\ sent[s] > 0 \/ s \in tiny
  /\ stamped' = stamped \cup {s}
  /\ UNCHANGED <<recorded, sent>>

OutboxNext(S, tiny) ==
  \/ \E new \in SUBSET S : Record(new)
  \/ \E s \in S : Send(s) \/ Stamp(s, tiny)
=============================================================================
