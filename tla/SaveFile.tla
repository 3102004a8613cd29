------------------------------ MODULE SaveFile ------------------------------
(***************************************************************************)
(* What save_queue promises its callers (services/download/persistence.py):*)
(* a save runs in a thread, copies the list at one moment and replaces the *)
(* file at a later one, or fails and leaves a warning in the log.  Nothing *)
(* keeps two saves apart, and two saves share one temporary file: while a  *)
(* save that has met another is in flight, the file may come to hold any   *)
(* of their copies or text that does not parse, which loads as <<>>.       *)
(*                                                                         *)
(* Module QueueFile, the protocol on the file system, implements this one; *)
(* module DownloadQueue is built on it.                                    *)
(***************************************************************************)
EXTENDS Sequences

VARIABLES
  savePc,   \* the thread of each save: idle, begun or snapped
  snap,     \* the list each save has copied
  disk,     \* what load_queue would return
  solo,     \* observer: the save that has had the file to itself so far
  trusted   \* observer: the last save to finish succeeded and ran alone

saveVars == <<savePc, snap, disk, solo, trusted>>

InFlight == {s \in DOMAIN savePc : savePc[s] # "idle"}
Copies == {snap[s] : s \in {t \in DOMAIN savePc : savePc[t] = "snapped"}}

SaveInit(S) ==
  /\ savePc = [s \in S |-> "idle"] /\ snap = [s \in S |-> <<>>]
  /\ disk = <<>> /\ solo = {} /\ trusted = TRUE

BeginSave(s) ==
  /\ savePc' = [savePc EXCEPT ![s] = "begun"]
  /\ solo' = IF InFlight = {} THEN {s} ELSE {}
  /\ trusted' = (trusted /\ InFlight = {})
  /\ UNCHANGED <<snap, disk>>

\* data = [item.to_dict() for item in queue]
CopyList(s, list) ==
  /\ savePc[s] = "begun"
  /\ savePc' = [savePc EXCEPT ![s] = "snapped"]
  /\ snap' = [snap EXCEPT ![s] = list]
  /\ UNCHANGED <<disk, solo, trusted>>

\* The thread ends.  Its file is in place, or it failed; a save that has met
\* another may put the text of the other in place, or none that parses.
PublishSave(s) ==
  /\ savePc[s] = "snapped"
  /\ savePc' = [savePc EXCEPT ![s] = "idle"]
  /\ snap' = [snap EXCEPT ![s] = <<>>]
  /\ solo' = solo \ {s}
  /\ \/ disk' = snap[s] /\ trusted' = (trusted \/ s \in solo)
     \/ disk' = disk /\ trusted' = FALSE
     \/ s \notin solo /\ disk' \in {<<>>} \cup Copies /\ trusted' = FALSE

\* Saves that have met write into one another's file before they end.
Clash ==
  /\ InFlight \ solo # {}
  /\ disk' \in {<<>>} \cup Copies
  /\ UNCHANGED <<savePc, snap, solo, trusted>>

\* The process ends: only the file is left.
EndSaves ==
  /\ savePc' = [s \in DOMAIN savePc |-> "idle"]
  /\ snap' = [s \in DOMAIN snap |-> <<>>]
  /\ solo' = {}
  /\ trusted' = (trusted /\ InFlight = {})
  /\ UNCHANGED disk

\* One step of the saves S of a list that is now live.
SaveNext(S, live) ==
  \/ \E s \in S : savePc[s] = "idle" /\ BeginSave(s)
  \/ \E s \in S : CopyList(s, live) \/ PublishSave(s)
  \/ Clash \/ EndSaves
=============================================================================
