----------------------------- MODULE QueueFile -----------------------------
(***************************************************************************)
(* The file protocol of services/download/persistence.py: save_queue runs  *)
(* _atomic_json_write in a thread - open the one temporary file with "w",  *)
(* write, fsync, rename onto the target - and load_queue reads the target  *)
(* back, taking a file it cannot parse for an empty list.                  *)
(*                                                                         *)
(* A file is an inode; a path names an inode or nothing.  open(..., "w")   *)
(* truncates the inode the temporary path names, and a descriptor keeps    *)
(* its inode when the path is renamed.  The text of a list is written in   *)
(* one piece (json.dump into a buffer, then flush), and is as long as the  *)
(* list.                                                                   *)
(***************************************************************************)
EXTENDS Naturals, FiniteSets, Sequences

CONSTANTS
  Writers,  \* the saves that may be in flight together
  Lists,    \* the values of the queue
  Inodes,   \* the inodes in use: one per writer, the target and a leftover
  NoInode   \* a path or descriptor that names nothing

ASSUME FileAssumption ==
  /\ IsFiniteSet(Inodes) /\ Cardinality(Inodes) >= Cardinality(Writers) + 2
  /\ NoInode \notin Inodes
  /\ <<>> \in Lists /\ \A l \in Lists : Len(l) \in Nat

VARIABLES
  live,     \* the queue in memory
  pc,       \* where each thread is
  copy,     \* data: the list it has copied
  fd,       \* the inode its descriptor names
  content,  \* per inode: the list last written, the length, does it parse
  tmp,      \* the inode of queue_file + ".tmp"
  target,   \* the inode of queue_file
  alone,    \* observer: the save that has had the file to itself so far
  settled   \* observer: the last save to finish succeeded and ran alone

vars == <<live, pc, copy, fd, content, tmp, target, alone, settled>>

Empty == [text |-> <<>>, len |-> 0, parses |-> FALSE]
Active == {w \in Writers : pc[w] # "idle"}
InUse == {tmp, target} \cup {fd[w] : w \in Writers}

\* What the disk keeps: an inode that no path and no descriptor names is gone,
\* and a text that does not parse has no list.
Kept(c, used) == [n \in Inodes |-> IF n \in used THEN c[n] ELSE Empty]

\* Mutant: no value for a missing file.
LoadedNone == IF target = NoInode THEN NoInode
              ELSE IF content[target].parses THEN content[target].text ELSE <<>>

\* load_queue: a missing or malformed file is an empty list.
Loaded == IF target = NoInode THEN <<>>
          ELSE IF content[target].parses THEN content[target].text ELSE <<>>

TypeOK ==
  /\ live \in Lists
  /\ pc \in [Writers -> {"idle", "begun", "copied", "opened", "written", "failed"}]
  /\ copy \in [Writers -> Lists]
  /\ fd \in [Writers -> Inodes \cup {NoInode}]
  /\ content \in [Inodes -> [text : Lists, len : Nat, parses : BOOLEAN]]
  /\ {tmp, target} \subseteq Inodes \cup {NoInode}
  /\ alone \subseteq Writers
  /\ settled \in BOOLEAN

Init ==
  /\ live = <<>>
  /\ pc = [w \in Writers |-> "idle"]
  /\ copy = [w \in Writers |-> <<>>]
  /\ fd = [w \in Writers |-> NoInode]
  /\ content = [n \in Inodes |-> Empty]
  /\ tmp = NoInode /\ target = NoInode
  /\ alone = {} /\ settled = TRUE

\* Mutant: the list is copied when the save is asked for, before the change.
SaveTooEarly(w) ==
  /\ pc[w] = "idle"
  /\ live' \in Lists
  /\ pc' = [pc EXCEPT ![w] = "copied"]
  /\ copy' = [copy EXCEPT ![w] = live]
  /\ alone' = IF Active = {} THEN {w} ELSE {}
  /\ settled' = (settled /\ Active = {})
  /\ UNCHANGED <<fd, content, tmp, target>>

\* The queue changes, or not, and its owner calls save_queue at once.
Save(w) ==
  /\ pc[w] = "idle"
  /\ live' \in Lists
  /\ pc' = [pc EXCEPT ![w] = "begun"]
  /\ alone' = IF Active = {} THEN {w} ELSE {}
  /\ settled' = (settled /\ Active = {})
  /\ UNCHANGED <<copy, fd, content, tmp, target>>

Copy(w) ==
  /\ pc[w] = "begun"
  /\ pc' = [pc EXCEPT ![w] = "copied"]
  /\ copy' = [copy EXCEPT ![w] = live]
  /\ UNCHANGED <<live, fd, content, tmp, target, alone, settled>>

\* Mutant: the queue file is rewritten in place.
OpenInPlace(w) ==
  /\ pc[w] = "copied"
  /\ pc' = [pc EXCEPT ![w] = "opened"]
  /\ \E n \in IF target = NoInode THEN Inodes \ InUse ELSE {target} :
       /\ target' = n
       /\ fd' = [fd EXCEPT ![w] = n]
       /\ content' = [content EXCEPT ![n] = Empty]
  /\ UNCHANGED <<live, copy, tmp, alone, settled>>

\* Mutant: the temporary file is opened without truncating it.
OpenKeeping(w) ==
  /\ pc[w] = "copied"
  /\ pc' = [pc EXCEPT ![w] = "opened"]
  /\ \E n \in IF tmp = NoInode THEN Inodes \ InUse ELSE {tmp} :
       /\ tmp' = n
       /\ fd' = [fd EXCEPT ![w] = n]
  /\ UNCHANGED <<live, copy, content, target, alone, settled>>

\* Path(tmp_path).open("w"): creates the file or truncates the one there.
Open(w) ==
  /\ pc[w] = "copied"
  /\ pc' = [pc EXCEPT ![w] = "opened"]
  /\ \E n \in IF tmp = NoInode THEN Inodes \ InUse ELSE {tmp} :
       /\ tmp' = n
       /\ fd' = [fd EXCEPT ![w] = n]
       /\ content' = [content EXCEPT ![n] = Empty]
  /\ UNCHANGED <<live, copy, target, alone, settled>>

\* The text goes to the start of the inode; a longer text there keeps its tail.
Write(w) ==
  /\ pc[w] = "opened"
  /\ pc' = [pc EXCEPT ![w] = "written"]
  /\ fd' = [fd EXCEPT ![w] = NoInode]
  /\ UNCHANGED <<live, copy, tmp, target, alone, settled>>
  /\ LET old == content[fd[w]].len
         new == Len(copy[w])
         text == IF old <= new
                 THEN [text |-> copy[w], len |-> new, parses |-> TRUE]
                 ELSE [text |-> <<>>, len |-> old, parses |-> FALSE]
     IN  content' = Kept([content EXCEPT ![fd[w]] = text], InUse')

\* No space, no permission: an OSError, at the open or with a part written.
OpenFails(w) ==
  /\ pc[w] = "copied"
  /\ pc' = [pc EXCEPT ![w] = "failed"]
  /\ UNCHANGED <<live, copy, fd, content, tmp, target, alone, settled>>

WriteFails(w) ==
  /\ pc[w] = "opened"
  /\ pc' = [pc EXCEPT ![w] = "failed"]
  /\ fd' = [fd EXCEPT ![w] = NoInode]
  /\ UNCHANGED <<live, copy, tmp, target, alone, settled>>
  /\ \E part \in 0..Len(copy[w]) :
       LET old == content[fd[w]].len
           text == [text |-> <<>>, len |-> IF old > part THEN old ELSE part,
                    parses |-> FALSE]
       IN  content' = Kept([content EXCEPT ![fd[w]] = text], InUse')

\* The thread of w returns to save_queue.
Ends(w, ok) ==
  /\ pc' = [pc EXCEPT ![w] = "idle"]
  /\ copy' = [copy EXCEPT ![w] = <<>>]
  /\ alone' = alone \ {w}
  /\ settled' = (ok /\ (settled \/ w \in alone))

\* Path(tmp_path).replace(target): whatever the temporary path names by now.
Replace(w) ==
  /\ pc[w] = "written" /\ tmp # NoInode
  /\ target' = tmp /\ tmp' = NoInode
  /\ Ends(w, TRUE)
  /\ UNCHANGED <<live, fd>>
  /\ content' = Kept(content, InUse')

\* Another thread has taken the temporary file, or the rename is refused.
ReplaceFails(w) ==
  /\ pc[w] = "written"
  /\ pc' = [pc EXCEPT ![w] = "failed"]
  /\ UNCHANGED <<live, copy, fd, content, tmp, target, alone, settled>>

\* The except block removes the temporary file, whosever it is by now.  (That
\* the removal is refused as well is left out: where it is, so is the rename.)
Discard(w) ==
  /\ pc[w] = "failed"
  /\ tmp' = NoInode
  /\ Ends(w, FALSE)
  /\ UNCHANGED <<live, fd, target>>
  /\ content' = Kept(content, InUse')

\* The process ends, at any point, and the next one loads the file.
Restart ==
  /\ live' = Loaded
  /\ pc' = [w \in Writers |-> "idle"]
  /\ copy' = [w \in Writers |-> <<>>]
  /\ fd' = [w \in Writers |-> NoInode]
  /\ alone' = {} /\ settled' = (settled /\ Active = {})
  /\ UNCHANGED <<tmp, target>>
  /\ content' = Kept(content, InUse')

Next ==
  \/ \E w \in Writers : Save(w) \/ Copy(w) \/ Open(w) \/ Write(w)
  \/ \E w \in Writers : OpenFails(w) \/ WriteFails(w) \/ Replace(w)
  \/ \E w \in Writers : ReplaceFails(w) \/ Discard(w)
  \/ Restart

Spec == Init /\ [][Next]_vars

-----------------------------------------------------------------------------
Abstract == INSTANCE SaveFile WITH
  savePc  <- [w \in Writers |-> CASE pc[w] \in {"idle", "begun"} -> pc[w]
                                  [] OTHER -> "snapped"],
  snap    <- copy,
  disk    <- Loaded,
  solo    <- alone,
  trusted <- settled

\* The protocol does what module SaveFile promises: a save that runs alone
\* replaces the file by its copy or leaves it as it was, whatever is left over
\* from earlier saves and crashes; only saves that meet can spoil the file.
ImplementsSaveFile ==
  Abstract!SaveInit(Writers) /\ [][Abstract!SaveNext(Writers, live)]_(Abstract!saveVars)

\* Persist the queue atomically: whatever the target names is a complete text.
TargetWhole == target # NoInode => content[target].parses

\* After a save that ran alone and succeeded the file holds the queue again:
\* "the in-memory queue remains the source of truth; next successful write
\* recovers disk state".
SettledHoldsLive == Active = {} /\ settled => Loaded = live

\* While only one save is in flight a crash finds the file complete: only
\* saves that met can have left text that does not parse.
\* (settled is lost by an overlap and by a failure, and regained by a save
\* that ran alone.)
CrashFindsWholeFile == settled => TargetWhole
=============================================================================
