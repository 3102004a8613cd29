-------------------------- MODULE QueueFileProofs --------------------------
(***************************************************************************)
(* The file protocol of save_queue, for every number of writers, every     *)
(* set of lists and every supply of inodes: types, the two promises about  *)
(* the file on disk, and that the protocol implements module SaveFile.     *)
(*                                                                         *)
(* All of it rests on one invariant.  Its heart is that a save that has    *)
(* had the file to itself knows what the temporary path names (LoneKnows), *)
(* and that a text found there while some save has opened the path is the  *)
(* copy of a save still in flight (StrayIsCopy).                           *)
(***************************************************************************)
EXTENDS QueueFile, TLAPS

Snapped == {w \in Writers : pc[w] \notin {"idle", "begun"}}

\* An idle save holds no list, a save that has begun has not copied yet.
CopiedLater == \A w \in Writers \ Snapped : copy[w] = <<>>

\* The temporary file is never the target.
PathsDiffer == tmp # NoInode => tmp # target

\* A save at its write has a file open.
HoldsFile == \A w \in Writers : pc[w] = "opened" => fd[w] # NoInode

\* A save that has met no other is the only one in flight, and a settled file
\* knows every save in flight to be such a one.
LoneIsOnly ==
  /\ \A w \in alone : Active = {w}
  /\ settled => Active \subseteq alone

\* What a lone save has done to the temporary file, and that the queue has not
\* changed since it was copied.
LoneKnows ==
  \A w \in alone :
    /\ pc[w] # "begun" => copy[w] = live
    /\ pc[w] = "opened" => tmp # NoInode /\ fd[w] = tmp /\ content[tmp] = Empty
    /\ pc[w] = "written" =>
         /\ tmp # NoInode
         /\ content[tmp].parses /\ content[tmp].text = copy[w]

\* While a save has the temporary file open or written, a complete text there
\* is the copy of a save that has written and not ended: what an earlier
\* process left was truncated by the open.
StrayIsCopy ==
  tmp # NoInode /\ content[tmp].parses
    /\ (\E w \in Writers : pc[w] \in {"opened", "written"})
  => \E w \in Writers : pc[w] \in {"written", "failed"} /\ content[tmp].text = copy[w]

IInv ==
  /\ TypeOK
  /\ CopiedLater
  /\ PathsDiffer
  /\ HoldsFile
  /\ LoneIsOnly
  /\ LoneKnows
  /\ StrayIsCopy
  /\ CrashFindsWholeFile
  /\ SettledHoldsLive

-----------------------------------------------------------------------------
(* What a step does to the inodes and to the saves in flight.              *)

\* Truncating or losing an inode, or writing one, leaves typed contents.
LEMMA KeptIsTyped ==
  ASSUME NEW c \in [Inodes -> [text : Lists, len : Nat, parses : BOOLEAN]], NEW used
  PROVE  /\ Kept(c, used) \in [Inodes -> [text : Lists, len : Nat, parses : BOOLEAN]]
         /\ \A n \in Inodes \cap used : Kept(c, used)[n] = c[n]
  BY FileAssumption DEF Kept, Empty

LEMMA SaveKeepsInv ==
  ASSUME IInv, NEW w \in Writers, Save(w)
  PROVE  IInv'
  <1> USE DEF IInv, Save
  <1>1. TypeOK'
    BY DEF TypeOK
  <1>2. Active' = Active \cup {w}
    BY DEF Active, TypeOK
  <1>3. Snapped' = Snapped /\ copy' = copy
    BY DEF Snapped, TypeOK
  <1>4. CopiedLater'
    BY <1>3 DEF CopiedLater
  <1>5. PathsDiffer' /\ HoldsFile' /\ CrashFindsWholeFile'
    BY DEF PathsDiffer, HoldsFile, TypeOK, CrashFindsWholeFile, TargetWhole
  <1>6. LoneIsOnly'
    BY <1>2 DEF LoneIsOnly
  <1>7. LoneKnows'
    BY DEF LoneKnows, TypeOK
  <1>8. StrayIsCopy'
    BY DEF StrayIsCopy, TypeOK
  <1>9. SettledHoldsLive'
    BY <1>2 DEF SettledHoldsLive
  <1>10. QED
    BY <1>1, <1>4, <1>5, <1>6, <1>7, <1>8, <1>9

LEMMA CopyKeepsInv ==
  ASSUME IInv, NEW w \in Writers, Copy(w)
  PROVE  IInv'
  <1> USE DEF IInv, Copy
  <1>1. TypeOK'
    BY DEF TypeOK
  <1>2. Active' = Active
    BY DEF Active, TypeOK
  <1>3. CopiedLater'
    BY DEF CopiedLater, Snapped, TypeOK
  <1>4. PathsDiffer' /\ HoldsFile' /\ CrashFindsWholeFile'
    BY DEF PathsDiffer, HoldsFile, TypeOK, CrashFindsWholeFile, TargetWhole
  <1>5. LoneIsOnly'
    BY <1>2 DEF LoneIsOnly
  <1>6. LoneKnows'
    BY DEF LoneKnows, TypeOK
  <1>7. StrayIsCopy'
    BY DEF StrayIsCopy, TypeOK
  <1>8. SettledHoldsLive'
    BY <1>2 DEF SettledHoldsLive, Loaded
  <1>9. QED
    BY <1>1, <1>3, <1>4, <1>5, <1>6, <1>7, <1>8

\* The open truncates: no text of an earlier save or process is left there.
LEMMA OpenKeepsInv ==
  ASSUME IInv, NEW w \in Writers, Open(w)
  PROVE  IInv'
  <1> USE DEF IInv, Open
  <1>1. PICK n \in IF tmp = NoInode THEN Inodes \ InUse ELSE {tmp} :
             /\ tmp' = n
             /\ fd' = [fd EXCEPT ![w] = n]
             /\ content' = [content EXCEPT ![n] = Empty]
    OBVIOUS
  <1>2. n \in Inodes /\ n # NoInode /\ n # target
    BY FileAssumption DEF InUse, PathsDiffer, TypeOK
  <1>3. TypeOK'
    BY <1>1, <1>2, FileAssumption DEF TypeOK, Empty
  <1>4. content'[n] = Empty /\ (target # NoInode => content'[target] = content[target])
    BY <1>1, <1>2 DEF TypeOK
  <1>5. Active' = Active /\ Snapped' = Snapped
    BY DEF Active, Snapped, TypeOK
  <1>6. CopiedLater'
    BY <1>5 DEF CopiedLater
  <1>7. PathsDiffer' /\ HoldsFile' /\ CrashFindsWholeFile'
    BY <1>1, <1>2, <1>4 DEF PathsDiffer, HoldsFile, TypeOK, CrashFindsWholeFile, TargetWhole
  <1>8. LoneIsOnly'
    BY <1>5 DEF LoneIsOnly
  <1>9. LoneKnows'
    <2>1. \A u \in alone : u = w
      BY DEF LoneIsOnly, Active, TypeOK
    <2>2. QED
      BY <1>1, <1>2, <1>4, <2>1 DEF LoneKnows, TypeOK
  <1>10. StrayIsCopy'
    BY <1>1, <1>4 DEF StrayIsCopy, Empty
  <1>11. SettledHoldsLive'
    BY <1>4, <1>5 DEF SettledHoldsLive, Loaded
  <1>12. QED
    BY <1>3, <1>6, <1>7, <1>8, <1>9, <1>10, <1>11

-----------------------------------------------------------------------------
(* The write, the rename and the ways to fail.                             *)

\* What a write, complete or partial, leaves of the files: the target and the
\* temporary file are what they were, unless the descriptor names them.
LEMMA WriteTouchesOwnInode ==
  ASSUME NEW w \in Writers, TypeOK, fd[w] \in Inodes,
         NEW text \in [text : Lists, len : Nat, parses : BOOLEAN],
         {tmp, target} \subseteq InUse',
         content' = Kept([content EXCEPT ![fd[w]] = text], InUse')
  PROVE  /\ content' \in [Inodes -> [text : Lists, len : Nat, parses : BOOLEAN]]
         /\ tmp # NoInode => content'[tmp] = IF tmp = fd[w] THEN text ELSE content[tmp]
         /\ target # NoInode =>
              content'[target] = IF target = fd[w] THEN text ELSE content[target]
  <1> DEFINE d == [content EXCEPT ![fd[w]] = text]
  <1>1. d \in [Inodes -> [text : Lists, len : Nat, parses : BOOLEAN]]
    BY DEF TypeOK
  <1>2. \A n \in Inodes : d[n] = IF n = fd[w] THEN text ELSE content[n]
    BY DEF TypeOK
  <1>3. content' = Kept(d, InUse')
    OBVIOUS
  <1> HIDE DEF d
  <1>4. /\ content' \in [Inodes -> [text : Lists, len : Nat, parses : BOOLEAN]]
        /\ \A n \in Inodes \cap InUse' : content'[n] = d[n]
    BY <1>1, <1>3, FileAssumption DEF Kept, Empty
  <1>5. QED
    BY <1>2, <1>4 DEF TypeOK

\* A write that ends leaves the save's copy, when nothing longer was there; a
\* partial one and one over a longer text leave nothing that parses.
LEMMA WriteOutcome ==
  ASSUME TypeOK, HoldsFile, NEW w \in Writers, Write(w) \/ WriteFails(w)
  PROVE  \E text \in [text : Lists, len : Nat, parses : BOOLEAN] :
           /\ text.parses => text.text = copy[w]
           /\ pc'[w] = "written" /\ content[fd[w]] = Empty => text.parses
           /\ content' \in [Inodes -> [text : Lists, len : Nat, parses : BOOLEAN]]
           /\ tmp # NoInode => content'[tmp] = IF tmp = fd[w] THEN text ELSE content[tmp]
           /\ target # NoInode =>
                content'[target] = IF target = fd[w] THEN text ELSE content[target]
  <1>1. fd[w] \in Inodes /\ {tmp, target} \subseteq InUse'
    BY DEF HoldsFile, TypeOK, Write, WriteFails, InUse
  <1>2. CASE Write(w)
    <2> DEFINE text == IF content[fd[w]].len <= Len(copy[w])
                       THEN [text |-> copy[w], len |-> Len(copy[w]), parses |-> TRUE]
                       ELSE [text |-> <<>>, len |-> content[fd[w]].len, parses |-> FALSE]
    <2>1. text \in [text : Lists, len : Nat, parses : BOOLEAN]
      BY <1>1, FileAssumption DEF TypeOK
    <2>2. text.parses => text.text = copy[w]
      OBVIOUS
    <2>3. content[fd[w]] = Empty => text.parses
      BY FileAssumption DEF Empty, TypeOK
    <2>4. content' = Kept([content EXCEPT ![fd[w]] = text], InUse')
      BY <1>2 DEF Write
    <2> HIDE DEF text
    <2>5. /\ content' \in [Inodes -> [text : Lists, len : Nat, parses : BOOLEAN]]
          /\ tmp # NoInode => content'[tmp] = IF tmp = fd[w] THEN text ELSE content[tmp]
          /\ target # NoInode =>
               content'[target] = IF target = fd[w] THEN text ELSE content[target]
      BY <1>1, <2>1, <2>4, WriteTouchesOwnInode
    <2>6. QED
      BY <2>1, <2>2, <2>3, <2>5
  <1>3. CASE WriteFails(w)
    <2>1. PICK part \in 0..Len(copy[w]) :
            content' = Kept([content EXCEPT ![fd[w]] =
              [text |-> <<>>,
               len |-> IF content[fd[w]].len > part THEN content[fd[w]].len ELSE part,
               parses |-> FALSE]], InUse')
      BY <1>3 DEF WriteFails
    <2> DEFINE text == [text |-> <<>>,
                        len |-> IF content[fd[w]].len > part
                                THEN content[fd[w]].len ELSE part,
                        parses |-> FALSE]
    <2>2. text \in [text : Lists, len : Nat, parses : BOOLEAN] /\ ~text.parses
      BY <1>1, FileAssumption DEF TypeOK
    <2>3. content' = Kept([content EXCEPT ![fd[w]] = text], InUse')
      BY <2>1
    <2> HIDE DEF text
    <2>4. /\ content' \in [Inodes -> [text : Lists, len : Nat, parses : BOOLEAN]]
          /\ tmp # NoInode => content'[tmp] = IF tmp = fd[w] THEN text ELSE content[tmp]
          /\ target # NoInode =>
               content'[target] = IF target = fd[w] THEN text ELSE content[target]
      BY <1>1, <2>2, <2>3, WriteTouchesOwnInode
    <2>5. pc'[w] # "written"
      BY <1>3 DEF WriteFails, TypeOK
    <2>6. QED
      BY <2>2, <2>4, <2>5
  <1>4. QED
    BY <1>2, <1>3

\* A lone save has its descriptor on the temporary file, so it never writes
\* into the target; one that has met another may.
LEMMA WritesKeepInv ==
  ASSUME IInv, NEW w \in Writers, Write(w) \/ WriteFails(w)
  PROVE  IInv'
  <1> USE DEF IInv
  <1>1. /\ pc[w] = "opened"
        /\ pc' \in {[pc EXCEPT ![w] = "written"], [pc EXCEPT ![w] = "failed"]}
        /\ fd' = [fd EXCEPT ![w] = NoInode]
        /\ UNCHANGED <<live, copy, tmp, target, alone, settled>>
    BY DEF Write, WriteFails
  <1>2. PICK text \in [text : Lists, len : Nat, parses : BOOLEAN] :
          /\ text.parses => text.text = copy[w]
          /\ pc'[w] = "written" /\ content[fd[w]] = Empty => text.parses
          /\ content' \in [Inodes -> [text : Lists, len : Nat, parses : BOOLEAN]]
          /\ tmp # NoInode => content'[tmp] = IF tmp = fd[w] THEN text ELSE content[tmp]
          /\ target # NoInode =>
               content'[target] = IF target = fd[w] THEN text ELSE content[target]
    BY WriteOutcome
  <1>3. TypeOK'
    BY <1>1, <1>2 DEF TypeOK
  <1>4. Active' = Active /\ Snapped' = Snapped
    BY <1>1 DEF Active, Snapped, TypeOK
  <1>5. CopiedLater' /\ PathsDiffer' /\ HoldsFile'
    BY <1>1, <1>4 DEF CopiedLater, PathsDiffer, HoldsFile, TypeOK
  <1>6. LoneIsOnly'
    BY <1>1, <1>4 DEF LoneIsOnly
  <1>7. \A u \in alone : u = w
    BY <1>1 DEF LoneIsOnly, Active
  <1>8. LoneKnows'
    <2>1. w \in alone => /\ copy[w] = live /\ tmp # NoInode /\ content'[tmp] = text
                         /\ content[fd[w]] = Empty
      BY <1>1, <1>2 DEF LoneKnows
    <2>2. pc'[w] \in {"written", "failed"}
      BY <1>1 DEF TypeOK
    <2>3. QED
      BY <1>1, <1>2, <1>7, <2>1, <2>2 DEF LoneKnows
  <1>9. StrayIsCopy'
    <2>1. CASE tmp # NoInode /\ fd[w] = tmp
      <3>1. pc'[w] \in {"written", "failed"}
        BY <1>1 DEF TypeOK
      <3>2. QED
        BY <1>1, <1>2, <2>1, <3>1 DEF StrayIsCopy
    <2>2. CASE fd[w] # tmp
      BY <1>1, <1>2, <2>2 DEF StrayIsCopy, TypeOK
    <2>3. QED
      BY <1>1, <2>1, <2>2 DEF StrayIsCopy
  <1>10. settled => fd[w] # target
    BY <1>1 DEF LoneIsOnly, LoneKnows, PathsDiffer, Active
  <1>11. CrashFindsWholeFile' /\ SettledHoldsLive'
    BY <1>1, <1>2, <1>4, <1>10
    DEF CrashFindsWholeFile, TargetWhole, SettledHoldsLive, Active
  <1>12. QED
    BY <1>3, <1>5, <1>6, <1>8, <1>9, <1>11

LEMMA FailuresKeepInv ==
  ASSUME IInv, NEW w \in Writers, OpenFails(w) \/ ReplaceFails(w)
  PROVE  IInv'
  <1> USE DEF IInv, OpenFails, ReplaceFails
  <1>1. TypeOK'
    BY DEF TypeOK
  <1>2. Active' = Active /\ Snapped' = Snapped
    BY DEF Active, Snapped, TypeOK
  <1>3. CopiedLater' /\ PathsDiffer' /\ HoldsFile' /\ LoneIsOnly'
    BY <1>2 DEF CopiedLater, PathsDiffer, HoldsFile, LoneIsOnly, TypeOK
  <1>4. LoneKnows' /\ StrayIsCopy'
    BY DEF LoneKnows, StrayIsCopy, TypeOK
  <1>5. CrashFindsWholeFile' /\ SettledHoldsLive'
    BY <1>2 DEF CrashFindsWholeFile, TargetWhole, SettledHoldsLive, Loaded
  <1>6. QED
    BY <1>1, <1>3, <1>4, <1>5

-----------------------------------------------------------------------------
(* The end of a save and of the process.                                   *)

\* A save that ends clears its copy and is no longer in flight.
LEMMA EndLeaves ==
  ASSUME IInv, NEW w \in Writers, pc[w] # "idle", NEW ok \in BOOLEAN, Ends(w, ok)
  PROVE  /\ pc' \in [Writers -> {"idle", "begun", "copied", "opened", "written", "failed"}]
         /\ copy' \in [Writers -> Lists]
         /\ alone' \subseteq Writers /\ settled' \in BOOLEAN
         /\ Active' = Active \ {w}
         /\ CopiedLater' /\ LoneIsOnly'
         /\ w \notin alone => ~settled'
  <1> USE DEF IInv, Ends
  <1>1. /\ pc' \in [Writers -> {"idle", "begun", "copied", "opened", "written", "failed"}]
        /\ copy' \in [Writers -> Lists]
        /\ alone' \subseteq Writers /\ settled' \in BOOLEAN
    BY FileAssumption DEF TypeOK
  <1>2. Active' = Active \ {w}
    BY DEF Active, TypeOK
  <1>3. CopiedLater'
    BY DEF CopiedLater, Snapped, TypeOK
  <1>4. w \notin alone => ~settled'
    BY DEF LoneIsOnly, Active, TypeOK
  <1>5. LoneIsOnly'
    BY <1>2, <1>4 DEF LoneIsOnly
  <1>6. QED
    BY <1>1, <1>2, <1>3, <1>4, <1>5

\* The rename of a lone save puts its own copy, which is still the queue, in
\* place; any other leaves the file untrusted.
LEMMA ReplaceKeepsInv ==
  ASSUME IInv, NEW w \in Writers, Replace(w)
  PROVE  IInv'
  <1> USE DEF IInv, Replace
  <1>1. /\ pc' \in [Writers -> {"idle", "begun", "copied", "opened", "written", "failed"}]
        /\ copy' \in [Writers -> Lists]
        /\ alone' \subseteq Writers /\ settled' \in BOOLEAN
        /\ Active' = Active \ {w}
        /\ CopiedLater' /\ LoneIsOnly'
        /\ w \notin alone => ~settled'
    BY EndLeaves
  <1>2. target' = tmp /\ target' \in Inodes /\ target' \in InUse'
    BY DEF InUse, TypeOK
  <1>3. /\ content' \in [Inodes -> [text : Lists, len : Nat, parses : BOOLEAN]]
        /\ content'[target'] = content[tmp]
    BY <1>2, KeptIsTyped DEF TypeOK
  <1>4. TypeOK'
    BY <1>1, <1>2, <1>3 DEF TypeOK
  <1>5. PathsDiffer' /\ HoldsFile' /\ StrayIsCopy'
    BY DEF PathsDiffer, HoldsFile, StrayIsCopy, Ends, TypeOK
  <1>6. LoneKnows'
    BY DEF LoneKnows, LoneIsOnly, Active, Ends, TypeOK
  <1>7. w \in alone => content[tmp].parses /\ content[tmp].text = live
    BY DEF LoneKnows
  <1>8. CrashFindsWholeFile' /\ SettledHoldsLive'
    BY <1>1, <1>2, <1>3, <1>7 DEF CrashFindsWholeFile, TargetWhole, SettledHoldsLive, Loaded
  <1>9. QED
    BY <1>1, <1>4, <1>5, <1>6, <1>8

LEMMA DiscardKeepsInv ==
  ASSUME IInv, NEW w \in Writers, Discard(w)
  PROVE  IInv'
  <1> USE DEF IInv, Discard
  <1>1. /\ pc' \in [Writers -> {"idle", "begun", "copied", "opened", "written", "failed"}]
        /\ copy' \in [Writers -> Lists]
        /\ alone' \subseteq Writers /\ settled' \in BOOLEAN
        /\ CopiedLater' /\ LoneIsOnly'
    BY EndLeaves
  <1>2. content' \in [Inodes -> [text : Lists, len : Nat, parses : BOOLEAN]]
    BY KeptIsTyped DEF TypeOK
  <1>3. TypeOK'
    BY <1>1, <1>2 DEF TypeOK
  <1>4. PathsDiffer' /\ HoldsFile' /\ StrayIsCopy'
    BY DEF PathsDiffer, HoldsFile, StrayIsCopy, Ends, TypeOK
  <1>5. LoneKnows'
    BY DEF LoneKnows, LoneIsOnly, Active, Ends, TypeOK
  <1>6. CrashFindsWholeFile' /\ SettledHoldsLive'
    BY DEF CrashFindsWholeFile, SettledHoldsLive, Ends
  <1>7. QED
    BY <1>1, <1>3, <1>4, <1>5, <1>6

\* The process ends: the next one holds what it loads.
LEMMA RestartKeepsInv ==
  ASSUME IInv, Restart
  PROVE  IInv'
  <1> USE DEF IInv, Restart
  <1>1. {tmp, target} \subseteq InUse'
    BY DEF InUse
  <1>2. /\ content' \in [Inodes -> [text : Lists, len : Nat, parses : BOOLEAN]]
        /\ target # NoInode => content'[target] = content[target]
    BY <1>1, KeptIsTyped DEF TypeOK
  <1>3. TypeOK'
    BY <1>2, FileAssumption DEF TypeOK, Loaded
  <1>4. Active' = {}
    BY DEF Active
  <1>5. CopiedLater' /\ PathsDiffer' /\ HoldsFile' /\ LoneIsOnly' /\ LoneKnows'
    BY <1>4 DEF CopiedLater, PathsDiffer, HoldsFile, LoneIsOnly, LoneKnows
  <1>6. StrayIsCopy'
    BY DEF StrayIsCopy
  <1>7. CrashFindsWholeFile' /\ SettledHoldsLive'
    BY <1>2 DEF CrashFindsWholeFile, TargetWhole, SettledHoldsLive, Loaded
  <1>8. QED
    BY <1>3, <1>5, <1>6, <1>7

LEMMA InvStep == IInv /\ [Next]_vars => IInv'
  <1> SUFFICES ASSUME IInv, [Next]_vars
               PROVE  IInv'
    OBVIOUS
  <1>1. CASE Next
    BY <1>1, SaveKeepsInv, CopyKeepsInv, OpenKeepsInv, WritesKeepInv,
       FailuresKeepInv, ReplaceKeepsInv, DiscardKeepsInv, RestartKeepsInv DEF Next
  <1>2. CASE UNCHANGED vars
    BY <1>2 DEF vars, IInv, TypeOK, CopiedLater, Snapped, PathsDiffer, HoldsFile, LoneIsOnly,
       Active, LoneKnows, StrayIsCopy, CrashFindsWholeFile, TargetWhole, SettledHoldsLive, Loaded
  <1>3. QED
    BY <1>1, <1>2

LEMMA InvHolds == Spec => []IInv
  <1>1. Init => IInv
    BY FileAssumption DEF Init, IInv, TypeOK, CopiedLater, PathsDiffer, HoldsFile, LoneIsOnly,
       Active, LoneKnows, StrayIsCopy, CrashFindsWholeFile, TargetWhole, SettledHoldsLive,
       Loaded, Empty
  <1>2. QED
    BY <1>1, InvStep, PTL DEF Spec

\* Every variable keeps its type: in particular each inode holds a list, a
\* length and whether it parses, however the saves and crashes interleave.
THEOREM TypeCorrect == Spec => []TypeOK
  BY InvHolds, PTL DEF IInv

\* After a save that ran alone and succeeded, and until the next one starts,
\* the file holds the queue: save_queue and load_queue agree.
THEOREM SettledFileIsQueue == Spec => []SettledHoldsLive
  BY InvHolds, PTL DEF IInv

\* As long as no two saves have met and none has failed since the last good
\* one, a crash at any point of save_queue finds the target complete.
THEOREM CrashSeesWholeFile == Spec => []CrashFindsWholeFile
  BY InvHolds, PTL DEF IInv

-----------------------------------------------------------------------------
(* The protocol implements module SaveFile: each of its steps is a step of *)
(* a save there, a clash of saves that have met, the end of the process,   *)
(* or invisible.                                                           *)

AbstractPc == [w \in Writers |-> CASE pc[w] \in {"idle", "begun"} -> pc[w]
                                   [] OTHER -> "snapped"]

LEMMA AbstractSets ==
  ASSUME TypeOK
  PROVE  Abstract!InFlight = Active /\ Abstract!Copies = {copy[w] : w \in Snapped}
  BY DEF TypeOK, Abstract!InFlight, Abstract!Copies, Active, Snapped

\* The steps a caller of save_queue sees.
LEMMA SaveIsBeginSave ==
  ASSUME IInv, NEW w \in Writers, Save(w)
  PROVE  Abstract!BeginSave(w) /\ AbstractPc[w] = "idle"
  <1>1. Abstract!InFlight = Active
    BY AbstractSets DEF IInv
  <1>2. QED
    BY <1>1 DEF Save, IInv, TypeOK, AbstractPc, Abstract!BeginSave, Loaded

LEMMA CopyIsCopyList ==
  ASSUME IInv, NEW w \in Writers, Copy(w)
  PROVE  Abstract!CopyList(w, live)
  BY DEF Copy, IInv, TypeOK, Abstract!CopyList, Loaded

\* A rename that succeeds publishes the save's copy, or, when it has met
\* another save, whatever complete text of a save in flight, or none.
LEMMA ReplaceIsPublish ==
  ASSUME IInv, NEW w \in Writers, Replace(w)
  PROVE  Abstract!PublishSave(w)
  <1> USE DEF IInv, Replace, Ends
  <1>1. AbstractPc[w] = "snapped" /\ AbstractPc' = [AbstractPc EXCEPT ![w] = "idle"]
    BY DEF AbstractPc, TypeOK
  <1>2. target' = tmp /\ target' \in Inodes /\ target' \in InUse'
    BY DEF InUse, TypeOK
  <1>3. content'[target'] = content[tmp]
    BY <1>2, KeptIsTyped DEF TypeOK
  <1>4. Loaded' = IF content[tmp].parses THEN content[tmp].text ELSE <<>>
    BY <1>2, <1>3, FileAssumption DEF Loaded
  <1>5. CASE w \in alone
    <2>1. Loaded' = copy[w] /\ settled'
      BY <1>4, <1>5 DEF LoneKnows, TypeOK
    <2>2. QED
      BY <1>1, <2>1 DEF AbstractPc, Abstract!PublishSave
  <1>6. CASE w \notin alone
    <2>1. ~settled'
      BY <1>6 DEF LoneIsOnly, Active, TypeOK
    <2>2. Loaded' \in {<<>>} \cup {copy[u] : u \in Snapped}
      BY <1>4 DEF StrayIsCopy, Snapped
    <2>3. Loaded' \in {<<>>} \cup Abstract!Copies
      BY <2>2, AbstractSets
    <2>4. QED
      BY <1>1, <1>6, <2>1, <2>3 DEF AbstractPc, Abstract!PublishSave
  <1>7. QED
    BY <1>5, <1>6

LEMMA DiscardIsPublish ==
  ASSUME IInv, NEW w \in Writers, Discard(w)
  PROVE  Abstract!PublishSave(w)
  <1> USE DEF IInv, Discard, Ends
  <1>1. AbstractPc[w] = "snapped" /\ AbstractPc' = [AbstractPc EXCEPT ![w] = "idle"]
    BY DEF AbstractPc, TypeOK
  <1>2. target' = target /\ target \in InUse'
    BY DEF InUse
  <1>3. target # NoInode => content'[target] = content[target]
    BY <1>2, KeptIsTyped DEF TypeOK
  <1>4. Loaded' = Loaded /\ ~settled'
    BY <1>2, <1>3 DEF Loaded
  <1>5. QED
    BY <1>1, <1>4 DEF AbstractPc, Abstract!PublishSave

\* A write of a save that has met another may go into the file in place;
\* any other is invisible.
LEMMA WriteIsClash ==
  ASSUME IInv, NEW w \in Writers, Write(w) \/ WriteFails(w)
  PROVE  Abstract!Clash \/ UNCHANGED Abstract!saveVars
  <1> USE DEF IInv
  <1>1. /\ AbstractPc' = AbstractPc /\ AbstractPc[w] = "snapped"
        /\ UNCHANGED <<copy, target, alone, settled>> /\ pc[w] = "opened"
    BY DEF TypeOK, Write, WriteFails, AbstractPc
  <1>2. PICK text \in [text : Lists, len : Nat, parses : BOOLEAN] :
          /\ text.parses => text.text = copy[w]
          /\ target # NoInode =>
               content'[target] = IF target = fd[w] THEN text ELSE content[target]
    BY WriteOutcome
  <1>3. CASE target = NoInode \/ fd[w] # target
    <2>1. Loaded' = Loaded
      BY <1>1, <1>2, <1>3 DEF Loaded
    <2>2. QED
      BY <1>1, <2>1 DEF AbstractPc, Abstract!saveVars
  <1>4. CASE target # NoInode /\ fd[w] = target
    <2>1. w \in Abstract!InFlight \ alone
      BY <1>1, <1>4 DEF LoneKnows, PathsDiffer, Abstract!InFlight, AbstractPc
    <2>2. Loaded' \in {<<>>} \cup {copy[u] : u \in Snapped}
      BY <1>1, <1>2, <1>4 DEF Loaded, Snapped
    <2>3. Loaded' \in {<<>>} \cup Abstract!Copies
      BY <2>2, AbstractSets
    <2>4. QED
      BY <1>1, <2>1, <2>3 DEF AbstractPc, Abstract!Clash
  <1>5. QED
    BY <1>3, <1>4

\* The open and the ways to fail before the file is touched are invisible:
\* the target is never the file that is truncated.
LEMMA OpenIsInvisible ==
  ASSUME IInv, NEW w \in Writers, Open(w) \/ OpenFails(w) \/ ReplaceFails(w)
  PROVE  UNCHANGED Abstract!saveVars
  <1> USE DEF IInv
  <1>1. AbstractPc' = AbstractPc /\ UNCHANGED <<copy, target, alone, settled>>
    BY DEF TypeOK, Open, OpenFails, ReplaceFails, AbstractPc
  <1>2. Loaded' = Loaded
    BY DEF Open, OpenFails, ReplaceFails, Loaded, PathsDiffer, InUse, TypeOK
  <1>3. QED
    BY <1>1, <1>2 DEF AbstractPc, Abstract!saveVars

LEMMA RestartIsEndSaves ==
  ASSUME IInv, Restart
  PROVE  Abstract!EndSaves
  <1> USE DEF IInv, Restart
  <1>1. target' = target /\ target \in InUse'
    BY DEF InUse
  <1>2. Loaded' = Loaded
    BY <1>1, KeptIsTyped DEF Loaded, TypeOK
  <1>3. Abstract!InFlight = Active
    BY AbstractSets
  <1>4. QED
    BY <1>2, <1>3 DEF TypeOK, Abstract!EndSaves

\* The protocol does what module SaveFile promises DownloadQueue: a save that
\* runs alone replaces the file by its copy or leaves it as it was, and only
\* saves that have met spoil it - for any number of saves and crashes.
THEOREM RefinesSaveFile == Spec => ImplementsSaveFile
  <1>1. Init => Abstract!SaveInit(Writers)
    BY DEF Init, Loaded, Abstract!SaveInit
  <1>2. IInv /\ [Next]_vars =>
          [Abstract!SaveNext(Writers, live)]_(Abstract!saveVars)
    <2> SUFFICES ASSUME IInv, [Next]_vars
                 PROVE  Abstract!SaveNext(Writers, live) \/ UNCHANGED Abstract!saveVars
      OBVIOUS
    <2>1. ASSUME NEW w \in Writers, Save(w)
          PROVE  Abstract!SaveNext(Writers, live)
      BY <2>1, SaveIsBeginSave DEF Abstract!SaveNext, AbstractPc
    <2>2. ASSUME NEW w \in Writers, Copy(w)
          PROVE  Abstract!SaveNext(Writers, live)
      BY <2>2, CopyIsCopyList DEF Abstract!SaveNext
    <2>3. ASSUME NEW w \in Writers, Write(w) \/ WriteFails(w)
          PROVE  Abstract!SaveNext(Writers, live) \/ UNCHANGED Abstract!saveVars
      BY <2>3, WriteIsClash DEF Abstract!SaveNext
    <2>4. ASSUME NEW w \in Writers, Replace(w) \/ Discard(w)
          PROVE  Abstract!SaveNext(Writers, live)
      BY <2>4, ReplaceIsPublish, DiscardIsPublish DEF Abstract!SaveNext
    <2>5. ASSUME NEW w \in Writers, Open(w) \/ OpenFails(w) \/ ReplaceFails(w)
          PROVE  UNCHANGED Abstract!saveVars
      BY <2>5, OpenIsInvisible
    <2>6. CASE Restart
      BY <2>6, RestartIsEndSaves DEF Abstract!SaveNext
    <2>7. CASE UNCHANGED vars
      BY <2>7 DEF vars, Abstract!saveVars, Loaded
    <2>8. QED
      BY <2>1, <2>2, <2>3, <2>4, <2>5, <2>6, <2>7 DEF Next
  <1>3. QED
    BY <1>1, <1>2, InvHolds, PTL DEF Spec, ImplementsSaveFile
=============================================================================
