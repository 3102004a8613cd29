-------------------------- MODULE ShortcutsProofs --------------------------
(***************************************************************************)
(* Theorems about module Shortcuts, for every value of its constants.      *)
(*                                                                         *)
(* None of the properties is inductive: what a file will hold is in the    *)
(* text of the task that writes it, and a task is alone with the files     *)
(* only as long as no other has begun to write.  IInv says what the task   *)
(* that is alone has in hand, and what is known of a game that nobody has  *)
(* been told wrong about - one without a shortcut included.  A process     *)
(* that has not loaded the files yet is held to what the one before it     *)
(* held: what a load brings back otherwise is lost, or missed.             *)
(***************************************************************************)
EXTENDS Shortcuts, TLAPS

Changes == GameOps \cup Reconciles

\* The user never changes: who has loaded the shortcuts finds them loaded.
OneUser ==
  \A t \in Tasks :
    /\ task[t].user = path
    /\ task[t].op = Icons => task[t].pc = "write"
    /\ task[t].pc \in {"load", "install", "loadMap", "installMap"} => task[t].op \in Changes
    /\ task[t].pc \in {"loadMap", "installMap"} => loaded

\* The task in solo is the only one that writes, and what it has read of the
\* file is all of the others' shortcuts in it, but those added since.
SoloHasForeign ==
  \A t \in solo :
    /\ Writing = {t}
    /\ task[t].pc \in {"merge", "write"} =>
         file[path].foreign \subseteq task[t].text.foreign \cup task[t].late

\* The memory will be written by the task in solo: it holds the tags in its
\* text, and then in the file.
PendingIsInHand ==
  saved = "pending" =>
    \E t \in solo : /\ task[t].op # Icons
                    /\ task[t].pc = "write" => task[t].text.tag = mem.tag
                    /\ task[t].pc = "map" => file[path].tag = mem.tag

\* Once the memory is written, only the icons' task still writes, and it
\* writes the same tags.
WrittenStays ==
  saved = "written" =>
    \A t \in Writing : t \in solo /\ task[t].op = Icons /\ task[t].text.tag = mem.tag

\* Everything said of a game was right: it has a shortcut when it is on disk,
\* and then a row.
GamesKnown ==
  \A g \in Games \ missed :
    \/ mem.tag[g] = "none" /\ g \notin onDisk
    \/ mem.tag[g] = "in" /\ g \in rows /\ g \in onDisk
    \/ mem.tag[g] = "out" /\ g \notin rows /\ g \notin onDisk

-----------------------------------------------------------------------------
(* Types.                                                                  *)

Ops == GameOps \cup Reconciles \cup Saving \cup {Icons, NoOp}
Tags == {"none", "out", "in"}
Pcs == {"idle", "load", "install", "loadMap", "installMap", "read", "merge", "write", "map"}
TaskRec == [op : Ops, pc : Pcs, user : Users, text : Vdf, row : SUBSET Games,
            reg : SUBSET Games, late : SUBSET Foreign]

\* What TypeOK says of one task.
TaskOK(r) ==
  /\ r \in TaskRec
  /\ r.pc = "idle" <=> r.op = NoOp
  /\ r.reg # {} => r.op.kind = "reconcile"

\* TypeOK, the variables one by one.
TypeInv ==
  /\ onDisk \subseteq Games /\ file \in [Users -> Vdf]
  /\ mapFile \subseteq Games /\ registry \subseteq Games
  /\ rows \subseteq Games /\ missed \subseteq Games
  /\ path \in Users /\ mem \in Vdf /\ loaded \in BOOLEAN /\ mapLoaded \in BOOLEAN
  /\ task \in [Tasks -> TaskRec] /\ \A t \in Tasks : TaskOK(task[t])
  /\ lib \in Libraries \cup {NoLib} /\ calls \in Nat /\ others \in Nat
  /\ solo \subseteq Tasks /\ saved \in {"written", "pending", "lost"}

IInv ==
  /\ TypeInv
  /\ OneUser
  /\ SoloHasForeign
  /\ PendingIsInHand
  /\ WrittenStays
  /\ SavedIsMemory
  /\ GamesKnown

LEMMA TypeInvImpliesTypeOK == TypeInv => TypeOK
<1> SUFFICES ASSUME TypeInv
             PROVE  TypeOK
  OBVIOUS
<1>1. {mapFile, registry, rows, missed} \subseteq SUBSET Games
  BY DEF TypeInv
<1>2. task \in [Tasks -> [op : GameOps \cup Reconciles \cup Saving \cup {Icons, NoOp},
                        pc : {"idle", "load", "install", "loadMap", "installMap",
                              "read", "merge", "write", "map"},
                        user : Users, text : Vdf, row : SUBSET Games, reg : SUBSET Games,
                        late : SUBSET Foreign]]
  BY DEF TypeInv, TaskRec, Ops, Pcs
<1>3. \A t \in Tasks : /\ Idle(t) <=> task[t].op = NoOp
                      /\ task[t].reg # {} => task[t].op.kind = "reconcile"
  BY DEF TypeInv, TaskOK, Idle
<1>4. {loaded, mapLoaded} \subseteq BOOLEAN /\ {calls, others} \subseteq Nat
  BY DEF TypeInv
<1> QED
  BY <1>1, <1>2, <1>3, <1>4 DEF TypeInv, TypeOK

\* A task changes, and keeps its form.
LEMMA TaskChanges ==
  ASSUME TypeInv, NEW t \in Tasks, NEW r, TaskOK(r), task' = [task EXCEPT ![t] = r]
  PROVE  /\ task' \in [Tasks -> TaskRec] /\ \A s \in Tasks : TaskOK(task'[s])
         /\ \A s \in Tasks : task'[s] = IF s = t THEN r ELSE task[s]
BY DEF TypeInv, TaskOK

LEMMA VdfFields ==
  /\ Empty \in Vdf
  /\ \A v \in Vdf : v.tag \in [Games -> Tags] /\ v.foreign \subseteq Foreign
  /\ \A tag \in [Games -> Tags], f \in SUBSET Foreign : [tag |-> tag, foreign |-> f] \in Vdf
BY DEF Vdf, Empty, Tags

\* Tasks that have just come, or gone.
LEMMA FreshTasks ==
  ASSUME TypeInv
  PROVE  /\ TaskOK(TaskOf(NoOp, "idle", Empty, {}))
         /\ \A op \in Ops \ {NoOp}, pc \in Pcs \ {"idle"}, reg \in SUBSET Games :
              (reg # {} => op.kind = "reconcile") => TaskOK(TaskOf(op, pc, Empty, reg))
         /\ \A text \in Vdf : TaskOK(TaskOf(Icons, "write", text, {}))
<1>1. NoOp # Icons /\ NoOp \in Ops /\ Icons \in Ops
  BY DEF NoOp, Icons, Ops
<1>2. path \in Users /\ Empty \in Vdf
  BY VdfFields DEF TypeInv
<1> QED
  BY <1>1, <1>2 DEF TaskOK, TaskOf, TaskRec, Pcs

\* Who writes after a task has changed.
LEMMA WritingAfter ==
  ASSUME TypeInv, NEW t \in Tasks, NEW r, TaskOK(r), task' = [task EXCEPT ![t] = r]
  PROVE  Writing' = IF r.pc \in {"read", "merge", "write", "map"} THEN Writing \cup {t}
                    ELSE Writing \ {t}
BY TaskChanges DEF Writing

-----------------------------------------------------------------------------
(* What an operation does to the memory.                                   *)

\* It keeps the types, whatever it begins with.
LEMMA EffectTyped ==
  ASSUME TypeInv, NEW op \in Changes, NEW m \in Vdf, NEW r \in SUBSET Games, Effect(op, m, r)
  PROVE  mem' \in Vdf /\ rows' \subseteq Games
<1>1. m.tag \in [Games -> Tags] /\ m.foreign \subseteq Foreign
      /\ m = [tag |-> m.tag, foreign |-> m.foreign]
  BY VdfFields DEF Vdf
<1>2. CASE op \in Reconciles
  <2>1. op.kind = "reconcile"
    BY <1>2 DEF Reconciles
  <2>2. Reconciled(op, m, r)
    BY <2>1 DEF Effect
  <2> DEFINE tag == [g \in Games |->
       CASE g \notin op.owned -> "none"
         [] g \in Rewritten(op, m) -> IF g \in op.inst THEN "in" ELSE "out"
         [] OTHER -> m.tag[g]]
  <2>3. mem' = [m EXCEPT !.tag = tag] /\ rows' = RowsOf(op, r)
    BY <2>2 DEF Reconciled
  <2>4. tag \in [Games -> Tags]
    BY <1>1 DEF Tags
  <2> HIDE DEF tag
  <2>5. mem' = [tag |-> tag, foreign |-> m.foreign]
    BY <1>1, <2>3
  <2>6. rows' \subseteq Games
    BY <1>2, <2>3 DEF RowsOf, Reconciles
  <2> QED
    BY <1>1, <2>4, <2>5, <2>6, VdfFields
<1>3. CASE op \in GameOps
  <2>1. op.game \in Games /\ op.kind \in {"installed", "uninstalled", "deleted"}
    BY <1>3 DEF GameOps
  <2>2. \/ mem' = m /\ rows' = r
        \/ /\ \E x \in Tags : mem' = [m EXCEPT !.tag[op.game] = x]
           /\ rows' = r \cup {op.game} \/ rows' = r \ {op.game}
    BY <2>1 DEF Effect, Flipped, Tags
  <2>3. ASSUME NEW x \in Tags, mem' = [m EXCEPT !.tag[op.game] = x]
        PROVE  mem' \in Vdf
    <3>1. mem' = [tag |-> [m.tag EXCEPT ![op.game] = x], foreign |-> m.foreign]
      BY <1>1, <2>3
    <3>2. [m.tag EXCEPT ![op.game] = x] \in [Games -> Tags]
      BY <1>1, <2>1
    <3> QED
      BY <1>1, <3>1, <3>2, VdfFields
  <2>4. rows' \subseteq Games
    BY <2>1, <2>2
  <2> QED
    BY <2>2, <2>3, <2>4
<1> QED
  BY <1>2, <1>3 DEF Changes

LEMMA BooksTyped ==
  ASSUME TypeInv, NEW op \in Changes, NEW m \in Vdf, NEW r \in SUBSET Games
  PROVE  /\ Registers(op, m) \subseteq Games
         /\ Registers(op, m) # {} => op.kind = "reconcile"
         /\ missed' = Misses(op, m, r) => missed' \subseteq Games
<1>1. Forgotten(m, r) \subseteq Games
  BY DEF Forgotten
<1>2. CASE op \in GameOps
  <2>1. op.game \in Games /\ op.kind \in {"installed", "uninstalled", "deleted"}
    BY <1>2 DEF GameOps
  <2> QED
    BY <1>1, <2>1 DEF TypeInv, Registers, Misses
<1>3. CASE op \in Reconciles
  <2>1. op.kind = "reconcile" /\ op.owned \subseteq Games
    BY <1>3 DEF Reconciles
  <2>2. Rewritten(op, m) \subseteq Games /\ Wrong(op) \subseteq Games
    BY <2>1 DEF TypeInv, Rewritten, Added, Reclaimed, Wrong
  <2>3. missed' = Misses(op, m, r) =>
          missed' = (missed \cup Forgotten(m, r) \cup Wrong(op)) \ PutRight(op, m, r)
    BY <2>1 DEF Misses
  <2> QED
    BY <1>1, <2>1, <2>2, <2>3 DEF TypeInv, Registers
<1> QED
  BY <1>2, <1>3 DEF Changes

-----------------------------------------------------------------------------
(* The files and the tasks that write them.                                *)

FilesInv == SoloHasForeign /\ PendingIsInHand /\ WrittenStays /\ SavedIsMemory

\* A task that does not write, and will not yet, changes; and the memory with
\* it, unless it is what is written or will be.
LEMMA StaysOut ==
  ASSUME FilesInv, TypeInv, NEW t \in Tasks, t \notin Writing,
         UNCHANGED <<fileVars, path>>, solo' = solo,
         \A s \in Tasks \ {t} : task'[s] = task[s],
         Writing' = Writing \ {t},
         saved' = "lost" \/ (saved' = saved /\ mem'.tag = mem.tag /\ rows' = rows)
  PROVE  FilesInv'
<1>1. Writing' = Writing /\ \A s \in solo : s # t /\ s \in Tasks /\ Writing = {s}
  BY DEF FilesInv, SoloHasForeign, TypeInv
<1>2. \A s \in Writing : s # t /\ s \in Tasks
  BY DEF Writing
<1>3. SoloHasForeign'
  BY <1>1 DEF FilesInv, SoloHasForeign, fileVars
<1>4. PendingIsInHand'
  BY <1>1 DEF FilesInv, PendingIsInHand, fileVars
<1>5. WrittenStays' /\ SavedIsMemory'
  BY <1>1, <1>2 DEF FilesInv, WrittenStays, SavedIsMemory, fileVars
<1> QED
  BY <1>3, <1>4, <1>5 DEF FilesInv

\* Files loaded, an operation goes through at once: its change of the memory begins a write, or
\* there is nothing to write.
LEMMA ApplyKeepsFiles ==
  ASSUME IInv, NEW t \in Tasks, t \notin Writing, NEW op \in Changes,
         NEW m \in Vdf, NEW r \in SUBSET Games, Apply(t, op, m, r),
         loaded', UNCHANGED <<fileVars, path>>
  PROVE  /\ mem' \in Vdf /\ rows' \subseteq Games /\ missed' \subseteq Games
         /\ task' \in [Tasks -> TaskRec] /\ \A s \in Tasks : TaskOK(task'[s])
         /\ solo' \subseteq Tasks /\ saved' \in {"written", "pending", "lost"}
         /\ OneUser' /\ FilesInv'
<1>1. /\ TypeInv /\ OneUser
      /\ solo \subseteq Tasks /\ saved \in {"written", "pending", "lost"}
  BY DEF IInv, TypeInv
<1>2. mem' \in Vdf /\ rows' \subseteq Games /\ missed' \subseteq Games
  BY <1>1, EffectTyped, BooksTyped DEF Apply
<1>3. CASE Saves(op, m, r)
  <2> DEFINE o == [kind |-> op.kind]
             x == TaskOf(o, "read", Empty, Registers(op, m))
  <2>1. /\ task' = [task EXCEPT ![t] = x]
        /\ solo' = IF Writing = {} THEN {t} ELSE {}
        /\ saved' = IF Writing = {} THEN "pending" ELSE "lost"
    BY <1>1, <1>3 DEF Apply, WriteBegins
  <2>2. o \in Ops \ {NoOp} /\ o # Icons /\ "read" \in Pcs \ {"idle"} /\ o.kind = op.kind
    <3>1. op.kind \in {"installed", "uninstalled", "deleted", "reconcile"}
      BY DEF Changes, GameOps, Reconciles
    <3>2. o \in Saving /\ o.kind = op.kind
      BY <3>1 DEF Saving
    <3> QED
      BY <3>1, <3>2 DEF Ops, NoOp, Icons, Pcs
  <2> HIDE DEF o
  <2>3. TaskOK(x)
    BY <1>1, <2>2, FreshTasks, BooksTyped
  <2>4. x.pc = "read" /\ x.op = o /\ x.user = path
    BY DEF TaskOf
  <2> HIDE DEF x
  <2>5. /\ task' \in [Tasks -> TaskRec] /\ \A s \in Tasks : TaskOK(task'[s])
        /\ \A s \in Tasks : task'[s] = IF s = t THEN x ELSE task[s]
        /\ Writing' = Writing \cup {t}
    BY <1>1, <2>1, <2>3, <2>4, TaskChanges, WritingAfter
  <2>6. OneUser'
    BY <1>1, <2>2, <2>4, <2>5 DEF OneUser
  <2>7. SoloHasForeign'
    BY <2>1, <2>4, <2>5 DEF SoloHasForeign
  <2>8. PendingIsInHand'
    BY <2>1, <2>2, <2>4, <2>5 DEF PendingIsInHand
  <2>9. WrittenStays' /\ SavedIsMemory'
    BY <2>1 DEF WrittenStays, SavedIsMemory
  <2> QED
    BY <1>2, <2>1, <2>5, <2>6, <2>7, <2>8, <2>9, <1>1 DEF FilesInv
<1>4. CASE ~Saves(op, m, r)
  <2>1. /\ Done(t) /\ solo' = solo
        /\ saved' = "lost" \/ (saved' = saved /\ mem'.tag = mem.tag /\ rows' = rows)
    BY <1>4 DEF Apply
  <2> DEFINE x == TaskOf(NoOp, "idle", Empty, {})
  <2>2. task' = [task EXCEPT ![t] = x]
    BY <2>1 DEF Done
  <2>3. TaskOK(x) /\ x.pc = "idle" /\ x.op = NoOp /\ x.user = path /\ NoOp # Icons
    BY <1>1, FreshTasks DEF TaskOf, NoOp, Icons
  <2> HIDE DEF x
  <2>4. /\ task' \in [Tasks -> TaskRec] /\ \A s \in Tasks : TaskOK(task'[s])
        /\ \A s \in Tasks : task'[s] = IF s = t THEN x ELSE task[s]
        /\ Writing' = Writing \ {t}
    BY <1>1, <2>2, <2>3, TaskChanges, WritingAfter
  <2>5. OneUser'
    BY <1>1, <2>3, <2>4 DEF OneUser
  <2>6. FilesInv
    BY DEF IInv, FilesInv
  <2>7. FilesInv'
    BY <1>1, <2>1, <2>4, <2>6, StaysOut
  <2> QED
    BY <1>1, <1>2, <2>1, <2>4, <2>5, <2>7
<1> QED
  BY <1>3, <1>4


\* A task that saves has read the file, or taken it for an empty one.
Reads(t, r) ==
  /\ task' = [task EXCEPT ![t] = r]
  /\ TaskOK(r) /\ t \in Writing /\ r.op # Icons /\ r.op # NoOp /\ r.user = path
  /\ r.op = task[t].op /\ r.pc = "merge"
  /\ file[path].foreign \subseteq r.text.foreign \cup r.late
  /\ UNCHANGED <<fileVars, memVars, envVars, solo, saved, missed>>

LEMMA ReadKeepsFiles ==
  ASSUME IInv, NEW t \in Tasks, NEW r, Reads(t, r)
  PROVE  TypeInv' /\ OneUser' /\ FilesInv'
<1>1. TypeInv /\ OneUser /\ path \in Users
  BY DEF IInv, TypeInv
<1>2. /\ TaskOK(r) /\ t \in Writing /\ r.op # Icons /\ r.user = path
      /\ r.op = task[t].op /\ r.pc = "merge"
      /\ file[path].foreign \subseteq r.text.foreign \cup r.late
      /\ UNCHANGED <<fileVars, memVars, envVars, solo, saved, missed>>
  BY DEF Reads
<1>3. /\ task' \in [Tasks -> TaskRec] /\ \A s \in Tasks : TaskOK(task'[s])
      /\ \A s \in Tasks : task'[s] = IF s = t THEN r ELSE task[s]
  BY <1>1, <1>2, TaskChanges DEF Reads
<1>4. Writing' = Writing
  <2>1. Writing' = Writing \cup {t}
    BY <1>1, <1>2, WritingAfter DEF Reads
  <2> QED
    BY <1>2, <2>1
<1>5. TypeInv'
  BY <1>1, <1>2, <1>3 DEF TypeInv, fileVars, memVars, envVars
<1>6. OneUser'
  BY <1>1, <1>2, <1>3 DEF OneUser, memVars
<1>7. SoloHasForeign'
  BY <1>1, <1>2, <1>3, <1>4 DEF IInv, SoloHasForeign, fileVars, memVars
<1>8. PendingIsInHand' /\ SavedIsMemory'
  <2>1. PendingIsInHand /\ SavedIsMemory /\ solo \subseteq Tasks
    BY DEF IInv, TypeInv
  <2>2. mem' = mem /\ file' = file /\ mapFile' = mapFile /\ rows' = rows /\ path' = path
    BY <1>2 DEF fileVars, memVars
  <2>3. SavedIsMemory'
    BY <1>2, <2>1, <2>2 DEF SavedIsMemory
  <2>4. PendingIsInHand'
    BY <1>2, <1>3, <2>1, <2>2 DEF PendingIsInHand
  <2> QED
    BY <2>3, <2>4
<1>9. WrittenStays'
  BY <1>2, <1>3, <1>4 DEF IInv, WrittenStays
<1> QED
  BY <1>5, <1>6, <1>7, <1>8, <1>9 DEF FilesInv

\* A step of a write, by itself or while others write.
LEMMA SaveStepKeepsFiles ==
  ASSUME IInv, NEW t \in Tasks, SaveStep(t)
  PROVE  /\ TypeInv' /\ OneUser' /\ FilesInv'
         /\ mem'.tag = mem.tag /\ UNCHANGED <<onDisk, rows, missed>>
<1>1. /\ TypeInv /\ OneUser /\ task[t].user = path /\ path \in Users
      /\ task[t] \in TaskRec /\ TaskOK(task[t]) /\ solo \subseteq Tasks
      /\ mem \in Vdf /\ file \in [Users -> Vdf] /\ file[path] \in Vdf
  BY DEF IInv, OneUser, TypeInv
<1>2. \A s \in solo : Writing = {s}
  BY DEF IInv, SoloHasForeign
<1>3. CASE SaveReads(t)
  <2> DEFINE r == [task[t] EXCEPT !.pc = "merge", !.text.foreign = file[path].foreign]
  <2>1. /\ task' = [task EXCEPT ![t] = r] /\ task[t].pc = "read"
        /\ UNCHANGED <<fileVars, memVars, envVars, solo, saved, missed>>
    BY <1>1, <1>3 DEF SaveReads
  <2>2. /\ r.pc = "merge" /\ r.op = task[t].op /\ r.user = path /\ r.reg = task[t].reg
        /\ file[path].foreign \subseteq r.text.foreign \cup r.late /\ r \in TaskRec
    BY <1>1 DEF TaskRec, Pcs, Vdf
  <2> HIDE DEF r
  <2>3. TaskOK(r) /\ t \in Writing /\ r.op # Icons /\ r.op # NoOp
    BY <1>1, <2>1, <2>2 DEF TaskOK, Writing, OneUser
  <2>4. Reads(t, r)
    BY <2>1, <2>2, <2>3 DEF Reads
  <2> QED
    BY <2>1, <2>4, ReadKeepsFiles DEF memVars, envVars
<1>4. CASE SaveReadFails(t)
  <2> DEFINE r == [task[t] EXCEPT !.pc = "merge", !.late = file[path].foreign]
  <2>1. /\ task' = [task EXCEPT ![t] = r] /\ task[t].pc = "read"
        /\ UNCHANGED <<fileVars, memVars, envVars, solo, saved, missed>>
    BY <1>1, <1>4 DEF SaveReadFails
  <2>2. /\ r.pc = "merge" /\ r.op = task[t].op /\ r.user = path /\ r.reg = task[t].reg
        /\ file[path].foreign \subseteq r.text.foreign \cup r.late /\ r \in TaskRec
    BY <1>1 DEF TaskRec, Pcs, Vdf
  <2> HIDE DEF r
  <2>3. TaskOK(r) /\ t \in Writing /\ r.op # Icons /\ r.op # NoOp
    BY <1>1, <2>1, <2>2 DEF TaskOK, Writing, OneUser
  <2>4. Reads(t, r)
    BY <2>1, <2>2, <2>3 DEF Reads
  <2> QED
    BY <2>1, <2>4, ReadKeepsFiles DEF memVars, envVars
<1>9. CASE SaveMerges(t)
  <2> DEFINE r == [task[t] EXCEPT !.pc = "write", !.user = path, !.text = mem',
                          !.late = @ \ mem'.foreign]
  <2>1. /\ task' = [task EXCEPT ![t] = r] /\ task[t].pc = "merge"
        /\ mem' = [mem EXCEPT !.foreign = @ \cup task[t].text.foreign]
        /\ UNCHANGED <<fileVars, path, loaded, rows, mapLoaded, envVars, solo, saved, missed>>
    BY <1>9 DEF SaveMerges
  <2>2. mem' \in Vdf /\ mem'.tag = mem.tag /\ task[t].text.foreign \subseteq mem'.foreign
    BY <1>1, <2>1 DEF TaskRec, Vdf
  <2>3. /\ r.pc = "write" /\ r.op = task[t].op /\ r.user = path /\ r.text = mem'
        /\ r.late = task[t].late \ mem'.foreign /\ r.reg = task[t].reg /\ r \in TaskRec
    BY <1>1, <2>2 DEF TaskRec, Pcs
  <2>4. TaskOK(r) /\ t \in Writing /\ r.op # Icons
    BY <1>1, <2>1, <2>3 DEF TaskOK, Writing, OneUser
  <2> HIDE DEF r
  <2>5. /\ task' \in [Tasks -> TaskRec] /\ \A s \in Tasks : TaskOK(task'[s])
        /\ \A s \in Tasks : task'[s] = IF s = t THEN r ELSE task[s]
        /\ Writing' = Writing
    <3>1. /\ task' \in [Tasks -> TaskRec] /\ \A s \in Tasks : TaskOK(task'[s])
          /\ \A s \in Tasks : task'[s] = IF s = t THEN r ELSE task[s]
      BY <1>1, <2>1, <2>4, TaskChanges
    <3>2. Writing' = Writing \cup {t}
      BY <1>1, <2>1, <2>3, <2>4, WritingAfter
    <3> QED
      BY <2>4, <3>1, <3>2
  <2>6. TypeInv'
    BY <1>1, <2>1, <2>2, <2>5 DEF TypeInv, fileVars, envVars
  <2>7. OneUser'
    BY <1>1, <2>1, <2>3, <2>4, <2>5 DEF OneUser
  <2>8. SoloHasForeign'
    BY <1>1, <2>1, <2>2, <2>3, <2>5 DEF IInv, SoloHasForeign, fileVars
  <2>9. PendingIsInHand' /\ SavedIsMemory'
    BY <1>1, <2>1, <2>2, <2>3, <2>4, <2>5 DEF IInv, PendingIsInHand, SavedIsMemory, fileVars
  <2>10. WrittenStays'
    BY <2>1, <2>3, <2>4, <2>5 DEF IInv, WrittenStays
  <2> QED
    BY <2>1, <2>2, <2>6, <2>7, <2>8, <2>9, <2>10 DEF FilesInv, envVars
<1>5. \A s \in solo : t \in Writing => s = t
  BY <1>2
<1>6. ASSUME task[t].pc = "write", Wrote(t) \/ Done(t)
      PROVE  /\ task' \in [Tasks -> TaskRec] /\ \A s \in Tasks : TaskOK(task'[s])
             /\ \A s \in Tasks \ {t} : task'[s] = task[s]
             /\ task'[t].user = path
             /\ \/ task'[t].op = NoOp /\ task'[t].pc = "idle" /\ Writing' = Writing \ {t}
                \/ /\ task[t].op # Icons /\ task'[t].op = task[t].op /\ task'[t].pc = "map"
                   /\ Writing' = Writing
             /\ task[t].op # Icons /\ Wrote(t) => task'[t].pc = "map"
             /\ t \in Writing /\ NoOp # Icons
  <2>1. t \in Writing /\ NoOp # Icons
    BY <1>6 DEF Writing, NoOp, Icons
  <2>2. CASE Done(t)
    <3> DEFINE r == TaskOf(NoOp, "idle", Empty, {})
    <3>1. task' = [task EXCEPT ![t] = r]
      BY <2>2 DEF Done
    <3>2. TaskOK(r) /\ r.op = NoOp /\ r.pc = "idle" /\ r.user = path
      BY <1>1, FreshTasks DEF TaskOf
    <3> HIDE DEF r
    <3>3. /\ task' \in [Tasks -> TaskRec] /\ \A s \in Tasks : TaskOK(task'[s])
          /\ \A s \in Tasks : task'[s] = IF s = t THEN r ELSE task[s]
          /\ Writing' = Writing \ {t}
      BY <1>1, <3>1, <3>2, TaskChanges, WritingAfter
    <3>4. ASSUME task[t].op # Icons, Wrote(t)
          PROVE  task'[t].pc = "map"
      BY <1>1, <3>4 DEF Wrote, TaskRec, TypeInv
    <3> QED
      BY <2>1, <3>2, <3>3, <3>4
  <2>3. CASE Wrote(t) /\ task[t].op # Icons
    <3> DEFINE r == [task[t] EXCEPT !.pc = "map", !.text = Empty, !.late = {}]
    <3>1. /\ r \in TaskRec /\ r.op = task[t].op /\ r.pc = "map" /\ r.user = path
          /\ r.reg = task[t].reg /\ task' = [task EXCEPT ![t] = r]
      BY <1>1, <2>3, VdfFields DEF TaskRec, Pcs, Wrote
    <3> HIDE DEF r
    <3>2. TaskOK(r)
      BY <1>1, <1>6, <3>1 DEF TaskOK
    <3>3. /\ task' \in [Tasks -> TaskRec] /\ \A s \in Tasks : TaskOK(task'[s])
          /\ \A s \in Tasks : task'[s] = IF s = t THEN r ELSE task[s]
      BY <1>1, <3>1, <3>2, TaskChanges
    <3>4. Writing' = Writing \cup {t}
      BY <1>1, <3>1, <3>2, WritingAfter
    <3> QED
      BY <2>1, <2>3, <3>1, <3>3, <3>4
  <2> QED
    BY <1>6, <2>2, <2>3 DEF Wrote
<1>7. CASE SaveReplaces(t)
  <2>1. PICK text \in Texts(t) : file' = [file EXCEPT ![path] = text]
    BY <1>1, <1>7 DEF SaveReplaces
  <2>2. /\ task[t].pc = "write" /\ Wrote(t)
        /\ solo' = IF task[t].op = Icons THEN solo \ {t} ELSE solo
        /\ UNCHANGED <<mapFile, registry, memVars, envVars, saved, missed>>
    BY <1>7 DEF SaveReplaces
  <2>3. text \in Vdf
    <3>1. \A s \in Tasks : task[s].text \in Vdf
      BY <1>1 DEF TypeInv, TaskRec
    <3> QED
      BY <3>1, VdfFields DEF Texts
  <2>4. file' \in [Users -> Vdf] /\ file'[path] = text /\ (t \in solo => text = task[t].text)
    BY <1>1, <2>1, <2>3 DEF Texts
  <2>5. TypeInv'
    BY <1>1, <1>6, <2>2, <2>4 DEF TypeInv, memVars, envVars
  <2>6. OneUser'
    BY <1>1, <1>6, <2>2 DEF OneUser, memVars
  <2>7. SoloHasForeign'
    BY <1>2, <1>5, <1>6, <2>2 DEF SoloHasForeign
  <2>8. PendingIsInHand'
    BY <1>1, <1>5, <1>6, <2>2, <2>4 DEF IInv, PendingIsInHand, memVars
  <2>9. WrittenStays' /\ SavedIsMemory'
    BY <1>1, <1>2, <1>6, <2>2, <2>4 DEF IInv, WrittenStays, SavedIsMemory, memVars
  <2> QED
    BY <2>2, <2>5, <2>6, <2>7, <2>8, <2>9 DEF FilesInv, memVars, envVars
<1>8. CASE SaveFails(t)
  <2>1. /\ task[t].pc = "write" /\ (Wrote(t) \/ Done(t)) /\ solo' = solo \ {t} /\ saved' = "lost"
        /\ UNCHANGED <<fileVars, memVars, envVars, missed>>
    BY <1>8 DEF SaveFails
  <2>2. TypeInv'
    BY <1>1, <1>6, <2>1 DEF TypeInv, fileVars, memVars, envVars
  <2>3. OneUser'
    BY <1>1, <1>6, <2>1 DEF OneUser, memVars
  <2>4. SoloHasForeign'
    BY <1>5, <1>6, <2>1 DEF SoloHasForeign
  <2>5. PendingIsInHand' /\ WrittenStays' /\ SavedIsMemory'
    BY <2>1 DEF PendingIsInHand, WrittenStays, SavedIsMemory
  <2> QED
    BY <2>1, <2>2, <2>3, <2>4, <2>5 DEF FilesInv, memVars, envVars
<1>10. ASSUME task[t].pc = "map", Done(t)
       PROVE  /\ task' \in [Tasks -> TaskRec] /\ \A s \in Tasks : TaskOK(task'[s])
              /\ \A s \in Tasks \ {t} : task'[s] = task[s]
              /\ Writing' = Writing \ {t} /\ t \in Writing
              /\ task'[t].user = path /\ task'[t].pc = "idle" /\ task'[t].op # Icons
  <2> DEFINE r == TaskOf(NoOp, "idle", Empty, {})
  <2>1. TaskOK(r) /\ r.pc = "idle" /\ r.op = NoOp /\ r.user = path /\ NoOp # Icons
    BY <1>1, FreshTasks DEF TaskOf, NoOp, Icons
  <2>2. task' = [task EXCEPT ![t] = r]
    BY <1>10 DEF Done
  <2> HIDE DEF r
  <2> QED
    BY <1>1, <1>10, <2>1, <2>2, TaskChanges, WritingAfter DEF Writing
<1>11. SavesRegistry(t) => registry' \subseteq Games
  BY <1>1 DEF SavesRegistry, TypeInv, TaskRec
<1>12. CASE MapWritten(t)
  <2>1. /\ task[t].pc = "map" /\ Done(t) /\ mapFile' = rows /\ SavesRegistry(t)
        /\ solo' = solo \ {t} /\ saved' = IF saved = "pending" THEN "written" ELSE saved
        /\ UNCHANGED <<file, memVars, envVars, missed>>
    BY <1>12 DEF MapWritten
  <2>2. TypeInv'
    BY <1>1, <1>10, <1>11, <2>1 DEF TypeInv, memVars, envVars
  <2>3. OneUser'
    BY <1>1, <1>10, <2>1 DEF OneUser, memVars
  <2>4. SoloHasForeign'
    BY <1>5, <1>10, <2>1 DEF SoloHasForeign
  <2>5. saved # "written" /\ saved' # "pending"
    BY <1>1, <1>10, <2>1 DEF IInv, WrittenStays, OneUser
  <2>6. saved = "pending" => Writing = {t} /\ file[path].tag = mem.tag
    BY <1>2, <1>5, <1>10, <2>1 DEF IInv, PendingIsInHand
  <2>7. PendingIsInHand' /\ WrittenStays' /\ SavedIsMemory'
    BY <1>10, <2>1, <2>5, <2>6 DEF PendingIsInHand, WrittenStays, SavedIsMemory, memVars
  <2> QED
    BY <2>1, <2>2, <2>3, <2>4, <2>7 DEF FilesInv, memVars, envVars
<1>13. CASE MapFails(t)
  <2>1. /\ task[t].pc = "map" /\ Done(t) /\ SavesRegistry(t)
        /\ solo' = solo \ {t} /\ saved' = "lost"
        /\ UNCHANGED <<file, mapFile, memVars, envVars, missed>>
    BY <1>13 DEF MapFails
  <2>2. TypeInv'
    BY <1>1, <1>10, <1>11, <2>1 DEF TypeInv, memVars, envVars
  <2>3. OneUser'
    BY <1>1, <1>10, <2>1 DEF OneUser, memVars
  <2>4. SoloHasForeign'
    BY <1>5, <1>10, <2>1 DEF SoloHasForeign
  <2>5. PendingIsInHand' /\ WrittenStays' /\ SavedIsMemory'
    BY <2>1 DEF PendingIsInHand, WrittenStays, SavedIsMemory
  <2> QED
    BY <2>1, <2>2, <2>3, <2>4, <2>5 DEF FilesInv, memVars, envVars
<1> QED
  BY <1>3, <1>4, <1>7, <1>8, <1>9, <1>12, <1>13 DEF SaveStep


\* The icons are written over the file that was read, by a task that may be
\* alone with it.
LEMMA IconsKeepFiles ==
  ASSUME IInv, NEW t \in Tasks, IconsRead(t)
  PROVE  TypeInv' /\ OneUser' /\ FilesInv'
<1> DEFINE r == TaskOf(Icons, "write", file[path], {})
<1>1. /\ TypeInv /\ OneUser /\ task[t].pc = "idle" /\ t \notin Writing
      /\ file[path] \in Vdf /\ solo \subseteq Tasks /\ calls \in Nat
  BY DEF IconsRead, IInv, OneUser, TypeInv, Writing, Idle
<1>2. /\ task' = [task EXCEPT ![t] = r] /\ calls' = calls + 1
      /\ solo' = IF Writing = {} THEN {t} ELSE {}
      /\ saved' = IF Writing = {} THEN saved ELSE "lost"
      /\ UNCHANGED <<fileVars, memVars, onDisk, lib, others, missed>>
  BY DEF IconsRead, WriteBegins
<1>3. /\ TaskOK(r) /\ r.pc = "write" /\ r.op = Icons /\ r.user = path /\ r.text = file[path]
  BY <1>1, FreshTasks DEF TaskOf
<1> HIDE DEF r
<1>4. /\ task' \in [Tasks -> TaskRec] /\ \A s \in Tasks : TaskOK(task'[s])
      /\ \A s \in Tasks : task'[s] = IF s = t THEN r ELSE task[s]
      /\ Writing' = Writing \cup {t}
  BY <1>1, <1>2, <1>3, TaskChanges, WritingAfter
<1>5. TypeInv'
  <2>1. calls' \in Nat
    BY <1>1, <1>2
  <2> QED
    BY <1>1, <1>2, <1>4, <2>1 DEF TypeInv, fileVars, memVars
<1>6. OneUser'
  BY <1>1, <1>2, <1>3, <1>4 DEF OneUser, memVars
<1>7. SoloHasForeign'
  BY <1>1, <1>2, <1>3, <1>4 DEF SoloHasForeign, fileVars, memVars
<1>8. saved' # "pending"
  BY <1>2 DEF IInv, SoloHasForeign, PendingIsInHand
<1>9. PendingIsInHand' /\ WrittenStays' /\ SavedIsMemory'
  BY <1>1, <1>2, <1>3, <1>4, <1>8
     DEF IInv, PendingIsInHand, WrittenStays, SavedIsMemory, fileVars, memVars
<1> QED
  BY <1>5, <1>6, <1>7, <1>9 DEF FilesInv

\* What others change in the file is not ours; what they add to it, the tasks
\* that have read it are not held to.
LEMMA OthersKeepFiles ==
  ASSUME IInv, NEW f \in Foreign, OthersAdd(f) \/ OthersRemove(f)
  PROVE  TypeInv' /\ OneUser' /\ FilesInv' /\ UNCHANGED <<memVars, onDisk, missed>>
<1>1. /\ TypeInv /\ OneUser /\ file \in [Users -> Vdf] /\ HomeOf[f] \in Users /\ others \in Nat
      /\ \A t \in Tasks : task[t] \in TaskRec /\ TaskOK(task[t])
  BY ShortcutsAssumption DEF IInv, TypeInv
<1>2. /\ UNCHANGED <<mapFile, registry, memVars, onDisk, lib, calls, solo, saved, missed>>
      /\ others' = others + 1 /\ others' \in Nat
  BY <1>1 DEF OthersAdd, OthersRemove
<1>3. /\ file' \in [Users -> Vdf]
      /\ \A u \in Users : file'[u].tag = file[u].tag
      /\ \A u \in Users : file'[u].foreign \subseteq
           IF OthersAdd(f) THEN file[u].foreign \cup {f} ELSE file[u].foreign
  <2>1. PICK x \in SUBSET Foreign :
          /\ file' = [file EXCEPT ![HomeOf[f]].foreign = x]
          /\ x \subseteq IF OthersAdd(f) THEN file[HomeOf[f]].foreign \cup {f}
                         ELSE file[HomeOf[f]].foreign
    <3>1. file[HomeOf[f]].foreign \subseteq Foreign
      BY <1>1, VdfFields
    <3>2. CASE OthersAdd(f)
      BY <3>1, <3>2 DEF OthersAdd
    <3>3. CASE ~OthersAdd(f)
      BY <3>1, <3>3 DEF OthersRemove
    <3> QED
      BY <3>2, <3>3
  <2>2. [file[HomeOf[f]] EXCEPT !.foreign = x] = [tag |-> file[HomeOf[f]].tag, foreign |-> x]
    BY <1>1 DEF Vdf
  <2>3. [tag |-> file[HomeOf[f]].tag, foreign |-> x] \in Vdf
    BY <1>1, VdfFields
  <2> QED
    BY <1>1, <2>1, <2>2, <2>3
<1>4. /\ task' \in [Tasks -> TaskRec] /\ \A t \in Tasks : TaskOK(task'[t])
      /\ \A t \in Tasks :
           /\ task'[t].op = task[t].op /\ task'[t].pc = task[t].pc
           /\ task'[t].user = task[t].user /\ task'[t].text = task[t].text
           /\ task'[t].late =
                IF OthersAdd(f) /\ task[t].pc \in {"merge", "write"} THEN task[t].late \cup {f}
                ELSE task[t].late
  <2>1. CASE OthersAdd(f)
    <3>1. task' = [t \in Tasks |-> IF task[t].pc \in {"merge", "write"}
                                   THEN [task[t] EXCEPT !.late = @ \cup {f}] ELSE task[t]]
      BY <2>1 DEF OthersAdd
    <3>2. ASSUME NEW t \in Tasks
          PROVE  LET r == [task[t] EXCEPT !.late = @ \cup {f}] IN
                 /\ r \in TaskRec /\ TaskOK(r) /\ r.op = task[t].op /\ r.pc = task[t].pc
                 /\ r.user = task[t].user /\ r.text = task[t].text /\ r.late = task[t].late \cup {f}
      BY <1>1 DEF TaskRec, TaskOK
    <3> QED
      BY <1>1, <2>1, <3>1, <3>2
  <2>2. CASE ~OthersAdd(f)
    BY <1>1, <2>2 DEF OthersRemove, IInv, TypeInv
  <2> QED
    BY <2>1, <2>2
<1>5. Writing' = Writing
  BY <1>4 DEF Writing
<1>6. TypeInv'
  BY <1>1, <1>2, <1>3, <1>4 DEF TypeInv, memVars
<1>7. OneUser'
  BY <1>1, <1>2, <1>4 DEF OneUser, memVars
<1>8. SoloHasForeign'
  <2>1. ASSUME NEW t \in solo
        PROVE  /\ Writing' = {t}
               /\ task'[t].pc \in {"merge", "write"} =>
                    file'[path].foreign \subseteq task'[t].text.foreign \cup task'[t].late
    <3>1. t \in Tasks /\ path \in Users /\ Writing = {t}
      BY DEF IInv, TypeInv, SoloHasForeign
    <3>2. task[t].pc \in {"merge", "write"} =>
            file[path].foreign \subseteq task[t].text.foreign \cup task[t].late
      BY DEF IInv, SoloHasForeign
    <3>3. file'[path].foreign \subseteq
            IF OthersAdd(f) THEN file[path].foreign \cup {f} ELSE file[path].foreign
      BY <1>3, <3>1
    <3> QED
      BY <1>4, <1>5, <3>1, <3>2, <3>3
  <2> QED
    BY <1>2, <2>1 DEF SoloHasForeign, memVars
<1>9. PendingIsInHand' /\ WrittenStays' /\ SavedIsMemory'
  BY <1>1, <1>2, <1>3, <1>4, <1>5
     DEF IInv, TypeInv, PendingIsInHand, WrittenStays, SavedIsMemory, memVars, Writing
<1> QED
  BY <1>2, <1>6, <1>7, <1>8, <1>9 DEF FilesInv

LEMMA RestartKeepsInv ==
  ASSUME IInv, Restart
  PROVE  IInv'
<1>1. TypeInv /\ path \in Users /\ file[path] \in Vdf /\ others \in Nat
  BY DEF IInv, TypeInv
<1>2. /\ solo' = {} /\ saved' = IF saved = "written" THEN saved ELSE "lost"
      /\ lib' = NoLib /\ others' = others + 1 /\ others' \in Nat
      /\ task' = [t \in Tasks |-> TaskOf(NoOp, "idle", Empty, {})]
      /\ UNCHANGED <<fileVars, path, mem, rows, onDisk, calls, missed>>
  BY <1>1 DEF Restart
<1>3. loaded' \in BOOLEAN /\ mapLoaded' \in BOOLEAN
  BY DEF Restart
<1>4. \A t \in Tasks : /\ task'[t].user = path /\ task'[t].pc = "idle" /\ task'[t].op # Icons
                       /\ TaskOK(task'[t]) /\ task'[t] \in TaskRec
  BY <1>1, <1>2, FreshTasks DEF TaskOf, NoOp, Icons, TaskOK
<1>5. Writing' = {}
  BY <1>4 DEF Writing
<1>6. TypeInv'
  <2>1. task' \in [Tasks -> TaskRec]
    BY <1>2, <1>4
  <2> QED
    BY <1>1, <1>2, <1>3, <1>4, <2>1 DEF TypeInv, fileVars
<1>7. OneUser'
  BY <1>2, <1>4 DEF OneUser
<1>8. SoloHasForeign' /\ PendingIsInHand' /\ WrittenStays' /\ SavedIsMemory'
  BY <1>2, <1>5
     DEF IInv, SoloHasForeign, PendingIsInHand, WrittenStays, SavedIsMemory, fileVars
<1>9. GamesKnown'
  BY <1>2 DEF IInv, GamesKnown
<1> QED
  BY <1>6, <1>7, <1>8, <1>9 DEF IInv

-----------------------------------------------------------------------------
(* The games.                                                              *)

\* One game as GamesKnown has it.
Known(tag, row, inst) ==
  \/ tag = "none" /\ ~inst
  \/ tag = "in" /\ row /\ inst
  \/ tag = "out" /\ ~row /\ ~inst

KnownOf(g, m, r) == Known(m.tag[g], g \in r, g \in onDisk)

LEMMA KnownIsGamesKnown == GamesKnown <=> \A g \in Games \ missed : KnownOf(g, mem, rows)
BY DEF GamesKnown, KnownOf, Known

\* Only the game of an install or removal changes on disk.
OneChanges(op) ==
  \A h \in Games : \/ op \in GameOps /\ h = op.game
                   \/ h \in onDisk' <=> h \in onDisk

\* What a load brings back as it was is known as before.
LEMMA NotForgotten ==
  ASSUME GamesKnown, NEW m, NEW r, NEW g \in Games \ (missed \cup Forgotten(m, r))
  PROVE  KnownOf(g, m, r)
BY KnownIsGamesKnown DEF Forgotten, KnownOf

\* An install or a removal sets tag and row right, or finds no shortcut.
LEMMA GameOpKeepsGames ==
  ASSUME GamesKnown, NEW op \in GameOps, NEW m \in Vdf, NEW r \in SUBSET Games,
         Effect(op, m, r), missed' = Misses(op, m, r), OneChanges(op)
  PROVE  GamesKnown'
<1>1. /\ op.game \in Games /\ op.kind \in {"installed", "uninstalled", "deleted"}
      /\ m.tag \in [Games -> Tags]
  BY VdfFields DEF GameOps
<1> DEFINE before == missed \cup Forgotten(m, r)
           right == /\ op.kind # "deleted" /\ m.tag[op.game] # "none"
                    /\ (op.kind = "installed") = (op.game \in onDisk')
<1>2. missed' = IF right THEN before \ {op.game} ELSE before \cup {op.game}
  BY <1>1 DEF Misses
<1>3. \A h \in Games \ {op.game} : mem'.tag[h] = m.tag[h] /\ (h \in rows' <=> h \in r)
  <2>1. \/ mem' = m /\ rows' = r
        \/ /\ \E x \in Tags : mem' = [m EXCEPT !.tag[op.game] = x]
           /\ rows' = r \cup {op.game} \/ rows' = r \ {op.game}
    BY <1>1 DEF Effect, Flipped, Tags
  <2>2. ASSUME NEW x \in Tags, mem' = [m EXCEPT !.tag[op.game] = x]
        PROVE  \A h \in Games \ {op.game} : mem'.tag[h] = m.tag[h]
    BY <2>2 DEF Vdf
  <2> QED
    BY <2>1, <2>2
<1>4. right => Known(mem'.tag[op.game], op.game \in rows', op.game \in onDisk')
  <2>1. SUFFICES ASSUME right
                 PROVE  Known(mem'.tag[op.game], op.game \in rows', op.game \in onDisk')
    OBVIOUS
  <2>2. Flipped(op, m, r)
    BY <1>1, <2>1 DEF Effect
  <2>3. CASE op.kind = "installed"
    <3>1. mem' = [m EXCEPT !.tag[op.game] = "in"] /\ rows' = r \cup {op.game}
      BY <2>1, <2>2, <2>3 DEF Flipped
    <3>2. mem'.tag[op.game] = "in" /\ op.game \in rows'
      BY <1>1, <3>1 DEF Vdf
    <3> QED
      BY <2>1, <2>3, <3>2 DEF Known
  <2>4. CASE op.kind # "installed"
    <3>1. mem' = [m EXCEPT !.tag[op.game] = "out"] /\ rows' = r \ {op.game}
      BY <2>1, <2>2, <2>4 DEF Flipped
    <3>2. mem'.tag[op.game] = "out" /\ op.game \notin rows'
      BY <1>1, <3>1 DEF Vdf
    <3> QED
      BY <2>1, <2>4, <3>2 DEF Known
  <2> QED
    BY <2>3, <2>4
<1> HIDE DEF right
<1>5. ASSUME NEW g \in Games \ missed'
      PROVE  Known(mem'.tag[g], g \in rows', g \in onDisk')
  <2>1. CASE g = op.game
    BY <1>2, <1>4, <1>5, <2>1
  <2>2. CASE g # op.game
    <3>1. g \in Games \ before
      BY <1>2, <1>5, <2>2
    <3>2. KnownOf(g, m, r)
      BY <3>1, NotForgotten
    <3>3. g \in onDisk' <=> g \in onDisk
      BY <2>2 DEF OneChanges
    <3> QED
      BY <1>3, <2>2, <3>2, <3>3 DEF KnownOf, Known
  <2> QED
    BY <2>1, <2>2
<1> QED
  BY <1>5 DEF GamesKnown, Known

\* A reconcile with a library that is right about a game leaves it right,
\* whether the game is new, registered or left as it is.
LEMMA ReconcileKeepsGames ==
  ASSUME GamesKnown, NEW op \in Reconciles, NEW m \in Vdf, NEW r \in SUBSET Games,
         Effect(op, m, r), missed' = Misses(op, m, r), OneChanges(op)
  PROVE  GamesKnown'
<1>1. op.kind = "reconcile" /\ op \notin GameOps
  BY DEF Reconciles, GameOps
<1>2. missed' = (missed \cup Forgotten(m, r) \cup Wrong(op)) \ PutRight(op, m, r)
  BY <1>1 DEF Misses
<1>3. Reconciled(op, m, r)
  BY <1>1 DEF Effect
<1>4. /\ rows' = {g \in op.owned \cap op.inst : g \in WithExe \cup r}
      /\ \A g \in op.owned \cap Games : mem'.tag[g] =
           IF g \in Rewritten(op, m) THEN IF g \in op.inst THEN "in" ELSE "out"
           ELSE m.tag[g]
  BY <1>3 DEF Reconciled, RowsOf, Vdf
<1>5. \A g \in op.owned : m.tag[g] = "none" => g \in Rewritten(op, m)
  BY DEF Rewritten, Added
<1>6. ASSUME NEW g \in Games \ missed'
      PROVE  Known(mem'.tag[g], g \in rows', g \in onDisk')
  <2>1. CASE g \in PutRight(op, m, r)
    <3>1. /\ g \in Rewritten(op, m) /\ g \notin Wrong(op)
          /\ g \in op.inst => g \in WithExe \cup r
      BY <2>1 DEF PutRight
    <3>2. g \in op.owned /\ (g \in op.inst <=> g \in onDisk')
      BY <3>1 DEF Wrong
    <3> QED
      BY <1>4, <3>1, <3>2 DEF Known
  <2>2. CASE g \notin PutRight(op, m, r)
    <3>1. g \in Games \ (missed \cup Forgotten(m, r)) /\ g \notin Wrong(op)
      BY <1>2, <1>6, <2>2
    <3>2. g \in op.owned /\ (g \in op.inst <=> g \in onDisk')
      BY <3>1 DEF Wrong
    <3>3. KnownOf(g, m, r) /\ (g \in onDisk' <=> g \in onDisk)
      BY <1>1, <3>1, NotForgotten DEF OneChanges
    <3>4. g \in rows' <=> g \in onDisk'
      BY <1>4, <3>2, <3>3 DEF KnownOf, Known
    <3> QED
      BY <1>4, <1>5, <3>2, <3>3, <3>4 DEF KnownOf, Known
  <2> QED
    BY <2>1, <2>2
<1> QED
  BY <1>6 DEF GamesKnown, Known

-----------------------------------------------------------------------------
(* Together.                                                               *)

\* A step that changes neither the memory, nor what is installed or missed.
LEMMA GamesFrame ==
  ASSUME GamesKnown, mem'.tag = mem.tag, UNCHANGED <<onDisk, rows, missed>>
  PROVE  GamesKnown'
BY DEF GamesKnown

\* An operation goes through, in a call or at the end of a load.
LEMMA ApplyKeepsInv ==
  ASSUME IInv, NEW t \in Tasks, t \notin Writing, NEW op \in Changes,
         NEW m \in Vdf, NEW r \in SUBSET Games, Apply(t, op, m, r), OneChanges(op),
         loaded', mapLoaded' \in BOOLEAN, UNCHANGED <<fileVars, path>>,
         onDisk' \subseteq Games, lib' \in Libraries \cup {NoLib}, calls' \in Nat, others' \in Nat
  PROVE  IInv'
<1>1. /\ mem' \in Vdf /\ rows' \subseteq Games /\ missed' \subseteq Games
      /\ task' \in [Tasks -> TaskRec] /\ \A s \in Tasks : TaskOK(task'[s])
      /\ solo' \subseteq Tasks /\ saved' \in {"written", "pending", "lost"}
      /\ OneUser' /\ FilesInv'
  BY ApplyKeepsFiles
<1>2. loaded' \in BOOLEAN
  OBVIOUS
<1>3. TypeInv'
  BY <1>1, <1>2 DEF IInv, TypeInv, fileVars
<1>4. GamesKnown /\ Effect(op, m, r) /\ missed' = Misses(op, m, r)
  BY DEF IInv, Apply
<1>5. GamesKnown'
  BY <1>4, GameOpKeepsGames, ReconcileKeepsGames DEF Changes
<1> QED
  BY <1>1, <1>3, <1>5 DEF IInv, FilesInv

\* An operation waits for a file, or for the next one.
LEMMA WaitKeepsInv ==
  ASSUME IInv, NEW t \in Tasks, t \notin Writing, NEW x, TaskOK(x), task' = [task EXCEPT ![t] = x],
         x.user = path, x.op \in Changes, x.pc \in {"load", "install", "loadMap", "installMap"},
         x.pc \in {"loadMap", "installMap"} => loaded', loaded => loaded', loaded' \in BOOLEAN,
         mem' \in Vdf, UNCHANGED <<fileVars, path, rows, mapLoaded, solo>>,
         saved' = "lost" \/ (saved' = saved /\ mem'.tag = mem.tag),
         onDisk' \subseteq Games, lib' \in Libraries \cup {NoLib}, calls' \in Nat, others' \in Nat,
         missed' \subseteq Games, missed \subseteq missed',
         \A g \in Games \ missed' : mem'.tag[g] = mem.tag[g] /\ (g \in onDisk' <=> g \in onDisk)
  PROVE  IInv'
<1>1. TypeInv /\ OneUser /\ FilesInv /\ GamesKnown
  BY DEF IInv, FilesInv
<1>2. /\ task' \in [Tasks -> TaskRec] /\ \A s \in Tasks : TaskOK(task'[s])
      /\ \A s \in Tasks : task'[s] = IF s = t THEN x ELSE task[s]
      /\ Writing' = Writing \ {t}
  BY <1>1, TaskChanges, WritingAfter
<1>3. saved' \in {"written", "pending", "lost"}
  BY <1>1 DEF TypeInv
<1>4. TypeInv'
  BY <1>1, <1>2, <1>3 DEF TypeInv, fileVars
<1>5. OneUser'
  <2>1. x.op # Icons
    BY DEF Changes, GameOps, Reconciles, Icons
  <2> QED
    BY <1>1, <1>2, <2>1 DEF OneUser
<1>6. FilesInv'
  BY <1>1, <1>2, StaysOut
<1>7. GamesKnown'
  BY <1>1 DEF GamesKnown
<1> QED
  BY <1>4, <1>5, <1>6, <1>7 DEF IInv, FilesInv

\* A call goes through at once, or waits for the files.
LEMMA CallKeepsInv ==
  ASSUME IInv, NEW t \in Tasks, NEW op \in Changes, Call(t, op), OneChanges(op),
         onDisk' \subseteq Games, lib' \in Libraries \cup {NoLib}
  PROVE  IInv'
<1>1. /\ TypeInv /\ OneUser /\ t \notin Writing /\ mem \in Vdf /\ rows \in SUBSET Games
      /\ missed \subseteq Games /\ loaded \in BOOLEAN /\ mapLoaded \in BOOLEAN
  BY DEF IInv, TypeInv, Call, Idle, Writing
<1>2. calls' \in Nat /\ others' \in Nat /\ UNCHANGED <<fileVars, path, loaded, mapLoaded>>
  BY <1>1 DEF Call, TypeInv
<1>3. CASE loaded /\ mapLoaded
  <2>1. Apply(t, op, mem, rows) /\ loaded' /\ mapLoaded' \in BOOLEAN
    BY <1>2, <1>3 DEF Call
  <2> QED
    BY <1>1, <1>2, <2>1, ApplyKeepsInv
<1>4. CASE ~(loaded /\ mapLoaded)
  <2> DEFINE x == TaskOf(op, IF loaded THEN "loadMap" ELSE "load", Empty, {})
  <2>1. /\ task' = [task EXCEPT ![t] = x]
        /\ missed' = IF op.kind = "reconcile" THEN missed ELSE missed \cup {op.game}
        /\ UNCHANGED <<mem, rows, solo, saved>>
    BY <1>4 DEF Call
  <2>2. op \in Ops \ {NoOp}
    BY DEF Changes, GameOps, Reconciles, Ops, NoOp
  <2>3. /\ TaskOK(x) /\ x.user = path /\ x.op = op
        /\ x.pc = IF loaded THEN "loadMap" ELSE "load"
    BY <1>1, <2>2, FreshTasks DEF TaskOf, Pcs
  <2> HIDE DEF x
  <2>4. missed \subseteq missed' /\ missed' \subseteq Games
    BY <1>1, <2>1 DEF Changes, GameOps, Reconciles
  <2>5. \A g \in Games \ missed' : g \in onDisk' <=> g \in onDisk
    BY <2>1 DEF OneChanges, GameOps
  <2>6. x.pc \in {"loadMap", "installMap"} => loaded'
    BY <1>2, <2>3
  <2>7. (loaded => loaded') /\ loaded' \in BOOLEAN
    BY <1>1, <1>2
  <2>8. x.pc \in {"load", "install", "loadMap", "installMap"}
    BY <2>3
  <2>9. mem' \in Vdf /\ mem' = mem /\ saved' = saved
    BY <1>1, <2>1
  <2> QED
    BY <1>1, <1>2, <2>1, <2>3, <2>4, <2>5, <2>6, <2>7, <2>8, <2>9, WaitKeepsInv
<1> QED
  BY <1>3, <1>4

\* The call of an installed, removed or synchronised game.
LEMMA CallsKeepInv ==
  ASSUME IInv, NEW t \in Tasks,
         SyncComplete(t) \/ \E g \in Games : InstallChanges(t, g) \/ RemoveGame(t, g)
  PROVE  IInv'
<1>1. onDisk \subseteq Games /\ lib \in Libraries \cup {NoLib}
  BY DEF IInv, TypeInv
<1>2. ASSUME NEW g \in Games, InstallChanges(t, g)
      PROVE  IInv'
  <2>1. PICK op \in GameOps : Call(t, op) /\ op.game = g
    BY <1>2 DEF InstallChanges, GameOps
  <2>2. /\ onDisk' = IF g \in onDisk THEN onDisk \ {g} ELSE onDisk \cup {g}
        /\ lib' = lib
    BY <1>2 DEF InstallChanges
  <2>3. OneChanges(op) /\ onDisk' \subseteq Games
    BY <1>1, <2>1, <2>2 DEF OneChanges
  <2> QED
    BY <1>1, <2>1, <2>2, <2>3, CallKeepsInv DEF Changes
<1>3. ASSUME NEW g \in Games, RemoveGame(t, g)
      PROVE  IInv'
  <2>1. PICK op \in GameOps : Call(t, op)
    BY <1>3 DEF RemoveGame, GameOps
  <2>2. onDisk' = onDisk /\ lib' = lib
    BY <1>3 DEF RemoveGame
  <2>3. OneChanges(op)
    BY <2>2 DEF OneChanges
  <2> QED
    BY <1>1, <2>1, <2>2, <2>3, CallKeepsInv DEF Changes
<1>4. ASSUME SyncComplete(t)
      PROVE  IInv'
  <2>1. lib \in Libraries /\ lib' = NoLib /\ onDisk' = onDisk
    BY <1>1, <1>4 DEF SyncComplete
  <2>2. PICK op \in Reconciles : Call(t, op)
    BY <1>4, <2>1 DEF SyncComplete, Reconciles, Libraries
  <2>3. OneChanges(op)
    BY <2>1 DEF OneChanges
  <2> QED
    BY <1>1, <2>1, <2>2, <2>3, CallKeepsInv DEF Changes
<1> QED
  BY <1>2, <1>3, <1>4

\* What a load brings back otherwise than the memory held it is missed, and the
\* memory is not written any more.
LEMMA LoadKeepsInv ==
  ASSUME IInv, NEW t \in Tasks, LoadStep(t)
  PROVE  IInv'
<1>1. /\ TypeInv /\ OneUser /\ task[t] \in TaskRec /\ TaskOK(task[t]) /\ task[t].user = path
      /\ file[path] \in Vdf /\ mapFile \subseteq Games /\ missed \subseteq Games
      /\ mem \in Vdf /\ rows \in SUBSET Games /\ loaded \in BOOLEAN /\ mapLoaded \in BOOLEAN
      /\ onDisk \subseteq Games /\ lib \in Libraries \cup {NoLib} /\ calls \in Nat /\ others \in Nat
  BY DEF IInv, TypeInv, OneUser
<1>2. /\ task[t].pc \in {"load", "install", "loadMap", "installMap"}
      /\ t \notin Writing /\ task[t].op \in Changes
  BY <1>1 DEF LoadStep, LoadReads, LoadDone, MapReads, MapDone, Writing, OneUser
<1>3. ASSUME NEW x, TaskOK(x), task' = [task EXCEPT ![t] = x], x.user = path, x.op = task[t].op,
             x.pc \in {"load", "install", "loadMap", "installMap"},
             x.pc \in {"loadMap", "installMap"} => loaded,
             UNCHANGED <<fileVars, memVars, envVars, solo, saved, missed>>
      PROVE  IInv'
  <2>1. /\ loaded' = loaded /\ mem' = mem /\ UNCHANGED <<fileVars, path, rows, mapLoaded, solo>>
        /\ saved' = saved /\ missed' = missed /\ UNCHANGED <<onDisk, lib, calls, others>>
    BY <1>3 DEF memVars, envVars
  <2>2. x.pc \in {"loadMap", "installMap"} => loaded'
    BY <1>3, <2>1
  <2>3. (loaded => loaded') /\ loaded' \in BOOLEAN
    BY <1>1, <2>1
  <2> QED
    BY <1>1, <1>2, <1>3, <2>1, <2>2, <2>3, WaitKeepsInv
<1>4. CASE LoadReads(t)
  <2>1. PICK text \in {file[path], Empty} :
          task' = [task EXCEPT ![t].pc = "install", ![t].text = text]
    BY <1>1, <1>4 DEF LoadReads
  <2>2. text \in Vdf /\ task[t].pc = "load"
    BY <1>1, <1>4, VdfFields DEF LoadReads
  <2> DEFINE x == [task[t] EXCEPT !.pc = "install", !.text = text]
  <2>3. /\ x \in TaskRec /\ x.pc = "install" /\ x.user = path /\ x.op = task[t].op
        /\ x.reg = task[t].reg /\ task' = [task EXCEPT ![t] = x]
    BY <1>1, <2>1, <2>2 DEF TaskRec, Pcs
  <2>4. TaskOK(x)
    BY <1>1, <2>2, <2>3 DEF TaskOK
  <2>5. UNCHANGED <<fileVars, memVars, envVars, solo, saved, missed>>
    BY <1>4 DEF LoadReads
  <2> HIDE DEF x
  <2> QED
    BY <1>3, <2>3, <2>4, <2>5
<1>5. CASE MapReads(t)
  <2>1. PICK row \in {mapFile, {}} :
          task' = [task EXCEPT ![t].pc = "installMap", ![t].row = row]
    BY <1>5 DEF MapReads
  <2>2. row \subseteq Games /\ task[t].pc = "loadMap"
    BY <1>1, <1>5 DEF MapReads
  <2> DEFINE x == [task[t] EXCEPT !.pc = "installMap", !.row = row]
  <2>3. /\ x \in TaskRec /\ x.pc = "installMap" /\ x.user = path /\ x.op = task[t].op
        /\ x.reg = task[t].reg /\ task' = [task EXCEPT ![t] = x]
    BY <1>1, <2>1, <2>2 DEF TaskRec, Pcs
  <2>4. TaskOK(x)
    BY <1>1, <2>2, <2>3 DEF TaskOK
  <2>5. UNCHANGED <<fileVars, memVars, envVars, solo, saved, missed>>
    BY <1>5 DEF MapReads
  <2>6. loaded
    BY <1>1, <2>2 DEF OneUser
  <2> HIDE DEF x
  <2> QED
    BY <1>3, <2>3, <2>4, <2>5, <2>6
<1>6. CASE MapDone(t)
  <2>1. /\ Apply(t, task[t].op, mem, task[t].row) /\ mapLoaded' = TRUE /\ task[t].pc = "installMap"
        /\ UNCHANGED <<fileVars, path, loaded, envVars>>
    BY <1>6 DEF MapDone
  <2>2. task[t].row \in SUBSET Games
    BY <1>1 DEF TaskRec
  <2>3. loaded' /\ mapLoaded' \in BOOLEAN
    BY <1>1, <2>1 DEF OneUser
  <2>4. UNCHANGED <<onDisk, lib, calls, others>> /\ OneChanges(task[t].op)
    BY <2>1 DEF envVars, OneChanges
  <2> QED
    BY <1>1, <1>2, <2>1, <2>2, <2>3, <2>4, ApplyKeepsInv
<1>7. CASE LoadDone(t)
  <2>1. /\ loaded' = TRUE /\ task[t].pc = "install"
        /\ UNCHANGED <<fileVars, path, mapLoaded, envVars>>
    BY <1>7 DEF LoadDone
  <2>2. task[t].text \in Vdf
    BY <1>1 DEF TaskRec
  <2>3. UNCHANGED <<onDisk, lib, calls, others>> /\ OneChanges(task[t].op)
    BY <2>1 DEF envVars, OneChanges
  <2>4. CASE mapLoaded
    <3>1. Apply(t, task[t].op, task[t].text, rows)
      BY <1>7, <2>4 DEF LoadDone
    <3>2. loaded' /\ mapLoaded' \in BOOLEAN
      BY <1>1, <2>1
    <3> QED
      BY <1>1, <1>2, <2>1, <2>2, <2>3, <3>1, <3>2, ApplyKeepsInv
  <2>5. CASE ~mapLoaded
    <3> DEFINE x == TaskOf(task[t].op, "loadMap", Empty, {})
    <3>1. /\ mem' = task[t].text /\ task' = [task EXCEPT ![t] = x]
          /\ missed' = missed \cup Forgotten(mem', rows)
          /\ saved' = IF mem'.tag = mem.tag THEN saved ELSE "lost"
          /\ UNCHANGED <<rows, solo>>
      BY <1>7, <2>5 DEF LoadDone
    <3>2. task[t].op \in Ops \ {NoOp}
      BY <1>2 DEF Changes, GameOps, Reconciles, Ops, NoOp
    <3>3. TaskOK(x) /\ x.user = path /\ x.op = task[t].op /\ x.pc = "loadMap"
      BY <1>1, <3>2, FreshTasks DEF TaskOf, Pcs
    <3> HIDE DEF x
    <3>4. /\ missed \subseteq missed' /\ missed' \subseteq Games
          /\ \A g \in Games \ missed' : mem'.tag[g] = mem.tag[g]
      BY <1>1, <3>1 DEF Forgotten
    <3>5. x.pc \in {"load", "install", "loadMap", "installMap"} /\ x.op \in Changes
      BY <1>2, <3>3
    <3>6. /\ x.pc \in {"loadMap", "installMap"} => loaded'
          /\ loaded => loaded'
          /\ loaded' \in BOOLEAN
      BY <2>1
    <3>7. saved' = "lost" \/ (saved' = saved /\ mem'.tag = mem.tag)
      BY <3>1
    <3>8. mem' \in Vdf /\ UNCHANGED <<fileVars, path, rows, mapLoaded, solo>>
      BY <2>1, <2>2, <3>1
    <3> QED
      BY <1>1, <1>2, <2>3, <3>1, <3>3, <3>4, <3>5, <3>6, <3>7, <3>8, WaitKeepsInv
  <2> QED
    BY <2>4, <2>5
<1> QED
  BY <1>4, <1>5, <1>6, <1>7 DEF LoadStep

\* A step that leaves the files, the memory and the tasks as they are.
LEMMA StutterKeepsInv ==
  ASSUME IInv, lib' \in Libraries \cup {NoLib},
         UNCHANGED <<fileVars, memVars, onDisk, calls, others, task, solo, saved, missed>>
  PROVE  IInv'
<1> USE DEF fileVars, memVars
<1>1. TypeInv' /\ OneUser'
  BY DEF IInv, TypeInv, OneUser
<1>2. SoloHasForeign' /\ WrittenStays'
  BY DEF IInv, SoloHasForeign, WrittenStays, Writing
<1>3. PendingIsInHand' /\ SavedIsMemory' /\ GamesKnown'
  BY DEF IInv, PendingIsInHand, SavedIsMemory, GamesKnown
<1> QED
  BY <1>1, <1>2, <1>3 DEF IInv

LEMMA InvStep == IInv /\ [Next]_vars => IInv'
<1> SUFFICES ASSUME IInv, [Next]_vars
             PROVE  IInv'
  OBVIOUS
<1>1. ASSUME NEW t \in Tasks, SaveStep(t)
      PROVE  IInv'
  <2>1. /\ TypeInv' /\ OneUser' /\ FilesInv'
        /\ mem'.tag = mem.tag /\ UNCHANGED <<onDisk, rows, missed>>
    BY <1>1, SaveStepKeepsFiles
  <2> QED
    BY <2>1, GamesFrame DEF IInv, FilesInv
<1>2. ASSUME NEW t \in Tasks, IconsRead(t)
      PROVE  IInv'
  <2>1. mem' = mem /\ UNCHANGED <<onDisk, rows, missed>>
    BY <1>2 DEF IconsRead, memVars
  <2> QED
    BY <1>2, <2>1, IconsKeepFiles, GamesFrame DEF IInv, FilesInv
<1>3. ASSUME NEW t \in Tasks,
             SyncComplete(t) \/ \E g \in Games : InstallChanges(t, g) \/ RemoveGame(t, g)
      PROVE  IInv'
  BY <1>3, CallsKeepInv
<1>4. CASE SyncFetch
  <2>1. /\ lib' \in Libraries
        /\ UNCHANGED <<fileVars, memVars, onDisk, calls, others, task, solo, saved, missed>>
    BY <1>4 DEF SyncFetch, Libraries
  <2> QED
    BY <2>1, StutterKeepsInv
<1>5. CASE Restart
  BY <1>5, RestartKeepsInv
<1>6. ASSUME NEW f \in Foreign, OthersAdd(f) \/ OthersRemove(f)
      PROVE  IInv'
  <2>1. /\ TypeInv' /\ OneUser' /\ FilesInv' /\ UNCHANGED <<memVars, onDisk, missed>>
    BY <1>6, OthersKeepFiles
  <2> QED
    BY <2>1, GamesFrame DEF IInv, FilesInv, memVars
<1>7. ASSUME NEW t \in Tasks, LoadStep(t)
      PROVE  IInv'
  BY <1>7, LoadKeepsInv
<1>8. CASE UNCHANGED vars
  BY <1>8, StutterKeepsInv DEF vars, envVars, IInv, TypeInv
<1> QED
  BY <1>1, <1>2, <1>3, <1>4, <1>5, <1>6, <1>7, <1>8 DEF Next

LEMMA InvInit == Init => IInv
<1> SUFFICES ASSUME Init
             PROVE  IInv
  OBVIOUS
<1>1. /\ file \in [Users -> Vdf] /\ path \in Users /\ mem \in Vdf /\ mem.tag = file[path].tag
      /\ \A g \in Games : mem.tag[g] = "none"
  <2>1. \A u \in Users : [Empty EXCEPT !.foreign = {f \in Foreign : HomeOf[f] = u}] =
          [tag |-> [g \in Games |-> "none"], foreign |-> {f \in Foreign : HomeOf[f] = u}]
    BY DEF Empty
  <2>2. \A u \in Users : [Empty EXCEPT !.foreign = {f \in Foreign : HomeOf[f] = u}] \in Vdf
    <3>1. [g \in Games |-> "none"] \in [Games -> Tags]
      BY DEF Tags
    <3>2. \A u \in Users : [tag |-> [g \in Games |-> "none"],
                          foreign |-> {f \in Foreign : HomeOf[f] = u}] \in Vdf
      BY <3>1 DEF Vdf, Tags
    <3> QED
      BY <2>1, <3>2
  <2>3. mem = Empty /\ path \in Users /\ file \in [Users -> Vdf]
        /\ \A u \in Users : file[u].tag = [g \in Games |-> "none"]
    BY <2>1, <2>2 DEF Init
  <2> QED
    BY <2>3, VdfFields DEF Empty
<1>2. \A t \in Tasks : /\ task[t] = TaskOf(NoOp, "idle", Empty, {}) /\ task[t] \in TaskRec
                       /\ TaskOK(task[t]) /\ task[t].pc = "idle" /\ task[t].user = path
                       /\ task[t].op # Icons
  BY <1>1, VdfFields DEF Init, TaskOK, TaskOf, TaskRec, Ops, Pcs, NoOp, Icons
<1>3. Writing = {}
  BY <1>2 DEF Writing
<1>4. TypeInv
  <2>1. task \in [Tasks -> TaskRec]
    BY <1>2 DEF Init
  <2> QED
    BY <1>1, <1>2, <2>1 DEF Init, TypeInv
<1>5. OneUser
  BY <1>2 DEF Init, OneUser
<1>6. SoloHasForeign /\ PendingIsInHand /\ WrittenStays
  BY <1>3 DEF Init, SoloHasForeign, PendingIsInHand, WrittenStays
<1>7. SavedIsMemory /\ GamesKnown
  BY <1>1 DEF Init, SavedIsMemory, GamesKnown
<1> QED
  BY <1>4, <1>5, <1>6, <1>7 DEF IInv

THEOREM InvHolds == Spec => []IInv
BY InvInit, InvStep, PTL DEF Spec

\* Every variable keeps its type, through every interleaving of operations,
\* writes, other tools and restarts.
THEOREM TypeCorrect == Spec => []TypeOK
<1>1. IInv => TypeOK
  BY TypeInvImpliesTypeOK DEF IInv
<1> QED
  BY <1>1, InvHolds, PTL

\* Once an operation that had the files to itself has written the last change
\* of the memory, both writes done, the files hold our games as the memory
\* does, whatever failed before and whoever else writes the file after it.
THEOREM FilesHoldMemory == Spec => []SavedIsMemory
<1>1. IInv => SavedIsMemory
  BY DEF IInv
<1> QED
  BY <1>1, InvHolds, PTL

\* Tag and row of a game say what is on disk, through overlapping operations,
\* first loads that meet, restarts and files that cannot be read or written,
\* but for the games that FlagsFollowGames excepts: told wrong, or brought back
\* by a load otherwise than the memory held them, and not put right since.
THEOREM FlagsAgreeWithDisk == Spec => []FlagsFollowGames
<1>1. IInv => FlagsFollowGames
  BY DEF IInv, GamesKnown, FlagsFollowGames
<1> QED
  BY <1>1, InvHolds, PTL

\* The file of a user loses a shortcut of others to nobody but its owner, and
\* to a write that has met another or has read the file before it came.
LEMMA ForeignStep ==
  ASSUME IInv, [Next]_vars, NEW u \in Users, NEW f \in file[u].foreign \ file'[u].foreign
  PROVE  \/ OthersRemove(f)
         \/ \E t \in Tasks : task[t].pc = "write" /\ (f \in task[t].late \/ t \notin solo)
<1>1. file' # file /\ file \in [Users -> Vdf] /\ f \in Foreign
  BY VdfFields DEF IInv, TypeInv
<1>2. ASSUME NEW t \in Tasks, SaveReplaces(t)
      PROVE  task[t].pc = "write" /\ (f \in task[t].late \/ t \notin solo)
  <2>1. task[t].pc = "write" /\ task[t].user = path
    BY <1>2 DEF SaveReplaces, IInv, OneUser
  <2>2. PICK text \in Texts(t) : file' = [file EXCEPT ![path] = text]
    BY <1>2, <2>1 DEF SaveReplaces
  <2>3. u = path /\ file'[path] = text
    BY <1>1, <2>2 DEF IInv, TypeInv
  <2>4. t \in solo => text = task[t].text
    BY DEF Texts
  <2> QED
    BY <2>1, <2>3, <2>4 DEF IInv, SoloHasForeign
<1>3. ASSUME NEW h \in Foreign, OthersAdd(h)
      PROVE  FALSE
  <2>1. file' = [file EXCEPT ![HomeOf[h]].foreign = @ \cup {h}] /\ HomeOf[h] \in Users
    BY <1>3, ShortcutsAssumption DEF OthersAdd
  <2>2. file[u].foreign \subseteq file'[u].foreign
    BY <1>1, <2>1 DEF Vdf
  <2> QED
    BY <2>2
<1>4. ASSUME NEW h \in Foreign, OthersRemove(h)
      PROVE  h = f
  <2>1. file' = [file EXCEPT ![HomeOf[h]].foreign = @ \ {h}] /\ HomeOf[h] \in Users
    BY <1>4, ShortcutsAssumption DEF OthersRemove
  <2>2. file[u].foreign \ {h} \subseteq file'[u].foreign
    BY <1>1, <2>1 DEF Vdf
  <2> QED
    BY <2>2
<1>5. \/ \E t \in Tasks : SaveReplaces(t)
      \/ \E h \in Foreign : OthersAdd(h) \/ OthersRemove(h)
  BY <1>1 DEF Next, LoadStep, LoadReads, LoadDone, MapReads, MapDone, SaveStep, SaveReads,
     SaveReadFails, SaveMerges, SaveFails, MapWritten, MapFails, IconsRead, SyncComplete,
     InstallChanges, RemoveGame, Call, SyncFetch, Restart, vars, fileVars
<1> QED
  BY <1>2, <1>3, <1>4, <1>5

\* A write that has the file to itself takes out no shortcut of Steam or of
\* another tool, except one that the memory does not hold and that came after
\* the operation's read of the file, or before one that failed.
THEOREM OthersShortcutsKept == Spec => ForeignKept
<1> DEFINE A == \A u \in Users : \A f \in file[u].foreign \ file'[u].foreign :
                  \/ OthersRemove(f)
                  \/ \E t \in Tasks : task[t].pc = "write" /\ (f \in task[t].late \/ t \notin solo)
<1>1. IInv /\ [Next]_vars => [A]_vars
  BY ForeignStep
<1>2. Spec => [][A]_vars
  BY <1>1, InvHolds, PTL DEF Spec
<1> QED
  BY <1>2 DEF ForeignKept
=============================================================================
