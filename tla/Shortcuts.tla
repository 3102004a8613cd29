----------------------------- MODULE Shortcuts -----------------------------
(***************************************************************************)
(* ShortcutService (services/shortcut): shortcuts.vdf and games.map, held  *)
(* in memory for as long as the plugin runs and written back whole by      *)
(* every operation.  There is no lock: an operation is suspended while it  *)
(* loads the files, if nobody has yet, changes the memory in one step, and *)
(* is suspended again while it reads the file, writes it and writes        *)
(* games.map.  Every read and every write may fail, and only the log       *)
(* learns.  Steam and other tools write shortcuts.vdf too, and the event   *)
(* of the artwork phase makes a task that rewrites the icons in the file   *)
(* behind the memory's back.                                               *)
(*                                                                         *)
(* A shortcut is ours, one per game at most, with a tag that says whether  *)
(* the game is installed, or it is foreign.  The text of a write is taken  *)
(* when the write begins; two writes share a temporary file (QueueFile).   *)
(***************************************************************************)
EXTENDS Naturals

CONSTANTS
  Games, Foreign, Users,
  HomeOf,      \* the user whose file a foreign shortcut belongs in
  WithExe,     \* the games whose store reports an executable with the library
  Tasks,       \* the operations that may be under way together
  NoLib,
  MaxCalls,    \* bound: operations of a run
  MaxOthers    \* bound: what others do to it, restarts included

Libraries == [owned : SUBSET Games, inst : SUBSET Games]

ASSUME ShortcutsAssumption ==
  /\ WithExe \subseteq Games /\ HomeOf \in [Foreign -> Users]
  /\ NoLib \notin Libraries
  /\ {MaxCalls, MaxOthers} \subseteq Nat

VARIABLES
  onDisk,    \* the games that are installed
  file,      \* shortcuts.vdf of each user
  mapFile,   \* the games with a row in games.map
  registry,  \* the games in the registry file
  path,      \* _shortcuts_path: the user it belongs to
  mem,       \* _shortcuts
  loaded,    \* _shortcuts_loaded
  rows,      \* _games_map
  mapLoaded, \* _games_map_loaded
  task,      \* the operations under way
  lib,       \* the library of a sync that has fetched and not emitted it yet
  calls,     \* operations so far
  others,    \* what others have done so far
  solo,      \* observer: the write that has had the files to itself so far
  saved,     \* observer: is the memory written? pending, or lost for good
  missed     \* observer: the games the shortcuts have been told wrong about

fileVars == <<file, mapFile, registry>>
memVars == <<path, mem, loaded, rows, mapLoaded>>
envVars == <<onDisk, lib, calls, others>>
vars == <<fileVars, memVars, envVars, task, solo, saved, missed>>

Vdf == [tag : [Games -> {"none", "out", "in"}], foreign : SUBSET Foreign]
Empty == [tag |-> [g \in Games |-> "none"], foreign |-> {}]

GameOps == [kind : {"installed", "uninstalled", "deleted"}, game : Games]
Reconciles == [kind : {"reconcile"}, owned : SUBSET Games, inst : SUBSET Games, force : BOOLEAN]
Saving == [kind : {"installed", "uninstalled", "deleted", "reconcile"}]
Icons == [kind |-> "icons"]
NoOp == [kind |-> "none"]

\* text, row: what it has read of shortcuts.vdf and games.map, or writes; reg: the registry
\* a reconcile will write; late: the others' shortcuts in the file that the task
\* does not know of, because they came after its read or its read failed.
TaskOf(op, pc, text, reg) ==
  [op |-> op, pc |-> pc, user |-> path, text |-> text, row |-> {}, reg |-> reg, late |-> {}]
Done(t) == task' = [task EXCEPT ![t] = TaskOf(NoOp, "idle", Empty, {})]
Idle(t) == task[t].pc = "idle"
Writing == {t \in Tasks : task[t].pc \in {"read", "merge", "write", "map"}}

TypeOK ==
  /\ onDisk \subseteq Games /\ file \in [Users -> Vdf]
  /\ {mapFile, registry, rows, missed} \subseteq SUBSET Games
  /\ path \in Users /\ mem \in Vdf /\ {loaded, mapLoaded} \subseteq BOOLEAN
  /\ task \in [Tasks -> [op : GameOps \cup Reconciles \cup Saving \cup {Icons, NoOp},
                         pc : {"idle", "load", "install", "loadMap", "installMap",
                               "read", "merge", "write", "map"},
                         user : Users, text : Vdf, row : SUBSET Games, reg : SUBSET Games,
                         late : SUBSET Foreign]]
  /\ \A t \in Tasks : /\ Idle(t) <=> task[t].op = NoOp
                     /\ task[t].reg # {} => task[t].op.kind = "reconcile"
  /\ lib \in Libraries \cup {NoLib} /\ {calls, others} \subseteq Nat
  /\ solo \subseteq Tasks /\ saved \in {"written", "pending", "lost"}

Init ==
  /\ onDisk = {} /\ mapFile = {} /\ registry = {} /\ rows = {}
  /\ file = [u \in Users |-> [Empty EXCEPT !.foreign = {f \in Foreign : HomeOf[f] = u}]]
  /\ path \in Users /\ mem = Empty /\ loaded = FALSE /\ mapLoaded = FALSE
  /\ task = [t \in Tasks |-> TaskOf(NoOp, "idle", Empty, {})]
  /\ lib = NoLib /\ calls = 0 /\ others = 0
  /\ solo = {} /\ saved = "written" /\ missed = {}

-----------------------------------------------------------------------------
(* What an operation does to the memory: m and r are the shortcuts and the *)
(* rows it begins with, the memory or what it has just loaded.             *)

Added(op, m) == {g \in op.owned : m.tag[g] = "none"}
Reclaimed(op, m) == {g \in op.owned \cap registry : m.tag[g] # "none"}
Swept(op, m, r) == {g \in Games \ op.owned : m.tag[g] # "none" \/ g \in r}

\* New shortcuts; registered ones, written anew; the others by a forced sync.
Rewritten(op, m) ==
  Added(op, m) \cup Reclaimed(op, m) \cup (IF op.force THEN op.owned ELSE {})

\* Mutant: an installed game that comes without an executable loses its row.
RowsOfNamed(op, r) == op.owned \cap op.inst \cap WithExe

\* _reconcile_phase_prune_map, _update_games_map_row: the rows that stay.
RowsOf(op, r) == {g \in op.owned \cap op.inst : g \in WithExe \cup r}

\* _apply_reconcile_phases: the games that are not owned any more go.
Reconciled(op, m, r) ==
  /\ mem' = [m EXCEPT !.tag = [g \in Games |->
       CASE g \notin op.owned -> "none"
         [] g \in Rewritten(op, m) -> IF g \in op.inst THEN "in" ELSE "out"
         [] OTHER -> m.tag[g]]]
  /\ rows' = RowsOf(op, r)

\* mark_installed, mark_uninstalled: the tag and the row.  A game without a
\* shortcut is left alone.
Flipped(op, m, r) ==
  IF m.tag[op.game] = "none" THEN mem' = m /\ rows' = r
  ELSE IF op.kind = "installed"
       THEN mem' = [m EXCEPT !.tag[op.game] = "in"] /\ rows' = r \cup {op.game}
       ELSE mem' = [m EXCEPT !.tag[op.game] = "out"] /\ rows' = r \ {op.game}

Effect(op, m, r) ==
  CASE op.kind = "reconcile" -> Reconciled(op, m, r)
    [] op.kind = "deleted" -> /\ mem' = [m EXCEPT !.tag[op.game] = "none"]
                              /\ rows' = r \ {op.game}
    [] OTHER -> Flipped(op, m, r)

\* Does it end in _save_all?
Saves(op, m, r) ==
  CASE op.kind = "reconcile" -> Added(op, m) \cup Reclaimed(op, m) \cup Swept(op, m, r) # {}
    [] op.kind = "deleted" -> m.tag[op.game] # "none" \/ op.game \in r
    [] OTHER -> m.tag[op.game] # "none"

\* Mutant: so does an install.
RegistersAll(op, m) ==
  IF op.kind = "installed" THEN registry \cup {op.game} ELSE {}

\* The registry a reconcile writes after that, if any.
Registers(op, m) ==
  IF op.kind = "reconcile" /\ Added(op, m) \cup Reclaimed(op, m) # {}
  THEN registry \cup Rewritten(op, m) ELSE {}

\* The games that a load does not bring back as they were.
Forgotten(m, r) == {g \in Games : m.tag[g] # mem.tag[g] \/ (g \in r) # (g \in rows)}

\* The games a reconcile has a wrong library for, and those it has a right one
\* for and writes anew.  An installed game needs its executable for a row.
Wrong(op) == {g \in Games : g \notin op.owned \/ (g \in op.inst) # (g \in onDisk')}
PutRight(op, m, r) == {g \in Rewritten(op, m) \ Wrong(op) : g \in op.inst => g \in WithExe \cup r}

\* What the operation leaves the shortcuts wrong about.
Misses(op, m, r) ==
  LET before == missed \cup Forgotten(m, r) IN
  CASE op.kind = "reconcile" -> (before \cup Wrong(op)) \ PutRight(op, m, r)
    [] op.kind = "deleted" -> before \cup {op.game}
    [] OTHER -> IF m.tag[op.game] # "none" /\ (op.kind = "installed") = (op.game \in onDisk')
                THEN before \ {op.game} ELSE before \cup {op.game}

-----------------------------------------------------------------------------
(* The steps of an operation.                                              *)

\* The files are written from here on by t.
WriteBegins(t) == solo' = IF Writing = {} THEN {t} ELSE {}

\* The change of the memory, and _save_all if there is something to save.  A
\* file that is not loaded is not written, only games.map is.
Apply(t, op, m, r) ==
  /\ Effect(op, m, r)
  /\ missed' = Misses(op, m, r)
  /\ IF Saves(op, m, r)
     THEN /\ task' = [task EXCEPT ![t] = TaskOf([kind |-> op.kind], IF loaded' THEN "read" ELSE "map",
                                                Empty, Registers(op, m))]
          /\ WriteBegins(t)
          /\ saved' = IF Writing = {} THEN "pending" ELSE "lost"
     ELSE /\ Done(t) /\ UNCHANGED solo
          /\ saved' = IF mem'.tag = mem.tag /\ rows' = rows THEN saved ELSE "lost"

\* A call; with both files in memory it goes through at once.  Until it does,
\* the shortcuts are wrong about a game that was installed or removed.
Call(t, op) ==
  /\ calls < MaxCalls /\ calls' = calls + 1
  /\ Idle(t)
  /\ UNCHANGED <<fileVars, path, loaded, mapLoaded, others>>
  /\ IF loaded /\ mapLoaded THEN Apply(t, op, mem, rows)
     ELSE /\ task' = [task EXCEPT ![t] =
                        TaskOf(op, IF loaded THEN "loadMap" ELSE "load", Empty, {})]
          /\ missed' = IF op.kind = "reconcile" THEN missed ELSE missed \cup {op.game}
          /\ UNCHANGED <<mem, rows, solo, saved>>

\* _load_shortcuts: the file is read, or taken for an empty one,
LoadReads(t) ==
  /\ task[t].pc = "load"
  /\ \E text \in {file[task[t].user], Empty} :
       task' = [task EXCEPT ![t].pc = "install", ![t].text = text]
  /\ UNCHANGED <<fileVars, memVars, envVars, solo, saved, missed>>

\* and becomes the memory, even if another load and the change of an operation
\* have come between.
LoadDone(t) ==
  /\ task[t].pc = "install"
  /\ loaded' = TRUE
  /\ UNCHANGED <<fileVars, path, mapLoaded, envVars>>
  /\ IF mapLoaded THEN Apply(t, task[t].op, task[t].text, rows)
     ELSE /\ mem' = task[t].text
          /\ task' = [task EXCEPT ![t] = TaskOf(task[t].op, "loadMap", Empty, {})]
          /\ missed' = missed \cup Forgotten(mem', rows)
          /\ saved' = IF mem'.tag = mem.tag THEN saved ELSE "lost"
          /\ UNCHANGED <<rows, solo>>

\* _load_games_map: likewise; no rows come back when the third read has failed.
MapReads(t) ==
  /\ task[t].pc = "loadMap"
  /\ \E row \in {mapFile, {}} :
       task' = [task EXCEPT ![t].pc = "installMap", ![t].row = row]
  /\ UNCHANGED <<fileVars, memVars, envVars, solo, saved, missed>>

MapDone(t) ==
  /\ task[t].pc = "installMap"
  /\ mapLoaded' = TRUE
  /\ UNCHANGED <<fileVars, path, loaded, envVars>>
  /\ Apply(t, task[t].op, mem, task[t].row)

\* A download completes, or a game is uninstalled: the handler of the event.
InstallChanges(t, g) ==
  /\ onDisk' = IF g \in onDisk THEN onDisk \ {g} ELSE onDisk \cup {g}
  /\ Call(t, [kind |-> IF g \in onDisk THEN "uninstalled" ELSE "installed", game |-> g])
  /\ UNCHANGED lib

\* remove_game
RemoveGame(t, g) ==
  /\ UNCHANGED <<onDisk, lib>>
  /\ Call(t, [kind |-> "deleted", game |-> g])

\* A sync fetches the library; the games of a store that fails are missing.
SyncFetch ==
  /\ lib = NoLib
  /\ calls < MaxCalls
  /\ \E owned \in SUBSET Games \ {{}} : lib' = [owned |-> owned, inst |-> owned \cap onDisk]
  /\ UNCHANGED <<fileVars, memVars, onDisk, calls, others, task, solo, saved, missed>>

\* _on_sync_complete, with the library as it was fetched.
SyncComplete(t) ==
  /\ lib # NoLib /\ lib' = NoLib
  /\ UNCHANGED onDisk
  /\ \E force \in BOOLEAN :
       Call(t, [kind |-> "reconcile", owned |-> lib.owned, inst |-> lib.inst, force |-> force])

\* _save_all: the file is read again, for the shortcuts of others in it,
SaveReads(t) ==
  /\ task[t].pc = "read"
  /\ task' = [task EXCEPT ![t].pc = "merge", ![t].text.foreign = file[task[t].user].foreign]
  /\ UNCHANGED <<fileVars, memVars, envVars, solo, saved, missed>>

\* or it cannot be, which read_vdf does not tell from an empty one.
SaveReadFails(t) ==
  /\ task[t].pc = "read"
  /\ task' = [task EXCEPT ![t].pc = "merge", ![t].late = file[task[t].user].foreign]
  /\ UNCHANGED <<fileVars, memVars, envVars, solo, saved, missed>>

\* Mutant: the memory is written over what others have added.
SaveBlindly(t) ==
  /\ task[t].pc = "merge"
  /\ task' = [task EXCEPT ![t].pc = "write", ![t].user = path, ![t].text = mem]
  /\ UNCHANGED <<fileVars, memVars, envVars, solo, saved, missed>>

\* merge_foreign_shortcuts: the memory takes what others have added, and the
\* write begins, with the path of now.
SaveMerges(t) ==
  /\ task[t].pc = "merge"
  /\ mem' = [mem EXCEPT !.foreign = @ \cup task[t].text.foreign]
  /\ task' = [task EXCEPT ![t].pc = "write", ![t].user = path, ![t].text = mem',
                          ![t].late = @ \ mem'.foreign]
  /\ UNCHANGED <<fileVars, path, loaded, rows, mapLoaded, envVars, solo, saved, missed>>

\* _update_icons_from_grid reads the file, and later writes it; if it cannot be
\* read there is nothing to write.
IconsRead(t) ==
  /\ calls < MaxCalls /\ calls' = calls + 1
  /\ Idle(t)
  /\ task' = [task EXCEPT ![t] = TaskOf(Icons, "write", file[path], {})]
  /\ WriteBegins(t)
  /\ saved' = IF Writing = {} THEN saved ELSE "lost"
  /\ UNCHANGED <<fileVars, memVars, onDisk, lib, others, missed>>

\* The text of a write that has met another is either's, or none that parses.
Texts(t) ==
  IF t \in solo THEN {task[t].text}
  ELSE {Empty} \cup {task[s].text : s \in {s \in Tasks : task[s].pc = "write"}}

Wrote(t) ==
  IF task[t].op = Icons THEN Done(t)
  ELSE task' = [task EXCEPT ![t].pc = "map", ![t].text = Empty, ![t].late = {}]

\* write_vdf replaces the file,
SaveReplaces(t) ==
  /\ task[t].pc = "write"
  /\ \E text \in Texts(t) : file' = [file EXCEPT ![task[t].user] = text]
  /\ Wrote(t)
  /\ solo' = IF task[t].op = Icons THEN solo \ {t} ELSE solo
  /\ UNCHANGED <<mapFile, registry, memVars, envVars, saved, missed>>

\* or fails, which only the log learns; without its directory it raises, and
\* the operation ends.
SaveFails(t) ==
  /\ task[t].pc = "write"
  /\ Wrote(t) \/ Done(t)
  /\ solo' = solo \ {t} /\ saved' = "lost"
  /\ UNCHANGED <<fileVars, memVars, envVars, missed>>

\* save_registry, which a reconcile reaches without another await; it may fail.
SavesRegistry(t) ==
  registry' = registry \/ (task[t].reg # {} /\ registry' = task[t].reg)

\* Mutant: games.map is left as it is.
MapForgotten(t) ==
  /\ task[t].pc = "map"
  /\ SavesRegistry(t)
  /\ Done(t)
  /\ solo' = solo \ {t}
  /\ saved' = IF saved = "pending" THEN "written" ELSE saved
  /\ UNCHANGED <<file, mapFile, memVars, envVars, missed>>

\* write_games_map replaces the map,
MapWritten(t) ==
  /\ task[t].pc = "map"
  /\ mapFile' = rows
  /\ SavesRegistry(t)
  /\ Done(t)
  /\ solo' = solo \ {t}
  /\ saved' = IF saved = "pending" THEN "written" ELSE saved
  /\ UNCHANGED <<file, memVars, envVars, missed>>

\* or fails: the operation goes on as if it had not, or ends there.
MapFails(t) ==
  /\ task[t].pc = "map"
  /\ SavesRegistry(t)
  /\ Done(t)
  /\ solo' = solo \ {t} /\ saved' = "lost"
  /\ UNCHANGED <<file, mapFile, memVars, envVars, missed>>

-----------------------------------------------------------------------------
(* Others, and the end of the process.                                     *)

\* Steam or another tool adds a shortcut, or its user takes one out.
OthersAdd(f) ==
  /\ others < MaxOthers /\ others' = others + 1
  /\ f \notin file[HomeOf[f]].foreign
  /\ file' = [file EXCEPT ![HomeOf[f]].foreign = @ \cup {f}]
  /\ task' = [t \in Tasks |-> IF task[t].pc \in {"merge", "write"}
                              THEN [task[t] EXCEPT !.late = @ \cup {f}] ELSE task[t]]
  /\ UNCHANGED <<mapFile, registry, memVars, onDisk, lib, calls, solo, saved, missed>>

OthersRemove(f) ==
  /\ others < MaxOthers /\ others' = others + 1
  /\ f \in file[HomeOf[f]].foreign
  /\ file' = [file EXCEPT ![HomeOf[f]].foreign = @ \ {f}]
  /\ UNCHANGED <<mapFile, registry, memVars, onDisk, lib, calls, task, solo, saved, missed>>

\* The process ends, at any point.  What it held stays in mem and rows for the
\* observers; nobody looks there before the next one has loaded the files.
Restart ==
  /\ others < MaxOthers /\ others' = others + 1
  /\ loaded' = FALSE /\ mapLoaded' = FALSE
  /\ task' = [t \in Tasks |-> TaskOf(NoOp, "idle", Empty, {})]
  /\ lib' = NoLib
  /\ solo' = {} /\ saved' = IF saved = "written" THEN saved ELSE "lost"
  /\ UNCHANGED <<fileVars, path, mem, rows, onDisk, calls, missed>>

\* set_shortcuts_path: another user, and nothing in memory.
Switch(u) ==
  /\ u # path /\ path' = u
  /\ mem' = Empty /\ loaded' = FALSE
  /\ UNCHANGED <<fileVars, rows, mapLoaded, envVars, task, solo, saved, missed>>

-----------------------------------------------------------------------------
LoadStep(t) == LoadReads(t) \/ LoadDone(t) \/ MapReads(t) \/ MapDone(t)

SaveStep(t) ==
  \/ SaveReads(t) \/ SaveReadFails(t) \/ SaveMerges(t)
  \/ SaveReplaces(t) \/ SaveFails(t) \/ MapWritten(t) \/ MapFails(t)

Next ==
  \/ \E t \in Tasks : \/ LoadStep(t) \/ SaveStep(t) \/ IconsRead(t) \/ SyncComplete(t)
                      \/ \E g \in Games : InstallChanges(t, g) \/ RemoveGame(t, g)
  \/ SyncFetch \/ Restart
  \/ \E f \in Foreign : OthersAdd(f) \/ OthersRemove(f)

\* One user.
Spec == Init /\ [][Next]_vars

\* The user changes as well.
SwitchSpec == Init /\ [][Next \/ \E u \in Users : Switch(u)]_vars

-----------------------------------------------------------------------------
\* When the last change of the memory was written by an operation that had the
\* files to itself, and neither of its writes failed, both files hold what the
\* memory holds of our games, whatever writes had failed or met before, and
\* stay so through the icons' writes, others' changes and restarts.
SavedIsMemory ==
  saved = "written" => file[path].tag = mem.tag /\ mapFile = rows

\* A write that has the file to itself takes out no shortcut of others, except
\* one that the memory does not hold and the operation has not seen: it came
\* after the operation had read the file, or that read failed.
ForeignKept ==
  [][\A u \in Users : \A f \in file[u].foreign \ file'[u].foreign :
       \/ OthersRemove(f)
       \/ \E t \in Tasks : task[t].pc = "write" /\ (f \in task[t].late \/ t \notin solo)]_vars

\* The tag of a shortcut and its row say what is on disk.  Excepted are, until
\* an install, a removal or a reconcile that writes the game anew with a right
\* library has put it right: a game whose install or removal found no shortcut
\* or still waits for the files to be loaded; one a reconcile has met with a
\* library from before its install or without it; one that was deleted here;
\* and one that a load has brought back otherwise than the memory held it - the
\* change was not written, a file could not be read, or a second first load has
\* put back an older file.
FlagsFollowGames ==
  \A g \in Games \ missed :
    mem.tag[g] # "none" =>
      /\ (mem.tag[g] = "in") = (g \in onDisk)
      /\ (g \in rows) = (g \in onDisk)

\* Nothing of one user's file gets into another's: "Clearing the cache forces a
\* fresh read of the correct file on the next access" (set_shortcuts_path).
OwnFile == \A u \in Users : \A f \in file[u].foreign : HomeOf[f] = u
=============================================================================
