--------------------------- MODULE PostSyncProofs ---------------------------
(***************************************************************************)
(* What follows a library sync, for every number of runs, stores and       *)
(* cancellations: types, that a sync which shows complete is idle, and     *)
(* that a sync cancelled early shows so until the next one begins.         *)
(*                                                                         *)
(* The inductive invariant follows the token that the chain of one run     *)
(* hands on (OneToken): the metadata task, its event, the batch, its       *)
(* event, the compat task.  While one of them exists the last phase is     *)
(* still pending and nothing says it is not (LastPhaseAwaited), and a run  *)
(* that has not replaced the library has no token (NotYetAtWork).          *)
(***************************************************************************)
EXTENDS PostSync, TLAPS

\* No event, or at most one, of these phases is in the line.
NoneOf(line, P) == \A n \in DOMAIN line : line[n].phase \notin P
OneOf(line, P) ==
  \A m, n \in DOMAIN line : line[m].phase \in P /\ line[n].phase \in P => m = n

\* A run that asks for another store has one left.
StoresLeft == pc \in {"progress", "fetching"} => stores.done < stores.available

\* Every task, like the run under way, has the number of a run.
TasksHaveRuns ==
  /\ pc # "idle" => runs \in Runs
  /\ meta # NoTask => meta.st # "none" /\ meta.run \in Runs
  /\ compat # NoTask => compat.st # "none" /\ compat.run \in Runs

\* A run replaces the library last, and one without artwork makes it mixed.
FinalizedLate ==
  /\ pc \in {"setup", "starting", "progress", "fetching"} => ~finalized
  /\ ~mixed /\ finalized => runs \notin NoArtwork
  /\ ~mixed /\ pc = "delivering" => finalized

\* The status of a cancelled run was set with its flag.
CancelShows ==
  status = "cancelled" /\ pc \in {"starting", "progress", "fetching"} => cancelled

\* One SYNC_COMPLETE while it is delivered, none after; a metadata task sends
\* one event, when it is no more; the compat tasks send none down the line.
LineHolds ==
  /\ OneOf(posted, {"SYNC_COMPLETE"})
  /\ pc # "delivering" => NoneOf(posted, {"SYNC_COMPLETE"})
  /\ OneOf(posted, {"metadata"})
  /\ meta # NoTask => NoneOf(posted, {"metadata"})
  /\ NoneOf(posted, {"proton_meta"})

\* The token of the run is in one place.
OneToken ==
  ~mixed =>
    /\ orphans = {} /\ OneOf(posted, Phases)
    /\ meta # NoTask => compat = NoTask /\ batches = {} /\ NoneOf(posted, Phases)
    /\ compat # NoTask => batches = {} /\ NoneOf(posted, Phases)
    /\ batches # {} => NoneOf(posted, Phases)
    /\ \A r, s \in batches : r = s

\* Nothing is about before SYNC_COMPLETE has been taken.
NotYetAtWork ==
  ~mixed /\ (~finalized \/ pc = "delivering") => ~AtWork /\ reports = {} /\ closing = {}

\* With the token about, or about to be, the last phase is not reported.
LastPhaseAwaited ==
  ~mixed /\ finalized /\ (AtWork \/ pc = "delivering") =>
    /\ "proton_meta" \in pending
    /\ \A e \in reports : e.phase # "proton_meta"
    /\ closing = {}
    /\ status # "complete"

IInv ==
  /\ TypeOK
  /\ StoresLeft
  /\ TasksHaveRuns
  /\ FinalizedLate
  /\ CancelShows
  /\ LineHolds
  /\ OneToken
  /\ NotYetAtWork
  /\ LastPhaseAwaited

-----------------------------------------------------------------------------
(* The line of events.                                                     *)

Lines == Events \cup SyncEvents

\* What every kind of event says of its phase.
LEMMA EventPhase ==
  ASSUME NEW p, NEW r, NEW o
  PROVE  Event(p, r, o).phase = p /\ Event(p, r, o).run = r /\ Event(p, r, o).by = o
  BY DEF Event

LEMMA AppendToLine ==
  ASSUME NEW line \in Seq(Lines), NEW e \in Lines, NEW P
  PROVE  /\ Append(line, e) \in Seq(Lines)
         /\ NoneOf(line, P) /\ e.phase \notin P => NoneOf(Append(line, e), P)
         /\ OneOf(line, P) /\ e.phase \notin P => OneOf(Append(line, e), P)
         /\ NoneOf(line, P) => OneOf(Append(line, e), P)
  <1>1. /\ DOMAIN Append(line, e) = DOMAIN line \cup {Len(line) + 1}
        /\ \A n \in DOMAIN line : Append(line, e)[n] = line[n]
        /\ Append(line, e)[Len(line) + 1] = e
    OBVIOUS
  <1>2. QED
    BY <1>1 DEF NoneOf, OneOf

LEMMA TailOfLine ==
  ASSUME NEW line \in Seq(Lines), line # <<>>, NEW P
  PROVE  /\ Tail(line) \in Seq(Lines) /\ Head(line) \in Lines
         /\ NoneOf(line, P) => NoneOf(Tail(line), P)
         /\ OneOf(line, P) => OneOf(Tail(line), P)
         /\ OneOf(line, P) /\ Head(line).phase \in P => NoneOf(Tail(line), P)
  <1>1. /\ \A n \in DOMAIN Tail(line) : /\ n \in Nat \ {0} /\ n + 1 \in DOMAIN line
                                       /\ Tail(line)[n] = line[n + 1]
        /\ 1 \in DOMAIN line /\ Head(line) = line[1]
        /\ Tail(line) \in Seq(Lines) /\ Head(line) \in Lines
    OBVIOUS
  <1>2. NoneOf(line, P) => NoneOf(Tail(line), P)
    BY <1>1 DEF NoneOf
  <1>3. ASSUME OneOf(line, P)
        PROVE  OneOf(Tail(line), P)
    <2> SUFFICES ASSUME NEW m \in DOMAIN Tail(line), NEW n \in DOMAIN Tail(line),
                        Tail(line)[m].phase \in P, Tail(line)[n].phase \in P
                 PROVE  m = n
      BY DEF OneOf
    <2>1. m + 1 = n + 1 /\ m \in Nat /\ n \in Nat
      BY <1>1, <1>3 DEF OneOf
    <2>2. QED
      BY <2>1
  <1>4. ASSUME OneOf(line, P), Head(line).phase \in P
        PROVE  NoneOf(Tail(line), P)
    <2> SUFFICES ASSUME NEW n \in DOMAIN Tail(line), Tail(line)[n].phase \in P
                 PROVE  FALSE
      BY DEF NoneOf
    <2>1. n + 1 = 1 /\ n \in Nat \ {0}
      BY <1>1, <1>4 DEF OneOf
    <2>2. QED
      BY <2>1
  <1>5. QED
    BY <1>1, <1>2, <1>3, <1>4

LEMMA RemoveFromLine ==
  ASSUME NEW line \in Seq(Lines), NEW i \in DOMAIN line, NEW P
  PROVE  /\ RemoveAt(line, i) \in Seq(Lines)
         /\ NoneOf(line, P) => NoneOf(RemoveAt(line, i), P)
         /\ OneOf(line, P) => OneOf(RemoveAt(line, i), P)
         /\ OneOf(line, P) /\ line[i].phase \in P => NoneOf(RemoveAt(line, i), P)
  <1> DEFINE front == SubSeq(line, 1, i-1)
             back == SubSeq(line, i+1, Len(line))
             rest == front \o back
             Old(n) == IF n < i THEN n ELSE n + 1
  <1>0. i \in 1..Len(line) /\ Len(line) \in Nat /\ DOMAIN line = 1..Len(line)
    OBVIOUS
  <1>1. /\ front \in Seq(Lines) /\ Len(front) = i - 1
        /\ \A n \in 1..(i-1) : front[n] = line[n]
    BY <1>0
  <1>2. /\ back \in Seq(Lines) /\ Len(back) = Len(line) - i
        /\ \A n \in 1..(Len(line) - i) : back[n] = line[i + n]
    BY <1>0
  <1>. RemoveAt(line, i) = rest
    BY DEF RemoveAt
  <1> HIDE DEF front, back
  <1>3. rest \in Seq(Lines) /\ Len(rest) = Len(line) - 1 /\ DOMAIN rest = 1..(Len(line) - 1)
    <2>1. rest \in Seq(Lines) /\ Len(rest) = Len(front) + Len(back)
      BY <1>1, <1>2
    <2>2. Len(front) + Len(back) = Len(line) - 1
      BY <1>0, <1>1, <1>2
    <2>3. QED
      BY <2>1, <2>2
  <1>4. ASSUME NEW n \in DOMAIN rest
        PROVE  /\ n \in Nat \ {0} /\ Old(n) \in DOMAIN line /\ Old(n) # i
               /\ rest[n] = line[Old(n)]
    <2>1. n \in 1..(Len(line) - 1)
      BY <1>3
    <2>2. CASE n < i
      <3>1. n \in 1..Len(front)
        BY <1>0, <1>1, <2>1, <2>2
      <3>2. rest[n] = front[n]
        BY <1>1, <1>2, <3>1
      <3>3. QED
        BY <1>0, <1>1, <2>1, <2>2, <3>1, <3>2
    <2>3. CASE ~(n < i)
      <3>1. n - (i - 1) \in 1..(Len(line) - i) /\ i + (n - (i - 1)) = n + 1
        BY <1>0, <2>1, <2>3
      <3>2. rest[n] = back[n - Len(front)]
        BY <1>0, <1>1, <1>2, <2>1, <2>3
      <3>3. rest[n] = line[n + 1]
        BY <1>1, <1>2, <3>1, <3>2
      <3>4. QED
        BY <1>0, <2>1, <2>3, <3>3
    <2>4. QED
      BY <2>2, <2>3
  <1>5. \A m, n \in DOMAIN rest : Old(m) = Old(n) => m = n
    <2> SUFFICES ASSUME NEW m \in Nat, NEW n \in Nat, Old(m) = Old(n)
                 PROVE  m = n
      BY <1>4
    <2>1. QED
      BY <1>0
  <1> HIDE DEF Old, rest
  <1>6. NoneOf(line, P) => NoneOf(rest, P)
    BY <1>4 DEF NoneOf
  <1>7. OneOf(line, P) => OneOf(rest, P)
    BY <1>4, <1>5 DEF OneOf
  <1>8. OneOf(line, P) /\ line[i].phase \in P => NoneOf(rest, P)
    BY <1>0, <1>4 DEF OneOf, NoneOf
  <1>9. QED
    BY <1>3, <1>6, <1>7, <1>8

\* A cancelled metadata task leaves no event of its phase behind.
LEMMA SilencedLine ==
  ASSUME NEW line \in Seq(Lines), NEW P
  PROVE  /\ Silenced(line) \in Seq(Lines)
         /\ NoneOf(line, P) => NoneOf(Silenced(line), P)
         /\ OneOf(line, P) => OneOf(Silenced(line), P)
         /\ OneOf(line, {"metadata"}) => NoneOf(Silenced(line), {"metadata"})
  <1> DEFINE unheard == {n \in DOMAIN line : line[n].phase = "metadata"}
             i == CHOOSE n \in unheard : TRUE
  <1>1. CASE unheard = {}
    <2>1. Silenced(line) = line
      BY <1>1 DEF Silenced
    <2>2. NoneOf(line, {"metadata"})
      BY <1>1 DEF NoneOf
    <2>3. QED
      BY <2>1, <2>2
  <1>2. CASE unheard # {}
    <2>1. i \in unheard /\ Silenced(line) = RemoveAt(line, i)
      BY <1>2 DEF Silenced
    <2>2. i \in DOMAIN line /\ line[i].phase \in {"metadata"}
      BY <2>1
    <2> HIDE DEF i
    <2>3. QED
      BY <2>1, <2>2, RemoveFromLine
  <1>3. QED
    BY <1>1, <1>2

\* What a member of the line is made of, and what makes one.
LEMMA LineFields ==
  ASSUME NEW e \in Lines
  PROVE  /\ e.run \in Runs /\ e.by \in Origins
         /\ e.phase \in Phases \cup {"SYNC_COMPLETE", "SYNC_CANCELLED"}
  BY DEF Lines, Events, SyncEvents, Origins

LEMMA EventType ==
  ASSUME NEW p \in Phases, NEW r \in Runs, NEW o \in Origins
  PROVE  Event(p, r, o) \in Events /\ Event(p, r, o) \in Lines
  BY DEF Event, Events, Lines

LEMMA SyncEventType ==
  ASSUME NEW name \in {"SYNC_COMPLETE", "SYNC_CANCELLED"}, runs \in Runs
  PROVE  SyncEvent(name) \in Lines /\ SyncEvent(name).phase = name
  BY DEF SyncEvent, Event, SyncEvents, Lines

\* A run's number is one that a task may have, and none is no run's.
LEMMA TaskType ==
  ASSUME NEW s \in {"none", "created", "running", "dying"}, NEW r \in Runs, NEW o \in Origins
  PROVE  /\ Task(s, r, o) \in Tasks /\ Task(s, r, o).st = s /\ Task(s, r, o).run = r
         /\ s # "none" => Task(s, r, o) # NoTask
  <1>1. r \in 0..MaxRuns
    BY RunsAssumption DEF Runs
  <1>2. QED
    BY <1>1 DEF Task, Tasks, NoTask

LEMMA NoTaskType ==
  NoTask \in Tasks /\ NoTask.st = "none"
  <1>1. 0 \in 0..MaxRuns
    BY RunsAssumption
  <1>2. QED
    BY <1>1 DEF NoTask, Task, Tasks, Origins

\* The token and the line, read together.
Quiet ==
  meta = NoTask /\ compat = NoTask /\ batches = {} /\ orphans = {} /\ NoneOf(posted, Phases)

LEMMA AtWorkIs == (AtWork <=> ~Quiet) /\ (AtWork' <=> ~Quiet')
  BY DEF AtWork, Quiet, NoneOf

-----------------------------------------------------------------------------
(* The run, whatever the stores answer.                                    *)

LEMMA RunKept ==
  ASSUME RunTypeOK, StoresLeft,
         \/ RunBegins \/ SetUp \/ NoStores \/ NextStore \/ GiveUp \/ FetchStarts \/ Finalize
         \/ Delivered \/ Skips \/ Raises \/ RunEnds \/ CancelRun \/ SignalDelivered
  PROVE  RunTypeOK' /\ StoresLeft'
  <1> USE RunsAssumption DEF RunTypeOK, StoresLeft
  <1>1. CASE RunBegins
    <2>1. runs' \in 0..MaxRuns
      BY <1>1 DEF RunBegins
    <2>2. stores' \in [available : 0..NumStores, done : 0..NumStores]
      BY <1>1 DEF RunBegins
    <2>3. QED
      BY <1>1, <2>1, <2>2 DEF RunBegins
  <1>2. CASE SetUp \/ NoStores \/ FetchStarts \/ Delivered \/ Skips \/ RunEnds
    <2>1. CASE SetUp
      BY <2>1 DEF SetUp
    <2>2. CASE RunEnds
      BY <2>2 DEF RunEnds
    <2>3. CASE NoStores \/ Delivered \/ Skips
      BY <2>3 DEF NoStores, Delivered, Skips
    <2>4. CASE FetchStarts
      BY <2>4 DEF FetchStarts
    <2>5. QED
      BY <1>2, <2>1, <2>2, <2>3, <2>4
  <1>3. CASE CancelRun \/ SignalDelivered
    <2>1. CASE CancelRun
      BY <2>1 DEF CancelRun
    <2>2. CASE SignalDelivered
      BY <2>2 DEF SignalDelivered
    <2>3. QED
      BY <1>3, <2>1, <2>2
  <1>4. CASE NextStore \/ GiveUp \/ Finalize \/ Raises
    <2>1. /\ stores' \in [available : 0..NumStores, done : 0..NumStores]
          /\ stores'.available = stores.available
      <3>1. CASE stores' = stores
        BY <3>1
      <3>2. CASE FetchOver
        <4>1. stores.done + 1 \in 0..NumStores
          BY <3>2 DEF FetchOver
        <4>2. QED
          BY <3>2, <4>1 DEF FetchOver
      <3>3. QED
        BY <1>4, <3>1, <3>2 DEF NextStore, GiveUp, Finalize, Raises, AtCheck
    <2>2. CASE NextStore
      BY <2>1, <2>2 DEF NextStore
    <2>3. CASE GiveUp
      BY <2>1, <2>3 DEF GiveUp
    <2>4. CASE Finalize
      BY <2>1, <2>4 DEF Finalize
    <2>5. CASE Raises
      BY <2>1, <2>5 DEF Raises
    <2>6. QED
      BY <1>4, <2>2, <2>3, <2>4, <2>5
  <1>5. QED
    BY <1>1, <1>2, <1>3, <1>4

-----------------------------------------------------------------------------
(* The three services.                                                     *)

\* A step of the service that has the token says nothing about the last phase,
\* or has been the last.
LEMMA TokenStep ==
  ASSUME IInv, AtWork, UNCHANGED <<runVars, pending, closing, restVars>>,
         status' \in {status, "metadata", "proton_meta"},
         ~AtWork' \/ \A e \in reports' : e \in reports \/ e.phase # "proton_meta"
  PROVE  /\ RunTypeOK' /\ StoresLeft' /\ FinalizedLate' /\ CancelShows'
         /\ NotYetAtWork' /\ LastPhaseAwaited'
  <1> USE DEF IInv
  <1>1. UNCHANGED <<runs, pc, stores, cancelled, signals, finalized, sent, watchdog, walk,
                    cancels, mixed, pending, closing>>
    BY DEF runVars, restVars
  <1>2. RunTypeOK' /\ StoresLeft' /\ FinalizedLate'
    BY <1>1 DEF TypeOK, RunTypeOK, StoresLeft, FinalizedLate
  <1>3. CancelShows'
    BY <1>1 DEF CancelShows
  <1>4. ~mixed => finalized /\ pc # "delivering"
    BY DEF NotYetAtWork
  <1>5. NotYetAtWork'
    BY <1>1, <1>4 DEF NotYetAtWork
  <1>6. LastPhaseAwaited'
    BY <1>1, <1>4 DEF LastPhaseAwaited
  <1>7. QED
    BY <1>2, <1>3, <1>5, <1>6

LEMMA MetaKeepsInv ==
  ASSUME IInv, MetaFirstStep \/ MetaDone
  PROVE  IInv'
  <1> USE DEF IInv
  <1>1. /\ meta.st \in {"created", "running"} /\ meta # NoTask /\ AtWork
        /\ meta \in Tasks /\ meta.run \in Runs
        /\ UNCHANGED <<runVars, tracked, pending, batches, compat, orphans, closing, restVars>>
    BY NoTaskType DEF MetaFirstStep, MetaDone, AtWork, TypeOK, TasksHaveRuns, busVars, barVars, Emit
  <1>2. /\ NoneOf(posted, {"metadata"})
        /\ ~mixed => compat = NoTask /\ batches = {} /\ orphans = {} /\ NoneOf(posted, Phases)
    BY <1>1 DEF LineHolds, OneToken
  <1>3. CASE /\ meta' = [meta EXCEPT !.st = "running"]
             /\ status' \in {status, "metadata"}
             /\ UNCHANGED <<posted, reports>>
    <2>1. meta' \in Tasks /\ meta'.st = "running" /\ meta'.run \in Runs
      BY <1>1, <1>3 DEF Tasks
    <2>2. meta' # NoTask
      BY <2>1, NoTaskType
    <2>3. /\ RunTypeOK' /\ StoresLeft' /\ FinalizedLate' /\ CancelShows'
          /\ NotYetAtWork' /\ LastPhaseAwaited'
      BY <1>1, <1>3, TokenStep
    <2>4. TypeOK'
      BY <1>1, <1>3, <2>1, <2>3 DEF TypeOK, restVars
    <2>5. TasksHaveRuns'
      BY <1>1, <2>1 DEF TasksHaveRuns, runVars
    <2>6. LineHolds'
      BY <1>1, <1>2, <1>3 DEF LineHolds, runVars
    <2>7. OneToken'
      BY <1>1, <1>2, <1>3 DEF OneToken, restVars
    <2>8. QED
      BY <2>3, <2>4, <2>5, <2>6, <2>7
  <1>4. CASE /\ meta' = NoTask
             /\ Emit(Event("metadata", meta.run, "chain"))
             /\ UNCHANGED status
    <2> DEFINE e == Event("metadata", meta.run, "chain")
    <2>1. /\ e \in Events /\ e \in Lines /\ e.phase = "metadata"
          /\ posted' = Append(posted, e) /\ reports' = reports \cup {e}
      BY <1>1, <1>4, EventType, EventPhase DEF Phases, Origins, Emit
    <2>2. posted \in Seq(Lines)
      BY DEF TypeOK, Lines
    <2> HIDE DEF e
    <2>3. posted' \in Seq(Lines)
      BY <2>1, <2>2, AppendToLine
    <2>4. /\ RunTypeOK' /\ StoresLeft' /\ FinalizedLate' /\ CancelShows'
          /\ NotYetAtWork' /\ LastPhaseAwaited'
      BY <1>1, <1>4, <2>1, TokenStep
    <2>5. TypeOK'
      BY <1>1, <1>4, <2>1, <2>3, <2>4, NoTaskType DEF TypeOK, Lines, restVars
    <2>6. TasksHaveRuns'
      BY <1>1, <1>4 DEF TasksHaveRuns, runVars
    <2>7. LineHolds'
      <3>1. OneOf(posted', {"SYNC_COMPLETE"})
        BY <2>1, <2>2, AppendToLine DEF LineHolds
      <3>2. pc' # "delivering" => NoneOf(posted', {"SYNC_COMPLETE"})
        BY <1>1, <2>1, <2>2, AppendToLine DEF LineHolds, runVars
      <3>3. OneOf(posted', {"metadata"}) /\ NoneOf(posted', {"proton_meta"})
        BY <1>2, <2>1, <2>2, AppendToLine DEF LineHolds
      <3>4. QED
        BY <1>4, <3>1, <3>2, <3>3 DEF LineHolds
    <2>8. OneToken'
      <3>1. ~mixed => OneOf(posted', Phases)
        BY <1>2, <2>1, <2>2, AppendToLine
      <3>2. QED
        BY <1>1, <1>2, <1>4, <3>1 DEF OneToken, restVars
    <2>9. QED
      BY <2>4, <2>5, <2>6, <2>7, <2>8
  <1>5. QED
    BY <1>1, <1>3, <1>4 DEF MetaFirstStep, MetaDone, busVars, barVars

\* The artwork service takes the event of the metadata, and hands on a batch or
\* its own event.
LEMMA OnMetadataDoneKeepsInv ==
  ASSUME IInv, OnMetadataDone
  PROVE  IInv'
  <1> USE DEF IInv
  <1> DEFINE r == Head(posted).run
             e == Event("artwork", r, "chain")
  <1>0. posted \in Seq(Lines) /\ posted # <<>> /\ Head(posted).phase = "metadata"
    BY DEF OnMetadataDone, Takes, TypeOK, Lines
  <1>1. Head(posted) \in Lines /\ r \in Runs
    BY <1>0, TailOfLine, LineFields
  <1>2. /\ e \in Events /\ e \in Lines /\ e.phase = "artwork"
    BY <1>1, EventType, EventPhase DEF Phases, Origins
  <1>3. /\ UNCHANGED <<runVars, barVars, meta, compat, orphans, closing, restVars>>
        /\ \/ /\ batches' = batches \cup {r}
              /\ posted' = Tail(posted) /\ UNCHANGED reports
           \/ /\ posted' = Append(Tail(posted), e)
              /\ reports' = reports \cup {e} /\ UNCHANGED batches
    BY DEF OnMetadataDone
  <1>4. /\ ~NoneOf(posted, {"metadata"}) /\ ~NoneOf(posted, Phases)
        /\ Head(posted).phase \in Phases /\ Head(posted).phase \in {"metadata"}
    <2>1. 1 \in DOMAIN posted /\ Head(posted) = posted[1]
      BY <1>0
    <2>2. QED
      BY <1>0, <2>1 DEF NoneOf, Phases
  <1> HIDE DEF r, e
  <1>5. Tail(posted) \in Seq(Lines)
    BY <1>0, TailOfLine
  <1>6. AtWork
    BY <1>4, AtWorkIs DEF Quiet
  <1>7. posted' \in Seq(Lines)
    BY <1>2, <1>3, <1>5, AppendToLine
  <1>8. /\ RunTypeOK' /\ StoresLeft' /\ FinalizedLate' /\ CancelShows'
        /\ NotYetAtWork' /\ LastPhaseAwaited'
    <2>1. \A d \in reports' : d \in reports \/ d.phase # "proton_meta"
      BY <1>2, <1>3
    <2>2. QED
      BY <1>3, <1>6, <2>1, TokenStep DEF barVars
  <1>9. TypeOK'
    BY <1>1, <1>2, <1>3, <1>7, <1>8 DEF TypeOK, Lines, restVars, barVars
  <1>10. TasksHaveRuns'
    BY <1>3 DEF TasksHaveRuns, runVars
  <1>11. LineHolds'
    <2>1. OneOf(posted', {"SYNC_COMPLETE"})
      BY <1>0, <1>2, <1>3, <1>5, TailOfLine, AppendToLine DEF LineHolds
    <2>2. pc' # "delivering" => NoneOf(posted', {"SYNC_COMPLETE"})
      BY <1>0, <1>2, <1>3, <1>5, TailOfLine, AppendToLine DEF LineHolds, runVars
    <2>3. OneOf(posted', {"metadata"}) /\ NoneOf(posted', {"proton_meta"})
      BY <1>0, <1>2, <1>3, <1>5, TailOfLine, AppendToLine DEF LineHolds
    <2>4. meta = NoTask
      BY <1>4 DEF LineHolds
    <2>5. QED
      BY <1>3, <2>1, <2>2, <2>3, <2>4 DEF LineHolds
  <1>12. OneToken'
    <2> SUFFICES ASSUME ~mixed
                 PROVE  OneToken'
      BY <1>3 DEF OneToken, restVars
    <2>1. /\ meta = NoTask /\ compat = NoTask /\ batches = {} /\ orphans = {}
          /\ OneOf(posted, Phases)
      BY <1>4 DEF OneToken
    <2>2. NoneOf(Tail(posted), Phases)
      BY <1>0, <1>4, <2>1, TailOfLine
    <2>3. OneOf(posted', Phases)
      BY <1>0, <1>2, <1>3, <1>5, <2>1, <2>2, TailOfLine, AppendToLine
    <2>4. QED
      BY <1>3, <2>1, <2>2, <2>3 DEF OneToken
  <1>13. QED
    BY <1>8, <1>9, <1>10, <1>11, <1>12

\* The batch is over.
LEMMA BatchDoneKeepsInv ==
  ASSUME IInv, NEW r \in batches, BatchDone(r)
  PROVE  IInv'
  <1> USE DEF IInv
  <1> DEFINE e == Event("artwork", r, "chain")
  <1>1. /\ UNCHANGED <<runVars, barVars, meta, compat, orphans, closing, restVars>>
        /\ batches' = batches \ {r}
        /\ posted' = Append(posted, e) /\ reports' = reports \cup {e}
    BY DEF BatchDone, Emit
  <1>2. /\ e \in Events /\ e \in Lines /\ e.phase = "artwork"
        /\ posted \in Seq(Lines)
    BY EventType, EventPhase DEF Phases, Origins, TypeOK, Lines
  <1> HIDE DEF e
  <1>3. posted' \in Seq(Lines)
    BY <1>1, <1>2, AppendToLine
  <1>4. AtWork
    BY DEF AtWork
  <1>5. /\ RunTypeOK' /\ StoresLeft' /\ FinalizedLate' /\ CancelShows'
        /\ NotYetAtWork' /\ LastPhaseAwaited'
    <2>1. \A d \in reports' : d \in reports \/ d.phase # "proton_meta"
      BY <1>1, <1>2
    <2>2. QED
      BY <1>1, <1>4, <2>1, TokenStep DEF barVars
  <1>6. TypeOK'
    BY <1>1, <1>2, <1>3, <1>5 DEF TypeOK, Lines, restVars, barVars
  <1>7. TasksHaveRuns'
    BY <1>1 DEF TasksHaveRuns, runVars
  <1>8. LineHolds'
    <2>1. OneOf(posted', {"SYNC_COMPLETE"})
      BY <1>1, <1>2, AppendToLine DEF LineHolds
    <2>2. pc' # "delivering" => NoneOf(posted', {"SYNC_COMPLETE"})
      BY <1>1, <1>2, AppendToLine DEF LineHolds, runVars
    <2>3. /\ OneOf(posted', {"metadata"}) /\ NoneOf(posted', {"proton_meta"})
          /\ meta # NoTask => NoneOf(posted', {"metadata"})
      BY <1>1, <1>2, AppendToLine DEF LineHolds
    <2>4. QED
      BY <1>1, <2>1, <2>2, <2>3 DEF LineHolds
  <1>9. OneToken'
    <2> SUFFICES ASSUME ~mixed
                 PROVE  OneToken'
      BY <1>1 DEF OneToken, restVars
    <2>1. /\ meta = NoTask /\ compat = NoTask /\ batches' = {} /\ orphans = {}
          /\ NoneOf(posted, Phases)
      BY <1>1 DEF OneToken
    <2>2. OneOf(posted', Phases)
      BY <1>1, <1>2, <2>1, AppendToLine
    <2>3. QED
      BY <1>1, <2>1, <2>2 DEF OneToken
  <1>10. QED
    BY <1>5, <1>6, <1>7, <1>8, <1>9

\* The compatibility service takes the event of the artwork: a task is created,
\* and one already there is an orphan, which the chain of one run never has.
LEMMA OnArtworkDoneKeepsInv ==
  ASSUME IInv, OnArtworkDone
  PROVE  IInv'
  <1> USE DEF IInv
  <1>0. posted \in Seq(Lines) /\ posted # <<>> /\ Head(posted).phase = "artwork"
    BY DEF OnArtworkDone, Takes, TypeOK, Lines
  <1>1. Head(posted) \in Lines /\ Head(posted).run \in Runs /\ Head(posted).by \in Origins
    BY <1>0, TailOfLine, LineFields
  <1>2. /\ UNCHANGED <<runVars, barVars, meta, batches, closing, restVars>>
        /\ compat' = Task("created", Head(posted).run, Head(posted).by)
        /\ posted' = Tail(posted) /\ reports' \subseteq reports
        /\ \/ orphans' = orphans
           \/ /\ compat.st \in {"running", "dying"}
              /\ orphans' = orphans \cup {compat.run}
    BY DEF OnArtworkDone
  <1>3. ~NoneOf(posted, Phases) /\ Head(posted).phase \in Phases
    <2>1. 1 \in DOMAIN posted /\ Head(posted) = posted[1]
      BY <1>0
    <2>2. QED
      BY <1>0, <2>1 DEF NoneOf, Phases
  <1>4. posted' \in Seq(Lines)
    BY <1>0, <1>2, TailOfLine
  <1>5. AtWork
    BY <1>3, AtWorkIs DEF Quiet
  <1>6. compat' \in Tasks /\ compat'.st = "created" /\ compat'.run \in Runs
    BY <1>1, <1>2, TaskType
  <1>7. orphans' \subseteq Runs
    <2>1. compat.st \in {"running", "dying"} => compat.run \in Runs
      BY NoTaskType DEF TasksHaveRuns
    <2>2. QED
      BY <1>2, <2>1 DEF TypeOK
  <1>8. /\ RunTypeOK' /\ StoresLeft' /\ FinalizedLate' /\ CancelShows'
        /\ NotYetAtWork' /\ LastPhaseAwaited'
    BY <1>2, <1>5, TokenStep DEF barVars
  <1>9. TypeOK'
    BY <1>2, <1>4, <1>6, <1>7, <1>8 DEF TypeOK, Lines, restVars, barVars
  <1>10. TasksHaveRuns'
    BY <1>2, <1>6 DEF TasksHaveRuns, runVars
  <1>11. LineHolds'
    BY <1>0, <1>2, TailOfLine DEF LineHolds, runVars
  <1>12. OneToken'
    <2> SUFFICES ASSUME ~mixed
                 PROVE  OneToken'
      BY <1>2 DEF OneToken, restVars
    <2>1. /\ meta = NoTask /\ compat = NoTask /\ batches = {} /\ orphans = {}
          /\ OneOf(posted, Phases)
      BY <1>3 DEF OneToken
    <2>2. NoneOf(posted', Phases) /\ OneOf(posted', Phases)
      BY <1>0, <1>2, <1>3, <2>1, TailOfLine
    <2>3. QED
      BY <1>2, <2>1, <2>2, NoTaskType DEF OneToken
  <1>13. QED
    BY <1>8, <1>9, <1>10, <1>11, <1>12

\* The compatibility service: its task says last what nothing else says.
LEMMA CompatKeepsInv ==
  ASSUME IInv, CompatFirstStep \/ CompatDone
  PROVE  IInv'
  <1> USE DEF IInv
  <1>1. /\ compat.st \in {"created", "running", "dying"} /\ compat # NoTask /\ AtWork
        /\ compat \in Tasks /\ compat.run \in Runs /\ compat.by \in Origins
        /\ UNCHANGED <<runVars, tracked, pending, meta, batches, orphans, posted, closing,
                       restVars>>
    BY NoTaskType DEF CompatFirstStep, CompatDone, AtWork, TypeOK, TasksHaveRuns, barVars, Tasks
  <1>2. ~mixed => meta = NoTask /\ batches = {} /\ orphans = {} /\ NoneOf(posted, Phases)
    BY <1>1 DEF OneToken
  <1>3. LineHolds'
    BY <1>1 DEF LineHolds, runVars
  <1>4. CASE /\ compat' = [compat EXCEPT !.st = "running"]
             /\ status' \in {status, "proton_meta"} /\ UNCHANGED reports
    <2>1. compat' \in Tasks /\ compat'.st = "running" /\ compat'.run \in Runs
      BY <1>1, <1>4 DEF Tasks
    <2>2. /\ RunTypeOK' /\ StoresLeft' /\ FinalizedLate' /\ CancelShows'
          /\ NotYetAtWork' /\ LastPhaseAwaited'
      BY <1>1, <1>4, TokenStep
    <2>3. TypeOK'
      BY <1>1, <1>4, <2>1, <2>2 DEF TypeOK, restVars
    <2>4. TasksHaveRuns'
      BY <1>1, <2>1 DEF TasksHaveRuns, runVars
    <2>5. OneToken'
      BY <1>1, <1>2 DEF OneToken, restVars
    <2>6. QED
      BY <1>3, <2>2, <2>3, <2>4, <2>5
  <1>5. CASE /\ compat' = NoTask
             /\ reports' = reports \cup {CompatEvent}
             /\ UNCHANGED status
    <2>1. CompatEvent \in Events
      BY <1>1, EventType DEF CompatEvent, Phases
    <2>2. /\ RunTypeOK' /\ StoresLeft' /\ FinalizedLate' /\ CancelShows'
          /\ NotYetAtWork' /\ LastPhaseAwaited'
      <3>1. CASE mixed
        <4>1. RunTypeOK' /\ StoresLeft' /\ mixed'
          BY <1>1, <3>1 DEF TypeOK, RunTypeOK, StoresLeft, runVars, restVars
        <4>2. QED
          BY <1>1, <1>5, <4>1 DEF FinalizedLate, CancelShows, NotYetAtWork, LastPhaseAwaited,
             runVars
      <3>2. CASE ~mixed
        <4>1. ~AtWork'
          BY <1>1, <1>2, <1>5, <3>2, AtWorkIs DEF Quiet
        <4>2. QED
          BY <1>1, <1>5, <4>1, TokenStep
      <3>3. QED
        BY <3>1, <3>2
    <2>3. TypeOK'
      BY <1>1, <1>5, <2>1, <2>2, NoTaskType DEF TypeOK, restVars
    <2>4. TasksHaveRuns'
      BY <1>1, <1>5 DEF TasksHaveRuns, runVars
    <2>5. OneToken'
      BY <1>1, <1>2, <1>5 DEF OneToken, restVars
    <2>6. QED
      BY <1>3, <2>2, <2>3, <2>4, <2>5
  <1>6. QED
    BY <1>1, <1>4, <1>5 DEF CompatFirstStep, CompatDone, barVars

\* A task that was replaced is at work in a mixed run only.
LEMMA OrphanKeepsInv ==
  ASSUME IInv, NEW r \in orphans, OrphanDone(r)
  PROVE  IInv'
  <1> USE DEF IInv
  <1> DEFINE e == Event("proton_meta", r, "orphan")
  <1>1. /\ UNCHANGED <<runVars, barVars, meta, batches, compat, posted, closing, restVars>>
        /\ orphans' = orphans \ {r} /\ reports' = reports \cup {e}
    BY DEF OrphanDone
  <1>2. e \in Events
    BY EventType DEF Phases, Origins, TypeOK
  <1> HIDE DEF e
  <1>3. mixed /\ mixed'
    BY <1>1 DEF OneToken, restVars, TypeOK
  <1>4. TypeOK' /\ StoresLeft'
    BY <1>1, <1>2 DEF TypeOK, RunTypeOK, StoresLeft, runVars, restVars, barVars
  <1>5. QED
    BY <1>1, <1>3, <1>4 DEF TasksHaveRuns, FinalizedLate, CancelShows, LineHolds, OneToken,
       NotYetAtWork, LastPhaseAwaited, runVars, barVars

-----------------------------------------------------------------------------
(* SyncService.                                                            *)

\* The tasks, the line and the run are as they were: so is the token.
LEMMA TokenStays ==
  ASSUME IInv, UNCHANGED <<runVars, taskVars, posted>>,
         mixed' \in BOOLEAN, mixed => mixed'
  PROVE  /\ RunTypeOK' /\ StoresLeft' /\ TasksHaveRuns' /\ FinalizedLate'
         /\ LineHolds' /\ OneToken' /\ (AtWork' <=> AtWork)
  <1> USE DEF IInv, runVars, taskVars
  <1>1. RunTypeOK' /\ StoresLeft' /\ TasksHaveRuns' /\ FinalizedLate'
    BY DEF TypeOK, RunTypeOK, StoresLeft, TasksHaveRuns, FinalizedLate
  <1>2. LineHolds' /\ OneToken'
    BY DEF LineHolds, OneToken
  <1>3. AtWork' <=> AtWork
    BY DEF AtWork
  <1>4. QED
    BY <1>1, <1>2, <1>3

\* A phase is reported; with the token about it is not the last.
LEMMA ReportKeepsInv ==
  ASSUME IInv, NEW e \in reports, Report(e)
  PROVE  IInv'
  <1> USE DEF IInv, Report
  <1>1. /\ RunTypeOK' /\ StoresLeft' /\ TasksHaveRuns' /\ FinalizedLate'
        /\ LineHolds' /\ OneToken' /\ (AtWork' <=> AtWork)
    BY TokenStays DEF restVars, TypeOK
  <1>2. TypeOK'
    BY <1>1 DEF TypeOK, taskVars, restVars
  <1>3. CancelShows'
    BY DEF CancelShows, runVars
  <1>4. NotYetAtWork'
    BY <1>1 DEF NotYetAtWork, runVars, restVars
  <1>5. LastPhaseAwaited'
    BY <1>1 DEF LastPhaseAwaited, runVars, restVars
  <1>6. QED
    BY <1>1, <1>2, <1>3, <1>4, <1>5

\* A thread that has found the set empty acts: the token is gone.
LEMMA CloseKeepsInv ==
  ASSUME IInv, NEW e \in closing, Close(e)
  PROVE  IInv'
  <1> USE DEF IInv, Close
  <1>1. /\ RunTypeOK' /\ StoresLeft' /\ TasksHaveRuns' /\ FinalizedLate'
        /\ LineHolds' /\ OneToken' /\ (AtWork' <=> AtWork)
    BY TokenStays DEF restVars, TypeOK
  <1>2. TypeOK'
    BY <1>1 DEF TypeOK, taskVars, restVars
  <1>3. CancelShows'
    BY DEF CancelShows, runVars
  <1>4. closing # {}
    OBVIOUS
  <1>5. NotYetAtWork' /\ LastPhaseAwaited'
    BY <1>1, <1>4 DEF NotYetAtWork, LastPhaseAwaited, runVars, restVars
  <1>6. QED
    BY <1>1, <1>2, <1>3, <1>5

LEMMA ClocksKeepInv ==
  ASSUME IInv, WatchdogFires \/ WalkEnds
  PROVE  IInv'
  <1> USE DEF IInv
  <1>1. CASE WatchdogFires
    <2> USE DEF WatchdogFires
    <2>1. /\ RunTypeOK' /\ StoresLeft' /\ TasksHaveRuns' /\ FinalizedLate'
          /\ LineHolds' /\ OneToken'
      BY <1>1, TokenStays DEF busVars
    <2>2. TypeOK'
      BY <1>1, <2>1 DEF TypeOK, taskVars, busVars
    <2>3. CancelShows' /\ NotYetAtWork' /\ LastPhaseAwaited'
      BY <1>1 DEF CancelShows, NotYetAtWork, LastPhaseAwaited, runVars
    <2>4. QED
      BY <2>1, <2>2, <2>3
  <1>2. CASE WalkEnds
    <2> USE DEF WalkEnds
    <2>1. /\ RunTypeOK' /\ StoresLeft' /\ TasksHaveRuns' /\ FinalizedLate'
          /\ LineHolds' /\ OneToken' /\ (AtWork' <=> AtWork)
      BY <1>2, TokenStays DEF busVars, TypeOK
    <2>2. TypeOK'
      BY <1>2, <2>1 DEF TypeOK, taskVars, busVars, barVars
    <2>3. CancelShows' /\ NotYetAtWork' /\ LastPhaseAwaited'
      BY <1>2, <2>1 DEF CancelShows, NotYetAtWork, LastPhaseAwaited, runVars, busVars, barVars
    <2>4. QED
      BY <2>1, <2>2, <2>3
  <1>3. QED
    BY <1>1, <1>2

-----------------------------------------------------------------------------
(* The run.                                                                *)

Early == {"setup", "starting", "progress", "fetching"}

\* A stretch that sends nothing leaves the token where it is.
LEMMA RunStays ==
  ASSUME IInv, UNCHANGED <<taskVars, busVars, pending, mixed, runs, finalized>>,
         pc \notin {"idle", "delivering"}, pc' # "delivering", pc' \in Early => pc \in Early,
         status' = "complete" => status = "complete"
  PROVE  /\ TasksHaveRuns' /\ FinalizedLate' /\ LineHolds' /\ OneToken'
         /\ NotYetAtWork' /\ LastPhaseAwaited'
  <1> USE DEF IInv, taskVars, busVars
  <1>1. TasksHaveRuns' /\ FinalizedLate'
    BY DEF TasksHaveRuns, FinalizedLate, Early
  <1>2. LineHolds' /\ OneToken'
    BY DEF LineHolds, OneToken
  <1>3. AtWork' <=> AtWork
    BY DEF AtWork
  <1>4. NotYetAtWork' /\ LastPhaseAwaited'
    BY <1>3 DEF NotYetAtWork, LastPhaseAwaited
  <1>5. QED
    BY <1>1, <1>2, <1>4

\* An event of the sync itself joins the line: the phases are where they were.
LEMMA SyncEventSent ==
  ASSUME IInv, NEW name \in {"SYNC_COMPLETE", "SYNC_CANCELLED"}, runs \in Runs,
         posted' = Append(posted, SyncEvent(name)), UNCHANGED taskVars, mixed => mixed',
         pc' = "delivering" \/ (name # "SYNC_COMPLETE" /\ pc # "delivering"),
         name = "SYNC_COMPLETE" => pc # "delivering"
  PROVE  posted' \in Seq(Lines) /\ LineHolds' /\ OneToken' /\ (AtWork' <=> AtWork)
  <1> USE DEF IInv
  <1> DEFINE e == SyncEvent(name)
  <1>1. e \in Lines /\ e.phase = name
    BY SyncEventType
  <1>2. posted \in Seq(Lines) /\ UNCHANGED <<meta, compat, batches, orphans>>
    BY DEF TypeOK, Lines, taskVars
  <1>3. name \notin Phases /\ name \notin {"metadata"} /\ name \notin {"proton_meta"}
    BY DEF Phases
  <1>. posted' = Append(posted, e)
    OBVIOUS
  <1> HIDE DEF e
  <1>4. posted' \in Seq(Lines)
    BY <1>1, <1>2, AppendToLine
  <1>5. LineHolds'
    <2>1. OneOf(posted', {"metadata"}) /\ NoneOf(posted', {"proton_meta"})
      BY <1>1, <1>2, <1>3, AppendToLine DEF LineHolds
    <2>2. meta' # NoTask => NoneOf(posted', {"metadata"})
      BY <1>1, <1>2, <1>3, AppendToLine DEF LineHolds
    <2>3. CASE name = "SYNC_COMPLETE"
      <3>1. NoneOf(posted, {"SYNC_COMPLETE"}) /\ pc' = "delivering"
        BY <2>3 DEF LineHolds
      <3>2. OneOf(posted', {"SYNC_COMPLETE"})
        BY <1>1, <1>2, <3>1, AppendToLine
      <3>3. QED
        BY <2>1, <2>2, <3>1, <3>2 DEF LineHolds
    <2>4. CASE name = "SYNC_CANCELLED"
      <3>1. name \notin {"SYNC_COMPLETE"}
        BY <2>4
      <3>2. OneOf(posted', {"SYNC_COMPLETE"})
        BY <1>1, <1>2, <3>1, AppendToLine DEF LineHolds
      <3>3. pc' # "delivering" => NoneOf(posted', {"SYNC_COMPLETE"})
        BY <1>1, <1>2, <3>1, AppendToLine DEF LineHolds
      <3>4. QED
        BY <2>1, <2>2, <3>2, <3>3 DEF LineHolds
    <2>5. QED
      BY <2>3, <2>4
  <1>6. /\ OneOf(posted, Phases) => OneOf(posted', Phases)
        /\ NoneOf(posted, Phases) => NoneOf(posted', Phases)
    BY <1>1, <1>2, <1>3, AppendToLine
  <1>7. OneToken'
    BY <1>2, <1>6 DEF OneToken
  <1>8. NoneOf(posted', Phases) => NoneOf(posted, Phases)
    <2>1. \A n \in DOMAIN posted : n \in DOMAIN posted' /\ posted'[n] = posted[n]
      BY <1>1, <1>2
    <2>2. QED
      BY <2>1 DEF NoneOf
  <1>9. AtWork' <=> AtWork
    BY <1>2, <1>6, <1>8, AtWorkIs DEF Quiet
  <1>10. QED
    BY <1>4, <1>5, <1>7, <1>9

\* A run is its own, not mixed, when nothing of another is about.
LEMMA BeginKeepsInv ==
  ASSUME IInv, Begin
  PROVE  IInv'
  <1> USE DEF IInv
  <1>1. /\ pc = "idle" /\ pc' = "setup" /\ runs' = runs + 1 /\ runs < MaxRuns
        /\ finalized' = FALSE /\ walk' = FALSE /\ RunBegins
        /\ UNCHANGED <<barVars, taskVars, busVars, sent, watchdog, cancels>>
        /\ ~mixed' => ~AtWork /\ reports = {} /\ closing = {}
    BY DEF Begin, RunBegins
  <1>2. mixed' \in BOOLEAN
    BY DEF Begin, AtWork
  <1>3. RunTypeOK' /\ StoresLeft'
    BY <1>1, RunKept DEF TypeOK
  <1>4. TypeOK'
    BY <1>1, <1>2, <1>3 DEF TypeOK, barVars, taskVars, busVars
  <1>5. TasksHaveRuns'
    <2>1. runs' \in Runs
      BY <1>1, RunsAssumption DEF TypeOK, RunTypeOK, Runs
    <2>2. QED
      BY <1>1, <2>1 DEF TasksHaveRuns, taskVars
  <1>6. FinalizedLate' /\ CancelShows' /\ LastPhaseAwaited'
    BY <1>1 DEF FinalizedLate, CancelShows, LastPhaseAwaited
  <1>7. LineHolds'
    BY <1>1 DEF LineHolds, taskVars, busVars
  <1>8. (AtWork' <=> AtWork) /\ (AtWork <=> ~Quiet)
    BY <1>1, AtWorkIs DEF Quiet, taskVars, busVars
  <1>9. NotYetAtWork'
    BY <1>1, <1>8 DEF NotYetAtWork, busVars
  <1>10. OneToken'
    <2>1. NoneOf(posted, Phases) => OneOf(posted, Phases)
      BY DEF NoneOf, OneOf
    <2>2. QED
      BY <1>1, <1>8, <2>1 DEF OneToken, Quiet, taskVars, busVars
  <1>11. QED
    BY <1>3, <1>4, <1>5, <1>6, <1>7, <1>9, <1>10

\* The run's own stretches that send nothing.
LEMMA QuietStretchKeepsInv ==
  ASSUME IInv, RunSetUp \/ RunFetches \/ RunOver
  PROVE  IInv'
  <1> USE DEF IInv
  <1>1. /\ UNCHANGED <<pending, taskVars, busVars, restVars, runs, finalized>>
        /\ tracked' \in BOOLEAN
        /\ \/ SetUp /\ status' = "fetching"
           \/ NextStore /\ status' = "syncing"
           \/ (FetchStarts \/ RunEnds \/ Raises) /\ status' = status
    BY DEF RunSetUp, RunFetches, RunOver, Shows, TypeOK, SetUp, NextStore, FetchStarts,
       RunEnds, Raises
  <1>2. RunTypeOK' /\ StoresLeft'
    BY <1>1, RunKept DEF TypeOK
  <1>3. TypeOK'
    BY <1>1, <1>2 DEF TypeOK, taskVars, busVars, restVars
  <1>4. /\ pc \notin {"idle", "delivering"} /\ pc' # "delivering"
        /\ pc' \in Early => pc \in Early
    BY <1>1 DEF Early, SetUp, NextStore, FetchStarts, RunEnds, Raises, Through, AtCheck,
       FetchOver
  <1>5. /\ TasksHaveRuns' /\ FinalizedLate' /\ LineHolds' /\ OneToken'
        /\ NotYetAtWork' /\ LastPhaseAwaited'
    BY <1>1, <1>4, RunStays DEF restVars
  <1>6. CancelShows'
    BY <1>1 DEF CancelShows, FetchStarts, RunEnds, Raises
  <1>7. QED
    BY <1>2, <1>3, <1>5, <1>6

\* A cancellation, and the run that finds itself cancelled: their event is no
\* service's token.
LEMMA CancelKeepsInv ==
  ASSUME IInv, Cancel \/ RunGivesUp
  PROVE  IInv'
  <1> USE DEF IInv
  <1>1. /\ posted' = Append(posted, SyncEvent("SYNC_CANCELLED")) /\ status' = "cancelled"
        /\ UNCHANGED <<tracked, pending, taskVars, reports, closing, sent, watchdog, walk, mixed,
                       runs, finalized>>
        /\ cancels' \in 0..MaxCancels
        /\ pc # "idle"
        /\ \/ CancelRun /\ pc' = pc /\ cancelled' = TRUE
           \/ GiveUp /\ pc' = "cancelling" /\ pc # "delivering"
    BY CancelsAssumption DEF Cancel, RunGivesUp, CancelRun, GiveUp, Running, AtCheck, FetchOver,
       restVars, TypeOK
  <1>2. runs \in Runs
    BY <1>1 DEF TasksHaveRuns
  <1>3. RunTypeOK' /\ StoresLeft'
    BY <1>1, RunKept DEF TypeOK
  <1>4. posted' \in Seq(Lines) /\ LineHolds' /\ OneToken' /\ (AtWork' <=> AtWork)
    BY <1>1, <1>2, SyncEventSent
  <1>5. TypeOK'
    BY <1>1, <1>3, <1>4 DEF TypeOK, Lines, taskVars
  <1>6. TasksHaveRuns' /\ FinalizedLate' /\ CancelShows'
    BY <1>1, <1>2 DEF TasksHaveRuns, FinalizedLate, CancelShows, taskVars
  <1>7. NotYetAtWork' /\ LastPhaseAwaited'
    BY <1>1, <1>4 DEF NotYetAtWork, LastPhaseAwaited
  <1>8. QED
    BY <1>3, <1>4, <1>5, <1>6, <1>7

\* A run without a store is mixed: it says nothing of the phases.
LEMMA EmptyKeepsInv ==
  ASSUME IInv, RunEmpty
  PROVE  IInv'
  <1> USE DEF IInv
  <1>1. /\ NoStores /\ mixed' = TRUE /\ pc = "starting" /\ pc' = "delivering"
        /\ posted' = Append(posted, SyncEvent("SYNC_COMPLETE"))
        /\ UNCHANGED <<barVars, taskVars, reports, closing, sent, watchdog, walk, cancels>>
        /\ UNCHANGED <<runs, finalized, cancelled>>
    BY DEF RunEmpty, NoStores
  <1>2. runs \in Runs
    BY <1>1 DEF TasksHaveRuns
  <1>3. RunTypeOK' /\ StoresLeft'
    BY <1>1, RunKept DEF TypeOK
  <1>4. posted' \in Seq(Lines) /\ LineHolds' /\ OneToken'
    BY <1>1, <1>2, SyncEventSent
  <1>5. TypeOK'
    BY <1>1, <1>3, <1>4 DEF TypeOK, Lines, taskVars, barVars
  <1>6. QED
    BY <1>1, <1>2, <1>3, <1>4, <1>5 DEF TasksHaveRuns, FinalizedLate, CancelShows,
       NotYetAtWork, LastPhaseAwaited, taskVars

\* The library is replaced: every phase is to be reported again, before any of
\* the services has heard of it.
LEMMA FinalizeKeepsInv ==
  ASSUME IInv, NEW games \in BOOLEAN, RunFinalizes(games)
  PROVE  IInv'
  <1> USE DEF IInv
  <1>1. /\ Finalize /\ pc = "fetching" /\ pc' = "delivering" /\ finalized' = TRUE
        /\ posted' = Append(posted, SyncEvent("SYNC_COMPLETE"))
        /\ sent' \in {sent, sent \cup {runs}} /\ watchdog' = TRUE
        /\ UNCHANGED <<tracked, taskVars, reports, closing, walk, cancels, runs>>
    BY DEF RunFinalizes, Finalize, FetchOver
  <1>2. runs \in Runs
    BY <1>1 DEF TasksHaveRuns
  <1>3. /\ pending' \subseteq Phases
        /\ status' \in {status, "artwork"}
        /\ runs \notin NoArtwork => status' = "artwork" /\ pending' = Phases
    BY DEF RunFinalizes
  <1>4. /\ mixed' \in BOOLEAN /\ (mixed => mixed')
        /\ ~mixed' => ~mixed /\ runs \notin NoArtwork
    BY DEF RunFinalizes
  <1>5. RunTypeOK' /\ StoresLeft'
    BY <1>1, RunKept DEF TypeOK
  <1>6. posted' \in Seq(Lines) /\ LineHolds' /\ OneToken' /\ (AtWork' <=> AtWork)
    BY <1>1, <1>2, <1>4, SyncEventSent
  <1>7. TypeOK'
    BY <1>1, <1>2, <1>3, <1>4, <1>5, <1>6 DEF TypeOK, Lines, taskVars
  <1>8. TasksHaveRuns' /\ FinalizedLate' /\ CancelShows'
    BY <1>1, <1>2, <1>4 DEF TasksHaveRuns, FinalizedLate, CancelShows, taskVars
  <1>9. ~mixed' => ~AtWork /\ reports = {} /\ closing = {}
    BY <1>1, <1>4 DEF NotYetAtWork, FinalizedLate
  <1>10. NotYetAtWork'
    BY <1>1, <1>6, <1>9 DEF NotYetAtWork
  <1>11. LastPhaseAwaited'
    BY <1>1, <1>3, <1>4, <1>9 DEF LastPhaseAwaited, Phases
  <1>12. QED
    BY <1>5, <1>6, <1>7, <1>8, <1>10, <1>11

\* The metadata service takes SYNC_COMPLETE: the token is born.
LEMMA DeliveredKeepsInv ==
  ASSUME IInv, RunDelivered
  PROVE  IInv'
  <1> USE DEF IInv
  <1> DEFINE rest == Tail(posted)
  <1>0. posted \in Seq(Lines) /\ posted # <<>> /\ Head(posted).phase = "SYNC_COMPLETE"
    BY DEF RunDelivered, MetaSpawn, Takes, TypeOK, Lines
  <1>1. /\ Delivered /\ pc = "delivering" /\ pc' = "delivered"
        /\ UNCHANGED <<runs, finalized, cancelled, batches, compat, orphans, closing, barVars,
                       restVars>>
        /\ meta' = Task("created", Head(posted).run, "chain")
        /\ posted' = Silenced(rest) /\ reports' \subseteq reports
    BY DEF RunDelivered, MetaSpawn, Delivered
  <1>2. Head(posted) \in Lines /\ Head(posted).run \in Runs
    BY <1>0, TailOfLine, LineFields
  <1>3. meta' \in Tasks /\ meta'.st = "created" /\ meta'.run \in Runs
    BY <1>1, <1>2, TaskType DEF Origins
  <1>4. rest \in Seq(Lines)
    BY <1>0, TailOfLine
  <1>5. NoneOf(rest, {"SYNC_COMPLETE"})
    BY <1>0, TailOfLine DEF LineHolds
  <1>6. OneOf(rest, {"metadata"}) /\ NoneOf(rest, {"proton_meta"})
    BY <1>0, TailOfLine DEF LineHolds
  <1>7. NoneOf(posted, Phases) => NoneOf(rest, Phases)
    BY <1>0, TailOfLine
  <1> HIDE DEF rest
  <1>8. posted' \in Seq(Lines)
    BY <1>1, <1>4, SilencedLine
  <1>9. RunTypeOK' /\ StoresLeft'
    BY <1>1, RunKept DEF TypeOK
  <1>10. TypeOK'
    BY <1>1, <1>3, <1>8, <1>9 DEF TypeOK, Lines, barVars, restVars
  <1>11. TasksHaveRuns' /\ FinalizedLate' /\ CancelShows'
    BY <1>1, <1>3 DEF TasksHaveRuns, FinalizedLate, CancelShows, restVars
  <1>12. LineHolds'
    <2>1. NoneOf(posted', {"SYNC_COMPLETE"})
      BY <1>1, <1>4, <1>5, SilencedLine
    <2>2. NoneOf(posted', {"metadata"}) /\ NoneOf(posted', {"proton_meta"})
      BY <1>1, <1>4, <1>6, SilencedLine
    <2>3. \A P : NoneOf(posted', P) => OneOf(posted', P)
      BY DEF NoneOf, OneOf
    <2>4. QED
      BY <2>1, <2>2, <2>3 DEF LineHolds
  <1>13. ~mixed => Quiet /\ reports = {} /\ closing = {} /\ finalized
    BY <1>1, AtWorkIs DEF NotYetAtWork, FinalizedLate
  <1>14. OneToken'
    <2> SUFFICES ASSUME ~mixed
                 PROVE  OneToken'
      BY <1>1 DEF OneToken, restVars
    <2>1. compat = NoTask /\ batches = {} /\ orphans = {} /\ NoneOf(posted', Phases)
      BY <1>1, <1>4, <1>7, <1>13, SilencedLine DEF Quiet
    <2>2. OneOf(posted', Phases)
      BY <2>1 DEF NoneOf, OneOf
    <2>3. QED
      BY <1>1, <2>1, <2>2 DEF OneToken
  <1>15. NotYetAtWork'
    BY <1>1, <1>13 DEF NotYetAtWork, restVars
  <1>16. LastPhaseAwaited'
    BY <1>1, <1>13 DEF LastPhaseAwaited, restVars, barVars
  <1>17. QED
    BY <1>9, <1>10, <1>11, <1>12, <1>14, <1>15, <1>16

\* A run without artwork, so a mixed one, sends the event of that phase.
LEMMA SkipsKeepsInv ==
  ASSUME IInv, RunSkips
  PROVE  IInv'
  <1> USE DEF IInv
  <1>1. /\ Skips /\ pc = "delivered" /\ pc' = "skipping" /\ runs \in NoArtwork
        /\ posted' = Append(posted, SkipEvent) /\ reports' = reports \cup {SkipEvent}
        /\ UNCHANGED <<runs, finalized, cancelled, closing, barVars, taskVars, restVars>>
        /\ mixed
    BY DEF RunSkips, Skips, Emit, FinalizedLate, TypeOK
  <1>2. SkipEvent \in Events /\ SkipEvent \in Lines /\ SkipEvent.phase = "artwork"
    BY <1>1, EventType, EventPhase DEF SkipEvent, TasksHaveRuns, Phases, Origins
  <1>3. posted \in Seq(Lines)
    BY DEF TypeOK, Lines
  <1>4. posted' \in Seq(Lines)
    BY <1>1, <1>2, <1>3, AppendToLine
  <1>5. RunTypeOK' /\ StoresLeft'
    BY <1>1, RunKept DEF TypeOK
  <1>6. TypeOK'
    BY <1>1, <1>2, <1>4, <1>5 DEF TypeOK, Lines, barVars, taskVars, restVars
  <1>7. LineHolds'
    <2>1. OneOf(posted', {"SYNC_COMPLETE"}) /\ NoneOf(posted', {"SYNC_COMPLETE"})
      BY <1>1, <1>2, <1>3, AppendToLine DEF LineHolds
    <2>2. /\ OneOf(posted', {"metadata"}) /\ NoneOf(posted', {"proton_meta"})
          /\ meta # NoTask => NoneOf(posted', {"metadata"})
      BY <1>1, <1>2, <1>3, AppendToLine DEF LineHolds
    <2>3. QED
      BY <1>1, <2>1, <2>2 DEF LineHolds, taskVars
  <1>8. QED
    BY <1>1, <1>5, <1>6, <1>7 DEF TasksHaveRuns, FinalizedLate, CancelShows, OneToken,
       NotYetAtWork, LastPhaseAwaited, barVars, taskVars, restVars

\* The services hear of the cancellation: what they forget is never missed.
LEMMA TasksCancelledKeepsInv ==
  ASSUME IInv, TasksCancelled
  PROVE  IInv'
  <1> USE DEF IInv
  <1> DEFINE rest == Tail(posted)
  <1>0. posted \in Seq(Lines) /\ posted # <<>>
    BY DEF TasksCancelled, Takes, TypeOK, Lines
  <1>1. /\ SignalDelivered /\ UNCHANGED <<runs, pc, stores, cancelled, finalized>>
        /\ meta' = NoTask /\ posted' = Silenced(rest) /\ reports' \subseteq reports
        /\ UNCHANGED <<barVars, batches, orphans, closing, restVars>>
        /\ \/ compat' = NoTask
           \/ /\ compat.st \in {"running", "dying"}
              /\ compat' = [compat EXCEPT !.st = "dying"]
    BY DEF TasksCancelled, SignalDelivered
  <1>2. compat' \in Tasks /\ (compat' # NoTask => /\ compat # NoTask
                                                 /\ compat'.st # "none" /\ compat'.run \in Runs)
    <2>1. CASE compat' = NoTask
      BY <2>1, NoTaskType
    <2>2. CASE /\ compat.st \in {"running", "dying"}
               /\ compat' = [compat EXCEPT !.st = "dying"]
      <3>1. compat # NoTask
        BY <2>2, NoTaskType
      <3>2. compat \in Tasks /\ compat.run \in Runs
        BY <3>1 DEF TypeOK, TasksHaveRuns
      <3>3. compat' \in Tasks /\ compat'.st = "dying" /\ compat'.run = compat.run
        BY <2>2, <3>2 DEF Tasks
      <3>4. QED
        BY <3>1, <3>2, <3>3
    <2>3. QED
      BY <1>1, <2>1, <2>2
  <1>3. rest \in Seq(Lines) /\ \A P : /\ NoneOf(posted, P) => NoneOf(rest, P)
                                      /\ OneOf(posted, P) => OneOf(rest, P)
    BY <1>0, TailOfLine
  <1> HIDE DEF rest
  <1>4. posted' \in Seq(Lines)
    BY <1>1, <1>3, SilencedLine
  <1>5. \A P : /\ NoneOf(posted, P) => NoneOf(posted', P)
               /\ OneOf(posted, P) => OneOf(posted', P)
    BY <1>1, <1>3, SilencedLine
  <1>6. RunTypeOK' /\ StoresLeft'
    BY <1>1, RunKept DEF TypeOK
  <1>7. TypeOK'
    BY <1>1, <1>2, <1>4, <1>6, NoTaskType DEF TypeOK, Lines, barVars, restVars
  <1>8. TasksHaveRuns' /\ FinalizedLate' /\ CancelShows'
    BY <1>1, <1>2 DEF TasksHaveRuns, FinalizedLate, CancelShows, barVars, restVars
  <1>9. LineHolds'
    BY <1>1, <1>5 DEF LineHolds
  <1>10. OneToken'
    BY <1>1, <1>2, <1>5 DEF OneToken, restVars
  <1>11. AtWork' => AtWork
    BY <1>1, <1>2, <1>5, AtWorkIs DEF Quiet
  <1>12. NotYetAtWork'
    BY <1>1, <1>11 DEF NotYetAtWork, restVars
  <1>13. LastPhaseAwaited'
    BY <1>1, <1>11 DEF LastPhaseAwaited, restVars, barVars
  <1>14. QED
    BY <1>6, <1>7, <1>8, <1>9, <1>10, <1>12, <1>13

-----------------------------------------------------------------------------
LEMMA InvStep == IInv /\ [Next]_vars => IInv'
  <1> SUFFICES ASSUME IInv, [Next]_vars
               PROVE  IInv'
    OBVIOUS
  <1>1. CASE Begin \/ Cancel \/ WatchdogFires \/ WalkEnds
    BY <1>1, BeginKeepsInv, CancelKeepsInv, ClocksKeepInv
  <1>2. CASE RunStep
    BY <1>2, QuietStretchKeepsInv, CancelKeepsInv, EmptyKeepsInv, FinalizeKeepsInv,
       DeliveredKeepsInv, SkipsKeepsInv, TasksCancelledKeepsInv DEF RunStep
  <1>3. CASE PhaseStep
    BY <1>3, MetaKeepsInv, OnMetadataDoneKeepsInv, OnArtworkDoneKeepsInv, BatchDoneKeepsInv,
       CompatKeepsInv, OrphanKeepsInv, ReportKeepsInv, CloseKeepsInv DEF PhaseStep
  <1>4. CASE UNCHANGED vars
    BY <1>4 DEF vars, runVars, barVars, taskVars, busVars, restVars, IInv, TypeOK, RunTypeOK,
       StoresLeft, TasksHaveRuns, FinalizedLate, CancelShows, LineHolds, OneToken,
       NotYetAtWork, LastPhaseAwaited, AtWork
  <1>5. QED
    BY <1>1, <1>2, <1>3, <1>4 DEF Next

LEMMA InvHolds == Spec => []IInv
  <1>1. Init => IInv
    <2> SUFFICES ASSUME Init
                 PROVE  IInv
      OBVIOUS
    <2>1. RunTypeOK
      <3>1. 0 \in 0..MaxRuns /\ 0 \in 0..NumStores
        BY RunsAssumption
      <3>2. QED
        BY <3>1 DEF Init, RunInit, RunTypeOK
    <2>2. posted \in Seq(Events \cup SyncEvents) /\ cancels \in 0..MaxCancels
      BY CancelsAssumption DEF Init
    <2>3. TypeOK
      BY <2>1, <2>2, NoTaskType DEF Init, TypeOK
    <2>4. \A P : NoneOf(posted, P) /\ OneOf(posted, P)
      BY DEF Init, NoneOf, OneOf
    <2>5. ~AtWork
      BY <2>4, AtWorkIs DEF Init, Quiet
    <2>6. QED
      BY <2>3, <2>4, <2>5 DEF Init, RunInit, IInv, StoresLeft, TasksHaveRuns, FinalizedLate,
         CancelShows, LineHolds, OneToken, NotYetAtWork, LastPhaseAwaited
  <1>2. QED
    BY <1>1, InvStep, PTL DEF Spec

\* Types of what follows a sync: every event and every task is some run's, and
\* the tracker has no other status.
THEOREM TypeCorrect == Spec => []TypeOK
  BY InvHolds, PTL DEF IInv

\* At most one event of the metadata service is waiting to be heard, and none
\* while a task of it is there: what a task that was replaced or cancelled has
\* left unheard is gone, so Silenced has at most one to remove.
THEOREM MetadataHeardOnce ==
  Spec => [](/\ OneOf(posted, {"metadata"})
             /\ meta # NoTask => NoneOf(posted, {"metadata"}))
  BY InvHolds, PTL DEF IInv, LineHolds

\* Once a sync with artwork shows complete none of its tasks is at work, however
\* runs, cancellations and the threads of the bus interleave, unless work of an
\* earlier sync was about or the watchdog forced it.
THEOREM CompleteIsIdle == Spec => []CompleteMeansIdle
  <1>1. IInv => CompleteMeansIdle
    BY DEF IInv, NotYetAtWork, LastPhaseAwaited, CompleteMeansIdle
  <1>2. QED
    BY <1>1, InvHolds, PTL

\* A sync cancelled before it has replaced the library shows cancelled until the
\* next one begins: no step of its loop, of a service or of a thread of the bus
\* overwrites it, unless work of an earlier sync was about.
THEOREM EarlyCancelSticks == Spec => CancelledEarlySticks
  <1> DEFINE Sticks == status = "cancelled" /\ ~mixed /\ ~finalized =>
                         status' \in {"cancelled", "fetching"} \/ mixed'
  <1>1. IInv /\ [Next]_vars => [Sticks]_vars
    <2> SUFFICES ASSUME IInv, Next, status = "cancelled", ~mixed, ~finalized
                 PROVE  status' \in {"cancelled", "fetching"} \/ mixed'
      BY DEF vars
    <2>1. ~AtWork /\ meta = NoTask /\ compat = NoTask
      BY AtWorkIs DEF IInv, NotYetAtWork, Quiet
    <2>2. meta.st = "none" /\ compat.st = "none"
      BY <2>1, NoTaskType
    <2>3. CASE Begin \/ Cancel \/ WatchdogFires \/ WalkEnds
      BY <2>3 DEF Begin, Cancel, WatchdogFires, WalkEnds, barVars
    <2>4. CASE RunSetUp \/ RunEmpty \/ RunGivesUp \/ RunDelivered \/ RunSkips \/ RunOver
               \/ TasksCancelled
      BY <2>4 DEF RunSetUp, RunEmpty, RunGivesUp, RunDelivered, RunSkips, RunOver,
         TasksCancelled, Shows, barVars
    <2>5. CASE RunFetches
      <3>1. ~NextStore
        BY DEF IInv, CancelShows, NextStore, AtCheck, FetchOver
      <3>2. QED
        BY <2>5, <3>1 DEF RunFetches, Shows
    <2>6. CASE \E games \in BOOLEAN : RunFinalizes(games)
      <3>1. ~Finalize
        BY DEF IInv, CancelShows, Finalize, FetchOver
      <3>2. QED
        BY <2>6, <3>1 DEF RunFinalizes
    <2>7. CASE PhaseStep
      BY <2>2, <2>7 DEF PhaseStep, MetaFirstStep, MetaDone, OnMetadataDone, OnArtworkDone,
         BatchDone, CompatFirstStep, CompatDone, OrphanDone, Report, Close, barVars
    <2>8. QED
      BY <2>3, <2>4, <2>5, <2>6, <2>7 DEF Next, RunStep
  <1>2. QED
    BY <1>1, InvHolds, PTL DEF Spec, CancelledEarlySticks
=============================================================================
