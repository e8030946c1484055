---------------------------- MODULE DomeSyncProofs ----------------------------
(* Theorems about the synchronisation of an Astrodome volume, for any       *)
(* number of objects, workers, base manifests and troubles.                 *)
EXTENDS DomeSync, TLAPS

-----------------------------------------------------------------------------
(* The inductive invariant.                                                *)

\* Before its tasks an attempt has none under way, and after them all are
\* done; the volume is not there until the rename; the staging directory is
\* bound to the base manifest the attempt has read before the first task runs.
Attempt ==
  /\ sync.base = NoBase => sync.at = "idle"
  /\ sync.at \in {"idle", "preparing", "staged"} => \A o \in Objects : task[o] = "todo"
  /\ sync.at \in {"joined", "written", "checked", "renamed"} =>
       \A o \in Objects : task[o] = "done"
  /\ sync.at \in {"staged", "tasks", "joined", "written", "checked"} => published = NoBase
  /\ sync.at = "renamed" => published = sync.base
  /\ sync.at = "staged" => binding \in {Unbound, sync.base}
  /\ sync.at \in {"tasks", "joined", "written", "checked"} => binding = sync.base

\* The base manifest the objects belong to.
Owner == IF published # NoBase THEN published ELSE binding

\* What a checkpoint of an object says is true of it.
Recorded(o) ==
  record[o] # NoBase => record[o] = made[o] /\ record[o] = Owner /\ data[o] # "partial"

\* What a task has done with its object so far.
Progress(o) ==
  /\ task[o] = "download" =>
       data[o] = "partial" /\ record[o] = NoBase /\ made[o] = sync.base
  /\ task[o] = "verified" =>
       data[o] = "whole" /\ record[o] = NoBase /\ made[o] = sync.base
  /\ task[o] = "checkpointed" => data[o] = "whole" /\ record[o] = sync.base
  /\ task[o] \in {"inspect", "done"} => data[o] = "final"
  /\ task[o] = "done" => record[o] = sync.base

\* An object gets its place after its checkpoint.
Placed(o) == data[o] = "final" => record[o] # NoBase

Settled ==
  /\ link => published # NoBase
  /\ published # NoBase =>
       \A o \in Objects : data[o] = "final" /\ record[o] = published

\* All that is said of one object.
Sound(o) == Recorded(o) /\ Progress(o) /\ Placed(o)

Inv == TypeOK /\ Attempt /\ Settled /\ \A o \in Objects : Sound(o)

-----------------------------------------------------------------------------
(* Types.                                                                  *)

LEMMA TypeInit == Init => TypeOK
  <1> SUFFICES ASSUME Init PROVE TypeOK
    OBVIOUS
  <1>1. link \in BOOLEAN /\ cancelled \in BOOLEAN
    BY DEF Init
  <1>2. base \in Bases /\ binding \in 0 .. Unbound /\ troubles \in 0 .. MaxTroubles
    BY DomeConstants DEF Init, Bases, Unbound, NoBase
  <1>3. /\ data \in [Objects -> {"absent"}] /\ task \in [Objects -> {"todo"}]
        /\ made \in [Objects -> {NoBase}] /\ record \in [Objects -> {NoBase}]
    BY DEF Init, Todo
  <1>4. published = NoBase /\ sync = [at |-> "idle", base |-> NoBase]
    BY DEF Init, Idle
  <1> QED BY <1>1, <1>2, <1>3, <1>4 DEF TypeOK

LEMMA TypeReturn ==
  ASSUME Return
  PROVE  /\ sync' \in [at : {"idle"}, base : {NoBase}]
         /\ task' \in [Objects -> {"todo"}] /\ cancelled' \in BOOLEAN
  BY DEF Return, Idle, Todo

\* What every step of SyncDome, of its surroundings and of a task does to types.
LEMMA TypeStep ==
  ASSUME TypeOK, [Next]_vars
  PROVE  TypeOK'
  <1> USE DomeConstants DEF TypeOK, Bases, Unbound, NoBase, objects, volume, tasks
  <1>1. CASE SyncDome
    <2> USE DEF Goto, Return, Idle, Todo, At
    <2>1. CASE Prepare
      BY <2>1 DEF Prepare
    <2>2. CASE AdoptVolume
      BY <2>2 DEF AdoptVolume
    <2>3. CASE Stage
      BY <2>3 DEF Stage
    <2>4. CASE Bind
      BY <2>4 DEF Bind
    <2>5. CASE Refuses
      BY <2>5 DEF Refuses
    <2>6. CASE Join
      <3>1. CASE AllDone
        BY <2>6, <3>1 DEF Join
      <3>2. CASE ~AllDone
        <4>1. Return
          BY <2>6, <3>2 DEF Join
        <4> HIDE DEF Return
        <4> QED BY <2>6, <4>1, TypeReturn DEF Join
      <3> QED BY <3>1, <3>2
    <2>7. CASE WriteManifest
      BY <2>7 DEF WriteManifest
    <2>8. CASE Recheck
      BY <2>8 DEF Recheck
    <2>9. CASE Rename
      BY <2>9 DEF Rename
    <2>10. CASE PublishCurrent
      BY <2>10 DEF PublishCurrent
    <2> QED BY <1>1, <2>1, <2>2, <2>3, <2>4, <2>5, <2>6, <2>7, <2>8, <2>9, <2>10
            DEF SyncDome
  <1>2. CASE Fails \/ Change \/ Stop \/ Kill
    <2>1. CASE Fails \/ Kill
      <3>1. /\ Return /\ troubles < MaxTroubles /\ troubles' = troubles + 1
            /\ UNCHANGED <<base, binding, data, made, record, published, link>>
        BY <2>1 DEF Fails, Kill, Trouble
      <3> QED BY <3>1, TypeReturn
    <2>2. CASE Change
      BY <2>2 DEF Change
    <2>3. CASE Stop
      BY <2>3 DEF Stop, Trouble
    <2> QED BY <1>2, <2>1, <2>2, <2>3
  <1>3. ASSUME NEW o \in Objects, Task(o)
        PROVE  TypeOK'
    <2> USE DEF Works, Moves, FailsTask
    <2>1. CASE TakeTask(o) \/ FindFinal(o) \/ Inspect(o)
      BY <2>1 DEF TakeTask, FindFinal, Inspect
    <2>2. CASE ResumeChecked(o)
      BY <2>2 DEF ResumeChecked
    <2>3. CASE Create(o)
      BY <2>3 DEF Create
    <2>4. CASE Download(o) \/ Place(o)
      BY <2>4 DEF Download, Place
    <2>5. CASE Checkpoint(o)
      BY <2>5 DEF Checkpoint
    <2> QED BY <1>3, <2>1, <2>2, <2>3, <2>4, <2>5 DEF Task
  <1>4. ASSUME NEW o \in Objects, CheckpointUnsynced(o)
        PROVE  TypeOK'
    BY <1>4 DEF CheckpointUnsynced, Works, FailsTask, Moves, Trouble
  <1>5. ASSUME NEW o \in Objects, TaskFails(o)
        PROVE  TypeOK'
    BY <1>5 DEF TaskFails, Works, FailsTask, Moves, Trouble
  <1>6. CASE UNCHANGED vars
    BY <1>6 DEF vars
  <1> QED BY <1>1, <1>2, <1>3, <1>4, <1>5, <1>6 DEF Next

-----------------------------------------------------------------------------
(* The steps that leave the objects alone.                                 *)

\* An object that is left alone stays sound as long as it keeps its owner, or
\* has no checkpoint; its task may have been forgotten.
LEMMA LeftAlone ==
  ASSUME NEW o \in Objects, TypeOK, Sound(o), UNCHANGED objects,
         record[o] # NoBase => Owner' = Owner,
         \/ task'[o] = "todo"
         \/ task'[o] = task[o] /\ sync'.base = sync.base
  PROVE  Sound(o)'
  <1>1. Recorded(o)'
    BY DEF Sound, Recorded, objects
  <1>2. Progress(o)'
    BY DEF Sound, Progress, objects
  <1>3. Placed(o)'
    BY DEF Sound, Placed, objects
  <1> QED BY <1>1, <1>2, <1>3 DEF Sound

\* A step that keeps the directories and ends the attempt.
LEMMA Returns ==
  ASSUME Inv, Return, UNCHANGED <<binding, objects, published>>,
         link' = link \/ published # NoBase
  PROVE  Attempt' /\ Settled' /\ \A o \in Objects : Sound(o)'
  <1>1. Attempt'
    BY DEF Attempt, Return, Idle, Todo
  <1>2. Settled'
    BY DEF Inv, Settled, objects
  <1>3. ASSUME NEW o \in Objects PROVE Sound(o)'
    <2>1. record[o] # NoBase => Owner' = Owner
      BY DEF Owner
    <2>2. task'[o] = "todo"
      BY DEF Return, Todo
    <2> QED BY <2>1, <2>2, LeftAlone DEF Inv
  <1> QED BY <1>1, <1>2, <1>3

\* A step of an attempt that keeps the directories, the objects and the tasks.
LEMMA Proceeds ==
  ASSUME Inv, NEW place, Goto(place), UNCHANGED <<binding, objects, published, link, task>>,
         Attempt'
  PROVE  Settled' /\ \A o \in Objects : Sound(o)'
  <1>1. Settled'
    BY DEF Inv, Settled, objects
  <1>2. sync'.base = sync.base
    BY DEF Goto, Inv, TypeOK
  <1>3. Owner' = Owner
    BY DEF Owner
  <1> QED BY <1>1, <1>2, <1>3, LeftAlone DEF Inv

LEMMA PrepareStep ==
  ASSUME Inv, Prepare
  PROVE  Attempt' /\ Settled' /\ \A o \in Objects : Sound(o)'
  <1> USE DEF Prepare, At, volume, tasks
  <1>1. Attempt'
    BY DomeConstants DEF Inv, Attempt, TypeOK, Bases, NoBase
  <1>2. Settled'
    BY DEF Inv, Settled, objects
  <1>3. ASSUME NEW o \in Objects PROVE Sound(o)'
    <2>1. record[o] # NoBase => Owner' = Owner
      BY DEF Owner
    <2>2. task'[o] = "todo"
      BY DEF Inv, Attempt
    <2> QED BY <2>1, <2>2, LeftAlone DEF Inv
  <1> QED BY <1>1, <1>2, <1>3

\* No object has a checkpoint yet when the directory is made.
LEMMA StageStep ==
  ASSUME Inv, Stage
  PROVE  Attempt' /\ Settled' /\ \A o \in Objects : Sound(o)'
  <1> USE DEF Stage, At, Goto, volume, tasks
  <1>1. sync' = [sync EXCEPT !.at = "staged"] /\ sync'.at = "staged"
        /\ sync'.base = sync.base
    BY DEF Inv, TypeOK
  <1>2. Attempt'
    BY <1>1, DomeConstants DEF Inv, Attempt, TypeOK, Bases, NoBase, Unbound
  <1>3. Settled'
    BY DEF Inv, Settled, objects
  <1>4. ASSUME NEW o \in Objects PROVE Sound(o)'
    <2>1. record[o] # NoBase => Owner' = Owner
      BY DEF Owner, Inv, Sound, Recorded
    <2>2. task'[o] = "todo"
      BY DEF Inv, Attempt
    <2> QED BY <2>1, <2>2, LeftAlone DEF Inv
  <1> QED BY <1>2, <1>3, <1>4

\* A directory without a binding has no checkpoints either.
LEMMA BindStep ==
  ASSUME Inv, Bind
  PROVE  Attempt' /\ Settled' /\ \A o \in Objects : Sound(o)'
  <1> USE DEF Bind, At, Goto, volume, tasks
  <1>1. sync'.at = "tasks" /\ sync'.base = sync.base
    BY DEF Inv, TypeOK
  <1>2. Attempt'
    BY <1>1 DEF Inv, Attempt
  <1>3. Settled'
    BY DEF Inv, Settled, objects
  <1>4. ASSUME NEW o \in Objects PROVE Sound(o)'
    <2>1. published = NoBase /\ binding \in {Unbound, sync.base}
      BY DEF Inv, Attempt
    <2>2. record[o] # Unbound
      BY DomeConstants DEF Inv, TypeOK, Bases, NoBase, Unbound
    <2>3. record[o] # NoBase => Owner' = Owner
      BY <2>1, <2>2 DEF Owner, Inv, Sound, Recorded
    <2>4. task'[o] = "todo"
      BY DEF Inv, Attempt
    <2> QED BY <2>3, <2>4, LeftAlone DEF Inv
  <1> QED BY <1>2, <1>3, <1>4

LEMMA JoinStep ==
  ASSUME Inv, Join
  PROVE  Attempt' /\ Settled' /\ \A o \in Objects : Sound(o)'
  <1> USE DEF Join, At, volume, tasks
  <1>1. CASE AllDone
    <2>1. Goto("joined") /\ UNCHANGED <<binding, objects, published, link, task>>
      BY <1>1
    <2>2. sync'.at = "joined" /\ sync'.base = sync.base
      BY <2>1 DEF Goto, Inv, TypeOK
    <2>3. Attempt'
      BY <1>1, <2>1, <2>2 DEF Inv, Attempt, AllDone
    <2> QED BY <2>1, <2>3, Proceeds
  <1>2. CASE ~AllDone
    BY <1>2, Returns
  <1> QED BY <1>1, <1>2

LEMMA ManifestStep ==
  ASSUME Inv, WriteManifest \/ Recheck
  PROVE  Attempt' /\ Settled' /\ \A o \in Objects : Sound(o)'
  <1>1. PICK place \in {"written", "checked"} : Goto(place)
    BY DEF WriteManifest, Recheck
  <1>2. UNCHANGED <<binding, objects, published, link, task>>
    BY DEF WriteManifest, Recheck, volume, tasks
  <1>3. sync'.at \in {"written", "checked"} /\ sync'.base = sync.base
    BY <1>1 DEF Goto, Inv, TypeOK
  <1>4. sync.at \in {"joined", "written"}
    BY DEF WriteManifest, Recheck, At
  <1>5. Attempt'
    BY <1>2, <1>3, <1>4 DEF Inv, Attempt
  <1> QED BY <1>1, <1>2, <1>5, Proceeds

\* All tasks are done, so that every object is in place with its checkpoint
\* under the base manifest the directory gets its name from.
LEMMA RenameStep ==
  ASSUME Inv, Rename
  PROVE  Attempt' /\ Settled' /\ \A o \in Objects : Sound(o)'
  <1> USE DEF Rename, At, tasks
  <1>1. sync'.at = "renamed" /\ sync'.base = sync.base /\ sync.base # NoBase
    BY DEF Inv, TypeOK, Goto, Attempt
  <1>2. published = NoBase /\ binding = sync.base /\ published' = sync.base
    BY DEF Inv, Attempt
  <1>3. ASSUME NEW o \in Objects
        PROVE  task[o] = "done" /\ data[o] = "final" /\ record[o] = sync.base
    BY DEF Inv, Attempt, Sound, Progress
  <1>4. Attempt'
    BY <1>1, <1>2, <1>3
       DEF Attempt
  <1>5. Settled'
    BY <1>1, <1>2, <1>3 DEF Settled, objects
  <1>6. Owner' = Owner
    BY <1>1, <1>2 DEF Owner
  <1> QED BY <1>1, <1>4, <1>5, <1>6, LeftAlone DEF Inv

LEMMA ChangeStep ==
  ASSUME Inv, Change \/ Stop \/ UNCHANGED vars
  PROVE  Attempt' /\ Settled' /\ \A o \in Objects : Sound(o)'
  <1>1. UNCHANGED <<binding, objects, published, link, sync, task>>
    BY DEF Change, Stop, vars, volume, tasks, objects
  <1>2. Attempt'
    BY <1>1 DEF Inv, Attempt
  <1>3. Settled'
    BY <1>1 DEF Inv, Settled, objects
  <1>4. Owner' = Owner
    BY <1>1 DEF Owner
  <1> QED BY <1>1, <1>2, <1>3, <1>4, LeftAlone DEF Inv

-----------------------------------------------------------------------------
(* The steps of a task.                                                    *)

\* A step of the task of an object touches no other object.
Touches(o) ==
  /\ At("tasks") /\ UNCHANGED <<binding, volume, sync>>
  /\ \A p \in Objects \ {o} :
       /\ data'[p] = data[p] /\ made'[p] = made[p]
       /\ record'[p] = record[p] /\ task'[p] = task[p]

\* It is enough to look at that object.
LEMMA OtherObjects ==
  ASSUME Inv, NEW o \in Objects, Touches(o), Sound(o)'
  PROVE  Attempt' /\ Settled' /\ \A p \in Objects : Sound(p)'
  <1>1. Attempt'
    BY DEF Inv, Attempt, Touches, At, volume
  <1>2. Settled'
    BY DEF Inv, Attempt, Settled, Touches, At, volume
  <1>3. ASSUME NEW p \in Objects, p # o PROVE Sound(p)'
    <2>1. /\ data'[p] = data[p] /\ made'[p] = made[p] /\ record'[p] = record[p]
          /\ task'[p] = task[p] /\ sync' = sync /\ Owner' = Owner
      BY <1>3 DEF Touches, Owner, volume
    <2>2. Sound(p)
      BY DEF Inv
    <2> QED BY <2>1, <2>2 DEF Sound, Recorded, Progress, Placed
  <1> QED BY <1>1, <1>2, <1>3

\* What is known of an object whose task takes a step: no volume is there and
\* the directory is bound to the base manifest of the attempt.
LEMMA AtTask ==
  ASSUME Inv, NEW o \in Objects, NEW place, Works(o, place)
  PROVE  /\ task[o] = place /\ Owner = sync.base /\ Owner' = Owner /\ sync' = sync
         /\ sync.base # NoBase /\ Recorded(o) /\ Progress(o) /\ Placed(o)
  <1>1. At("tasks") /\ task[o] = place /\ UNCHANGED <<binding, published, sync>>
    BY DEF Works, volume
  <1>2. published = NoBase /\ binding = sync.base /\ sync.base # NoBase
    BY <1>1 DEF Inv, Attempt, At
  <1> QED BY <1>1, <1>2 DEF Owner, Inv, Sound

LEMMA TakeTaskStep ==
  ASSUME Inv, NEW o \in Objects, TakeTask(o)
  PROVE  Touches(o) /\ Sound(o)'
  <1>1. Works(o, "todo")
    BY DEF TakeTask
  <1>2. Touches(o)
    BY <1>1 DEF TakeTask, Moves, objects, Works, Touches, Inv, TypeOK
  <1>3. Sound(o)'
    BY <1>1, AtTask DEF TakeTask, Moves, objects, Sound, Recorded, Progress, Placed, Inv, TypeOK
  <1> QED BY <1>2, <1>3

LEMMA FindFinalStep ==
  ASSUME Inv, NEW o \in Objects, FindFinal(o)
  PROVE  Touches(o) /\ Sound(o)'
  <1>1. Works(o, "look")
    BY DEF FindFinal
  <1>2. Touches(o)
    BY <1>1 DEF FindFinal, Moves, objects, Works, Touches, Inv, TypeOK
  <1>3. Sound(o)'
    BY <1>1, AtTask DEF FindFinal, Moves, objects, Sound, Recorded, Progress, Placed, Inv, TypeOK
  <1> QED BY <1>2, <1>3

\* A whole object gets its place only with a checkpoint under this base manifest.
LEMMA ResumeCheckedStep ==
  ASSUME Inv, NEW o \in Objects, ResumeChecked(o)
  PROVE  Touches(o) /\ Sound(o)'
  <1>1. Works(o, "look")
    BY DEF ResumeChecked
  <1>2. Touches(o)
    BY <1>1 DEF ResumeChecked, FailsTask, Moves, Works, Touches, Inv, TypeOK
  <1>3. Sound(o)'
    BY <1>1, AtTask DEF ResumeChecked, FailsTask, Moves, Sound, Recorded, Progress, Placed, Inv, TypeOK
  <1> QED BY <1>2, <1>3

\* Only an object without a checkpoint is downloaded anew.
LEMMA CreateStep ==
  ASSUME Inv, NEW o \in Objects, Create(o)
  PROVE  Touches(o) /\ Sound(o)'
  <1>1. Works(o, "look")
    BY DEF Create
  <1>2. Touches(o)
    BY <1>1 DEF Create, Moves, Works, Touches, Inv, TypeOK
  <1>3. Sound(o)'
    BY <1>1, AtTask DEF Create, Moves, Sound, Recorded, Progress, Placed, Inv, TypeOK
  <1> QED BY <1>2, <1>3

LEMMA DownloadStep ==
  ASSUME Inv, NEW o \in Objects, Download(o)
  PROVE  Touches(o) /\ Sound(o)'
  <1>1. Works(o, "download")
    BY DEF Download
  <1>2. Touches(o)
    BY <1>1 DEF Download, Moves, Works, Touches, Inv, TypeOK
  <1>3. Sound(o)'
    BY <1>1, AtTask DEF Download, Moves, Sound, Recorded, Progress, Placed, Inv, TypeOK
  <1> QED BY <1>2, <1>3

LEMMA CheckpointStep ==
  ASSUME Inv, NEW o \in Objects, Checkpoint(o)
  PROVE  Touches(o) /\ Sound(o)'
  <1>1. Works(o, "verified")
    BY DEF Checkpoint
  <1>2. Touches(o)
    BY <1>1 DEF Checkpoint, Moves, Works, Touches, Inv, TypeOK
  <1>3. Sound(o)'
    BY <1>1, AtTask DEF Checkpoint, Moves, Sound, Recorded, Progress, Placed, Inv, TypeOK
  <1> QED BY <1>2, <1>3

LEMMA CheckpointUnsyncedStep ==
  ASSUME Inv, NEW o \in Objects, CheckpointUnsynced(o)
  PROVE  Touches(o) /\ Sound(o)'
  <1>1. Works(o, "verified")
    BY DEF CheckpointUnsynced
  <1>2. Touches(o)
    BY <1>1 DEF CheckpointUnsynced, FailsTask, Moves, Works, Touches, Inv, TypeOK
  <1>3. Sound(o)'
    BY <1>1, AtTask DEF CheckpointUnsynced, FailsTask, Moves, Sound, Recorded, Progress, Placed, Inv, TypeOK
  <1> QED BY <1>2, <1>3

LEMMA PlaceStep ==
  ASSUME Inv, NEW o \in Objects, Place(o)
  PROVE  Touches(o) /\ Sound(o)'
  <1>1. Works(o, "checkpointed")
    BY DEF Place
  <1>2. Touches(o)
    BY <1>1 DEF Place, Moves, Works, Touches, Inv, TypeOK
  <1>3. Sound(o)'
    BY <1>1, AtTask DEF Place, Moves, Sound, Recorded, Progress, Placed, Inv, TypeOK
  <1> QED BY <1>2, <1>3

\* A task is done when its object is in place under this base manifest.
LEMMA InspectStep ==
  ASSUME Inv, NEW o \in Objects, Inspect(o)
  PROVE  Touches(o) /\ Sound(o)'
  <1>1. Works(o, "inspect")
    BY DEF Inspect
  <1>2. Touches(o)
    BY <1>1 DEF Inspect, FailsTask, Moves, objects, Works, Touches, Inv, TypeOK
  <1>3. Sound(o)'
    BY <1>1, AtTask DEF Inspect, FailsTask, Moves, objects, Sound, Recorded, Progress, Placed, Inv, TypeOK, Verified
  <1> QED BY <1>2, <1>3

\* The object that is removed has no checkpoint.
LEMMA TaskFailsStep ==
  ASSUME Inv, NEW o \in Objects, TaskFails(o)
  PROVE  Touches(o) /\ Sound(o)'
  <1>1. Works(o, task[o])
    BY DEF TaskFails
  <1>2. Touches(o)
    BY <1>1 DEF TaskFails, FailsTask, Moves, Works, Touches, Inv, TypeOK
  <1>3. Sound(o)'
    BY <1>1, AtTask DEF TaskFails, FailsTask, Moves, Sound, Recorded, Progress, Placed, Inv, TypeOK
  <1> QED BY <1>2, <1>3

LEMMA TaskSteps ==
  ASSUME Inv, NEW o \in Objects, Task(o) \/ CheckpointUnsynced(o) \/ TaskFails(o)
  PROVE  Touches(o) /\ Sound(o)'
  BY TakeTaskStep, FindFinalStep, ResumeCheckedStep, CreateStep, DownloadStep,
     CheckpointStep, CheckpointUnsyncedStep, PlaceStep, InspectStep, TaskFailsStep
     DEF Task

-----------------------------------------------------------------------------
(* The theorems.                                                           *)

LEMMA InvInit == Init => Inv
  <1> SUFFICES ASSUME Init PROVE Inv
    OBVIOUS
  <1>1. TypeOK
    BY TypeInit
  <1>2. Attempt
    BY DomeConstants DEF Init, Attempt, Idle, Todo
  <1>3. Settled
    BY DEF Init, Settled
  <1>4. \A o \in Objects : Sound(o)
    BY DEF Init, Todo, Sound, Recorded, Progress, Placed
  <1> QED BY <1>1, <1>2, <1>3, <1>4 DEF Inv

LEMMA InvStep == Inv /\ [Next]_vars => Inv'
  <1> SUFFICES ASSUME Inv, [Next]_vars PROVE Inv'
    OBVIOUS
  <1>1. TypeOK'
    BY TypeStep DEF Inv
  <1>2. Attempt' /\ Settled' /\ \A o \in Objects : Sound(o)'
    <2>1. CASE SyncDome
      <3>1. CASE AdoptVolume
        <4>1. Return /\ UNCHANGED <<binding, objects, published>> /\ published # NoBase
          BY <3>1 DEF AdoptVolume, Inv, Attempt, At
        <4> QED BY <4>1, Returns
      <3>2. CASE Refuses \/ PublishCurrent
        <4>1. /\ Return /\ UNCHANGED <<binding, objects, published>>
              /\ link' = link \/ published # NoBase
          BY <3>2 DEF Refuses, PublishCurrent, Inv, Attempt, At, volume
        <4> QED BY <4>1, Returns
      <3> QED BY <2>1, <3>1, <3>2, PrepareStep, StageStep, BindStep, JoinStep,
                 ManifestStep, RenameStep DEF SyncDome
    <2>2. CASE Fails \/ Kill
      <3>1. Return /\ UNCHANGED <<binding, objects, published, link>>
        BY <2>2 DEF Fails, Kill, volume
      <3> QED BY <3>1, Returns
    <2>3. CASE Change \/ Stop \/ UNCHANGED vars
      BY <2>3, ChangeStep
    <2>4. ASSUME NEW o \in Objects, Task(o) \/ CheckpointUnsynced(o) \/ TaskFails(o)
          PROVE  Attempt' /\ Settled' /\ \A p \in Objects : Sound(p)'
      BY <2>4, TaskSteps, OtherObjects
    <2> QED BY <2>1, <2>2, <2>3, <2>4 DEF Next
  <1> QED BY <1>1, <1>2 DEF Inv

LEMMA Invariant == Spec => []Inv
  BY InvInit, InvStep, PTL DEF Spec

(* Whatever fails, is stopped, killed or rewritten, the volume that is      *)
(* published has every object in place, downloaded for one and the same     *)
(* base manifest, the one the volume names, with its checkpoint under it;   *)
(* dome-ready-current never names a volume that is not there.               *)
THEOREM PublishedVolumeIsWhole == Spec => []PublishedIsWhole
  <1>1. Inv => PublishedIsWhole
    BY DEF Inv, PublishedIsWhole, Settled, Sound, Recorded
  <1> QED BY <1>1, Invariant, PTL

(* No step removes an object that has its checkpoint, takes the checkpoint   *)
(* back or downloads the object again: neither a failure, nor a stop or a    *)
(* kill, nor a later attempt, for the same or for another base manifest.     *)
THEOREM CheckpointsStay == Spec => VerifiedStays
  <1>1. ASSUME Inv, [Next]_vars, NEW o \in Objects,
               record[o] # NoBase, data[o] \in {"whole", "final"}
        PROVE  /\ record'[o] = record[o] /\ made'[o] = made[o]
               /\ data'[o] \in {"whole", "final"}
    <2>1. CASE UNCHANGED objects
      BY <1>1, <2>1 DEF objects
    <2>2. ASSUME NEW p \in Objects, Task(p) \/ CheckpointUnsynced(p) \/ TaskFails(p)
          PROVE  /\ record'[o] = record[o] /\ made'[o] = made[o]
                 /\ data'[o] \in {"whole", "final"}
      <3>1. CASE p # o
        BY <1>1, <2>2, <3>1, TaskSteps DEF Touches
      <3>2. CASE p = o
        <4> USE <1>1, <3>2 DEF Inv, TypeOK
        <4>1. Sound(o) /\ Progress(o)
          BY DEF Sound
        <4>2. CASE TakeTask(o) \/ FindFinal(o) \/ Inspect(o)
          BY <4>2 DEF TakeTask, FindFinal, Inspect, objects
        <4>3. CASE ResumeChecked(o) \/ Create(o) \/ Place(o)
          BY <4>3 DEF ResumeChecked, Create, Place
        <4>4. CASE Download(o) \/ Checkpoint(o) \/ CheckpointUnsynced(o)
          BY <4>1, <4>4 DEF Download, Checkpoint, CheckpointUnsynced, Works, Progress
        <4>5. CASE TaskFails(o)
          BY <4>1, <4>5 DEF TaskFails, Works, Progress
        <4> QED BY <2>2, <4>2, <4>3, <4>4, <4>5 DEF Task
      <3> QED BY <3>1, <3>2
    <2>3. UNCHANGED objects
          \/ \E p \in Objects : Task(p) \/ CheckpointUnsynced(p) \/ TaskFails(p)
      BY <1>1 DEF Next, SyncDome, Prepare, AdoptVolume, Stage, Bind, Refuses, Join,
         WriteManifest, Recheck, Rename, PublishCurrent, Fails, Change, Stop, Kill,
         vars, objects
    <2> QED BY <2>1, <2>2, <2>3
  <1>2. Inv /\ [Next]_vars =>
          [\A o \in Objects :
             record[o] # NoBase /\ data[o] \in {"whole", "final"} =>
               /\ record'[o] = record[o] /\ made'[o] = made[o]
               /\ data'[o] \in {"whole", "final"}]_vars
    BY <1>1
  <1> QED BY <1>2, Invariant, PTL DEF Spec, VerifiedStays

=============================================================================
