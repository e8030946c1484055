------------------------------- MODULE DomeSync -------------------------------
(***************************************************************************)
(* How SyncDome builds the Astrodome volume of one ICON-EU run              *)
(* (internal/model/iconeu/dome_sync.go): objects are downloaded by several  *)
(* workers into a staging directory that outlives failures, cancellation    *)
(* and restarts, each is verified and gets a checkpoint, and the directory  *)
(* is renamed into place when all are there.  Meanwhile somebody may        *)
(* rewrite the manifest of the base run.                                    *)
(*                                                                         *)
(* A base manifest is a number, which stands for its digest.  An object is   *)
(* downloaded for one base manifest (made); what it contains is left out.    *)
(***************************************************************************)
EXTENDS Naturals, FiniteSets, FiniteSetsExt

CONSTANTS
  LastObject,  \* objects of the volume, in the order of the tasks
  Workers,     \* Client.Workers
  LastBase,    \* versions of the base manifest
  MaxTroubles  \* failing operations, stops and kills

ASSUME DomeConstants ==
  LastObject \in Nat \ {0} /\ Workers \in Nat \ {0} /\ LastBase \in Nat \ {0}
  /\ MaxTroubles \in Nat

Objects == 1 .. LastObject
Bases   == 1 .. LastBase
NoBase  == 0
Unbound == LastBase + 1    \* a staging directory without base-manifest.sha256

VARIABLES
  base,      \* the base manifest on disk
  binding,   \* the staging directory: NoBase if there is none
  data,      \* each object: absent, a .part file, or in place
  made,      \* the base manifest it was downloaded for
  record,    \* the base manifest in its checkpoint
  published, \* the base manifest of the published volume
  link,      \* dome-ready-current names the volume
  sync,      \* how far SyncDome is, and the base manifest it has read
  task,      \* how far the task of each object is
  cancelled, \* the context of the tasks
  troubles

vars == <<base, binding, data, made, record, published, link, sync, task,
          cancelled, troubles>>
objects == <<data, made, record>>
volume  == <<published, link>>
tasks   == <<task, cancelled>>

Idle == [at |-> "idle", base |-> NoBase]
Todo == [o \in Objects |-> "todo"]

TypeOK ==
  /\ base \in Bases /\ binding \in 0 .. Unbound
  /\ data \in [Objects -> {"absent", "partial", "whole", "final"}]
  /\ made \in [Objects -> Bases \cup {NoBase}]
  /\ record \in [Objects -> Bases \cup {NoBase}]
  /\ published \in Bases \cup {NoBase} /\ link \in BOOLEAN
  /\ sync \in [at : {"idle", "preparing", "staged", "tasks", "joined", "written",
                     "checked", "renamed"}, base : Bases \cup {NoBase}]
  /\ task \in [Objects -> {"todo", "look", "download", "verified", "checkpointed",
                           "inspect", "done", "failed"}]
  /\ cancelled \in BOOLEAN /\ troubles \in 0 .. MaxTroubles

Init ==
  /\ base = 1 /\ binding = NoBase
  /\ data = [o \in Objects |-> "absent"]
  /\ made = [o \in Objects |-> NoBase] /\ record = [o \in Objects |-> NoBase]
  /\ published = NoBase /\ link = FALSE
  /\ sync = Idle /\ task = Todo /\ cancelled = FALSE
  /\ troubles = 0

Trouble == troubles < MaxTroubles /\ troubles' = troubles + 1
At(place) == sync.at = place
Goto(place) == sync' = [sync EXCEPT !.at = place]
Return == sync' = Idle /\ task' = Todo /\ cancelled' = FALSE

\* requireUnchangedDomeBase
Unchanged == base = sync.base

------------------------------------------------------------------------------
\* ensureDome, while dome-ready-current does not name the volume, and
\* prepareDomeBase, which reads the manifest and at its end looks again.
Prepare ==
  /\ At("idle") /\ ~link
  /\ sync' = [at |-> "preparing", base |-> base]
  /\ UNCHANGED <<base, binding, objects, volume, tasks, troubles>>

\* An object is in place and its checkpoint says so.
Verified(o) == data[o] = "final" /\ record[o] = sync.base /\ made[o] = sync.base

\* The volume is there already: it is verified and named.
AdoptVolume ==
  /\ At("preparing") /\ Unchanged
  /\ published = sync.base /\ \A o \in Objects : Verified(o)
  /\ link' = TRUE
  /\ Return
  /\ UNCHANGED <<base, binding, objects, published, troubles>>

\* validateDomeStagingBinding, ReserveProfile, and the directories.
Stage ==
  /\ At("preparing") /\ Unchanged
  /\ published = NoBase /\ binding \in {NoBase, Unbound, sync.base}
  /\ binding' = IF binding = NoBase THEN Unbound ELSE binding
  /\ Goto("staged")
  /\ UNCHANGED <<base, objects, volume, tasks, troubles>>

\* bindDomeStaging
Bind ==
  /\ At("staged")
  /\ binding' = sync.base
  /\ Goto("tasks")
  /\ UNCHANGED <<base, objects, volume, tasks, troubles>>

\* The ways out that leave everything where it is: the base has changed, the
\* volume or the staging directory belongs to another one, the budget refuses
\* or an operation fails.
Refuses ==
  /\ \/ At("preparing")
        /\ \/ ~Unchanged
           \/ published # NoBase /\ published # sync.base
           \/ published = NoBase /\ binding \notin {NoBase, Unbound, sync.base}
     \/ (At("joined") \/ At("written")) /\ ~Unchanged
  /\ Return
  /\ UNCHANGED <<base, binding, objects, volume, troubles>>

Fails ==
  /\ sync.at \in {"preparing", "staged", "joined", "written", "checked", "renamed"}
  /\ Trouble
  /\ Return
  /\ UNCHANGED <<base, binding, objects, volume>>

------------------------------------------------------------------------------
(* runDomeTasks and ensureDomeTask.                                        *)
Running == {o \in Objects : task[o] \notin {"todo", "done", "failed"}}
Failed  == {o \in Objects : task[o] = "failed"}
Waiting == {o \in Objects : task[o] = "todo"}

Moves(o, place) == task' = [task EXCEPT ![o] = place]
Works(o, place) ==
  At("tasks") /\ task[o] = place
  /\ UNCHANGED <<base, binding, volume, sync>>

\* A task that fails cancels the others, and its worker leaves.
FailsTask(o) == Moves(o, "failed") /\ cancelled' = TRUE

\* The workers that are left take the tasks in their order; so may they when the
\* context has just ended, since the select takes either.
TakeTask(o) ==
  /\ Works(o, "todo")
  /\ o = Min(Waiting)
  /\ Cardinality(Running) < Workers - Cardinality(Failed)
  /\ Moves(o, "look")
  /\ UNCHANGED <<objects, cancelled, troubles>>

\* The file is in place, or a checkpoint says that the .part file is whole.
FindFinal(o) ==
  /\ Works(o, "look") /\ data[o] = "final"
  /\ Moves(o, "inspect")
  /\ UNCHANGED <<objects, cancelled, troubles>>

ResumeChecked(o) ==
  /\ Works(o, "look") /\ data[o] # "final" /\ record[o] # NoBase
  /\ IF data[o] = "whole" /\ record[o] = sync.base
     THEN /\ data' = [data EXCEPT ![o] = "final"]
          /\ Moves(o, "inspect") /\ UNCHANGED cancelled
     ELSE FailsTask(o) /\ UNCHANGED data
  /\ UNCHANGED <<made, record, troubles>>

\* A stale .part file is removed and a new one created, which fails when there
\* is one.
CreateOnly(o) ==
  /\ Works(o, "look") /\ data[o] # "final" /\ record[o] = NoBase
  /\ IF data[o] = "absent"
     THEN /\ data' = [data EXCEPT ![o] = "partial"]
          /\ made' = [made EXCEPT ![o] = sync.base]
          /\ Moves(o, "download") /\ UNCHANGED cancelled
     ELSE FailsTask(o) /\ UNCHANGED <<data, made>>
  /\ UNCHANGED <<record, troubles>>

CreateFirst(o) ==
  /\ Works(o, "look") /\ data[o] # "final"
  /\ data' = [data EXCEPT ![o] = "partial"]
  /\ made' = [made EXCEPT ![o] = sync.base]
  /\ Moves(o, "download")
  /\ UNCHANGED <<record, cancelled, troubles>>

Create(o) ==
  /\ Works(o, "look") /\ data[o] # "final" /\ record[o] = NoBase
  /\ data' = [data EXCEPT ![o] = "partial"]
  /\ made' = [made EXCEPT ![o] = sync.base]
  /\ Moves(o, "download")
  /\ UNCHANGED <<record, cancelled, troubles>>

\* Downloaded, synced, closed and inspected.
Download(o) ==
  /\ Works(o, "download")
  /\ data' = [data EXCEPT ![o] = "whole"]
  /\ Moves(o, "verified")
  /\ UNCHANGED <<made, record, cancelled, troubles>>

\* writeDomeCheckpoint
Checkpoint(o) ==
  /\ Works(o, "verified")
  /\ record' = [record EXCEPT ![o] = sync.base]
  /\ Moves(o, "checkpointed")
  /\ UNCHANGED <<data, made, cancelled, troubles>>

\* Its last call, the sync of the directory, fails: the checkpoint stays, and
\* the deferred call removes the .part file it is about.
CheckpointUnsynced(o) ==
  /\ Works(o, "verified") /\ Trouble
  /\ record' = [record EXCEPT ![o] = sync.base]
  /\ data' = [data EXCEPT ![o] = "absent"]
  /\ FailsTask(o)
  /\ UNCHANGED made

Place(o) ==
  /\ Works(o, "checkpointed")
  /\ data' = [data EXCEPT ![o] = "final"]
  /\ Moves(o, "inspect")
  /\ UNCHANGED <<made, record, cancelled, troubles>>

\* inspectDomeTask
Inspect(o) ==
  /\ Works(o, "inspect")
  /\ IF Verified(o) THEN Moves(o, "done") /\ UNCHANGED cancelled ELSE FailsTask(o)
  /\ UNCHANGED <<objects, troubles>>

\* An operation fails, as all that run commands or download do once the context
\* has ended.  The deferred call removes the .part file, if it has been created
\* by this task and has no checkpoint.
TaskFails(o) ==
  /\ o \in Running /\ Works(o, task[o])
  /\ \/ cancelled /\ task[o] # "checkpointed" /\ UNCHANGED troubles
     \/ Trouble
  /\ data' = IF task[o] \in {"download", "verified"}
             THEN [data EXCEPT ![o] = "absent"] ELSE data
  /\ FailsTask(o)
  /\ UNCHANGED <<made, record>>

\* The workers have left; the results are counted.
AllCounted == Failed = {}
AllDone == \A o \in Objects : task[o] = "done"

Join ==
  /\ At("tasks") /\ Running = {}
  /\ Waiting = {} \/ cancelled
  /\ IF AllDone THEN Goto("joined") /\ UNCHANGED tasks ELSE Return
  /\ UNCHANGED <<base, binding, objects, volume, troubles>>

------------------------------------------------------------------------------
\* The manifest is written into the staging directory between two looks at the
\* base manifest.
WriteManifest ==
  /\ At("joined") /\ Unchanged
  /\ Goto("written")
  /\ UNCHANGED <<base, binding, objects, volume, tasks, troubles>>

Recheck ==
  /\ At("written") /\ Unchanged
  /\ Goto("checked")
  /\ UNCHANGED <<base, binding, objects, volume, tasks, troubles>>

\* The staging directory becomes the volume.
Rename ==
  /\ At("checked")
  /\ published' = sync.base /\ binding' = NoBase
  /\ Goto("renamed")
  /\ UNCHANGED <<base, objects, link, tasks, troubles>>

\* publishCurrentDomeManifest
PublishCurrent ==
  /\ At("renamed")
  /\ link' = TRUE
  /\ Return
  /\ UNCHANGED <<base, binding, objects, published, troubles>>

\* Somebody rewrites the manifest of the base run.
Change ==
  /\ base < LastBase /\ base' = base + 1
  /\ UNCHANGED <<binding, objects, volume, sync, tasks, troubles>>

\* The process is told to stop, or is killed; then it starts again.
Stop ==
  /\ At("tasks") /\ ~cancelled /\ Trouble
  /\ cancelled' = TRUE
  /\ UNCHANGED <<base, binding, objects, volume, sync, task>>

Kill ==
  /\ ~At("idle") /\ Trouble
  /\ Return
  /\ UNCHANGED <<base, binding, objects, volume>>

------------------------------------------------------------------------------
Task(o) ==
  \/ TakeTask(o) \/ FindFinal(o) \/ ResumeChecked(o) \/ Create(o) \/ Download(o)
  \/ Checkpoint(o) \/ Place(o) \/ Inspect(o)

SyncDome ==
  \/ Prepare \/ AdoptVolume \/ Stage \/ Bind \/ Refuses \/ Join
  \/ WriteManifest \/ Recheck \/ Rename \/ PublishCurrent

Next ==
  \/ SyncDome \/ Fails \/ Change \/ Stop \/ Kill
  \/ \E o \in Objects : Task(o) \/ CheckpointUnsynced(o) \/ TaskFails(o)

Spec == Init /\ [][Next]_vars

\* The scheduler asks again after every poll, and whatever runs goes on.
FairSpec ==
  /\ Spec
  /\ WF_vars(SyncDome)
  /\ \A o \in Objects : WF_vars(Task(o) \/ (cancelled /\ TaskFails(o)))

------------------------------------------------------------------------------
(***************************************************************************)
(* What is published is whole and of one base manifest: every object is in   *)
(* place, was downloaded for the base manifest the volume is bound to, and    *)
(* has its checkpoint under it, however many attempts, restarts and           *)
(* rewritten base manifests it took (dome_sync.go:99); and the variables      *)
(* keep their types.                                                         *)
(***************************************************************************)
PublishedIsWhole ==
  /\ TypeOK
  /\ link => published # NoBase
  /\ published # NoBase =>
       \A o \in Objects :
         data[o] = "final" /\ made[o] = published /\ record[o] = published

(***************************************************************************)
(* An object that is there with its checkpoint is never lost or downloaded   *)
(* again: "A stable staging directory survives process restarts"             *)
(* (dome_sync.go:102).                                                       *)
(***************************************************************************)
VerifiedStays ==
  [][\A o \in Objects :
       record[o] # NoBase /\ data[o] \in {"whole", "final"} =>
         /\ record'[o] = record[o] /\ made'[o] = made[o]
         /\ data'[o] \in {"whole", "final"}]_vars

(***************************************************************************)
(* After any failure, stop or kill the volume is finished at last, unless    *)
(* the base manifest changes, in which case what has been staged or          *)
(* published for an older one is refused for good (dome_sync.go:157, 518),   *)
(* or a checkpoint has been left without its object (dome_sync.go:651, 844). *)
(***************************************************************************)
BoundElsewhere(b) ==
  binding \notin {NoBase, Unbound, b} \/ published \notin {NoBase, b}
Orphaned == \E o \in Objects : record[o] # NoBase /\ data[o] = "absent"
VolumeIsFinished ==
  \A b \in Bases : base = b ~> link \/ base # b \/ BoundElsewhere(b) \/ Orphaned
=============================================================================
