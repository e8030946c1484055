------------------------------ MODULE IconStore ------------------------------
(***************************************************************************)
(* The ICON-EU store on disk and everybody who works on it: the scheduler  *)
(* of the serving process (probe, download, augmentation, publication,      *)
(* retention), its Astrodome worker, sync-icon-eu commands in processes of  *)
(* their own, and calculations that read a published Astrodome volume under *)
(* a retention lease.                                                      *)
(*                                                                         *)
(* A run is its base time.  A manifest is the set of bundles it lists.  A   *)
(* bundle is present when all its files are: it is staged in a directory of *)
(* its own, and renamed into the run when an older one has been removed.    *)
(* An Astrodome volume is built in one step here, of which only what a      *)
(* failed attempt leaves behind is told apart; DomeSync is about how.       *)
(***************************************************************************)
EXTENDS Naturals, FiniteSets, FiniteSetsExt

CONSTANTS
  LastRun,      \* the last run the provider offers
  KeepRuns,     \* ICONEUScheduler.KeepRuns
  Commands,     \* executions of sync-icon-eu
  Readers,      \* calculations of the directional worker
  MaxTroubles,  \* failed operations, crashes and probes that miss the newest run
  Overlap,      \* commands run while the scheduler refreshes the store
  Serve,        \* the scheduler
  DomeWorker,   \* its Astrodome worker
  Free, Dead    \* a lock file that is not there; one whose process is gone

ASSUME IconConstants ==
  /\ LastRun \in Nat \ {0} /\ KeepRuns \in Nat \ {0} /\ MaxTroubles \in Nat
  /\ {Serve, DomeWorker, Free, Dead} \cap (Commands \cup Readers) = {}
  /\ Serve \notin {Free, Dead} /\ Overlap \in BOOLEAN

Runs  == 1 .. LastRun
NoRun == 0
Parts == {"wind", "surface", "cloud"}
None  == {"no manifest"}
Processes == {Serve} \cup Commands

VARIABLES
  upstream,    \* the newest run the provider has completed
  dirs,        \* the directories below runs/
  manifest,    \* manifest.json of each run
  files,       \* the bundles in the directory of each run
  current,     \* what the link "current" names
  lock,        \* icon-eu-sync.lock
  proc,        \* how far each process has come
  domes,       \* the directories below dome-runs/
  domeCurrent, \* what the link "dome-ready-current" names
  volume,      \* how what there is of a run's volume, staged or published, is
               \* bound to its base manifest
  pending,     \* the channel domeRequests
  worker,      \* the Astrodome worker
  reader,      \* the calculations
  lease,       \* holders of the shared retention lease of each run
  troubles

vars == <<upstream, dirs, manifest, files, current, lock, proc, domes,
          domeCurrent, volume, pending, worker, reader, lease, troubles>>
domeVars == <<domes, domeCurrent, volume, pending, worker, reader, lease>>

Idle == [at |-> "idle", run |-> NoRun, mine |-> None, todo |-> {}, kept |-> {}]
Rest == [at |-> "idle", run |-> NoRun]

ProcessPlaces == {"idle", "sync", "syncing", "check", "placing", "placed",
                  "prune", "removing", "orphans", "gone"}

TypeOK ==
  /\ upstream \in Runs /\ current \in Runs \cup {NoRun}
  /\ dirs \subseteq Runs /\ domes \subseteq Runs
  /\ manifest \in [Runs -> {None} \cup SUBSET Parts]
  /\ files \in [Runs -> SUBSET Parts]
  /\ lock \in Processes \cup {Free, Dead}
  /\ proc \in [Processes ->
                 [at : ProcessPlaces, run : Runs \cup {NoRun},
                  mine : {None} \cup SUBSET Parts,
                  todo : SUBSET Runs, kept : SUBSET Runs]]
  /\ {domeCurrent, pending} \subseteq Runs \cup {NoRun}
  /\ volume \in [Runs -> {"none", "bound", "spoiled"}]
  /\ worker \in [at : {"idle", "asked", "leased"}, run : Runs \cup {NoRun}]
  /\ reader \in [Readers -> [at : {"idle", "asked", "reading"},
                             run : Runs \cup {NoRun}]]
  /\ lease \in [Runs -> SUBSET ({DomeWorker} \cup Readers)]
  /\ troubles \in 0 .. MaxTroubles

\* The bundle AugmentWindThermodynamics, AugmentSurface and AugmentCloud, called
\* in this order, download next; each returns at once when it is there.
NextPart(mine) ==
  IF "wind" \notin mine THEN "wind"
  ELSE IF "surface" \notin mine THEN "surface" ELSE "cloud"

\* A fresh installation, or a store an older release left behind: one
\* published run, which lacks what this release has added, except perhaps a
\* bundle placed by an augmentation that was killed (and its lock file removed).
Init ==
  /\ upstream = 1 /\ lock = Free
  /\ \E old \in {None} \cup SUBSET (Parts \ {"cloud"}) :
     \E orphan \in {{}, {NextPart(old)}} :
       /\ manifest = [r \in Runs |-> IF r = 1 THEN old ELSE None]
       /\ files = [r \in Runs |-> IF r = 1 /\ old # None THEN old \cup orphan ELSE {}]
       /\ dirs = IF old = None THEN {} ELSE {1}
       /\ current = IF old = None THEN NoRun ELSE 1
  /\ proc = [p \in Processes |-> Idle]
  /\ domes = {} /\ domeCurrent = NoRun /\ pending = NoRun
  /\ volume = [r \in Runs |-> "none"]
  /\ worker = Rest /\ reader = [c \in Readers |-> Rest]
  /\ lease = [r \in Runs |-> {}]
  /\ troubles = 0

------------------------------------------------------------------------------
Trouble == troubles < MaxTroubles /\ troubles' = troubles + 1
At(p, place) == proc[p].at = place

\* The end of a refresh that does not reach publication.
Quit(p) == proc' = [proc EXCEPT ![p] =
             IF p = Serve THEN Idle ELSE [Idle EXCEPT !.at = "gone"]]

\* The lock file covers one download or one augmentation, not the refresh they
\* are part of.  Unless Overlap, commands wait for the scheduler and it for
\* them, and none goes back to a run older than the published one.
Refreshing(p) == proc[p].at \in {"sync", "syncing", "check", "placing", "placed"}

Advance ==
  /\ upstream < LastRun /\ upstream' = upstream + 1
  /\ UNCHANGED <<dirs, manifest, files, current, lock, proc, domeVars, troubles>>

\* A poll finds run r the newest complete one: the newest, or the one before it
\* when a request about the newest fails.
Probe(r) ==
  /\ At(Serve, "idle") /\ (Overlap \/ \A p \in Commands : ~Refreshing(p))
  /\ \/ r = upstream /\ UNCHANGED troubles
     \/ r + 1 = upstream /\ Trouble
  /\ proc' = [proc EXCEPT ![Serve] =
       IF current = r /\ manifest[r] # None
       THEN [Idle EXCEPT !.at = "check", !.run = r, !.mine = manifest[r]]
       ELSE [Idle EXCEPT !.at = "sync", !.run = r]]
  /\ UNCHANGED <<upstream, dirs, manifest, files, current, lock, domeVars>>

Command(p, r) ==
  /\ At(p, "idle") /\ r <= upstream
  /\ Overlap \/ (r >= current /\ \A q \in Processes : ~Refreshing(q))
  /\ proc' = [proc EXCEPT ![p] = [Idle EXCEPT !.at = "sync", !.run = r]]
  /\ UNCHANGED <<upstream, dirs, manifest, files, current, lock, domeVars, troubles>>

\* Sync or an augmentation finds the lock file: the refresh ends.
LockedOut(p) ==
  /\ At(p, "sync") \/ (At(p, "check") /\ proc[p].mine # Parts)
  /\ lock # Free
  /\ Quit(p)
  /\ UNCHANGED <<upstream, dirs, manifest, files, current, lock, domeVars, troubles>>

\* Sync finds the run on disk and returns its manifest.
SyncFinds(p) ==
  LET r == proc[p].run IN
  /\ At(p, "sync") /\ lock = Free /\ manifest[r] # None
  /\ proc' = [proc EXCEPT ![p] = [@ EXCEPT !.at = "check", !.mine = manifest[r]]]
  /\ UNCHANGED <<upstream, dirs, manifest, files, current, lock, domeVars, troubles>>

SyncBegins(p) ==
  /\ At(p, "sync") /\ lock = Free /\ manifest[proc[p].run] = None
  /\ lock' = p
  /\ proc' = [proc EXCEPT ![p].at = "syncing"]
  /\ UNCHANGED <<upstream, dirs, manifest, files, current, domeVars, troubles>>

\* Once the manifest of a run is another one, what has been staged or published of
\* its volume is refused, and nothing in the code removes what is staged.
Rewritten(r) ==
  volume' = [volume EXCEPT ![r] = IF @ = "bound" THEN "spoiled" ELSE @]

\* The staged run is renamed into place, which an existing directory prevents.
SyncEnds(p) ==
  LET r == proc[p].run IN
  /\ At(p, "syncing") /\ r \notin dirs
  /\ dirs' = dirs \cup {r}
  /\ manifest' = [manifest EXCEPT ![r] = {"wind"}]
  /\ files' = [files EXCEPT ![r] = {"wind"}]
  /\ lock' = Free
  /\ proc' = [proc EXCEPT ![p] = [@ EXCEPT !.at = "check", !.mine = {"wind"}]]
  /\ Rewritten(r)
  /\ UNCHANGED <<upstream, current, domes, domeCurrent, pending, worker, reader,
                 lease, troubles>>

\* An augmentation takes the lock and makes its staging directory in the run.
AugmentBegins(p) ==
  /\ At(p, "check") /\ proc[p].mine # Parts /\ lock = Free
  /\ lock' = p
  /\ dirs' = dirs \cup {proc[p].run}
  /\ proc' = [proc EXCEPT ![p].at = "placing"]
  /\ UNCHANGED <<upstream, manifest, files, current, domeVars, troubles>>

\* The bundle in place, if any, is removed; then the staged one takes its name.
MakeRoom(p) ==
  LET r == proc[p].run IN
  /\ At(p, "placing") /\ r \in dirs /\ NextPart(proc[p].mine) \in files[r]
  /\ files' = [files EXCEPT ![r] = @ \ {NextPart(proc[p].mine)}]
  /\ UNCHANGED <<upstream, dirs, manifest, current, lock, proc, domeVars, troubles>>

Place(p) ==
  LET r == proc[p].run IN
  /\ At(p, "placing") /\ r \in dirs /\ NextPart(proc[p].mine) \notin files[r]
  /\ files' = [files EXCEPT ![r] = @ \cup {NextPart(proc[p].mine)}]
  /\ proc' = [proc EXCEPT ![p].at = "placed"]
  /\ UNCHANGED <<upstream, dirs, manifest, current, lock, domeVars, troubles>>

\* The manifest is the one the process has in memory, with the new bundle.
Write(p) ==
  LET r == proc[p].run
      m == proc[p].mine \cup {NextPart(proc[p].mine)}
  IN  /\ At(p, "placed") /\ r \in dirs
      /\ manifest' = [manifest EXCEPT ![r] = m]
      /\ lock' = Free
      /\ proc' = [proc EXCEPT ![p] = [@ EXCEPT !.at = "check", !.mine = m]]
      /\ Rewritten(r)
      /\ UNCHANGED <<upstream, dirs, files, current, domes, domeCurrent, pending,
                     worker, reader, lease, troubles>>

\* A download, a rename or a write fails, always when the directory is in the
\* way or gone.  The deferred calls remove what was placed, and the lock.
Fails(p) ==
  LET r == proc[p].run IN
  /\ \/ At(p, "syncing") /\ r \in dirs /\ UNCHANGED troubles
     \/ (At(p, "placing") \/ At(p, "placed")) /\ r \notin dirs /\ UNCHANGED troubles
     \/ (At(p, "syncing") \/ At(p, "placing") \/ At(p, "placed")) /\ Trouble
  /\ files' = IF At(p, "placed")
              THEN [files EXCEPT ![r] = @ \ {NextPart(proc[p].mine)}]
              ELSE files
  /\ lock' = Free
  /\ Quit(p)
  /\ UNCHANGED <<upstream, dirs, manifest, current, domeVars>>

------------------------------------------------------------------------------
\* PublishCurrent looks at the manifest in memory.
MayPublishEarly(p) == {"wind", "surface"} \subseteq proc[p].mine
MayPublish(p) == proc[p].mine = Parts

\* The link "current", then enqueueLatestDome, whose channel of one place keeps
\* the newest request.
EnqueueWhenNew(r) == pending' = IF current = r THEN pending ELSE r
Enqueue(r) == pending' = r

\* pruneICONRuns keeps the run just published and the newest others, KeepRuns
\* in all.
Retained(r) ==
  LET others == dirs \ {r} IN
  {r} \cup {q \in others : Cardinality({o \in others : o > q}) < KeepRuns - 1}

Publish ==
  LET r == proc[Serve].run IN
  /\ At(Serve, "check") /\ MayPublish(Serve)
  /\ current' = r
  /\ Enqueue(r)
  /\ proc' = [proc EXCEPT ![Serve] =
       [@ EXCEPT !.at = "prune", !.todo = dirs \ Retained(r), !.kept = Retained(r)]]
  /\ UNCHANGED <<upstream, dirs, manifest, files, lock, domes, domeCurrent,
                 volume, worker, reader, lease, troubles>>

CommandPublishes(p) ==
  /\ At(p, "check") /\ MayPublish(p)
  /\ current' = proc[p].run
  /\ Quit(p)
  /\ UNCHANGED <<upstream, dirs, manifest, files, lock, domeVars, troubles>>

\* TryExclusive: nobody holds the lease.
UnleasedIgnored(r) == TRUE
Unleased(r) == lease[r] = {}

\* The loops go from the newest run down.
Victim == Max(proc[Serve].todo)
Dropping == [proc EXCEPT ![Serve].todo = @ \ {Victim}]

\* A published volume goes; a staging directory stays.
RemoveVolume ==
  /\ domes' = domes \ {Victim}
  /\ volume' = IF Victim \in domes THEN [volume EXCEPT ![Victim] = "none"] ELSE volume

RemoveDome ==
  /\ At(Serve, "prune") /\ proc[Serve].todo # {} /\ Unleased(Victim)
  /\ RemoveVolume
  /\ proc' = [proc EXCEPT ![Serve].at = "removing"]
  /\ UNCHANGED <<upstream, dirs, manifest, files, current, lock, domeCurrent,
                 pending, worker, reader, lease, troubles>>

RemoveRun ==
  /\ At(Serve, "removing")
  /\ dirs' = dirs \ {Victim}
  /\ manifest' = [manifest EXCEPT ![Victim] = None]
  /\ files' = [files EXCEPT ![Victim] = {}]
  /\ proc' = [proc EXCEPT ![Serve] =
       [@ EXCEPT !.at = "prune", !.todo = proc[Serve].todo \ {Victim}]]
  /\ UNCHANGED <<upstream, current, lock, domeVars, troubles>>

SkipLeased ==
  /\ At(Serve, "prune") \/ At(Serve, "orphans")
  /\ proc[Serve].todo # {} /\ ~Unleased(Victim)
  /\ proc' = Dropping
  /\ UNCHANGED <<upstream, dirs, manifest, files, current, lock, domeVars, troubles>>

ListOrphans ==
  /\ At(Serve, "prune") /\ proc[Serve].todo = {}
  /\ proc' = [proc EXCEPT ![Serve] =
       [@ EXCEPT !.at = "orphans", !.todo = domes \ proc[Serve].kept]]
  /\ UNCHANGED <<upstream, dirs, manifest, files, current, lock, domeVars, troubles>>

RemoveOrphan ==
  /\ At(Serve, "orphans") /\ proc[Serve].todo # {} /\ Unleased(Victim)
  /\ RemoveVolume
  /\ proc' = Dropping
  /\ UNCHANGED <<upstream, dirs, manifest, files, current, lock, domeCurrent,
                 pending, worker, reader, lease, troubles>>

CycleEnds ==
  /\ At(Serve, "orphans") /\ proc[Serve].todo = {}
  /\ proc' = [proc EXCEPT ![Serve] = Idle]
  /\ UNCHANGED <<upstream, dirs, manifest, files, current, lock, domeVars, troubles>>

------------------------------------------------------------------------------
\* The cleaner holds the exclusive lease of r.
Exclusive(r) == At(Serve, "removing") /\ r = Victim

TakeDome ==
  /\ worker.at = "idle" /\ pending # NoRun
  /\ worker' = [at |-> "asked", run |-> pending]
  /\ pending' = NoRun
  /\ UNCHANGED <<upstream, dirs, manifest, files, current, lock, proc, domes,
                 domeCurrent, volume, reader, lease, troubles>>

\* What prepareDomeBase asks of the base run.
DomeBase(r) == manifest[r] = Parts /\ files[r] = Parts

\* Under the lease an attempt begins; it may come as far as to bind its staging
\* directory to the base manifest.
LeaseDome ==
  /\ worker.at = "asked" /\ ~Exclusive(worker.run)
  /\ \/ UNCHANGED volume
     \/ /\ DomeBase(worker.run) /\ volume[worker.run] = "none"
        /\ volume' = [volume EXCEPT ![worker.run] = "bound"]
  /\ worker' = [worker EXCEPT !.at = "leased"]
  /\ lease' = [lease EXCEPT ![worker.run] = @ \cup {DomeWorker}]
  /\ UNCHANGED <<upstream, dirs, manifest, files, current, lock, proc, domes,
                 domeCurrent, pending, reader, troubles>>

ReleaseDome ==
  /\ worker' = Rest
  /\ lease' = [lease EXCEPT ![worker.run] = @ \ {DomeWorker}]
  /\ UNCHANGED <<upstream, dirs, manifest, files, current, lock, proc, pending,
                 reader>>

\* ensureDome finds the volume, or SyncDome builds and publishes it.
EnsureDome ==
  /\ worker.at = "leased" /\ DomeBase(worker.run) /\ volume[worker.run] # "spoiled"
  /\ domes' = domes \cup {worker.run}
  /\ domeCurrent' = worker.run
  /\ volume' = [volume EXCEPT ![worker.run] = "bound"]
  /\ ReleaseDome /\ UNCHANGED troubles

\* An attempt that fails leaves what it has staged to the next one.
EnsureDomeFails ==
  /\ worker.at = "leased"
  /\ \/ ~DomeBase(worker.run) /\ UNCHANGED troubles
     \/ volume[worker.run] = "spoiled" /\ UNCHANGED troubles
     \/ Trouble
  /\ ReleaseDome /\ UNCHANGED <<domes, domeCurrent, volume>>

\* Or it leaves a checkpoint without its object, which every later attempt
\* refuses (DomeSync: CheckpointUnsynced).
DomeSpoils ==
  /\ worker.at = "leased" /\ DomeBase(worker.run) /\ Trouble
  /\ worker.run \notin domes /\ volume[worker.run] # "spoiled"
  /\ volume' = [volume EXCEPT ![worker.run] = "spoiled"]
  /\ ReleaseDome /\ UNCHANGED <<domes, domeCurrent>>

\* Or the volume is in place and the link is not changed.
DomeUnnamed ==
  /\ worker.at = "leased" /\ DomeBase(worker.run) /\ Trouble
  /\ worker.run \notin domes /\ volume[worker.run] # "spoiled"
  /\ domes' = domes \cup {worker.run}
  /\ volume' = [volume EXCEPT ![worker.run] = "bound"]
  /\ ReleaseDome /\ UNCHANGED domeCurrent

\* A calculation is pinned to the published volume when it is admitted, and
\* opens it later, under the retention lease.
Admit(c) ==
  /\ reader[c].at = "idle" /\ domeCurrent \in domes
  /\ reader' = [reader EXCEPT ![c] = [at |-> "asked", run |-> domeCurrent]]
  /\ UNCHANGED <<upstream, dirs, manifest, files, current, lock, proc, domes,
                 domeCurrent, volume, pending, worker, lease, troubles>>

OpenVolume(c) ==
  LET r == reader[c].run IN
  /\ reader[c].at = "asked" /\ ~Exclusive(r)
  /\ IF r \in domes
     THEN /\ reader' = [reader EXCEPT ![c].at = "reading"]
          /\ lease' = [lease EXCEPT ![r] = @ \cup {c}]
     ELSE reader' = [reader EXCEPT ![c] = Rest] /\ UNCHANGED lease
  /\ UNCHANGED <<upstream, dirs, manifest, files, current, lock, proc, domes,
                 domeCurrent, volume, pending, worker, troubles>>

CloseVolume(c) ==
  /\ reader[c].at = "reading"
  /\ reader' = [reader EXCEPT ![c] = Rest]
  /\ lease' = [lease EXCEPT ![reader[c].run] = @ \ {c}]
  /\ UNCHANGED <<upstream, dirs, manifest, files, current, lock, proc, domes,
                 domeCurrent, volume, pending, worker, troubles>>

\* A removal that has been cut short has removed anything so far.
HalfRemoved ==
  IF At(Serve, "removing")
  THEN \E left \in SUBSET files[Victim], m \in {None, manifest[Victim]} :
         /\ files' = [files EXCEPT ![Victim] = left]
         /\ manifest' = [manifest EXCEPT ![Victim] = m]
  ELSE UNCHANGED <<files, manifest>>

\* pruneICONRuns returns at its first error.
PruneFails ==
  /\ proc[Serve].at \in {"prune", "removing", "orphans"} /\ Trouble
  /\ HalfRemoved
  /\ proc' = [proc EXCEPT ![Serve] = Idle]
  /\ UNCHANGED <<upstream, dirs, current, lock, domeVars>>

\* The serving process is killed and started again: flocks are given back, the
\* lock file is not.
Crash ==
  /\ Trouble
  /\ ~At(Serve, "idle") \/ worker.at # "idle"
  /\ HalfRemoved
  /\ lock' = IF lock = Serve THEN Dead ELSE lock
  /\ proc' = [proc EXCEPT ![Serve] = Idle]
  /\ worker' = Rest /\ pending' = NoRun
  /\ lease' = [r \in Runs |-> lease[r] \ {DomeWorker}]
  /\ UNCHANGED <<upstream, dirs, current, domes, domeCurrent, volume, reader>>

------------------------------------------------------------------------------
Refreshes(p) ==
  \/ LockedOut(p) \/ SyncFinds(p) \/ SyncBegins(p) \/ SyncEnds(p)
  \/ AugmentBegins(p) \/ MakeRoom(p) \/ Place(p) \/ Write(p) \/ Fails(p)

Prunes ==
  \/ RemoveDome \/ RemoveRun \/ SkipLeased \/ ListOrphans
  \/ RemoveOrphan \/ CycleEnds

DomeWorks ==
  \/ TakeDome \/ LeaseDome
  \/ EnsureDome \/ EnsureDomeFails \/ DomeSpoils \/ DomeUnnamed

Calculates(c) == Admit(c) \/ OpenVolume(c) \/ CloseVolume(c)

Next ==
  \/ Advance \/ PruneFails \/ Crash
  \/ \E r \in Runs : Probe(r)
  \/ \E p \in Commands, r \in Runs : Command(p, r)
  \/ \E p \in Processes : Refreshes(p)
  \/ \E p \in Commands : CommandPublishes(p)
  \/ Publish \/ Prunes \/ DomeWorks
  \/ \E c \in Readers : Calculates(c)

Spec == Init /\ [][Next]_vars

\* The ticker goes on, and so does whatever has been begun.
FairSpec ==
  /\ Spec
  /\ WF_vars(Probe(upstream) \/ Refreshes(Serve) \/ Publish \/ Prunes)
  /\ WF_vars(DomeWorks)
  /\ \A p \in Commands : WF_vars(Refreshes(p) \/ CommandPublishes(p))

------------------------------------------------------------------------------
(***************************************************************************)
(* A reader of "current" finds a manifest that lists every bundle and every *)
(* bundle it lists: once this is so it stays so, whatever is downloaded,    *)
(* augmented, pruned or interrupted ("An incomplete run can never become    *)
(* current", docs/architecture.en.md).                                      *)
(***************************************************************************)
Serving == current # NoRun /\ manifest[current] = Parts /\ files[current] = Parts
CurrentServes ==
  [][/\ current' # current => Serving'
     /\ Serving => Serving']_vars

(***************************************************************************)
(* Neither a run nor its Astrodome volume loses anything while somebody      *)
(* holds its retention lease: pruneICONRuns against runDomeWorker and        *)
(* ComputeAstrodomeDataset, in other processes.  All that may go is a bundle *)
(* that an augmentation is about to replace, or takes back when it fails,    *)
(* and none that the manifest lists.                                         *)
(***************************************************************************)
LeaseKeeps(r) ==
  /\ r \in domes => r \in domes'
  /\ r \in dirs => r \in dirs'
  /\ manifest[r] # None => manifest'[r] # None
  /\ \A b \in files[r] \ files'[r] :
       \E p \in Processes : /\ At(p, "placing") \/ At(p, "placed")
                            /\ proc[p].run = r /\ b = NextPart(proc[p].mine)
ListedKept(r) == files[r] \cap manifest[r] \subseteq files'[r]
LeasedStays ==
  [][\A r \in Runs : lease[r] # {} => LeaseKeeps(r) /\ ListedKept(r)]_vars

(***************************************************************************)
(* Whatever fails on the way, the newest run is published and then its       *)
(* Astrodome volume, unless a newer one has come, a crash has left           *)
(* icon-eu-sync.lock behind, or what has been staged of the volume cannot be *)
(* resumed: it holds a checkpoint without its object (dome_sync.go:844, 651) *)
(* or is bound to a manifest that has been rewritten (dome_sync.go:518).     *)
(* Nothing in the code removes that file or that directory.                  *)
(***************************************************************************)
DomeFollows ==
  \A r \in Runs :
    upstream = r ~> \/ domeCurrent = r /\ r \in domes
                    \/ upstream # r \/ lock = Dead \/ volume[r] = "spoiled"
=============================================================================
