# Verification of bot_astrosferum

TLA+ models of the concurrent parts of the bot, checked by TLC on small
instances and, where it matters most, proved with TLAPS for every value of the
constants. Paths are relative to the repository's `src/`.

## The system

A Telegram/VK bot (`cmd/bot_astrosferum`) answers with astronomical weather
forecasts. Ordinary forecasts are rendered from model runs (ICON-EU, ICON
Global, GEOS-CF) that schedulers download into a shared volume. Two expensive
calculations, *Horizon* and *Astrodome*, go through one coordinator with a
bounded FIFO; Astrodome runs in a separate worker process
(`cmd/bot_astrosferum_directional_worker`).

| Part | State it keeps | Operations | Hard because | What makes it correct |
|---|---|---|---|---|
| Directional coordinator (`internal/app/directional/coordinator.go`) | job records, FIFO, active and completed jobs, maps of science digests and idempotency keys, wake channel | Register, Start, Submit, Status..., Cancel, OpenResult, worker loop, Close | workers, callers and shutdown interleave; a runner returns long after its job was cancelled; maps must forget a job together | exact slots and queue, final outcomes, no dangling key, no shared job lost, no lost wake-up, Close returns |
| Result cache (`directional/cache.go`) | directories on disk, map of entries | publish, lookup, open, prune, recover | several publishers, expiry against readers, crash between rename and map | a published entry stays until it expires or is evicted; a ready job can be opened |
| Execution gate (`directional/execution_gate.go`) | flock slots shared by processes | Acquire, release | crash of a holder, cancellation after the lock | never more holders than slots, slots come back |
| Remote protocol (`directional/remote.go`) | a request per calculation | Run, ServeHTTP | timeout against a late answer | the slot of an abandoned request is given back |
| HTTP API (`directional/http.go`) | watch goroutines | submit, status, cancel, dataset | wait then status | one notification per finished job |
| Horizon jobs (`app/bot/horizon_jobs.go`) | request and delivery queues, waiters, active users | enqueue, process, deliver, discard | full queues, shared results | every waiter gets an answer, every user is released |
| Bundle and render caches (`app/bot/horizon_cache.go`, `render_cache.go`) | files, leases | publish, load, prune | eviction against use | a leased bundle stays |
| Forecast queue (`app/bot/forecast_queue.go`) | waiting counter, slots | Wait, release | cancellation while waiting | the counter is exact |
| Account results (`app/bot/account_results.go`) | jobs of the website, slots, a directory with a manifest per job | admit, run, report, cancel, publish, prune, recover | callbacks of another goroutine, writes outside the mutex, restart in the middle | slots come back, a cancellation is not overtaken, a ready job is on disk |
| Command and disk budgets (`internal/model/*.go`) | slots, flock files shared by processes | acquire, reserve, release | crash, stale records, overflow | the budget is never exceeded |
| Run leases (`internal/model/run_lease.go`) | flock files shared by processes | shared, exclusive, try | a reader chooses a run before it holds it | a leased run is not removed |
| ICON stores and schedulers (`internal/model/iconeu`, `iconglobal`, `internal/app`) | staged and published runs, manifests, links, a lock file | probe, sync, augment, publish, retain | refreshes of several processes, failures, kills | what is current is complete and stays so, the newest run gets there |
| Astrodome volumes (`internal/model/iconeu/dome_sync.go`) | a staging directory that survives, checkpoints, the published volume | stage, resume, download, check, publish | workers, kills, a base that changes | a published volume is whole and of one base |
| Messenger clients (`internal/platform`) | update offset | poll, send | retry, lost answers | no update handled twice |
| Science, rendering, configuration, PostgreSQL store | none, or SQL | | floating point, drawing | outside the models |

The website's jobs (account results) call the forecast handler and the Horizon
jobs. The coordinator is called by the Horizon jobs (limit 0) and by the Astrodome
backend (limit 1 for a regular user); it calls the runners and the result
cache; the Astrodome runner calls the remote worker, whose handler passes the
execution gate. Leases, budgets and stores are shared with the schedulers'
processes through the file system.

## Modules

| Module | Models |
|---|---|
| `Coordinator` | the coordinator, one action per critical section of its mutex and per step a goroutine takes outside it |
| `BoundedFifo` | what the coordinator promises: a bounded FIFO in front of `Concurrency` slots |
| `MCCoordinator` | instances of `Coordinator` for TLC: the request sets and the symmetry |
| `CoordinatorLemmas` | what each helper does to the registry, proved |
| `CoordinatorProofs` | its inductive invariant, the theorems on FIFO, slots, outcomes and wake-ups, and the refinement of `BoundedFifo` |
| `CoordinatorRegistry` | the invariant of its maps, and the theorems on keys, digests, owners and cancellation |
| `ResultCache` | the disk cache of results: publication step by step, lookup, open, crash and recovery |
| `MCResultCache` | its symmetry for TLC |
| `ResultCacheProofs` | its inductive invariant and theorems |
| `HorizonJobs` | admission and delivery of Horizon calculations, with local workers or with the tickets of the coordinator |
| `MCHorizonJobs` | its symmetry for TLC |
| `HorizonJobsProofs` | its inductive invariant and theorems |
| `AccountResults` | jobs of the website from admission to retention, with the forecast queue, the callbacks of Horizon tickets and restarts |
| `MCAccountResults` | its instances for TLC |
| `AccountResultsProofs` | its inductive invariant and theorems |
| `IconStore` | the ICON-EU store on disk, its scheduler, commands and readers |
| `IconStoreProofs` | its inductive invariants and theorems |
| `DomeSync` | how one Astrodome volume of that store is built |
| `DomeSyncProofs` | its inductive invariant and theorems |

### Coordinator

`reg` is what `coordinator.mutex` guards: the job records, the FIFO, the active
and completed jobs and the maps. `Pruned` is the `pruneCompletedLocked` most
operations begin with. `Submit` is split by its outcome (`SubmitReplay`,
`SubmitJoin`, `SubmitHit`, `SubmitEnqueue`); its refusals change nothing but
what was pruned (`PruneOnly`, which also stands for the read-only operations).
The wake-up after the unlock is a step of its own (`SubmitSignals`), since
anything may happen in between. A worker goes from `next` (nextJob) to `idle`
(the select), or through `running`, `publishing`, `recording` and `signalling`
(execute). `ctx` in a job record is the state of its run context, `wake` the
tokens in the channel.

Abstractions: a digest is the tuple of what it hashes (the source identity is
constant for a kind); the result cache is a disk cache that outlives the
process, so that a lookup may hit or miss and a publication may succeed or
fail; the list of completed jobs is a set ordered by finishing time, jobs
finished at the same tick in any order, except that those just appended are the
last; bytes, estimates and percentages are left out. Close is called once; a
second call only waits.

### ResultCache

`entries` is the map that `resultCache.mutex` guards, `disk` the directories
under `entries/`, `staged` the `.publish-` directories. A publication is a
sequence of steps (`publisher[p].at`): the clock is read (`Stamp`), the map is
looked up (`Check`), what is on disk is verified (`Load`) and adopted (`Adopt`)
or removed file by file (`RemoveBegins`, `RemoveEnds`), the files are copied
and renamed (`Rename`, `CopyFails`), the directory is synced (`Sync`,
`SyncFails`), the entry is inserted (`Insert`). Only `Check`, `Adopt` and
`Insert` hold the mutex; while a critical section removes the directories of
the entries it forgets, `locked` holds them and `holder` is the worker that
does (`Unlock` ends it). `Lookup` and `Open` are what callers do; `Open`
forgets an entry whose bytes do not match. `Crash` is a kill, with or without a
power loss that takes the renames no sync has made durable; `Recover` is
`recover`, and may fail or be killed again (`RecoverFails`).

Abstractions: the bytes of a data set are its creation time, because a data set
records when it was generated and a publication has a tick of its own, so that
two entries never tie in the eviction order; the removal of an entry's
directory under the mutex succeeds; a removal that has not been synced is not
undone by a power loss; the clock does not go back. A publication so slow that
as many newer entries as the limit have arrived meanwhile is evicted by its own
prune, and answers a result that is gone; `ResultIsThere` excepts this case.

### HorizonJobs

`active`, `recent` and `jobs` are the maps that `HorizonJobs.mu` guards, `queue`,
`delivery` and `slots` the channels (`cacheDeliverySlots` is its number of
tokens), `leases` the number of lease files. `request[r].at` says how far a call
of `deliverRequest` has come, and afterwards who carries its result. Each
critical section is an action, and so is each step outside the mutex at which
something else may intervene:

- a cached result: `Load`, `ReserveCached`, `TakeSlot`, `LeaseCached`,
  `SendCached`, `FailCached`;
- the local queue (`attached` false): `EnqueueRefused`, `Join`, then `Check` (the
  look at the process context) and `Enqueue` (the send), and the worker's
  `TakeJob`, `Process`, `Detach`, `LeaseJob`, `SendJob`, `Drain`;
- the coordinator (`attached` true): `ReserveShared`, `Submit`, `Register`, and the
  awaiting goroutine's `Await`, `LeaseShared`, `SendShared` and its deferred
  `Clear`; `CancelUser` is the owner-scoped cancellation;
- the delivery workers: `TakeDelivery`, one `Answer` per waiter,
  `FinishDelivery`, `SenderLeaves`;
- the end: `RootEnds` (the process context), `CloseBegins`, `CloseCancels`,
  `CloseEnds` (with `discardDeliveries`).

`attached` says whether a coordinator has been attached, which `Start` leaves as
it is; `Modes` are the values it may have. A result dropped at a full channel
leaves its requests at the place `dropped`.

`Sent` and `Dropped` are the alternatives of the `select` that ends
`deliverJob`; both may be ready, and then either is taken. `answered` are the
requests that have been told how they ended: a refusal, a picture, or a failure.

Abstractions: a calculation, the source, the disk and the messengers may fail at
every point the code checks; a run that is replaced is one of these failures. A
ticket is pending, good or failed (`Coordinator` models what is behind it). The
cache is the set of keys it can load, and forgets any of them at any time. The
cooldown ends at any time (`Cool`). A local job bears the name of the request
that created it, since a call happens once. Time limits of single messages are
failures; the aggregate limit may end a batch after its first waiter. `jobs.mu` does
not guard the process context, which may end inside a critical section: where it
matters (`enqueue`) the section is two steps, and `Unlocked` keeps everybody else out
of the mutex between them. `Drain` is `discardQueued`: a job is received, forgotten
under the mutex, and so on until the queue is empty. The model begins after
`Start`.

### AccountResults

`jobs`, `idempotency` and `held` (the tokens in the two slot channels) are what
the dispatcher's mutex and channels guard, `manifest` and `output` the files in
each job's directory. `run[i]` is the goroutine `run` of job `i` and the status
it is about to write, `waiter[i]` the goroutine that awaits its Horizon ticket
(`awaitDirectional`, then `performDelivery`) and reports into the job; `work[i]`
is what both share: the context of the job, its ticket, the capture and the
answer. `queue` is `ForecastQueue`.

`update` changes the status under the mutex and writes a copy of it afterwards:
two actions, so that the writes of the two goroutines and of `prune` may come in
any order. Admission is `AdmitAccountJob` (map, key, slot), then `AdmitStored` or
`AdmitRejected`. `Begin`, `Open`, `Enter` (with `LeaveLine`, `TakeSlot`),
`Calculate`, `Copy`, `Submit`, `WaitHorizon` and `Judge` follow `run`; `Publish`
and `Confirm` are the two critical sections of `publishReady` around its write;
`PruneAndRelease` or `Write` and `Release` end it. `Poll`, `Notify`, `WaiterWrite`,
`Deliver`, `WaiterCopy`, `Say` and `Abandon` are the waiter's. `Crash` loses
everything but the directories; `Restart` is `recoverInterruptedJobs` and a prune.

Abstractions: queued and running are one state, except that a status without
`EstimatedAt` (`"blank"`) is told apart, because `readManifest` refuses it; times
are reduced to older or not older than the retention; updates of what is only
shown are left out; the age limit passes only while no goroutine works, since
every goroutine writes at least every two seconds or is bounded by its timeout.
The queue's capacity, which only refuses, is not reached with two jobs. What is
behind a ticket is `HorizonJobs` and `Coordinator`.

### IconStore

A run is its base time, a manifest the set of bundles it lists (wind, surface,
cloud), `files` the bundles in its directory. `proc[p]` is a refresh: of the
scheduler (`Serve`) or of a `sync-icon-eu` command. `Probe` and `Command` begin
one, `SyncFinds`, `SyncBegins`, `SyncEnds` are `Client.Sync`; `AugmentBegins`, `MakeRoom`,
`Place`, `Write` are any of the three augmentations, which have one shape: take the
lock file, stage, remove a bundle that is in place, rename the staged one, write
the manifest the process has in memory, remove the lock file. `LockedOut` and `Fails` are their errors with
the deferred clean-up. `Publish` is the scheduler's `PublishCurrent`, the request
to the Astrodome worker and the choice of what to retain; `RemoveDome`,
`RemoveRun`, `SkipLeased`, `ListOrphans`, `RemoveOrphan`, `CycleEnds` and `PruneFails`
are `pruneICONRuns`. `TakeDome`, `LeaseDome`, `EnsureDome` and the three ways to fail
(`EnsureDomeFails`, `DomeSpoils`, `DomeUnnamed`) are the Astrodome worker, `Admit`, `OpenVolume`, `CloseVolume` a calculation in another
process, `Crash` a kill and restart of the serving process.

`volume[r]` is what `DomeSync` tells of a volume that matters here: nothing is bound
to a base manifest yet, what is staged or published is bound to the present one,
or it is *spoiled*: a checkpoint has lost its object (`DomeSpoils`, the failed sync
of `dome_sync.go:844`), or the manifest it is bound to has been rewritten
(`Rewritten`). Every later attempt on a spoiled volume fails. The store begins
empty, or with one run of an older release, in which a killed augmentation may
have left a bundle that no manifest lists.

Abstractions: a bundle is its directory, which is staged elsewhere and so is whole
or not there; its removal before the rename (`MakeRoom`) takes it away at once (a
bundle that is half removed is one that is not there), and anything may happen
before the staged one takes its name. The removal of a run may be cut short and
leave any part of it, the removal of a volume is one step. `ProbeLatest` may go back
several runs when requests fail; here a probe goes back one (there are three
runs). A failed attempt at a volume leaves its staging as it found it, spoils it, or
has published the volume without its link. A hourly surface without the
fields added last counts as absent; Astrodome is enabled; the removal of stale
staging directories is left out. `Overlap` says whether commands may run during a
refresh of another process.

### DomeSync

`sync` is how far `SyncDome` is and the digest of the base manifest it has read;
`task[o]` how far the task of an object. `data`, `made` and `record` are the object
on disk (nothing, a `.part` file, whole or not, or in place), the base it was
downloaded for, and the base in its checkpoint; `binding` is
`base-manifest.sha256` of the staging directory, `published` and `link` the
volume and `dome-ready-current`. `Prepare`, `Stage`, `Bind`, `Join`, `WriteManifest`,
`Recheck`, `Rename`, `PublishCurrent` follow `syncDome`, with `AdoptVolume` for a
volume that is there already and `Refuses` and `Fails` for the ways out.
`TakeTask` to `Inspect` are `runDomeTasks` and `ensureDomeTask`;
`CheckpointUnsynced` is the error after the rename of a checkpoint, `TaskFails`
every other one, with the deferred removal. `Stop` ends the context of the tasks,
`Kill` the process; both leave the staging directory.

Abstractions: a manifest is a version number; a refused disk reservation is one
of the failures; a rename outlives the process (no power loss); the staging
lease has no second user; `AdoptVolume` makes the last look at the base manifest and
the change of the link one step. The base manifest may be rewritten at any
moment, which is what `IconStore` shows commands to do.

Operators marked `Faulty` are plausible bugs of the definition that follows
them. Each property is known to be sensitive: replacing a definition by its
faulty variant makes TLC report that property.

## Runs

| Run | Question | Instance |
|---|---|---|
| `coordinator_sharing` | do owners who share, retry and cancel keep the maps exact, and the completed list within its limit as jobs expire? | 1 worker, 2 jobs, 2 owners, 2 keys, 2 families, 2 sciences, FIFO of 1, 1 completed job, a clock of one tick; 675 000 states |
| `coordinator_workers` | slots, wake-ups, outcomes, and the refinement of `BoundedFifo` | 2 workers, 2 jobs, FIFO of 2, timeouts, Close and the end of the process context; 325 000 states |
| `coordinator_progress` | does Close return, is the slot of a cancelled run freed, does every job end? | 1 worker, 2 jobs, FIFO of 1, timeouts; no symmetry; 9 700 states |
| `result_cache` | does the map match the disk, and do results stay until age or limit, is an answered publication there, is the limit kept, is no staging directory left? | 2 workers never on the same identity, 3 identities, limit 1, lifetime 3, 4 ticks; 56 000 states |
| `result_cache_race` | does a result stay with two workers on one identity? It does not (see Findings) | 2 workers, 2 identities; a violation |
| `horizon` | is a user busy exactly while a request of it is under way, does CancelUser reach it, are calculations shared and carried once, slots and leases given back, who is not told, does every request end, does Close, and what does it leave? | 2 requests of 2 users, 1 key, with a coordinator or with 2 local workers, 1 delivery worker, queue and channel of 1; no symmetry; 193 000 states |
| `horizon_silent` | is everybody told when the channel is full? No (see Findings) | 2 requests of 2 users, a coordinator, a channel of 1; a violation |
| `accounts` | are slots, queue places and keys exact, does an accepted cancellation win, is a ready job on disk and does it stay, does a slot come back? | a forecast and a Horizon job, a slot of each kind, 1 place in the forecast queue, 1 failure or crash; 315 000 states |
| `accounts_restart` | has every interrupted job failed after a restart? No (see Findings) | 1 Horizon job, 1 crash; a violation |
| `icon_store` | does what is current go on serving, does a leased run keep what its manifest lists, does the newest run get its volume? | 3 runs of which 2 are kept, a command, a calculation, 1 failure or crash; 249 000 states |
| `icon_commands` | the first of these, with a command during a refresh? No (see Findings) | 1 run, a command; a violation |
| `dome_sync` | is a published volume whole and of one base, is verified work kept, is the volume finished? | 4 objects, 2 workers, 2 base manifests, 3 failures, stops or kills; 77 000 states |

Two jobs are enough for every pairwise interaction: one running and one queued,
one completed and one new, two that share a digest. A limit and a capacity of
one make the full queue and the eviction happen with two jobs. `JobSymmetry`
permutes job identifiers and workers, which the code never compares; the
liveness runs do not use symmetry. Deadlock is not checked: the systems stop
after Close, at the end of the process or of a bounded supply of requests.

Three identities, a limit of one and a lifetime shorter than the clock make
every kind of forgetting happen: by age, by limit, by a failed verification, by
a crash. Each publication costs a tick, so that `MaxTime` bounds the number of
publications of a run. `result_cache` keeps to the states in which no identity is
published twice at once (`CONSTRAINT Solo`, which is also what `SoloSpec` says);
`result_cache_race` is about the others, and the theorems `TypeCorrect` and
`StagingIsOwned` cover both.

In `horizon` the two users' requests share a calculation, hit the cache one after
the other, or meet in a channel that is full when the second result comes; one
slot for cached results is taken while one is delivered. The bound on the
waiters of a calculation, which only refuses, is not reached with two users. The
code's capacities are at least 16 and 8, and nothing in it depends on their
value.

One failure suffices for the account results and the store, because each of
their operations gives up at its first failure; `dome_sync` retries, and has
three. Three runs of which two are kept make the cleaner remove one while a
slow worker or reader still has it. The one failure of `icon_store` may also be the
one that spoils a volume; `DomeFollows` then promises nothing about that run, nor
about one whose staging a rewritten manifest has spoiled. Four objects and two workers leave tasks
untaken when a worker fails.

Fairness:

- Coordinator: every goroutine the code has started goes on (`WF` of `Step`, of
  the signal after Submit, and of Close: `StopSpec`). A runner may take for ever
  unless its context ends, which is what `Close` documents. `EveryJobEnds` has the
  premise `RunFairness`, that every runner returns, as all runners do whose policy
  has a timeout.
- Horizon jobs: goroutines go on, every calculation ends (`TicketEnds`: both
  runners have timeouts) and so does a send to a messenger (each has a timeout).
- Account results: a job's goroutine goes on, and a forecast's deadline passes
  (`operationContext`). Nothing is assumed of the waiter of a Horizon ticket: this
  is why only cancelled Horizon jobs are promised their slot.
- ICON store: the ticker goes on and finds the newest run, and started work goes
  on. Nothing is assumed of the provider or of calculations.
- Astrodome volume: the scheduler asks again after every poll, tasks go on, and
  those of a context that has ended fail.

Nothing is assumed of callers, of cancellation or of the end of the process.

## Findings

Shown by a run:

`cache.go:148`: a publication that finds no valid directory removes the
identity's directory *outside* the mutex, and removes whatever is there by then.
Two workers that publish the same identity may interleave so that the second
removes what the first has just renamed and entered, and answers for; the
ready job of the first then cannot be opened, whereas `types.go:82-83` promises
"immutable atomic publication" and `types.go:108` calls a result "immutable
published science output". The run `result_cache_race` shows
it. The coordinator lets two workers publish one identity when the identity a
run ends with is not the one it was queued under. `SoloSpec` excludes the case,
and under it the property holds and is proved.

`horizon_jobs.go:1092`: when the delivery channel is full, `deliverJob` removes
the lease and releases the users, but tells none of them: no message, no
`CompleteHorizon`. `horizon_jobs.go:84-86` says that signal is for callers "that
need an explicit terminal signal instead of inferring it from localized status
messages". The account results are such a caller, wait for it without a timeout
(`account_results.go:987`, `cmd/bot_astrosferum/main.go:517`) and hold a slot
meanwhile. The run `horizon_silent` shows it; `OnlyDropsAreSilent` shows that it
is the only such way out.

`account_results.go:434`: the status callback of a Horizon job copies
`EstimatedAt` also from a ticket that is ready or failed, where there is none, and
leaves the job running. The manifest it writes is one `readManifest` refuses. If
the process ends before the data set is published, `recoverInterruptedJobs` skips
the directory, and the job answers `ErrNotFound` where
`account_results_test.go:210-212` expects a failed job. The run
`accounts_restart` shows it.

`cmd/bot_astrosferum/main.go:330`: `icon-eu-sync.lock` covers one download or one
augmentation, not the refresh they are parts of, and a refresh keeps the manifest
it has read in memory. The run `icon_commands` shows the shortest way this goes
wrong: the scheduler reads the manifest of the current run, which an older release
has left without the cloud bundle; a command augments the same run and publishes
it; the scheduler augments what its own manifest lacks, and removes the directory
that the published manifest now lists (`cloud_sync.go:179-180`). Until the rename
(`:186`) a reader finds a manifest without its files, for good when the rename fails,
and a lease does not prevent it. Later the older manifest is written over the
published one (`:208`). `docs/architecture.en.md:220` says the file lock is there "so
two refreshes cannot mutate the store concurrently", and `:393` that "An incomplete
run can never become current." `icon_store` shows that nothing else takes a bundle
away from what is published.

`horizon_jobs.go:842`: `enqueue` looks at the process context (`:817`) and sends the job
into the queue (`:842`), both under `jobs.mu`, which does not guard the context. When it
ends in between, the idle workers run `discardQueued` (`:1245`) over an empty queue and
leave, and then the send succeeds. `Close` waits for the workers and discards the
*deliveries* (`:336-337`): the job stays in the queue, its user in `active`, and its
caller is never told. The comment at `:325` says that `Close` "discards queued work".
The run `horizon` shows how far it goes: `CloseLeavesOne` says that this is all
that can be left, one job of one user, and only if it was sent after the context
had ended. `ClosedIsEmpty`, which stands beside it in `HorizonJobs` and is what the
comment claims, is violated when it takes the place of `CloseLeavesOne` in
`horizon.cfg`: `Ask`, `Load`, `Check`, `RootEnds`, `Drain` (the worker leaves), `Enqueue`,
`SenderLeaves`, `CloseBegins`, `CloseEnds`. In the program this happens only while it
exits.

Met while modelling, and left to the models' text:

- `horizon_directional.go:77`: with the coordinator attached, admission after a
  cache miss prunes the recent results but does not look at them, so that the
  "three-second repeat-click guard" of `docs/architecture.en.md:1450-1451` covers
  cached results and local queues only (`enqueue`, `reserveCached`).
- `account_results.go:428-431`: the callback sets the state without looking at the
  one it replaces. A cancelled or failed job whose waiter is late is active
  again, and stays so, which `docs/architecture.en.md:2003` does not expect of
  terminal results. (`Notified` models it; ready jobs are safe, `ReadyStays`.)
- `publishReady` writes a ready manifest before it looks again: a process that ends
  between the write and the end of a cancelled job leaves a ready manifest.
- `dome_sync.go:844`: when the sync after the rename of a checkpoint fails, the
  checkpoint stays and the deferred call removes the object it is about. Every
  later attempt fails at `dome_sync.go:651`. (`CheckpointUnsynced`; the exceptions
  `Orphaned` of `VolumeIsFinished` and `volume[r] = "spoiled"` of `DomeFollows`.)
- `dome_sync.go:518`: a staging directory bound to an older base manifest is refused
  for good, and nothing removes it (`BoundElsewhere`; `Rewritten` in `IconStore`).
- `client.go:129`: a process killed while it refreshes leaves the lock file, which
  nothing removes; every later refresh fails. (`Dead`; the exception in
  `DomeFollows`.)
- `config.go:720` accepts `keep_runs: 1`. With one run kept, what is published may
  lose its run although no refreshes overlap: a scheduler whose probe found the
  previous run publishes it and removes the newer one, which a command publishes
  again between the check of its lease and the removal of its directory. This is
  why `CurrentStaysWhole` supposes two.
- A failed augmentation takes its bundle back whoever leases the run: a command
  that repeats a run whose directory was removed before the Astrodome worker
  leased it may take away what it has just placed (`LeasedStays` names this case,
  and nothing else).
- `icon_scheduler.go:308` counts incomplete runs among the `KeepRuns` it retains.
- After retention removed its volume, `dome-ready-current` names nothing until the
  next one is published (`domeCurrent \in domes` in `Admit`).

## Proofs

Unless it says otherwise, a theorem is about `Spec` of its module and holds for every value of the
constants that meets the module's named assumptions, which are those of
`Config.validate`, `validateRequest` and `config.go`, and that sentinels differ
from values. None of the properties is inductive alone; what follows says what
was missing. Every inductive invariant was checked by TLC on the instances of the
runs before it was proved.

A step that changes several fields of one record writes `[f EXCEPT ![p] = [@ EXCEPT
!.a = x, !.b = y]]`, in the models and in the proofs, and never `[f EXCEPT ![p].a = x,
![p].b = y]`: of two exceptions at one index the prover's translation to SMT asserts
both, where TLA+ lets the later one count, and from such a hypothesis anything
follows. No obligation of the proofs contains two exceptions at one index.

**Coordinator.** `CoordinatorProofs` proves the type invariant (`TypeCorrect`), the
exactness of slots (`SlotsAreExact`) and of the FIFO (`QueueIsExact`), and that
outcomes are final (`OutcomesAreFinal`). `Inv` adds to the type invariant `Shape`
(the FIFO lists exactly the queued jobs, once each, within capacity; an active job
is neither unused nor queued; a running job is active), `Holding` (the busy
workers' jobs are the active ones, one each) and `Progressed` (a run about to be
recorded as a success has a final digest; before Start no worker is anywhere). A
job can be active and completed at once, after a cancellation, so that "active" is
not "running": this is why slots are tied to workers and not to states. There is
a lemma per action; what the helpers do to the registry is stated once, in
`CoordinatorLemmas`.

`Effect` classifies what one step may do to the states of jobs and to the FIFO
(admit, serve, begin, end, abort, withdraw, flush, or nothing), and every action
is proved to be one of these. Four results follow from it: `OutcomesAreFinal`;
`ImplementsFifo`, the refinement of `BoundedFifo` under the mapping of
`Coordinator`; `DrainedWhenWorkersLeave`, with the invariant `Shut` (closing
empties the FIFO, and a worker leaves closed doors); and `WakeupsAreKept`. For the
last, `NoLostWakeup` speaks of tokens and of a FIFO that is not empty, whereas what
each step preserves is a count: the invariant `Enough` says that tokens, signals
still to come and workers that are up reach the length of the FIFO, or that tokens
and signals reach the number of workers that wait. The second alternative is what
makes a channel with one place per worker enough although a token is dropped when
it is full.

`CoordinatorRegistry` proves the agreement of the maps (`MapsAgree`), the limit of
the completed list (`MetadataIsBounded`), one unfinished job per limited owner
(`OneActiveJobPerOwner`) and that nobody's calculation is cancelled by others
(`SharedJobsSurvive`). `Maps` adds to these properties what makes each map
recoverable from the jobs: what a key, a digest or the completed list names, names
it back (`Keyed`, `Named`, `Listed`), only a ready job has refined its digest
(`Unpublished`), and a job loses its last owner only in a step that also ends it
(`OwnedBut(s, J)`, with `J` the jobs a helper has yet to end). `Causes` carries the
reason of a cancellation from the step that cancels a context to the step in
which its run observes it: the coordinator stops, or the job is over.

**Result cache.** `ResultCacheProofs` proves `TypeCorrect` and `StagingIsOwned` of
`Spec`, and, of `SoloSpec`, `MapMatchesDisk` (every entry has its own directory) and
`ResultsStay` (a directory disappears only by age, by limit or by a power
loss). Its `Inv` adds to these: `Solo`, without which the removal of one worker
destroys the entry of another; `Grounded` (what a publication is about to remove,
rename, enter or adopt is not an entry's, or is exactly what it will enter);
`Clock` (no time is in the future) and `Down` (a process that is down has no
entries and no publications).

`LimitIsKept` (of `Spec`) and `AnswersAreKept` (of `SoloSpec`) are the two step
properties about what a publication leaves in the map. Both count: of a set of
entries, `NewestAreFew` says that the newest `n` are at most `n`, because their
ranks differ, and `NewestAreMany` that, when `n` of the set are newer than `t`, so are
`n` of the newest `n`, because one of least rank among the missing would be among
them. The first needs entries that do not tie; this is the invariant `Dated`: a
creation time belongs to one identity, in the map, on disk and in publications
under way, which is what the abstraction of bytes by times supposes.

**ICON store.** `IconStoreProofs` proves, for any number of runs, commands and
calculations and any number of failures, of `Spec` without further conditions
`StoreInvariant` and `LeasesProtect`; and under `~Overlap` and `KeepRuns > 1`
`LeasedStayWhole` and `CurrentStaysWhole`. With refreshes that overlap a leased run
keeps its directory, its manifest and its volume, and may lose the one bundle
that an augmentation is replacing, though the manifest lists it: this is what
`LeasesProtect` says, and the run `icon_commands` meets the case in a published run.
Without overlap `LeasedStayWhole` excludes it. The general results need
`Inv`, which also says that a refresh past `Sync` has a manifest in memory, and whose
`Clear` says that a run that is being removed has no
lease: the exclusive lease is tried once, the removal comes later, and it is the
readers' own test that keeps them out in between. `CurrentServes` is a step
property about the published run, and what endangers it is a run that is not
published yet or no longer: `Behind` says that every run whose manifest lists what
is gone, or that the cleaner is about to remove, is older than all that is
published, refreshed or still to be probed. `Alone`, `InMemory` and `Ahead` are what
it rests on: one refresh at a time, whose manifest in memory is that on disk, and
at most one run newer than the scheduler's. That the newest `KeepRuns` runs include
the published one is the counting in `MaxFacts`, by the pigeonhole principle of
`FiniteSetTheorems`. Both hypotheses are needed: without the first
the run `icon_commands` refutes `CurrentServes`, without the second the case under
`keep_runs: 1` below Findings.

**Astrodome volume.** `DomeSyncProofs` proves, for any number of objects, tasks,
base manifests and failures, `PublishedVolumeIsWhole` and `CheckpointsStay`. `Inv`
follows one object (`Sound`): what a checkpoint says of it is true and of the base
manifest its directory is bound to (`Recorded`), each place of its task says what
is on disk by then (`Progress`), and an object gets its place after its checkpoint
(`Placed`); `Attempt` ties the places of `SyncDome` to its tasks and to the binding,
`Settled` is the published volume. That a task may be stopped between any two of
these, and resumed by an attempt for another base, is why the binding and not the
manifest that was read is the base of what lies in the staging directory.

**Horizon jobs.** `HorizonJobsProofs` proves every invariant of the component, for
any number of requests, users, keys and deliveries and any capacities:
`TypeCorrect`, `ActiveIsExact`, `OneCalculation`, `NothingLeaks`, `CancelIsHeard`,
`TheOthersAreTold` and `CloseIsAlmostComplete`. `Invariant` carries all of them: `Inv`,
and for the last `Held` and `Left`. A result goes from a job to a worker, into the channel, to a sender,
and each hand-over takes requests out of one record and puts them into another, so
that what is preserved is a count: `Carried` says that a request that waits is in
exactly one job, worker, result or batch, and one that has been answered in one
batch; `Live` that a job is queued or computed exactly once while the map names it,
and that its creator waits for it; `Books` that the semaphore and the lease files
are the sums of their holders. `Tally` counts the places of a function or a
sequence that hold a value of a set, and its lemmas say what an update, an append
or a `Tail` does to it. The rest is what those counts rest on: `Marked`
(one request under way per user, and the map says which), `Alike` (who is
carried together has one key), `Equipped` (what workers and senders hold at each
place), `Reached` (a ticket that is awaited is the one `CancelUser` finds), `Alone`
(with a coordinator a batch has one request, and who is done has been told unless
the channel was full or the root context had ended) and `Emptied` (workers leave
when the context has ended; after `Close` only calls, and whoever waits for a job,
are under way). What `Close` leaves in the queue needs two more: `Held` (what `enqueue`
has checked stays true while it holds the mutex) and `Left` (a worker leaves an
empty queue, and from then on one job at most is sent: by the call that had
looked at the context before it ended).
The assumption `Workers # {}` is `horizon_jobs.go:229`: with no worker nobody would
empty the queue for `Close`.

**Account results.** `AccountResultsProofs` proves the safety properties of the
run `accounts` for any number of jobs, keys, slots and interruptions:
`BooksAreExact`, `CancellationWins`, `ReadyJobsAreServed` and `ReadyJobsStay`. `Inv`
adds to the books, for each job (`Sound`): `Kept` (a job that its goroutine has not
ended is in the map and active; a process that is down remembers none), `Handed`
(whoever captures the data set has finished before it is judged, so that it is
whole when it is published, and `Confirm` writes `ready` and nothing else) and
`Served` (nobody writes into a ready job any more: its goroutine is done but for
pruning, its ticket's is silent, and its cancellation was refused). The last also
says that the manifest of a ready job is not older than its status: `prune` removes
from the map by the status and from the disk by the manifest, and a directory that
looked older than its job would go first. A step of one job leaves the others alone
(`SoundStays`); only `prune`, `Crash`, `Restart` and the passing of time concern all of
them. The assumption `NothingIsNoRecord` says that the sentinel of an empty map
entry is not a status or a record.

Liveness and fairness stay with TLC, because the prover cannot treat `ENABLED`:
`CloseEnds`, `SlotIsFreed`, `EveryJobEnds`, `EveryRequestEnds`, `CloseReturns`,
`SlotComesBack`, `DomeFollows`, `VolumeIsFinished`. Every other property of a passing
run is a theorem, under the conditions named above.

## Plan

1. The composition of `Coordinator` and `ResultCache`: the lifetime of a ready
   job against the lifetime of its directory (`coordinator.go:431`).
2. `ExecutionGate` with the remote protocol, `CommandBudget`, `DiskBudget`: slots
   of several processes with crashes and abandoned requests.
3. ICON Global as an instance of `IconStore`, the bundle and render caches, HTTP
   notifications, long polling.

## Not modelled

Floating-point science (`internal/forecast`, `internal/astronomy`, the reconstruction
of Astrodome rays in `internal/model/iconeu/dome_astrodome_path.go`), rendering,
GRIB decoding, parsing of configuration and of remote data, and SQL: they are pure
or external, and their domain is out of TLC's reach. They make up most of the
repository's lines. The components of the plan above are concurrent and remain to
be done.
