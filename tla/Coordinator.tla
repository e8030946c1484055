---------------------------- MODULE Coordinator ----------------------------
(***************************************************************************)
(* The directional coordinator of the bot process                          *)
(* (internal/app/directional/coordinator.go): one bounded FIFO shared by   *)
(* the Horizon and Astrodome calculations, with per-owner idempotency,     *)
(* singleflight on the science identity, shared ownership, cancellation    *)
(* and bounded metadata of completed jobs.                                 *)
(*                                                                         *)
(* An action is a section of code under coordinator.mutex, or one of the   *)
(* steps a goroutine takes outside it: the wake-up that follows the unlock, *)
(* the runner, the publication of its result.  The result cache is a disk  *)
(* cache that outlives the process: here a lookup may hit or miss and a    *)
(* publication may succeed or fail.  The clock is read before the lock in  *)
(* the code and at the step here.                                          *)
(*                                                                         *)
(* An operator marked Faulty is no part of the model: it is a plausible    *)
(* bug of the definition after it, which a property has to notice.         *)
(***************************************************************************)
EXTENDS Integers, FiniteSets, SequencesExt

CONSTANTS
  Workers,        \* worker goroutines; their number is Config.Concurrency
  JobIds,         \* identifiers newJobID may return, each used once
  NoJob,          \* "no entry" in a map of jobs
  Owners,         \* authenticated users
  Kinds,          \* KindHorizon, KindAstrodome
  TimedKinds,     \* kinds whose KindPolicy.Timeout is positive
  Keys,           \* idempotency keys of the callers
  Families,       \* request families (RequestFamilyKey)
  Sciences,       \* science cache keys, preparation and final ones
  NoDigest,       \* the empty digest of a job record
  Requests,       \* the requests the callers submit
  QueueCapacity,  \* Config.QueueCapacity
  CompletedLimit, \* Config.CompletedLimit
  CompletedTTL,   \* Config.CompletedTTL, in clock ticks
  MaxTime         \* bound on the clock

ScienceDigests == [kind : Kinds, science : Sciences]
FamilyDigests  == [kind : Kinds, family : Families]
IdemDigests    == [owner : Owners, kind : Kinds, key : Keys]

ASSUME ConfigAssumption ==
  /\ IsFiniteSet(Workers) /\ Workers # {} /\ IsFiniteSet(JobIds)
  /\ NoJob \notin JobIds
  /\ NoDigest \notin ScienceDigests /\ NoDigest \notin FamilyDigests
  /\ QueueCapacity \in Nat \ {0}
  /\ CompletedLimit \in Nat \ {0}
  /\ CompletedTTL \in Nat \ {0}
  /\ MaxTime \in Nat

ASSUME RequestAssumption ==
  Requests \subseteq [owner : Owners, kind : Kinds, key : Keys,
                      family : Families, science : Sciences, limit : {0, 1}]

VARIABLES
  reg,         \* the maps, lists and job records coordinator.mutex guards
  now,         \* Config.Now
  runners,     \* kinds with a registered runner
  started, closed,
  ctxDone,     \* coordinator.ctx is cancelled
  wake,        \* tokens in the wake channel, whose capacity is Concurrency
  worker,      \* per goroutine: where it is, its job, what its run produced
  unsignalled, \* Submit calls that have unlocked and not yet signalled
  closer       \* progress of the Close call

vars == <<reg, now, runners, started, closed, ctxDone, wake, worker,
          unsignalled, closer>>

-----------------------------------------------------------------------------
(* Identities of a request (digestParts is injective on its parts).        *)
Digest(r) == [kind |-> r.kind, science |-> r.science]
Family(r) == [kind |-> r.kind, family |-> r.family]
Idem(r)   == [owner |-> r.owner, kind |-> r.kind, key |-> r.key]

States    == {"unused", "queued", "running", "ready", "failed", "cancelled"}
Contexts  == {"none", "live", "canceled", "deadline"}

JobRecord ==
  [ state : States, science : ScienceDigests \cup {NoDigest},
    published : ScienceDigests \cup {NoDigest},
    family : FamilyDigests \cup {NoDigest},
    owners : SUBSET Owners, keys : SUBSET IdemDigests,
    finishedAt : 0..MaxTime, ctx : Contexts ]

Unused ==
  [ state |-> "unused", science |-> NoDigest, published |-> NoDigest,
    family |-> NoDigest, owners |-> {}, keys |-> {}, finishedAt |-> 0,
    ctx |-> "none" ]

NewJob(r, state) ==
  [Unused EXCEPT !.state = state, !.science = Digest(r), !.family = Family(r),
                 !.finishedAt = IF state = "ready" THEN now ELSE 0]

Registry ==
  [ job : [JobIds -> JobRecord], jobs : SUBSET JobIds, queue : Seq(JobIds),
    active : SUBSET JobIds, completed : SUBSET JobIds,
    science : [ScienceDigests -> JobIds \cup {NoJob}],
    idem : [IdemDigests -> JobIds \cup {NoJob}] ]

Terminal(s, j) == s.job[j].state \in {"ready", "failed", "cancelled"}
Pending(s, j)  == s.job[j].state \in {"queued", "running"}
HasOwner(s, j, o) == o \in s.job[j].owners

-----------------------------------------------------------------------------
(* Forgetting completed jobs.  The list coordinator.completed is the set   *)
(* of its members: its order is the order of finishedAt, and jobs finished *)
(* at the same tick of the model's clock are in either order.              *)

\* removeCompletedLocked, for every job of R.
Forget(s, R) ==
  [s EXCEPT
    !.jobs = @ \ R,
    !.completed = @ \ R,
    !.science = [d \in ScienceDigests |->
      LET j == s.science[d]
      IN  IF j \in R /\ d \in {s.job[j].science, s.job[j].published}
          THEN NoJob ELSE j],
    !.idem = [i \in IdemDigests |->
      LET j == s.idem[i]
      IN  IF j \in R /\ i \in s.job[j].keys THEN NoJob ELSE j]]

\* The metadata lifetime of a completed job is over.
Expired(s) == {j \in s.completed : s.job[j].finishedAt + CompletedTTL <= now}

\* Faulty: one job more than the limit stays.
EvictableOverLimit(s, last) ==
  {R \in SUBSET s.completed :
    Cardinality(s.completed \ R) =
      IF Cardinality(s.completed) > CompletedLimit + 1
      THEN CompletedLimit + 1 ELSE Cardinality(s.completed)}

\* Jobs the completed limit pushes out: the oldest ones, those just finished
\* (the set last, at the end of the list) only after all the others.
Evictable(s, last) ==
  {R \in SUBSET s.completed :
    /\ Cardinality(s.completed \ R) =
         IF Cardinality(s.completed) > CompletedLimit
         THEN CompletedLimit ELSE Cardinality(s.completed)
    /\ \A x \in R, y \in s.completed \ R :
         /\ s.job[x].finishedAt <= s.job[y].finishedAt
         /\ x \in last => y \in last}

\* pruneCompletedLocked at the start of an operation.
Pruned == Forget(reg, Expired(reg))

\* pruneCompletedLocked after the jobs of last were appended.
PrunedAfter(s, last) ==
  LET t == Forget(s, Expired(s)) IN {Forget(t, R) : R \in Evictable(t, last)}

-----------------------------------------------------------------------------
(* Owners, ends and contexts of jobs.                                      *)

AddOwner(s, j, o, i) ==
  [s EXCEPT
    !.job[j] = [s.job[j] EXCEPT !.owners = s.job[j].owners \cup {o},
                                !.keys = s.job[j].keys \cup {i}],
    !.idem[i] = j]

\* Faulty: the owner goes, its idempotency keys stay.
RemoveOwnerOnly(s, j, o) ==
  [s EXCEPT !.job[j] = [s.job[j] EXCEPT !.owners = s.job[j].owners \ {o}]]

RemoveOwner(s, j, o) ==
  LET dropped == {i \in s.job[j].keys : i.owner = o}
  IN  [s EXCEPT
        !.job[j] = [s.job[j] EXCEPT !.owners = s.job[j].owners \ {o},
                                    !.keys = s.job[j].keys \ dropped],
        !.idem = [i \in IdemDigests |->
          IF i \in dropped /\ s.idem[i] = j THEN NoJob ELSE s.idem[i]]]

\* delete(scienceJobs, job.scienceDigest), when the entry is the job's.
DropScience(s, J) ==
  [s EXCEPT !.science = [d \in ScienceDigests |->
     LET j == s.science[d]
     IN  IF j \in J /\ s.job[j].science = d THEN NoJob ELSE j]]

\* finishJobLocked for the jobs of F, before it prunes.
Finish(s, F, state) ==
  LET ended == {j \in F : ~Terminal(s, j)}
  IN  [s EXCEPT
        !.job = [j \in JobIds |->
          IF j \in ended
          THEN [s.job[j] EXCEPT !.state = state, !.finishedAt = now]
          ELSE s.job[j]],
        !.completed = @ \cup ended]

\* runCancel of every job of J: only a context that is still live changes.
CancelContexts(s, J) ==
  [s EXCEPT !.job = [j \in JobIds |->
    IF j \in J /\ s.job[j].ctx = "live"
    THEN [s.job[j] EXCEPT !.ctx = "canceled"] ELSE s.job[j]]]

\* Faulty: the running jobs are not told to stop.
CancelQueuedOnly(s) ==
  LET Q == ToSet(s.queue)
  IN  PrunedAfter([Finish(DropScience(s, Q), Q, "cancelled")
                     EXCEPT !.queue = <<>>], Q)

\* cancelPendingLocked: every queued job is cancelled, every running one told to stop.
CancelPending(s) ==
  LET Q == ToSet(s.queue)
      t == CancelContexts([Finish(DropScience(s, Q), Q, "cancelled")
                             EXCEPT !.queue = <<>>], s.active)
  IN  IF Q = {} THEN {t} ELSE PrunedAfter(t, Q)

\* Faulty: no bound; one token for all workers; no token.
SignalledUnbounded == wake + 1
SignalledOnce      == IF wake < 1 THEN wake + 1 ELSE wake
SignalledNever     == wake

\* signalWorker: a full channel drops the token.
Signalled == IF wake < Cardinality(Workers) THEN wake + 1 ELSE wake

-----------------------------------------------------------------------------
(* Submit.                                                                 *)

\* Jobs that count against the owner's limit for the request's kind.
OwnerActive(s, r) ==
  {j \in s.jobs : /\ s.job[j].science.kind = r.kind
                  /\ ~Terminal(s, j) /\ HasOwner(s, j, r.owner)}

OwnerBusy(s, r) == r.limit > 0 /\ Cardinality(OwnerActive(s, r)) >= r.limit

Accepting(r) == started /\ ~closed /\ ~ctxDone /\ r.kind \in runners

Known(s, r)  == s.idem[Idem(r)] # NoJob

\* An unfinished or ready job already computes the request's science.
Shared(s, r) ==
  LET j == s.science[Digest(r)]
  IN  j # NoJob /\ s.job[j].state \notin {"failed", "cancelled"}

\* Faulty: joining does not count against the owner's limit.
JoinUnlimited(s, r) == TRUE

JoinAllowed(s, r) ==
  HasOwner(s, s.science[Digest(r)], r.owner) \/ ~OwnerBusy(s, r)

\* Faulty: one job too many in the FIFO.
EnqueueOneMore(s, r) == ~OwnerBusy(s, r) /\ Len(s.queue) <= QueueCapacity

EnqueueAllowed(s, r) == ~OwnerBusy(s, r) /\ Len(s.queue) < QueueCapacity

\* An idempotent retry returns the job the key already names.
SubmitReplay(r) ==
  LET s == Pruned
      j == s.idem[Idem(r)]
  IN  /\ Accepting(r) /\ Known(s, r)
      /\ s.job[j].family = Family(r)
      /\ reg' = AddOwner(s, j, r.owner, Idem(r))
      /\ UNCHANGED <<now, runners, started, closed, ctxDone, wake, worker,
                     unsignalled, closer>>

\* Singleflight: the request joins the job that has its science.
SubmitJoin(r) ==
  LET s == Pruned
  IN  /\ Accepting(r) /\ ~Known(s, r) /\ Shared(s, r)
      /\ JoinAllowed(s, r)
      /\ reg' = AddOwner(s, s.science[Digest(r)], r.owner, Idem(r))
      /\ UNCHANGED <<now, runners, started, closed, ctxDone, wake, worker,
                     unsignalled, closer>>

\* The registry with a job for r that is ready from the start.
Served(s, r, j) ==
  AddOwner([s EXCEPT !.job[j] = NewJob(r, "ready"), !.jobs = @ \cup {j},
                     !.science[Digest(r)] = j, !.completed = @ \cup {j}],
           j, r.owner, Idem(r))

\* Faulty: the newest job is the next to run.
AdmittedFirst(s, r, j) ==
  AddOwner([s EXCEPT !.job[j] = NewJob(r, "queued"), !.jobs = @ \cup {j},
                     !.science[Digest(r)] = j, !.queue = <<j>> \o @],
           j, r.owner, Idem(r))

\* The registry with a job for r at the end of the FIFO.
Admitted(s, r, j) ==
  AddOwner([s EXCEPT !.job[j] = NewJob(r, "queued"), !.jobs = @ \cup {j},
                     !.science[Digest(r)] = j, !.queue = Append(@, j)],
           j, r.owner, Idem(r))

\* A result of the cache becomes a job that is ready from the start.
SubmitHit(r) ==
  LET s == Pruned
  IN  /\ Accepting(r) /\ ~Known(s, r) /\ ~Shared(s, r)
      /\ \E j \in JobIds : /\ s.job[j].state = "unused"
                           /\ reg' \in PrunedAfter(Served(s, r, j), {j})
      /\ UNCHANGED <<now, runners, started, closed, ctxDone, wake, worker,
                     unsignalled, closer>>

\* A new calculation takes a FIFO slot; the wake-up follows the unlock.
SubmitEnqueue(r) ==
  LET s == Pruned
  IN  /\ Accepting(r) /\ ~Known(s, r) /\ ~Shared(s, r)
      /\ EnqueueAllowed(s, r)
      /\ \E j \in JobIds : /\ s.job[j].state = "unused"
                           /\ reg' = Admitted(s, r, j)
      /\ unsignalled' = unsignalled + 1
      /\ UNCHANGED <<now, runners, started, closed, ctxDone, wake, worker,
                     closer>>

SubmitSignals ==
  /\ unsignalled > 0
  /\ unsignalled' = unsignalled - 1
  /\ wake' = Signalled
  /\ UNCHANGED <<reg, now, runners, started, closed, ctxDone, worker, closer>>

\* A refused Submit, Status, LatestStatus, Statuses, OpenResult and a refused
\* Cancel leave behind what their first step pruned.
PruneOnly ==
  /\ reg' = Pruned
  /\ UNCHANGED <<now, runners, started, closed, ctxDone, wake, worker,
                 unsignalled, closer>>

-----------------------------------------------------------------------------
(* Cancel.                                                                 *)

\* Faulty: the cancelled job stays in the FIFO.
StillQueued(s, j) == s

WithoutQueued(s, j) ==
  LET i == CHOOSE i \in DOMAIN s.queue : s.queue[i] = j
  IN  [s EXCEPT !.queue = RemoveAt(@, i)]

\* Faulty: a running job gives its slot back before its run has returned.
AbandonedSlot(s, j) ==
  LET t == [DropScience(s, {j}) EXCEPT !.active = @ \ {j}]
  IN  CASE t.job[j].state = "queued" ->
             PrunedAfter(Finish(WithoutQueued(t, j), {j}, "cancelled"), {j})
        [] t.job[j].state = "running" ->
             PrunedAfter(Finish(CancelContexts(t, {j}), {j}, "cancelled"), {j})
        [] OTHER -> {t}

\* Faulty: a running job is cancelled without telling its runner.
AbandonedUntold(s, j) ==
  LET t == DropScience(s, {j})
  IN  CASE t.job[j].state = "queued" ->
             PrunedAfter(Finish(WithoutQueued(t, j), {j}, "cancelled"), {j})
        [] t.job[j].state = "running" -> PrunedAfter(Finish(t, {j}, "cancelled"), {j})
        [] OTHER -> {t}

\* The last owner has left the job.
Abandoned(s, j) ==
  LET t == DropScience(s, {j})
  IN  CASE t.job[j].state = "queued" ->
             PrunedAfter(Finish(WithoutQueued(t, j), {j}, "cancelled"), {j})
        [] t.job[j].state = "running" ->
             PrunedAfter(Finish(CancelContexts(t, {j}), {j}, "cancelled"), {j})
        [] OTHER -> {t}

\* Faulty: the first owner who cancels ends the job for everybody.
CancelForAll(o, j) ==
  LET s == Pruned
  IN  /\ j \in s.jobs /\ HasOwner(s, j, o)
      /\ reg' \in Abandoned(RemoveOwner(s, j, o), j)
      /\ UNCHANGED <<now, runners, started, closed, ctxDone, wake, worker,
                     unsignalled, closer>>

Cancel(o, j) ==
  LET s == Pruned
      t == RemoveOwner(s, j, o)
  IN  /\ j \in s.jobs /\ HasOwner(s, j, o)
      /\ \/ t.job[j].owners # {} /\ reg' = t
         \/ t.job[j].owners = {} /\ reg' \in Abandoned(t, j)
      /\ UNCHANGED <<now, runners, started, closed, ctxDone, wake, worker,
                     unsignalled, closer>>

-----------------------------------------------------------------------------
(* The worker goroutines: nextJob and execute.                             *)

At(w, pc) == worker[w].pc = pc

Places == {"off", "next", "idle", "running", "publishing", "recording",
           "signalling", "exited"}
Errors == {"none", "failed", "canceled", "deadline"}

WorkerRecord ==
  [pc : Places, job : JobIds \cup {NoJob}, err : Errors,
   final : ScienceDigests \cup {NoDigest}]

AtPlace(pc) == [pc |-> pc, job |-> NoJob, err |-> "none", final |-> NoDigest]

\* Faulty: the worker leaves without cancelling what is queued.
ExitOnly(w) ==
  /\ At(w, "next") /\ (ctxDone \/ closed)
  /\ closed' = TRUE
  /\ worker' = [worker EXCEPT ![w] = AtPlace("exited")]
  /\ UNCHANGED <<reg, now, runners, started, ctxDone, wake, unsignalled, closer>>

\* nextJob after Close or the cancellation of the coordinator's context.
Exit(w) ==
  /\ At(w, "next") /\ (ctxDone \/ closed)
  /\ closed' = TRUE
  /\ reg' \in CancelPending(reg)
  /\ worker' = [worker EXCEPT ![w] = AtPlace("exited")]
  /\ UNCHANGED <<now, runners, started, ctxDone, wake, unsignalled, closer>>

\* The registry with the head of the FIFO running.
Taken(s) ==
  LET j == Head(s.queue)
  IN  [s EXCEPT !.queue = Tail(@), !.active = @ \cup {j},
                !.job[j] = [s.job[j] EXCEPT !.state = "running", !.ctx = "live"]]

\* nextJob pops the head of the FIFO and starts its context.
TakeJob(w) ==
  /\ At(w, "next") /\ ~ctxDone /\ ~closed
  /\ reg.queue # <<>>
  /\ reg' = Taken(reg)
  /\ worker' = [worker EXCEPT ![w] =
                  [AtPlace("running") EXCEPT !.job = Head(reg.queue)]]
  /\ UNCHANGED <<now, runners, started, closed, ctxDone, wake, unsignalled,
                 closer>>

\* nextJob finds no job and goes to wait for a token.
FindNothing(w) ==
  /\ At(w, "next") /\ ~ctxDone /\ ~closed
  /\ reg.queue = <<>>
  /\ worker' = [worker EXCEPT ![w] = AtPlace("idle")]
  /\ UNCHANGED <<reg, now, runners, started, closed, ctxDone, wake,
                 unsignalled, closer>>

WakeUp(w) ==
  /\ At(w, "idle")
  /\ \/ ctxDone /\ wake' = wake
     \/ wake > 0 /\ wake' = wake - 1
  /\ worker' = [worker EXCEPT ![w] = AtPlace("next")]
  /\ UNCHANGED <<reg, now, runners, started, closed, ctxDone, unsignalled,
                 closer>>

\* The runner returns a dataset, for its own or a refined science identity.
RunSucceeds(w) ==
  /\ At(w, "running")
  /\ reg.job[worker[w].job].ctx = "live"
  /\ \E d \in ScienceDigests :
       /\ d.kind = reg.job[worker[w].job].science.kind
       /\ worker' = [worker EXCEPT ![w] =
                      [worker[w] EXCEPT !.pc = "publishing", !.final = d]]
  /\ UNCHANGED <<reg, now, runners, started, closed, ctxDone, wake,
                 unsignalled, closer>>

\* No workspace, an error of the runner, or a result of another source.
RunFails(w) ==
  /\ At(w, "running")
  /\ worker' = [worker EXCEPT ![w] =
                 [worker[w] EXCEPT !.pc = "recording", !.err = "failed"]]
  /\ UNCHANGED <<reg, now, runners, started, closed, ctxDone, wake,
                 unsignalled, closer>>

\* The runner, or the check after it, observes the end of its context.
RunInterrupted(w) ==
  LET c == reg.job[worker[w].job].ctx
  IN  /\ At(w, "running")
      /\ c \in {"canceled", "deadline"}
      /\ worker' = [worker EXCEPT ![w] =
                     [worker[w] EXCEPT !.pc = "recording", !.err = c]]
      /\ UNCHANGED <<reg, now, runners, started, closed, ctxDone, wake,
                     unsignalled, closer>>

\* The context may end after the publication has last looked at it.
PublishSucceeds(w) ==
  /\ At(w, "publishing")
  /\ worker' = [worker EXCEPT ![w] = [worker[w] EXCEPT !.pc = "recording"]]
  /\ UNCHANGED <<reg, now, runners, started, closed, ctxDone, wake,
                 unsignalled, closer>>

PublishFails(w) ==
  /\ At(w, "publishing")
  /\ \E e \in {"failed", reg.job[worker[w].job].ctx} \ {"live", "none"} :
       worker' = [worker EXCEPT ![w] =
                    [worker[w] EXCEPT !.pc = "recording", !.err = e]]
  /\ UNCHANGED <<reg, now, runners, started, closed, ctxDone, wake,
                 unsignalled, closer>>

\* The slot of j is free.
Released(s, j) ==
  [s EXCEPT !.active = @ \ {j}, !.job[j] = [s.job[j] EXCEPT !.ctx = "none"]]

\* The registry after the run of j succeeded with the final digest d.
Succeeded(s, j, d) ==
  LET u == DropScience(s, {j})
      t == [u EXCEPT !.job[j] = [u.job[j] EXCEPT !.published = d],
                     !.science[d] = IF u.science[d] = NoJob THEN j
                                    ELSE u.science[d]]
  IN  PrunedAfter(Finish(t, {j}, "ready"), {j})

Unsuccessful(s, j, err) ==
  LET state == IF err = "canceled" THEN "cancelled" ELSE "failed"
  IN  PrunedAfter(DropScience(Finish(s, {j}, state), {j}), {j})

\* The last section of execute: the slot is free, the outcome is recorded
\* unless the job was cancelled while it ran.
Record(w) ==
  LET j == worker[w].job
      s == Released(reg, j)
  IN  /\ At(w, "recording")
      /\ \/ /\ Terminal(s, j)
            /\ reg' = s
         \/ /\ ~Terminal(s, j) /\ worker[w].err = "none"
            /\ reg' \in Succeeded(s, j, worker[w].final)
         \/ /\ ~Terminal(s, j) /\ worker[w].err # "none"
            /\ reg' \in Unsuccessful(s, j, worker[w].err)
      /\ worker' = [worker EXCEPT ![w] = AtPlace("signalling")]
      /\ UNCHANGED <<now, runners, started, closed, ctxDone, wake,
                     unsignalled, closer>>

WorkerSignals(w) ==
  /\ At(w, "signalling")
  /\ wake' = Signalled
  /\ worker' = [worker EXCEPT ![w] = AtPlace("next")]
  /\ UNCHANGED <<reg, now, runners, started, closed, ctxDone, unsignalled,
                 closer>>

-----------------------------------------------------------------------------
(* Start, Close, and the environment.                                      *)

Register(k) ==
  /\ ~started /\ ~closed /\ k \notin runners
  /\ runners' = runners \cup {k}
  /\ UNCHANGED <<reg, now, started, closed, ctxDone, wake, worker,
                 unsignalled, closer>>

Start ==
  /\ ~started /\ ~closed
  /\ started' = TRUE
  /\ worker' = [w \in Workers |-> AtPlace("next")]
  /\ UNCHANGED <<reg, now, runners, closed, ctxDone, wake, unsignalled,
                 closer>>

\* The first Close; when a worker has already closed the coordinator it only waits.
CloseBegins ==
  /\ closer = "none"
  /\ \/ /\ closed
        /\ closer' = "waiting"
        /\ UNCHANGED <<reg, closed, ctxDone>>
     \/ /\ ~closed
        /\ closed' = TRUE
        /\ ctxDone' = (ctxDone \/ started)
        /\ reg' \in CancelPending(reg)
        /\ closer' = "signalling"
  /\ UNCHANGED <<now, runners, started, wake, worker, unsignalled>>

CloseSignals ==
  /\ closer = "signalling"
  /\ wake' = Signalled
  /\ closer' = "waiting"
  /\ UNCHANGED <<reg, now, runners, started, closed, ctxDone, worker,
                 unsignalled>>

\* coordinator.wait.Wait() returns.
CloseReturns ==
  /\ closer = "waiting"
  /\ \A w \in Workers : worker[w].pc \in {"off", "exited"}
  /\ closer' = "returned"
  /\ UNCHANGED <<reg, now, runners, started, closed, ctxDone, wake, worker,
                 unsignalled>>

\* The process context given to Start is cancelled.
ParentCancelled ==
  /\ started /\ ~ctxDone
  /\ ctxDone' = TRUE
  /\ reg' = CancelContexts(reg, reg.active)
  /\ UNCHANGED <<now, runners, started, closed, wake, worker, unsignalled,
                 closer>>

\* The deadline of contextWithOptionalTimeout.
DeadlinePasses(j) ==
  /\ reg.job[j].ctx = "live"
  /\ reg.job[j].science.kind \in TimedKinds
  /\ reg' = [reg EXCEPT !.job[j] = [reg.job[j] EXCEPT !.ctx = "deadline"]]
  /\ UNCHANGED <<now, runners, started, closed, ctxDone, wake, worker,
                 unsignalled, closer>>

Tick ==
  /\ now < MaxTime
  /\ now' = now + 1
  /\ UNCHANGED <<reg, runners, started, closed, ctxDone, wake, worker,
                 unsignalled, closer>>

Init ==
  /\ reg = [ job |-> [j \in JobIds |-> Unused], jobs |-> {}, queue |-> <<>>,
             active |-> {}, completed |-> {},
             science |-> [d \in ScienceDigests |-> NoJob],
             idem |-> [i \in IdemDigests |-> NoJob] ]
  /\ now = 0 /\ runners = {} /\ started = FALSE /\ closed = FALSE
  /\ ctxDone = FALSE /\ wake = 0 /\ unsignalled = 0 /\ closer = "none"
  /\ worker = [w \in Workers |-> AtPlace("off")]

Submit(r) ==
  SubmitReplay(r) \/ SubmitJoin(r) \/ SubmitHit(r) \/ SubmitEnqueue(r)

\* What a worker does by itself; how long the runner takes is not its choice.
Step(w) ==
  \/ Exit(w) \/ TakeJob(w) \/ FindNothing(w) \/ WakeUp(w) \/ RunInterrupted(w)
  \/ PublishSucceeds(w) \/ PublishFails(w) \/ Record(w) \/ WorkerSignals(w)

RunReturns(w) == RunSucceeds(w) \/ RunFails(w)

Next ==
  \/ \E k \in Kinds : Register(k)
  \/ Start \/ CloseBegins \/ CloseSignals \/ CloseReturns
  \/ ParentCancelled \/ Tick \/ PruneOnly \/ SubmitSignals
  \/ \E r \in Requests : Submit(r)
  \/ \E o \in Owners, j \in JobIds : Cancel(o, j)
  \/ \E w \in Workers : Step(w) \/ RunReturns(w)
  \/ \E j \in JobIds : DeadlinePasses(j)

Spec == Init /\ [][Next]_vars

\* The goroutines the code starts go on; nothing is assumed of the runner but
\* that it returns when its context ends.
StopFairness ==
  /\ WF_vars(SubmitSignals) /\ WF_vars(CloseSignals) /\ WF_vars(CloseReturns)
  /\ \A w \in Workers : WF_vars(Step(w))

\* Every run returns by itself, with a result or an error.
RunFairness == \A w \in Workers : WF_vars(RunReturns(w))

StopSpec == Spec /\ StopFairness

-----------------------------------------------------------------------------
(* Properties.                                                             *)

TypeOK ==
  /\ reg \in Registry
  /\ now \in 0..MaxTime /\ runners \subseteq Kinds
  /\ started \in BOOLEAN /\ closed \in BOOLEAN /\ ctxDone \in BOOLEAN
  /\ wake \in 0..Cardinality(Workers) /\ unsignalled \in Nat
  /\ worker \in [Workers -> WorkerRecord]
  /\ closer \in {"none", "signalling", "waiting", "returned"}

Busy  == {w \in Workers : worker[w].pc \in {"running", "publishing", "recording"}}
Idle  == {w \in Workers : At(w, "idle")}
Awake == {w \in Workers : worker[w].pc \in {"next", "signalling"}}

\* The running-job limit (coordinator.go:507, 671): the active map holds
\* exactly the jobs the busy workers execute, one each, so it never has more
\* than Concurrency entries and the estimate of queuePositionAndEstimateLocked
\* stays inside its slots.  A job cancelled while it runs keeps its slot.
SlotsExact ==
  /\ reg.active = {worker[w].job : w \in Busy}
  /\ \A v, w \in Busy : worker[v].job = worker[w].job => v = w
  /\ \A j \in JobIds : reg.job[j].state = "running" => j \in reg.active

\* The FIFO (coordinator.go:277) holds each queued job once and nothing else,
\* and never more than its capacity.
QueueExact ==
  /\ \A j \in JobIds : reg.job[j].state = "queued" <=> j \in ToSet(reg.queue)
  /\ \A a, b \in DOMAIN reg.queue : reg.queue[a] = reg.queue[b] => a = b
  /\ Len(reg.queue) <= QueueCapacity

IdempotencyExact ==
  \A i \in IdemDigests, j \in JobIds :
    /\ reg.idem[i] = j <=> j \in reg.jobs /\ i \in reg.job[j].keys
    /\ reg.idem[i] = j => HasOwner(reg, j, i.owner)

ScienceExact ==
  /\ \A j \in JobIds : Pending(reg, j) => reg.science[reg.job[j].science] = j
  /\ \A d \in ScienceDigests : reg.science[d] # NoJob =>
       LET j == reg.science[d]
       IN  /\ j \in reg.jobs /\ d \in {reg.job[j].science, reg.job[j].published}
           /\ reg.job[j].state \in {"queued", "running", "ready"}

NoOrphans ==
  \A j \in JobIds : Pending(reg, j) => j \in reg.jobs /\ reg.job[j].owners # {}

\* The maps agree with the jobs (coordinator.go:171, 228, 397, 617).  A key names
\* a retained job exactly when that job lists the key, and then the key's owner
\* still owns the job: a retry never reaches a forgotten job or one its owner has
\* cancelled.  Every queued or running job is the one its science digest names,
\* so that no two compute the same thing, and a digest never names a forgotten,
\* failed or cancelled job.  An unfinished job is retained and somebody owns it.
RegistryExact == IdempotencyExact /\ ScienceExact /\ NoOrphans

\* Metadata (coordinator.go:699, 737): the retained jobs are the unfinished
\* ones and the completed list, and that list respects its limit.
MetadataBounded ==
  /\ reg.completed = {j \in reg.jobs : Terminal(reg, j)}
  /\ Cardinality(reg.completed) <= CompletedLimit
  /\ \A j \in reg.jobs : reg.job[j].state # "unused"

\* Owner limit (docs/configuration.en.md:116): an owner whose requests of a
\* kind all carry the limit has at most one unfinished job of that kind,
\* counting the jobs of others it has joined.
OneActivePerOwner ==
  \A o \in Owners, k \in Kinds :
    (\A r \in Requests : r.owner = o /\ r.kind = k => r.limit > 0)
    => \A i, j \in JobIds :
         /\ Pending(reg, i) /\ HasOwner(reg, i, o) /\ reg.job[i].science.kind = k
         /\ Pending(reg, j) /\ HasOwner(reg, j, o) /\ reg.job[j].science.kind = k
         => i = j

\* Wake-ups (coordinator.go:775): the tokens, the signals still to come and
\* the workers about to look at the queue are enough for the jobs that wait
\* and the workers that could take them: no worker sleeps beside a job.
NoLostWakeup ==
  LET jobs == Len(reg.queue)
      takers == Cardinality(Idle) + Cardinality(Awake)
  IN  wake + unsignalled + Cardinality(Awake) >=
        IF jobs < takers THEN jobs ELSE takers

\* Shutdown (coordinator.go:148): once every worker has left, nothing is
\* queued, nothing runs, and no job is left without an outcome.
DrainedOnExit ==
  (\A w \in Workers : At(w, "exited")) =>
    reg.queue = <<>> /\ reg.active = {} /\ \A j \in JobIds : ~Pending(reg, j)

\* A job's outcome never changes: the late result of a run that was cancelled
\* does not replace the cancellation (coordinator.go:589, 700).
OutcomeIsFinal ==
  [][\A j \in JobIds : Terminal(reg, j) => reg'.job[j].state = reg.job[j].state]_vars

\* A shared job is cancelled only when its last owner leaves or the
\* coordinator stops (coordinator.go:395).
CancelNeedsEveryOwner ==
  [][\A j \in JobIds :
       Pending(reg, j) /\ reg'.job[j].state = "cancelled"
       => reg'.job[j].owners = {} \/ ctxDone']_vars

\* Close returns when the runners only observe their cancelled contexts
\* (coordinator.go:148).
CloseEnds == closer # "none" ~> closer = "returned"

\* A slot held by a cancelled run is given back (coordinator.go:405).
SlotIsFreed ==
  \A j \in JobIds : j \in reg.active /\ Terminal(reg, j) ~> j \notin reg.active

\* If runners return, every job ends, whatever is admitted, cancelled or closed
\* meanwhile (coordinator.go:171, 502, 775).
EveryJobEnds ==
  RunFairness => \A j \in JobIds : Pending(reg, j) ~> ~Pending(reg, j)

-----------------------------------------------------------------------------
(* The coordinator implements a bounded FIFO in front of Concurrency slots. *)

Fate == [j \in JobIds |->
  CASE reg.job[j].state = "unused" -> "new"
    [] Pending(reg, j) -> "pending"
    [] OTHER -> reg.job[j].state]

Fifo == INSTANCE BoundedFifo
  WITH Ids <- JobIds, Slots <- Cardinality(Workers), Capacity <- QueueCapacity,
       waiting <- reg.queue, busy <- reg.active, fate <- Fate

\* Every step is a step of the bounded FIFO, or invisible to it
\* (coordinator.go:171, 511).
FifoSpec == Fifo!Spec

=============================================================================
