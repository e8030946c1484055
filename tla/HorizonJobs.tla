----------------------------- MODULE HorizonJobs -----------------------------
(***************************************************************************)
(* Admission and delivery of Horizon calculations                          *)
(* (internal/app/bot/horizon_jobs.go, horizon_directional.go).             *)
(*                                                                         *)
(* A request is served from the bundle cache, or by a job of a local       *)
(* worker that identical requests share, or, when a directional            *)
(* coordinator is attached, by a ticket of it that a goroutine              *)
(* awaits.  Results go through a bounded channel to the delivery workers.  *)
(* HorizonJobs.mu guards the maps; everything else a goroutine does is     *)
(* between two of its critical sections, in any interleaving.  The mutex   *)
(* guards neither the root context nor the channel of jobs: enqueue, which *)
(* looks at the one and then sends on the other, is two steps.             *)
(*                                                                         *)
(* The coordinator is its tickets; the bundle cache is the set of the keys *)
(* it can load.  Errors of the source, the renderer, the disk and the      *)
(* messengers may happen wherever the code meets one.                      *)
(***************************************************************************)
EXTENDS Integers, Sequences, FiniteSets

CONSTANTS
  Requests,     \* calls of deliverRequest
  Users,        \* platform identities
  Keys,         \* cache keys: run, place, profile, language
  Workers,      \* local workers
  Senders,      \* delivery workers
  QueueSize,    \* HorizonJobsConfig.QueueSize
  MaxWaiters,   \* maximumWaiters()
  DeliverySize, \* capacity of the delivery channel, 16 at least in the code
  CacheShare,   \* capacity of cacheDeliverySlots, half of it
  Modes,        \* with a directional coordinator, without one, or both
  None

ASSUME HorizonAssumption ==
  /\ IsFiniteSet(Requests) /\ IsFiniteSet(Workers) /\ IsFiniteSet(Senders) /\ Workers # {}
  /\ QueueSize \in Nat \ {0} /\ MaxWaiters \in Nat \ {0}
  /\ CacheShare \in Nat \ {0} /\ DeliverySize \in Nat /\ DeliverySize >= CacheShare
  /\ Modes \subseteq BOOLEAN
  /\ None \notin Users \cup Keys \cup Requests

VARIABLES
  request,   \* how far each call, and what it started, has come
  active,    \* per user, the key of its request
  recent,    \* per user, the key of its last result while it is cooling down
  jobs,      \* per key, the job others may join
  job,       \* the jobs, by the request that created them: key and waiters
  queue,     \* channel of jobs
  worker, sender,
  delivery,  \* channel of results
  slots,     \* tokens in cacheDeliverySlots
  leases,    \* lease files in the cache directory
  cached,    \* keys the bundle cache holds
  tickets,   \* per user, the request whose ticket CancelUser reaches
  clearing,  \* requests whose awaiting goroutine has yet to forget its ticket
  answered,  \* requests that have been told how they ended
  closing,   \* how far Close is
  root,      \* the root context is live
  attached   \* a directional coordinator is attached

vars == <<request, active, recent, jobs, job, queue, worker, sender, delivery, slots,
          leases, cached, tickets, clearing, answered, closing, root, attached>>

maps     == <<active, recent>>
registry == <<jobs, job, queue, worker>>
channel  == <<sender, delivery, slots, leases>>
shared   == <<tickets, clearing>>
process  == <<closing, root, attached>>

New   == [at |-> "new", user |-> None, key |-> None, ticket |-> "none", leased |-> FALSE]
Spare == [key |-> None, waiters |-> {}]
Ready == [at |-> "idle", job |-> None, what |-> Spare, leased |-> FALSE]
NoOne == [key |-> None, waiters |-> {}, leased |-> FALSE, slot |-> FALSE]

Running == closing = "open" /\ root

\* jobs.mu is free: nobody is between the two steps of enqueue.
Unlocked == \A r \in Requests : request[r].at # "checked"

Init ==
  /\ request = [r \in Requests |-> New]
  /\ active = [u \in Users |-> None] /\ recent = [u \in Users |-> None]
  /\ jobs = [k \in Keys |-> None] /\ job = [r \in Requests |-> Spare] /\ queue = <<>>
  /\ attached \in Modes
  /\ worker = [w \in Workers |-> IF attached THEN [Ready EXCEPT !.at = "gone"] ELSE Ready]
  /\ sender = [s \in Senders |-> [at |-> "idle", what |-> NoOne, rest |-> {}]]
  /\ delivery = <<>> /\ slots = 0 /\ leases = 0
  /\ cached \in SUBSET Keys
  /\ tickets = [u \in Users |-> None] /\ clearing = {}
  /\ answered = {} /\ closing = "open" /\ root = TRUE

-----------------------------------------------------------------------------
(* What a request goes through.                                            *)
At(r, place) == request[r].at = place
User(r) == request[r].user
Key(r)  == request[r].key

Moves(R, place) ==
  request' = [r \in Requests |-> IF r \in R THEN [request[r] EXCEPT !.at = place]
                                            ELSE request[r]]

\* The caller is told that it ended; its users' entries are not concerned.
Refused(r) == Moves({r}, "done") /\ answered' = answered \cup {r}

Reserves(r) == active' = [active EXCEPT ![User(r)] = Key(r)]

\* finishJob: the users whose entry is still this key are released.
Finish(k, R) ==
  LET U == {u \in Users : active[u] = k /\ \E r \in R : User(r) = u}
  IN  /\ Unlocked
      /\ active' = [u \in Users |-> IF u \in U THEN None ELSE active[u]]
      /\ recent' = [u \in Users |-> IF u \in U THEN k ELSE recent[u]]

\* releaseDirectionalWaiter.
Release(r) ==
  Unlocked /\ active' = [active EXCEPT ![User(r)] = IF @ = Key(r) THEN None ELSE @]

\* The ticket is cancelled with it.
Leaves(r) ==
  Release(r) /\ request' = [request EXCEPT ![r] = [@ EXCEPT !.at = "done", !.ticket = "failed"]]

Cooling(r) == recent[User(r)] = Key(r)

\* deliverRequest: not running, a stale run, an unsupported place refuse it.
Ask(r, u, k) ==
  /\ At(r, "new") /\ Unlocked
  /\ \/ Running /\ answered' = answered
        /\ request' = [request EXCEPT ![r] = [New EXCEPT !.at = "asked", !.user = u, !.key = k]]
     \/ answered' = answered \cup {r}
        /\ request' = [request EXCEPT ![r] = [New EXCEPT !.at = "done", !.user = u, !.key = k]]
  /\ UNCHANGED <<maps, registry, channel, shared, process, cached>>

Load(r) ==
  /\ At(r, "asked") /\ Moves({r}, IF Key(r) \in cached THEN "hit" ELSE "missed")
  /\ UNCHANGED <<maps, registry, channel, shared, process, cached, answered>>

-----------------------------------------------------------------------------
(* A cached result.                                                        *)

\* reserveCached.
ReserveCached(r) ==
  /\ At(r, "hit") /\ Unlocked
  /\ \/ /\ Running /\ active[User(r)] = None /\ ~Cooling(r)
        /\ Reserves(r) /\ Moves({r}, "reserved") /\ UNCHANGED answered
     \/ /\ ~(Running /\ active[User(r)] = None /\ ~Cooling(r))
        /\ Refused(r) /\ UNCHANGED active
  /\ UNCHANGED <<recent, registry, channel, shared, process, cached>>

\* scheduleCachedDelivery: a slot, then a lease, then the channel.
TakeSlot(r) ==
  /\ At(r, "reserved") /\ Unlocked
  /\ \/ /\ Running /\ slots < CacheShare
        /\ slots' = slots + 1 /\ Moves({r}, "slotted")
     \/ /\ ~(Running /\ slots < CacheShare)
        /\ Moves({r}, "failing") /\ UNCHANGED slots
  /\ UNCHANGED <<maps, registry, sender, delivery, leases, shared, process, cached, answered>>

LeaseCached(r) ==
  /\ At(r, "slotted")
  /\ \/ /\ Key(r) \in cached
        /\ leases' = leases + 1 /\ Moves({r}, "leased") /\ UNCHANGED slots
     \/ slots' = slots - 1 /\ Moves({r}, "failing") /\ UNCHANGED leases
  /\ UNCHANGED <<maps, registry, sender, delivery, shared, process, cached, answered>>

SendCached(r) ==
  /\ At(r, "leased") /\ Unlocked
  /\ \/ /\ Running /\ Len(delivery) < DeliverySize
        /\ delivery' = Append(delivery, [key |-> Key(r), waiters |-> {r}, leased |-> TRUE, slot |-> TRUE])
        /\ Moves({r}, "waiting") /\ UNCHANGED <<slots, leases>>
     \/ /\ ~(Running /\ Len(delivery) < DeliverySize)
        /\ leases' = leases - 1 /\ slots' = slots - 1
        /\ Moves({r}, "failing") /\ UNCHANGED delivery
  /\ UNCHANGED <<maps, registry, sender, shared, process, cached, answered>>

\* finishCached.
FailCached(r) ==
  /\ At(r, "failing") /\ Finish(Key(r), {r}) /\ Refused(r)
  /\ UNCHANGED <<registry, channel, shared, process, cached>>

-----------------------------------------------------------------------------
(* The local queue.                                                        *)
Welcome(r) == Running /\ active[User(r)] = None /\ ~Cooling(r)

\* enqueue, when the user is busy or the key is crowded.
EnqueueRefused(r) ==
  /\ ~attached /\ At(r, "missed") /\ Unlocked
  /\ \/ ~Welcome(r)
     \/ /\ jobs[Key(r)] # None
        /\ Cardinality(job[jobs[Key(r)]].waiters) >= MaxWaiters
  /\ Refused(r)
  /\ UNCHANGED <<maps, registry, channel, shared, process, cached>>

\* enqueue, when the calculation is there already.
Join(r) ==
  LET j == jobs[Key(r)]
  IN  /\ ~attached /\ At(r, "missed") /\ Unlocked /\ Welcome(r)
      /\ j # None /\ Cardinality(job[j].waiters) < MaxWaiters
      /\ job' = [job EXCEPT ![j].waiters = {q \in @ : User(q) # User(r)} \cup {r}]
      /\ Reserves(r) /\ Moves({r}, "waiting")
      /\ UNCHANGED <<recent, jobs, queue, worker, channel, shared, process, cached, answered>>

\* enqueue, when it is new: the root context is live, and the mutex taken.
Check(r) ==
  /\ ~attached /\ At(r, "missed") /\ Unlocked /\ Welcome(r) /\ jobs[Key(r)] = None
  /\ Moves({r}, "checked")
  /\ UNCHANGED <<maps, registry, channel, shared, process, cached, answered>>

\* By now the root context may have ended, and the workers may have left.
Enqueue(r) ==
  /\ At(r, "checked")
  /\ \/ /\ Len(queue) < QueueSize
        /\ job' = [job EXCEPT ![r] = [key |-> Key(r), waiters |-> {r}]]
        /\ jobs' = [jobs EXCEPT ![Key(r)] = r] /\ queue' = Append(queue, r)
        /\ Reserves(r) /\ Moves({r}, "waiting") /\ UNCHANGED answered
     \/ /\ Len(queue) >= QueueSize
        /\ Refused(r) /\ UNCHANGED <<active, jobs, job, queue>>
  /\ UNCHANGED <<recent, worker, channel, shared, process, cached>>

TakeJob(w) ==
  /\ worker[w].at = "idle" /\ queue # <<>>
  /\ worker' = [worker EXCEPT ![w] = [@ EXCEPT !.at = "running", !.job = Head(queue)]]
  /\ queue' = Tail(queue)
  /\ UNCHANGED <<request, maps, jobs, job, channel, shared, process, cached, answered>>

\* process: a result is published before the run is checked again, under
\* another key when the terrain was still pending at admission.
Process(w) ==
  LET k == job[worker[w].job].key
  IN  /\ worker[w].at = "running"
      /\ cached' \in {cached, cached \cup {k}}
      /\ \E ok \in BOOLEAN :
           worker' = [worker EXCEPT ![w] = [@ EXCEPT !.at = "detaching", !.leased = ok]]
      /\ UNCHANGED <<request, maps, jobs, job, queue, channel, shared, process, answered>>

\* Faulty: others may still join.
DetachKeepsJob(w) ==
  /\ worker[w].at = "detaching" /\ Unlocked
  /\ worker' = [worker EXCEPT ![w] =
       [@ EXCEPT !.at = "leasing", !.job = None, !.what = job[worker[w].job]]]
  /\ UNCHANGED <<request, maps, jobs, job, queue, channel, shared, process, cached, answered>>

\* deliverJob: nobody joins from here on.
Detach(w) ==
  LET j == worker[w].job
      k == job[j].key
  IN  /\ worker[w].at = "detaching" /\ Unlocked
      /\ jobs' = [jobs EXCEPT ![k] = IF @ = j THEN None ELSE @]
      /\ job' = [job EXCEPT ![j] = Spare]
      /\ worker' = [worker EXCEPT ![w] =
           [@ EXCEPT !.at = "leasing", !.job = None, !.what = job[j]]]
      /\ UNCHANGED <<request, maps, queue, channel, shared, process, cached, answered>>

\* The picture may have been evicted by now.
LeaseJob(w) ==
  /\ worker[w].at = "leasing"
  /\ \/ /\ worker[w].leased /\ leases' = leases + 1
        /\ worker' = [worker EXCEPT ![w].at = "sending"]
     \/ /\ worker' = [worker EXCEPT ![w] = [@ EXCEPT !.at = "sending", !.leased = FALSE]]
        /\ UNCHANGED leases
  /\ UNCHANGED <<request, maps, jobs, job, queue, sender, delivery, slots, shared,
                 process, cached, answered>>

-----------------------------------------------------------------------------
(* The end of deliverJob: the channel, or nobody is told.                  *)
\* Faulty: one result more than the capacity.
SentBeyond(k, R, lease) ==
  /\ Len(delivery) <= DeliverySize
  /\ delivery' = Append(delivery, [key |-> k, waiters |-> R, leased |-> lease, slot |-> FALSE])
  /\ Moves(R, "waiting")
  /\ UNCHANGED <<maps, leases>>

Sent(k, R, lease) ==
  /\ Len(delivery) < DeliverySize
  /\ delivery' = Append(delivery, [key |-> k, waiters |-> R, leased |-> lease, slot |-> FALSE])
  /\ Moves(R, "waiting")
  /\ UNCHANGED <<maps, leases>>

\* Faulty: the lease of a result that is dropped stays.
DroppedKeepsLease(k, R, lease) ==
  /\ ~root \/ Len(delivery) >= DeliverySize
  /\ Finish(k, R) /\ Moves(R, "dropped")
  /\ UNCHANGED <<leases, delivery>>

Dropped(k, R, lease) ==
  /\ ~root \/ Len(delivery) >= DeliverySize
  /\ leases' = (IF lease THEN leases - 1 ELSE leases)
  /\ Finish(k, R) /\ Moves(R, "dropped")
  /\ UNCHANGED delivery

SendJob(w) ==
  /\ worker[w].at = "sending"
  /\ \/ Sent(worker[w].what.key, worker[w].what.waiters, worker[w].leased)
     \/ Dropped(worker[w].what.key, worker[w].what.waiters, worker[w].leased)
  /\ worker' = [worker EXCEPT ![w] = Ready]
  /\ UNCHANGED <<jobs, job, queue, sender, slots, shared, process, cached, answered>>

-----------------------------------------------------------------------------
(* The directional coordinator.                                            *)

\* Faulty: a busy user is accepted.
ReserveBusy(r) ==
  /\ attached /\ At(r, "missed") /\ Unlocked
  /\ \/ Running /\ Reserves(r) /\ Moves({r}, "submitting") /\ UNCHANGED answered
     \/ ~Running /\ Refused(r) /\ UNCHANGED active
  /\ UNCHANGED <<recent, registry, channel, shared, process, cached>>

\* handleDirectionalAdmission, until it submits.
ReserveShared(r) ==
  /\ attached /\ At(r, "missed") /\ Unlocked
  /\ \/ /\ Running /\ active[User(r)] = None
        /\ Reserves(r) /\ Moves({r}, "submitting") /\ UNCHANGED answered
     \/ /\ ~(Running /\ active[User(r)] = None)
        /\ Refused(r) /\ UNCHANGED active
  /\ UNCHANGED <<recent, registry, channel, shared, process, cached>>

Submit(r) ==
  /\ At(r, "submitting")
  /\ \/ /\ \E t \in {"pending", "ok"} :
             request' = [request EXCEPT ![r] = [@ EXCEPT !.at = "submitted", !.ticket = t]]
        /\ UNCHANGED <<active, answered>>
     \/ Release(r) /\ Refused(r)
  /\ UNCHANGED <<recent, registry, channel, shared, process, cached>>

\* The second critical section, which starts the awaiting goroutine.
Register(r) ==
  /\ At(r, "submitted") /\ Unlocked
  /\ \/ /\ Running /\ tickets' = [tickets EXCEPT ![User(r)] = r]
        /\ Moves({r}, "awaiting") /\ UNCHANGED <<active, answered>>
     \/ ~Running /\ Leaves(r) /\ answered' = answered \cup {r} /\ UNCHANGED tickets
  /\ UNCHANGED <<recent, registry, channel, clearing, process, cached>>

\* The calculation ends, well or not.
TicketEnds(r) ==
  /\ request[r].ticket = "pending"
  /\ \E t \in {"ok", "failed"} : request' = [request EXCEPT ![r].ticket = t]
  /\ UNCHANGED <<maps, registry, channel, shared, process, cached, answered>>

\* The owner leaves the job, ended or not.
CancelUser(u) ==
  /\ Unlocked /\ tickets[u] # None /\ request[tickets[u]].ticket # "failed"
  /\ request' = [request EXCEPT ![tickets[u]].ticket = "failed"]
  /\ UNCHANGED <<maps, registry, channel, shared, process, cached, answered>>

\* Faulty: a calculation that fails is not seen to have ended.
AwaitReady(r) ==
  /\ At(r, "awaiting")
  /\ \/ request[r].ticket = "ok" /\ Moves({r}, "carrying") /\ UNCHANGED <<active, clearing>>
     \/ ~root /\ Leaves(r) /\ clearing' = clearing \cup {r}
  /\ UNCHANGED <<recent, registry, channel, tickets, process, cached, answered>>

\* Faulty: the wait group is not told when the root context ends.
AwaitLeaks(r) ==
  /\ At(r, "awaiting")
  /\ \/ root /\ request[r].ticket # "pending" /\ Moves({r}, "carrying") /\ UNCHANGED active
     \/ ~root /\ Release(r) /\ UNCHANGED request
  /\ UNCHANGED <<recent, registry, channel, shared, process, cached, answered>>

\* awaitDirectional: the ticket has ended, or the root context.
Await(r) ==
  /\ At(r, "awaiting")
  /\ \/ /\ request[r].ticket # "pending"
        /\ Moves({r}, "carrying") /\ UNCHANGED <<active, clearing>>
     \/ ~root /\ Leaves(r) /\ clearing' = clearing \cup {r}
  /\ UNCHANGED <<recent, registry, channel, tickets, process, cached, answered>>

\* readHorizonBundle, of a result the cache of the coordinator may have lost.
LeaseShared(r) ==
  /\ At(r, "carrying")
  /\ \E ok \in (IF request[r].ticket = "ok" THEN BOOLEAN ELSE {FALSE}) :
       /\ request' = [request EXCEPT ![r] = [@ EXCEPT !.at = "sending", !.leased = ok]]
       /\ leases' = (IF ok THEN leases + 1 ELSE leases)
  /\ UNCHANGED <<maps, registry, sender, delivery, slots, shared, process, cached, answered>>

SendShared(r) ==
  /\ At(r, "sending")
  /\ \/ Sent(Key(r), {r}, request[r].leased)
     \/ Dropped(Key(r), {r}, request[r].leased)
  /\ clearing' = clearing \cup {r}
  /\ UNCHANGED <<registry, sender, slots, tickets, process, cached, answered>>

\* Faulty: whatever ticket the user has is forgotten.
ClearAny(r) ==
  /\ r \in clearing /\ Unlocked /\ clearing' = clearing \ {r}
  /\ tickets' = [tickets EXCEPT ![User(r)] = None]
  /\ UNCHANGED <<request, maps, registry, channel, process, cached, answered>>

\* clearDirectionalTicket, deferred.
Clear(r) ==
  /\ r \in clearing /\ Unlocked /\ clearing' = clearing \ {r}
  /\ tickets' = [tickets EXCEPT ![User(r)] = IF @ = r THEN None ELSE @]
  /\ UNCHANGED <<request, maps, registry, channel, process, cached, answered>>

-----------------------------------------------------------------------------
(* Delivery.                                                               *)
TakeDelivery(s) ==
  /\ sender[s].at = "idle" /\ delivery # <<>>
  /\ sender' = [sender EXCEPT ![s] = [at |-> "busy", what |-> Head(delivery),
                                      rest |-> Head(delivery).waiters]]
  /\ delivery' = Tail(delivery)
  /\ UNCHANGED <<request, maps, registry, slots, leases, shared, process, cached, answered>>

\* Faulty: a waiter whose picture cannot be sent is not told.
AnswerSilently(s) ==
  /\ sender[s].at = "busy" /\ root
  /\ \E r \in sender[s].rest :
       /\ sender' = [sender EXCEPT ![s].rest = @ \ {r}]
       /\ answered' \in {answered, answered \cup {r}} /\ Moves({r}, "answered")
  /\ UNCHANGED <<maps, registry, delivery, slots, leases, shared, process, cached>>

\* One waiter gets its picture or the reason why not.
Answer(s) ==
  /\ sender[s].at = "busy" /\ root
  /\ \E r \in sender[s].rest :
       /\ sender' = [sender EXCEPT ![s].rest = @ \ {r}]
       /\ answered' = answered \cup {r} /\ Moves({r}, "answered")
  /\ UNCHANGED <<maps, registry, delivery, slots, leases, shared, process, cached>>

\* The batch is over, when all are served or its time is up.
FinishDelivery(s) ==
  LET d == sender[s].what
  IN  /\ sender[s].at = "busy"
      /\ sender[s].rest = {} \/ sender[s].rest # d.waiters \/ ~root
      /\ Finish(d.key, d.waiters) /\ Moves(d.waiters, "done")
      /\ slots' = (IF d.slot THEN slots - 1 ELSE slots)
      /\ leases' = (IF d.leased THEN leases - 1 ELSE leases)
      /\ sender' = [sender EXCEPT ![s] = [at |-> "idle", what |-> NoOne, rest |-> {}]]
      /\ UNCHANGED <<registry, delivery, shared, process, cached, answered>>

-----------------------------------------------------------------------------
(* The end.                                                                *)
RootEnds ==
  /\ root /\ root' = FALSE
  /\ UNCHANGED <<request, maps, registry, channel, shared, closing, attached, cached, answered>>

CloseBegins ==
  /\ closing = "open" /\ Unlocked /\ closing' = "closing"
  /\ UNCHANGED <<request, maps, registry, channel, shared, root, attached, cached, answered>>

CloseCancels ==
  /\ closing = "closing" /\ root /\ root' = FALSE
  /\ UNCHANGED <<request, maps, registry, channel, shared, closing, attached, cached, answered>>

\* discardQueued: a job is received, and then, under the mutex, forgotten.
Drain(w) ==
  LET j == worker[w].job
      U == {User(r) : r \in job[j].waiters}
  IN  /\ ~root
      /\ \/ /\ worker[w].at \in {"idle", "draining"} /\ queue # <<>>
            /\ worker' = [worker EXCEPT ![w] = [@ EXCEPT !.at = "discarding", !.job = Head(queue)]]
            /\ queue' = Tail(queue) /\ UNCHANGED <<request, active, jobs, job>>
         \/ /\ worker[w].at = "discarding" /\ Unlocked
            /\ jobs' = [jobs EXCEPT ![job[j].key] = None]
            /\ active' = [u \in Users |-> IF u \in U THEN None ELSE active[u]]
            /\ Moves(job[j].waiters, "done") /\ job' = [job EXCEPT ![j] = Spare]
            /\ worker' = [worker EXCEPT ![w] = [@ EXCEPT !.at = "draining", !.job = None]]
            /\ UNCHANGED queue
         \/ /\ worker[w].at \in {"idle", "draining"} /\ queue = <<>>
            /\ worker' = [worker EXCEPT ![w].at = "gone"]
            /\ UNCHANGED <<request, active, jobs, job, queue>>
      /\ UNCHANGED <<recent, channel, shared, process, cached, answered>>

SenderLeaves(s) ==
  /\ sender[s].at = "idle" /\ ~root /\ sender' = [sender EXCEPT ![s].at = "gone"]
  /\ UNCHANGED <<request, maps, registry, delivery, slots, leases, shared, process,
                 cached, answered>>

\* Faulty: the awaiting goroutines are not in the wait group.
AllWorkersGone ==
  /\ \A w \in Workers : worker[w].at = "gone"
  /\ \A s \in Senders : sender[s].at = "gone"

\* wait.Wait returns.
AllGone ==
  /\ \A w \in Workers : worker[w].at = "gone"
  /\ \A s \in Senders : sender[s].at = "gone"
  /\ clearing = {}
  /\ \A r \in Requests : request[r].at \notin {"awaiting", "carrying", "sending"}

\* How many results in the channel hold a lease, or a slot.
QueuedLeases == Cardinality({i \in DOMAIN delivery : delivery[i].leased})
QueuedSlots  == Cardinality({i \in DOMAIN delivery : delivery[i].slot})

\* discardDeliveries, each with its lease, its slot and its users.
CloseEnds ==
  LET R == UNION {delivery[i].waiters : i \in DOMAIN delivery}
      U == {User(r) : r \in {q \in R : active[User(q)] = Key(q)}}
  IN  /\ closing = "closing" /\ ~root /\ AllGone /\ closing' = "closed"
      /\ leases' = leases - QueuedLeases
      /\ slots' = slots - QueuedSlots
      /\ active' = [u \in Users |-> IF u \in U THEN None ELSE active[u]]
      /\ recent' = [u \in Users |-> IF u \in U THEN active[u] ELSE recent[u]]
      /\ Moves(R, "done") /\ delivery' = <<>>
      /\ UNCHANGED <<registry, sender, shared, root, attached, cached, answered>>

\* The cache forgets a bundle; the cooldown of a user ends.
Evict(k) ==
  /\ k \in cached /\ cached' = cached \ {k}
  /\ UNCHANGED <<request, maps, registry, channel, shared, process, answered>>

Cool(u) ==
  /\ recent[u] # None /\ recent' = [recent EXCEPT ![u] = None]
  /\ UNCHANGED <<request, active, registry, channel, shared, process, cached, answered>>

-----------------------------------------------------------------------------
Call(r) ==
  \/ Load(r) \/ ReserveCached(r) \/ TakeSlot(r) \/ LeaseCached(r) \/ SendCached(r)
  \/ FailCached(r) \/ EnqueueRefused(r) \/ Join(r) \/ Check(r) \/ Enqueue(r)
  \/ ReserveShared(r) \/ Submit(r) \/ Register(r)

Awaiting(r) == Await(r) \/ LeaseShared(r) \/ SendShared(r) \/ Clear(r)
Work(w)     == TakeJob(w) \/ Process(w) \/ Detach(w) \/ LeaseJob(w) \/ SendJob(w) \/ Drain(w)
Deliver(s)  == TakeDelivery(s) \/ Answer(s) \/ FinishDelivery(s) \/ SenderLeaves(s)

Next ==
  \/ \E r \in Requests : Call(r) \/ Awaiting(r) \/ TicketEnds(r)
  \/ \E r \in Requests, u \in Users, k \in Keys : Ask(r, u, k)
  \/ \E w \in Workers : Work(w)
  \/ \E s \in Senders : Deliver(s)
  \/ \E u \in Users : CancelUser(u) \/ Cool(u)
  \/ \E k \in Keys : Evict(k)
  \/ RootEnds \/ CloseBegins \/ CloseCancels \/ CloseEnds

Spec == Init /\ [][Next]_vars

\* Goroutines go on, and every calculation ends.
Fairness ==
  /\ \A r \in Requests : WF_vars(Call(r)) /\ WF_vars(Awaiting(r)) /\ WF_vars(TicketEnds(r))
  /\ \A w \in Workers : WF_vars(Work(w))
  /\ \A s \in Senders : WF_vars(Deliver(s))
  /\ WF_vars(CloseCancels) /\ WF_vars(CloseEnds)

FairSpec == Spec /\ Fairness

-----------------------------------------------------------------------------
Refusable == {"new", "asked", "hit", "missed", "checked", "done", "dropped"}
Owning    == {"reserved", "slotted", "leased", "failing", "waiting", "answered",
              "submitting", "submitted", "awaiting", "carrying", "sending"}

Delivery == [key : Keys, waiters : SUBSET Requests, leased : BOOLEAN, slot : BOOLEAN]
Job      == [key : Keys, waiters : SUBSET Requests]

RequestRecord == [at : Refusable \cup Owning, user : Users \cup {None}, key : Keys \cup {None},
                  leased : BOOLEAN, ticket : {"none", "pending", "ok", "failed"}]
WorkerRecord  == [at : {"idle", "running", "detaching", "leasing", "sending", "draining",
                        "discarding", "gone"},
                  job : Requests \cup {None}, what : Job \cup {Spare}, leased : BOOLEAN]
SenderRecord  == [at : {"idle", "busy", "gone"}, what : Delivery \cup {NoOne},
                  rest : SUBSET Requests]

\* The types of the variables (horizon_jobs.go:189); the channels keep
\* within their capacities.
TypeOK ==
  /\ request \in [Requests -> RequestRecord]
  /\ active \in [Users -> Keys \cup {None}] /\ recent \in [Users -> Keys \cup {None}]
  /\ jobs \in [Keys -> Requests \cup {None}] /\ job \in [Requests -> Job \cup {Spare}]
  /\ queue \in Seq(Requests) /\ Len(queue) <= QueueSize
  /\ worker \in [Workers -> WorkerRecord] /\ sender \in [Senders -> SenderRecord]
  /\ delivery \in Seq(Delivery) /\ Len(delivery) <= DeliverySize
  /\ slots \in 0..CacheShare /\ leases \in Nat /\ cached \in SUBSET Keys
  /\ tickets \in [Users -> Requests \cup {None}] /\ clearing \in SUBSET Requests
  /\ answered \in SUBSET Requests
  /\ closing \in {"open", "closing", "closed"} /\ {root, attached} \subseteq BOOLEAN

Owned(u) == {r \in Requests : User(r) = u /\ request[r].at \in Owning}

\* A user has at most one request under way, and the map of active users
\* says exactly which (horizon_jobs.go:821, 1228; horizon_directional.go:78).
ActiveExact ==
  \A u \in Users :
    /\ Cardinality(Owned(u)) <= 1
    /\ active[u] = None <=> Owned(u) = {}
    /\ \A r \in Owned(u) : active[u] = Key(r)

Computing == {w \in Workers : worker[w].at \in {"running", "detaching"}}
SharedOnce ==
  LET K(w) == job[worker[w].job].key
  IN  /\ \A w, v \in Computing : w # v => K(w) # K(v)
      /\ \A i \in DOMAIN queue : \A w \in Computing : job[queue[i]].key # K(w)
      /\ \A i, j \in DOMAIN queue : i # j => job[queue[i]].key # job[queue[j]].key

Holders(r) ==
  Cardinality({q \in Requests : r \in job[q].waiters})
  + Cardinality({w \in Workers : r \in worker[w].what.waiters})
  + Cardinality({i \in DOMAIN delivery : r \in delivery[i].waiters})
  + Cardinality({s \in Senders : r \in sender[s].rest})
WaitedForOnce == \A r \in Requests : Holders(r) = IF At(r, "waiting") THEN 1 ELSE 0

\* Identical requests share one calculation, and one result carries them: no
\* two workers compute the same key, no key that is computed is queued again,
\* and who waits is waited for in one place: a job, a worker that carries its
\* result, the channel or a delivery worker (horizon_jobs.go:830, 1058, 1086).
Singleflight == SharedOnce /\ WaitedForOnce

Slots ==
  Cardinality({r \in Requests : request[r].at \in {"slotted", "leased"}})
  + QueuedSlots + Cardinality({s \in Senders : sender[s].what.slot})

Leases ==
  Cardinality({r \in Requests : At(r, "leased") \/ (At(r, "sending") /\ request[r].leased)})
  + Cardinality({w \in Workers : worker[w].at = "sending" /\ worker[w].leased})
  + QueuedLeases + Cardinality({s \in Senders : sender[s].what.leased})

\* A slot is taken for every cached result between its reservation and the end
\* of its delivery, a lease file is on disk for every result under way that has
\* one, and there are no others (horizon_jobs.go:1072, 1110, 1157, 1268).
DeliveriesExact == slots = Slots /\ leases = Leases

\* CancelUser reaches the ticket that is awaited (horizon_directional.go:238).
CancelReaches == \A r \in Requests : At(r, "awaiting") => tickets[User(r)] = r

Answered(r) == r \in answered \/ ~root

\* While the process runs nobody is left without an answer
\* (horizon_jobs.go:84, 1217).
NoSilence == \A r \in Requests : At(r, "done") \/ At(r, "dropped") => Answered(r)

\* The same, but for what a full channel drops, of the requests that do not
\* share a batch, whose time limit ends it for all who wait.
OnlyDropsAreSilent == attached => \A r \in Requests : At(r, "done") => Answered(r)

\* When Close returns, no result is left and no user is busy but callers about
\* to be refused and one who waits, alone, for the one job that may be left in
\* the queue: it was sent after the root context had ended, to workers that had
\* left (horizon_jobs.go:327, 817, 842, 1245).
InCall == {"reserved", "slotted", "leased", "failing", "submitting", "submitted"}
CloseLeavesOne ==
  closing = "closed" =>
    /\ delivery = <<>>
    /\ queue = <<>> \/ (~attached /\ \E r \in Requests : queue = <<r>> /\ job[r].waiters = {r})
    /\ \A u \in Users : active[u] # None =>
         \E r \in Owned(u) : request[r].at \in InCall \/ queue = <<r>>

\* What the comment at horizon_jobs.go:325 says of Close, and is not so: TLC finds
\* the job that CloseLeavesOne excepts (README, Findings).
ClosedIsEmpty ==
  closing = "closed" =>
    /\ queue = <<>> /\ delivery = <<>>
    /\ \A u \in Users : active[u] # None => \E r \in Owned(u) : request[r].at \in InCall

\* Every request comes to an end while the process runs, and releases its
\* user (horizon_jobs.go:1214).
EveryRequestEnds ==
  \A r \in Requests : At(r, "asked") ~> (At(r, "done") \/ At(r, "dropped") \/ ~root)

\* Close returns (horizon_jobs.go:336).
CloseReturns == closing = "closing" ~> closing = "closed"
=============================================================================
