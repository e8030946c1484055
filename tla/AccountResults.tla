---------------------------- MODULE AccountResults ----------------------------
(***************************************************************************)
(* Website jobs of AccountResultDispatcher: admission into bounded slots,  *)
(* one goroutine per job (run), the goroutine that watches a Horizon       *)
(* ticket and reports into the job (waiter), the ForecastQueue both kinds   *)
(* pass through, cancellation, manifests written outside the mutex, crash   *)
(* and recovery, and retention.                                            *)
(*                                                                         *)
(* A status is reduced to its State ("active" for queued and running,       *)
(* "blank" for those two without EstimatedAt) and to whether UpdatedAt is    *)
(* older than resultTTL.  Updates that change only what is shown (summary,  *)
(* percentages) are left out when the goroutine that owns the job makes     *)
(* them.                                                                   *)
(***************************************************************************)
EXTENDS Naturals, FiniteSets, FiniteSetsExt

CONSTANTS
  Jobs,        \* identifiers, each drawn at random for one admission
  Horizon,     \* the jobs of kind Horizon; the others are forecasts
  Keys,        \* kind, owner and client key of a request
  KeyOf,       \* the key each job is admitted under
  Capacity,    \* slots of each kind
  Concurrency, \* slots of ForecastQueue
  MaxTroubles, \* failing storage operations and crashes in a behaviour
  Nothing

ASSUME AccountConstants ==
  /\ Horizon \subseteq Jobs /\ KeyOf \in [Jobs -> Keys]
  /\ Capacity \in [{"forecast", "horizon"} -> Nat \ {0}]
  /\ Concurrency \in Nat \ {0} /\ MaxTroubles \in Nat
  /\ Nothing \notin Jobs

VARIABLES
  jobs,        \* dispatcher.jobs: status, cancelled, capture
  idempotency, \* dispatcher.idempotency
  held,        \* tokens in forecastSlots and horizonSlots
  run,         \* the job's goroutine: its place, and the status it is writing
  waiter,      \* the goroutine of the Horizon ticket, likewise
  work,        \* what both share: context, ticket, capture, answer
  queue,       \* ForecastQueue: holders of a slot, and the waiting counter
  manifest,    \* manifest.json of each job's directory
  output,      \* forecast.json or horizon.json of each job's directory
  root,        \* the process: "up", "stopping", or "down"
  troubles

vars == <<jobs, idempotency, held, run, waiter, work, queue, manifest, output,
          root, troubles>>

Active   == {"active", "blank"}
Terminal == {"ready", "failed", "cancelled"}
Ages     == {"new", "old"}
Status   == [state : Active \cup Terminal, updated : Ages]

JobRecord      == [status : Status, cancelled : BOOLEAN, capture : BOOLEAN]
ManifestRecord == [status : Status, touched : Ages]

ASSUME NothingIsNoRecord ==
  /\ Nothing \notin Status /\ Nothing \notin JobRecord /\ Nothing \notin ManifestRecord

KindOf(i) == IF i \in Horizon THEN "horizon" ELSE "forecast"

RunPlaces == {"unborn", "admit", "begin", "open", "enter", "line",
              "calculate", "copy", "submitted", "wait", "judge", "publish",
              "confirm", "finish", "prune", "release", "over"}
WaiterPlaces == {"off", "poll", "notify", "write", "deliver", "copy", "say", "over"}

Fresh == [context |-> "open", ticket |-> "none", cut |-> FALSE,
          files |-> FALSE, answer |-> "none"]
Idle(place) == [at |-> place, writing |-> Nothing]
Watching(place) == [at |-> place, writing |-> Nothing, seen |-> "none"]

RunRecord    == [at : RunPlaces, writing : Status \cup {Nothing}]
WaiterRecord == [at : WaiterPlaces, writing : Status \cup {Nothing},
                 seen : {"active", "ready", "failed", "none"}]
WorkRecord   == [context : {"open", "cancelled", "timeout"}, ticket : {"none", "live", "gone"},
                 cut : BOOLEAN, files : BOOLEAN, answer : {"none", "ok", "error"}]

TypeOK ==
  /\ jobs \in [Jobs -> JobRecord \cup {Nothing}]
  /\ idempotency \in [Keys -> Jobs \cup {Nothing}]
  /\ held \in [{"forecast", "horizon"} -> Nat]
  /\ run \in [Jobs -> RunRecord]
  /\ waiter \in [Jobs -> WaiterRecord]
  /\ work \in [Jobs -> WorkRecord]
  /\ queue \in [holders : SUBSET Jobs, waiting : Nat]
  /\ manifest \in [Jobs -> ManifestRecord \cup {Nothing}]
  /\ output \in [Jobs -> {"none", "partial", "whole"}]
  /\ root \in {"up", "stopping", "down"}
  /\ troubles \in Nat

Init ==
  /\ jobs = [i \in Jobs |-> Nothing]
  /\ idempotency = [k \in Keys |-> Nothing]
  /\ held = [k \in {"forecast", "horizon"} |-> 0]
  /\ run = [i \in Jobs |-> Idle("unborn")]
  /\ waiter = [i \in Jobs |-> Watching("off")]
  /\ work = [i \in Jobs |-> Fresh]
  /\ queue = [holders |-> {}, waiting |-> 0]
  /\ manifest = [i \in Jobs |-> Nothing]
  /\ output = [i \in Jobs |-> "none"]
  /\ root = "up" /\ troubles = 0

\* A storage operation fails.
Fault == troubles < MaxTroubles /\ troubles' = troubles + 1

Alive == root # "down"
At(i, place) == Alive /\ run[i].at = place
Goto(i, place) == run' = [run EXCEPT ![i] = Idle(place)]

(***************************************************************************)
(* update: the change is made under the mutex, the copy is written after.   *)
(***************************************************************************)
NewStatus(state) == [state |-> state, updated |-> "new"]

\* The copy update writes for a job that is still in the map.
Copied(i, status) == IF jobs[i] = Nothing THEN Nothing ELSE status

SetStatus(i, status) ==
  jobs' = IF jobs[i] = Nothing THEN jobs ELSE [jobs EXCEPT ![i].status = status]

\* The job's goroutine changes the status and goes on to write it.
Update(i, status, place) ==
  /\ SetStatus(i, status)
  /\ run' = [run EXCEPT ![i] = [at |-> place, writing |-> Copied(i, status)]]

Stored(i, status) ==
  IF status = Nothing THEN manifest
  ELSE [manifest EXCEPT ![i] = [status |-> status, touched |-> "new"]]

\* persist: written, not written, or renamed with a failing sync after it.
PersistOk(i, status)  == manifest' = Stored(i, status) /\ UNCHANGED troubles
PersistErr(i, status) ==
  /\ status # Nothing /\ Fault
  /\ manifest' \in {manifest, Stored(i, status)}

Persist(i, status) == PersistOk(i, status) \/ PersistErr(i, status)

(***************************************************************************)
(* Admission and the life of one job.                                      *)
(***************************************************************************)

\* A retry with the key of a job in the map is answered from the map and
\* changes nothing; so is a request that finds no free slot.
AdmitAccountJob(i) ==
  /\ root = "up" /\ run[i].at = "unborn"
  /\ idempotency[KeyOf[i]] = Nothing
  /\ held[KindOf(i)] < Capacity[KindOf(i)]
  /\ held' = [held EXCEPT ![KindOf(i)] = @ + 1]
  /\ jobs' = [jobs EXCEPT ![i] = [status |-> NewStatus("active"),
                                  cancelled |-> FALSE, capture |-> FALSE]]
  /\ idempotency' = [idempotency EXCEPT ![KeyOf[i]] = i]
  /\ run' = [run EXCEPT ![i] = [at |-> "admit", writing |-> NewStatus("active")]]
  /\ UNCHANGED <<waiter, work, queue, manifest, output, root, troubles>>

\* The entries removeJobLocked leaves, when the jobs of gone are removed.
JobsWithout(gone) == [i \in Jobs |-> IF i \in gone THEN Nothing ELSE jobs[i]]
KeysWithout(gone) ==
  [k \in Keys |-> IF idempotency[k] \in gone THEN Nothing ELSE idempotency[k]]

\* The admission persists the queued job before it starts its goroutine.
AdmitStored(i) ==
  /\ At(i, "admit")
  /\ PersistOk(i, run[i].writing)
  /\ Goto(i, "begin")
  /\ UNCHANGED <<jobs, idempotency, held, waiter, work, queue, output, root>>

AdmitRejected(i) ==
  /\ At(i, "admit")
  /\ Fault
  /\ jobs' = JobsWithout({i}) /\ idempotency' = KeysWithout({i})
  /\ held' = [held EXCEPT ![KindOf(i)] = @ - 1]
  /\ manifest' = [manifest EXCEPT ![i] = Nothing]
  /\ Goto(i, "over")
  /\ UNCHANGED <<waiter, work, queue, output, root>>

\* The goroutine marks its job as running; nobody else writes it yet.
Begin(i) ==
  /\ At(i, "begin")
  /\ SetStatus(i, NewStatus("active"))
  /\ Persist(i, Copied(i, NewStatus("active")))
  /\ Goto(i, "open")
  /\ UNCHANGED <<idempotency, held, waiter, work, queue, output, root>>

\* The goroutine ends its write: where it goes, whatever storage answered.
After == [submitted |-> "wait", finish |-> "release"]
Write(i) ==
  /\ Alive /\ run[i].at \in DOMAIN After
  /\ Persist(i, run[i].writing)
  /\ Goto(i, After[run[i].at])
  /\ waiter' = IF run[i].at # "submitted" THEN waiter
               ELSE [waiter EXCEPT ![i].at = "poll"]
  /\ UNCHANGED <<jobs, idempotency, held, work, queue, output, root>>

\* run makes the directory and the capture the calculation writes to.
Open(i) ==
  /\ At(i, "open")
  /\ \/ /\ Goto(i, "enter")
        /\ jobs' = IF jobs[i] = Nothing THEN jobs ELSE [jobs EXCEPT ![i].capture = TRUE]
        /\ UNCHANGED troubles
     \/ Fault /\ Update(i, NewStatus("failed"), "finish")
  /\ UNCHANGED <<idempotency, held, waiter, work, queue, manifest, output, root>>

(***************************************************************************)
(* ForecastQueue.Wait, on the way of both kinds.                           *)
(***************************************************************************)
Enter(i) ==
  /\ At(i, "enter")
  /\ \/ /\ work[i].context # "open"
        /\ work' = [work EXCEPT ![i].answer = "error"]
        /\ Goto(i, "judge") /\ UNCHANGED queue
     \/ /\ work[i].context = "open" /\ Cardinality(queue.holders) < Concurrency
        /\ queue' = [queue EXCEPT !.holders = @ \cup {i}]
        /\ Goto(i, "calculate") /\ UNCHANGED work
     \/ /\ work[i].context = "open" /\ Cardinality(queue.holders) >= Concurrency
        /\ queue' = [queue EXCEPT !.waiting = @ + 1]
        /\ Goto(i, "line") /\ UNCHANGED work
  /\ UNCHANGED <<jobs, idempotency, held, waiter, manifest, output, root, troubles>>

\* Faulty: a waiter whose context ends stays counted.
LeaveUncounted(i) ==
  /\ At(i, "line") /\ work[i].context # "open"
  /\ work' = [work EXCEPT ![i].answer = "error"]
  /\ Goto(i, "judge")
  /\ UNCHANGED <<jobs, idempotency, held, waiter, queue, manifest, output, root,
                 troubles>>

\* The announcement of the position fails, or the context ends.
LeaveLine(i) ==
  /\ At(i, "line") /\ (work[i].context # "open" \/ work[i].cut)
  /\ queue' = [queue EXCEPT !.waiting = @ - 1]
  /\ work' = [work EXCEPT ![i].answer = "error"]
  /\ Goto(i, "judge")
  /\ UNCHANGED <<jobs, idempotency, held, waiter, manifest, output, root, troubles>>

TakeSlot(i) ==
  /\ At(i, "line") /\ Cardinality(queue.holders) < Concurrency
  /\ queue' = [holders |-> queue.holders \cup {i}, waiting |-> queue.waiting - 1]
  /\ Goto(i, "calculate")
  /\ UNCHANGED <<jobs, idempotency, held, waiter, work, manifest, output, root,
                 troubles>>

LeaveQueue(i) == queue' = [queue EXCEPT !.holders = @ \ {i}]

(***************************************************************************)
(* The calculation.  captureDataset opens the destination exclusively,      *)
(* copies and syncs it, and keeps its descriptor.                          *)
(***************************************************************************)
MayCapture(i) == ~work[i].cut /\ output[i] = "none"

Calculate(i) ==
  /\ At(i, "calculate") /\ i \notin Horizon
  /\ \/ /\ work[i].context = "open" /\ MayCapture(i)
        /\ output' = [output EXCEPT ![i] = "partial"]
        /\ Goto(i, "copy") /\ UNCHANGED <<work, queue>>
     \/ \* No data, no dataset, a failing capture, or the context ended.
        /\ work' \in {[work EXCEPT ![i].answer = a] : a \in {"ok", "error"}}
        /\ LeaveQueue(i) /\ Goto(i, "judge") /\ UNCHANGED output
  /\ UNCHANGED <<jobs, idempotency, held, waiter, manifest, root, troubles>>

Captured(i) ==
  \/ /\ output' = [output EXCEPT ![i] = "whole"]
     /\ work' = [work EXCEPT ![i] = [@ EXCEPT !.files = TRUE, !.answer = "ok"]]
     /\ UNCHANGED troubles
  \/ /\ Fault
     /\ output' = [output EXCEPT ![i] = "none"]
     /\ work' = [work EXCEPT ![i].answer = "error"]

Copy(i) ==
  /\ At(i, "copy")
  /\ Captured(i)
  /\ LeaveQueue(i) /\ Goto(i, "judge")
  /\ UNCHANGED <<jobs, idempotency, held, waiter, manifest, root>>

(***************************************************************************)
(* A Horizon job submits to the coordinator, is told the ticket's state at   *)
(* once, and waits for the answer of the delivery.                         *)
(***************************************************************************)
\* The status callback of run: no look at the state it replaces.
Notified(i, seen) ==
  NewStatus(IF seen = "active" THEN "active"
            ELSE IF jobs[i].status.state \in Active THEN "blank"
            ELSE jobs[i].status.state)

Submit(i) ==
  /\ At(i, "calculate") /\ i \in Horizon
  /\ LeaveQueue(i)
  /\ \/ /\ \E seen \in {"active", "ready"} : Update(i, Notified(i, seen), "submitted")
        /\ work' = [work EXCEPT ![i].ticket = "live"]
     \/ /\ work' = [work EXCEPT ![i].answer = "error"]
        /\ Goto(i, "judge") /\ UNCHANGED jobs
  /\ UNCHANGED <<idempotency, held, waiter, manifest, output, root, troubles>>

\* Faulty: a job whose delivery never answers cannot be cancelled.
WaitForAnswer(i) ==
  /\ At(i, "wait") /\ work[i].answer # "none"
  /\ Goto(i, "judge")
  /\ UNCHANGED <<jobs, idempotency, held, waiter, work, queue, manifest, output, root,
                 troubles>>

WaitHorizon(i) ==
  /\ At(i, "wait")
  /\ \/ work[i].answer # "none" /\ UNCHANGED work
     \/ /\ work[i].context # "open"
        /\ work' = [work EXCEPT ![i].answer = "error"]
  /\ Goto(i, "judge")
  /\ UNCHANGED <<jobs, idempotency, held, waiter, queue, manifest, output, root,
                 troubles>>

RemovePartialFiles(i) == output' = [output EXCEPT ![i] = "none"]

\* Everything that does not reach publishReady.
Failure(i) == IF work[i].context = "cancelled" THEN "cancelled" ELSE "failed"

Judge(i) ==
  /\ At(i, "judge")
  /\ \/ /\ work[i].answer = "error"
        /\ RemovePartialFiles(i)
        /\ Update(i, NewStatus(Failure(i)), "finish")
        /\ work' = IF i \in Horizon /\ work[i].context # "open" /\ work[i].ticket = "live"
                   THEN [work EXCEPT ![i].ticket = "gone"] ELSE work
     \/ /\ work[i].answer = "ok" /\ ~work[i].files
        /\ RemovePartialFiles(i)
        /\ Update(i, NewStatus("failed"), "finish") /\ UNCHANGED work
     \/ /\ work[i].answer = "ok" /\ work[i].files /\ work[i].context # "open"
        /\ RemovePartialFiles(i)
        /\ Update(i, NewStatus("cancelled"), "finish") /\ UNCHANGED work
     \/ /\ work[i].answer = "ok" /\ work[i].files /\ work[i].context = "open"
        /\ Goto(i, "publish") /\ UNCHANGED <<jobs, work, output>>
  /\ UNCHANGED <<idempotency, held, waiter, queue, manifest, root, troubles>>

\* What publishReady finds under the mutex, before and after its write.
Refused(i)   == jobs[i] # Nothing => jobs[i].status.state \in Terminal
Withdrawn(i) == ~Refused(i) /\ jobs[i].cancelled

GiveUp(i, state) == RemovePartialFiles(i) /\ Update(i, NewStatus(state), "finish")

Publish(i) ==
  /\ At(i, "publish")
  /\ \/ Refused(i) /\ GiveUp(i, "failed")
     \/ Withdrawn(i) /\ GiveUp(i, "cancelled")
     \/ /\ ~Refused(i) /\ ~Withdrawn(i)
        /\ run' = [run EXCEPT ![i] = [at |-> "confirm", writing |-> NewStatus("ready")]]
        /\ UNCHANGED <<jobs, output>>
  /\ UNCHANGED <<idempotency, held, waiter, work, queue, manifest, root, troubles>>

\* Faulty: the second look at the cancellation is left out.
ConfirmBlind(i) ==
  /\ At(i, "confirm")
  /\ PersistOk(i, run[i].writing)
  /\ SetStatus(i, run[i].writing) /\ Goto(i, "prune") /\ UNCHANGED output
  /\ UNCHANGED <<idempotency, held, waiter, work, queue, root>>

\* Faulty: the job is ready before its manifest is.
ConfirmEarly(i) ==
  /\ At(i, "confirm")
  /\ \/ ~Refused(i) /\ ~Withdrawn(i) /\ SetStatus(i, run[i].writing)
        /\ Persist(i, run[i].writing) /\ Goto(i, "prune") /\ UNCHANGED output
     \/ Withdrawn(i) /\ PersistOk(i, run[i].writing) /\ GiveUp(i, "cancelled")
  /\ UNCHANGED <<idempotency, held, waiter, work, queue, root>>

\* The manifest says ready before the job does.
Confirm(i) ==
  /\ At(i, "confirm")
  /\ \/ PersistErr(i, run[i].writing) /\ GiveUp(i, "failed")
     \/ /\ PersistOk(i, run[i].writing)
        /\ \/ Refused(i) /\ GiveUp(i, "failed")
           \/ Withdrawn(i) /\ GiveUp(i, "cancelled")
           \/ /\ ~Refused(i) /\ ~Withdrawn(i)
              /\ SetStatus(i, run[i].writing)
              /\ Goto(i, "prune") /\ UNCHANGED output
  /\ UNCHANGED <<idempotency, held, waiter, work, queue, root>>

\* prune: terminal jobs older than resultTTL leave the map; the directories
\* older than that go, unless an active job of the map owns them.
\* Faulty: whatever has ended is expired.
EndedIsExpired(i) == jobs[i] # Nothing /\ jobs[i].status.state \in Terminal

Expired(i) == /\ jobs[i] # Nothing /\ jobs[i].status.state \in Terminal
              /\ jobs[i].status.updated = "old"
Prunable(i) == /\ manifest[i] # Nothing /\ manifest[i].touched = "old"
               /\ jobs[i] # Nothing => jobs[i].status.state \notin Active
Prune ==
  LET gone == {i \in Jobs : Expired(i)}
      directories == {i \in Jobs : Prunable(i)}
  IN  /\ jobs' = JobsWithout(gone) /\ idempotency' = KeysWithout(gone)
      /\ manifest' = [i \in Jobs |-> IF i \in directories THEN Nothing ELSE manifest[i]]
      /\ output' = [i \in Jobs |-> IF i \in directories THEN "none" ELSE output[i]]

\* What a job's goroutine shared is gone with it, unless its ticket is watched.
Discarded(i) ==
  IF waiter[i].at \in {"off", "over"} THEN [work EXCEPT ![i] = Fresh] ELSE work

\* After a publication the goroutine prunes before it leaves.
PruneAndRelease(i) ==
  /\ At(i, "prune")
  /\ Prune
  /\ held' = [held EXCEPT ![KindOf(i)] = @ - 1]
  /\ Goto(i, "over") /\ work' = Discarded(i)
  /\ UNCHANGED <<waiter, queue, root, troubles>>

\* maintain, and every listing of an account's jobs.
Maintain ==
  /\ Alive
  /\ \E i \in Jobs : Expired(i) \/ Prunable(i)
  /\ Prune
  /\ UNCHANGED <<held, run, waiter, work, queue, root, troubles>>

\* Reading the status of one expired job removes it and its directory.
AccountJobStatus(i) ==
  /\ Alive /\ Expired(i)
  /\ jobs' = JobsWithout({i}) /\ idempotency' = KeysWithout({i})
  /\ manifest' = [manifest EXCEPT ![i] = Nothing]
  /\ output' = [output EXCEPT ![i] = "none"]
  /\ UNCHANGED <<held, run, waiter, work, queue, root, troubles>>

Release(i) ==
  /\ At(i, "release")
  /\ held' = [held EXCEPT ![KindOf(i)] = @ - 1]
  /\ Goto(i, "over") /\ work' = Discarded(i)
  /\ UNCHANGED <<jobs, idempotency, waiter, queue, manifest, output, root, troubles>>

(***************************************************************************)
(* awaitDirectional and the delivery of its result, one goroutine after the *)
(* other: poll the ticket, report, deliver, answer.                        *)
(***************************************************************************)
WaiterAt(i, place) == Alive /\ waiter[i].at = place

\* Status of a ticket whose owner has left is an error.
Poll(i) ==
  /\ WaiterAt(i, "poll") /\ root = "up"
  /\ \/ /\ work[i].ticket = "gone"
        /\ waiter' = [waiter EXCEPT ![i] = [@ EXCEPT !.at = "deliver", !.seen = "failed"]]
     \/ /\ work[i].ticket = "live"
        /\ \E s \in {"active", "ready", "failed"} :
             waiter' = [waiter EXCEPT ![i] = [@ EXCEPT !.at = "notify", !.seen = s]]
  /\ UNCHANGED <<jobs, idempotency, held, run, work, queue, manifest, output, root,
                 troubles>>

Notify(i) ==
  /\ WaiterAt(i, "notify")
  /\ IF jobs[i] = Nothing
     THEN UNCHANGED jobs /\ waiter' = [waiter EXCEPT ![i].at = "write"]
     ELSE LET status == Notified(i, waiter[i].seen)
          IN  /\ SetStatus(i, status)
              /\ waiter' = [waiter EXCEPT ![i] = [@ EXCEPT !.at = "write", !.writing = status]]
  /\ UNCHANGED <<idempotency, held, run, work, queue, manifest, output, root,
                 troubles>>

WaiterWrite(i) ==
  /\ WaiterAt(i, "write")
  /\ Persist(i, waiter[i].writing)
  /\ waiter' = [waiter EXCEPT ![i] =
       IF waiter[i].seen = "active" THEN Watching("poll")
       ELSE [at |-> "deliver", writing |-> Nothing, seen |-> waiter[i].seen]]
  /\ UNCHANGED <<jobs, idempotency, held, run, work, queue, output, root>>

\* The answer of CompleteHorizon, once.
Answered(i, a) == [work EXCEPT ![i].answer = IF @ = "none" THEN a ELSE @]

\* performDelivery: the dataset of a ready ticket, or the failure, first
\* as a message (an update of its own), then as the answer.  When the
\* delivery channel is full nobody is answered.
Deliver(i) ==
  /\ WaiterAt(i, "deliver")
  /\ \/ /\ waiter[i].seen = "ready" /\ MayCapture(i)
        /\ output' = [output EXCEPT ![i] = "partial"]
        /\ waiter' = [waiter EXCEPT ![i].at = "copy"]
        /\ UNCHANGED <<jobs, work>>
     \/ \* The dataset is refused, or sending it fails.
        /\ waiter[i].seen = "ready"
        /\ work' = Answered(i, "error")
        /\ waiter' = [waiter EXCEPT ![i] = Watching("over")]
        /\ UNCHANGED <<jobs, output>>
     \/ /\ waiter[i].seen \in {"ready", "failed"} /\ ~work[i].cut /\ jobs[i] # Nothing
        /\ LET status == [jobs[i].status EXCEPT !.updated = "new"]
           IN  /\ SetStatus(i, status)
               /\ waiter' = [waiter EXCEPT ![i] = [@ EXCEPT !.at = "say", !.writing = status]]
        /\ UNCHANGED <<work, output>>
     \/ /\ waiter[i].seen = "failed" /\ (work[i].cut \/ jobs[i] = Nothing)
        /\ work' = Answered(i, "error")
        /\ waiter' = [waiter EXCEPT ![i] = Watching("over")]
        /\ UNCHANGED <<jobs, output>>
     \/ /\ waiter' = [waiter EXCEPT ![i] = Watching("over")]
        /\ UNCHANGED <<jobs, work, output>>
  /\ UNCHANGED <<idempotency, held, run, queue, manifest, root, troubles>>

Say(i) ==
  /\ WaiterAt(i, "say")
  /\ Persist(i, waiter[i].writing)
  /\ work' = Answered(i, "error")
  /\ waiter' = [waiter EXCEPT ![i] = Watching("over")]
  /\ UNCHANGED <<jobs, idempotency, held, run, queue, output, root>>

WaiterCopy(i) ==
  /\ WaiterAt(i, "copy")
  /\ \/ /\ output' = [output EXCEPT ![i] = "whole"]
        /\ work' = [Answered(i, "ok") EXCEPT ![i].files = TRUE]
        /\ UNCHANGED troubles
     \/ /\ Fault
        /\ output' = [output EXCEPT ![i] = "none"]
        /\ work' = Answered(i, "error")
  /\ waiter' = [waiter EXCEPT ![i] = Watching("over")]
  /\ UNCHANGED <<jobs, idempotency, held, run, queue, manifest, root>>

\* The process stops: the goroutine leaves its ticket and answers nobody.
Abandon(i) ==
  /\ WaiterAt(i, "poll") /\ root = "stopping"
  /\ waiter' = [waiter EXCEPT ![i] = Watching("over")]
  /\ work' = [work EXCEPT ![i].ticket = "gone"]
  /\ UNCHANGED <<jobs, idempotency, held, run, queue, manifest, output, root,
                 troubles>>

(***************************************************************************)
(* Cancellation, timeouts, the end of the process and its return.           *)
(***************************************************************************)
EndContext(i, reason) ==
  LET w == work[i] IN
  work' = [work EXCEPT ![i] =
    [w EXCEPT !.context = IF w.context = "open" THEN reason ELSE w.context,
              !.cut = w.cut \/ (reason = "cancelled" /\ jobs[i].capture),
              !.ticket = IF reason = "cancelled" /\ w.ticket = "live" THEN "gone"
                         ELSE w.ticket]]

CancelAccountJob(i) ==
  /\ Alive /\ jobs[i] # Nothing /\ jobs[i].status.state \in Active
  /\ ~jobs[i].cancelled
  /\ jobs' = [jobs EXCEPT ![i].cancelled = TRUE]
  /\ EndContext(i, "cancelled")
  /\ UNCHANGED <<idempotency, held, run, waiter, queue, manifest, output, root,
                 troubles>>

\* Horizon jobs have no timeout of their own.
TimeOut(i) ==
  /\ Alive /\ i \notin Horizon /\ jobs[i] # Nothing
  /\ run[i].at \notin {"release", "over"} /\ work[i].context = "open"
  /\ EndContext(i, "timeout")
  /\ UNCHANGED <<jobs, idempotency, held, run, waiter, queue, manifest, output, root,
                 troubles>>

Stop ==
  /\ root = "up" /\ root' = "stopping"
  /\ work' = [i \in Jobs |-> IF work[i].context = "open" /\ run[i].at \notin {"unborn", "over"}
                             THEN [work[i] EXCEPT !.context = "cancelled"] ELSE work[i]]
  /\ UNCHANGED <<jobs, idempotency, held, run, waiter, queue, manifest, output,
                 troubles>>

\* The directories stay; everything else is gone.
Crash ==
  /\ Alive /\ Fault
  /\ root' = "down"
  /\ jobs' = [i \in Jobs |-> Nothing] /\ idempotency' = [k \in Keys |-> Nothing]
  /\ held' = [k \in {"forecast", "horizon"} |-> 0]
  /\ run' = [i \in Jobs |-> Idle(IF run[i].at = "unborn" THEN "unborn" ELSE "over")]
  /\ waiter' = [i \in Jobs |-> Watching("over")]
  /\ work' = [i \in Jobs |-> Fresh]
  /\ queue' = [holders |-> {}, waiting |-> 0]
  /\ UNCHANGED <<manifest, output>>

\* readManifest refuses an active status without EstimatedAt.
Interrupted(i) == /\ manifest[i] # Nothing
                  /\ manifest[i].status = NewStatus("active")

\* recoverInterruptedJobs, then prune.
Restart ==
  /\ root = "down" /\ root' = "up"
  /\ LET found == {i \in Jobs : Interrupted(i)}
         old   == {i \in Jobs \ found : manifest[i] # Nothing /\ manifest[i].touched = "old"}
     IN  /\ manifest' = [i \in Jobs |->
               IF i \in old THEN Nothing
               ELSE IF i \in found THEN [status |-> NewStatus("failed"), touched |-> "new"]
               ELSE manifest[i]]
         /\ output' = [i \in Jobs |-> IF i \in found \cup old THEN "none" ELSE output[i]]
  /\ UNCHANGED <<jobs, idempotency, held, run, waiter, work, queue, troubles>>

\* More than resultTTL goes by: not while a goroutine works or polls its
\* ticket every two seconds, so no write under way is that old.
Aged(record) == [record EXCEPT !.status.updated = "old"]
Quiet(i) == run[i].at \in {"unborn", "wait", "over"} /\ waiter[i].at \in {"off", "over"}
Expire ==
  /\ \A i \in Jobs : Quiet(i)
  /\ \E i \in Jobs : manifest[i] # Nothing /\ manifest[i].touched = "new"
  /\ jobs' = [i \in Jobs |-> IF jobs[i] = Nothing THEN Nothing ELSE Aged(jobs[i])]
  /\ manifest' = [i \in Jobs |-> IF manifest[i] = Nothing THEN Nothing
                                 ELSE [Aged(manifest[i]) EXCEPT !.touched = "old"]]
  /\ UNCHANGED <<idempotency, held, run, waiter, work, queue, output, root, troubles>>

Step(i) ==
  \/ AdmitStored(i) \/ AdmitRejected(i) \/ Begin(i) \/ Write(i) \/ Open(i)
  \/ Enter(i) \/ LeaveLine(i) \/ TakeSlot(i) \/ Calculate(i) \/ Copy(i)
  \/ Submit(i) \/ WaitHorizon(i) \/ Judge(i) \/ Publish(i) \/ Confirm(i)
  \/ PruneAndRelease(i) \/ Release(i)

Report(i) ==
  \/ Poll(i) \/ Notify(i) \/ WaiterWrite(i) \/ Deliver(i) \/ Say(i)
  \/ WaiterCopy(i) \/ Abandon(i)

Next ==
  \/ \E i \in Jobs : \/ AdmitAccountJob(i) \/ Step(i) \/ Report(i)
                     \/ CancelAccountJob(i) \/ TimeOut(i) \/ AccountJobStatus(i)
  \/ Maintain \/ Stop \/ Crash \/ Restart \/ Expire

Spec == Init /\ [][Next]_vars

\* The goroutine of a job goes on, and a context with a deadline ends.
FairSpec ==
  /\ Spec
  /\ \A i \in Jobs : WF_vars(Step(i))
  /\ \A i \in Jobs \ Horizon : WF_vars(TimeOut(i))

(***************************************************************************)
(* Properties.                                                             *)
(***************************************************************************)
InProgress(i) == run[i].at \notin {"unborn", "over"}

\* The variables keep their types; every token of the job slots belongs to a
\* goroutine that has not ended, the places of ForecastQueue to those that hold
\* or wait for one, and a key names a job exactly while that job is in the map
\* (account_results.go:212, 404, 603, 824; forecast_queue.go:42, 60).
BooksExact ==
  /\ TypeOK
  /\ \A k \in {"forecast", "horizon"} :
       held[k] = Cardinality({i \in Jobs : KindOf(i) = k /\ InProgress(i)})
  /\ queue.holders = {i \in Jobs : run[i].at \in {"calculate", "copy"}}
  /\ queue.waiting = Cardinality({i \in Jobs : run[i].at = "line"})
  /\ \A i \in Jobs : idempotency[KeyOf[i]] = i <=> jobs[i] # Nothing

\* A job whose cancellation was accepted is never published as ready,
\* wherever its goroutine was (account_results.go:387, 541, 563).
CancelWins ==
  \A i \in Jobs : jobs[i] # Nothing /\ jobs[i].cancelled => jobs[i].status.state # "ready"

\* A ready job has its manifest and its complete dataset on disk, whatever
\* late writers and cleaners did (account_results.go:556, 623, 777).
ReadyIsServed ==
  \A i \in Jobs : jobs[i] # Nothing /\ jobs[i].status.state = "ready" =>
    /\ manifest[i] # Nothing /\ manifest[i].status.state = "ready"
    /\ output[i] = "whole"

\* A ready job stays ready until it is older than resultTTL or the process
\* ends (account_results.go:428, 777).
ReadyStays ==
  [][\A i \in Jobs :
       jobs[i] # Nothing /\ jobs[i].status.state = "ready" =>
         \/ jobs[i].status.updated = "old" \/ root' = "down"
         \/ jobs'[i] # Nothing /\ jobs'[i].status.state = "ready"]_vars

\* A forecast job, and a Horizon job that was cancelled, gives its slot back
\* (account_results.go:411, 603).
SlotComesBack ==
  \A i \in Jobs :
    InProgress(i) /\ (i \notin Horizon \/ work[i].context # "open") ~> ~InProgress(i)

\* After a restart no directory still says that its job is active: an
\* interrupted job has failed (account_results_test.go:210).
InterruptedHasFailed ==
  root = "up" =>
    \A i \in Jobs : jobs[i] = Nothing /\ manifest[i] # Nothing
                      /\ manifest[i].status.updated = "new"
                    => manifest[i].status.state \in Terminal

=============================================================================
