------------------------- MODULE AccountResultsProofs -------------------------
(***************************************************************************)
(* Theorems about the account results: what the slots and the keys account *)
(* for, what a cancellation promises, and what a ready job keeps.          *)
(***************************************************************************)
EXTENDS AccountResults, FiniteSetTheorems, TLAPS

-----------------------------------------------------------------------------
(* The inductive invariant.                                                *)

\* The goroutine of the ticket has not been started, or has ended.
Silent(i) == waiter[i].at \in {"off", "over"}

\* The places of a goroutine whose job has not ended, and those before anybody
\* watches a ticket of it.
Working == RunPlaces \ {"unborn", "finish", "prune", "release", "over"}
Early   == {"unborn", "admit", "begin", "open", "enter", "line", "calculate", "copy",
            "submitted"}

\* A job is in the map, and active, until its own goroutine ends it.
Kept(i) ==
  /\ run[i].at = "unborn" => jobs[i] = Nothing
  /\ root = "down" => jobs[i] = Nothing
  /\ run[i].at \in Working => jobs[i] # Nothing /\ jobs[i].status.state \in Active

\* Whoever captures the dataset has finished before it is judged.
Handed(i) ==
  /\ run[i].at \in Early => Silent(i) /\ ~work[i].files
  /\ ~Silent(i) => ~work[i].files /\ run[i].at \in {"wait", "judge", "finish", "release", "over"}
  /\ run[i].at \in {"publish", "confirm"} => work[i].files
  /\ run[i].at \in Working /\ work[i].files => output[i] = "whole"
  /\ run[i].at = "confirm" => run[i].writing = NewStatus("ready")

\* A ready job is left alone, with its dataset and a manifest that is not older.
Served(i) ==
  jobs[i] # Nothing /\ jobs[i].status.state = "ready" =>
    /\ run[i].at \in {"prune", "over"} /\ Silent(i) /\ ~jobs[i].cancelled
    /\ manifest[i] # Nothing /\ manifest[i].status.state = "ready"
    /\ manifest[i].touched = "old" => jobs[i].status.updated = "old"
    /\ output[i] = "whole"

Sound(i) == Kept(i) /\ Handed(i) /\ Served(i)

Busy(k) == {i \in Jobs : KindOf(i) = k /\ InProgress(i)}
InLine  == {i \in Jobs : run[i].at = "line"}

Books ==
  /\ \A k \in {"forecast", "horizon"} : IsFiniteSet(Busy(k)) /\ held[k] = Cardinality(Busy(k))
  /\ queue.holders = {i \in Jobs : run[i].at \in {"calculate", "copy"}}
  /\ IsFiniteSet(InLine) /\ queue.waiting = Cardinality(InLine)

Filed == \A i \in Jobs : idempotency[KeyOf[i]] = i <=> jobs[i] # Nothing

Inv ==
  /\ TypeOK /\ Filed /\ Books
  /\ \A i \in Jobs : Sound(i)

-----------------------------------------------------------------------------
(* What one step of a job does to the others, and to the books.            *)

Others(i) ==
  \A q \in Jobs \ {i} :
    /\ jobs'[q] = jobs[q] /\ run'[q] = run[q] /\ waiter'[q] = waiter[q]
    /\ work'[q] = work[q] /\ manifest'[q] = manifest[q] /\ output'[q] = output[q]

LEMMA SoundStays ==
  ASSUME NEW q \in Jobs, Sound(q), root' = "down" => root = "down",
         jobs'[q] = jobs[q], run'[q] = run[q], waiter'[q] = waiter[q],
         work'[q].files = work[q].files, manifest'[q] = manifest[q], output'[q] = output[q]
  PROVE  Sound(q)'
  <1>1. Kept(q)'
    BY DEF Sound, Kept
  <1>2. Handed(q)'
    BY DEF Sound, Handed, Silent
  <1>3. Served(q)'
    BY DEF Sound, Served, Silent
  <1> QED BY <1>1, <1>2, <1>3 DEF Sound

LEMMA InvBut ==
  ASSUME Inv, NEW i \in Jobs, Others(i), TypeOK', Filed', Books', Sound(i)',
         root' = "down" => root = "down"
  PROVE  Inv'
  <1>1. ASSUME NEW q \in Jobs, q # i PROVE Sound(q)'
    BY <1>1, SoundStays DEF Inv, Others
  <1> QED BY <1>1 DEF Inv

LEMMA FiledStays ==
  ASSUME Filed, idempotency' = idempotency,
         \A q \in Jobs : jobs'[q] # Nothing <=> jobs[q] # Nothing
  PROVE  Filed'
  BY DEF Filed

Kinds == {"forecast", "horizon"}

LEMMA HeldStays ==
  ASSUME Books, held' = held, \A q \in Jobs : InProgress(q)' <=> InProgress(q)
  PROVE  \A k \in Kinds : (IsFiniteSet(Busy(k)) /\ held[k] = Cardinality(Busy(k)))'
  <1>1. ASSUME NEW k \in Kinds PROVE Busy(k)' = Busy(k)
    BY DEF Busy
  <1> QED BY <1>1 DEF Books, Kinds

LEMMA HeldMore ==
  ASSUME TypeOK, Books, NEW i \in Jobs, ~InProgress(i), InProgress(i)',
         \A q \in Jobs \ {i} : InProgress(q)' <=> InProgress(q),
         held' = [held EXCEPT ![KindOf(i)] = @ + 1]
  PROVE  \A k \in Kinds : (IsFiniteSet(Busy(k)) /\ held[k] = Cardinality(Busy(k)))'
  <1> TAKE k \in Kinds
  <1>1. IsFiniteSet(Busy(k)) /\ held[k] = Cardinality(Busy(k)) /\ KindOf(i) \in Kinds
    BY DEF Books, Kinds, KindOf
  <1>2. held'[k] = IF k = KindOf(i) THEN held[k] + 1 ELSE held[k]
    BY DEF TypeOK, Kinds
  <1>3. CASE k = KindOf(i)
    <2>1. Busy(k)' = Busy(k) \cup {i} /\ i \notin Busy(k)
      BY <1>3 DEF Busy
    <2>2. IsFiniteSet(Busy(k)') /\ Cardinality(Busy(k)') = held[k] + 1
      BY <1>1, <2>1, FS_AddElement
    <2> QED BY <1>2, <1>3, <2>2
  <1>4. CASE k # KindOf(i)
    <2>1. Busy(k)' = Busy(k)
      BY <1>4 DEF Busy
    <2> QED BY <1>1, <1>2, <1>4, <2>1
  <1> QED BY <1>3, <1>4

LEMMA HeldLess ==
  ASSUME TypeOK, Books, NEW i \in Jobs, InProgress(i), ~InProgress(i)',
         \A q \in Jobs \ {i} : InProgress(q)' <=> InProgress(q),
         held' = [held EXCEPT ![KindOf(i)] = @ - 1]
  PROVE  /\ \A k \in Kinds : (IsFiniteSet(Busy(k)) /\ held[k] = Cardinality(Busy(k)))'
         /\ held' \in [Kinds -> Nat]
  <1>1. ASSUME NEW k \in Kinds
        PROVE  (IsFiniteSet(Busy(k)) /\ held[k] = Cardinality(Busy(k)))' /\ held'[k] \in Nat
    <2>1. /\ IsFiniteSet(Busy(k)) /\ held[k] = Cardinality(Busy(k))
          /\ KindOf(i) \in Kinds /\ held[k] \in Nat
      BY DEF Books, Kinds, KindOf, TypeOK
    <2>2. held'[k] = IF k = KindOf(i) THEN held[k] - 1 ELSE held[k]
      BY DEF TypeOK, Kinds
    <2>3. CASE k = KindOf(i)
      <3>1. Busy(k)' = Busy(k) \ {i} /\ i \in Busy(k)
        BY <2>3 DEF Busy
      <3>2. IsFiniteSet(Busy(k)') /\ Cardinality(Busy(k)') = held[k] - 1
        BY <2>1, <3>1, FS_RemoveElement
      <3> QED BY <2>2, <2>3, <3>2, FS_CardinalityType
    <2>4. CASE k # KindOf(i)
      <3>1. Busy(k)' = Busy(k)
        BY <2>4 DEF Busy
      <3> QED BY <2>1, <2>2, <2>4, <3>1
    <2> QED BY <2>3, <2>4
  <1>2. held' \in [Kinds -> Nat]
    BY <1>1 DEF TypeOK, Kinds
  <1> QED BY <1>1, <1>2

InSlot == {i \in Jobs : run[i].at \in {"calculate", "copy"}}

LEMMA LineStays ==
  ASSUME Books, queue' = queue,
         \A q \in Jobs : run'[q].at \in {"calculate", "copy"} <=> run[q].at \in {"calculate", "copy"},
         \A q \in Jobs : run'[q].at = "line" <=> run[q].at = "line"
  PROVE  (/\ queue.holders = {i \in Jobs : run[i].at \in {"calculate", "copy"}}
          /\ IsFiniteSet(InLine) /\ queue.waiting = Cardinality(InLine))'
  <1>1. InLine' = InLine
    BY DEF InLine
  <1> QED BY <1>1 DEF Books

\* A step that changes neither the slots nor the line.
LEMMA BooksStay ==
  ASSUME Books, NEW i \in Jobs, held' = held, queue' = queue,
         \A q \in Jobs \ {i} : run'[q] = run[q],
         \/ run'[i].at = run[i].at
         \/ /\ {run[i].at, run'[i].at} \cap {"unborn", "over", "calculate", "copy", "line"} = {}
         \/ run[i].at = "calculate" /\ run'[i].at = "copy"
  PROVE  Books'
  <1>1. \A q \in Jobs : InProgress(q)' <=> InProgress(q)
    BY DEF InProgress
  <1>2. \A q \in Jobs : run'[q].at \in {"calculate", "copy"} <=> run[q].at \in {"calculate", "copy"}
    OBVIOUS
  <1>3. \A q \in Jobs : run'[q].at = "line" <=> run[q].at = "line"
    OBVIOUS
  <1> QED BY <1>1, <1>2, <1>3, HeldStays, LineStays DEF Books, Kinds

\* The goroutine of a job gives its slot back.
LEMMA BooksLess ==
  ASSUME TypeOK, Books, NEW i \in Jobs, queue' = queue,
         held' = [held EXCEPT ![KindOf(i)] = @ - 1],
         \A q \in Jobs \ {i} : run'[q] = run[q],
         run[i].at \notin {"unborn", "over", "calculate", "copy", "line"}, run'[i].at = "over"
  PROVE  Books' /\ held' \in [Kinds -> Nat]
  <1>1. InProgress(i) /\ ~InProgress(i)' /\ \A q \in Jobs \ {i} : InProgress(q)' <=> InProgress(q)
    BY DEF InProgress
  <1>2. /\ \A k \in Kinds : (IsFiniteSet(Busy(k)) /\ held[k] = Cardinality(Busy(k)))'
        /\ held' \in [Kinds -> Nat]
    BY <1>1, HeldLess
  <1>3. \A q \in Jobs : run'[q].at = "line" <=> run[q].at = "line"
    OBVIOUS
  <1>4. \A q \in Jobs : run'[q].at \in {"calculate", "copy"} <=> run[q].at \in {"calculate", "copy"}
    OBVIOUS
  <1> QED BY <1>2, <1>3, <1>4, LineStays DEF Books, Kinds

\* It joins the line, or leaves it.
LEMMA LineMore ==
  ASSUME TypeOK, Books, NEW i \in Jobs, run[i].at # "line", run'[i].at = "line",
         \A q \in Jobs \ {i} : run'[q] = run[q]
  PROVE  IsFiniteSet(InLine)' /\ queue.waiting + 1 = Cardinality(InLine)'
  <1>1. IsFiniteSet(InLine) /\ queue.waiting = Cardinality(InLine)
    BY DEF Books
  <1>2. InLine' = InLine \cup {i} /\ i \notin InLine
    BY DEF InLine
  <1> QED BY <1>1, <1>2, FS_AddElement

LEMMA LineLess ==
  ASSUME TypeOK, Books, NEW i \in Jobs, run[i].at = "line", run'[i].at # "line",
         \A q \in Jobs \ {i} : run'[q] = run[q]
  PROVE  /\ IsFiniteSet(InLine)' /\ queue.waiting - 1 = Cardinality(InLine)'
         /\ queue.waiting - 1 \in Nat
  <1>1. IsFiniteSet(InLine) /\ queue.waiting = Cardinality(InLine)
    BY DEF Books
  <1>2. InLine' = InLine \ {i} /\ i \in InLine
    BY DEF InLine
  <1>3. IsFiniteSet(InLine)' /\ Cardinality(InLine') = Cardinality(InLine) - 1
    BY <1>1, <1>2, FS_RemoveElement
  <1>4. Cardinality(InLine') \in Nat
    BY <1>3, FS_CardinalityType
  <1> QED BY <1>1, <1>3, <1>4

\* It enters a slot of the queue, leaves it, joins the line or leaves that.
LEMMA BooksQueue ==
  ASSUME TypeOK, Books, NEW i \in Jobs, held' = held,
         \A q \in Jobs \ {i} : run'[q] = run[q],
         {run[i].at, run'[i].at} \cap {"unborn", "over"} = {},
         queue'.holders = IF run'[i].at \in {"calculate", "copy"} THEN queue.holders \cup {i}
                          ELSE queue.holders \ {i},
         queue'.waiting = IF run[i].at # "line" /\ run'[i].at = "line" THEN queue.waiting + 1
                          ELSE IF run[i].at = "line" /\ run'[i].at # "line" THEN queue.waiting - 1
                          ELSE queue.waiting
  PROVE  Books'
  <1>1. \A q \in Jobs : InProgress(q)' <=> InProgress(q)
    BY DEF InProgress
  <1>2. \A k \in Kinds : (IsFiniteSet(Busy(k)) /\ held[k] = Cardinality(Busy(k)))'
    BY <1>1, HeldStays
  <1>3. queue'.holders = {q \in Jobs : run'[q].at \in {"calculate", "copy"}}
    <2>1. queue.holders = {q \in Jobs : run[q].at \in {"calculate", "copy"}}
      BY DEF Books
    <2> QED BY <2>1
  <1>4. IsFiniteSet(InLine)' /\ queue'.waiting = Cardinality(InLine)'
    <2>1. CASE run[i].at # "line" /\ run'[i].at = "line"
      BY <2>1, LineMore
    <2>2. CASE run[i].at = "line" /\ run'[i].at # "line"
      BY <2>2, LineLess
    <2>3. CASE run[i].at = "line" <=> run'[i].at = "line"
      <3>1. InLine' = InLine /\ queue'.waiting = queue.waiting
        BY <2>3 DEF InLine
      <3> QED BY <3>1 DEF Books
    <2> QED BY <2>1, <2>2, <2>3
  <1> QED BY <1>2, <1>3, <1>4 DEF Books, Kinds

-----------------------------------------------------------------------------
(* The helpers of the actions.                                             *)

LEMMA StatusFacts ==
  /\ \A state \in Active \cup Terminal :
       NewStatus(state) \in Status /\ NewStatus(state).state = state
                                /\ NewStatus(state).updated = "new"
  /\ \A status \in Status : status # Nothing /\ status.state \in Active \cup Terminal
  BY NothingIsNoRecord DEF NewStatus, Status, Ages

LEMMA JobFacts ==
  ASSUME TypeOK, NEW i \in Jobs, jobs[i] # Nothing
  PROVE  jobs[i] \in JobRecord /\ jobs[i].status \in Status /\ jobs[i].cancelled \in BOOLEAN
         /\ jobs[i].status.state \in Active \cup Terminal
  BY StatusFacts DEF TypeOK, JobRecord

LEMMA GotoFacts ==
  ASSUME TypeOK, NEW i \in Jobs, NEW place \in RunPlaces, Goto(i, place)
  PROVE  /\ run' \in [Jobs -> RunRecord]
         /\ run'[i] = Idle(place) /\ run'[i].at = place
         /\ \A q \in Jobs \ {i} : run'[q] = run[q]
  <1> DEFINE x == Idle(place)
  <1>1. x \in RunRecord /\ x.at = place
    BY DEF Idle, RunRecord
  <1>2. run' = [run EXCEPT ![i] = x]
    BY DEF Goto
  <1> HIDE DEF x
  <1>3. /\ run' \in [Jobs -> RunRecord] /\ run'[i] = x
        /\ \A q \in Jobs \ {i} : run'[q] = run[q]
    BY <1>1, <1>2 DEF TypeOK
  <1> QED BY <1>1, <1>3 DEF x

LEMMA SetStatusFacts ==
  ASSUME TypeOK, NEW i \in Jobs, NEW status, jobs[i] # Nothing => status \in Status,
         SetStatus(i, status)
  PROVE  /\ jobs' \in [Jobs -> JobRecord \cup {Nothing}]
         /\ \A q \in Jobs \ {i} : jobs'[q] = jobs[q]
         /\ \A q \in Jobs : jobs'[q] # Nothing <=> jobs[q] # Nothing
         /\ jobs[i] # Nothing => /\ jobs'[i] # Nothing /\ jobs'[i].status = status
                               /\ jobs'[i].cancelled = jobs[i].cancelled
  <1>1. CASE jobs[i] = Nothing
    BY <1>1 DEF SetStatus, TypeOK
  <1>2. CASE jobs[i] # Nothing
    <2> DEFINE x == [jobs[i] EXCEPT !.status = status]
    <2>1. jobs[i] \in JobRecord
      BY <1>2 DEF TypeOK
    <2>2. x \in JobRecord /\ x.status = status /\ x.cancelled = jobs[i].cancelled
      BY <1>2, <2>1 DEF JobRecord
    <2>3. x # Nothing
      BY <2>2, NothingIsNoRecord
    <2>4. jobs' = [jobs EXCEPT ![i] = x]
      BY <1>2 DEF SetStatus
    <2> HIDE DEF x
    <2> QED BY <1>2, <2>2, <2>3, <2>4 DEF TypeOK
  <1> QED BY <1>1, <1>2

LEMMA UpdateFacts ==
  ASSUME TypeOK, NEW i \in Jobs, NEW status, jobs[i] # Nothing => status \in Status,
         NEW place \in RunPlaces, Update(i, status, place)
  PROVE  /\ jobs' \in [Jobs -> JobRecord \cup {Nothing}]
         /\ \A q \in Jobs \ {i} : jobs'[q] = jobs[q]
         /\ \A q \in Jobs : jobs'[q] # Nothing <=> jobs[q] # Nothing
         /\ jobs[i] # Nothing => /\ jobs'[i] # Nothing /\ jobs'[i].status = status
                               /\ jobs'[i].cancelled = jobs[i].cancelled
         /\ run' \in [Jobs -> RunRecord]
         /\ run'[i].at = place
         /\ \A q \in Jobs \ {i} : run'[q] = run[q]
  <1>1. SetStatus(i, status) /\ Copied(i, status) \in Status \cup {Nothing}
    BY DEF Update, Copied
  <1>2. /\ run' \in [Jobs -> RunRecord]
        /\ run'[i].at = place /\ \A q \in Jobs \ {i} : run'[q] = run[q]
    <2> DEFINE x == [at |-> place, writing |-> Copied(i, status)]
    <2>1. x \in RunRecord /\ x.at = place
      BY <1>1 DEF RunRecord
    <2>2. run' = [run EXCEPT ![i] = x]
      BY DEF Update
    <2> HIDE DEF x
    <2> QED BY <2>1, <2>2 DEF TypeOK
  <1> QED BY <1>1, <1>2, SetStatusFacts

LEMMA StoredFacts ==
  ASSUME TypeOK, NEW i \in Jobs, NEW status \in Status \cup {Nothing},
         manifest' = Stored(i, status)
  PROVE  /\ manifest' \in [Jobs -> ManifestRecord \cup {Nothing}]
         /\ \A q \in Jobs \ {i} : manifest'[q] = manifest[q]
         /\ status # Nothing => /\ manifest'[i] # Nothing
                               /\ manifest'[i] = [status |-> status, touched |-> "new"]
  <1>1. CASE status = Nothing
    BY <1>1 DEF Stored, TypeOK
  <1>2. CASE status # Nothing
    <2> DEFINE x == [status |-> status, touched |-> "new"]
    <2>1. x \in ManifestRecord
      BY <1>2 DEF ManifestRecord, Ages
    <2>2. x # Nothing /\ manifest' = [manifest EXCEPT ![i] = x]
      BY <1>2, <2>1, NothingIsNoRecord DEF Stored
    <2> HIDE DEF x
    <2>3. /\ manifest' \in [Jobs -> ManifestRecord \cup {Nothing}] /\ manifest'[i] = x
          /\ \A q \in Jobs \ {i} : manifest'[q] = manifest[q]
      BY <2>1, <2>2 DEF TypeOK
    <2> QED BY <2>2, <2>3 DEF x
  <1> QED BY <1>1, <1>2

LEMMA PersistFacts ==
  ASSUME TypeOK, NEW i \in Jobs, NEW status \in Status \cup {Nothing}, Persist(i, status)
  PROVE  /\ manifest' \in [Jobs -> ManifestRecord \cup {Nothing}] /\ troubles' \in Nat
         /\ \A q \in Jobs \ {i} : manifest'[q] = manifest[q]
  <1>1. troubles' \in Nat
    BY DEF Persist, PersistOk, PersistErr, Fault, TypeOK
  <1>2. manifest' = manifest \/ manifest' = Stored(i, status)
    BY DEF Persist, PersistOk, PersistErr
  <1>3. CASE manifest' = manifest
    BY <1>1, <1>3 DEF TypeOK
  <1> QED BY <1>1, <1>2, <1>3, StoredFacts

LEMMA RemoveFacts ==
  ASSUME TypeOK, NEW i \in Jobs, RemovePartialFiles(i)
  PROVE  /\ output' \in [Jobs -> {"none", "partial", "whole"}]
         /\ \A q \in Jobs \ {i} : output'[q] = output[q]
  BY DEF TypeOK, RemovePartialFiles

\* A step of the goroutine that ends the job without publishing it.
LEMMA GiveUpFacts ==
  ASSUME TypeOK, NEW i \in Jobs, NEW state \in Active \cup Terminal, GiveUp(i, state)
  PROVE  /\ Update(i, NewStatus(state), "finish") /\ RemovePartialFiles(i)
         /\ NewStatus(state) \in Status
  BY StatusFacts DEF GiveUp

LEMMA WithoutFacts ==
  ASSUME TypeOK, NEW G \in SUBSET Jobs, jobs' = JobsWithout(G), idempotency' = KeysWithout(G)
  PROVE  /\ jobs' \in [Jobs -> JobRecord \cup {Nothing}]
         /\ idempotency' \in [Keys -> Jobs \cup {Nothing}]
         /\ \A q \in Jobs : jobs'[q] = IF q \in G THEN Nothing ELSE jobs[q]
         /\ Filed => Filed'
  <1>1. /\ jobs' \in [Jobs -> JobRecord \cup {Nothing}]
        /\ \A q \in Jobs : jobs'[q] = IF q \in G THEN Nothing ELSE jobs[q]
    BY DEF TypeOK, JobsWithout
  <1>2. idempotency' \in [Keys -> Jobs \cup {Nothing}]
    BY DEF TypeOK, KeysWithout
  <1>3. ASSUME Filed, NEW q \in Jobs PROVE idempotency'[KeyOf[q]] = q <=> jobs'[q] # Nothing
    <2>1. KeyOf[q] \in Keys /\ q # Nothing
      BY AccountConstants
    <2>2. idempotency'[KeyOf[q]] = IF idempotency[KeyOf[q]] \in G THEN Nothing
                                   ELSE idempotency[KeyOf[q]]
      BY <2>1 DEF KeysWithout
    <2>3. idempotency[KeyOf[q]] = q <=> jobs[q] # Nothing
      BY <1>3 DEF Filed
    <2> QED BY <1>1, <2>1, <2>2, <2>3
  <1> QED BY <1>1, <1>2, <1>3 DEF Filed

-----------------------------------------------------------------------------
(* Every action keeps the invariant.                                       *)

LEMMA InitInv ==
  ASSUME Init
  PROVE  Inv
  <1>1. TypeOK
    <2>1. Idle("unborn") \in RunRecord
      BY DEF Idle, RunRecord, RunPlaces
    <2>2. Watching("off") \in WaiterRecord
      BY DEF Watching, WaiterRecord, WaiterPlaces
    <2>3. Fresh \in WorkRecord
      BY DEF Fresh, WorkRecord
    <2> QED BY <2>1, <2>2, <2>3, AccountConstants DEF Init, TypeOK
  <1>2. Filed
    BY AccountConstants DEF Init, Filed
  <1>3. Books
    <2>1. \A k \in Kinds : Busy(k) = {}
      BY DEF Init, Busy, InProgress, Idle
    <2>2. InLine = {} /\ {i \in Jobs : run[i].at \in {"calculate", "copy"}} = {}
      BY DEF Init, InLine, Idle
    <2> QED BY <2>1, <2>2, FS_EmptySet DEF Init, Books, Kinds
  <1>4. ASSUME NEW i \in Jobs PROVE Sound(i)
    BY DEF Init, Sound, Kept, Handed, Served, Silent, Idle, Watching, Fresh, Working, Early
  <1> QED BY <1>1, <1>2, <1>3, <1>4 DEF Inv

LEMMA AdmitAccountJobInv ==
  ASSUME Inv, NEW i \in Jobs, AdmitAccountJob(i)
  PROVE  Inv'
  <1> DEFINE x == [status |-> NewStatus("active"), cancelled |-> FALSE, capture |-> FALSE]
             p == [at |-> "admit", writing |-> NewStatus("active")]
  <1>0. TypeOK /\ Sound(i) /\ run[i].at = "unborn" /\ root = "up"
    BY DEF Inv, AdmitAccountJob
  <1>1. NewStatus("active") \in Status /\ NewStatus("active").state = "active"
    BY StatusFacts DEF Active, Terminal
  <1>2. x \in JobRecord /\ x.status.state = "active" /\ x # Nothing
    <2>1. x \in JobRecord
      BY <1>1 DEF JobRecord
    <2> QED BY <1>1, <2>1, NothingIsNoRecord
  <1>3. p \in RunRecord /\ p.at = "admit"
    BY <1>1 DEF RunRecord, RunPlaces
  <1>4. /\ jobs' = [jobs EXCEPT ![i] = x] /\ run' = [run EXCEPT ![i] = p]
        /\ idempotency' = [idempotency EXCEPT ![KeyOf[i]] = i]
        /\ held' = [held EXCEPT ![KindOf(i)] = @ + 1]
        /\ UNCHANGED <<waiter, work, queue, manifest, output, root, troubles>>
    BY DEF AdmitAccountJob
  <1> HIDE DEF x, p
  <1>5. KeyOf[i] \in Keys /\ i # Nothing
    BY AccountConstants
  <1>6. TypeOK'
    <2>1. jobs' \in [Jobs -> JobRecord \cup {Nothing}]
      BY <1>0, <1>2, <1>4 DEF TypeOK
    <2>2. idempotency' \in [Keys -> Jobs \cup {Nothing}]
      BY <1>0, <1>4, <1>5 DEF TypeOK
    <2>3. run' \in [Jobs -> RunRecord]
      BY <1>0, <1>3, <1>4 DEF TypeOK
    <2>4. held' \in [{"forecast", "horizon"} -> Nat]
      BY <1>0, <1>4 DEF TypeOK, KindOf
    <2> QED BY <1>0, <1>4, <2>1, <2>2, <2>3, <2>4 DEF TypeOK
  <1>7. Others(i) /\ jobs'[i] = x /\ run'[i] = p
    BY <1>0, <1>4 DEF TypeOK, Others
  <1>8. Filed'
    <2>1. ASSUME NEW q \in Jobs, q # i PROVE idempotency'[KeyOf[q]] = q <=> jobs'[q] # Nothing
      <3>1. KeyOf[q] \in Keys /\ q # Nothing /\ jobs'[q] = jobs[q]
        BY <1>7, <2>1, AccountConstants DEF Others
      <3>2. idempotency[KeyOf[q]] = q <=> jobs[q] # Nothing
        BY DEF Inv, Filed
      <3>3. idempotency'[KeyOf[q]] = IF KeyOf[q] = KeyOf[i] THEN i ELSE idempotency[KeyOf[q]]
        BY <1>0, <1>4, <1>5, <3>1 DEF TypeOK
      <3>4. idempotency[KeyOf[i]] = Nothing
        BY DEF AdmitAccountJob
      <3> QED BY <2>1, <3>1, <3>2, <3>3, <3>4
    <2>2. idempotency'[KeyOf[i]] = i /\ jobs'[i] # Nothing
      BY <1>0, <1>2, <1>4, <1>5, <1>7 DEF TypeOK
    <2> QED BY <2>1, <2>2 DEF Filed
  <1>9. Books'
    <2>1. \A q \in Jobs \ {i} : run'[q] = run[q]
      BY <1>7 DEF Others
    <2>2. ~InProgress(i) /\ InProgress(i)'
      BY <1>0, <1>3, <1>7 DEF InProgress
    <2>3. \A k \in Kinds : (IsFiniteSet(Busy(k)) /\ held[k] = Cardinality(Busy(k)))'
      <3>1. \A q \in Jobs \ {i} : InProgress(q)' <=> InProgress(q)
        BY <2>1 DEF InProgress
      <3> QED BY <1>0, <1>4, <2>2, <3>1, HeldMore DEF Inv
    <2>4. (/\ queue.holders = {j \in Jobs : run[j].at \in {"calculate", "copy"}}
           /\ IsFiniteSet(InLine) /\ queue.waiting = Cardinality(InLine))'
      <3>1. \A q \in Jobs : run'[q].at = "line" <=> run[q].at = "line"
        BY <1>0, <1>3, <1>7, <2>1
      <3>2. \A q \in Jobs : run'[q].at \in {"calculate", "copy"} <=> run[q].at \in {"calculate", "copy"}
        BY <1>0, <1>3, <1>7, <2>1
      <3> QED BY <1>4, <3>1, <3>2, LineStays DEF Inv
    <2> QED BY <2>3, <2>4 DEF Books, Kinds
  <1>10. Sound(i)'
    <2>1. Kept(i)'
      BY <1>0, <1>2, <1>3, <1>4, <1>7 DEF Kept, Active
    <2>2. Handed(i)'
      BY <1>0, <1>3, <1>4, <1>7 DEF Sound, Handed, Silent, Early, Working
    <2>3. Served(i)'
      BY <1>2, <1>7 DEF Served
    <2> QED BY <2>1, <2>2, <2>3 DEF Sound
  <1> QED BY <1>4, <1>6, <1>7, <1>8, <1>9, <1>10, InvBut

LEMMA AdmitStoredInv ==
  ASSUME Inv, NEW i \in Jobs, AdmitStored(i)
  PROVE  Inv'
  <1>0. TypeOK /\ Sound(i) /\ run[i].at = "admit" /\ "begin" \in RunPlaces
    BY DEF Inv, AdmitStored, At, RunPlaces
  <1>1. /\ run' \in [Jobs -> RunRecord]
        /\ run'[i].at = "begin" /\ \A q \in Jobs \ {i} : run'[q] = run[q]
    BY <1>0, GotoFacts DEF AdmitStored
  <1>2. /\ manifest' \in [Jobs -> ManifestRecord \cup {Nothing}] /\ troubles' \in Nat
        /\ \A q \in Jobs \ {i} : manifest'[q] = manifest[q]
    <2>1. run[i].writing \in Status \cup {Nothing}
      BY <1>0 DEF TypeOK, RunRecord
    <2> QED BY <1>0, <2>1, PersistFacts DEF AdmitStored, Persist
  <1>3. UNCHANGED <<jobs, idempotency, held, waiter, work, queue, output, root>>
    BY DEF AdmitStored
  <1>4. TypeOK'
    BY <1>0, <1>1, <1>2, <1>3 DEF TypeOK
  <1>5. Others(i)
    BY <1>1, <1>2, <1>3 DEF Others
  <1>6. Filed' /\ Books'
    BY <1>0, <1>1, <1>3, FiledStays, BooksStay DEF Inv
  <1>7. Sound(i)'
    <2>1. Kept(i)' /\ Handed(i)'
      BY <1>0, <1>1, <1>3 DEF Sound, Kept, Handed, Silent, Early, Working, RunPlaces
    <2>2. Served(i)'
      BY <1>0, <1>3 DEF Sound, Kept, Served, Working, RunPlaces, Active
    <2> QED BY <2>1, <2>2 DEF Sound
  <1> QED BY <1>3, <1>4, <1>5, <1>6, <1>7, InvBut

LEMMA AdmitRejectedInv ==
  ASSUME Inv, NEW i \in Jobs, AdmitRejected(i)
  PROVE  Inv'
  <1>0. TypeOK /\ Sound(i) /\ run[i].at = "admit" /\ "over" \in RunPlaces
    BY DEF Inv, AdmitRejected, At, RunPlaces
  <1>1. /\ run' \in [Jobs -> RunRecord]
        /\ run'[i].at = "over" /\ \A q \in Jobs \ {i} : run'[q] = run[q]
    BY <1>0, GotoFacts DEF AdmitRejected
  <1>2. /\ jobs' \in [Jobs -> JobRecord \cup {Nothing}]
        /\ idempotency' \in [Keys -> Jobs \cup {Nothing}]
        /\ jobs'[i] = Nothing /\ \A q \in Jobs \ {i} : jobs'[q] = jobs[q]
        /\ Filed'
    <2>1. jobs' = JobsWithout({i}) /\ idempotency' = KeysWithout({i}) /\ {i} \in SUBSET Jobs
      BY DEF AdmitRejected
    <2> QED BY <1>0, <2>1, WithoutFacts DEF Inv
  <1>3. /\ manifest' \in [Jobs -> ManifestRecord \cup {Nothing}] /\ troubles' \in Nat
        /\ \A q \in Jobs \ {i} : manifest'[q] = manifest[q]
    BY <1>0 DEF AdmitRejected, Fault, TypeOK
  <1>4. UNCHANGED <<waiter, work, queue, output, root>>
        /\ held' = [held EXCEPT ![KindOf(i)] = @ - 1]
    BY DEF AdmitRejected
  <1>5. Others(i)
    BY <1>1, <1>2, <1>3, <1>4 DEF Others
  <1>6. Books' /\ held' \in [Kinds -> Nat]
    BY <1>0, <1>1, <1>4, BooksLess DEF Inv
  <1>7. TypeOK'
    BY <1>0, <1>1, <1>2, <1>3, <1>4, <1>6 DEF TypeOK, Kinds
  <1>8. Sound(i)'
    BY <1>0, <1>1, <1>2, <1>4 DEF Sound, Kept, Handed, Served, Silent, Early, Working
  <1> QED BY <1>2, <1>4, <1>5, <1>6, <1>7, <1>8, InvBut

LEMMA BeginInv ==
  ASSUME Inv, NEW i \in Jobs, Begin(i)
  PROVE  Inv'
  <1> DEFINE s == NewStatus("active")
  <1>0. /\ TypeOK /\ Sound(i) /\ run[i].at = "begin" /\ "open" \in RunPlaces
        /\ jobs[i] # Nothing /\ s \in Status /\ s.state = "active"
    BY StatusFacts DEF Inv, Begin, At, RunPlaces, Sound, Kept, Working, Active, Terminal
  <1>1. /\ run' \in [Jobs -> RunRecord]
        /\ run'[i].at = "open" /\ \A q \in Jobs \ {i} : run'[q] = run[q]
    BY <1>0, GotoFacts DEF Begin
  <1>2. /\ jobs' \in [Jobs -> JobRecord \cup {Nothing}]
        /\ \A q \in Jobs \ {i} : jobs'[q] = jobs[q]
        /\ \A q \in Jobs : jobs'[q] # Nothing <=> jobs[q] # Nothing
        /\ jobs'[i].status = s
    BY <1>0, SetStatusFacts DEF Begin
  <1>3. /\ manifest' \in [Jobs -> ManifestRecord \cup {Nothing}] /\ troubles' \in Nat
        /\ \A q \in Jobs \ {i} : manifest'[q] = manifest[q]
    <2>1. Copied(i, s) \in Status \cup {Nothing} /\ Persist(i, Copied(i, s))
      BY <1>0 DEF Copied, Begin
    <2> HIDE DEF s
    <2> QED BY <1>0, <2>1, PersistFacts
  <1>4. UNCHANGED <<idempotency, held, waiter, work, queue, output, root>>
    BY DEF Begin
  <1> HIDE DEF s
  <1>5. TypeOK' /\ Others(i)
    BY <1>0, <1>1, <1>2, <1>3, <1>4 DEF TypeOK, Others
  <1>6. Filed' /\ Books'
    BY <1>0, <1>1, <1>2, <1>4, FiledStays, BooksStay DEF Inv
  <1>7. Sound(i)'
    <2>1. Kept(i)' /\ Handed(i)'
      BY <1>0, <1>1, <1>2, <1>4
         DEF Sound, Kept, Handed, Silent, Early, Working, RunPlaces, Active
    <2>2. Served(i)'
      BY <1>0, <1>2 DEF Served
    <2> QED BY <2>1, <2>2 DEF Sound
  <1> QED BY <1>4, <1>5, <1>6, <1>7, InvBut

LEMMA WriteInv ==
  ASSUME Inv, NEW i \in Jobs, Write(i)
  PROVE  Inv'
  <1>0. TypeOK /\ Sound(i) /\ run[i].at \in {"submitted", "finish"}
    BY DEF Inv, Write, After
  <1>1. /\ run' \in [Jobs -> RunRecord]
        /\ run'[i].at = IF run[i].at = "submitted" THEN "wait" ELSE "release"
        /\ \A q \in Jobs \ {i} : run'[q] = run[q]
    <2> DEFINE x == IF run[i].at = "submitted" THEN "wait" ELSE "release"
    <2>1. x \in RunPlaces /\ After[run[i].at] = x
      BY <1>0 DEF After, RunPlaces
    <2>2. Goto(i, x)
      BY <2>1 DEF Write
    <2> HIDE DEF x
    <2>3. /\ run' \in [Jobs -> RunRecord]
          /\ run'[i].at = x /\ \A q \in Jobs \ {i} : run'[q] = run[q]
      BY <1>0, <2>1, <2>2, GotoFacts
    <2> QED BY <2>3 DEF x
  <1>2. /\ manifest' \in [Jobs -> ManifestRecord \cup {Nothing}] /\ troubles' \in Nat
        /\ \A q \in Jobs \ {i} : manifest'[q] = manifest[q]
    <2>1. run[i].writing \in Status \cup {Nothing}
      BY <1>0 DEF TypeOK, RunRecord
    <2> QED BY <1>0, <2>1, PersistFacts DEF Write
  <1>3. UNCHANGED <<jobs, idempotency, held, work, queue, output, root>>
    BY DEF Write
  <1>4. /\ waiter' \in [Jobs -> WaiterRecord]
        /\ \A q \in Jobs \ {i} : waiter'[q] = waiter[q]
        /\ run[i].at = "finish" => waiter' = waiter
    <2>1. CASE run[i].at # "submitted"
      BY <1>0, <2>1 DEF Write, TypeOK
    <2>2. CASE run[i].at = "submitted"
      <3> DEFINE x == [waiter[i] EXCEPT !.at = "poll"]
      <3>1. waiter' = [waiter EXCEPT ![i] = x]
        BY <2>2 DEF Write
      <3>2. x \in WaiterRecord
        <4>1. waiter[i] \in WaiterRecord
          BY <1>0 DEF TypeOK
        <4> QED BY <4>1 DEF WaiterRecord, WaiterPlaces
      <3> HIDE DEF x
      <3> QED BY <1>0, <2>2, <3>1, <3>2 DEF TypeOK
    <2> QED BY <2>1, <2>2
  <1>5. TypeOK' /\ Others(i)
    BY <1>0, <1>1, <1>2, <1>3, <1>4 DEF TypeOK, Others
  <1>6. Filed' /\ Books'
    BY <1>0, <1>1, <1>3, FiledStays, BooksStay DEF Inv
  <1>7. Sound(i)'
    <2>1. CASE run[i].at = "submitted"
      <3>1. ~work[i].files /\ jobs[i] # Nothing /\ jobs[i].status.state \in Active
        BY <1>0, <2>1 DEF Sound, Kept, Handed, Early, Working, RunPlaces
      <3>2. Kept(i)' /\ Handed(i)'
        BY <1>0, <1>1, <1>3, <2>1, <3>1
           DEF Sound, Kept, Handed, Early, Working, RunPlaces
      <3> QED BY <1>3, <3>1, <3>2 DEF Sound, Served, Active
    <2>2. CASE run[i].at = "finish"
      <3>1. Kept(i)' /\ Handed(i)'
        BY <1>0, <1>1, <1>3, <1>4, <2>2 DEF Sound, Kept, Handed, Early, Working, Silent
      <3>2. Served(i)'
        BY <1>0, <1>3, <2>2 DEF Sound, Served
      <3> QED BY <3>1, <3>2 DEF Sound
    <2> QED BY <1>0, <2>1, <2>2
  <1> QED BY <1>3, <1>5, <1>6, <1>7, InvBut

\* What is left of a step that ends the job as failed or cancelled.
LEMMA FinishInv ==
  ASSUME Inv, NEW i \in Jobs, NEW state \in {"failed", "cancelled"},
         Update(i, NewStatus(state), "finish"), run[i].at \in Working,
         Books', UNCHANGED <<idempotency, held, waiter, root>>,
         work' \in [Jobs -> WorkRecord],
         work'[i].files = work[i].files,
         queue' \in [holders : SUBSET Jobs, waiting : Nat], troubles' \in Nat,
         manifest' \in [Jobs -> ManifestRecord \cup {Nothing}],
         output' \in [Jobs -> {"none", "partial", "whole"}],
         \A q \in Jobs \ {i} : /\ work'[q] = work[q] /\ manifest'[q] = manifest[q]
                               /\ output'[q] = output[q]
  PROVE  Inv'
  <1>0. /\ TypeOK /\ Sound(i) /\ "finish" \in RunPlaces /\ jobs[i] # Nothing
        /\ NewStatus(state) \in Status /\ NewStatus(state).state = state
    BY StatusFacts DEF Inv, RunPlaces, Sound, Kept, Active, Terminal
  <1>1. /\ jobs' \in [Jobs -> JobRecord \cup {Nothing}]
        /\ \A q \in Jobs \ {i} : jobs'[q] = jobs[q]
        /\ \A q \in Jobs : jobs'[q] # Nothing <=> jobs[q] # Nothing
        /\ jobs'[i].status = NewStatus(state)
        /\ run' \in [Jobs -> RunRecord]
        /\ run'[i].at = "finish"
        /\ \A q \in Jobs \ {i} : run'[q] = run[q]
    BY <1>0, UpdateFacts
  <1>2. TypeOK'
    BY <1>0, <1>1 DEF TypeOK
  <1>3. Others(i)
    BY <1>1 DEF Others
  <1>4. Filed'
    BY <1>1, FiledStays DEF Inv
  <1>5. Sound(i)'
    <2>1. Kept(i)' /\ Handed(i)'
      BY <1>0, <1>1 DEF Sound, Kept, Handed, Early, Working, Silent
    <2>2. Served(i)'
      BY <1>0, <1>1 DEF Served
    <2> QED BY <2>1, <2>2 DEF Sound
  <1> QED BY <1>2, <1>3, <1>4, <1>5, InvBut

LEMMA OpenInv ==
  ASSUME Inv, NEW i \in Jobs, Open(i)
  PROVE  Inv'
  <1>0. /\ TypeOK /\ Sound(i) /\ run[i].at = "open" /\ {"enter", "finish"} \subseteq RunPlaces
        /\ run[i].at \in Working
        /\ jobs[i] # Nothing /\ jobs[i].status.state \in Active /\ jobs[i] \in JobRecord
    BY DEF Inv, Open, At, RunPlaces, Sound, Kept, Working, TypeOK
  <1>1. UNCHANGED <<idempotency, held, waiter, work, queue, manifest, output, root>>
    BY DEF Open
  <1>2. CASE Goto(i, "enter") /\ jobs' = [jobs EXCEPT ![i].capture = TRUE] /\ troubles' = troubles
    <2>1. /\ run' \in [Jobs -> RunRecord]
          /\ run'[i].at = "enter" /\ \A q \in Jobs \ {i} : run'[q] = run[q]
      BY <1>0, <1>2, GotoFacts
    <2> DEFINE x == [jobs[i] EXCEPT !.capture = TRUE]
    <2>2. x \in JobRecord /\ x # Nothing /\ x.status = jobs[i].status
      <3>1. x \in JobRecord /\ x.status = jobs[i].status
        BY <1>0 DEF JobRecord
      <3> QED BY <3>1, NothingIsNoRecord
    <2>3. jobs' = [jobs EXCEPT ![i] = x]
      BY <1>2
    <2> HIDE DEF x
    <2>4. /\ jobs' \in [Jobs -> JobRecord \cup {Nothing}] /\ jobs'[i] = x
          /\ \A q \in Jobs \ {i} : jobs'[q] = jobs[q]
      BY <1>0, <2>2, <2>3 DEF TypeOK
    <2>5. TypeOK' /\ Others(i)
      BY <1>0, <1>1, <1>2, <2>1, <2>4 DEF TypeOK, Others
    <2>6. Filed' /\ Books'
      BY <1>0, <1>1, <2>1, <2>2, <2>4, FiledStays, BooksStay DEF Inv
    <2>7. Kept(i)' /\ Handed(i)'
      BY <1>0, <1>1, <2>1, <2>2, <2>4
         DEF Sound, Kept, Handed, Silent, Early, Working, RunPlaces
    <2>8. Served(i)'
      BY <1>0, <2>2, <2>4 DEF Served, Active
    <2> QED BY <1>1, <2>5, <2>6, <2>7, <2>8, InvBut DEF Sound
  <1>3. CASE Fault /\ Update(i, NewStatus("failed"), "finish")
    <2>1. /\ run'[i].at = "finish" /\ \A q \in Jobs \ {i} : run'[q] = run[q]
      BY <1>0, <1>3, UpdateFacts, StatusFacts DEF Active, Terminal
    <2>2. Books'
      BY <1>0, <1>1, <2>1, BooksStay DEF Inv
    <2>3. troubles' \in Nat
      BY <1>0, <1>3 DEF Fault, TypeOK
    <2> QED BY <1>0, <1>1, <1>3, <2>2, <2>3, FinishInv DEF TypeOK
  <1> QED BY <1>0, <1>2, <1>3 DEF Open

\* What is left of a step that goes on without ending the job.
LEMMA MoveInv ==
  ASSUME Inv, NEW i \in Jobs, run[i].at \in Working, run'[i].at \in Working,
         run' \in [Jobs -> RunRecord],
         UNCHANGED <<jobs, idempotency, held, waiter, manifest, root>>,
         work' \in [Jobs -> WorkRecord], troubles' \in Nat,
         queue' \in [holders : SUBSET Jobs, waiting : Nat],
         output' \in [Jobs -> {"none", "partial", "whole"}],
         \A q \in Jobs \ {i} : /\ run'[q] = run[q] /\ work'[q] = work[q]
                               /\ output'[q] = output[q],
         Books', Handed(i)'
  PROVE  Inv'
  <1>0. TypeOK /\ Sound(i) /\ jobs[i] # Nothing /\ jobs[i].status.state \in Active
    BY DEF Inv, Sound, Kept
  <1>1. TypeOK' /\ Others(i)
    BY <1>0 DEF TypeOK, Others
  <1>2. Filed'
    BY FiledStays DEF Inv
  <1>3. Sound(i)'
    <2>1. Kept(i)'
      BY <1>0 DEF Sound, Kept, Working
    <2>2. Served(i)'
      BY <1>0 DEF Served, Active
    <2> QED BY <2>1, <2>2 DEF Sound
  <1> QED BY <1>1, <1>2, <1>3, InvBut

LEMMA WorkFacts ==
  ASSUME TypeOK, NEW i \in Jobs, NEW a \in {"none", "ok", "error"},
         work' = [work EXCEPT ![i].answer = a]
  PROVE  /\ work' \in [Jobs -> WorkRecord] /\ work'[i].files = work[i].files
         /\ \A q \in Jobs \ {i} : work'[q] = work[q]
  <1> DEFINE x == [work[i] EXCEPT !.answer = a]
  <1>1. x \in WorkRecord /\ x.files = work[i].files
    <2>1. work[i] \in WorkRecord
      BY DEF TypeOK
    <2> QED BY <2>1 DEF WorkRecord
  <1>2. work' = [work EXCEPT ![i] = x]
    OBVIOUS
  <1> HIDE DEF x
  <1> QED BY <1>1, <1>2 DEF TypeOK

LEMMA EnterInv ==
  ASSUME Inv, NEW i \in Jobs, Enter(i)
  PROVE  Inv'
  <1>0. /\ TypeOK /\ Books /\ Sound(i) /\ run[i].at = "enter" /\ run[i].at \in Working
        /\ Silent(i) /\ ~work[i].files
        /\ {"judge", "calculate", "line"} \subseteq Working \cap RunPlaces
    BY DEF Inv, Enter, At, RunPlaces, Working, Sound, Handed, Early
  <1>1. UNCHANGED <<jobs, idempotency, held, waiter, manifest, output, root, troubles>>
    BY DEF Enter
  <1>2. i \notin queue.holders
    BY <1>0 DEF Books
  <1>3. CASE work' = [work EXCEPT ![i].answer = "error"] /\ Goto(i, "judge") /\ queue' = queue
    <2>1. /\ run' \in [Jobs -> RunRecord]
          /\ run'[i].at = "judge" /\ \A q \in Jobs \ {i} : run'[q] = run[q]
      BY <1>0, <1>3, GotoFacts
    <2>2. /\ work' \in [Jobs -> WorkRecord] /\ work'[i].files = work[i].files
          /\ \A q \in Jobs \ {i} : work'[q] = work[q]
      BY <1>0, <1>3, WorkFacts
    <2>3. Handed(i)'
      BY <1>0, <1>1, <2>1, <2>2 DEF Handed, Silent, Early
    <2>4. Books'
      BY <1>0, <1>1, <1>3, <2>1, BooksStay
    <2> QED BY <1>0, <1>1, <1>3, <2>1, <2>2, <2>3, <2>4, MoveInv DEF TypeOK
  <1>4. CASE /\ queue' = [queue EXCEPT !.holders = @ \cup {i}]
             /\ Goto(i, "calculate") /\ work' = work
    <2>1. /\ run' \in [Jobs -> RunRecord]
          /\ run'[i].at = "calculate" /\ \A q \in Jobs \ {i} : run'[q] = run[q]
      BY <1>0, <1>4, GotoFacts
    <2>2. /\ queue' \in [holders : SUBSET Jobs, waiting : Nat]
          /\ queue'.holders = queue.holders \cup {i} /\ queue'.waiting = queue.waiting
      BY <1>0, <1>4 DEF TypeOK
    <2>3. Handed(i)'
      BY <1>0, <1>1, <1>4, <2>1 DEF Handed, Silent, Early
    <2>4. Books'
      BY <1>0, <1>1, <2>1, <2>2, BooksQueue
    <2> QED BY <1>0, <1>1, <1>4, <2>1, <2>2, <2>3, <2>4, MoveInv DEF TypeOK
  <1>5. CASE /\ queue' = [queue EXCEPT !.waiting = @ + 1]
             /\ Goto(i, "line") /\ work' = work
    <2>1. /\ run' \in [Jobs -> RunRecord]
          /\ run'[i].at = "line" /\ \A q \in Jobs \ {i} : run'[q] = run[q]
      BY <1>0, <1>5, GotoFacts
    <2>2. /\ queue' \in [holders : SUBSET Jobs, waiting : Nat]
          /\ queue'.holders = queue.holders \ {i} /\ queue'.waiting = queue.waiting + 1
      BY <1>0, <1>2, <1>5 DEF TypeOK
    <2>3. Handed(i)'
      BY <1>0, <1>1, <1>5, <2>1 DEF Handed, Silent, Early
    <2>4. Books'
      BY <1>0, <1>1, <1>2, <2>1, <2>2, BooksQueue
    <2> QED BY <1>0, <1>1, <1>5, <2>1, <2>2, <2>3, <2>4, MoveInv DEF TypeOK
  <1> QED BY <1>3, <1>4, <1>5 DEF Enter

LEMMA LeaveLineInv ==
  ASSUME Inv, NEW i \in Jobs, LeaveLine(i)
  PROVE  Inv'
  <1>0. /\ TypeOK /\ Books /\ Sound(i) /\ run[i].at = "line" /\ run[i].at \in Working
        /\ Silent(i) /\ ~work[i].files /\ "judge" \in Working \cap RunPlaces
    BY DEF Inv, LeaveLine, At, RunPlaces, Working, Sound, Handed, Early
  <1>1. /\ UNCHANGED <<jobs, idempotency, held, waiter, manifest, output, root, troubles>>
        /\ queue' = [queue EXCEPT !.waiting = @ - 1]
    BY DEF LeaveLine
  <1>2. /\ run' \in [Jobs -> RunRecord]
        /\ run'[i].at = "judge" /\ \A q \in Jobs \ {i} : run'[q] = run[q]
    BY <1>0, GotoFacts DEF LeaveLine
  <1>3. /\ work' \in [Jobs -> WorkRecord] /\ work'[i].files = work[i].files
        /\ \A q \in Jobs \ {i} : work'[q] = work[q]
    BY <1>0, WorkFacts DEF LeaveLine
  <1>4. queue.waiting - 1 \in Nat
    BY <1>0, <1>2, LineLess
  <1>5. /\ queue' \in [holders : SUBSET Jobs, waiting : Nat]
        /\ queue'.holders = queue.holders /\ queue'.waiting = queue.waiting - 1
    BY <1>0, <1>1, <1>4 DEF TypeOK
  <1>6. Books'
    <2>1. i \notin queue.holders
      BY <1>0 DEF Books
    <2> QED BY <1>0, <1>1, <1>2, <1>5, <2>1, BooksQueue
  <1>7. Handed(i)'
    BY <1>0, <1>1, <1>2, <1>3 DEF Handed, Silent, Early
  <1> QED BY <1>0, <1>1, <1>2, <1>3, <1>5, <1>6, <1>7, MoveInv DEF TypeOK

LEMMA TakeSlotInv ==
  ASSUME Inv, NEW i \in Jobs, TakeSlot(i)
  PROVE  Inv'
  <1>0. /\ TypeOK /\ Books /\ Sound(i) /\ run[i].at = "line" /\ run[i].at \in Working
        /\ Silent(i) /\ ~work[i].files /\ "calculate" \in Working \cap RunPlaces
    BY DEF Inv, TakeSlot, At, RunPlaces, Working, Sound, Handed, Early
  <1>1. /\ UNCHANGED <<jobs, idempotency, held, waiter, work, manifest, output, root, troubles>>
        /\ queue' = [holders |-> queue.holders \cup {i}, waiting |-> queue.waiting - 1]
    BY DEF TakeSlot
  <1>2. /\ run' \in [Jobs -> RunRecord]
        /\ run'[i].at = "calculate" /\ \A q \in Jobs \ {i} : run'[q] = run[q]
    BY <1>0, GotoFacts DEF TakeSlot
  <1>3. queue.waiting - 1 \in Nat
    BY <1>0, <1>2, LineLess
  <1>4. /\ queue' \in [holders : SUBSET Jobs, waiting : Nat]
        /\ queue'.holders = queue.holders \cup {i} /\ queue'.waiting = queue.waiting - 1
    BY <1>0, <1>1, <1>3 DEF TypeOK
  <1>5. Books'
    BY <1>0, <1>1, <1>2, <1>4, BooksQueue
  <1>6. Handed(i)'
    BY <1>0, <1>1, <1>2 DEF Handed, Silent, Early
  <1> QED BY <1>0, <1>1, <1>2, <1>4, <1>5, <1>6, MoveInv DEF TypeOK

LEMMA CapturedFacts ==
  ASSUME TypeOK, NEW i \in Jobs,
         work' = [work EXCEPT ![i] = [@ EXCEPT !.files = TRUE, !.answer = "ok"]]
  PROVE  /\ work' \in [Jobs -> WorkRecord]
         /\ \A q \in Jobs \ {i} : work'[q] = work[q]
  <1> DEFINE x == [work[i] EXCEPT !.files = TRUE, !.answer = "ok"]
  <1>1. x \in WorkRecord
    <2>1. work[i] \in WorkRecord
      BY DEF TypeOK
    <2> QED BY <2>1 DEF WorkRecord
  <1>2. work' = [work EXCEPT ![i] = x]
    OBVIOUS
  <1> HIDE DEF x
  <1>3. work' \in [Jobs -> WorkRecord]
    BY <1>1, <1>2 DEF TypeOK
  <1>4. \A q \in Jobs \ {i} : work'[q] = work[q]
    BY <1>2 DEF TypeOK
  <1> QED BY <1>3, <1>4

LEMMA LeaveQueueFacts ==
  ASSUME TypeOK, NEW i \in Jobs, LeaveQueue(i)
  PROVE  /\ queue' \in [holders : SUBSET Jobs, waiting : Nat]
         /\ queue'.holders = queue.holders \ {i} /\ queue'.waiting = queue.waiting
  BY DEF TypeOK, LeaveQueue

LEMMA CalculateInv ==
  ASSUME Inv, NEW i \in Jobs, Calculate(i)
  PROVE  Inv'
  <1>0. /\ TypeOK /\ Books /\ Sound(i) /\ run[i].at = "calculate" /\ run[i].at \in Working
        /\ Silent(i) /\ ~work[i].files
        /\ {"judge", "copy"} \subseteq Working \cap RunPlaces
    BY DEF Inv, Calculate, At, RunPlaces, Working, Sound, Handed, Early
  <1>1. UNCHANGED <<jobs, idempotency, held, waiter, manifest, root, troubles>>
    BY DEF Calculate
  <1>2. CASE /\ output' = [output EXCEPT ![i] = "partial"]
             /\ Goto(i, "copy") /\ UNCHANGED <<work, queue>>
    <2>1. /\ run' \in [Jobs -> RunRecord]
          /\ run'[i].at = "copy" /\ \A q \in Jobs \ {i} : run'[q] = run[q]
      BY <1>0, <1>2, GotoFacts
    <2>2. /\ output' \in [Jobs -> {"none", "partial", "whole"}]
          /\ \A q \in Jobs \ {i} : output'[q] = output[q]
      BY <1>0, <1>2 DEF TypeOK
    <2>3. Handed(i)'
      BY <1>0, <1>1, <1>2, <2>1 DEF Handed, Silent, Early
    <2>4. Books'
      BY <1>0, <1>1, <1>2, <2>1, BooksStay
    <2> QED BY <1>0, <1>1, <1>2, <2>1, <2>2, <2>3, <2>4, MoveInv DEF TypeOK
  <1>3. ASSUME NEW a \in {"ok", "error"}, work' = [work EXCEPT ![i].answer = a],
               LeaveQueue(i), Goto(i, "judge"), output' = output
        PROVE  Inv'
    <2>1. /\ run' \in [Jobs -> RunRecord]
          /\ run'[i].at = "judge" /\ \A q \in Jobs \ {i} : run'[q] = run[q]
      BY <1>0, <1>3, GotoFacts
    <2>2. /\ work' \in [Jobs -> WorkRecord] /\ work'[i].files = work[i].files
          /\ \A q \in Jobs \ {i} : work'[q] = work[q]
      BY <1>0, <1>3, WorkFacts
    <2>3. /\ queue' \in [holders : SUBSET Jobs, waiting : Nat]
          /\ queue'.holders = queue.holders \ {i} /\ queue'.waiting = queue.waiting
      BY <1>0, <1>3, LeaveQueueFacts
    <2>4. Handed(i)'
      BY <1>0, <1>1, <1>3, <2>1, <2>2 DEF Handed, Silent, Early
    <2>5. Books'
      BY <1>0, <1>1, <2>1, <2>3, BooksQueue
    <2> QED BY <1>0, <1>1, <1>3, <2>1, <2>2, <2>3, <2>4, <2>5, MoveInv DEF TypeOK
  <1> QED BY <1>2, <1>3 DEF Calculate

LEMMA CopyInv ==
  ASSUME Inv, NEW i \in Jobs, Copy(i)
  PROVE  Inv'
  <1>0. /\ TypeOK /\ Books /\ Sound(i) /\ run[i].at = "copy" /\ run[i].at \in Working
        /\ Silent(i) /\ ~work[i].files /\ "judge" \in Working \cap RunPlaces
    BY DEF Inv, Copy, At, RunPlaces, Working, Sound, Handed, Early
  <1>1. UNCHANGED <<jobs, idempotency, held, waiter, manifest, root>>
    BY DEF Copy
  <1>2. /\ run' \in [Jobs -> RunRecord]
        /\ run'[i].at = "judge" /\ \A q \in Jobs \ {i} : run'[q] = run[q]
    BY <1>0, GotoFacts DEF Copy
  <1>3. /\ queue' \in [holders : SUBSET Jobs, waiting : Nat]
        /\ queue'.holders = queue.holders \ {i} /\ queue'.waiting = queue.waiting
    BY <1>0, LeaveQueueFacts DEF Copy
  <1>4. Books'
    BY <1>0, <1>1, <1>2, <1>3, BooksQueue
  <1>5. CASE /\ output' = [output EXCEPT ![i] = "whole"]
             /\ work' = [work EXCEPT ![i] = [@ EXCEPT !.files = TRUE, !.answer = "ok"]]
             /\ UNCHANGED troubles
    <2>1. /\ output' \in [Jobs -> {"none", "partial", "whole"}] /\ output'[i] = "whole"
          /\ \A q \in Jobs \ {i} : output'[q] = output[q]
      BY <1>0, <1>5 DEF TypeOK
    <2>2. /\ work' \in [Jobs -> WorkRecord] /\ \A q \in Jobs \ {i} : work'[q] = work[q]
      BY <1>0, <1>5, CapturedFacts
    <2>3. Handed(i)'
      BY <1>0, <1>1, <1>2, <2>1 DEF Handed, Silent, Early
    <2> QED BY <1>0, <1>1, <1>2, <1>3, <1>4, <1>5, <2>1, <2>2, <2>3, MoveInv DEF TypeOK
  <1>6. CASE /\ Fault /\ output' = [output EXCEPT ![i] = "none"]
             /\ work' = [work EXCEPT ![i].answer = "error"]
    <2>1. /\ output' \in [Jobs -> {"none", "partial", "whole"}] /\ troubles' \in Nat
          /\ \A q \in Jobs \ {i} : output'[q] = output[q]
      BY <1>0, <1>6 DEF TypeOK, Fault
    <2>2. /\ work' \in [Jobs -> WorkRecord] /\ work'[i].files = work[i].files
          /\ \A q \in Jobs \ {i} : work'[q] = work[q]
      BY <1>0, <1>6, WorkFacts
    <2>3. Handed(i)'
      BY <1>0, <1>1, <1>2, <2>2 DEF Handed, Silent, Early
    <2> QED BY <1>0, <1>1, <1>2, <1>3, <1>4, <2>1, <2>2, <2>3, MoveInv
  <1> QED BY <1>5, <1>6 DEF Copy, Captured

LEMMA NotifiedFacts ==
  ASSUME TypeOK, NEW i \in Jobs, jobs[i] # Nothing, NEW seen
  PROVE  /\ Notified(i, seen) \in Status
         /\ jobs[i].status.state \in Active => Notified(i, seen).state \in Active
         /\ jobs[i].status.state # "ready" => Notified(i, seen).state # "ready"
  <1> DEFINE x == IF seen = "active" THEN "active"
                  ELSE IF jobs[i].status.state \in Active THEN "blank"
                  ELSE jobs[i].status.state
  <1>1. x \in Active \cup Terminal
    BY JobFacts DEF Active
  <1>2. /\ jobs[i].status.state \in Active => x \in Active
        /\ jobs[i].status.state # "ready" => x # "ready"
    BY DEF Active
  <1>3. Notified(i, seen) = NewStatus(x)
    BY DEF Notified
  <1> HIDE DEF x
  <1> QED BY <1>1, <1>2, <1>3, StatusFacts

LEMMA SubmitInv ==
  ASSUME Inv, NEW i \in Jobs, Submit(i)
  PROVE  Inv'
  <1>0. /\ TypeOK /\ Books /\ Sound(i) /\ run[i].at = "calculate" /\ run[i].at \in Working
        /\ Silent(i) /\ ~work[i].files
        /\ jobs[i] # Nothing /\ jobs[i].status.state \in Active
        /\ {"judge", "submitted"} \subseteq Working \cap RunPlaces
    BY DEF Inv, Submit, At, RunPlaces, Working, Sound, Handed, Early, Kept
  <1>1. UNCHANGED <<idempotency, held, waiter, manifest, output, root, troubles>>
    BY DEF Submit
  <1>2. /\ queue' \in [holders : SUBSET Jobs, waiting : Nat]
        /\ queue'.holders = queue.holders \ {i} /\ queue'.waiting = queue.waiting
    BY <1>0, LeaveQueueFacts DEF Submit
  <1>3. ASSUME NEW seen, Update(i, Notified(i, seen), "submitted"),
               work' = [work EXCEPT ![i].ticket = "live"]
        PROVE  Inv'
    <2>1. Notified(i, seen) \in Status /\ Notified(i, seen).state \in Active
      BY <1>0, NotifiedFacts
    <2>2. /\ jobs' \in [Jobs -> JobRecord \cup {Nothing}]
          /\ \A q \in Jobs \ {i} : jobs'[q] = jobs[q]
          /\ \A q \in Jobs : jobs'[q] # Nothing <=> jobs[q] # Nothing
          /\ jobs'[i].status = Notified(i, seen)
          /\ run' \in [Jobs -> RunRecord] /\ run'[i].at = "submitted"
          /\ \A q \in Jobs \ {i} : run'[q] = run[q]
      BY <1>0, <1>3, <2>1, UpdateFacts
    <2>3. /\ work' \in [Jobs -> WorkRecord] /\ work'[i].files = work[i].files
          /\ \A q \in Jobs \ {i} : work'[q] = work[q]
      <3> DEFINE x == [work[i] EXCEPT !.ticket = "live"]
      <3>1. x \in WorkRecord /\ x.files = work[i].files
        <4>1. work[i] \in WorkRecord
          BY <1>0 DEF TypeOK
        <4> QED BY <4>1 DEF WorkRecord
      <3>2. work' = [work EXCEPT ![i] = x]
        BY <1>3
      <3> HIDE DEF x
      <3> QED BY <1>0, <3>1, <3>2 DEF TypeOK
    <2>4. TypeOK' /\ Others(i)
      BY <1>0, <1>1, <1>2, <2>2, <2>3 DEF TypeOK, Others
    <2>5. Filed'
      BY <1>1, <2>2, FiledStays DEF Inv
    <2>6. Books'
      BY <1>0, <1>1, <1>2, <2>2, BooksQueue
    <2>7. Kept(i)' /\ Handed(i)'
      BY <1>0, <1>1, <2>1, <2>2, <2>3 DEF Sound, Kept, Handed, Silent
    <2>8. Served(i)'
      BY <2>1, <2>2 DEF Served, Active
    <2> QED BY <1>1, <2>4, <2>5, <2>6, <2>7, <2>8, InvBut DEF Sound
  <1>4. CASE work' = [work EXCEPT ![i].answer = "error"] /\ Goto(i, "judge") /\ jobs' = jobs
    <2>1. /\ run' \in [Jobs -> RunRecord]
          /\ run'[i].at = "judge" /\ \A q \in Jobs \ {i} : run'[q] = run[q]
      BY <1>0, <1>4, GotoFacts
    <2>2. /\ work' \in [Jobs -> WorkRecord] /\ work'[i].files = work[i].files
          /\ \A q \in Jobs \ {i} : work'[q] = work[q]
      BY <1>0, <1>4, WorkFacts
    <2>3. Handed(i)'
      BY <1>0, <1>1, <2>1, <2>2 DEF Handed, Silent, Early
    <2>4. Books'
      BY <1>0, <1>1, <1>2, <2>1, BooksQueue
    <2> QED BY <1>0, <1>1, <1>2, <1>4, <2>1, <2>2, <2>3, <2>4, MoveInv DEF TypeOK
  <1> QED BY <1>3, <1>4 DEF Submit

LEMMA WaitHorizonInv ==
  ASSUME Inv, NEW i \in Jobs, WaitHorizon(i)
  PROVE  Inv'
  <1>0. /\ TypeOK /\ Books /\ Sound(i) /\ run[i].at = "wait" /\ run[i].at \in Working
        /\ "judge" \in Working \cap RunPlaces
    BY DEF Inv, WaitHorizon, At, RunPlaces, Working
  <1>1. UNCHANGED <<jobs, idempotency, held, waiter, queue, manifest, output, root, troubles>>
    BY DEF WaitHorizon
  <1>2. /\ run' \in [Jobs -> RunRecord]
        /\ run'[i].at = "judge" /\ \A q \in Jobs \ {i} : run'[q] = run[q]
    BY <1>0, GotoFacts DEF WaitHorizon
  <1>3. /\ work' \in [Jobs -> WorkRecord] /\ work'[i].files = work[i].files
        /\ \A q \in Jobs \ {i} : work'[q] = work[q]
    <2>1. work' = work \/ work' = [work EXCEPT ![i].answer = "error"]
      BY DEF WaitHorizon
    <2>2. CASE work' = work
      BY <1>0, <2>2 DEF TypeOK
    <2>3. CASE work' = [work EXCEPT ![i].answer = "error"]
      BY <1>0, <2>3, WorkFacts
    <2> QED BY <2>1, <2>2, <2>3
  <1>4. Handed(i)'
    BY <1>0, <1>1, <1>2, <1>3 DEF Sound, Handed, Silent, Early
  <1>5. Books'
    BY <1>0, <1>1, <1>2, BooksStay
  <1> QED BY <1>0, <1>1, <1>2, <1>3, <1>4, <1>5, MoveInv DEF TypeOK

LEMMA JudgeInv ==
  ASSUME Inv, NEW i \in Jobs, Judge(i)
  PROVE  Inv'
  <1>0. /\ TypeOK /\ Books /\ Sound(i) /\ run[i].at = "judge" /\ run[i].at \in Working
        /\ "publish" \in Working \cap RunPlaces /\ "finish" \in RunPlaces
        /\ jobs[i] # Nothing
    BY DEF Inv, Judge, At, RunPlaces, Working, Sound, Kept
  <1>1. UNCHANGED <<idempotency, held, waiter, queue, manifest, root, troubles>>
    BY DEF Judge
  <1>2. ASSUME NEW state \in {"failed", "cancelled"}, Update(i, NewStatus(state), "finish"),
               RemovePartialFiles(i), work' \in [Jobs -> WorkRecord],
               work'[i].files = work[i].files, \A q \in Jobs \ {i} : work'[q] = work[q]
        PROVE  Inv'
    <2>1. /\ output' \in [Jobs -> {"none", "partial", "whole"}]
          /\ \A q \in Jobs \ {i} : output'[q] = output[q]
      BY <1>0, <1>2, RemoveFacts
    <2>2. NewStatus(state) \in Status
      BY StatusFacts DEF Terminal
    <2>3. run'[i].at = "finish" /\ \A q \in Jobs \ {i} : run'[q] = run[q]
      BY <1>0, <1>2, <2>2, UpdateFacts
    <2>4. Books'
      BY <1>0, <1>1, <2>3, BooksStay
    <2> QED BY <1>0, <1>1, <1>2, <2>1, <2>4, FinishInv DEF TypeOK
  <1>3. CASE /\ work[i].answer = "error" /\ RemovePartialFiles(i)
             /\ Update(i, NewStatus(Failure(i)), "finish")
             /\ work' = IF i \in Horizon /\ work[i].context # "open" /\ work[i].ticket = "live"
                        THEN [work EXCEPT ![i].ticket = "gone"] ELSE work
    <2>1. Failure(i) \in {"failed", "cancelled"}
      BY DEF Failure
    <2>2. /\ work' \in [Jobs -> WorkRecord] /\ work'[i].files = work[i].files
          /\ \A q \in Jobs \ {i} : work'[q] = work[q]
      <3>1. CASE work' = work
        BY <1>0, <3>1 DEF TypeOK
      <3>2. CASE work' = [work EXCEPT ![i].ticket = "gone"]
        <4> DEFINE x == [work[i] EXCEPT !.ticket = "gone"]
        <4>1. x \in WorkRecord /\ x.files = work[i].files
          <5>1. work[i] \in WorkRecord
            BY <1>0 DEF TypeOK
          <5> QED BY <5>1 DEF WorkRecord
        <4>2. work' = [work EXCEPT ![i] = x]
          BY <3>2
        <4> HIDE DEF x
        <4> QED BY <1>0, <4>1, <4>2 DEF TypeOK
      <3> QED BY <1>3, <3>1, <3>2
    <2> QED BY <1>2, <1>3, <2>1, <2>2
  <1>4. CASE /\ RemovePartialFiles(i) /\ Update(i, NewStatus("failed"), "finish")
             /\ UNCHANGED work
    BY <1>0, <1>2, <1>4 DEF TypeOK
  <1>5. CASE /\ RemovePartialFiles(i) /\ Update(i, NewStatus("cancelled"), "finish")
             /\ UNCHANGED work
    BY <1>0, <1>2, <1>5 DEF TypeOK
  <1>6. CASE work[i].files /\ Goto(i, "publish") /\ UNCHANGED <<jobs, work, output>>
    <2>1. /\ run' \in [Jobs -> RunRecord]
          /\ run'[i].at = "publish" /\ \A q \in Jobs \ {i} : run'[q] = run[q]
      BY <1>0, <1>6, GotoFacts
    <2>2. Handed(i)'
      BY <1>0, <1>1, <1>6, <2>1 DEF Sound, Handed, Silent, Early
    <2>3. Books'
      BY <1>0, <1>1, <2>1, BooksStay
    <2> QED BY <1>0, <1>1, <1>6, <2>1, <2>2, <2>3, MoveInv DEF TypeOK
  <1> QED BY <1>3, <1>4, <1>5, <1>6 DEF Judge

\* A goroutine that gives up publishing.
LEMMA GiveUpInv ==
  ASSUME Inv, NEW i \in Jobs, NEW state \in {"failed", "cancelled"}, GiveUp(i, state),
         run[i].at \in {"publish", "confirm"}, troubles' \in Nat,
         manifest' \in [Jobs -> ManifestRecord \cup {Nothing}],
         \A q \in Jobs \ {i} : manifest'[q] = manifest[q],
         UNCHANGED <<idempotency, held, waiter, work, queue, root>>
  PROVE  Inv'
  <1>0. /\ TypeOK /\ Books /\ Sound(i) /\ run[i].at \in Working /\ "finish" \in RunPlaces
        /\ NewStatus(state) \in Status
    BY StatusFacts DEF Inv, RunPlaces, Working, Terminal
  <1>1. Update(i, NewStatus(state), "finish") /\ RemovePartialFiles(i)
    BY DEF GiveUp
  <1>2. /\ output' \in [Jobs -> {"none", "partial", "whole"}]
        /\ \A q \in Jobs \ {i} : output'[q] = output[q]
    BY <1>0, <1>1, RemoveFacts
  <1>3. run'[i].at = "finish" /\ \A q \in Jobs \ {i} : run'[q] = run[q]
    BY <1>0, <1>1, UpdateFacts
  <1>4. Books'
    BY <1>0, <1>3, BooksStay
  <1> QED BY <1>0, <1>1, <1>2, <1>4, FinishInv DEF TypeOK

LEMMA PublishInv ==
  ASSUME Inv, NEW i \in Jobs, Publish(i)
  PROVE  Inv'
  <1>0. /\ TypeOK /\ Books /\ Sound(i) /\ run[i].at = "publish" /\ run[i].at \in Working
        /\ "confirm" \in Working \cap RunPlaces
    BY DEF Inv, Publish, At, RunPlaces, Working
  <1>1. UNCHANGED <<idempotency, held, waiter, work, queue, manifest, root, troubles>>
    BY DEF Publish
  <1>2. CASE \E state \in {"failed", "cancelled"} : GiveUp(i, state)
    BY <1>0, <1>1, <1>2, GiveUpInv DEF TypeOK
  <1>3. CASE /\ run' = [run EXCEPT ![i] = [at |-> "confirm", writing |-> NewStatus("ready")]]
             /\ UNCHANGED <<jobs, output>>
    <2> DEFINE x == [at |-> "confirm", writing |-> NewStatus("ready")]
    <2>1. x \in RunRecord /\ x.at = "confirm" /\ x.writing = NewStatus("ready")
      <3>1. NewStatus("ready") \in Status
        BY StatusFacts DEF Terminal
      <3> QED BY <1>0, <3>1 DEF RunRecord
    <2>2. run' = [run EXCEPT ![i] = x]
      BY <1>3
    <2> HIDE DEF x
    <2>3. run' \in [Jobs -> RunRecord] /\ run'[i] = x /\ \A q \in Jobs \ {i} : run'[q] = run[q]
      BY <1>0, <2>1, <2>2 DEF TypeOK
    <2>4. Handed(i)'
      <3>1. NewStatus("ready")' = NewStatus("ready")
        BY DEF NewStatus
      <3> QED BY <1>0, <1>1, <1>3, <2>1, <2>3, <3>1 DEF Sound, Handed, Silent, Early, Working
    <2>5. Books'
      BY <1>0, <1>1, <2>1, <2>3, BooksStay
    <2> QED BY <1>0, <1>1, <1>3, <2>1, <2>3, <2>4, <2>5, MoveInv DEF TypeOK
  <1> QED BY <1>2, <1>3 DEF Publish

LEMMA ConfirmInv ==
  ASSUME Inv, NEW i \in Jobs, Confirm(i)
  PROVE  Inv'
  <1> DEFINE s == NewStatus("ready")
  <1>0. /\ TypeOK /\ Books /\ Sound(i) /\ run[i].at = "confirm" /\ run[i].writing = s
        /\ jobs[i] # Nothing /\ jobs[i].status.state \in Active /\ Silent(i)
        /\ output[i] = "whole" /\ "prune" \in RunPlaces
    BY DEF Inv, Confirm, At, Sound, Kept, Handed, Working, RunPlaces
  <1>1. UNCHANGED <<idempotency, held, waiter, work, queue, root>>
    BY DEF Confirm
  <1>2. s \in Status /\ s # Nothing /\ s.state = "ready" /\ s.updated = "new"
    BY StatusFacts DEF Terminal
  <1>3. /\ manifest' \in [Jobs -> ManifestRecord \cup {Nothing}] /\ troubles' \in Nat
        /\ \A q \in Jobs \ {i} : manifest'[q] = manifest[q]
    <2>1. Persist(i, s)
      BY <1>0 DEF Confirm, Persist
    <2> HIDE DEF s
    <2> QED BY <1>0, <1>2, <2>1, PersistFacts
  <1>4. CASE \E state \in {"failed", "cancelled"} : GiveUp(i, state)
    BY <1>0, <1>1, <1>3, <1>4, GiveUpInv
  <1>5. CASE /\ PersistOk(i, run[i].writing) /\ ~Refused(i) /\ ~Withdrawn(i)
             /\ SetStatus(i, run[i].writing) /\ Goto(i, "prune") /\ UNCHANGED output
    <2>1. /\ run' \in [Jobs -> RunRecord]
          /\ run'[i].at = "prune" /\ \A q \in Jobs \ {i} : run'[q] = run[q]
      BY <1>0, <1>5, GotoFacts
    <2>2. ~jobs[i].cancelled
      BY <1>5 DEF Withdrawn
    <2>3. SetStatus(i, s) /\ manifest' = Stored(i, s)
      BY <1>0, <1>5 DEF PersistOk
    <2> HIDE DEF s
    <2>4. /\ jobs' \in [Jobs -> JobRecord \cup {Nothing}]
          /\ \A q \in Jobs \ {i} : jobs'[q] = jobs[q]
          /\ \A q \in Jobs : jobs'[q] # Nothing <=> jobs[q] # Nothing
          /\ jobs'[i].status = s /\ jobs'[i].cancelled = jobs[i].cancelled
      BY <1>0, <1>2, <2>3, SetStatusFacts
    <2>5. manifest'[i] # Nothing /\ manifest'[i].status = s /\ manifest'[i].touched = "new"
      <3>1. s \in Status \cup {Nothing}
        BY <1>2
      <3>2. manifest'[i] # Nothing /\ manifest'[i] = [status |-> s, touched |-> "new"]
        BY <1>0, <1>2, <2>3, <3>1, StoredFacts
      <3> QED BY <3>2
    <2>6. TypeOK' /\ Others(i)
      BY <1>0, <1>1, <1>3, <1>5, <2>1, <2>4 DEF TypeOK, Others
    <2>7. Filed' /\ Books'
      BY <1>0, <1>1, <2>1, <2>4, FiledStays, BooksStay DEF Inv
    <2>8. Kept(i)' /\ Handed(i)'
      BY <1>0, <1>1, <1>5, <2>1, <2>4 DEF Sound, Kept, Handed, Silent, Early, Working
    <2>9. Served(i)'
      BY <1>0, <1>1, <1>2, <1>5, <2>1, <2>2, <2>4, <2>5 DEF Served, Silent
    <2> QED BY <1>1, <2>6, <2>7, <2>8, <2>9, InvBut DEF Sound
  <1> QED BY <1>4, <1>5 DEF Confirm

LEMMA PruneFacts ==
  ASSUME Inv, Prune
  PROVE  /\ jobs' \in [Jobs -> JobRecord \cup {Nothing}]
         /\ idempotency' \in [Keys -> Jobs \cup {Nothing}]
         /\ manifest' \in [Jobs -> ManifestRecord \cup {Nothing}]
         /\ output' \in [Jobs -> {"none", "partial", "whole"}]
         /\ \A q \in Jobs : /\ jobs'[q] = IF Expired(q) THEN Nothing ELSE jobs[q]
                            /\ ~Prunable(q) => manifest'[q] = manifest[q] /\ output'[q] = output[q]
         /\ Filed'
  <1> DEFINE gone == {i \in Jobs : Expired(i)}
  <1>1. jobs' = JobsWithout(gone) /\ idempotency' = KeysWithout(gone) /\ gone \in SUBSET Jobs
    BY DEF Prune
  <1>2. /\ jobs' \in [Jobs -> JobRecord \cup {Nothing}]
        /\ idempotency' \in [Keys -> Jobs \cup {Nothing}]
        /\ \A q \in Jobs : jobs'[q] = IF q \in gone THEN Nothing ELSE jobs[q]
        /\ Filed'
    <2> HIDE DEF gone
    <2> QED BY <1>1, WithoutFacts DEF Inv
  <1>3. /\ manifest' \in [Jobs -> ManifestRecord \cup {Nothing}]
        /\ output' \in [Jobs -> {"none", "partial", "whole"}]
        /\ \A q \in Jobs : ~Prunable(q) => manifest'[q] = manifest[q] /\ output'[q] = output[q]
    BY DEF Inv, TypeOK, Prune
  <1> QED BY <1>2, <1>3

LEMMA PrunedSound ==
  ASSUME Inv, Prune, root' = root, waiter' = waiter, NEW q \in Jobs,
         \/ run'[q] = run[q] /\ work'[q] = work[q]
         \/ /\ run[q].at \in {"prune", "release"} /\ run'[q].at = "over"
            /\ ~work'[q].files \/ work'[q].files = work[q].files
  PROVE  Sound(q)'
  <1>1. /\ jobs'[q] = IF Expired(q) THEN Nothing ELSE jobs[q]
        /\ ~Prunable(q) => manifest'[q] = manifest[q] /\ output'[q] = output[q]
    BY PruneFacts
  <1>2. Sound(q) /\ TypeOK
    BY DEF Inv
  <1>3. run[q].at \in Working => ~Expired(q) /\ ~Prunable(q)
    BY <1>2 DEF Sound, Kept, Expired, Prunable, Active, Terminal
  <1>4. Kept(q)'
    BY <1>1, <1>2, <1>3 DEF Sound, Kept, Working
  <1>5. Handed(q)'
    BY <1>1, <1>2, <1>3 DEF Sound, Handed, Silent, Early, Working
  <1>6. Served(q)'
    <2> SUFFICES ASSUME jobs'[q] # Nothing, jobs'[q].status.state = "ready"
                 PROVE  Served(q)'
      BY DEF Served
    <2>1. ~Expired(q) /\ jobs'[q] = jobs[q] /\ jobs[q] # Nothing
          /\ jobs[q].status.state = "ready"
      BY <1>1
    <2>2. jobs[q].status.updated # "old"
      BY <2>1 DEF Expired, Terminal
    <2>3. ~Prunable(q)
      BY <1>2, <2>1, <2>2 DEF Sound, Served, Prunable
    <2> QED BY <1>1, <1>2, <2>1, <2>3 DEF Sound, Served, Silent
  <1> QED BY <1>4, <1>5, <1>6 DEF Sound

LEMMA DiscardedFacts ==
  ASSUME TypeOK, NEW i \in Jobs, work' = Discarded(i)
  PROVE  /\ work' \in [Jobs -> WorkRecord]
         /\ ~work'[i].files \/ work'[i].files = work[i].files
         /\ \A q \in Jobs \ {i} : work'[q] = work[q]
  <1>1. Fresh \in WorkRecord /\ ~Fresh.files
    BY DEF Fresh, WorkRecord
  <1>2. CASE work' = work
    BY <1>2 DEF TypeOK
  <1>3. CASE work' = [work EXCEPT ![i] = Fresh]
    BY <1>1, <1>3 DEF TypeOK
  <1> QED BY <1>2, <1>3 DEF Discarded

LEMMA PruneAndReleaseInv ==
  ASSUME Inv, NEW i \in Jobs, PruneAndRelease(i)
  PROVE  Inv'
  <1>0. /\ TypeOK /\ Books /\ run[i].at = "prune" /\ "over" \in RunPlaces /\ Prune
    BY DEF Inv, PruneAndRelease, At, RunPlaces
  <1>1. /\ UNCHANGED <<waiter, queue, root, troubles>>
        /\ held' = [held EXCEPT ![KindOf(i)] = @ - 1]
    BY DEF PruneAndRelease
  <1>2. /\ run' \in [Jobs -> RunRecord]
        /\ run'[i].at = "over" /\ \A q \in Jobs \ {i} : run'[q] = run[q]
    BY <1>0, GotoFacts DEF PruneAndRelease
  <1>3. /\ work' \in [Jobs -> WorkRecord]
        /\ ~work'[i].files \/ work'[i].files = work[i].files
        /\ \A q \in Jobs \ {i} : work'[q] = work[q]
    BY <1>0, DiscardedFacts DEF PruneAndRelease
  <1>4. Books' /\ held' \in [Kinds -> Nat]
    BY <1>0, <1>1, <1>2, BooksLess
  <1>5. TypeOK' /\ Filed'
    BY <1>0, <1>1, <1>2, <1>3, <1>4, PruneFacts DEF TypeOK, Kinds
  <1>6. ASSUME NEW q \in Jobs PROVE Sound(q)'
    BY <1>0, <1>1, <1>2, <1>3, PrunedSound
  <1> QED BY <1>4, <1>5, <1>6 DEF Inv

LEMMA MaintainInv ==
  ASSUME Inv, Maintain
  PROVE  Inv'
  <1>1. Prune /\ UNCHANGED <<held, run, waiter, work, queue, root, troubles>>
    BY DEF Maintain
  <1>2. TypeOK' /\ Filed'
    BY <1>1, PruneFacts DEF Inv, TypeOK
  <1>3. Books'
    BY <1>1 DEF Inv, Books, Busy, InProgress, InLine
  <1>4. ASSUME NEW q \in Jobs PROVE Sound(q)'
    BY <1>1, PrunedSound
  <1> QED BY <1>2, <1>3, <1>4 DEF Inv

LEMMA AccountJobStatusInv ==
  ASSUME Inv, NEW i \in Jobs, AccountJobStatus(i)
  PROVE  Inv'
  <1>0. /\ TypeOK /\ Sound(i) /\ jobs[i] # Nothing /\ jobs[i].status.state \in Terminal
    BY DEF Inv, AccountJobStatus, Expired
  <1>1. UNCHANGED <<held, run, waiter, work, queue, root, troubles>>
    BY DEF AccountJobStatus
  <1>2. /\ jobs' \in [Jobs -> JobRecord \cup {Nothing}]
        /\ idempotency' \in [Keys -> Jobs \cup {Nothing}]
        /\ jobs'[i] = Nothing /\ \A q \in Jobs \ {i} : jobs'[q] = jobs[q]
        /\ Filed'
    <2>1. jobs' = JobsWithout({i}) /\ idempotency' = KeysWithout({i}) /\ {i} \in SUBSET Jobs
      BY DEF AccountJobStatus
    <2> QED BY <1>0, <2>1, WithoutFacts DEF Inv
  <1>3. /\ manifest' \in [Jobs -> ManifestRecord \cup {Nothing}]
        /\ output' \in [Jobs -> {"none", "partial", "whole"}]
        /\ \A q \in Jobs \ {i} : manifest'[q] = manifest[q] /\ output'[q] = output[q]
    BY <1>0 DEF AccountJobStatus, TypeOK
  <1>4. TypeOK' /\ Others(i)
    BY <1>0, <1>1, <1>2, <1>3 DEF TypeOK, Others
  <1>5. Books'
    BY <1>1 DEF Inv, Books, Busy, InProgress, InLine
  <1>6. run[i].at \notin Working
    BY <1>0 DEF Sound, Kept, Active, Terminal
  <1>7. Sound(i)'
    BY <1>0, <1>1, <1>2, <1>6 DEF Sound, Kept, Handed, Served, Silent, Working, Early
  <1> QED BY <1>1, <1>2, <1>4, <1>5, <1>7, InvBut

LEMMA ReleaseInv ==
  ASSUME Inv, NEW i \in Jobs, Release(i)
  PROVE  Inv'
  <1>0. /\ TypeOK /\ Books /\ Sound(i) /\ run[i].at = "release" /\ "over" \in RunPlaces
    BY DEF Inv, Release, At, RunPlaces
  <1>1. /\ UNCHANGED <<jobs, idempotency, waiter, queue, manifest, output, root, troubles>>
        /\ held' = [held EXCEPT ![KindOf(i)] = @ - 1]
    BY DEF Release
  <1>2. /\ run' \in [Jobs -> RunRecord]
        /\ run'[i].at = "over" /\ \A q \in Jobs \ {i} : run'[q] = run[q]
    BY <1>0, GotoFacts DEF Release
  <1>3. /\ work' \in [Jobs -> WorkRecord]
        /\ ~work'[i].files \/ work'[i].files = work[i].files
        /\ \A q \in Jobs \ {i} : work'[q] = work[q]
    BY <1>0, DiscardedFacts DEF Release
  <1>4. Books' /\ held' \in [Kinds -> Nat]
    BY <1>0, <1>1, <1>2, BooksLess
  <1>5. TypeOK' /\ Others(i)
    BY <1>0, <1>1, <1>2, <1>3, <1>4 DEF TypeOK, Kinds, Others
  <1>6. Filed'
    BY <1>1, FiledStays DEF Inv
  <1>7. Kept(i)' /\ Handed(i)'
    BY <1>0, <1>1, <1>2, <1>3 DEF Sound, Kept, Handed, Silent, Working, Early
  <1>8. Served(i)'
    BY <1>0, <1>1 DEF Sound, Served
  <1> QED BY <1>1, <1>4, <1>5, <1>6, <1>7, <1>8, InvBut DEF Sound

-----------------------------------------------------------------------------
(* The goroutine of a ticket.                                              *)

\* What is left of a step of it: it touches no job that is ready.
LEMMA WatchInv ==
  ASSUME Inv, NEW i \in Jobs, ~Silent(i),
         UNCHANGED <<idempotency, held, run, queue, root>>, troubles' \in Nat,
         jobs' \in [Jobs -> JobRecord \cup {Nothing}], waiter' \in [Jobs -> WaiterRecord],
         work' \in [Jobs -> WorkRecord], manifest' \in [Jobs -> ManifestRecord \cup {Nothing}],
         output' \in [Jobs -> {"none", "partial", "whole"}],
         \A q \in Jobs \ {i} :
           /\ jobs'[q] = jobs[q] /\ waiter'[q] = waiter[q] /\ work'[q] = work[q]
           /\ manifest'[q] = manifest[q] /\ output'[q] = output[q],
         jobs'[i] # Nothing <=> jobs[i] # Nothing,
         jobs[i] # Nothing =>
           /\ jobs[i].status.state \in Active => jobs'[i].status.state \in Active
           /\ jobs[i].status.state # "ready" => jobs'[i].status.state # "ready",
         ~work'[i].files \/ (Silent(i)' /\ output'[i] = "whole")
  PROVE  Inv'
  <1>0. /\ TypeOK /\ Sound(i)
        /\ run[i].at \in {"wait", "judge", "finish", "release", "over"}
        /\ jobs[i] # Nothing => jobs[i].status.state # "ready"
    BY DEF Inv, Sound, Handed, Served
  <1>1. TypeOK' /\ Others(i)
    BY <1>0 DEF TypeOK, Others
  <1>2. Filed'
    BY FiledStays DEF Inv
  <1>3. Books'
    BY DEF Inv, Books, Busy, InProgress, InLine
  <1>4. Kept(i)'
    BY <1>0 DEF Sound, Kept, Working
  <1>5. Handed(i)'
    BY <1>0 DEF Sound, Handed, Early, Silent
  <1>6. Served(i)'
    BY <1>0 DEF Served
  <1> QED BY <1>1, <1>2, <1>3, <1>4, <1>5, <1>6, InvBut DEF Sound

LEMMA WaiterFacts ==
  ASSUME TypeOK, NEW i \in Jobs, NEW x \in WaiterRecord, waiter' = [waiter EXCEPT ![i] = x]
  PROVE  /\ waiter' \in [Jobs -> WaiterRecord] /\ waiter'[i] = x
         /\ \A q \in Jobs \ {i} : waiter'[q] = waiter[q]
  BY DEF TypeOK

LEMMA OverFacts ==
  ASSUME TypeOK, NEW i \in Jobs, waiter' = [waiter EXCEPT ![i] = Watching("over")]
  PROVE  /\ waiter' \in [Jobs -> WaiterRecord] /\ Silent(i)'
         /\ \A q \in Jobs \ {i} : waiter'[q] = waiter[q]
  <1> DEFINE x == Watching("over")
  <1>1. x \in WaiterRecord /\ x.at = "over"
    BY DEF Watching, WaiterRecord, WaiterPlaces
  <1>2. waiter' = [waiter EXCEPT ![i] = x]
    OBVIOUS
  <1> HIDE DEF x
  <1>3. /\ waiter' \in [Jobs -> WaiterRecord] /\ waiter'[i] = x
        /\ \A q \in Jobs \ {i} : waiter'[q] = waiter[q]
    BY <1>1, <1>2, WaiterFacts
  <1> QED BY <1>1, <1>3 DEF Silent

LEMMA AnsweredFacts ==
  ASSUME TypeOK, NEW i \in Jobs, NEW a \in {"ok", "error"}, work' = Answered(i, a)
  PROVE  /\ work' \in [Jobs -> WorkRecord] /\ work'[i].files = work[i].files
         /\ \A q \in Jobs \ {i} : work'[q] = work[q]
  <1> DEFINE b == IF work[i].answer = "none" THEN a ELSE work[i].answer
  <1>1. b \in {"none", "ok", "error"}
    <2>1. work[i] \in WorkRecord
      BY DEF TypeOK
    <2> QED BY <2>1 DEF WorkRecord
  <1>2. work' = [work EXCEPT ![i].answer = b]
    BY DEF Answered
  <1> HIDE DEF b
  <1> QED BY <1>1, <1>2, WorkFacts

LEMMA PollInv ==
  ASSUME Inv, NEW i \in Jobs, Poll(i)
  PROVE  Inv'
  <1>0. /\ TypeOK /\ Sound(i) /\ ~Silent(i) /\ ~work[i].files
    BY DEF Inv, Poll, WaiterAt, Silent, Sound, Handed
  <1>1. UNCHANGED <<jobs, idempotency, held, run, work, queue, manifest, output, root, troubles>>
    BY DEF Poll
  <1>2. PICK place \in {"deliver", "notify"}, s \in {"active", "ready", "failed"} :
          waiter' = [waiter EXCEPT ![i] = [@ EXCEPT !.at = place, !.seen = s]]
    BY DEF Poll
  <1> DEFINE x == [waiter[i] EXCEPT !.at = place, !.seen = s]
  <1>3. x \in WaiterRecord
    <2>1. waiter[i] \in WaiterRecord
      BY <1>0 DEF TypeOK
    <2> QED BY <2>1 DEF WaiterRecord, WaiterPlaces
  <1>4. waiter' = [waiter EXCEPT ![i] = x]
    BY <1>2
  <1> HIDE DEF x
  <1>5. waiter' \in [Jobs -> WaiterRecord] /\ \A q \in Jobs \ {i} : waiter'[q] = waiter[q]
    BY <1>0, <1>3, <1>4, WaiterFacts
  <1> QED BY <1>0, <1>1, <1>5, WatchInv DEF TypeOK

LEMMA NotifyInv ==
  ASSUME Inv, NEW i \in Jobs, Notify(i)
  PROVE  Inv'
  <1>0. /\ TypeOK /\ Sound(i) /\ ~Silent(i) /\ ~work[i].files /\ waiter[i] \in WaiterRecord
    BY DEF Inv, Notify, WaiterAt, Silent, Sound, Handed, TypeOK
  <1>1. UNCHANGED <<idempotency, held, run, work, queue, manifest, output, root, troubles>>
    BY DEF Notify
  <1>2. CASE jobs[i] = Nothing
    <2> DEFINE x == [waiter[i] EXCEPT !.at = "write"]
    <2>1. x \in WaiterRecord
      BY <1>0 DEF WaiterRecord, WaiterPlaces
    <2>2. waiter' = [waiter EXCEPT ![i] = x] /\ jobs' = jobs
      BY <1>2 DEF Notify
    <2> HIDE DEF x
    <2>3. waiter' \in [Jobs -> WaiterRecord] /\ \A q \in Jobs \ {i} : waiter'[q] = waiter[q]
      BY <1>0, <2>1, <2>2, WaiterFacts
    <2> QED BY <1>0, <1>1, <1>2, <2>2, <2>3, WatchInv DEF TypeOK
  <1>3. CASE jobs[i] # Nothing
    <2> DEFINE status == Notified(i, waiter[i].seen)
               x == [waiter[i] EXCEPT !.at = "write", !.writing = status]
    <2>1. /\ status \in Status
          /\ jobs[i].status.state \in Active => status.state \in Active
          /\ jobs[i].status.state # "ready" => status.state # "ready"
      BY <1>0, <1>3, NotifiedFacts
    <2>2. SetStatus(i, status) /\ waiter' = [waiter EXCEPT ![i] = x]
      BY <1>3 DEF Notify
    <2> HIDE DEF status
    <2>3. x \in WaiterRecord
      BY <1>0, <2>1 DEF WaiterRecord, WaiterPlaces
    <2> HIDE DEF x
    <2>4. waiter' \in [Jobs -> WaiterRecord] /\ \A q \in Jobs \ {i} : waiter'[q] = waiter[q]
      BY <1>0, <2>2, <2>3, WaiterFacts
    <2>5. /\ jobs' \in [Jobs -> JobRecord \cup {Nothing}]
          /\ \A q \in Jobs \ {i} : jobs'[q] = jobs[q]
          /\ jobs'[i] # Nothing /\ jobs'[i].status = status
      BY <1>0, <1>3, <2>1, <2>2, SetStatusFacts
    <2> QED BY <1>0, <1>1, <1>3, <2>1, <2>4, <2>5, WatchInv DEF TypeOK
  <1> QED BY <1>2, <1>3

LEMMA WaiterWriteInv ==
  ASSUME Inv, NEW i \in Jobs, WaiterWrite(i)
  PROVE  Inv'
  <1>0. /\ TypeOK /\ Sound(i) /\ ~Silent(i) /\ ~work[i].files /\ waiter[i] \in WaiterRecord
    BY DEF Inv, WaiterWrite, WaiterAt, Silent, Sound, Handed, TypeOK
  <1>1. UNCHANGED <<jobs, idempotency, held, run, work, queue, output, root>>
    BY DEF WaiterWrite
  <1>2. /\ manifest' \in [Jobs -> ManifestRecord \cup {Nothing}] /\ troubles' \in Nat
        /\ \A q \in Jobs \ {i} : manifest'[q] = manifest[q]
    <2>1. waiter[i].writing \in Status \cup {Nothing}
      BY <1>0 DEF WaiterRecord
    <2> QED BY <1>0, <2>1, PersistFacts DEF WaiterWrite
  <1> DEFINE x == IF waiter[i].seen = "active" THEN Watching("poll")
                  ELSE [at |-> "deliver", writing |-> Nothing, seen |-> waiter[i].seen]
  <1>3. x \in WaiterRecord
    BY <1>0 DEF WaiterRecord, WaiterPlaces, Watching
  <1>4. waiter' = [waiter EXCEPT ![i] = x]
    BY DEF WaiterWrite
  <1> HIDE DEF x
  <1>5. waiter' \in [Jobs -> WaiterRecord] /\ \A q \in Jobs \ {i} : waiter'[q] = waiter[q]
    BY <1>0, <1>3, <1>4, WaiterFacts
  <1> QED BY <1>0, <1>1, <1>2, <1>5, WatchInv DEF TypeOK

LEMMA DeliverInv ==
  ASSUME Inv, NEW i \in Jobs, Deliver(i)
  PROVE  Inv'
  <1>0. /\ TypeOK /\ Sound(i) /\ ~Silent(i) /\ ~work[i].files /\ waiter[i] \in WaiterRecord
    BY DEF Inv, Deliver, WaiterAt, Silent, Sound, Handed, TypeOK
  <1>1. UNCHANGED <<idempotency, held, run, queue, manifest, root, troubles>>
    BY DEF Deliver
  <1>2. CASE /\ output' = [output EXCEPT ![i] = "partial"]
             /\ waiter' = [waiter EXCEPT ![i].at = "copy"] /\ UNCHANGED <<jobs, work>>
    <2> DEFINE x == [waiter[i] EXCEPT !.at = "copy"]
    <2>1. x \in WaiterRecord
      BY <1>0 DEF WaiterRecord, WaiterPlaces
    <2>2. waiter' = [waiter EXCEPT ![i] = x]
      BY <1>2
    <2> HIDE DEF x
    <2>3. waiter' \in [Jobs -> WaiterRecord] /\ \A q \in Jobs \ {i} : waiter'[q] = waiter[q]
      BY <1>0, <2>1, <2>2, WaiterFacts
    <2>4. /\ output' \in [Jobs -> {"none", "partial", "whole"}]
          /\ \A q \in Jobs \ {i} : output'[q] = output[q]
      BY <1>0, <1>2 DEF TypeOK
    <2> QED BY <1>0, <1>1, <1>2, <2>3, <2>4, WatchInv DEF TypeOK
  <1>3. CASE /\ work' = Answered(i, "error") /\ waiter' = [waiter EXCEPT ![i] = Watching("over")]
             /\ UNCHANGED <<jobs, output>>
    <2>1. /\ work' \in [Jobs -> WorkRecord] /\ work'[i].files = work[i].files
          /\ \A q \in Jobs \ {i} : work'[q] = work[q]
      BY <1>0, <1>3, AnsweredFacts
    <2>2. waiter' \in [Jobs -> WaiterRecord] /\ \A q \in Jobs \ {i} : waiter'[q] = waiter[q]
      BY <1>0, <1>3, OverFacts
    <2> QED BY <1>0, <1>1, <1>3, <2>1, <2>2, WatchInv DEF TypeOK
  <1>4. CASE /\ jobs[i] # Nothing /\ UNCHANGED <<work, output>>
             /\ SetStatus(i, [jobs[i].status EXCEPT !.updated = "new"])
             /\ waiter' = [waiter EXCEPT ![i] =
                  [@ EXCEPT !.at = "say", !.writing = [jobs[i].status EXCEPT !.updated = "new"]]]
    <2> DEFINE status == [jobs[i].status EXCEPT !.updated = "new"]
               x == [waiter[i] EXCEPT !.at = "say", !.writing = status]
    <2>1. status \in Status /\ status.state = jobs[i].status.state
      <3>1. jobs[i].status \in Status
        BY <1>0, <1>4, JobFacts
      <3> QED BY <3>1 DEF Status, Ages
    <2>2. SetStatus(i, status) /\ waiter' = [waiter EXCEPT ![i] = x]
      BY <1>4
    <2> HIDE DEF status
    <2>3. x \in WaiterRecord
      BY <1>0, <2>1 DEF WaiterRecord, WaiterPlaces
    <2> HIDE DEF x
    <2>4. waiter' \in [Jobs -> WaiterRecord] /\ \A q \in Jobs \ {i} : waiter'[q] = waiter[q]
      BY <1>0, <2>2, <2>3, WaiterFacts
    <2>5. /\ jobs' \in [Jobs -> JobRecord \cup {Nothing}]
          /\ \A q \in Jobs \ {i} : jobs'[q] = jobs[q]
          /\ jobs'[i] # Nothing /\ jobs'[i].status = status
      BY <1>0, <1>4, <2>1, <2>2, SetStatusFacts
    <2> QED BY <1>0, <1>1, <1>4, <2>1, <2>4, <2>5, WatchInv DEF TypeOK
  <1>5. CASE waiter' = [waiter EXCEPT ![i] = Watching("over")] /\ UNCHANGED <<jobs, work, output>>
    <2>1. waiter' \in [Jobs -> WaiterRecord] /\ \A q \in Jobs \ {i} : waiter'[q] = waiter[q]
      BY <1>0, <1>5, OverFacts
    <2> QED BY <1>0, <1>1, <1>5, <2>1, WatchInv DEF TypeOK
  <1> QED BY <1>2, <1>3, <1>4, <1>5 DEF Deliver

LEMMA SayInv ==
  ASSUME Inv, NEW i \in Jobs, Say(i)
  PROVE  Inv'
  <1>0. /\ TypeOK /\ Sound(i) /\ ~Silent(i) /\ ~work[i].files /\ waiter[i] \in WaiterRecord
    BY DEF Inv, Say, WaiterAt, Silent, Sound, Handed, TypeOK
  <1>1. UNCHANGED <<jobs, idempotency, held, run, queue, output, root>>
    BY DEF Say
  <1>2. /\ manifest' \in [Jobs -> ManifestRecord \cup {Nothing}] /\ troubles' \in Nat
        /\ \A q \in Jobs \ {i} : manifest'[q] = manifest[q]
    <2>1. waiter[i].writing \in Status \cup {Nothing}
      BY <1>0 DEF WaiterRecord
    <2> QED BY <1>0, <2>1, PersistFacts DEF Say
  <1>3. /\ work' \in [Jobs -> WorkRecord] /\ work'[i].files = work[i].files
        /\ \A q \in Jobs \ {i} : work'[q] = work[q]
    BY <1>0, AnsweredFacts DEF Say
  <1>4. waiter' \in [Jobs -> WaiterRecord] /\ \A q \in Jobs \ {i} : waiter'[q] = waiter[q]
    BY <1>0, OverFacts DEF Say
  <1> QED BY <1>0, <1>1, <1>2, <1>3, <1>4, WatchInv DEF TypeOK

LEMMA WaiterCopyInv ==
  ASSUME Inv, NEW i \in Jobs, WaiterCopy(i)
  PROVE  Inv'
  <1>0. /\ TypeOK /\ Sound(i) /\ ~Silent(i) /\ ~work[i].files /\ waiter[i] \in WaiterRecord
    BY DEF Inv, WaiterCopy, WaiterAt, Silent, Sound, Handed, TypeOK
  <1>1. UNCHANGED <<jobs, idempotency, held, run, queue, manifest, root>>
    BY DEF WaiterCopy
  <1>2. /\ waiter' \in [Jobs -> WaiterRecord] /\ Silent(i)'
        /\ \A q \in Jobs \ {i} : waiter'[q] = waiter[q]
    BY <1>0, OverFacts DEF WaiterCopy
  <1>3. CASE /\ output' = [output EXCEPT ![i] = "whole"]
             /\ work' = [Answered(i, "ok") EXCEPT ![i].files = TRUE] /\ UNCHANGED troubles
    <2>1. /\ output' \in [Jobs -> {"none", "partial", "whole"}] /\ output'[i] = "whole"
          /\ \A q \in Jobs \ {i} : output'[q] = output[q]
      BY <1>0, <1>3 DEF TypeOK
    <2>2. work' \in [Jobs -> WorkRecord] /\ \A q \in Jobs \ {i} : work'[q] = work[q]
      <3> DEFINE b == IF work[i].answer = "none" THEN "ok" ELSE work[i].answer
                 x == [work[i] EXCEPT !.answer = b, !.files = TRUE]
      <3>1. x \in WorkRecord
        <4>1. work[i] \in WorkRecord
          BY <1>0 DEF TypeOK
        <4> QED BY <4>1 DEF WorkRecord
      <3>2. work' = [work EXCEPT ![i] = x]
        <4>1. Answered(i, "ok") = [work EXCEPT ![i] = [work[i] EXCEPT !.answer = b]]
          BY DEF Answered
        <4> HIDE DEF b
        <4> QED BY <1>0, <1>3, <4>1 DEF TypeOK
      <3> HIDE DEF x
      <3> QED BY <1>0, <3>1, <3>2 DEF TypeOK
    <2> QED BY <1>0, <1>1, <1>2, <1>3, <2>1, <2>2, WatchInv DEF TypeOK
  <1>4. CASE Fault /\ output' = [output EXCEPT ![i] = "none"] /\ work' = Answered(i, "error")
    <2>1. /\ output' \in [Jobs -> {"none", "partial", "whole"}] /\ troubles' \in Nat
          /\ \A q \in Jobs \ {i} : output'[q] = output[q]
      BY <1>0, <1>4 DEF TypeOK, Fault
    <2>2. /\ work' \in [Jobs -> WorkRecord] /\ work'[i].files = work[i].files
          /\ \A q \in Jobs \ {i} : work'[q] = work[q]
      BY <1>0, <1>4, AnsweredFacts
    <2> QED BY <1>0, <1>1, <1>2, <2>1, <2>2, WatchInv DEF TypeOK
  <1> QED BY <1>3, <1>4 DEF WaiterCopy

LEMMA AbandonInv ==
  ASSUME Inv, NEW i \in Jobs, Abandon(i)
  PROVE  Inv'
  <1>0. /\ TypeOK /\ Sound(i) /\ ~Silent(i) /\ ~work[i].files /\ work[i] \in WorkRecord
    BY DEF Inv, Abandon, WaiterAt, Silent, Sound, Handed, TypeOK
  <1>1. UNCHANGED <<jobs, idempotency, held, run, queue, manifest, output, root, troubles>>
    BY DEF Abandon
  <1>2. waiter' \in [Jobs -> WaiterRecord] /\ \A q \in Jobs \ {i} : waiter'[q] = waiter[q]
    BY <1>0, OverFacts DEF Abandon
  <1> DEFINE x == [work[i] EXCEPT !.ticket = "gone"]
  <1>3. x \in WorkRecord /\ x.files = work[i].files
    BY <1>0 DEF WorkRecord
  <1>4. work' = [work EXCEPT ![i] = x]
    BY DEF Abandon
  <1> HIDE DEF x
  <1>5. /\ work' \in [Jobs -> WorkRecord] /\ work'[i].files = work[i].files
        /\ \A q \in Jobs \ {i} : work'[q] = work[q]
    BY <1>0, <1>3, <1>4 DEF TypeOK
  <1> QED BY <1>0, <1>1, <1>2, <1>5, WatchInv DEF TypeOK

-----------------------------------------------------------------------------
(* Cancellation, timeouts, the process and time.                           *)

LEMMA EndContextFacts ==
  ASSUME TypeOK, NEW i \in Jobs, NEW reason \in {"cancelled", "timeout"}, EndContext(i, reason)
  PROVE  /\ work' \in [Jobs -> WorkRecord] /\ work'[i].files = work[i].files
         /\ \A q \in Jobs \ {i} : work'[q] = work[q]
  <1> DEFINE c == IF work[i].context = "open" THEN reason ELSE work[i].context
             u == work[i].cut \/ (reason = "cancelled" /\ jobs[i].capture)
             t == IF reason = "cancelled" /\ work[i].ticket = "live" THEN "gone"
                  ELSE work[i].ticket
             x == [work[i] EXCEPT !.context = c, !.cut = u, !.ticket = t]
  <1>1. work[i] \in WorkRecord
    BY DEF TypeOK
  <1>2. /\ c \in {"open", "cancelled", "timeout"} /\ u \in BOOLEAN
        /\ t \in {"none", "live", "gone"}
    BY <1>1 DEF WorkRecord
  <1>3. work' = [work EXCEPT ![i] = x]
    BY DEF EndContext
  <1> HIDE DEF c, u, t
  <1>4. x \in WorkRecord /\ x.files = work[i].files
    BY <1>1, <1>2 DEF WorkRecord
  <1> HIDE DEF x
  <1> QED BY <1>3, <1>4 DEF TypeOK

LEMMA CancelAccountJobInv ==
  ASSUME Inv, NEW i \in Jobs, CancelAccountJob(i)
  PROVE  Inv'
  <1>0. /\ TypeOK /\ Sound(i) /\ jobs[i] # Nothing /\ jobs[i] \in JobRecord
        /\ jobs[i].status.state \in Active
    BY JobFacts DEF Inv, CancelAccountJob
  <1>1. UNCHANGED <<idempotency, held, run, waiter, queue, manifest, output, root, troubles>>
    BY DEF CancelAccountJob
  <1>2. /\ work' \in [Jobs -> WorkRecord] /\ work'[i].files = work[i].files
        /\ \A q \in Jobs \ {i} : work'[q] = work[q]
    BY <1>0, EndContextFacts DEF CancelAccountJob
  <1> DEFINE x == [jobs[i] EXCEPT !.cancelled = TRUE]
  <1>3. x \in JobRecord /\ x.status = jobs[i].status
    BY <1>0 DEF JobRecord
  <1>4. x # Nothing /\ jobs' = [jobs EXCEPT ![i] = x]
    BY <1>3, NothingIsNoRecord DEF CancelAccountJob
  <1> HIDE DEF x
  <1>5. /\ jobs' \in [Jobs -> JobRecord \cup {Nothing}] /\ jobs'[i] = x
        /\ \A q \in Jobs \ {i} : jobs'[q] = jobs[q]
    BY <1>0, <1>3, <1>4 DEF TypeOK
  <1>6. TypeOK' /\ Others(i)
    BY <1>0, <1>1, <1>2, <1>5 DEF TypeOK, Others
  <1>7. Filed'
    BY <1>0, <1>1, <1>4, <1>5, FiledStays DEF Inv
  <1>8. Books'
    BY <1>1 DEF Inv, Books, Busy, InProgress, InLine
  <1>9. Kept(i)'
    BY <1>0, <1>1, <1>3, <1>4, <1>5 DEF Sound, Kept
  <1>10. Handed(i)'
    BY <1>0, <1>1, <1>2 DEF Sound, Handed, Silent
  <1>11. Served(i)'
    BY <1>0, <1>3, <1>5 DEF Served, Active
  <1> QED BY <1>1, <1>6, <1>7, <1>8, <1>9, <1>10, <1>11, InvBut DEF Sound

LEMMA TimeOutInv ==
  ASSUME Inv, NEW i \in Jobs, TimeOut(i)
  PROVE  Inv'
  <1>1. UNCHANGED <<jobs, idempotency, held, run, waiter, queue, manifest, output, root, troubles>>
    BY DEF TimeOut
  <1>2. /\ work' \in [Jobs -> WorkRecord] /\ work'[i].files = work[i].files
        /\ \A q \in Jobs \ {i} : work'[q] = work[q]
    BY EndContextFacts DEF Inv, TimeOut
  <1>3. TypeOK' /\ Filed' /\ Others(i)
    BY <1>1, <1>2, FiledStays DEF Inv, TypeOK, Others
  <1>4. Books'
    BY <1>1 DEF Inv, Books, Busy, InProgress, InLine
  <1>5. Sound(i)'
    BY <1>1, <1>2, SoundStays DEF Inv
  <1> QED BY <1>1, <1>3, <1>4, <1>5, InvBut

LEMMA StopInv ==
  ASSUME Inv, Stop
  PROVE  Inv'
  <1>1. UNCHANGED <<jobs, idempotency, held, run, waiter, queue, manifest, output, troubles>>
        /\ root' = "stopping"
    BY DEF Stop
  <1>2. ASSUME NEW q \in Jobs
        PROVE  work'[q] \in WorkRecord /\ work'[q].files = work[q].files
    <2>1. work[q] \in WorkRecord
      BY DEF Inv, TypeOK
    <2>2. work'[q] = work[q] \/ work'[q] = [work[q] EXCEPT !.context = "cancelled"]
      BY DEF Stop
    <2> QED BY <2>1, <2>2 DEF WorkRecord
  <1>3. work' \in [Jobs -> WorkRecord]
    <2> DEFINE f(q) == IF work[q].context = "open" /\ run[q].at \notin {"unborn", "over"}
                       THEN [work[q] EXCEPT !.context = "cancelled"] ELSE work[q]
    <2>1. work' = [q \in Jobs |-> f(q)]
      BY DEF Stop
    <2> HIDE DEF f
    <2> QED BY <1>2, <2>1
  <1>4. TypeOK' /\ Filed'
    BY <1>1, <1>3, FiledStays DEF Inv, TypeOK
  <1>5. Books'
    BY <1>1 DEF Inv, Books, Busy, InProgress, InLine
  <1>6. ASSUME NEW q \in Jobs PROVE Sound(q)'
    BY <1>1, <1>2, SoundStays DEF Inv
  <1> QED BY <1>4, <1>5, <1>6 DEF Inv

LEMMA CrashInv ==
  ASSUME Inv, Crash
  PROVE  Inv'
  <1>1. /\ root' = "down" /\ UNCHANGED <<manifest, output>> /\ troubles' \in Nat
        /\ jobs' = [i \in Jobs |-> Nothing] /\ idempotency' = [k \in Keys |-> Nothing]
        /\ held' = [k \in {"forecast", "horizon"} |-> 0]
        /\ waiter' = [i \in Jobs |-> Watching("over")] /\ work' = [i \in Jobs |-> Fresh]
        /\ queue' = [holders |-> {}, waiting |-> 0]
    BY DEF Crash, Fault, Inv, TypeOK
  <1>2. /\ run' \in [Jobs -> RunRecord] /\ \A q \in Jobs : run'[q].at \in {"unborn", "over"}
    <2> DEFINE f(i) == Idle(IF run[i].at = "unborn" THEN "unborn" ELSE "over")
    <2>1. ASSUME NEW q \in Jobs PROVE f(q) \in RunRecord /\ f(q).at \in {"unborn", "over"}
      BY DEF Idle, RunRecord, RunPlaces
    <2>2. run' = [q \in Jobs |-> f(q)]
      BY DEF Crash
    <2> HIDE DEF f
    <2> QED BY <2>1, <2>2
  <1>3. Watching("over") \in WaiterRecord /\ Watching("over").at = "over"
    BY DEF Watching, WaiterRecord, WaiterPlaces
  <1>4. Fresh \in WorkRecord /\ ~Fresh.files
    BY DEF Fresh, WorkRecord
  <1>5. TypeOK'
    BY <1>1, <1>2, <1>3, <1>4 DEF Inv, TypeOK
  <1>6. Filed'
    BY <1>1, AccountConstants DEF Filed
  <1>7. Books'
    <2>1. \A k \in Kinds : Busy(k)' = {}
      BY <1>2 DEF Busy, InProgress
    <2>2. InLine' = {} /\ {i \in Jobs : run'[i].at \in {"calculate", "copy"}} = {}
      BY <1>2 DEF InLine
    <2> QED BY <1>1, <2>1, <2>2, FS_EmptySet DEF Books, Kinds
  <1>8. ASSUME NEW q \in Jobs PROVE Sound(q)'
    <2>1. jobs'[q] = Nothing /\ Silent(q)' /\ ~work'[q].files
      BY <1>1, <1>3, <1>4 DEF Silent
    <2> QED BY <1>2, <2>1 DEF Sound, Kept, Handed, Served, Working
  <1> QED BY <1>5, <1>6, <1>7, <1>8 DEF Inv

LEMMA RestartInv ==
  ASSUME Inv, Restart
  PROVE  Inv'
  <1>1. /\ root = "down" /\ root' = "up"
        /\ UNCHANGED <<jobs, idempotency, held, run, waiter, work, queue, troubles>>
    BY DEF Restart
  <1>2. [status |-> NewStatus("failed"), touched |-> "new"] \in ManifestRecord
    BY StatusFacts DEF ManifestRecord, Ages, Terminal
  <1>3. /\ manifest' \in [Jobs -> ManifestRecord \cup {Nothing}]
        /\ output' \in [Jobs -> {"none", "partial", "whole"}]
    BY <1>2 DEF Restart, Inv, TypeOK
  <1>4. TypeOK' /\ Filed'
    BY <1>1, <1>3, FiledStays DEF Inv, TypeOK
  <1>5. Books'
    BY <1>1 DEF Inv, Books, Busy, InProgress, InLine
  <1>6. ASSUME NEW q \in Jobs PROVE Sound(q)'
    <2>1. Sound(q) /\ jobs[q] = Nothing /\ run[q].at \notin Working
      BY <1>1 DEF Inv, Sound, Kept
    <2> QED BY <1>1, <2>1 DEF Sound, Kept, Handed, Served, Silent, Working
  <1> QED BY <1>4, <1>5, <1>6 DEF Inv

LEMMA AgedFacts ==
  /\ \A x \in JobRecord : /\ Aged(x) \in JobRecord /\ Aged(x) # Nothing
                          /\ Aged(x).status.state = x.status.state
                          /\ Aged(x).status.updated = "old" /\ Aged(x).cancelled = x.cancelled
  /\ \A x \in ManifestRecord :
       LET y == [Aged(x) EXCEPT !.touched = "old"]
       IN  y \in ManifestRecord /\ y # Nothing /\ y.status.state = x.status.state
  <1>1. ASSUME NEW s \in Status
        PROVE  [s EXCEPT !.updated = "old"] \in Status /\ [s EXCEPT !.updated = "old"].state = s.state
               /\ [s EXCEPT !.updated = "old"].updated = "old"
    BY DEF Status, Ages
  <1>2. ASSUME NEW x \in JobRecord
        PROVE  /\ Aged(x) \in JobRecord /\ Aged(x) # Nothing
               /\ Aged(x).status.state = x.status.state
               /\ Aged(x).status.updated = "old" /\ Aged(x).cancelled = x.cancelled
    <2> DEFINE s == [x.status EXCEPT !.updated = "old"]
    <2>1. s \in Status /\ s.state = x.status.state /\ s.updated = "old"
      BY <1>1 DEF JobRecord
    <2>2. Aged(x) = [x EXCEPT !.status = s]
      BY DEF Aged
    <2> HIDE DEF s
    <2>3. Aged(x) \in JobRecord /\ Aged(x).status = s /\ Aged(x).cancelled = x.cancelled
      BY <2>1, <2>2 DEF JobRecord
    <2> QED BY <2>1, <2>3, NothingIsNoRecord
  <1>3. ASSUME NEW x \in ManifestRecord
        PROVE  LET y == [Aged(x) EXCEPT !.touched = "old"]
               IN  y \in ManifestRecord /\ y # Nothing /\ y.status.state = x.status.state
    <2> DEFINE s == [x.status EXCEPT !.updated = "old"]
               y == [Aged(x) EXCEPT !.touched = "old"]
    <2>1. s \in Status /\ s.state = x.status.state
      BY <1>1 DEF ManifestRecord
    <2>2. Aged(x) = [x EXCEPT !.status = s]
      BY DEF Aged
    <2> HIDE DEF s
    <2>3. y \in ManifestRecord /\ y.status = s
      BY <2>1, <2>2 DEF ManifestRecord, Ages
    <2>4. y # Nothing
      BY <2>3, NothingIsNoRecord
    <2> QED BY <2>1, <2>3, <2>4
  <1> QED BY <1>2, <1>3

LEMMA ExpireInv ==
  ASSUME Inv, Expire
  PROVE  Inv'
  <1>1. UNCHANGED <<idempotency, held, run, waiter, work, queue, output, root, troubles>>
    BY DEF Expire
  <1>2. ASSUME NEW q \in Jobs
        PROVE  /\ jobs'[q] \in JobRecord \cup {Nothing}
               /\ jobs'[q] = Nothing <=> jobs[q] = Nothing
               /\ jobs[q] # Nothing => /\ jobs'[q].status.state = jobs[q].status.state
                                       /\ jobs'[q].status.updated = "old"
                                       /\ jobs'[q].cancelled = jobs[q].cancelled
    <2>1. jobs'[q] = IF jobs[q] = Nothing THEN Nothing ELSE Aged(jobs[q])
      BY DEF Expire
    <2>2. jobs[q] # Nothing => jobs[q] \in JobRecord
      BY DEF Inv, TypeOK
    <2> QED BY <2>1, <2>2, AgedFacts
  <1>3. ASSUME NEW q \in Jobs
        PROVE  /\ manifest'[q] \in ManifestRecord \cup {Nothing}
               /\ manifest[q] # Nothing => /\ manifest'[q] # Nothing
                                           /\ manifest'[q].status.state = manifest[q].status.state
    <2>1. manifest'[q] = IF manifest[q] = Nothing THEN Nothing
                         ELSE [Aged(manifest[q]) EXCEPT !.touched = "old"]
      BY DEF Expire
    <2>2. manifest[q] # Nothing => manifest[q] \in ManifestRecord
      BY DEF Inv, TypeOK
    <2> QED BY <2>1, <2>2, AgedFacts
  <1>4. jobs' \in [Jobs -> JobRecord \cup {Nothing}]
    <2>1. jobs' = [q \in Jobs |-> jobs'[q]]
      BY DEF Expire
    <2>2. \A q \in Jobs : jobs'[q] \in JobRecord \cup {Nothing}
      BY <1>2
    <2> QED BY <2>1, <2>2
  <1>5. manifest' \in [Jobs -> ManifestRecord \cup {Nothing}]
    <2>1. manifest' = [q \in Jobs |-> manifest'[q]]
      BY DEF Expire
    <2>2. \A q \in Jobs : manifest'[q] \in ManifestRecord \cup {Nothing}
      BY <1>3
    <2> QED BY <2>1, <2>2
  <1>6. TypeOK'
    BY <1>1, <1>4, <1>5 DEF Inv, TypeOK
  <1>7. Filed'
    BY <1>1, <1>2, FiledStays DEF Inv
  <1>8. Books'
    BY <1>1 DEF Inv, Books, Busy, InProgress, InLine
  <1>9. ASSUME NEW q \in Jobs PROVE Sound(q)'
    <2>1. Sound(q)
      BY DEF Inv
    <2>2. Kept(q)'
      BY <1>1, <1>2, <2>1 DEF Sound, Kept
    <2>3. Handed(q)'
      BY <1>1, <2>1 DEF Sound, Handed, Silent, NewStatus
    <2>4. Served(q)'
      BY <1>1, <1>2, <1>3, <2>1 DEF Sound, Served, Silent
    <2> QED BY <2>2, <2>3, <2>4 DEF Sound
  <1> QED BY <1>6, <1>7, <1>8, <1>9 DEF Inv

LEMMA NextInv ==
  ASSUME Inv, [Next]_vars
  PROVE  Inv'
  <1>1. CASE \E i \in Jobs : AdmitAccountJob(i) \/ CancelAccountJob(i) \/ TimeOut(i)
                             \/ AccountJobStatus(i)
    BY <1>1, AdmitAccountJobInv, CancelAccountJobInv, TimeOutInv, AccountJobStatusInv
  <1>2. CASE \E i \in Jobs : Step(i)
    <2>1. PICK i \in Jobs : Step(i)
      BY <1>2
    <2>2. CASE AdmitStored(i) \/ AdmitRejected(i) \/ Begin(i) \/ Write(i) \/ Open(i)
      BY <2>2, AdmitStoredInv, AdmitRejectedInv, BeginInv, WriteInv, OpenInv
    <2>3. CASE Enter(i) \/ LeaveLine(i) \/ TakeSlot(i) \/ Calculate(i) \/ Copy(i)
      BY <2>3, EnterInv, LeaveLineInv, TakeSlotInv, CalculateInv, CopyInv
    <2>4. CASE Submit(i) \/ WaitHorizon(i) \/ Judge(i) \/ Publish(i) \/ Confirm(i)
      BY <2>4, SubmitInv, WaitHorizonInv, JudgeInv, PublishInv, ConfirmInv
    <2>5. CASE PruneAndRelease(i) \/ Release(i)
      BY <2>5, PruneAndReleaseInv, ReleaseInv
    <2> QED BY <2>1, <2>2, <2>3, <2>4, <2>5 DEF Step
  <1>3. CASE \E i \in Jobs : Report(i)
    BY <1>3, PollInv, NotifyInv, WaiterWriteInv, DeliverInv, SayInv, WaiterCopyInv, AbandonInv
       DEF Report
  <1>4. CASE Maintain \/ Stop \/ Crash \/ Restart \/ Expire
    BY <1>4, MaintainInv, StopInv, CrashInv, RestartInv, ExpireInv
  <1>5. CASE UNCHANGED vars
    <2>1. TypeOK' /\ Filed' /\ Books'
      BY <1>5 DEF Inv, vars, TypeOK, Filed, Books, Busy, InProgress, InLine
    <2>2. ASSUME NEW q \in Jobs PROVE Sound(q)'
      BY <1>5, SoundStays DEF Inv, vars
    <2> QED BY <2>1, <2>2 DEF Inv
  <1> QED BY <1>1, <1>2, <1>3, <1>4, <1>5 DEF Next

-----------------------------------------------------------------------------
(* What a step does to a job that is ready.                                *)

\* The status is set by the goroutines of the job.
LEMMA SetElsewhere ==
  ASSUME TypeOK, NEW j \in Jobs, NEW i \in Jobs, i # j, NEW status, SetStatus(j, status)
  PROVE  jobs'[i] = jobs[i]
  BY DEF TypeOK, SetStatus

LEMMA StepElsewhere ==
  ASSUME Inv, NEW j \in Jobs, NEW i \in Jobs, i # j, Step(j), ~PruneAndRelease(j)
  PROVE  jobs'[i] = jobs[i]
  <1>0. TypeOK
    BY DEF Inv
  <1>1. ASSUME NEW status, NEW place, Update(j, status, place) PROVE jobs'[i] = jobs[i]
    BY <1>0, <1>1, SetElsewhere DEF Update
  <1>2. CASE AdmitStored(j) \/ AdmitRejected(j) \/ Begin(j) \/ Write(j) \/ Open(j)
    <2>1. CASE AdmitStored(j) \/ Write(j)
      BY <2>1 DEF AdmitStored, Write
    <2>2. CASE AdmitRejected(j)
      BY <2>2 DEF AdmitRejected, JobsWithout
    <2>3. CASE Begin(j)
      BY <1>0, <2>3, SetElsewhere DEF Begin
    <2>4. CASE Open(j)
      <3>1. CASE jobs' = IF jobs[j] = Nothing THEN jobs ELSE [jobs EXCEPT ![j].capture = TRUE]
        BY <1>0, <3>1 DEF TypeOK
      <3> QED BY <1>1, <2>4, <3>1 DEF Open
    <2> QED BY <1>2, <2>1, <2>2, <2>3, <2>4
  <1>3. CASE \/ Enter(j) \/ LeaveLine(j) \/ TakeSlot(j) \/ Calculate(j) \/ Copy(j)
             \/ WaitHorizon(j) \/ Release(j)
    BY <1>3 DEF Enter, LeaveLine, TakeSlot, Calculate, Copy, WaitHorizon, Release
  <1>4. CASE Submit(j)
    BY <1>1, <1>4 DEF Submit
  <1>5. CASE Judge(j)
    BY <1>1, <1>5 DEF Judge
  <1>6. CASE Publish(j)
    BY <1>1, <1>6 DEF Publish, GiveUp
  <1>7. CASE Confirm(j)
    BY <1>0, <1>1, <1>7, SetElsewhere DEF Confirm, GiveUp
  <1> QED BY <1>2, <1>3, <1>4, <1>5, <1>6, <1>7 DEF Step

LEMMA ReportElsewhere ==
  ASSUME Inv, NEW j \in Jobs, NEW i \in Jobs, i # j, Report(j)
  PROVE  jobs'[i] = jobs[i]
  <1>0. TypeOK
    BY DEF Inv
  <1>1. CASE Poll(j) \/ WaiterWrite(j) \/ Say(j) \/ WaiterCopy(j) \/ Abandon(j)
    BY <1>1 DEF Poll, WaiterWrite, Say, WaiterCopy, Abandon
  <1>2. CASE Notify(j)
    BY <1>0, <1>2, SetElsewhere DEF Notify
  <1>3. CASE Deliver(j)
    BY <1>0, <1>3, SetElsewhere DEF Deliver
  <1> QED BY <1>1, <1>2, <1>3 DEF Report

LEMMA ReadyKept ==
  ASSUME Inv, [Next]_vars, NEW i \in Jobs, jobs[i] # Nothing, jobs[i].status.state = "ready"
  PROVE  \/ jobs[i].status.updated = "old" \/ root' = "down"
         \/ jobs'[i] # Nothing /\ jobs'[i].status.state = "ready"
  <1>0. /\ TypeOK /\ run[i].at \in {"prune", "over"} /\ Silent(i) /\ root # "down"
    BY DEF Inv, Sound, Served, Kept
  <1> SUFFICES ASSUME jobs[i].status.updated # "old", root' # "down"
               PROVE  jobs'[i] # Nothing /\ jobs'[i].status.state = "ready"
    OBVIOUS
  <1>1. CASE Prune
    BY <1>1 DEF Prune, JobsWithout, Expired
  <1>2. CASE \E j \in Jobs : AdmitAccountJob(j) \/ CancelAccountJob(j) \/ TimeOut(j)
                             \/ AccountJobStatus(j)
    <2>1. PICK j \in Jobs : AdmitAccountJob(j) \/ CancelAccountJob(j) \/ TimeOut(j)
                            \/ AccountJobStatus(j)
      BY <1>2
    <2>2. CASE AdmitAccountJob(j)
      <3>1. i # j
        BY <1>0, <2>2 DEF AdmitAccountJob
      <3> QED BY <1>0, <2>2, <3>1 DEF AdmitAccountJob, TypeOK
    <2>3. CASE CancelAccountJob(j)
      <3>1. i # j
        BY <2>3 DEF CancelAccountJob, Active
      <3> QED BY <1>0, <2>3, <3>1 DEF CancelAccountJob, TypeOK
    <2>4. CASE TimeOut(j)
      BY <2>4 DEF TimeOut
    <2>5. CASE AccountJobStatus(j)
      <3>1. i # j
        BY <2>5 DEF AccountJobStatus, Expired
      <3> QED BY <2>5, <3>1 DEF AccountJobStatus, JobsWithout
    <2> QED BY <2>1, <2>2, <2>3, <2>4, <2>5
  <1>3. CASE \E j \in Jobs : Step(j)
    <2>1. PICK j \in Jobs : Step(j)
      BY <1>3
    <2>2. CASE PruneAndRelease(j)
      BY <1>1, <2>2 DEF PruneAndRelease
    <2>3. CASE ~PruneAndRelease(j) /\ i # j
      BY <2>1, <2>3, StepElsewhere
    <2>4. CASE ~PruneAndRelease(j) /\ i = j
      <3>1. FALSE
        BY <1>0, <2>1, <2>4
           DEF Step, AdmitStored, AdmitRejected, Begin, Write, After, Open, Enter, LeaveLine,
               TakeSlot, Calculate, Copy, Submit, WaitHorizon, Judge, Publish, Confirm,
               Release, At
      <3> QED BY <3>1
    <2> QED BY <2>2, <2>3, <2>4
  <1>4. CASE \E j \in Jobs : Report(j)
    <2>1. PICK j \in Jobs : Report(j)
      BY <1>4
    <2>2. i # j
      BY <1>0, <2>1 DEF Silent, Report, Poll, Notify, WaiterWrite, Deliver, Say, WaiterCopy,
         Abandon, WaiterAt
    <2> QED BY <2>1, <2>2, ReportElsewhere
  <1>5. CASE Maintain
    BY <1>1, <1>5 DEF Maintain
  <1>6. CASE Stop
    BY <1>6 DEF Stop
  <1>7. CASE Crash \/ Restart
    BY <1>0, <1>7 DEF Crash, Restart
  <1>8. CASE Expire
    <2>1. jobs'[i] = Aged(jobs[i]) /\ jobs[i] \in JobRecord
      BY <1>0, <1>8 DEF Expire, TypeOK
    <2> QED BY <2>1, AgedFacts
  <1>9. CASE UNCHANGED vars
    BY <1>9 DEF vars
  <1> QED BY <1>2, <1>3, <1>4, <1>5, <1>6, <1>7, <1>8, <1>9 DEF Next

-----------------------------------------------------------------------------
(* The theorems.                                                           *)

\* What the properties below follow from, kept by every step of the jobs
\* (account_results.go:212, 404, 541).
THEOREM Invariant == Spec => []Inv
  <1>1. Init => Inv
    BY InitInv
  <1> QED BY <1>1, NextInv, PTL DEF Spec

\* Every token of the job slots, every place of ForecastQueue and every key is
\* accounted for, whatever fails or is killed
\* (account_results.go:212, 404, 603, 824; forecast_queue.go:42, 60).
THEOREM BooksAreExact == Spec => []BooksExact
  <1>1. Inv => BooksExact
    BY DEF Inv, Books, Busy, InLine, Filed, BooksExact
  <1> QED BY <1>1, Invariant, PTL

\* A job whose cancellation was accepted is never ready
\* (account_results.go:387, 541, 563).
THEOREM CancellationWins == Spec => []CancelWins
  <1>1. Inv => CancelWins
    BY DEF Inv, Sound, Served, CancelWins
  <1> QED BY <1>1, Invariant, PTL

\* Whatever late writers and cleaners do, a ready job has its manifest and its
\* complete dataset (account_results.go:556, 623, 777).
THEOREM ReadyJobsAreServed == Spec => []ReadyIsServed
  <1>1. Inv => ReadyIsServed
    BY DEF Inv, Sound, Served, ReadyIsServed
  <1> QED BY <1>1, Invariant, PTL

\* A ready job stays ready until it is older than resultTTL or the process ends
\* (account_results.go:428, 777).
THEOREM ReadyJobsStay == Spec => ReadyStays
  <1>1. ASSUME Inv, [Next]_vars
        PROVE  [\A i \in Jobs :
                  jobs[i] # Nothing /\ jobs[i].status.state = "ready" =>
                    \/ jobs[i].status.updated = "old" \/ root' = "down"
                    \/ jobs'[i] # Nothing /\ jobs'[i].status.state = "ready"]_vars
    BY <1>1, ReadyKept
  <1> QED BY <1>1, Invariant, PTL DEF Spec, ReadyStays
=============================================================================
