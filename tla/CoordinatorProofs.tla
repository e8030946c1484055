------------------------- MODULE CoordinatorProofs -------------------------
(* Theorems about the directional coordinator, for every value of its      *)
(* constants: any number of workers, jobs, owners, keys, requests, any     *)
(* capacity and any limit.                                                 *)
EXTENDS CoordinatorLemmas, FiniteSetTheorems

-----------------------------------------------------------------------------
(* The inductive invariant.                                                *)

\* The FIFO, the slots and the states of jobs agree.
Shape(s) ==
  /\ \A n \in 1..Len(s.queue) : s.job[s.queue[n]].state = "queued"
  /\ \A j \in JobIds : s.job[j].state = "queued" =>
       \E n \in 1..Len(s.queue) : s.queue[n] = j
  /\ \A m, n \in 1..Len(s.queue) : s.queue[m] = s.queue[n] => m = n
  /\ Len(s.queue) <= QueueCapacity
  /\ \A j \in s.active : s.job[j].state \notin {"unused", "queued"}
  /\ \A j \in JobIds : s.job[j].state = "running" => j \in s.active

\* The busy workers hold the slots, one each.
Holding ==
  /\ \A w \in Busy : worker[w].job \in JobIds
  /\ reg.active = {worker[w].job : w \in Busy}
  /\ \A v, w \in Busy : worker[v].job = worker[w].job => v = w

\* A run about to be recorded as a success has a final science identity, and
\* no worker is anywhere before Start.
Progressed ==
  /\ \A w \in Workers :
       \/ worker[w].pc = "publishing"
       \/ worker[w].pc = "recording" /\ worker[w].err = "none"
       => worker[w].final \in ScienceDigests
  /\ ~started => \A w \in Workers : worker[w].pc = "off"

Inv == TypeOK /\ Shape(reg) /\ Holding /\ Progressed

\* What a step can do to the FIFO, the slots and the states of jobs, of which
\* the actions of BoundedFifo are the counterparts.
Serving(s, t) ==
  \E j \in JobIds :
    /\ s.job[j].state = "unused" /\ Changed(s, t, {j}, "ready")
    /\ t.queue = s.queue /\ t.active = s.active

Admitting(s, t) ==
  \E j \in JobIds :
    /\ s.job[j].state = "unused" /\ Changed(s, t, {j}, "queued")
    /\ Len(s.queue) < QueueCapacity
    /\ t.queue = Append(s.queue, j) /\ t.active = s.active
    /\ unsignalled' = unsignalled + 1

Beginning(s, t) ==
  /\ s.queue # <<>> /\ Cardinality(s.active) < Cardinality(Workers)
  /\ Head(s.queue) \in JobIds /\ s.job[Head(s.queue)].state = "queued"
  /\ Changed(s, t, {Head(s.queue)}, "running")
  /\ t.queue = Tail(s.queue) /\ t.active = s.active \cup {Head(s.queue)}

Aborting(s, t) ==
  \E j \in JobIds :
    /\ s.job[j].state = "running" /\ Changed(s, t, {j}, "cancelled")
    /\ t.queue = s.queue /\ t.active = s.active

Withdrawing(s, t) ==
  \E i \in 1..Len(s.queue) :
    /\ Changed(s, t, {s.queue[i]}, "cancelled")
    /\ t.queue = RemoveAt(s.queue, i) /\ t.active = s.active

Flushing(s, t) ==
  /\ Changed(s, t, ToSet(s.queue), "cancelled")
  /\ t.queue = <<>> /\ t.active = s.active

Ending(s, t) ==
  \E j \in s.active :
    /\ t.queue = s.queue /\ t.active = s.active \ {j}
    /\ \/ Terminal(s, j) /\ Changed(s, t, {}, "ready")
       \/ /\ ~Terminal(s, j)
          /\ \E st \in {"ready", "failed", "cancelled"} : Changed(s, t, {j}, st)

Effect(s, t) ==
  \/ SameStates(s, t) \/ Serving(s, t) \/ Admitting(s, t) \/ Beginning(s, t)
  \/ Aborting(s, t) \/ Withdrawing(s, t) \/ Flushing(s, t) \/ Ending(s, t)

-----------------------------------------------------------------------------
(* The shape of the registry after each kind of change.                    *)

LEMMA QueueType ==
  ASSUME NEW s \in Registry
  PROVE  /\ s.queue \in Seq(JobIds) /\ Len(s.queue) \in Nat
         /\ DOMAIN s.queue = 1..Len(s.queue)
         /\ \A n \in 1..Len(s.queue) : s.queue[n] \in JobIds
         /\ s.active \in SUBSET JobIds
  <1>1. s.queue \in Seq(JobIds) /\ s.active \in SUBSET JobIds
    BY DEF Registry
  <1> QED BY <1>1, LenProperties, ElementOfSeq

LEMMA ShapeSame ==
  ASSUME NEW s \in Registry, NEW t, Shape(s), SameStates(s, t)
  PROVE  Shape(t)
  BY QueueType DEF Shape, SameStates

\* A job that is not queued ends, with or without its slot.
LEMMA ShapeEnd ==
  ASSUME NEW s \in Registry, NEW t, Shape(s), NEW j \in JobIds,
         s.job[j].state # "queued",
         NEW state \in {"ready", "failed", "cancelled"},
         Changed(s, t, {j}, state), t.queue = s.queue,
         t.active = s.active \/ t.active = s.active \ {j}
  PROVE  Shape(t)
  <1>1. \A k \in JobIds : t.job[k].state = IF k = j THEN state ELSE s.job[k].state
    BY DEF Changed
  <1>2. \A n \in 1..Len(t.queue) : t.job[t.queue[n]].state = "queued"
    BY <1>1, QueueType DEF Shape
  <1>3. /\ \A k \in t.active : t.job[k].state \notin {"unused", "queued"}
        /\ \A k \in JobIds : t.job[k].state = "running" => k \in t.active
    BY <1>1, QueueType DEF Shape
  <1>4. \A k \in JobIds : t.job[k].state = "queued" => s.job[k].state = "queued"
    BY <1>1
  <1> QED BY <1>2, <1>3, <1>4 DEF Shape

\* A completed job gives its slot back.
LEMMA ShapeFreed ==
  ASSUME NEW s \in Registry, NEW t, Shape(s), NEW j \in JobIds, Terminal(s, j),
         Changed(s, t, {}, "ready"), t.queue = s.queue, t.active = s.active \ {j}
  PROVE  Shape(t)
  BY QueueType DEF Shape, Changed, Terminal

LEMMA ShapeAdmitted ==
  ASSUME NEW s \in Registry, NEW t, Shape(s), NEW j \in JobIds,
         s.job[j].state = "unused", Len(s.queue) < QueueCapacity,
         Changed(s, t, {j}, "queued"), t.queue = Append(s.queue, j),
         t.active = s.active
  PROVE  Shape(t)
  <1> DEFINE n == Len(s.queue)
  <1>1. \A k \in JobIds : t.job[k].state = IF k = j THEN "queued" ELSE s.job[k].state
    BY DEF Changed
  <1>2. /\ n \in Nat /\ Len(t.queue) = n + 1
        /\ \A i \in 1..n : t.queue[i] = s.queue[i] /\ s.queue[i] \in JobIds
        /\ t.queue[n + 1] = j
    BY QueueType, AppendProperties
  <1>3. \A i \in 1..n : s.job[s.queue[i]].state = "queued" /\ s.queue[i] # j
    BY DEF Shape
  <1>4. 1..(n + 1) = 1..n \cup {n + 1} /\ n + 1 \notin 1..n
    BY <1>2
  <1> HIDE DEF n
  <1>5. \A i \in 1..(n + 1) : t.job[t.queue[i]].state = "queued"
    BY <1>1, <1>2, <1>3, <1>4
  <1>6. \A l, m \in 1..(n + 1) : t.queue[l] = t.queue[m] => l = m
    BY <1>2, <1>3, <1>4 DEF Shape, n
  <1>7. \A k \in JobIds : t.job[k].state = "queued" =>
          \E i \in 1..(n + 1) : t.queue[i] = k
    <2> TAKE k \in JobIds
    <2>1. CASE k = j
      BY <1>2, <1>4, <2>1
    <2>2. CASE k # j
      BY <1>1, <1>2, <1>4, <2>2 DEF Shape, n
    <2> QED BY <2>1, <2>2
  <1>8. /\ \A k \in t.active : t.job[k].state \notin {"unused", "queued"}
        /\ \A k \in JobIds : t.job[k].state = "running" => k \in t.active
    BY <1>1, QueueType DEF Shape
  <1>9. Len(t.queue) <= QueueCapacity
    BY <1>2, ConfigAssumption DEF n
  <1> QED BY <1>2, <1>5, <1>6, <1>7, <1>8, <1>9 DEF Shape

LEMMA ShapeTaken ==
  ASSUME NEW s \in Registry, NEW t, Shape(s), s.queue # <<>>,
         NEW j, j = Head(s.queue), Changed(s, t, {j}, "running"),
         t.queue = Tail(s.queue), t.active = s.active \cup {j}
  PROVE  Shape(t) /\ j \in JobIds /\ s.job[j].state = "queued" /\ j \notin s.active
  <1> DEFINE n == Len(s.queue)
  <1>1. /\ n \in Nat \ {0} /\ j = s.queue[1] /\ j \in JobIds
        /\ Len(t.queue) = n - 1
        /\ \A i \in 1..(n - 1) : t.queue[i] = s.queue[i + 1]
        /\ \A i \in 1..n : s.queue[i] \in JobIds
    BY QueueType, HeadTailProperties, EmptySeq
  <1>2. \A k \in JobIds : t.job[k].state = IF k = j THEN "running" ELSE s.job[k].state
    BY DEF Changed
  <1>3. /\ \A i \in 1..n : s.job[s.queue[i]].state = "queued"
        /\ \A l, m \in 1..n : s.queue[l] = s.queue[m] => l = m
    BY DEF Shape
  <1>4. Len(t.queue) <= QueueCapacity
    BY <1>1, ConfigAssumption DEF Shape
  <1> HIDE DEF n
  <1>5. \A i \in 1..(n - 1) : i + 1 \in 1..n /\ i + 1 # 1
    BY <1>1
  <1>6. 1 \in 1..n
    BY <1>1
  <1>7. s.job[j].state = "queued" /\ j \notin s.active
    BY <1>1, <1>3, <1>6 DEF Shape
  <1>8. \A i \in 1..(n - 1) : t.job[t.queue[i]].state = "queued"
    BY <1>1, <1>2, <1>3, <1>5, <1>6
  <1>9. \A l, m \in 1..(n - 1) : t.queue[l] = t.queue[m] => l = m
    <2> SUFFICES ASSUME NEW l \in 1..(n - 1), NEW m \in 1..(n - 1),
                        t.queue[l] = t.queue[m]
                 PROVE  l = m
      OBVIOUS
    <2>1. l + 1 = m + 1
      BY <1>1, <1>3, <1>5
    <2> QED BY <1>1, <2>1
  <1>10. \A k \in JobIds : t.job[k].state = "queued" =>
           \E i \in 1..(n - 1) : t.queue[i] = k
    <2> SUFFICES ASSUME NEW k \in JobIds, t.job[k].state = "queued"
                 PROVE  \E i \in 1..(n - 1) : t.queue[i] = k
      OBVIOUS
    <2>1. k # j /\ s.job[k].state = "queued"
      BY <1>2
    <2>2. PICK i \in 1..n : s.queue[i] = k
      BY <2>1 DEF Shape, n
    <2>3. i # 1
      BY <1>1, <2>1, <2>2
    <2>4. i - 1 \in 1..(n - 1) /\ (i - 1) + 1 = i
      BY <1>1, <2>3
    <2> QED BY <1>1, <2>2, <2>4
  <1>11. /\ \A k \in t.active : t.job[k].state \notin {"unused", "queued"}
         /\ \A k \in JobIds : t.job[k].state = "running" => k \in t.active
    BY <1>2, QueueType DEF Shape
  <1> QED BY <1>1, <1>4, <1>7, <1>8, <1>9, <1>10, <1>11 DEF Shape

LEMMA ShapeWithdrawn ==
  ASSUME NEW s \in Registry, NEW t, Shape(s), NEW i \in 1..Len(s.queue),
         NEW j, j = s.queue[i], Changed(s, t, {j}, "cancelled"),
         t.queue = RemoveAt(s.queue, i), t.active = s.active
  PROVE  Shape(t)
  <1> DEFINE n == Len(s.queue)
             f[m \in 1..(n - 1)] == IF m < i THEN m ELSE m + 1
  <1>1. /\ n \in Nat /\ j \in JobIds /\ Len(t.queue) = n - 1
        /\ \A m \in 1..n : s.queue[m] \in JobIds
        /\ \A m \in 1..(n - 1) :
             t.queue[m] = IF m < i THEN s.queue[m] ELSE s.queue[m + 1]
    BY QueueType, RemoveAtFacts
  <1>2. \A k \in JobIds : t.job[k].state = IF k = j THEN "cancelled" ELSE s.job[k].state
    BY DEF Changed
  <1>3. /\ \A m \in 1..n : s.job[s.queue[m]].state = "queued"
        /\ \A l, m \in 1..n : s.queue[l] = s.queue[m] => l = m
    BY DEF Shape
  <1>4. Len(t.queue) <= QueueCapacity
    BY <1>1, ConfigAssumption DEF Shape
  <1>5. i \in 1..n
    OBVIOUS
  <1>6. \A m \in 1..(n - 1) : f[m] \in 1..n /\ f[m] # i /\ t.queue[m] = s.queue[f[m]]
    BY <1>1, <1>5
  <1>7. \A l, m \in 1..(n - 1) : f[l] = f[m] => l = m
    BY <1>1, <1>5
  <1>8. \A m \in 1..n : m # i => \E l \in 1..(n - 1) : f[l] = m
    <2> SUFFICES ASSUME NEW m \in 1..n, m # i
                 PROVE  \E l \in 1..(n - 1) : f[l] = m
      OBVIOUS
    <2>1. CASE m < i
      <3>1. m \in 1..(n - 1) /\ f[m] = m
        BY <1>1, <1>5, <2>1
      <3> QED BY <3>1
    <2>2. CASE ~(m < i)
      <3>1. m - 1 \in 1..(n - 1) /\ f[m - 1] = m
        BY <1>1, <1>5, <2>2
      <3> QED BY <3>1
    <2> QED BY <2>1, <2>2
  <1> HIDE DEF n, f
  <1>9. \A m \in 1..(n - 1) : t.job[t.queue[m]].state = "queued"
    <2> TAKE m \in 1..(n - 1)
    <2>1. f[m] \in 1..n /\ f[m] # i /\ t.queue[m] = s.queue[f[m]]
      BY <1>6
    <2>2. s.queue[f[m]] \in JobIds /\ s.job[s.queue[f[m]]].state = "queued"
      BY <1>1, <1>3, <2>1
    <2>3. s.queue[f[m]] # j
      BY <1>3, <1>5, <2>1
    <2> QED BY <1>2, <2>1, <2>2, <2>3
  <1>10. \A l, m \in 1..(n - 1) : t.queue[l] = t.queue[m] => l = m
    BY <1>3, <1>6, <1>7
  <1>11. \A k \in JobIds : t.job[k].state = "queued" =>
           \E m \in 1..(n - 1) : t.queue[m] = k
    <2> SUFFICES ASSUME NEW k \in JobIds, t.job[k].state = "queued"
                 PROVE  \E m \in 1..(n - 1) : t.queue[m] = k
      OBVIOUS
    <2>1. k # j /\ s.job[k].state = "queued"
      BY <1>2
    <2>2. PICK m \in 1..n : s.queue[m] = k
      BY <2>1 DEF Shape, n
    <2>3. PICK l \in 1..(n - 1) : f[l] = m
      BY <1>8, <2>1, <2>2
    <2> QED BY <1>6, <2>2, <2>3
  <1>12. /\ \A k \in t.active : t.job[k].state \notin {"unused", "queued"}
         /\ \A k \in JobIds : t.job[k].state = "running" => k \in t.active
    BY <1>2, QueueType DEF Shape
  <1> QED BY <1>1, <1>4, <1>9, <1>10, <1>11, <1>12 DEF Shape

LEMMA ShapeFlushed ==
  ASSUME NEW s \in Registry, NEW t, Shape(s),
         Changed(s, t, ToSet(s.queue), "cancelled"),
         t.queue = <<>>, t.active = s.active
  PROVE  Shape(t)
  <1>1. ToSet(s.queue) = {s.queue[n] : n \in 1..Len(s.queue)}
    BY QueueType, ToSetFacts
  <1>2. Len(t.queue) = 0
    BY EmptySeq
  <1>3. /\ \A k \in JobIds : t.job[k].state # "queued"
        /\ \A k \in t.active : t.job[k].state \notin {"unused", "queued"}
        /\ \A k \in JobIds : t.job[k].state = "running" => k \in t.active
    BY <1>1, QueueType DEF Shape, Changed
  <1>4. 1..0 = {} /\ 0 <= QueueCapacity
    BY ConfigAssumption
  <1> QED BY <1>2, <1>3, <1>4 DEF Shape

-----------------------------------------------------------------------------
(* Preservation.                                                           *)

\* What an invariant step must re-establish when the workers stay where they are.
LEMMA SameWorkers ==
  ASSUME Inv, UNCHANGED <<started, worker>>, reg'.active = reg.active
  PROVE  Holding' /\ Progressed'
  BY DEF Inv, Holding, Progressed, Busy

LEMMA InitInv == Init => Inv
  <1> SUFFICES ASSUME Init PROVE Inv
    OBVIOUS
  <1>1. 0 \in 0..MaxTime /\ 0 \in 0..Cardinality(Workers)
    BY ConfigAssumption, FS_CardinalityType
  <1>2. Unused \in JobRecord
    BY <1>1 DEF Unused, JobRecord, States, Contexts
  <1>3. <<>> \in Seq(JobIds) /\ Len(<<>>) = 0
    BY EmptySeq
  <1>4. reg \in Registry
    BY <1>2, <1>3 DEF Init, Registry
  <1>5. AtPlace("off") \in WorkerRecord /\ AtPlace("off").pc = "off"
    BY DEF AtPlace, WorkerRecord, Places, Errors
  <1>6. worker \in [Workers -> WorkerRecord] /\ \A w \in Workers : worker[w].pc = "off"
    BY <1>5 DEF Init
  <1>7. TypeOK
    BY <1>1, <1>4, <1>6 DEF Init, TypeOK
  <1>8. Shape(reg)
    <2>1. /\ reg.queue = <<>> /\ reg.active = {}
          /\ \A j \in JobIds : reg.job[j].state = "unused"
      BY DEF Init, Unused
    <2>2. 1..0 = {} /\ 0 <= QueueCapacity
      BY ConfigAssumption
    <2> QED BY <1>3, <2>1, <2>2 DEF Shape
  <1>9. Busy = {} /\ reg.active = {}
    BY <1>6 DEF Busy, Init
  <1> QED BY <1>6, <1>7, <1>8, <1>9 DEF Inv, Holding, Progressed

\* A step that changes no state of a job, no queue and no slot.
LEMMA QuietStep ==
  ASSUME Inv, SameStates(reg, reg'), UNCHANGED <<started, worker>>
  PROVE  Shape(reg)' /\ Holding' /\ Progressed' /\ Effect(reg, reg')
  <1>1. Shape(reg)'
    BY ShapeSame DEF Inv, TypeOK
  <1>2. Holding' /\ Progressed'
    BY SameWorkers DEF SameStates
  <1> QED BY <1>1, <1>2 DEF Effect

LEMMA RequestType ==
  ASSUME Inv, NEW r \in Requests
  PROVE  /\ Digest(r) \in ScienceDigests /\ Idem(r) \in IdemDigests
         /\ r.owner \in Owners /\ now \in 0..MaxTime
  <1>1. "queued" \in States /\ now \in 0..MaxTime
    BY DEF States, Inv, TypeOK
  <1> QED BY <1>1, NewJobType

LEMMA SubmitReplayStep ==
  ASSUME Inv, NEW r \in Requests, SubmitReplay(r)
  PROVE  Inv' /\ Effect(reg, reg')
  <1> DEFINE s == Pruned
             j == s.idem[Idem(r)]
  <1>1. s \in Registry /\ SameStates(reg, s)
    BY PrunedSame DEF Inv
  <1>2. Idem(r) \in IdemDigests /\ r.owner \in Owners
    BY RequestType
  <1>3. j # NoJob /\ reg' = AddOwner(s, j, r.owner, Idem(r))
    BY DEF SubmitReplay, Known
  <1> HIDE DEF s
  <1>4. j \in JobIds
    BY <1>1, <1>2, <1>3 DEF Registry
  <1> HIDE DEF j
  <1>5. reg' \in Registry /\ SameStates(s, reg')
    BY <1>1, <1>2, <1>3, <1>4, AddOwnerType, AddOwnerSame
  <1>6. SameStates(reg, reg')
    BY <1>1, <1>5 DEF SameStates
  <1>7. TypeOK'
    BY <1>5 DEF SubmitReplay, Inv, TypeOK
  <1> QED BY <1>6, <1>7, QuietStep DEF Inv, SubmitReplay

LEMMA SubmitJoinStep ==
  ASSUME Inv, NEW r \in Requests, SubmitJoin(r)
  PROVE  Inv' /\ Effect(reg, reg')
  <1> DEFINE s == Pruned
             j == s.science[Digest(r)]
  <1>1. s \in Registry /\ SameStates(reg, s)
    BY PrunedSame DEF Inv
  <1>2. Digest(r) \in ScienceDigests /\ Idem(r) \in IdemDigests /\ r.owner \in Owners
    BY RequestType
  <1>3. j # NoJob /\ reg' = AddOwner(s, j, r.owner, Idem(r))
    BY DEF SubmitJoin, Shared
  <1> HIDE DEF s
  <1>4. j \in JobIds
    BY <1>1, <1>2, <1>3 DEF Registry
  <1> HIDE DEF j
  <1>5. reg' \in Registry /\ SameStates(s, reg')
    BY <1>1, <1>2, <1>3, <1>4, AddOwnerType, AddOwnerSame
  <1>6. SameStates(reg, reg')
    BY <1>1, <1>5 DEF SameStates
  <1>7. TypeOK'
    BY <1>5 DEF SubmitJoin, Inv, TypeOK
  <1> QED BY <1>6, <1>7, QuietStep DEF Inv, SubmitJoin

LEMMA SubmitHitStep ==
  ASSUME Inv, NEW r \in Requests, SubmitHit(r)
  PROVE  Inv' /\ Effect(reg, reg')
  <1> DEFINE s == Pruned
  <1>1. s \in Registry /\ SameStates(reg, s)
    BY PrunedSame DEF Inv
  <1>2. now \in 0..MaxTime
    BY DEF Inv, TypeOK
  <1>3. PICK j \in JobIds : /\ s.job[j].state = "unused"
                            /\ reg' \in PrunedAfter(Served(s, r, j), {j})
    BY DEF SubmitHit
  <1> HIDE DEF s
  <1> DEFINE t == Served(s, r, j)
  <1>4. /\ t \in Registry /\ t.queue = s.queue /\ t.active = s.active
        /\ Changed(s, t, {j}, "ready")
    BY <1>1, <1>2, ServedFacts
  <1>5. reg' \in PrunedAfter(t, {j})
    BY <1>3
  <1> HIDE DEF t
  <1>6. /\ reg' \in Registry /\ reg'.job = t.job /\ reg'.queue = t.queue
        /\ reg'.active = t.active
    BY <1>4, <1>5, PrunedAfterType
  <1>7. /\ Changed(reg, reg', {j}, "ready") /\ reg'.queue = reg.queue
        /\ reg'.active = reg.active /\ reg.job[j].state = "unused"
    BY <1>1, <1>3, <1>4, <1>6 DEF Changed, SameStates
  <1>8. Shape(reg)'
    BY <1>7, ShapeEnd DEF Inv, TypeOK
  <1>9. TypeOK'
    BY <1>6 DEF SubmitHit, Inv, TypeOK
  <1>10. Holding' /\ Progressed'
    BY <1>7, SameWorkers DEF SubmitHit
  <1>11. Effect(reg, reg')
    BY <1>7 DEF Effect, Serving
  <1> QED BY <1>8, <1>9, <1>10, <1>11 DEF Inv

LEMMA SubmitEnqueueStep ==
  ASSUME Inv, NEW r \in Requests, SubmitEnqueue(r)
  PROVE  Inv' /\ Effect(reg, reg')
  <1> DEFINE s == Pruned
  <1>1. s \in Registry /\ SameStates(reg, s)
    BY PrunedSame DEF Inv
  <1>2. now \in 0..MaxTime
    BY DEF Inv, TypeOK
  <1>3. Len(s.queue) < QueueCapacity
    BY DEF SubmitEnqueue, EnqueueAllowed
  <1>4. PICK j \in JobIds : s.job[j].state = "unused" /\ reg' = Admitted(s, r, j)
    BY DEF SubmitEnqueue
  <1> HIDE DEF s
  <1>5. /\ reg' \in Registry /\ reg'.queue = Append(s.queue, j)
        /\ reg'.active = s.active /\ Changed(s, reg', {j}, "queued")
    BY <1>1, <1>2, <1>4, AdmittedFacts
  <1>6. /\ reg'.queue = Append(reg.queue, j) /\ reg'.active = reg.active
        /\ Changed(reg, reg', {j}, "queued") /\ reg.job[j].state = "unused"
        /\ Len(reg.queue) < QueueCapacity
    BY <1>1, <1>3, <1>4, <1>5 DEF Changed, SameStates
  <1>7. Shape(reg)'
    BY <1>6, ShapeAdmitted DEF Inv, TypeOK
  <1>8. TypeOK'
    BY <1>5 DEF SubmitEnqueue, Inv, TypeOK
  <1>9. Holding' /\ Progressed'
    BY <1>6, SameWorkers DEF SubmitEnqueue
  <1>10. Effect(reg, reg')
    BY <1>6 DEF Effect, Admitting, SubmitEnqueue
  <1> QED BY <1>7, <1>8, <1>9, <1>10 DEF Inv

LEMMA CancelStep ==
  ASSUME Inv, NEW o \in Owners, NEW j \in JobIds, Cancel(o, j)
  PROVE  Inv' /\ Effect(reg, reg')
  <1> DEFINE s == Pruned
             t == RemoveOwner(s, j, o)
  <1>1. s \in Registry /\ SameStates(reg, s)
    BY PrunedSame DEF Inv
  <1>2. now \in 0..MaxTime
    BY DEF Inv, TypeOK
  <1>3. reg' = t \/ reg' \in Abandoned(t, j)
    BY DEF Cancel
  <1> HIDE DEF s
  <1>4. t \in Registry /\ SameStates(s, t)
    BY <1>1, RemoveOwnerType, RemoveOwnerSame
  <1> HIDE DEF t
  <1>5. SameStates(reg, t)
    BY <1>1, <1>4 DEF SameStates
  <1>6. Shape(t)
    BY <1>5, ShapeSame DEF Inv, TypeOK
  <1>7. UNCHANGED <<now, runners, started, closed, ctxDone, wake, worker,
                    unsignalled, closer>>
    BY DEF Cancel
  <1>8. CASE reg' = t
    <2>1. TypeOK'
      BY <1>4, <1>7, <1>8 DEF Inv, TypeOK
    <2> QED BY <1>5, <1>7, <1>8, <2>1, QuietStep DEF Inv
  <1>9. CASE reg' \in Abandoned(t, j)
    <2>1. t.job[j].state = "queued" => j \in ToSet(t.queue)
      <3>1. ToSet(t.queue) = {t.queue[n] : n \in 1..Len(t.queue)}
        BY <1>4, QueueType, ToSetFacts
      <3> QED BY <1>6, <3>1 DEF Shape
    <2>2. /\ reg' \in Registry /\ reg'.active = t.active
          /\ \/ /\ t.job[j].state = "queued"
                /\ \E i \in 1..Len(t.queue) :
                     t.queue[i] = j /\ reg'.queue = RemoveAt(t.queue, i)
                /\ Changed(t, reg', {j}, "cancelled")
             \/ /\ t.job[j].state = "running"
                /\ reg'.queue = t.queue /\ Changed(t, reg', {j}, "cancelled")
             \/ SameStates(t, reg')
      BY <1>2, <1>4, <1>9, <2>1, AbandonedFacts
    <2>3. Shape(reg)'
      BY <1>4, <1>6, <2>2, ShapeWithdrawn, ShapeEnd, ShapeSame
    <2>4. TypeOK'
      BY <1>7, <2>2 DEF Inv, TypeOK
    <2>5. Holding' /\ Progressed'
      BY <1>5, <1>7, <2>2, SameWorkers DEF SameStates
    <2>6. Effect(reg, reg')
      <3>1. CASE SameStates(t, reg')
        BY <1>5, <3>1 DEF Effect, SameStates
      <3>2. CASE /\ t.job[j].state = "running"
                 /\ reg'.queue = t.queue /\ Changed(t, reg', {j}, "cancelled")
        BY <1>5, <2>2, <3>2 DEF Effect, Aborting, SameStates, Changed
      <3>3. CASE /\ \E i \in 1..Len(t.queue) :
                      t.queue[i] = j /\ reg'.queue = RemoveAt(t.queue, i)
                 /\ Changed(t, reg', {j}, "cancelled")
        BY <1>5, <2>2, <3>3 DEF Effect, Withdrawing, SameStates, Changed
      <3> QED BY <2>2, <3>1, <3>2, <3>3
    <2> QED BY <2>3, <2>4, <2>5, <2>6 DEF Inv
  <1> QED BY <1>3, <1>8, <1>9

-----------------------------------------------------------------------------
(* Steps of the workers.                                                   *)

BusyPlaces == {"running", "publishing", "recording"}

\* A worker without a slot goes to another such place.
LEMMA MoveIdle ==
  ASSUME Inv, NEW w \in Workers, NEW pc \in Places \ BusyPlaces,
         worker[w].pc \notin BusyPlaces, worker[w].pc # "off",
         worker' = [worker EXCEPT ![w] = AtPlace(pc)],
         started' = started, reg'.active = reg.active
  PROVE  worker' \in [Workers -> WorkerRecord] /\ Holding' /\ Progressed'
  <1> DEFINE x == AtPlace(pc)
  <1>1. x \in WorkerRecord /\ x.pc = pc
    BY DEF AtPlace, WorkerRecord, Errors, Places, BusyPlaces
  <1> HIDE DEF x
  <1>2. worker \in [Workers -> WorkerRecord]
    BY DEF Inv, TypeOK
  <1>3. worker' \in [Workers -> WorkerRecord]
    BY <1>1, <1>2 DEF x
  <1>4. \A v \in Workers : worker'[v] = IF v = w THEN x ELSE worker[v]
    BY <1>2 DEF x
  <1>5. Busy' = Busy /\ \A v \in Busy : worker'[v] = worker[v]
    BY <1>1, <1>4 DEF Busy, BusyPlaces
  <1>6. Holding'
    BY <1>5 DEF Holding, Inv
  <1>7. Progressed'
    BY <1>1, <1>4 DEF Progressed, Inv, BusyPlaces
  <1> QED BY <1>3, <1>6, <1>7

\* A worker goes on with its job.
LEMMA MoveBusy ==
  ASSUME Inv, NEW w \in Workers, NEW x \in WorkerRecord,
         worker[w].pc \in BusyPlaces, x.pc \in BusyPlaces,
         x.job = worker[w].job,
         \/ x.pc = "publishing"
         \/ x.pc = "recording" /\ x.err = "none"
         => x.final \in ScienceDigests,
         worker' = [worker EXCEPT ![w] = x], UNCHANGED <<started, reg>>
  PROVE  worker' \in [Workers -> WorkerRecord] /\ Holding' /\ Progressed'
  <1>1. worker \in [Workers -> WorkerRecord]
    BY DEF Inv, TypeOK
  <1>2. worker' \in [Workers -> WorkerRecord]
    BY <1>1
  <1>3. \A v \in Workers : worker'[v] = IF v = w THEN x ELSE worker[v]
    BY <1>1
  <1>4. Busy' = Busy /\ \A v \in Busy : worker'[v].job = worker[v].job
    BY <1>3 DEF Busy, BusyPlaces
  <1>5. Holding'
    BY <1>4 DEF Holding, Inv
  <1>6. Progressed'
    BY <1>3 DEF Progressed, Inv, BusyPlaces
  <1> QED BY <1>2, <1>5, <1>6

\* A busy worker's slot.
LEMMA BusyWorker ==
  ASSUME Inv, NEW w \in Workers, worker[w].pc \in BusyPlaces
  PROVE  /\ worker[w] \in WorkerRecord /\ w \in Busy
         /\ worker[w].job \in JobIds /\ worker[w].job \in reg.active
         /\ reg.job[worker[w].job] \in JobRecord
  <1>1. worker[w] \in WorkerRecord /\ w \in Busy
    BY DEF Inv, TypeOK, Busy, BusyPlaces
  <1>2. worker[w].job \in JobIds /\ worker[w].job \in reg.active
    BY <1>1 DEF Inv, Holding
  <1> QED BY <1>1, <1>2, JobType DEF Inv, TypeOK

\* Everything that waits is cancelled at once.
LEMMA PendingCancelled ==
  ASSUME Inv, reg' \in CancelPending(reg)
  PROVE  reg' \in Registry /\ Flushing(reg, reg') /\ Shape(reg)'
  <1>1. reg \in Registry /\ now \in 0..MaxTime /\ Shape(reg)
    BY DEF Inv, TypeOK
  <1>2. ToSet(reg.queue) = {reg.queue[n] : n \in 1..Len(reg.queue)}
    BY <1>1, QueueType, ToSetFacts
  <1>3. \A j \in ToSet(reg.queue) : ~Terminal(reg, j)
    BY <1>1, <1>2 DEF Shape, Terminal
  <1>4. /\ reg' \in Registry /\ reg'.queue = <<>> /\ reg'.active = reg.active
        /\ Changed(reg, reg', ToSet(reg.queue), "cancelled")
    BY <1>1, <1>3, CancelPendingFacts
  <1>5. Shape(reg)'
    BY <1>1, <1>4, ShapeFlushed
  <1> QED BY <1>4, <1>5 DEF Flushing

LEMMA ExitStep ==
  ASSUME Inv, NEW w \in Workers, Exit(w)
  PROVE  Inv' /\ Effect(reg, reg')
  <1>1. /\ worker[w].pc = "next" /\ reg' \in CancelPending(reg)
        /\ worker' = [worker EXCEPT ![w] = AtPlace("exited")]
        /\ closed' = TRUE
        /\ UNCHANGED <<now, runners, started, ctxDone, wake, unsignalled, closer>>
    BY DEF Exit, At
  <1>2. reg' \in Registry /\ Flushing(reg, reg') /\ Shape(reg)'
    BY <1>1, PendingCancelled
  <1>3. worker' \in [Workers -> WorkerRecord] /\ Holding' /\ Progressed'
    BY <1>1, <1>2, MoveIdle DEF Places, BusyPlaces, Flushing
  <1>4. TypeOK'
    BY <1>1, <1>2, <1>3 DEF Inv, TypeOK
  <1>5. Effect(reg, reg')
    BY <1>2 DEF Effect
  <1> QED BY <1>2, <1>3, <1>4, <1>5 DEF Inv

\* A worker that is not busy leaves a slot free.
LEMMA FreeSlot ==
  ASSUME Inv, NEW w \in Workers, w \notin Busy
  PROVE  Cardinality(reg.active) < Cardinality(Workers)
  <1>1. IsFiniteSet(Workers) /\ Cardinality(Workers) \in Nat
    BY ConfigAssumption, FS_CardinalityType
  <1>2. /\ IsFiniteSet(Workers \ {w})
        /\ Cardinality(Workers \ {w}) = Cardinality(Workers) - 1
    BY <1>1, FS_RemoveElement
  <1>3. Busy \subseteq Workers \ {w}
    BY DEF Busy
  <1>4. /\ IsFiniteSet(Busy) /\ Cardinality(Busy) \in Nat
        /\ Cardinality(Busy) <= Cardinality(Workers \ {w})
    BY <1>2, <1>3, FS_Subset, FS_CardinalityType
  <1> DEFINE f == [v \in Busy |-> worker[v].job]
  <1>5. f \in Surjection(Busy, reg.active)
    BY DEF Inv, Holding, Surjection
  <1>6. /\ IsFiniteSet(reg.active) /\ Cardinality(reg.active) \in Nat
        /\ Cardinality(reg.active) <= Cardinality(Busy)
    BY <1>4, <1>5, FS_Surjection, FS_CardinalityType
  <1> QED BY <1>1, <1>2, <1>4, <1>6

LEMMA TakeJobStep ==
  ASSUME Inv, NEW w \in Workers, TakeJob(w)
  PROVE  Inv' /\ Effect(reg, reg')
  <1> DEFINE j == Head(reg.queue)
             x == [AtPlace("running") EXCEPT !.job = j]
  <1>1. /\ worker[w].pc = "next" /\ reg.queue # <<>> /\ reg' = Taken(reg)
        /\ worker' = [worker EXCEPT ![w] = x]
        /\ UNCHANGED <<now, runners, started, closed, ctxDone, wake,
                       unsignalled, closer>>
    BY DEF TakeJob, At
  <1>2. reg \in Registry /\ Shape(reg) /\ worker \in [Workers -> WorkerRecord]
    BY DEF Inv, TypeOK
  <1>3. /\ reg' \in Registry /\ j \in JobIds /\ reg'.queue = Tail(reg.queue)
        /\ reg'.active = reg.active \cup {j} /\ Changed(reg, reg', {j}, "running")
    BY <1>1, <1>2, TakenFacts
  <1>4. Shape(reg)' /\ reg.job[j].state = "queued" /\ j \notin reg.active
    BY <1>1, <1>2, <1>3, ShapeTaken
  <1> HIDE DEF j
  <1>5. /\ x \in WorkerRecord /\ x.pc = "running" /\ x.job = j
    BY <1>3 DEF AtPlace, WorkerRecord, Places, Errors
  <1> HIDE DEF x
  <1>6. \A v \in Workers : worker'[v] = IF v = w THEN x ELSE worker[v]
    BY <1>1, <1>2
  <1>7. worker' \in [Workers -> WorkerRecord]
    BY <1>1, <1>2, <1>5
  <1>8. Busy' = Busy \cup {w} /\ w \notin Busy
    BY <1>1, <1>5, <1>6 DEF Busy
  <1>9. Holding'
    <2>1. \A v \in Busy : worker'[v] = worker[v] /\ worker[v].job \in reg.active
      BY <1>6, <1>8 DEF Inv, Holding, Busy
    <2>2. worker'[w].job = j
      BY <1>5, <1>6
    <2>3. \A v \in Busy' : worker'[v].job \in JobIds
      BY <1>3, <1>8, <2>1, <2>2 DEF Inv, Holding
    <2>4. reg'.active = {worker'[v].job : v \in Busy'}
      BY <1>3, <1>8, <2>1, <2>2 DEF Inv, Holding
    <2>5. \A u, v \in Busy' : worker'[u].job = worker'[v].job => u = v
      BY <1>4, <1>8, <2>1, <2>2 DEF Inv, Holding
    <2> QED BY <2>3, <2>4, <2>5 DEF Holding
  <1>10. Progressed'
    BY <1>1, <1>5, <1>6 DEF Inv, Progressed
  <1>11. TypeOK'
    BY <1>1, <1>3, <1>7 DEF Inv, TypeOK
  <1>12. Effect(reg, reg')
    <2>1. Cardinality(reg.active) < Cardinality(Workers)
      BY <1>8, FreeSlot
    <2> QED BY <1>1, <1>3, <1>4, <2>1 DEF Effect, Beginning, j
  <1> QED BY <1>4, <1>9, <1>10, <1>11, <1>12 DEF Inv

LEMMA RecordStep ==
  ASSUME Inv, NEW w \in Workers, Record(w)
  PROVE  Inv' /\ Effect(reg, reg')
  <1> DEFINE j == worker[w].job
             s == Released(reg, j)
  <1>1. /\ worker[w].pc = "recording"
        /\ worker' = [worker EXCEPT ![w] = AtPlace("signalling")]
        /\ UNCHANGED <<now, runners, started, closed, ctxDone, wake,
                       unsignalled, closer>>
    BY DEF Record, At
  <1>2. \/ Terminal(s, j) /\ reg' = s
        \/ /\ ~Terminal(s, j) /\ worker[w].err = "none"
           /\ reg' \in Succeeded(s, j, worker[w].final)
        \/ ~Terminal(s, j) /\ reg' \in Unsuccessful(s, j, worker[w].err)
    BY DEF Record
  <1>3. j \in JobIds /\ w \in Busy /\ j \in reg.active
    BY <1>1, BusyWorker DEF BusyPlaces
  <1>4. /\ reg \in Registry /\ Shape(reg) /\ now \in 0..MaxTime
        /\ worker \in [Workers -> WorkerRecord]
    BY DEF Inv, TypeOK
  <1>5. worker[w].err = "none" => worker[w].final \in ScienceDigests
    BY <1>1 DEF Inv, Progressed
  <1> HIDE DEF j
  <1>6. /\ s \in Registry /\ s.queue = reg.queue /\ s.active = reg.active \ {j}
        /\ Changed(reg, s, {}, "ready")
    BY <1>3, <1>4, ReleasedFacts
  <1> HIDE DEF s
  <1>7. \A k \in JobIds : Terminal(s, k) <=> Terminal(reg, k)
    BY <1>6 DEF Changed, Terminal
  <1>8. /\ reg' \in Registry /\ reg'.queue = reg.queue /\ reg'.active = reg.active \ {j}
        /\ \/ Terminal(reg, j) /\ Changed(reg, reg', {}, "ready")
           \/ /\ ~Terminal(reg, j)
              /\ \E st \in {"ready", "failed", "cancelled"} : Changed(reg, reg', {j}, st)
    <2>1. CASE Terminal(s, j) /\ reg' = s
      BY <1>3, <1>6, <1>7, <2>1
    <2>2. CASE /\ ~Terminal(s, j) /\ worker[w].err = "none"
               /\ reg' \in Succeeded(s, j, worker[w].final)
      <3>1. /\ reg' \in Registry /\ reg'.queue = s.queue /\ reg'.active = s.active
            /\ Changed(s, reg', {j}, "ready")
        BY <1>3, <1>4, <1>5, <1>6, <2>2, SucceededFacts
      <3> QED BY <1>3, <1>6, <1>7, <2>2, <3>1 DEF Changed
    <2>3. CASE ~Terminal(s, j) /\ reg' \in Unsuccessful(s, j, worker[w].err)
      <3>1. /\ reg' \in Registry /\ reg'.queue = s.queue /\ reg'.active = s.active
            /\ \E st \in {"failed", "cancelled"} : Changed(s, reg', {j}, st)
        BY <1>3, <1>4, <1>6, <2>3, UnsuccessfulFacts
      <3> QED BY <1>3, <1>6, <1>7, <2>3, <3>1 DEF Changed
    <2> QED BY <1>2, <2>1, <2>2, <2>3
  <1>9. Shape(reg)'
    <2>1. reg.job[j].state # "queued"
      BY <1>3, <1>4 DEF Shape
    <2> QED BY <1>3, <1>4, <1>8, <2>1, ShapeEnd, ShapeFreed
  <1>10. Effect(reg, reg')
    BY <1>3, <1>8 DEF Effect, Ending
  <1> DEFINE x == AtPlace("signalling")
  <1>11. x \in WorkerRecord /\ x.pc = "signalling"
    BY DEF AtPlace, WorkerRecord, Places, Errors
  <1> HIDE DEF x
  <1>12. /\ worker' \in [Workers -> WorkerRecord]
         /\ \A v \in Workers : worker'[v] = IF v = w THEN x ELSE worker[v]
    BY <1>1, <1>4, <1>11 DEF x
  <1>13. Busy' = Busy \ {w} /\ \A v \in Busy' : worker'[v] = worker[v]
    BY <1>11, <1>12 DEF Busy
  <1>14. Holding'
    BY <1>3, <1>8, <1>13 DEF Inv, Holding, j
  <1>15. Progressed'
    BY <1>1, <1>11, <1>12 DEF Inv, Progressed
  <1>16. TypeOK'
    BY <1>1, <1>8, <1>12 DEF Inv, TypeOK
  <1> QED BY <1>9, <1>10, <1>14, <1>15, <1>16 DEF Inv

\* The steps that leave the registry as it is.
LEMMA SignalType ==
  ASSUME Inv
  PROVE  Signalled \in 0..Cardinality(Workers)
  <1>1. Cardinality(Workers) \in Nat
    BY ConfigAssumption, FS_CardinalityType
  <1> QED BY <1>1 DEF Inv, TypeOK, Signalled

LEMMA WorkerStep ==
  ASSUME Inv, NEW w \in Workers, Step(w) \/ RunReturns(w)
  PROVE  Inv' /\ Effect(reg, reg')
  <1>1. CASE Exit(w)
    BY <1>1, ExitStep
  <1>2. CASE TakeJob(w)
    BY <1>2, TakeJobStep
  <1>3. CASE Record(w)
    BY <1>3, RecordStep
  <1> SUFFICES ASSUME /\ \/ FindNothing(w) \/ WakeUp(w) \/ WorkerSignals(w)
                         \/ RunInterrupted(w) \/ PublishSucceeds(w)
                         \/ PublishFails(w) \/ RunSucceeds(w) \/ RunFails(w)
               PROVE  TypeOK' /\ Holding' /\ Progressed' /\ reg' = reg
    <2>1. CASE reg' = reg
      <3>1. Shape(reg)' /\ Effect(reg, reg')
        BY <2>1 DEF Inv, Shape, Effect, SameStates
      <3> QED BY <1>1, <1>2, <1>3, <3>1 DEF Inv, Step, RunReturns
    <2> QED BY <1>1, <1>2, <1>3, <2>1 DEF Step, RunReturns, FindNothing, WakeUp,
              WorkerSignals, RunInterrupted, PublishSucceeds, PublishFails,
              RunSucceeds, RunFails
  <1>4. CASE FindNothing(w)
    <2>1. worker' \in [Workers -> WorkerRecord] /\ Holding' /\ Progressed'
      BY <1>4, MoveIdle DEF FindNothing, At, Places, BusyPlaces
    <2> QED BY <1>4, <2>1 DEF FindNothing, Inv, TypeOK
  <1>5. CASE WakeUp(w)
    <2>1. worker' \in [Workers -> WorkerRecord] /\ Holding' /\ Progressed'
      BY <1>5, MoveIdle DEF WakeUp, At, Places, BusyPlaces
    <2>2. wake' \in 0..Cardinality(Workers)
      BY <1>5, FS_CardinalityType, ConfigAssumption DEF WakeUp, Inv, TypeOK
    <2> QED BY <1>5, <2>1, <2>2 DEF WakeUp, Inv, TypeOK
  <1>6. CASE WorkerSignals(w)
    <2>1. worker' \in [Workers -> WorkerRecord] /\ Holding' /\ Progressed'
      BY <1>6, MoveIdle DEF WorkerSignals, At, Places, BusyPlaces
    <2> QED BY <1>6, <2>1, SignalType DEF WorkerSignals, Inv, TypeOK
  <1>7. CASE RunInterrupted(w)
    <2> DEFINE c == reg.job[worker[w].job].ctx
               x == [worker[w] EXCEPT !.pc = "recording", !.err = c]
    <2>1. /\ worker[w].pc \in BusyPlaces /\ c \in {"canceled", "deadline"}
          /\ worker' = [worker EXCEPT ![w] = x]
      BY <1>7 DEF RunInterrupted, At, BusyPlaces
    <2>2. worker[w] \in WorkerRecord
      BY <2>1, BusyWorker
    <2> HIDE DEF c
    <2>3. /\ x \in WorkerRecord /\ x.pc = "recording" /\ x.err # "none"
          /\ x.job = worker[w].job
      BY <2>1, <2>2 DEF WorkerRecord, Places, Errors
    <2> HIDE DEF x
    <2>4. worker' \in [Workers -> WorkerRecord] /\ Holding' /\ Progressed'
      BY <1>7, <2>1, <2>3, MoveBusy DEF RunInterrupted, BusyPlaces
    <2> QED BY <1>7, <2>4 DEF RunInterrupted, Inv, TypeOK
  <1>8. CASE PublishSucceeds(w)
    <2> DEFINE x == [worker[w] EXCEPT !.pc = "recording"]
    <2>1. /\ worker[w].pc = "publishing" /\ worker' = [worker EXCEPT ![w] = x]
      BY <1>8 DEF PublishSucceeds, At
    <2>2. worker[w] \in WorkerRecord /\ worker[w].final \in ScienceDigests
      BY <2>1, BusyWorker DEF BusyPlaces, Inv, Progressed
    <2>3. /\ x \in WorkerRecord /\ x.pc = "recording" /\ x.job = worker[w].job
          /\ x.final = worker[w].final
      BY <2>2 DEF WorkerRecord, Places
    <2> HIDE DEF x
    <2>4. worker' \in [Workers -> WorkerRecord] /\ Holding' /\ Progressed'
      BY <1>8, <2>1, <2>2, <2>3, MoveBusy DEF PublishSucceeds, BusyPlaces
    <2> QED BY <1>8, <2>4 DEF PublishSucceeds, Inv, TypeOK
  <1>9. CASE PublishFails(w)
    <2> DEFINE c == reg.job[worker[w].job].ctx
    <2>1. worker[w].pc = "publishing"
      BY <1>9 DEF PublishFails, At
    <2>2. PICK e \in {"failed", c} \ {"live", "none"} :
            worker' = [worker EXCEPT ![w] =
                        [worker[w] EXCEPT !.pc = "recording", !.err = e]]
      BY <1>9 DEF PublishFails
    <2>3. worker[w] \in WorkerRecord /\ c \in Contexts
      BY <2>1, BusyWorker DEF BusyPlaces, JobRecord
    <2> DEFINE x == [worker[w] EXCEPT !.pc = "recording", !.err = e]
    <2>4. e \in Errors /\ e # "none"
      BY <2>3 DEF Errors, Contexts
    <2>5. /\ x \in WorkerRecord /\ x.pc = "recording" /\ x.job = worker[w].job
          /\ x.err = e
      BY <2>3, <2>4 DEF WorkerRecord, Places
    <2>6. worker' = [worker EXCEPT ![w] = x]
      BY <2>2
    <2> HIDE DEF x
    <2>7. worker' \in [Workers -> WorkerRecord] /\ Holding' /\ Progressed'
      BY <1>9, <2>1, <2>4, <2>5, <2>6, MoveBusy DEF PublishFails, BusyPlaces
    <2> QED BY <1>9, <2>7 DEF PublishFails, Inv, TypeOK
  <1>10. CASE RunSucceeds(w)
    <2>1. worker[w].pc = "running"
      BY <1>10 DEF RunSucceeds, At
    <2>2. PICK d \in ScienceDigests :
            worker' = [worker EXCEPT ![w] =
                        [worker[w] EXCEPT !.pc = "publishing", !.final = d]]
      BY <1>10 DEF RunSucceeds
    <2> DEFINE x == [worker[w] EXCEPT !.pc = "publishing", !.final = d]
    <2>3. worker[w] \in WorkerRecord
      BY <2>1, BusyWorker DEF BusyPlaces
    <2>4. /\ x \in WorkerRecord /\ x.pc = "publishing" /\ x.job = worker[w].job
          /\ x.final = d
      BY <2>3 DEF WorkerRecord, Places
    <2>5. worker' = [worker EXCEPT ![w] = x]
      BY <2>2
    <2> HIDE DEF x
    <2>6. worker' \in [Workers -> WorkerRecord] /\ Holding' /\ Progressed'
      BY <1>10, <2>1, <2>4, <2>5, MoveBusy DEF RunSucceeds, BusyPlaces
    <2> QED BY <1>10, <2>6 DEF RunSucceeds, Inv, TypeOK
  <1>11. CASE RunFails(w)
    <2> DEFINE x == [worker[w] EXCEPT !.pc = "recording", !.err = "failed"]
    <2>1. worker[w].pc = "running" /\ worker' = [worker EXCEPT ![w] = x]
      BY <1>11 DEF RunFails, At
    <2>2. worker[w] \in WorkerRecord
      BY <2>1, BusyWorker DEF BusyPlaces
    <2>3. /\ x \in WorkerRecord /\ x.pc = "recording" /\ x.job = worker[w].job
          /\ x.err = "failed"
      BY <2>2 DEF WorkerRecord, Places, Errors
    <2> HIDE DEF x
    <2>4. worker' \in [Workers -> WorkerRecord] /\ Holding' /\ Progressed'
      BY <1>11, <2>1, <2>3, MoveBusy DEF RunFails, BusyPlaces
    <2> QED BY <1>11, <2>4 DEF RunFails, Inv, TypeOK
  <1> QED BY <1>4, <1>5, <1>6, <1>7, <1>8, <1>9, <1>10, <1>11 DEF FindNothing,
            WakeUp, WorkerSignals, RunInterrupted, PublishSucceeds, PublishFails,
            RunSucceeds, RunFails

-----------------------------------------------------------------------------
(* Start, Close and the environment.                                       *)

LEMMA CloseBeginsStep ==
  ASSUME Inv, CloseBegins
  PROVE  Inv' /\ Effect(reg, reg')
  <1>1. UNCHANGED <<now, runners, started, wake, worker, unsignalled>>
    BY DEF CloseBegins
  <1>3. CASE UNCHANGED <<reg, closed, ctxDone>> /\ closer' = "waiting"
    <2>1. SameStates(reg, reg')
      BY <1>3 DEF SameStates
    <2>2. TypeOK'
      BY <1>1, <1>3 DEF Inv, TypeOK
    <2> QED BY <1>1, <2>1, <2>2, QuietStep DEF Inv
  <1>4. CASE /\ closed' = TRUE /\ ctxDone' = (ctxDone \/ started)
             /\ reg' \in CancelPending(reg) /\ closer' = "signalling"
    <2>1. reg' \in Registry /\ Flushing(reg, reg') /\ Shape(reg)'
      BY <1>4, PendingCancelled
    <2>2. Holding' /\ Progressed'
      BY <1>1, <2>1, SameWorkers DEF Flushing
    <2>3. (ctxDone \/ started) \in BOOLEAN
      BY DEF Inv, TypeOK
    <2>4. TypeOK'
      BY <1>1, <1>4, <2>1, <2>3 DEF Inv, TypeOK
    <2>5. Effect(reg, reg')
      BY <2>1 DEF Effect
    <2> QED BY <2>1, <2>2, <2>4, <2>5 DEF Inv
  <1> QED BY <1>3, <1>4 DEF CloseBegins

LEMMA StartStep ==
  ASSUME Inv, Start
  PROVE  Inv' /\ Effect(reg, reg')
  <1> DEFINE x == AtPlace("next")
  <1>1. /\ ~started /\ started' = TRUE /\ worker' = [w \in Workers |-> x]
        /\ UNCHANGED <<reg, now, runners, closed, ctxDone, wake, unsignalled, closer>>
    BY DEF Start
  <1>2. x \in WorkerRecord /\ x.pc = "next"
    BY DEF AtPlace, WorkerRecord, Places, Errors
  <1> HIDE DEF x
  <1>3. worker' \in [Workers -> WorkerRecord]
    BY <1>1, <1>2
  <1>4. Busy = {} /\ Busy' = {}
    BY <1>1, <1>2 DEF Inv, Progressed, Busy
  <1>5. Holding'
    BY <1>1, <1>4 DEF Inv, Holding
  <1>6. Progressed'
    BY <1>1, <1>2 DEF Progressed
  <1>7. TypeOK'
    BY <1>1, <1>3 DEF Inv, TypeOK
  <1>8. Shape(reg)' /\ Effect(reg, reg')
    BY <1>1 DEF Inv, Shape, Effect, SameStates
  <1> QED BY <1>5, <1>6, <1>7, <1>8 DEF Inv

LEMMA DeadlineStep ==
  ASSUME Inv, NEW j \in JobIds, DeadlinePasses(j)
  PROVE  Inv' /\ Effect(reg, reg')
  <1> DEFINE n == [reg.job[j] EXCEPT !.ctx = "deadline"]
             f == [reg.job EXCEPT ![j] = n]
  <1>1. /\ reg' = [reg EXCEPT !.job = f]
        /\ UNCHANGED <<now, runners, started, closed, ctxDone, wake, worker,
                       unsignalled, closer>>
    BY DEF DeadlinePasses
  <1>2. reg \in Registry
    BY DEF Inv, TypeOK
  <1>3. n \in JobRecord /\ n.state = reg.job[j].state
    <2>1. reg.job[j] \in JobRecord
      BY <1>2, JobType
    <2> QED BY <2>1 DEF JobRecord, Contexts
  <1> HIDE DEF n
  <1>4. /\ f \in [JobIds -> JobRecord]
        /\ \A k \in JobIds : f[k].state = reg.job[k].state
    BY <1>2, <1>3 DEF Registry
  <1> HIDE DEF f
  <1>5. reg' \in Registry /\ SameStates(reg, reg')
    BY <1>1, <1>2, <1>4 DEF Registry, SameStates
  <1>6. TypeOK'
    BY <1>1, <1>5 DEF Inv, TypeOK
  <1> QED BY <1>1, <1>5, <1>6, QuietStep DEF Inv

\* Steps of the registry that change no state, and steps outside it.
LEMMA QuietSteps ==
  ASSUME Inv,
         \/ PruneOnly \/ ParentCancelled \/ Tick \/ SubmitSignals
         \/ CloseSignals \/ CloseReturns \/ \E k \in Kinds : Register(k)
         \/ UNCHANGED vars
  PROVE  Inv' /\ Effect(reg, reg')
  <1>1. reg' \in Registry /\ SameStates(reg, reg')
    <2>1. CASE reg' = reg
      BY <2>1 DEF Inv, TypeOK, SameStates
    <2>2. CASE PruneOnly
      BY <2>2, PrunedSame DEF PruneOnly, Inv
    <2>3. CASE ParentCancelled
      BY <2>3, CancelContextsType, CancelContextsSame DEF ParentCancelled, Inv, TypeOK
    <2> QED BY <2>1, <2>2, <2>3 DEF Tick, SubmitSignals, CloseSignals,
              CloseReturns, Register, vars
  <1>2. UNCHANGED <<started, worker>>
    BY DEF PruneOnly, ParentCancelled, Tick, SubmitSignals, CloseSignals,
           CloseReturns, Register, vars
  <1>3. TypeOK'
    <2>1. CASE PruneOnly
      BY <1>1, <2>1 DEF PruneOnly, Inv, TypeOK
    <2>2. CASE ParentCancelled
      BY <1>1, <2>2 DEF ParentCancelled, Inv, TypeOK
    <2>3. CASE Tick
      BY <1>1, <2>3, ConfigAssumption DEF Tick, Inv, TypeOK
    <2>4. CASE SubmitSignals
      BY <1>1, <2>4, SignalType DEF SubmitSignals, Inv, TypeOK
    <2>5. CASE CloseSignals
      BY <1>1, <2>5, SignalType DEF CloseSignals, Inv, TypeOK
    <2>6. CASE CloseReturns
      BY <1>1, <2>6 DEF CloseReturns, Inv, TypeOK
    <2>7. CASE \E k \in Kinds : Register(k)
      BY <1>1, <2>7 DEF Register, Inv, TypeOK
    <2>8. CASE UNCHANGED vars
      BY <1>1, <2>8 DEF vars, Inv, TypeOK
    <2> QED BY <2>1, <2>2, <2>3, <2>4, <2>5, <2>6, <2>7, <2>8
  <1> QED BY <1>1, <1>2, <1>3, QuietStep DEF Inv

LEMMA NextStep == Inv /\ [Next]_vars => Inv' /\ Effect(reg, reg')
  <1> SUFFICES ASSUME Inv, [Next]_vars PROVE Inv' /\ Effect(reg, reg')
    OBVIOUS
  <1>1. CASE \E r \in Requests : Submit(r)
    BY <1>1, SubmitReplayStep, SubmitJoinStep, SubmitHitStep, SubmitEnqueueStep
    DEF Submit
  <1>2. CASE \E o \in Owners, j \in JobIds : Cancel(o, j)
    BY <1>2, CancelStep
  <1>3. CASE \E w \in Workers : Step(w) \/ RunReturns(w)
    BY <1>3, WorkerStep
  <1>4. CASE Start
    BY <1>4, StartStep
  <1>5. CASE CloseBegins
    BY <1>5, CloseBeginsStep
  <1>6. CASE \E j \in JobIds : DeadlinePasses(j)
    BY <1>6, DeadlineStep
  <1>7. CASE \/ PruneOnly \/ ParentCancelled \/ Tick \/ SubmitSignals
             \/ CloseSignals \/ CloseReturns \/ \E k \in Kinds : Register(k)
             \/ UNCHANGED vars
    BY <1>7, QuietSteps
  <1> QED BY <1>1, <1>2, <1>3, <1>4, <1>5, <1>6, <1>7 DEF Next

\* No such effect changes an outcome.
LEMMA OutcomesKept ==
  ASSUME Inv, Effect(reg, reg'), NEW j \in JobIds, Terminal(reg, j)
  PROVE  reg'.job[j].state = reg.job[j].state
  <1>1. reg \in Registry /\ Shape(reg)
    BY DEF Inv, TypeOK
  <1>2. \A i \in 1..Len(reg.queue) : reg.job[reg.queue[i]].state = "queued"
    BY <1>1 DEF Shape
  <1>3. CASE SameStates(reg, reg')
    BY <1>3 DEF SameStates
  <1>4. CASE Serving(reg, reg') \/ Admitting(reg, reg') \/ Beginning(reg, reg')
             \/ Aborting(reg, reg')
    BY <1>4 DEF Serving, Admitting, Beginning, Aborting, Changed, Terminal
  <1>5. CASE Withdrawing(reg, reg')
    BY <1>2, <1>5 DEF Withdrawing, Changed, Terminal
  <1>6. CASE Flushing(reg, reg')
    <2>1. ToSet(reg.queue) = {reg.queue[n] : n \in 1..Len(reg.queue)}
      BY <1>1, QueueType, ToSetFacts
    <2> QED BY <1>2, <1>6, <2>1 DEF Flushing, Changed, Terminal
  <1>7. CASE Ending(reg, reg')
    BY <1>7 DEF Ending, Changed
  <1> QED BY <1>3, <1>4, <1>5, <1>6, <1>7 DEF Effect

-----------------------------------------------------------------------------
(* The refinement of BoundedFifo: each effect is a step of the FIFO.       *)

\* The fate of a job in a given state.
FateOf(state) ==
  IF state = "unused" THEN "new"
  ELSE IF state \in {"queued", "running"} THEN "pending" ELSE state

LEMMA FateIs == Fate = [j \in JobIds |-> FateOf(reg.job[j].state)]
  <1>1. ASSUME NEW j \in JobIds
        PROVE  (CASE reg.job[j].state = "unused" -> "new"
                  [] Pending(reg, j) -> "pending"
                  [] OTHER -> reg.job[j].state) = FateOf(reg.job[j].state)
    <2>1. CASE reg.job[j].state = "unused"
      BY <2>1 DEF FateOf, Pending
    <2>2. CASE Pending(reg, j)
      BY <2>2 DEF FateOf, Pending
    <2>3. CASE reg.job[j].state # "unused" /\ ~Pending(reg, j)
      BY <2>3 DEF FateOf, Pending
    <2> QED BY <2>1, <2>2, <2>3
  <1> QED BY <1>1 DEF Fate

LEMMA FateChanged ==
  ASSUME NEW J, NEW state, Changed(reg, reg', J, state)
  PROVE  Fate' = [j \in JobIds |-> IF j \in J THEN FateOf(state) ELSE Fate[j]]
  <1>1. (Fate = [j \in JobIds |-> FateOf(reg.job[j].state)])'
    BY FateIs, PTL
  <1>2. \A j \in JobIds : FateOf(reg'.job[j].state) =
          IF j \in J THEN FateOf(state) ELSE FateOf(reg.job[j].state)
    BY DEF Changed
  <1> QED BY <1>1, <1>2, FateIs

\* Both modules count with the same operator.
LEMMA FifoCounts == Fifo!Cardinality(reg.active) = Cardinality(reg.active)
  BY DEF Fifo!Cardinality, Cardinality

LEMMA FifoStep ==
  ASSUME Inv, Effect(reg, reg')
  PROVE  [Fifo!Next]_(Fifo!vars)
  <1> USE DEF Fifo!Next
  <1>1. reg \in Registry /\ Shape(reg)
    BY DEF Inv, TypeOK
  <1>2. \A j \in JobIds : Fate[j] = FateOf(reg.job[j].state) /\ reg.job[j].state \in States
    BY <1>1, FateIs, JobType DEF JobRecord
  <1>3. DOMAIN Fate = JobIds /\ Fate = [j \in JobIds |-> Fate[j]]
    BY DEF Fate
  <1>4. CASE SameStates(reg, reg')
    <2>1. Changed(reg, reg', {}, "ready")
      BY <1>4 DEF SameStates, Changed
    <2>2. Fate' = Fate
      BY <1>3, <2>1, FateChanged
    <2> QED BY <1>4, <2>2 DEF SameStates, Fifo!vars
  <1>5. CASE Serving(reg, reg')
    <2>1. PICK j \in JobIds : /\ reg.job[j].state = "unused"
                               /\ Changed(reg, reg', {j}, "ready")
                               /\ reg'.queue = reg.queue /\ reg'.active = reg.active
      BY <1>5 DEF Serving
    <2>2. Fate' = [Fate EXCEPT ![j] = "ready"]
      BY <1>3, <2>1, FateChanged DEF FateOf
    <2>3. Fifo!Serve(j)
      BY <1>2, <2>1, <2>2 DEF Fifo!Serve, FateOf
    <2> QED BY <2>3
  <1>6. CASE Admitting(reg, reg')
    <2>1. PICK j \in JobIds : /\ reg.job[j].state = "unused"
                               /\ Changed(reg, reg', {j}, "queued")
                               /\ Len(reg.queue) < QueueCapacity
                               /\ reg'.queue = Append(reg.queue, j)
                               /\ reg'.active = reg.active
      BY <1>6 DEF Admitting
    <2>2. Fate' = [Fate EXCEPT ![j] = "pending"]
      BY <1>3, <2>1, FateChanged DEF FateOf
    <2>3. Fifo!Admit(j)
      BY <1>2, <2>1, <2>2 DEF Fifo!Admit, FateOf
    <2> QED BY <2>3
  <1>7. CASE Beginning(reg, reg')
    <2>1. Fate' = Fate
      BY <1>2, <1>3, <1>7, FateChanged DEF Beginning, FateOf
    <2>2. /\ reg.queue # <<>> /\ Cardinality(reg.active) < Cardinality(Workers)
          /\ reg'.active = reg.active \cup {Head(reg.queue)}
          /\ reg'.queue = Tail(reg.queue)
      BY <1>7 DEF Beginning
    <2>3. Fifo!Begin
      BY <2>1, <2>2, FifoCounts DEF Fifo!Begin
    <2> QED BY <2>3
  <1>8. CASE Aborting(reg, reg')
    <2>1. PICK j \in JobIds : /\ reg.job[j].state = "running"
                               /\ Changed(reg, reg', {j}, "cancelled")
                               /\ reg'.queue = reg.queue /\ reg'.active = reg.active
      BY <1>8 DEF Aborting
    <2>2. Fate' = [Fate EXCEPT ![j] = "cancelled"]
      BY <1>3, <2>1, FateChanged DEF FateOf
    <2>3. Fifo!Abort(j)
      BY <1>1, <1>2, <2>1, <2>2 DEF Fifo!Abort, FateOf, Shape
    <2> QED BY <2>3
  <1>9. CASE Withdrawing(reg, reg')
    <2>1. PICK i \in 1..Len(reg.queue) :
            /\ Changed(reg, reg', {reg.queue[i]}, "cancelled")
            /\ reg'.queue = RemoveAt(reg.queue, i) /\ reg'.active = reg.active
      BY <1>9 DEF Withdrawing
    <2>2. i \in DOMAIN reg.queue /\ reg.queue[i] \in JobIds
      BY <1>1, QueueType
    <2>3. Fate' = [Fate EXCEPT ![reg.queue[i]] = "cancelled"]
      BY <1>3, <2>1, <2>2, FateChanged DEF FateOf
    <2>4. Fifo!Withdraw(i)
      BY <2>1, <2>2, <2>3 DEF Fifo!Withdraw, RemoveAt
    <2> QED BY <2>2, <2>4
  <1>10. CASE Flushing(reg, reg')
    <2>1. /\ ToSet(reg.queue) = {reg.queue[n] : n \in 1..Len(reg.queue)}
          /\ DOMAIN reg.queue = 1..Len(reg.queue)
      BY <1>1, QueueType, ToSetFacts
    <2>2. Fate' = [j \in JobIds |-> IF \E n \in DOMAIN reg.queue : reg.queue[n] = j
                                    THEN "cancelled" ELSE Fate[j]]
      BY <1>10, <2>1, FateChanged DEF Flushing, FateOf
    <2>3. CASE reg.queue = <<>>
      <3>1. \A j : ~\E n \in DOMAIN reg.queue : reg.queue[n] = j
        BY <2>1, <2>3, EmptySeq
      <3>2. Fate' = Fate
        BY <1>3, <2>2, <3>1
      <3> QED BY <1>10, <2>3, <3>2 DEF Flushing, Fifo!vars
    <2>4. CASE reg.queue # <<>>
      <3>1. Fifo!Flush
        BY <1>10, <2>2, <2>4 DEF Flushing, Fifo!Flush
      <3> QED BY <3>1
    <2> QED BY <2>3, <2>4
  <1>11. CASE Ending(reg, reg')
    <2>1. PICK j \in reg.active :
            /\ reg'.queue = reg.queue /\ reg'.active = reg.active \ {j}
            /\ \/ Terminal(reg, j) /\ Changed(reg, reg', {}, "ready")
               \/ /\ ~Terminal(reg, j)
                  /\ \E st \in {"ready", "failed", "cancelled"} :
                       Changed(reg, reg', {j}, st)
      BY <1>11 DEF Ending
    <2>2. j \in JobIds /\ reg.job[j].state \notin {"unused", "queued"}
      BY <1>1, QueueType DEF Shape
    <2>3. CASE Terminal(reg, j) /\ Changed(reg, reg', {}, "ready")
      <3>1. Fate' = Fate
        BY <1>3, <2>3, FateChanged
      <3>2. Fate[j] # "pending"
        BY <1>2, <2>2, <2>3 DEF FateOf, Terminal
      <3>3. Fifo!End(j)
        BY <2>1, <3>1, <3>2 DEF Fifo!End
      <3> QED BY <2>2, <3>3
    <2>4. CASE ~Terminal(reg, j)
      <3>1. PICK st \in {"ready", "failed", "cancelled"} : Changed(reg, reg', {j}, st)
        BY <2>1, <2>4
      <3>2. Fate' = [Fate EXCEPT ![j] = st]
        BY <1>3, <2>2, <3>1, FateChanged DEF FateOf
      <3>3. Fate[j] = "pending"
        BY <1>2, <2>2, <2>4 DEF FateOf, Terminal, States
      <3>4. Fifo!End(j)
        BY <2>1, <3>1, <3>2, <3>3 DEF Fifo!End, Fifo!Outcomes
      <3> QED BY <2>2, <3>4
    <2> QED BY <2>1, <2>3, <2>4
  <1> QED BY <1>4, <1>5, <1>6, <1>7, <1>8, <1>9, <1>10, <1>11 DEF Effect

-----------------------------------------------------------------------------
(* Wake-ups.                                                               *)

\* Who looks at the FIFO will find enough jobs, or every waiting worker will.
Enough ==
  \/ wake + unsignalled + Cardinality(Awake) >= Len(reg.queue)
  \/ wake + unsignalled >= Cardinality(Idle)

LEMMA Counts ==
  Inv => /\ IsFiniteSet(Idle) /\ IsFiniteSet(Awake)
         /\ Cardinality(Idle) \in Nat /\ Cardinality(Awake) \in Nat
         /\ Cardinality(Idle) + Cardinality(Awake) <= Cardinality(Workers)
         /\ wake \in Nat /\ unsignalled \in Nat /\ Len(reg.queue) \in Nat
         /\ Cardinality(Workers) \in Nat /\ wake <= Cardinality(Workers)
  <1> SUFFICES ASSUME Inv
      PROVE  /\ IsFiniteSet(Idle) /\ IsFiniteSet(Awake)
             /\ Cardinality(Idle) \in Nat /\ Cardinality(Awake) \in Nat
             /\ Cardinality(Idle) + Cardinality(Awake) <= Cardinality(Workers)
             /\ wake \in Nat /\ unsignalled \in Nat /\ Len(reg.queue) \in Nat
             /\ Cardinality(Workers) \in Nat /\ wake <= Cardinality(Workers)
    OBVIOUS
  <1>1. IsFiniteSet(Workers) /\ Cardinality(Workers) \in Nat
    BY ConfigAssumption, FS_CardinalityType
  <1>2. Idle \in SUBSET Workers /\ Awake \in SUBSET Workers /\ Idle \cap Awake = {}
    BY DEF Idle, Awake, At
  <1>3. /\ IsFiniteSet(Idle) /\ IsFiniteSet(Awake)
        /\ Cardinality(Idle) \in Nat /\ Cardinality(Awake) \in Nat
    BY <1>1, <1>2, FS_Subset, FS_CardinalityType
  <1>4. Cardinality(Idle \cup Awake) = Cardinality(Idle) + Cardinality(Awake)
    <2>1. Cardinality(Idle \cap Awake) = 0
      BY <1>2, FS_EmptySet
    <2>2. Cardinality(Idle \cup Awake) =
            Cardinality(Idle) + Cardinality(Awake) - Cardinality(Idle \cap Awake)
      BY <1>3, FS_Union
    <2> QED BY <1>3, <2>1, <2>2
  <1>5. Cardinality(Idle \cup Awake) <= Cardinality(Workers)
    <2>1. Idle \cup Awake \in SUBSET Workers
      BY <1>2
    <2> QED BY <1>1, <2>1, FS_Subset
  <1>6. wake \in 0..Cardinality(Workers) /\ unsignalled \in Nat /\ reg \in Registry
    BY DEF Inv, TypeOK
  <1>7. Len(reg.queue) \in Nat
    BY <1>6, QueueType
  <1> QED BY <1>1, <1>3, <1>4, <1>5, <1>6, <1>7

LEMMA EnoughIs == Inv => (NoLostWakeup <=> Enough)
  <1> SUFFICES ASSUME Inv PROVE NoLostWakeup <=> Enough
    OBVIOUS
  <1> DEFINE i == Cardinality(Idle)
             a == Cardinality(Awake)
             q == Len(reg.queue)
  <1>1. i \in Nat /\ a \in Nat /\ q \in Nat /\ wake \in Nat /\ unsignalled \in Nat
    BY Counts
  <1>2. NoLostWakeup <=> wake + unsignalled + a >= IF q < i + a THEN q ELSE i + a
    BY DEF NoLostWakeup
  <1>3. Enough <=> wake + unsignalled + a >= q \/ wake + unsignalled >= i
    BY DEF Enough
  <1> HIDE DEF i, a, q
  <1> QED BY <1>1, <1>2, <1>3

\* Only an admission makes the FIFO longer, and it announces a signal.
LEMMA QueueLength ==
  ASSUME Inv, Effect(reg, reg')
  PROVE  \/ Len(reg'.queue) <= Len(reg.queue)
         \/ Len(reg'.queue) = Len(reg.queue) + 1 /\ unsignalled' = unsignalled + 1
  <1>1. reg.queue \in Seq(JobIds) /\ Len(reg.queue) \in Nat
    BY QueueType DEF Inv, TypeOK
  <1>2. CASE SameStates(reg, reg') \/ Serving(reg, reg') \/ Aborting(reg, reg')
             \/ Ending(reg, reg')
    <2>1. reg'.queue = reg.queue
      BY <1>2 DEF SameStates, Serving, Aborting, Ending
    <2> QED BY <1>1, <2>1
  <1>3. CASE Admitting(reg, reg')
    BY <1>1, <1>3, AppendProperties DEF Admitting
  <1>4. CASE Beginning(reg, reg')
    BY <1>1, <1>4, HeadTailProperties DEF Beginning
  <1>5. CASE Withdrawing(reg, reg')
    BY <1>1, <1>5, RemoveAtFacts DEF Withdrawing
  <1>6. CASE Flushing(reg, reg')
    BY <1>1, <1>6, EmptySeq DEF Flushing
  <1> QED BY <1>2, <1>3, <1>4, <1>5, <1>6 DEF Effect

\* A worker goes from one place to another.
LEMMA Moved ==
  ASSUME Inv, NEW w \in Workers, NEW x, worker' = [worker EXCEPT ![w] = x]
  PROVE  /\ Idle' = IF x.pc = "idle" THEN Idle \cup {w} ELSE Idle \ {w}
         /\ Awake' = IF x.pc \in {"next", "signalling"} THEN Awake \cup {w}
                     ELSE Awake \ {w}
  <1>1. \A v \in Workers : worker'[v] = IF v = w THEN x ELSE worker[v]
    BY DEF Inv, TypeOK
  <1> QED BY <1>1 DEF Idle, Awake, At

\* A run that ends leaves its worker busy.
LEMMA RunMoves ==
  ASSUME Inv, NEW w \in Workers,
         RunInterrupted(w) \/ PublishSucceeds(w) \/ PublishFails(w) \/ RunReturns(w)
  PROVE  \E x : /\ worker' = [worker EXCEPT ![w] = x] /\ wake' = wake
               /\ x.pc \in {"publishing", "recording"}
               /\ w \notin Idle /\ w \notin Awake
  <1>1. worker[w].pc \in BusyPlaces
    BY DEF RunInterrupted, PublishSucceeds, PublishFails, RunReturns, RunSucceeds,
       RunFails, At, BusyPlaces
  <1>2. worker[w] \in WorkerRecord /\ w \notin Idle /\ w \notin Awake
    BY <1>1, BusyWorker DEF BusyPlaces, Idle, Awake, At
  <1> QED BY <1>2 DEF RunInterrupted, PublishSucceeds, PublishFails, RunReturns,
         RunSucceeds, RunFails, WorkerRecord

LEMMA WakeupStep == Inv /\ Enough /\ [Next]_vars => Enough'
  <1> SUFFICES ASSUME Inv, Enough, [Next]_vars PROVE Enough'
    OBVIOUS
  <1> DEFINE i == Cardinality(Idle)
             a == Cardinality(Awake)
             q == Len(reg.queue)
             n == Cardinality(Workers)
  <1>1. Inv' /\ Effect(reg, reg')
    BY NextStep
  <1>2. /\ i \in Nat /\ a \in Nat /\ q \in Nat /\ wake \in Nat /\ unsignalled \in Nat
        /\ n \in Nat /\ i + a <= n /\ IsFiniteSet(Idle) /\ IsFiniteSet(Awake)
    BY Counts
  <1>3. /\ i' \in Nat /\ a' \in Nat /\ q' \in Nat /\ wake' \in Nat /\ unsignalled' \in Nat
        /\ i' + a' <= n
    <2>1. Inv' => (/\ IsFiniteSet(Idle) /\ IsFiniteSet(Awake)
                   /\ Cardinality(Idle) \in Nat /\ Cardinality(Awake) \in Nat
                   /\ Cardinality(Idle) + Cardinality(Awake) <= Cardinality(Workers)
                   /\ wake \in Nat /\ unsignalled \in Nat /\ Len(reg.queue) \in Nat
                   /\ Cardinality(Workers) \in Nat /\ wake <= Cardinality(Workers))'
      BY Counts, PTL
    <2> QED BY <1>1, <2>1
  <1>4. (wake + unsignalled + a >= q) \/ (wake + unsignalled >= i)
    BY DEF Enough
  <1>5. (q' <= q) \/ (q' = q + 1 /\ unsignalled' = unsignalled + 1)
    BY <1>1, QueueLength
  <1> SUFFICES (wake' + unsignalled' + a' >= q') \/ (wake' + unsignalled' >= i')
    BY DEF Enough
  <1>6. CASE UNCHANGED <<wake, worker>> /\ unsignalled' \in {unsignalled, unsignalled + 1}
    <2>1. i' = i /\ a' = a
      BY <1>6 DEF Idle, Awake, At
    <2> QED BY <1>2, <1>3, <1>4, <1>5, <1>6, <2>1
  <1>7. CASE SubmitSignals \/ CloseSignals
    <2>1. i' = i /\ a' = a /\ q' = q /\ wake' = Signalled
      BY <1>7 DEF SubmitSignals, CloseSignals, Idle, Awake, At
    <2>2. unsignalled' = unsignalled \/ unsignalled' = unsignalled - 1
      BY <1>7 DEF SubmitSignals, CloseSignals
    <2>3. wake' = (IF wake < n THEN wake + 1 ELSE wake)
      BY <2>1 DEF Signalled
    <2> QED BY <1>2, <1>3, <1>4, <2>1, <2>2, <2>3
  <1>8. CASE Start
    <2>1. Idle' = {}
      BY <1>8 DEF Start, Idle, At, AtPlace
    <2>2. i' = 0
      BY <2>1, FS_EmptySet

    <2>3. i' <= wake'
      BY <1>3, <2>2
    <2> QED BY <1>3, <2>3
  <1>9. ASSUME NEW w \in Workers, Step(w) \/ RunReturns(w)
        PROVE  (wake' + unsignalled' + a' >= q') \/ (wake' + unsignalled' >= i')
    <2>1. /\ Cardinality(Idle \ {w}) = IF w \in Idle THEN i - 1 ELSE i
          /\ Cardinality(Awake \ {w}) = IF w \in Awake THEN a - 1 ELSE a
          /\ Cardinality(Idle \cup {w}) = IF w \in Idle THEN i ELSE i + 1
          /\ Cardinality(Awake \cup {w}) = IF w \in Awake THEN a ELSE a + 1
      BY <1>2, FS_AddElement, FS_RemoveElement
    <2>2. unsignalled' = unsignalled
      BY <1>9 DEF Step, RunReturns, Exit, TakeJob, FindNothing, WakeUp, RunInterrupted,
         PublishSucceeds, PublishFails, Record, WorkerSignals, RunSucceeds, RunFails
    <2>3. q' <= q
      <3> HIDE DEF q
      <3> QED BY <1>2, <1>5, <2>2
    <2>4. CASE Exit(w)
      <3>1. reg'.queue = <<>>
        BY <2>4, PendingCancelled DEF Exit, Flushing
      <3>2. q' <= wake'
        BY <1>3, <3>1, EmptySeq
      <3> QED BY <1>3, <3>2
    <2>5. CASE FindNothing(w)
      <3>1. reg'.queue = <<>>
        BY <2>5 DEF FindNothing
      <3>2. q' <= wake'
        BY <1>3, <3>1, EmptySeq
      <3> QED BY <1>3, <3>2
    <2>6. CASE TakeJob(w)
      <3>1. q' = q - 1
        BY <2>6, HeadTailProperties, TakenFacts, QueueType DEF TakeJob, Inv, TypeOK
      <3>2. w \in Awake /\ w \notin Idle /\ wake' = wake
        BY <2>6 DEF TakeJob, At, Awake, Idle
      <3>3. Idle' = Idle \ {w} /\ Awake' = Awake \ {w}
        <4> DEFINE x == [AtPlace("running") EXCEPT !.job = Head(reg.queue)]
        <4>1. worker' = [worker EXCEPT ![w] = x] /\ x.pc = "running"
          BY <2>6 DEF TakeJob, AtPlace
        <4> HIDE DEF x
        <4> QED BY <4>1, Moved
      <3>4. i' = i /\ a' = a - 1
        BY <2>1, <3>2, <3>3
      <3> HIDE DEF i, a, q, n
      <3>5. wake \in Nat /\ unsignalled \in Nat /\ i \in Nat /\ a \in Nat /\ q \in Nat
        BY <1>2
      <3>6. wake' = wake
        BY <3>2
      <3>7. CASE wake + unsignalled + a >= q
        BY <2>2, <3>1, <3>4, <3>5, <3>6, <3>7
      <3>8. CASE wake + unsignalled >= i
        BY <2>2, <3>1, <3>4, <3>5, <3>6, <3>8
      <3> QED BY <1>4, <3>7, <3>8
    <2>7. CASE WakeUp(w)
      <3>1. w \in Idle /\ w \notin Awake /\ (wake' = wake \/ wake' = wake - 1)
        BY <2>7 DEF WakeUp, At, Awake, Idle
      <3>2. Idle' = Idle \ {w} /\ Awake' = Awake \cup {w}
        <4> DEFINE x == AtPlace("next")
        <4>1. worker' = [worker EXCEPT ![w] = x] /\ x.pc = "next"
          BY <2>7 DEF WakeUp, AtPlace
        <4> HIDE DEF x
        <4> QED BY <4>1, Moved
      <3>3. i' = i - 1 /\ a' = a + 1
        BY <2>1, <3>1, <3>2
      <3> HIDE DEF i, a, q, n
      <3>4. /\ wake \in Nat /\ unsignalled \in Nat /\ i \in Nat /\ a \in Nat /\ q \in Nat
            /\ q' \in Nat
        BY <1>2, <1>3
      <3>5. CASE wake' = wake
        <4>1. CASE wake + unsignalled + a >= q
          BY <2>2, <2>3, <3>3, <3>4, <3>5, <4>1
        <4>2. CASE wake + unsignalled >= i
          BY <2>2, <3>3, <3>4, <3>5, <4>2
        <4> QED BY <1>4, <4>1, <4>2
      <3>6. CASE wake' = wake - 1
        <4>1. CASE wake + unsignalled + a >= q
          BY <2>2, <2>3, <3>3, <3>4, <3>6, <4>1
        <4>2. CASE wake + unsignalled >= i
          BY <2>2, <3>3, <3>4, <3>6, <4>2
        <4> QED BY <1>4, <4>1, <4>2
      <3> QED BY <3>1, <3>5, <3>6
    <2>8. CASE Record(w)
      <3>1. w \notin Idle /\ w \notin Awake /\ wake' = wake
        BY <2>8 DEF Record, At, Awake, Idle
      <3>2. Idle' = Idle \ {w} /\ Awake' = Awake \cup {w}
        <4> DEFINE x == AtPlace("signalling")
        <4>1. worker' = [worker EXCEPT ![w] = x] /\ x.pc = "signalling"
          BY <2>8 DEF Record, AtPlace
        <4> HIDE DEF x
        <4> QED BY <4>1, Moved
      <3>3. i' = i /\ a' = a + 1
        BY <2>1, <3>1, <3>2
      <3> HIDE DEF i, a, q, n
      <3> QED BY <1>2, <1>3, <1>4, <2>2, <2>3, <3>1, <3>3
    <2>9. CASE WorkerSignals(w)
      <3>1. w \notin Idle /\ w \in Awake /\ wake' = Signalled
        BY <2>9 DEF WorkerSignals, At, Awake, Idle
      <3>2. Idle' = Idle \ {w} /\ Awake' = Awake \cup {w}
        <4> DEFINE x == AtPlace("next")
        <4>1. worker' = [worker EXCEPT ![w] = x] /\ x.pc = "next"
          BY <2>9 DEF WorkerSignals, AtPlace
        <4> HIDE DEF x
        <4> QED BY <4>1, Moved
      <3>3. i' = i /\ a' = a
        BY <2>1, <3>1, <3>2
      <3>4. wake' = (IF wake < n THEN wake + 1 ELSE wake)
        BY <3>1 DEF Signalled
      <3> HIDE DEF i, a, q, n
      <3> QED BY <1>2, <1>3, <1>4, <2>2, <2>3, <3>3, <3>4
    <2>10. CASE RunInterrupted(w) \/ PublishSucceeds(w) \/ PublishFails(w)
                \/ RunReturns(w)
      <3>1. PICK x : /\ worker' = [worker EXCEPT ![w] = x] /\ wake' = wake
                     /\ x.pc \in {"publishing", "recording"}
                     /\ w \notin Idle /\ w \notin Awake
        BY <2>10, RunMoves
      <3>2. Idle' = Idle \ {w} /\ Awake' = Awake \ {w}
        BY <3>1, Moved
      <3>3. i' = i /\ a' = a
        BY <2>1, <3>1, <3>2
      <3> HIDE DEF i, a, q, n
      <3> QED BY <1>2, <1>3, <1>4, <2>2, <2>3, <3>1, <3>3
    <2> QED BY <1>9, <2>4, <2>5, <2>6, <2>7, <2>8, <2>9, <2>10 DEF Step
  <1>10. \/ (UNCHANGED <<wake, worker>> /\ unsignalled' \in {unsignalled, unsignalled + 1})
         \/ SubmitSignals \/ CloseSignals \/ Start
         \/ \E w \in Workers : Step(w) \/ RunReturns(w)
    BY DEF Next, Submit, SubmitReplay, SubmitJoin, SubmitHit, SubmitEnqueue, Cancel,
       Register, CloseBegins, CloseReturns, ParentCancelled, Tick, PruneOnly,
       DeadlinePasses, vars
  <1> QED BY <1>6, <1>7, <1>8, <1>9, <1>10

-----------------------------------------------------------------------------
(* Shutdown.                                                               *)

\* Whoever closes the coordinator empties its FIFO, and a worker leaves closed doors.
Shut ==
  /\ closed => reg.queue = <<>>
  /\ \A w \in Workers : At(w, "exited") => closed

LEMMA ShutStep == Inv /\ Shut /\ [Next]_vars => Shut'
  <1> SUFFICES ASSUME Inv, Shut, [Next]_vars PROVE Shut'
    OBVIOUS
  <1>1. Inv' /\ Effect(reg, reg')
    BY NextStep
  <1>2. reg \in Registry /\ reg' \in Registry
    BY <1>1 DEF Inv, TypeOK
  <1>3. ASSUME closed /\ closed' PROVE reg'.queue = <<>>
    <2>1. reg.queue = <<>> /\ unsignalled \in Nat
      BY <1>3 DEF Shut, Inv, TypeOK
    <2>2. unsignalled' # unsignalled + 1
      <3>1. \/ unsignalled' = unsignalled \/ unsignalled' = unsignalled - 1
            \/ \E r \in Requests : SubmitEnqueue(r)
        BY DEF Next, Submit, SubmitReplay, SubmitJoin, SubmitHit, Cancel, Register, Start,
           CloseBegins, CloseSignals, CloseReturns, ParentCancelled, Tick, PruneOnly,
           SubmitSignals, Step, RunReturns, Exit, TakeJob, FindNothing, WakeUp,
           RunInterrupted, PublishSucceeds, PublishFails, Record, WorkerSignals,
           RunSucceeds, RunFails, DeadlinePasses, vars
      <3>2. \A r \in Requests : ~SubmitEnqueue(r)
        BY <1>3 DEF SubmitEnqueue, Accepting
      <3> QED BY <2>1, <3>1, <3>2
    <2>3. Len(reg'.queue) <= Len(reg.queue)
      BY <1>1, <2>2, QueueLength
    <2> QED BY <1>2, <2>1, <2>3, QueueType, EmptySeq
  <1>4. ASSUME ~closed /\ closed' PROVE reg'.queue = <<>>
    <2>1. reg' \in CancelPending(reg)
      BY <1>4 DEF Next, Submit, SubmitReplay, SubmitJoin, SubmitHit, SubmitEnqueue,
         Cancel, Register, Start, CloseBegins, CloseSignals, CloseReturns,
         ParentCancelled, Tick, PruneOnly, SubmitSignals, Step, RunReturns, Exit, TakeJob,
         FindNothing, WakeUp, RunInterrupted, PublishSucceeds, PublishFails, Record,
         WorkerSignals, RunSucceeds, RunFails, DeadlinePasses, vars
    <2> QED BY <2>1, PendingCancelled DEF Flushing
  <1>5. closed' = closed \/ closed'
    BY DEF Next, Submit, SubmitReplay, SubmitJoin, SubmitHit, SubmitEnqueue,
       Cancel, Register, Start, CloseBegins, CloseSignals, CloseReturns,
       ParentCancelled, Tick, PruneOnly, SubmitSignals, Step, RunReturns, Exit, TakeJob,
       FindNothing, WakeUp, RunInterrupted, PublishSucceeds, PublishFails, Record,
       WorkerSignals, RunSucceeds, RunFails, DeadlinePasses, vars
  <1>6. ASSUME NEW v \in Workers, At(v, "exited")' PROVE closed'
    <2>1. CASE At(v, "exited")
      BY <1>5, <2>1 DEF Shut
    <2>2. CASE ~At(v, "exited")
      <3>1. worker' # worker
        BY <1>6, <2>2 DEF At
      <3>2. CASE Start
        BY <1>6, <3>2 DEF Start, At, AtPlace
      <3>3. ASSUME NEW w \in Workers, Step(w) \/ RunReturns(w) PROVE closed'
        <4>1. CASE Exit(w)
          BY <4>1 DEF Exit
        <4>2. CASE ~Exit(w)
          <5>1. PICK x : worker' = [worker EXCEPT ![w] = x] /\ x.pc # "exited"
            <6>1. CASE TakeJob(w) \/ FindNothing(w) \/ WakeUp(w) \/ Record(w)
                       \/ WorkerSignals(w)
              BY <6>1 DEF TakeJob, FindNothing, WakeUp, Record, WorkerSignals, AtPlace
            <6>2. CASE RunInterrupted(w) \/ PublishSucceeds(w) \/ PublishFails(w)
                       \/ RunReturns(w)
              BY <6>2, RunMoves
            <6> QED BY <3>3, <4>2, <6>1, <6>2 DEF Step
          <5>2. worker'[v] = IF v = w THEN x ELSE worker[v]
            BY <5>1 DEF Inv, TypeOK
          <5> QED BY <1>6, <2>2, <5>1, <5>2 DEF At
        <4> QED BY <4>1, <4>2
      <3>4. Start \/ \E w \in Workers : Step(w) \/ RunReturns(w)
        BY <3>1 DEF Next, Submit, SubmitReplay, SubmitJoin, SubmitHit, SubmitEnqueue,
           Cancel, Register, CloseBegins, CloseSignals, CloseReturns, ParentCancelled,
           Tick, PruneOnly, SubmitSignals, DeadlinePasses, vars
      <3> QED BY <3>2, <3>3, <3>4
    <2> QED BY <2>1, <2>2
  <1>7. closed \in BOOLEAN /\ closed' \in BOOLEAN
    BY <1>1 DEF Inv, TypeOK
  <1> QED BY <1>3, <1>4, <1>6, <1>7 DEF Shut

-----------------------------------------------------------------------------
(* The theorems.                                                           *)

\* The inductive invariant holds in every reachable state of the coordinator
\* (coordinator.go:72).
THEOREM Invariant == Spec => []Inv
  BY InitInv, NextStep, PTL DEF Spec

\* Every variable keeps its type: the maps name known jobs, the wake channel
\* never holds more than Concurrency tokens (coordinator.go:775).
THEOREM TypeCorrect == Spec => []TypeOK
  <1>1. Inv => TypeOK
    BY DEF Inv
  <1> QED BY <1>1, Invariant, PTL

\* The active map is exactly what the busy workers execute, one job each
\* (coordinator.go:507, 671).
THEOREM SlotsAreExact == Spec => []SlotsExact
  <1>1. Inv => SlotsExact
    BY DEF Inv, Holding, Shape, SlotsExact
  <1> QED BY <1>1, Invariant, PTL

\* The FIFO holds each queued job once, nothing else, within its capacity
\* (coordinator.go:277).
THEOREM QueueIsExact == Spec => []QueueExact
  <1>1. ASSUME Inv PROVE QueueExact
    <2>1. reg \in Registry /\ Shape(reg)
      BY <1>1 DEF Inv, TypeOK
    <2>2. /\ ToSet(reg.queue) = {reg.queue[n] : n \in 1..Len(reg.queue)}
          /\ DOMAIN reg.queue = 1..Len(reg.queue)
      BY <2>1, QueueType, ToSetFacts
    <2> QED BY <2>1, <2>2 DEF Shape, QueueExact
  <1> QED BY <1>1, Invariant, PTL

\* No step changes the outcome of a job, whatever its runner returns later
\* (coordinator.go:589, 700).
THEOREM OutcomesAreFinal == Spec => OutcomeIsFinal
  <1>1. Inv /\ [Next]_vars =>
          [\A j \in JobIds : Terminal(reg, j) => reg'.job[j].state = reg.job[j].state]_vars
    BY NextStep, OutcomesKept
  <1> QED BY <1>1, Invariant, PTL DEF Spec, OutcomeIsFinal

\* Hidden behind maps, owners, goroutines and tokens, the coordinator is a
\* bounded FIFO in front of Concurrency slots: every one of its steps is one
\* step of BoundedFifo, under the mapping of Coordinator, or invisible to it
\* (coordinator.go:171, 511).
THEOREM ImplementsFifo == Spec => FifoSpec
  <1>1. Init => Fifo!Init
    <2> SUFFICES ASSUME Init PROVE Fifo!Init
      OBVIOUS
    <2>1. reg.queue = <<>> /\ reg.active = {}
          /\ \A j \in JobIds : reg.job[j].state = "unused"
      BY DEF Init, Unused
    <2>2. Fate = [j \in JobIds |-> "new"]
      BY <2>1, FateIs DEF FateOf
    <2> QED BY <2>1, <2>2 DEF Fifo!Init
  <1>2. Inv /\ [Next]_vars => [Fifo!Next]_(Fifo!vars)
    BY NextStep, FifoStep
  <1> QED BY <1>1, <1>2, Invariant, PTL DEF Spec, FifoSpec, Fifo!Spec

\* No worker sleeps beside a job it could take: the tokens of the wake channel, the
\* signals still to come and the workers already up reach the shorter of the FIFO and
\* the workers that could take from it (coordinator.go:775).
THEOREM WakeupsAreKept == Spec => []NoLostWakeup
  <1>1. Init => Enough
    <2> SUFFICES ASSUME Init PROVE Enough
      OBVIOUS
    <2>1. Inv
      BY InitInv
    <2>2. reg.queue = <<>>
      BY DEF Init
    <2>3. Len(reg.queue) <= wake
      BY <2>1, <2>2, Counts, EmptySeq
    <2> QED BY <2>1, <2>3, Counts DEF Enough
  <1>2. Spec => []Enough
    BY <1>1, WakeupStep, Invariant, PTL DEF Spec
  <1> QED BY <1>2, EnoughIs, Invariant, PTL

\* When the last worker has left, nothing is queued, nothing runs and every job that
\* was ever admitted has an outcome (coordinator.go:148, 502).
THEOREM DrainedWhenWorkersLeave == Spec => []DrainedOnExit
  <1>1. Init => Shut
    BY DEF Init, Shut, At, AtPlace
  <1>2. Spec => []Shut
    BY <1>1, ShutStep, Invariant, PTL DEF Spec
  <1>3. Inv /\ Shut => DrainedOnExit
    <2> SUFFICES ASSUME Inv, Shut, \A w \in Workers : At(w, "exited")
        PROVE  reg.queue = <<>> /\ reg.active = {} /\ \A j \in JobIds : ~Pending(reg, j)
      BY DEF DrainedOnExit
    <2>1. closed
      BY ConfigAssumption DEF Shut
    <2>2. reg.queue = <<>>
      BY <2>1 DEF Shut
    <2>3. Busy = {}
      BY DEF Busy, At
    <2>4. reg.active = {}
      BY <2>3 DEF Inv, Holding
    <2>5. 1..Len(reg.queue) = {}
      BY <2>2, EmptySeq
    <2>6. ASSUME NEW j \in JobIds PROVE ~Pending(reg, j)
      BY <2>4, <2>5 DEF Inv, Shape, Pending
    <2> QED BY <2>2, <2>4, <2>6
  <1> QED BY <1>2, <1>3, Invariant, PTL

=============================================================================
