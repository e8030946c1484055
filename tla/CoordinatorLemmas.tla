------------------------- MODULE CoordinatorLemmas -------------------------
(* What the helpers of the directional coordinator do to its registry: the *)
(* lemmas the theorems of CoordinatorProofs rest on.                       *)
EXTENDS Coordinator, SequenceTheorems, TLAPS

-----------------------------------------------------------------------------
(* Typing of the helpers on the registry.                                  *)

LEMMA ForgetType ==
  ASSUME NEW s \in Registry, NEW R
  PROVE  /\ Forget(s, R) \in Registry
         /\ Forget(s, R).job = s.job
         /\ Forget(s, R).queue = s.queue
         /\ Forget(s, R).active = s.active
  BY DEF Registry, Forget

LEMMA PrunedAfterType ==
  ASSUME NEW s \in Registry, NEW last, NEW t \in PrunedAfter(s, last)
  PROVE  /\ t \in Registry
         /\ t.job = s.job
         /\ t.queue = s.queue
         /\ t.active = s.active
  <1> DEFINE e == Forget(s, Expired(s))
  <1>1. PICK R : t = Forget(e, R)
    BY DEF PrunedAfter
  <1> QED BY <1>1, ForgetType

\* The updates the code makes to a job record.
LEMMA JobUpdateType ==
  ASSUME NEW r \in JobRecord, NEW O \in SUBSET Owners,
         NEW K \in SUBSET IdemDigests, NEW state \in States,
         NEW t \in 0..MaxTime, NEW c \in Contexts,
         NEW d \in ScienceDigests \cup {NoDigest}
  PROVE  /\ [r EXCEPT !.owners = O, !.keys = K] \in JobRecord
         /\ [r EXCEPT !.state = state, !.finishedAt = t] \in JobRecord
         /\ [r EXCEPT !.state = state, !.ctx = c] \in JobRecord
         /\ [r EXCEPT !.ctx = c] \in JobRecord
         /\ [r EXCEPT !.published = d] \in JobRecord
  BY DEF JobRecord

LEMMA JobType ==
  ASSUME NEW s \in Registry, NEW j \in JobIds
  PROVE  s.job[j] \in JobRecord
  BY DEF Registry

LEMMA AddOwnerType ==
  ASSUME NEW s \in Registry, NEW j \in JobIds, NEW o \in Owners,
         NEW i \in IdemDigests
  PROVE  AddOwner(s, j, o, i) \in Registry
  <1> DEFINE r == [s.job[j] EXCEPT !.owners = s.job[j].owners \cup {o},
                                   !.keys = s.job[j].keys \cup {i}]
  <1>1. s.job[j] \in JobRecord
    BY JobType
  <1>2. /\ s.job[j].owners \cup {o} \in SUBSET Owners
        /\ s.job[j].keys \cup {i} \in SUBSET IdemDigests
    BY <1>1 DEF JobRecord
  <1>3. r \in JobRecord
    BY <1>1, <1>2 DEF JobRecord
  <1> DEFINE f == [s.job EXCEPT ![j] = r]
             g == [s.idem EXCEPT ![i] = j]
  <1>4. AddOwner(s, j, o, i) = [s EXCEPT !.job = f, !.idem = g]
    BY DEF AddOwner
  <1>5. f \in [JobIds -> JobRecord] /\ g \in [IdemDigests -> JobIds \cup {NoJob}]
    <2> HIDE DEF r
    <2> QED BY <1>3 DEF Registry
  <1> HIDE DEF f, g
  <1> QED BY <1>4, <1>5 DEF Registry

LEMMA RemoveOwnerType ==
  ASSUME NEW s \in Registry, NEW j \in JobIds, NEW o
  PROVE  RemoveOwner(s, j, o) \in Registry
  <1> DEFINE dropped == {i \in s.job[j].keys : i.owner = o}
             r == [s.job[j] EXCEPT !.owners = s.job[j].owners \ {o},
                                   !.keys = s.job[j].keys \ dropped]
             f == [i \in IdemDigests |->
                     IF i \in dropped /\ s.idem[i] = j THEN NoJob ELSE s.idem[i]]
  <1>1. s.job[j] \in JobRecord
    BY JobType
  <1>2. /\ s.job[j].owners \ {o} \in SUBSET Owners
        /\ s.job[j].keys \ dropped \in SUBSET IdemDigests
    BY <1>1 DEF JobRecord
  <1>3. r \in JobRecord
    BY <1>1, <1>2 DEF JobRecord
  <1>4. f \in [IdemDigests -> JobIds \cup {NoJob}]
    BY DEF Registry
  <1> DEFINE g == [s.job EXCEPT ![j] = r]
  <1>5. RemoveOwner(s, j, o) = [s EXCEPT !.job = g, !.idem = f]
    BY DEF RemoveOwner
  <1>6. g \in [JobIds -> JobRecord]
    <2> HIDE DEF r
    <2> QED BY <1>3 DEF Registry
  <1> HIDE DEF f, g
  <1> QED BY <1>4, <1>5, <1>6 DEF Registry

LEMMA DropScienceType ==
  ASSUME NEW s \in Registry, NEW J
  PROVE  /\ DropScience(s, J) \in Registry
         /\ DropScience(s, J).job = s.job
         /\ DropScience(s, J).queue = s.queue
         /\ DropScience(s, J).active = s.active
  BY DEF Registry, DropScience

LEMMA FinishType ==
  ASSUME NEW s \in Registry, NEW F \in SUBSET JobIds, NEW state \in States,
         now \in 0..MaxTime
  PROVE  Finish(s, F, state) \in Registry
  <1> DEFINE ended == {j \in F : ~Terminal(s, j)}
             f == [j \in JobIds |->
                     IF j \in ended
                     THEN [s.job[j] EXCEPT !.state = state, !.finishedAt = now]
                     ELSE s.job[j]]
  <1>1. \A j \in JobIds :
          [s.job[j] EXCEPT !.state = state, !.finishedAt = now] \in JobRecord
    <2> TAKE j \in JobIds
    <2> s.job[j] \in JobRecord
      BY JobType
    <2> QED BY DEF JobRecord
  <1>2. f \in [JobIds -> JobRecord]
    BY <1>1, JobType
  <1>3. Finish(s, F, state) =
          [s EXCEPT !.job = f, !.completed = s.completed \cup ended]
    BY DEF Finish
  <1> HIDE DEF f
  <1> QED BY <1>2, <1>3 DEF Registry

LEMMA CancelContextsType ==
  ASSUME NEW s \in Registry, NEW J
  PROVE  CancelContexts(s, J) \in Registry
  <1> DEFINE f == [j \in JobIds |->
                     IF j \in J /\ s.job[j].ctx = "live"
                     THEN [s.job[j] EXCEPT !.ctx = "canceled"] ELSE s.job[j]]
  <1>1. \A j \in JobIds : [s.job[j] EXCEPT !.ctx = "canceled"] \in JobRecord
    <2> TAKE j \in JobIds
    <2> s.job[j] \in JobRecord
      BY JobType
    <2> QED BY DEF JobRecord, Contexts
  <1>2. f \in [JobIds -> JobRecord]
    BY <1>1, JobType
  <1>3. CancelContexts(s, J) = [s EXCEPT !.job = f]
    BY DEF CancelContexts
  <1> HIDE DEF f
  <1> QED BY <1>2, <1>3 DEF Registry

-----------------------------------------------------------------------------
(* What the helpers leave alone: the FIFO, the slots and every job's state. *)

SameStates(s, t) ==
  /\ t.queue = s.queue /\ t.active = s.active
  /\ \A j \in JobIds : t.job[j].state = s.job[j].state

LEMMA PrunedSame ==
  ASSUME TypeOK
  PROVE  Pruned \in Registry /\ SameStates(reg, Pruned)
  BY ForgetType DEF TypeOK, Pruned, SameStates

LEMMA AddOwnerSame ==
  ASSUME NEW s \in Registry, NEW j \in JobIds, NEW o \in Owners,
         NEW i \in IdemDigests
  PROVE  SameStates(s, AddOwner(s, j, o, i))
  <1> DEFINE r == [s.job[j] EXCEPT !.owners = s.job[j].owners \cup {o},
                                   !.keys = s.job[j].keys \cup {i}]
             t == AddOwner(s, j, o, i)
  <1>1. s.job[j] \in JobRecord /\ s.job \in [JobIds -> JobRecord]
    BY JobType DEF Registry
  <1>2. r.state = s.job[j].state
    BY <1>1 DEF JobRecord
  <1>3. t.job = [s.job EXCEPT ![j] = r] /\ t.queue = s.queue /\ t.active = s.active
    BY DEF AddOwner, Registry
  <1> HIDE DEF r, t
  <1>4. \A k \in JobIds : t.job[k].state = s.job[k].state
    BY <1>1, <1>2, <1>3
  <1> QED BY <1>3, <1>4 DEF SameStates, t

LEMMA RemoveOwnerSame ==
  ASSUME NEW s \in Registry, NEW j \in JobIds, NEW o
  PROVE  SameStates(s, RemoveOwner(s, j, o))
  <1> DEFINE dropped == {i \in s.job[j].keys : i.owner = o}
             r == [s.job[j] EXCEPT !.owners = s.job[j].owners \ {o},
                                   !.keys = s.job[j].keys \ dropped]
             t == RemoveOwner(s, j, o)
  <1>1. s.job[j] \in JobRecord /\ s.job \in [JobIds -> JobRecord]
    BY JobType DEF Registry
  <1>2. r.state = s.job[j].state
    BY <1>1 DEF JobRecord
  <1>3. t.job = [s.job EXCEPT ![j] = r] /\ t.queue = s.queue /\ t.active = s.active
    BY DEF RemoveOwner, Registry
  <1> HIDE DEF r, t
  <1>4. \A k \in JobIds : t.job[k].state = s.job[k].state
    BY <1>1, <1>2, <1>3
  <1> QED BY <1>3, <1>4 DEF SameStates, t

LEMMA CancelContextsSame ==
  ASSUME NEW s \in Registry, NEW J
  PROVE  SameStates(s, CancelContexts(s, J))
  <1> DEFINE t == CancelContexts(s, J)
  <1>1. \A j \in JobIds : [s.job[j] EXCEPT !.ctx = "canceled"].state = s.job[j].state
    <2> TAKE j \in JobIds
    <2> s.job[j] \in JobRecord
      BY JobType
    <2> QED BY DEF JobRecord
  <1>2. /\ t.queue = s.queue /\ t.active = s.active
        /\ t.job = [j \in JobIds |->
                      IF j \in J /\ s.job[j].ctx = "live"
                      THEN [s.job[j] EXCEPT !.ctx = "canceled"] ELSE s.job[j]]
    BY DEF CancelContexts, Registry
  <1> HIDE DEF t
  <1>3. \A j \in JobIds : t.job[j].state = s.job[j].state
    BY <1>1, <1>2
  <1> QED BY <1>2, <1>3 DEF SameStates, t

\* Finishing gives the unfinished jobs of F their state, and nobody else.
LEMMA FinishStates ==
  ASSUME NEW s \in Registry, NEW F \in SUBSET JobIds, NEW state
  PROVE  /\ Finish(s, F, state).queue = s.queue
         /\ Finish(s, F, state).active = s.active
         /\ \A j \in JobIds : Finish(s, F, state).job[j].state =
              IF j \in F /\ ~Terminal(s, j) THEN state ELSE s.job[j].state
  <1> DEFINE t == Finish(s, F, state)
             ended == {j \in F : ~Terminal(s, j)}
  <1>1. \A j \in JobIds :
          [s.job[j] EXCEPT !.state = state, !.finishedAt = now].state = state
    <2> TAKE j \in JobIds
    <2> s.job[j] \in JobRecord
      BY JobType
    <2> QED BY DEF JobRecord
  <1>2. /\ t.queue = s.queue /\ t.active = s.active
        /\ t.job = [j \in JobIds |->
                      IF j \in ended
                      THEN [s.job[j] EXCEPT !.state = state, !.finishedAt = now]
                      ELSE s.job[j]]
    BY DEF Finish, Registry
  <1> HIDE DEF t
  <1>3. \A j \in JobIds : t.job[j].state =
          IF j \in ended THEN state ELSE s.job[j].state
    BY <1>1, <1>2
  <1> QED BY <1>2, <1>3 DEF t

-----------------------------------------------------------------------------
(* The FIFO without one of its entries.                                    *)

LEMMA RemoveAtFacts ==
  ASSUME NEW S, NEW q \in Seq(S), NEW i \in 1..Len(q)
  PROVE  /\ RemoveAt(q, i) \in Seq(S)
         /\ Len(RemoveAt(q, i)) = Len(q) - 1
         /\ \A k \in 1..(Len(q) - 1) :
              RemoveAt(q, i)[k] = IF k < i THEN q[k] ELSE q[k + 1]
  <1> DEFINE a == SubSeq(q, 1, i - 1)
             b == SubSeq(q, i + 1, Len(q))
  <1>1. Len(q) \in Nat /\ \A k \in 1..Len(q) : q[k] \in S
    BY ElementOfSeq, LenProperties
  <1>2. /\ a \in Seq(S) /\ Len(a) = i - 1
        /\ \A k \in 1..(i - 1) : a[k] = q[k]
    <2>1. 1 \in Int /\ i - 1 \in Int /\ \A k \in 1..(i - 1) : q[k] \in S
      BY <1>1
    <2>2. /\ a \in Seq(S) /\ Len(a) = IF 1 <= i - 1 THEN (i - 1) - 1 + 1 ELSE 0
          /\ \A k \in 1..((i - 1) - 1 + 1) : a[k] = q[1 + k - 1]
      BY <2>1, SubSeqProperties
    <2> HIDE DEF a
    <2> QED BY <1>1, <2>2
  <1>3. /\ b \in Seq(S) /\ Len(b) = Len(q) - i
        /\ \A k \in 1..(Len(q) - i) : b[k] = q[i + k]
    <2>1. i + 1 \in Int /\ Len(q) \in Int /\ \A k \in (i + 1)..Len(q) : q[k] \in S
      BY <1>1
    <2>2. /\ b \in Seq(S)
          /\ Len(b) = IF i + 1 <= Len(q) THEN Len(q) - (i + 1) + 1 ELSE 0
          /\ \A k \in 1..(Len(q) - (i + 1) + 1) : b[k] = q[(i + 1) + k - 1]
      BY <2>1, SubSeqProperties
    <2> HIDE DEF b
    <2> QED BY <1>1, <2>2
  <1>4. RemoveAt(q, i) = a \o b
    BY DEF RemoveAt
  <1> HIDE DEF a, b
  <1>5. /\ a \o b \in Seq(S) /\ Len(a \o b) = Len(a) + Len(b)
        /\ \A k \in 1..(Len(a) + Len(b)) :
             (a \o b)[k] = IF k <= Len(a) THEN a[k] ELSE b[k - Len(a)]
    BY <1>2, <1>3, ConcatProperties
  <1>6. ASSUME NEW k \in 1..(Len(q) - 1)
        PROVE  RemoveAt(q, i)[k] = IF k < i THEN q[k] ELSE q[k + 1]
    <2>1. k \in 1..(Len(a) + Len(b)) /\ (k <= Len(a) <=> k < i)
      BY <1>1, <1>2, <1>3
    <2>2. CASE k < i
      BY <1>1, <1>2, <1>4, <1>5, <2>1, <2>2
    <2>3. CASE ~(k < i)
      <3>1. k - (i - 1) \in 1..(Len(q) - i) /\ i + (k - (i - 1)) = k + 1
        BY <1>1, <2>3
      <3>2. b[k - (i - 1)] = q[k + 1]
        BY <1>3, <3>1
      <3> QED BY <1>2, <1>4, <1>5, <2>1, <2>3, <3>2
    <2> QED BY <2>2, <2>3
  <1> QED BY <1>1, <1>2, <1>3, <1>4, <1>5, <1>6

-----------------------------------------------------------------------------
(* What the operations do to the FIFO, the slots and the states of jobs.   *)

\* The jobs of J get the given state, all others keep theirs.
Changed(s, t, J, state) ==
  \A k \in JobIds : t.job[k].state = IF k \in J THEN state ELSE s.job[k].state

LEMMA NewJobType ==
  ASSUME NEW r \in Requests, NEW state \in States, now \in 0..MaxTime
  PROVE  /\ NewJob(r, state) \in JobRecord /\ NewJob(r, state).state = state
         /\ Digest(r) \in ScienceDigests /\ Idem(r) \in IdemDigests
         /\ r.owner \in Owners
  <1>1. r \in [owner : Owners, kind : Kinds, key : Keys, family : Families,
               science : Sciences, limit : {0, 1}]
    BY RequestAssumption
  <1>2. /\ Digest(r) \in ScienceDigests /\ Family(r) \in FamilyDigests
        /\ Idem(r) \in IdemDigests /\ r.owner \in Owners
    BY <1>1 DEF Digest, Family, Idem, ScienceDigests, FamilyDigests, IdemDigests
  <1>3. 0 \in 0..MaxTime
    BY ConfigAssumption
  <1>4. Unused \in JobRecord
    BY <1>3 DEF Unused, JobRecord, States, Contexts
  <1> DEFINE u == Unused
             d == Digest(r)
             f == Family(r)
             t == IF state = "ready" THEN now ELSE 0
  <1>5. NewJob(r, state) =
          [u EXCEPT !.state = state, !.science = d, !.family = f, !.finishedAt = t]
    BY DEF NewJob
  <1>6. t \in 0..MaxTime /\ u \in JobRecord /\ d \in ScienceDigests
        /\ f \in FamilyDigests
    BY <1>2, <1>3, <1>4
  <1> HIDE DEF u, d, f, t
  <1>7. NewJob(r, state) \in JobRecord /\ NewJob(r, state).state = state
    BY <1>5, <1>6 DEF JobRecord
  <1> QED BY <1>2, <1>7

LEMMA ServedFacts ==
  ASSUME NEW s \in Registry, NEW r \in Requests, NEW j \in JobIds,
         now \in 0..MaxTime
  PROVE  /\ Served(s, r, j) \in Registry
         /\ Served(s, r, j).queue = s.queue /\ Served(s, r, j).active = s.active
         /\ Changed(s, Served(s, r, j), {j}, "ready")
  <1> DEFINE n == NewJob(r, "ready")
             f == [s.job EXCEPT ![j] = n]
             g == [s.science EXCEPT ![Digest(r)] = j]
             J == s.jobs \cup {j}
             C == s.completed \cup {j}
             t == [s EXCEPT !.job = f, !.jobs = J, !.science = g, !.completed = C]
  <1>1. "ready" \in States
    BY DEF States
  <1>2. /\ n \in JobRecord /\ n.state = "ready"
        /\ Digest(r) \in ScienceDigests /\ Idem(r) \in IdemDigests
        /\ r.owner \in Owners
    BY <1>1, NewJobType
  <1>3. Served(s, r, j) = AddOwner(t, j, r.owner, Idem(r))
    BY DEF Served
  <1> HIDE DEF n
  <1>4. /\ f \in [JobIds -> JobRecord]
        /\ g \in [ScienceDigests -> JobIds \cup {NoJob}]
        /\ J \in SUBSET JobIds /\ C \in SUBSET JobIds
        /\ \A k \in JobIds : f[k].state = IF k = j THEN "ready" ELSE s.job[k].state
    BY <1>2 DEF Registry
  <1> HIDE DEF f, g, J, C
  <1>5. t \in Registry /\ t.queue = s.queue /\ t.active = s.active /\ t.job = f
    BY <1>4 DEF Registry
  <1> HIDE DEF t
  <1>6. /\ AddOwner(t, j, r.owner, Idem(r)) \in Registry
        /\ SameStates(t, AddOwner(t, j, r.owner, Idem(r)))
    BY <1>2, <1>5, AddOwnerType, AddOwnerSame
  <1> QED BY <1>3, <1>4, <1>5, <1>6 DEF SameStates, Changed

LEMMA AdmittedFacts ==
  ASSUME NEW s \in Registry, NEW r \in Requests, NEW j \in JobIds,
         now \in 0..MaxTime
  PROVE  /\ Admitted(s, r, j) \in Registry
         /\ Admitted(s, r, j).queue = Append(s.queue, j)
         /\ Admitted(s, r, j).active = s.active
         /\ Changed(s, Admitted(s, r, j), {j}, "queued")
  <1> DEFINE n == NewJob(r, "queued")
             f == [s.job EXCEPT ![j] = n]
             g == [s.science EXCEPT ![Digest(r)] = j]
             J == s.jobs \cup {j}
             q == Append(s.queue, j)
             t == [s EXCEPT !.job = f, !.jobs = J, !.science = g, !.queue = q]
  <1>1. "queued" \in States
    BY DEF States
  <1>2. /\ n \in JobRecord /\ n.state = "queued"
        /\ Digest(r) \in ScienceDigests /\ Idem(r) \in IdemDigests
        /\ r.owner \in Owners
    BY <1>1, NewJobType
  <1>3. Admitted(s, r, j) = AddOwner(t, j, r.owner, Idem(r))
    BY DEF Admitted
  <1> HIDE DEF n
  <1>4. /\ f \in [JobIds -> JobRecord]
        /\ g \in [ScienceDigests -> JobIds \cup {NoJob}]
        /\ J \in SUBSET JobIds
        /\ \A k \in JobIds : f[k].state = IF k = j THEN "queued" ELSE s.job[k].state
    BY <1>2 DEF Registry
  <1>5. q \in Seq(JobIds)
    <2>1. s.queue \in Seq(JobIds)
      BY DEF Registry
    <2> QED BY <2>1, AppendProperties
  <1> HIDE DEF f, g, J, q
  <1>6. t \in Registry /\ t.queue = q /\ t.active = s.active /\ t.job = f
    BY <1>4, <1>5 DEF Registry
  <1> HIDE DEF t
  <1>7. /\ AddOwner(t, j, r.owner, Idem(r)) \in Registry
        /\ SameStates(t, AddOwner(t, j, r.owner, Idem(r)))
    BY <1>2, <1>6, AddOwnerType, AddOwnerSame
  <1> QED BY <1>3, <1>4, <1>6, <1>7 DEF SameStates, Changed, q

LEMMA TakenFacts ==
  ASSUME NEW s \in Registry, s.queue # <<>>
  PROVE  /\ Taken(s) \in Registry /\ Head(s.queue) \in JobIds
         /\ Taken(s).queue = Tail(s.queue)
         /\ Taken(s).active = s.active \cup {Head(s.queue)}
         /\ Changed(s, Taken(s), {Head(s.queue)}, "running")
  <1> DEFINE j == Head(s.queue)
             q == Tail(s.queue)
             n == [s.job[j] EXCEPT !.state = "running", !.ctx = "live"]
             f == [s.job EXCEPT ![j] = n]
             A == s.active \cup {j}
  <1>1. j \in JobIds /\ q \in Seq(JobIds)
    <2>1. s.queue \in Seq(JobIds)
      BY DEF Registry
    <2> QED BY <2>1, HeadTailProperties
  <1>2. Taken(s) = [s EXCEPT !.queue = q, !.active = A, !.job = f]
    BY DEF Taken
  <1> HIDE DEF j, q
  <1>3. s.job[j] \in JobRecord
    BY <1>1, JobType
  <1>4. n \in JobRecord /\ n.state = "running"
    BY <1>3 DEF JobRecord, States, Contexts
  <1> HIDE DEF n
  <1>5. /\ f \in [JobIds -> JobRecord] /\ A \in SUBSET JobIds
        /\ \A k \in JobIds : f[k].state = IF k = j THEN "running" ELSE s.job[k].state
    BY <1>1, <1>4 DEF Registry
  <1> HIDE DEF f
  <1>6. /\ Taken(s) \in Registry /\ Taken(s).queue = q
        /\ Taken(s).active = A /\ Taken(s).job = f
    BY <1>1, <1>2, <1>5 DEF Registry
  <1> QED BY <1>1, <1>5, <1>6 DEF Changed, j, q

LEMMA ReleasedFacts ==
  ASSUME NEW s \in Registry, NEW j \in JobIds
  PROVE  /\ Released(s, j) \in Registry
         /\ Released(s, j).queue = s.queue
         /\ Released(s, j).active = s.active \ {j}
         /\ Changed(s, Released(s, j), {}, "ready")
  <1> DEFINE n == [s.job[j] EXCEPT !.ctx = "none"]
             f == [s.job EXCEPT ![j] = n]
             A == s.active \ {j}
  <1>1. s.job[j] \in JobRecord
    BY JobType
  <1>2. n \in JobRecord /\ n.state = s.job[j].state
    BY <1>1 DEF JobRecord, Contexts
  <1>3. Released(s, j) = [s EXCEPT !.active = A, !.job = f]
    BY DEF Released
  <1> HIDE DEF n
  <1>4. /\ f \in [JobIds -> JobRecord] /\ A \in SUBSET JobIds
        /\ \A k \in JobIds : f[k].state = s.job[k].state
    BY <1>2 DEF Registry
  <1> HIDE DEF f
  <1>5. /\ Released(s, j) \in Registry /\ Released(s, j).queue = s.queue
        /\ Released(s, j).active = A /\ Released(s, j).job = f
    BY <1>3, <1>4 DEF Registry
  <1> QED BY <1>4, <1>5 DEF Changed

LEMMA ToSetFacts ==
  ASSUME NEW S, NEW q \in Seq(S)
  PROVE  ToSet(q) = {q[i] : i \in 1..Len(q)} /\ ToSet(q) \in SUBSET S
  <1>1. DOMAIN q = 1..Len(q) /\ \A i \in 1..Len(q) : q[i] \in S
    BY LenProperties, ElementOfSeq
  <1> QED BY <1>1 DEF ToSet

LEMMA WithoutQueuedFacts ==
  ASSUME NEW s \in Registry, NEW j \in JobIds, j \in ToSet(s.queue)
  PROVE  /\ WithoutQueued(s, j) \in Registry
         /\ WithoutQueued(s, j).job = s.job
         /\ WithoutQueued(s, j).active = s.active
         /\ \E i \in 1..Len(s.queue) :
              /\ s.queue[i] = j
              /\ WithoutQueued(s, j).queue = RemoveAt(s.queue, i)
  <1> DEFINE i == CHOOSE i \in DOMAIN s.queue : s.queue[i] = j
             q == RemoveAt(s.queue, i)
  <1>1. s.queue \in Seq(JobIds) /\ DOMAIN s.queue = 1..Len(s.queue)
    <2>1. s.queue \in Seq(JobIds)
      BY DEF Registry
    <2> QED BY <2>1, LenProperties
  <1>2. i \in 1..Len(s.queue) /\ s.queue[i] = j
    BY <1>1, ToSetFacts
  <1>3. q \in Seq(JobIds)
    BY <1>1, <1>2, RemoveAtFacts
  <1>4. WithoutQueued(s, j) = [s EXCEPT !.queue = q]
    BY DEF WithoutQueued
  <1> HIDE DEF q
  <1>5. /\ WithoutQueued(s, j) \in Registry
        /\ WithoutQueued(s, j).job = s.job
        /\ WithoutQueued(s, j).active = s.active
        /\ WithoutQueued(s, j).queue = q
    BY <1>3, <1>4 DEF Registry
  <1> QED BY <1>2, <1>5 DEF q

\* Finishing unfinished jobs.
LEMMA FinishFacts ==
  ASSUME NEW s \in Registry, NEW F \in SUBSET JobIds, NEW state \in States,
         \A j \in F : ~Terminal(s, j), now \in 0..MaxTime
  PROVE  /\ Finish(s, F, state) \in Registry
         /\ Finish(s, F, state).queue = s.queue
         /\ Finish(s, F, state).active = s.active
         /\ Changed(s, Finish(s, F, state), F, state)
  <1> DEFINE t == Finish(s, F, state)
  <1>1. /\ t.queue = s.queue /\ t.active = s.active
        /\ \A j \in JobIds : t.job[j].state =
              IF j \in F /\ ~Terminal(s, j) THEN state ELSE s.job[j].state
    BY FinishStates
  <1>2. t \in Registry
    BY FinishType
  <1> HIDE DEF t
  <1> QED BY <1>1, <1>2 DEF Changed, t

\* A job that ends by itself: its run succeeds or not.
LEMMA SucceededFacts ==
  ASSUME NEW s \in Registry, NEW j \in JobIds, NEW d \in ScienceDigests,
         ~Terminal(s, j), now \in 0..MaxTime, NEW t \in Succeeded(s, j, d)
  PROVE  /\ t \in Registry /\ t.queue = s.queue /\ t.active = s.active
         /\ Changed(s, t, {j}, "ready")
  <1> DEFINE u == DropScience(s, {j})
             n == [u.job[j] EXCEPT !.published = d]
             f == [u.job EXCEPT ![j] = n]
             g == [u.science EXCEPT ![d] = IF u.science[d] = NoJob THEN j
                                           ELSE u.science[d]]
             v == [u EXCEPT !.job = f, !.science = g]
  <1>1. t \in PrunedAfter(Finish(v, {j}, "ready"), {j})
    BY DEF Succeeded
  <1>2. u \in Registry /\ u.job = s.job /\ u.queue = s.queue /\ u.active = s.active
    BY DropScienceType
  <1> HIDE DEF u
  <1>3. n \in JobRecord /\ n.state = u.job[j].state
    <2>1. u.job[j] \in JobRecord
      BY <1>2, JobType
    <2> QED BY <2>1 DEF JobRecord
  <1> HIDE DEF n
  <1>4. /\ f \in [JobIds -> JobRecord]
        /\ \A k \in JobIds : f[k].state = s.job[k].state
    BY <1>2, <1>3 DEF Registry
  <1>5. g \in [ScienceDigests -> JobIds \cup {NoJob}]
    BY <1>2 DEF Registry
  <1> HIDE DEF f, g
  <1>6. v \in Registry /\ v.job = f /\ v.queue = s.queue /\ v.active = s.active
    BY <1>2, <1>4, <1>5 DEF Registry
  <1>7. ~Terminal(v, j)
    BY <1>4, <1>6 DEF Terminal
  <1> HIDE DEF v
  <1> DEFINE e == Finish(v, {j}, "ready")
  <1>8. e \in Registry /\ e.queue = v.queue /\ e.active = v.active /\ Changed(v, e, {j}, "ready")
    <2>1. "ready" \in States /\ {j} \in SUBSET JobIds
      BY DEF States
    <2> QED BY <2>1, <1>6, <1>7, FinishFacts
  <1> HIDE DEF e
  <1>9. t \in Registry /\ t.job = e.job /\ t.queue = e.queue /\ t.active = e.active
    BY <1>1, <1>8, PrunedAfterType DEF e
  <1> QED BY <1>4, <1>6, <1>8, <1>9 DEF Changed

LEMMA UnsuccessfulFacts ==
  ASSUME NEW s \in Registry, NEW j \in JobIds, NEW err,
         ~Terminal(s, j), now \in 0..MaxTime, NEW t \in Unsuccessful(s, j, err)
  PROVE  /\ t \in Registry /\ t.queue = s.queue /\ t.active = s.active
         /\ \E st \in {"failed", "cancelled"} : Changed(s, t, {j}, st)
  <1> DEFINE st == IF err = "canceled" THEN "cancelled" ELSE "failed"
             u == Finish(s, {j}, st)
  <1>1. t \in PrunedAfter(DropScience(u, {j}), {j})
    BY DEF Unsuccessful
  <1>2. st \in {"failed", "cancelled"} /\ st \in States
    BY DEF States
  <1> HIDE DEF st
  <1>3. /\ u \in Registry /\ u.queue = s.queue /\ u.active = s.active
        /\ Changed(s, u, {j}, st)
    BY <1>2, FinishFacts
  <1> HIDE DEF u
  <1>4. /\ DropScience(u, {j}) \in Registry /\ DropScience(u, {j}).job = u.job
        /\ DropScience(u, {j}).queue = u.queue
        /\ DropScience(u, {j}).active = u.active
    BY <1>3, DropScienceType
  <1>5. t \in Registry /\ t.job = u.job /\ t.queue = u.queue /\ t.active = u.active
    BY <1>1, <1>4, PrunedAfterType
  <1> QED BY <1>2, <1>3, <1>5 DEF Changed

\* The last owner leaves: a queued job is taken out of the FIFO, a running
\* one keeps its slot, both are cancelled; a completed one stays as it is.
LEMMA AbandonedFacts ==
  ASSUME NEW s \in Registry, NEW j \in JobIds, now \in 0..MaxTime,
         NEW t \in Abandoned(s, j),
         s.job[j].state = "queued" => j \in ToSet(s.queue)
  PROVE  /\ t \in Registry /\ t.active = s.active
         /\ \/ /\ s.job[j].state = "queued"
               /\ \E i \in 1..Len(s.queue) : s.queue[i] = j /\ t.queue = RemoveAt(s.queue, i)
               /\ Changed(s, t, {j}, "cancelled")
            \/ /\ s.job[j].state = "running"
               /\ t.queue = s.queue /\ Changed(s, t, {j}, "cancelled")
            \/ ~Pending(s, j) /\ SameStates(s, t)
  <1> DEFINE u == DropScience(s, {j})
  <1>1. u \in Registry /\ u.job = s.job /\ u.queue = s.queue /\ u.active = s.active
    BY DropScienceType
  <1>2. "cancelled" \in States /\ {j} \in SUBSET JobIds
    BY DEF States
  <1>3. CASE s.job[j].state = "queued"
    <2> DEFINE v == WithoutQueued(u, j)
    <2>1. t \in PrunedAfter(Finish(v, {j}, "cancelled"), {j})
      BY <1>1, <1>3 DEF Abandoned
    <2> HIDE DEF u
    <2>2. /\ v \in Registry /\ v.job = u.job /\ v.active = u.active
          /\ \E i \in 1..Len(u.queue) : u.queue[i] = j /\ v.queue = RemoveAt(u.queue, i)
      BY <1>1, <1>3, WithoutQueuedFacts
    <2> HIDE DEF v
    <2>3. ~Terminal(v, j)
      BY <1>1, <1>3, <2>2 DEF Terminal
    <2>4. /\ Finish(v, {j}, "cancelled") \in Registry
          /\ Finish(v, {j}, "cancelled").queue = v.queue
          /\ Finish(v, {j}, "cancelled").active = v.active
          /\ Changed(v, Finish(v, {j}, "cancelled"), {j}, "cancelled")
      BY <1>2, <2>2, <2>3, FinishFacts
    <2> DEFINE e == Finish(v, {j}, "cancelled")
    <2> HIDE DEF e
    <2>5. t \in Registry /\ t.job = e.job /\ t.queue = e.queue /\ t.active = e.active
      BY <2>1, <2>4, PrunedAfterType DEF e
    <2>6. Changed(s, t, {j}, "cancelled") /\ t.active = s.active
      BY <1>1, <2>2, <2>4, <2>5 DEF Changed, e
    <2>7. \E i \in 1..Len(s.queue) : s.queue[i] = j /\ t.queue = RemoveAt(s.queue, i)
      BY <1>1, <2>2, <2>4, <2>5 DEF e
    <2> QED BY <1>3, <2>5, <2>6, <2>7
  <1>4. CASE s.job[j].state = "running"
    <2> DEFINE v == CancelContexts(u, {j})
    <2>1. t \in PrunedAfter(Finish(v, {j}, "cancelled"), {j})
      BY <1>1, <1>4 DEF Abandoned
    <2> HIDE DEF u
    <2>2. v \in Registry /\ SameStates(u, v)
      BY <1>1, CancelContextsType, CancelContextsSame
    <2> HIDE DEF v
    <2>3. ~Terminal(v, j)
      BY <1>1, <1>4, <2>2 DEF Terminal, SameStates
    <2>4. /\ Finish(v, {j}, "cancelled") \in Registry
          /\ Finish(v, {j}, "cancelled").queue = v.queue
          /\ Finish(v, {j}, "cancelled").active = v.active
          /\ Changed(v, Finish(v, {j}, "cancelled"), {j}, "cancelled")
      BY <1>2, <2>2, <2>3, FinishFacts
    <2> DEFINE e == Finish(v, {j}, "cancelled")
    <2> HIDE DEF e
    <2>5. t \in Registry /\ t.job = e.job /\ t.queue = e.queue /\ t.active = e.active
      BY <2>1, <2>4, PrunedAfterType DEF e
    <2>6. t.queue = s.queue /\ t.active = s.active
      BY <1>1, <2>2, <2>4, <2>5 DEF SameStates, e
    <2>7. Changed(s, t, {j}, "cancelled")
      BY <1>1, <2>2, <2>4, <2>5 DEF Changed, SameStates, e
    <2> QED BY <1>4, <2>5, <2>6, <2>7
  <1>5. CASE s.job[j].state \notin {"queued", "running"}
    <2>1. t = u
      BY <1>1, <1>5 DEF Abandoned
    <2> HIDE DEF u
    <2> QED BY <1>1, <1>5, <2>1 DEF SameStates, Pending
  <1> QED BY <1>3, <1>4, <1>5

LEMMA CancelPendingFacts ==
  ASSUME NEW s \in Registry, now \in 0..MaxTime, NEW t \in CancelPending(s),
         \A j \in ToSet(s.queue) : ~Terminal(s, j)
  PROVE  /\ t \in Registry /\ t.queue = <<>> /\ t.active = s.active
         /\ Changed(s, t, ToSet(s.queue), "cancelled")
  <1> DEFINE Q == ToSet(s.queue)
             u == DropScience(s, Q)
             f == Finish(u, Q, "cancelled")
             e == [f EXCEPT !.queue = <<>>]
             c == CancelContexts(e, s.active)
  <1>1. t = c \/ t \in PrunedAfter(c, Q)
    BY DEF CancelPending
  <1>2. Q \in SUBSET JobIds
    <2>1. s.queue \in Seq(JobIds)
      BY DEF Registry
    <2> QED BY <2>1, ToSetFacts
  <1>3. \A j \in Q : ~Terminal(s, j)
    OBVIOUS
  <1>4. "cancelled" \in States
    BY DEF States
  <1> HIDE DEF Q
  <1>5. u \in Registry /\ u.job = s.job /\ u.queue = s.queue /\ u.active = s.active
    BY DropScienceType
  <1> HIDE DEF u
  <1>6. f \in Registry /\ f.active = u.active /\ Changed(u, f, Q, "cancelled")
    <2>1. \A j \in Q : ~Terminal(u, j)
      BY <1>3, <1>5 DEF Terminal
    <2> QED BY <2>1, <1>2, <1>4, <1>5, FinishFacts
  <1> HIDE DEF f
  <1>7. e \in Registry /\ e.queue = <<>> /\ e.active = f.active /\ e.job = f.job
    <2>1. <<>> \in Seq(JobIds)
      BY EmptySeq
    <2> QED BY <2>1, <1>6 DEF Registry
  <1> HIDE DEF e
  <1>8. c \in Registry /\ SameStates(e, c)
    BY <1>7, CancelContextsType, CancelContextsSame
  <1> HIDE DEF c
  <1>9. t \in Registry /\ t.queue = c.queue /\ t.active = c.active /\ t.job = c.job
    BY <1>1, <1>8, PrunedAfterType
  <1> QED BY <1>5, <1>6, <1>7, <1>8, <1>9 DEF SameStates, Changed, Q
=============================================================================
