------------------------ MODULE CoordinatorRegistry ------------------------
(* Theorems about the maps of the directional coordinator: idempotency     *)
(* keys, science digests, owners and the bounded metadata of completed     *)
(* jobs agree with the job records in every reachable state.               *)
EXTENDS CoordinatorProofs

-----------------------------------------------------------------------------
(* The inductive invariant of the maps.                                    *)

\* A key names a retained job exactly when the job lists it, and its owner owns it.
Keyed(s) ==
  \A i \in IdemDigests, j \in JobIds :
    /\ s.idem[i] = j <=> j \in s.jobs /\ i \in s.job[j].keys
    /\ s.idem[i] = j => i.owner \in s.job[j].owners

\* An unfinished job is the one its digest names, and a digest names no other job
\* than one that has it, retained and neither failed nor cancelled.
Named(s) ==
  /\ \A j \in JobIds : Pending(s, j) => s.science[s.job[j].science] = j
  /\ \A d \in ScienceDigests : s.science[d] # NoJob =>
       LET j == s.science[d]
       IN  /\ j \in s.jobs /\ d \in {s.job[j].science, s.job[j].published}
           /\ s.job[j].state \in {"queued", "running", "ready"}

\* The retained jobs are the unfinished ones and the completed list.
Listed(s) ==
  /\ s.completed = {j \in s.jobs : Terminal(s, j)}
  /\ \A j \in s.jobs : s.job[j].state # "unused"

\* Only a finished job has published under a second identity.
Unpublished(s) == \A j \in JobIds : Pending(s, j) =>
  s.job[j].published = NoDigest /\ s.job[j].science \in ScienceDigests

\* A limited owner has one unfinished job of a kind.
Single(s) ==
  \A o \in Owners, k \in Kinds :
    (\A r \in Requests : r.owner = o /\ r.kind = k => r.limit > 0)
    => \A i, j \in JobIds :
         /\ Pending(s, i) /\ HasOwner(s, i, o) /\ s.job[i].science.kind = k
         /\ Pending(s, j) /\ HasOwner(s, j, o) /\ s.job[j].science.kind = k
         => i = j

Tables(s) == Keyed(s) /\ Named(s) /\ Listed(s) /\ Unpublished(s) /\ Single(s)

\* An unfinished job is retained, and somebody owns it unless it is in J.
OwnedBut(s, J) ==
  \A j \in JobIds : Pending(s, j) => j \in s.jobs /\ (j \in J \/ s.job[j].owners # {})

Limited(s) == Cardinality(s.completed) <= CompletedLimit

Maps == Tables(reg) /\ OwnedBut(reg, {}) /\ Limited(reg)

-----------------------------------------------------------------------------
(* What the helpers change, field by field.                                *)

\* The identities, owners and keys of all jobs are the same.
SameIds(s, t) ==
  \A k \in JobIds :
    /\ t.job[k].science = s.job[k].science /\ t.job[k].published = s.job[k].published
    /\ t.job[k].owners = s.job[k].owners /\ t.job[k].keys = s.job[k].keys

\* The maps and lists of jobs are the same.
SameMaps(s, t) ==
  /\ t.jobs = s.jobs /\ t.completed = s.completed
  /\ t.idem = s.idem /\ t.science = s.science

LEMMA ForgetFields ==
  ASSUME NEW s \in Registry, NEW R
  PROVE  /\ Forget(s, R).jobs = s.jobs \ R
         /\ Forget(s, R).completed = s.completed \ R
         /\ \A d \in ScienceDigests : Forget(s, R).science[d] =
              LET j == s.science[d]
              IN  IF j \in R /\ d \in {s.job[j].science, s.job[j].published}
                  THEN NoJob ELSE j
         /\ \A i \in IdemDigests : Forget(s, R).idem[i] =
              LET j == s.idem[i]
              IN  IF j \in R /\ i \in s.job[j].keys THEN NoJob ELSE j
  BY DEF Registry, Forget

LEMMA DropScienceFields ==
  ASSUME NEW s \in Registry, NEW J
  PROVE  /\ DropScience(s, J).jobs = s.jobs /\ DropScience(s, J).completed = s.completed
         /\ DropScience(s, J).idem = s.idem
         /\ \A d \in ScienceDigests : DropScience(s, J).science[d] =
              LET j == s.science[d]
              IN  IF j \in J /\ s.job[j].science = d THEN NoJob ELSE j
  BY DEF Registry, DropScience

\* Owner o has joined job j under key i.
Joined(s, t, j, o, i) ==
  /\ t.jobs = s.jobs /\ t.completed = s.completed /\ t.science = s.science
  /\ \A x \in IdemDigests : t.idem[x] = IF x = i THEN j ELSE s.idem[x]
  /\ \A k \in JobIds :
       /\ t.job[k].science = s.job[k].science /\ t.job[k].published = s.job[k].published
       /\ t.job[k].ctx = s.job[k].ctx
       /\ t.job[k].owners = IF k = j THEN s.job[j].owners \cup {o} ELSE s.job[k].owners
       /\ t.job[k].keys = IF k = j THEN s.job[j].keys \cup {i} ELSE s.job[k].keys

LEMMA AddOwnerFields ==
  ASSUME NEW s \in Registry, NEW j \in JobIds, NEW o \in Owners, NEW i \in IdemDigests
  PROVE  Joined(s, AddOwner(s, j, o, i), j, o, i)
  <1> DEFINE t == AddOwner(s, j, o, i)
             r == [s.job[j] EXCEPT !.owners = s.job[j].owners \cup {o},
                                   !.keys = s.job[j].keys \cup {i}]
             f == [s.job EXCEPT ![j] = r]
             g == [s.idem EXCEPT ![i] = j]
  <1>1. s.job[j] \in JobRecord
    BY JobType
  <1>2. /\ r.science = s.job[j].science /\ r.published = s.job[j].published
        /\ r.ctx = s.job[j].ctx
        /\ r.owners = s.job[j].owners \cup {o} /\ r.keys = s.job[j].keys \cup {i}
    BY <1>1 DEF JobRecord
  <1>3. t = [s EXCEPT !.job = f, !.idem = g]
    BY DEF AddOwner
  <1>4. /\ \A k \in JobIds : f[k] = IF k = j THEN r ELSE s.job[k]
        /\ \A x \in IdemDigests : g[x] = IF x = i THEN j ELSE s.idem[x]
    <2> HIDE DEF r
    <2> QED BY DEF Registry
  <1> HIDE DEF r, f, g
  <1>5. /\ t.jobs = s.jobs /\ t.completed = s.completed /\ t.science = s.science
        /\ t.job = f /\ t.idem = g
    BY <1>3 DEF Registry
  <1> QED BY <1>2, <1>4, <1>5 DEF Joined

\* Owner o has left job j.
Parted(s, t, j, o) ==
  /\ t.jobs = s.jobs /\ t.completed = s.completed /\ t.science = s.science
  /\ \A x \in IdemDigests : t.idem[x] =
       IF x \in s.job[j].keys /\ x.owner = o /\ s.idem[x] = j THEN NoJob ELSE s.idem[x]
  /\ \A k \in JobIds :
       /\ t.job[k].science = s.job[k].science /\ t.job[k].published = s.job[k].published
       /\ t.job[k].ctx = s.job[k].ctx
       /\ t.job[k].owners = IF k = j THEN s.job[j].owners \ {o} ELSE s.job[k].owners
       /\ t.job[k].keys =
            IF k = j THEN {i \in s.job[j].keys : i.owner # o} ELSE s.job[k].keys

LEMMA RemoveOwnerFields ==
  ASSUME NEW s \in Registry, NEW j \in JobIds, NEW o
  PROVE  Parted(s, RemoveOwner(s, j, o), j, o)
  <1> DEFINE t == RemoveOwner(s, j, o)
             dropped == {i \in s.job[j].keys : i.owner = o}
             r == [s.job[j] EXCEPT !.owners = s.job[j].owners \ {o},
                                   !.keys = s.job[j].keys \ dropped]
             f == [i \in IdemDigests |->
                     IF i \in dropped /\ s.idem[i] = j THEN NoJob ELSE s.idem[i]]
             g == [s.job EXCEPT ![j] = r]
  <1>1. s.job[j] \in JobRecord
    BY JobType
  <1>2. /\ r.science = s.job[j].science /\ r.published = s.job[j].published
        /\ r.ctx = s.job[j].ctx
        /\ r.owners = s.job[j].owners \ {o}
        /\ r.keys = {i \in s.job[j].keys : i.owner # o}
    BY <1>1 DEF JobRecord
  <1>3. t = [s EXCEPT !.job = g, !.idem = f]
    BY DEF RemoveOwner
  <1>4. /\ \A k \in JobIds : g[k] = IF k = j THEN r ELSE s.job[k]
        /\ \A x \in IdemDigests : f[x] =
             IF x \in s.job[j].keys /\ x.owner = o /\ s.idem[x] = j
             THEN NoJob ELSE s.idem[x]
    <2> HIDE DEF r
    <2> QED BY DEF Registry
  <1> HIDE DEF r, f, g
  <1>5. /\ t.jobs = s.jobs /\ t.completed = s.completed /\ t.science = s.science
        /\ t.job = g /\ t.idem = f
    BY <1>3 DEF Registry
  <1> QED BY <1>2, <1>4, <1>5 DEF Parted

\* The jobs of F have ended.
Finished(s, t, F) ==
  /\ t.jobs = s.jobs /\ t.idem = s.idem /\ t.science = s.science
  /\ t.completed = s.completed \cup {j \in F : ~Terminal(s, j)}
  /\ SameIds(s, t)
  /\ \A k \in JobIds : t.job[k].ctx = s.job[k].ctx

LEMMA FinishFields ==
  ASSUME NEW s \in Registry, NEW F \in SUBSET JobIds, NEW state
  PROVE  Finished(s, Finish(s, F, state), F)
  <1> DEFINE t == Finish(s, F, state)
             ended == {j \in F : ~Terminal(s, j)}
             f == [j \in JobIds |->
                     IF j \in ended
                     THEN [s.job[j] EXCEPT !.state = state, !.finishedAt = now]
                     ELSE s.job[j]]
  <1>1. \A k \in JobIds :
          /\ f[k].science = s.job[k].science /\ f[k].published = s.job[k].published
          /\ f[k].owners = s.job[k].owners /\ f[k].keys = s.job[k].keys
          /\ f[k].ctx = s.job[k].ctx
    <2> TAKE k \in JobIds
    <2> s.job[k] \in JobRecord
      BY JobType
    <2> QED BY DEF JobRecord
  <1>2. t = [s EXCEPT !.job = f, !.completed = s.completed \cup ended]
    BY DEF Finish
  <1> HIDE DEF f
  <1>3. /\ t.jobs = s.jobs /\ t.idem = s.idem /\ t.science = s.science
        /\ t.completed = s.completed \cup ended /\ t.job = f
    BY <1>2 DEF Registry
  <1> QED BY <1>1, <1>3 DEF SameIds, Finished

LEMMA CancelContextsFields ==
  ASSUME NEW s \in Registry, NEW J
  PROVE  LET t == CancelContexts(s, J)
         IN  /\ SameMaps(s, t) /\ SameIds(s, t)
             /\ \A k \in JobIds : t.job[k].ctx =
                  IF k \in J /\ s.job[k].ctx = "live" THEN "canceled" ELSE s.job[k].ctx
  <1> DEFINE t == CancelContexts(s, J)
             f == [j \in JobIds |->
                     IF j \in J /\ s.job[j].ctx = "live"
                     THEN [s.job[j] EXCEPT !.ctx = "canceled"] ELSE s.job[j]]
  <1>1. \A k \in JobIds :
          /\ f[k].science = s.job[k].science /\ f[k].published = s.job[k].published
          /\ f[k].owners = s.job[k].owners /\ f[k].keys = s.job[k].keys
          /\ f[k].ctx = IF k \in J /\ s.job[k].ctx = "live" THEN "canceled"
                        ELSE s.job[k].ctx
    <2> TAKE k \in JobIds
    <2> s.job[k] \in JobRecord
      BY JobType
    <2> QED BY DEF JobRecord
  <1>2. t = [s EXCEPT !.job = f]
    BY DEF CancelContexts
  <1> HIDE DEF f
  <1>3. SameMaps(s, t) /\ t.job = f
    BY <1>2 DEF Registry, SameMaps
  <1> QED BY <1>1, <1>3 DEF SameIds

LEMMA WithoutQueuedFields ==
  ASSUME NEW s \in Registry, NEW j
  PROVE  WithoutQueued(s, j).job = s.job /\ SameMaps(s, WithoutQueued(s, j))
  BY DEF WithoutQueued, SameMaps, Registry

LEMMA TakenFields ==
  ASSUME NEW s \in Registry, s.queue # <<>>
  PROVE  /\ SameMaps(s, Taken(s)) /\ SameIds(s, Taken(s))
         /\ \A k \in JobIds : Taken(s).job[k].ctx =
              IF k = Head(s.queue) THEN "live" ELSE s.job[k].ctx
  <1> DEFINE j == Head(s.queue)
             q == Tail(s.queue)
             n == [s.job[j] EXCEPT !.state = "running", !.ctx = "live"]
             f == [s.job EXCEPT ![j] = n]
             A == s.active \cup {j}
  <1>1. j \in JobIds
    BY TakenFacts
  <1>2. /\ n.science = s.job[j].science /\ n.published = s.job[j].published
        /\ n.owners = s.job[j].owners /\ n.keys = s.job[j].keys /\ n.ctx = "live"
    <2>1. s.job[j] \in JobRecord
      BY <1>1, JobType
    <2> QED BY <2>1 DEF JobRecord
  <1>3. Taken(s) = [s EXCEPT !.queue = q, !.active = A, !.job = f]
    BY DEF Taken
  <1> HIDE DEF n, q, A
  <1>4. \A k \in JobIds : f[k] = IF k = j THEN n ELSE s.job[k]
    BY <1>1 DEF Registry
  <1> HIDE DEF f, j
  <1>5. SameMaps(s, Taken(s)) /\ Taken(s).job = f
    BY <1>3 DEF Registry, SameMaps
  <1> QED BY <1>2, <1>4, <1>5 DEF SameIds, j

LEMMA ReleasedFields ==
  ASSUME NEW s \in Registry, NEW j \in JobIds
  PROVE  /\ SameMaps(s, Released(s, j)) /\ SameIds(s, Released(s, j))
         /\ \A k \in JobIds : Released(s, j).job[k].ctx =
              IF k = j THEN "none" ELSE s.job[k].ctx
  <1> DEFINE n == [s.job[j] EXCEPT !.ctx = "none"]
             f == [s.job EXCEPT ![j] = n]
             A == s.active \ {j}
  <1>1. /\ n.science = s.job[j].science /\ n.published = s.job[j].published
        /\ n.owners = s.job[j].owners /\ n.keys = s.job[j].keys /\ n.ctx = "none"
    <2>1. s.job[j] \in JobRecord
      BY JobType
    <2> QED BY <2>1 DEF JobRecord
  <1>2. Released(s, j) = [s EXCEPT !.active = A, !.job = f]
    BY DEF Released
  <1> HIDE DEF n, A
  <1>3. \A k \in JobIds : f[k] = IF k = j THEN n ELSE s.job[k]
    BY DEF Registry
  <1> HIDE DEF f
  <1>4. SameMaps(s, Released(s, j)) /\ Released(s, j).job = f
    BY <1>2 DEF Registry, SameMaps
  <1> QED BY <1>1, <1>3, <1>4 DEF SameIds

\* A new job enters the tables.
NewEntry(s, t, j, r, state) ==
  /\ t.jobs = s.jobs \cup {j}
  /\ \A d \in ScienceDigests : t.science[d] = IF d = Digest(r) THEN j ELSE s.science[d]
  /\ \A x \in IdemDigests : t.idem[x] = IF x = Idem(r) THEN j ELSE s.idem[x]
  /\ \A k \in JobIds \ {j} : t.job[k] = s.job[k]
  /\ t.job[j].state = state /\ t.job[j].science = Digest(r)
  /\ t.job[j].published = NoDigest
  /\ t.job[j].owners = {r.owner} /\ t.job[j].keys = {Idem(r)}
  /\ t.job[j].ctx = "none"

LEMMA NewJobFields ==
  ASSUME NEW r \in Requests, NEW state
  PROVE  LET n == NewJob(r, state)
         IN  /\ n.state = state /\ n.science = Digest(r) /\ n.published = NoDigest
             /\ n.owners = {} /\ n.keys = {} /\ n.ctx = "none"
  BY DEF NewJob, Unused

\* AddOwner after a job record and a science entry were written.
LEMMA EntryFields ==
  ASSUME NEW s \in Registry, NEW u \in Registry, NEW r \in Requests, NEW j \in JobIds,
         NEW state \in States, now \in 0..MaxTime,
         u.job = [s.job EXCEPT ![j] = NewJob(r, state)], u.jobs = s.jobs \cup {j},
         u.science = [s.science EXCEPT ![Digest(r)] = j], u.idem = s.idem
  PROVE  LET t == AddOwner(u, j, r.owner, Idem(r))
         IN  NewEntry(s, t, j, r, state) /\ t.completed = u.completed
  <1> DEFINE t == AddOwner(u, j, r.owner, Idem(r))
             n == NewJob(r, state)
  <1>1. /\ Digest(r) \in ScienceDigests /\ Idem(r) \in IdemDigests /\ r.owner \in Owners
        /\ n \in JobRecord
    BY NewJobType
  <1>2. /\ n.state = state /\ n.science = Digest(r) /\ n.published = NoDigest
        /\ n.owners = {} /\ n.keys = {} /\ n.ctx = "none"
    BY NewJobFields
  <1> HIDE DEF n
  <1>3. /\ u.job[j] = n /\ \A k \in JobIds \ {j} : u.job[k] = s.job[k]
        /\ \A d \in ScienceDigests : u.science[d] = IF d = Digest(r) THEN j ELSE s.science[d]
    BY <1>1 DEF Registry, n
  <1>4. Joined(u, t, j, r.owner, Idem(r))
    BY <1>1, AddOwnerFields
  <1>5. t.job[j].state = state
    <2>1. SameStates(u, t)
      BY <1>1, AddOwnerSame
    <2> QED BY <1>2, <1>3, <2>1 DEF SameStates
  <1>6. \A k \in JobIds \ {j} : t.job[k] = s.job[k]
    BY <1>3 DEF AddOwner, Registry
  <1> HIDE DEF t
  <1>7. NewEntry(s, t, j, r, state)
    BY <1>2, <1>3, <1>4, <1>5, <1>6 DEF NewEntry, Joined
  <1> QED BY <1>4, <1>7 DEF t, Joined

LEMMA ServedFields ==
  ASSUME NEW s \in Registry, NEW r \in Requests, NEW j \in JobIds, now \in 0..MaxTime
  PROVE  LET t == Served(s, r, j)
         IN  NewEntry(s, t, j, r, "ready") /\ t.completed = s.completed \cup {j}
  <1> DEFINE t == Served(s, r, j)
             n == NewJob(r, "ready")
             f == [s.job EXCEPT ![j] = n]
             g == [s.science EXCEPT ![Digest(r)] = j]
             J == s.jobs \cup {j}
             C == s.completed \cup {j}
             u == [s EXCEPT !.job = f, !.jobs = J, !.science = g, !.completed = C]
  <1>1. "ready" \in States
    BY DEF States
  <1>2. n \in JobRecord /\ Digest(r) \in ScienceDigests
    BY <1>1, NewJobType
  <1>3. t = AddOwner(u, j, r.owner, Idem(r))
    BY DEF Served
  <1> HIDE DEF n
  <1>4. /\ f \in [JobIds -> JobRecord] /\ g \in [ScienceDigests -> JobIds \cup {NoJob}]
        /\ J \in SUBSET JobIds /\ C \in SUBSET JobIds
    BY <1>2 DEF Registry
  <1> HIDE DEF f, g, J, C
  <1>5. /\ u \in Registry /\ u.job = f /\ u.jobs = J /\ u.science = g /\ u.completed = C
        /\ u.idem = s.idem
    BY <1>4 DEF Registry
  <1> HIDE DEF u
  <1> QED BY <1>1, <1>3, <1>5, EntryFields DEF f, g, n, J, C

LEMMA AdmittedFields ==
  ASSUME NEW s \in Registry, NEW r \in Requests, NEW j \in JobIds, now \in 0..MaxTime
  PROVE  LET t == Admitted(s, r, j)
         IN  NewEntry(s, t, j, r, "queued") /\ t.completed = s.completed
  <1> DEFINE t == Admitted(s, r, j)
             n == NewJob(r, "queued")
             f == [s.job EXCEPT ![j] = n]
             g == [s.science EXCEPT ![Digest(r)] = j]
             J == s.jobs \cup {j}
             q == Append(s.queue, j)
             u == [s EXCEPT !.job = f, !.jobs = J, !.science = g, !.queue = q]
  <1>1. "queued" \in States
    BY DEF States
  <1>2. n \in JobRecord /\ Digest(r) \in ScienceDigests
    BY <1>1, NewJobType
  <1>3. t = AddOwner(u, j, r.owner, Idem(r))
    BY DEF Admitted
  <1> HIDE DEF n
  <1>4. /\ f \in [JobIds -> JobRecord] /\ g \in [ScienceDigests -> JobIds \cup {NoJob}]
        /\ J \in SUBSET JobIds
    BY <1>2 DEF Registry
  <1>5. q \in Seq(JobIds)
    BY AppendProperties DEF Registry
  <1> HIDE DEF f, g, J, q
  <1>6. /\ u \in Registry /\ u.job = f /\ u.jobs = J /\ u.science = g
        /\ u.completed = s.completed /\ u.idem = s.idem
    BY <1>4, <1>5 DEF Registry
  <1> HIDE DEF u
  <1> QED BY <1>1, <1>3, <1>6, EntryFields DEF f, g, n, J

-----------------------------------------------------------------------------
(* What forgetting completed jobs leaves of the tables.                    *)

LEMMA ForgetTables ==
  ASSUME NEW s \in Registry, NEW R \in SUBSET s.completed, Tables(s)
  PROVE  /\ Tables(Forget(s, R))
         /\ \A J : OwnedBut(s, J) => OwnedBut(Forget(s, R), J)
  <1> DEFINE t == Forget(s, R)
  <1>1. /\ t.job = s.job /\ t.jobs = s.jobs \ R /\ t.completed = s.completed \ R
        /\ \A d \in ScienceDigests : t.science[d] =
             LET j == s.science[d]
             IN  IF j \in R /\ d \in {s.job[j].science, s.job[j].published}
                 THEN NoJob ELSE j
        /\ \A i \in IdemDigests : t.idem[i] =
             LET j == s.idem[i] IN IF j \in R /\ i \in s.job[j].keys THEN NoJob ELSE j
    BY ForgetType, ForgetFields
  <1> HIDE DEF t
  <1>2. /\ Keyed(s) /\ Named(s) /\ Listed(s) /\ Unpublished(s) /\ Single(s)
        /\ NoJob \notin JobIds
    BY ConfigAssumption DEF Tables
  <1>3. \A j \in JobIds : Terminal(t, j) = Terminal(s, j) /\ Pending(t, j) = Pending(s, j)
    BY <1>1 DEF Terminal, Pending
  <1>4. \A j \in R : j \in s.jobs /\ ~Pending(s, j)
    BY <1>2 DEF Listed, Terminal, Pending
  <1>5. Keyed(t)
    BY <1>1, <1>2 DEF Keyed
  <1>6. Named(t)
    <2>1. ASSUME NEW j \in JobIds, Pending(t, j) PROVE t.science[t.job[j].science] = j
      BY <1>1, <1>2, <1>3, <1>4, <2>1 DEF Named, Unpublished
    <2>2. ASSUME NEW d \in ScienceDigests, t.science[d] # NoJob
          PROVE  /\ t.science[d] \in t.jobs
                 /\ d \in {t.job[t.science[d]].science, t.job[t.science[d]].published}
                 /\ t.job[t.science[d]].state \in {"queued", "running", "ready"}
      BY <1>1, <1>2, <2>2 DEF Named
    <2> QED BY <2>1, <2>2 DEF Named
  <1>7. Listed(t)
    BY <1>1, <1>2 DEF Listed, Terminal
  <1>8. Unpublished(t) /\ Single(t)
    BY <1>1, <1>2 DEF Unpublished, Single, Pending, HasOwner
  <1>9. \A J : OwnedBut(s, J) => OwnedBut(t, J)
    BY <1>1, <1>3, <1>4 DEF OwnedBut
  <1> QED BY <1>5, <1>6, <1>7, <1>8, <1>9 DEF Tables, t

LEMMA CompletedFinite ==
  ASSUME NEW s \in Registry, NEW C \in SUBSET s.completed
  PROVE  /\ IsFiniteSet(C) /\ Cardinality(C) \in Nat
         /\ Cardinality(C) <= Cardinality(s.completed)
         /\ Cardinality(s.completed) \in Nat
  <1>1. s.completed \in SUBSET JobIds /\ IsFiniteSet(JobIds)
    BY ConfigAssumption DEF Registry
  <1>2. IsFiniteSet(s.completed)
    BY <1>1, FS_Subset
  <1> QED BY <1>2, FS_Subset, FS_CardinalityType

LEMMA PrunedTables ==
  ASSUME TypeOK, Maps
  PROVE  Tables(Pruned) /\ OwnedBut(Pruned, {}) /\ Limited(Pruned)
  <1>1. Expired(reg) \in SUBSET reg.completed /\ reg \in Registry
    BY DEF Expired, TypeOK
  <1>2. Tables(Pruned) /\ OwnedBut(Pruned, {})
    BY <1>1, ForgetTables DEF Maps, Pruned
  <1>3. Pruned.completed = reg.completed \ Expired(reg)
    BY <1>1, ForgetFields DEF Pruned
  <1>4. Cardinality(Pruned.completed) <= Cardinality(reg.completed)
        /\ Cardinality(Pruned.completed) \in Nat /\ Cardinality(reg.completed) \in Nat
    BY <1>1, <1>3, CompletedFinite
  <1> QED BY <1>2, <1>4, ConfigAssumption DEF Maps, Limited

LEMMA PrunedAfterTables ==
  ASSUME NEW s \in Registry, NEW last, NEW t \in PrunedAfter(s, last), Tables(s)
  PROVE  /\ Tables(t) /\ Limited(t)
         /\ \A J : OwnedBut(s, J) => OwnedBut(t, J)
  <1> DEFINE X == Expired(s)
             e == Forget(s, X)
  <1>1. X \in SUBSET s.completed
    BY DEF Expired
  <1> HIDE DEF X
  <1>2. /\ e \in Registry /\ Tables(e)
        /\ \A J : OwnedBut(s, J) => OwnedBut(e, J)
    BY <1>1, ForgetType, ForgetTables
  <1>3. PICK R \in Evictable(e, last) : t = Forget(e, R)
    BY DEF PrunedAfter, X
  <1> HIDE DEF e
  <1>4. /\ R \in SUBSET e.completed
        /\ Cardinality(e.completed \ R) =
             IF Cardinality(e.completed) > CompletedLimit
             THEN CompletedLimit ELSE Cardinality(e.completed)
    BY <1>3 DEF Evictable
  <1>5. Tables(t) /\ \A J : OwnedBut(e, J) => OwnedBut(t, J)
    BY <1>2, <1>3, <1>4, ForgetTables
  <1>6. t.completed = e.completed \ R
    BY <1>2, <1>3, ForgetFields
  <1>7. Cardinality(e.completed) \in Nat
    BY <1>2, CompletedFinite
  <1> QED BY <1>2, <1>4, <1>5, <1>6, <1>7, ConfigAssumption DEF Limited

-----------------------------------------------------------------------------
(* What owners and new jobs leave of the tables.                           *)

\* The owner limit lets o have one more job of kind k.
Admissible(s, o, k) ==
  \/ \E r \in Requests : r.owner = o /\ r.kind = k /\ ~(r.limit > 0)
  \/ \A j \in JobIds :
       ~(Pending(s, j) /\ HasOwner(s, j, o) /\ s.job[j].science.kind = k)

LEMMA NotBusy ==
  ASSUME NEW s \in Registry, OwnedBut(s, {}), NEW r \in Requests, ~OwnerBusy(s, r)
  PROVE  Admissible(s, r.owner, r.kind)
  <1>1. r.limit \in {0, 1}
    BY RequestAssumption
  <1>2. CASE r.limit = 0
    BY <1>2 DEF Admissible
  <1>3. CASE r.limit = 1
    <2>1. OwnerActive(s, r) \in SUBSET JobIds
      BY DEF OwnerActive, Registry
    <2>2. IsFiniteSet(OwnerActive(s, r)) /\ Cardinality(OwnerActive(s, r)) \in Nat
      BY <2>1, ConfigAssumption, FS_Subset, FS_CardinalityType
    <2>3. Cardinality(OwnerActive(s, r)) = 0
      BY <1>3, <2>2 DEF OwnerBusy
    <2>4. OwnerActive(s, r) = {}
      BY <2>2, <2>3, FS_EmptySet
    <2>5. \A j \in JobIds : Pending(s, j) => j \in s.jobs /\ ~Terminal(s, j)
      BY DEF OwnedBut, Pending, Terminal
    <2> QED BY <2>4, <2>5 DEF OwnerActive, Admissible
  <1> QED BY <1>1, <1>2, <1>3

LEMMA JoinedTables ==
  ASSUME NEW s \in Registry, NEW t \in Registry, NEW j \in s.jobs, NEW i \in IdemDigests,
         Tables(s), Joined(s, t, j, i.owner, i), SameStates(s, t),
         s.idem[i] \in {NoJob, j}, i.owner \in Owners,
         \/ ~Pending(s, j) \/ HasOwner(s, j, i.owner)
         \/ Admissible(s, i.owner, s.job[j].science.kind)
  PROVE  /\ Tables(t)
         /\ \A J : OwnedBut(s, J) => OwnedBut(t, J)
  <1>1. /\ Keyed(s) /\ Named(s) /\ Listed(s) /\ Unpublished(s) /\ Single(s)
        /\ NoJob \notin JobIds /\ j \in JobIds
    BY ConfigAssumption DEF Tables, Registry
  <1>2. \A k \in JobIds : Terminal(t, k) = Terminal(s, k) /\ Pending(t, k) = Pending(s, k)
    BY DEF Terminal, Pending, SameStates
  <1>3. Keyed(t)
    BY <1>1 DEF Keyed, Joined
  <1>4. Named(t)
    <2>1. \A k \in JobIds : Pending(t, k) => t.science[t.job[k].science] = k
      BY <1>1, <1>2 DEF Named, Joined
    <2>2. ASSUME NEW d \in ScienceDigests, t.science[d] # NoJob
          PROVE  /\ t.science[d] \in t.jobs
                 /\ d \in {t.job[t.science[d]].science, t.job[t.science[d]].published}
                 /\ t.job[t.science[d]].state \in {"queued", "running", "ready"}
      <3>1. t.science[d] \in JobIds
        BY <2>2 DEF Registry
      <3> QED BY <1>1, <2>2, <3>1 DEF Named, Joined, SameStates
    <2> QED BY <2>1, <2>2 DEF Named
  <1>5. Listed(t)
    <2>1. \A k \in s.jobs : k \in JobIds
      BY DEF Registry
    <2> QED BY <1>1, <1>2, <2>1 DEF Listed, Joined, SameStates
  <1>6. Unpublished(t)
    BY <1>1, <1>2 DEF Unpublished, Joined
  <1>7. Single(t)
    <2> SUFFICES ASSUME NEW o \in Owners, NEW k \in Kinds,
                        \A r \in Requests : r.owner = o /\ r.kind = k => r.limit > 0,
                        NEW a \in JobIds, NEW b \in JobIds,
                        Pending(t, a), HasOwner(t, a, o), t.job[a].science.kind = k,
                        Pending(t, b), HasOwner(t, b, o), t.job[b].science.kind = k
                 PROVE  a = b
      BY DEF Single
    <2>1. /\ Pending(s, a) /\ s.job[a].science.kind = k
          /\ Pending(s, b) /\ s.job[b].science.kind = k
      BY <1>2 DEF Joined
    <2>2. CASE HasOwner(s, a, o) /\ HasOwner(s, b, o)
      BY <1>1, <2>1, <2>2 DEF Single
    <2>3. CASE ~HasOwner(s, a, o)
      <3>1. a = j /\ o = i.owner /\ (b = j \/ HasOwner(s, b, o))
        BY <2>3 DEF Joined, HasOwner
      <3> QED BY <2>1, <2>3, <3>1 DEF Admissible
    <2>4. CASE ~HasOwner(s, b, o)
      <3>1. b = j /\ o = i.owner /\ (a = j \/ HasOwner(s, a, o))
        BY <2>4 DEF Joined, HasOwner
      <3> QED BY <2>1, <2>4, <3>1 DEF Admissible
    <2> QED BY <2>2, <2>3, <2>4
  <1>8. \A J : OwnedBut(s, J) => OwnedBut(t, J)
    BY <1>2 DEF OwnedBut, Joined
  <1> QED BY <1>3, <1>4, <1>5, <1>6, <1>7, <1>8 DEF Tables

LEMMA PartedTables ==
  ASSUME NEW s \in Registry, NEW t \in Registry, NEW j \in s.jobs, NEW o,
         Tables(s), OwnedBut(s, {}), Parted(s, t, j, o), SameStates(s, t)
  PROVE  /\ Tables(t) /\ OwnedBut(t, {j})
         /\ t.job[j].owners # {} => OwnedBut(t, {})
  <1>1. /\ Keyed(s) /\ Named(s) /\ Listed(s) /\ Unpublished(s) /\ Single(s)
        /\ NoJob \notin JobIds /\ j \in JobIds
    BY ConfigAssumption DEF Tables, Registry
  <1>2. \A k \in JobIds : Terminal(t, k) = Terminal(s, k) /\ Pending(t, k) = Pending(s, k)
    BY DEF Terminal, Pending, SameStates
  <1>3. Keyed(t)
    <2> SUFFICES ASSUME NEW i \in IdemDigests, NEW k \in JobIds
                 PROVE  /\ t.idem[i] = k <=> k \in t.jobs /\ i \in t.job[k].keys
                        /\ t.idem[i] = k => i.owner \in t.job[k].owners
      BY DEF Keyed
    <2>1. /\ s.idem[i] = k <=> k \in s.jobs /\ i \in s.job[k].keys
          /\ s.idem[i] = k => i.owner \in s.job[k].owners
      BY <1>1 DEF Keyed
    <2>2. /\ s.idem[i] = j <=> i \in s.job[j].keys
      BY <1>1 DEF Keyed
    <2>3. /\ t.jobs = s.jobs
          /\ t.idem[i] = IF i \in s.job[j].keys /\ i.owner = o /\ s.idem[i] = j
                         THEN NoJob ELSE s.idem[i]
          /\ t.job[k].owners = IF k = j THEN s.job[j].owners \ {o} ELSE s.job[k].owners
          /\ t.job[k].keys =
               IF k = j THEN {x \in s.job[j].keys : x.owner # o} ELSE s.job[k].keys
      BY DEF Parted
    <2> QED BY <1>1, <2>1, <2>2, <2>3
  <1>4. Named(t)
    <2>1. \A k \in JobIds : Pending(t, k) => t.science[t.job[k].science] = k
      BY <1>1, <1>2 DEF Named, Parted
    <2>2. ASSUME NEW d \in ScienceDigests, t.science[d] # NoJob
          PROVE  /\ t.science[d] \in t.jobs
                 /\ d \in {t.job[t.science[d]].science, t.job[t.science[d]].published}
                 /\ t.job[t.science[d]].state \in {"queued", "running", "ready"}
      <3>1. t.science[d] \in JobIds
        BY <2>2 DEF Registry
      <3>2. /\ s.science[d] \in s.jobs
            /\ d \in {s.job[s.science[d]].science, s.job[s.science[d]].published}
            /\ s.job[s.science[d]].state \in {"queued", "running", "ready"}
        BY <1>1, <2>2 DEF Named, Parted
      <3> QED BY <1>1, <3>1, <3>2 DEF Parted, SameStates
    <2> QED BY <2>1, <2>2 DEF Named
  <1>5. Listed(t)
    <2>1. \A k \in s.jobs : k \in JobIds
      BY DEF Registry
    <2> QED BY <1>1, <1>2, <2>1 DEF Listed, Parted, SameStates
  <1>6. Unpublished(t)
    BY <1>1, <1>2 DEF Unpublished, Parted
  <1>7. Single(t)
    <2>1. ASSUME NEW k \in JobIds
          PROVE  /\ t.job[k].science = s.job[k].science
                 /\ \A x : HasOwner(t, k, x) => HasOwner(s, k, x)
      BY DEF Parted, HasOwner
    <2> QED BY <1>1, <1>2, <2>1 DEF Single
  <1>8. OwnedBut(t, {j}) /\ (t.job[j].owners # {} => OwnedBut(t, {}))
    BY <1>1, <1>2 DEF OwnedBut, Parted
  <1> QED BY <1>3, <1>4, <1>5, <1>6, <1>7, <1>8 DEF Tables

\* A new job under identities no other unfinished job has.
LEMMA NewEntryTables ==
  ASSUME NEW s \in Registry, NEW t \in Registry, NEW j \in JobIds, NEW r \in Requests,
         NEW state \in {"ready", "queued"},
         Tables(s), NewEntry(s, t, j, r, state),
         t.completed = IF state = "ready" THEN s.completed \cup {j} ELSE s.completed,
         s.job[j].state = "unused", s.idem[Idem(r)] = NoJob, ~Shared(s, r),
         Digest(r) \in ScienceDigests, Idem(r) \in IdemDigests,
         state = "ready" \/ Admissible(s, r.owner, r.kind)
  PROVE  /\ Tables(t)
         /\ \A J : OwnedBut(s, J) => OwnedBut(t, J)
  <1>1. /\ Keyed(s) /\ Named(s) /\ Listed(s) /\ Unpublished(s) /\ Single(s)
        /\ NoJob \notin JobIds /\ NoDigest \notin ScienceDigests
    BY ConfigAssumption DEF Tables
  <1>2. j \notin s.jobs /\ s.jobs \in SUBSET JobIds
    BY <1>1 DEF Listed, Registry
  <1>3. s.science[Digest(r)] = NoJob
    BY <1>1 DEF Shared, Named
  <1>4. \A k \in JobIds \ {j} : t.job[k] = s.job[k]
    BY DEF NewEntry
  <1>5. \A d \in ScienceDigests : s.science[d] # j
    BY <1>1, <1>2 DEF Named
  <1>6. Keyed(t)
    <2>1. Idem(r).owner = r.owner
      BY DEF Idem
    <2> QED BY <1>1, <1>2, <1>4, <2>1 DEF Keyed, NewEntry
  <1>7. Named(t)
    <2>1. ASSUME NEW k \in JobIds, Pending(t, k) PROVE t.science[t.job[k].science] = k
      <3>1. CASE k = j
        BY <3>1 DEF NewEntry
      <3>2. CASE k # j
        <4>1. Pending(s, k) /\ t.job[k].science = s.job[k].science
          BY <1>4, <2>1, <3>2 DEF Pending
        <4>2. s.science[s.job[k].science] = k /\ s.job[k].science \in ScienceDigests
          BY <1>1, <4>1 DEF Named, Unpublished
        <4> QED BY <1>1, <1>3, <4>1, <4>2 DEF NewEntry
      <3> QED BY <3>1, <3>2
    <2>2. ASSUME NEW d \in ScienceDigests, t.science[d] # NoJob
          PROVE  /\ t.science[d] \in t.jobs
                 /\ d \in {t.job[t.science[d]].science, t.job[t.science[d]].published}
                 /\ t.job[t.science[d]].state \in {"queued", "running", "ready"}
      <3>1. CASE d = Digest(r)
        BY <3>1 DEF NewEntry
      <3>2. CASE d # Digest(r)
        <4>1. t.science[d] = s.science[d] /\ s.science[d] \in JobIds \ {j}
          BY <1>1, <1>5, <2>2, <3>2 DEF NewEntry, Registry
        <4> QED BY <1>1, <1>4, <2>2, <4>1 DEF Named, NewEntry
      <3> QED BY <3>1, <3>2
    <2> QED BY <2>1, <2>2 DEF Named
  <1>8. Listed(t)
    <2>1. t.jobs = s.jobs \cup {j} /\ t.job[j].state = state
      BY DEF NewEntry
    <2>2. \A k \in s.jobs : t.job[k].state = s.job[k].state
      BY <1>2, <1>4
    <2> QED BY <1>1, <1>2, <2>1, <2>2 DEF Listed, Terminal
  <1>9. Unpublished(t)
    BY <1>1, <1>4 DEF Unpublished, NewEntry, Pending
  <1>10. Single(t)
    <2> SUFFICES ASSUME NEW o \in Owners, NEW k \in Kinds,
                        \A x \in Requests : x.owner = o /\ x.kind = k => x.limit > 0,
                        NEW a \in JobIds, NEW b \in JobIds,
                        Pending(t, a), HasOwner(t, a, o), t.job[a].science.kind = k,
                        Pending(t, b), HasOwner(t, b, o), t.job[b].science.kind = k
                 PROVE  a = b
      BY DEF Single
    <2>1. CASE a # j /\ b # j
      BY <1>1, <1>4, <2>1 DEF Single, Pending, HasOwner
    <2>2. ASSUME NEW c \in JobIds \ {j}, a = j \/ b = j,
                 Pending(t, c), HasOwner(t, c, o), t.job[c].science.kind = k
          PROVE  FALSE
      <3>1. state = "queued" /\ r.owner = o /\ r.kind = k
        BY <2>2 DEF NewEntry, Pending, HasOwner, Digest
      <3>2. Pending(s, c) /\ HasOwner(s, c, o) /\ s.job[c].science.kind = k
        BY <1>4, <2>2 DEF Pending, HasOwner
      <3> QED BY <3>1, <3>2 DEF Admissible
    <2> QED BY <2>1, <2>2
  <1>11. \A J : OwnedBut(s, J) => OwnedBut(t, J)
    BY <1>4 DEF OwnedBut, NewEntry, Pending
  <1> QED BY <1>6, <1>7, <1>8, <1>9, <1>10, <1>11 DEF Tables

-----------------------------------------------------------------------------
(* What the end of jobs leaves of the tables.                              *)

\* The jobs of J have ended without a result and their digests are free.
EndedAs(s, t, J, state) ==
  /\ t.jobs = s.jobs /\ t.idem = s.idem /\ t.completed = s.completed \cup J
  /\ SameIds(s, t) /\ Changed(s, t, J, state)
  /\ \A d \in ScienceDigests : t.science[d] =
       LET j == s.science[d] IN IF j \in J /\ s.job[j].science = d THEN NoJob ELSE j

LEMMA EndedTables ==
  ASSUME NEW s \in Registry, NEW t \in Registry, NEW J \in SUBSET JobIds,
         \A j \in J : Pending(s, j), NEW state \in {"failed", "cancelled"},
         Tables(s), OwnedBut(s, J), EndedAs(s, t, J, state)
  PROVE  Tables(t) /\ OwnedBut(t, {})
  <1>1. /\ Keyed(s) /\ Named(s) /\ Listed(s) /\ Unpublished(s) /\ Single(s)
        /\ NoJob \notin JobIds /\ NoDigest \notin ScienceDigests
    BY ConfigAssumption DEF Tables
  <1>2. \A k \in JobIds : /\ Pending(t, k) <=> Pending(s, k) /\ k \notin J
                          /\ Terminal(t, k) <=> Terminal(s, k) \/ k \in J
    BY DEF EndedAs, Changed, Pending, Terminal
  <1>3. Keyed(t)
    BY <1>1 DEF Keyed, EndedAs, SameIds
  <1>4. Named(t)
    <2>1. ASSUME NEW k \in JobIds, Pending(t, k) PROVE t.science[t.job[k].science] = k
      <3>1. /\ s.science[s.job[k].science] = k /\ s.job[k].science \in ScienceDigests
            /\ k \notin J /\ t.job[k].science = s.job[k].science
        BY <1>1, <1>2, <2>1 DEF Named, Unpublished, EndedAs, SameIds
      <3> QED BY <3>1 DEF EndedAs
    <2>2. ASSUME NEW d \in ScienceDigests, t.science[d] # NoJob
          PROVE  /\ t.science[d] \in t.jobs
                 /\ d \in {t.job[t.science[d]].science, t.job[t.science[d]].published}
                 /\ t.job[t.science[d]].state \in {"queued", "running", "ready"}
      <3> DEFINE k == t.science[d]
      <3>1. /\ k \in JobIds /\ s.science[d] = k
            /\ ~(k \in J /\ s.job[k].science = d)
        BY <2>2 DEF EndedAs, Registry
      <3>2. /\ k \in s.jobs /\ d \in {s.job[k].science, s.job[k].published}
            /\ s.job[k].state \in {"queued", "running", "ready"}
        BY <1>1, <2>2, <3>1 DEF Named
      <3> HIDE DEF k
      <3>3. k \notin J
        BY <1>1, <3>1, <3>2 DEF Unpublished
      <3>4. /\ t.job[k].state = s.job[k].state /\ t.job[k].science = s.job[k].science
            /\ t.job[k].published = s.job[k].published /\ t.jobs = s.jobs
        BY <3>1, <3>3 DEF EndedAs, SameIds, Changed
      <3> QED BY <3>2, <3>4 DEF k
    <2> QED BY <2>1, <2>2 DEF Named
  <1>5. Listed(t)
    <2>1. s.jobs \in SUBSET JobIds /\ J \in SUBSET s.jobs
      BY DEF OwnedBut, Registry
    <2>2. \A k \in s.jobs : t.job[k].state # "unused"
      BY <1>1, <2>1 DEF Listed, EndedAs, Changed
    <2> QED BY <1>1, <1>2, <2>1, <2>2 DEF Listed, EndedAs
  <1>6. Unpublished(t)
    BY <1>1, <1>2 DEF Unpublished, EndedAs, SameIds
  <1>7. Single(t)
    BY <1>1, <1>2 DEF Single, HasOwner, EndedAs, SameIds
  <1>8. OwnedBut(t, {})
    BY <1>2 DEF OwnedBut, EndedAs, SameIds
  <1> QED BY <1>3, <1>4, <1>5, <1>6, <1>7, <1>8 DEF Tables

\* The maps, the identities and the states of jobs are the same.
Alike(s, t) ==
  /\ SameMaps(s, t) /\ SameIds(s, t)
  /\ \A k \in JobIds : Pending(t, k) = Pending(s, k) /\ Terminal(t, k) = Terminal(s, k)
       /\ (s.job[k].state # "unused" => t.job[k].state # "unused")
       /\ (s.job[k].state \in {"queued", "running", "ready"} =>
             t.job[k].state \in {"queued", "running", "ready"})

LEMMA AlikeTables ==
  ASSUME NEW s \in Registry, NEW t \in Registry, Tables(s), Alike(s, t)
  PROVE  /\ Tables(t) /\ t.completed = s.completed
         /\ \A J : OwnedBut(s, J) => OwnedBut(t, J)
  <1>1. s.jobs \in SUBSET JobIds
    BY DEF Registry
  <1>2. Keyed(t) /\ Unpublished(t) /\ Single(t)
    BY DEF Tables, Keyed, Unpublished, Single, HasOwner, Alike, SameMaps, SameIds
  <1>3. Named(t)
    <2>1. \A k \in JobIds : Pending(t, k) => t.science[t.job[k].science] = k
      BY DEF Tables, Named, Alike, SameMaps, SameIds
    <2>2. ASSUME NEW d \in ScienceDigests, t.science[d] # NoJob
          PROVE  /\ t.science[d] \in t.jobs
                 /\ d \in {t.job[t.science[d]].science, t.job[t.science[d]].published}
                 /\ t.job[t.science[d]].state \in {"queued", "running", "ready"}
      <3>1. t.science[d] = s.science[d] /\ s.science[d] \in JobIds
        BY <2>2 DEF Alike, SameMaps, Registry
      <3> QED BY <2>2, <3>1 DEF Tables, Named, Alike, SameMaps, SameIds
    <2> QED BY <2>1, <2>2 DEF Named
  <1>4. Listed(t)
    BY <1>1 DEF Tables, Listed, Alike, SameMaps
  <1>5. \A J : OwnedBut(s, J) => OwnedBut(t, J)
    BY DEF OwnedBut, Alike, SameMaps, SameIds
  <1> QED BY <1>2, <1>3, <1>4, <1>5 DEF Tables, Alike, SameMaps

\* The digest of a completed job is dropped.
LEMMA DropCompletedTables ==
  ASSUME NEW s \in Registry, NEW j \in JobIds, ~Pending(s, j), Tables(s),
         OwnedBut(s, {j})
  PROVE  LET t == DropScience(s, {j})
         IN  Tables(t) /\ OwnedBut(t, {}) /\ t.completed = s.completed
  <1> DEFINE t == DropScience(s, {j})
  <1>1. /\ t \in Registry /\ t.job = s.job /\ t.jobs = s.jobs /\ t.idem = s.idem
        /\ t.completed = s.completed
        /\ \A d \in ScienceDigests : t.science[d] =
             LET k == s.science[d] IN IF k \in {j} /\ s.job[k].science = d THEN NoJob ELSE k
    BY DropScienceType, DropScienceFields
  <1> HIDE DEF t
  <1>2. /\ Keyed(s) /\ Named(s) /\ Listed(s) /\ Unpublished(s) /\ Single(s)
    BY DEF Tables
  <1>3. Keyed(t) /\ Unpublished(t) /\ Single(t) /\ Listed(t)
    BY <1>1, <1>2 DEF Keyed, Unpublished, Single, HasOwner, Listed, Pending, Terminal
  <1>4. Named(t)
    <2>1. ASSUME NEW k \in JobIds, Pending(t, k) PROVE t.science[t.job[k].science] = k
      <3>1. /\ Pending(s, k) /\ k # j
        BY <1>1, <2>1 DEF Pending
      <3> QED BY <1>1, <1>2, <3>1 DEF Named, Unpublished
    <2>2. \A d \in ScienceDigests : t.science[d] # NoJob => t.science[d] = s.science[d]
      BY <1>1
    <2> QED BY <1>1, <1>2, <2>1, <2>2 DEF Named
  <1>5. OwnedBut(t, {})
    BY <1>1 DEF OwnedBut, Pending
  <1> QED BY <1>1, <1>3, <1>4, <1>5 DEF Tables, t

-----------------------------------------------------------------------------
(* What the sections of code leave of the tables.                          *)

\* Finish after the digests were dropped.
LEMMA DroppedFinished ==
  ASSUME NEW s \in Registry, NEW u \in Registry, NEW J \in SUBSET JobIds,
         NEW state \in States, \A j \in J : Pending(s, j), now \in 0..MaxTime,
         SameMaps(DropScience(s, J), u), SameIds(s, u),
         \A k \in JobIds : u.job[k].state = s.job[k].state
  PROVE  LET t == Finish(u, J, state)
         IN  t \in Registry /\ EndedAs(s, t, J, state)
  <1> DEFINE v == DropScience(s, J)
             t == Finish(u, J, state)
  <1>1. /\ v.jobs = s.jobs /\ v.completed = s.completed /\ v.idem = s.idem
        /\ \A d \in ScienceDigests : v.science[d] =
             LET j == s.science[d] IN IF j \in J /\ s.job[j].science = d THEN NoJob ELSE j
    BY DropScienceFields
  <1>2. /\ u.jobs = v.jobs /\ u.completed = v.completed /\ u.idem = v.idem
        /\ u.science = v.science
    BY DEF SameMaps
  <1> HIDE DEF v
  <1>3. \A j \in J : ~Terminal(u, j)
    BY DEF Pending, Terminal
  <1>4. Finished(u, t, J)
    BY FinishFields
  <1>5. t \in Registry /\ Changed(u, t, J, state)
    BY <1>3, FinishFacts
  <1> HIDE DEF t
  <1>6. t.completed = s.completed \cup J
    BY <1>1, <1>2, <1>3, <1>4 DEF Finished
  <1>7. SameIds(s, t) /\ Changed(s, t, J, state)
    BY <1>4, <1>5 DEF SameIds, Changed, Finished
  <1>8. EndedAs(s, t, J, state)
    BY <1>1, <1>2, <1>4, <1>6, <1>7 DEF EndedAs, Finished
  <1> QED BY <1>5, <1>8 DEF t

LEMMA AbandonedTables ==
  ASSUME NEW s \in Registry, NEW j \in JobIds, now \in 0..MaxTime,
         NEW t \in Abandoned(s, j), s.job[j].state = "queued" => j \in ToSet(s.queue),
         Tables(s), OwnedBut(s, {j}), Limited(s)
  PROVE  Tables(t) /\ OwnedBut(t, {}) /\ Limited(t)
  <1> DEFINE u == DropScience(s, {j})
  <1>1. u \in Registry /\ u.job = s.job /\ u.queue = s.queue
    BY DropScienceType
  <1>2. "cancelled" \in States /\ {j} \in SUBSET JobIds
    BY DEF States
  <1>3. ASSUME NEW v \in Registry, SameMaps(u, v), SameIds(s, v), Pending(s, j),
               \A k \in JobIds : v.job[k].state = s.job[k].state, t \in PrunedAfter(Finish(v, {j}, "cancelled"), {j})
        PROVE  Tables(t) /\ OwnedBut(t, {}) /\ Limited(t)
    <2> DEFINE e == Finish(v, {j}, "cancelled")
    <2>1. e \in Registry /\ EndedAs(s, e, {j}, "cancelled")
      BY <1>2, <1>3, DroppedFinished
    <2> HIDE DEF e
    <2>2. Tables(e) /\ OwnedBut(e, {})
      BY <1>2, <1>3, <2>1, EndedTables
    <2> QED BY <1>3, <2>1, <2>2, PrunedAfterTables DEF e
  <1>4. CASE s.job[j].state = "queued"
    <2> DEFINE v == WithoutQueued(u, j)
    <2>1. t \in PrunedAfter(Finish(v, {j}, "cancelled"), {j})
      BY <1>1, <1>4 DEF Abandoned
    <2>2. v \in Registry /\ v.job = u.job /\ SameMaps(u, v)
      BY <1>1, <1>4, WithoutQueuedFacts, WithoutQueuedFields
    <2> HIDE DEF u, v
    <2>3. SameIds(s, v) /\ Pending(s, j) /\ \A k \in JobIds : v.job[k].state = s.job[k].state
      BY <1>1, <1>4, <2>2 DEF SameIds, Pending
    <2> QED BY <1>3, <2>1, <2>2, <2>3
  <1>5. CASE s.job[j].state = "running"
    <2> DEFINE v == CancelContexts(u, {j})
    <2>1. t \in PrunedAfter(Finish(v, {j}, "cancelled"), {j})
      BY <1>1, <1>5 DEF Abandoned
    <2>2. v \in Registry /\ SameStates(u, v) /\ SameMaps(u, v) /\ SameIds(u, v)
      BY <1>1, CancelContextsType, CancelContextsSame, CancelContextsFields
    <2> HIDE DEF u, v
    <2>3. SameIds(s, v) /\ Pending(s, j) /\ \A k \in JobIds : v.job[k].state = s.job[k].state
      BY <1>1, <1>5, <2>2 DEF SameStates, SameIds, Pending
    <2> QED BY <1>3, <2>1, <2>2, <2>3
  <1>6. CASE s.job[j].state \notin {"queued", "running"}
    <2>1. t = u /\ ~Pending(s, j)
      BY <1>1, <1>6 DEF Abandoned, Pending
    <2> QED BY <2>1, DropCompletedTables DEF Limited
  <1> QED BY <1>4, <1>5, <1>6

LEMMA CancelPendingTables ==
  ASSUME NEW s \in Registry, now \in 0..MaxTime, NEW t \in CancelPending(s),
         \A j \in ToSet(s.queue) : Pending(s, j),
         Tables(s), OwnedBut(s, {}), Limited(s)
  PROVE  Tables(t) /\ OwnedBut(t, {}) /\ Limited(t)
  <1> DEFINE Q == ToSet(s.queue)
             f == Finish(DropScience(s, Q), Q, "cancelled")
             e == [f EXCEPT !.queue = <<>>]
             c == CancelContexts(e, s.active)
  <1>1. (Q = {} /\ t = c) \/ (t \in PrunedAfter(c, Q))
    BY DEF CancelPending
  <1>2. Q \in SUBSET JobIds /\ \A j \in Q : Pending(s, j)
    <2>1. s.queue \in Seq(JobIds)
      BY DEF Registry
    <2> QED BY <2>1, ToSetFacts
  <1> HIDE DEF Q
  <1>3. f \in Registry /\ EndedAs(s, f, Q, "cancelled")
    <2> DEFINE u == DropScience(s, Q)
    <2>1. u \in Registry /\ u.job = s.job /\ u.queue = s.queue /\ u.active = s.active
      BY DropScienceType
    <2>2. /\ SameMaps(u, u) /\ SameIds(s, u)
          /\ \A k \in JobIds : u.job[k].state = s.job[k].state
      BY <2>1 DEF SameMaps, SameIds
    <2>3. "cancelled" \in States
      BY DEF States
    <2> QED BY <1>2, <2>1, <2>2, <2>3, DroppedFinished
  <1> HIDE DEF f
  <1>4. e \in Registry /\ e.job = f.job /\ SameMaps(f, e)
    <2>1. <<>> \in Seq(JobIds)
      BY EmptySeq
    <2> QED BY <2>1, <1>3 DEF Registry, SameMaps
  <1> HIDE DEF e
  <1>5. c \in Registry /\ SameStates(e, c) /\ SameMaps(e, c) /\ SameIds(e, c)
    BY <1>4, CancelContextsType, CancelContextsSame, CancelContextsFields
  <1> HIDE DEF c
  <1>6. Tables(f) /\ OwnedBut(f, {})
    <2>1. OwnedBut(s, Q)
      BY DEF OwnedBut
    <2> QED BY <1>2, <1>3, <2>1, EndedTables
  <1>7. Alike(f, c)
    BY <1>4, <1>5 DEF Alike, SameMaps, SameIds, SameStates, Pending, Terminal
  <1>8. Tables(c) /\ OwnedBut(c, {}) /\ c.completed = s.completed \cup Q
    BY <1>3, <1>5, <1>6, <1>7, AlikeTables DEF EndedAs
  <1>9. CASE Q = {} /\ t = c
    BY <1>8, <1>9 DEF Limited
  <1>10. CASE t \in PrunedAfter(c, Q)
    BY <1>5, <1>8, <1>10, PrunedAfterTables
  <1> QED BY <1>1, <1>9, <1>10

LEMMA UnsuccessfulTables ==
  ASSUME NEW s \in Registry, NEW j \in JobIds, NEW err, Pending(s, j),
         now \in 0..MaxTime, NEW t \in Unsuccessful(s, j, err),
         Tables(s), OwnedBut(s, {})
  PROVE  Tables(t) /\ OwnedBut(t, {}) /\ Limited(t)
  <1> DEFINE st == IF err = "canceled" THEN "cancelled" ELSE "failed"
             u == Finish(s, {j}, st)
             e == DropScience(u, {j})
  <1>1. t \in PrunedAfter(e, {j})
    BY DEF Unsuccessful
  <1>2. st \in {"failed", "cancelled"} /\ st \in States /\ {j} \in SUBSET JobIds
    BY DEF States
  <1> HIDE DEF st
  <1>3. ~Terminal(s, j)
    BY DEF Pending, Terminal
  <1>4. /\ u \in Registry /\ Changed(s, u, {j}, st)
        /\ u.jobs = s.jobs /\ u.idem = s.idem /\ u.science = s.science
        /\ u.completed = s.completed \cup {k \in {j} : ~Terminal(s, k)} /\ SameIds(s, u)
    <2>1. \A k \in {j} : ~Terminal(s, k)
      BY <1>3
    <2>2. u \in Registry /\ Changed(s, u, {j}, st)
      BY <1>2, <2>1, FinishFacts
    <2>3. Finished(s, u, {j})
      BY <1>2, FinishFields
    <2> QED BY <2>2, <2>3 DEF Finished
  <1> HIDE DEF u
  <1>5. /\ e \in Registry /\ e.job = u.job
        /\ e.jobs = u.jobs /\ e.completed = u.completed /\ e.idem = u.idem
        /\ \A d \in ScienceDigests : e.science[d] =
             LET k == u.science[d] IN IF k \in {j} /\ u.job[k].science = d THEN NoJob ELSE k
    BY <1>4, DropScienceType, DropScienceFields
  <1> HIDE DEF e
  <1>6. EndedAs(s, e, {j}, st)
    <2>1. e.completed = s.completed \cup {j}
      BY <1>3, <1>4, <1>5
    <2>2. SameIds(s, e) /\ Changed(s, e, {j}, st)
      BY <1>4, <1>5 DEF SameIds, Changed
    <2> QED BY <1>4, <1>5, <2>1, <2>2 DEF EndedAs, SameIds
  <1>7. OwnedBut(s, {j})
    BY DEF OwnedBut
  <1>8. Tables(e) /\ OwnedBut(e, {})
    BY <1>2, <1>5, <1>6, <1>7, EndedTables
  <1> QED BY <1>1, <1>5, <1>8, PrunedAfterTables

\* Job j has its result, under the digest d when nobody has that digest.
SucceededAs(s, t, j, d) ==
  /\ t.jobs = s.jobs /\ t.idem = s.idem /\ t.completed = s.completed \cup {j}
  /\ Changed(s, t, {j}, "ready")
  /\ \A k \in JobIds :
       /\ t.job[k].science = s.job[k].science
       /\ t.job[k].published = IF k = j THEN d ELSE s.job[k].published
       /\ t.job[k].owners = s.job[k].owners /\ t.job[k].keys = s.job[k].keys
       /\ t.job[k].ctx = s.job[k].ctx
  /\ \A x \in ScienceDigests :
       LET k == s.science[x]
           y == IF k = j /\ s.job[k].science = x THEN NoJob ELSE k
       IN  t.science[x] = IF x = d /\ y = NoJob THEN j ELSE y

LEMMA SucceededAsTables ==
  ASSUME NEW s \in Registry, NEW t \in Registry, NEW j \in JobIds,
         NEW d \in ScienceDigests, Pending(s, j),
         Tables(s), OwnedBut(s, {}), SucceededAs(s, t, j, d)
  PROVE  Tables(t) /\ OwnedBut(t, {})
  <1>1. /\ Keyed(s) /\ Named(s) /\ Listed(s) /\ Unpublished(s) /\ Single(s)
        /\ NoJob \notin JobIds /\ NoDigest \notin ScienceDigests
    BY ConfigAssumption DEF Tables
  <1>2. /\ \A k \in JobIds : /\ Pending(t, k) <=> Pending(s, k) /\ k # j
                             /\ Terminal(t, k) <=> Terminal(s, k) \/ k = j
        /\ t.job[j].state = "ready" /\ t.job[j].published = d
    BY DEF SucceededAs, Changed, Pending, Terminal
  <1>3. Keyed(t)
    BY <1>1 DEF Keyed, SucceededAs
  <1>4. j \in s.jobs /\ s.jobs \in SUBSET JobIds /\ t.jobs = s.jobs
    BY DEF OwnedBut, Registry, SucceededAs
  <1>5. Named(t)
    <2>1. ASSUME NEW k \in JobIds, Pending(t, k) PROVE t.science[t.job[k].science] = k
      <3>1. /\ s.science[s.job[k].science] = k /\ s.job[k].science \in ScienceDigests
            /\ k # j /\ t.job[k].science = s.job[k].science
        BY <1>1, <1>2, <2>1 DEF Named, Unpublished, SucceededAs
      <3> QED BY <1>1, <3>1 DEF SucceededAs
    <2>2. ASSUME NEW x \in ScienceDigests, t.science[x] # NoJob
          PROVE  /\ t.science[x] \in t.jobs
                 /\ x \in {t.job[t.science[x]].science, t.job[t.science[x]].published}
                 /\ t.job[t.science[x]].state \in {"queued", "running", "ready"}
      <3> DEFINE k == t.science[x]
      <3>1. k \in JobIds
        BY <2>2 DEF Registry
      <3>2. (k = j /\ x = d) \/ (s.science[x] = k /\ ~(k = j /\ s.job[k].science = x))
        BY <2>2 DEF SucceededAs
      <3> HIDE DEF k
      <3>3. CASE k = j /\ x = d
        BY <1>2, <1>4, <3>3 DEF k
      <3>4. CASE s.science[x] = k /\ ~(k = j /\ s.job[k].science = x)
        <4>1. /\ k \in s.jobs /\ x \in {s.job[k].science, s.job[k].published}
              /\ s.job[k].state \in {"queued", "running", "ready"}
          BY <1>1, <3>1, <3>4 DEF Named
        <4>2. k # j
          BY <1>1, <3>4, <4>1 DEF Unpublished
        <4>3. /\ t.job[k].state = s.job[k].state /\ t.job[k].science = s.job[k].science
              /\ t.job[k].published = s.job[k].published
          BY <3>1, <4>2 DEF SucceededAs, Changed
        <4> QED BY <1>4, <4>1, <4>3 DEF k
      <3> QED BY <3>2, <3>3, <3>4
    <2> QED BY <2>1, <2>2 DEF Named
  <1>6. Listed(t)
    <2>1. \A k \in s.jobs : t.job[k].state # "unused"
      BY <1>1, <1>4 DEF Listed, SucceededAs, Changed
    <2> QED BY <1>1, <1>2, <1>4, <2>1 DEF Listed, SucceededAs
  <1>7. Unpublished(t)
    BY <1>1, <1>2 DEF Unpublished, SucceededAs
  <1>8. Single(t)
    BY <1>1, <1>2 DEF Single, HasOwner, SucceededAs
  <1>9. OwnedBut(t, {})
    BY <1>2 DEF OwnedBut, SucceededAs
  <1> QED BY <1>3, <1>5, <1>6, <1>7, <1>8, <1>9 DEF Tables

\* Before it prunes, Succeeded records the outcome as SucceededAs says.
LEMMA SucceededFields ==
  ASSUME NEW s \in Registry, NEW j \in JobIds, NEW d \in ScienceDigests,
         ~Terminal(s, j), now \in 0..MaxTime, NEW t \in Succeeded(s, j, d)
  PROVE  \E e \in Registry : SucceededAs(s, e, j, d) /\ t \in PrunedAfter(e, {j})
  <1> DEFINE u == DropScience(s, {j})
             n == [u.job[j] EXCEPT !.published = d]
             f == [u.job EXCEPT ![j] = n]
             g == [u.science EXCEPT ![d] = IF u.science[d] = NoJob THEN j
                                           ELSE u.science[d]]
             v == [u EXCEPT !.job = f, !.science = g]
             e == Finish(v, {j}, "ready")
  <1>1. t \in PrunedAfter(e, {j})
    BY DEF Succeeded
  <1>2. /\ u \in Registry /\ u.job = s.job /\ u.jobs = s.jobs
        /\ u.completed = s.completed /\ u.idem = s.idem
        /\ \A x \in ScienceDigests : u.science[x] =
             LET k == s.science[x] IN IF k \in {j} /\ s.job[k].science = x THEN NoJob ELSE k
    BY DropScienceType, DropScienceFields
  <1> HIDE DEF u
  <1>3. /\ n \in JobRecord /\ n.state = u.job[j].state /\ n.science = u.job[j].science
        /\ n.published = d /\ n.owners = u.job[j].owners /\ n.keys = u.job[j].keys
        /\ n.ctx = u.job[j].ctx
    <2>1. u.job[j] \in JobRecord
      BY <1>2, JobType
    <2> QED BY <2>1 DEF JobRecord
  <1> HIDE DEF n
  <1>4. /\ f \in [JobIds -> JobRecord]
        /\ \A k \in JobIds : f[k] = IF k = j THEN n ELSE s.job[k]
    BY <1>2, <1>3 DEF Registry
  <1>5. /\ g \in [ScienceDigests -> JobIds \cup {NoJob}]
        /\ \A x \in ScienceDigests : g[x] =
             IF x = d /\ u.science[x] = NoJob THEN j ELSE u.science[x]
    BY <1>2 DEF Registry
  <1> HIDE DEF f, g
  <1>6. /\ v \in Registry /\ v.job = f /\ v.science = g /\ v.jobs = s.jobs
        /\ v.idem = s.idem /\ v.completed = s.completed
    BY <1>2, <1>4, <1>5 DEF Registry
  <1> HIDE DEF v
  <1>7. ~Terminal(v, j) /\ {j} \in SUBSET JobIds /\ "ready" \in States
    BY <1>2, <1>3, <1>4, <1>6 DEF Terminal, States
  <1>8. e \in Registry /\ Changed(v, e, {j}, "ready")
    <2>1. \A k \in {j} : ~Terminal(v, k)
      BY <1>7
    <2> QED BY <2>1, <1>6, <1>7, FinishFacts
  <1>9. Finished(v, e, {j})
    BY <1>6, <1>7, FinishFields
  <1> HIDE DEF e
  <1>10. e.completed = s.completed \cup {j}
    BY <1>6, <1>7, <1>9 DEF Finished
  <1>11. Changed(s, e, {j}, "ready")
    BY <1>4, <1>6, <1>8 DEF Changed
  <1>12. \A k \in JobIds :
           /\ e.job[k].science = s.job[k].science
           /\ e.job[k].published = IF k = j THEN d ELSE s.job[k].published
           /\ e.job[k].owners = s.job[k].owners /\ e.job[k].keys = s.job[k].keys
           /\ e.job[k].ctx = s.job[k].ctx
    BY <1>2, <1>3, <1>4, <1>6, <1>9 DEF Finished, SameIds
  <1>13. SucceededAs(s, e, j, d)
    BY <1>2, <1>5, <1>6, <1>9, <1>10, <1>11, <1>12 DEF SucceededAs, Finished
  <1> QED BY <1>1, <1>8, <1>13

-----------------------------------------------------------------------------
(* What the steps leave of the tables.                                     *)

LEMMA IdemType ==
  ASSUME NEW r \in Requests
  PROVE  /\ Digest(r) \in ScienceDigests /\ Idem(r) \in IdemDigests
         /\ Idem(r).owner = r.owner /\ r.owner \in Owners /\ Digest(r).kind = r.kind
  BY RequestAssumption DEF Digest, Idem, ScienceDigests, IdemDigests

\* A request joins a job it finds.
LEMMA JoinMaps ==
  ASSUME NEW s \in Registry, NEW j \in s.jobs, NEW r \in Requests,
         reg' = AddOwner(s, j, r.owner, Idem(r)),
         Tables(s), OwnedBut(s, {}), Limited(s), s.idem[Idem(r)] \in {NoJob, j},
         \/ ~Pending(s, j) \/ HasOwner(s, j, r.owner)
         \/ Admissible(s, r.owner, s.job[j].science.kind)
  PROVE  Maps'
  <1>1. /\ Idem(r) \in IdemDigests /\ Idem(r).owner = r.owner /\ r.owner \in Owners
        /\ j \in JobIds
    BY IdemType DEF Registry
  <1> DEFINE i == Idem(r)
  <1>2. /\ reg' \in Registry /\ SameStates(s, reg') /\ Joined(s, reg', j, r.owner, i)
    BY <1>1, AddOwnerType, AddOwnerSame, AddOwnerFields
  <1>3. Tables(reg') /\ OwnedBut(reg', {})
    BY <1>1, <1>2, JoinedTables
  <1>4. Limited(reg')
    BY <1>2 DEF Limited, Joined
  <1> QED BY <1>3, <1>4 DEF Maps

LEMMA SubmitReplayMaps ==
  ASSUME Inv, Maps, NEW r \in Requests, SubmitReplay(r)
  PROVE  Maps'
  <1> DEFINE s == Pruned
             j == s.idem[Idem(r)]
  <1>1. j # NoJob /\ reg' = AddOwner(s, j, r.owner, Idem(r))
    BY DEF SubmitReplay, Known
  <1>2. s \in Registry /\ Tables(s) /\ OwnedBut(s, {}) /\ Limited(s)
    BY PrunedSame, PrunedTables DEF Inv
  <1> HIDE DEF s
  <1>3. Idem(r) \in IdemDigests /\ Idem(r).owner = r.owner
    BY IdemType
  <1>4. j \in JobIds
    BY <1>1, <1>2, <1>3 DEF Registry
  <1>5. j \in s.jobs /\ HasOwner(s, j, r.owner)
    BY <1>2, <1>3, <1>4 DEF Tables, Keyed, HasOwner
  <1> QED BY <1>1, <1>2, <1>5, JoinMaps

LEMMA SubmitJoinMaps ==
  ASSUME Inv, Maps, NEW r \in Requests, SubmitJoin(r)
  PROVE  Maps'
  <1> DEFINE s == Pruned
             j == s.science[Digest(r)]
  <1>1. /\ s.idem[Idem(r)] = NoJob /\ j # NoJob
        /\ HasOwner(s, j, r.owner) \/ ~OwnerBusy(s, r)
        /\ reg' = AddOwner(s, j, r.owner, Idem(r))
    BY DEF SubmitJoin, Known, Shared, JoinAllowed
  <1>2. s \in Registry /\ Tables(s) /\ OwnedBut(s, {}) /\ Limited(s)
    BY PrunedSame, PrunedTables DEF Inv
  <1> HIDE DEF s
  <1>3. Digest(r) \in ScienceDigests /\ Digest(r).kind = r.kind
    BY IdemType
  <1>4. j \in JobIds /\ NoDigest \notin ScienceDigests
    BY <1>1, <1>2, <1>3, ConfigAssumption DEF Registry
  <1>5. j \in s.jobs /\ (Pending(s, j) => s.job[j].science = Digest(r))
    BY <1>1, <1>2, <1>3, <1>4 DEF Tables, Named, Unpublished
  <1>6. Pending(s, j) => HasOwner(s, j, r.owner) \/ Admissible(s, r.owner, s.job[j].science.kind)
    BY <1>1, <1>2, <1>3, <1>5, NotBusy
  <1> HIDE DEF j
  <1> QED BY <1>1, <1>2, <1>5, <1>6, JoinMaps

LEMMA SubmitHitMaps ==
  ASSUME Inv, Maps, NEW r \in Requests, SubmitHit(r)
  PROVE  Maps'
  <1> DEFINE s == Pruned
  <1>1. PICK j \in JobIds : /\ s.job[j].state = "unused"
                            /\ reg' \in PrunedAfter(Served(s, r, j), {j})
    BY DEF SubmitHit
  <1>2. s.idem[Idem(r)] = NoJob /\ ~Shared(s, r)
    BY DEF SubmitHit, Known
  <1>3. /\ s \in Registry /\ Tables(s) /\ OwnedBut(s, {}) /\ Limited(s)
        /\ now \in 0..MaxTime
    BY PrunedSame, PrunedTables DEF Inv, TypeOK
  <1> HIDE DEF s
  <1> DEFINE e == Served(s, r, j)
  <1>4. /\ e \in Registry /\ NewEntry(s, e, j, r, "ready")
        /\ e.completed = s.completed \cup {j}
    BY <1>3, ServedFacts, ServedFields
  <1> HIDE DEF e
  <1>5. Tables(e) /\ OwnedBut(e, {})
    <2> DEFINE state == "ready"
    <2>1. state \in {"ready", "queued"} /\ state = "ready"
      OBVIOUS
    <2>2. /\ NewEntry(s, e, j, r, state)
          /\ e.completed = IF state = "ready" THEN s.completed \cup {j} ELSE s.completed
      BY <1>4
    <2> HIDE DEF state
    <2> QED BY <1>1, <1>2, <1>3, <1>4, <2>1, <2>2, IdemType, NewEntryTables
  <1> QED BY <1>1, <1>4, <1>5, PrunedAfterTables DEF e, Maps

LEMMA SubmitEnqueueMaps ==
  ASSUME Inv, Maps, NEW r \in Requests, SubmitEnqueue(r)
  PROVE  Maps'
  <1> DEFINE s == Pruned
  <1>1. PICK j \in JobIds : s.job[j].state = "unused" /\ reg' = Admitted(s, r, j)
    BY DEF SubmitEnqueue
  <1>2. s.idem[Idem(r)] = NoJob /\ ~Shared(s, r) /\ ~OwnerBusy(s, r)
    BY DEF SubmitEnqueue, Known, EnqueueAllowed
  <1>3. /\ s \in Registry /\ Tables(s) /\ OwnedBut(s, {}) /\ Limited(s)
        /\ now \in 0..MaxTime
    BY PrunedSame, PrunedTables DEF Inv, TypeOK
  <1> HIDE DEF s
  <1>4. /\ reg' \in Registry /\ NewEntry(s, reg', j, r, "queued")
        /\ reg'.completed = s.completed
    BY <1>1, <1>3, AdmittedFacts, AdmittedFields
  <1>5. Admissible(s, r.owner, r.kind)
    BY <1>2, <1>3, NotBusy
  <1>6. Tables(reg') /\ OwnedBut(reg', {})
    <2> DEFINE state == "queued"
    <2>1. state \in {"ready", "queued"} /\ state # "ready"
      OBVIOUS
    <2>2. /\ NewEntry(s, reg', j, r, state)
          /\ reg'.completed = IF state = "ready" THEN s.completed \cup {j} ELSE s.completed
      BY <1>4
    <2> HIDE DEF state
    <2> QED BY <1>1, <1>2, <1>3, <1>4, <1>5, <2>1, <2>2, IdemType, NewEntryTables
  <1>7. Limited(reg')
    BY <1>3, <1>4 DEF Limited
  <1> QED BY <1>6, <1>7 DEF Maps

LEMMA CancelMaps ==
  ASSUME Inv, Maps, NEW o \in Owners, NEW j \in JobIds, Cancel(o, j)
  PROVE  Maps'
  <1> DEFINE s == Pruned
             t == RemoveOwner(s, j, o)
  <1>1. /\ j \in s.jobs
        /\ \/ t.job[j].owners # {} /\ reg' = t
           \/ t.job[j].owners = {} /\ reg' \in Abandoned(t, j)
    BY DEF Cancel
  <1>2. /\ s \in Registry /\ Tables(s) /\ OwnedBut(s, {}) /\ Limited(s)
        /\ now \in 0..MaxTime /\ SameStates(reg, s)
    BY PrunedSame, PrunedTables DEF Inv, TypeOK
  <1> HIDE DEF s
  <1>3. t \in Registry /\ SameStates(s, t) /\ Parted(s, t, j, o)
    BY <1>2, RemoveOwnerType, RemoveOwnerSame, RemoveOwnerFields
  <1> HIDE DEF t
  <1>4. /\ Tables(t) /\ OwnedBut(t, {j}) /\ (t.job[j].owners # {} => OwnedBut(t, {}))
        /\ Limited(t)
    <2>1. Limited(t)
      BY <1>2, <1>3 DEF Limited, Parted
    <2> QED BY <1>1, <1>2, <1>3, <2>1, PartedTables
  <1>5. t.job[j].state = "queued" => j \in ToSet(t.queue)
    <2>1. reg.queue \in Seq(JobIds) /\ t.queue = reg.queue /\ t.job[j].state = reg.job[j].state
      BY <1>2, <1>3 DEF SameStates, Inv, TypeOK, Registry
    <2>2. ToSet(t.queue) = {reg.queue[n] : n \in 1..Len(reg.queue)}
      BY <2>1, ToSetFacts
    <2>3. reg.job[j].state = "queued" => \E n \in 1..Len(reg.queue) : reg.queue[n] = j
      BY DEF Inv, Shape
    <2> QED BY <2>1, <2>2, <2>3
  <1>6. CASE t.job[j].owners # {} /\ reg' = t
    BY <1>4, <1>6 DEF Maps
  <1>7. CASE reg' \in Abandoned(t, j)
    BY <1>2, <1>3, <1>4, <1>5, <1>7, AbandonedTables DEF Maps
  <1> QED BY <1>1, <1>6, <1>7

LEMMA CancelPendingMaps ==
  ASSUME Inv, Maps, reg' \in CancelPending(reg)
  PROVE  Maps'
  <1>1. /\ reg \in Registry /\ now \in 0..MaxTime /\ reg.queue \in Seq(JobIds)
    BY DEF Inv, TypeOK, Registry
  <1>2. \A j \in ToSet(reg.queue) : Pending(reg, j)
    BY <1>1, ToSetFacts DEF Inv, Shape, Pending
  <1> QED BY <1>1, <1>2, CancelPendingTables DEF Maps

\* Steps that change neither maps nor identities.
LEMMA AlikeMaps ==
  ASSUME Inv, Inv', Maps, Alike(reg, reg')
  PROVE  Maps'
  BY AlikeTables DEF Inv, TypeOK, Maps, Limited

LEMMA RecordMaps ==
  ASSUME Inv, Maps, NEW w \in Workers, Record(w)
  PROVE  Maps'
  <1> DEFINE j == worker[w].job
             s == Released(reg, j)
  <1>1. /\ worker[w].pc = "recording"
        /\ \/ Terminal(s, j) /\ reg' = s
           \/ /\ ~Terminal(s, j) /\ worker[w].err = "none"
              /\ reg' \in Succeeded(s, j, worker[w].final)
           \/ ~Terminal(s, j) /\ reg' \in Unsuccessful(s, j, worker[w].err)
    BY DEF Record, At
  <1>2. j \in JobIds /\ j \in reg.active
    BY <1>1, BusyWorker DEF BusyPlaces
  <1>3. /\ reg \in Registry /\ Shape(reg) /\ now \in 0..MaxTime
        /\ (worker[w].err = "none" => worker[w].final \in ScienceDigests)
    BY <1>1 DEF Inv, TypeOK, Progressed
  <1> HIDE DEF j
  <1>4. s \in Registry /\ Changed(reg, s, {}, "ready") /\ SameMaps(reg, s) /\ SameIds(reg, s)
    BY <1>2, <1>3, ReleasedFacts, ReleasedFields
  <1> HIDE DEF s
  <1>5. Alike(reg, s)
    BY <1>4 DEF Alike, Changed, Pending, Terminal
  <1>6. Tables(s) /\ OwnedBut(s, {}) /\ Limited(s)
    BY <1>3, <1>4, <1>5, AlikeTables DEF Maps, Limited
  <1>7. ~Terminal(s, j) => Pending(s, j)
    <2>1. s.job[j].state \in States /\ reg.job[j].state \notin {"unused", "queued"}
          /\ s.job[j].state = reg.job[j].state
      <3>1. s.job[j] \in JobRecord
        BY <1>2, <1>4, JobType
      <3> QED BY <1>2, <1>3, <1>4, <3>1 DEF Shape, Changed, JobRecord
    <2> QED BY <2>1 DEF States, Terminal, Pending
  <1>8. CASE reg' = s
    BY <1>6, <1>8 DEF Maps
  <1>9. CASE /\ ~Terminal(s, j) /\ worker[w].err = "none"
             /\ reg' \in Succeeded(s, j, worker[w].final)
    <2>1. PICK e \in Registry : /\ SucceededAs(s, e, j, worker[w].final)
                                /\ reg' \in PrunedAfter(e, {j})
      BY <1>2, <1>3, <1>4, <1>9, SucceededFields
    <2>2. Tables(e) /\ OwnedBut(e, {})
      BY <1>2, <1>3, <1>4, <1>6, <1>7, <1>9, <2>1, SucceededAsTables
    <2> QED BY <2>1, <2>2, PrunedAfterTables DEF Maps
  <1>10. CASE ~Terminal(s, j) /\ reg' \in Unsuccessful(s, j, worker[w].err)
    BY <1>2, <1>3, <1>4, <1>6, <1>7, <1>10, UnsuccessfulTables DEF Maps
  <1> QED BY <1>1, <1>8, <1>9, <1>10

LEMMA TakeJobMaps ==
  ASSUME Inv, Inv', Maps, NEW w \in Workers, TakeJob(w)
  PROVE  Maps'
  <1> DEFINE j == Head(reg.queue)
  <1>1. reg.queue # <<>> /\ reg' = Taken(reg) /\ reg \in Registry /\ Shape(reg)
    BY DEF TakeJob, Inv, TypeOK
  <1>2. /\ j \in JobIds /\ Changed(reg, reg', {j}, "running")
        /\ SameMaps(reg, reg') /\ SameIds(reg, reg')
    BY <1>1, TakenFacts, TakenFields
  <1>3. reg.job[j].state = "queued"
    <2>1. /\ Taken(reg) \in Registry /\ Taken(reg).queue = Tail(reg.queue)
          /\ Taken(reg).active = reg.active \cup {j} /\ Changed(reg, Taken(reg), {j}, "running")
      BY <1>1, TakenFacts
    <2> QED BY <1>1, <2>1, ShapeTaken
  <1> HIDE DEF j
  <1>4. Alike(reg, reg')
    BY <1>2, <1>3 DEF Alike, Changed, Pending, Terminal
  <1> QED BY <1>4, AlikeMaps

LEMMA DeadlineMaps ==
  ASSUME Inv, Inv', Maps, NEW j \in JobIds, DeadlinePasses(j)
  PROVE  Maps'
  <1> DEFINE n == [reg.job[j] EXCEPT !.ctx = "deadline"]
             f == [reg.job EXCEPT ![j] = n]
  <1>1. reg' = [reg EXCEPT !.job = f] /\ reg \in Registry
    BY DEF DeadlinePasses, Inv, TypeOK
  <1>2. /\ n.state = reg.job[j].state /\ n.science = reg.job[j].science
        /\ n.published = reg.job[j].published /\ n.owners = reg.job[j].owners
        /\ n.keys = reg.job[j].keys
    <2>1. reg.job[j] \in JobRecord
      BY <1>1, JobType
    <2> QED BY <2>1 DEF JobRecord
  <1> HIDE DEF n
  <1>3. \A k \in JobIds : f[k] = IF k = j THEN n ELSE reg.job[k]
    BY <1>1 DEF Registry
  <1> HIDE DEF f
  <1>4. SameMaps(reg, reg') /\ reg'.job = f
    BY <1>1 DEF SameMaps, Registry
  <1>5. SameIds(reg, reg') /\ \A k \in JobIds : reg'.job[k].state = reg.job[k].state
    BY <1>2, <1>3, <1>4 DEF SameIds
  <1>6. Alike(reg, reg')
    BY <1>4, <1>5 DEF Alike, Pending, Terminal
  <1> QED BY <1>6, AlikeMaps

LEMMA MapsStep == Inv /\ Maps /\ [Next]_vars => Maps'
  <1> SUFFICES ASSUME Inv, Maps, [Next]_vars PROVE Maps'
    OBVIOUS
  <1>1. Inv'
    BY NextStep
  <1>2. CASE \E r \in Requests : Submit(r)
    BY <1>2, SubmitReplayMaps, SubmitJoinMaps, SubmitHitMaps, SubmitEnqueueMaps DEF Submit
  <1>3. CASE \E o \in Owners, j \in JobIds : Cancel(o, j)
    BY <1>3, CancelMaps
  <1>4. CASE \E w \in Workers : Exit(w) \/ TakeJob(w) \/ Record(w)
    BY <1>1, <1>4, CancelPendingMaps, TakeJobMaps, RecordMaps DEF Exit
  <1>5. CASE \E j \in JobIds : DeadlinePasses(j)
    BY <1>1, <1>5, DeadlineMaps
  <1>6. CASE ParentCancelled
    <2>1. reg' = CancelContexts(reg, reg.active) /\ reg \in Registry
      BY <1>6 DEF ParentCancelled, Inv, TypeOK
    <2>2. SameMaps(reg, reg') /\ SameIds(reg, reg') /\ SameStates(reg, reg')
      BY <2>1, CancelContextsSame, CancelContextsFields
    <2>3. Alike(reg, reg')
      BY <2>2 DEF Alike, SameStates, Pending, Terminal
    <2> QED BY <1>1, <2>3, AlikeMaps
  <1>7. CASE PruneOnly
    BY <1>7, PrunedTables DEF PruneOnly, Inv, Maps
  <1>8. CASE CloseBegins
    <2>1. reg' = reg \/ reg' \in CancelPending(reg)
      BY <1>8 DEF CloseBegins
    <2> QED BY <2>1, CancelPendingMaps DEF Maps
  <1>9. CASE reg' = reg
    BY <1>9 DEF Maps
  <1> QED BY <1>2, <1>3, <1>4, <1>5, <1>6, <1>7, <1>8, <1>9 DEF Next, Step, RunReturns,
         FindNothing, WakeUp, RunInterrupted, PublishSucceeds, PublishFails, WorkerSignals,
         RunSucceeds, RunFails, Start, CloseSignals, CloseReturns, Tick, SubmitSignals,
         Register, vars

LEMMA InitMaps == Init => Maps
  <1> SUFFICES ASSUME Init PROVE Maps
    OBVIOUS
  <1>1. /\ \A j \in JobIds : reg.job[j].state = "unused"
        /\ reg.jobs = {} /\ reg.completed = {}
        /\ \A d \in ScienceDigests : reg.science[d] = NoJob
        /\ \A i \in IdemDigests : reg.idem[i] = NoJob
        /\ NoJob \notin JobIds
    BY ConfigAssumption DEF Init, Unused
  <1>2. Tables(reg) /\ OwnedBut(reg, {})
    BY <1>1 DEF Tables, Keyed, Named, Listed, Unpublished, Single, OwnedBut, Pending, Terminal
  <1>3. Limited(reg)
    BY <1>1, FS_EmptySet, ConfigAssumption DEF Limited
  <1> QED BY <1>2, <1>3 DEF Maps

-----------------------------------------------------------------------------
(* Why jobs are cancelled.                                                 *)

\* A context is cancelled, and a run observes that, for one of two reasons: the
\* coordinator stops, or the job's last owner has left and the job is finished.
Causes ==
  /\ closed /\ started => ctxDone
  /\ ~started => reg.queue = <<>>
  /\ \A j \in JobIds : reg.job[j].ctx = "canceled" => ctxDone \/ Terminal(reg, j)
  /\ \A w \in Busy : worker[w].err = "canceled" => ctxDone \/ Terminal(reg, worker[w].job)

LEMMA AbandonedKept ==
  ASSUME NEW s \in Registry, NEW j \in JobIds, now \in 0..MaxTime,
         NEW t \in Abandoned(s, j), s.job[j].state = "queued" => j \in ToSet(s.queue)
  PROVE  /\ SameIds(s, t)
         /\ \A k \in JobIds : t.job[k].ctx = "canceled" =>
              s.job[k].ctx = "canceled" \/ (k = j /\ Pending(s, j))
  <1> DEFINE u == DropScience(s, {j})
  <1>1. u \in Registry /\ u.job = s.job /\ u.queue = s.queue
    BY DropScienceType
  <1>2. {j} \in SUBSET JobIds /\ "cancelled" \in States
    BY DEF States
  <1>3. CASE s.job[j].state = "queued"
    <2> DEFINE v == WithoutQueued(u, j)
               e == Finish(v, {j}, "cancelled")
    <2>1. t \in PrunedAfter(e, {j})
      BY <1>1, <1>3 DEF Abandoned
    <2>2. v \in Registry /\ v.job = s.job
      BY <1>1, <1>3, WithoutQueuedFacts, WithoutQueuedFields
    <2>3. e \in Registry /\ Finished(v, e, {j})
      BY <1>2, <2>2, FinishType, FinishFields
    <2> HIDE DEF u, v, e
    <2>4. t.job = e.job
      BY <2>1, <2>3, PrunedAfterType
    <2> QED BY <2>2, <2>3, <2>4 DEF Finished, SameIds
  <1>4. CASE s.job[j].state = "running"
    <2> DEFINE v == CancelContexts(u, {j})
               e == Finish(v, {j}, "cancelled")
    <2>1. t \in PrunedAfter(e, {j})
      BY <1>1, <1>4 DEF Abandoned
    <2>2. v \in Registry /\ SameIds(u, v)
          /\ \A k \in JobIds : v.job[k].ctx =
               IF k \in {j} /\ u.job[k].ctx = "live" THEN "canceled" ELSE u.job[k].ctx
      BY <1>1, CancelContextsType, CancelContextsFields
    <2>3. e \in Registry /\ Finished(v, e, {j})
      BY <1>2, <2>2, FinishType, FinishFields
    <2> HIDE DEF u, v, e
    <2>4. t.job = e.job /\ Pending(s, j)
      BY <1>4, <2>1, <2>3, PrunedAfterType DEF Pending
    <2> QED BY <1>1, <2>2, <2>3, <2>4 DEF Finished, SameIds
  <1>5. CASE s.job[j].state \notin {"queued", "running"}
    <2>1. t = u
      BY <1>1, <1>5 DEF Abandoned
    <2> HIDE DEF u
    <2> QED BY <1>1, <2>1 DEF SameIds
  <1> QED BY <1>3, <1>4, <1>5

LEMMA CancelPendingKept ==
  ASSUME NEW s \in Registry, now \in 0..MaxTime, NEW t \in CancelPending(s)
  PROVE  \A k \in JobIds : t.job[k].ctx = "canceled" =>
           s.job[k].ctx = "canceled" \/ k \in s.active
  <1> DEFINE Q == ToSet(s.queue)
             u == DropScience(s, Q)
             f == Finish(u, Q, "cancelled")
             e == [f EXCEPT !.queue = <<>>]
             c == CancelContexts(e, s.active)
  <1>1. (t = c) \/ (t \in PrunedAfter(c, Q))
    BY DEF CancelPending
  <1>2. Q \in SUBSET JobIds /\ "cancelled" \in States
    <2>1. s.queue \in Seq(JobIds)
      BY DEF Registry
    <2> QED BY <2>1, ToSetFacts DEF States
  <1> HIDE DEF Q
  <1>3. u \in Registry /\ u.job = s.job
    BY DropScienceType
  <1> HIDE DEF u
  <1>4. f \in Registry /\ Finished(u, f, Q)
    BY <1>2, <1>3, FinishType, FinishFields
  <1> HIDE DEF f
  <1>5. e \in Registry /\ e.job = f.job
    <2>1. <<>> \in Seq(JobIds)
      BY EmptySeq
    <2> QED BY <2>1, <1>4 DEF Registry
  <1> HIDE DEF e
  <1>6. /\ c \in Registry
        /\ \A k \in JobIds : c.job[k].ctx =
             IF k \in s.active /\ e.job[k].ctx = "live" THEN "canceled" ELSE e.job[k].ctx
    BY <1>5, CancelContextsType, CancelContextsFields
  <1> HIDE DEF c
  <1>7. t.job = c.job
    BY <1>1, <1>6, PrunedAfterType
  <1> QED BY <1>3, <1>4, <1>5, <1>6, <1>7 DEF Finished

LEMMA UnsuccessfulKept ==
  ASSUME NEW s \in Registry, NEW j \in JobIds, NEW err, ~Terminal(s, j),
         now \in 0..MaxTime, NEW t \in Unsuccessful(s, j, err)
  PROVE  /\ \A k \in JobIds : t.job[k].ctx = s.job[k].ctx
         /\ Changed(s, t, {j}, IF err = "canceled" THEN "cancelled" ELSE "failed")
  <1> DEFINE st == IF err = "canceled" THEN "cancelled" ELSE "failed"
             u == Finish(s, {j}, st)
  <1>1. t \in PrunedAfter(DropScience(u, {j}), {j})
    BY DEF Unsuccessful
  <1>2. st \in States /\ {j} \in SUBSET JobIds /\ \A k \in {j} : ~Terminal(s, k)
    BY DEF States
  <1> HIDE DEF st
  <1>3. u \in Registry /\ Changed(s, u, {j}, st) /\ Finished(s, u, {j})
    BY <1>2, FinishFacts, FinishFields
  <1> HIDE DEF u
  <1>4. DropScience(u, {j}) \in Registry /\ DropScience(u, {j}).job = u.job
    BY <1>3, DropScienceType
  <1>5. t.job = u.job
    BY <1>1, <1>4, PrunedAfterType
  <1> QED BY <1>3, <1>5 DEF Changed, Finished, st

LEMMA SucceededKept ==
  ASSUME NEW s \in Registry, NEW j \in JobIds, NEW d \in ScienceDigests,
         ~Terminal(s, j), now \in 0..MaxTime, NEW t \in Succeeded(s, j, d)
  PROVE  \A k \in JobIds : t.job[k].ctx = s.job[k].ctx
  <1>1. PICK e \in Registry : SucceededAs(s, e, j, d) /\ t \in PrunedAfter(e, {j})
    BY SucceededFields
  <1>2. t.job = e.job
    BY <1>1, PrunedAfterType
  <1> QED BY <1>1, <1>2 DEF SucceededAs

\* A step cancels contexts and jobs for these reasons only.
Justified ==
  \A k \in JobIds :
    /\ reg'.job[k].ctx = "canceled" =>
         reg.job[k].ctx = "canceled" \/ Terminal(reg', k) \/ ctxDone'
    /\ Pending(reg, k) /\ reg'.job[k].state = "cancelled" =>
         reg'.job[k].owners = {} \/ ctxDone'

LEMMA SubmitJustified ==
  ASSUME Inv, NEW r \in Requests, Submit(r)
  PROVE  Justified
  <1> DEFINE s == Pruned
  <1>1. s \in Registry /\ s.job = reg.job /\ now \in 0..MaxTime
    BY ForgetType DEF Inv, TypeOK, Pruned
  <1> HIDE DEF s
  <1>2. Idem(r) \in IdemDigests /\ Digest(r) \in ScienceDigests /\ r.owner \in Owners
    BY IdemType
  <1>3. ASSUME NEW j \in JobIds, reg' = AddOwner(s, j, r.owner, Idem(r)) PROVE Justified
    <2>1. Joined(s, reg', j, r.owner, Idem(r)) /\ SameStates(s, reg')
      BY <1>1, <1>2, <1>3, AddOwnerFields, AddOwnerSame
    <2> QED BY <1>1, <2>1 DEF Justified, Joined, SameStates, Pending
  <1>4. ASSUME NEW j \in JobIds, NEW e, NEW state \in {"ready", "queued"},
               NewEntry(s, e, j, r, state), reg'.job = e.job
        PROVE  Justified
    BY <1>1, <1>4 DEF Justified, NewEntry, Pending
  <1>5. CASE SubmitReplay(r)
    <2>1. s.idem[Idem(r)] \in JobIds
      BY <1>1, <1>2, <1>5 DEF SubmitReplay, Known, Registry, s
    <2> QED BY <1>3, <1>5, <2>1 DEF SubmitReplay, s
  <1>6. CASE SubmitJoin(r)
    <2>1. s.science[Digest(r)] \in JobIds
      BY <1>1, <1>2, <1>6 DEF SubmitJoin, Shared, Registry, s
    <2> QED BY <1>3, <1>6, <2>1 DEF SubmitJoin, s
  <1>7. CASE SubmitHit(r)
    <2>1. PICK j \in JobIds : reg' \in PrunedAfter(Served(s, r, j), {j})
      BY <1>7 DEF SubmitHit, s
    <2> DEFINE e == Served(s, r, j)
    <2>2. e \in Registry /\ NewEntry(s, e, j, r, "ready")
      BY <1>1, ServedFacts, ServedFields
    <2> HIDE DEF e
    <2>3. reg'.job = e.job
      BY <2>1, <2>2, PrunedAfterType DEF e
    <2> QED BY <1>4, <2>2, <2>3
  <1>8. CASE SubmitEnqueue(r)
    <2>1. PICK j \in JobIds : reg' = Admitted(s, r, j)
      BY <1>8 DEF SubmitEnqueue, s
    <2>2. NewEntry(s, reg', j, r, "queued")
      BY <1>1, <2>1, AdmittedFields
    <2> QED BY <1>4, <2>2
  <1> QED BY <1>5, <1>6, <1>7, <1>8 DEF Submit

LEMMA CancelJustified ==
  ASSUME Inv, NEW o \in Owners, NEW j \in JobIds, Cancel(o, j)
  PROVE  Justified
  <1> DEFINE s == Pruned
             t == RemoveOwner(s, j, o)
  <1>1. \/ t.job[j].owners # {} /\ reg' = t
        \/ t.job[j].owners = {} /\ reg' \in Abandoned(t, j)
    BY DEF Cancel
  <1>2. /\ s \in Registry /\ s.job = reg.job /\ now \in 0..MaxTime /\ SameStates(reg, s)
        /\ reg.queue \in Seq(JobIds)
    BY ForgetType, PrunedSame DEF Inv, TypeOK, Pruned, Registry
  <1> HIDE DEF s
  <1>3. t \in Registry /\ SameStates(s, t) /\ Parted(s, t, j, o)
    BY <1>2, RemoveOwnerType, RemoveOwnerSame, RemoveOwnerFields
  <1> HIDE DEF t
  <1>4. /\ \A k \in JobIds : /\ t.job[k].state = reg.job[k].state
                             /\ t.job[k].ctx = reg.job[k].ctx
        /\ t.queue = reg.queue
    BY <1>2, <1>3 DEF SameStates, Parted
  <1>5. CASE reg' = t
    BY <1>4, <1>5 DEF Justified, Pending
  <1>6. CASE t.job[j].owners = {} /\ reg' \in Abandoned(t, j)
    <2>1. t.job[j].state = "queued" => j \in ToSet(t.queue)
      <3>1. ToSet(t.queue) = {reg.queue[n] : n \in 1..Len(reg.queue)}
        BY <1>2, <1>4, ToSetFacts
      <3>2. reg.job[j].state = "queued" => \E n \in 1..Len(reg.queue) : reg.queue[n] = j
        BY DEF Inv, Shape
      <3> QED BY <1>4, <3>1, <3>2
    <2>2. /\ SameIds(t, reg')
          /\ \A k \in JobIds : reg'.job[k].ctx = "canceled" =>
               t.job[k].ctx = "canceled" \/ (k = j /\ Pending(t, j))
      BY <1>2, <1>3, <1>6, <2>1, AbandonedKept
    <2>3. \/ Pending(t, j) /\ Changed(t, reg', {j}, "cancelled")
          \/ ~Pending(t, j) /\ SameStates(t, reg')
      BY <1>2, <1>3, <1>6, <2>1, AbandonedFacts DEF Pending
    <2> QED BY <1>4, <1>6, <2>2, <2>3 DEF Justified, SameIds, Changed, SameStates, Pending, Terminal
  <1> QED BY <1>1, <1>5, <1>6

LEMMA CancelPendingJustified ==
  ASSUME Inv, reg' \in CancelPending(reg), ctxDone' \/ (reg.queue = <<>> /\ reg.active = {})
  PROVE  Justified
  <1>1. reg \in Registry /\ now \in 0..MaxTime
    BY DEF Inv, TypeOK
  <1>2. \A k \in JobIds : reg'.job[k].ctx = "canceled" =>
          reg.job[k].ctx = "canceled" \/ k \in reg.active
    BY <1>1, CancelPendingKept
  <1>3. Changed(reg, reg', ToSet(reg.queue), "cancelled")
    BY PendingCancelled DEF Flushing
  <1>4. reg.queue = <<>> => ToSet(reg.queue) = {}
    BY DEF ToSet
  <1> QED BY <1>2, <1>3, <1>4 DEF Justified, Changed, Pending

LEMMA RecordJustified ==
  ASSUME Inv, Causes, NEW w \in Workers, Record(w)
  PROVE  Justified
  <1> DEFINE j == worker[w].job
             s == Released(reg, j)
  <1>1. /\ worker[w].pc = "recording" /\ ctxDone' = ctxDone
        /\ \/ Terminal(s, j) /\ reg' = s
           \/ /\ ~Terminal(s, j) /\ worker[w].err = "none"
              /\ reg' \in Succeeded(s, j, worker[w].final)
           \/ ~Terminal(s, j) /\ reg' \in Unsuccessful(s, j, worker[w].err)
    BY DEF Record, At
  <1>2. /\ j \in JobIds /\ reg \in Registry /\ now \in 0..MaxTime
        /\ (worker[w].err = "none" => worker[w].final \in ScienceDigests)
    BY <1>1, BusyWorker DEF BusyPlaces, Inv, TypeOK, Progressed
  <1>3. worker[w].err = "canceled" => ctxDone \/ Terminal(reg, j)
    BY <1>1 DEF Causes, Busy
  <1> HIDE DEF j
  <1>4. /\ s \in Registry
        /\ \A k \in JobIds : /\ s.job[k].state = reg.job[k].state
                             /\ s.job[k].ctx = IF k = j THEN "none" ELSE reg.job[k].ctx
    BY <1>2, ReleasedFacts, ReleasedFields DEF Changed
  <1> HIDE DEF s
  <1>5. CASE reg' = s
    BY <1>4, <1>5 DEF Justified, Pending
  <1>6. CASE /\ ~Terminal(s, j) /\ worker[w].err = "none"
             /\ reg' \in Succeeded(s, j, worker[w].final)
    <2>1. /\ Changed(s, reg', {j}, "ready")
          /\ \A k \in JobIds : reg'.job[k].ctx = s.job[k].ctx
      BY <1>2, <1>4, <1>6, SucceededFacts, SucceededKept
    <2> QED BY <1>4, <2>1 DEF Justified, Changed, Pending
  <1>7. CASE ~Terminal(s, j) /\ reg' \in Unsuccessful(s, j, worker[w].err)
    <2>1. /\ Changed(s, reg', {j}, IF worker[w].err = "canceled" THEN "cancelled" ELSE "failed")
          /\ \A k \in JobIds : reg'.job[k].ctx = s.job[k].ctx
      BY <1>2, <1>4, <1>7, UnsuccessfulKept
    <2>2. worker[w].err = "canceled" => ctxDone'
      BY <1>1, <1>2, <1>3, <1>4, <1>7 DEF Terminal
    <2> QED BY <1>4, <2>1, <2>2 DEF Justified, Changed, Pending
  <1> QED BY <1>1, <1>5, <1>6, <1>7

\* A busy worker has been started; nothing is active without one.
LEMMA StoppedIsIdle ==
  ASSUME Inv, ~started
  PROVE  reg.active = {} /\ \A w \in Workers : worker[w].pc = "off"
  BY DEF Inv, Progressed, Holding, Busy

LEMMA NextJustified ==
  ASSUME Inv, Shut, Causes, [Next]_vars
  PROVE  Justified
  <1>1. CASE \E r \in Requests : Submit(r)
    BY <1>1, SubmitJustified
  <1>2. CASE \E o \in Owners, j \in JobIds : Cancel(o, j)
    BY <1>2, CancelJustified
  <1>3. CASE \E w \in Workers : Record(w)
    BY <1>3, RecordJustified
  <1>4. ASSUME NEW w \in Workers, Exit(w) PROVE Justified
    <2>1. started
      BY <1>4, StoppedIsIdle DEF Exit, At
    <2>2. ctxDone'
      BY <1>4, <2>1 DEF Exit, Causes
    <2> QED BY <1>4, <2>2, CancelPendingJustified DEF Exit
  <1>5. CASE CloseBegins /\ reg' \in CancelPending(reg) /\ ctxDone' = (ctxDone \/ started)
    <2>1. ctxDone' \/ (reg.queue = <<>> /\ reg.active = {})
      BY <1>5, StoppedIsIdle DEF Causes
    <2> QED BY <1>5, <2>1, CancelPendingJustified
  <1>6. CASE reg'.job = reg.job
    BY <1>6 DEF Justified, Pending
  <1>7. CASE PruneOnly
    BY <1>6, <1>7, ForgetType DEF PruneOnly, Pruned, Inv, TypeOK
  <1>8. CASE \E w \in Workers : TakeJob(w)
    <2>1. /\ reg.queue # <<>> /\ reg' = Taken(reg) /\ reg \in Registry
      BY <1>8 DEF TakeJob, Inv, TypeOK
    <2>2. /\ Changed(reg, reg', {Head(reg.queue)}, "running")
          /\ \A k \in JobIds : reg'.job[k].ctx =
               IF k = Head(reg.queue) THEN "live" ELSE reg.job[k].ctx
      BY <2>1, TakenFacts, TakenFields
    <2> QED BY <2>2 DEF Justified, Changed, Pending
  <1>9. CASE ParentCancelled
    BY <1>9 DEF ParentCancelled, Justified
  <1>10. ASSUME NEW j \in JobIds, DeadlinePasses(j) PROVE Justified
    <2>1. /\ reg.job[j] \in JobRecord /\ reg \in Registry
          /\ reg' = [reg EXCEPT !.job[j] = [reg.job[j] EXCEPT !.ctx = "deadline"]]
      BY <1>10, JobType DEF DeadlinePasses, Inv, TypeOK
    <2> DEFINE n == [reg.job[j] EXCEPT !.ctx = "deadline"]
    <2>2. n.state = reg.job[j].state /\ n.ctx = "deadline"
      BY <2>1 DEF JobRecord
    <2> HIDE DEF n
    <2>3. \A k \in JobIds : reg'.job[k] = IF k = j THEN n ELSE reg.job[k]
      BY <2>1 DEF Registry, n
    <2> QED BY <2>2, <2>3 DEF Justified, Pending
  <1> QED BY <1>1, <1>2, <1>3, <1>4, <1>5, <1>6, <1>7, <1>8, <1>9, <1>10 DEF Next, Step,
         RunReturns, FindNothing, WakeUp, RunInterrupted, PublishSucceeds, PublishFails,
         WorkerSignals, RunSucceeds, RunFails, Start, CloseBegins, CloseSignals,
         CloseReturns, Tick, SubmitSignals, Register, vars

\* A worker's run is interrupted only when its job's context has ended.
LEMMA ErrorCause ==
  ASSUME Inv, [Next]_vars, NEW w \in Workers, w \in Busy', worker'[w].err = "canceled"
  PROVE  /\ w \in Busy /\ worker'[w].job = worker[w].job
         /\ \/ worker[w].err = "canceled"
            \/ reg.job[worker[w].job].ctx = "canceled"
  <1>1. worker[w] \in WorkerRecord /\ worker \in [Workers -> WorkerRecord]
    BY DEF Inv, TypeOK
  <1>2. CASE worker' = worker
    BY <1>2 DEF Busy
  <1>3. CASE Start
    BY <1>3 DEF Start, AtPlace, Busy
  <1>4. ASSUME NEW v \in Workers, Step(v) \/ RunReturns(v)
        PROVE  /\ w \in Busy /\ worker'[w].job = worker[w].job
               /\ \/ worker[w].err = "canceled"
                  \/ reg.job[worker[w].job].ctx = "canceled"
    <2>1. CASE \E pc \in Places : worker' = [worker EXCEPT ![v] = AtPlace(pc)]
      <3>1. PICK pc \in Places : worker' = [worker EXCEPT ![v] = AtPlace(pc)]
        BY <2>1
      <3>2. AtPlace(pc).err = "none"
        BY DEF AtPlace
      <3>3. w # v
        BY <1>1, <3>1, <3>2
      <3>4. worker'[w] = worker[w]
        BY <1>1, <3>1, <3>3
      <3> QED BY <3>4 DEF Busy
    <2>2. CASE TakeJob(v)
      <3> DEFINE n == [AtPlace("running") EXCEPT !.job = Head(reg.queue)]
      <3>1. worker' = [worker EXCEPT ![v] = n] /\ n.err = "none"
        BY <2>2 DEF TakeJob, AtPlace
      <3> HIDE DEF n
      <3>2. w # v
        BY <1>1, <3>1
      <3>3. worker'[w] = worker[w]
        BY <1>1, <3>1, <3>2
      <3> QED BY <3>3 DEF Busy
    <2>3. CASE RunSucceeds(v) \/ RunFails(v) \/ RunInterrupted(v) \/ PublishSucceeds(v)
               \/ PublishFails(v)
      <3>1. v \in Busy
        BY <2>3 DEF RunSucceeds, RunFails, RunInterrupted, PublishSucceeds, PublishFails,
           At, Busy
      <3>2. PICK x :
              /\ worker' = [worker EXCEPT ![v] = x]
              /\ x.job = worker[v].job
              /\ x.err \in {worker[v].err, "failed", reg.job[worker[v].job].ctx}
        <4> DEFINE y == worker[v]
        <4>1. y \in WorkerRecord
          BY <1>1
        <4> HIDE DEF y
        <4>2. \A d : /\ [y EXCEPT !.pc = "publishing", !.final = d].job = y.job
                    /\ [y EXCEPT !.pc = "publishing", !.final = d].err = y.err
          BY <4>1 DEF WorkerRecord
        <4>3. \A e : /\ [y EXCEPT !.pc = "recording", !.err = e].job = y.job
                    /\ [y EXCEPT !.pc = "recording", !.err = e].err = e
          BY <4>1 DEF WorkerRecord
        <4>4. /\ [y EXCEPT !.pc = "recording"].job = y.job
              /\ [y EXCEPT !.pc = "recording"].err = y.err
          BY <4>1 DEF WorkerRecord
        <4>5. \/ \E d : worker' = [worker EXCEPT ![v] =
                          [y EXCEPT !.pc = "publishing", !.final = d]]
              \/ \E e \in {"failed", reg.job[worker[v].job].ctx} :
                   worker' = [worker EXCEPT ![v] = [y EXCEPT !.pc = "recording", !.err = e]]
              \/ worker' = [worker EXCEPT ![v] = [y EXCEPT !.pc = "recording"]]
          BY <2>3 DEF RunSucceeds, PublishSucceeds, RunFails, RunInterrupted, PublishFails, y
        <4> HIDE DEF y
        <4> DEFINE E == {y.err, "failed", reg.job[worker[v].job].ctx}
        <4>6. \A x : worker' = [worker EXCEPT ![v] = x] /\ x.job = y.job /\ x.err \in E
                     => \E z : /\ worker' = [worker EXCEPT ![v] = z]
                              /\ z.job = y.job /\ z.err \in E
          OBVIOUS
        <4>7. CASE \E d : worker' = [worker EXCEPT ![v] =
                            [y EXCEPT !.pc = "publishing", !.final = d]]
          BY <4>2, <4>6, <4>7 DEF y
        <4>8. CASE \E e \in {"failed", reg.job[worker[v].job].ctx} :
                     worker' = [worker EXCEPT ![v] = [y EXCEPT !.pc = "recording", !.err = e]]
          BY <4>3, <4>6, <4>8 DEF y
        <4>9. CASE worker' = [worker EXCEPT ![v] = [y EXCEPT !.pc = "recording"]]
          BY <4>4, <4>6, <4>9 DEF y
        <4> QED BY <4>5, <4>7, <4>8, <4>9
      <3>3. CASE w = v
        BY <1>1, <3>1, <3>2, <3>3
      <3>4. CASE w # v
        <4>1. worker'[w] = worker[w]
          BY <1>1, <3>2, <3>4
        <4> QED BY <4>1 DEF Busy
      <3> QED BY <3>3, <3>4
    <2>4. CASE Exit(v) \/ FindNothing(v) \/ WakeUp(v) \/ Record(v) \/ WorkerSignals(v)
      BY <2>1, <2>4 DEF Exit, FindNothing, WakeUp, Record, WorkerSignals, Places
    <2> QED BY <1>4, <2>2, <2>3, <2>4 DEF Step, RunReturns
  <1> QED BY <1>2, <1>3, <1>4 DEF Next, Submit, SubmitReplay, SubmitJoin, SubmitHit,
         SubmitEnqueue, Cancel, Register, CloseBegins, CloseSignals, CloseReturns,
         ParentCancelled, Tick, PruneOnly, SubmitSignals, DeadlinePasses, vars

\* Closing a coordinator that has started cancels its context, and nothing starts
\* one that is closed; the queue of one that has not started is empty.
LEMMA PhaseStep ==
  ASSUME Inv, Inv', Causes, Effect(reg, reg'), [Next]_vars
  PROVE  /\ closed' /\ started' => ctxDone'
         /\ ~started' => reg'.queue = <<>>
         /\ ctxDone => ctxDone'
  <1>1. ctxDone => ctxDone'
    BY DEF Next, Submit, SubmitReplay, SubmitJoin, SubmitHit, SubmitEnqueue,
       Cancel, Register, Start, CloseBegins, CloseSignals, CloseReturns,
       ParentCancelled, Tick, PruneOnly, SubmitSignals, Step, RunReturns, Exit, TakeJob,
       FindNothing, WakeUp, RunInterrupted, PublishSucceeds, PublishFails, Record,
       WorkerSignals, RunSucceeds, RunFails, DeadlinePasses, vars
  <1>2. closed' /\ started' => ctxDone'
    <2>1. CASE Start
      BY <2>1 DEF Start
    <2>2. CASE CloseBegins
      BY <1>1, <2>2 DEF CloseBegins, Causes
    <2>3. ASSUME NEW w \in Workers, Exit(w) PROVE ctxDone'
      <3>1. started
        BY <2>3, StoppedIsIdle DEF Exit, At
      <3> QED BY <2>3, <3>1 DEF Exit, Causes
    <2>4. CASE closed' = closed /\ started' = started
      BY <1>1, <2>4 DEF Causes
    <2> QED BY <2>1, <2>2, <2>3, <2>4 DEF Next, Submit, SubmitReplay, SubmitJoin,
           SubmitHit, SubmitEnqueue, Cancel, Register, CloseSignals, CloseReturns,
           ParentCancelled, Tick, PruneOnly, SubmitSignals, Step, RunReturns, TakeJob,
           FindNothing, WakeUp, RunInterrupted, PublishSucceeds, PublishFails, Record,
           WorkerSignals, RunSucceeds, RunFails, DeadlinePasses, vars
  <1>3. ASSUME ~started' PROVE reg'.queue = <<>>
    <2>1. ~started /\ reg.queue = <<>>
      <3>1. ~started
        BY <1>3 DEF Next, Submit, SubmitReplay, SubmitJoin, SubmitHit, SubmitEnqueue,
           Cancel, Register, Start, CloseBegins, CloseSignals, CloseReturns,
           ParentCancelled, Tick, PruneOnly, SubmitSignals, Step, RunReturns, Exit, TakeJob,
           FindNothing, WakeUp, RunInterrupted, PublishSucceeds, PublishFails, Record,
           WorkerSignals, RunSucceeds, RunFails, DeadlinePasses, vars
      <3> QED BY <3>1 DEF Causes
    <2>2. unsignalled' # unsignalled + 1
      <3>1. \/ unsignalled' = unsignalled \/ unsignalled' = unsignalled - 1
            \/ \E r \in Requests : SubmitEnqueue(r)
        BY DEF Next, Submit, SubmitReplay, SubmitJoin, SubmitHit, Cancel, Register, Start,
           CloseBegins, CloseSignals, CloseReturns, ParentCancelled, Tick, PruneOnly,
           SubmitSignals, Step, RunReturns, Exit, TakeJob, FindNothing, WakeUp,
           RunInterrupted, PublishSucceeds, PublishFails, Record, WorkerSignals,
           RunSucceeds, RunFails, DeadlinePasses, vars
      <3>2. \A r \in Requests : ~SubmitEnqueue(r)
        BY <2>1 DEF SubmitEnqueue, Accepting
      <3>3. unsignalled \in Nat
        BY DEF Inv, TypeOK
      <3> QED BY <3>1, <3>2, <3>3
    <2>3. Len(reg'.queue) <= Len(reg.queue)
      BY <2>2, QueueLength
    <2>4. reg \in Registry /\ reg' \in Registry
      BY DEF Inv, TypeOK
    <2> QED BY <2>1, <2>3, <2>4, QueueType, EmptySeq
  <1> QED BY <1>1, <1>2, <1>3

LEMMA CausesStep == Inv /\ Shut /\ Causes /\ [Next]_vars => Causes'
  <1> SUFFICES ASSUME Inv, Shut, Causes, [Next]_vars PROVE Causes'
    OBVIOUS
  <1>1. Inv' /\ Effect(reg, reg') /\ Justified
    BY NextStep, NextJustified
  <1>2. /\ closed' /\ started' => ctxDone'
        /\ ~started' => reg'.queue = <<>>
        /\ ctxDone => ctxDone'
    BY <1>1, PhaseStep
  <1>3. \A j \in JobIds : Terminal(reg, j) => Terminal(reg', j)
    BY <1>1, OutcomesKept DEF Terminal
  <1>4. \A j \in JobIds : reg'.job[j].ctx = "canceled" => ctxDone' \/ Terminal(reg', j)
    BY <1>1, <1>2, <1>3 DEF Justified, Causes
  <1>5. ASSUME NEW w \in Busy', worker'[w].err = "canceled"
        PROVE  ctxDone' \/ Terminal(reg', worker'[w].job)
    <2>1. w \in Workers
      BY DEF Busy
    <2>2. /\ w \in Busy /\ worker'[w].job = worker[w].job
          /\ \/ worker[w].err = "canceled"
             \/ reg.job[worker[w].job].ctx = "canceled"
      BY <1>5, <2>1, ErrorCause
    <2>3. worker[w].job \in JobIds
      BY <2>2 DEF Inv, Holding
    <2> QED BY <1>2, <1>3, <2>2, <2>3 DEF Causes
  <1>6. \A w \in Busy' : worker'[w].err = "canceled" =>
          ctxDone' \/ Terminal(reg', worker'[w].job)
    BY <1>5
  <1> QED BY <1>2, <1>4, <1>6 DEF Causes, Terminal

-----------------------------------------------------------------------------
(* The theorems.                                                           *)

\* The invariant of the maps holds in every reachable state (coordinator.go:72).
THEOREM MapsInvariant == Spec => []Maps
  <1>1. Spec => [](Inv /\ Maps)
    BY InitMaps, MapsStep, Invariant, PTL DEF Spec
  <1> QED BY <1>1, PTL

\* The maps agree with the jobs: a key names a retained job exactly when the job
\* lists the key and the key's owner owns it, every unfinished job is the one its
\* digest names, no digest names a forgotten, failed or cancelled job, and an
\* unfinished job is retained and owned (coordinator.go:171, 228, 397, 617).
THEOREM MapsAgree == Spec => []RegistryExact
  <1>1. Maps => RegistryExact
    BY DEF Maps, Tables, Keyed, Named, OwnedBut, RegistryExact, IdempotencyExact,
       ScienceExact, NoOrphans, HasOwner
  <1> QED BY <1>1, MapsInvariant, PTL

\* The retained jobs are the unfinished ones and the completed list, which never
\* exceeds its limit (coordinator.go:699, 737).
THEOREM MetadataIsBounded == Spec => []MetadataBounded
  <1>1. Maps => MetadataBounded
    BY DEF Maps, Tables, Listed, Limited, MetadataBounded
  <1> QED BY <1>1, MapsInvariant, PTL

\* An owner whose requests of a kind carry the limit has at most one unfinished job
\* of that kind, the joined ones counted (docs/configuration.en.md:116).
THEOREM OneActiveJobPerOwner == Spec => []OneActivePerOwner
  <1>1. Maps => OneActivePerOwner
    BY DEF Maps, Tables, Single, OneActivePerOwner
  <1> QED BY <1>1, MapsInvariant, PTL

\* A job others still own is cancelled only when the coordinator stops: no step
\* of another owner, of a late runner or of a worker that leaves cancels it
\* (coordinator.go:395, 589).
THEOREM SharedJobsSurvive == Spec => CancelNeedsEveryOwner
  <1>1. Init => Shut /\ Causes
    BY DEF Init, Shut, Causes, Unused, AtPlace, At, Busy
  <1>2. Spec => [](Inv /\ Shut /\ Causes)
    BY <1>1, ShutStep, CausesStep, Invariant, PTL DEF Spec
  <1>3. Inv /\ Shut /\ Causes /\ [Next]_vars =>
          [\A j \in JobIds :
             Pending(reg, j) /\ reg'.job[j].state = "cancelled"
             => reg'.job[j].owners = {} \/ ctxDone']_vars
    BY NextJustified DEF Justified
  <1> QED BY <1>2, <1>3, PTL DEF Spec, CancelNeedsEveryOwner

=============================================================================
