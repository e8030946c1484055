-------------------------- MODULE HorizonJobsProofs --------------------------
(***************************************************************************)
(* Theorems about the Horizon jobs: who is busy, who is waited for where,  *)
(* what is leased, and what Close leaves behind.                           *)
(***************************************************************************)
EXTENDS HorizonJobs, FiniteSetTheorems, SequenceTheorems, TLAPS

\* How many entries of a function or a sequence are in T.
Tally(f, T) == Cardinality({x \in DOMAIN f : f[x] \in T})

\* The jobs, workers, results and senders that carry a request.
InJob(r)     == {v \in Job \cup {Spare} : r \in v.waiters}
InWork(r)    == {v \in WorkerRecord : r \in v.what.waiters}
InChannel(r) == {v \in Delivery : r \in v.waiters}
InHand(r)    == {v \in SenderRecord : r \in v.rest}
Told(r)      == {v \in SenderRecord : r \in v.what.waiters \ v.rest}

\* The workers that compute a job, or throw it away.
Computes(j) == {v \in WorkerRecord : v.at \in {"running", "detaching", "discarding"} /\ v.job = j}

\* The requests, workers, results and senders that hold a slot or a lease.
Slotted      == {v \in RequestRecord : v.at \in {"slotted", "leased"}}
Leasing      == {v \in RequestRecord : v.at = "leased" \/ (v.at = "sending" /\ v.leased)}
LeasedWork   == {v \in WorkerRecord : v.at = "sending" /\ v.leased}
SlottedItem  == {v \in Delivery : v.slot}
LeasedItem   == {v \in Delivery : v.leased}
SlottedBatch == {v \in SenderRecord : v.what.slot}
LeasedBatch  == {v \in SenderRecord : v.what.leased}

Owns(r) == request[r].at \in Owning

-----------------------------------------------------------------------------
(* The inductive invariant.                                                *)

\* Who has called has a user and a key.
Named == \A r \in Requests : ~At(r, "new") => User(r) \in Users /\ Key(r) \in Keys

\* A user is marked busy exactly while a request of it is under way.
Marked ==
  /\ \A r, q \in Requests : Owns(r) /\ Owns(q) /\ User(r) = User(q) => r = q
  /\ \A r \in Requests : Owns(r) => active[User(r)] = Key(r)
  /\ \A u \in Users : active[u] # None => \E r \in Requests : Owns(r) /\ User(r) = u

\* Who is carried together has the same key.
Alike ==
  /\ \A j \in Requests : \A r \in job[j].waiters : Key(r) = job[j].key
  /\ \A w \in Workers : \A r \in worker[w].what.waiters : Key(r) = worker[w].what.key
  /\ \A i \in DOMAIN delivery : \A r \in delivery[i].waiters : Key(r) = delivery[i].key
  /\ \A s \in Senders : \A r \in sender[s].what.waiters : Key(r) = sender[s].what.key

\* Who waits is in one place, and who has been answered in one batch.
Carried ==
  \A r \in Requests :
    /\ Tally(job, InJob(r)) + Tally(worker, InWork(r)) + Tally(delivery, InChannel(r))
         + Tally(sender, InHand(r)) = (IF At(r, "waiting") THEN 1 ELSE 0)
    /\ Tally(sender, Told(r)) = (IF At(r, "answered") THEN 1 ELSE 0)

\* What workers and senders have at each of their places.
Equipped ==
  /\ \A w \in Workers :
       /\ worker[w].at \in {"running", "detaching", "discarding"} => worker[w].job \in Requests
       /\ worker[w].at \in {"leasing", "sending"} => worker[w].what \in Job
       /\ worker[w].at \notin {"leasing", "sending"} => worker[w].what = Spare
  /\ \A s \in Senders :
       /\ sender[s].at = "busy" => sender[s].what \in Delivery
       /\ sender[s].at # "busy" => sender[s].what = NoOne
       /\ sender[s].rest \subseteq sender[s].what.waiters

\* A job is queued or in the hands of a worker, once, while others may join it; its creator
\* waits for it.
Live ==
  /\ \A j \in Requests :
       /\ Tally(queue, {j}) + Tally(worker, Computes(j)) = (IF job[j] = Spare THEN 0 ELSE 1)
       /\ job[j] # Spare => j \in job[j].waiters /\ jobs[job[j].key] = j
  /\ \A k \in Keys : jobs[k] # None => job[jobs[k]].key = k

\* Every slot and every lease has its holder.
Books ==
  /\ slots = Tally(request, Slotted) + Tally(delivery, SlottedItem) + Tally(sender, SlottedBatch)
  /\ leases = Tally(request, Leasing) + Tally(delivery, LeasedItem) + Tally(worker, LeasedWork)
               + Tally(sender, LeasedBatch)

\* Who awaits a ticket is the one CancelUser reaches, and who is about to forget
\* a ticket no longer awaits it.
Reached ==
  /\ CancelReaches
  /\ \A r \in clearing : request[r].at \in {"waiting", "answered", "done", "dropped"}

\* With a coordinator nobody shares a batch, and who has been answered is told.
Alone ==
  attached =>
    /\ \A w \in Workers : worker[w].at = "gone"
    /\ \A i \in DOMAIN delivery : \E r \in Requests : delivery[i].waiters = {r}
    /\ \A s \in Senders : sender[s].at = "busy" => \E r \in Requests : sender[s].what.waiters = {r}
    /\ \A r \in Requests : At(r, "answered") => r \in answered
    /\ \A r \in Requests : At(r, "done") => Answered(r)

\* Workers leave when the root context has ended, a coordinator has no jobs, and
\* after Close only callers and who waits for a job are under way.
Emptied ==
  /\ \A w \in Workers : worker[w].at = "gone" => attached \/ ~root
  /\ attached => queue = <<>>
  /\ closing = "closed" =>
       /\ ~root /\ delivery = <<>>
       /\ \A w \in Workers : worker[w].at = "gone"
       /\ \A s \in Senders : sender[s].at = "gone"
       /\ \A r \in Requests : Owns(r) => request[r].at \in InCall \cup {"waiting"}

Inv ==
  /\ TypeOK /\ Named /\ Marked /\ Alike /\ Carried /\ Equipped /\ Live
  /\ Books /\ Reached /\ Alone /\ Emptied

\* What enqueue has checked is still so while it holds the mutex: the user is
\* free and the calculation new.
Held ==
  \A r \in Requests : At(r, "checked") =>
    /\ closing = "open" /\ ~attached
    /\ active[User(r)] = None /\ jobs[Key(r)] = None
    /\ \A q \in Requests : At(q, "checked") => q = r

\* Once a worker has left, one job at most comes in, and nobody joins it.
Left ==
  (\E w \in Workers : worker[w].at = "gone") =>
    /\ Len(queue) <= 1
    /\ ~Unlocked => queue = <<>>
    /\ \A i \in DOMAIN queue : job[queue[i]].waiters = {queue[i]}

-----------------------------------------------------------------------------
(* Counting.                                                               *)

LEMMA TallyFacts ==
  ASSUME NEW f, IsFiniteSet(DOMAIN f), NEW T
  PROVE  /\ Tally(f, T) \in Nat
         /\ Tally(f, T) = 0 <=> \A x \in DOMAIN f : f[x] \notin T
         /\ \A x \in DOMAIN f : f[x] \in T => Tally(f, T) >= 1
         /\ \A x, y \in DOMAIN f : Tally(f, T) <= 1 /\ f[x] \in T /\ f[y] \in T => x = y
  <1> DEFINE A == {x \in DOMAIN f : f[x] \in T}
  <1>1. IsFiniteSet(A) /\ Cardinality(A) \in Nat /\ Tally(f, T) = Cardinality(A)
    BY FS_Subset, FS_CardinalityType DEF Tally
  <1>2. Cardinality(A) = 0 <=> A = {}
    BY <1>1, FS_EmptySet
  <1>3. ASSUME NEW x \in DOMAIN f, NEW y \in DOMAIN f, Cardinality(A) <= 1, f[x] \in T, f[y] \in T
        PROVE  x = y
    <2>1. Cardinality(A) = 1
      BY <1>1, <1>2, <1>3
    <2>2. PICK z : A = {z}
      BY <1>1, <2>1, FS_Singleton
    <2> QED BY <1>3, <2>2
  <1>4. Tally(f, T) = 0 <=> \A x \in DOMAIN f : f[x] \notin T
    BY <1>1, <1>2
  <1>5. ASSUME NEW x \in DOMAIN f, f[x] \in T PROVE Tally(f, T) >= 1
    <2>1. Cardinality(A) # 0
      BY <1>2, <1>5
    <2> QED BY <1>1, <2>1
  <1> QED BY <1>1, <1>3, <1>4, <1>5

\* A function that changes in one place.
LEMMA TallyChanges ==
  ASSUME NEW f, NEW g, DOMAIN g = DOMAIN f, IsFiniteSet(DOMAIN f), NEW x \in DOMAIN f,
         \A y \in DOMAIN f : y # x => g[y] = f[y], NEW T
  PROVE  /\ f[x] \in T /\ g[x] \notin T => Tally(g, T) = Tally(f, T) - 1
         /\ f[x] \notin T /\ g[x] \in T => Tally(g, T) = Tally(f, T) + 1
         /\ (f[x] \in T <=> g[x] \in T) => Tally(g, T) = Tally(f, T)
  <1> DEFINE A == {y \in DOMAIN f : f[y] \in T}
             B == {y \in DOMAIN g : g[y] \in T}
  <1>1. IsFiniteSet(A) /\ Tally(f, T) = Cardinality(A) /\ Tally(g, T) = Cardinality(B)
    BY FS_Subset DEF Tally
  <1>2. CASE f[x] \in T /\ g[x] \notin T
    <2>1. B = A \ {x} /\ x \in A
      BY <1>2
    <2> HIDE DEF A, B
    <2> QED BY <1>1, <1>2, <2>1, FS_RemoveElement
  <1>3. CASE f[x] \notin T /\ g[x] \in T
    <2>1. B = A \cup {x} /\ x \notin A
      BY <1>3
    <2> HIDE DEF A, B
    <2> QED BY <1>1, <1>3, <2>1, FS_AddElement
  <1>4. CASE f[x] \in T <=> g[x] \in T
    <2>1. B = A
      BY <1>4
    <2> QED BY <1>1, <1>4, <2>1
  <1> QED BY <1>2, <1>3, <1>4

\* Functions that agree on membership.
LEMMA TallySame ==
  ASSUME NEW f, NEW g, DOMAIN f = DOMAIN g, NEW T, \A x \in DOMAIN f : f[x] \in T <=> g[x] \in T
  PROVE  Tally(g, T) = Tally(f, T)
  <1>1. {x \in DOMAIN f : f[x] \in T} = {x \in DOMAIN g : g[x] \in T}
    OBVIOUS
  <1> QED BY <1>1 DEF Tally

LEMMA TallyAppend ==
  ASSUME NEW S, NEW q \in Seq(S), NEW v \in S, NEW T
  PROVE  /\ v \in T => Tally(Append(q, v), T) = Tally(q, T) + 1
         /\ v \notin T => Tally(Append(q, v), T) = Tally(q, T)
  <1> DEFINE n == Len(q)
             A == {i \in DOMAIN q : q[i] \in T}
             B == {i \in DOMAIN Append(q, v) : Append(q, v)[i] \in T}
  <1>1. /\ n \in Nat /\ DOMAIN q = 1..n /\ DOMAIN Append(q, v) = 1..(n + 1)
        /\ Append(q, v)[n + 1] = v /\ \A i \in 1..n : Append(q, v)[i] = q[i]
    OBVIOUS
  <1>2. IsFiniteSet(A) /\ Tally(q, T) = Cardinality(A) /\ Tally(Append(q, v), T) = Cardinality(B)
    <2>1. IsFiniteSet(1..n)
      BY <1>1, FS_Interval
    <2> QED BY <1>1, <2>1, FS_Subset DEF Tally
  <1>3. CASE v \in T
    <2>1. B = A \cup {n + 1} /\ n + 1 \notin A
      BY <1>1, <1>3
    <2> HIDE DEF A, B, n
    <2> QED BY <1>2, <1>3, <2>1, FS_AddElement
  <1>4. CASE v \notin T
    <2>1. B = A
      BY <1>1, <1>4
    <2> QED BY <1>2, <1>4, <2>1
  <1> QED BY <1>3, <1>4

LEMMA TallyTail ==
  ASSUME NEW S, NEW q \in Seq(S), q # <<>>, NEW T
  PROVE  /\ Head(q) \in T => Tally(Tail(q), T) = Tally(q, T) - 1
         /\ Head(q) \notin T => Tally(Tail(q), T) = Tally(q, T)
  <1> DEFINE n == Len(q)
             A == {i \in 2..n : q[i] \in T}
             B == {i \in DOMAIN Tail(q) : Tail(q)[i] \in T}
             C == {i \in DOMAIN q : q[i] \in T}
             f == [i \in A |-> i - 1]
  <1>1. /\ n \in Nat /\ n >= 1 /\ DOMAIN q = 1..n /\ DOMAIN Tail(q) = 1..(n - 1)
        /\ \A i \in 1..(n - 1) : Tail(q)[i] = q[i + 1]
        /\ Head(q) = q[1]
    BY EmptySeq
  <1>2. IsFiniteSet(A) /\ Tally(q, T) = Cardinality(C) /\ Tally(Tail(q), T) = Cardinality(B)
    <2>1. IsFiniteSet(2..n)
      BY <1>1, FS_Interval
    <2> QED BY <1>1, <2>1, FS_Subset DEF Tally
  <1>3. Cardinality(B) = Cardinality(A)
    <2>1. f \in [A -> B] /\ \A i, j \in A : f[i] = f[j] => i = j
      BY <1>1
    <2>2. \A b \in B : \E i \in A : f[i] = b
      <3> SUFFICES ASSUME NEW b \in B PROVE b + 1 \in A /\ f[b + 1] = b
        OBVIOUS
      <3> QED BY <1>1
    <2> HIDE DEF f, A, B
    <2>3. ExistsBijection(A, B)
      BY <2>1, <2>2 DEF ExistsBijection, Bijection, Injection, Surjection, IsInjective
    <2> QED BY <1>2, <2>3, FS_Bijection
  <1>4. CASE Head(q) \in T
    <2>1. C = A \cup {1} /\ 1 \notin A
      BY <1>1, <1>4
    <2> HIDE DEF A, B, C, n
    <2>2. Cardinality(C) = Cardinality(A) + 1 /\ Cardinality(A) \in Nat
      BY <1>2, <2>1, FS_AddElement, FS_CardinalityType
    <2> QED BY <1>2, <1>3, <1>4, <2>2
  <1>5. CASE Head(q) \notin T
    <2>1. C = A
      BY <1>1, <1>5
    <2> QED BY <1>2, <1>3, <1>5, <2>1
  <1> QED BY <1>4, <1>5

-----------------------------------------------------------------------------
(* What becomes of the requests.                                           *)

\* The requests in R go to a place, with their users and keys.
Placed(R, place) ==
  /\ request' \in [Requests -> RequestRecord]
  /\ \A q \in Requests :
       /\ request'[q].user = request[q].user /\ request'[q].key = request[q].key
       /\ request'[q].at = IF q \in R THEN place ELSE request[q].at

SameLeased == \A q \in Requests : request'[q].leased = request[q].leased

Places == Refusable \cup Owning

LEMMA PlaceNames == Refusable \cap Owning = {} /\ "none" \notin Places
  BY DEF Places, Refusable, Owning

LEMMA MovesFacts ==
  ASSUME request \in [Requests -> RequestRecord], NEW R, NEW place \in Places, Moves(R, place)
  PROVE  Placed(R, place) /\ SameLeased /\ \A q \in Requests \ R : request'[q] = request[q]
  <1>1. \A q \in Requests : [request[q] EXCEPT !.at = place] \in RequestRecord
    BY DEF RequestRecord, Places
  <1>2. request' \in [Requests -> RequestRecord]
    BY <1>1 DEF Moves
  <1>3. \A q \in Requests : request[q] \in RequestRecord
    OBVIOUS
  <1>4. \A q \in Requests : request'[q] = IF q \in R THEN [request[q] EXCEPT !.at = place]
                                                      ELSE request[q]
    BY DEF Moves
  <1> QED BY <1>2, <1>3, <1>4 DEF Placed, SameLeased, RequestRecord

LEMMA TicketFacts ==
  ASSUME request \in [Requests -> RequestRecord], NEW r \in Requests,
         NEW t \in {"none", "pending", "ok", "failed"}, request' = [request EXCEPT ![r].ticket = t]
  PROVE  Placed({}, "new") /\ SameLeased
  <1>1. \A q \in Requests : request[q] \in RequestRecord
    OBVIOUS
  <1>2. [request[r] EXCEPT !.ticket = t] \in RequestRecord
    BY <1>1 DEF RequestRecord
  <1>3. request' = [request EXCEPT ![r] = [request[r] EXCEPT !.ticket = t]]
    OBVIOUS
  <1>4. request' \in [Requests -> RequestRecord]
    BY <1>2, <1>3
  <1> QED BY <1>1, <1>3, <1>4 DEF Placed, SameLeased, RequestRecord

LEMMA PlaceTicketFacts ==
  ASSUME request \in [Requests -> RequestRecord], NEW r \in Requests, NEW place \in Places,
         NEW t \in {"none", "pending", "ok", "failed"},
         request' = [request EXCEPT ![r] = [@ EXCEPT !.at = place, !.ticket = t]]
  PROVE  Placed({r}, place) /\ SameLeased
  <1>1. \A q \in Requests : request[q] \in RequestRecord
    OBVIOUS
  <1>2. [request[r] EXCEPT !.at = place, !.ticket = t] \in RequestRecord
    BY <1>1 DEF RequestRecord, Places
  <1>3. request' = [request EXCEPT ![r] = [request[r] EXCEPT !.at = place, !.ticket = t]]
    OBVIOUS
  <1>4. request' \in [Requests -> RequestRecord]
    BY <1>2, <1>3
  <1> QED BY <1>1, <1>3, <1>4 DEF Placed, SameLeased, RequestRecord

LEMMA PlaceLeasedFacts ==
  ASSUME request \in [Requests -> RequestRecord], NEW r \in Requests, NEW place \in Places,
         NEW ok \in BOOLEAN,
         request' = [request EXCEPT ![r] = [@ EXCEPT !.at = place, !.leased = ok]]
  PROVE  /\ Placed({r}, place) /\ request'[r].leased = ok
         /\ \A q \in Requests \ {r} : request'[q] = request[q]
  <1>1. \A q \in Requests : request[q] \in RequestRecord
    OBVIOUS
  <1>2. [request[r] EXCEPT !.at = place, !.leased = ok] \in RequestRecord
    BY <1>1 DEF RequestRecord, Places
  <1>3. request' = [request EXCEPT ![r] = [request[r] EXCEPT !.at = place, !.leased = ok]]
    OBVIOUS
  <1>4. request' \in [Requests -> RequestRecord]
    BY <1>2, <1>3
  <1> QED BY <1>1, <1>3, <1>4 DEF Placed, RequestRecord

LEMMA AskFacts ==
  ASSUME TypeOK, NEW r \in Requests, NEW u \in Users, NEW k \in Keys, Ask(r, u, k)
  PROVE  /\ request' \in [Requests -> RequestRecord]
         /\ \A q \in Requests \ {r} : request'[q] = request[q]
         /\ request[r].at = "new" /\ request'[r].user = u /\ request'[r].key = k
         /\ \/ request'[r].at = "asked" /\ answered' = answered
            \/ request'[r].at = "done" /\ answered' = answered \cup {r}
  <1>. DEFINE x(place) == [New EXCEPT !.at = place, !.user = u, !.key = k]
  <1>1. /\ x("asked") \in RequestRecord /\ x("done") \in RequestRecord
        /\ \A place \in {"asked", "done"} :
             x(place).at = place /\ x(place).user = u /\ x(place).key = k /\ x(place).leased = FALSE
    BY DEF New, RequestRecord, Refusable
  <1> HIDE DEF x
  <1>2. PICK place \in {"asked", "done"} :
          /\ request' = [request EXCEPT ![r] = x(place)]
          /\ answered' = IF place = "asked" THEN answered ELSE answered \cup {r}
    BY DEF Ask, x
  <1>3. request \in [Requests -> RequestRecord] /\ request[r].at = "new"
    BY DEF Ask, At, TypeOK
  <1>4. request' \in [Requests -> RequestRecord]
    BY <1>1, <1>2, <1>3
  <1> QED BY <1>1, <1>2, <1>3, <1>4

-----------------------------------------------------------------------------
(* Who is busy.                                                            *)

Frees(R) == active' = [u \in Users |-> IF \E r \in R : User(r) = u THEN None ELSE active[u]]

LEMMA NoneFacts == None \notin Users /\ None \notin Keys /\ None \notin Requests
  BY HorizonAssumption

LEMMA MarkedSame ==
  ASSUME TypeOK, Marked, NEW R, NEW place \in Places, Placed(R, place), UNCHANGED active,
         \A r \in R \cap Requests : Owns(r) <=> place \in Owning
  PROVE  Marked'
  <1>1. \A r \in Requests : (request'[r].at \in Owning <=> Owns(r))
    BY DEF Placed, Owns
  <1>2. \A r \in Requests : request'[r].user = User(r) /\ request'[r].key = Key(r)
    BY DEF Placed, User, Key
  <1> QED BY <1>1, <1>2 DEF Marked, Owns, User, Key

LEMMA MarkedEnters ==
  ASSUME TypeOK, Named, Marked, NEW r \in Requests, NEW place \in Owning, Placed({r}, place),
         User(r) \in Users, Key(r) \in Keys, active[User(r)] = None, Reserves(r)
  PROVE  Marked'
  <1>1. \A q \in Requests : (request'[q].at \in Owning <=> (Owns(q) \/ q = r))
    BY DEF Placed, Owns
  <1>2. \A q \in Requests : request'[q].user = User(q) /\ request'[q].key = Key(q)
    BY DEF Placed, User, Key
  <1>3. /\ active \in [Users -> Keys \cup {None}]
        /\ active' = [active EXCEPT ![User(r)] = Key(r)]
    BY DEF TypeOK, Reserves
  <1>4. \A q \in Requests : Owns(q) => User(q) # User(r)
    <2> SUFFICES ASSUME NEW q \in Requests, Owns(q), User(q) = User(r) PROVE FALSE
      OBVIOUS
    <2>1. active[User(r)] = Key(q)
      BY DEF Marked
    <2>2. Key(q) \in Keys
      BY DEF Named, Owns, At, Owning
    <2> QED BY <2>1, <2>2, NoneFacts
  <1> QED BY <1>1, <1>2, <1>3, <1>4, NoneFacts DEF Marked, Owns, User, Key

LEMMA MarkedLeaves ==
  ASSUME TypeOK, Named, Marked, NEW R, NEW place \in Refusable, Placed(R, place), Frees(R),
         R \subseteq Requests, \A r \in R : Owns(r)
  PROVE  Marked'
  <1>1. \A q \in Requests : (request'[q].at \in Owning <=> (Owns(q) /\ q \notin R))
    BY PlaceNames DEF Placed, Owns
  <1>2. \A q \in Requests : request'[q].user = User(q) /\ request'[q].key = Key(q)
    BY DEF Placed, User, Key
  <1>3. \A q \in Requests \ R : Owns(q) =>
          User(q) \in Users /\ ~ \E r \in R : User(r) = User(q)
    <2> SUFFICES ASSUME NEW q \in Requests \ R, Owns(q) PROVE User(q) \in Users
      BY DEF Marked
    <2> QED BY DEF Named, Owns, At, Owning
  <1>4. \A u \in Users : active'[u] = IF \E r \in R : User(r) = u THEN None ELSE active[u]
    BY DEF Frees
  <1>5. \A r, q \in Requests :
          request'[r].at \in Owning /\ request'[q].at \in Owning
          /\ request'[r].user = request'[q].user => r = q
    BY <1>1, <1>2 DEF Marked
  <1>6. \A r \in Requests : request'[r].at \in Owning => active'[request'[r].user] = request'[r].key
    BY <1>1, <1>2, <1>3, <1>4 DEF Marked
  <1>7. ASSUME NEW u \in Users, active'[u] # None
        PROVE  \E r \in Requests : request'[r].at \in Owning /\ request'[r].user = u
    <2>1. active[u] # None /\ ~ \E r \in R : User(r) = u
      BY <1>4, <1>7
    <2>2. PICK r \in Requests : Owns(r) /\ User(r) = u
      BY <2>1 DEF Marked
    <2> QED BY <1>1, <1>2, <2>1, <2>2
  <1> QED BY <1>5, <1>6, <1>7 DEF Marked, Owns, User, Key

\* finishJob and releaseDirectionalWaiter free exactly the users of what ends.
LEMMA FinishFrees ==
  ASSUME Marked, NEW R, R \subseteq Requests, NEW k, Finish(k, R),
         \A r \in R : Owns(r) /\ Key(r) = k
  PROVE  Frees(R)
  <1>1. \A u \in Users : (active[u] = k /\ \E r \in R : User(r) = u) <=> \E r \in R : User(r) = u
    BY DEF Marked
  <1> QED BY <1>1 DEF Finish, Frees

LEMMA ReleaseFrees ==
  ASSUME TypeOK, Named, Marked, NEW r \in Requests, Release(r), Owns(r)
  PROVE  Frees({r})
  <1>1. User(r) \in Users /\ active[User(r)] = Key(r)
    BY DEF Named, Marked, Owns, At, Owning
  <1>2. active \in [Users -> Keys \cup {None}]
    BY DEF TypeOK
  <1> QED BY <1>1, <1>2 DEF Release, Frees

LEMMA NamedPlaced ==
  ASSUME Named, NEW R, NEW place \in Places, Placed(R, place), \A r \in R \cap Requests : ~At(r, "new")
  PROVE  Named'
  BY DEF Named, Placed, At, User, Key

-----------------------------------------------------------------------------
(* Who is carried.                                                         *)

LEMMA Finiteness ==
  TypeOK => /\ IsFiniteSet(DOMAIN job) /\ DOMAIN job = Requests
            /\ IsFiniteSet(DOMAIN request) /\ DOMAIN request = Requests
            /\ IsFiniteSet(DOMAIN worker) /\ DOMAIN worker = Workers
            /\ IsFiniteSet(DOMAIN sender) /\ DOMAIN sender = Senders
            /\ IsFiniteSet(DOMAIN delivery) /\ DOMAIN delivery = 1..Len(delivery)
            /\ IsFiniteSet(DOMAIN queue) /\ DOMAIN queue = 1..Len(queue)
            /\ Len(delivery) \in Nat /\ Len(queue) \in Nat
  <1> SUFFICES ASSUME TypeOK
      PROVE  /\ IsFiniteSet(DOMAIN job) /\ DOMAIN job = Requests
             /\ IsFiniteSet(DOMAIN request) /\ DOMAIN request = Requests
             /\ IsFiniteSet(DOMAIN worker) /\ DOMAIN worker = Workers
             /\ IsFiniteSet(DOMAIN sender) /\ DOMAIN sender = Senders
             /\ IsFiniteSet(DOMAIN delivery) /\ DOMAIN delivery = 1..Len(delivery)
             /\ IsFiniteSet(DOMAIN queue) /\ DOMAIN queue = 1..Len(queue)
             /\ Len(delivery) \in Nat /\ Len(queue) \in Nat
    OBVIOUS
  <1>1. /\ Len(delivery) \in Nat /\ DOMAIN delivery = 1..Len(delivery)
        /\ Len(queue) \in Nat /\ DOMAIN queue = 1..Len(queue)
    BY LenProperties DEF TypeOK
  <1>2. IsFiniteSet(1..Len(delivery)) /\ IsFiniteSet(1..Len(queue))
    BY <1>1, FS_Interval
  <1> QED BY <1>1, <1>2, HorizonAssumption DEF TypeOK

LEMMA BatchTypes ==
  ASSUME TypeOK
  PROVE  /\ \A j \in Requests : job[j] \in Job \cup {Spare} /\ job[j].waiters \subseteq Requests
         /\ \A w \in Workers : worker[w] \in WorkerRecord /\ worker[w].what.waiters \subseteq Requests
         /\ \A i \in DOMAIN delivery : delivery[i] \in Delivery /\ delivery[i].waiters \subseteq Requests
         /\ \A s \in Senders : sender[s] \in SenderRecord /\ sender[s].what.waiters \subseteq Requests
  <1>1. \A v \in Job \cup {Spare} : v.waiters \subseteq Requests
    BY DEF Job, Spare
  <1>2. \A v \in Delivery \cup {NoOne} : v.waiters \subseteq Requests
    BY DEF Delivery, NoOne
  <1>3. \A j \in Requests : job[j] \in Job \cup {Spare}
    BY DEF TypeOK
  <1>4. \A w \in Workers : worker[w] \in WorkerRecord /\ worker[w].what \in Job \cup {Spare}
    BY DEF TypeOK, WorkerRecord
  <1>5. \A i \in DOMAIN delivery : delivery[i] \in Delivery
    BY ElementOfSeq, LenProperties DEF TypeOK
  <1>6. \A s \in Senders : sender[s] \in SenderRecord /\ sender[s].what \in Delivery \cup {NoOne}
    BY DEF TypeOK, SenderRecord
  <1> QED BY <1>1, <1>2, <1>3, <1>4, <1>5, <1>6

\* Who is in a batch waits; who has been taken out of one by a sender is answered.
LEMMA CarriedFacts ==
  ASSUME TypeOK, Carried, NEW r \in Requests
  PROVE  /\ Tally(job, InJob(r)) \in Nat /\ Tally(worker, InWork(r)) \in Nat
         /\ Tally(delivery, InChannel(r)) \in Nat /\ Tally(sender, InHand(r)) \in Nat
         /\ Tally(sender, Told(r)) \in Nat
         /\ \A j \in Requests : r \in job[j].waiters => At(r, "waiting")
         /\ \A w \in Workers : r \in worker[w].what.waiters => At(r, "waiting")
         /\ \A i \in DOMAIN delivery : r \in delivery[i].waiters => At(r, "waiting")
         /\ \A s \in Senders : r \in sender[s].rest => At(r, "waiting")
         /\ \A s \in Senders : r \in sender[s].what.waiters \ sender[s].rest => At(r, "answered")
  <1> USE Finiteness
  <1>1. /\ Tally(job, InJob(r)) \in Nat /\ Tally(worker, InWork(r)) \in Nat
        /\ Tally(delivery, InChannel(r)) \in Nat /\ Tally(sender, InHand(r)) \in Nat
        /\ Tally(sender, Told(r)) \in Nat
    BY TallyFacts
  <1>2. /\ Tally(job, InJob(r)) + Tally(worker, InWork(r)) + Tally(delivery, InChannel(r))
             + Tally(sender, InHand(r)) >= 1 => At(r, "waiting")
        /\ Tally(sender, Told(r)) >= 1 => At(r, "answered")
    BY DEF Carried
  <1>3. ASSUME NEW j \in Requests, r \in job[j].waiters PROVE Tally(job, InJob(r)) >= 1
    <2>1. job[j] \in InJob(r)
      BY <1>3 DEF TypeOK, InJob
    <2> QED BY <2>1, TallyFacts
  <1>4. ASSUME NEW w \in Workers, r \in worker[w].what.waiters PROVE Tally(worker, InWork(r)) >= 1
    <2>1. worker[w] \in InWork(r)
      BY <1>4 DEF TypeOK, InWork
    <2> QED BY <2>1, TallyFacts
  <1>5. ASSUME NEW i \in DOMAIN delivery, r \in delivery[i].waiters
        PROVE  Tally(delivery, InChannel(r)) >= 1
    <2>1. delivery[i] \in InChannel(r)
      BY <1>5, ElementOfSeq DEF TypeOK, InChannel
    <2> QED BY <2>1, TallyFacts
  <1>6. ASSUME NEW s \in Senders, r \in sender[s].rest PROVE Tally(sender, InHand(r)) >= 1
    <2>1. sender[s] \in InHand(r)
      BY <1>6 DEF TypeOK, InHand
    <2> QED BY <2>1, TallyFacts
  <1>7. ASSUME NEW s \in Senders, r \in sender[s].what.waiters \ sender[s].rest
        PROVE  Tally(sender, Told(r)) >= 1
    <2>1. sender[s] \in Told(r)
      BY <1>7 DEF TypeOK, Told
    <2> QED BY <2>1, TallyFacts
  <1> HIDE Finiteness
  <1> QED BY <1>1, <1>2, <1>3, <1>4, <1>5, <1>6, <1>7

SameWork == \A w \in Workers : worker'[w].what = worker[w].what

\* Requests that nobody carries move.
LEMMA CarriedSame ==
  ASSUME TypeOK, TypeOK', Alike, Carried, UNCHANGED <<job, delivery, sender>>, SameWork,
         NEW R, NEW place \in Places \ {"waiting", "answered"}, Placed(R, place),
         \A r \in R \cap Requests : request[r].at \notin {"waiting", "answered"}
  PROVE  Alike' /\ Carried'
  <1>1. \A r \in Requests : Tally(worker', InWork(r)) = Tally(worker, InWork(r))
    <2> SUFFICES ASSUME NEW r \in Requests
        PROVE  Tally(worker', InWork(r)) = Tally(worker, InWork(r))
      OBVIOUS
    <2>1. /\ DOMAIN worker = Workers /\ DOMAIN worker' = Workers
          /\ \A w \in Workers : worker[w] \in WorkerRecord /\ worker'[w] \in WorkerRecord
      BY DEF TypeOK
    <2>2. \A w \in DOMAIN worker : worker[w] \in InWork(r) <=> worker'[w] \in InWork(r)
      BY <2>1 DEF SameWork, InWork
    <2> QED BY <2>1, <2>2, TallySame
  <1>2. \A r \in Requests : /\ request'[r].key = request[r].key
                            /\ request'[r].at = "waiting" <=> request[r].at = "waiting"
                            /\ request'[r].at = "answered" <=> request[r].at = "answered"
    BY DEF Placed
  <1>3. Carried'
    BY <1>1, <1>2 DEF Carried, At
  <1>4. Alike'
    BY <1>2, BatchTypes DEF Alike, SameWork, Key
  <1> QED BY <1>3, <1>4

-----------------------------------------------------------------------------
(* What a step leaves alone.                                               *)

LEMMA BooksSame ==
  ASSUME TypeOK, TypeOK', Books, UNCHANGED <<worker, sender, delivery, slots, leases>>, SameLeased,
         NEW R, NEW place \in Places \ {"slotted", "leased", "sending"}, Placed(R, place),
         \A r \in R \cap Requests : request[r].at \notin {"slotted", "leased", "sending"}
  PROVE  Books'
  <1>1. /\ DOMAIN request = Requests /\ DOMAIN request' = Requests
        /\ \A r \in Requests : request[r] \in RequestRecord /\ request'[r] \in RequestRecord
    BY DEF TypeOK
  <1>2. \A r \in DOMAIN request : (request[r] \in Slotted <=> request'[r] \in Slotted)
    BY <1>1 DEF Placed, Slotted
  <1>3. \A r \in DOMAIN request : (request[r] \in Leasing <=> request'[r] \in Leasing)
    BY <1>1 DEF Placed, Leasing, SameLeased
  <1>4. /\ Tally(request', Slotted) = Tally(request, Slotted)
        /\ Tally(request', Leasing) = Tally(request, Leasing)
    BY <1>1, <1>2, <1>3, TallySame
  <1> QED BY <1>4 DEF Books

LEMMA ReachedSame ==
  ASSUME TypeOK, Reached, UNCHANGED <<tickets, clearing>>,
         NEW R, NEW place \in Places \ {"awaiting"}, Placed(R, place),
         \A r \in R : request[r].at \notin {"waiting", "answered", "done", "dropped"}
  PROVE  Reached'
  <1>1. clearing \subseteq Requests
    BY DEF TypeOK
  <1>2. \A r \in clearing : r \notin R
    BY DEF Reached
  <1>3. \A r \in Requests : request'[r].at = "awaiting" => At(r, "awaiting") /\ request'[r].user = User(r)
    BY DEF Placed, At, User
  <1>4. \A r \in clearing : request'[r].at = request[r].at
    BY <1>1, <1>2 DEF Placed
  <1> QED BY <1>3, <1>4 DEF Reached, CancelReaches, At, User

LEMMA AloneSame ==
  ASSUME TypeOK, Alone, UNCHANGED <<worker, delivery, sender, attached, root>>,
         answered \subseteq answered',
         NEW R, NEW place \in Places \ {"answered"}, Placed(R, place),
         place = "done" => R \subseteq answered' \/ ~root
  PROVE  Alone'
  <1>1. ASSUME attached, NEW r \in Requests, request'[r].at = "answered" PROVE r \in answered'
    BY <1>1 DEF Alone, Placed, At
  <1>2. ASSUME attached, NEW r \in Requests, request'[r].at = "done" PROVE r \in answered' \/ ~root
    <2>1. CASE r \in R
      BY <1>2, <2>1 DEF Placed
    <2>2. CASE r \notin R
      BY <1>2, <2>2 DEF Placed, Alone, At, Answered
    <2> QED BY <2>1, <2>2
  <1> QED BY <1>1, <1>2 DEF Alone, At, Answered

LEMMA EmptiedSame ==
  ASSUME TypeOK, Emptied, UNCHANGED <<worker, queue, delivery, sender, process>>,
         NEW R, NEW place \in Places, Placed(R, place),
         place \in Owning => place \in InCall \/ closing # "closed"
  PROVE  Emptied'
  <1>1. ASSUME closing = "closed", NEW r \in Requests, request'[r].at \in Owning
        PROVE  request'[r].at \in InCall \cup {"waiting"}
    BY <1>1 DEF Placed, Emptied, Owns
  <1> QED BY <1>1 DEF Emptied, Owns, process

\* A call goes on, in the hands of nobody else.
LEMMA CallKeeps ==
  ASSUME Inv, TypeOK', UNCHANGED <<registry, channel>>, SameLeased,
         NEW R, NEW place \in Places \ {"waiting", "answered", "slotted", "leased", "sending"},
         R \subseteq Requests, Placed(R, place),
         \A r \in R : request[r].at \notin {"new", "waiting", "answered", "slotted", "leased", "sending"}
  PROVE  Named' /\ Alike' /\ Carried' /\ Equipped' /\ Live' /\ Books'
  <1>1. UNCHANGED <<jobs, job, queue, worker, sender, delivery, slots, leases>>
    BY DEF registry, channel
  <1>2. Named'
    BY NamedPlaced DEF Inv, At
  <1>3. Alike' /\ Carried'
    BY <1>1, CarriedSame DEF Inv, SameWork
  <1>4. Books'
    BY <1>1, BooksSame DEF Inv
  <1>5. Equipped' /\ Live'
    BY <1>1 DEF Inv, Equipped, Live
  <1> QED BY <1>2, <1>3, <1>4, <1>5

-----------------------------------------------------------------------------
(* The steps of a call.                                                    *)

LEMMA CallInv ==
  ASSUME Inv, UNCHANGED <<registry, channel, shared, process>>, cached' \in SUBSET Keys,
         active' \in [Users -> Keys \cup {None}], recent' \in [Users -> Keys \cup {None}],
         answered' \in SUBSET Requests, answered \subseteq answered', Marked', SameLeased,
         NEW R, NEW place \in Places \ {"waiting", "answered", "slotted", "leased", "sending",
                                        "awaiting"},
         R \subseteq Requests, Placed(R, place),
         place = "done" => R \subseteq answered' \/ ~root,
         place \in Owning => place \in InCall \/ closing # "closed",
         \A r \in R : request[r].at \notin {"new", "waiting", "answered", "slotted", "leased",
                                            "sending", "done", "dropped"}
  PROVE  Inv'
  <1>1. /\ UNCHANGED <<jobs, job, queue, worker, sender, delivery, slots, leases>>
        /\ UNCHANGED <<tickets, clearing, closing, root, attached>>
    BY DEF registry, channel, shared, process
  <1>2. TypeOK'
    BY <1>1 DEF Inv, TypeOK, Placed
  <1>3. Named' /\ Alike' /\ Carried' /\ Equipped' /\ Live' /\ Books'
    BY <1>2, CallKeeps
  <1>4. Reached'
    BY <1>1, ReachedSame DEF Inv
  <1>5. Alone'
    BY <1>1, AloneSame DEF Inv
  <1>6. Emptied'
    BY <1>1, EmptiedSame DEF Inv
  <1> QED BY <1>2, <1>3, <1>4, <1>5, <1>6 DEF Inv

LEMMA LoadInv ==
  ASSUME Inv, NEW r \in Requests, Load(r)
  PROVE  Inv'
  <1>1. PICK place \in {"hit", "missed"} : Moves({r}, place)
    BY DEF Load
  <1>2. Placed({r}, place) /\ SameLeased
    BY <1>1, MovesFacts DEF Inv, TypeOK, Places, Refusable
  <1>3. UNCHANGED <<active, recent, registry, channel, shared, process, cached, answered>>
    BY DEF Load, maps
  <1>4. Marked'
    BY <1>2, <1>3, MarkedSame, PlaceNames DEF Inv, Load, At, Owns, Places, Refusable
  <1>5. /\ request[r].at = "asked" /\ place \in Places \ Owning
        /\ place \notin {"waiting", "answered", "slotted", "leased", "sending", "awaiting", "done"}
    BY DEF Load, At, Places, Refusable, Owning
  <1>6. /\ active' \in [Users -> Keys \cup {None}] /\ recent' \in [Users -> Keys \cup {None}]
        /\ cached' \in SUBSET Keys /\ answered' \in SUBSET Requests
    BY <1>3 DEF Inv, TypeOK
  <1> QED BY <1>2, <1>3, <1>4, <1>5, <1>6, CallInv

\* Who is refused was not busy with this request, and is told.
LEMMA RefusedInv ==
  ASSUME Inv, NEW r \in Requests, Refused(r), request[r].at \in {"hit", "missed", "checked"},
         UNCHANGED <<active, recent, registry, channel, shared, process, cached>>
  PROVE  Inv'
  <1>1. Placed({r}, "done") /\ SameLeased
    BY MovesFacts DEF Inv, TypeOK, Refused, Places, Refusable
  <1>2. Marked'
    BY <1>1, MarkedSame, PlaceNames DEF Inv, Owns, Places, Refusable
  <1> QED BY <1>1, <1>2, CallInv DEF Inv, TypeOK, Refused, Places, Refusable, Owning

LEMMA ReservesInv ==
  ASSUME Inv, NEW r \in Requests, request[r].at \in {"hit", "missed"}, active[User(r)] = None,
         NEW place \in {"reserved", "submitting"}, Moves({r}, place), Reserves(r),
         UNCHANGED <<recent, registry, channel, shared, process, cached, answered>>
  PROVE  Inv'
  <1>1. Placed({r}, place) /\ SameLeased
    BY MovesFacts DEF Inv, TypeOK, Places, Owning
  <1>2. User(r) \in Users /\ Key(r) \in Keys
    BY DEF Inv, Named, At
  <1>3. Marked'
    BY <1>1, <1>2, MarkedEnters DEF Inv, Owning
  <1>4. active' \in [Users -> Keys \cup {None}]
    BY <1>2 DEF Inv, TypeOK, Reserves
  <1>5. place \in Places /\ place \in InCall
    BY DEF Places, Owning, InCall
  <1>6. /\ recent' \in [Users -> Keys \cup {None}]
        /\ cached' \in SUBSET Keys /\ answered' \in SUBSET Requests
    BY DEF Inv, TypeOK
  <1> QED BY <1>1, <1>3, <1>4, <1>5, <1>6, CallInv

LEMMA ReserveCachedInv ==
  ASSUME Inv, NEW r \in Requests, ReserveCached(r)
  PROVE  Inv'
  BY RefusedInv, ReservesInv DEF ReserveCached, At

LEMMA ReserveSharedInv ==
  ASSUME Inv, NEW r \in Requests, ReserveShared(r)
  PROVE  Inv'
  BY RefusedInv, ReservesInv DEF ReserveShared, At

LEMMA EnqueueRefusedInv ==
  ASSUME Inv, NEW r \in Requests, EnqueueRefused(r)
  PROVE  Inv'
  BY RefusedInv DEF EnqueueRefused, At, maps

LEMMA CheckInv ==
  ASSUME Inv, NEW r \in Requests, Check(r)
  PROVE  Inv'
  <1>1. /\ request[r].at = "missed" /\ Moves({r}, "checked")
        /\ UNCHANGED <<active, recent, registry, channel, shared, process, cached, answered>>
    BY DEF Check, At, maps
  <1>2. /\ "checked" \in Places \ Owning
        /\ active' \in [Users -> Keys \cup {None}] /\ recent' \in [Users -> Keys \cup {None}]
        /\ cached' \in SUBSET Keys /\ answered' \in SUBSET Requests
    BY <1>1 DEF Inv, TypeOK, Places, Refusable, Owning
  <1>3. Placed({r}, "checked") /\ SameLeased
    BY <1>1, <1>2, MovesFacts DEF Inv, TypeOK
  <1>4. Marked'
    BY <1>1, <1>2, <1>3, MarkedSame DEF Inv, Owns, Owning
  <1> QED BY <1>1, <1>2, <1>3, <1>4, CallInv

LEMMA FailCachedInv ==
  ASSUME Inv, NEW r \in Requests, FailCached(r)
  PROVE  Inv'
  <1>1. /\ request[r].at = "failing" /\ Finish(Key(r), {r})
        /\ answered' = answered \cup {r} /\ Moves({r}, "done")
        /\ UNCHANGED <<registry, channel, shared, process, cached>>
    BY DEF FailCached, At, Refused
  <1>2. Placed({r}, "done") /\ SameLeased
    BY <1>1, MovesFacts DEF Inv, TypeOK, Places, Refusable
  <1>3. Owns(r) /\ Key(r) \in Keys
    BY <1>1 DEF Inv, Named, At, Owns, Owning
  <1>4. Frees({r})
    BY <1>1, <1>3, FinishFrees DEF Inv
  <1>5. Marked'
    BY <1>2, <1>3, <1>4, MarkedLeaves DEF Inv, Refusable
  <1>6. active' \in [Users -> Keys \cup {None}] /\ recent' \in [Users -> Keys \cup {None}]
    BY <1>1, <1>3 DEF Finish, Inv, TypeOK
  <1>7. /\ "done" \in Places \ Owning
        /\ cached' \in SUBSET Keys /\ answered' \in SUBSET Requests
    BY <1>1 DEF Inv, TypeOK, Places, Refusable, Owning
  <1> QED BY <1>1, <1>2, <1>5, <1>6, <1>7, CallInv

\* A request that is no longer under way, and has been told or need not be.
LEMMA LeavesFacts ==
  ASSUME Inv, NEW r \in Requests, Leaves(r), Owns(r)
  PROVE  /\ Placed({r}, "done") /\ SameLeased /\ Marked'
         /\ active' \in [Users -> Keys \cup {None}]
  <1>1. Placed({r}, "done") /\ SameLeased
    BY PlaceTicketFacts DEF Inv, TypeOK, Leaves, Places, Refusable
  <1>2. Frees({r})
    BY ReleaseFrees DEF Inv, Leaves
  <1>3. Marked'
    BY <1>1, <1>2, MarkedLeaves DEF Inv, Refusable
  <1> QED BY <1>1, <1>2, <1>3 DEF Frees, Inv, TypeOK

LEMMA SubmitInv ==
  ASSUME Inv, NEW r \in Requests, Submit(r)
  PROVE  Inv'
  <1>1. /\ request[r].at = "submitting" /\ Owns(r)
        /\ UNCHANGED <<recent, registry, channel, shared, process, cached>>
    BY DEF Submit, At, Owns, Owning
  <1>2. /\ cached' \in SUBSET Keys /\ recent' \in [Users -> Keys \cup {None}]
        /\ active \in [Users -> Keys \cup {None}] /\ answered \in SUBSET Requests
        /\ {"submitted", "done"} \subseteq Places /\ "submitted" \in InCall \cap Owning
        /\ "done" \in Refusable \ Owning
    BY <1>1 DEF Inv, TypeOK, Places, Refusable, Owning, InCall
  <1>3. ASSUME NEW t \in {"pending", "ok"}, UNCHANGED <<active, answered>>,
               request' = [request EXCEPT ![r] = [@ EXCEPT !.at = "submitted", !.ticket = t]]
        PROVE  Inv'
    <2>1. Placed({r}, "submitted") /\ SameLeased
      BY <1>2, <1>3, PlaceTicketFacts DEF Inv, TypeOK
    <2>2. Marked'
      BY <1>1, <1>2, <1>3, <2>1, MarkedSame DEF Inv
    <2> QED BY <1>1, <1>2, <1>3, <2>1, <2>2, CallInv
  <1>4. CASE Release(r) /\ Refused(r)
    <2>1. Placed({r}, "done") /\ SameLeased /\ answered' = answered \cup {r}
      BY <1>2, <1>4, MovesFacts DEF Inv, TypeOK, Refused
    <2>2. Frees({r})
      BY <1>1, <1>4, ReleaseFrees DEF Inv
    <2>3. Marked' /\ active' \in [Users -> Keys \cup {None}]
      BY <1>1, <1>2, <2>1, <2>2, MarkedLeaves DEF Inv, Frees
    <2> QED BY <1>1, <1>2, <2>1, <2>3, CallInv
  <1> QED BY <1>1, <1>3, <1>4 DEF Submit

LEMMA RegisterInv ==
  ASSUME Inv, NEW r \in Requests, Register(r)
  PROVE  Inv'
  <1>1. /\ request[r].at = "submitted" /\ Owns(r)
        /\ UNCHANGED <<recent, registry, channel, clearing, process, cached>>
    BY DEF Register, At, Owns, Owning
  <1>2. /\ cached' \in SUBSET Keys /\ recent' \in [Users -> Keys \cup {None}]
        /\ active \in [Users -> Keys \cup {None}] /\ answered \in SUBSET Requests
        /\ {"awaiting", "done"} \subseteq Places /\ "awaiting" \in Owning
        /\ "done" \in Refusable \ Owning
    BY <1>1 DEF Inv, TypeOK, Places, Refusable, Owning
  <1>3. CASE /\ Running /\ tickets' = [tickets EXCEPT ![User(r)] = r]
             /\ Moves({r}, "awaiting") /\ UNCHANGED <<active, answered>>
    <2>1. Placed({r}, "awaiting") /\ SameLeased
      BY <1>2, <1>3, MovesFacts DEF Inv, TypeOK
    <2>2. User(r) \in Users /\ closing # "closed"
      BY <1>1, <1>3 DEF Inv, Named, At, Running
    <2>3. Marked'
      BY <1>1, <1>2, <1>3, <2>1, MarkedSame DEF Inv
    <2>4. /\ UNCHANGED <<jobs, job, queue, worker, sender, delivery, slots, leases>>
          /\ UNCHANGED <<clearing, closing, root, attached, active, answered>>
      BY <1>1, <1>3 DEF registry, channel, process
    <2>5. TypeOK'
      BY <1>2, <1>1, <1>3, <2>1, <2>2, <2>4 DEF Inv, TypeOK, Placed
    <2>6. Named' /\ Alike' /\ Carried' /\ Equipped' /\ Live' /\ Books'
      BY <1>1, <1>2, <2>1, <2>5, CallKeeps
    <2>7. Reached'
      <3>1. \A q \in Requests : request'[q].at = "awaiting" => q = r \/ (At(q, "awaiting") /\ User(q) # User(r))
        BY <1>1, <2>1 DEF Placed, At, Inv, Marked, Owns, Owning
      <3>2. \A q \in Requests : request'[q].user = User(q)
        BY <2>1 DEF Placed, User
      <3>3. tickets \in [Users -> Requests \cup {None}] /\ clearing \subseteq Requests /\ r \notin clearing
        BY <1>1 DEF Inv, TypeOK, Reached
      <3>4. CancelReaches'
        BY <1>3, <2>2, <3>1, <3>2, <3>3 DEF Inv, Reached, CancelReaches, At, User, Named
      <3>5. \A q \in clearing : request'[q].at = request[q].at
        BY <2>1, <3>3 DEF Placed
      <3> QED BY <2>4, <3>4, <3>5 DEF Reached, Inv
    <2>8. Alone'
      BY <1>2, <2>1, <2>4, AloneSame DEF Inv
    <2>9. Emptied'
      BY <1>1, <1>2, <2>1, <2>2, <2>4, EmptiedSame DEF Inv
    <2> QED BY <2>3, <2>5, <2>6, <2>7, <2>8, <2>9 DEF Inv
  <1>4. CASE ~Running /\ Leaves(r) /\ answered' = answered \cup {r} /\ UNCHANGED tickets
    <2>1. /\ Placed({r}, "done") /\ SameLeased /\ Marked'
          /\ active' \in [Users -> Keys \cup {None}]
      BY <1>1, <1>4, LeavesFacts
    <2>2. UNCHANGED shared
      BY <1>1, <1>4 DEF shared
    <2> QED BY <1>1, <1>2, <1>4, <2>1, <2>2, CallInv
  <1> QED BY <1>3, <1>4 DEF Register

\* Tickets end, are cancelled and forgotten; the caches forget.
LEMMA TicketInv ==
  ASSUME Inv, NEW r \in Requests, NEW t \in {"ok", "failed"},
         request' = [request EXCEPT ![r].ticket = t],
         UNCHANGED <<active, recent, registry, channel, shared, process, cached, answered>>
  PROVE  Inv'
  <1>1. Placed({}, "new") /\ SameLeased
    BY TicketFacts DEF Inv, TypeOK
  <1>2. "new" \in Places \ Owning
    BY DEF Places, Refusable, Owning
  <1>3. Marked'
    BY <1>1, <1>2, MarkedSame DEF Inv
  <1>4. /\ active' \in [Users -> Keys \cup {None}] /\ recent' \in [Users -> Keys \cup {None}]
        /\ cached' \in SUBSET Keys /\ answered' \in SUBSET Requests
    BY DEF Inv, TypeOK
  <1> QED BY <1>1, <1>2, <1>3, <1>4, CallInv

LEMMA CancelUserInv ==
  ASSUME Inv, NEW u \in Users, CancelUser(u)
  PROVE  Inv'
  <1>1. tickets[u] \in Requests
    BY DEF CancelUser, Inv, TypeOK
  <1> QED BY <1>1, TicketInv DEF CancelUser, maps

LEMMA TicketEndsInv ==
  ASSUME Inv, NEW r \in Requests, TicketEnds(r)
  PROVE  Inv'
  BY TicketInv DEF TicketEnds, maps

LEMMA AwaitInv ==
  ASSUME Inv, NEW r \in Requests, Await(r)
  PROVE  Inv'
  <1>1. /\ request[r].at = "awaiting" /\ Owns(r) /\ r \notin clearing
        /\ UNCHANGED <<recent, registry, channel, tickets, process, cached, answered>>
    BY DEF Await, At, Owns, Owning, Inv, Reached
  <1>2. /\ cached' \in SUBSET Keys /\ recent' \in [Users -> Keys \cup {None}]
        /\ active \in [Users -> Keys \cup {None}] /\ answered' \in SUBSET Requests
        /\ {"carrying", "done"} \subseteq Places /\ "carrying" \in Owning
        /\ "done" \in Refusable \ Owning
    BY <1>1 DEF Inv, TypeOK, Places, Refusable, Owning
  <1>3. closing # "closed"
    BY <1>1 DEF Inv, Emptied, InCall
  <1>4. CASE Moves({r}, "carrying") /\ UNCHANGED <<active, clearing>>
    <2>1. Placed({r}, "carrying") /\ SameLeased
      BY <1>2, <1>4, MovesFacts DEF Inv, TypeOK
    <2>2. Marked'
      BY <1>1, <1>2, <1>4, <2>1, MarkedSame DEF Inv
    <2>3. UNCHANGED shared
      BY <1>1, <1>4 DEF shared
    <2> QED BY <1>1, <1>2, <1>3, <1>4, <2>1, <2>2, <2>3, CallInv
  <1>5. CASE ~root /\ Leaves(r) /\ clearing' = clearing \cup {r}
    <2>1. /\ Placed({r}, "done") /\ SameLeased /\ Marked'
          /\ active' \in [Users -> Keys \cup {None}]
      BY <1>1, <1>5, LeavesFacts
    <2>2. /\ UNCHANGED <<jobs, job, queue, worker, sender, delivery, slots, leases>>
          /\ UNCHANGED <<tickets, closing, root, attached, answered>>
      BY <1>1 DEF registry, channel, process
    <2>3. TypeOK'
      BY <1>2, <1>5, <2>1, <2>2 DEF Inv, TypeOK, Placed
    <2>4. Named' /\ Alike' /\ Carried' /\ Equipped' /\ Live' /\ Books'
      BY <1>1, <1>2, <2>1, <2>3, CallKeeps
    <2>5. Reached'
      <3>1. \A q \in Requests : request'[q].at = "awaiting" => At(q, "awaiting") /\ request'[q].user = User(q)
        BY <2>1 DEF Placed, At, User
      <3>2. \A q \in clearing' : request'[q].at = (IF q = r THEN "done" ELSE request[q].at)
        BY <1>1, <1>5, <2>1 DEF Placed, Inv, TypeOK
      <3> QED BY <1>5, <2>2, <3>1, <3>2 DEF Reached, CancelReaches, At, User, Inv
    <2>6. Alone'
      BY <1>2, <1>5, <2>1, <2>2, AloneSame DEF Inv
    <2>7. Emptied'
      BY <1>2, <1>1, <2>1, <2>2, EmptiedSame DEF Inv
    <2> QED BY <2>1, <2>3, <2>4, <2>5, <2>6, <2>7 DEF Inv
  <1> QED BY <1>4, <1>5 DEF Await

LEMMA ClearInv ==
  ASSUME Inv, NEW r \in Requests, Clear(r)
  PROVE  Inv'
  <1>1. /\ UNCHANGED <<request, active, recent, jobs, job, queue, worker, sender, delivery, slots,
                       leases, closing, root, attached, cached, answered>>
        /\ r \in clearing /\ clearing' = clearing \ {r}
        /\ tickets' = [tickets EXCEPT ![User(r)] = IF @ = r THEN None ELSE @]
    BY DEF Clear, maps, registry, channel, process
  <1>2. tickets \in [Users -> Requests \cup {None}]
    BY DEF Inv, TypeOK
  <1>3. TypeOK'
    <2>1. tickets' \in [Users -> Requests \cup {None}]
      BY <1>1, <1>2
    <2> QED BY <1>1, <2>1 DEF Inv, TypeOK
  <1>4. /\ Named' /\ Marked' /\ Alike' /\ Carried' /\ Equipped' /\ Live' /\ Books' /\ Alone'
        /\ Emptied'
    <2>1. Named' /\ Marked' /\ Alike'
      BY <1>1 DEF Inv, Named, Marked, Alike, At, User, Key, Owns
    <2>2. Carried'
      BY <1>1 DEF Inv, Carried, At
    <2>3. Equipped' /\ Live'
      BY <1>1 DEF Inv, Equipped, Live
    <2>4. Books'
      BY <1>1 DEF Inv, Books
    <2>5. Alone' /\ Emptied'
      BY <1>1 DEF Inv, Alone, Emptied, At, Owns, Answered
    <2> QED BY <2>1, <2>2, <2>3, <2>4, <2>5
  <1>5. Reached'
    <2>1. \A q \in Requests : At(q, "awaiting") => q # r /\ tickets[User(q)] = q
      BY <1>1 DEF Inv, Reached, CancelReaches, At
    <2>2. \A q \in Requests : At(q, "awaiting") => tickets'[User(q)] = q
      BY <1>1, <1>2, <2>1 DEF Inv, Named, At
    <2> QED BY <1>1, <2>2 DEF Inv, Reached, CancelReaches, At, User
  <1> QED BY <1>3, <1>4, <1>5 DEF Inv

LEMMA ForgetInv ==
  ASSUME Inv, UNCHANGED <<request, active, registry, channel, shared, process, answered>>,
         recent' \in [Users -> Keys \cup {None}], cached' \in SUBSET Keys
  PROVE  Inv'
  <1>1. /\ UNCHANGED <<request, active, jobs, job, queue, worker, sender, delivery, slots,
                       leases, tickets, clearing, closing, root, attached, answered>>
    BY DEF registry, channel, shared, process
  <1>2. TypeOK'
    BY <1>1 DEF Inv, TypeOK
  <1>3. Named' /\ Marked' /\ Alike'
    BY <1>1 DEF Inv, Named, Marked, Alike, At, User, Key, Owns
  <1>4. Carried'
    BY <1>1 DEF Inv, Carried, At
  <1>5. Equipped' /\ Live'
    BY <1>1 DEF Inv, Equipped, Live
  <1>6. Books'
    BY <1>1 DEF Inv, Books
  <1>7. Reached'
    BY <1>1 DEF Inv, Reached, CancelReaches, At, User
  <1>8. Alone' /\ Emptied'
    BY <1>1 DEF Inv, Alone, Emptied, At, Owns, Answered
  <1> QED BY <1>2, <1>3, <1>4, <1>5, <1>6, <1>7, <1>8 DEF Inv

LEMMA EvictInv ==
  ASSUME Inv, NEW k \in Keys, Evict(k)
  PROVE  Inv'
  BY ForgetInv DEF Evict, maps, Inv, TypeOK

LEMMA CoolInv ==
  ASSUME Inv, NEW u \in Users, Cool(u)
  PROVE  Inv'
  <1>1. recent' \in [Users -> Keys \cup {None}]
    BY DEF Cool, Inv, TypeOK
  <1> QED BY <1>1, ForgetInv DEF Cool, Inv, TypeOK

\* The context ends, or Close begins.
LEMMA EndsInv ==
  ASSUME Inv, RootEnds \/ CloseBegins \/ CloseCancels
  PROVE  Inv'
  <1>1. /\ UNCHANGED <<request, active, recent, jobs, job, queue, worker, sender, delivery, slots,
                       leases, tickets, clearing, attached, cached, answered>>
        /\ closing' \in {closing, "closing"} /\ root' \in {root, FALSE}
        /\ closing' = "closed" => closing = "closed"
    BY DEF RootEnds, CloseBegins, CloseCancels, maps, registry, channel, shared
  <1>2. root' => root
    BY <1>1
  <1>3. TypeOK'
    BY <1>1 DEF Inv, TypeOK
  <1>4. Named' /\ Marked' /\ Alike' /\ Carried' /\ Equipped' /\ Live' /\ Books' /\ Reached'
    <2>1. Named' /\ Marked' /\ Alike'
      BY <1>1 DEF Inv, Named, Marked, Alike, At, User, Key, Owns
    <2>2. Carried'
      BY <1>1 DEF Inv, Carried, At
    <2>3. Equipped' /\ Live' /\ Books' /\ Reached'
      BY <1>1 DEF Inv, Equipped, Live, Books, Reached, CancelReaches, At, User
    <2> QED BY <2>1, <2>2, <2>3
  <1>5. Alone' /\ Emptied'
    BY <1>1, <1>2 DEF Inv, Alone, Emptied, Answered, At, Owns
  <1> QED BY <1>3, <1>4, <1>5 DEF Inv

LEMMA AskInv ==
  ASSUME Inv, NEW r \in Requests, NEW u \in Users, NEW k \in Keys, Ask(r, u, k)
  PROVE  Inv'
  <1>1. /\ request' \in [Requests -> RequestRecord]
        /\ \A q \in Requests \ {r} : request'[q] = request[q]
        /\ request[r].at = "new" /\ request'[r].user = u /\ request'[r].key = k
        /\ \/ request'[r].at = "asked" /\ answered' = answered
           \/ request'[r].at = "done" /\ answered' = answered \cup {r}
    BY AskFacts DEF Inv
  <1>2. UNCHANGED <<active, recent, jobs, job, queue, worker, sender, delivery, slots,
                    leases, tickets, clearing, closing, root, attached, cached>>
    BY DEF Ask, maps, registry, channel, shared, process
  <1>3. TypeOK'
    BY <1>1, <1>2 DEF Inv, TypeOK
  <1>4. \A q \in Requests : /\ (request'[q].at \in Owning <=> Owns(q))
                            /\ Owns(q) => q # r
    BY <1>1 DEF Owns, Owning
  <1>5. Named' /\ Marked'
    BY <1>1, <1>2, <1>4 DEF Inv, Named, Marked, At, User, Key, Owns
  <1>6. Carried'
    BY <1>1, <1>2 DEF Inv, Carried, At
  <1>7. Alike'
    <2>1. \A q \in Requests : At(q, "waiting") \/ At(q, "answered") => request'[q].key = Key(q)
      BY <1>1 DEF At, Key
    <2>2. /\ \A j \in Requests : \A q \in job[j].waiters : q \in Requests /\ At(q, "waiting")
          /\ \A w \in Workers : \A q \in worker[w].what.waiters : q \in Requests /\ At(q, "waiting")
          /\ \A i \in DOMAIN delivery : \A q \in delivery[i].waiters : q \in Requests /\ At(q, "waiting")
          /\ \A s \in Senders : \A q \in sender[s].what.waiters :
               q \in Requests /\ (At(q, "waiting") \/ At(q, "answered"))
      BY BatchTypes, CarriedFacts DEF Inv
    <2> QED BY <1>2, <2>1, <2>2 DEF Inv, Alike, Key
  <1>8. Equipped' /\ Live'
    BY <1>2 DEF Inv, Equipped, Live
  <1>9. Books'
    <2>1. DOMAIN request = Requests /\ DOMAIN request' = Requests
      BY <1>1 DEF Inv, TypeOK
    <2>2. \A q \in DOMAIN request : /\ (request[q] \in Slotted <=> request'[q] \in Slotted)
                                    /\ (request[q] \in Leasing <=> request'[q] \in Leasing)
      BY <1>1, <2>1 DEF Slotted, Leasing
    <2>3. /\ Tally(request', Slotted) = Tally(request, Slotted)
          /\ Tally(request', Leasing) = Tally(request, Leasing)
      BY <2>1, <2>2, TallySame
    <2> QED BY <1>2, <2>3 DEF Inv, Books
  <1>10. Reached'
    BY <1>1, <1>2 DEF Inv, TypeOK, Reached, CancelReaches, At, User
  <1>11. Alone' /\ Emptied'
    BY <1>1, <1>2, <1>4 DEF Inv, Alone, Emptied, At, Answered, Owns
  <1> QED BY <1>3, <1>5, <1>6, <1>7, <1>8, <1>9, <1>10, <1>11 DEF Inv

-----------------------------------------------------------------------------
(* Slots and leases.                                                       *)

LEMMA BooksFacts ==
  ASSUME TypeOK
  PROVE  /\ Tally(request, Slotted) \in Nat /\ Tally(request, Leasing) \in Nat
         /\ Tally(delivery, SlottedItem) \in Nat /\ Tally(delivery, LeasedItem) \in Nat
         /\ Tally(sender, SlottedBatch) \in Nat /\ Tally(sender, LeasedBatch) \in Nat
         /\ Tally(worker, LeasedWork) \in Nat
         /\ \A r \in Requests : request[r] \in Slotted => Tally(request, Slotted) >= 1
         /\ \A r \in Requests : request[r] \in Leasing => Tally(request, Leasing) >= 1
         /\ \A s \in Senders : sender[s] \in SlottedBatch => Tally(sender, SlottedBatch) >= 1
         /\ \A s \in Senders : sender[s] \in LeasedBatch => Tally(sender, LeasedBatch) >= 1
         /\ \A w \in Workers : worker[w] \in LeasedWork => Tally(worker, LeasedWork) >= 1
  BY Finiteness, TallyFacts

LEMMA RequestTally ==
  ASSUME TypeOK, request' \in [Requests -> RequestRecord], NEW r \in Requests,
         \A q \in Requests \ {r} : request'[q] = request[q], NEW T
  PROVE  /\ request[r] \in T /\ request'[r] \notin T => Tally(request', T) = Tally(request, T) - 1
         /\ request[r] \notin T /\ request'[r] \in T => Tally(request', T) = Tally(request, T) + 1
         /\ (request[r] \in T <=> request'[r] \in T) => Tally(request', T) = Tally(request, T)
  <1>1. /\ IsFiniteSet(DOMAIN request) /\ DOMAIN request = Requests
        /\ DOMAIN request' = Requests
    BY Finiteness
  <1> QED BY <1>1, TallyChanges

\* A call takes or gives back a slot or a lease.
LEMMA HoldsInv ==
  ASSUME Inv, UNCHANGED <<active, recent, registry, sender, delivery, shared, process, cached, answered>>,
         NEW r \in Requests, NEW place \in {"slotted", "leased", "sending", "failing"}, Placed({r}, place),
         \A q \in Requests \ {r} : request'[q] = request[q],
         request[r].at \in {"reserved", "slotted", "leased", "carrying"},
         place = "sending" => request[r].at = "carrying",
         slots' \in 0..CacheShare, leases' \in Nat, Books'
  PROVE  Inv'
  <1>1. /\ UNCHANGED <<active, jobs, job, queue, worker, sender, delivery>>
        /\ UNCHANGED <<tickets, clearing, closing, root, attached, cached, answered>>
    BY DEF registry, shared, process
  <1>2. TypeOK'
    BY <1>1 DEF Inv, TypeOK, Placed
  <1>3. /\ place \in Owning /\ Owns(r) /\ place \in Places \ {"waiting", "answered", "awaiting"}
        /\ ~At(r, "new") /\ request[r].at \notin {"waiting", "answered", "done", "dropped"}
        /\ request[r].at = "carrying" => request[r].at \notin InCall
        /\ place # "sending" => place \in InCall
    BY DEF Owns, Owning, Places, At, InCall
  <1>4. Named' /\ Marked'
    BY <1>1, <1>3, NamedPlaced, MarkedSame DEF Inv
  <1>5. Alike' /\ Carried'
    BY <1>1, <1>2, <1>3, CarriedSame DEF Inv, SameWork
  <1>6. Equipped' /\ Live'
    BY <1>1 DEF Inv, Equipped, Live
  <1>7. Reached'
    BY <1>1, <1>3, ReachedSame DEF Inv
  <1>8. Alone'
    BY <1>1, <1>3, AloneSame DEF Inv
  <1>9. Emptied'
    BY <1>1, <1>3, EmptiedSame DEF Inv, Emptied
  <1> QED BY <1>2, <1>4, <1>5, <1>6, <1>7, <1>8, <1>9 DEF Inv

\* A call gives up.
LEMMA GivesUpInv ==
  ASSUME Inv, NEW r \in Requests, Moves({r}, "failing"), request[r].at = "reserved",
         UNCHANGED <<active, recent, registry, channel, shared, process, cached, answered>>
  PROVE  Inv'
  <1>1. Placed({r}, "failing") /\ SameLeased
    BY MovesFacts DEF Inv, TypeOK, Places, Owning
  <1>2. "failing" \in Owning /\ "failing" \in Places /\ "failing" \in InCall /\ Owns(r)
    BY DEF Places, Owning, InCall, Owns
  <1>3. Marked'
    BY <1>1, <1>2, MarkedSame DEF Inv
  <1>4. /\ active' \in [Users -> Keys \cup {None}] /\ recent' \in [Users -> Keys \cup {None}]
        /\ cached' \in SUBSET Keys /\ answered' \in SUBSET Requests
    BY DEF Inv, TypeOK
  <1> QED BY <1>1, <1>2, <1>3, <1>4, CallInv

LEMMA TakeSlotInv ==
  ASSUME Inv, NEW r \in Requests, TakeSlot(r)
  PROVE  Inv'
  <1>1. /\ request[r].at = "reserved"
        /\ UNCHANGED <<active, recent, registry, sender, delivery, leases, shared, process, cached,
                       answered>>
    BY DEF TakeSlot, At, maps
  <1>2. CASE slots < CacheShare /\ slots' = slots + 1 /\ Moves({r}, "slotted")
    <2>1. /\ Placed({r}, "slotted") /\ SameLeased
          /\ \A q \in Requests \ {r} : request'[q] = request[q]
      BY <1>2, MovesFacts DEF Inv, TypeOK, Places, Owning
    <2>2. /\ request[r] \notin Slotted /\ request'[r] \in Slotted
          /\ request[r] \notin Leasing /\ request'[r] \notin Leasing
      BY <1>1, <2>1 DEF Slotted, Leasing, Placed
    <2>3. /\ Tally(request', Slotted) = Tally(request, Slotted) + 1
          /\ Tally(request', Leasing) = Tally(request, Leasing)
      BY <2>1, <2>2, RequestTally DEF Inv, Placed
    <2>4. worker' = worker
      BY <1>1 DEF registry
    <2>5. Books'
      BY <1>1, <1>2, <2>3, <2>4, BooksFacts DEF Inv, Books
    <2>6. slots' \in 0..CacheShare /\ leases' \in Nat
      BY <1>1, <1>2, HorizonAssumption DEF Inv, TypeOK
    <2> QED BY <1>1, <2>1, <2>5, <2>6, HoldsInv
  <1>3. CASE Moves({r}, "failing") /\ UNCHANGED slots
    BY <1>1, <1>3, GivesUpInv DEF channel
  <1> QED BY <1>2, <1>3 DEF TakeSlot

LEMMA LeaseCachedInv ==
  ASSUME Inv, NEW r \in Requests, LeaseCached(r)
  PROVE  Inv'
  <1>1. /\ request[r].at = "slotted" /\ worker' = worker
        /\ UNCHANGED <<active, recent, registry, sender, delivery, shared, process, cached, answered>>
    BY DEF LeaseCached, At, maps, registry
  <1>2. slots \in 0..CacheShare /\ leases \in Nat
    BY DEF Inv, TypeOK
  <1>3. CASE leases' = leases + 1 /\ Moves({r}, "leased") /\ UNCHANGED slots
    <2>1. /\ Placed({r}, "leased") /\ SameLeased
          /\ \A q \in Requests \ {r} : request'[q] = request[q]
      BY <1>3, MovesFacts DEF Inv, TypeOK, Places, Owning
    <2>2. /\ request[r] \in Slotted /\ request'[r] \in Slotted
          /\ request[r] \notin Leasing /\ request'[r] \in Leasing
      BY <1>1, <2>1 DEF Slotted, Leasing, Placed, Inv, TypeOK
    <2>3. /\ Tally(request', Slotted) = Tally(request, Slotted)
          /\ Tally(request', Leasing) = Tally(request, Leasing) + 1
      BY <2>1, <2>2, RequestTally DEF Inv, Placed
    <2>4. Books'
      BY <1>1, <1>3, <2>3, BooksFacts DEF Inv, Books
    <2> QED BY <1>1, <1>2, <1>3, <2>1, <2>4, HoldsInv
  <1>4. CASE slots' = slots - 1 /\ Moves({r}, "failing") /\ UNCHANGED leases
    <2>1. /\ Placed({r}, "failing") /\ SameLeased
          /\ \A q \in Requests \ {r} : request'[q] = request[q]
      BY <1>4, MovesFacts DEF Inv, TypeOK, Places, Owning
    <2>2. /\ request[r] \in Slotted /\ request'[r] \notin Slotted
          /\ request[r] \notin Leasing /\ request'[r] \notin Leasing
      BY <1>1, <2>1 DEF Slotted, Leasing, Placed, Inv, TypeOK
    <2>3. /\ Tally(request', Slotted) = Tally(request, Slotted) - 1
          /\ Tally(request', Leasing) = Tally(request, Leasing)
      BY <2>1, <2>2, RequestTally DEF Inv, Placed
    <2>4. Books' /\ slots >= 1
      BY <1>1, <1>4, <2>2, <2>3, BooksFacts DEF Inv, Books
    <2>5. slots' \in 0..CacheShare
      BY <1>2, <1>4, <2>4, HorizonAssumption
    <2> QED BY <1>1, <1>2, <1>4, <2>1, <2>4, <2>5, HoldsInv
  <1> QED BY <1>3, <1>4 DEF LeaseCached

LEMMA LeaseSharedInv ==
  ASSUME Inv, NEW r \in Requests, LeaseShared(r)
  PROVE  Inv'
  <1>1. /\ request[r].at = "carrying" /\ worker' = worker
        /\ UNCHANGED <<active, recent, registry, sender, delivery, slots, shared, process, cached, answered>>
    BY DEF LeaseShared, At, maps, registry
  <1>2. slots \in 0..CacheShare /\ leases \in Nat
    BY DEF Inv, TypeOK
  <1>3. PICK ok \in BOOLEAN :
          /\ request' = [request EXCEPT ![r] = [@ EXCEPT !.at = "sending", !.leased = ok]]
          /\ leases' = (IF ok THEN leases + 1 ELSE leases)
    BY DEF LeaseShared
  <1>4. /\ Placed({r}, "sending") /\ request'[r].leased = ok
        /\ \A q \in Requests \ {r} : request'[q] = request[q]
    BY <1>3, PlaceLeasedFacts DEF Inv, TypeOK, Places, Owning
  <1>5. /\ request[r] \notin Slotted /\ request'[r] \notin Slotted
        /\ request[r] \notin Leasing /\ (request'[r] \in Leasing <=> ok)
    BY <1>1, <1>4 DEF Slotted, Leasing, Placed
  <1>6. /\ Tally(request', Slotted) = Tally(request, Slotted)
        /\ Tally(request', Leasing) = Tally(request, Leasing) + (IF ok THEN 1 ELSE 0)
    BY <1>4, <1>5, RequestTally, BooksFacts DEF Inv, Placed
  <1>7. Books'
    BY <1>1, <1>2, <1>3, <1>6, BooksFacts DEF Inv, Books
  <1>8. slots' \in 0..CacheShare /\ leases' \in Nat
    BY <1>1, <1>2, <1>3
  <1> QED BY <1>1, <1>4, <1>7, <1>8, HoldsInv

-----------------------------------------------------------------------------
(* The channel of results.                                                 *)

LEMMA AppendFacts ==
  ASSUME NEW S, NEW q \in Seq(S), NEW v \in S
  PROVE  /\ Append(q, v) \in Seq(S) /\ Len(Append(q, v)) = Len(q) + 1
         /\ \A i \in DOMAIN Append(q, v) : Append(q, v)[i] = v \/ (i \in DOMAIN q /\ Append(q, v)[i] = q[i])
  OBVIOUS

LEMMA TailFacts ==
  ASSUME NEW S, NEW q \in Seq(S), q # <<>>
  PROVE  /\ Tail(q) \in Seq(S) /\ Len(Tail(q)) = Len(q) - 1 /\ Head(q) \in S /\ Len(q) >= 1
         /\ 1 \in DOMAIN q /\ Head(q) = q[1]
         /\ \A i \in DOMAIN Tail(q) : i + 1 \in DOMAIN q /\ Tail(q)[i] = q[i + 1]
  BY EmptySeq, HeadTailProperties

\* A result of one request enters the channel.
LEMMA EntersInv ==
  ASSUME Inv, NEW r \in Requests, NEW x \in Delivery, x.waiters = {r}, x.key = Key(r),
         Moves({r}, "waiting"), delivery' = Append(delivery, x), Len(delivery) < DeliverySize,
         request[r].at \in {"leased", "sending"}, closing # "closed",
         request[r] \in Slotted <=> x.slot, request[r] \in Leasing <=> x.leased,
         UNCHANGED <<active, recent, registry, sender, slots, leases, tickets, process, cached, answered>>,
         clearing' \in {clearing, clearing \cup {r}}
  PROVE  Inv'
  <1>1. UNCHANGED <<active, jobs, job, queue, worker, sender, slots, leases, tickets, closing, root,
                    attached, cached, answered>>
    BY DEF registry, process
  <1>2. /\ "waiting" \in Owning \cap Places /\ Owns(r) /\ ~At(r, "new")
        /\ request[r].at \notin {"waiting", "answered", "awaiting"}
    BY DEF Owning, Places, Owns, At
  <1>3. /\ Placed({r}, "waiting") /\ SameLeased
        /\ \A q \in Requests \ {r} : request'[q] = request[q]
    BY <1>2, MovesFacts DEF Inv, TypeOK
  <1>4. /\ delivery' \in Seq(Delivery) /\ Len(delivery') = Len(delivery) + 1
        /\ \A i \in DOMAIN delivery' :
             delivery'[i] = x \/ (i \in DOMAIN delivery /\ delivery'[i] = delivery[i])
    BY AppendFacts DEF Inv, TypeOK
  <1>5. \A T : /\ x \in T => Tally(delivery', T) = Tally(delivery, T) + 1
               /\ x \notin T => Tally(delivery', T) = Tally(delivery, T)
    BY TallyAppend DEF Inv, TypeOK
  <1>6. TypeOK'
    BY <1>1, <1>3, <1>4, HorizonAssumption DEF Inv, TypeOK, Placed
  <1>7. Named' /\ Marked'
    BY <1>1, <1>2, <1>3, NamedPlaced, MarkedSame DEF Inv
  <1>8. Alike'
    <2>1. \A q \in Requests : request'[q].key = Key(q)
      BY <1>3 DEF Placed, Key
    <2>2. \A i \in DOMAIN delivery' : \A q \in delivery'[i].waiters : request'[q].key = delivery'[i].key
      BY <1>4, <2>1, BatchTypes DEF Inv, Alike
    <2> QED BY <1>1, <2>1, <2>2, BatchTypes DEF Inv, Alike, Key
  <1>9. Carried'
    <2> SUFFICES ASSUME NEW q \in Requests
        PROVE  /\ Tally(job, InJob(q)) + Tally(worker, InWork(q)) + Tally(delivery', InChannel(q))
                    + Tally(sender, InHand(q)) = (IF request'[q].at = "waiting" THEN 1 ELSE 0)
               /\ Tally(sender, Told(q)) = (IF request'[q].at = "answered" THEN 1 ELSE 0)
      BY <1>1 DEF Carried, At
    <2>1. x \in InChannel(q) <=> q = r
      BY DEF InChannel
    <2>2. /\ (request'[q].at = "waiting" <=> (q = r \/ At(q, "waiting")))
          /\ (request'[q].at = "answered" <=> At(q, "answered"))
      BY <1>2, <1>3 DEF Placed, At
    <2>3. /\ Tally(job, InJob(q)) \in Nat /\ Tally(worker, InWork(q)) \in Nat
          /\ Tally(delivery, InChannel(q)) \in Nat /\ Tally(sender, InHand(q)) \in Nat
      BY CarriedFacts DEF Inv
    <2>4. ~At(r, "waiting")
      BY <1>2 DEF At
    <2> QED BY <1>5, <2>1, <2>2, <2>3, <2>4 DEF Inv, Carried
  <1>10. Equipped' /\ Live'
    BY <1>1 DEF Inv, Equipped, Live
  <1>11. Books'
    <2>1. request'[r] \notin Slotted /\ request'[r] \notin Leasing
      BY <1>3 DEF Placed, Slotted, Leasing
    <2>2. /\ (x \in SlottedItem <=> x.slot) /\ (x \in LeasedItem <=> x.leased)
      BY DEF SlottedItem, LeasedItem
    <2>3. /\ Tally(request', Slotted) = Tally(request, Slotted) - (IF x.slot THEN 1 ELSE 0)
          /\ Tally(request', Leasing) = Tally(request, Leasing) - (IF x.leased THEN 1 ELSE 0)
      BY <1>3, <2>1, RequestTally, BooksFacts DEF Inv, Placed
    <2>4. /\ Tally(delivery', SlottedItem) = Tally(delivery, SlottedItem) + (IF x.slot THEN 1 ELSE 0)
          /\ Tally(delivery', LeasedItem) = Tally(delivery, LeasedItem) + (IF x.leased THEN 1 ELSE 0)
      BY <1>5, <2>2, BooksFacts DEF Inv
    <2>5. /\ Tally(request', Slotted) + Tally(delivery', SlottedItem)
               = Tally(request, Slotted) + Tally(delivery, SlottedItem)
          /\ Tally(request', Leasing) + Tally(delivery', LeasedItem)
               = Tally(request, Leasing) + Tally(delivery, LeasedItem)
      <3>1. /\ Tally(request, Slotted) \in Nat /\ Tally(delivery, SlottedItem) \in Nat
            /\ Tally(request, Leasing) \in Nat /\ Tally(delivery, LeasedItem) \in Nat
        BY BooksFacts DEF Inv
      <3>2. Tally(request', Slotted) + Tally(delivery', SlottedItem)
              = Tally(request, Slotted) + Tally(delivery, SlottedItem)
        <4>1. CASE x.slot
          BY <2>3, <2>4, <3>1, <4>1
        <4>2. CASE ~x.slot
          BY <2>3, <2>4, <3>1, <4>2
        <4> QED BY <4>1, <4>2
      <3>3. Tally(request', Leasing) + Tally(delivery', LeasedItem)
              = Tally(request, Leasing) + Tally(delivery, LeasedItem)
        <4>1. CASE x.leased
          BY <2>3, <2>4, <3>1, <4>1
        <4>2. CASE ~x.leased
          BY <2>3, <2>4, <3>1, <4>2
        <4> QED BY <4>1, <4>2
      <3> QED BY <3>2, <3>3
    <2>6. /\ slots = Tally(request, Slotted) + Tally(delivery, SlottedItem) + Tally(sender, SlottedBatch)
          /\ leases = Tally(request, Leasing) + Tally(delivery, LeasedItem) + Tally(worker, LeasedWork)
                       + Tally(sender, LeasedBatch)
      BY DEF Inv, Books
    <2>7. slots = Tally(request', Slotted) + Tally(delivery', SlottedItem) + Tally(sender, SlottedBatch)
      BY <2>5, <2>6
    <2>8. leases = Tally(request', Leasing) + Tally(delivery', LeasedItem) + Tally(worker, LeasedWork)
                     + Tally(sender, LeasedBatch)
      BY <2>5, <2>6
    <2> QED BY <1>1, <2>7, <2>8 DEF Books
  <1>12. Reached'
    <2>1. \A q \in Requests : request'[q].at = "awaiting" => At(q, "awaiting") /\ request'[q].user = User(q)
      BY <1>3 DEF Placed, At, User
    <2>2. \A q \in clearing' : q \in Requests /\ (q = r \/ request'[q].at = request[q].at)
      BY <1>3 DEF Placed, Inv, TypeOK
    <2>3. request'[r].at = "waiting"
      BY <1>3 DEF Placed
    <2> QED BY <1>1, <2>1, <2>2, <2>3 DEF Reached, CancelReaches, At, User, Inv
  <1>13. Alone'
    <2>1. \A q \in Requests : request'[q].at \in {"answered", "done"} => request[q].at = request'[q].at
      BY <1>3 DEF Placed
    <2> QED BY <1>1, <1>4, <2>1 DEF Inv, Alone, At, Answered
  <1>14. Emptied'
    BY <1>1 DEF Inv, Emptied
  <1> QED BY <1>6, <1>7, <1>8, <1>9, <1>10, <1>11, <1>12, <1>13, <1>14 DEF Inv

LEMMA SendCachedInv ==
  ASSUME Inv, NEW r \in Requests, SendCached(r)
  PROVE  Inv'
  <1>1. /\ request[r].at = "leased" /\ worker' = worker /\ Key(r) \in Keys
        /\ UNCHANGED <<active, recent, registry, sender, shared, process, cached, answered>>
    BY DEF SendCached, At, maps, registry, Inv, Named
  <1>2. request[r] \in Slotted /\ request[r] \in Leasing
    BY <1>1 DEF Slotted, Leasing, Inv, TypeOK
  <1>3. ASSUME Running, Len(delivery) < DeliverySize, UNCHANGED <<slots, leases>>, Moves({r}, "waiting"),
               delivery' = Append(delivery, [key |-> Key(r), waiters |-> {r}, leased |-> TRUE, slot |-> TRUE])
        PROVE  Inv'
    <2> DEFINE x == [key |-> Key(r), waiters |-> {r}, leased |-> TRUE, slot |-> TRUE]
    <2>1. x \in Delivery /\ x.waiters = {r} /\ x.key = Key(r) /\ x.slot /\ x.leased
      BY <1>1 DEF Delivery
    <2>2. closing # "closed"
      BY <1>3 DEF Running
    <2>3. delivery' = Append(delivery, x)
      BY <1>3
    <2> HIDE DEF x
    <2> QED BY <1>1, <1>2, <1>3, <2>1, <2>2, <2>3, EntersInv DEF shared
  <1>4. CASE leases' = leases - 1 /\ slots' = slots - 1 /\ Moves({r}, "failing") /\ UNCHANGED delivery
    <2>1. /\ Placed({r}, "failing") /\ \A q \in Requests \ {r} : request'[q] = request[q]
      BY <1>4, MovesFacts DEF Inv, TypeOK, Places, Owning
    <2>2. request'[r] \notin Slotted /\ request'[r] \notin Leasing
      BY <2>1 DEF Slotted, Leasing, Placed
    <2>3. /\ Tally(request', Slotted) = Tally(request, Slotted) - 1
          /\ Tally(request', Leasing) = Tally(request, Leasing) - 1
      BY <1>2, <2>1, <2>2, RequestTally DEF Inv, Placed
    <2>4. Books' /\ slots >= 1 /\ leases >= 1
      BY <1>1, <1>2, <1>4, <2>3, BooksFacts DEF Inv, Books
    <2>5. slots' \in 0..CacheShare /\ leases' \in Nat
      BY <1>4, <2>4, HorizonAssumption DEF Inv, TypeOK
    <2> QED BY <1>1, <1>4, <2>1, <2>4, <2>5, HoldsInv
  <1> QED BY <1>3, <1>4 DEF SendCached

LEMMA SendSharedInv ==
  ASSUME Inv, NEW r \in Requests, SendShared(r)
  PROVE  Inv'
  <1>1. /\ request[r].at = "sending" /\ Owns(r) /\ Key(r) \in Keys /\ request[r].leased \in BOOLEAN
        /\ UNCHANGED <<registry, sender, slots, tickets, process, cached, answered>>
        /\ clearing' = clearing \cup {r}
    BY DEF SendShared, At, Owns, Owning, Inv, Named, TypeOK, RequestRecord
  <1>2. request[r] \notin Slotted /\ (request[r] \in Leasing <=> request[r].leased)
    BY <1>1 DEF Slotted, Leasing, Inv, TypeOK
  <1>3. closing # "closed"
    BY <1>1 DEF Inv, Emptied, InCall
  <1>4. CASE Sent(Key(r), {r}, request[r].leased)
    <2> DEFINE x == [key |-> Key(r), waiters |-> {r}, leased |-> request[r].leased, slot |-> FALSE]
    <2>1. /\ x \in Delivery /\ x.waiters = {r} /\ x.key = Key(r) /\ ~x.slot
          /\ x.leased = request[r].leased
      BY <1>1 DEF Delivery
    <2>2. /\ delivery' = Append(delivery, x) /\ Len(delivery) < DeliverySize /\ Moves({r}, "waiting")
          /\ UNCHANGED <<active, recent, leases>>
      BY <1>4 DEF Sent, maps
    <2> HIDE DEF x
    <2> QED BY <1>1, <1>2, <1>3, <2>1, <2>2, EntersInv
  <1>5. CASE Dropped(Key(r), {r}, request[r].leased)
    <2>1. /\ leases' = (IF request[r].leased THEN leases - 1 ELSE leases)
          /\ Finish(Key(r), {r}) /\ Moves({r}, "dropped") /\ UNCHANGED delivery
          /\ "dropped" \in Places /\ "dropped" \in Refusable
      BY <1>5 DEF Dropped, Places, Refusable
    <2>2. /\ Placed({r}, "dropped") /\ SameLeased
          /\ \A q \in Requests \ {r} : request'[q] = request[q]
      BY <2>1, MovesFacts DEF Inv, TypeOK
    <2>3. UNCHANGED <<jobs, job, queue, worker, sender, delivery, slots, tickets, closing, root, attached,
                      cached, answered>>
      BY <1>1, <2>1 DEF registry, process
    <2>4. Frees({r})
      BY <1>1, <2>1, FinishFrees DEF Inv
    <2>5. Marked'
      BY <1>1, <2>1, <2>2, <2>4, MarkedLeaves DEF Inv
    <2>6. /\ Tally(request', Slotted) = Tally(request, Slotted)
          /\ Tally(request', Leasing) = Tally(request, Leasing) - (IF request[r].leased THEN 1 ELSE 0)
      <3>1. request'[r] \notin Slotted /\ request'[r] \notin Leasing
        BY <2>2 DEF Slotted, Leasing, Placed
      <3> QED BY <1>1, <1>2, <2>2, <3>1, RequestTally, BooksFacts DEF Inv, Placed
    <2>7. Books' /\ (request[r].leased => leases >= 1)
      BY <1>1, <1>2, <2>1, <2>3, <2>6, BooksFacts DEF Inv, Books
    <2>8. leases' \in Nat
      BY <1>1, <2>1, <2>7 DEF Inv, TypeOK
    <2>9. TypeOK'
      BY <1>1, <2>1, <2>2, <2>3, <2>8 DEF Inv, TypeOK, Placed, Finish
    <2>10. Named'
      BY <1>1, <2>1, <2>2, NamedPlaced DEF Inv, At
    <2>11. Alike' /\ Carried'
      BY <1>1, <2>1, <2>2, <2>3, <2>9, CarriedSame DEF Inv, SameWork
    <2>12. Equipped' /\ Live'
      BY <2>3 DEF Inv, Equipped, Live
    <2>13. Reached'
      <3>1. \A q \in Requests : request'[q].at = "awaiting" => At(q, "awaiting") /\ request'[q].user = User(q)
        BY <2>2 DEF Placed, At, User
      <3>2. \A q \in clearing' : q \in Requests /\ (q = r \/ request'[q].at = request[q].at)
        BY <1>1, <2>2 DEF Placed, Inv, TypeOK
      <3>3. request'[r].at = "dropped"
        BY <2>2 DEF Placed
      <3> QED BY <1>1, <3>1, <3>2, <3>3 DEF Reached, CancelReaches, At, User, Inv
    <2>14. Alone'
      BY <1>1, <2>1, <2>2, <2>3, AloneSame DEF Inv
    <2>15. Emptied'
      BY <1>1, <1>3, <2>1, <2>2, <2>3, EmptiedSame DEF Inv
    <2> QED BY <2>5, <2>7, <2>9, <2>10, <2>11, <2>12, <2>13, <2>14, <2>15 DEF Inv
  <1> QED BY <1>4, <1>5 DEF SendShared

-----------------------------------------------------------------------------
(* The local queue and its workers.                                        *)

LEMMA StillPlaced ==
  ASSUME TypeOK, UNCHANGED request
  PROVE  Placed({}, "new") /\ SameLeased
  BY DEF TypeOK, Placed, SameLeased

LEMMA JobTally ==
  ASSUME TypeOK, job' \in [Requests -> Job \cup {Spare}], NEW j \in Requests,
         \A i \in Requests \ {j} : job'[i] = job[i], NEW T
  PROVE  /\ job[j] \in T /\ job'[j] \notin T => Tally(job', T) = Tally(job, T) - 1
         /\ job[j] \notin T /\ job'[j] \in T => Tally(job', T) = Tally(job, T) + 1
         /\ (job[j] \in T <=> job'[j] \in T) => Tally(job', T) = Tally(job, T)
  <1>1. IsFiniteSet(DOMAIN job) /\ DOMAIN job = Requests /\ DOMAIN job' = Requests
    BY Finiteness
  <1> QED BY <1>1, TallyChanges

LEMMA WorkerTally ==
  ASSUME TypeOK, worker' \in [Workers -> WorkerRecord], NEW w \in Workers,
         \A v \in Workers \ {w} : worker'[v] = worker[v], NEW T
  PROVE  /\ worker[w] \in T /\ worker'[w] \notin T => Tally(worker', T) = Tally(worker, T) - 1
         /\ worker[w] \notin T /\ worker'[w] \in T => Tally(worker', T) = Tally(worker, T) + 1
         /\ (worker[w] \in T <=> worker'[w] \in T) => Tally(worker', T) = Tally(worker, T)
  <1>1. IsFiniteSet(DOMAIN worker) /\ DOMAIN worker = Workers /\ DOMAIN worker' = Workers
    BY Finiteness
  <1> QED BY <1>1, TallyChanges

LEMMA SenderTally ==
  ASSUME TypeOK, sender' \in [Senders -> SenderRecord], NEW s \in Senders,
         \A v \in Senders \ {s} : sender'[v] = sender[v], NEW T
  PROVE  /\ sender[s] \in T /\ sender'[s] \notin T => Tally(sender', T) = Tally(sender, T) - 1
         /\ sender[s] \notin T /\ sender'[s] \in T => Tally(sender', T) = Tally(sender, T) + 1
         /\ (sender[s] \in T <=> sender'[s] \in T) => Tally(sender', T) = Tally(sender, T)
  <1>1. IsFiniteSet(DOMAIN sender) /\ DOMAIN sender = Senders /\ DOMAIN sender' = Senders
    BY Finiteness
  <1> QED BY <1>1, TallyChanges

\* What is queued or computed is a job, and the map names it.
LEMMA LiveFacts ==
  ASSUME TypeOK, Equipped, Live
  PROVE  /\ \A j \in Requests : Tally(queue, {j}) \in Nat /\ Tally(worker, Computes(j)) \in Nat
         /\ \A i \in DOMAIN queue : queue[i] \in Requests /\ job[queue[i]] # Spare
         /\ \A w \in Workers : worker[w].at \in {"running", "detaching", "discarding"} =>
              /\ worker[w].job \in Requests /\ job[worker[w].job] # Spare
              /\ worker[w] \in Computes(worker[w].job)
         /\ \A k \in Keys : jobs[k] # None =>
              jobs[k] \in Requests /\ job[jobs[k]] # Spare /\ job[jobs[k]] \in Job
         /\ \A j \in Requests : job[j] # Spare => job[j] \in Job /\ job[j].key \in Keys
  <1>1. \A j \in Requests : Tally(queue, {j}) \in Nat /\ Tally(worker, Computes(j)) \in Nat
    BY Finiteness, TallyFacts
  <1>2. ASSUME NEW i \in DOMAIN queue PROVE queue[i] \in Requests /\ job[queue[i]] # Spare
    <2>1. queue[i] \in Requests
      BY LenProperties, ElementOfSeq DEF TypeOK
    <2>2. Tally(queue, {queue[i]}) >= 1
      BY Finiteness, TallyFacts
    <2>3. /\ Tally(queue, {queue[i]}) \in Nat
          /\ Tally(worker, Computes(queue[i])) \in Nat
      BY <1>1, <2>1
    <2>4. Tally(queue, {queue[i]}) + Tally(worker, Computes(queue[i])) # 0
      BY <2>2, <2>3
    <2> QED BY <2>1, <2>4 DEF Live
  <1>3. ASSUME NEW w \in Workers, worker[w].at \in {"running", "detaching", "discarding"}
        PROVE  /\ worker[w].job \in Requests /\ job[worker[w].job] # Spare
               /\ worker[w] \in Computes(worker[w].job)
    <2>1. worker[w].job \in Requests /\ worker[w] \in Computes(worker[w].job)
      BY <1>3 DEF Equipped, Computes, TypeOK
    <2>2. Tally(worker, Computes(worker[w].job)) >= 1
      BY <2>1, Finiteness, TallyFacts
    <2>3. /\ Tally(queue, {worker[w].job}) \in Nat
          /\ Tally(worker, Computes(worker[w].job)) \in Nat
      BY <1>1, <2>1
    <2>4. Tally(queue, {worker[w].job}) + Tally(worker, Computes(worker[w].job)) # 0
      BY <2>2, <2>3
    <2> QED BY <2>1, <2>4 DEF Live
  <1>4. ASSUME NEW j \in Requests, job[j] # Spare PROVE job[j] \in Job /\ job[j].key \in Keys
    BY <1>4 DEF TypeOK, Job
  <1>5. ASSUME NEW k \in Keys, jobs[k] # None PROVE jobs[k] \in Requests /\ job[jobs[k]] # Spare
    <2>1. jobs[k] \in Requests /\ job[jobs[k]].key = k
      BY <1>5 DEF Live, TypeOK
    <2> QED BY <2>1, NoneFacts DEF Spare
  <1> QED BY <1>1, <1>2, <1>3, <1>4, <1>5

\* A request joins a job, an old one or a new one.
LEMMA WaitsInv ==
  ASSUME Inv, TypeOK', Live', ~attached, closing = "open", NEW r \in Requests,
         request[r].at \in {"missed", "checked"}, active[User(r)] = None, Reserves(r), Moves({r}, "waiting"),
         NEW j \in Requests, \A i \in Requests \ {j} : job'[i] = job[i],
         job'[j] = [key |-> Key(r), waiters |-> job[j].waiters \cup {r}],
         job[j].waiters = {} \/ job[j].key = Key(r),
         UNCHANGED <<recent, worker, channel, shared, process, cached, answered>>
  PROVE  Inv'
  <1>1. UNCHANGED <<worker, sender, delivery, slots, leases, tickets, clearing, closing, root, attached,
                    answered>>
    BY DEF channel, shared, process
  <1>2. /\ "waiting" \in Owning \cap Places /\ ~Owns(r) /\ ~At(r, "new") /\ ~At(r, "waiting")
        /\ User(r) \in Users /\ Key(r) \in Keys
    BY DEF Owning, Places, Owns, At, Inv, Named
  <1>3. Placed({r}, "waiting") /\ SameLeased
    BY <1>2, MovesFacts DEF Inv, TypeOK
  <1>4. Named' /\ Marked'
    BY <1>2, <1>3, NamedPlaced, MarkedEnters DEF Inv
  <1>5. Alike'
    <2>1. \A q \in Requests : request'[q].key = Key(q)
      BY <1>3 DEF Placed, Key
    <2>2. \A q \in job'[j].waiters : q \in Requests /\ Key(q) = Key(r)
      BY BatchTypes DEF Inv, Alike
    <2>3. \A i \in Requests : \A q \in job'[i].waiters : request'[q].key = job'[i].key
      BY <2>1, <2>2, BatchTypes DEF Inv, Alike
    <2> QED BY <1>1, <2>1, <2>3, BatchTypes DEF Inv, Alike, Key
  <1>6. Carried'
    <2> SUFFICES ASSUME NEW q \in Requests
        PROVE  /\ Tally(job', InJob(q)) + Tally(worker, InWork(q)) + Tally(delivery, InChannel(q))
                    + Tally(sender, InHand(q)) = (IF request'[q].at = "waiting" THEN 1 ELSE 0)
               /\ Tally(sender, Told(q)) = (IF request'[q].at = "answered" THEN 1 ELSE 0)
      BY <1>1 DEF Carried, At
    <2>1. /\ (request'[q].at = "waiting" <=> (q = r \/ At(q, "waiting")))
          /\ (request'[q].at = "answered" <=> At(q, "answered"))
      BY <1>3 DEF Placed, At
    <2>2. /\ Tally(job, InJob(q)) \in Nat /\ Tally(worker, InWork(q)) \in Nat
          /\ Tally(delivery, InChannel(q)) \in Nat /\ Tally(sender, InHand(q)) \in Nat
      BY CarriedFacts DEF Inv
    <2>3. job'[j] \in InJob(q) <=> (job[j] \in InJob(q) \/ q = r)
      <3>1. job[j] \in Job \cup {Spare} /\ job'[j] \in Job \cup {Spare}
        BY DEF Inv, TypeOK
      <3>2. job'[j].waiters = job[j].waiters \cup {r}
        OBVIOUS
      <3> QED BY <3>1, <3>2 DEF InJob
    <2>4. job[j] \in InJob(r) => At(r, "waiting")
      BY CarriedFacts DEF Inv, InJob
    <2>5. Tally(job', InJob(q)) = IF q = r THEN Tally(job, InJob(q)) + 1 ELSE Tally(job, InJob(q))
      BY <1>2, <2>3, <2>4, JobTally DEF Inv, TypeOK
    <2> QED BY <1>2, <2>1, <2>2, <2>5 DEF Inv, Carried
  <1>7. Equipped'
    BY <1>1 DEF Inv, Equipped
  <1>8. Books'
    <2>1. "waiting" \in Places \ {"slotted", "leased", "sending"}
      BY <1>2
    <2>2. \A q \in {r} \cap Requests : request[q].at \notin {"slotted", "leased", "sending"}
      OBVIOUS
    <2> QED BY <1>1, <1>3, <2>1, <2>2, BooksSame DEF Inv
  <1>9. Reached'
    BY <1>1, <1>2, <1>3, ReachedSame DEF Inv
  <1>10. Alone'
    BY <1>1 DEF Alone
  <1>11. Emptied'
    BY <1>1 DEF Inv, Emptied
  <1> QED BY <1>4, <1>5, <1>6, <1>7, <1>8, <1>9, <1>10, <1>11 DEF Inv

\* Nobody whose user is free waits for a job.
LEMMA JoinsInv ==
  ASSUME Inv, NEW r \in Requests, Join(r)
  PROVE  Inv'
  <1> DEFINE j == jobs[Key(r)]
  <1>1. /\ ~attached /\ request[r].at = "missed" /\ closing = "open" /\ active[User(r)] = None /\ j # None
        /\ Reserves(r) /\ Moves({r}, "waiting")
        /\ job' = [job EXCEPT ![j].waiters = {q \in @ : User(q) # User(r)} \cup {r}]
        /\ UNCHANGED <<recent, jobs, queue, worker, channel, shared, process, cached, answered>>
    BY DEF Join, Welcome, Running, At
  <1>2. User(r) \in Users /\ Key(r) \in Keys
    BY <1>1 DEF Inv, Named, At
  <1>3. /\ j \in Requests /\ job[j] # Spare /\ job[j] \in Job /\ job[j].key = Key(r)
        /\ job[j].waiters \subseteq Requests
    BY <1>1, <1>2, LiveFacts, BatchTypes DEF Inv, Live
  <1> HIDE DEF j
  <1>4. {q \in job[j].waiters : User(q) # User(r)} = job[j].waiters
    <2> SUFFICES ASSUME NEW q \in job[j].waiters, User(q) = User(r) PROVE FALSE
      OBVIOUS
    <2>1. q \in Requests /\ At(q, "waiting")
      BY <1>3, CarriedFacts DEF Inv
    <2>2. active[User(q)] = Key(q) /\ Key(q) \in Keys
      BY <2>1 DEF Inv, Marked, Owns, Owning, At, Named
    <2> QED BY <1>1, <2>2, NoneFacts
  <1>5. /\ job' \in [Requests -> Job \cup {Spare}]
        /\ job'[j] = [key |-> Key(r), waiters |-> job[j].waiters \cup {r}]
        /\ \A i \in Requests \ {j} : job'[i] = job[i]
    <2>1. [job[j] EXCEPT !.waiters = job[j].waiters \cup {r}]
            = [key |-> Key(r), waiters |-> job[j].waiters \cup {r}]
      BY <1>3 DEF Job
    <2>2. [key |-> Key(r), waiters |-> job[j].waiters \cup {r}] \in Job
      BY <1>2, <1>3 DEF Job
    <2>3. job' = [job EXCEPT ![j] = [job[j] EXCEPT !.waiters = job[j].waiters \cup {r}]]
      BY <1>1, <1>4
    <2> QED BY <1>3, <2>1, <2>2, <2>3 DEF Inv, TypeOK
  <1>6. Placed({r}, "waiting")
    BY <1>1, MovesFacts DEF Inv, TypeOK, Places, Owning
  <1>7. TypeOK'
    <2>1. active' \in [Users -> Keys \cup {None}]
      BY <1>1, <1>2 DEF Reserves, Inv, TypeOK
    <2> QED BY <1>1, <1>5, <1>6, <2>1 DEF Inv, TypeOK, Placed, channel, shared, process
  <1>8. Live'
    <2>1. \A i \in Requests : /\ job'[i] = Spare <=> job[i] = Spare
                              /\ job'[i].key = job[i].key
                              /\ i \in job[i].waiters => i \in job'[i].waiters
      <3>1. job[j].key # None /\ job'[j].key = job[j].key /\ job'[j].waiters = job[j].waiters \cup {r}
        BY <1>2, <1>3, <1>5, NoneFacts
      <3>2. job[j] # Spare /\ job'[j] # Spare
        BY <3>1 DEF Spare
      <3> QED BY <1>5, <3>1, <3>2
    <2>2. \A k \in Keys : jobs[k] # None => jobs[k] \in Requests
      BY DEF Inv, TypeOK
    <2> QED BY <1>1, <2>1, <2>2 DEF Inv, Live
  <1> QED BY <1>1, <1>3, <1>5, <1>7, <1>8, WaitsInv

\* A new job enters the queue.
LEMMA SentInv ==
  ASSUME Inv, Held, NEW r \in Requests, Enqueue(r), Len(queue) < QueueSize
  PROVE  Inv'
  <1>1. /\ ~attached /\ request[r].at = "checked" /\ closing = "open" /\ active[User(r)] = None
        /\ jobs[Key(r)] = None /\ Len(queue) < QueueSize
        /\ job' = [job EXCEPT ![r] = [key |-> Key(r), waiters |-> {r}]]
        /\ jobs' = [jobs EXCEPT ![Key(r)] = r] /\ queue' = Append(queue, r)
        /\ Reserves(r) /\ Moves({r}, "waiting")
        /\ UNCHANGED <<recent, worker, channel, shared, process, cached, answered>>
    <2>1. ~(Len(queue) >= QueueSize)
      BY Finiteness, HorizonAssumption DEF Inv
    <2>2. /\ ~attached /\ request[r].at = "checked" /\ closing = "open" /\ active[User(r)] = None
          /\ jobs[Key(r)] = None
      BY DEF Enqueue, Held, At
    <2> QED BY <2>1, <2>2 DEF Enqueue
  <1>2. User(r) \in Users /\ Key(r) \in Keys
    BY <1>1 DEF Inv, Named, At
  <1>3. job[r] = Spare /\ job[r].waiters = {}
    <2>1. r \notin job[r].waiters
      BY <1>1, CarriedFacts DEF Inv, At
    <2>2. job[r] # Spare => r \in job[r].waiters
      BY DEF Inv, Live
    <2> QED BY <2>1, <2>2 DEF Spare
  <1>4. /\ job' \in [Requests -> Job \cup {Spare}]
        /\ job'[r] = [key |-> Key(r), waiters |-> {r}] /\ job'[r] # Spare
        /\ \A i \in Requests \ {r} : job'[i] = job[i]
        /\ jobs' \in [Keys -> Requests \cup {None}] /\ jobs'[Key(r)] = r
        /\ \A k \in Keys \ {Key(r)} : jobs'[k] = jobs[k]
    <2>1. [key |-> Key(r), waiters |-> {r}] \in Job /\ [key |-> Key(r), waiters |-> {r}] # Spare
      BY <1>2, NoneFacts DEF Job, Spare
    <2> HIDE <1>3
    <2> QED BY <1>1, <1>2, <2>1 DEF Inv, TypeOK
  <1>5. queue' \in Seq(Requests) /\ Len(queue') = Len(queue) + 1 /\ Len(queue) \in Nat
    BY <1>1, AppendFacts, Finiteness DEF Inv, TypeOK
  <1>6. Placed({r}, "waiting")
    BY <1>1, MovesFacts DEF Inv, TypeOK, Places, Owning
  <1>7. TypeOK'
    <2>1. active' \in [Users -> Keys \cup {None}]
      BY <1>1, <1>2 DEF Reserves, Inv, TypeOK
    <2>2. Len(queue') <= QueueSize
      BY <1>1, <1>5, HorizonAssumption
    <2> QED BY <1>1, <1>4, <1>5, <1>6, <2>1, <2>2 DEF Inv, TypeOK, Placed, channel, shared, process
  <1>8. Live'
    <2>1. ASSUME NEW i \in Requests
          PROVE  Tally(queue', {i}) + Tally(worker, Computes(i)) = (IF job'[i] = Spare THEN 0 ELSE 1)
      <3>1. /\ r \in {i} => Tally(queue', {i}) = Tally(queue, {i}) + 1
            /\ r \notin {i} => Tally(queue', {i}) = Tally(queue, {i})
        BY <1>1, TallyAppend DEF Inv, TypeOK
      <3>2. Tally(queue, {i}) \in Nat /\ Tally(worker, Computes(i)) \in Nat
        BY LiveFacts DEF Inv
      <3>3. Tally(queue, {i}) + Tally(worker, Computes(i)) = (IF job[i] = Spare THEN 0 ELSE 1)
        BY DEF Inv, Live
      <3>4. CASE i = r
        BY <1>3, <1>4, <3>1, <3>2, <3>3, <3>4
      <3>5. CASE i # r
        BY <1>4, <3>1, <3>3, <3>5
      <3> QED BY <3>4, <3>5
    <2>2. ASSUME NEW i \in Requests, job'[i] # Spare
          PROVE  i \in job'[i].waiters /\ jobs'[job'[i].key] = i
      <3>1. CASE i = r
        BY <1>2, <1>4, <3>1
      <3>2. CASE i # r
        <4>1. job'[i] = job[i] /\ i \in job[i].waiters /\ jobs[job[i].key] = i /\ job[i].key \in Keys
          BY <1>4, <2>2, <3>2, LiveFacts DEF Inv, Live
        <4>2. job[i].key # Key(r)
          BY <1>1, <4>1, NoneFacts
        <4> QED BY <1>4, <4>1, <4>2
      <3> QED BY <3>1, <3>2
    <2>3. ASSUME NEW k \in Keys, jobs'[k] # None PROVE job'[jobs'[k]].key = k
      <3>1. CASE k = Key(r)
        BY <1>4, <3>1
      <3>2. CASE k # Key(r)
        <4>1. jobs'[k] = jobs[k] /\ jobs[k] \in Requests /\ job[jobs[k]].key = k /\ job[jobs[k]] # Spare
          BY <1>4, <2>3, <3>2, LiveFacts DEF Inv, Live
        <4> QED BY <1>3, <1>4, <4>1
      <3> QED BY <3>1, <3>2
    <2> QED BY <1>1, <2>1, <2>2, <2>3 DEF Live
  <1>9. job'[r] = [key |-> Key(r), waiters |-> job[r].waiters \cup {r}]
    BY <1>3, <1>4
  <1> QED BY <1>1, <1>3, <1>4, <1>7, <1>8, <1>9, WaitsInv

LEMMA EnqueueInv ==
  ASSUME Inv, Held, NEW r \in Requests, Enqueue(r)
  PROVE  Inv'
  <1>1. CASE Len(queue) < QueueSize
    BY <1>1, SentInv
  <1>2. CASE ~(Len(queue) < QueueSize)
    <2>1. /\ request[r].at = "checked" /\ Refused(r)
          /\ UNCHANGED <<active, recent, registry, channel, shared, process, cached>>
      BY <1>2 DEF Enqueue, At, registry
    <2> QED BY <2>1, RefusedInv
  <1> QED BY <1>1, <1>2

\* A worker goes on with its job.
LEMMA ComputesInv ==
  ASSUME Inv, TypeOK', Live', NEW w \in Workers, worker[w].at \in {"idle", "running", "draining"},
         worker'[w].at \in {"running", "detaching", "discarding"}, worker'[w].job \in Requests,
         worker'[w].what = worker[w].what, \A v \in Workers \ {w} : worker'[v] = worker[v],
         UNCHANGED <<request, active, recent, jobs, job, channel, shared, process, answered>>,
         queue' = queue \/ queue # <<>>
  PROVE  Inv'
  <1>1. UNCHANGED <<sender, delivery, slots, leases, tickets, clearing, closing, root, attached>>
    BY DEF channel, shared, process
  <1>2. Named' /\ Marked'
    BY DEF Inv, Named, Marked, At, User, Key, Owns
  <1>3. Alike' /\ Carried'
    <2>1. SameWork
      BY DEF SameWork
    <2>2. Placed({}, "new") /\ "new" \in Places \ {"waiting", "answered"}
      BY StillPlaced DEF Inv, Places, Refusable
    <2> QED BY <1>1, <2>1, <2>2, CarriedSame DEF Inv
  <1>4. Equipped'
    BY <1>1 DEF Inv, Equipped
  <1>5. Books'
    <2>1. worker[w] \notin LeasedWork /\ worker'[w] \notin LeasedWork
      BY DEF LeasedWork
    <2>2. Tally(worker', LeasedWork) = Tally(worker, LeasedWork)
      BY <2>1, WorkerTally DEF Inv, TypeOK
    <2> QED BY <1>1, <2>2 DEF Inv, Books
  <1>6. Reached'
    BY <1>1 DEF Inv, Reached, CancelReaches, At, User
  <1>7. Alone'
    BY <1>1 DEF Inv, Alone
  <1>8. Emptied'
    <2>1. /\ \A v \in Workers : worker'[v].at = "gone" <=> worker[v].at = "gone"
          /\ ~attached
      BY DEF Inv, Alone
    <2> QED BY <1>1, <2>1 DEF Inv, Emptied, Owns
  <1> QED BY <1>2, <1>3, <1>4, <1>5, <1>6, <1>7, <1>8 DEF Inv

\* A worker receives the head of the queue, to compute it or to throw it away.
LEMMA ReceiveInv ==
  ASSUME Inv, NEW w \in Workers, NEW place \in {"running", "discarding"},
         worker[w].at \in {"idle", "draining"}, queue # <<>>, queue' = Tail(queue),
         worker' = [worker EXCEPT ![w] = [worker[w] EXCEPT !.at = place, !.job = Head(queue)]],
         UNCHANGED <<request, active, recent, jobs, job, channel, shared, process, cached, answered>>
  PROVE  Inv'
  <1> DEFINE j == Head(queue)
  <1>1. /\ worker[w].at \in {"idle", "draining"} /\ queue # <<>> /\ queue' = Tail(queue)
        /\ worker' = [worker EXCEPT ![w] = [worker[w] EXCEPT !.at = place, !.job = j]]
        /\ UNCHANGED <<request, active, recent, jobs, job, channel, shared, process, cached, answered>>
    OBVIOUS
  <1>2. /\ queue \in Seq(Requests) /\ queue' \in Seq(Requests) /\ Len(queue') = Len(queue) - 1
        /\ j \in Requests /\ 1 \in DOMAIN queue /\ j = queue[1] /\ Len(queue) \in Nat
    BY <1>1, TailFacts, Finiteness DEF Inv, TypeOK
  <1> HIDE DEF j
  <1>3. /\ worker' \in [Workers -> WorkerRecord] /\ worker'[w].at = place /\ worker'[w].job = j
        /\ worker'[w].what = worker[w].what /\ \A v \in Workers \ {w} : worker'[v] = worker[v]
    <2>1. worker[w] \in WorkerRecord /\ worker \in [Workers -> WorkerRecord]
      BY DEF Inv, TypeOK
    <2>2. [worker[w] EXCEPT !.at = place, !.job = j] \in WorkerRecord
      BY <1>2, <2>1 DEF WorkerRecord
    <2>3. /\ [worker[w] EXCEPT !.at = place, !.job = j].at = place
          /\ [worker[w] EXCEPT !.at = place, !.job = j].job = j
          /\ [worker[w] EXCEPT !.at = place, !.job = j].what = worker[w].what
      BY <2>1 DEF WorkerRecord
    <2> QED BY <1>1, <2>1, <2>2, <2>3
  <1>4. TypeOK'
    <2>1. Len(queue') <= QueueSize
      BY <1>2, HorizonAssumption DEF Inv, TypeOK
    <2> QED BY <1>1, <1>2, <1>3, <2>1 DEF Inv, TypeOK, channel, shared, process
  <1>5. Live'
    <2>1. ASSUME NEW i \in Requests
          PROVE  Tally(queue', {i}) + Tally(worker', Computes(i)) = Tally(queue, {i}) + Tally(worker, Computes(i))
      <3>1. /\ i = j => Tally(queue', {i}) = Tally(queue, {i}) - 1
            /\ i # j => Tally(queue', {i}) = Tally(queue, {i})
        BY <1>1, <1>2, TallyTail DEF j
      <3>2. worker[w] \notin Computes(i) /\ (worker'[w] \in Computes(i) <=> i = j)
        BY <1>1, <1>3 DEF Computes
      <3>3. /\ i = j => Tally(worker', Computes(i)) = Tally(worker, Computes(i)) + 1
            /\ i # j => Tally(worker', Computes(i)) = Tally(worker, Computes(i))
        BY <1>3, <3>2, WorkerTally DEF Inv
      <3>4. Tally(queue, {i}) \in Nat /\ Tally(worker, Computes(i)) \in Nat
        BY LiveFacts DEF Inv
      <3> QED BY <3>1, <3>3, <3>4
    <2> QED BY <1>1, <2>1 DEF Inv, Live
  <1> QED BY <1>1, <1>2, <1>3, <1>4, <1>5, ComputesInv

LEMMA TakeJobInv ==
  ASSUME Inv, NEW w \in Workers, TakeJob(w)
  PROVE  Inv'
  <1>1. /\ worker[w].at = "idle" /\ queue # <<>> /\ queue' = Tail(queue)
        /\ worker' = [worker EXCEPT ![w] = [worker[w] EXCEPT !.at = "running", !.job = Head(queue)]]
        /\ UNCHANGED <<request, active, recent, jobs, job, channel, shared, process, cached, answered>>
    BY DEF TakeJob, maps
  <1> QED BY <1>1, ReceiveInv

LEMMA ProcessInv ==
  ASSUME Inv, NEW w \in Workers, Process(w)
  PROVE  Inv'
  <1>1. PICK ok \in BOOLEAN :
          worker' = [worker EXCEPT ![w] = [worker[w] EXCEPT !.at = "detaching", !.leased = ok]]
    BY DEF Process
  <1>2. /\ worker[w].at = "running"
        /\ UNCHANGED <<request, active, recent, jobs, job, queue, channel, shared, process, answered>>
    BY DEF Process, maps
  <1>3. cached' \in SUBSET Keys
    <2>1. worker[w].job \in Requests /\ job[worker[w].job] # Spare
      BY <1>2, LiveFacts DEF Inv
    <2>2. job[worker[w].job].key \in Keys
      BY <2>1, LiveFacts DEF Inv
    <2> QED BY <2>2 DEF Process, Inv, TypeOK
  <1>4. /\ worker' \in [Workers -> WorkerRecord] /\ worker'[w].at = "detaching"
        /\ worker'[w].job = worker[w].job
        /\ worker'[w].what = worker[w].what /\ \A v \in Workers \ {w} : worker'[v] = worker[v]
    <2>1. worker[w] \in WorkerRecord /\ worker \in [Workers -> WorkerRecord]
      BY DEF Inv, TypeOK
    <2> DEFINE x == [worker[w] EXCEPT !.at = "detaching", !.leased = ok]
    <2>2. x \in WorkerRecord /\ x.at = "detaching" /\ x.job = worker[w].job /\ x.what = worker[w].what
      BY <2>1 DEF WorkerRecord
    <2> HIDE DEF x
    <2>3. worker' = [worker EXCEPT ![w] = x]
      BY <1>1 DEF x
    <2> QED BY <2>1, <2>2, <2>3
  <1>5. TypeOK'
    BY <1>2, <1>3, <1>4 DEF Inv, TypeOK, channel, shared, process
  <1>6. worker[w].job \in Requests
    BY <1>2 DEF Inv, Equipped
  <1>7. Live'
    <2>1. \A i \in Requests : Tally(worker', Computes(i)) = Tally(worker, Computes(i))
      <3> SUFFICES ASSUME NEW i \in Requests
          PROVE  Tally(worker', Computes(i)) = Tally(worker, Computes(i))
        OBVIOUS
      <3>1. worker[w] \in Computes(i) <=> worker'[w] \in Computes(i)
        BY <1>2, <1>4 DEF Computes, Inv, TypeOK
      <3> QED BY <1>4, <3>1, WorkerTally DEF Inv
    <2> QED BY <1>2, <2>1 DEF Inv, Live
  <1> QED BY <1>2, <1>4, <1>5, <1>6, <1>7, ComputesInv

LEMMA DetachInv ==
  ASSUME Inv, NEW w \in Workers, Detach(w)
  PROVE  Inv'
  <1> DEFINE j == worker[w].job
             k == job[j].key
             x == [worker[w] EXCEPT !.at = "leasing", !.job = None, !.what = job[j]]
  <1>1. /\ worker[w].at = "detaching"
        /\ jobs' = [jobs EXCEPT ![k] = IF @ = j THEN None ELSE @]
        /\ job' = [job EXCEPT ![j] = Spare] /\ worker' = [worker EXCEPT ![w] = x]
        /\ UNCHANGED <<request, active, recent, queue, channel, shared, process, cached, answered>>
    BY DEF Detach, maps
  <1>2. /\ j \in Requests /\ job[j] # Spare /\ job[j] \in Job /\ k \in Keys /\ jobs[k] = j
        /\ worker[w] \in Computes(j)
    BY <1>1, LiveFacts DEF Inv, Live
  <1>3. /\ x \in WorkerRecord /\ x.at = "leasing" /\ x.job = None /\ x.what = job[j]
    <2>1. worker[w] \in WorkerRecord
      BY DEF Inv, TypeOK
    <2> HIDE DEF j
    <2> QED BY <1>2, <2>1 DEF WorkerRecord
  <1> HIDE DEF j, k, x
  <1>4. /\ UNCHANGED <<sender, delivery, slots, leases, tickets, clearing, closing, root, attached>>
        /\ worker'[w] = x /\ \A v \in Workers \ {w} : worker'[v] = worker[v]
        /\ worker' \in [Workers -> WorkerRecord]
        /\ job'[j] = Spare /\ \A i \in Requests \ {j} : job'[i] = job[i]
        /\ job' \in [Requests -> Job \cup {Spare}]
        /\ jobs'[k] = None /\ \A i \in Keys \ {k} : jobs'[i] = jobs[i]
        /\ jobs' \in [Keys -> Requests \cup {None}]
        /\ worker[w].what = Spare
    BY <1>1, <1>2, <1>3 DEF channel, shared, process, Inv, TypeOK, Equipped
  <1>5. TypeOK'
    BY <1>1, <1>4 DEF Inv, TypeOK
  <1>6. Named' /\ Marked'
    BY <1>1 DEF Inv, Named, Marked, At, User, Key, Owns
  <1>7. Alike'
    <2>1. \A i \in Requests : \A q \in job'[i].waiters : Key(q) = job'[i].key
      BY <1>2, <1>4 DEF Inv, Alike, Spare
    <2>2. \A v \in Workers : \A q \in worker'[v].what.waiters : Key(q) = worker'[v].what.key
      BY <1>2, <1>3, <1>4 DEF Inv, Alike
    <2> QED BY <1>1, <1>4, <2>1, <2>2 DEF Inv, Alike, Key
  <1>8. Carried'
    <2> SUFFICES ASSUME NEW q \in Requests
        PROVE  /\ Tally(job', InJob(q)) + Tally(worker', InWork(q)) + Tally(delivery, InChannel(q))
                    + Tally(sender, InHand(q)) = (IF At(q, "waiting") THEN 1 ELSE 0)
               /\ Tally(sender, Told(q)) = (IF At(q, "answered") THEN 1 ELSE 0)
      BY <1>1, <1>4 DEF Carried, At
    <2>1. /\ job'[j] \notin InJob(q) /\ worker[w] \notin InWork(q)
          /\ (job[j] \in InJob(q) <=> q \in job[j].waiters)
          /\ (worker'[w] \in InWork(q) <=> q \in job[j].waiters)
      BY <1>2, <1>3, <1>4 DEF InJob, InWork, Spare
    <2>2. /\ Tally(job', InJob(q)) = Tally(job, InJob(q)) - (IF q \in job[j].waiters THEN 1 ELSE 0)
          /\ Tally(worker', InWork(q)) = Tally(worker, InWork(q)) + (IF q \in job[j].waiters THEN 1 ELSE 0)
      <3>1. Tally(job, InJob(q)) \in Nat /\ Tally(worker, InWork(q)) \in Nat
        BY CarriedFacts DEF Inv
      <3>2. Tally(job', InJob(q)) = Tally(job, InJob(q)) - (IF q \in job[j].waiters THEN 1 ELSE 0)
        BY <1>2, <1>4, <2>1, <3>1, JobTally DEF Inv
      <3>3. Tally(worker', InWork(q)) = Tally(worker, InWork(q)) + (IF q \in job[j].waiters THEN 1 ELSE 0)
        BY <1>4, <2>1, <3>1, WorkerTally DEF Inv
      <3> QED BY <3>2, <3>3
    <2>3. /\ Tally(job, InJob(q)) \in Nat /\ Tally(worker, InWork(q)) \in Nat
          /\ Tally(delivery, InChannel(q)) \in Nat /\ Tally(sender, InHand(q)) \in Nat
      BY CarriedFacts DEF Inv
    <2>4. Tally(job', InJob(q)) + Tally(worker', InWork(q)) = Tally(job, InJob(q)) + Tally(worker, InWork(q))
      BY <2>2, <2>3
    <2> QED BY <2>4 DEF Inv, Carried
  <1>9. Equipped'
    <2>1. \A v \in Workers : /\ worker'[v].at \in {"running", "detaching", "discarding"} => worker'[v].job \in Requests
                             /\ worker'[v].at \in {"leasing", "sending"} => worker'[v].what \in Job
                             /\ worker'[v].at \notin {"leasing", "sending"} => worker'[v].what = Spare
      BY <1>2, <1>3, <1>4 DEF Inv, Equipped
    <2> QED BY <1>4, <2>1 DEF Inv, Equipped
  <1>10. Live'
    <2>1. ASSUME NEW i \in Requests
          PROVE  Tally(queue, {i}) + Tally(worker', Computes(i)) = (IF job'[i] = Spare THEN 0 ELSE 1)
      <3>1. /\ worker[w] \in Computes(i) <=> i = j
            /\ worker'[w] \notin Computes(i)
        BY <1>2, <1>3, <1>4 DEF Computes
      <3>2. Tally(worker', Computes(i)) = IF i = j THEN Tally(worker, Computes(i)) - 1
                                                   ELSE Tally(worker, Computes(i))
        BY <1>4, <3>1, WorkerTally DEF Inv
      <3>3. Tally(queue, {i}) \in Nat /\ Tally(worker, Computes(i)) \in Nat
        BY LiveFacts DEF Inv
      <3>4. Tally(queue, {i}) + Tally(worker, Computes(i)) = (IF job[i] = Spare THEN 0 ELSE 1)
        BY DEF Inv, Live
      <3>5. CASE i = j
        BY <1>2, <1>4, <3>2, <3>3, <3>4, <3>5
      <3>6. CASE i # j
        BY <1>4, <3>2, <3>4, <3>6
      <3> QED BY <3>5, <3>6
    <2>2. ASSUME NEW i \in Requests, job'[i] # Spare
          PROVE  i \in job'[i].waiters /\ jobs'[job'[i].key] = i
      <3>1. i # j /\ job'[i] = job[i]
        BY <1>4, <2>2
      <3>2. i \in job[i].waiters /\ jobs[job[i].key] = i /\ job[i].key \in Keys
        BY <2>2, <3>1, LiveFacts DEF Inv, Live
      <3>3. job[i].key # k
        BY <1>2, <3>1, <3>2
      <3> QED BY <1>4, <3>1, <3>2, <3>3
    <2>3. ASSUME NEW i \in Keys, jobs'[i] # None PROVE job'[jobs'[i]].key = i
      <3>1. i # k /\ jobs'[i] = jobs[i]
        BY <1>4, <2>3
      <3>2. jobs[i] \in Requests /\ job[jobs[i]].key = i
        BY <2>3, <3>1, LiveFacts DEF Inv, Live
      <3>3. jobs[i] # j
        BY <3>1, <3>2 DEF k
      <3> QED BY <1>4, <3>1, <3>2, <3>3
    <2> QED BY <1>1, <2>1, <2>2, <2>3 DEF Live
  <1>11. Books'
    <2>1. worker[w] \notin LeasedWork /\ worker'[w] \notin LeasedWork
      BY <1>1, <1>3, <1>4 DEF LeasedWork
    <2>2. Tally(worker', LeasedWork) = Tally(worker, LeasedWork)
      BY <1>4, <2>1, WorkerTally DEF Inv
    <2> QED BY <1>1, <1>4, <2>2 DEF Inv, Books
  <1>12. Reached'
    BY <1>1, <1>4 DEF Inv, Reached, CancelReaches, At, User
  <1>13. Alone'
    BY <1>1, <1>4 DEF Inv, Alone
  <1>14. Emptied'
    <2>1. \A v \in Workers : worker'[v].at = "gone" <=> worker[v].at = "gone"
      BY <1>1, <1>3, <1>4
    <2> QED BY <1>1, <1>4, <2>1 DEF Inv, Emptied, Owns
  <1> QED BY <1>5, <1>6, <1>7, <1>8, <1>9, <1>10, <1>11, <1>12, <1>13, <1>14 DEF Inv

LEMMA LeaseJobInv ==
  ASSUME Inv, NEW w \in Workers, LeaseJob(w)
  PROVE  Inv'
  <1>1. PICK ok \in BOOLEAN :
          /\ worker' = [worker EXCEPT ![w] = [worker[w] EXCEPT !.at = "sending", !.leased = ok]]
          /\ leases' = IF ok THEN leases + 1 ELSE leases
    <2>1. worker[w] \in WorkerRecord /\ worker \in [Workers -> WorkerRecord]
      BY DEF Inv, TypeOK
    <2>2. CASE worker[w].leased /\ leases' = leases + 1 /\ worker' = [worker EXCEPT ![w].at = "sending"]
      <3>1. worker[w].leased = TRUE
        BY <2>1, <2>2 DEF WorkerRecord
      <3>2. [worker[w] EXCEPT !.at = "sending", !.leased = TRUE] = [worker[w] EXCEPT !.at = "sending"]
        BY <2>1, <3>1 DEF WorkerRecord
      <3>3. worker' = [worker EXCEPT ![w] = [worker[w] EXCEPT !.at = "sending", !.leased = TRUE]]
        BY <2>2, <3>2
      <3> QED BY <2>2, <3>3
    <2>3. CASE /\ worker' = [worker EXCEPT ![w] = [@ EXCEPT !.at = "sending", !.leased = FALSE]]
               /\ UNCHANGED leases
      BY <2>1, <2>3
    <2> QED BY <2>2, <2>3 DEF LeaseJob
  <1>2. /\ worker[w].at = "leasing"
        /\ UNCHANGED <<request, active, recent, jobs, job, queue, sender, delivery, slots, tickets, clearing,
                       closing, root, attached, cached, answered>>
    BY DEF LeaseJob, maps, shared, process
  <1>3. /\ worker' \in [Workers -> WorkerRecord] /\ worker'[w].at = "sending" /\ worker'[w].leased = ok
        /\ worker'[w].what = worker[w].what /\ \A v \in Workers \ {w} : worker'[v] = worker[v]
    <2>1. worker[w] \in WorkerRecord /\ worker \in [Workers -> WorkerRecord]
      BY DEF Inv, TypeOK
    <2> DEFINE x == [worker[w] EXCEPT !.at = "sending", !.leased = ok]
    <2>2. x \in WorkerRecord /\ x.at = "sending" /\ x.leased = ok /\ x.what = worker[w].what
      BY <2>1 DEF WorkerRecord
    <2> HIDE DEF x
    <2>3. worker' = [worker EXCEPT ![w] = x]
      BY <1>1 DEF x
    <2> QED BY <2>1, <2>2, <2>3
  <1>4. TypeOK'
    <2>1. leases' \in Nat
      BY <1>1 DEF Inv, TypeOK
    <2> QED BY <1>2, <1>3, <2>1 DEF Inv, TypeOK
  <1>5. Named' /\ Marked'
    BY <1>2 DEF Inv, Named, Marked, At, User, Key, Owns
  <1>6. Alike' /\ Carried'
    <2>1. SameWork
      BY <1>3 DEF SameWork
    <2>2. Placed({}, "new") /\ "new" \in Places \ {"waiting", "answered"}
      BY <1>2, StillPlaced DEF Inv, Places, Refusable
    <2> QED BY <1>2, <1>4, <2>1, <2>2, CarriedSame DEF Inv
  <1>7. Equipped'
    BY <1>2, <1>3 DEF Inv, Equipped
  <1>8. Live'
    <2>1. \A i \in Requests : Tally(worker', Computes(i)) = Tally(worker, Computes(i))
      <3> SUFFICES ASSUME NEW i \in Requests
          PROVE  Tally(worker', Computes(i)) = Tally(worker, Computes(i))
        OBVIOUS
      <3>1. worker[w] \notin Computes(i) /\ worker'[w] \notin Computes(i)
        BY <1>2, <1>3 DEF Computes
      <3> QED BY <1>3, <3>1, WorkerTally DEF Inv
    <2> QED BY <1>2, <2>1 DEF Inv, Live
  <1>9. Books'
    <2>1. worker[w] \notin LeasedWork /\ (worker'[w] \in LeasedWork <=> ok)
      BY <1>2, <1>3 DEF LeasedWork
    <2>2. Tally(worker', LeasedWork) = Tally(worker, LeasedWork) + (IF ok THEN 1 ELSE 0)
      <3>1. Tally(worker, LeasedWork) \in Nat
        BY BooksFacts DEF Inv
      <3> QED BY <1>3, <2>1, <3>1, WorkerTally DEF Inv
    <2>3. leases' = Tally(request, Leasing) + Tally(delivery, LeasedItem) + Tally(worker', LeasedWork)
                      + Tally(sender, LeasedBatch)
      BY <1>1, <2>2, BooksFacts DEF Inv, Books
    <2> QED BY <1>2, <2>3 DEF Inv, Books
  <1>10. Reached'
    BY <1>2 DEF Inv, Reached, CancelReaches, At, User
  <1>11. Alone'
    BY <1>2 DEF Inv, Alone
  <1>12. Emptied'
    <2>1. \A v \in Workers : worker'[v].at = "gone" <=> worker[v].at = "gone"
      BY <1>2, <1>3
    <2> QED BY <1>2, <2>1 DEF Inv, Emptied, Owns
  <1> QED BY <1>4, <1>5, <1>6, <1>7, <1>8, <1>9, <1>10, <1>11, <1>12 DEF Inv

\* A worker is rid of its result.
LEMMA ReadyFacts ==
  ASSUME Inv, NEW w \in Workers, worker[w].at = "sending", worker' = [worker EXCEPT ![w] = Ready]
  PROVE  /\ worker' \in [Workers -> WorkerRecord] /\ worker'[w] = Ready
         /\ \A v \in Workers \ {w} : worker'[v] = worker[v]
         /\ Ready.at = "idle" /\ Ready.what = Spare /\ Ready \notin LeasedWork
         /\ worker[w] \in WorkerRecord /\ worker[w].what \in Job /\ worker[w].leased \in BOOLEAN
         /\ worker[w].what.waiters \subseteq Requests /\ worker[w].what.key \in Keys
         /\ (worker[w] \in LeasedWork <=> worker[w].leased)
         /\ \A i \in Requests : Tally(worker', Computes(i)) = Tally(worker, Computes(i))
         /\ Tally(worker', LeasedWork) = Tally(worker, LeasedWork) - (IF worker[w].leased THEN 1 ELSE 0)
         /\ \A q \in Requests : /\ worker[w] \in InWork(q) <=> q \in worker[w].what.waiters
                                /\ worker'[w] \notin InWork(q)
         /\ \A v \in Workers : worker'[v].at = "gone" <=> worker[v].at = "gone"
         /\ closing # "closed" /\ ~attached
  <1>1. Ready \in WorkerRecord /\ Ready.at = "idle" /\ Ready.what = Spare /\ Ready \notin LeasedWork
    BY DEF Ready, WorkerRecord, LeasedWork
  <1>2. /\ worker[w] \in WorkerRecord /\ worker[w].what \in Job /\ worker[w].leased \in BOOLEAN
    BY DEF Inv, TypeOK, WorkerRecord, Equipped
  <1>3. worker[w].what.waiters \subseteq Requests /\ worker[w].what.key \in Keys
    BY <1>2 DEF Job
  <1>4. /\ worker' \in [Workers -> WorkerRecord] /\ worker'[w] = Ready
        /\ \A v \in Workers \ {w} : worker'[v] = worker[v]
    BY <1>1 DEF Inv, TypeOK
  <1>5. (worker[w] \in LeasedWork <=> worker[w].leased)
    BY <1>2 DEF LeasedWork
  <1>6. \A i \in Requests : Tally(worker', Computes(i)) = Tally(worker, Computes(i))
    <2> SUFFICES ASSUME NEW i \in Requests
        PROVE  Tally(worker', Computes(i)) = Tally(worker, Computes(i))
      OBVIOUS
    <2>1. worker[w] \notin Computes(i) /\ worker'[w] \notin Computes(i)
      BY <1>1, <1>4 DEF Computes
    <2> QED BY <1>4, <2>1, WorkerTally DEF Inv
  <1>7. Tally(worker', LeasedWork) = Tally(worker, LeasedWork) - (IF worker[w].leased THEN 1 ELSE 0)
    <2>1. Tally(worker, LeasedWork) \in Nat
      BY BooksFacts DEF Inv
    <2>2. worker'[w] \notin LeasedWork
      BY <1>1, <1>4
    <2>3. /\ worker[w] \in LeasedWork => Tally(worker', LeasedWork) = Tally(worker, LeasedWork) - 1
          /\ worker[w] \notin LeasedWork => Tally(worker', LeasedWork) = Tally(worker, LeasedWork)
      BY <1>4, <2>2, WorkerTally DEF Inv
    <2> QED BY <1>5, <2>1, <2>3
  <1>8. \A q \in Requests : /\ worker[w] \in InWork(q) <=> q \in worker[w].what.waiters
                            /\ worker'[w] \notin InWork(q)
    BY <1>1, <1>2, <1>4 DEF InWork, Spare
  <1>9. \A v \in Workers : worker'[v].at = "gone" <=> worker[v].at = "gone"
    BY <1>1, <1>4
  <1>10. closing # "closed" /\ ~attached
    BY DEF Inv, Emptied, Alone
  <1> QED BY <1>1, <1>2, <1>3, <1>4, <1>5, <1>6, <1>7, <1>8, <1>9, <1>10

LEMMA SentJobInv ==
  ASSUME Inv, NEW w \in Workers, worker[w].at = "sending", worker' = [worker EXCEPT ![w] = Ready],
         Sent(worker[w].what.key, worker[w].what.waiters, worker[w].leased),
         UNCHANGED <<jobs, job, queue, sender, slots, shared, process, cached, answered>>
  PROVE  Inv'
  <1> DEFINE d == worker[w].what
             lease == worker[w].leased
             R == d.waiters
             x == [key |-> d.key, waiters |-> R, leased |-> lease, slot |-> FALSE]
  <1>1. /\ delivery' = Append(delivery, x) /\ Len(delivery) < DeliverySize /\ Moves(R, "waiting")
        /\ UNCHANGED <<active, recent, jobs, job, queue, sender, slots, leases, tickets, clearing, closing,
                       root, attached, cached, answered>>
    BY DEF Sent, maps, shared, process
  <1>2. /\ worker' \in [Workers -> WorkerRecord] /\ worker'[w] = Ready
        /\ \A v \in Workers \ {w} : worker'[v] = worker[v]
        /\ Ready.at = "idle" /\ Ready.what = Spare
        /\ d \in Job /\ lease \in BOOLEAN /\ R \subseteq Requests /\ d.key \in Keys
        /\ \A i \in Requests : Tally(worker', Computes(i)) = Tally(worker, Computes(i))
        /\ Tally(worker', LeasedWork) = Tally(worker, LeasedWork) - (IF lease THEN 1 ELSE 0)
        /\ \A q \in Requests : /\ worker[w] \in InWork(q) <=> q \in R
                               /\ worker'[w] \notin InWork(q)
        /\ \A v \in Workers : worker'[v].at = "gone" <=> worker[v].at = "gone"
        /\ closing # "closed" /\ ~attached
    BY ReadyFacts
  <1>3. /\ x \in Delivery /\ x.waiters = R /\ x.key = d.key /\ x.leased = lease /\ ~x.slot
    BY <1>2 DEF Delivery
  <1>4. \A r \in R : At(r, "waiting") /\ Key(r) = d.key
    BY <1>2, CarriedFacts DEF Inv, Alike
  <1> HIDE DEF d, lease, R, x
  <1>5. Placed(R, "waiting") /\ SameLeased /\ "waiting" \in Places \cap Owning
    BY <1>1, MovesFacts DEF Inv, TypeOK, Places, Owning
  <1>6. \A q \in Requests : /\ request'[q].user = request[q].user /\ request'[q].key = request[q].key
                            /\ request'[q].at = request[q].at
    BY <1>4, <1>5 DEF Placed, At
  <1>7. /\ delivery' \in Seq(Delivery) /\ Len(delivery') = Len(delivery) + 1 /\ Len(delivery) \in Nat
        /\ \A i \in DOMAIN delivery' :
             delivery'[i] = x \/ (i \in DOMAIN delivery /\ delivery'[i] = delivery[i])
    BY <1>1, <1>3, AppendFacts, Finiteness DEF Inv, TypeOK
  <1>8. \A T : /\ x \in T => Tally(delivery', T) = Tally(delivery, T) + 1
               /\ x \notin T => Tally(delivery', T) = Tally(delivery, T)
    BY <1>1, <1>3, TallyAppend DEF Inv, TypeOK
  <1>9. TypeOK'
    <2>1. Len(delivery') <= DeliverySize
      BY <1>1, <1>7, HorizonAssumption
    <2> QED BY <1>1, <1>2, <1>5, <1>7, <2>1 DEF Inv, TypeOK, Placed
  <1>10. Named' /\ Marked'
    BY <1>1, <1>6 DEF Inv, Named, Marked, At, User, Key, Owns
  <1>11. Alike'
    <2>1. \A q \in Requests : request'[q].key = Key(q)
      BY <1>6 DEF Key
    <2>2. \A i \in DOMAIN delivery' : \A q \in delivery'[i].waiters : request'[q].key = delivery'[i].key
      BY <1>2, <1>3, <1>4, <1>7, <2>1, BatchTypes DEF Inv, Alike
    <2>3. \A v \in Workers : \A q \in worker'[v].what.waiters : request'[q].key = worker'[v].what.key
      BY <1>2, <2>1, BatchTypes DEF Inv, Alike, Spare
    <2> QED BY <1>1, <2>1, <2>2, <2>3, BatchTypes DEF Inv, Alike, Key
  <1>12. Carried'
    <2> SUFFICES ASSUME NEW q \in Requests
        PROVE  /\ Tally(job, InJob(q)) + Tally(worker', InWork(q)) + Tally(delivery', InChannel(q))
                    + Tally(sender, InHand(q)) = (IF At(q, "waiting") THEN 1 ELSE 0)
               /\ Tally(sender, Told(q)) = (IF At(q, "answered") THEN 1 ELSE 0)
      BY <1>1, <1>6 DEF Carried, At
    <2>1. x \in InChannel(q) <=> q \in R
      BY <1>3 DEF InChannel
    <2>2. /\ Tally(job, InJob(q)) \in Nat /\ Tally(worker, InWork(q)) \in Nat
          /\ Tally(delivery, InChannel(q)) \in Nat /\ Tally(sender, InHand(q)) \in Nat
      BY CarriedFacts DEF Inv
    <2>3. Tally(worker', InWork(q)) = Tally(worker, InWork(q)) - (IF q \in R THEN 1 ELSE 0)
      <3>1. (worker[w] \in InWork(q) <=> q \in R) /\ worker'[w] \notin InWork(q)
        BY <1>2
      <3>2. /\ worker[w] \in InWork(q) => Tally(worker', InWork(q)) = Tally(worker, InWork(q)) - 1
            /\ worker[w] \notin InWork(q) => Tally(worker', InWork(q)) = Tally(worker, InWork(q))
        BY <1>2, <3>1, WorkerTally DEF Inv
      <3> QED BY <2>2, <3>1, <3>2
    <2>4. Tally(delivery', InChannel(q)) = Tally(delivery, InChannel(q)) + (IF q \in R THEN 1 ELSE 0)
      BY <1>8, <2>1, <2>2
    <2>5. Tally(worker', InWork(q)) + Tally(delivery', InChannel(q))
            = Tally(worker, InWork(q)) + Tally(delivery, InChannel(q))
      BY <2>2, <2>3, <2>4
    <2>6. Tally(worker', InWork(q)) \in Int /\ Tally(delivery', InChannel(q)) \in Int
      BY <2>2, <2>3, <2>4
    <2> QED BY <2>2, <2>5, <2>6 DEF Inv, Carried
  <1>13. Equipped'
    <2>1. \A v \in Workers : /\ worker'[v].at \in {"running", "detaching", "discarding"} => worker'[v].job \in Requests
                             /\ worker'[v].at \in {"leasing", "sending"} => worker'[v].what \in Job
                             /\ worker'[v].at \notin {"leasing", "sending"} => worker'[v].what = Spare
      BY <1>2 DEF Inv, Equipped
    <2> QED BY <1>1, <2>1 DEF Inv, Equipped
  <1>14. Live'
    <2>1. /\ UNCHANGED <<jobs, job, queue>>
          /\ \A i \in Requests : Tally(worker', Computes(i)) = Tally(worker, Computes(i))
      BY <1>1, <1>2
    <2> QED BY <2>1 DEF Inv, Live
  <1>15. Books'
    <2>1. /\ x \notin SlottedItem /\ (x \in LeasedItem <=> lease)
      BY <1>3 DEF SlottedItem, LeasedItem
    <2>2. Tally(delivery', SlottedItem) = Tally(delivery, SlottedItem)
      BY <1>8, <2>1
    <2>3. Tally(delivery', LeasedItem) = Tally(delivery, LeasedItem) + (IF lease THEN 1 ELSE 0)
      BY <1>8, <2>1, BooksFacts DEF Inv
    <2>4. /\ Tally(request', Slotted) = Tally(request, Slotted)
          /\ Tally(request', Leasing) = Tally(request, Leasing)
      <3>1. /\ DOMAIN request = Requests /\ DOMAIN request' = Requests
            /\ \A r \in Requests : request[r] \in RequestRecord /\ request'[r] \in RequestRecord
        BY <1>9 DEF Inv, TypeOK
      <3>2. \A r \in Requests : (request[r] \in Slotted <=> request'[r] \in Slotted)
        BY <1>6, <3>1 DEF Slotted
      <3>3. \A r \in Requests : (request[r] \in Leasing <=> request'[r] \in Leasing)
        BY <1>5, <1>6, <3>1 DEF Leasing, SameLeased
      <3> QED BY <3>1, <3>2, <3>3, TallySame
    <2>5. Tally(delivery', LeasedItem) + Tally(worker', LeasedWork)
            = Tally(delivery, LeasedItem) + Tally(worker, LeasedWork)
      BY <1>2, <2>3, BooksFacts DEF Inv
    <2>6. slots = Tally(request', Slotted) + Tally(delivery', SlottedItem) + Tally(sender, SlottedBatch)
      BY <2>2, <2>4 DEF Inv, Books
    <2>7. leases = Tally(request', Leasing) + Tally(delivery', LeasedItem) + Tally(worker', LeasedWork)
                    + Tally(sender, LeasedBatch)
      <3>1. /\ Tally(delivery', LeasedItem) \in Int /\ Tally(worker', LeasedWork) \in Int
            /\ Tally(request', Leasing) \in Int /\ Tally(sender, LeasedBatch) \in Int
            /\ Tally(delivery, LeasedItem) \in Int /\ Tally(worker, LeasedWork) \in Int
        BY <1>2, <2>3, <2>4, BooksFacts DEF Inv
      <3>2. leases = Tally(request', Leasing) + Tally(delivery, LeasedItem) + Tally(worker, LeasedWork)
                    + Tally(sender, LeasedBatch)
        BY <2>4 DEF Inv, Books
      <3> QED BY <2>5, <3>1, <3>2
    <2> QED BY <1>1, <2>6, <2>7 DEF Books
  <1>16. Reached'
    BY <1>1, <1>6 DEF Inv, Reached, CancelReaches, At, User, TypeOK
  <1>17. Alone'
    BY <1>1, <1>2 DEF Alone
  <1>18. Emptied'
    BY <1>1, <1>2 DEF Inv, Emptied
  <1> QED BY <1>9, <1>10, <1>11, <1>12, <1>13, <1>14, <1>15, <1>16, <1>17, <1>18 DEF Inv

\* Requests that waited, or have been answered, come to an end.
LEMMA EndedFacts ==
  ASSUME Inv, NEW R, R \subseteq Requests, NEW place \in {"done", "dropped"}, Moves(R, place), Frees(R),
         \A r \in R : request[r].at \in {"waiting", "answered"}
  PROVE  /\ Placed(R, place) /\ SameLeased /\ Named' /\ Marked'
         /\ active' \in [Users -> Keys \cup {None}]
         /\ UNCHANGED <<tickets, clearing>> => Reached'
         /\ Tally(request', Slotted) = Tally(request, Slotted)
         /\ Tally(request', Leasing) = Tally(request, Leasing)
  <1>1. place \in Places /\ place \in Refusable /\ \A r \in R : Owns(r) /\ ~At(r, "new")
    BY DEF Places, Refusable, Owns, Owning, At
  <1>2. Placed(R, place) /\ SameLeased
    BY <1>1, MovesFacts DEF Inv, TypeOK
  <1>3. Named' /\ Marked'
    BY <1>1, <1>2, NamedPlaced, MarkedLeaves DEF Inv
  <1>4. active' \in [Users -> Keys \cup {None}]
    BY DEF Frees, Inv, TypeOK
  <1>5. ASSUME UNCHANGED <<tickets, clearing>> PROVE Reached'
    <2>1. \A q \in Requests : request'[q].at = "awaiting" => At(q, "awaiting") /\ request'[q].user = User(q)
      BY <1>2 DEF Placed, At, User
    <2>2. \A q \in clearing : request'[q].at \in {"waiting", "answered", "done", "dropped"}
      BY <1>2 DEF Placed, Inv, Reached, TypeOK
    <2> QED BY <1>5, <2>1, <2>2 DEF Inv, Reached, CancelReaches, At, User
  <1>6. /\ DOMAIN request = Requests /\ DOMAIN request' = Requests
        /\ \A r \in Requests : request[r] \in RequestRecord /\ request'[r] \in RequestRecord
    BY <1>2 DEF Inv, TypeOK, Placed
  <1>7. \A r \in Requests : (request[r] \in Slotted <=> request'[r] \in Slotted)
    BY <1>2, <1>6 DEF Placed, Slotted
  <1>8. \A r \in Requests : (request[r] \in Leasing <=> request'[r] \in Leasing)
    BY <1>2, <1>6 DEF Placed, Leasing, SameLeased
  <1>9. /\ Tally(request', Slotted) = Tally(request, Slotted)
        /\ Tally(request', Leasing) = Tally(request, Leasing)
    BY <1>6, <1>7, <1>8, TallySame
  <1> QED BY <1>2, <1>3, <1>4, <1>5, <1>9

LEMMA DroppedJobInv ==
  ASSUME Inv, NEW w \in Workers, worker[w].at = "sending", worker' = [worker EXCEPT ![w] = Ready],
         Dropped(worker[w].what.key, worker[w].what.waiters, worker[w].leased),
         UNCHANGED <<jobs, job, queue, sender, slots, shared, process, cached, answered>>
  PROVE  Inv'
  <1> DEFINE d == worker[w].what
             lease == worker[w].leased
             R == d.waiters
  <1>1. /\ leases' = (IF lease THEN leases - 1 ELSE leases)
        /\ Finish(d.key, R) /\ Moves(R, "dropped")
        /\ UNCHANGED <<jobs, job, queue, sender, delivery, slots, tickets, clearing, closing,
                       root, attached, cached, answered>>
    BY DEF Dropped, shared, process
  <1>2. /\ worker' \in [Workers -> WorkerRecord] /\ worker'[w] = Ready
        /\ \A v \in Workers \ {w} : worker'[v] = worker[v]
        /\ Ready.at = "idle" /\ Ready.what = Spare
        /\ d \in Job /\ lease \in BOOLEAN /\ R \subseteq Requests /\ d.key \in Keys
        /\ \A i \in Requests : Tally(worker', Computes(i)) = Tally(worker, Computes(i))
        /\ Tally(worker', LeasedWork) = Tally(worker, LeasedWork) - (IF lease THEN 1 ELSE 0)
        /\ \A q \in Requests : /\ worker[w] \in InWork(q) <=> q \in R
                               /\ worker'[w] \notin InWork(q)
        /\ \A v \in Workers : worker'[v].at = "gone" <=> worker[v].at = "gone"
        /\ closing # "closed" /\ ~attached
        /\ (worker[w] \in LeasedWork <=> lease)
    BY ReadyFacts
  <1>3. \A r \in R : At(r, "waiting") /\ Key(r) = d.key
    BY <1>2, CarriedFacts DEF Inv, Alike
  <1> HIDE DEF d, lease, R
  <1>4. Frees(R)
    BY <1>1, <1>2, <1>3, FinishFrees DEF Inv, Owns, At, Owning
  <1>5. /\ Placed(R, "dropped") /\ Named' /\ Marked' /\ Reached'
        /\ active' \in [Users -> Keys \cup {None}]
        /\ Tally(request', Slotted) = Tally(request, Slotted)
        /\ Tally(request', Leasing) = Tally(request, Leasing)
    BY <1>1, <1>2, <1>3, <1>4, EndedFacts DEF At
  <1>6. Books' /\ leases' \in Nat
    <2>1. slots = Tally(request', Slotted) + Tally(delivery, SlottedItem) + Tally(sender, SlottedBatch)
      BY <1>5 DEF Inv, Books
    <2>2. leases' = Tally(request', Leasing) + Tally(delivery, LeasedItem) + Tally(worker', LeasedWork)
                    + Tally(sender, LeasedBatch)
      BY <1>1, <1>2, <1>5, BooksFacts DEF Inv, Books
    <2>3. Tally(worker', LeasedWork) \in Nat
      <3>1. IsFiniteSet(DOMAIN worker')
        BY <1>2, HorizonAssumption
      <3> QED BY <3>1, TallyFacts
    <2>4. leases' \in Nat
      BY <1>5, <2>2, <2>3, BooksFacts DEF Inv
    <2> QED BY <1>1, <2>1, <2>2, <2>4 DEF Books
  <1>7. TypeOK'
    <2>1. recent' \in [Users -> Keys \cup {None}]
      BY <1>1, <1>2 DEF Finish, Inv, TypeOK
    <2> QED BY <1>1, <1>2, <1>5, <1>6, <2>1 DEF Inv, TypeOK, Placed
  <1>8. Alike'
    <2>1. \A q \in Requests : request'[q].key = Key(q)
      BY <1>5 DEF Key, Placed
    <2>2. \A v \in Workers : \A q \in worker'[v].what.waiters : request'[q].key = worker'[v].what.key
      BY <1>2, <2>1, BatchTypes DEF Inv, Alike, Spare
    <2> QED BY <1>1, <2>1, <2>2, BatchTypes DEF Inv, Alike, Key
  <1>9. Carried'
    <2> SUFFICES ASSUME NEW q \in Requests
        PROVE  /\ Tally(job, InJob(q)) + Tally(worker', InWork(q)) + Tally(delivery, InChannel(q))
                    + Tally(sender, InHand(q)) = (IF request'[q].at = "waiting" THEN 1 ELSE 0)
               /\ Tally(sender, Told(q)) = (IF request'[q].at = "answered" THEN 1 ELSE 0)
      BY <1>1 DEF Carried, At
    <2>1. /\ request'[q].at = "waiting" <=> At(q, "waiting") /\ q \notin R
          /\ request'[q].at = "answered" <=> At(q, "answered")
      BY <1>3, <1>5 DEF Placed, At
    <2>2. /\ Tally(job, InJob(q)) \in Nat /\ Tally(worker, InWork(q)) \in Nat
          /\ Tally(delivery, InChannel(q)) \in Nat /\ Tally(sender, InHand(q)) \in Nat
      BY CarriedFacts DEF Inv
    <2>3. (worker[w] \in InWork(q) <=> q \in R) /\ worker'[w] \notin InWork(q)
      BY <1>2
    <2>4. /\ worker[w] \in InWork(q) => Tally(worker', InWork(q)) = Tally(worker, InWork(q)) - 1
          /\ worker[w] \notin InWork(q) => Tally(worker', InWork(q)) = Tally(worker, InWork(q))
      BY <1>2, <2>3, WorkerTally DEF Inv
    <2>5. /\ Tally(job, InJob(q)) + Tally(worker, InWork(q)) + Tally(delivery, InChannel(q))
                + Tally(sender, InHand(q)) = (IF At(q, "waiting") THEN 1 ELSE 0)
          /\ Tally(sender, Told(q)) = (IF At(q, "answered") THEN 1 ELSE 0)
      BY DEF Inv, Carried
    <2>6. CASE q \in R
      <3>1. At(q, "waiting")
        BY <1>3, <2>6
      <3> QED BY <2>1, <2>2, <2>3, <2>4, <2>5, <2>6, <3>1
    <2>7. CASE q \notin R
      BY <2>1, <2>3, <2>4, <2>5, <2>7
    <2> QED BY <2>6, <2>7
  <1>10. Equipped'
    <2>1. \A v \in Workers : /\ worker'[v].at \in {"running", "detaching", "discarding"} => worker'[v].job \in Requests
                             /\ worker'[v].at \in {"leasing", "sending"} => worker'[v].what \in Job
                             /\ worker'[v].at \notin {"leasing", "sending"} => worker'[v].what = Spare
      BY <1>2 DEF Inv, Equipped
    <2> QED BY <1>1, <2>1 DEF Inv, Equipped
  <1>11. Live'
    <2>1. /\ UNCHANGED <<jobs, job, queue>>
          /\ \A i \in Requests : Tally(worker', Computes(i)) = Tally(worker, Computes(i))
      BY <1>1, <1>2
    <2> QED BY <2>1 DEF Inv, Live
  <1>12. Alone'
    BY <1>1, <1>2 DEF Alone
  <1>13. Emptied'
    BY <1>1, <1>2 DEF Inv, Emptied
  <1> QED BY <1>5, <1>6, <1>7, <1>8, <1>9, <1>10, <1>11, <1>12, <1>13 DEF Inv

LEMMA SendJobInv ==
  ASSUME Inv, NEW w \in Workers, SendJob(w)
  PROVE  Inv'
  BY SentJobInv, DroppedJobInv DEF SendJob

-----------------------------------------------------------------------------
(* The delivery workers.                                                   *)

\* A sender takes a result or is rid of one.
LEMMA TakeDeliveryInv ==
  ASSUME Inv, NEW s \in Senders, TakeDelivery(s)
  PROVE  Inv'
  <1> DEFINE d == Head(delivery)
             x == [at |-> "busy", what |-> d, rest |-> d.waiters]
  <1>1. /\ sender[s].at = "idle" /\ delivery # <<>> /\ delivery' = Tail(delivery)
        /\ sender' = [sender EXCEPT ![s] = x]
        /\ UNCHANGED <<request, active, recent, jobs, job, queue, worker, slots, leases, tickets, clearing,
                       closing, root, attached, cached, answered>>
    BY DEF TakeDelivery, maps, registry, shared, process
  <1>2. /\ delivery' \in Seq(Delivery) /\ Len(delivery') = Len(delivery) - 1 /\ d \in Delivery
        /\ 1 \in DOMAIN delivery /\ d = delivery[1] /\ Len(delivery) \in Nat
        /\ \A i \in DOMAIN delivery' : i + 1 \in DOMAIN delivery /\ delivery'[i] = delivery[i + 1]
    BY <1>1, TailFacts, Finiteness DEF Inv, TypeOK
  <1>3. \A T : /\ d \in T => Tally(delivery', T) = Tally(delivery, T) - 1
               /\ d \notin T => Tally(delivery', T) = Tally(delivery, T)
    BY <1>1, TallyTail DEF Inv, TypeOK
  <1> HIDE DEF d
  <1>4. /\ d.waiters \subseteq Requests
        /\ x \in SenderRecord /\ x.at = "busy" /\ x.what = d /\ x.rest = d.waiters
    BY <1>2 DEF Delivery, SenderRecord
  <1> HIDE DEF x
  <1>5. /\ sender[s].what = NoOne /\ sender[s].rest = {} /\ NoOne.waiters = {}
        /\ ~NoOne.slot /\ ~NoOne.leased
    <2>1. NoOne.waiters = {} /\ ~NoOne.slot /\ ~NoOne.leased
      BY DEF NoOne
    <2>2. sender[s].what = NoOne /\ sender[s].rest \subseteq sender[s].what.waiters
      BY <1>1 DEF Inv, Equipped
    <2> QED BY <2>1, <2>2
  <1>6. /\ sender' \in [Senders -> SenderRecord] /\ sender'[s] = x
        /\ \A v \in Senders \ {s} : sender'[v] = sender[v]
    BY <1>1, <1>4 DEF Inv, TypeOK
  <1>7. TypeOK'
    <2>1. Len(delivery') <= DeliverySize
      BY <1>2, HorizonAssumption DEF Inv, TypeOK
    <2> QED BY <1>1, <1>2, <1>6, <2>1 DEF Inv, TypeOK
  <1>8. Named' /\ Marked' /\ Reached' /\ Live'
    BY <1>1 DEF Inv, Named, Marked, Reached, CancelReaches, Live, At, User, Key, Owns
  <1>9. Alike'
    <2>1. \A i \in DOMAIN delivery' : \A q \in delivery'[i].waiters : Key(q) = delivery'[i].key
      BY <1>2 DEF Inv, Alike
    <2>2. \A v \in Senders : \A q \in sender'[v].what.waiters : Key(q) = sender'[v].what.key
      BY <1>2, <1>4, <1>6 DEF Inv, Alike
    <2> QED BY <1>1, <2>1, <2>2 DEF Inv, Alike, Key
  <1>10. Carried'
    <2> SUFFICES ASSUME NEW q \in Requests
        PROVE  /\ Tally(job, InJob(q)) + Tally(worker, InWork(q)) + Tally(delivery', InChannel(q))
                    + Tally(sender', InHand(q)) = (IF At(q, "waiting") THEN 1 ELSE 0)
               /\ Tally(sender', Told(q)) = (IF At(q, "answered") THEN 1 ELSE 0)
      BY <1>1 DEF Carried, At
    <2>1. /\ (d \in InChannel(q) <=> q \in d.waiters)
          /\ sender[s] \notin InHand(q) /\ (sender'[s] \in InHand(q) <=> q \in d.waiters)
          /\ sender[s] \notin Told(q) /\ sender'[s] \notin Told(q)
      BY <1>2, <1>4, <1>5, <1>6 DEF InChannel, InHand, Told
    <2>2. /\ Tally(job, InJob(q)) \in Nat /\ Tally(worker, InWork(q)) \in Nat
          /\ Tally(delivery, InChannel(q)) \in Nat /\ Tally(sender, InHand(q)) \in Nat
      BY CarriedFacts DEF Inv
    <2>3. /\ q \in d.waiters => /\ Tally(delivery', InChannel(q)) = Tally(delivery, InChannel(q)) - 1
                                /\ Tally(sender', InHand(q)) = Tally(sender, InHand(q)) + 1
          /\ q \notin d.waiters => /\ Tally(delivery', InChannel(q)) = Tally(delivery, InChannel(q))
                                   /\ Tally(sender', InHand(q)) = Tally(sender, InHand(q))
      BY <1>3, <1>6, <2>1, SenderTally DEF Inv
    <2>4. Tally(sender', Told(q)) = Tally(sender, Told(q))
      BY <1>6, <2>1, SenderTally DEF Inv
    <2>5. /\ Tally(job, InJob(q)) + Tally(worker, InWork(q)) + Tally(delivery, InChannel(q))
                + Tally(sender, InHand(q)) = (IF At(q, "waiting") THEN 1 ELSE 0)
          /\ Tally(sender, Told(q)) = (IF At(q, "answered") THEN 1 ELSE 0)
      BY DEF Inv, Carried
    <2>6. CASE q \in d.waiters
      BY <2>2, <2>3, <2>4, <2>5, <2>6
    <2>7. CASE q \notin d.waiters
      BY <2>3, <2>4, <2>5, <2>7
    <2> QED BY <2>6, <2>7
  <1>11. Equipped'
    <2>1. \A v \in Senders : /\ sender'[v].at = "busy" => sender'[v].what \in Delivery
                             /\ sender'[v].at # "busy" => sender'[v].what = NoOne
                             /\ sender'[v].rest \subseteq sender'[v].what.waiters
      BY <1>2, <1>4, <1>6 DEF Inv, Equipped
    <2> QED BY <1>1, <2>1 DEF Inv, Equipped
  <1>12. Books'
    <2>1. /\ (d \in SlottedItem <=> d.slot) /\ (d \in LeasedItem <=> d.leased)
          /\ sender[s] \notin SlottedBatch /\ (sender'[s] \in SlottedBatch <=> d.slot)
          /\ sender[s] \notin LeasedBatch /\ (sender'[s] \in LeasedBatch <=> d.leased)
      BY <1>2, <1>4, <1>5, <1>6 DEF SlottedItem, LeasedItem, SlottedBatch, LeasedBatch
    <2>2. /\ d.slot => /\ Tally(delivery', SlottedItem) = Tally(delivery, SlottedItem) - 1
                       /\ Tally(sender', SlottedBatch) = Tally(sender, SlottedBatch) + 1
          /\ ~d.slot => /\ Tally(delivery', SlottedItem) = Tally(delivery, SlottedItem)
                        /\ Tally(sender', SlottedBatch) = Tally(sender, SlottedBatch)
      BY <1>3, <1>6, <2>1, SenderTally DEF Inv
    <2>3. /\ d.leased => /\ Tally(delivery', LeasedItem) = Tally(delivery, LeasedItem) - 1
                         /\ Tally(sender', LeasedBatch) = Tally(sender, LeasedBatch) + 1
          /\ ~d.leased => /\ Tally(delivery', LeasedItem) = Tally(delivery, LeasedItem)
                          /\ Tally(sender', LeasedBatch) = Tally(sender, LeasedBatch)
      BY <1>3, <1>6, <2>1, SenderTally DEF Inv
    <2>4. slots = Tally(request, Slotted) + Tally(delivery', SlottedItem) + Tally(sender', SlottedBatch)
      BY <2>2, BooksFacts DEF Inv, Books
    <2>5. leases = Tally(request, Leasing) + Tally(delivery', LeasedItem) + Tally(worker, LeasedWork)
                    + Tally(sender', LeasedBatch)
      BY <2>3, BooksFacts DEF Inv, Books
    <2> QED BY <1>1, <2>4, <2>5 DEF Books
  <1>13. Alone'
    <2>1. ASSUME attached, NEW i \in DOMAIN delivery' PROVE \E r \in Requests : delivery'[i].waiters = {r}
      BY <1>2, <2>1 DEF Inv, Alone
    <2>2. ASSUME attached, NEW v \in Senders, sender'[v].at = "busy"
          PROVE  \E r \in Requests : sender'[v].what.waiters = {r}
      <3>1. CASE v = s
        <4>1. sender'[v].what = delivery[1]
          BY <1>2, <1>4, <1>6, <3>1
        <4> QED BY <1>2, <2>2, <4>1 DEF Inv, Alone
      <3>2. CASE v # s
        <4>1. sender'[v] = sender[v]
          BY <1>6, <3>2
        <4> QED BY <2>2, <4>1 DEF Inv, Alone
      <3> QED BY <3>1, <3>2
    <2> QED BY <1>1, <2>1, <2>2 DEF Inv, Alone, At, Answered
  <1>14. Emptied'
    BY <1>1 DEF Inv, Emptied
  <1> QED BY <1>7, <1>8, <1>9, <1>10, <1>11, <1>12, <1>13, <1>14 DEF Inv

LEMMA AnswerInv ==
  ASSUME Inv, NEW s \in Senders, Answer(s)
  PROVE  Inv'
  <1>1. PICK r \in sender[s].rest :
          /\ sender' = [sender EXCEPT ![s] = [sender[s] EXCEPT !.rest = sender[s].rest \ {r}]]
          /\ answered' = answered \cup {r} /\ Moves({r}, "answered")
    BY DEF Answer
  <1>2. /\ sender[s].at = "busy" /\ root
        /\ UNCHANGED <<active, recent, jobs, job, queue, worker, delivery, slots, leases, tickets, clearing,
                       closing, root, attached, cached>>
    BY DEF Answer, maps, registry, shared, process
  <1>3. /\ sender[s] \in SenderRecord /\ sender[s].rest \subseteq Requests
        /\ r \in Requests /\ r \in sender[s].what.waiters /\ request[r].at = "waiting"
    BY CarriedFacts DEF Inv, TypeOK, SenderRecord, Equipped, At
  <1>4. /\ sender' \in [Senders -> SenderRecord]
        /\ sender'[s].at = "busy" /\ sender'[s].what = sender[s].what
        /\ sender'[s].rest = sender[s].rest \ {r}
        /\ \A v \in Senders \ {s} : sender'[v] = sender[v]
    <2> DEFINE x == [sender[s] EXCEPT !.rest = sender[s].rest \ {r}]
    <2>1. x \in SenderRecord /\ x.at = "busy" /\ x.what = sender[s].what /\ x.rest = sender[s].rest \ {r}
      BY <1>2, <1>3 DEF SenderRecord
    <2> HIDE DEF x
    <2>2. sender' = [sender EXCEPT ![s] = x]
      BY <1>1 DEF x
    <2> QED BY <2>1, <2>2 DEF Inv, TypeOK
  <1>5. "answered" \in Places \cap Owning /\ Owns(r) /\ ~At(r, "new")
    BY <1>3 DEF Places, Owning, Owns, At
  <1>6. Placed({r}, "answered") /\ SameLeased
    BY <1>1, <1>5, MovesFacts DEF Inv, TypeOK
  <1>7. TypeOK'
    BY <1>1, <1>2, <1>3, <1>4, <1>6 DEF Inv, TypeOK, Placed
  <1>8. Named' /\ Marked'
    BY <1>2, <1>5, <1>6, NamedPlaced, MarkedSame DEF Inv
  <1>9. Alike'
    <2>1. \A q \in Requests : request'[q].key = Key(q)
      BY <1>6 DEF Key, Placed
    <2>2. \A v \in Senders : sender'[v].what = sender[v].what
      BY <1>4
    <2> QED BY <1>2, <2>1, <2>2, BatchTypes DEF Inv, Alike, Key
  <1>10. Carried'
    <2> SUFFICES ASSUME NEW q \in Requests
        PROVE  /\ Tally(job, InJob(q)) + Tally(worker, InWork(q)) + Tally(delivery, InChannel(q))
                    + Tally(sender', InHand(q)) = (IF request'[q].at = "waiting" THEN 1 ELSE 0)
               /\ Tally(sender', Told(q)) = (IF request'[q].at = "answered" THEN 1 ELSE 0)
      BY <1>2 DEF Carried, At
    <2>1. /\ (sender[s] \in InHand(q) <=> q \in sender[s].rest)
          /\ (sender'[s] \in InHand(q) <=> q \in sender[s].rest /\ q # r)
          /\ (sender[s] \in Told(q) <=> q \in sender[s].what.waiters /\ q \notin sender[s].rest)
          /\ (sender'[s] \in Told(q) <=> (q \in sender[s].what.waiters /\ q \notin sender[s].rest) \/ q = r)
      BY <1>3, <1>4 DEF InHand, Told
    <2>2. /\ Tally(job, InJob(q)) \in Nat /\ Tally(worker, InWork(q)) \in Nat
          /\ Tally(delivery, InChannel(q)) \in Nat /\ Tally(sender, InHand(q)) \in Nat
          /\ Tally(sender, Told(q)) \in Nat
      BY CarriedFacts DEF Inv
    <2>3. /\ q = r => /\ Tally(sender', InHand(q)) = Tally(sender, InHand(q)) - 1
                      /\ Tally(sender', Told(q)) = Tally(sender, Told(q)) + 1
          /\ q # r => /\ Tally(sender', InHand(q)) = Tally(sender, InHand(q))
                      /\ Tally(sender', Told(q)) = Tally(sender, Told(q))
      BY <1>4, <2>1, SenderTally DEF Inv
    <2>4. /\ Tally(job, InJob(q)) + Tally(worker, InWork(q)) + Tally(delivery, InChannel(q))
                + Tally(sender, InHand(q)) = (IF At(q, "waiting") THEN 1 ELSE 0)
          /\ Tally(sender, Told(q)) = (IF At(q, "answered") THEN 1 ELSE 0)
      BY DEF Inv, Carried
    <2>5. CASE q = r
      <3>1. At(q, "waiting") /\ ~At(q, "answered") /\ request'[q].at = "answered"
        BY <1>3, <1>6, <2>5 DEF At, Placed
      <3> QED BY <2>2, <2>3, <2>4, <2>5, <3>1
    <2>6. CASE q # r
      <3>1. request'[q].at = request[q].at
        BY <1>6, <2>6 DEF Placed
      <3> QED BY <2>3, <2>4, <2>6, <3>1 DEF At
    <2> QED BY <2>5, <2>6
  <1>11. Equipped'
    <2>1. \A v \in Senders : /\ sender'[v].at = "busy" => sender'[v].what \in Delivery
                             /\ sender'[v].at # "busy" => sender'[v].what = NoOne
                             /\ sender'[v].rest \subseteq sender'[v].what.waiters
      BY <1>2, <1>4 DEF Inv, Equipped
    <2> QED BY <1>2, <2>1 DEF Inv, Equipped
  <1>12. Live'
    BY <1>2 DEF Inv, Live
  <1>13. Books'
    <2>1. /\ sender[s] \in SlottedBatch <=> sender'[s] \in SlottedBatch
          /\ sender[s] \in LeasedBatch <=> sender'[s] \in LeasedBatch
      BY <1>3, <1>4 DEF SlottedBatch, LeasedBatch
    <2>2. /\ Tally(sender', SlottedBatch) = Tally(sender, SlottedBatch)
          /\ Tally(sender', LeasedBatch) = Tally(sender, LeasedBatch)
      BY <1>4, <2>1, SenderTally DEF Inv
    <2>3. /\ DOMAIN request = Requests /\ DOMAIN request' = Requests
          /\ \A q \in Requests : request[q] \in RequestRecord /\ request'[q] \in RequestRecord
      BY <1>7 DEF Inv, TypeOK
    <2>4. \A q \in Requests : (request[q] \in Slotted <=> request'[q] \in Slotted)
      BY <1>3, <1>6, <2>3 DEF Placed, Slotted
    <2>5. \A q \in Requests : (request[q] \in Leasing <=> request'[q] \in Leasing)
      BY <1>3, <1>6, <2>3 DEF Placed, Leasing, SameLeased
    <2>6. /\ Tally(request', Slotted) = Tally(request, Slotted)
          /\ Tally(request', Leasing) = Tally(request, Leasing)
      BY <2>3, <2>4, <2>5, TallySame
    <2> QED BY <1>2, <2>2, <2>6 DEF Inv, Books
  <1>14. Reached'
    <2>1. \A q \in Requests : request'[q].at = "awaiting" => At(q, "awaiting") /\ request'[q].user = User(q)
      BY <1>6 DEF Placed, At, User
    <2>2. \A q \in clearing : request'[q].at \in {"waiting", "answered", "done", "dropped"}
      BY <1>6 DEF Placed, Inv, Reached, TypeOK
    <2> QED BY <1>2, <2>1, <2>2 DEF Inv, Reached, CancelReaches, At, User
  <1>15. Alone'
    <2>1. \A v \in Senders : sender'[v].what = sender[v].what /\ sender'[v].at = sender[v].at
      BY <1>2, <1>4
    <2>2. ASSUME attached, NEW q \in Requests
          PROVE  /\ request'[q].at = "answered" => q \in answered'
                 /\ request'[q].at = "done" => q \in answered' \/ ~root
      BY <1>1, <1>6, <2>2 DEF Placed, Inv, Alone, At, Answered
    <2> QED BY <1>2, <2>1, <2>2 DEF Inv, Alone, At, Answered
  <1>16. Emptied'
    <2>1. closing # "closed"
      BY <1>2 DEF Inv, Emptied
    <2> QED BY <1>2, <2>1 DEF Inv, Emptied
  <1> QED BY <1>7, <1>8, <1>9, <1>10, <1>11, <1>12, <1>13, <1>14, <1>15, <1>16 DEF Inv

LEMMA SenderLeavesInv ==
  ASSUME Inv, NEW s \in Senders, SenderLeaves(s)
  PROVE  Inv'
  <1>1. /\ sender[s].at = "idle" /\ ~root
        /\ sender' = [sender EXCEPT ![s] = [sender[s] EXCEPT !.at = "gone"]]
        /\ UNCHANGED <<request, active, recent, jobs, job, queue, worker, delivery, slots, leases, tickets,
                       clearing, closing, root, attached, cached, answered>>
    BY DEF SenderLeaves, maps, registry, shared, process
  <1>2. /\ sender' \in [Senders -> SenderRecord]
        /\ sender'[s].at = "gone" /\ sender'[s].what = sender[s].what /\ sender'[s].rest = sender[s].rest
        /\ \A v \in Senders \ {s} : sender'[v] = sender[v]
    <2> DEFINE x == [sender[s] EXCEPT !.at = "gone"]
    <2>1. x \in SenderRecord /\ x.at = "gone" /\ x.what = sender[s].what /\ x.rest = sender[s].rest
      BY DEF SenderRecord, Inv, TypeOK
    <2> HIDE DEF x
    <2>2. sender' = [sender EXCEPT ![s] = x]
      BY <1>1 DEF x
    <2> QED BY <2>1, <2>2 DEF Inv, TypeOK
  <1>3. TypeOK'
    BY <1>1, <1>2 DEF Inv, TypeOK
  <1>4. \A v \in Senders : sender'[v].what = sender[v].what /\ sender'[v].rest = sender[v].rest
    BY <1>2
  <1>5. Named' /\ Marked' /\ Reached' /\ Live'
    BY <1>1 DEF Inv, Named, Marked, Reached, CancelReaches, Live, At, User, Key, Owns
  <1>6. Alike'
    BY <1>1, <1>4 DEF Inv, Alike, Key
  <1>7. Carried'
    <2>1. \A q \in Requests : /\ sender[s] \in InHand(q) <=> sender'[s] \in InHand(q)
                              /\ sender[s] \in Told(q) <=> sender'[s] \in Told(q)
      BY <1>2, <1>4 DEF InHand, Told, Inv, TypeOK
    <2>2. \A q \in Requests : /\ Tally(sender', InHand(q)) = Tally(sender, InHand(q))
                              /\ Tally(sender', Told(q)) = Tally(sender, Told(q))
      BY <1>2, <2>1, SenderTally DEF Inv
    <2> QED BY <1>1, <2>2 DEF Inv, Carried, At
  <1>8. Equipped'
    <2>1. \A v \in Senders : /\ sender'[v].at = "busy" => sender'[v].what \in Delivery
                             /\ sender'[v].at # "busy" => sender'[v].what = NoOne
                             /\ sender'[v].rest \subseteq sender'[v].what.waiters
      BY <1>1, <1>2 DEF Inv, Equipped
    <2> QED BY <1>1, <2>1 DEF Inv, Equipped
  <1>9. Books'
    <2>1. /\ sender[s] \in SlottedBatch <=> sender'[s] \in SlottedBatch
          /\ sender[s] \in LeasedBatch <=> sender'[s] \in LeasedBatch
      BY <1>2 DEF SlottedBatch, LeasedBatch, Inv, TypeOK
    <2>2. /\ Tally(sender', SlottedBatch) = Tally(sender, SlottedBatch)
          /\ Tally(sender', LeasedBatch) = Tally(sender, LeasedBatch)
      BY <1>2, <2>1, SenderTally DEF Inv
    <2> QED BY <1>1, <2>2 DEF Inv, Books
  <1>10. Alone'
    <2>1. \A v \in Senders : sender'[v].at = "busy" => sender[v].at = "busy"
      BY <1>2
    <2> QED BY <1>1, <1>4, <2>1 DEF Inv, Alone, At, Answered
  <1>11. Emptied'
    <2>1. closing # "closed"
      BY <1>1 DEF Inv, Emptied
    <2> QED BY <1>1, <2>1 DEF Inv, Emptied
  <1> QED BY <1>3, <1>5, <1>6, <1>7, <1>8, <1>9, <1>10, <1>11 DEF Inv

LEMMA FinishDeliveryInv ==
  ASSUME Inv, NEW s \in Senders, FinishDelivery(s)
  PROVE  Inv'
  <1> DEFINE d == sender[s].what
             R == d.waiters
             x == [at |-> "idle", what |-> NoOne, rest |-> {}]
  <1>1. /\ Finish(d.key, R) /\ Moves(R, "done")
        /\ slots' = (IF d.slot THEN slots - 1 ELSE slots)
        /\ leases' = (IF d.leased THEN leases - 1 ELSE leases)
        /\ sender' = [sender EXCEPT ![s] = x]
        /\ UNCHANGED <<jobs, job, queue, worker, delivery, tickets, clearing, closing, root, attached, cached,
                       answered>>
    BY DEF FinishDelivery, registry, shared, process
  <1>2. /\ sender[s].at = "busy" /\ (sender[s].rest = {} \/ sender[s].rest # R \/ ~root)
    BY DEF FinishDelivery
  <1>3. /\ d \in Delivery /\ R \subseteq Requests /\ sender[s].rest \subseteq R /\ d.key \in Keys
        /\ d.slot \in BOOLEAN /\ d.leased \in BOOLEAN
        /\ sender[s] \in SenderRecord
    BY <1>2 DEF Inv, Equipped, Delivery, TypeOK
  <1>4. \A r \in R : /\ r \in sender[s].rest => request[r].at = "waiting"
                     /\ r \notin sender[s].rest => request[r].at = "answered"
                     /\ Key(r) = d.key
    BY <1>3, CarriedFacts DEF Inv, Alike, At
  <1>5. /\ x \in SenderRecord /\ x.at = "idle" /\ x.what = NoOne /\ x.rest = {}
        /\ NoOne.waiters = {} /\ ~NoOne.slot /\ ~NoOne.leased
    BY DEF SenderRecord, NoOne
  <1> HIDE DEF d, R, x
  <1>6. /\ sender' \in [Senders -> SenderRecord] /\ sender'[s] = x
        /\ \A v \in Senders \ {s} : sender'[v] = sender[v]
    BY <1>1, <1>5 DEF Inv, TypeOK
  <1>7. Frees(R)
    BY <1>1, <1>3, <1>4, FinishFrees DEF Inv, Owns, Owning
  <1>8. /\ Placed(R, "done") /\ Named' /\ Marked' /\ Reached'
        /\ active' \in [Users -> Keys \cup {None}]
        /\ Tally(request', Slotted) = Tally(request, Slotted)
        /\ Tally(request', Leasing) = Tally(request, Leasing)
    BY <1>1, <1>3, <1>4, <1>7, EndedFacts
  <1>9. Books' /\ slots' \in 0..CacheShare /\ leases' \in Nat
    <2>1. /\ sender'[s] \notin SlottedBatch /\ sender'[s] \notin LeasedBatch
          /\ (sender[s] \in SlottedBatch <=> d.slot) /\ (sender[s] \in LeasedBatch <=> d.leased)
      BY <1>3, <1>5, <1>6 DEF SlottedBatch, LeasedBatch, d
    <2>2. /\ d.slot => Tally(sender', SlottedBatch) = Tally(sender, SlottedBatch) - 1
          /\ ~d.slot => Tally(sender', SlottedBatch) = Tally(sender, SlottedBatch)
          /\ d.leased => Tally(sender', LeasedBatch) = Tally(sender, LeasedBatch) - 1
          /\ ~d.leased => Tally(sender', LeasedBatch) = Tally(sender, LeasedBatch)
      BY <1>6, <2>1, SenderTally DEF Inv
    <2>3. slots' = Tally(request', Slotted) + Tally(delivery, SlottedItem) + Tally(sender', SlottedBatch)
      BY <1>1, <1>3, <1>8, <2>2, BooksFacts DEF Inv, Books
    <2>4. leases' = Tally(request', Leasing) + Tally(delivery, LeasedItem) + Tally(worker, LeasedWork)
                     + Tally(sender', LeasedBatch)
      BY <1>1, <1>3, <1>8, <2>2, BooksFacts DEF Inv, Books
    <2>5. Tally(sender', SlottedBatch) \in Nat /\ Tally(sender', LeasedBatch) \in Nat
      <3>1. IsFiniteSet(DOMAIN sender')
        BY <1>6, HorizonAssumption
      <3> QED BY <3>1, TallyFacts
    <2>6. slots' \in Nat /\ leases' \in Nat
      BY <1>8, <2>3, <2>4, <2>5, BooksFacts DEF Inv
    <2>7. slots' \in 0..CacheShare
      BY <1>1, <2>6, HorizonAssumption DEF Inv, TypeOK
    <2> QED BY <1>1, <2>3, <2>4, <2>6, <2>7 DEF Books
  <1>10. TypeOK'
    <2>1. recent' \in [Users -> Keys \cup {None}]
      BY <1>1, <1>3 DEF Finish, Inv, TypeOK
    <2> QED BY <1>1, <1>6, <1>8, <1>9, <2>1 DEF Inv, TypeOK, Placed
  <1>11. Alike'
    <2>1. \A q \in Requests : request'[q].key = Key(q)
      BY <1>8 DEF Key, Placed
    <2>2. \A v \in Senders : \A q \in sender'[v].what.waiters : request'[q].key = sender'[v].what.key
      BY <1>5, <1>6, <2>1, BatchTypes DEF Inv, Alike
    <2> QED BY <1>1, <2>1, <2>2, BatchTypes DEF Inv, Alike, Key
  <1>12. Carried'
    <2> SUFFICES ASSUME NEW q \in Requests
        PROVE  /\ Tally(job, InJob(q)) + Tally(worker, InWork(q)) + Tally(delivery, InChannel(q))
                    + Tally(sender', InHand(q)) = (IF request'[q].at = "waiting" THEN 1 ELSE 0)
               /\ Tally(sender', Told(q)) = (IF request'[q].at = "answered" THEN 1 ELSE 0)
      BY <1>1 DEF Carried, At
    <2>1. /\ (sender[s] \in InHand(q) <=> q \in sender[s].rest)
          /\ sender'[s] \notin InHand(q)
          /\ (sender[s] \in Told(q) <=> q \in R /\ q \notin sender[s].rest)
          /\ sender'[s] \notin Told(q)
      BY <1>3, <1>5, <1>6 DEF InHand, Told, R, d
    <2>2. /\ Tally(job, InJob(q)) \in Nat /\ Tally(worker, InWork(q)) \in Nat
          /\ Tally(delivery, InChannel(q)) \in Nat /\ Tally(sender, InHand(q)) \in Nat
          /\ Tally(sender, Told(q)) \in Nat
      BY CarriedFacts DEF Inv
    <2>3. /\ q \in sender[s].rest => Tally(sender', InHand(q)) = Tally(sender, InHand(q)) - 1
          /\ q \notin sender[s].rest => Tally(sender', InHand(q)) = Tally(sender, InHand(q))
          /\ q \in R /\ q \notin sender[s].rest => Tally(sender', Told(q)) = Tally(sender, Told(q)) - 1
          /\ ~(q \in R /\ q \notin sender[s].rest) => Tally(sender', Told(q)) = Tally(sender, Told(q))
      BY <1>6, <2>1, SenderTally DEF Inv
    <2>4. /\ Tally(job, InJob(q)) + Tally(worker, InWork(q)) + Tally(delivery, InChannel(q))
                + Tally(sender, InHand(q)) = (IF At(q, "waiting") THEN 1 ELSE 0)
          /\ Tally(sender, Told(q)) = (IF At(q, "answered") THEN 1 ELSE 0)
      BY DEF Inv, Carried
    <2>5. CASE q \in sender[s].rest
      <3>1. At(q, "waiting") /\ ~At(q, "answered") /\ request'[q].at = "done"
        BY <1>3, <1>4, <1>8, <2>5 DEF At, Placed
      <3> QED BY <2>2, <2>3, <2>4, <2>5, <3>1
    <2>6. CASE q \in R /\ q \notin sender[s].rest
      <3>1. ~At(q, "waiting") /\ At(q, "answered") /\ request'[q].at = "done"
        BY <1>3, <1>4, <1>8, <2>6 DEF At, Placed
      <3> QED BY <2>2, <2>3, <2>4, <2>6, <3>1
    <2>7. CASE q \notin R
      <3>1. request'[q].at = request[q].at /\ q \notin sender[s].rest
        BY <1>3, <1>8, <2>7 DEF Placed
      <3> QED BY <2>3, <2>4, <2>7, <3>1 DEF At
    <2> QED BY <2>5, <2>6, <2>7
  <1>13. Equipped'
    <2>1. \A v \in Senders : /\ sender'[v].at = "busy" => sender'[v].what \in Delivery
                             /\ sender'[v].at # "busy" => sender'[v].what = NoOne
                             /\ sender'[v].rest \subseteq sender'[v].what.waiters
      BY <1>5, <1>6 DEF Inv, Equipped
    <2> QED BY <1>1, <2>1 DEF Inv, Equipped
  <1>14. Live'
    BY <1>1 DEF Inv, Live
  <1>15. Alone'
    <2> SUFFICES ASSUME attached PROVE Alone'
      BY <1>1 DEF Alone
    <2>1. PICK r \in Requests : R = {r}
      BY <1>2 DEF Inv, Alone, R, d
    <2>2. r \in answered \/ ~root
      <3>1. CASE ~root
        BY <3>1
      <3>2. CASE root
        <4>1. r \notin sender[s].rest
          BY <1>2, <1>3, <2>1, <3>2
        <4>2. At(r, "answered")
          BY <1>4, <2>1, <4>1 DEF At
        <4> QED BY <4>2 DEF Inv, Alone
      <3> QED BY <3>1, <3>2
    <2>3. ASSUME NEW q \in Requests
          PROVE  /\ request'[q].at = "answered" => q \in answered
                 /\ request'[q].at = "done" => q \in answered \/ ~root
      BY <1>8, <2>1, <2>2 DEF Placed, Inv, Alone, At, Answered
    <2>4. \A v \in Senders : sender'[v].at = "busy" => sender'[v] = sender[v]
      BY <1>5, <1>6
    <2> QED BY <1>1, <2>3, <2>4 DEF Inv, Alone, At, Answered
  <1>16. Emptied'
    <2>1. closing # "closed"
      BY <1>2 DEF Inv, Emptied
    <2> QED BY <1>1, <2>1 DEF Inv, Emptied
  <1> QED BY <1>8, <1>9, <1>10, <1>11, <1>12, <1>13, <1>14, <1>15, <1>16 DEF Inv

-----------------------------------------------------------------------------
(* The end.                                                                *)

LEMMA WorkerLeavesInv ==
  ASSUME Inv, NEW w \in Workers, worker[w].at \in {"idle", "draining"}, ~root, queue = <<>>,
         worker' = [worker EXCEPT ![w].at = "gone"],
         UNCHANGED <<request, active, jobs, job, queue, recent, channel, shared, process, cached, answered>>
  PROVE  Inv'
  <1>1. UNCHANGED <<sender, delivery, slots, leases, tickets, clearing, closing, root, attached>>
    BY DEF channel, shared, process
  <1>2. /\ worker' \in [Workers -> WorkerRecord] /\ worker'[w].at = "gone"
        /\ worker'[w].what = worker[w].what /\ \A v \in Workers \ {w} : worker'[v] = worker[v]
    <2> DEFINE x == [worker[w] EXCEPT !.at = "gone"]
    <2>1. x \in WorkerRecord /\ x.at = "gone" /\ x.what = worker[w].what
      BY DEF WorkerRecord, Inv, TypeOK
    <2> HIDE DEF x
    <2>2. worker' = [worker EXCEPT ![w] = x]
      BY DEF x
    <2> QED BY <2>1, <2>2 DEF Inv, TypeOK
  <1>3. TypeOK'
    BY <1>1, <1>2 DEF Inv, TypeOK
  <1>4. Named' /\ Marked'
    BY DEF Inv, Named, Marked, At, User, Key, Owns
  <1>5. Alike' /\ Carried'
    <2>1. SameWork
      BY <1>2 DEF SameWork
    <2>2. Placed({}, "new") /\ "new" \in Places \ {"waiting", "answered"}
      BY StillPlaced DEF Inv, Places, Refusable
    <2> QED BY <1>1, <1>3, <2>1, <2>2, CarriedSame DEF Inv
  <1>6. Equipped'
    BY <1>1, <1>2 DEF Inv, Equipped
  <1>7. Live'
    <2>1. \A i \in Requests : Tally(worker', Computes(i)) = Tally(worker, Computes(i))
      <3> SUFFICES ASSUME NEW i \in Requests
          PROVE  Tally(worker', Computes(i)) = Tally(worker, Computes(i))
        OBVIOUS
      <3>1. worker[w] \notin Computes(i) /\ worker'[w] \notin Computes(i)
        BY <1>2 DEF Computes
      <3> QED BY <1>2, <3>1, WorkerTally DEF Inv
    <2> QED BY <2>1 DEF Inv, Live
  <1>8. Books'
    <2>1. worker[w] \notin LeasedWork /\ worker'[w] \notin LeasedWork
      BY <1>2 DEF LeasedWork
    <2>2. Tally(worker', LeasedWork) = Tally(worker, LeasedWork)
      BY <1>2, <2>1, WorkerTally DEF Inv
    <2> QED BY <1>1, <2>2 DEF Inv, Books
  <1>9. Reached'
    BY <1>1 DEF Inv, Reached, CancelReaches, At, User
  <1>10. Alone'
    BY <1>1 DEF Inv, Alone
  <1>11. Emptied'
    BY <1>1, <1>2 DEF Inv, Emptied
  <1> QED BY <1>3, <1>4, <1>5, <1>6, <1>7, <1>8, <1>9, <1>10, <1>11 DEF Inv

LEMMA DrainInv ==
  ASSUME Inv, NEW w \in Workers, Drain(w)
  PROVE  Inv'
  <1> DEFINE j == worker[w].job
             R == job[j].waiters
             k == job[j].key
  <1>1. CASE /\ worker[w].at \in {"idle", "draining"} /\ queue = <<>>
             /\ worker' = [worker EXCEPT ![w].at = "gone"]
             /\ UNCHANGED <<request, active, jobs, job, queue>>
    BY <1>1, WorkerLeavesInv DEF Drain
  <1>2. CASE /\ worker[w].at \in {"idle", "draining"} /\ queue # <<>> /\ queue' = Tail(queue)
             /\ worker' = [worker EXCEPT ![w] = [@ EXCEPT !.at = "discarding", !.job = Head(queue)]]
             /\ UNCHANGED <<request, active, jobs, job>>
    <2>1. worker' = [worker EXCEPT ![w] = [worker[w] EXCEPT !.at = "discarding", !.job = Head(queue)]]
      BY <1>2
    <2> QED BY <1>2, <2>1, ReceiveInv DEF Drain
  <1>3. ASSUME worker[w].at = "discarding", queue' = queue,
               worker' = [worker EXCEPT ![w] = [@ EXCEPT !.at = "draining", !.job = None]],
               jobs' = [jobs EXCEPT ![k] = None],
               active' = [u \in Users |-> IF u \in {User(r) : r \in R} THEN None ELSE active[u]],
               Moves(R, "done"), job' = [job EXCEPT ![j] = Spare]
        PROVE  Inv'
    <2>1. /\ ~root
          /\ UNCHANGED <<recent, sender, delivery, slots, leases, tickets, clearing, closing, root, attached,
                         cached, answered>>
      BY DEF Drain, channel, shared, process
    <2>2. j \in Requests /\ job[j] # Spare /\ worker[w] \in Computes(j) /\ worker[w] \in WorkerRecord
      BY <1>3, LiveFacts DEF Inv, TypeOK
    <2>3. \A i \in Requests : worker[w] \in Computes(i) <=> i = j
      BY <2>2 DEF Computes
    <2> HIDE DEF j
    <2>4. /\ job[j] # Spare /\ job[j] \in Job /\ k \in Keys /\ jobs[k] = j /\ R \subseteq Requests
      BY <2>2, LiveFacts, BatchTypes DEF Inv, Live
    <2>5. \A r \in R : At(r, "waiting")
      BY <2>2, <2>4, CarriedFacts DEF Inv
    <2> HIDE DEF R, k
    <2>6. Frees(R)
      BY <1>3 DEF Frees
    <2>7. /\ Placed(R, "done") /\ Named' /\ Marked' /\ Reached'
          /\ active' \in [Users -> Keys \cup {None}]
          /\ Tally(request', Slotted) = Tally(request, Slotted)
          /\ Tally(request', Leasing) = Tally(request, Leasing)
      BY <1>3, <2>1, <2>4, <2>5, <2>6, EndedFacts DEF At
    <2>8. /\ worker' \in [Workers -> WorkerRecord] /\ worker'[w].at = "draining"
          /\ worker'[w].what = worker[w].what /\ \A v \in Workers \ {w} : worker'[v] = worker[v]
      <3> DEFINE x == [worker[w] EXCEPT !.at = "draining", !.job = None]
      <3>1. x \in WorkerRecord /\ x.at = "draining" /\ x.what = worker[w].what
        BY DEF WorkerRecord, Inv, TypeOK
      <3> HIDE DEF x
      <3>2. worker' = [worker EXCEPT ![w] = x]
        BY <1>3 DEF x
      <3> QED BY <3>1, <3>2 DEF Inv, TypeOK
    <2>9. /\ job'[j] = Spare /\ \A i \in Requests \ {j} : job'[i] = job[i]
          /\ job' \in [Requests -> Job \cup {Spare}]
          /\ jobs'[k] = None /\ \A i \in Keys \ {k} : jobs'[i] = jobs[i]
          /\ jobs' \in [Keys -> Requests \cup {None}]
      BY <1>3, <2>2, <2>4 DEF Inv, TypeOK
    <2>10. TypeOK'
      BY <1>3, <2>1, <2>7, <2>8, <2>9 DEF Inv, TypeOK, Placed
    <2>11. Alike'
      <3>1. \A q \in Requests : request'[q].key = Key(q)
        BY <2>7 DEF Key, Placed
      <3>2. \A i \in Requests : \A q \in job'[i].waiters : request'[q].key = job'[i].key
        BY <2>9, <3>1, BatchTypes DEF Inv, Alike, Spare
      <3>3. \A v \in Workers : worker'[v].what = worker[v].what
        BY <2>8
      <3> QED BY <2>1, <3>1, <3>2, <3>3, BatchTypes DEF Inv, Alike, Key
    <2>12. Carried'
      <3> SUFFICES ASSUME NEW q \in Requests
          PROVE  /\ Tally(job', InJob(q)) + Tally(worker', InWork(q)) + Tally(delivery, InChannel(q))
                      + Tally(sender, InHand(q)) = (IF request'[q].at = "waiting" THEN 1 ELSE 0)
                 /\ Tally(sender, Told(q)) = (IF request'[q].at = "answered" THEN 1 ELSE 0)
        BY <2>1 DEF Carried, At
      <3>1. /\ job'[j] \notin InJob(q) /\ (job[j] \in InJob(q) <=> q \in R)
        BY <2>4, <2>9 DEF InJob, Spare, R
      <3>2. worker[w] \in InWork(q) <=> worker'[w] \in InWork(q)
        BY <2>8 DEF InWork, Inv, TypeOK
      <3>3. Tally(worker', InWork(q)) = Tally(worker, InWork(q))
        BY <2>8, <3>2, WorkerTally DEF Inv
      <3>4. /\ q \in R => Tally(job', InJob(q)) = Tally(job, InJob(q)) - 1
            /\ q \notin R => Tally(job', InJob(q)) = Tally(job, InJob(q))
        BY <2>2, <2>9, <3>1, JobTally DEF Inv
      <3>5. /\ Tally(job, InJob(q)) \in Nat /\ Tally(worker, InWork(q)) \in Nat
            /\ Tally(delivery, InChannel(q)) \in Nat /\ Tally(sender, InHand(q)) \in Nat
        BY CarriedFacts DEF Inv
      <3>6. /\ Tally(job, InJob(q)) + Tally(worker, InWork(q)) + Tally(delivery, InChannel(q))
                  + Tally(sender, InHand(q)) = (IF At(q, "waiting") THEN 1 ELSE 0)
            /\ Tally(sender, Told(q)) = (IF At(q, "answered") THEN 1 ELSE 0)
        BY DEF Inv, Carried
      <3>7. CASE q \in R
        <4>1. At(q, "waiting") /\ ~At(q, "answered") /\ request'[q].at = "done"
          BY <2>5, <2>7, <3>7 DEF At, Placed
        <4> QED BY <3>3, <3>4, <3>5, <3>6, <3>7, <4>1
      <3>8. CASE q \notin R
        <4>1. request'[q].at = request[q].at
          BY <2>7, <3>8 DEF Placed
        <4> QED BY <3>3, <3>4, <3>6, <3>8, <4>1 DEF At
      <3> QED BY <3>7, <3>8
    <2>13. Equipped'
      <3>1. \A v \in Workers : /\ worker'[v].at \in {"running", "detaching", "discarding"} => worker'[v].job \in Requests
                               /\ worker'[v].at \in {"leasing", "sending"} => worker'[v].what \in Job
                               /\ worker'[v].at \notin {"leasing", "sending"} => worker'[v].what = Spare
        BY <1>3, <2>8 DEF Inv, Equipped
      <3> QED BY <2>1, <3>1 DEF Inv, Equipped
    <2>14. Live'
      <3>1. ASSUME NEW i \in Requests
            PROVE  Tally(queue, {i}) + Tally(worker', Computes(i)) = (IF job'[i] = Spare THEN 0 ELSE 1)
        <4>1. worker'[w] \notin Computes(i)
          BY <2>8 DEF Computes
        <4>2. /\ i = j => Tally(worker', Computes(i)) = Tally(worker, Computes(i)) - 1
              /\ i # j => Tally(worker', Computes(i)) = Tally(worker, Computes(i))
          BY <2>3, <2>8, <4>1, WorkerTally DEF Inv
        <4>3. Tally(queue, {i}) \in Nat /\ Tally(worker, Computes(i)) \in Nat
          BY LiveFacts DEF Inv
        <4>4. Tally(queue, {i}) + Tally(worker, Computes(i)) = (IF job[i] = Spare THEN 0 ELSE 1)
          BY DEF Inv, Live
        <4>5. CASE i = j
          BY <2>4, <2>9, <4>2, <4>3, <4>4, <4>5
        <4>6. CASE i # j
          BY <2>9, <4>2, <4>4, <4>6
        <4> QED BY <4>5, <4>6
      <3>2. ASSUME NEW i \in Requests, job'[i] # Spare
            PROVE  i \in job'[i].waiters /\ jobs'[job'[i].key] = i
        <4>1. i # j /\ job'[i] = job[i]
          BY <2>9, <3>2
        <4>2. i \in job[i].waiters /\ jobs[job[i].key] = i /\ job[i].key \in Keys
          BY <3>2, <4>1, LiveFacts DEF Inv, Live
        <4>3. job[i].key # k
          BY <2>4, <4>1, <4>2
        <4> QED BY <2>9, <4>1, <4>2, <4>3
      <3>3. ASSUME NEW i \in Keys, jobs'[i] # None PROVE job'[jobs'[i]].key = i
        <4>1. i # k /\ jobs'[i] = jobs[i]
          BY <2>9, <3>3
        <4>2. jobs[i] \in Requests /\ job[jobs[i]].key = i
          BY <3>3, <4>1, LiveFacts DEF Inv, Live
        <4>3. jobs[i] # j
          BY <4>1, <4>2 DEF k
        <4> QED BY <2>9, <4>1, <4>2, <4>3
      <3> QED BY <1>3, <3>1, <3>2, <3>3 DEF Live
    <2>15. Books'
      <3>1. worker[w] \notin LeasedWork /\ worker'[w] \notin LeasedWork
        BY <1>3, <2>8 DEF LeasedWork
      <3>2. Tally(worker', LeasedWork) = Tally(worker, LeasedWork)
        BY <2>8, <3>1, WorkerTally DEF Inv
      <3> QED BY <2>1, <2>7, <3>2 DEF Inv, Books
    <2>16. Alone'
      BY <1>3, <2>1 DEF Inv, Alone
    <2>17. Emptied'
      <3>1. \A v \in Workers : worker'[v].at = "gone" <=> worker[v].at = "gone"
        BY <1>3, <2>8
      <3>2. closing # "closed"
        BY <1>3 DEF Inv, Emptied
      <3> QED BY <1>3, <2>1, <3>1, <3>2 DEF Inv, Emptied
    <2> QED BY <2>7, <2>10, <2>11, <2>12, <2>13, <2>14, <2>15, <2>16, <2>17 DEF Inv
  <1> QED BY <1>1, <1>2, <1>3 DEF Drain

\* When all have left, who waits waits in the channel or for a queued job.
LEMMA LastFacts ==
  ASSUME Inv, \A w \in Workers : worker[w].at = "gone", \A s \in Senders : sender[s].at = "gone"
  PROVE  /\ \A r \in Requests : ~At(r, "answered")
         /\ \A r \in Requests : At(r, "waiting") =>
              \/ \E i \in DOMAIN delivery : r \in delivery[i].waiters
              \/ \E i \in DOMAIN queue : r \in job[queue[i]].waiters
  <1>1. /\ \A w \in Workers : worker[w].what = Spare
        /\ \A s \in Senders : sender[s].what = NoOne /\ sender[s].rest = {}
    <2>1. \A s \in Senders : sender[s].what = NoOne /\ sender[s].rest \subseteq sender[s].what.waiters
      BY DEF Inv, Equipped
    <2>2. NoOne.waiters = {}
      BY DEF NoOne
    <2>3. \A w \in Workers : worker[w].what = Spare
      BY DEF Inv, Equipped
    <2> QED BY <2>1, <2>2, <2>3
  <1>2. ASSUME NEW r \in Requests
        PROVE  /\ Tally(worker, InWork(r)) = 0
               /\ Tally(sender, InHand(r)) = 0 /\ Tally(sender, Told(r)) = 0
    <2>1. /\ \A w \in Workers : worker[w] \notin InWork(r)
          /\ \A s \in Senders : sender[s] \notin InHand(r) /\ sender[s] \notin Told(r)
      BY <1>1 DEF InWork, InHand, Told, Spare, NoOne
    <2> QED BY <2>1, Finiteness, TallyFacts DEF Inv
  <1>3. ASSUME NEW r \in Requests
        PROVE  /\ Tally(job, InJob(r)) + Tally(worker, InWork(r)) + Tally(delivery, InChannel(r))
                    + Tally(sender, InHand(r)) = (IF At(r, "waiting") THEN 1 ELSE 0)
               /\ Tally(sender, Told(r)) = (IF At(r, "answered") THEN 1 ELSE 0)
               /\ Tally(job, InJob(r)) \in Nat /\ Tally(delivery, InChannel(r)) \in Nat
    BY CarriedFacts DEF Inv, Carried
  <1>4. ASSUME NEW r \in Requests, At(r, "waiting"), Tally(delivery, InChannel(r)) # 0
        PROVE  \E i \in DOMAIN delivery : r \in delivery[i].waiters
    <2>1. PICK i \in DOMAIN delivery : delivery[i] \in InChannel(r)
      BY <1>4, Finiteness, TallyFacts DEF Inv
    <2> QED BY <2>1 DEF InChannel
  <1>5. ASSUME NEW r \in Requests, At(r, "waiting"), Tally(job, InJob(r)) # 0
        PROVE  \E i \in DOMAIN queue : r \in job[queue[i]].waiters
    <2>1. PICK j \in Requests : job[j] \in InJob(r)
      BY <1>5, Finiteness, TallyFacts DEF Inv
    <2>2. r \in job[j].waiters /\ job[j] # Spare
      BY <2>1 DEF InJob, Spare
    <2>3. \A w \in Workers : worker[w] \notin Computes(j)
      BY DEF Computes
    <2>4. Tally(worker, Computes(j)) = 0
      BY <2>3, Finiteness, TallyFacts DEF Inv
    <2>5. Tally(queue, {j}) # 0
      BY <2>2, <2>4 DEF Inv, Live
    <2>6. PICK i \in DOMAIN queue : queue[i] \in {j}
      BY <2>5, Finiteness, TallyFacts DEF Inv
    <2> QED BY <2>2, <2>6
  <1>6. \A r \in Requests : At(r, "waiting") =>
          Tally(delivery, InChannel(r)) # 0 \/ Tally(job, InJob(r)) # 0
    BY <1>2, <1>3
  <1>7. \A r \in Requests : ~At(r, "answered")
    BY <1>2, <1>3
  <1> QED BY <1>4, <1>5, <1>6, <1>7

LEMMA QueuedFacts ==
  ASSUME TypeOK
  PROVE  /\ QueuedLeases = Tally(delivery, LeasedItem)
         /\ QueuedSlots = Tally(delivery, SlottedItem)
  <1>1. \A i \in DOMAIN delivery : /\ delivery[i] \in LeasedItem <=> delivery[i].leased
                                   /\ delivery[i] \in SlottedItem <=> delivery[i].slot
    BY BatchTypes DEF LeasedItem, SlottedItem
  <1>2. /\ {i \in DOMAIN delivery : delivery[i].leased} = {i \in DOMAIN delivery : delivery[i] \in LeasedItem}
        /\ {i \in DOMAIN delivery : delivery[i].slot} = {i \in DOMAIN delivery : delivery[i] \in SlottedItem}
    BY <1>1
  <1> QED BY <1>2 DEF QueuedLeases, QueuedSlots, Tally

LEMMA CloseEndsInv ==
  ASSUME Inv, CloseEnds
  PROVE  Inv'
  <1> DEFINE R == UNION {delivery[i].waiters : i \in DOMAIN delivery}
             U == {User(r) : r \in {q \in R : active[User(q)] = Key(q)}}
  <1>1. /\ closing = "closing" /\ ~root /\ AllGone /\ closing' = "closed"
        /\ leases' = leases - QueuedLeases /\ slots' = slots - QueuedSlots
        /\ active' = [u \in Users |-> IF u \in U THEN None ELSE active[u]]
        /\ recent' = [u \in Users |-> IF u \in U THEN active[u] ELSE recent[u]]
        /\ Moves(R, "done") /\ delivery' = <<>>
        /\ UNCHANGED <<jobs, job, queue, worker, sender, tickets, clearing, root, attached, cached, answered>>
    BY DEF CloseEnds, registry, shared
  <1>2. /\ \A w \in Workers : worker[w].at = "gone"
        /\ \A s \in Senders : sender[s].at = "gone"
        /\ \A r \in Requests : request[r].at \notin {"awaiting", "carrying", "sending"}
    BY <1>1 DEF AllGone
  <1>3. R \subseteq Requests /\ \A r \in R : At(r, "waiting") /\ Owns(r)
    BY BatchTypes, CarriedFacts DEF Inv, At, Owns, Owning
  <1>4. \A r \in Requests : ~At(r, "answered")
    BY <1>2, LastFacts
  <1>5. Frees(R)
    <2>1. U = {User(r) : r \in R}
      BY <1>3 DEF Inv, Marked
    <2> HIDE DEF R
    <2> QED BY <1>1, <2>1 DEF Frees
  <1>6. recent' \in [Users -> Keys \cup {None}]
    <2> HIDE DEF U
    <2> QED BY <1>1 DEF Inv, TypeOK
  <1>7. \A i \in DOMAIN delivery : delivery[i].waiters \subseteq R
    OBVIOUS
  <1> HIDE DEF R, U
  <1>8. /\ Placed(R, "done") /\ SameLeased /\ Named' /\ Marked' /\ Reached'
        /\ active' \in [Users -> Keys \cup {None}]
        /\ Tally(request', Slotted) = Tally(request, Slotted)
        /\ Tally(request', Leasing) = Tally(request, Leasing)
    BY <1>1, <1>3, <1>5, EndedFacts DEF At
  <1>9. /\ delivery' \in Seq(Delivery) /\ Len(delivery') = 0 /\ DOMAIN delivery' = {}
    BY <1>1
  <1>10. \A T : Tally(delivery', T) = 0
    <2>1. IsFiniteSet(DOMAIN delivery')
      BY <1>9, FS_EmptySet
    <2> QED BY <1>9, <2>1, TallyFacts
  <1>11. Books' /\ slots' \in 0..CacheShare /\ leases' \in Nat
    <2>1. slots' = Tally(request', Slotted) + Tally(delivery', SlottedItem) + Tally(sender, SlottedBatch)
      <3>1. slots' = slots - Tally(delivery, SlottedItem) /\ Tally(delivery', SlottedItem) = 0
        BY <1>1, <1>10, QueuedFacts DEF Inv
      <3> QED BY <1>8, <3>1, BooksFacts DEF Inv, Books
    <2>2. leases' = Tally(request', Leasing) + Tally(delivery', LeasedItem) + Tally(worker, LeasedWork)
                      + Tally(sender, LeasedBatch)
      <3>1. leases' = leases - Tally(delivery, LeasedItem) /\ Tally(delivery', LeasedItem) = 0
        BY <1>1, <1>10, QueuedFacts DEF Inv
      <3> QED BY <1>8, <3>1, BooksFacts DEF Inv, Books
    <2>3. slots' \in Nat /\ leases' \in Nat
      <3>1. Tally(delivery', SlottedItem) = 0 /\ Tally(delivery', LeasedItem) = 0
        BY <1>10
      <3> QED BY <1>8, <2>1, <2>2, <3>1, BooksFacts DEF Inv
    <2>4. slots' <= slots
      <3>1. slots' = slots - Tally(delivery, SlottedItem) /\ Tally(delivery, SlottedItem) \in Nat
        BY <1>1, QueuedFacts, BooksFacts DEF Inv
      <3>2. slots \in Nat
        BY HorizonAssumption DEF Inv, TypeOK
      <3> QED BY <3>1, <3>2
    <2>5. slots' \in 0..CacheShare
      BY <2>3, <2>4, HorizonAssumption DEF Inv, TypeOK
    <2> QED BY <1>1, <2>1, <2>2, <2>3, <2>5 DEF Books
  <1>12. TypeOK'
    <2>1. Len(delivery') <= DeliverySize
      BY <1>9, HorizonAssumption
    <2> QED BY <1>1, <1>6, <1>8, <1>9, <1>11, <2>1 DEF Inv, TypeOK, Placed
  <1>13. Alike'
    <2>1. \A q \in Requests : request'[q].key = Key(q)
      BY <1>8 DEF Key, Placed
    <2> QED BY <1>1, <1>9, <2>1, BatchTypes DEF Inv, Alike, Key
  <1>14. Carried'
    <2> SUFFICES ASSUME NEW q \in Requests
        PROVE  /\ Tally(job, InJob(q)) + Tally(worker, InWork(q)) + Tally(delivery', InChannel(q))
                    + Tally(sender, InHand(q)) = (IF request'[q].at = "waiting" THEN 1 ELSE 0)
               /\ Tally(sender, Told(q)) = (IF request'[q].at = "answered" THEN 1 ELSE 0)
      BY <1>1 DEF Carried, At
    <2>1. /\ Tally(job, InJob(q)) \in Nat /\ Tally(worker, InWork(q)) \in Nat
          /\ Tally(delivery, InChannel(q)) \in Nat /\ Tally(sender, InHand(q)) \in Nat
          /\ Tally(delivery', InChannel(q)) = 0
      BY <1>10, CarriedFacts DEF Inv
    <2>2. /\ Tally(job, InJob(q)) + Tally(worker, InWork(q)) + Tally(delivery, InChannel(q))
                + Tally(sender, InHand(q)) = (IF At(q, "waiting") THEN 1 ELSE 0)
          /\ Tally(sender, Told(q)) = (IF At(q, "answered") THEN 1 ELSE 0)
      BY DEF Inv, Carried
    <2>3. CASE q \in R
      <3>1. At(q, "waiting") /\ request'[q].at = "done" /\ ~At(q, "answered")
        BY <1>3, <1>8, <2>3 DEF Placed, At
      <3>2. Tally(delivery, InChannel(q)) # 0
        <4>1. PICK i \in DOMAIN delivery : q \in delivery[i].waiters
          BY <2>3 DEF R
        <4>2. delivery[i] \in InChannel(q)
          BY <4>1, BatchTypes DEF Inv, InChannel
        <4> QED BY <4>2, Finiteness, TallyFacts DEF Inv
      <3>3. /\ Tally(job, InJob(q)) = 0 /\ Tally(worker, InWork(q)) = 0 /\ Tally(sender, InHand(q)) = 0
        BY <2>1, <2>2, <3>1, <3>2
      <3> QED BY <2>1, <2>2, <3>1, <3>3
    <2>4. CASE q \notin R
      <3>1. request'[q].at = request[q].at
        BY <1>8, <2>4 DEF Placed
      <3>2. \A i \in DOMAIN delivery : delivery[i] \notin InChannel(q)
        BY <1>7, <2>4 DEF InChannel
      <3>3. Tally(delivery, InChannel(q)) = 0
        BY <3>2, Finiteness, TallyFacts DEF Inv
      <3> QED BY <2>1, <2>2, <3>1, <3>3 DEF At
    <2> QED BY <2>3, <2>4
  <1>15. Equipped' /\ Live'
    BY <1>1 DEF Inv, Equipped, Live
  <1>16. Alone'
    <2>1. \A q \in Requests : request'[q].at # "answered"
      BY <1>4, <1>8 DEF Placed, At
    <2> QED BY <1>1, <1>2, <1>9, <2>1 DEF Inv, Alone, At, Answered
  <1>17. Emptied'
    <2>1. ASSUME NEW r \in Requests, request'[r].at \in Owning
          PROVE  request'[r].at \in InCall \cup {"waiting"}
      <3>1. request'[r].at = request[r].at
        BY <1>8, <2>1, PlaceNames DEF Placed, Refusable
      <3>2. request[r].at \notin {"answered", "awaiting", "carrying", "sending"}
        BY <1>2, <1>4 DEF At
      <3> QED BY <2>1, <3>1, <3>2 DEF Owning, InCall
    <2> QED BY <1>1, <1>2, <2>1 DEF Inv, Emptied, Owns
  <1> QED BY <1>8, <1>11, <1>12, <1>13, <1>14, <1>15, <1>16, <1>17 DEF Inv

-----------------------------------------------------------------------------
(* The invariant.                                                          *)

LEMMA InitTypes ==
  ASSUME Init
  PROVE  TypeOK
  <1>1. New \in RequestRecord /\ Ready \in WorkerRecord /\ [Ready EXCEPT !.at = "gone"] \in WorkerRecord
    BY DEF New, RequestRecord, Refusable, Ready, WorkerRecord
  <1>2. [at |-> "idle", what |-> NoOne, rest |-> {}] \in SenderRecord
    BY DEF SenderRecord
  <1>3. request \in [Requests -> RequestRecord] /\ job \in [Requests -> Job \cup {Spare}]
    BY <1>1 DEF Init
  <1>4. worker \in [Workers -> WorkerRecord]
    BY <1>1 DEF Init
  <1>5. sender \in [Senders -> SenderRecord]
    BY <1>2 DEF Init
  <1>6. /\ active \in [Users -> Keys \cup {None}] /\ recent \in [Users -> Keys \cup {None}]
        /\ jobs \in [Keys -> Requests \cup {None}] /\ tickets \in [Users -> Requests \cup {None}]
    BY DEF Init
  <1>7. queue \in Seq(Requests) /\ Len(queue) <= QueueSize /\ delivery \in Seq(Delivery)
        /\ Len(delivery) <= DeliverySize /\ slots \in 0..CacheShare /\ leases \in Nat
    BY HorizonAssumption DEF Init
  <1>8. /\ cached \in SUBSET Keys /\ clearing \in SUBSET Requests /\ answered \in SUBSET Requests
        /\ closing \in {"open", "closing", "closed"} /\ {root, attached} \subseteq BOOLEAN
    BY HorizonAssumption DEF Init
  <1> QED BY <1>3, <1>4, <1>5, <1>6, <1>7, <1>8 DEF TypeOK

LEMMA InitInv ==
  ASSUME Init
  PROVE  Inv
  <1>1. TypeOK
    BY InitTypes
  <1>2. /\ \A r \in Requests : request[r].at = "new" /\ job[r] = Spare
        /\ \A u \in Users : active[u] = None
        /\ \A k \in Keys : jobs[k] = None
        /\ \A w \in Workers : /\ worker[w].at \in {"idle", "gone"} /\ worker[w].what = Spare
                              /\ (worker[w].at = "gone" <=> attached)
        /\ \A s \in Senders : sender[s].at = "idle" /\ sender[s].what = NoOne /\ sender[s].rest = {}
        /\ queue = <<>> /\ delivery = <<>> /\ DOMAIN delivery = {} /\ DOMAIN queue = {}
        /\ slots = 0 /\ leases = 0 /\ clearing = {} /\ closing = "open" /\ root
    BY DEF Init, New, Ready
  <1>3. Spare.waiters = {} /\ NoOne.waiters = {} /\ ~NoOne.slot /\ ~NoOne.leased
    BY DEF Spare, NoOne
  <1>4. Named /\ Marked
    BY <1>2 DEF Named, Marked, At, Owns, Owning
  <1>5. Alike
    BY <1>2, <1>3 DEF Alike
  <1>6. Equipped
    BY <1>2, <1>3 DEF Equipped
  <1>7. Carried
    <2> SUFFICES ASSUME NEW r \in Requests
        PROVE  /\ Tally(job, InJob(r)) = 0 /\ Tally(worker, InWork(r)) = 0
               /\ Tally(delivery, InChannel(r)) = 0 /\ Tally(sender, InHand(r)) = 0
               /\ Tally(sender, Told(r)) = 0
      BY <1>2 DEF Carried, At
    <2>1. /\ \A j \in Requests : job[j] \notin InJob(r)
          /\ \A w \in Workers : worker[w] \notin InWork(r)
          /\ \A s \in Senders : sender[s] \notin InHand(r) /\ sender[s] \notin Told(r)
      BY <1>2, <1>3 DEF InJob, InWork, InHand, Told
    <2> QED BY <1>1, <1>2, <2>1, Finiteness, TallyFacts
  <1>8. Live
    <2>1. ASSUME NEW j \in Requests PROVE Tally(queue, {j}) = 0 /\ Tally(worker, Computes(j)) = 0
      <3>1. \A w \in Workers : worker[w] \notin Computes(j)
        BY <1>2 DEF Computes
      <3> QED BY <1>1, <1>2, <3>1, Finiteness, TallyFacts
    <2> QED BY <1>2, <2>1 DEF Live
  <1>9. Books
    <2>1. /\ \A r \in Requests : request[r] \notin Slotted /\ request[r] \notin Leasing
          /\ \A w \in Workers : worker[w] \notin LeasedWork
          /\ \A s \in Senders : sender[s] \notin SlottedBatch /\ sender[s] \notin LeasedBatch
      BY <1>2, <1>3 DEF Slotted, Leasing, LeasedWork, SlottedBatch, LeasedBatch
    <2>2. /\ Tally(request, Slotted) = 0 /\ Tally(request, Leasing) = 0
          /\ Tally(delivery, SlottedItem) = 0 /\ Tally(delivery, LeasedItem) = 0
          /\ Tally(sender, SlottedBatch) = 0 /\ Tally(sender, LeasedBatch) = 0
          /\ Tally(worker, LeasedWork) = 0
      BY <1>1, <1>2, <2>1, Finiteness, TallyFacts
    <2> QED BY <1>2, <2>2 DEF Books
  <1>10. Reached
    BY <1>2 DEF Reached, CancelReaches, At
  <1>11. Alone
    BY <1>2 DEF Alone, At
  <1>12. Emptied
    BY <1>2 DEF Emptied
  <1> QED BY <1>1, <1>4, <1>5, <1>6, <1>7, <1>8, <1>9, <1>10, <1>11, <1>12 DEF Inv

LEMMA CallStep ==
  ASSUME Inv, Held, NEW r \in Requests, Call(r)
  PROVE  Inv'
  BY LoadInv, ReserveCachedInv, TakeSlotInv, LeaseCachedInv, SendCachedInv, FailCachedInv,
     EnqueueRefusedInv, JoinsInv, CheckInv, EnqueueInv, ReserveSharedInv, SubmitInv, RegisterInv DEF Call

LEMMA OtherSteps ==
  ASSUME Inv
  PROVE  /\ \A r \in Requests : Awaiting(r) => Inv'
         /\ \A w \in Workers : Work(w) => Inv'
         /\ \A s \in Senders : Deliver(s) => Inv'
  <1>1. \A r \in Requests : Awaiting(r) => Inv'
    BY AwaitInv, LeaseSharedInv, SendSharedInv, ClearInv DEF Awaiting
  <1>2. \A w \in Workers : Work(w) => Inv'
    BY TakeJobInv, ProcessInv, DetachInv, LeaseJobInv, SendJobInv, DrainInv DEF Work
  <1>3. \A s \in Senders : Deliver(s) => Inv'
    BY TakeDeliveryInv, AnswerInv, FinishDeliveryInv, SenderLeavesInv DEF Deliver
  <1> QED BY <1>1, <1>2, <1>3

LEMMA StutterInv ==
  ASSUME Inv, UNCHANGED vars
  PROVE  Inv'
  <1>1. UNCHANGED <<request, active, registry, channel, shared, process, answered, recent, cached>>
    BY DEF vars, registry, channel, shared, process
  <1>2. recent' \in [Users -> Keys \cup {None}] /\ cached' \in SUBSET Keys
    BY <1>1 DEF Inv, TypeOK
  <1> QED BY <1>1, <1>2, ForgetInv

LEMMA NextInv == Inv /\ Held /\ [Next]_vars => Inv'
  <1> SUFFICES ASSUME Inv, Held, [Next]_vars PROVE Inv'
    OBVIOUS
  <1>1. ASSUME NEW r \in Requests, Call(r) \/ Awaiting(r) \/ TicketEnds(r) PROVE Inv'
    BY <1>1, CallStep, OtherSteps, TicketEndsInv
  <1>2. ASSUME NEW r \in Requests, NEW u \in Users, NEW k \in Keys, Ask(r, u, k) PROVE Inv'
    BY <1>2, AskInv
  <1>3. ASSUME NEW w \in Workers, Work(w) PROVE Inv'
    BY <1>3, OtherSteps
  <1>4. ASSUME NEW s \in Senders, Deliver(s) PROVE Inv'
    BY <1>4, OtherSteps
  <1>5. ASSUME NEW u \in Users, CancelUser(u) \/ Cool(u) PROVE Inv'
    BY <1>5, CancelUserInv, CoolInv
  <1>6. ASSUME NEW k \in Keys, Evict(k) PROVE Inv'
    BY <1>6, EvictInv
  <1>7. CASE RootEnds \/ CloseBegins \/ CloseCancels
    BY <1>7, EndsInv
  <1>8. CASE CloseEnds
    BY <1>8, CloseEndsInv
  <1>9. CASE UNCHANGED vars
    BY <1>9, StutterInv
  <1> QED BY <1>1, <1>2, <1>3, <1>4, <1>5, <1>6, <1>7, <1>8, <1>9 DEF Next

-----------------------------------------------------------------------------
(* Between the two steps of enqueue.                                       *)

\* A step that begins no enqueue, and changes what one relies on only while the
\* mutex is free.
Quiet ==
  /\ \A q \in Requests : request'[q].at = "checked" =>
       At(q, "checked") /\ request'[q].user = User(q) /\ request'[q].key = Key(q)
  /\ Unlocked \/ UNCHANGED <<active, jobs, closing, attached>>

LEMMA HeldKept ==
  ASSUME Held, Quiet
  PROVE  Held'
  <1>1. CASE Unlocked
    <2>1. \A q \in Requests : request'[q].at # "checked"
      BY <1>1 DEF Quiet, Unlocked, At
    <2> QED BY <2>1 DEF Held, At
  <1>2. CASE UNCHANGED <<active, jobs, closing, attached>>
    <2>1. ASSUME NEW r \in Requests, request'[r].at = "checked"
          PROVE  /\ closing' = "open" /\ ~attached'
                 /\ active'[request'[r].user] = None /\ jobs'[request'[r].key] = None
                 /\ \A q \in Requests : request'[q].at = "checked" => q = r
      BY <1>2, <2>1 DEF Quiet, Held
    <2> QED BY <2>1 DEF Held, At, User, Key
  <1> QED BY <1>1, <1>2 DEF Quiet

LEMMA PlacedQuiet ==
  ASSUME NEW R, NEW place, place # "checked", Placed(R, place),
         Unlocked \/ UNCHANGED <<active, jobs, closing, attached>>
  PROVE  Quiet
  BY DEF Quiet, Placed, At, User, Key

LEMMA MovesQuiet ==
  ASSUME Inv, NEW R, NEW place \in Places \ {"checked"}, Moves(R, place),
         Unlocked \/ UNCHANGED <<active, jobs, closing, attached>>
  PROVE  Quiet
  <1>1. Placed(R, place)
    BY MovesFacts DEF Inv, TypeOK
  <1> QED BY <1>1, PlacedQuiet

LEMMA StillQuiet ==
  ASSUME request' = request, Unlocked \/ UNCHANGED <<active, jobs, closing, attached>>
  PROVE  Quiet
  BY DEF Quiet, At, User, Key

LEMMA LeavesQuiet ==
  ASSUME Inv, NEW r \in Requests, Leaves(r)
  PROVE  Quiet
  <1>1. Placed({r}, "done") /\ Unlocked
    BY PlaceTicketFacts DEF Inv, TypeOK, Leaves, Release, Places, Refusable
  <1> QED BY <1>1, PlacedQuiet

LEMMA CallQuiet ==
  ASSUME Inv, NEW r \in Requests, Call(r)
  PROVE  Check(r) \/ Enqueue(r) \/ Quiet
  <1> USE DEF Places, Refusable, Owning
  <1>1. CASE Load(r)
    <2>1. PICK place \in {"hit", "missed"} : Moves({r}, place)
      BY <1>1 DEF Load
    <2> QED BY <1>1, <2>1, MovesQuiet DEF Load, maps, registry, process
  <1>2. CASE ReserveCached(r)
    BY <1>2, MovesQuiet DEF ReserveCached, Refused
  <1>3. CASE TakeSlot(r)
    BY <1>3, MovesQuiet DEF TakeSlot
  <1>4. CASE LeaseCached(r)
    BY <1>4, MovesQuiet DEF LeaseCached, maps, registry, process
  <1>5. CASE SendCached(r)
    BY <1>5, MovesQuiet DEF SendCached
  <1>6. CASE FailCached(r)
    BY <1>6, MovesQuiet DEF FailCached, Finish, Refused
  <1>7. CASE EnqueueRefused(r) \/ Join(r)
    BY <1>7, MovesQuiet DEF EnqueueRefused, Join, Refused
  <1>8. CASE ReserveShared(r)
    BY <1>8, MovesQuiet DEF ReserveShared, Refused
  <1>9. CASE Submit(r)
    <2>1. ASSUME NEW t \in {"pending", "ok"}, UNCHANGED active,
                 request' = [request EXCEPT ![r] = [@ EXCEPT !.at = "submitted", !.ticket = t]]
          PROVE  Quiet
      <3>1. Placed({r}, "submitted")
        BY <2>1, PlaceTicketFacts DEF Inv, TypeOK
      <3> QED BY <1>9, <2>1, <3>1, PlacedQuiet DEF Submit, registry, process
    <2>2. CASE Release(r) /\ Refused(r)
      BY <2>2, MovesQuiet DEF Release, Refused
    <2> QED BY <1>9, <2>1, <2>2 DEF Submit
  <1>10. CASE Register(r)
    BY <1>10, MovesQuiet, LeavesQuiet DEF Register
  <1> QED BY <1>1, <1>2, <1>3, <1>4, <1>5, <1>6, <1>7, <1>8, <1>9, <1>10 DEF Call

LEMMA TicketQuiet ==
  ASSUME Inv, NEW r \in Requests, NEW t \in {"ok", "failed"},
         request' = [request EXCEPT ![r].ticket = t], UNCHANGED <<active, jobs, closing, attached>>
  PROVE  Quiet
  <1>1. Placed({}, "new")
    BY TicketFacts DEF Inv, TypeOK
  <1> QED BY <1>1, PlacedQuiet

LEMMA AwaitingQuiet ==
  ASSUME Inv, NEW r \in Requests, Awaiting(r) \/ TicketEnds(r)
  PROVE  Quiet
  <1> USE DEF Places, Refusable, Owning
  <1>1. CASE Await(r)
    BY <1>1, MovesQuiet, LeavesQuiet DEF Await, registry, process
  <1>2. CASE LeaseShared(r)
    <2>1. PICK ok \in BOOLEAN :
            request' = [request EXCEPT ![r] = [@ EXCEPT !.at = "sending", !.leased = ok]]
      BY <1>2 DEF LeaseShared
    <2>2. Placed({r}, "sending")
      BY <2>1, PlaceLeasedFacts DEF Inv, TypeOK
    <2> QED BY <1>2, <2>2, PlacedQuiet DEF LeaseShared, maps, registry, process
  <1>3. CASE SendShared(r)
    BY <1>3, MovesQuiet DEF SendShared, Sent, Dropped, Finish, maps, registry, process
  <1>4. CASE Clear(r)
    BY <1>4, StillQuiet DEF Clear
  <1>5. CASE TicketEnds(r)
    BY <1>5, TicketQuiet DEF TicketEnds, maps, registry, process
  <1> QED BY <1>1, <1>2, <1>3, <1>4, <1>5 DEF Awaiting

LEMMA WorkQuiet ==
  ASSUME Inv, NEW w \in Workers, Work(w)
  PROVE  Quiet
  <1> USE DEF Places, Refusable, Owning
  <1>1. CASE TakeJob(w) \/ Process(w) \/ Detach(w) \/ LeaseJob(w)
    BY <1>1, StillQuiet DEF TakeJob, Process, Detach, LeaseJob, maps, process
  <1>2. CASE SendJob(w)
    BY <1>2, MovesQuiet DEF SendJob, Sent, Dropped, Finish, maps, process
  <1>3. CASE Drain(w)
    <2>1. CASE UNCHANGED <<request, active, jobs, job>>
      BY <1>3, <2>1, StillQuiet DEF Drain, process
    <2>2. CASE Unlocked /\ Moves(job[worker[w].job].waiters, "done")
      BY <2>2, MovesQuiet
    <2> QED BY <1>3, <2>1, <2>2 DEF Drain
  <1> QED BY <1>1, <1>2, <1>3 DEF Work

LEMMA DeliverQuiet ==
  ASSUME Inv, NEW s \in Senders, Deliver(s)
  PROVE  Quiet
  <1> USE DEF Places, Refusable, Owning
  <1>1. CASE TakeDelivery(s) \/ SenderLeaves(s)
    BY <1>1, StillQuiet DEF TakeDelivery, SenderLeaves, maps, registry, process
  <1>2. CASE Answer(s)
    BY <1>2, MovesQuiet DEF Answer, maps, registry, process
  <1>3. CASE FinishDelivery(s)
    BY <1>3, MovesQuiet DEF FinishDelivery, Finish
  <1> QED BY <1>1, <1>2, <1>3 DEF Deliver

LEMMA OthersQuiet ==
  ASSUME Inv, Held
  PROVE  /\ \A r \in Requests, u \in Users, k \in Keys : Ask(r, u, k) => Quiet
         /\ \A u \in Users : CancelUser(u) \/ Cool(u) => Quiet
         /\ \A k \in Keys : Evict(k) => Quiet
         /\ RootEnds \/ CloseBegins \/ CloseCancels \/ CloseEnds \/ UNCHANGED vars => Quiet
  <1>1. ASSUME NEW r \in Requests, NEW u \in Users, NEW k \in Keys, Ask(r, u, k) PROVE Quiet
    <2>1. \A q \in Requests : request'[q].at = "checked" => q # r /\ request'[q] = request[q]
      BY <1>1, AskFacts DEF Inv
    <2> QED BY <1>1, <2>1 DEF Ask, Quiet, At, User, Key
  <1>2. ASSUME NEW u \in Users, CancelUser(u) \/ Cool(u) PROVE Quiet
    <2>1. CASE CancelUser(u)
      <3>1. tickets[u] \in Requests
        BY <2>1 DEF CancelUser, Inv, TypeOK
      <3> QED BY <2>1, <3>1, TicketQuiet DEF CancelUser, maps, registry, process
    <2>2. CASE Cool(u)
      BY <2>2, StillQuiet DEF Cool, registry, process
    <2> QED BY <1>2, <2>1, <2>2
  <1>3. ASSUME NEW k \in Keys, Evict(k) PROVE Quiet
    BY <1>3, StillQuiet DEF Evict, maps, registry, process
  <1>4. CASE RootEnds \/ CloseBegins \/ CloseCancels
    <2>1. CASE Unlocked /\ request' = request
      BY <2>1, StillQuiet
    <2>2. ASSUME NEW r \in Requests, At(r, "checked") PROVE closing = "open"
      BY <2>2 DEF Held
    <2>3. CASE request' = request /\ UNCHANGED <<active, jobs, closing, attached>>
      BY <2>3, StillQuiet
    <2> QED BY <1>4, <2>1, <2>2, <2>3 DEF RootEnds, CloseBegins, CloseCancels, maps, registry
  <1>5. CASE CloseEnds
    <2>1. Unlocked
      BY <1>5 DEF CloseEnds, Held, Unlocked, At
    <2>2. PICK R : Moves(R, "done")
      BY <1>5 DEF CloseEnds
    <2> QED BY <2>1, <2>2, MovesQuiet DEF Places, Refusable
  <1>6. CASE UNCHANGED vars
    BY <1>6, StillQuiet DEF vars
  <1> QED BY <1>1, <1>2, <1>3, <1>4, <1>5, <1>6

LEMMA CheckHeld ==
  ASSUME Inv, NEW r \in Requests, Check(r)
  PROVE  Held'
  <1>1. /\ request[r].at = "missed" /\ Moves({r}, "checked") /\ Unlocked /\ ~attached /\ closing = "open"
        /\ active[User(r)] = None /\ jobs[Key(r)] = None
        /\ UNCHANGED <<active, jobs, closing, attached>>
    BY DEF Check, Welcome, Running, At, maps, registry, process
  <1>2. Placed({r}, "checked")
    BY <1>1, MovesFacts DEF Inv, TypeOK, Places, Refusable
  <1>3. \A q \in Requests : request'[q].at = "checked" => q = r
    BY <1>1, <1>2 DEF Placed, Unlocked
  <1>4. request'[r].user = User(r) /\ request'[r].key = Key(r)
    BY <1>2 DEF Placed, User, Key
  <1> QED BY <1>1, <1>3, <1>4 DEF Held, At, User, Key

\* The mutex is free again.
LEMMA EnqueueHeld ==
  ASSUME Inv, Held, NEW r \in Requests, Enqueue(r)
  PROVE  Held' /\ Unlocked' /\ \A q \in Requests : At(q, "checked") => q = r
  <1>1. PICK place \in {"waiting", "done"} : Moves({r}, place)
    BY DEF Enqueue, Refused
  <1>2. Placed({r}, place)
    BY <1>1, MovesFacts DEF Inv, TypeOK, Places, Refusable, Owning
  <1>3. \A q \in Requests : At(q, "checked") => q = r
    BY DEF Enqueue, Held
  <1>4. \A q \in Requests : request'[q].at # "checked"
    BY <1>2, <1>3 DEF Placed, At
  <1> QED BY <1>3, <1>4 DEF Held, Unlocked, At

LEMMA NextHeld == Inv /\ Held /\ [Next]_vars => Held'
  <1> SUFFICES ASSUME Inv, Held, [Next]_vars PROVE Held'
    OBVIOUS
  <1>1. ASSUME NEW r \in Requests, Call(r) \/ Awaiting(r) \/ TicketEnds(r) PROVE Held'
    BY <1>1, CallQuiet, AwaitingQuiet, HeldKept, CheckHeld, EnqueueHeld
  <1>2. ASSUME NEW w \in Workers, Work(w) PROVE Held'
    BY <1>2, WorkQuiet, HeldKept
  <1>3. ASSUME NEW s \in Senders, Deliver(s) PROVE Held'
    BY <1>3, DeliverQuiet, HeldKept
  <1>4. CASE UNCHANGED vars
    BY <1>4, OthersQuiet, HeldKept
  <1> QED BY <1>1, <1>2, <1>3, <1>4, OthersQuiet, HeldKept DEF Next

-----------------------------------------------------------------------------
(* What is left in the queue.                                              *)

\* A job is queued at one place, or computed by one worker.
LEMMA JobIsOnce ==
  ASSUME Inv, NEW j \in Requests
  PROVE  /\ \A i, n \in DOMAIN queue : queue[i] = j /\ queue[n] = j => i = n
         /\ \A w, v \in Workers : worker[w] \in Computes(j) /\ worker[v] \in Computes(j) => w = v
         /\ \A i \in DOMAIN queue : queue[i] = j => \A w \in Workers : worker[w] \notin Computes(j)
  <1>1. Tally(queue, {j}) \in Nat /\ Tally(worker, Computes(j)) \in Nat
    BY LiveFacts DEF Inv
  <1>2. Tally(queue, {j}) + Tally(worker, Computes(j)) = (IF job[j] = Spare THEN 0 ELSE 1)
    BY DEF Inv, Live
  <1>3. /\ Tally(queue, {j}) <= 1 /\ Tally(worker, Computes(j)) <= 1
        /\ ~(Tally(queue, {j}) >= 1 /\ Tally(worker, Computes(j)) >= 1)
    BY <1>1, <1>2
  <1>4. /\ IsFiniteSet(DOMAIN queue) /\ IsFiniteSet(DOMAIN worker) /\ DOMAIN worker = Workers
    BY Finiteness DEF Inv
  <1>5. /\ \A i, n \in DOMAIN queue : queue[i] \in {j} /\ queue[n] \in {j} => i = n
        /\ \A i \in DOMAIN queue : queue[i] \in {j} => Tally(queue, {j}) >= 1
    BY <1>3, <1>4, TallyFacts
  <1>6. /\ \A w, v \in Workers : worker[w] \in Computes(j) /\ worker[v] \in Computes(j) => w = v
        /\ \A w \in Workers : worker[w] \in Computes(j) => Tally(worker, Computes(j)) >= 1
    BY <1>3, <1>4, TallyFacts
  <1> QED BY <1>3, <1>5, <1>6

\* A step that leaves the queue and its jobs alone, and lets no worker leave.
Calm ==
  /\ queue' = queue /\ \A i \in DOMAIN queue : job'[queue[i]] = job[queue[i]]
  /\ \A w \in Workers : worker'[w].at = "gone" => worker[w].at = "gone"

LEMMA LeftKept ==
  ASSUME Left, Quiet, Calm
  PROVE  Left'
  <1>1. ~Unlocked' => ~Unlocked
    BY DEF Quiet, Unlocked, At
  <1> QED BY <1>1 DEF Left, Calm

LEMMA UnchangedCalm ==
  ASSUME UNCHANGED <<queue, job, worker>>
  PROVE  Calm
  BY DEF Calm

\* Nobody checks or joins once a worker has left.
LEMMA RunningStays ==
  ASSUME Inv, ~attached, Running
  PROVE  \A w \in Workers : worker[w].at # "gone"
  BY DEF Inv, Emptied, Running

LEMMA CallLeft ==
  ASSUME Inv, Held, Left, NEW r \in Requests, Call(r)
  PROVE  Left'
  <1>1. CASE Check(r) \/ Join(r)
    <2>1. worker' = worker /\ \A w \in Workers : worker[w].at # "gone"
      BY <1>1, RunningStays DEF Check, Join, Welcome, registry
    <2> QED BY <2>1 DEF Left
  <1>2. CASE Enqueue(r)
    <2>1. /\ Unlocked' /\ ~Unlocked /\ worker' = worker
      BY <1>2, EnqueueHeld DEF Enqueue, Unlocked, At
    <2>2. CASE UNCHANGED <<job, queue>>
      BY <2>1, <2>2 DEF Left
    <2>3. CASE /\ job' = [job EXCEPT ![r] = [key |-> Key(r), waiters |-> {r}]]
               /\ queue' = Append(queue, r)
      <3> SUFFICES ASSUME \E w \in Workers : worker[w].at = "gone"
          PROVE  Len(queue') <= 1 /\ \A i \in DOMAIN queue' : job'[queue'[i]].waiters = {queue'[i]}
        BY <2>1 DEF Left
      <3>1. queue' = <<r>>
        <4>1. queue = <<>>
          BY <2>1 DEF Left
        <4> QED BY <2>3, <4>1
      <3>2. job'[r].waiters = {r}
        BY <2>3 DEF Inv, TypeOK
      <3> QED BY <3>1, <3>2
    <2> QED BY <1>2, <2>2, <2>3 DEF Enqueue
  <1>3. CASE UNCHANGED <<job, queue, worker>>
    BY <1>1, <1>2, <1>3, CallQuiet, UnchangedCalm, LeftKept
  <1> QED BY <1>1, <1>2, <1>3 DEF Call, Load, ReserveCached, TakeSlot, LeaseCached, SendCached,
                                  FailCached, EnqueueRefused, ReserveShared, Submit, Register, registry

\* A queue of one job, once taken from, is empty.
LEMMA TakenLeft ==
  ASSUME Inv, Left, queue # <<>>, queue' = Tail(queue),
         \A w \in Workers : worker'[w].at = "gone" => worker[w].at = "gone"
  PROVE  Left'
  <1> SUFFICES ASSUME \E w \in Workers : worker[w].at = "gone" PROVE queue' = <<>>
    BY DEF Left
  <1>1. queue \in Seq(Requests) /\ Len(queue) <= 1
    BY DEF Inv, TypeOK, Left
  <1> QED BY <1>1, EmptySeq

\* A job in the hands of a worker is not in the queue.
LEMMA RidCalm ==
  ASSUME Inv, NEW w \in Workers, worker[w].at \in {"detaching", "discarding"}, queue' = queue,
         job' = [job EXCEPT ![worker[w].job] = Spare],
         \A v \in Workers : worker'[v].at = "gone" => worker[v].at = "gone"
  PROVE  Calm
  <1>1. worker[w].job \in Requests /\ worker[w] \in Computes(worker[w].job)
    BY LiveFacts DEF Inv
  <1>2. \A i \in DOMAIN queue : queue[i] # worker[w].job
    BY <1>1, JobIsOnce
  <1>3. \A i \in DOMAIN queue : queue[i] \in Requests
    BY LiveFacts DEF Inv
  <1> QED BY <1>2, <1>3 DEF Calm, Inv, TypeOK

LEMMA WorkLeft ==
  ASSUME Inv, Left, NEW w \in Workers, Work(w)
  PROVE  Left'
  <1>1. worker \in [Workers -> WorkerRecord] /\ \A v \in Workers : worker[v] \in WorkerRecord
    BY DEF Inv, TypeOK
  <1>2. CASE TakeJob(w)
    <2>1. \A v \in Workers : worker'[v].at = "gone" => worker[v].at = "gone"
      BY <1>1, <1>2 DEF TakeJob, WorkerRecord
    <2> QED BY <1>2, <2>1, TakenLeft DEF TakeJob
  <1>3. CASE Process(w)
    <2>1. \A v \in Workers : worker'[v].at = "gone" => worker[v].at = "gone"
      BY <1>1, <1>3 DEF Process, WorkerRecord
    <2> QED BY <1>3, <2>1, WorkQuiet, LeftKept DEF Process, Calm
  <1>4. CASE Detach(w)
    <2>1. \A v \in Workers : worker'[v].at = "gone" => worker[v].at = "gone"
      BY <1>1, <1>4 DEF Detach, WorkerRecord
    <2>2. queue' = queue /\ worker[w].at = "detaching" /\ job' = [job EXCEPT ![worker[w].job] = Spare]
      BY <1>4 DEF Detach
    <2> QED BY <2>1, <2>2, WorkQuiet, RidCalm, LeftKept
  <1>5. CASE LeaseJob(w)
    <2>1. \A v \in Workers : worker'[v].at = "gone" => worker[v].at = "gone"
      BY <1>1, <1>5 DEF LeaseJob, WorkerRecord
    <2> QED BY <1>5, <2>1, WorkQuiet, LeftKept DEF LeaseJob, Calm
  <1>6. CASE SendJob(w)
    <2>1. \A v \in Workers : worker'[v].at = "gone" => worker[v].at = "gone"
      BY <1>1, <1>6 DEF SendJob, Ready
    <2> QED BY <1>6, <2>1, WorkQuiet, LeftKept DEF SendJob, Calm
  <1>7. CASE Drain(w)
    <2>1. CASE queue = <<>> /\ UNCHANGED queue
      BY <2>1 DEF Left
    <2>2. CASE /\ queue # <<>> /\ queue' = Tail(queue)
               /\ worker' = [worker EXCEPT ![w] = [@ EXCEPT !.at = "discarding", !.job = Head(queue)]]
      <3>1. \A v \in Workers : worker'[v].at = "gone" => worker[v].at = "gone"
        BY <1>1, <2>2 DEF WorkerRecord
      <3> QED BY <2>2, <3>1, TakenLeft
    <2>3. CASE /\ worker[w].at = "discarding" /\ queue' = queue
               /\ worker' = [worker EXCEPT ![w] = [@ EXCEPT !.at = "draining", !.job = None]]
               /\ job' = [job EXCEPT ![worker[w].job] = Spare]
      <3>1. \A v \in Workers : worker'[v].at = "gone" => worker[v].at = "gone"
        BY <1>1, <2>3 DEF WorkerRecord
      <3> QED BY <2>3, <3>1, WorkQuiet, RidCalm, LeftKept
    <2> QED BY <1>7, <2>1, <2>2, <2>3 DEF Drain
  <1> QED BY <1>2, <1>3, <1>4, <1>5, <1>6, <1>7 DEF Work

LEMMA NextLeft == Inv /\ Held /\ Left /\ [Next]_vars => Left'
  <1> SUFFICES ASSUME Inv, Held, Left, [Next]_vars PROVE Left'
    OBVIOUS
  <1>1. ASSUME NEW r \in Requests, Call(r) PROVE Left'
    BY <1>1, CallLeft
  <1>2. ASSUME NEW r \in Requests, Awaiting(r) \/ TicketEnds(r) PROVE Left'
    <2>1. UNCHANGED <<queue, job, worker>>
      BY <1>2 DEF Awaiting, TicketEnds, Await, LeaseShared, SendShared, Clear, registry
    <2> QED BY <1>2, <2>1, AwaitingQuiet, UnchangedCalm, LeftKept
  <1>3. ASSUME NEW w \in Workers, Work(w) PROVE Left'
    BY <1>3, WorkLeft
  <1>4. ASSUME NEW s \in Senders, Deliver(s) PROVE Left'
    <2>1. UNCHANGED <<queue, job, worker>>
      BY <1>4 DEF Deliver, TakeDelivery, Answer, FinishDelivery, SenderLeaves, registry
    <2> QED BY <1>4, <2>1, DeliverQuiet, UnchangedCalm, LeftKept
  <1>5. ASSUME NEW r \in Requests, NEW u \in Users, NEW k \in Keys, Ask(r, u, k) PROVE Left'
    <2>1. UNCHANGED <<queue, job, worker>>
      BY <1>5 DEF Ask, registry
    <2> QED BY <1>5, <2>1, OthersQuiet, UnchangedCalm, LeftKept
  <1>6. ASSUME NEW u \in Users, CancelUser(u) \/ Cool(u) PROVE Left'
    <2>1. UNCHANGED <<queue, job, worker>>
      BY <1>6 DEF CancelUser, Cool, registry
    <2> QED BY <1>6, <2>1, OthersQuiet, UnchangedCalm, LeftKept
  <1>7. ASSUME NEW k \in Keys, Evict(k) PROVE Left'
    <2>1. UNCHANGED <<queue, job, worker>>
      BY <1>7 DEF Evict, registry
    <2> QED BY <1>7, <2>1, OthersQuiet, UnchangedCalm, LeftKept
  <1>8. CASE RootEnds \/ CloseBegins \/ CloseCancels \/ CloseEnds \/ UNCHANGED vars
    <2>1. UNCHANGED <<queue, job, worker>>
      BY <1>8 DEF RootEnds, CloseBegins, CloseCancels, CloseEnds, registry, vars
    <2> QED BY <1>8, <2>1, OthersQuiet, UnchangedCalm, LeftKept
  <1> QED BY <1>1, <1>2, <1>3, <1>4, <1>5, <1>6, <1>7, <1>8 DEF Next

-----------------------------------------------------------------------------
(* What it is for.                                                         *)

LEMMA InvActiveExact == Inv => ActiveExact
  <1> SUFFICES ASSUME Inv, NEW u \in Users
      PROVE  /\ Cardinality(Owned(u)) <= 1
             /\ active[u] = None <=> Owned(u) = {}
             /\ \A r \in Owned(u) : active[u] = Key(r)
    BY DEF ActiveExact
  <1>1. \A r \in Requests : r \in Owned(u) <=> Owns(r) /\ User(r) = u
    BY DEF Owned, Owns
  <1>2. Owned(u) \subseteq Requests
    BY DEF Owned
  <1>3. \A r \in Owned(u) : active[u] = Key(r) /\ Key(r) \in Keys
    BY <1>1, <1>2 DEF Inv, Marked, Named, Owns, Owning, At
  <1>4. active[u] = None <=> Owned(u) = {}
    BY <1>1, <1>2, <1>3, NoneFacts DEF Inv, Marked
  <1>5. Cardinality(Owned(u)) <= 1
    <2>1. CASE Owned(u) = {}
      BY <2>1, FS_EmptySet
    <2>2. CASE Owned(u) # {}
      <3>1. PICK r \in Owned(u) : TRUE
        BY <2>2
      <3>2. Owned(u) = {r}
        BY <1>1, <1>2, <3>1 DEF Inv, Marked
      <3>3. Cardinality(Owned(u)) = 1
        BY <3>2, FS_Singleton
      <3> QED BY <3>3
    <2> QED BY <2>1, <2>2
  <1> QED BY <1>3, <1>4, <1>5

LEMMA InvSharedOnce == Inv => SharedOnce
  <1> SUFFICES ASSUME Inv
      PROVE  /\ \A w, v \in Computing : w # v => job[worker[w].job].key # job[worker[v].job].key
             /\ \A i \in DOMAIN queue : \A w \in Computing : job[queue[i]].key # job[worker[w].job].key
             /\ \A i, n \in DOMAIN queue : i # n => job[queue[i]].key # job[queue[n]].key
    BY DEF SharedOnce
  <1>1. \A w \in Computing : /\ w \in Workers /\ worker[w].job \in Requests /\ job[worker[w].job] # Spare
                             /\ worker[w] \in Computes(worker[w].job)
    BY LiveFacts DEF Inv, Computing
  <1>2. \A i \in DOMAIN queue : queue[i] \in Requests /\ job[queue[i]] # Spare
    BY LiveFacts DEF Inv
  <1>3. \A i, j \in Requests : job[i] # Spare /\ job[j] # Spare /\ job[i].key = job[j].key => i = j
    <2>1. \A j \in Requests : job[j] # Spare => jobs[job[j].key] = j
      BY DEF Inv, Live
    <2> QED BY <2>1
  <1>4. ASSUME NEW w \in Computing, NEW v \in Computing, w # v
        PROVE  job[worker[w].job].key # job[worker[v].job].key
    <2> SUFFICES ASSUME job[worker[w].job].key = job[worker[v].job].key PROVE FALSE
      OBVIOUS
    <2>1. worker[w].job = worker[v].job
      BY <1>1, <1>3
    <2> QED BY <1>1, <1>4, <2>1, JobIsOnce
  <1>5. ASSUME NEW i \in DOMAIN queue, NEW w \in Computing
        PROVE  job[queue[i]].key # job[worker[w].job].key
    <2> SUFFICES ASSUME job[queue[i]].key = job[worker[w].job].key PROVE FALSE
      OBVIOUS
    <2>1. queue[i] = worker[w].job
      BY <1>1, <1>2, <1>3
    <2> QED BY <1>1, <2>1, JobIsOnce
  <1>6. ASSUME NEW i \in DOMAIN queue, NEW n \in DOMAIN queue, i # n
        PROVE  job[queue[i]].key # job[queue[n]].key
    <2> SUFFICES ASSUME job[queue[i]].key = job[queue[n]].key PROVE FALSE
      OBVIOUS
    <2>1. queue[i] = queue[n]
      BY <1>2, <1>3
    <2> QED BY <1>2, <1>6, <2>1, JobIsOnce
  <1> QED BY <1>4, <1>5, <1>6

LEMMA InvWaitedForOnce == Inv => WaitedForOnce
  <1> SUFFICES ASSUME Inv, NEW r \in Requests PROVE Holders(r) = IF At(r, "waiting") THEN 1 ELSE 0
    BY DEF WaitedForOnce
  <1>1. /\ DOMAIN job = Requests /\ DOMAIN worker = Workers /\ DOMAIN sender = Senders
    BY Finiteness DEF Inv
  <1>2. /\ \A j \in Requests : job[j] \in InJob(r) <=> r \in job[j].waiters
        /\ \A w \in Workers : worker[w] \in InWork(r) <=> r \in worker[w].what.waiters
        /\ \A i \in DOMAIN delivery : delivery[i] \in InChannel(r) <=> r \in delivery[i].waiters
        /\ \A s \in Senders : sender[s] \in InHand(r) <=> r \in sender[s].rest
    BY BatchTypes DEF Inv, InJob, InWork, InChannel, InHand
  <1>3. /\ {q \in Requests : r \in job[q].waiters} = {q \in DOMAIN job : job[q] \in InJob(r)}
        /\ {w \in Workers : r \in worker[w].what.waiters} = {w \in DOMAIN worker : worker[w] \in InWork(r)}
        /\ {i \in DOMAIN delivery : r \in delivery[i].waiters}
             = {i \in DOMAIN delivery : delivery[i] \in InChannel(r)}
        /\ {s \in Senders : r \in sender[s].rest} = {s \in DOMAIN sender : sender[s] \in InHand(r)}
    BY <1>1, <1>2
  <1>4. Holders(r) = Tally(job, InJob(r)) + Tally(worker, InWork(r)) + Tally(delivery, InChannel(r))
                       + Tally(sender, InHand(r))
    BY <1>3 DEF Holders, Tally
  <1> QED BY <1>4 DEF Inv, Carried

LEMMA InvDeliveriesExact == Inv => DeliveriesExact
  <1> SUFFICES ASSUME Inv PROVE slots = Slots /\ leases = Leases
    BY DEF DeliveriesExact
  <1>1. /\ DOMAIN request = Requests /\ DOMAIN worker = Workers /\ DOMAIN sender = Senders
    BY Finiteness DEF Inv
  <1>2. /\ \A r \in Requests : request[r] \in RequestRecord
        /\ \A w \in Workers : worker[w] \in WorkerRecord
        /\ \A s \in Senders : sender[s] \in SenderRecord
    BY DEF Inv, TypeOK
  <1>3. /\ {r \in Requests : request[r].at \in {"slotted", "leased"}}
             = {r \in DOMAIN request : request[r] \in Slotted}
        /\ {r \in Requests : At(r, "leased") \/ (At(r, "sending") /\ request[r].leased)}
             = {r \in DOMAIN request : request[r] \in Leasing}
    BY <1>1, <1>2 DEF Slotted, Leasing, At
  <1>4. {w \in Workers : worker[w].at = "sending" /\ worker[w].leased}
          = {w \in DOMAIN worker : worker[w] \in LeasedWork}
    BY <1>1, <1>2 DEF LeasedWork
  <1>5. /\ {s \in Senders : sender[s].what.slot} = {s \in DOMAIN sender : sender[s] \in SlottedBatch}
        /\ {s \in Senders : sender[s].what.leased} = {s \in DOMAIN sender : sender[s] \in LeasedBatch}
    BY <1>1, <1>2 DEF SlottedBatch, LeasedBatch
  <1>6. Slots = Tally(request, Slotted) + QueuedSlots + Tally(sender, SlottedBatch)
    BY <1>3, <1>5 DEF Slots, Tally
  <1>7. Leases = Tally(request, Leasing) + Tally(worker, LeasedWork) + QueuedLeases
                   + Tally(sender, LeasedBatch)
    BY <1>3, <1>4, <1>5 DEF Leases, Tally
  <1>8. slots = Slots
    BY <1>6, QueuedFacts DEF Inv, Books
  <1>9. leases = Leases
    <2>1. leases = Tally(request, Leasing) + Tally(delivery, LeasedItem) + Tally(worker, LeasedWork)
                     + Tally(sender, LeasedBatch)
      BY DEF Inv, Books
    <2>2. Leases = Tally(request, Leasing) + Tally(worker, LeasedWork) + Tally(delivery, LeasedItem)
                     + Tally(sender, LeasedBatch)
      BY <1>7, QueuedFacts DEF Inv
    <2> QED BY <2>1, <2>2, BooksFacts DEF Inv
  <1> QED BY <1>8, <1>9

LEMMA OneIsAll ==
  ASSUME NEW S, NEW q \in Seq(S), Len(q) <= 1, q # <<>>
  PROVE  q[1] \in S /\ q = <<q[1]>> /\ DOMAIN q = {1}
  <1>1. Len(q) = 1
    BY EmptySeq, LenProperties
  <1>2. DOMAIN q = 1..1 /\ 1..1 = {1}
    BY <1>1, LenProperties
  <1>3. q[1] \in S
    BY <1>2, ElementOfSeq
  <1>4. <<q[1]>> \in Seq(S) /\ Len(<<q[1]>>) = 1 /\ <<q[1]>>[1] = q[1]
    BY <1>3
  <1>5. q = <<q[1]>>
    BY <1>1, <1>4, SeqEqual
  <1> QED BY <1>2, <1>3, <1>5

LEMMA InvCloseLeavesOne == Inv /\ Left => CloseLeavesOne
  <1> SUFFICES ASSUME Inv, Left, closing = "closed"
      PROVE  /\ delivery = <<>>
             /\ queue = <<>> \/ (~attached /\ \E r \in Requests : queue = <<r>> /\ job[r].waiters = {r})
             /\ \A u \in Users : active[u] # None =>
                  \E r \in Owned(u) : request[r].at \in InCall \/ queue = <<r>>
    BY DEF CloseLeavesOne
  <1>1. /\ delivery = <<>> /\ \A w \in Workers : worker[w].at = "gone"
        /\ \A s \in Senders : sender[s].at = "gone"
    BY DEF Inv, Emptied
  <1>2. /\ queue \in Seq(Requests) /\ Len(queue) <= 1
        /\ \A i \in DOMAIN queue : job[queue[i]].waiters = {queue[i]}
    BY <1>1, HorizonAssumption DEF Left, Inv, TypeOK
  <1>3. ASSUME queue # <<>>
        PROVE  ~attached /\ \E r \in Requests : queue = <<r>> /\ job[r].waiters = {r}
    <2>1. queue[1] \in Requests /\ queue = <<queue[1]>> /\ DOMAIN queue = {1}
      BY <1>2, <1>3, OneIsAll
    <2>2. ~attached /\ job[queue[1]].waiters = {queue[1]}
      BY <1>2, <1>3, <2>1 DEF Inv, Emptied
    <2> QED BY <2>1, <2>2
  <1>4. ASSUME NEW u \in Users, active[u] # None
        PROVE  \E r \in Owned(u) : request[r].at \in InCall \/ queue = <<r>>
    <2>1. PICK r \in Requests : Owns(r) /\ User(r) = u
      BY <1>4 DEF Inv, Marked
    <2>2. r \in Owned(u)
      BY <2>1 DEF Owned, Owns
    <2>3. CASE At(r, "waiting")
      <3>1. DOMAIN delivery = {}
        BY <1>1
      <3>2. PICK i \in DOMAIN queue : r \in job[queue[i]].waiters
        BY <1>1, <2>3, <3>1, LastFacts
      <3>3. queue[i] = r
        BY <1>2, <3>2
      <3>4. queue # <<>>
        BY <3>2
      <3>5. queue = <<r>>
        BY <1>2, <3>2, <3>3, <3>4, OneIsAll
      <3> QED BY <2>2, <3>5
    <2>4. CASE ~At(r, "waiting")
      <3>1. request[r].at \in InCall
        BY <2>1, <2>4 DEF Inv, Emptied, At
      <3> QED BY <2>2, <3>1
    <2> QED BY <2>3, <2>4
  <1> QED BY <1>1, <1>3, <1>4

-----------------------------------------------------------------------------
(* The theorems.                                                           *)

\* What each property below follows from, kept by every step of the jobs, those
\* between the two steps of enqueue included (horizon_jobs.go:189, 817, 842).
THEOREM Invariant == Spec => [](Inv /\ Held /\ Left)
  <1>1. Init => Inv /\ Held /\ Left
    <2> SUFFICES ASSUME Init PROVE Inv /\ Held /\ Left
      OBVIOUS
    <2>1. queue = <<>> /\ \A r \in Requests : request[r].at = "new"
      BY DEF Init, New
    <2>2. Held /\ Unlocked
      BY <2>1 DEF Held, Unlocked, At
    <2>3. Left
      BY <2>1, <2>2 DEF Left
    <2> QED BY <2>2, <2>3, InitInv
  <1>2. Inv /\ Held /\ Left /\ [Next]_vars => (Inv /\ Held /\ Left)'
    BY NextInv, NextHeld, NextLeft
  <1> QED BY <1>1, <1>2, PTL DEF Spec

\* The variables keep their types; the channels, the slots and the leases keep
\* within their bounds (horizon_jobs.go:189, 251).
THEOREM TypeCorrect == Spec => []TypeOK
  <1>1. Inv => TypeOK
    BY DEF Inv
  <1> QED BY <1>1, Invariant, PTL

\* One request of a user at a time, and the map of active users says which
\* (horizon_jobs.go:821, 1228; horizon_directional.go:78).
THEOREM ActiveIsExact == Spec => []ActiveExact
  BY Invariant, InvActiveExact, PTL

\* Identical requests share one calculation, and who waits is waited for in one
\* place (horizon_jobs.go:830, 1058, 1086).
THEOREM OneCalculation == Spec => []Singleflight
  <1>1. Inv => Singleflight
    BY InvSharedOnce, InvWaitedForOnce DEF Singleflight
  <1> QED BY <1>1, Invariant, PTL

\* Every slot and every lease file is accounted for, and given back
\* (horizon_jobs.go:1072, 1110, 1157, 1268).
THEOREM NothingLeaks == Spec => []DeliveriesExact
  BY Invariant, InvDeliveriesExact, PTL

\* CancelUser reaches the ticket that is awaited, whatever ended before it
\* (horizon_directional.go:238).
THEOREM CancelIsHeard == Spec => []CancelReaches
  <1>1. Inv => CancelReaches
    BY DEF Inv, Reached
  <1> QED BY <1>1, Invariant, PTL

\* With a coordinator only a full channel leaves a user without an answer
\* (horizon_jobs.go:84, 1217).
THEOREM TheOthersAreTold == Spec => []OnlyDropsAreSilent
  <1>1. Inv => OnlyDropsAreSilent
    BY DEF Inv, Alone, OnlyDropsAreSilent
  <1> QED BY <1>1, Invariant, PTL

\* Close leaves no result and, but for callers about to be refused, nobody busy
\* except one who waits for the last job of the queue, if enqueue sent it after the
\* workers had left (horizon_jobs.go:327, 817, 842, 1264).
THEOREM CloseIsAlmostComplete == Spec => []CloseLeavesOne
  BY Invariant, InvCloseLeavesOne, PTL
=============================================================================
