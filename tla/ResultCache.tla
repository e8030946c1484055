----------------------------- MODULE ResultCache -----------------------------
(***************************************************************************)
(* The disk cache of directional results                                   *)
(* (internal/app/directional/cache.go): a directory per science identity,  *)
(* published by a rename, verified before use, forgotten by age or limit.  *)
(*                                                                         *)
(* resultCache.mutex guards the map of entries and is held while entries   *)
(* are forgotten, but not while a publication verifies, removes, copies    *)
(* and renames: several workers may be there at once.  A directory is      *)
(* removed file by file, so that it is "torn" between the first and the    *)
(* last of them.  The process may be killed, and may lose with the power   *)
(* the renames no fsync has made durable.                                  *)
(*                                                                         *)
(* Each publication has its own creation time, which stands for its bytes: *)
(* a data set records when it was generated, so that no two are equal.     *)
(***************************************************************************)
EXTENDS Integers, FiniteSets

CONSTANTS
  Digests,     \* science identities
  Publishers,  \* workers of the coordinator
  Limit,       \* Config.CompletedLimit
  TTL,         \* Config.CompletedTTL, in clock ticks
  None,        \* no time
  MaxTime      \* bound on the clock

ASSUME CacheAssumption ==
  /\ IsFiniteSet(Digests) /\ IsFiniteSet(Publishers)
  /\ Limit \in Nat \ {0} /\ TTL \in Nat \ {0} /\ MaxTime \in Nat
  /\ None \notin Nat /\ None \notin Publishers

VARIABLES
  disk,       \* directory entries/<digest>
  entries,    \* resultCache.entries, by creation time
  publisher,  \* per worker: how far its publication is
  staged,     \* workers whose .publish- directory is on disk
  locked,     \* directories removed under the mutex, which is free when empty
  holder,     \* the worker that removes them, None for a caller of lookup or open
  durable,    \* directories whose name an fsync has made durable
  now, up

vars == <<disk, entries, publisher, staged, locked, holder, durable, now, up>>

Times  == 0..MaxTime
Places == {"idle", "stamped", "loading", "removing", "removed", "copying",
           "renamed", "synced", "refused", "adopting", "answered"}

Absent   == [is |-> "absent", at |-> None]
Whole(t) == [is |-> "whole", at |-> t]
Idle     == [at |-> "idle", digest |-> None, stamp |-> None, result |-> None]

Init ==
  /\ disk = [d \in Digests |-> Absent] /\ entries = [d \in Digests |-> None]
  /\ publisher = [p \in Publishers |-> Idle]
  /\ staged = {} /\ locked = {} /\ holder = None
  /\ durable = {} /\ now = 0 /\ up = TRUE

-----------------------------------------------------------------------------
(* Forgetting by age and by limit.                                         *)
Live(e, t) == {d \in Digests : e[d] # None /\ e[d] + TTL > t}

\* Faulty: the newest entries go.
KeptOldest(e, t) ==
  {d \in Live(e, t) : Cardinality({x \in Live(e, t) : e[x] < e[d]}) < Limit}

\* Faulty: one entry more than the limit.
KeptOneMore(e, t) ==
  {d \in Live(e, t) : Cardinality({x \in Live(e, t) : e[x] > e[d]}) <= Limit}

\* The entries that stay at time t: those not expired, the newest of them.
Kept(e, t) ==
  {d \in Live(e, t) : Cardinality({x \in Live(e, t) : e[x] > e[d]}) < Limit}

Tear(R) ==
  [d \in Digests |->
    IF d \in R /\ disk[d] # Absent THEN [disk[d] EXCEPT !.is = "torn"] ELSE disk[d]]

Clear(R) == [d \in Digests |-> IF d \in R THEN Absent ELSE disk[d]]

\* A critical section of h that leaves the entries e but for those of R, and
\* begins to remove the directories of R.
Forget(h, e, R) ==
  /\ up /\ locked = {}
  /\ entries' = [d \in Digests |-> IF d \in R THEN None ELSE e[d]]
  /\ locked' = R /\ holder' = (IF R = {} THEN None ELSE h)
  /\ disk' = Tear(R)

Stale(e, t) == {d \in Digests : e[d] # None} \ Kept(e, t)

\* The mutex is released: the directories are gone, unless a publication
\* has taken the place of one.
Unlock ==
  /\ locked # {}
  /\ disk' = Clear({d \in locked : disk[d].is = "torn"})
  /\ locked' = {} /\ holder' = None
  /\ UNCHANGED <<entries, publisher, staged, durable, now, up>>

\* lookup, and what every other operation begins with.
Lookup ==
  /\ Forget(None, entries, Stale(entries, now))
  /\ UNCHANGED <<publisher, staged, durable, now, up>>

\* Faulty: the entry stays when its directory goes.
OpenKeepsEntry(d) ==
  /\ up /\ locked = {}
  /\ d \in Kept(entries, now) /\ disk[d] # Whole(entries[d])
  /\ locked' = {d} /\ disk' = Tear({d})
  /\ UNCHANGED <<entries, publisher, staged, holder, durable, now, up>>

\* open, when the data set is not the one the entry describes.
Open(d) ==
  /\ d \in Kept(entries, now) /\ disk[d] # Whole(entries[d])
  /\ Forget(None, entries, Stale(entries, now) \cup {d})
  /\ UNCHANGED <<publisher, staged, durable, now, up>>

-----------------------------------------------------------------------------
(* Publication.                                                            *)
\* p is there, and waits for nothing it does under the mutex.
At(p, place) == publisher[p].at = place /\ p # holder

Goes(p, place) == publisher' = [publisher EXCEPT ![p].at = place]

Answers(p, t) ==
  publisher' = [publisher EXCEPT ![p] = [@ EXCEPT !.at = "answered", !.result = t]]

Fails(p) == publisher' = [publisher EXCEPT ![p] = Idle] /\ staged' = staged \ {p}

\* The clock is read, before the mutex is taken.
Stamp(p, d) ==
  /\ up /\ At(p, "idle") /\ now < MaxTime
  /\ publisher' = [publisher EXCEPT ![p] =
                     [at |-> "stamped", digest |-> d, stamp |-> now, result |-> None]]
  /\ now' = now + 1
  /\ UNCHANGED <<disk, entries, staged, locked, holder, durable, up>>

\* The identity may be published already.
Check(p) ==
  LET d == publisher[p].digest
      t == publisher[p].stamp
  IN  /\ At(p, "stamped")
      /\ Forget(p, entries, Stale(entries, t))
      /\ IF entries'[d] # None THEN Answers(p, entries'[d]) ELSE Goes(p, "loading")
      /\ UNCHANGED <<staged, durable, now, up>>

Valid(d, t) == disk[d].is = "whole" /\ disk[d].at + TTL > t

\* Faulty: what is found on disk is adopted without verification.
LoadUnverified(p) ==
  /\ (At(p, "loading") \/ At(p, "refused"))
  /\ publisher' = [publisher EXCEPT ![p] =
       [@ EXCEPT !.at = "adopting", !.result = disk[publisher[p].digest].at]]
  /\ UNCHANGED <<disk, entries, staged, locked, holder, durable, now, up>>

\* loadEntry, before the copy and after a refused rename.
Load(p) ==
  LET d == publisher[p].digest
  IN  /\ (At(p, "loading") \/ At(p, "refused"))
      /\ \/ /\ Valid(d, publisher[p].stamp)
            /\ publisher' = [publisher EXCEPT ![p] =
                 [@ EXCEPT !.at = "adopting", !.result = disk[d].at]]
            /\ UNCHANGED staged
         \/ /\ ~Valid(d, publisher[p].stamp) /\ At(p, "loading")
            /\ Goes(p, "removing") /\ UNCHANGED staged
         \/ /\ ~Valid(d, publisher[p].stamp) /\ At(p, "refused")
            /\ Fails(p)
      /\ UNCHANGED <<disk, entries, locked, holder, durable, now, up>>

\* Faulty: a directory of the disk is answered and not entered.
AdoptUnlisted(p) ==
  /\ At(p, "adopting") /\ locked = {}
  /\ Answers(p, publisher[p].result)
  /\ staged' = staged \ {p}
  /\ UNCHANGED <<disk, entries, locked, holder, durable, now, up>>

Adopt(p) ==
  /\ At(p, "adopting") /\ locked = {}
  /\ entries' = [entries EXCEPT ![publisher[p].digest] = publisher[p].result]
  /\ Answers(p, publisher[p].result)
  /\ staged' = staged \ {p}
  /\ UNCHANGED <<disk, locked, holder, durable, now, up>>

\* RemoveAll of what could not be loaded, with no lock.
RemoveBegins(p) ==
  /\ At(p, "removing")
  /\ disk' = Tear({publisher[p].digest}) /\ Goes(p, "removed")
  /\ UNCHANGED <<entries, staged, locked, holder, durable, now, up>>

RemoveEnds(p) ==
  LET d == publisher[p].digest
  IN  /\ At(p, "removed")
      /\ \/ /\ disk[d].is \in {"torn", "absent"}
            /\ disk' = Clear({d}) /\ staged' = staged \cup {p}
            /\ Goes(p, "copying")
         \/ disk[d].is # "absent" /\ Fails(p) /\ UNCHANGED disk
      /\ UNCHANGED <<entries, locked, holder, durable, now, up>>

\* An error of the copy, of the manifest or of the sync; the context ends.
CopyFails(p) ==
  /\ At(p, "copying") /\ Fails(p)
  /\ UNCHANGED <<disk, entries, locked, holder, durable, now, up>>

\* os.Rename refuses to replace a directory.
Rename(p) ==
  LET d == publisher[p].digest
  IN  /\ At(p, "copying")
      /\ \/ /\ disk[d] = Absent
            /\ disk' = [disk EXCEPT ![d] = Whole(publisher[p].stamp)]
            /\ durable' = durable \ {d} /\ staged' = staged \ {p}
            /\ Goes(p, "renamed")
         \/ disk[d] # Absent /\ Goes(p, "refused") /\ UNCHANGED <<disk, durable, staged>>
      /\ UNCHANGED <<entries, locked, holder, now, up>>

\* The sync of the entries directory makes all its names durable.
Sync(p) ==
  /\ At(p, "renamed") /\ Goes(p, "synced")
  /\ durable' = {d \in Digests : disk[d] # Absent}
  /\ UNCHANGED <<disk, entries, staged, locked, holder, now, up>>

\* The directory stays where it is.
SyncFails(p) ==
  /\ At(p, "renamed") /\ Fails(p)
  /\ UNCHANGED <<disk, entries, locked, holder, durable, now, up>>

Listed(p) == [entries EXCEPT ![publisher[p].digest] = publisher[p].stamp]

Insert(p) ==
  /\ At(p, "synced")
  /\ Forget(p, Listed(p), Stale(Listed(p), publisher[p].stamp))
  /\ Answers(p, publisher[p].stamp)
  /\ UNCHANGED <<staged, durable, now, up>>

\* The coordinator takes the result.
Return(p) ==
  /\ At(p, "answered")
  /\ publisher' = [publisher EXCEPT ![p] = Idle]
  /\ UNCHANGED <<disk, entries, staged, locked, holder, durable, now, up>>

-----------------------------------------------------------------------------
(* The process and its disk.                                               *)

\* The process is killed; a power loss may take renames that are not durable.
Crash ==
  /\ up /\ up' = FALSE
  /\ \E R \in SUBSET (Digests \ durable) : disk' = Clear(R)
  /\ entries' = [d \in Digests |-> None]
  /\ publisher' = [p \in Publishers |-> Idle]
  /\ locked' = {} /\ holder' = None
  /\ UNCHANGED <<staged, durable, now>>

Loadable == [d \in Digests |-> IF Valid(d, now) THEN disk[d].at ELSE None]

\* Faulty: interrupted publications stay.
RecoverEntriesOnly ==
  /\ ~up /\ up' = TRUE
  /\ entries' = [d \in Digests |-> IF d \in Kept(Loadable, now) THEN disk[d].at ELSE None]
  /\ disk' = Clear(Digests \ Kept(Loadable, now))
  /\ durable' = Kept(Loadable, now)
  /\ UNCHANGED <<publisher, staged, locked, holder, now>>

Recover ==
  /\ ~up /\ up' = TRUE
  /\ entries' = [d \in Digests |-> IF d \in Kept(Loadable, now) THEN disk[d].at ELSE None]
  /\ disk' = Clear(Digests \ Kept(Loadable, now))
  /\ staged' = {} /\ durable' = Kept(Loadable, now)
  /\ UNCHANGED <<publisher, locked, holder, now>>

\* The recovery ends early: an error, or a second kill.
RecoverFails ==
  /\ ~up
  /\ \E R \in SUBSET {d \in Digests : ~Valid(d, now)} : disk' = Clear(R)
  /\ staged' \in SUBSET staged
  /\ UNCHANGED <<entries, publisher, locked, holder, durable, now, up>>

\* The bytes of a published data set change on disk.
Damage(d) ==
  /\ disk[d].is = "whole" /\ disk' = [disk EXCEPT ![d].is = "damaged"]
  /\ UNCHANGED <<entries, publisher, staged, locked, holder, durable, now, up>>

Tick ==
  /\ now < MaxTime /\ now' = now + 1
  /\ UNCHANGED <<disk, entries, publisher, staged, locked, holder, durable, up>>

Publish(p) ==
  \/ \E d \in Digests : Stamp(p, d)
  \/ Check(p) \/ Load(p) \/ Adopt(p) \/ RemoveBegins(p) \/ RemoveEnds(p)
  \/ CopyFails(p) \/ Rename(p) \/ Sync(p) \/ SyncFails(p) \/ Insert(p) \/ Return(p)

Next ==
  \/ \E p \in Publishers : Publish(p)
  \/ \E d \in Digests : Open(d) \/ Damage(d)
  \/ Lookup \/ Unlock \/ Crash \/ Recover \/ RecoverFails \/ Tick

Spec == Init /\ [][Next]_vars

\* No two publications of the same identity at once, as with one worker or
\* when the singleflight of the coordinator covers the final identities.
Solo ==
  \A p, q \in Publishers :
    p # q /\ publisher[p].at # "idle" => publisher[p].digest # publisher[q].digest

SoloSpec == Init /\ [][Next /\ Solo']_vars

-----------------------------------------------------------------------------
OnDisk  == {Absent} \cup [is : {"whole", "damaged", "torn"}, at : Times]
Running == [at : Places \ {"idle"}, digest : Digests, stamp : Times,
            result : Times \cup {None}]

\* A publication that answers has something to answer.
PublisherOK ==
  /\ publisher \in [Publishers -> {Idle} \cup Running]
  /\ \A p \in Publishers :
       publisher[p].at \in {"adopting", "answered"} => publisher[p].result # None

\* The types of the variables (cache.go:41); what is on disk is complete,
\* damaged or on its way out.
TypeOK ==
  /\ disk \in [Digests -> OnDisk]
  /\ entries \in [Digests -> Times \cup {None}]
  /\ PublisherOK
  /\ staged \in SUBSET Publishers /\ locked \in SUBSET Digests
  /\ holder \in Publishers \cup {None}
  /\ durable \in SUBSET Digests /\ now \in Times /\ up \in BOOLEAN

\* An entry of the map has its own directory on disk, complete unless its
\* bytes were damaged from outside (cache.go:218, 307).
EntriesOnDisk ==
  \A d \in Digests : entries[d] # None =>
    disk[d].is \in {"whole", "damaged"} /\ disk[d].at = entries[d]

\* A published result disappears only when it has expired, when as many
\* newer ones as the limit are there, or with a power loss before the sync
\* (cache.go:148, 294, 304).
LostOnlyByAge ==
  [][\A d \in Digests :
       disk[d].is = "whole" /\ disk'[d].is \in {"absent", "torn"} =>
         \/ disk[d].at + TTL <= now
         \/ Cardinality({x \in Digests : disk[x].is # "absent"
                                         /\ disk[x].at > disk[d].at}) >= Limit
         \/ up /\ ~up' /\ d \notin durable]_vars

\* When a publication answers, its result is in the map and on disk, under
\* the same bytes, unless others published later have filled the cache
\* meanwhile: then it prunes its own (cache.go:137, 218).
ResultIsThere ==
  [][\A p \in Publishers :
       publisher[p].at # "answered" /\ publisher'[p].at = "answered" =>
         LET d == publisher[p].digest
             t == publisher'[p].result
         IN  \/ /\ entries'[d] = t /\ disk'[d].at = t
                /\ disk'[d].is \in {"whole", "damaged"}
             \/ Cardinality({x \in Digests : entries'[x] # None
                                             /\ entries'[x] > t}) >= Limit]_vars

\* A publication that enters a new result leaves the map within its limit,
\* whatever adoptions, which do not prune, have added (cache.go:145, 219).
LimitRespected ==
  [][\A p \in Publishers :
       publisher[p].at = "synced" /\ publisher'[p].at = "answered" =>
         Cardinality({d \in Digests : entries'[d] # None}) <= Limit]_vars

\* A .publish- directory belongs to a publication that goes on: every way
\* out of publish, and a restart, removes it (cache.go:157, 232).
StagingOwned ==
  up => \A p \in staged : publisher[p].at \in {"copying", "refused", "adopting"}
=============================================================================
