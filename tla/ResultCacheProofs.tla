------------------------- MODULE ResultCacheProofs -------------------------
(***************************************************************************)
(* Theorems about the result cache, for any number of identities and       *)
(* workers and any limit and lifetime.                                     *)
(***************************************************************************)
EXTENDS ResultCache, FiniteSetTheorems, TLAPS

USE CacheAssumption DEF Times

-----------------------------------------------------------------------------
(* The helpers.                                                            *)

\* A publication that has begun has an identity and a time.
LEMMA RunningFacts ==
  ASSUME TypeOK, NEW p \in Publishers, publisher[p].at # "idle"
  PROVE  /\ publisher[p] \in Running
         /\ publisher[p].digest \in Digests
         /\ publisher[p].stamp \in Times
         /\ publisher[p].result \in Times \cup {None}
BY DEF TypeOK, PublisherOK, Idle, Running

\* The record of p after a step that only moves it.
LEMMA Moved ==
  ASSUME TypeOK, NEW p \in Publishers, publisher[p].at # "idle", NEW place, Goes(p, place)
  PROVE  /\ \A q \in Publishers : q # p => publisher'[q] = publisher[q]
         /\ publisher'[p].at = place
         /\ publisher'[p].digest = publisher[p].digest
         /\ publisher'[p].stamp = publisher[p].stamp
         /\ publisher'[p].result = publisher[p].result
BY RunningFacts DEF TypeOK, PublisherOK, Goes, Running

LEMMA Resulted ==
  ASSUME TypeOK, NEW p \in Publishers, publisher[p].at # "idle", NEW place, NEW t,
         publisher' = [publisher EXCEPT ![p] = [@ EXCEPT !.at = place, !.result = t]]
  PROVE  /\ \A q \in Publishers : q # p => publisher'[q] = publisher[q]
         /\ publisher'[p].at = place
         /\ publisher'[p].digest = publisher[p].digest
         /\ publisher'[p].stamp = publisher[p].stamp
         /\ publisher'[p].result = t
<1>1. publisher[p] \in Running
  BY RunningFacts
<1>2. publisher' =
        [publisher EXCEPT ![p] = [publisher[p] EXCEPT !.at = place, !.result = t]]
  BY DEF TypeOK, PublisherOK
<1> QED BY <1>1, <1>2 DEF TypeOK, PublisherOK, Running

\* Going on keeps the type, elsewhere than to an answer.
LEMMA GoesType ==
  ASSUME TypeOK, NEW p \in Publishers, publisher[p].at # "idle",
         NEW place \in Places \ {"idle", "adopting", "answered"}, Goes(p, place)
  PROVE  PublisherOK'
<1>1. publisher[p] \in Running
  BY RunningFacts
<1>2. [publisher[p] EXCEPT !.at = place] \in Running
  BY <1>1 DEF Running, Places
<1>3. publisher' = [publisher EXCEPT ![p] = [publisher[p] EXCEPT !.at = place]]
  BY DEF Goes
<1>4. publisher' \in [Publishers -> {Idle} \cup Running]
  BY <1>2, <1>3 DEF TypeOK, PublisherOK
<1>5. ASSUME NEW q \in Publishers, publisher'[q].at \in {"adopting", "answered"}
      PROVE  publisher'[q].result # None
  <2>1. CASE q = p
    BY <2>1, <1>1, <1>3, <1>5 DEF TypeOK, PublisherOK, Running
  <2>2. CASE q # p
    BY <2>2, <1>3, <1>5 DEF TypeOK, PublisherOK
  <2> QED BY <2>1, <2>2
<1> QED BY <1>4, <1>5 DEF PublisherOK

\* An answer has a time.
LEMMA AnswersType ==
  ASSUME TypeOK, NEW p \in Publishers, publisher[p].at # "idle",
         NEW t \in Times, NEW place \in {"adopting", "answered"},
         publisher' = [publisher EXCEPT ![p] = [@ EXCEPT !.at = place, !.result = t]]
  PROVE  PublisherOK'
<1>1. publisher[p] \in Running
  BY RunningFacts
<1>2. [publisher[p] EXCEPT !.at = place, !.result = t] \in Running
  BY <1>1 DEF Running, Places
<1>3. publisher' =
        [publisher EXCEPT ![p] = [publisher[p] EXCEPT !.at = place, !.result = t]]
  BY DEF TypeOK, PublisherOK
<1>4. publisher' \in [Publishers -> {Idle} \cup Running]
  BY <1>2, <1>3 DEF TypeOK, PublisherOK
<1>5. ASSUME NEW q \in Publishers, publisher'[q].at \in {"adopting", "answered"}
      PROVE  publisher'[q].result # None
  <2>1. CASE q = p
    BY <2>1, <1>1, <1>3 DEF TypeOK, PublisherOK, Running
  <2>2. CASE q # p
    BY <2>2, <1>3, <1>5 DEF TypeOK, PublisherOK
  <2> QED BY <2>1, <2>2
<1> QED BY <1>4, <1>5 DEF PublisherOK

\* So does a failure.
LEMMA FailsType ==
  ASSUME TypeOK, NEW p \in Publishers,
         publisher' = [publisher EXCEPT ![p] = Idle]
  PROVE  PublisherOK'
BY DEF TypeOK, PublisherOK, Idle

\* Tearing and clearing keep the type, and touch what they name only.
LEMMA TearFacts ==
  ASSUME TypeOK, NEW R
  PROVE  /\ Tear(R) \in [Digests -> OnDisk]
         /\ \A d \in Digests \ R : Tear(R)[d] = disk[d]
         /\ \A d \in Digests \cap R : Tear(R)[d].is \in {"torn", "absent"}
BY DEF TypeOK, Tear, OnDisk, Absent

LEMMA ClearFacts ==
  ASSUME TypeOK, NEW R
  PROVE  /\ Clear(R) \in [Digests -> OnDisk]
         /\ \A d \in Digests \ R : Clear(R)[d] = disk[d]
         /\ \A d \in Digests \cap R : Clear(R)[d] = Absent
BY DEF TypeOK, Clear, OnDisk, Absent

\* What stays is among the entries.
LEMMA KeptFacts ==
  ASSUME NEW e, NEW t
  PROVE  /\ Kept(e, t) \subseteq Digests
         /\ \A d \in Kept(e, t) : e[d] # None
         /\ Stale(e, t) \subseteq Digests
         /\ \A d \in Stale(e, t) : e[d] # None
BY DEF Kept, Live, Stale

\* A critical section keeps the types of what it changes.
LEMMA ForgetFacts ==
  ASSUME TypeOK, NEW h \in Publishers \cup {None},
         NEW e \in [Digests -> Times \cup {None}],
         NEW R \in SUBSET Digests, Forget(h, e, R)
  PROVE  /\ disk' \in [Digests -> OnDisk]
         /\ entries' \in [Digests -> Times \cup {None}]
         /\ locked' \in SUBSET Digests
         /\ holder' \in Publishers \cup {None}
         /\ \A d \in Digests : entries'[d] = IF d \in R THEN None ELSE e[d]
         /\ disk' = Tear(R)
BY TearFacts DEF Forget

-----------------------------------------------------------------------------
(* The type invariant.                                                     *)
LEMMA TypeInit == Init => TypeOK
BY DEF Init, TypeOK, PublisherOK, OnDisk, Idle, Absent

\* Every step of a publication keeps the types.
LEMMA TypePublish ==
  ASSUME TypeOK, NEW p \in Publishers, Publish(p)
  PROVE  TypeOK'
<1> DEFINE d == publisher[p].digest
           t == publisher[p].stamp
<1> USE DEF TypeOK
<1>1. ASSUME NEW x \in Digests, Stamp(p, x)
      PROVE  TypeOK'
  <2>1. [at |-> "stamped", digest |-> x, stamp |-> now, result |-> None] \in Running
    BY DEF Running, Places
  <2>2. PublisherOK'
    BY <1>1, <2>1 DEF Stamp, PublisherOK
  <2> QED BY <1>1, <2>2 DEF Stamp
<1>2. CASE Check(p)
  <2>1. publisher[p].at # "idle" /\ d \in Digests
    BY <1>2, RunningFacts DEF Check, At
  <2>2. Stale(entries, t) \in SUBSET Digests
    BY KeptFacts
  <2>3. Forget(p, entries, Stale(entries, t))
    BY <1>2 DEF Check
  <2>4. /\ disk' \in [Digests -> OnDisk] /\ locked' \in SUBSET Digests
        /\ entries' \in [Digests -> Times \cup {None}]
        /\ holder' \in Publishers \cup {None}
    BY <2>2, <2>3, ForgetFacts
  <2>5. CASE entries'[d] # None
    <3>1. entries'[d] \in Times
      BY <2>1, <2>4, <2>5
    <3>2. Answers(p, entries'[d])
      BY <1>2, <2>5 DEF Check
    <3>3. PublisherOK'
      BY <2>1, <3>1, <3>2, AnswersType DEF Answers
    <3> QED BY <1>2, <2>4, <3>3 DEF Check
  <2>6. CASE entries'[d] = None
    <3>1. Goes(p, "loading")
      BY <1>2, <2>6 DEF Check
    <3>2. PublisherOK'
      BY <2>1, <3>1, GoesType DEF Places
    <3> QED BY <1>2, <2>4, <3>2 DEF Check
  <2> QED BY <2>5, <2>6
<1>3. CASE Load(p)
  <2>1. publisher[p].at # "idle" /\ d \in Digests
    BY <1>3, RunningFacts DEF Load, At
  <2>2. CASE Valid(d, t)
    <3>1. disk[d].at \in Times
      BY <2>1, <2>2 DEF Valid, OnDisk, Absent
    <3>2. publisher' = [publisher EXCEPT ![p] = [@ EXCEPT !.at = "adopting", !.result = disk[d].at]]
      BY <1>3, <2>2 DEF Load
    <3>3. PublisherOK'
      BY <2>1, <3>1, <3>2, AnswersType
    <3> QED BY <1>3, <2>2, <3>3 DEF Load
  <2>3. CASE ~Valid(d, t) /\ Goes(p, "removing")
    <3>1. PublisherOK'
      BY <2>1, <2>3, GoesType DEF Places
    <3> QED BY <1>3, <2>3, <3>1 DEF Load, Fails
  <2>4. CASE ~Valid(d, t) /\ Fails(p)
    <3>1. PublisherOK'
      BY <2>4, FailsType DEF Fails
    <3> QED BY <1>3, <2>4, <3>1 DEF Load, Fails
  <2> QED BY <1>3, <2>2, <2>3, <2>4 DEF Load
<1>4. CASE Adopt(p)
  <2>1. publisher[p].at = "adopting"
    BY <1>4 DEF Adopt, At
  <2>2. publisher[p].result \in Times /\ d \in Digests
    BY <2>1, RunningFacts DEF PublisherOK
  <2>3. PublisherOK'
    BY <1>4, <2>1, <2>2, AnswersType DEF Adopt, Answers
  <2> QED BY <1>4, <2>2, <2>3 DEF Adopt
<1>5. CASE RemoveBegins(p)
  <2>1. PublisherOK'
    BY <1>5, GoesType DEF RemoveBegins, At, Places
  <2> QED BY <1>5, <2>1, TearFacts DEF RemoveBegins
<1>6. CASE RemoveEnds(p)
  <2>1. PublisherOK'
    BY <1>6, GoesType, FailsType DEF RemoveEnds, At, Places, Fails
  <2>2. disk' \in [Digests -> OnDisk]
    BY <1>6, ClearFacts DEF RemoveEnds
  <2> QED BY <1>6, <2>1, <2>2 DEF RemoveEnds, Fails
<1>7. CASE CopyFails(p)
  <2>1. PublisherOK'
    BY <1>7, FailsType DEF CopyFails, Fails
  <2> QED BY <1>7, <2>1 DEF CopyFails, Fails
<1>8. CASE Rename(p)
  <2>1. publisher[p].at # "idle" /\ d \in Digests /\ t \in Times
    BY <1>8, RunningFacts DEF Rename, At
  <2>2. PublisherOK'
    BY <1>8, GoesType DEF Rename, At, Places
  <2>3. Whole(t) \in OnDisk
    BY <2>1 DEF Whole, OnDisk
  <2> QED BY <1>8, <2>1, <2>2, <2>3 DEF Rename
<1>9. CASE Sync(p)
  <2>1. PublisherOK'
    BY <1>9, GoesType DEF Sync, At, Places
  <2> QED BY <1>9, <2>1 DEF Sync
<1>10. CASE SyncFails(p)
  <2>1. PublisherOK'
    BY <1>10, FailsType DEF SyncFails, Fails
  <2> QED BY <1>10, <2>1 DEF SyncFails, Fails
<1>11. CASE Insert(p)
  <2>1. publisher[p].at # "idle" /\ d \in Digests /\ t \in Times
    BY <1>11, RunningFacts DEF Insert, At
  <2>2. Listed(p) \in [Digests -> Times \cup {None}]
    BY <2>1 DEF Listed
  <2>3. Stale(Listed(p), t) \in SUBSET Digests
    BY KeptFacts
  <2>4. Forget(p, Listed(p), Stale(Listed(p), t))
    BY <1>11 DEF Insert
  <2>5. /\ disk' \in [Digests -> OnDisk] /\ locked' \in SUBSET Digests
        /\ entries' \in [Digests -> Times \cup {None}]
        /\ holder' \in Publishers \cup {None}
    BY <2>2, <2>3, <2>4, ForgetFacts
  <2>6. PublisherOK'
    BY <1>11, <2>1, AnswersType DEF Insert, Answers
  <2> QED BY <1>11, <2>5, <2>6 DEF Insert
<1>12. CASE Return(p)
  <2>1. PublisherOK'
    BY <1>12, FailsType DEF Return
  <2> QED BY <1>12, <2>1 DEF Return
<1> QED
  BY <1>1, <1>2, <1>3, <1>4, <1>5, <1>6, <1>7, <1>8, <1>9, <1>10, <1>11, <1>12
  DEF Publish

LEMMA TypeStep == TypeOK /\ [Next]_vars => TypeOK'
<1> SUFFICES ASSUME TypeOK, [Next]_vars
             PROVE  TypeOK'
  OBVIOUS
<1> USE DEF TypeOK
<1>1. ASSUME NEW p \in Publishers, Publish(p)
      PROVE  TypeOK'
  BY <1>1, TypePublish
<1>2. ASSUME NEW d \in Digests, Open(d)
      PROVE  TypeOK'
  <2>1. Stale(entries, now) \cup {d} \in SUBSET Digests
    BY KeptFacts
  <2>2. Forget(None, entries, Stale(entries, now) \cup {d})
    BY <1>2 DEF Open
  <2>3. /\ disk' \in [Digests -> OnDisk] /\ locked' \in SUBSET Digests
        /\ entries' \in [Digests -> Times \cup {None}]
        /\ holder' \in Publishers \cup {None}
    BY <2>1, <2>2, ForgetFacts
  <2> QED BY <1>2, <2>3 DEF Open, PublisherOK
<1>3. ASSUME NEW d \in Digests, Damage(d)
      PROVE  TypeOK'
  <2>1. disk' \in [Digests -> OnDisk]
    BY <1>3 DEF Damage, OnDisk, Absent
  <2> QED BY <1>3, <2>1 DEF Damage, PublisherOK
<1>4. CASE Lookup
  <2>1. Stale(entries, now) \in SUBSET Digests
    BY KeptFacts
  <2>2. Forget(None, entries, Stale(entries, now))
    BY <1>4 DEF Lookup
  <2>3. /\ disk' \in [Digests -> OnDisk] /\ locked' \in SUBSET Digests
        /\ entries' \in [Digests -> Times \cup {None}]
        /\ holder' \in Publishers \cup {None}
    BY <2>1, <2>2, ForgetFacts
  <2> QED BY <1>4, <2>3 DEF Lookup, PublisherOK
<1>5. CASE Unlock
  <2>1. disk' \in [Digests -> OnDisk]
    BY <1>5, ClearFacts DEF Unlock
  <2> QED BY <1>5, <2>1 DEF Unlock, PublisherOK
<1>6. CASE Crash
  <2>1. disk' \in [Digests -> OnDisk]
    BY <1>6, ClearFacts DEF Crash
  <2>2. PublisherOK'
    BY <1>6 DEF Crash, PublisherOK, Idle
  <2> QED BY <1>6, <2>1, <2>2 DEF Crash
<1>7. CASE Recover
  <2>1. disk' \in [Digests -> OnDisk]
    BY <1>7, ClearFacts DEF Recover
  <2>2. \A d \in Kept(Loadable, now) : d \in Digests /\ disk[d].at \in Times
    BY DEF Kept, Live, Loadable, Valid, OnDisk, Absent
  <2>3. entries' \in [Digests -> Times \cup {None}] /\ durable' \in SUBSET Digests
    BY <1>7, <2>2 DEF Recover
  <2> QED BY <1>7, <2>1, <2>3 DEF Recover, PublisherOK
<1>8. CASE RecoverFails
  <2>1. disk' \in [Digests -> OnDisk]
    BY <1>8, ClearFacts DEF RecoverFails
  <2> QED BY <1>8, <2>1 DEF RecoverFails, PublisherOK
<1>9. CASE Tick
  BY <1>9 DEF Tick, PublisherOK
<1>10. CASE UNCHANGED vars
  BY <1>10 DEF vars, PublisherOK
<1> QED
  BY <1>1, <1>2, <1>3, <1>4, <1>5, <1>6, <1>7, <1>8, <1>9, <1>10 DEF Next

\* The variables of the result cache keep their types, whatever the workers,
\* the clock and the crashes do (cache.go:41).
THEOREM TypeCorrect == Spec => []TypeOK
BY TypeInit, TypeStep, PTL DEF Spec

-----------------------------------------------------------------------------
(* Staging directories.                                                    *)

\* Every staging directory has an owner that goes on, and what a publication
\* leaves behind by a crash is gone after the recovery (cache.go:157, 232).
THEOREM StagingIsOwned == Spec => []StagingOwned
<1>1. Init => StagingOwned
  BY DEF Init, StagingOwned
<1>2. TypeOK /\ StagingOwned /\ [Next]_vars => StagingOwned'
  <2> SUFFICES ASSUME TypeOK, StagingOwned, [Next]_vars
               PROVE  StagingOwned'
    OBVIOUS
  <2> USE DEF StagingOwned, TypeOK, PublisherOK
  <2>1. ASSUME NEW p \in Publishers, Publish(p)
        PROVE  StagingOwned'
    <3>1. \A q \in Publishers : q # p => publisher'[q] = publisher[q]
      BY <2>1 DEF Publish, Stamp, Check, Load, Adopt, RemoveBegins, RemoveEnds,
                  CopyFails, Rename, Sync, SyncFails, Insert, Return,
                  Goes, Answers, Fails
    <3>2. up' = up
      BY <2>1 DEF Publish, Stamp, Check, Load, Adopt, RemoveBegins, RemoveEnds,
                  CopyFails, Rename, Sync, SyncFails, Insert, Return
    <3>3. staged' \subseteq staged \cup {p}
      BY <2>1 DEF Publish, Stamp, Check, Load, Adopt, RemoveBegins, RemoveEnds,
                  CopyFails, Rename, Sync, SyncFails, Insert, Return, Fails
    <3>4. ASSUME p \in staged', up
          PROVE  publisher'[p].at \in {"copying", "refused", "adopting"}
      <4>1. ASSUME NEW d \in Digests, Stamp(p, d)
            PROVE  FALSE
        BY <3>4, <4>1 DEF Stamp, At
      <4>2. ~Check(p) /\ ~Adopt(p) /\ ~RemoveBegins(p) /\ ~CopyFails(p) /\ ~Sync(p)
            /\ ~SyncFails(p) /\ ~Insert(p) /\ ~Return(p)
        BY <3>4 DEF Check, Adopt, RemoveBegins, CopyFails, Sync, SyncFails, Insert,
                    Return, At, Fails
      <4>3. CASE Load(p)
        <5>1. publisher[p] \in Running /\ (publisher[p].at = "loading" => p \notin staged)
          BY <3>4, <4>3, RunningFacts DEF Load, At
        <5>2. ASSUME publisher' = [publisher EXCEPT ![p] =
                       [@ EXCEPT !.at = "adopting",
                                 !.result = disk[publisher[p].digest].at]]
              PROVE  publisher'[p].at = "adopting"
          BY <4>3, <5>2, Resulted DEF Load, At
        <5> QED BY <3>4, <4>3, <5>1, <5>2 DEF Load, At, Fails
      <4>4. CASE RemoveEnds(p)
        <5>1. publisher[p] \in Running
          BY <4>4, RunningFacts DEF RemoveEnds, At
        <5> QED BY <3>4, <4>4, <5>1 DEF RemoveEnds, Fails, Goes, Running
      <4>5. CASE Rename(p)
        <5>1. publisher[p] \in Running
          BY <4>5, RunningFacts DEF Rename, At
        <5> QED BY <3>4, <4>5, <5>1 DEF Rename, Goes, Running
      <4> QED BY <2>1, <4>1, <4>2, <4>3, <4>4, <4>5 DEF Publish
    <3> QED BY <3>1, <3>2, <3>3, <3>4
  <2>2. ASSUME NEW d \in Digests, Open(d) \/ Damage(d)
        PROVE  StagingOwned'
    BY <2>2 DEF Open, Damage
  <2>3. CASE Lookup \/ Unlock \/ Tick \/ UNCHANGED vars
    BY <2>3 DEF Lookup, Unlock, Tick, vars
  <2>4. CASE Crash \/ Recover \/ RecoverFails
    BY <2>4 DEF Crash, Recover, RecoverFails
  <2> QED BY <2>1, <2>2, <2>3, <2>4 DEF Next
<1> QED BY <1>1, <1>2, TypeInit, TypeStep, PTL DEF Spec

-----------------------------------------------------------------------------
(* The map and the disk, when no identity is published twice at once.      *)

\* Complete, unless damaged from outside, with the bytes of time t.
There(d, t) == disk[d].is \in {"whole", "damaged"} /\ disk[d].at = t

Alone == Places \ {"idle", "stamped", "answered"}

\* What a publication relies on once it has found its identity unpublished.
Ground(p) ==
  LET d == publisher[p].digest
      t == publisher[p].stamp
  IN  /\ publisher[p].at # "refused"
      /\ publisher[p].at \in Alone => entries[d] = None
      /\ publisher[p].at = "removing" => ~Valid(d, t)
      /\ publisher[p].at = "removed" => disk[d].is \in {"torn", "absent"}
      /\ publisher[p].at = "copying" => disk[d] = Absent
      /\ publisher[p].at \in {"renamed", "synced"} => There(d, t)
      /\ publisher[p].at = "adopting" => There(d, publisher[p].result)

Grounded == \A p \in Publishers : Ground(p)

\* No publication is ahead of the clock.
Clock == \A p \in Publishers : publisher[p].at # "idle" => publisher[p].stamp <= now

\* A process that is down does nothing and remembers nothing.
Down ==
  ~up => /\ \A p \in Publishers : publisher[p] = Idle
         /\ \A d \in Digests : entries[d] = None

Inv == TypeOK /\ Solo /\ EntriesOnDisk /\ Grounded /\ Clock /\ Down

LEMMA InvInit == Init => Inv
BY TypeInit DEF Init, Inv, Solo, EntriesOnDisk, Grounded, Ground, Clock, Down,
                Idle, Alone, Places

\* What happens to the directory and the entry of x does not concern a
\* publication that has found x unpublished.
Calm(x) ==
  /\ entries[x] = None => entries'[x] = None
  /\ entries[x] = None =>
       \/ disk'[x] = disk[x]
       \/ disk[x].is = "whole" /\ disk'[x] = [disk[x] EXCEPT !.is = "damaged"]
       \/ disk[x].is = "torn" /\ disk'[x] = Absent

LEMMA GroundFrame ==
  ASSUME TypeOK, NEW q \in Publishers, Ground(q),
         publisher'[q] = publisher[q],
         publisher[q].at \in Alone => Calm(publisher[q].digest)
  PROVE  Ground(q)'
<1>1. CASE publisher[q].at \notin Alone
  BY <1>1 DEF Ground, Alone, Places
<1>2. CASE publisher[q].at \in Alone
  <2> DEFINE d == publisher[q].digest
  <2>1. entries[d] = None /\ entries'[d] = None
    BY <1>2 DEF Ground, Calm
  <2>2. d \in Digests /\ disk[d] \in OnDisk
    BY <1>2, RunningFacts DEF Alone, TypeOK
  <2>3. CASE disk'[d] = disk[d]
    BY <2>1, <2>3 DEF Ground, Valid, There
  <2>4. CASE disk[d].is = "whole" /\ disk'[d] = [disk[d] EXCEPT !.is = "damaged"]
    <3>1. disk[d] \in [is : {"whole", "damaged", "torn"}, at : Times]
      BY <2>2, <2>4 DEF OnDisk, Absent
    <3>2. disk'[d].is = "damaged" /\ disk'[d].at = disk[d].at
      BY <2>4, <3>1
    <3> QED BY <2>1, <2>4, <3>2 DEF Ground, Valid, There, Absent
  <2>5. CASE disk[d].is = "torn" /\ disk'[d] = Absent
    BY <2>1, <2>5 DEF Ground, Valid, There, Absent
  <2> QED BY <1>2, <2>1, <2>3, <2>4, <2>5 DEF Calm
<1> QED BY <1>1, <1>2

\* A critical section is calm about what it does not list, and its entries
\* stay on disk.
LEMMA ForgetCalm ==
  ASSUME TypeOK, NEW h \in Publishers \cup {None},
         NEW e \in [Digests -> Times \cup {None}],
         \A d \in Digests : e[d] # None => There(d, e[d]),
         NEW R \in SUBSET Digests, \A d \in R : e[d] # None,
         Forget(h, e, R)
  PROVE  /\ \A x \in Digests : e[x] = None => entries'[x] = None /\ disk'[x] = disk[x]
         /\ EntriesOnDisk'
<1>1. \A d \in Digests : entries'[d] = IF d \in R THEN None ELSE e[d]
  BY ForgetFacts
<1>2. disk' = Tear(R) /\ \A d \in Digests \ R : Tear(R)[d] = disk[d]
  BY ForgetFacts, TearFacts
<1> QED BY <1>1, <1>2 DEF EntriesOnDisk, There

\* What remains to be shown of a step of the publication p.
LEMMA PublishKeeps ==
  ASSUME Inv, TypeOK', Solo', NEW p \in Publishers, publisher[p].at # "idle",
         \A q \in Publishers : q # p => publisher'[q] = publisher[q],
         publisher'[p].at # "idle" => publisher'[p].stamp = publisher[p].stamp,
         \A x \in Digests : x # publisher[p].digest => Calm(x),
         Ground(p)', EntriesOnDisk', UNCHANGED <<now, up>>
  PROVE  Inv'
<1> USE DEF Inv
<1>1. up /\ up'
  BY DEF Down, Idle
<1>2. ASSUME NEW q \in Publishers, q # p
      PROVE  Ground(q)'
  <2>1. publisher[q].at \in Alone => Calm(publisher[q].digest)
    BY <1>2, RunningFacts DEF Solo, Alone
  <2> QED BY <1>2, <2>1, GroundFrame DEF Grounded
<1>3. Clock'
  BY DEF Clock
<1> QED BY <1>1, <1>2, <1>3 DEF Grounded, Down

\* The record of p after the end of its publication.
LEMMA Ended ==
  ASSUME TypeOK, NEW p \in Publishers, publisher' = [publisher EXCEPT ![p] = Idle]
  PROVE  /\ \A q \in Publishers : q # p => publisher'[q] = publisher[q]
         /\ publisher'[p].at = "idle"
         /\ Ground(p)'
BY DEF TypeOK, PublisherOK, Idle, Ground, Alone

\* A step that changes neither the map nor the disk.
LEMMA Untouched ==
  ASSUME EntriesOnDisk, UNCHANGED <<disk, entries>>
  PROVE  EntriesOnDisk' /\ \A x \in Digests : Calm(x)
BY DEF EntriesOnDisk, Calm

\* Every step of a publication, one by one.
LEMMA InvPublish ==
  ASSUME Inv, TypeOK', Solo', NEW p \in Publishers, Publish(p)
  PROVE  Inv'
<1> DEFINE d == publisher[p].digest
           t == publisher[p].stamp
<1>0. TypeOK /\ EntriesOnDisk /\ Grounded /\ Ground(p)
  BY DEF Inv, Grounded
<1>a. ASSUME publisher[p].at # "idle"
      PROVE  d \in Digests /\ t \in Times /\ publisher[p] \in Running
  BY <1>0, <1>a, RunningFacts
<1>1. ASSUME NEW x \in Digests, Stamp(p, x)
      PROVE  Inv'
  <2>1. /\ publisher' = [publisher EXCEPT ![p] =
             [at |-> "stamped", digest |-> x, stamp |-> now, result |-> None]]
        /\ UNCHANGED <<disk, entries, up>> /\ up /\ now' = now + 1
    BY <1>1 DEF Stamp
  <2>2. /\ publisher'[p] = [at |-> "stamped", digest |-> x, stamp |-> now, result |-> None]
        /\ \A q \in Publishers : q # p => publisher'[q] = publisher[q]
    BY <1>0, <2>1 DEF TypeOK, PublisherOK
  <2>3. Ground(p)'
    BY <2>2 DEF Ground, Alone
  <2>4. EntriesOnDisk' /\ \A y \in Digests : Calm(y)
    BY <1>0, <2>1, Untouched
  <2>5. ASSUME NEW q \in Publishers, q # p
        PROVE  Ground(q)'
    <3>1. publisher[q].at \in Alone => publisher[q].digest \in Digests
      BY <1>0, RunningFacts DEF Alone
    <3> QED BY <1>0, <2>2, <2>4, <2>5, <3>1, GroundFrame DEF Grounded
  <2>6. Clock'
    <3>1. now \in Times
      BY <1>0 DEF TypeOK
    <3>2. \A q \in Publishers : publisher[q].at # "idle" => publisher[q].stamp \in Times
      BY <1>0, RunningFacts
    <3> QED BY <2>1, <2>2, <3>1, <3>2 DEF Clock, Inv
  <2> QED BY <2>1, <2>3, <2>4, <2>5, <2>6 DEF Inv, Grounded, Down
<1>2. CASE Check(p)
  <2>1. publisher[p].at = "stamped"
    BY <1>2 DEF Check, At
  <2>2. /\ Stale(entries, t) \in SUBSET Digests
        /\ \A x \in Stale(entries, t) : entries[x] # None
    BY KeptFacts
  <2>3. Forget(p, entries, Stale(entries, t))
    BY <1>2 DEF Check
  <2>4. /\ \A x \in Digests : entries[x] = None => entries'[x] = None /\ disk'[x] = disk[x]
        /\ EntriesOnDisk'
    BY <1>0, <2>2, <2>3, ForgetCalm DEF TypeOK, EntriesOnDisk, There
  <2>5. \A x \in Digests : Calm(x)
    BY <2>4 DEF Calm
  <2>6. CASE entries'[d] # None
    <3>1. publisher' = [publisher EXCEPT ![p] = [@ EXCEPT !.at = "answered", !.result = entries'[d]]]
      BY <1>2, <2>6 DEF Check, Answers
    <3>2. /\ Ground(p)' /\ publisher'[p].stamp = t
          /\ \A q \in Publishers : q # p => publisher'[q] = publisher[q]
      <4>1. /\ publisher'[p].at = "answered" /\ publisher'[p].digest = d
            /\ publisher'[p].stamp = t /\ publisher'[p].result = entries'[d]
            /\ \A q \in Publishers : q # p => publisher'[q] = publisher[q]
        BY <1>0, <2>1, <3>1, Resulted
      <4> QED BY <2>1, <3>1, <4>1 DEF Ground, Alone
    <3> QED BY <1>2, <2>1, <2>4, <2>5, <3>2, PublishKeeps DEF Check
  <2>7. CASE entries'[d] = None
    <3>1. Goes(p, "loading")
      BY <1>2, <2>7 DEF Check
    <3>2. Ground(p)' /\ publisher'[p].stamp = t
          /\ \A q \in Publishers : q # p => publisher'[q] = publisher[q]
      BY <1>0, <2>1, <2>7, <3>1, Moved DEF Ground
    <3> QED BY <1>2, <2>1, <2>4, <2>5, <3>2, PublishKeeps DEF Check
  <2> QED BY <2>6, <2>7
<1>3. CASE Load(p)
  <2>1. publisher[p].at = "loading" /\ entries[d] = None
    BY <1>0, <1>3 DEF Load, At, Ground, Alone, Places
  <2>2. UNCHANGED <<disk, entries, now, up>>
    BY <1>3 DEF Load
  <2>3. EntriesOnDisk' /\ \A x \in Digests : Calm(x)
    BY <1>0, <2>2, Untouched
  <2>4. CASE Valid(d, t)
    <3>1. publisher' = [publisher EXCEPT ![p] = [@ EXCEPT !.at = "adopting", !.result = disk[d].at]]
      BY <1>3, <2>1, <2>4 DEF Load
    <3>2. /\ Ground(p)' /\ publisher'[p].stamp = t
          /\ \A q \in Publishers : q # p => publisher'[q] = publisher[q]
      <4>1. /\ publisher'[p].at = "adopting" /\ publisher'[p].digest = d
            /\ publisher'[p].stamp = t /\ publisher'[p].result = disk[d].at
            /\ \A q \in Publishers : q # p => publisher'[q] = publisher[q]
        BY <1>0, <2>1, <3>1, Resulted, ZenonT(30)
      <4>2. disk'[d].is = "whole" /\ disk'[d].at = disk[d].at
        BY <2>2, <2>4 DEF Valid
      <4> QED BY <2>1, <2>2, <4>1, <4>2 DEF Ground, There
    <3> QED BY <2>1, <2>2, <2>3, <3>2, PublishKeeps
  <2>5. CASE ~Valid(d, t)
    <3>1. Goes(p, "removing")
      BY <1>3, <2>1, <2>5 DEF Load, At
    <3>2. Ground(p)' /\ publisher'[p].stamp = t
          /\ \A q \in Publishers : q # p => publisher'[q] = publisher[q]
      BY <1>0, <2>1, <2>2, <2>5, <3>1, Moved DEF Ground, Valid
    <3> QED BY <2>1, <2>2, <2>3, <3>2, PublishKeeps
  <2> QED BY <2>4, <2>5
<1>4. CASE Adopt(p)
  <2>1. /\ publisher[p].at = "adopting" /\ d \in Digests
        /\ There(d, publisher[p].result)
    BY <1>0, <1>a, <1>4 DEF Adopt, At, Ground
  <2>2. /\ entries' = [entries EXCEPT ![d] = publisher[p].result]
        /\ UNCHANGED <<disk, now, up>>
    BY <1>4 DEF Adopt
  <2>3. EntriesOnDisk' /\ \A x \in Digests : x # d => Calm(x)
    BY <1>0, <2>1, <2>2 DEF EntriesOnDisk, Calm, There, TypeOK
  <2>4. /\ Ground(p)' /\ publisher'[p].stamp = t
        /\ \A q \in Publishers : q # p => publisher'[q] = publisher[q]
    <3>1. /\ publisher'[p].at = "answered" /\ publisher'[p].digest = d
          /\ publisher'[p].stamp = t /\ publisher'[p].result = publisher[p].result
          /\ \A q \in Publishers : q # p => publisher'[q] = publisher[q]
      <4>1. publisher' = [publisher EXCEPT ![p] =
                            [@ EXCEPT !.at = "answered", !.result = publisher[p].result]]
        BY <1>4 DEF Adopt, Answers
      <4> QED BY <1>0, <2>1, <4>1, Resulted, ZenonT(30)
    <3> QED BY <1>4, <2>1, <3>1 DEF Adopt, Answers, Ground, Alone
  <2> QED BY <2>1, <2>2, <2>3, <2>4, PublishKeeps
<1>5. CASE RemoveBegins(p)
  <2>1. publisher[p].at = "removing" /\ entries[d] = None /\ d \in Digests
    BY <1>0, <1>a, <1>5 DEF RemoveBegins, At, Ground, Alone, Places
  <2>2. disk' = Tear({d}) /\ Goes(p, "removed") /\ UNCHANGED <<entries, now, up>>
    BY <1>5 DEF RemoveBegins
  <2>3. /\ \A x \in Digests : x # d => disk'[x] = disk[x]
        /\ disk'[d].is \in {"torn", "absent"}
    BY <1>0, <2>1, <2>2, TearFacts
  <2>4. EntriesOnDisk' /\ \A x \in Digests : x # d => Calm(x)
    BY <1>0, <2>1, <2>2, <2>3 DEF EntriesOnDisk, Calm
  <2>5. /\ Ground(p)' /\ publisher'[p].stamp = t
        /\ \A q \in Publishers : q # p => publisher'[q] = publisher[q]
    <3>1. /\ publisher'[p].at = "removed" /\ publisher'[p].digest = d
          /\ publisher'[p].stamp = t
          /\ \A q \in Publishers : q # p => publisher'[q] = publisher[q]
      BY <1>0, <2>1, <2>2, <2>3, Moved
    <3> QED BY <2>1, <2>2, <2>3, <3>1 DEF Ground
  <2> QED BY <2>1, <2>2, <2>4, <2>5, PublishKeeps
<1>6. CASE RemoveEnds(p)
  <2>1. publisher[p].at = "removed" /\ entries[d] = None /\ d \in Digests
    BY <1>0, <1>a, <1>6 DEF RemoveEnds, At, Ground, Alone, Places
  <2>2. CASE disk' = Clear({d}) /\ Goes(p, "copying")
    <3>1. (\A x \in Digests : x # d => disk'[x] = disk[x]) /\ disk'[d] = Absent
      BY <1>0, <2>1, <2>2, ClearFacts
    <3>2. EntriesOnDisk' /\ \A x \in Digests : x # d => Calm(x)
      BY <1>0, <1>6, <2>1, <3>1 DEF RemoveEnds, EntriesOnDisk, Calm
    <3>3. /\ Ground(p)' /\ publisher'[p].stamp = t
          /\ \A q \in Publishers : q # p => publisher'[q] = publisher[q]
      <4>1. /\ publisher'[p].at = "copying" /\ publisher'[p].digest = d
            /\ publisher'[p].stamp = t
            /\ \A q \in Publishers : q # p => publisher'[q] = publisher[q]
        BY <1>0, <1>6, <2>1, <2>2, <3>1, Moved DEF RemoveEnds
      <4> QED BY <1>6, <2>1, <2>2, <3>1, <4>1 DEF RemoveEnds, Ground
    <3> QED BY <1>6, <2>1, <3>2, <3>3, PublishKeeps DEF RemoveEnds
  <2>3. CASE Fails(p) /\ UNCHANGED disk
    <3>1. EntriesOnDisk' /\ \A x \in Digests : Calm(x)
      BY <1>0, <1>6, <2>3, Untouched DEF RemoveEnds
    <3> QED BY <1>0, <1>6, <2>1, <2>3, <3>1, Ended, PublishKeeps DEF RemoveEnds, Fails
  <2> QED BY <1>6, <2>2, <2>3 DEF RemoveEnds
<1>7. CASE CopyFails(p) \/ SyncFails(p) \/ Return(p)
  <2>1. /\ publisher[p].at # "idle" /\ UNCHANGED <<disk, entries, now, up>>
        /\ publisher' = [publisher EXCEPT ![p] = Idle]
    BY <1>7 DEF CopyFails, SyncFails, Return, At, Fails
  <2>2. EntriesOnDisk' /\ \A x \in Digests : Calm(x)
    BY <1>0, <2>1, Untouched
  <2> QED BY <1>0, <2>1, <2>2, Ended, PublishKeeps
<1>8. CASE Rename(p)
  <2>1. /\ publisher[p].at = "copying" /\ entries[d] = None /\ d \in Digests
        /\ disk[d] = Absent
    BY <1>0, <1>a, <1>8 DEF Rename, At, Ground, Alone, Places
  <2>2. /\ disk' = [disk EXCEPT ![d] = Whole(t)] /\ Goes(p, "renamed")
        /\ UNCHANGED <<entries, now, up>>
    BY <1>8, <2>1 DEF Rename
  <2>3. disk'[d] = Whole(t) /\ \A x \in Digests : x # d => disk'[x] = disk[x]
    BY <1>0, <2>1, <2>2 DEF TypeOK
  <2>4. EntriesOnDisk' /\ \A x \in Digests : x # d => Calm(x)
    BY <1>0, <2>1, <2>2, <2>3 DEF EntriesOnDisk, Calm
  <2>5. Ground(p)' /\ publisher'[p].stamp = t
        /\ \A q \in Publishers : q # p => publisher'[q] = publisher[q]
    BY <1>0, <2>1, <2>2, <2>3, Moved DEF Ground, There, Whole
  <2> QED BY <2>1, <2>2, <2>4, <2>5, PublishKeeps
<1>9. CASE Sync(p)
  <2>1. /\ publisher[p].at = "renamed" /\ Goes(p, "synced")
        /\ UNCHANGED <<disk, entries, now, up>>
    BY <1>9 DEF Sync, At
  <2>2. EntriesOnDisk' /\ \A x \in Digests : Calm(x)
    BY <1>0, <2>1, Untouched
  <2>3. Ground(p)' /\ publisher'[p].stamp = t
        /\ \A q \in Publishers : q # p => publisher'[q] = publisher[q]
    BY <1>0, <2>1, Moved DEF Ground, There, Alone, Places
  <2> QED BY <2>1, <2>2, <2>3, PublishKeeps
<1>10. CASE Insert(p)
  <2>1. /\ publisher[p].at = "synced" /\ d \in Digests /\ t \in Times
        /\ There(d, t)
    BY <1>0, <1>a, <1>10 DEF Insert, At, Ground
  <2>2. /\ Listed(p) \in [Digests -> Times \cup {None}] /\ Listed(p)[d] = t
        /\ \A x \in Digests : x # d => Listed(p)[x] = entries[x]
    BY <1>0, <2>1 DEF Listed, TypeOK
  <2>3. /\ Stale(Listed(p), t) \in SUBSET Digests
        /\ \A x \in Stale(Listed(p), t) : Listed(p)[x] # None
    BY KeptFacts
  <2>4. Forget(p, Listed(p), Stale(Listed(p), t)) /\ UNCHANGED <<now, up>>
    BY <1>10 DEF Insert
  <2>5. \A x \in Digests : Listed(p)[x] # None => There(x, Listed(p)[x])
    BY <1>0, <2>1, <2>2 DEF EntriesOnDisk, There
  <2>6. /\ \A x \in Digests : Listed(p)[x] = None =>
             entries'[x] = None /\ disk'[x] = disk[x]
        /\ EntriesOnDisk'
    BY <1>0, <2>2, <2>3, <2>4, <2>5, ForgetCalm
  <2>7. \A x \in Digests : x # d => Calm(x)
    BY <2>2, <2>6 DEF Calm
  <2>8. /\ Ground(p)' /\ publisher'[p].stamp = t
        /\ \A q \in Publishers : q # p => publisher'[q] = publisher[q]
    <3>1. /\ publisher'[p].at = "answered" /\ publisher'[p].digest = d
          /\ publisher'[p].stamp = t /\ publisher'[p].result = t
          /\ \A q \in Publishers : q # p => publisher'[q] = publisher[q]
      BY <1>0, <1>10, <2>1, Resulted DEF Insert, Answers
    <3> QED BY <1>10, <2>1, <3>1 DEF Insert, Answers, Ground, Alone
  <2> QED BY <2>1, <2>4, <2>6, <2>7, <2>8, PublishKeeps
<1> QED
  BY <1>1, <1>2, <1>3, <1>4, <1>5, <1>6, <1>7, <1>8, <1>9, <1>10 DEF Publish

\* A step that no publication takes, and that is calm about every identity.
LEMMA OthersKeep ==
  ASSUME Inv, TypeOK', Solo', UNCHANGED publisher, now' >= now, up' = up,
         \A x \in Digests : Calm(x), EntriesOnDisk'
  PROVE  Inv'
<1>1. ASSUME NEW q \in Publishers
      PROVE  Ground(q)'
  <2>1. publisher[q].at \in Alone => publisher[q].digest \in Digests
    BY RunningFacts DEF Inv, Alone
  <2> QED BY <2>1, GroundFrame DEF Inv, Grounded
<1>2. Clock'
  <2>1. \A q \in Publishers : publisher[q].at # "idle" => publisher[q].stamp \in Times
    BY RunningFacts DEF Inv
  <2> QED BY <2>1 DEF Inv, Clock, TypeOK
<1>3. Down'
  BY DEF Inv, Down, Calm
<1> QED BY <1>1, <1>2, <1>3 DEF Inv, Grounded

LEMMA InvStep == Inv /\ [Next /\ Solo']_vars => Inv'
<1> SUFFICES ASSUME Inv, [Next /\ Solo']_vars
             PROVE  Inv'
  OBVIOUS
<1>0. TypeOK /\ EntriesOnDisk /\ now \in Times
  BY DEF Inv, TypeOK
<1>0a. TypeOK'
  BY <1>0, TypeStep
<1>0b. Solo'
  BY DEF Inv, Solo, vars
<1>1. ASSUME NEW p \in Publishers, Publish(p)
      PROVE  Inv'
  BY <1>0a, <1>0b, <1>1, InvPublish
<1>2. ASSUME NEW R \in SUBSET Digests, \A x \in R : entries[x] # None,
             Forget(None, entries, R), UNCHANGED <<publisher, now, up>>
      PROVE  Inv'
  <2>1. /\ \A x \in Digests : entries[x] = None => entries'[x] = None /\ disk'[x] = disk[x]
        /\ EntriesOnDisk'
    BY <1>0, <1>2, ForgetCalm DEF TypeOK, EntriesOnDisk, There
  <2> QED BY <1>0, <1>0a, <1>0b, <1>2, <2>1, OthersKeep DEF Calm
<1>3. ASSUME NEW d \in Digests, Open(d)
      PROVE  Inv'
  <2>1. /\ Stale(entries, now) \cup {d} \in SUBSET Digests
        /\ \A x \in Stale(entries, now) \cup {d} : entries[x] # None
    BY <1>3, KeptFacts DEF Open
  <2> QED BY <1>2, <1>3, <2>1 DEF Open
<1>4. CASE Lookup
  <2>1. /\ Stale(entries, now) \in SUBSET Digests
        /\ \A x \in Stale(entries, now) : entries[x] # None
    BY KeptFacts
  <2> QED BY <1>2, <1>4, <2>1 DEF Lookup
<1>5. ASSUME NEW d \in Digests, Damage(d)
      PROVE  Inv'
  <2>1. /\ disk'[d] = [disk[d] EXCEPT !.is = "damaged"] /\ disk[d].is = "whole"
        /\ \A x \in Digests : x # d => disk'[x] = disk[x]
        /\ UNCHANGED <<entries, publisher, now, up>>
    BY <1>0, <1>5 DEF Damage, TypeOK
  <2>2. disk'[d].is = "damaged" /\ disk'[d].at = disk[d].at
    BY <1>0, <2>1 DEF TypeOK, OnDisk, Absent
  <2>3. EntriesOnDisk' /\ \A x \in Digests : Calm(x)
    BY <1>0, <2>1, <2>2 DEF EntriesOnDisk, Calm
  <2> QED BY <1>0, <1>0a, <1>0b, <2>1, <2>3, OthersKeep
<1>6. CASE Unlock
  <2> DEFINE R == {x \in locked : disk[x].is = "torn"}
  <2>1. /\ \A x \in Digests \ R : disk'[x] = disk[x]
        /\ \A x \in Digests \cap R : disk'[x] = Absent
        /\ UNCHANGED <<entries, publisher, now, up>>
    BY <1>0, <1>6, ClearFacts DEF Unlock
  <2>2. EntriesOnDisk' /\ \A x \in Digests : Calm(x)
    BY <1>0, <2>1 DEF EntriesOnDisk, Calm
  <2> QED BY <1>0, <1>0a, <1>0b, <2>1, <2>2, OthersKeep
<1>7. CASE Tick \/ UNCHANGED vars
  <2>1. UNCHANGED <<disk, entries, publisher, up>> /\ now' >= now
    BY <1>0, <1>7 DEF Tick, vars
  <2> QED BY <1>0, <1>0a, <1>0b, <2>1, Untouched, OthersKeep
<1>8. CASE Crash
  BY <1>0a, <1>0b, <1>8
  DEF Crash, Inv, EntriesOnDisk, Grounded, Ground, Clock, Down, Idle, Alone
<1>9. CASE Recover
  <2>1. \A q \in Publishers : publisher'[q] = Idle
    BY <1>9 DEF Recover, Inv, Down
  <2>2. Grounded' /\ Clock' /\ Down'
    BY <1>9, <2>1 DEF Recover, Grounded, Ground, Clock, Down, Idle, Alone
  <2>3. EntriesOnDisk'
    <3>1. \A x \in Kept(Loadable, now) : x \in Digests /\ disk[x].is = "whole"
      BY DEF Kept, Live, Loadable, Valid
    <3>2. \A x \in Kept(Loadable, now) : disk'[x] = disk[x] /\ entries'[x] = disk[x].at
      BY <1>0, <1>9, <3>1, ClearFacts DEF Recover
    <3>3. \A x \in Digests : entries'[x] # None => x \in Kept(Loadable, now)
      BY <1>9 DEF Recover
    <3> QED BY <3>1, <3>2, <3>3 DEF EntriesOnDisk
  <2> QED BY <1>0a, <1>0b, <2>2, <2>3 DEF Inv
<1>10. CASE RecoverFails
  <2>1. /\ \A q \in Publishers : publisher'[q] = Idle
        /\ \A x \in Digests : entries'[x] = None
        /\ ~up'
    BY <1>10 DEF RecoverFails, Inv, Down
  <2> QED BY <1>0a, <1>0b, <2>1 DEF Inv, EntriesOnDisk, Grounded, Ground, Clock, Down,
                                   Idle, Alone
<1> QED
  BY <1>1, <1>3, <1>4, <1>5, <1>6, <1>7, <1>8, <1>9, <1>10 DEF Next

LEMMA SoloInvariant == SoloSpec => []Inv
BY InvInit, InvStep, PTL DEF SoloSpec

\* For any number of workers that never publish the same identity at once,
\* an entry of the map has its directory on disk (cache.go:218, 307).
THEOREM MapMatchesDisk == SoloSpec => []EntriesOnDisk
<1>1. Inv => EntriesOnDisk
  BY DEF Inv
<1> QED BY <1>1, SoloInvariant, PTL

-----------------------------------------------------------------------------
(* Results go by age.                                                      *)

\* An entry that does not stay has expired, or the limit is reached by newer
\* ones that are on disk.
LEMMA Aged ==
  ASSUME TypeOK, NEW e \in [Digests -> Times \cup {None}],
         \A x \in Digests : e[x] # None => disk[x].is # "absent" /\ disk[x].at = e[x],
         NEW t \in Times, t <= now, NEW d \in Stale(e, t)
  PROVE  \/ disk[d].at + TTL <= now
         \/ Cardinality({x \in Digests : disk[x].is # "absent"
                                         /\ disk[x].at > disk[d].at}) >= Limit
<1> DEFINE N == {x \in Live(e, t) : e[x] > e[d]}
           M == {x \in Digests : disk[x].is # "absent" /\ disk[x].at > disk[d].at}
<1>1. d \in Digests /\ e[d] \in Times /\ disk[d].at = e[d] /\ d \notin Kept(e, t)
  BY DEF Stale
<1>2. CASE e[d] + TTL <= t
  BY <1>1, <1>2 DEF TypeOK
<1>3. CASE ~(e[d] + TTL <= t)
  <2>1. d \in Live(e, t)
    BY <1>1, <1>3 DEF Live
  <2>2. ~(Cardinality(N) < Limit)
    BY <1>1, <2>1 DEF Kept
  <2>3. N \subseteq M /\ M \subseteq Digests
    BY <1>1 DEF Live
  <2>4. /\ IsFiniteSet(M) /\ IsFiniteSet(N)
        /\ Cardinality(N) \in Nat /\ Cardinality(M) \in Nat
        /\ Cardinality(N) <= Cardinality(M)
    BY <2>3, FS_Subset, FS_CardinalityType
  <2> QED BY <2>2, <2>4
<1> QED BY <1>1, <1>2, <1>3

\* The body of LostOnlyByAge.
MayGo(d) ==
  disk[d].is = "whole" /\ disk'[d].is \in {"absent", "torn"} =>
    \/ disk[d].at + TTL <= now
    \/ Cardinality({x \in Digests : disk[x].is # "absent"
                                    /\ disk[x].at > disk[d].at}) >= Limit
    \/ up /\ ~up' /\ d \notin durable

\* Under the same condition, a result disappears by age, by the limit or by a
\* power loss before its sync, never by another publication
\* (cache.go:148, 294, 304).
THEOREM ResultsStay == SoloSpec => LostOnlyByAge
<1>1. Inv /\ [Next /\ Solo']_vars => [\A d \in Digests : MayGo(d)]_vars
  <2> SUFFICES ASSUME Inv, Next, NEW d \in Digests,
                      disk[d].is = "whole", disk'[d].is \in {"absent", "torn"}
               PROVE  MayGo(d)
    BY DEF MayGo
  <2>0. TypeOK /\ EntriesOnDisk /\ Grounded /\ now \in Times
    BY DEF Inv, TypeOK
  <2>1. ASSUME NEW h \in Publishers \cup {None},
               NEW e \in [Digests -> Times \cup {None}],
               \A x \in Digests : e[x] # None => disk[x].is # "absent" /\ disk[x].at = e[x],
               NEW t \in Times, t <= now, NEW R \in SUBSET Digests,
               Forget(h, e, R), d \in R => d \in Stale(e, t)
        PROVE  MayGo(d)
    <3>1. disk' = Tear(R)
      BY <2>1 DEF Forget
    <3>2. d \in R
      BY <2>0, <3>1, TearFacts
    <3> QED BY <2>0, <2>1, <3>2, Aged DEF MayGo
  <2>2. ASSUME NEW p \in Publishers, Publish(p)
        PROVE  MayGo(d)
    <3> DEFINE x == publisher[p].digest
               t == publisher[p].stamp
    <3>0. Ground(p) /\ (publisher[p].at # "idle" =>
                          x \in Digests /\ t \in Times /\ t <= now)
      BY <2>0, RunningFacts DEF Grounded, Inv, Clock
    <3>1. CASE Check(p)
      <4>1. Forget(p, entries, Stale(entries, t)) /\ t \in Times /\ t <= now
        BY <3>0, <3>1 DEF Check, At
      <4> QED BY <2>0, <2>1, <4>1, KeptFacts DEF TypeOK, EntriesOnDisk
    <3>2. CASE Insert(p)
      <4>1. /\ Forget(p, Listed(p), Stale(Listed(p), t)) /\ There(x, t)
            /\ t \in Times /\ t <= now /\ x \in Digests
        BY <3>0, <3>2 DEF Insert, At, Ground
      <4>2. /\ Listed(p) \in [Digests -> Times \cup {None}] /\ Listed(p)[x] = t
            /\ \A y \in Digests : y # x => Listed(p)[y] = entries[y]
        BY <2>0, <4>1 DEF Listed, TypeOK
      <4>3. \A y \in Digests : Listed(p)[y] # None =>
              disk[y].is # "absent" /\ disk[y].at = Listed(p)[y]
        BY <2>0, <4>1, <4>2 DEF EntriesOnDisk, There
      <4> QED BY <2>0, <2>1, <4>1, <4>2, <4>3, KeptFacts
    <3>3. CASE RemoveBegins(p)
      <4>1. /\ publisher[p].at = "removing" /\ ~Valid(x, t)
            /\ t \in Times /\ t <= now /\ x \in Digests
        BY <3>0, <3>3 DEF RemoveBegins, At, Ground
      <4>2. d = x
        BY <2>0, <3>3, TearFacts DEF RemoveBegins
      <4>3. disk[d].at \in Times
        BY <2>0 DEF TypeOK, OnDisk, Absent
      <4> QED BY <2>0, <4>1, <4>2, <4>3 DEF Valid, MayGo
    <3>4. CASE RemoveEnds(p)
      <4>1. disk[x].is \in {"torn", "absent"} /\ x \in Digests
        BY <3>0, <3>4 DEF RemoveEnds, At, Ground
      <4> QED BY <2>0, <3>4, <4>1, ClearFacts DEF RemoveEnds
    <3>5. CASE Rename(p)
      <4>1. disk[x] = Absent \/ disk' = disk
        BY <3>5 DEF Rename
      <4> QED BY <2>0, <3>5, <4>1 DEF Rename, Absent, TypeOK
    <3>6. CASE disk' = disk
      BY <3>6
    <3> QED
      BY <2>2, <3>1, <3>2, <3>3, <3>4, <3>5, <3>6
      DEF Publish, Stamp, Load, Adopt, CopyFails, Sync, SyncFails, Return
  <2>3. ASSUME NEW y \in Digests, Open(y)
        PROVE  MayGo(d)
    <3>1. /\ Forget(None, entries, Stale(entries, now) \cup {y})
          /\ disk[y] # Whole(entries[y]) /\ entries[y] # None
      BY <2>3, KeptFacts DEF Open
    <3>2. d # y
      BY <2>0, <3>1 DEF EntriesOnDisk, Whole, TypeOK, OnDisk, Absent
    <3> QED BY <2>0, <2>1, <3>1, <3>2, KeptFacts DEF TypeOK, EntriesOnDisk
  <2>4. CASE Lookup
    <3>1. Forget(None, entries, Stale(entries, now))
      BY <2>4 DEF Lookup
    <3> QED BY <2>0, <2>1, <3>1, KeptFacts DEF TypeOK, EntriesOnDisk
  <2>5. CASE Unlock
    BY <2>0, <2>5, ClearFacts DEF Unlock
  <2>6. ASSUME NEW y \in Digests, Damage(y)
        PROVE  FALSE
    <3>1. disk'[d] = disk[d] \/ disk'[d] = [disk[d] EXCEPT !.is = "damaged"]
      BY <2>0, <2>6 DEF Damage, TypeOK
    <3> QED BY <2>0, <3>1 DEF TypeOK, OnDisk, Absent
  <2>7. CASE Crash
    <3>1. PICK R \in SUBSET (Digests \ durable) : disk' = Clear(R)
      BY <2>7 DEF Crash
    <3>2. d \in R
      BY <2>0, <3>1, ClearFacts
    <3> QED BY <2>7, <3>2 DEF Crash, MayGo
  <2>8. CASE Recover
    <3>1. d \notin Kept(Loadable, now)
      BY <2>0, <2>8, ClearFacts DEF Recover
    <3>2. disk[d].at \in Times
      BY <2>0 DEF TypeOK, OnDisk, Absent
    <3>3. CASE ~Valid(d, now)
      BY <2>0, <3>2, <3>3 DEF Valid, MayGo
    <3>4. CASE Valid(d, now)
      <4>1. /\ Loadable \in [Digests -> Times \cup {None}]
            /\ \A x \in Digests : Loadable[x] # None =>
                  disk[x].is # "absent" /\ disk[x].at = Loadable[x]
        BY <2>0 DEF Loadable, Valid, TypeOK, OnDisk, Absent
      <4>2. d \in Stale(Loadable, now)
        BY <3>1, <3>2, <3>4 DEF Stale, Loadable
      <4> QED BY <2>0, <4>1, <4>2, Aged DEF MayGo
    <3> QED BY <3>3, <3>4
  <2>9. CASE RecoverFails
    <3>1. PICK R \in SUBSET {x \in Digests : ~Valid(x, now)} : disk' = Clear(R)
      BY <2>9 DEF RecoverFails
    <3>2. ~Valid(d, now)
      BY <2>0, <3>1, ClearFacts
    <3>3. disk[d].at \in Times
      BY <2>0 DEF TypeOK, OnDisk, Absent
    <3> QED BY <2>0, <3>2, <3>3 DEF Valid, MayGo
  <2>10. CASE Tick
    BY <2>10 DEF Tick
  <2> QED
    BY <2>2, <2>3, <2>4, <2>5, <2>6, <2>7, <2>8, <2>9, <2>10 DEF Next
<1>2. (\A d \in Digests : MayGo(d)) <=>
        \A d \in Digests :
          disk[d].is = "whole" /\ disk'[d].is \in {"absent", "torn"} =>
            \/ disk[d].at + TTL <= now
            \/ Cardinality({x \in Digests : disk[x].is # "absent"
                                            /\ disk[x].at > disk[d].at}) >= Limit
            \/ up /\ ~up' /\ d \notin durable
  BY DEF MayGo
<1> QED BY <1>1, <1>2, SoloInvariant, PTL DEF SoloSpec, LostOnlyByAge
-----------------------------------------------------------------------------
(* The newest of a set.                                                    *)

\* The elements of S that fewer than n of S exceed, by e.
Newest(S, e, n) == {d \in S : Cardinality({x \in S : e[x] > e[d]}) < n}

\* What exceeds an element exceeds every smaller one, which it adds.
LEMMA Above ==
  ASSUME NEW S, IsFiniteSet(S), NEW e, \A d \in S : e[d] \in Nat,
         NEW c \in S, NEW d \in S, e[c] < e[d]
  PROVE  Cardinality({x \in S : e[x] > e[d]}) < Cardinality({x \in S : e[x] > e[c]})
<1> DEFINE C == {x \in S : e[x] > e[c]}
           D == {x \in S : e[x] > e[d]}
<1>1. D \subseteq C \ {d} /\ d \in C /\ C \subseteq S
  OBVIOUS
<1>2. IsFiniteSet(C) /\ Cardinality(C) \in Nat
  BY <1>1, FS_Subset, FS_CardinalityType
<1>3. IsFiniteSet(C \ {d}) /\ Cardinality(C \ {d}) = Cardinality(C) - 1
  BY <1>1, <1>2, FS_RemoveElement
<1>4. Cardinality(D) <= Cardinality(C \ {d}) /\ Cardinality(D) \in Nat
  BY <1>1, <1>3, FS_Subset, FS_CardinalityType
<1> QED BY <1>2, <1>3, <1>4

\* At most n are among the newest n, when no two are of one time.
LEMMA NewestAreFew ==
  ASSUME NEW S, IsFiniteSet(S), NEW e, \A d \in S : e[d] \in Nat,
         \A c, d \in S : e[c] = e[d] => c = d, NEW n \in Nat
  PROVE  Cardinality(Newest(S, e, n)) <= n
<1> DEFINE N == Newest(S, e, n)
           f == [d \in N |-> Cardinality({x \in S : e[x] > e[d]})]
<1>1. N \subseteq S /\ IsFiniteSet(N) /\ Cardinality(N) \in Nat
  BY FS_Subset, FS_CardinalityType DEF Newest
<1>2. IsFiniteSet(0 .. n - 1) /\ Cardinality(0 .. n - 1) = n
  <2>1. 0 \in Int /\ n - 1 \in Int
    OBVIOUS
  <2> QED BY <2>1, FS_Interval
<1>3. f \in [N -> 0 .. n - 1]
  <2>1. ASSUME NEW d \in N PROVE f[d] \in 0 .. n - 1
    <3>1. {x \in S : e[x] > e[d]} \subseteq S
      OBVIOUS
    <3>2. Cardinality({x \in S : e[x] > e[d]}) \in Nat
      BY <3>1, FS_Subset, FS_CardinalityType
    <3> QED BY <3>2 DEF Newest
  <2> QED BY <2>1
<1>4. ASSUME NEW c \in N, NEW d \in N, c # d PROVE f[c] # f[d]
  <2>1. c \in S /\ d \in S /\ (e[c] < e[d] \/ e[d] < e[c])
    BY <1>1, <1>4
  <2>2. f[c] \in Int /\ f[d] \in Int
    <3>1. f[c] \in 0 .. n - 1 /\ f[d] \in 0 .. n - 1
      BY <1>3
    <3> HIDE DEF f
    <3> QED BY <3>1
  <2>3. f[c] < f[d] \/ f[d] < f[c]
    <3>1. ASSUME e[c] < e[d] PROVE f[d] < f[c]
      BY <2>1, <3>1, Above
    <3>2. ASSUME e[d] < e[c] PROVE f[c] < f[d]
      BY <2>1, <3>2, Above
    <3> QED BY <2>1, <3>1, <3>2
  <2> QED BY <2>2, <2>3
<1> HIDE DEF f, N
<1>5. ~(Cardinality(0 .. n - 1) < Cardinality(N))
  BY <1>1, <1>2, <1>3, <1>4, FS_PigeonHole
<1> QED BY <1>1, <1>2, <1>5 DEF N

\* When n are newer than t, so are n of the newest n.
LEMMA NewestAreMany ==
  ASSUME NEW S, IsFiniteSet(S), NEW e, \A d \in S : e[d] \in Nat,
         NEW t \in Nat, NEW n \in Nat, Cardinality({x \in S : e[x] > t}) >= n
  PROVE  Cardinality({x \in Newest(S, e, n) : e[x] > t}) >= n
<1> DEFINE U == {x \in S : e[x] > t}
           K == {x \in Newest(S, e, n) : e[x] > t}
           Up(d) == {x \in S : e[x] > e[d]}
           T == {Up(d) : d \in U \ K}
<1>1. /\ IsFiniteSet(U) /\ K \subseteq U /\ IsFiniteSet(K) /\ U \subseteq S
      /\ Cardinality(U) \in Nat /\ Cardinality(K) \in Nat
  <2>1. U \subseteq S /\ K \subseteq U
    BY DEF Newest
  <2> QED BY <2>1, FS_Subset, FS_CardinalityType
<1>2. SUFFICES ASSUME Cardinality(K) < n PROVE FALSE
  BY <1>1
<1>3. T # {}
  <2>1. Cardinality(U) >= n
    OBVIOUS
  <2> HIDE DEF U, K
  <2>2. PICK d \in U : d \notin K
    BY <1>1, <1>2, <2>1
  <2>3. Up(d) \in T
    BY <2>2
  <2> QED BY <2>3
<1>4. T \subseteq FiniteSubsetsOf(S)
  <2>1. \A d \in U : Up(d) \subseteq S /\ IsFiniteSet(Up(d))
    BY FS_Subset
  <2> QED BY <1>1, <2>1 DEF FiniteSubsetsOf
<1>5. PICK A \in T : \A B \in T : ~(<<B, A>> \in StrictSubsetOrdering(S))
  <2> HIDE DEF T
  <2> QED BY <1>3, <1>4, FS_StrictSubsetOrderingWellFounded, WFMin
<1>6. PICK d \in U \ K : A = Up(d)
  OBVIOUS
<1>7. Up(d) \subseteq K
  <2> SUFFICES ASSUME NEW x \in Up(d), x \notin K PROVE FALSE
    OBVIOUS
  <2>1. x \in U \ K /\ Up(x) \subseteq Up(d) /\ x \notin Up(x) /\ Up(d) \subseteq S
    OBVIOUS
  <2>2. Up(x) \in T /\ <<Up(x), Up(d)>> \in StrictSubsetOrdering(S)
    BY <2>1 DEF StrictSubsetOrdering
  <2> QED BY <1>5, <1>6, <2>2
<1>8. Cardinality(Up(d)) <= Cardinality(K) /\ Cardinality(Up(d)) \in Nat
  BY <1>1, <1>7, FS_Subset, FS_CardinalityType
<1>9. d \in Newest(S, e, n)
  BY <1>1, <1>2, <1>8 DEF Newest
<1> QED BY <1>9
-----------------------------------------------------------------------------
(* Creation times.                                                         *)

\* The bytes of time t are, or are about to be, those of the identity d.
Bears(d, t) ==
  \/ disk[d].at = t \/ entries[d] = t
  \/ \E p \in Publishers : /\ publisher[p].at # "idle" /\ publisher[p].digest = d
                           /\ t \in {publisher[p].stamp, publisher[p].result}

\* A time is of one identity only, and past.
Dated ==
  \A t \in Times : \A d \in Digests : Bears(d, t) =>
    t < now /\ \A x \in Digests : Bears(x, t) => x = d

LEMMA DatedInit == Init => Dated
BY DEF Init, Dated, Bears, Idle, Absent

\* Nothing but a stamp brings a time into use.
LEMMA DatedFrame ==
  ASSUME TypeOK, Dated, now' \in Times, now' >= now,
         \A t \in Times, d \in Digests : Bears(d, t)' => Bears(d, t)
  PROVE  Dated'
BY DEF Dated, TypeOK

\* What the directories, the entries and the publications of others bear stays.
LEMMA BearsStep ==
  ASSUME TypeOK, NEW d \in Digests, NEW t \in Times, Bears(d, t)',
         disk'[d].at = t => Bears(d, t), entries'[d] = t => Bears(d, t),
         NEW p \in Publishers, \A q \in Publishers : q # p => publisher'[q] = publisher[q],
         publisher'[p].at # "idle" /\ publisher'[p].digest = d
           /\ t \in {publisher'[p].stamp, publisher'[p].result} => Bears(d, t)
  PROVE  Bears(d, t)
BY DEF Bears

\* Tearing and clearing bring no time into use, nor does a critical section.
LEMMA TimesOfDisk ==
  ASSUME TypeOK, NEW R, NEW d \in Digests
  PROVE  /\ Tear(R)[d].at = disk[d].at
         /\ Clear(R)[d].at \in {disk[d].at, None}
BY DEF TypeOK, OnDisk, Tear, Clear, Absent

LEMMA TimesOfForget ==
  ASSUME TypeOK, NEW h, NEW e, NEW R, Forget(h, e, R), NEW d \in Digests
  PROVE  disk'[d].at = disk[d].at /\ entries'[d] \in {e[d], None}
BY TimesOfDisk DEF Forget

\* A publication takes its times from what is there.
LEMMA BearsPublish ==
  ASSUME TypeOK, TypeOK', NEW p \in Publishers, Publish(p),
         \A x \in Digests : ~Stamp(p, x),
         NEW d \in Digests, NEW t \in Times, Bears(d, t)'
  PROVE  Bears(d, t)
<1> DEFINE i == publisher[p].digest
           s == publisher[p].stamp
           r == publisher[p].result
<1>1. \A q \in Publishers : q # p => publisher'[q] = publisher[q]
  BY DEF Publish, Stamp, Check, Load, Adopt, RemoveBegins, RemoveEnds, CopyFails,
         Rename, Sync, SyncFails, Insert, Return, Goes, Answers, Fails, TypeOK, PublisherOK
<1>2. publisher[p].at # "idle" /\ publisher[p] \in Running /\ i \in Digests
  <2>1. publisher[p].at # "idle"
    BY DEF Publish, Stamp, Check, Load, Adopt, RemoveBegins, RemoveEnds, CopyFails,
           Rename, Sync, SyncFails, Insert, Return, At
  <2> QED BY <2>1, RunningFacts
<1>3. \A v \in {s, r} : Bears(i, v)
  BY <1>2 DEF Bears
<1>4. ASSUME disk'[d].at = t PROVE Bears(d, t)
  <2>1. CASE Check(p)
    <3>1. Forget(p, entries, Stale(entries, s))
      BY <2>1 DEF Check
    <3> QED BY <1>4, <3>1, TimesOfForget DEF Bears
  <2>2. CASE Insert(p)
    <3>1. Forget(p, Listed(p), Stale(Listed(p), s))
      BY <2>2 DEF Insert
    <3> QED BY <1>4, <3>1, TimesOfForget DEF Bears
  <2>3. CASE RemoveBegins(p) \/ RemoveEnds(p)
    BY <1>4, <2>3, TimesOfDisk DEF RemoveBegins, RemoveEnds, Bears
  <2>4. CASE Rename(p)
    <3>1. disk' = disk \/ disk' = [disk EXCEPT ![i] = Whole(s)]
      BY <2>4 DEF Rename
    <3>2. disk'[d] = disk[d] \/ (d = i /\ t = s)
      BY <1>4, <3>1 DEF TypeOK, Whole
    <3> QED BY <1>3, <1>4, <3>2 DEF Bears
  <2>5. CASE disk' = disk
    BY <1>4, <2>5 DEF Bears
  <2> QED
    BY <2>1, <2>2, <2>3, <2>4, <2>5
    DEF Publish, Stamp, Load, Adopt, CopyFails, Sync, SyncFails, Return
<1>5. ASSUME entries'[d] = t PROVE Bears(d, t)
  <2>1. CASE Check(p)
    <3>1. Forget(p, entries, Stale(entries, s))
      BY <2>1 DEF Check
    <3> QED BY <1>5, <3>1, TimesOfForget DEF Bears
  <2>2. CASE Insert(p)
    <3>1. Forget(p, Listed(p), Stale(Listed(p), s))
      BY <2>2 DEF Insert
    <3>2. Listed(p)[d] = entries[d] \/ (d = i /\ Listed(p)[d] = s)
      BY DEF Listed, TypeOK
    <3> QED BY <1>3, <1>5, <3>1, <3>2, TimesOfForget DEF Bears
  <2>3. CASE Adopt(p)
    <3>1. entries'[d] = entries[d] \/ (d = i /\ t = r)
      BY <1>5, <2>3 DEF Adopt, TypeOK
    <3> QED BY <1>3, <1>5, <3>1 DEF Bears
  <2>4. CASE entries' = entries
    BY <1>5, <2>4 DEF Bears
  <2> QED
    BY <2>1, <2>2, <2>3, <2>4
    DEF Publish, Stamp, Load, RemoveBegins, RemoveEnds, CopyFails, Rename, Sync,
        SyncFails, Return
<1>6. ASSUME publisher'[p].at # "idle", publisher'[p].digest = d,
             t \in {publisher'[p].stamp, publisher'[p].result}
      PROVE  Bears(d, t)
  <2>1. CASE \E place : publisher' = [publisher EXCEPT ![p].at = place]
    BY <1>2, <1>3, <1>6, <2>1 DEF TypeOK, PublisherOK, Running
  <2>2. ASSUME NEW place, NEW v, Bears(i, v),
               publisher' = [publisher EXCEPT ![p] = [@ EXCEPT !.at = place, !.result = v]]
        PROVE  Bears(d, t)
    BY <1>2, <1>3, <1>6, <2>2 DEF TypeOK, PublisherOK, Running
  <2>3. CASE Check(p) /\ entries'[i] # None
    <3>1. Forget(p, entries, Stale(entries, s)) /\ Answers(p, entries'[i])
      BY <2>3 DEF Check
    <3>2. entries'[i] = entries[i]
      BY <1>2, <2>3, <3>1, TimesOfForget
    <3> QED BY <2>2, <3>1, <3>2 DEF Answers, Bears
  <2>4. CASE Load(p) /\ Valid(i, s)
    BY <2>2, <2>4 DEF Load, Bears
  <2>5. CASE Adopt(p) \/ Insert(p)
    BY <1>3, <2>2, <2>5 DEF Adopt, Insert, Answers
  <2>6. CASE publisher' = [publisher EXCEPT ![p] = Idle]
    BY <1>6, <2>6 DEF Idle, TypeOK, PublisherOK
  <2> QED
    BY <2>1, <2>3, <2>4, <2>5, <2>6
    DEF Publish, Check, Load, RemoveBegins, RemoveEnds, CopyFails, Rename, Sync,
        SyncFails, Return, Goes, Fails
<1> QED BY <1>1, <1>4, <1>5, <1>6, BearsStep

LEMMA DatedStep == TypeOK /\ TypeOK' /\ Dated /\ [Next]_vars => Dated'
<1> SUFFICES ASSUME TypeOK, TypeOK', Dated, [Next]_vars PROVE Dated'
  OBVIOUS
<1>0. now \in Times /\ now' \in Times
  BY DEF TypeOK
<1>1. ASSUME NEW p \in Publishers, NEW x \in Digests, Stamp(p, x) PROVE Dated'
  <2> DEFINE y == [at |-> "stamped", digest |-> x, stamp |-> now, result |-> None]
  <2>1. /\ publisher' = [publisher EXCEPT ![p] = y] /\ now' = now + 1
        /\ disk' = disk /\ entries' = entries
    BY <1>1 DEF Stamp
  <2>2. /\ publisher'[p].stamp = now /\ publisher'[p].result = None
        /\ publisher'[p].digest = x
        /\ \A q \in Publishers : q # p => publisher'[q] = publisher[q]
    BY <2>1 DEF TypeOK, PublisherOK
  <2>3. \A d \in Digests, t \in Times :
          Bears(d, t)' => Bears(d, t) \/ (d = x /\ t = now)
    BY <2>1, <2>2 DEF Bears
  <2> HIDE DEF Bears
  <2>4. \A d \in Digests : ~Bears(d, now)
    BY <1>0 DEF Dated
  <2> QED BY <1>0, <2>1, <2>3, <2>4 DEF Dated
<1>2. ASSUME NEW p \in Publishers, Publish(p), \A x \in Digests : ~Stamp(p, x)
      PROVE  Dated'
  <2>1. now' = now
    BY <1>2 DEF Publish, Stamp, Check, Load, Adopt, RemoveBegins, RemoveEnds, CopyFails,
                Rename, Sync, SyncFails, Insert, Return
  <2> QED BY <1>0, <1>2, <2>1, BearsPublish, DatedFrame
<1>3. ASSUME now' >= now, publisher' = publisher \/ \A p \in Publishers : publisher'[p] = Idle,
             \A d \in Digests : disk'[d].at \in {disk[d].at, None},
             \A d \in Digests : entries'[d] \in {entries[d], disk[d].at, None}
      PROVE  Dated'
  <2>1. \A d \in Digests, t \in Times : Bears(d, t)' => Bears(d, t)
    BY <1>3 DEF Bears, Idle
  <2> QED BY <1>0, <1>3, <2>1, DatedFrame
<1>4. ASSUME NEW h, NEW R, Forget(h, entries, R), publisher' = publisher, now' = now
      PROVE  Dated'
  BY <1>0, <1>3, <1>4, TimesOfForget
<1>5. ASSUME NEW d \in Digests, Open(d) \/ Lookup PROVE Dated'
  BY <1>4, <1>5 DEF Open, Lookup
<1>6. ASSUME NEW d \in Digests, Damage(d) PROVE Dated'
  <2>1. \A x \in Digests : disk'[x].at = disk[x].at
    BY <1>6 DEF Damage, TypeOK, OnDisk, Absent
  <2> QED BY <1>0, <1>3, <1>6, <2>1 DEF Damage
<1>7. CASE Unlock \/ Crash \/ Recover \/ RecoverFails
  <2>1. PICK R : disk' = Clear(R)
    BY <1>7 DEF Unlock, Crash, Recover, RecoverFails
  <2>2. \A d \in Digests : disk'[d].at \in {disk[d].at, None}
    BY <2>1, TimesOfDisk
  <2>3. \A d \in Digests : entries'[d] \in {entries[d], disk[d].at, None}
    BY <1>7 DEF Unlock, Crash, Recover, RecoverFails
  <2>4. now' = now /\ (publisher' = publisher \/ \A p \in Publishers : publisher'[p] = Idle)
    BY <1>7 DEF Unlock, Crash, Recover, RecoverFails
  <2> QED BY <1>0, <1>3, <2>2, <2>3, <2>4
<1>8. CASE Tick \/ UNCHANGED vars
  BY <1>0, <1>3, <1>8 DEF Tick, vars
<1>9. CASE Lookup
  BY <1>4, <1>9 DEF Lookup
<1> QED
  BY <1>1, <1>2, <1>5, <1>6, <1>7, <1>8, <1>9 DEF Next
-----------------------------------------------------------------------------
(* The limit, and what an answer promises.                                 *)

\* The entries that a critical section at time t leaves of e are the newest of
\* those that live.
LEMMA LeavesNewest ==
  ASSUME TypeOK, NEW h \in Publishers \cup {None},
         NEW e \in [Digests -> Times \cup {None}], NEW t,
         Forget(h, e, Stale(e, t))
  PROVE  /\ {d \in Digests : entries'[d] # None} = Newest(Live(e, t), e, Limit)
         /\ \A d \in Newest(Live(e, t), e, Limit) : entries'[d] = e[d]
         /\ IsFiniteSet(Live(e, t)) /\ \A d \in Live(e, t) : e[d] \in Nat
<1>1. Live(e, t) \subseteq Digests /\ \A d \in Live(e, t) : e[d] # None /\ e[d] \in Nat
  BY DEF Live
<1>2. Newest(Live(e, t), e, Limit) = Kept(e, t)
  BY DEF Newest, Kept
<1>3. \A d \in Digests : entries'[d] = IF d \in Stale(e, t) THEN None ELSE e[d]
  BY ForgetFacts, KeptFacts
<1>4. IsFiniteSet(Live(e, t))
  BY <1>1, FS_Subset
<1> QED BY <1>1, <1>2, <1>3, <1>4, KeptFacts DEF Stale

\* The entries with the one that a publication adds.
LEMMA ListedFacts ==
  ASSUME TypeOK, NEW p \in Publishers, publisher[p].at = "synced"
  PROVE  /\ publisher[p].digest \in Digests /\ publisher[p].stamp \in Times
         /\ Listed(p) \in [Digests -> Times \cup {None}]
         /\ Listed(p)[publisher[p].digest] = publisher[p].stamp
         /\ \A d \in Digests \ {publisher[p].digest} : Listed(p)[d] = entries[d]
BY RunningFacts DEF Listed, TypeOK

\* A publication answers in one of three ways.
LEMMA WaysToAnswer ==
  ASSUME TypeOK, Next, NEW p \in Publishers,
         publisher[p].at # "answered", publisher'[p].at = "answered"
  PROVE  Check(p) \/ Adopt(p) \/ Insert(p)
<1>1. ASSUME NEW q \in Publishers, Publish(q), q # p PROVE FALSE
  BY <1>1 DEF Publish, Stamp, Check, Load, Adopt, RemoveBegins, RemoveEnds, CopyFails,
              Rename, Sync, SyncFails, Insert, Return, Goes, Answers, Fails, TypeOK,
              PublisherOK
<1>2. ASSUME Publish(p) PROVE Check(p) \/ Adopt(p) \/ Insert(p)
  <2>1. publisher[p] \in {Idle} \cup Running
    BY DEF TypeOK, PublisherOK
  <2>4. ASSUME Load(p) PROVE publisher'[p].at # "answered"
    <3>1. ASSUME publisher' = [publisher EXCEPT ![p] =
                   [@ EXCEPT !.at = "adopting",
                             !.result = disk[publisher[p].digest].at]]
          PROVE  publisher'[p].at = "adopting"
      BY <2>4, <3>1, Resulted DEF Load, At
    <3>2. ASSUME Goes(p, "removing") \/ Fails(p) PROVE publisher'[p].at # "answered"
      BY <2>1, <3>2 DEF Goes, Fails, TypeOK, PublisherOK, Idle, Running
    <3> QED BY <2>4, <3>1, <3>2 DEF Load
  <2>2. ASSUME \/ RemoveBegins(p) \/ RemoveEnds(p) \/ CopyFails(p) \/ Rename(p)
               \/ Sync(p) \/ SyncFails(p) \/ Return(p)
        PROVE  publisher'[p].at # "answered"
    BY <2>1, <2>2 DEF RemoveBegins, RemoveEnds, CopyFails, Rename, Sync, SyncFails,
                      Return, Goes, Fails, TypeOK, PublisherOK, Idle, Running
  <2>3. ASSUME NEW d \in Digests, Stamp(p, d) PROVE publisher'[p].at # "answered"
    BY <2>3 DEF Stamp, TypeOK, PublisherOK
  <2> QED BY <1>2, <2>2, <2>3, <2>4 DEF Publish
<1>3. ASSUME publisher' = publisher \/ publisher'[p] = Idle PROVE FALSE
  BY <1>3 DEF Idle
<1>4. (\A q \in Publishers : ~Publish(q)) => publisher' = publisher \/ publisher'[p] = Idle
  BY DEF Next, Open, Damage, Lookup, Unlock, Crash, Recover, RecoverFails, Tick
<1> QED BY <1>1, <1>2, <1>3, <1>4

\* The bodies of LimitRespected and ResultIsThere.
Within(p) ==
  publisher[p].at = "synced" /\ publisher'[p].at = "answered" =>
    Cardinality({d \in Digests : entries'[d] # None}) <= Limit

Promised(p) ==
  publisher[p].at # "answered" /\ publisher'[p].at = "answered" =>
    LET d == publisher[p].digest
        t == publisher'[p].result
    IN  \/ /\ entries'[d] = t /\ disk'[d].at = t
           /\ disk'[d].is \in {"whole", "damaged"}
        \/ Cardinality({x \in Digests : entries'[x] # None /\ entries'[x] > t}) >= Limit

\* Whoever else publishes and whatever was adopted, a publication that enters a
\* new result leaves the map within its limit: no two results are of one time,
\* so that the newest of them are no more than the limit (cache.go:145, 219).
THEOREM LimitIsKept == Spec => LimitRespected
<1>1. TypeOK /\ Dated /\ [Next]_vars => [\A p \in Publishers : Within(p)]_vars
  <2> SUFFICES ASSUME TypeOK, Dated, Next, NEW p \in Publishers,
                      publisher[p].at = "synced", publisher'[p].at = "answered"
               PROVE  Cardinality({d \in Digests : entries'[d] # None}) <= Limit
    BY DEF Within
  <2> DEFINE e == Listed(p)
             t == publisher[p].stamp
  <2>1. Insert(p)
    BY WaysToAnswer DEF Check, Adopt, At
  <2>2. Forget(p, e, Stale(e, t))
    BY <2>1 DEF Insert
  <2>3. \A d \in Digests : e[d] \in Times => Bears(d, e[d])
    BY ListedFacts DEF Bears
  <2>4. \A c, d \in Live(e, t) : e[c] = e[d] => c = d
    <3>1. \A d \in Live(e, t) : d \in Digests /\ e[d] \in Times
      BY ListedFacts DEF Live
    <3> QED BY <2>3, <3>1 DEF Dated
  <2>5. /\ {d \in Digests : entries'[d] # None} = Newest(Live(e, t), e, Limit)
        /\ IsFiniteSet(Live(e, t)) /\ \A d \in Live(e, t) : e[d] \in Nat
    BY <2>2, ListedFacts, LeavesNewest
  <2>6. Cardinality(Newest(Live(e, t), e, Limit)) <= Limit
    BY <2>4, <2>5, NewestAreFew
  <2> QED BY <2>5, <2>6
<1>2. (\A p \in Publishers : Within(p)) <=>
        \A p \in Publishers :
          publisher[p].at = "synced" /\ publisher'[p].at = "answered" =>
            Cardinality({d \in Digests : entries'[d] # None}) <= Limit
  BY DEF Within
<1>3. Spec => [](TypeOK /\ Dated)
  BY TypeInit, TypeStep, DatedInit, DatedStep, PTL DEF Spec
<1> QED BY <1>1, <1>2, <1>3, PTL DEF Spec, LimitRespected

\* When no identity is published twice at once, what a publication answers is
\* in the map and on disk under the same bytes, unless as many newer results
\* as the limit have pruned it at once (cache.go:137, 218).
THEOREM AnswersAreKept == SoloSpec => ResultIsThere
<1>1. Inv /\ [Next /\ Solo']_vars => [\A p \in Publishers : Promised(p)]_vars
  <2> SUFFICES ASSUME Inv, Next, NEW p \in Publishers,
                      publisher[p].at # "answered", publisher'[p].at = "answered"
               PROVE  Promised(p)
    BY DEF Promised
  <2> DEFINE d == publisher[p].digest
             s == publisher[p].stamp
  <2>0. TypeOK /\ EntriesOnDisk /\ Ground(p)
    BY DEF Inv, Grounded
  <2>1. CASE Check(p)
    <3>1. /\ Forget(p, entries, Stale(entries, s)) /\ d \in Digests
          /\ publisher[p] \in Running
      BY <2>0, <2>1, RunningFacts DEF Check, At
    <3>2. entries'[d] # None /\ Answers(p, entries'[d])
      <4>1. Goes(p, "loading") => publisher'[p].at # "answered"
        BY <2>0, <3>1 DEF Goes, TypeOK, PublisherOK, Running
      <4> QED BY <2>1, <4>1 DEF Check
    <3>3. publisher'[p].result = entries'[d]
      BY <2>0, <3>1, <3>2 DEF Answers, TypeOK, PublisherOK, Running
    <3>4. There(d, entries[d]) /\ d \notin Stale(entries, s) /\ entries'[d] = entries[d]
      BY <2>0, <3>1, <3>2 DEF Forget, EntriesOnDisk, There
    <3>5. disk'[d] = disk[d]
      BY <2>0, <3>1, <3>4, TearFacts DEF Forget
    <3> QED BY <3>3, <3>4, <3>5 DEF Promised, There
  <2>2. CASE Adopt(p)
    <3>1. publisher[p] \in Running /\ d \in Digests /\ There(d, publisher[p].result)
      BY <2>0, <2>2, RunningFacts DEF Adopt, At, Ground
    <3>2. publisher'[p].result = publisher[p].result
      BY <2>0, <2>2, <3>1 DEF Adopt, Answers, TypeOK, PublisherOK, Running
    <3>3. entries'[d] = publisher[p].result /\ disk' = disk
      BY <2>0, <2>2, <3>1 DEF Adopt, TypeOK
    <3> QED BY <3>1, <3>2, <3>3 DEF Promised, There
  <2>3. CASE Insert(p)
    <3> DEFINE e == Listed(p)
    <3>1. publisher[p].at = "synced" /\ publisher[p] \in Running /\ There(d, s)
      BY <2>0, <2>3, RunningFacts DEF Insert, At, Ground
    <3>2. Forget(p, e, Stale(e, s)) /\ publisher'[p].result = s
      BY <2>0, <2>3, <3>1 DEF Insert, Answers, TypeOK, PublisherOK, Running
    <3>3. d \in Digests /\ s \in Times /\ e[d] = s /\ e \in [Digests -> Times \cup {None}]
      BY <2>0, <3>1, ListedFacts
    <3>4. CASE d \notin Stale(e, s)
      <4>1. entries'[d] = s /\ disk'[d] = disk[d]
        BY <2>0, <3>2, <3>3, <3>4, TearFacts DEF Forget
      <4> QED BY <3>1, <3>2, <4>1 DEF Promised, There
    <3>5. CASE d \in Stale(e, s)
      <4> DEFINE S == Live(e, s)
                 N == {x \in Newest(S, e, Limit) : e[x] > s}
                 M == {x \in Digests : entries'[x] # None /\ entries'[x] > s}
      <4>1. d \in S
        BY <3>3 DEF Live
      <4>2. /\ {x \in Digests : entries'[x] # None} = Newest(S, e, Limit)
            /\ \A x \in Newest(S, e, Limit) : entries'[x] = e[x]
            /\ IsFiniteSet(S) /\ \A x \in S : e[x] \in Nat
        BY <2>0, <3>2, <3>3, LeavesNewest
      <4>3. ~(Cardinality({x \in S : e[x] > s}) < Limit)
        BY <3>3, <3>5, <4>1 DEF Stale, Kept
      <4>4. Cardinality({x \in S : e[x] > s}) \in Nat
        <5>1. {x \in S : e[x] > s} \subseteq S
          OBVIOUS
        <5> QED BY <4>2, <5>1, FS_Subset, FS_CardinalityType
      <4>5. Cardinality(N) >= Limit
        <5>1. Cardinality({x \in S : e[x] > s}) >= Limit /\ s \in Nat
          BY <3>3, <4>3, <4>4
        <5> QED BY <4>2, <5>1, NewestAreMany
      <4>6. N = M
        BY <4>2
      <4> QED BY <3>2, <4>5, <4>6 DEF Promised
    <3> QED BY <3>4, <3>5
  <2> QED BY <2>0, <2>1, <2>2, <2>3, WaysToAnswer
<1>2. (\A p \in Publishers : Promised(p)) <=>
        \A p \in Publishers :
          publisher[p].at # "answered" /\ publisher'[p].at = "answered" =>
            LET d == publisher[p].digest
                t == publisher'[p].result
            IN  \/ /\ entries'[d] = t /\ disk'[d].at = t
                   /\ disk'[d].is \in {"whole", "damaged"}
                \/ Cardinality({x \in Digests : entries'[x] # None
                                                /\ entries'[x] > t}) >= Limit
  BY DEF Promised
<1> QED BY <1>1, <1>2, SoloInvariant, PTL DEF SoloSpec, ResultIsThere
=============================================================================
