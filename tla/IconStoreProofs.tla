--------------------------- MODULE IconStoreProofs ---------------------------
(***************************************************************************)
(* Theorems about IconStore, for any number of runs, commands and           *)
(* calculations, any retention and any number of failures.                  *)
(***************************************************************************)
EXTENDS IconStore, FiniteSetTheorems, TLAPS

------------------------------------------------------------------------------
(* Types and helpers.                                                       *)

ProcRecord == [at : ProcessPlaces, run : Runs \cup {NoRun},
               mine : {None} \cup SUBSET Parts, todo : SUBSET Runs, kept : SUBSET Runs]

\* A nonempty set of runs has a newest one.
LEMMA MaxFacts ==
  ASSUME NEW N \in Nat, NEW T \in SUBSET (1 .. N), T # {}
  PROVE  Max(T) \in T /\ \A y \in T : Max(T) >= y
  <1>1. \E x \in T : \A y \in T : x >= y
    <2> SUFFICES ASSUME \A x \in T : \E y \in T : y > x PROVE FALSE
      OBVIOUS
    <2> DEFINE U == {n \in 1 .. N : \E y \in T : n <= y}
               f == [n \in U |-> n + 1]
    <2>1. IsFiniteSet(U)
      <3>1. 1 \in Int /\ N \in Int
        OBVIOUS
      <3>2. IsFiniteSet(1 .. N)
        BY <3>1, FS_Interval
      <3> QED BY <3>2, FS_Subset
    <2>2. 1 \in U
      <3>1. PICK y \in T : TRUE
        OBVIOUS
      <3>2. y \in 1 .. N
        OBVIOUS
      <3> QED BY <3>1, <3>2
    <2>3. \A n \in U : n + 1 \in U \ {1}
      OBVIOUS
    <2>4. /\ IsFiniteSet(U \ {1}) /\ Cardinality(U \ {1}) = Cardinality(U) - 1
          /\ Cardinality(U) \in Nat
      BY <2>1, <2>2, FS_RemoveElement, FS_CardinalityType
    <2>5. f \in [U -> U \ {1}] /\ \A x, y \in U : x # y => f[x] # f[y]
      BY <2>3
    <2> HIDE DEF U, f
    <2>6. Cardinality(U \ {1}) < Cardinality(U)
      BY <2>4
    <2> QED BY <2>1, <2>4, <2>5, <2>6, FS_PigeonHole
  <1> QED BY <1>1 DEF Max

\* The processes and their names.
LEMMA Names ==
  /\ Serve \in Processes /\ Serve \notin Commands /\ Commands \subseteq Processes
  /\ \A p \in Processes : p # Serve => p \in Commands
  BY IconConstants DEF Processes

LEMMA PlacesFacts ==
  /\ Idle \in ProcRecord /\ Idle.at = "idle"
  /\ \A p \in Processes : /\ [Idle EXCEPT !.at = "gone"] \in ProcRecord
                          /\ [Idle EXCEPT !.at = "gone"].at = "gone"
  BY DEF Idle, ProcRecord, ProcessPlaces, NoRun, None

------------------------------------------------------------------------------
(* The inductive invariant.                                                 *)

\* Who is at work has a run, and a refresh that has come past Sync a manifest.
Loaded(x) == x.at \in {"check", "placing", "placed"} => x.mine # None
Based ==
  \A p \in Processes : /\ proc[p].at \notin {"idle", "gone"} => proc[p].run \in Runs
                       /\ Loaded(proc[p])

\* A run without a directory has nothing.
Bare == \A r \in Runs \ dirs : manifest[r] = None /\ files[r] = {}

\* The cleaner removes a run whose lease nobody else holds.
Clear == At(Serve, "removing") => proc[Serve].todo # {} /\ lease[Victim] = {}

Inv == TypeOK /\ Based /\ Bare /\ Clear

LEMMA InitInv == Init => Inv
  <1> SUFFICES ASSUME Init PROVE Inv
    OBVIOUS
  <1>1. 1 \in Runs /\ LastRun \in Nat
    BY IconConstants DEF Runs
  <1>2. PICK old \in {None} \cup SUBSET (Parts \ {"cloud"}), orphan \in SUBSET Parts :
          /\ manifest = [r \in Runs |-> IF r = 1 THEN old ELSE None]
          /\ files = [r \in Runs |-> IF r = 1 /\ old # None THEN old \cup orphan ELSE {}]
          /\ dirs = IF old = None THEN {} ELSE {1}
          /\ current = IF old = None THEN NoRun ELSE 1
    <2>1. \A m : {{}, {NextPart(m)}} \subseteq SUBSET Parts
      BY DEF NextPart, Parts
    <2> QED BY <2>1 DEF Init
  <1>3. manifest \in [Runs -> {None} \cup SUBSET Parts] /\ files \in [Runs -> SUBSET Parts]
    BY <1>2 DEF Parts, None
  <1>4. dirs \subseteq Runs /\ current \in Runs \cup {NoRun}
    BY <1>1, <1>2
  <1>5. /\ proc \in [Processes -> ProcRecord]
        /\ \A p \in Processes : proc[p].at = "idle"
    BY PlacesFacts DEF Init
  <1>6. /\ upstream \in Runs /\ lock \in Processes \cup {Free, Dead}
        /\ volume \in [Runs -> {"none", "bound", "spoiled"}]
        /\ domes \subseteq Runs /\ {domeCurrent, pending} \subseteq Runs \cup {NoRun}
        /\ worker \in [at : {"idle", "asked", "leased"}, run : Runs \cup {NoRun}]
        /\ reader \in [Readers -> [at : {"idle", "asked", "reading"},
                                   run : Runs \cup {NoRun}]]
        /\ lease \in [Runs -> SUBSET ({DomeWorker} \cup Readers)]
        /\ troubles \in 0 .. MaxTroubles
    BY <1>1, IconConstants DEF Init, Rest
  <1>7. TypeOK
    BY <1>3, <1>4, <1>5, <1>6 DEF TypeOK, ProcRecord
  <1>8. Based /\ Clear
    BY <1>5, Names DEF Based, Loaded, Clear, At
  <1>9. Bare
    BY <1>2 DEF Bare
  <1> QED BY <1>7, <1>8, <1>9 DEF Inv

------------------------------------------------------------------------------
(* Every step keeps it.                                                     *)

LEMMA Updates ==
  ASSUME NEW y \in ProcRecord, NEW at \in ProcessPlaces
  PROVE  /\ [y EXCEPT !.at = at] \in ProcRecord
         /\ [y EXCEPT !.at = at].at = at /\ [y EXCEPT !.at = at].run = y.run
         /\ [y EXCEPT !.at = at].mine = y.mine /\ [y EXCEPT !.at = at].todo = y.todo
         /\ \A m \in {None} \cup SUBSET Parts :
              /\ [y EXCEPT !.at = at, !.mine = m] \in ProcRecord
              /\ [y EXCEPT !.at = at, !.mine = m].at = at
              /\ [y EXCEPT !.at = at, !.mine = m].run = y.run
              /\ [y EXCEPT !.at = at, !.mine = m].mine = m
         /\ \A T \in SUBSET Runs, K \in SUBSET Runs :
              /\ [y EXCEPT !.at = at, !.todo = T] \in ProcRecord
              /\ [y EXCEPT !.at = at, !.todo = T].at = at
              /\ [y EXCEPT !.at = at, !.todo = T].run = y.run
              /\ [y EXCEPT !.at = at, !.todo = T].todo = T
              /\ [y EXCEPT !.at = at, !.todo = T, !.kept = K] \in ProcRecord
              /\ [y EXCEPT !.at = at, !.todo = T, !.kept = K].at = at
              /\ [y EXCEPT !.at = at, !.todo = T, !.kept = K].run = y.run
              /\ [y EXCEPT !.at = at, !.todo = T, !.kept = K].todo = T
              /\ [y EXCEPT !.todo = T] \in ProcRecord
              /\ [y EXCEPT !.todo = T].at = y.at
              /\ [y EXCEPT !.todo = T].run = y.run
              /\ [y EXCEPT !.todo = T].todo = T
  BY DEF ProcRecord

\* What a refresh adds is one of the bundles, and new to it.
LEMMA NextPartFacts ==
  ASSUME NEW m \in SUBSET Parts
  PROVE  /\ NextPart(m) \in Parts /\ m \cup {NextPart(m)} \in SUBSET Parts
         /\ {"wind"} \in SUBSET Parts
         /\ m # Parts => NextPart(m) \notin m
  BY DEF NextPart, Parts

\* No manifest is a set of bundles that is none.
LEMMA NoneFacts == \A m \in SUBSET Parts : m # None
  <1> SUFFICES ASSUME None \in SUBSET Parts PROVE FALSE
    OBVIOUS
  <1>1. "no manifest" \in None
    BY DEF None
  <1> QED BY <1>1 DEF Parts

\* A process goes on, everybody else stays.
Goes(p, x) == proc' = [proc EXCEPT ![p] = x]

LEMMA Gone ==
  ASSUME Inv, NEW p \in Processes, NEW x \in ProcRecord, Goes(p, x),
         x.at \notin {"idle", "gone"} => x.run \in Runs, Loaded(x),
         x.at # "removing", lease' = lease
  PROVE  /\ proc' \in [Processes -> ProcRecord] /\ Based' /\ Clear'
         /\ \A q \in Processes : proc'[q] = IF q = p THEN x ELSE proc[q]
  <1>1. proc \in [Processes -> ProcRecord]
    BY DEF Inv, TypeOK, ProcRecord
  <1>2. \A q \in Processes : proc'[q] = IF q = p THEN x ELSE proc[q]
    BY <1>1 DEF Goes
  <1>3. proc' \in [Processes -> ProcRecord]
    BY <1>1 DEF Goes
  <1>4. Based'
    BY <1>2 DEF Inv, Based
  <1>5. Clear'
    BY <1>2, Names DEF Inv, Clear, At, Victim
  <1> QED BY <1>2, <1>3, <1>4, <1>5

LEMMA QuitFacts ==
  ASSUME NEW p \in Processes, Quit(p)
  PROVE  \E x \in ProcRecord : Goes(p, x) /\ x.at \in {"idle", "gone"}
  BY PlacesFacts DEF Quit, Goes

\* What there is of a volume after its base manifest has been rewritten.
LEMMA RewrittenFacts ==
  ASSUME TypeOK, NEW r, Rewritten(r)
  PROVE  volume' \in [Runs -> {"none", "bound", "spoiled"}]
  BY DEF TypeOK, Rewritten

\* The steps of a refresh.
LEMMA SyncFindsInv ==
  ASSUME Inv, NEW p \in Processes, SyncFinds(p)
  PROVE  Inv'
  <1> DEFINE m == manifest[proc[p].run]
             x == [proc[p] EXCEPT !.at = "check", !.mine = m]
  <1>1. proc[p] \in ProcRecord /\ proc[p].run \in Runs /\ "check" \in ProcessPlaces
    BY DEF Inv, TypeOK, Based, SyncFinds, At, ProcRecord, ProcessPlaces
  <1>2. m \in {None} \cup SUBSET Parts
    BY <1>1, NextPartFacts DEF Inv, TypeOK, SyncFinds, ProcRecord
  <1> HIDE DEF m
  <1>3. x \in ProcRecord /\ x.at = "check" /\ x.run = proc[p].run
    BY <1>1, <1>2 DEF ProcRecord
  <1> USE DEF m
  <1>10. Loaded(x)
    BY <1>1, <1>2 DEF Loaded, SyncFinds, ProcRecord
  <1>4. Goes(p, x)
    BY DEF SyncFinds, Goes
  <1> HIDE DEF x
  <1>5. proc' \in [Processes -> ProcRecord] /\ Based' /\ Clear'
    BY <1>1, <1>3, <1>4, <1>10, Gone DEF SyncFinds, domeVars
  <1>6. UNCHANGED <<dirs, manifest, files>>
    BY <1>1, <1>2, NextPartFacts DEF Inv, TypeOK, SyncFinds
  <1>7. TypeOK'
    BY <1>5, <1>6 DEF Inv, TypeOK, SyncFinds, domeVars, ProcRecord
  <1>8. Bare'
    BY <1>1 DEF Inv, TypeOK, Bare, SyncFinds
  <1> QED BY <1>5, <1>7, <1>8 DEF Inv

LEMMA SyncBeginsInv ==
  ASSUME Inv, NEW p \in Processes, SyncBegins(p)
  PROVE  Inv'
  <1> DEFINE x == [proc[p] EXCEPT !.at = "syncing"]
  <1>1. proc[p] \in ProcRecord /\ proc[p].run \in Runs /\ "syncing" \in ProcessPlaces
    BY DEF Inv, TypeOK, Based, SyncBegins, At, ProcRecord, ProcessPlaces
  <1>3. x \in ProcRecord /\ x.at = "syncing" /\ x.run = proc[p].run
    BY <1>1, Updates
  <1>10. Loaded(x)
    BY <1>3 DEF Loaded
  <1>4. Goes(p, x)
    BY DEF SyncBegins, Goes
  <1> HIDE DEF x
  <1>5. proc' \in [Processes -> ProcRecord] /\ Based' /\ Clear'
    BY <1>1, <1>3, <1>4, <1>10, Gone DEF SyncBegins, domeVars
  <1>6. UNCHANGED <<dirs, manifest, files>>
    BY <1>1, NextPartFacts DEF Inv, TypeOK, SyncBegins
  <1>7. TypeOK'
    BY <1>5, <1>6 DEF Inv, TypeOK, SyncBegins, domeVars, ProcRecord
  <1>8. Bare'
    BY <1>1 DEF Inv, TypeOK, Bare, SyncBegins
  <1> QED BY <1>5, <1>7, <1>8 DEF Inv

LEMMA SyncEndsInv ==
  ASSUME Inv, NEW p \in Processes, SyncEnds(p)
  PROVE  Inv'
  <1> DEFINE m == {"wind"}
             x == [proc[p] EXCEPT !.at = "check", !.mine = m]
  <1>1. proc[p] \in ProcRecord /\ proc[p].run \in Runs /\ "check" \in ProcessPlaces
    BY DEF Inv, TypeOK, Based, SyncEnds, At, ProcRecord, ProcessPlaces
  <1>2. m \in {None} \cup SUBSET Parts
    BY <1>1, NextPartFacts DEF Inv, TypeOK, SyncEnds, ProcRecord
  <1> HIDE DEF m
  <1>3. x \in ProcRecord /\ x.at = "check" /\ x.run = proc[p].run
    BY <1>1, <1>2 DEF ProcRecord
  <1> USE DEF m
  <1>10. Loaded(x)
    BY <1>1, <1>2, NoneFacts, NextPartFacts DEF Loaded, ProcRecord
  <1>4. Goes(p, x)
    BY DEF SyncEnds, Goes
  <1> HIDE DEF x
  <1>5. proc' \in [Processes -> ProcRecord] /\ Based' /\ Clear'
    BY <1>1, <1>3, <1>4, <1>10, Gone DEF SyncEnds
  <1>6. dirs' \subseteq Runs /\ manifest' \in [Runs -> {None} \cup SUBSET Parts]
        /\ files' \in [Runs -> SUBSET Parts]
    BY <1>1, <1>2, NextPartFacts DEF Inv, TypeOK, SyncEnds, Parts
  <1>9. volume' \in [Runs -> {"none", "bound", "spoiled"}]
    BY RewrittenFacts DEF Inv, SyncEnds
  <1>7. TypeOK'
    BY <1>5, <1>6, <1>9 DEF Inv, TypeOK, SyncEnds, ProcRecord
  <1>8. Bare'
    BY <1>1 DEF Inv, TypeOK, Bare, SyncEnds
  <1> QED BY <1>5, <1>7, <1>8 DEF Inv

LEMMA AugmentBeginsInv ==
  ASSUME Inv, NEW p \in Processes, AugmentBegins(p)
  PROVE  Inv'
  <1> DEFINE x == [proc[p] EXCEPT !.at = "placing"]
  <1>1. proc[p] \in ProcRecord /\ proc[p].run \in Runs /\ "placing" \in ProcessPlaces
    BY DEF Inv, TypeOK, Based, AugmentBegins, At, ProcRecord, ProcessPlaces
  <1>3. x \in ProcRecord /\ x.at = "placing" /\ x.run = proc[p].run
    BY <1>1, Updates
  <1>10. Loaded(x)
    BY <1>1, Updates DEF Inv, Based, Loaded, AugmentBegins, At
  <1>4. Goes(p, x)
    BY DEF AugmentBegins, Goes
  <1> HIDE DEF x
  <1>5. proc' \in [Processes -> ProcRecord] /\ Based' /\ Clear'
    BY <1>1, <1>3, <1>4, <1>10, Gone DEF AugmentBegins, domeVars
  <1>6. dirs' \subseteq Runs
    BY <1>1, NextPartFacts DEF Inv, TypeOK, AugmentBegins
  <1>7. TypeOK'
    BY <1>5, <1>6 DEF Inv, TypeOK, AugmentBegins, domeVars, ProcRecord
  <1>8. Bare'
    BY <1>1 DEF Inv, TypeOK, Bare, AugmentBegins
  <1> QED BY <1>5, <1>7, <1>8 DEF Inv

LEMMA PlaceInv ==
  ASSUME Inv, NEW p \in Processes, Place(p)
  PROVE  Inv'
  <1> DEFINE x == [proc[p] EXCEPT !.at = "placed"]
  <1>1. proc[p] \in ProcRecord /\ proc[p].run \in Runs /\ "placed" \in ProcessPlaces
    BY DEF Inv, TypeOK, Based, Place, At, ProcRecord, ProcessPlaces
  <1>3. x \in ProcRecord /\ x.at = "placed" /\ x.run = proc[p].run
    BY <1>1, Updates
  <1>10. Loaded(x)
    BY <1>1, Updates DEF Inv, Based, Loaded, Place, At
  <1>4. Goes(p, x)
    BY DEF Place, Goes
  <1> HIDE DEF x
  <1>5. proc' \in [Processes -> ProcRecord] /\ Based' /\ Clear'
    BY <1>1, <1>3, <1>4, <1>10, Gone DEF Place, domeVars
  <1>6. files' \in [Runs -> SUBSET Parts]
    BY <1>1, NextPartFacts DEF Inv, TypeOK, Place, NextPart, Parts
  <1>7. TypeOK'
    BY <1>5, <1>6 DEF Inv, TypeOK, Place, domeVars, ProcRecord
  <1>8. Bare'
    BY <1>1 DEF Inv, TypeOK, Bare, Place
  <1> QED BY <1>5, <1>7, <1>8 DEF Inv

LEMMA MakeRoomInv ==
  ASSUME Inv, NEW p \in Processes, MakeRoom(p)
  PROVE  Inv'
  <1>1. UNCHANGED <<dirs, manifest, proc, lease>>
    BY DEF MakeRoom, domeVars
  <1>2. /\ files' \in [Runs -> SUBSET Parts]
        /\ \A r \in Runs : files'[r] \subseteq files[r]
    BY DEF Inv, TypeOK, MakeRoom
  <1>3. TypeOK'
    BY <1>1, <1>2 DEF Inv, TypeOK, MakeRoom, domeVars
  <1>4. Based' /\ Clear'
    BY <1>1 DEF Inv, Based, Clear, At, Victim
  <1>5. Bare'
    BY <1>1, <1>2 DEF Inv, Bare
  <1> QED BY <1>3, <1>4, <1>5 DEF Inv

LEMMA WriteInv ==
  ASSUME Inv, NEW p \in Processes, Write(p)
  PROVE  Inv'
  <1> DEFINE m == proc[p].mine \cup {NextPart(proc[p].mine)}
             x == [proc[p] EXCEPT !.at = "check", !.mine = m]
  <1>1. proc[p] \in ProcRecord /\ proc[p].run \in Runs /\ "check" \in ProcessPlaces
    BY DEF Inv, TypeOK, Based, Write, At, ProcRecord, ProcessPlaces
  <1>2. m \in SUBSET Parts
    <2>1. proc[p].mine \in SUBSET Parts
      BY <1>1 DEF Inv, Based, Loaded, Write, At, ProcRecord
    <2> QED BY <2>1, NextPartFacts
  <1> HIDE DEF m
  <1>3. x \in ProcRecord /\ x.at = "check" /\ x.run = proc[p].run
    BY <1>1, <1>2 DEF ProcRecord
  <1> USE DEF m
  <1>10. Loaded(x)
    BY <1>1, <1>2, NoneFacts DEF Loaded, ProcRecord
  <1>4. Goes(p, x)
    BY DEF Write, Goes
  <1> HIDE DEF x
  <1>5. proc' \in [Processes -> ProcRecord] /\ Based' /\ Clear'
    BY <1>1, <1>3, <1>4, <1>10, Gone DEF Write
  <1>6. manifest' \in [Runs -> {None} \cup SUBSET Parts]
    BY <1>1, <1>2, NextPartFacts DEF Inv, TypeOK, Write
  <1>9. volume' \in [Runs -> {"none", "bound", "spoiled"}]
    BY RewrittenFacts DEF Inv, Write
  <1>7. TypeOK'
    BY <1>5, <1>6, <1>9 DEF Inv, TypeOK, Write, ProcRecord
  <1>8. Bare'
    BY <1>1 DEF Inv, TypeOK, Bare, Write
  <1> QED BY <1>5, <1>7, <1>8 DEF Inv

LEMMA LockedOutInv ==
  ASSUME Inv, NEW p \in Processes, LockedOut(p)
  PROVE  Inv'
  <1>1. PICK x \in ProcRecord : Goes(p, x) /\ x.at \in {"idle", "gone"}
    BY QuitFacts, Names DEF LockedOut
  <1>2. p \in Processes /\ proc[p] \in ProcRecord
    BY Names DEF Inv, TypeOK, ProcRecord
  <1>3. proc' \in [Processes -> ProcRecord] /\ Based' /\ Clear'
    BY <1>1, <1>2, Gone DEF LockedOut, Loaded, domeVars
  <1>4. files' \in [Runs -> SUBSET Parts] /\ troubles' \in 0 .. MaxTroubles
    BY DEF Inv, TypeOK, LockedOut, domeVars, Trouble
  <1>5. TypeOK'
    BY <1>2, <1>3, <1>4 DEF Inv, TypeOK, LockedOut, domeVars, ProcRecord
  <1>6. Bare'
    BY DEF Inv, TypeOK, Bare, LockedOut
  <1> QED BY <1>3, <1>5, <1>6 DEF Inv

LEMMA FailsInv ==
  ASSUME Inv, NEW p \in Processes, Fails(p)
  PROVE  Inv'
  <1>1. PICK x \in ProcRecord : Goes(p, x) /\ x.at \in {"idle", "gone"}
    BY QuitFacts, Names DEF Fails
  <1>2. p \in Processes /\ proc[p] \in ProcRecord
    BY Names DEF Inv, TypeOK, ProcRecord
  <1>3. proc' \in [Processes -> ProcRecord] /\ Based' /\ Clear'
    BY <1>1, <1>2, Gone DEF Fails, Loaded, domeVars
  <1>4. files' \in [Runs -> SUBSET Parts] /\ troubles' \in 0 .. MaxTroubles
    <2>1. troubles' \in {troubles, troubles + 1} /\ (troubles' = troubles \/ troubles < MaxTroubles)
      BY DEF Fails, Trouble
    <2>2. files' = files
          \/ files' = [files EXCEPT ![proc[p].run] = @ \ {NextPart(proc[p].mine)}]
      BY DEF Fails
    <2> QED BY <2>1, <2>2, IconConstants DEF Inv, TypeOK
  <1>5. TypeOK'
    BY <1>2, <1>3, <1>4 DEF Inv, TypeOK, Fails, domeVars, ProcRecord
  <1>6. Bare'
    BY DEF Inv, TypeOK, Bare, Fails
  <1> QED BY <1>3, <1>5, <1>6 DEF Inv

LEMMA CommandPublishesInv ==
  ASSUME Inv, NEW p \in Commands, CommandPublishes(p)
  PROVE  Inv'
  <1>1. PICK x \in ProcRecord : Goes(p, x) /\ x.at \in {"idle", "gone"}
    BY QuitFacts, Names DEF CommandPublishes
  <1>2. p \in Processes /\ proc[p] \in ProcRecord
    BY Names DEF Inv, TypeOK, ProcRecord
  <1>3. proc' \in [Processes -> ProcRecord] /\ Based' /\ Clear'
    BY <1>1, <1>2, Gone DEF CommandPublishes, Loaded, domeVars
  <1>4. files' \in [Runs -> SUBSET Parts] /\ troubles' \in 0 .. MaxTroubles
    BY DEF Inv, TypeOK, CommandPublishes, domeVars, Trouble
  <1>5. TypeOK'
    BY <1>2, <1>3, <1>4 DEF Inv, TypeOK, CommandPublishes, domeVars, ProcRecord
  <1>6. Bare'
    BY DEF Inv, TypeOK, Bare, CommandPublishes
  <1> QED BY <1>3, <1>5, <1>6 DEF Inv

\* The steps of the scheduler alone.
LEMMA AdvanceInv == Inv /\ Advance => Inv'
  <1> SUFFICES ASSUME Inv, Advance PROVE Inv'
    OBVIOUS
  <1>1. upstream' \in Runs
    BY IconConstants DEF Inv, TypeOK, Advance, Runs
  <1> QED BY <1>1 DEF Inv, TypeOK, Based, Bare, Clear, Advance, At, Victim, domeVars

LEMMA TroubleCount ==
  ASSUME TypeOK, Trouble \/ UNCHANGED troubles
  PROVE  troubles' \in 0 .. MaxTroubles
  BY IconConstants DEF TypeOK, Trouble

LEMMA ProbeInv ==
  ASSUME Inv, NEW r \in Runs, Probe(r)
  PROVE  Inv'
  <1>1. PICK x \in ProcRecord :
          Goes(Serve, x) /\ x.run = r /\ x.at \in {"check", "sync"} /\ Loaded(x)
    <2>1. CASE current = r /\ manifest[r] # None
      <3> DEFINE m == manifest[r]
                 x == [Idle EXCEPT !.at = "check", !.run = r, !.mine = m]
      <3>1. m \in {None} \cup SUBSET Parts
        BY DEF Inv, TypeOK
      <3> HIDE DEF m
      <3>2. x \in ProcRecord /\ x.run = r /\ x.at = "check"
        BY <3>1, PlacesFacts DEF ProcRecord, ProcessPlaces
      <3>3. Goes(Serve, x)
        BY <2>1 DEF Probe, Goes, m
      <3>4. Loaded(x)
        BY <2>1, <3>1, PlacesFacts DEF Loaded, ProcRecord, m
      <3> QED BY <3>2, <3>3, <3>4
    <2>2. CASE ~(current = r /\ manifest[r] # None)
      <3> DEFINE x == [Idle EXCEPT !.at = "sync", !.run = r]
      <3>1. x \in ProcRecord /\ x.run = r /\ x.at = "sync"
        BY PlacesFacts DEF ProcRecord, ProcessPlaces
      <3>2. Goes(Serve, x)
        BY <2>2 DEF Probe, Goes
      <3>3. Loaded(x)
        BY <3>1 DEF Loaded
      <3> QED BY <3>1, <3>2, <3>3
    <2> QED BY <2>1, <2>2
  <1>2. proc' \in [Processes -> ProcRecord] /\ Based' /\ Clear'
    BY <1>1, Names, Gone DEF Probe, domeVars
  <1>3. troubles' \in 0 .. MaxTroubles
    BY TroubleCount DEF Probe, Inv
  <1>4. TypeOK'
    BY <1>2, <1>3 DEF Inv, TypeOK, Probe, domeVars, ProcRecord
  <1>5. Bare'
    BY DEF Inv, Bare, Probe
  <1> QED BY <1>2, <1>4, <1>5 DEF Inv

LEMMA CommandInv ==
  ASSUME Inv, NEW p \in Commands, NEW r \in Runs, Command(p, r)
  PROVE  Inv'
  <1> DEFINE x == [Idle EXCEPT !.at = "sync", !.run = r]
  <1>1. x \in ProcRecord /\ x.run = r /\ x.at = "sync"
    BY PlacesFacts DEF ProcRecord, ProcessPlaces
  <1>2. Goes(p, x)
    BY DEF Command, Goes
  <1> HIDE DEF x
  <1>3. proc' \in [Processes -> ProcRecord] /\ Based' /\ Clear'
    BY <1>1, <1>2, Names, Gone DEF Command, domeVars, Loaded
  <1>4. TypeOK'
    BY <1>3 DEF Inv, TypeOK, Command, domeVars, ProcRecord
  <1>5. Bare'
    BY DEF Inv, Bare, Command
  <1> QED BY <1>3, <1>4, <1>5 DEF Inv

LEMMA PublishInv == Inv /\ Publish => Inv'
  <1> SUFFICES ASSUME Inv, Publish PROVE Inv'
    OBVIOUS
  <1> DEFINE r == proc[Serve].run
             K == Retained(r)
             T == dirs \ K
             x == [proc[Serve] EXCEPT !.at = "prune", !.todo = T, !.kept = K]
  <1>1. proc[Serve] \in ProcRecord /\ r \in Runs
    BY Names DEF Inv, TypeOK, Based, Publish, At, ProcRecord
  <1>2. T \in SUBSET Runs /\ K \in SUBSET Runs
    BY <1>1 DEF Inv, TypeOK, Retained
  <1> HIDE DEF T, K
  <1>3. x \in ProcRecord /\ x.run = r /\ x.at = "prune"
    BY <1>1, <1>2 DEF ProcRecord, ProcessPlaces
  <1>4. Goes(Serve, x)
    BY DEF Publish, Goes, T, K
  <1> HIDE DEF x
  <1>5. proc' \in [Processes -> ProcRecord] /\ Based' /\ Clear'
    BY <1>1, <1>3, <1>4, Names, Gone DEF Publish, Loaded
  <1>6. current' \in Runs /\ pending' \in Runs
    BY <1>1 DEF Publish, Enqueue
  <1>7. TypeOK'
    BY <1>5, <1>6 DEF Inv, TypeOK, Publish, ProcRecord
  <1>8. Bare'
    BY DEF Inv, Bare, Publish
  <1> QED BY <1>5, <1>7, <1>8 DEF Inv

\* What the cleaner looks at next.
LEMMA VictimFacts ==
  ASSUME TypeOK, proc[Serve].todo # {}
  PROVE  /\ Victim \in proc[Serve].todo /\ Victim \in Runs
         /\ proc[Serve].todo \ {Victim} \in SUBSET Runs
  <1>1. proc[Serve].todo \in SUBSET (1 .. LastRun)
    BY Names DEF TypeOK, Runs
  <1>2. Max(proc[Serve].todo) \in proc[Serve].todo
    BY <1>1, IconConstants, MaxFacts
  <1> QED BY <1>1, <1>2 DEF Victim, Runs

\* The removal of a volume.
LEMMA RemoveVolumeFacts ==
  ASSUME TypeOK, RemoveVolume
  PROVE  domes' \subseteq domes /\ volume' \in [Runs -> {"none", "bound", "spoiled"}]
  BY DEF TypeOK, RemoveVolume

LEMMA RemoveDomeInv == Inv /\ RemoveDome => Inv'
  <1> SUFFICES ASSUME Inv, RemoveDome PROVE Inv'
    OBVIOUS
  <1> DEFINE x == [proc[Serve] EXCEPT !.at = "removing"]
  <1>1. proc[Serve] \in ProcRecord /\ proc[Serve].run \in Runs
    BY Names DEF Inv, TypeOK, Based, RemoveDome, At, ProcRecord
  <1>2. /\ x \in ProcRecord /\ x.run = proc[Serve].run /\ x.at = "removing"
        /\ x.todo = proc[Serve].todo
    BY <1>1 DEF ProcRecord, ProcessPlaces
  <1>3. proc' = [proc EXCEPT ![Serve] = x]
    BY DEF RemoveDome
  <1> HIDE DEF x
  <1>4. /\ proc' \in [Processes -> ProcRecord]
        /\ \A q \in Processes : proc'[q] = IF q = Serve THEN x ELSE proc[q]
    BY <1>2, <1>3 DEF Inv, TypeOK, ProcRecord
  <1>5. Based'
    BY <1>1, <1>2, <1>4 DEF Inv, Based, Loaded
  <1>6. Clear'
    <2>1. proc'[Serve].todo = proc[Serve].todo
      BY <1>2, <1>4, Names
    <2> QED BY <2>1 DEF Clear, RemoveDome, Unleased, Victim
  <1>7. TypeOK'
    BY <1>4, RemoveVolumeFacts DEF Inv, TypeOK, RemoveDome, ProcRecord
  <1>8. Bare'
    BY DEF Inv, Bare, RemoveDome
  <1> QED BY <1>5, <1>6, <1>7, <1>8 DEF Inv

LEMMA RemoveRunInv == Inv /\ RemoveRun => Inv'
  <1> SUFFICES ASSUME Inv, RemoveRun PROVE Inv'
    OBVIOUS
  <1> DEFINE T == proc[Serve].todo \ {Victim}
             x == [proc[Serve] EXCEPT !.at = "prune", !.todo = T]
  <1>1. /\ proc[Serve] \in ProcRecord /\ proc[Serve].run \in Runs
        /\ T \in SUBSET Runs
    BY Names DEF Inv, TypeOK, Based, RemoveRun, At, ProcRecord
  <1>2. Goes(Serve, x)
    BY Names DEF RemoveRun, Goes, Inv, TypeOK
  <1> HIDE DEF T
  <1>3. x \in ProcRecord /\ x.run = proc[Serve].run /\ x.at = "prune"
    BY <1>1 DEF ProcRecord, ProcessPlaces
  <1> HIDE DEF x
  <1>4. proc' \in [Processes -> ProcRecord] /\ Based' /\ Clear'
    BY <1>1, <1>2, <1>3, Names, Gone DEF RemoveRun, domeVars, Loaded
  <1>5. TypeOK'
    BY <1>4 DEF Inv, TypeOK, RemoveRun, ProcRecord, domeVars
  <1>6. Bare'
    BY DEF Inv, Bare, RemoveRun, TypeOK
  <1> QED BY <1>4, <1>5, <1>6 DEF Inv

LEMMA DroppingFacts ==
  ASSUME Inv, proc' = Dropping, lease' = lease, proc[Serve].todo # {},
         At(Serve, "prune") \/ At(Serve, "orphans")
  PROVE  proc' \in [Processes -> ProcRecord] /\ Based' /\ Clear'
  <1> DEFINE T == proc[Serve].todo \ {Victim}
             x == [proc[Serve] EXCEPT !.todo = T]
  <1>1. /\ proc[Serve] \in ProcRecord /\ proc[Serve].run \in Runs
        /\ T \in SUBSET Runs
    BY Names DEF Inv, TypeOK, Based, At, ProcRecord
  <1>2. Goes(Serve, x)
    BY Names DEF Dropping, Goes, Inv, TypeOK
  <1> HIDE DEF T
  <1>3. x \in ProcRecord /\ x.run = proc[Serve].run /\ x.at = proc[Serve].at
    BY <1>1 DEF ProcRecord
  <1> HIDE DEF x
  <1> QED BY <1>1, <1>2, <1>3, Names, Gone DEF At, Loaded

LEMMA SkipLeasedInv == Inv /\ SkipLeased => Inv'
  <1> SUFFICES ASSUME Inv, SkipLeased PROVE Inv'
    OBVIOUS
  <1>1. proc' \in [Processes -> ProcRecord] /\ Based' /\ Clear'
    BY DroppingFacts DEF SkipLeased, domeVars
  <1> QED BY <1>1 DEF Inv, TypeOK, Bare, SkipLeased, ProcRecord, domeVars

LEMMA RemoveOrphanInv == Inv /\ RemoveOrphan => Inv'
  <1> SUFFICES ASSUME Inv, RemoveOrphan PROVE Inv'
    OBVIOUS
  <1>1. proc' \in [Processes -> ProcRecord] /\ Based' /\ Clear'
    BY DroppingFacts DEF RemoveOrphan
  <1> QED BY <1>1, RemoveVolumeFacts DEF Inv, TypeOK, Bare, RemoveOrphan, ProcRecord

LEMMA ListOrphansInv == Inv /\ ListOrphans => Inv'
  <1> SUFFICES ASSUME Inv, ListOrphans PROVE Inv'
    OBVIOUS
  <1> DEFINE T == domes \ proc[Serve].kept
             x == [proc[Serve] EXCEPT !.at = "orphans", !.todo = T]
  <1>1. /\ proc[Serve] \in ProcRecord /\ proc[Serve].run \in Runs
        /\ T \in SUBSET Runs
    BY Names DEF Inv, TypeOK, Based, ListOrphans, At, ProcRecord
  <1>2. Goes(Serve, x)
    BY Names DEF ListOrphans, Goes, Inv, TypeOK
  <1> HIDE DEF T
  <1>3. x \in ProcRecord /\ x.run = proc[Serve].run /\ x.at = "orphans"
    BY <1>1 DEF ProcRecord, ProcessPlaces
  <1> HIDE DEF x
  <1>4. proc' \in [Processes -> ProcRecord] /\ Based' /\ Clear'
    BY <1>1, <1>2, <1>3, Names, Gone DEF ListOrphans, domeVars, Loaded
  <1> QED BY <1>4 DEF Inv, TypeOK, Bare, ListOrphans, ProcRecord, domeVars

LEMMA CycleEndsInv == Inv /\ CycleEnds => Inv'
  <1> SUFFICES ASSUME Inv, CycleEnds PROVE Inv'
    OBVIOUS
  <1>1. Goes(Serve, Idle) /\ Idle \in ProcRecord /\ Idle.at = "idle"
    BY PlacesFacts DEF CycleEnds, Goes
  <1>2. proc' \in [Processes -> ProcRecord] /\ Based' /\ Clear'
    BY <1>1, Names, Gone DEF CycleEnds, domeVars, Loaded
  <1> QED BY <1>2 DEF Inv, TypeOK, Bare, CycleEnds, ProcRecord, domeVars

\* A removal cut short leaves no more than there was.
LEMMA HalfRemovedFacts ==
  ASSUME Inv, HalfRemoved
  PROVE  /\ manifest' \in [Runs -> {None} \cup SUBSET Parts]
         /\ files' \in [Runs -> SUBSET Parts]
         /\ \A r \in Runs : /\ ~Exclusive(r) => manifest'[r] = manifest[r] /\ files'[r] = files[r]
                            /\ manifest'[r] \in {None, manifest[r]}
                            /\ files'[r] \subseteq files[r]
  <1>1. CASE ~At(Serve, "removing")
    BY <1>1 DEF HalfRemoved, Inv, TypeOK
  <1>2. CASE At(Serve, "removing")
    <2>1. Victim \in Runs
      BY <1>2, VictimFacts DEF Inv, Clear
    <2>2. PICK left \in SUBSET files[Victim], m \in {None, manifest[Victim]} :
            /\ files' = [files EXCEPT ![Victim] = left]
            /\ manifest' = [manifest EXCEPT ![Victim] = m]
      BY <1>2 DEF HalfRemoved
    <2> HIDE DEF Victim
    <2>3. files[Victim] \in SUBSET Parts /\ manifest[Victim] \in {None} \cup SUBSET Parts
      BY <2>1 DEF Inv, TypeOK
    <2> QED BY <1>2, <2>1, <2>2, <2>3 DEF Inv, TypeOK, Exclusive
  <1> QED BY <1>1, <1>2

LEMMA PruneFailsInv == Inv /\ PruneFails => Inv'
  <1> SUFFICES ASSUME Inv, PruneFails PROVE Inv'
    OBVIOUS
  <1>1. Goes(Serve, Idle) /\ Idle \in ProcRecord /\ Idle.at = "idle"
    BY PlacesFacts DEF PruneFails, Goes
  <1>2. proc' \in [Processes -> ProcRecord] /\ Based' /\ Clear'
    BY <1>1, Names, Gone DEF PruneFails, domeVars, Loaded
  <1>3. troubles' \in 0 .. MaxTroubles
    BY TroubleCount DEF PruneFails, Inv
  <1>4. TypeOK'
    BY <1>2, <1>3, HalfRemovedFacts DEF Inv, TypeOK, PruneFails, ProcRecord, domeVars
  <1>5. Bare'
    <2>1. HalfRemoved /\ dirs' = dirs
      BY DEF PruneFails
    <2> QED BY <2>1, HalfRemovedFacts DEF Inv, Bare
  <1> QED BY <1>2, <1>4, <1>5 DEF Inv

\* Leases may come and go where the cleaner is not.
LEMMA CrashInv == Inv /\ Crash => Inv'
  <1> SUFFICES ASSUME Inv, Crash PROVE Inv'
    OBVIOUS
  <1>1. proc' = [proc EXCEPT ![Serve] = Idle] /\ Idle \in ProcRecord /\ Idle.at = "idle"
    BY PlacesFacts DEF Crash
  <1>2. /\ proc' \in [Processes -> ProcRecord]
        /\ \A q \in Processes : proc'[q] = IF q = Serve THEN Idle ELSE proc[q]
    BY <1>1 DEF Inv, TypeOK, ProcRecord
  <1>3. Based' /\ Clear'
    BY <1>1, <1>2, Names DEF Inv, Based, Loaded, Clear, At
  <1>4. troubles' \in 0 .. MaxTroubles
    BY TroubleCount DEF Crash, Inv
  <1>5. lease' \in [Runs -> SUBSET ({DomeWorker} \cup Readers)]
    BY DEF Crash, Inv, TypeOK
  <1>6. TypeOK'
    BY <1>2, <1>4, <1>5, HalfRemovedFacts DEF Inv, TypeOK, Crash, ProcRecord, Rest
  <1>7. Bare'
    <2>1. HalfRemoved /\ dirs' = dirs
      BY DEF Crash
    <2> QED BY <2>1, HalfRemovedFacts DEF Inv, Bare
  <1> QED BY <1>3, <1>6, <1>7 DEF Inv

\* The Astrodome worker at work has a run.
Asked == worker.at # "idle" => worker.run \in Runs

\* The steps of the Astrodome worker and of calculations.
LEMMA HoldersFacts ==
  ASSUME Inv, UNCHANGED <<proc, dirs, manifest, files>>,
         \A r \in Runs : Exclusive(r) => lease'[r] \subseteq lease[r]
  PROVE  Based' /\ Bare' /\ Clear'
  <1>1. Clear'
    <2> SUFFICES ASSUME At(Serve, "removing")
        PROVE  proc[Serve].todo # {} /\ lease'[Victim] = {}
      BY DEF Clear, At, Victim
    <2>1. Victim \in Runs /\ Exclusive(Victim) /\ lease[Victim] = {} /\ proc[Serve].todo # {}
      BY VictimFacts DEF Inv, Clear, Exclusive
    <2> QED BY <2>1
  <1> QED BY <1>1 DEF Inv, Based, Bare

LEMMA NextAsked == Inv /\ Asked /\ [Next]_vars => Asked'
  <1> SUFFICES ASSUME Inv, Asked, [Next]_vars PROVE Asked'
    OBVIOUS
  <1>1. CASE worker' = worker
    BY <1>1 DEF Asked
  <1>2. CASE DomeWorks \/ Crash
    BY <1>2 DEF DomeWorks, TakeDome, LeaseDome, EnsureDome, EnsureDomeFails, DomeSpoils, DomeUnnamed,
       ReleaseDome,
       Crash, Rest, Asked, Inv, TypeOK
  <1> QED BY <1>1, <1>2 DEF Next, Advance, PruneFails, Probe, Command, Refreshes, LockedOut,
         SyncFinds, SyncBegins, SyncEnds, AugmentBegins, MakeRoom, Place, Write, Fails,
         CommandPublishes, Publish, Prunes, RemoveDome, RemoveRun, SkipLeased, ListOrphans,
         RemoveOrphan, CycleEnds, Calculates, Admit, OpenVolume, CloseVolume, domeVars, vars

LEMMA DomeWorksInv == Inv /\ Asked /\ DomeWorks => Inv'
  <1> SUFFICES ASSUME Inv, Asked, DomeWorks PROVE Inv'
    OBVIOUS
  <1>1. /\ UNCHANGED <<proc, dirs, manifest, files, upstream, current, lock, reader>>
        /\ troubles' \in 0 .. MaxTroubles
    BY TroubleCount DEF DomeWorks, TakeDome, LeaseDome, EnsureDome, EnsureDomeFails,
       DomeSpoils, DomeUnnamed, ReleaseDome, Inv
  <1>2. /\ lease' \in [Runs -> SUBSET ({DomeWorker} \cup Readers)]
        /\ \A r \in Runs : Exclusive(r) => lease'[r] \subseteq lease[r]
    BY DEF DomeWorks, TakeDome, LeaseDome, EnsureDome, EnsureDomeFails, DomeSpoils, DomeUnnamed,
       ReleaseDome, Inv,
       TypeOK
  <1>3. /\ worker' \in [at : {"idle", "asked", "leased"}, run : Runs \cup {NoRun}]
        /\ {domeCurrent', pending'} \subseteq Runs \cup {NoRun}
    BY DEF DomeWorks, TakeDome, LeaseDome, EnsureDome, EnsureDomeFails, DomeSpoils, DomeUnnamed,
       ReleaseDome, Rest,
       Inv, TypeOK
  <1>4. domes' \subseteq Runs
    <2>1. CASE EnsureDome \/ DomeUnnamed
      <3>1. worker.run \in Runs
        BY <2>1 DEF EnsureDome, DomeUnnamed, Asked
      <3> QED BY <2>1, <3>1 DEF EnsureDome, DomeUnnamed, Inv, TypeOK
    <2> QED BY <2>1 DEF DomeWorks, TakeDome, LeaseDome, EnsureDomeFails, DomeSpoils, Inv,
           TypeOK
  <1>6. volume' \in [Runs -> {"none", "bound", "spoiled"}]
    BY DEF DomeWorks, TakeDome, LeaseDome, EnsureDome, EnsureDomeFails, DomeSpoils,
       DomeUnnamed, Inv, TypeOK
  <1>5. Based' /\ Bare' /\ Clear'
    BY <1>1, <1>2, HoldersFacts
  <1> QED BY <1>1, <1>2, <1>3, <1>4, <1>5, <1>6 DEF Inv, TypeOK

LEMMA CalculatesInv ==
  ASSUME Inv, NEW c \in Readers, Calculates(c)
  PROVE  Inv'
  <1>1. UNCHANGED <<proc, dirs, manifest, files, upstream, current, lock, worker, domes,
                    domeCurrent, volume, pending, troubles>>
    BY DEF Calculates, Admit, OpenVolume, CloseVolume
  <1>2. /\ lease' \in [Runs -> SUBSET ({DomeWorker} \cup Readers)]
        /\ \A r \in Runs : Exclusive(r) => lease'[r] \subseteq lease[r]
    <2>1. lease \in [Runs -> SUBSET ({DomeWorker} \cup Readers)]
      BY DEF Inv, TypeOK
    <2>2. CASE lease' = lease
      BY <2>1, <2>2
    <2>3. CASE /\ lease' = [lease EXCEPT ![reader[c].run] = @ \cup {c}]
               /\ ~Exclusive(reader[c].run)
      BY <2>1, <2>3
    <2>4. CASE lease' = [lease EXCEPT ![reader[c].run] = @ \ {c}]
      BY <2>1, <2>4
    <2> QED BY <2>2, <2>3, <2>4 DEF Calculates, Admit, OpenVolume, CloseVolume
  <1>3. reader' \in [Readers -> [at : {"idle", "asked", "reading"}, run : Runs \cup {NoRun}]]
    <2>1. /\ reader \in [Readers -> [at : {"idle", "asked", "reading"}, run : Runs \cup {NoRun}]]
          /\ domes \subseteq Runs
      BY DEF Inv, TypeOK
    <2>2. Rest \in [at : {"idle", "asked", "reading"}, run : Runs \cup {NoRun}]
      BY DEF Rest
    <2>3. CASE Admit(c)
      BY <2>1, <2>3 DEF Admit
    <2>4. CASE reader' = [reader EXCEPT ![c].at = "reading"]
      BY <2>1, <2>4
    <2>5. CASE reader' = [reader EXCEPT ![c] = Rest]
      BY <2>1, <2>2, <2>5
    <2> QED BY <2>3, <2>4, <2>5 DEF Calculates, OpenVolume, CloseVolume
  <1>4. Based' /\ Bare' /\ Clear'
    BY <1>1, <1>2, HoldersFacts
  <1> QED BY <1>1, <1>2, <1>3, <1>4 DEF Inv, TypeOK

LEMMA NextInv == Inv /\ Asked /\ [Next]_vars => Inv'
  <1> SUFFICES ASSUME Inv, Asked, [Next]_vars PROVE Inv'
    OBVIOUS
  <1>1. CASE \E p \in Processes : Refreshes(p)
    BY <1>1, SyncFindsInv, SyncBeginsInv, SyncEndsInv, AugmentBeginsInv, MakeRoomInv, PlaceInv, WriteInv,
       LockedOutInv, FailsInv DEF Refreshes
  <1>2. CASE Prunes
    BY <1>2, RemoveDomeInv, RemoveRunInv, SkipLeasedInv, ListOrphansInv, RemoveOrphanInv,
       CycleEndsInv DEF Prunes
  <1>3. CASE UNCHANGED vars
    BY <1>3 DEF Inv, TypeOK, Based, Bare, Clear, At, Victim, vars
  <1> QED BY <1>1, <1>2, <1>3, AdvanceInv, ProbeInv, CommandInv, CommandPublishesInv,
         PublishInv, PruneFailsInv, CrashInv, DomeWorksInv, CalculatesInv DEF Next

------------------------------------------------------------------------------
(* Why what is current goes on serving.  Refreshes do not overlap, and at    *)
(* least two runs are kept: with one, a command may publish again the run    *)
(* that the cleaner has just begun to remove.                               *)

RefreshPlaces == {"sync", "syncing", "check", "placing", "placed"}

\* At most one process refreshes the store, and a command no older run than the
\* published one.
Alone ==
  /\ \A p, q \in Processes : Refreshing(p) /\ Refreshing(q) => p = q
  /\ \A p \in Commands : Refreshing(p) => current <= proc[p].run

\* A refresh has the manifest of its run in memory, and its bundle in place
\* before it writes.
InMemory ==
  \A p \in Processes :
    /\ proc[p].at \in {"check", "placing", "placed"} =>
         manifest[proc[p].run] = proc[p].mine /\ proc[p].mine # None
    /\ proc[p].at \in {"placing", "placed"} => proc[p].mine # Parts
    /\ proc[p].at = "placed" => NextPart(proc[p].mine) \in files[proc[p].run]

\* Nothing is on disk that the provider has not completed, and at most one run is
\* newer than the one the scheduler refreshes.
Ahead ==
  /\ \A d \in dirs : d <= upstream
  /\ \A p \in Processes : Refreshing(p) => proc[p].run <= upstream
  /\ Refreshing(Serve) => \A d \in dirs : d <= proc[Serve].run + 1

\* Runs whose manifest lists what is no longer there, or that the cleaner is
\* about to remove.
Broken(listed, present) == listed # None /\ ~(listed \subseteq present)
Damaged(r) == Broken(manifest[r], files[r])
AtRisk(r) == Damaged(r) \/ (proc[Serve].at \in {"prune", "removing"} /\ r \in proc[Serve].todo)

\* They are older than anything that is published or refreshed, now or later.
Behind ==
  \A r \in Runs : AtRisk(r) =>
    /\ r < current /\ r + 2 <= upstream
    /\ \A p \in Processes : Refreshing(p) => r < proc[p].run

Orderly == Alone /\ InMemory /\ Ahead /\ Behind

LEMMA InitOrderly == Init => Orderly
  <1> SUFFICES ASSUME Init PROVE Orderly
    OBVIOUS
  <1>1. \A p \in Processes : proc[p].at = "idle"
    BY PlacesFacts DEF Init
  <1>2. Alone /\ InMemory
    BY <1>1, Names DEF Alone, InMemory, Refreshing
  <1>3. \A d \in dirs : d <= upstream
    BY DEF Init
  <1>4. Ahead
    BY <1>1, <1>3, Names DEF Ahead, Refreshing
  <1>5. \A r \in Runs : ~AtRisk(r)
    BY <1>1, Names DEF Init, AtRisk, Damaged, Broken
  <1> QED BY <1>2, <1>4, <1>5 DEF Orderly, Behind

\* Where the processes are after p has gone on.
LEMMA GoesFacts ==
  ASSUME Inv, NEW p \in Processes, NEW x, Goes(p, x)
  PROVE  /\ \A q \in Processes : proc'[q] = IF q = p THEN x ELSE proc[q]
         /\ \A q \in Processes : q # p => (Refreshing(q)' <=> Refreshing(q))
         /\ Refreshing(p)' <=> x.at \in RefreshPlaces
  <1>1. \A q \in Processes : proc'[q] = IF q = p THEN x ELSE proc[q]
    BY DEF Inv, TypeOK, Goes
  <1> QED BY <1>1 DEF Refreshing, RefreshPlaces

\* A run at work is none the cleaner damages.
LEMMA SafeRun ==
  ASSUME Inv, Orderly, NEW p \in Processes, Refreshing(p)
  PROVE  proc[p].run \in Runs /\ ~AtRisk(proc[p].run)
  <1>1. proc[p].run \in Runs
    BY DEF Inv, Based, Refreshing
  <1> QED BY <1>1 DEF Orderly, Behind, Runs

\* A process ends its refresh, or the cleaner goes on.
LEMMA Leaves ==
  ASSUME Inv, Orderly, NEW p \in Processes, NEW x \in ProcRecord, Goes(p, x),
         x.at \notin RefreshPlaces,
         x.at \in {"prune", "removing"} =>
           /\ p = Serve /\ proc[Serve].at \in {"prune", "removing"}
           /\ x.todo \subseteq proc[Serve].todo,
         upstream' = upstream, current' = current, dirs' \subseteq dirs,
         \A q \in Processes \ {p} : Refreshing(q) =>
           /\ manifest'[proc[q].run] = manifest[proc[q].run]
           /\ files'[proc[q].run] = files[proc[q].run],
         \A r \in Runs : Damaged(r)' => AtRisk(r)
  PROVE  Orderly'
  <1>1. /\ \A q \in Processes : proc'[q] = IF q = p THEN x ELSE proc[q]
        /\ \A q \in Processes : Refreshing(q)' => q # p /\ Refreshing(q)
    BY GoesFacts
  <1>2. Alone'
    BY <1>1, Names DEF Alone, Orderly
  <1>3. InMemory'
    <2> SUFFICES ASSUME NEW q \in Processes
        PROVE  /\ proc'[q].at \in {"check", "placing", "placed"} =>
                    manifest'[proc'[q].run] = proc'[q].mine /\ proc'[q].mine # None
               /\ proc'[q].at \in {"placing", "placed"} => proc'[q].mine # Parts
               /\ proc'[q].at = "placed" => NextPart(proc'[q].mine) \in files'[proc'[q].run]
      BY DEF InMemory
    <2>1. CASE q = p
      BY <1>1, <2>1 DEF RefreshPlaces
    <2>2. CASE q # p /\ ~Refreshing(q)
      BY <1>1, <2>2 DEF Refreshing
    <2>3. CASE q # p /\ Refreshing(q)
      <3>1. proc'[q] = proc[q] /\ manifest'[proc[q].run] = manifest[proc[q].run]
            /\ files'[proc[q].run] = files[proc[q].run]
        BY <1>1, <2>3
      <3> QED BY <3>1 DEF Orderly, InMemory
    <2> QED BY <2>1, <2>2, <2>3
  <1>4. Ahead'
    BY <1>1, Names DEF Ahead, Orderly
  <1>5. \A r \in Runs : AtRisk(r)' => AtRisk(r)
    <2> SUFFICES ASSUME NEW r \in Runs, AtRisk(r)' PROVE AtRisk(r)
      OBVIOUS
    <2>1. Damaged(r)' \/ (proc'[Serve].at \in {"prune", "removing"} /\ r \in proc'[Serve].todo)
      BY DEF AtRisk
    <2>2. proc'[Serve] = IF p = Serve THEN x ELSE proc[Serve]
      BY <1>1, Names
    <2> QED BY <2>1, <2>2 DEF AtRisk
  <1>6. Behind'
    BY <1>1, <1>5 DEF Behind, Orderly
  <1> QED BY <1>2, <1>3, <1>4, <1>6 DEF Orderly

\* A refresh goes on with its run.
LEMMA Continues ==
  ASSUME Inv, Orderly, NEW p \in Processes, Refreshing(p), NEW x \in ProcRecord, Goes(p, x),
         x.at \in RefreshPlaces, x.run = proc[p].run,
         upstream' = upstream, current' = current, dirs' \subseteq dirs \cup {x.run},
         \A r \in Runs \ {x.run} : manifest'[r] = manifest[r] /\ files'[r] = files[r],
         ~Broken(manifest'[x.run], files'[x.run]),
         x.at \in {"check", "placing", "placed"} => manifest'[x.run] = x.mine /\ x.mine # None,
         x.at \in {"placing", "placed"} => x.mine # Parts,
         x.at = "placed" => NextPart(x.mine) \in files'[x.run]
  PROVE  Orderly'
  <1>1. /\ \A q \in Processes : proc'[q] = IF q = p THEN x ELSE proc[q]
        /\ \A q \in Processes : q # p => ~Refreshing(q) /\ ~Refreshing(q)'
        /\ Refreshing(p)'
    BY GoesFacts DEF Orderly, Alone
  <1>2. Alone'
    BY <1>1, Names DEF Alone, Orderly
  <1>3. InMemory'
    BY <1>1 DEF InMemory, Refreshing
  <1>4. x.run \in Runs /\ ~AtRisk(x.run) /\ x.run <= upstream
    BY SafeRun DEF Orderly, Ahead
  <1>5. \A d \in dirs' : d \in dirs \/ d = x.run
    OBVIOUS
  <1>6. Ahead'
    <2>1. \A d \in dirs' : d <= upstream'
      BY <1>4, <1>5 DEF Orderly, Ahead
    <2>2. \A q \in Processes : Refreshing(q)' => proc'[q].run <= upstream'
      BY <1>1, <1>4
    <2>3. Refreshing(Serve)' => \A d \in dirs' : d <= proc'[Serve].run + 1
      <3>1. Refreshing(Serve)' => p = Serve
        BY <1>1, Names
      <3>2. x.run <= x.run + 1
        BY <1>4 DEF Runs
      <3>3. Refreshing(Serve) => \A d \in dirs : d <= proc[Serve].run + 1
        BY DEF Orderly, Ahead
      <3> QED BY <1>1, <1>5, <3>1, <3>2, <3>3
    <2> QED BY <2>1, <2>2, <2>3 DEF Ahead
  <1>7. \A r \in Runs : AtRisk(r)' => AtRisk(r)
    <2> SUFFICES ASSUME NEW r \in Runs, AtRisk(r)' PROVE AtRisk(r)
      OBVIOUS
    <2>1. CASE proc'[Serve].at \in {"prune", "removing"} /\ r \in proc'[Serve].todo
      <3>1. p # Serve
        BY <1>1, <2>1, Names DEF RefreshPlaces
      <3>2. proc'[Serve] = proc[Serve]
        BY <1>1, <3>1, Names
      <3> QED BY <2>1, <3>2 DEF AtRisk
    <2>2. CASE Damaged(r)'
      <3>1. r # x.run
        BY <2>2 DEF Damaged
      <3> QED BY <2>2, <3>1 DEF AtRisk, Damaged
    <2> QED BY <2>1, <2>2 DEF AtRisk
  <1>8. Behind'
    BY <1>1, <1>7 DEF Behind, Orderly
  <1> QED BY <1>2, <1>3, <1>6, <1>8 DEF Orderly

\* A damaged run is one at risk.
LEMMA DamagedFacts == \A r \in Runs : Damaged(r) => AtRisk(r)
  BY DEF AtRisk

\* The steps of a refresh.
LEMMA SyncFindsOrderly ==
  ASSUME Inv, Orderly, NEW p \in Processes, SyncFinds(p)
  PROVE  Orderly'
  <1> DEFINE r == proc[p].run
             m == manifest[proc[p].run]
             x == [proc[p] EXCEPT !.at = "check", !.mine = m]
  <1>1. proc[p] \in ProcRecord /\ Refreshing(p) /\ {"syncing", "check", "placing", "placed"} \subseteq ProcessPlaces
    BY DEF Inv, TypeOK, SyncFinds, At, ProcRecord, Refreshing, ProcessPlaces
  <1>2. /\ r \in Runs /\ ~Damaged(r)
    BY <1>1, SafeRun, DamagedFacts
  <1>3. m \in SUBSET Parts
    BY <1>1, <1>2 DEF Inv, TypeOK, SyncFinds, ProcRecord, Orderly, InMemory, At
  <1>4. Goes(p, x)
    BY DEF SyncFinds, Goes
  <1> HIDE DEF m
  <1>5. /\ x \in ProcRecord /\ x.at = "check" /\ x.run = r
        /\ x.mine = m
    BY <1>1, <1>3 DEF ProcRecord
  <1> HIDE DEF x
  <1>6. UNCHANGED <<upstream, dirs, manifest, files, current>> /\ manifest[r] # None
    BY DEF SyncFinds
  <1>7. m = manifest[r]
    BY DEF m
  <1>8. ~Broken(manifest'[r], files'[r])
    BY <1>2, <1>6 DEF Damaged, Broken
  <1>9. x.at \in RefreshPlaces
    BY <1>5 DEF RefreshPlaces
  <1> HIDE DEF r
  <1> QED BY <1>1, <1>4, <1>5, <1>6, <1>7, <1>8, <1>9, Continues DEF r

LEMMA SyncBeginsOrderly ==
  ASSUME Inv, Orderly, NEW p \in Processes, SyncBegins(p)
  PROVE  Orderly'
  <1> DEFINE r == proc[p].run
             x == [proc[p] EXCEPT !.at = "syncing"]
  <1>1. proc[p] \in ProcRecord /\ Refreshing(p) /\ {"syncing", "check", "placing", "placed"} \subseteq ProcessPlaces
    BY DEF Inv, TypeOK, SyncBegins, At, ProcRecord, Refreshing, ProcessPlaces
  <1>2. /\ r \in Runs /\ ~Damaged(r)
    BY <1>1, SafeRun, DamagedFacts
  <1>4. Goes(p, x)
    BY DEF SyncBegins, Goes
  <1>5. /\ x \in ProcRecord /\ x.at = "syncing" /\ x.run = r
        /\ x.mine = proc[p].mine
    BY <1>1 DEF ProcRecord
  <1> HIDE DEF x
  <1>6. UNCHANGED <<upstream, dirs, manifest, files, current>>
    BY DEF SyncBegins
  <1>8. ~Broken(manifest'[r], files'[r])
    BY <1>2, <1>6 DEF Damaged, Broken
  <1>9. x.at \in RefreshPlaces
    BY <1>5 DEF RefreshPlaces
  <1> HIDE DEF r
  <1> QED BY <1>1, <1>4, <1>5, <1>6, <1>8, <1>9, Continues DEF r

LEMMA SyncEndsOrderly ==
  ASSUME Inv, Orderly, NEW p \in Processes, SyncEnds(p)
  PROVE  Orderly'
  <1> DEFINE r == proc[p].run
             m == {"wind"}
             x == [proc[p] EXCEPT !.at = "check", !.mine = m]
  <1>1. proc[p] \in ProcRecord /\ Refreshing(p) /\ {"syncing", "check", "placing", "placed"} \subseteq ProcessPlaces
    BY DEF Inv, TypeOK, SyncEnds, At, ProcRecord, Refreshing, ProcessPlaces
  <1>2. /\ r \in Runs /\ ~Damaged(r)
    BY <1>1, SafeRun, DamagedFacts
  <1>3. m \in SUBSET Parts
    BY <1>1, <1>2, NextPartFacts DEF Inv, TypeOK, SyncEnds, ProcRecord, Orderly, InMemory, At
  <1>4. Goes(p, x)
    BY DEF SyncEnds, Goes
  <1> HIDE DEF m
  <1>5. /\ x \in ProcRecord /\ x.at = "check" /\ x.run = r
        /\ x.mine = m
    BY <1>1, <1>3 DEF ProcRecord
  <1> HIDE DEF x
  <1>6. /\ upstream' = upstream /\ current' = current /\ dirs' = dirs \cup {r}
        /\ \A q \in Runs \ {r} : manifest'[q] = manifest[q] /\ files'[q] = files[q]
        /\ manifest'[r] = m /\ files'[r] = m
    BY <1>2 DEF SyncEnds, Inv, TypeOK, m
  <1>7. m # None
    BY DEF m, None
  <1>8. ~Broken(manifest'[r], files'[r])
    BY <1>6 DEF Broken
  <1>9. x.at \in RefreshPlaces
    BY <1>5 DEF RefreshPlaces
  <1> HIDE DEF r
  <1> QED BY <1>1, <1>4, <1>5, <1>6, <1>7, <1>8, <1>9, Continues DEF r

LEMMA AugmentBeginsOrderly ==
  ASSUME Inv, Orderly, NEW p \in Processes, AugmentBegins(p)
  PROVE  Orderly'
  <1> DEFINE r == proc[p].run
             x == [proc[p] EXCEPT !.at = "placing"]
  <1>1. proc[p] \in ProcRecord /\ Refreshing(p) /\ {"syncing", "check", "placing", "placed"} \subseteq ProcessPlaces
    BY DEF Inv, TypeOK, AugmentBegins, At, ProcRecord, Refreshing, ProcessPlaces
  <1>2. /\ r \in Runs /\ ~Damaged(r)
    BY <1>1, SafeRun, DamagedFacts
  <1>4. Goes(p, x)
    BY DEF AugmentBegins, Goes
  <1>5. /\ x \in ProcRecord /\ x.at = "placing" /\ x.run = r
        /\ x.mine = proc[p].mine
    BY <1>1 DEF ProcRecord
  <1> HIDE DEF x
  <1>6. /\ upstream' = upstream /\ current' = current /\ dirs' = dirs \cup {r}
        /\ manifest' = manifest /\ files' = files /\ proc[p].mine # Parts
    BY DEF AugmentBegins
  <1>7. manifest[r] = proc[p].mine /\ proc[p].mine # None
    BY DEF AugmentBegins, At, Orderly, InMemory
  <1>8. ~Broken(manifest'[r], files'[r])
    BY <1>2, <1>6 DEF Damaged, Broken
  <1>9. x.at \in RefreshPlaces
    BY <1>5 DEF RefreshPlaces
  <1> HIDE DEF r
  <1> QED BY <1>1, <1>4, <1>5, <1>6, <1>7, <1>8, <1>9, Continues DEF r

LEMMA MakeRoomOrderly ==
  ASSUME Inv, Orderly, NEW p \in Processes, MakeRoom(p)
  PROVE  Orderly'
  <1> DEFINE r == proc[p].run
             x == proc[p]
  <1>1. x \in ProcRecord /\ Refreshing(p) /\ x.at = "placing" /\ x.run = r
    BY DEF Inv, TypeOK, MakeRoom, At, ProcRecord, Refreshing
  <1>2. r \in Runs /\ ~Damaged(r)
    BY <1>1, SafeRun, DamagedFacts
  <1>3. Goes(p, x)
    BY DEF MakeRoom, Goes, Inv, TypeOK
  <1>4. manifest[r] = x.mine /\ x.mine # None /\ x.mine # Parts
    BY <1>1 DEF Orderly, InMemory
  <1>5. NextPart(x.mine) \notin manifest[r]
    <2>1. x.mine \in SUBSET Parts
      BY <1>2, <1>4 DEF Inv, TypeOK
    <2> QED BY <1>4, <2>1, NextPartFacts
  <1>6. /\ upstream' = upstream /\ current' = current /\ dirs' = dirs
        /\ manifest' = manifest /\ \A q \in Runs \ {r} : files'[q] = files[q]
        /\ files'[r] = files[r] \ {NextPart(x.mine)}
    BY <1>2 DEF MakeRoom, Inv, TypeOK
  <1>7. ~Broken(manifest'[r], files'[r])
    BY <1>2, <1>5, <1>6 DEF Damaged, Broken
  <1>8. x.at \in RefreshPlaces
    BY <1>1 DEF RefreshPlaces
  <1> HIDE DEF r, x
  <1> QED BY <1>1, <1>3, <1>4, <1>6, <1>7, <1>8, Continues DEF r, x

LEMMA PlaceOrderly ==
  ASSUME Inv, Orderly, NEW p \in Processes, Place(p)
  PROVE  Orderly'
  <1> DEFINE r == proc[p].run
             x == [proc[p] EXCEPT !.at = "placed"]
  <1>1. proc[p] \in ProcRecord /\ Refreshing(p) /\ {"syncing", "check", "placing", "placed"} \subseteq ProcessPlaces
    BY DEF Inv, TypeOK, Place, At, ProcRecord, Refreshing, ProcessPlaces
  <1>2. /\ r \in Runs /\ ~Damaged(r)
    BY <1>1, SafeRun, DamagedFacts
  <1>4. Goes(p, x)
    BY DEF Place, Goes
  <1>5. /\ x \in ProcRecord /\ x.at = "placed" /\ x.run = r
        /\ x.mine = proc[p].mine
    BY <1>1 DEF ProcRecord
  <1> HIDE DEF x
  <1>6. /\ upstream' = upstream /\ current' = current /\ dirs' = dirs
        /\ manifest' = manifest /\ \A q \in Runs \ {r} : files'[q] = files[q]
        /\ files'[r] = files[r] \cup {NextPart(proc[p].mine)}
    BY <1>2 DEF Place, Inv, TypeOK
  <1>7. manifest[r] = proc[p].mine /\ proc[p].mine # None /\ proc[p].mine # Parts
    BY DEF Place, At, Orderly, InMemory
  <1>8. ~Broken(manifest'[r], files'[r])
    BY <1>2, <1>6 DEF Damaged, Broken
  <1>9. x.at \in RefreshPlaces
    BY <1>5 DEF RefreshPlaces
  <1> HIDE DEF r
  <1> QED BY <1>1, <1>4, <1>5, <1>6, <1>7, <1>8, <1>9, Continues DEF r

LEMMA WriteOrderly ==
  ASSUME Inv, Orderly, NEW p \in Processes, Write(p)
  PROVE  Orderly'
  <1> DEFINE r == proc[p].run
             m == proc[p].mine \cup {NextPart(proc[p].mine)}
             x == [proc[p] EXCEPT !.at = "check", !.mine = m]
  <1>1. proc[p] \in ProcRecord /\ Refreshing(p) /\ {"syncing", "check", "placing", "placed"} \subseteq ProcessPlaces
    BY DEF Inv, TypeOK, Write, At, ProcRecord, Refreshing, ProcessPlaces
  <1>2. /\ r \in Runs /\ ~Damaged(r)
    BY <1>1, SafeRun, DamagedFacts
  <1>3. m \in SUBSET Parts
    BY <1>1, <1>2, NextPartFacts DEF Inv, TypeOK, Write, ProcRecord, Orderly, InMemory, At
  <1>4. Goes(p, x)
    BY DEF Write, Goes
  <1> HIDE DEF m
  <1>5. /\ x \in ProcRecord /\ x.at = "check" /\ x.run = r
        /\ x.mine = m
    BY <1>1, <1>3 DEF ProcRecord
  <1> HIDE DEF x
  <1>6. /\ upstream' = upstream /\ current' = current /\ dirs' = dirs
        /\ files' = files /\ \A q \in Runs \ {r} : manifest'[q] = manifest[q]
        /\ manifest'[r] = m
    BY <1>2 DEF Write, Inv, TypeOK, m
  <1>7. m # None
    BY <1>3 DEF None, Parts
  <1>8. ~Broken(manifest'[r], files'[r])
    <2>1. /\ manifest[r] = proc[p].mine /\ proc[p].mine # None
          /\ NextPart(proc[p].mine) \in files[r]
      BY DEF Write, At, Orderly, InMemory
    <2>2. m \subseteq files[r]
      BY <1>2, <2>1 DEF Damaged, Broken, m
    <2> QED BY <1>6, <2>2 DEF Broken
  <1>9. x.at \in RefreshPlaces
    BY <1>5 DEF RefreshPlaces
  <1> HIDE DEF r
  <1> QED BY <1>1, <1>4, <1>5, <1>6, <1>7, <1>8, <1>9, Continues DEF r

LEMMA LockedOutOrderly ==
  ASSUME Inv, Orderly, NEW p \in Processes, LockedOut(p)
  PROVE  Orderly'
  <1>1. PICK x \in ProcRecord : Goes(p, x) /\ x.at \in {"idle", "gone"}
    BY QuitFacts DEF LockedOut
  <1>2. UNCHANGED <<upstream, dirs, manifest, files, current>>
    BY DEF LockedOut
  <1>3. \A r \in Runs : Damaged(r)' => AtRisk(r)
    BY <1>2 DEF Damaged, AtRisk
  <1> QED BY <1>1, <1>2, <1>3, Leaves DEF RefreshPlaces

LEMMA FailsOrderly ==
  ASSUME Inv, Orderly, NEW p \in Processes, Fails(p)
  PROVE  Orderly'
  <1> DEFINE r == proc[p].run
  <1>1. PICK x \in ProcRecord : Goes(p, x) /\ x.at \in {"idle", "gone"}
    BY QuitFacts DEF Fails
  <1>2. UNCHANGED <<upstream, dirs, manifest, current>> /\ Refreshing(p)
    BY DEF Fails, Refreshing, At
  <1>3. \A q \in Processes \ {p} : ~Refreshing(q)
    BY <1>2 DEF Orderly, Alone
  <1>4. \A q \in Runs : Damaged(q)' => AtRisk(q)
    <2>1. CASE files' = files
      BY <1>2, <2>1 DEF Damaged, AtRisk
    <2>2. CASE /\ At(p, "placed")
               /\ files' = [files EXCEPT ![r] = @ \ {NextPart(proc[p].mine)}]
      <3>1. r \in Runs /\ ~Damaged(r)
        BY <1>2, SafeRun, DamagedFacts
      <3>2. manifest[r] = proc[p].mine /\ proc[p].mine # Parts /\ proc[p].mine # None
        BY <2>2 DEF At, Orderly, InMemory
      <3>3. NextPart(proc[p].mine) \notin manifest[r]
        <4>1. proc[p].mine \in SUBSET Parts
          BY <3>1, <3>2 DEF Inv, TypeOK
        <4> QED BY <3>2, <4>1, NextPartFacts
      <3>4. /\ files'[r] = files[r] \ {NextPart(proc[p].mine)}
            /\ \A q \in Runs \ {r} : files'[q] = files[q]
        BY <2>2, <3>1 DEF Inv, TypeOK
      <3>5. ~Broken(manifest'[r], files'[r])
        BY <1>2, <3>1, <3>3, <3>4 DEF Damaged, Broken
      <3> QED BY <1>2, <3>4, <3>5 DEF Damaged, Broken, AtRisk
    <2> QED BY <2>1, <2>2 DEF Fails
  <1> QED BY <1>1, <1>2, <1>3, <1>4, Leaves DEF RefreshPlaces

\* The steps of the cleaner, which is not at a refresh.
LEMMA CleanerFacts ==
  ASSUME Inv, Orderly, At(Serve, "removing")
  PROVE  /\ Victim \in Runs /\ AtRisk(Victim)
         /\ \A q \in Processes : Refreshing(q) => proc[q].run \in Runs \ {Victim}
  <1>1. Victim \in Runs /\ Victim \in proc[Serve].todo
    BY VictimFacts DEF Inv, Clear
  <1>2. AtRisk(Victim)
    BY <1>1 DEF AtRisk, At
  <1> HIDE DEF Victim
  <1> QED BY <1>1, <1>2, SafeRun

LEMMA RemoveRunOrderly == Inv /\ Orderly /\ RemoveRun => Orderly'
  <1> SUFFICES ASSUME Inv, Orderly, RemoveRun PROVE Orderly'
    OBVIOUS
  <1> DEFINE T == proc[Serve].todo \ {Victim}
             x == [proc[Serve] EXCEPT !.at = "prune", !.todo = T]
  <1>1. proc[Serve] \in ProcRecord /\ T \in SUBSET Runs /\ T \subseteq proc[Serve].todo
    BY Names DEF Inv, TypeOK, RemoveRun, ProcRecord
  <1>2. Goes(Serve, x)
    BY Names DEF RemoveRun, Goes, Inv, TypeOK
  <1> HIDE DEF T
  <1>3. x \in ProcRecord /\ x.at = "prune" /\ x.todo = T
    BY <1>1 DEF ProcRecord, ProcessPlaces
  <1> HIDE DEF x
  <1>4. /\ upstream' = upstream /\ current' = current /\ dirs' \subseteq dirs
        /\ manifest' = [manifest EXCEPT ![Victim] = None]
        /\ files' = [files EXCEPT ![Victim] = {}]
        /\ At(Serve, "removing")
    BY DEF RemoveRun
  <1>5. /\ Victim \in Runs /\ AtRisk(Victim)
        /\ \A q \in Processes : Refreshing(q) => proc[q].run \in Runs \ {Victim}
    BY <1>4, CleanerFacts
  <1> HIDE DEF Victim
  <1>6. \A r \in Runs \ {Victim} : manifest'[r] = manifest[r] /\ files'[r] = files[r]
    BY <1>4, <1>5 DEF Inv, TypeOK
  <1>7. \A r \in Runs : Damaged(r)' => AtRisk(r)
    BY <1>5, <1>6 DEF Damaged, AtRisk
  <1>8. x.at \notin RefreshPlaces /\ proc[Serve].at \in {"prune", "removing"}
    BY <1>3, <1>4 DEF RefreshPlaces, At
  <1> QED BY <1>1, <1>2, <1>3, <1>4, <1>5, <1>6, <1>7, <1>8, Names, Leaves

\* The steps of the cleaner that leave the runs alone.
LEMMA CleansOrderly ==
  ASSUME Inv, Orderly, RemoveDome \/ SkipLeased \/ ListOrphans \/ RemoveOrphan \/ CycleEnds
  PROVE  Orderly'
  <1>1. UNCHANGED <<upstream, dirs, manifest, files, current>>
    BY DEF RemoveDome, SkipLeased, ListOrphans, RemoveOrphan, CycleEnds
  <1>2. \E x \in ProcRecord :
          /\ Goes(Serve, x) /\ x.at \notin RefreshPlaces
          /\ x.at \in {"prune", "removing"} =>
               proc[Serve].at \in {"prune", "removing"} /\ x.todo \subseteq proc[Serve].todo
    <2> DEFINE y == proc[Serve]
               T == y.todo \ {Victim}
               K == domes \ y.kept
    <2>1. y \in ProcRecord /\ T \in SUBSET Runs /\ K \in SUBSET Runs /\ T \subseteq y.todo
      BY Names DEF Inv, TypeOK, ProcRecord
    <2>2. CASE RemoveDome
      <3> DEFINE x == [y EXCEPT !.at = "removing"]
      <3>1. Goes(Serve, x) /\ y.at \in {"prune", "removing"}
        BY <2>2 DEF RemoveDome, Goes, At
      <3> HIDE DEF y
      <3>2. x \in ProcRecord /\ x.at = "removing" /\ x.todo = y.todo
        BY <2>1 DEF ProcRecord, ProcessPlaces
      <3> HIDE DEF x
      <3> QED BY <3>1, <3>2 DEF RefreshPlaces, y
    <2>3. CASE SkipLeased \/ RemoveOrphan
      <3> DEFINE x == [y EXCEPT !.todo = T]
      <3>1. Goes(Serve, x) /\ y.at \in {"prune", "orphans"}
        BY <2>3, Names DEF SkipLeased, RemoveOrphan, Dropping, Goes, At, Inv, TypeOK
      <3> HIDE DEF y, T
      <3>2. x \in ProcRecord /\ x.at = y.at /\ x.todo = T
        BY <2>1 DEF ProcRecord
      <3> HIDE DEF x
      <3> QED BY <2>1, <3>1, <3>2 DEF RefreshPlaces, y
    <2>4. CASE ListOrphans
      <3> DEFINE x == [y EXCEPT !.at = "orphans", !.todo = K]
      <3>1. Goes(Serve, x)
        BY <2>4, Names DEF ListOrphans, Goes, Inv, TypeOK
      <3> HIDE DEF y, K
      <3>2. x \in ProcRecord /\ x.at = "orphans"
        BY <2>1 DEF ProcRecord, ProcessPlaces
      <3> HIDE DEF x
      <3> QED BY <3>1, <3>2 DEF RefreshPlaces
    <2>5. CASE CycleEnds
      BY <2>5, PlacesFacts DEF CycleEnds, Goes, RefreshPlaces
    <2> QED BY <2>2, <2>3, <2>4, <2>5
  <1>3. \A r \in Runs : Damaged(r)' => AtRisk(r)
    BY <1>1 DEF Damaged, AtRisk
  <1> QED BY <1>1, <1>2, <1>3, Names, Leaves

LEMMA HalfRemovedOrderly ==
  ASSUME Inv, Orderly, HalfRemoved, Goes(Serve, Idle),
         UNCHANGED <<upstream, dirs, current>>
  PROVE  Orderly'
  <1>1. \A q \in Processes : Refreshing(q) =>
          manifest'[proc[q].run] = manifest[proc[q].run] /\ files'[proc[q].run] = files[proc[q].run]
    <2> SUFFICES ASSUME NEW q \in Processes, Refreshing(q)
        PROVE  /\ manifest'[proc[q].run] = manifest[proc[q].run]
               /\ files'[proc[q].run] = files[proc[q].run]
      OBVIOUS
    <2>1. proc[q].run \in Runs /\ ~Exclusive(proc[q].run)
      BY SafeRun, CleanerFacts DEF Exclusive
    <2> QED BY <2>1, HalfRemovedFacts
  <1>2. \A r \in Runs : Damaged(r)' => AtRisk(r)
    <2> SUFFICES ASSUME NEW r \in Runs, Damaged(r)' PROVE AtRisk(r)
      OBVIOUS
    <2>1. CASE Exclusive(r)
      BY <2>1, CleanerFacts DEF Exclusive
    <2>2. CASE ~Exclusive(r)
      <3>1. manifest'[r] = manifest[r] /\ files'[r] = files[r]
        BY <2>2, HalfRemovedFacts
      <3> QED BY <3>1 DEF Damaged, AtRisk
    <2> QED BY <2>1, <2>2
  <1> QED BY <1>1, <1>2, PlacesFacts, Names, Leaves DEF RefreshPlaces

\* A refresh begins with a run that is newer than all at risk.
LEMMA Begins ==
  ASSUME Inv, Orderly, NEW p \in Processes, ~Refreshing(p), NEW x \in ProcRecord,
         Goes(p, x), x.at \in RefreshPlaces, x.run \in Runs, x.run <= upstream,
         UNCHANGED <<upstream, dirs, manifest, files, current>>,
         \A q \in Processes : ~Refreshing(q),
         p \in Commands => current <= x.run,
         p = Serve => upstream <= x.run + 1,
         x.at \in {"sync", "check"},
         x.at = "check" => manifest[x.run] = x.mine /\ x.mine # None
  PROVE  Orderly'
  <1>1. /\ \A q \in Processes : proc'[q] = IF q = p THEN x ELSE proc[q]
        /\ \A q \in Processes : q # p => ~Refreshing(q)'
    BY GoesFacts
  <1>2. Alone'
    BY <1>1, Names DEF Alone, Orderly
  <1>3. InMemory'
    BY <1>1 DEF InMemory, Refreshing
  <1>4. Ahead'
    <2>1. \A d \in dirs' : d <= upstream'
      BY DEF Orderly, Ahead
    <2>2. \A q \in Processes : Refreshing(q)' => proc'[q].run <= upstream'
      BY <1>1
    <2>3. Refreshing(Serve)' => \A d \in dirs' : d <= proc'[Serve].run + 1
      <3>1. Refreshing(Serve)' => p = Serve
        BY <1>1, Names
      <3>2. \A d \in dirs : d \in Nat /\ d <= upstream
        BY DEF Orderly, Ahead, Inv, TypeOK, Runs
      <3>3. upstream \in Nat /\ x.run \in Nat
        BY DEF Inv, TypeOK, Runs
      <3>4. p = Serve => \A d \in dirs : d <= x.run + 1
        BY <3>2, <3>3
      <3> QED BY <1>1, <3>1, <3>4
    <2> QED BY <2>1, <2>2, <2>3 DEF Ahead
  <1>5. \A r \in Runs : AtRisk(r)' => AtRisk(r)
    <2> SUFFICES ASSUME NEW r \in Runs, AtRisk(r)' PROVE AtRisk(r)
      OBVIOUS
    <2>1. CASE proc'[Serve].at \in {"prune", "removing"} /\ r \in proc'[Serve].todo
      <3>1. p # Serve
        BY <1>1, <2>1, Names
      <3>2. proc'[Serve] = proc[Serve]
        BY <1>1, <3>1, Names
      <3> QED BY <2>1, <3>2 DEF AtRisk
    <2>2. CASE Damaged(r)'
      BY <2>2 DEF AtRisk, Damaged
    <2> QED BY <2>1, <2>2 DEF AtRisk
  <1>6. \A r \in Runs : AtRisk(r) => r < x.run
    <2> SUFFICES ASSUME NEW r \in Runs, AtRisk(r) PROVE r < x.run
      OBVIOUS
    <2>1. r < current /\ r + 2 <= upstream
      BY DEF Orderly, Behind
    <2>2. r \in Nat /\ upstream \in Nat /\ x.run \in Nat /\ current \in Nat
      BY DEF Inv, TypeOK, Runs, NoRun
    <2>3. CASE p = Serve
      BY <2>1, <2>2, <2>3
    <2>4. CASE p # Serve
      BY <2>1, <2>2, <2>4, Names
    <2> QED BY <2>3, <2>4
  <1>7. Behind'
    BY <1>1, <1>5, <1>6 DEF Behind, Orderly
  <1> QED BY <1>2, <1>3, <1>4, <1>7 DEF Orderly

LEMMA ProbeOrderly ==
  ASSUME ~Overlap, Inv, Orderly, NEW r \in Runs, Probe(r)
  PROVE  Orderly'
  <1>1. PICK x \in ProcRecord :
          /\ Goes(Serve, x) /\ x.run = r /\ x.at \in {"sync", "check"}
          /\ x.at = "check" => manifest[r] = x.mine /\ x.mine # None
    <2>1. CASE current = r /\ manifest[r] # None
      <3> DEFINE m == manifest[r]
                 x == [Idle EXCEPT !.at = "check", !.run = r, !.mine = m]
      <3>1. m \in {None} \cup SUBSET Parts
        BY DEF Inv, TypeOK
      <3> HIDE DEF m
      <3>2. x \in ProcRecord /\ x.run = r /\ x.at = "check" /\ x.mine = m
        BY <3>1, PlacesFacts DEF ProcRecord, ProcessPlaces
      <3>3. Goes(Serve, x)
        BY <2>1 DEF Probe, Goes, m
      <3> HIDE DEF x
      <3> QED BY <2>1, <3>2, <3>3 DEF m
    <2>2. CASE ~(current = r /\ manifest[r] # None)
      <3> DEFINE x == [Idle EXCEPT !.at = "sync", !.run = r]
      <3>1. x \in ProcRecord /\ x.run = r /\ x.at = "sync"
        BY PlacesFacts DEF ProcRecord, ProcessPlaces
      <3>2. Goes(Serve, x)
        BY <2>2 DEF Probe, Goes
      <3> HIDE DEF x
      <3> QED BY <3>1, <3>2
    <2> QED BY <2>1, <2>2
  <1>2. /\ UNCHANGED <<upstream, dirs, manifest, files, current>>
        /\ \A q \in Processes : ~Refreshing(q)
        /\ r <= upstream /\ upstream <= r + 1
    <2>1. r = upstream \/ r + 1 = upstream
      BY DEF Probe
    <2>2. r \in Nat /\ upstream \in Nat
      BY DEF Inv, TypeOK, Runs
    <2>3. r <= upstream /\ upstream <= r + 1
      BY <2>1, <2>2
    <2>4. \A q \in Processes : ~Refreshing(q)
      BY Names DEF Probe, At, Refreshing
    <2> QED BY <2>3, <2>4 DEF Probe
  <1>3. x.at \in RefreshPlaces
    BY <1>1 DEF RefreshPlaces
  <1> QED BY <1>1, <1>2, <1>3, Names, Begins

LEMMA CommandOrderly ==
  ASSUME ~Overlap, Inv, Orderly, NEW p \in Commands, NEW r \in Runs, Command(p, r)
  PROVE  Orderly'
  <1> DEFINE x == [Idle EXCEPT !.at = "sync", !.run = r]
  <1>1. x \in ProcRecord /\ x.run = r /\ x.at = "sync"
    BY PlacesFacts DEF ProcRecord, ProcessPlaces
  <1>2. Goes(p, x)
    BY DEF Command, Goes
  <1> HIDE DEF x
  <1>3. /\ UNCHANGED <<upstream, dirs, manifest, files, current>>
        /\ \A q \in Processes : ~Refreshing(q)
        /\ r <= upstream /\ current <= r
    <2>1. r \in Nat /\ current \in Nat
      BY DEF Inv, TypeOK, Runs, NoRun
    <2> QED BY <2>1 DEF Command
  <1>4. x.at \in RefreshPlaces
    BY <1>1 DEF RefreshPlaces
  <1> QED BY <1>1, <1>2, <1>3, <1>4, Names, Begins

\* What is published is whole.
LEMMA WholeManifest ==
  ASSUME Inv, Orderly, NEW p \in Processes, At(p, "check"), MayPublish(p)
  PROVE  LET r == proc[p].run
         IN  r \in Runs /\ manifest[r] = Parts /\ files[r] = Parts
  <1> DEFINE r == proc[p].run
  <1>1. r \in Runs /\ ~Damaged(r)
    BY SafeRun, DamagedFacts DEF At, Refreshing
  <1>2. manifest[r] = Parts
    BY DEF Orderly, InMemory, At, MayPublish
  <1>3. Parts # None
    BY DEF Parts, None
  <1>4. files[r] \in SUBSET Parts
    BY <1>1 DEF Inv, TypeOK
  <1> QED BY <1>1, <1>2, <1>3, <1>4 DEF Damaged, Broken

LEMMA CommandPublishesOrderly ==
  ASSUME Inv, Orderly, NEW p \in Commands, CommandPublishes(p)
  PROVE  Orderly'
  <1> DEFINE r == proc[p].run
  <1>1. p \in Processes /\ Refreshing(p) /\ p # Serve
    BY Names DEF CommandPublishes, At, Refreshing
  <1>2. PICK x \in ProcRecord : Goes(p, x) /\ x.at \in {"idle", "gone"}
    BY <1>1, QuitFacts DEF CommandPublishes
  <1>3. /\ UNCHANGED <<upstream, dirs, manifest, files>> /\ current' = r
    BY DEF CommandPublishes
  <1>4. /\ \A q \in Processes : proc'[q] = IF q = p THEN x ELSE proc[q]
        /\ \A q \in Processes : ~Refreshing(q)'
    BY <1>1, <1>2, GoesFacts DEF Orderly, Alone, RefreshPlaces
  <1>5. Alone' /\ InMemory' /\ Ahead'
    BY <1>3, <1>4, Names DEF Alone, InMemory, Ahead, Orderly, Refreshing
  <1>6. proc'[Serve] = proc[Serve]
    BY <1>1, <1>4, Names
  <1>7. \A q \in Runs : AtRisk(q)' => AtRisk(q)
    BY <1>3, <1>6 DEF AtRisk, Damaged
  <1>8. \A q \in Runs : AtRisk(q) => q < r
    BY <1>1 DEF Orderly, Behind
  <1>9. Behind'
    BY <1>3, <1>4, <1>7, <1>8 DEF Behind, Orderly
  <1> QED BY <1>5, <1>9 DEF Orderly

\* With two runs kept, the cleaner removes only what is older than the run just
\* published and another one.
LEMMA Removable ==
  ASSUME KeepRuns > 1, Inv, Orderly, Refreshing(Serve),
         NEW v \in dirs \ Retained(proc[Serve].run)
  PROVE  v < proc[Serve].run /\ v + 2 <= upstream
  <1> DEFINE r == proc[Serve].run
             newer == {o \in dirs \ {r} : o > v}
  <1>1. v # r /\ v \in dirs /\ ~(Cardinality(newer) < KeepRuns - 1)
    BY DEF Retained
  <1>2. newer # {}
    <2> SUFFICES ASSUME newer = {} PROVE FALSE
      OBVIOUS
    <2>1. Cardinality(newer) = 0
      BY FS_EmptySet
    <2> HIDE DEF newer
    <2> QED BY <1>1, <2>1, IconConstants
  <1>3. PICK o \in dirs : o # r /\ o > v
    BY <1>2
  <1>4. o <= r + 1 /\ o <= upstream /\ r <= upstream
    BY Names DEF Orderly, Ahead
  <1>5. o \in Nat /\ v \in Nat /\ r \in Nat /\ upstream \in Nat
    <2>1. dirs \subseteq Runs /\ upstream \in Runs /\ r \in Runs
      BY Names, SafeRun DEF Inv, TypeOK
    <2> QED BY <1>1, <2>1 DEF Runs
  <1> HIDE DEF r, newer
  <1>6. v < r
    BY <1>1, <1>3, <1>4, <1>5
  <1>7. v + 2 <= upstream
    BY <1>3, <1>4, <1>5, <1>6
  <1> QED BY <1>6, <1>7 DEF r

LEMMA PublishOrderly ==
  ASSUME KeepRuns > 1, Inv, Orderly, Publish
  PROVE  Orderly'
  <1> DEFINE r == proc[Serve].run
             K == Retained(r)
             T == dirs \ K
             x == [proc[Serve] EXCEPT !.at = "prune", !.todo = T, !.kept = K]
  <1>1. proc[Serve] \in ProcRecord /\ Refreshing(Serve) /\ r \in Runs
    BY Names, SafeRun DEF Inv, TypeOK, Publish, At, ProcRecord, Refreshing
  <1>2. \A v \in T : v < r /\ v + 2 <= upstream
    BY <1>1, Removable
  <1>3. T \in SUBSET Runs /\ K \in SUBSET Runs
    BY <1>1 DEF Inv, TypeOK, Retained
  <1>4. Goes(Serve, x)
    BY DEF Publish, Goes
  <1> HIDE DEF K, T
  <1>5. x \in ProcRecord /\ x.at = "prune" /\ x.todo = T
    BY <1>1, <1>3 DEF ProcRecord, ProcessPlaces
  <1> HIDE DEF x
  <1>6. UNCHANGED <<upstream, dirs, manifest, files>> /\ current' = r
    BY DEF Publish
  <1>7. /\ \A q \in Processes : proc'[q] = IF q = Serve THEN x ELSE proc[q]
        /\ \A q \in Processes : ~Refreshing(q)'
    BY <1>1, <1>4, <1>5, Names, GoesFacts DEF Orderly, Alone, RefreshPlaces
  <1>8. Alone' /\ InMemory' /\ Ahead'
    BY <1>6, <1>7, Names DEF Alone, InMemory, Ahead, Orderly, Refreshing
  <1>9. \A q \in Runs : AtRisk(q)' => AtRisk(q) \/ q \in T
    BY <1>5, <1>6, <1>7, Names DEF AtRisk, Damaged
  <1>10. \A q \in Runs : AtRisk(q) => q < r /\ q + 2 <= upstream
    BY <1>1, Names DEF Orderly, Behind
  <1>11. \A q \in Runs : AtRisk(q)' => q < r /\ q + 2 <= upstream
    BY <1>2, <1>9, <1>10
  <1>12. Behind'
    BY <1>6, <1>7, <1>11 DEF Behind
  <1> QED BY <1>8, <1>12 DEF Orderly

\* Steps of others.
LEMMA ElsewhereOrderly ==
  ASSUME Inv, Orderly, UNCHANGED <<dirs, manifest, files, current, proc>>,
         upstream' \in {upstream, upstream + 1}
  PROVE  Orderly'
  <1>1. upstream <= upstream' /\ upstream \in Nat /\ upstream' \in Nat
    BY DEF Inv, TypeOK, Runs
  <1>2. Alone' /\ InMemory'
    BY DEF Orderly, Alone, InMemory, Refreshing
  <1>3. \A d \in dirs : d \in Nat
    BY DEF Inv, TypeOK, Runs
  <1>4. \A p \in Processes : proc[p].run \in Nat
    BY DEF Inv, TypeOK, Runs, NoRun
  <1>5. Ahead'
    BY <1>1, <1>3, <1>4 DEF Orderly, Ahead, Refreshing
  <1>6. \A r \in Runs : (AtRisk(r)' => AtRisk(r)) /\ (r + 2 <= upstream => r + 2 <= upstream')
    BY <1>1 DEF AtRisk, Damaged, Runs
  <1>7. Behind'
    BY <1>6 DEF Orderly, Behind, Refreshing
  <1> QED BY <1>2, <1>5, <1>7 DEF Orderly

LEMMA NextOrderly ==
  ASSUME ~Overlap, KeepRuns > 1, Inv, Orderly, [Next]_vars
  PROVE  Orderly'
  <1>1. CASE \E p \in Processes : Refreshes(p)
    BY <1>1, SyncFindsOrderly, SyncBeginsOrderly, SyncEndsOrderly, AugmentBeginsOrderly,
       MakeRoomOrderly, PlaceOrderly, WriteOrderly, LockedOutOrderly, FailsOrderly DEF Refreshes
  <1>2. CASE Prunes
    BY <1>2, RemoveRunOrderly, CleansOrderly DEF Prunes
  <1>3. CASE PruneFails \/ Crash
    BY <1>3, HalfRemovedOrderly DEF PruneFails, Crash, Goes, domeVars
  <1>4. CASE \/ Advance \/ DomeWorks \/ \E c \in Readers : Calculates(c)
             \/ UNCHANGED vars
    <2>1. UNCHANGED <<dirs, manifest, files, current, proc>>
          /\ upstream' \in {upstream, upstream + 1}
      BY <1>4 DEF Advance, DomeWorks, TakeDome, LeaseDome, EnsureDome, EnsureDomeFails,
         DomeSpoils, DomeUnnamed, ReleaseDome, Calculates, Admit, OpenVolume, CloseVolume, vars
    <2> QED BY <2>1, ElsewhereOrderly
  <1> QED BY <1>1, <1>2, <1>3, <1>4, ProbeOrderly, CommandOrderly, CommandPublishesOrderly,
         PublishOrderly DEF Next

\* No step publishes what is not whole, or takes anything from what is.
LEMMA StepServes ==
  ASSUME Inv, Orderly, [Next]_vars
  PROVE  (current' # current => Serving') /\ (Serving => Serving')
  <1>1. ASSUME NEW p \in Processes, At(p, "check"), MayPublish(p), current' = proc[p].run,
               UNCHANGED <<manifest, files>>
        PROVE  Serving'
    BY <1>1, WholeManifest DEF Serving, Runs, NoRun
  <1>2. CASE Publish \/ \E p \in Commands : CommandPublishes(p)
    BY <1>1, <1>2, Names DEF Publish, CommandPublishes
  <1>3. CASE UNCHANGED <<current, manifest, files>>
    BY <1>3 DEF Serving
  <1>4. ASSUME current' = current,
               Serving => manifest'[current] = Parts /\ files'[current] = Parts
        PROVE  (current' # current => Serving') /\ (Serving => Serving')
    BY <1>4 DEF Serving
  <1>5. Serving => /\ current \in Runs /\ manifest[current] = Parts /\ files[current] = Parts
                   /\ Parts # None
    BY DEF Serving, Inv, TypeOK, Parts, None
  <1>6. ASSUME NEW p \in Processes, SyncEnds(p)
        PROVE  current' = current /\ (Serving => manifest'[current] = Parts /\ files'[current] = Parts)
    BY <1>5, <1>6 DEF SyncEnds, Inv, TypeOK, Bare
  <1>7. ASSUME NEW p \in Processes, Place(p)
        PROVE  current' = current /\ (Serving => manifest'[current] = Parts /\ files'[current] = Parts)
    <2>1. files' \in [Runs -> SUBSET Parts]
      BY <1>7, PlaceInv DEF Inv, TypeOK
    <2> QED BY <1>5, <1>7, <2>1 DEF Place, Inv, TypeOK
  <1>8. ASSUME NEW p \in Processes, MakeRoom(p) \/ Write(p) \/ Fails(p)
        PROVE  current' = current /\ (Serving => manifest'[current] = Parts /\ files'[current] = Parts)
    <2>1. CASE proc[p].run = current /\ (At(p, "placing") \/ At(p, "placed"))
      <3>1. manifest[current] # Parts
        BY <2>1 DEF Orderly, InMemory, At
      <3> QED BY <1>8, <3>1 DEF MakeRoom, Write, Fails, Serving
    <2>2. CASE ~(proc[p].run = current /\ (At(p, "placing") \/ At(p, "placed")))
      <3>1. (Write(p) => At(p, "placed")) /\ (MakeRoom(p) => At(p, "placing"))
        BY DEF MakeRoom, Write
      <3> QED BY <1>5, <1>8, <2>2, <3>1 DEF MakeRoom, Write, Fails, Inv, TypeOK
    <2> QED BY <2>1, <2>2
  <1>9. ASSUME At(Serve, "removing"), RemoveRun \/ HalfRemoved, current' = current
        PROVE  Serving => manifest'[current] = Parts /\ files'[current] = Parts
    <2> SUFFICES ASSUME Serving PROVE manifest'[current] = Parts /\ files'[current] = Parts
      OBVIOUS
    <2>1. /\ Victim \in Runs /\ Victim # current
      <3>1. Victim \in Runs /\ AtRisk(Victim)
        BY <1>9, CleanerFacts
      <3>2. Victim < current
        BY <3>1 DEF Orderly, Behind
      <3> QED BY <3>1, <3>2 DEF Runs
    <2> HIDE DEF Victim
    <2>2. CASE RemoveRun
      BY <1>5, <2>1, <2>2 DEF RemoveRun, Inv, TypeOK
    <2>3. CASE HalfRemoved
      BY <1>5, <2>1, <2>3, HalfRemovedFacts DEF Exclusive
    <2> QED BY <1>9, <2>2, <2>3
  <1>10. CASE RemoveRun
    BY <1>4, <1>9, <1>10 DEF RemoveRun
  <1>11. CASE PruneFails \/ Crash
    <2>1. HalfRemoved /\ current' = current
      BY <1>11 DEF PruneFails, Crash
    <2>2. ~At(Serve, "removing") => UNCHANGED <<current, manifest, files>>
      BY <2>1 DEF HalfRemoved
    <2> QED BY <1>3, <1>4, <1>9, <2>1, <2>2
  <1> QED BY <1>2, <1>3, <1>4, <1>6, <1>7, <1>8, <1>10, <1>11 DEF Next, Advance, Probe,
         Command, Refreshes, LockedOut, SyncFinds, SyncBegins, AugmentBegins, Prunes,
         RemoveDome, SkipLeased, ListOrphans, RemoveOrphan, CycleEnds, DomeWorks, TakeDome,
         LeaseDome, EnsureDome, EnsureDomeFails, DomeSpoils, DomeUnnamed,
       ReleaseDome, Calculates, Admit, OpenVolume,
         CloseVolume, vars

------------------------------------------------------------------------------
(* The theorems.                                                            *)

\* The inductive invariant holds in every reachable state (icon_scheduler.go:95,
\* run_lease.go:96).
THEOREM StoreInvariant == Spec => [](Inv /\ Asked)
  <1>1. Init => Asked
    BY DEF Init, Asked, Rest
  <1> QED BY <1>1, InitInv, NextInv, NextAsked, PTL DEF Spec

\* Every variable keeps its type (icon_scheduler.go:95).
THEOREM TypeCorrect == Spec => []TypeOK
  <1>1. Inv => TypeOK
    BY DEF Inv
  <1> QED BY <1>1, StoreInvariant, PTL

LEMMA StepKeeps ==
  ASSUME Inv, [Next]_vars, NEW r \in Runs, lease[r] # {}
  PROVE  LeaseKeeps(r)
  <1>1. CASE UNCHANGED <<dirs, manifest, files, domes>>
    BY <1>1 DEF LeaseKeeps
  <1>2. ASSUME NEW p \in Processes, SyncEnds(p) PROVE LeaseKeeps(r)
    BY <1>2 DEF SyncEnds, LeaseKeeps, Inv, TypeOK, Bare
  <1>3. ASSUME NEW p \in Processes, AugmentBegins(p) PROVE LeaseKeeps(r)
    BY <1>3 DEF AugmentBegins, LeaseKeeps, domeVars
  <1>4. ASSUME NEW p \in Processes, Place(p) PROVE LeaseKeeps(r)
    BY <1>4 DEF Place, LeaseKeeps, domeVars, Inv, TypeOK
  <1>12. ASSUME NEW p \in Processes, MakeRoom(p) PROVE LeaseKeeps(r)
    BY <1>12 DEF MakeRoom, LeaseKeeps, domeVars, Inv, TypeOK, At
  <1>5. ASSUME NEW p \in Processes, Write(p) PROVE LeaseKeeps(r)
    <2> DEFINE m == proc[p].mine \cup {NextPart(proc[p].mine)}
    <2>1. m # None
      <3>1. NextPart(proc[p].mine) # "no manifest"
        BY DEF NextPart
      <3> QED BY <3>1 DEF None
    <2>2. manifest' = [manifest EXCEPT ![proc[p].run] = m]
          /\ UNCHANGED <<dirs, files, domes>>
      BY <1>5 DEF Write
    <2> HIDE DEF m
    <2> QED BY <2>1, <2>2 DEF LeaseKeeps, Inv, TypeOK
  <1>6. ASSUME NEW p \in Processes, Fails(p) PROVE LeaseKeeps(r)
    <2>1. CASE At(p, "placed")
      BY <1>6, <2>1 DEF Fails, LeaseKeeps, Inv, TypeOK, domeVars
    <2>2. CASE ~At(p, "placed")
      BY <1>1, <1>6, <2>2 DEF Fails, domeVars
    <2> QED BY <2>1, <2>2
  <1>7. CASE RemoveDome
    BY <1>7 DEF RemoveDome, RemoveVolume, LeaseKeeps, Unleased
  <1>8. CASE RemoveRun
    <2>1. Victim # r
      BY <1>8 DEF RemoveRun, Inv, Clear
    <2> HIDE DEF Victim
    <2> QED BY <1>8, <2>1 DEF RemoveRun, LeaseKeeps, Inv, TypeOK, domeVars
  <1>9. CASE RemoveOrphan
    BY <1>9 DEF RemoveOrphan, RemoveVolume, LeaseKeeps, Unleased
  <1>10. CASE HalfRemoved /\ UNCHANGED <<dirs, domes>>
    <2>1. ~Exclusive(r)
      BY DEF Exclusive, Inv, Clear
    <2> QED BY <1>10, <2>1, HalfRemovedFacts DEF LeaseKeeps
  <1>11. CASE EnsureDome \/ DomeUnnamed
    BY <1>11 DEF EnsureDome, DomeUnnamed, ReleaseDome, LeaseKeeps
  <1> QED BY <1>1, <1>2, <1>3, <1>4, <1>5, <1>6, <1>7, <1>8, <1>9, <1>10, <1>11, <1>12
         DEF Next, Advance, PruneFails, Crash, Probe, Command, Refreshes, LockedOut,
         SyncFinds, SyncBegins, CommandPublishes, Publish, Prunes, SkipLeased, ListOrphans,
         CycleEnds, DomeWorks, TakeDome, LeaseDome, EnsureDomeFails, DomeSpoils,
         ReleaseDome, Calculates, Admit, OpenVolume, CloseVolume, domeVars, vars

\* While anybody holds the retention lease of a run, the run, its manifest and its
\* volume stay: the cleaner, which looks at the lease once and removes afterwards,
\* never removes what a worker or a calculation has leased meanwhile.  A bundle may
\* go, even a listed one where refreshes overlap, but only by an augmentation that
\* is about to replace it or takes it back (icon_scheduler.go:321, run_lease.go:96,
\* cloud_sync.go:179).
THEOREM LeasesProtect ==
  Spec => [][\A r \in Runs : lease[r] # {} => LeaseKeeps(r)]_vars
  <1>1. Inv /\ [Next]_vars => [\A r \in Runs : lease[r] # {} => LeaseKeeps(r)]_vars
    BY StepKeeps
  <1> QED BY <1>1, StoreInvariant, PTL DEF Spec

\* What is orderly stays so.
LEMMA SpecOrderly ==
  ASSUME ~Overlap, KeepRuns > 1
  PROVE  Spec => [](Inv /\ Orderly)
  <1>1. Inv /\ Orderly /\ [Next]_vars => Orderly'
    BY NextOrderly
  <1> QED BY <1>1, InitOrderly, StoreInvariant, PTL DEF Spec

\* An augmentation removes no bundle that the manifest of its run lists.
LEMMA StepKeepsListed ==
  ASSUME Inv, Orderly, NEW r \in Runs, LeaseKeeps(r)
  PROVE  ListedKept(r)
  <1> SUFFICES ASSUME NEW b \in files[r] \cap manifest[r], b \notin files'[r]
               PROVE  FALSE
    BY DEF ListedKept
  <1>1. PICK p \in Processes : /\ At(p, "placing") \/ At(p, "placed")
                              /\ proc[p].run = r /\ b = NextPart(proc[p].mine)
    BY DEF LeaseKeeps
  <1>2. /\ manifest[r] = proc[p].mine /\ proc[p].mine # None
        /\ proc[p].mine # Parts
    BY <1>1 DEF Orderly, InMemory, At
  <1>3. proc[p].mine \in SUBSET Parts
    BY <1>2 DEF Inv, TypeOK
  <1> QED BY <1>1, <1>2, <1>3, NextPartFacts

\* Where refreshes do not overlap and at least two runs are kept, no listed bundle
\* of a leased run goes either: an augmentation replaces only what the manifest
\* does not list (wind_height_sync.go:98, surface_sync.go:162, cloud_sync.go:179).
THEOREM LeasedStayWhole ==
  ASSUME ~Overlap, KeepRuns > 1
  PROVE  Spec => LeasedStays
  <1>1. Inv /\ Orderly /\ [Next]_vars =>
          [\A r \in Runs : lease[r] # {} => LeaseKeeps(r) /\ ListedKept(r)]_vars
    BY StepKeeps, StepKeepsListed
  <1> QED BY <1>1, SpecOrderly, PTL DEF Spec, LeasedStays

\* Where refreshes do not overlap and at least two runs are kept, whatever fails, is
\* killed or removed on the way, what is published lists every bundle, has every
\* bundle it lists, and loses none of them (docs/architecture.en.md:393,
\* icon_scheduler.go:109, 308).
THEOREM CurrentStaysWhole ==
  ASSUME ~Overlap, KeepRuns > 1
  PROVE  Spec => CurrentServes
  <1>1. Inv /\ Orderly /\ [Next]_vars =>
          [/\ current' # current => Serving'
           /\ Serving => Serving']_vars
    BY StepServes
  <1> QED BY <1>1, SpecOrderly, PTL DEF Spec, CurrentServes
=============================================================================
