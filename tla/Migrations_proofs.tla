-------------------------- MODULE Migrations_proofs --------------------------
(* Theorems about booting, for any number of instances, of migration files *)
(* in their images and of crashes.                                         *)
EXTENDS Migrations, TLAPS

LEMMA FilesOfImage == ASSUME NEW i \in Instances PROVE 1..FilesIn[i] \subseteq Files
BY MigrationsAssumption DEF Files

LEMMA TypeInit == Init => TypeOK
<1> SUFFICES ASSUME Init PROVE TypeOK
  OBVIOUS
<1>0. table \in BOOLEAN
  BY Zenon DEF Init
<1>1. runs \in [Files -> Nat] /\ crashes \in 0..MaxCrashes
  BY MigrationsAssumption DEF Init
<1>2. /\ pc \in [Instances -> {"down", "scan", "next", "record", "commit", "serving"}]
      /\ bootedAfter \in [Instances -> BOOLEAN]
  BY DEF Init
<1>3. known \in [Instances -> SUBSET Files] /\ staged \in [Instances -> SUBSET Files]
  BY DEF Init
<1>4. recorded \in SUBSET Files /\ effects \in SUBSET Files
  BY DEF Init
<1> QED BY <1>0, <1>1, <1>2, <1>3, <1>4 DEF TypeOK

LEMMA TypeStep == TypeOK /\ [Next]_vars => TypeOK'
<1> SUFFICES ASSUME TypeOK, [Next]_vars PROVE TypeOK'
  OBVIOUS
<1> USE MigrationsAssumption DEF TypeOK, dbVars, bootVars
<1>1. ASSUME NEW i \in Instances, Booting(i) PROVE TypeOK'
  <2>1. CASE Boot(i)
    BY <2>1 DEF Boot
  <2>2. CASE ReadApplied(i)
    BY <2>2 DEF ReadApplied
  <2>3. ASSUME NEW f \in Files, Execute(i, f) PROVE TypeOK'
    BY <2>3 DEF Execute
  <2>4. ASSUME NEW f \in Files, Collide(i, f) PROVE TypeOK'
    BY <2>4 DEF Collide, Down
  <2>5. ASSUME NEW f \in Files, Record(i, f) PROVE TypeOK'
    BY <2>5 DEF Record, Down
  <2>6. ASSUME NEW f \in Files, Commit(i, f) PROVE TypeOK'
    BY <2>6 DEF Commit
  <2>7. CASE Serve(i)
    BY <2>7 DEF Serve
  <2> QED BY <1>1, <2>1, <2>2, <2>3, <2>4, <2>5, <2>6, <2>7 DEF Booting
<1>2. ASSUME NEW i \in Instances, Crash(i) PROVE TypeOK'
  BY <1>2 DEF Crash, Down
<1>3. CASE DirectorCreatesTable
  BY <1>3 DEF DirectorCreatesTable
<1>4. CASE UNCHANGED vars
  BY <1>4 DEF vars
<1> QED BY <1>1, <1>2, <1>3, <1>4 DEF Next

(* The database, the instances and the history keep their types. *)
THEOREM TypeCorrect == Spec => []TypeOK
BY TypeInit, TypeStep, PTL DEF Spec

----------------------------------------------------------------------------
(* The inductive invariant.  What an instance believes to be applied is,   *)
(* an open transaction stages the changes of the file it is about, and of  *)
(* the transactions that have inserted a name only one is about that file, *)
(* which is not recorded yet.                                              *)
BeliefTrue == \A i \in Instances : known[i] \subseteq recorded

StagedIsNext ==
    \A i \in Instances :
        /\ pc[i] \notin {"record", "commit"} => staged[i] = {}
        /\ \A f \in Files : pc[i] \in {"record", "commit"} /\ NextFile(i, f) =>
              staged[i] \subseteq {f} /\ (f # ClaimColumns => staged[i] = {f})

NameHeldOnce ==
    \A i \in Instances, f \in Files : pc[i] = "commit" /\ NextFile(i, f) =>
        /\ f \notin recorded
        /\ \A j \in Instances : pc[j] = "commit" /\ NextFile(j, f) => j = i

RunsRecorded == \A f \in Files : runs[f] = IF f \in recorded THEN 1 ELSE 0

ServingKnows ==
    \A i \in Instances : pc[i] = "serving" => 1..FilesIn[i] \subseteq known[i]

BootInv == /\ TypeOK
           /\ RecordedMeansApplied
           /\ BeliefTrue
           /\ StagedIsNext
           /\ NameHeldOnce
           /\ RunsRecorded
           /\ ServingKnows

LEMMA BootInit == Init => BootInv
BY TypeInit DEF Init, BootInv, RecordedMeansApplied, BeliefTrue, StagedIsNext,
                NameHeldOnce, RunsRecorded, ServingKnows

(* An instance that is down, or stops, holds nothing and knows nothing. *)
LEMMA DownStep ==
    ASSUME BootInv, TypeOK', NEW i \in Instances, Down(i) PROVE BootInv'
<1> USE DEF BootInv, TypeOK, Down, dbVars
<1>1. RecordedMeansApplied' /\ RunsRecorded'
  BY DEF RecordedMeansApplied, RunsRecorded
<1>2. BeliefTrue' /\ ServingKnows'
  BY DEF BeliefTrue, ServingKnows
<1>3. ASSUME NEW j \in Instances, pc'[j] \in {"record", "commit"}
      PROVE  pc'[j] = pc[j] /\ known'[j] = known[j] /\ staged'[j] = staged[j]
  BY <1>3
<1>4. ASSUME NEW j \in Instances, pc'[j] \in {"record", "commit"}, NEW f \in Files
      PROVE  NextFile(j, f)' <=> NextFile(j, f)
  BY <1>3, <1>4 DEF NextFile, Todo
<1>5. StagedIsNext'
  BY <1>3, <1>4 DEF StagedIsNext
<1>6. NameHeldOnce'
  BY <1>3, <1>4 DEF NameHeldOnce
<1> QED BY <1>1, <1>2, <1>5, <1>6

(* A step that leaves the database and what instances know as it is.      *)
LEMMA QuietStep ==
    ASSUME BootInv, TypeOK', UNCHANGED <<recorded, effects, runs, known>>
    PROVE  /\ RecordedMeansApplied' /\ BeliefTrue' /\ RunsRecorded'
           /\ \A i \in Instances, f \in Files : NextFile(i, f)' <=> NextFile(i, f)
BY DEF BootInv, RecordedMeansApplied, BeliefTrue, RunsRecorded, NextFile, Todo

LEMMA NextFileUnique ==
    ASSUME NEW i \in Instances, NEW f \in Files, NEW g \in Files,
           NextFile(i, f), NextFile(i, g)
    PROVE  f = g
BY MigrationsAssumption DEF NextFile, Todo, Files

LEMMA CommitStep ==
    ASSUME BootInv, TypeOK', NEW i \in Instances, NEW f \in Files, Commit(i, f)
    PROVE  BootInv'
<1> USE DEF BootInv, TypeOK
<1>0. /\ recorded' = recorded \cup {f}
      /\ effects' = effects \cup staged[i]
      /\ runs' = [runs EXCEPT ![f] = @ + 1]
      /\ known' = [known EXCEPT ![i] = @ \cup {f}]
      /\ staged' = [staged EXCEPT ![i] = {}]
      /\ pc' = [pc EXCEPT ![i] = "next"]
      /\ pc[i] = "commit" /\ NextFile(i, f)
  BY DEF Commit
<1>1. f \notin recorded
  BY <1>0 DEF NameHeldOnce
<1>2. staged[i] \subseteq {f} /\ (f # ClaimColumns => staged[i] = {f})
  BY <1>0 DEF StagedIsNext
<1>3. 1..f \subseteq recorded \cup {f}
  <2> SUFFICES ASSUME NEW g \in 1..f, g # f PROVE g \in recorded
    OBVIOUS
  <2>1. f \in 1..FilesIn[i] /\ \A h \in Todo(i) : f <= h
    BY <1>0 DEF NextFile, Todo
  <2>2. g \in 1..FilesIn[i] /\ ~(f <= g)
    BY <2>1, MigrationsAssumption DEF Files
  <2>3. g \in known[i]
    BY <2>1, <2>2 DEF Todo
  <2> QED BY <2>3 DEF BeliefTrue
<1>4. RecordedMeansApplied'
  BY <1>0, <1>2, <1>3 DEF RecordedMeansApplied
<1>5. BeliefTrue'
  BY <1>0 DEF BeliefTrue
<1>6. RunsRecorded'
  BY <1>0, <1>1 DEF RunsRecorded
<1>7. ASSUME NEW j \in Instances, pc'[j] \in {"record", "commit", "serving"}
      PROVE  /\ j # i /\ pc'[j] = pc[j] /\ known'[j] = known[j] /\ staged'[j] = staged[j]
             /\ \A g \in Files : NextFile(j, g)' <=> NextFile(j, g)
  BY <1>0, <1>7 DEF NextFile, Todo
<1>8. ServingKnows'
  BY <1>7 DEF ServingKnows
<1>9. StagedIsNext'
  BY <1>0, <1>7 DEF StagedIsNext
<1>10. NameHeldOnce'
  <2> SUFFICES ASSUME NEW j \in Instances, NEW g \in Files,
                      pc'[j] = "commit", NextFile(j, g)'
               PROVE  /\ g \notin recorded'
                      /\ \A k \in Instances : pc'[k] = "commit" /\ NextFile(k, g)' => k = j
    BY DEF NameHeldOnce
  <2>1. j # i /\ pc[j] = "commit" /\ NextFile(j, g)
    BY <1>7
  <2>2. g # f
    BY <1>0, <2>1 DEF NameHeldOnce
  <2>3. g \notin recorded'
    BY <1>0, <2>1, <2>2 DEF NameHeldOnce
  <2>4. ASSUME NEW k \in Instances, pc'[k] = "commit", NextFile(k, g)' PROVE k = j
    BY <1>7, <2>1, <2>4 DEF NameHeldOnce
  <2> QED BY <2>3, <2>4
<1> QED BY <1>4, <1>5, <1>6, <1>8, <1>9, <1>10

LEMMA BootStep == BootInv /\ [Next]_vars => BootInv'
<1> SUFFICES ASSUME BootInv, [Next]_vars PROVE BootInv'
  OBVIOUS
<1>0. TypeOK /\ TypeOK'
  BY TypeStep DEF BootInv
<1> USE DEF dbVars, bootVars
<1>1. ASSUME NEW i \in Instances, Booting(i) PROVE BootInv'
  <2>1. CASE Boot(i)
    <3> UNCHANGED <<recorded, effects, runs, known, staged>>
      BY <2>1 DEF Boot
    <3>1. StagedIsNext' /\ NameHeldOnce' /\ ServingKnows'
      BY <1>0, <2>1, QuietStep
         DEF Boot, BootInv, TypeOK, StagedIsNext, NameHeldOnce, ServingKnows
    <3> QED BY <1>0, <3>1, QuietStep DEF BootInv
  <2>2. CASE ReadApplied(i)
    <3>1. /\ pc' = [pc EXCEPT ![i] = "next"] /\ known' = [known EXCEPT ![i] = recorded]
          /\ pc[i] = "scan" /\ UNCHANGED <<recorded, effects, runs, staged>>
      BY <2>2 DEF ReadApplied
    <3>2. RecordedMeansApplied' /\ BeliefTrue' /\ RunsRecorded'
      BY <1>0, <3>1 DEF BootInv, TypeOK, RecordedMeansApplied, BeliefTrue, RunsRecorded
    <3>3. ASSUME NEW j \in Instances, pc'[j] \in {"record", "commit", "serving"}
          PROVE  /\ j # i /\ pc'[j] = pc[j] /\ known'[j] = known[j]
                 /\ \A g \in Files : NextFile(j, g)' <=> NextFile(j, g)
      BY <1>0, <3>1, <3>3 DEF TypeOK, NextFile, Todo
    <3>4. StagedIsNext'
      BY <1>0, <3>1, <3>3 DEF BootInv, TypeOK, StagedIsNext
    <3>5. NameHeldOnce'
      BY <1>0, <3>1, <3>3 DEF BootInv, TypeOK, NameHeldOnce
    <3>6. ServingKnows'
      BY <1>0, <3>1, <3>3 DEF BootInv, TypeOK, ServingKnows
    <3> QED BY <1>0, <3>2, <3>4, <3>5, <3>6 DEF BootInv
  <2>3. ASSUME NEW f \in Files, Execute(i, f) PROVE BootInv'
    <3> UNCHANGED <<recorded, effects, runs, known>>
      BY <2>3 DEF Execute
    <3>1. StagedIsNext'
      BY <1>0, <2>3, QuietStep, NextFileUnique
         DEF Execute, BootInv, TypeOK, StagedIsNext
    <3>2. NameHeldOnce' /\ ServingKnows'
      BY <1>0, <2>3, QuietStep
         DEF Execute, BootInv, TypeOK, NameHeldOnce, ServingKnows
    <3> QED BY <1>0, <3>1, <3>2, QuietStep DEF BootInv
  <2>4. ASSUME NEW f \in Files, Collide(i, f) PROVE BootInv'
    BY <1>0, <2>4, DownStep DEF Collide
  <2>5. ASSUME NEW f \in Files, Record(i, f) PROVE BootInv'
    <3>1. CASE Down(i)
      BY <1>0, <3>1, DownStep
    <3>2. CASE ~Down(i)
      <4>1. /\ pc[i] = "record" /\ NextFile(i, f) /\ f \notin recorded
            /\ \A j \in Instances \ {i} : ~(pc[j] = "commit" /\ NextFile(j, f))
            /\ pc' = [pc EXCEPT ![i] = "commit"]
            /\ UNCHANGED <<recorded, effects, runs, known, staged>>
        BY <2>5, <3>2 DEF Record
      <4>2. StagedIsNext' /\ ServingKnows'
        BY <1>0, <4>1, QuietStep DEF BootInv, TypeOK, StagedIsNext, ServingKnows
      <4>3. NameHeldOnce'
        <5> SUFFICES ASSUME NEW j \in Instances, NEW g \in Files,
                            pc'[j] = "commit", NextFile(j, g)
                     PROVE  /\ g \notin recorded
                            /\ \A k \in Instances : pc'[k] = "commit" /\ NextFile(k, g) => k = j
          BY <1>0, <4>1, QuietStep DEF NameHeldOnce
        <5>1. CASE g = f
          BY <1>0, <4>1, <5>1 DEF TypeOK
        <5>2. CASE g # f
          <6>1. j # i
            BY <4>1, <5>2, NextFileUnique
          <6>2. pc[j] = "commit"
            BY <1>0, <4>1, <6>1 DEF TypeOK
          <6>3. ASSUME NEW k \in Instances, pc'[k] = "commit", NextFile(k, g) PROVE k = j
            <7>1. k # i
              BY <4>1, <5>2, <6>3, NextFileUnique
            <7>2. pc[k] = "commit"
              BY <1>0, <4>1, <6>3, <7>1 DEF TypeOK
            <7> QED BY <6>2, <6>3, <7>2 DEF BootInv, NameHeldOnce
          <6> QED BY <6>2, <6>3 DEF BootInv, NameHeldOnce
        <5> QED BY <5>1, <5>2
      <4> QED BY <1>0, <4>1, <4>2, <4>3, QuietStep DEF BootInv
    <3> QED BY <3>1, <3>2
  <2>6. ASSUME NEW f \in Files, Commit(i, f) PROVE BootInv'
    BY <1>0, <2>6, CommitStep
  <2>7. CASE Serve(i)
    <3> UNCHANGED <<recorded, effects, runs, known, staged>>
      BY <2>7 DEF Serve
    <3>1. StagedIsNext' /\ NameHeldOnce'
      BY <1>0, <2>7, QuietStep DEF Serve, BootInv, TypeOK, StagedIsNext, NameHeldOnce
    <3>2. ServingKnows'
      BY <1>0, <2>7 DEF Serve, Todo, BootInv, TypeOK, ServingKnows
    <3> QED BY <1>0, <3>1, <3>2, QuietStep DEF BootInv
  <2> QED BY <1>1, <2>1, <2>2, <2>3, <2>4, <2>5, <2>6, <2>7 DEF Booting
<1>2. ASSUME NEW i \in Instances, Crash(i) PROVE BootInv'
  BY <1>0, <1>2, DownStep DEF Crash
<1>3. CASE DirectorCreatesTable \/ UNCHANGED vars
  <2> UNCHANGED <<recorded, effects, runs, known, staged, pc>>
    BY <1>3 DEF DirectorCreatesTable, vars
  <2>1. StagedIsNext' /\ NameHeldOnce' /\ ServingKnows'
    BY <1>0, QuietStep DEF BootInv, StagedIsNext, NameHeldOnce, ServingKnows
  <2> QED BY <1>0, <2>1, QuietStep DEF BootInv
<1> QED BY <1>1, <1>2, <1>3 DEF Next

(* In every reachable state the inductive invariant above holds, whichever *)
(* instances boot, die or wait in Db.apply_migrations.                     *)
THEOREM BootInvariant == Spec => []BootInv
BY BootInit, BootStep, PTL DEF Spec

----------------------------------------------------------------------------
(* The record and the changes of a file are in the database together, and  *)
(* in order, whichever instances applied them and wherever they were       *)
(* killed (Db.apply_migrations).                                           *)
THEOREM RecordsAreTrue == Spec => []RecordedMeansApplied
BY BootInvariant, PTL DEF BootInv

(* A migration is committed once, however many instances boot at once.     *)
THEOREM MigrationsRunOnce == Spec => []RunOnce
<1>1. BootInv => RunOnce
  BY DEF BootInv, RunsRecorded, RunOnce
<1> QED BY <1>1, BootInvariant, PTL

(* An instance serves only on a schema that has every file of its image.   *)
THEOREM ServersAreMigrated == Spec => []ServesMigrated
<1>1. BootInv => ServesMigrated
  BY DEF BootInv, ServingKnows, BeliefTrue, ServesMigrated
<1> QED BY <1>1, BootInvariant, PTL
=============================================================================
