----------------------------- MODULE Migrations -----------------------------
(***************************************************************************)
(* Booting: server._lifespan and Db.apply_migrations.                      *)
(*                                                                         *)
(* Every instance of the server applies, before it serves, the migration   *)
(* files of its image that fleet.schema_migrations does not name, in the   *)
(* order of their names, each in one transaction with the row that records *)
(* it.  Instances of a rolling deploy boot at the same time, may carry     *)
(* images of different age, and may be killed at any point; the platform   *)
(* starts them again.  Files are numbered; an older image has fewer.       *)
(*                                                                         *)
(* The last file, 0006, adds the claim columns to public.pending_moves if  *)
(* that table exists.  The table is created by motto-director, at any time.*)
(***************************************************************************)
EXTENDS Naturals, FiniteSets

CONSTANTS Instances,
          FilesIn,      \* FilesIn[i]: number of migration files in i's image
          ClaimColumns, \* the number of file 0006
          MaxCrashes    \* bound: instances killed

Files == 1..ClaimColumns

ASSUME MigrationsAssumption ==
    /\ ClaimColumns \in Nat \ {0}
    /\ FilesIn \in [Instances -> 0..ClaimColumns]
    /\ MaxCrashes \in Nat

VARIABLES
    recorded,      \* fleet.schema_migrations
    effects,       \* files whose changes are in the schema
    runs,          \* history: committed runs of a file
    table,         \* public.pending_moves exists
    pc,
    known,         \* the files instance i knows to be applied
    staged,        \* what the open transaction of i changes
    bootedAfter,   \* history: i started when public.pending_moves existed
    crashes

dbVars   == <<recorded, effects, runs, table>>
bootVars == <<known, staged>>
vars == <<dbVars, pc, bootVars, bootedAfter, crashes>>

Init ==
    /\ recorded = {}
    /\ effects = {}
    /\ runs = [f \in Files |-> 0]
    /\ table = FALSE
    /\ pc = [i \in Instances |-> "down"]
    /\ known = [i \in Instances |-> {}]
    /\ staged = [i \in Instances |-> {}]
    /\ bootedAfter = [i \in Instances |-> FALSE]
    /\ crashes = 0

(* The pool connects; the table of migrations is created if need be. *)
Boot(i) ==
    /\ pc[i] = "down"
    /\ pc' = [pc EXCEPT ![i] = "scan"]
    /\ bootedAfter' = [bootedAfter EXCEPT ![i] = table]
    /\ UNCHANGED <<dbVars, bootVars, crashes>>

ReadApplied(i) ==
    /\ pc[i] = "scan"
    /\ known' = [known EXCEPT ![i] = recorded]
    /\ pc' = [pc EXCEPT ![i] = "next"]
    /\ UNCHANGED <<dbVars, staged, bootedAfter, crashes>>

Todo(i) == {f \in 1..FilesIn[i] : f \notin known[i]}

NextFile(i, f) == f \in Todo(i) /\ \A g \in Todo(i) : f <= g

(* The instance stops; an open transaction is rolled back.                 *)
Down(i) ==
    /\ pc' = [pc EXCEPT ![i] = "down"]
    /\ known' = [known EXCEPT ![i] = {}]
    /\ staged' = [staged EXCEPT ![i] = {}]
    /\ UNCHANGED <<dbVars, bootedAfter>>

(* Mutant: the file runs outside the transaction that records it. *)
MutantExecute(i, f) ==
    /\ pc[i] = "next"
    /\ NextFile(i, f)
    /\ effects' = IF f = ClaimColumns /\ ~table THEN effects ELSE effects \cup {f}
    /\ pc' = [pc EXCEPT ![i] = "record"]
    /\ UNCHANGED <<recorded, runs, table, bootVars, bootedAfter, crashes>>

(* A transaction begins and runs the text of the file.  0006 does nothing  *)
(* if the table it alters does not exist.                                  *)
Execute(i, f) ==
    /\ pc[i] = "next"
    /\ NextFile(i, f)
    /\ staged' = [staged EXCEPT ![i] = IF f = ClaimColumns /\ ~table THEN {} ELSE {f}]
    /\ pc' = [pc EXCEPT ![i] = "record"]
    /\ UNCHANGED <<dbVars, known, bootedAfter, crashes>>

(* The text of the file raises because another instance runs it, or has    *)
(* run it since the list was read: CREATE ... IF NOT EXISTS is not safe    *)
(* against a concurrent CREATE.                                            *)
Collide(i, f) ==
    /\ pc[i] = "next"
    /\ NextFile(i, f)
    /\ f \in recorded \/ \E j \in Instances \ {i} :
                            pc[j] \in {"record", "commit"} /\ NextFile(j, f)
    /\ Down(i)
    /\ UNCHANGED crashes

(* Mutants: no primary key on the name; a name that is taken is waited for. *)
MutantRecordTwice(i, f) ==
    /\ pc[i] = "record"
    /\ NextFile(i, f)
    /\ pc' = [pc EXCEPT ![i] = "commit"]
    /\ UNCHANGED <<dbVars, bootVars, bootedAfter, crashes>>
MutantRecordWaits(i, f) == f \notin recorded /\ MutantRecordTwice(i, f)

(* The insert of the file's name.  It waits for another open transaction   *)
(* that has inserted the same name, and fails on the primary key if that   *)
(* has committed; then the lifespan raises and the instance goes down.     *)
Record(i, f) ==
    /\ pc[i] = "record"
    /\ NextFile(i, f)
    /\ \A j \in Instances \ {i} : ~(pc[j] = "commit" /\ NextFile(j, f))
    /\ \/ /\ f \notin recorded
          /\ pc' = [pc EXCEPT ![i] = "commit"]
          /\ UNCHANGED <<dbVars, bootVars, bootedAfter, crashes>>
       \/ f \in recorded /\ Down(i) /\ UNCHANGED crashes

Commit(i, f) ==
    /\ pc[i] = "commit"
    /\ NextFile(i, f)
    /\ recorded' = recorded \cup {f}
    /\ effects' = effects \cup staged[i]
    /\ runs' = [runs EXCEPT ![f] = @ + 1]
    /\ known' = [known EXCEPT ![i] = @ \cup {f}]
    /\ staged' = [staged EXCEPT ![i] = {}]
    /\ pc' = [pc EXCEPT ![i] = "next"]
    /\ UNCHANGED <<table, bootedAfter, crashes>>

(* Mutant: the server serves before its migrations are through. *)
MutantServe(i) ==
    /\ pc[i] = "next"
    /\ pc' = [pc EXCEPT ![i] = "serving"]
    /\ UNCHANGED <<dbVars, bootVars, bootedAfter, crashes>>

Serve(i) ==
    /\ pc[i] = "next"
    /\ Todo(i) = {}
    /\ pc' = [pc EXCEPT ![i] = "serving"]
    /\ UNCHANGED <<dbVars, bootVars, bootedAfter, crashes>>

Crash(i) ==
    /\ pc[i] # "down"
    /\ crashes < MaxCrashes
    /\ crashes' = crashes + 1
    /\ Down(i)

DirectorCreatesTable ==
    /\ ~table
    /\ table' = TRUE
    /\ UNCHANGED <<recorded, effects, runs, pc, bootVars, bootedAfter, crashes>>

Booting(i) == \/ Boot(i)
              \/ ReadApplied(i)
              \/ \E f \in Files : Execute(i, f) \/ Collide(i, f) \/ Record(i, f) \/ Commit(i, f)
              \/ Serve(i)

Next == \/ \E i \in Instances : Booting(i) \/ Crash(i)
        \/ DirectorCreatesTable

Spec == Init /\ [][Next]_vars

(* The platform starts an instance that is down, and a boot goes on.       *)
FairSpec == Spec /\ \A i \in Instances : WF_vars(Booting(i))

----------------------------------------------------------------------------
TypeOK ==
    /\ recorded \in SUBSET Files
    /\ effects \in SUBSET Files
    /\ runs \in [Files -> Nat]
    /\ table \in BOOLEAN
    /\ pc \in [Instances -> {"down", "scan", "next", "record", "commit", "serving"}]
    /\ known \in [Instances -> SUBSET Files]
    /\ staged \in [Instances -> SUBSET Files]
    /\ bootedAfter \in [Instances -> BOOLEAN]
    /\ crashes \in 0..MaxCrashes

(* A migration is committed once, whoever boots at the same time.          *)
RunOnce == \A f \in Files : runs[f] <= 1

(* The record and the changes of a file are in the database together, and  *)
(* files are applied in order without gaps, whichever instances applied    *)
(* them and wherever they were killed.                                     *)
RecordedMeansApplied ==
    /\ recorded \ {ClaimColumns} = effects \ {ClaimColumns}
    /\ ClaimColumns \in effects => ClaimColumns \in recorded
    /\ \A f \in recorded : 1..f \subseteq recorded

(* An instance serves only on a schema that has every file of its image.   *)
ServesMigrated ==
    \A i \in Instances : pc[i] = "serving" => 1..FilesIn[i] \subseteq recorded

(* Instances that boot together do not keep each other from serving.       *)
EventuallyServing ==
    \A i \in Instances : (pc[i] # "serving") ~> (pc[i] = "serving")

(* "motto-director will create the table; motto-mcp-server will run this   *)
(* on the next boot after that to layer in the claim columns."             *)
NextBootAddsColumns ==
    \A i \in Instances :
        /\ pc[i] = "serving"
        /\ bootedAfter[i]
        /\ FilesIn[i] = ClaimColumns
        => ClaimColumns \in effects
=============================================================================
