------------------------------- MODULE Grabber -------------------------------
(***************************************************************************)
(* The credential-rotation queue of the grabber MCP server: tables         *)
(* fleet.grabber_jobs and fleet.grabber_playbooks (migration 0003), and    *)
(* the tools enqueue_rotation, cancel_rotation and grabber_health.         *)
(*                                                                         *)
(* Tools are coroutines of one process and their statements transactions   *)
(* of their own, so they interleave with each other, with the worker that  *)
(* runs the jobs and with the administrator of the playbooks; these two    *)
(* are other programs.  The worker takes pending jobs only.                *)
(***************************************************************************)
EXTENDS Naturals, FiniteSets

CONSTANTS Jobs,      \* ids that inserted jobs get
          Services,  \* services that may have a playbook
          NoService,
          NoJob,     \* an id that belongs to no job
          Handlers,  \* tool calls that may be in flight at once
          MaxEdits   \* bound: changes of playbooks

PlaybookStatuses == {"live", "placeholder", "disabled"}
Ended    == {"succeeded", "failed"}
Statuses == {"absent", "pending", "running", "cancelled"} \cup Ended

ASSUME GrabberAssumption ==
    /\ NoService \notin Services /\ NoJob \notin Jobs /\ MaxEdits \in Nat
    /\ IsFiniteSet(Jobs) /\ IsFiniteSet(Handlers)

VARIABLES
    playbook,       \* fleet.grabber_playbooks: the status of each service, or "absent"
    status,         \* fleet.grabber_jobs.status
    published,      \* _pool_holder has a pool
    at, service,    \* handler h: its next step; what it enqueues
    health,         \* the counts a health call has read
    told,           \* the last answer of handler h
    edits,
    started,        \* history: jobs the worker has started
    stale,          \* history: enqueue calls whose playbook changed since they read it
    steady,         \* history: jobs active when h's health call read the first count, less
                    \* those that have ended since
    lostPools,      \* history: pools that another one has replaced in the holder
    racers          \* history: calls that found no pool

jobVars     == <<status, started>>
poolVars    == <<published, lostPools, racers>>
handlerVars == <<at, service, health, told, stale, steady>>
vars        == <<playbook, jobVars, poolVars, handlerVars, edits>>

NoCounts == [queued |-> 0, running |-> 0]
Nothing  == [tool |-> "none", job |-> NoJob, ok |-> FALSE]

Init ==
    /\ playbook \in [Services -> PlaybookStatuses \cup {"absent"}]
    /\ status = [j \in Jobs |-> "absent"]
    /\ published = FALSE
    /\ at = [h \in Handlers |-> "idle"]
    /\ service = [h \in Handlers |-> NoService]
    /\ health = [h \in Handlers |-> NoCounts]
    /\ told = [h \in Handlers |-> Nothing]
    /\ edits = 0
    /\ started = {}
    /\ stale = {}
    /\ steady = [h \in Handlers |-> {}]
    /\ lostPools = 0
    /\ racers = {}

JobsIn(s) == {j \in Jobs : status[j] = s}
Active    == JobsIn("pending") \cup JobsIn("running")

----------------------------------------------------------------------------
(* Every tool gets the pool first: _pool looks for it, and opens one in an *)
(* await if there is none.                                                 *)

(* Mutant: the holder is not looked at. *)
MutantFindPool(h) ==
    /\ at[h] = "idle"
    /\ at' = [at EXCEPT ![h] = "open"]
    /\ UNCHANGED <<playbook, jobVars, poolVars, service, health, told,
                   stale, steady, edits>>

FindPool(h) ==
    /\ at[h] = "idle"
    /\ at' = [at EXCEPT ![h] = IF published THEN "ready" ELSE "open"]
    /\ racers' = IF published THEN racers ELSE racers \cup {h}
    /\ UNCHANGED <<playbook, jobVars, published, lostPools, service, health, told,
                   stale, steady, edits>>

OpenPool(h) ==
    /\ at[h] = "open"
    /\ at' = [at EXCEPT ![h] = "ready"]
    /\ lostPools' = IF published THEN lostPools + 1 ELSE lostPools
    /\ published' = TRUE
    /\ UNCHANGED <<playbook, jobVars, racers, service, health, told,
                   stale, steady, edits>>

(* Handler h answers; its call is over. *)
Answer(h, answer) ==
    /\ at' = [at EXCEPT ![h] = "idle"]
    /\ told' = [told EXCEPT ![h] = answer]
    /\ service' = [service EXCEPT ![h] = NoService]
    /\ health' = [health EXCEPT ![h] = NoCounts]
    /\ stale' = stale \ {h}
    /\ steady' = [steady EXCEPT ![h] = {}]

(* The connection fails before a statement; the tool raises. *)
Raise(h) ==
    /\ at[h] \notin {"idle", "reply"}
    /\ Answer(h, Nothing)
    /\ UNCHANGED <<playbook, jobVars, poolVars, edits>>

----------------------------------------------------------------------------
(* enqueue_rotation: the playbook is read by one statement, the job        *)
(* inserted by the next.                                                   *)

(* Mutant: any registered service will do. *)
MutantEnqueueable(s) == playbook[s] # "absent"

Enqueueable(s) == playbook[s] \notin {"absent", "disabled"}

ReadPlaybook(h, s) ==
    /\ at[h] = "ready"
    /\ IF Enqueueable(s)
       THEN /\ at' = [at EXCEPT ![h] = "insert"]
            /\ service' = [service EXCEPT ![h] = s]
            /\ UNCHANGED <<health, told, stale, steady>>
       ELSE Answer(h, Nothing)
    /\ UNCHANGED <<playbook, jobVars, poolVars, edits>>

(* The answer may be lost after the commit; the call is not told the id.   *)
InsertJob(h, j, heard) ==
    /\ at[h] = "insert"
    /\ status[j] = "absent"
    /\ status' = [status EXCEPT ![j] = "pending"]
    /\ Answer(h, IF heard THEN [tool |-> "enqueue", job |-> j, ok |-> TRUE] ELSE Nothing)
    /\ UNCHANGED <<playbook, started, poolVars, edits>>

----------------------------------------------------------------------------
(* Mutant: the update has no condition on the status. *)
MutantCancellable(j) == status[j] # "absent"

Cancellable(j) == status[j] = "pending"

(* cancel_rotation is one update.  Its answer may be lost after the commit *)
(* and is then reported as an invalid id.                                  *)
CancelRotation(h, j, heard) ==
    /\ at[h] = "ready"
    /\ LET hit == j \in Jobs /\ Cancellable(j)
       IN  /\ status' = IF hit THEN [status EXCEPT ![j] = "cancelled"] ELSE status
           /\ Answer(h, IF heard THEN [tool |-> "cancel", job |-> j, ok |-> hit]
                                 ELSE Nothing)
    /\ UNCHANGED <<playbook, started, poolVars, edits>>

----------------------------------------------------------------------------
(* grabber_health: pending jobs, running jobs and the last run are read by *)
(* three statements.  The last run is data of ended jobs and left out.     *)

(* Mutant: running jobs are counted first. *)
MutantCount(h) ==
    /\ \/ /\ at[h] = "ready"
          /\ at' = [at EXCEPT ![h] = "count"]
          /\ health' = [health EXCEPT ![h].running = Cardinality(JobsIn("running"))]
          /\ steady' = [steady EXCEPT ![h] = Active]
       \/ /\ at[h] = "count"
          /\ at' = [at EXCEPT ![h] = "reply"]
          /\ health' = [health EXCEPT ![h].queued = Cardinality(JobsIn("pending"))]
          /\ UNCHANGED steady
    /\ UNCHANGED <<playbook, jobVars, poolVars, service, told, stale, edits>>

Count(h) ==
    /\ \/ /\ at[h] = "ready"
          /\ at' = [at EXCEPT ![h] = "count"]
          /\ health' = [health EXCEPT ![h].queued = Cardinality(JobsIn("pending"))]
          /\ steady' = [steady EXCEPT ![h] = Active]
       \/ /\ at[h] = "count"
          /\ at' = [at EXCEPT ![h] = "reply"]
          /\ health' = [health EXCEPT ![h].running = Cardinality(JobsIn("running"))]
          /\ UNCHANGED steady
    /\ UNCHANGED <<playbook, jobVars, poolVars, service, told, stale, edits>>

ReplyHealth(h) ==
    /\ at[h] = "reply"
    /\ Answer(h, Nothing)
    /\ UNCHANGED <<playbook, jobVars, poolVars, edits>>

----------------------------------------------------------------------------
(* The other programs: the worker, and the administrator of playbooks.     *)

Quit(j) == [h \in Handlers |-> steady[h] \ {j}]

WorkerStarts(j) ==
    /\ status[j] = "pending"
    /\ status' = [status EXCEPT ![j] = "running"]
    /\ started' = started \cup {j}
    /\ UNCHANGED <<playbook, poolVars, handlerVars, edits>>

WorkerEnds(j, s) ==
    /\ status[j] = "running"
    /\ status' = [status EXCEPT ![j] = s]
    /\ steady' = Quit(j)
    /\ UNCHANGED <<playbook, started, poolVars, at, service, health, told, stale, edits>>

EditPlaybook(s, p) ==
    /\ edits < MaxEdits
    /\ edits' = edits + 1
    /\ playbook' = [playbook EXCEPT ![s] = p]
    /\ stale' = stale \cup {h \in Handlers : service[h] = s}
    /\ UNCHANGED <<jobVars, poolVars, at, service, health, told, steady>>

----------------------------------------------------------------------------
Enqueue(h) == \/ \E s \in Services : ReadPlaybook(h, s)
              \/ \E j \in Jobs, heard \in BOOLEAN : InsertJob(h, j, heard)

(* Ids a caller may name: those of jobs it has heard of, and others. *)
Known == {j \in Jobs : status[j] # "absent"} \cup {NoJob}

Next == \/ \E h \in Handlers : \/ FindPool(h) \/ OpenPool(h) \/ Raise(h)
                               \/ Enqueue(h)
                               \/ \E j \in Known, heard \in BOOLEAN :
                                     CancelRotation(h, j, heard)
                               \/ Count(h) \/ ReplyHealth(h)
        \/ \E j \in Jobs : WorkerStarts(j) \/ \E s \in Ended : WorkerEnds(j, s)
        \/ \E s \in Services, p \in PlaybookStatuses : EditPlaybook(s, p)

Spec == Init /\ [][Next]_vars

----------------------------------------------------------------------------
TypeOK ==
    /\ playbook \in [Services -> PlaybookStatuses \cup {"absent"}]
    /\ status \in [Jobs -> Statuses]
    /\ published \in BOOLEAN
    /\ at \in [Handlers -> {"idle", "open", "ready", "insert", "count", "reply"}]
    /\ service \in [Handlers -> Services \cup {NoService}]
    /\ health \in [Handlers -> [queued : Nat, running : Nat]]
    /\ told \in [Handlers -> [tool : {"none", "enqueue", "cancel"},
                              job : Jobs \cup {NoJob}, ok : BOOLEAN]]
    /\ edits \in 0..MaxEdits
    /\ started \in SUBSET Jobs
    /\ stale \in SUBSET Handlers
    /\ steady \in [Handlers -> SUBSET Jobs]
    /\ lostPools \in Nat
    /\ racers \in SUBSET Handlers

(* The answer of cancel_rotation is final: a job reported as cancelled was *)
(* never started and never will be; one reported as not cancelled had been *)
(* started, or cancelled by an earlier call, whose answer may be lost.     *)
CancelAnswerTrue ==
    \A h \in Handlers :
        LET j == told[h].job
        IN  told[h].tool = "cancel" /\ j \in Jobs =>
               IF told[h].ok THEN status[j] = "cancelled" /\ j \notin started
                             ELSE j \in started \/ status[j] = "cancelled"

(* grabber_health misses no job: those that were pending or running all    *)
(* the time are counted, since pending jobs are read before running ones   *)
(* and jobs only move that way.  (One that starts in between counts twice.) *)
HealthCoversActive ==
    \A h \in Handlers :
        at[h] = "reply" =>
            Cardinality(steady[h]) <= health[h].queued + health[h].running

(* A job is enqueued for a service that is unknown or disabled only if the *)
(* playbook was changed after the call had looked at it.                   *)
DisabledOnlyByOverlap ==
    [][\A h \in Handlers :
          /\ at[h] = "insert" /\ at'[h] # "insert"
          /\ \E j \in JobsIn("absent") : status'[j] # "absent"
          => playbook[service[h]] \in {"live", "placeholder"} \/ h \in stale]_vars

(* A pool is opened in vain, and its connections stay open, only by calls  *)
(* that all came before the first pool was there.                          *)
PoolsLostByRaceOnly == lostPools < Cardinality(racers) \/ lostPools = 0

----------------------------------------------------------------------------
(* The rotation queue as a work queue, with the worker as its only lessee. *)

Phase(j) == CASE status[j] = "absent"  -> "absent"
              [] status[j] = "pending" -> "waiting"
              [] status[j] = "running" -> "leased"
              [] OTHER                 -> "done"

Lessee(j) == IF status[j] = "running" THEN "worker" ELSE "nobody"

Results   == Ended \cup {"cancelled"}
Result(j) == IF status[j] \in Results THEN status[j] ELSE "none"

WQ == INSTANCE WorkQueue WITH
    Items <- Jobs,
    Workers <- {"worker"},
    Nobody <- "nobody",
    Outcomes <- Results,
    Unsettled <- "none",
    Releasable <- FALSE,
    phase <- [j \in Jobs |-> Phase(j)],
    lessee <- [j \in Jobs |-> Lessee(j)],
    outcome <- [j \in Jobs |-> Result(j)]

(* A job is run once by the worker or cancelled before, and ends for good. *)
ImplementsWorkQueue == WQ!Spec
==============================================================================
