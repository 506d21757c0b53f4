----------------------------- MODULE LocalTasks -----------------------------
(***************************************************************************)
(* The local-task queue of the fleet control plane: table                  *)
(* fleet.local_tasks, the statements of mcp_server/db.py that touch it,    *)
(* and the HTTP handlers and MCP tools that run them on behalf of          *)
(*   - clients that queue work (a cockpit user, an agent),                 *)
(*   - runners that poll for work, execute it and report a result,         *)
(*   - callers that wait for a task to finish.                             *)
(*                                                                         *)
(* Handlers are coroutines of one server process; each SQL statement is a  *)
(* transaction of its own (READ COMMITTED), so handlers interleave between *)
(* statements.  The claim statement is two steps here, because its         *)
(* FOR UPDATE SKIP LOCKED sub-select is visible to other statements: the   *)
(* rows it has locked are neither picked nor waited for by another claim,  *)
(* and the sweep waits for them.                                           *)
(*                                                                         *)
(* Rows are numbered in insertion order, which stands for created_at.      *)
(* A row's time to live is one bit: whether created_at + ttl is over.      *)
(***************************************************************************)
EXTENDS Naturals, FiniteSets

CONSTANTS MaxTasks,   \* bound: rows ever inserted
          Kinds,      \* task kinds ('shell', 'ocr', ...)
          Keys,       \* dedup keys clients may pass
          NoKey,      \* no dedup key passed
          NoKind,     \* kind of a row not inserted yet
          Runners,    \* runner ids
          Nobody,     \* claimed_by IS NULL
          Outcomes,   \* the results reported of {succeeded, failed, cancelled}
          Requests,   \* the claim requests runners send
          Clients,    \* request handlers of queueing clients
          Pollers,    \* request handlers of claim requests
          Waiters,    \* request handlers of /local/task/{id}/wait
          MaxFaults   \* bound: disconnects and server restarts

Tasks == 1..MaxTasks

(* The check constraint on fleet.local_tasks.status, and its groups. *)
LiveStatuses  == {"queued", "claimed", "running"}
Settled       == Outcomes \cup {"expired"}
Statuses      == {"absent"} \cup LiveStatuses \cup Settled

NoOutcome == "none"

(* What a claim request asks for: `kinds` empty means any kind, `long`     *)
(* tells the long-poll route from the one-shot one.                        *)
ClaimRequest == [runner : Runners, kinds : SUBSET Kinds,
                 limit : Nat \ {0}, long : BOOLEAN]

ASSUME LocalTasksAssumption ==
    /\ MaxTasks \in Nat
    /\ MaxFaults \in Nat
    /\ NoKey \notin Keys
    /\ NoKind \notin Kinds
    /\ Nobody \notin Runners
    /\ Outcomes \subseteq {"succeeded", "failed", "cancelled"}
    /\ Requests \subseteq ClaimRequest

VARIABLES
    status, kind, key, owner,   \* the columns of fleet.local_tasks
    overdue,     \* rows whose created_at + ttl has passed
    deliveries,  \* history: times a row was handed to a connected runner
    acked,       \* history: the result a caller was told was recorded
    want,        \* want[c]: the insert that client c's handler is about to do
    pc, req,     \* where claim handler p is, and the request it serves
    batch,       \* rows the claim statement of p has locked, or returned
    online,      \* whether the runner behind p still listens
    watch, told, \* the row waiter w waits for, and its last answer
    faults       \* disconnects and restarts so far

rowVars     == <<status, kind, key, owner, overdue>>
historyVars == <<deliveries, acked>>
pollVars    == <<pc, req, batch, online>>
waitVars    == <<watch, told>>
vars == <<rowVars, historyVars, want, pollVars, waitVars, faults>>

NoWant    == [kind |-> NoKind, key |-> NoKey]
NoRequest == [runner |-> Nobody, kinds |-> {}, limit |-> 1, long |-> FALSE]
NoTask    == 0
NoAnswer  == [task |-> NoTask, status |-> "absent"]

Init ==
    /\ status = [t \in Tasks |-> "absent"]
    /\ kind = [t \in Tasks |-> NoKind]
    /\ key = [t \in Tasks |-> NoKey]
    /\ owner = [t \in Tasks |-> Nobody]
    /\ overdue = {}
    /\ deliveries = [t \in Tasks |-> 0]
    /\ acked = [t \in Tasks |-> NoOutcome]
    /\ want = [c \in Clients |-> NoWant]
    /\ pc = [p \in Pollers |-> "idle"]
    /\ req = [p \in Pollers |-> NoRequest]
    /\ batch = [p \in Pollers |-> {}]
    /\ online = [p \in Pollers |-> TRUE]
    /\ watch = [w \in Waiters |-> NoTask]
    /\ told = [w \in Waiters |-> NoAnswer]
    /\ faults = 0

----------------------------------------------------------------------------
(* Queueing: Db.queue_local_task, two statements.                          *)

(* Mutant: the dedup lookup forgets claimed rows. *)
MutantLiveWithKey(d) == {t \in Tasks : status[t] = "queued" /\ key[t] = d}

LiveWithKey(d) == {t \in Tasks : status[t] \in LiveStatuses /\ key[t] = d}

(* The dedup lookup, for a request with a key.  A hit returns the id of    *)
(* the live row and changes nothing; on a miss the handler goes on.        *)
QueueCheck(c, k, d) ==
    /\ want[c] = NoWant
    /\ LiveWithKey(d) = {}
    /\ want' = [want EXCEPT ![c] = [kind |-> k, key |-> d]]
    /\ UNCHANGED <<rowVars, historyVars, pollVars, waitVars, faults>>

NextRow(t) == status[t] = "absent" /\ \A u \in Tasks : u < t => status[u] # "absent"

InsertRow(t, k, d) ==
    /\ NextRow(t)
    /\ status' = [status EXCEPT ![t] = "queued"]
    /\ kind' = [kind EXCEPT ![t] = k]
    /\ key' = [key EXCEPT ![t] = d]
    /\ UNCHANGED <<owner, overdue, historyVars, pollVars, waitVars, faults>>

(* The insert, after a lookup that missed. *)
QueueInsert(c, t) ==
    /\ want[c] # NoWant
    /\ InsertRow(t, want[c].kind, want[c].key)
    /\ want' = [want EXCEPT ![c] = NoWant]

(* A request without a key is the insert alone. *)
QueueUnkeyed(c, t, k) ==
    /\ want[c] = NoWant
    /\ InsertRow(t, k, NoKey)
    /\ UNCHANGED want

----------------------------------------------------------------------------
(* Claiming: /local/claim, /local/claim/long-poll and the MCP tool, over   *)
(* Db.claim_local_tasks.                                                   *)

StartClaim(p, r) ==
    /\ pc[p] = "idle"
    /\ pc' = [pc EXCEPT ![p] = IF r.long THEN "top" ELSE "sweep"]
    /\ req' = [req EXCEPT ![p] = r]
    /\ UNCHANGED <<rowVars, historyVars, want, batch, online, waitVars, faults>>

(* Handler p is done, whatever it leaves behind in the table. *)
Finish(p) ==
    /\ pc' = [pc EXCEPT ![p] = "idle"]
    /\ req' = [req EXCEPT ![p] = NoRequest]
    /\ batch' = [batch EXCEPT ![p] = {}]
    /\ online' = [online EXCEPT ![p] = TRUE]

(* The long-poll loop looks at the connection before each claim only. *)
CheckConnection(p) ==
    /\ pc[p] = "top"
    /\ \/ /\ online[p]
          /\ pc' = [pc EXCEPT ![p] = "sweep"]
          /\ UNCHANGED <<req, batch, online>>
       \/ ~online[p] /\ Finish(p)
    /\ UNCHANGED <<rowVars, historyVars, want, waitVars, faults>>

(* Rows locked by a claim statement that has not committed. *)
Locked == UNION {batch[p] : p \in {q \in Pollers : pc[q] = "update"}}

Stale == {t \in overdue : status[t] \in LiveStatuses}

(* Mutants: the sweep takes un-claimed rows only, or finished rows too. *)
SweepOf(p, S) ==
    /\ pc[p] = "sweep"
    /\ Stale \cap Locked = {}
    /\ status' = [t \in Tasks |-> IF t \in S THEN "expired" ELSE status[t]]
    /\ pc' = [pc EXCEPT ![p] = "select"]
    /\ UNCHANGED <<kind, key, owner, overdue, historyVars, want,
                   req, batch, online, waitVars, faults>>
MutantSweepQueuedOnly(p) == SweepOf(p, {t \in Stale : status[t] = "queued"})
MutantSweepFinished(p) == SweepOf(p, overdue)

(* First statement: fleet.expire_local_tasks().  It settles every live row *)
(* whose time is over, claimed ones too, and waits for locked ones.        *)
ExpireLocalTasks(p) ==
    /\ pc[p] = "sweep"
    /\ Stale \cap Locked = {}
    /\ status' = [t \in Tasks |-> IF t \in Stale THEN "expired" ELSE status[t]]
    /\ pc' = [pc EXCEPT ![p] = "select"]
    /\ UNCHANGED <<kind, key, owner, overdue, historyVars, want,
                   req, batch, online, waitVars, faults>>

Oldest(n, S) == {t \in S : Cardinality({u \in S : u < t}) < n}

Wanted(r, t) == r.kinds = {} \/ kind[t] \in r.kinds

(* Mutant: a sub-select without row locks. *)
MutantSelectForUpdate(p) ==
    /\ pc[p] = "select"
    /\ LET free == {t \in Tasks : status[t] = "queued" /\ Wanted(req[p], t)}
       IN  batch' = [batch EXCEPT ![p] = Oldest(req[p].limit, free)]
    /\ pc' = [pc EXCEPT ![p] = "update"]
    /\ UNCHANGED <<rowVars, historyVars, want, req, online, waitVars, faults>>

(* Second statement, the sub-select: SELECT ... WHERE status = 'queued'    *)
(* ORDER BY created_at FOR UPDATE SKIP LOCKED LIMIT n.                     *)
SelectForUpdate(p) ==
    /\ pc[p] = "select"
    /\ LET free == {t \in Tasks : /\ status[t] = "queued"
                                  /\ Wanted(req[p], t)
                                  /\ t \notin Locked}
       IN  batch' = [batch EXCEPT ![p] = Oldest(req[p].limit, free)]
    /\ pc' = [pc EXCEPT ![p] = "update"]
    /\ UNCHANGED <<rowVars, historyVars, want, req, online, waitVars, faults>>

(* Second statement, the update of the locked rows and its commit.  A long *)
(* poll that got nothing goes on waiting; anything else is replied.        *)
UpdateClaimed(p) ==
    /\ pc[p] = "update"
    /\ status' = [t \in Tasks |-> IF t \in batch[p] THEN "claimed" ELSE status[t]]
    /\ owner' = [t \in Tasks |-> IF t \in batch[p] THEN req[p].runner ELSE owner[t]]
    /\ pc' = [pc EXCEPT ![p] = IF req[p].long /\ batch[p] = {}
                               THEN "empty" ELSE "reply"]
    /\ UNCHANGED <<kind, key, overdue, historyVars, want,
                   req, batch, online, waitVars, faults>>

(* The response; it reaches the runner only if that still listens. *)
Reply(p) ==
    /\ pc[p] = "reply"
    /\ deliveries' = [t \in Tasks |-> IF online[p] /\ t \in batch[p]
                                      THEN deliveries[t] + 1 ELSE deliveries[t]]
    /\ Finish(p)
    /\ UNCHANGED <<rowVars, acked, want, waitVars, faults>>

(* Mutant: the deadline is looked at for disconnected callers only. *)
MutantGiveUp(p) ==
    /\ pc[p] = "empty"
    /\ ~online[p]
    /\ Finish(p)
    /\ UNCHANGED <<rowVars, historyVars, want, waitVars, faults>>

(* An empty long poll past its deadline returns, before it sleeps and      *)
(* tries again.  The deadline is a fixed instant that any pass may cross.  *)
GiveUp(p) ==
    /\ pc[p] = "empty"
    /\ Finish(p)
    /\ UNCHANGED <<rowVars, historyVars, want, waitVars, faults>>

SleepAndRetry(p) ==
    /\ pc[p] = "empty"
    /\ pc' = [pc EXCEPT ![p] = "top"]
    /\ UNCHANGED <<rowVars, historyVars, want, req, batch, online, waitVars, faults>>

----------------------------------------------------------------------------
(* Mutant: the update has no condition on the status. *)
MutantCompleteLocalTask(t, o) ==
    /\ status[t] # "absent"
    /\ status' = [status EXCEPT ![t] = o]
    /\ acked' = [acked EXCEPT ![t] = o]
    /\ UNCHANGED <<kind, key, owner, overdue, deliveries, want, pollVars,
                   waitVars, faults>>

(* Completing: /local/complete and the MCP tool.  Any caller may report    *)
(* any row, more than once; a report for a row that is not claimed         *)
(* answers ok=False and changes nothing.                                   *)
CompleteLocalTask(t, o) ==
    /\ status[t] \in {"claimed", "running"}
    /\ status' = [status EXCEPT ![t] = o]
    /\ acked' = [acked EXCEPT ![t] = o]
    /\ UNCHANGED <<kind, key, owner, overdue, deliveries, want, pollVars,
                   waitVars, faults>>

----------------------------------------------------------------------------
(* Waiting: /local/task/{id}/wait.                                         *)

WaitStart(w, t) ==
    /\ watch[w] = NoTask
    /\ watch' = [watch EXCEPT ![w] = t]
    /\ UNCHANGED <<rowVars, historyVars, want, pollVars, told, faults>>

(* One pass of the loop that answers: the row does not exist, or has a     *)
(* result ('expired' is not among _TERMINAL_STATUSES), or the deadline is  *)
(* over and the row is returned as it is.  Other passes change nothing.    *)
WaitAnswer(w, late) ==
    /\ watch[w] # NoTask
    /\ late \/ status[watch[w]] \in Outcomes \cup {"absent"}
    /\ told' = [told EXCEPT ![w] = [task |-> watch[w], status |-> status[watch[w]]]]
    /\ watch' = [watch EXCEPT ![w] = NoTask]
    /\ UNCHANGED <<rowVars, historyVars, want, pollVars, faults>>

----------------------------------------------------------------------------
(* The environment: time passes, runners disconnect, the server restarts.  *)

Age(t) ==
    /\ status[t] \in LiveStatuses
    /\ t \notin overdue
    /\ overdue' = overdue \cup {t}
    /\ UNCHANGED <<status, kind, key, owner, historyVars, want, pollVars,
                   waitVars, faults>>

Disconnect(p) ==
    /\ pc[p] # "idle"
    /\ online[p]
    /\ faults < MaxFaults
    /\ online' = [online EXCEPT ![p] = FALSE]
    /\ faults' = faults + 1
    /\ UNCHANGED <<rowVars, historyVars, want, pc, req, batch, waitVars>>

(* Handlers die with the process; statements that had not committed are    *)
(* rolled back, so the rows they had locked are simply free again.         *)
ServerRestart ==
    /\ faults < MaxFaults
    /\ faults' = faults + 1
    /\ want' = [c \in Clients |-> NoWant]
    /\ pc' = [p \in Pollers |-> "idle"]
    /\ req' = [p \in Pollers |-> NoRequest]
    /\ batch' = [p \in Pollers |-> {}]
    /\ online' = [p \in Pollers |-> TRUE]
    /\ watch' = [w \in Waiters |-> NoTask]
    /\ UNCHANGED <<rowVars, historyVars, told>>

----------------------------------------------------------------------------
Client(c) == \E k \in Kinds :
                \/ \E d \in Keys : QueueCheck(c, k, d)
                \/ \E t \in Tasks : QueueUnkeyed(c, t, k)

Pending(c) == \E t \in Tasks : QueueInsert(c, t)

Poller(p) == \/ \E r \in Requests : StartClaim(p, r)
             \/ CheckConnection(p)
             \/ ExpireLocalTasks(p)
             \/ SelectForUpdate(p)
             \/ UpdateClaimed(p)
             \/ Reply(p)
             \/ GiveUp(p)
             \/ SleepAndRetry(p)

Complete == \E t \in Tasks, o \in Outcomes : CompleteLocalTask(t, o)

Waiter(w) == \/ \E t \in Tasks : WaitStart(w, t)
             \/ \E late \in BOOLEAN : WaitAnswer(w, late)

Next == \/ \E c \in Clients : Client(c) \/ Pending(c)
        \/ \E p \in Pollers : Poller(p) \/ Disconnect(p)
        \/ \E w \in Waiters : Waiter(w)
        \/ \E t \in Tasks : Age(t)
        \/ Complete
        \/ ServerRestart

Spec == Init /\ [][Next]_vars

(* Handlers run (the event loop is fair to them), runners poll again after *)
(* each reply, and time passes for every row.  No poll waits for ever:     *)
(* its deadline is fixed when it starts, and each pass compares the clock  *)
(* with it.                                                                *)
Fairness == /\ \A p \in Pollers : /\ WF_vars(Poller(p))
                                  /\ SF_vars(GiveUp(p))
            /\ \A t \in Tasks : WF_vars(Age(t))

FairSpec == Spec /\ Fairness

----------------------------------------------------------------------------
TypeOK ==
    /\ status \in [Tasks -> Statuses]
    /\ kind \in [Tasks -> Kinds \cup {NoKind}]
    /\ key \in [Tasks -> Keys \cup {NoKey}]
    /\ owner \in [Tasks -> Runners \cup {Nobody}]
    /\ overdue \in SUBSET Tasks
    /\ deliveries \in [Tasks -> Nat]
    /\ acked \in [Tasks -> Outcomes \cup {NoOutcome}]
    /\ want \in [Clients -> [kind : Kinds \cup {NoKind}, key : Keys \cup {NoKey}]]
    /\ pc \in [Pollers -> {"idle", "top", "sweep", "select", "update",
                           "reply", "empty"}]
    /\ req \in [Pollers -> Requests \cup {NoRequest}]
    /\ batch \in [Pollers -> SUBSET Tasks]
    /\ online \in [Pollers -> BOOLEAN]
    /\ watch \in [Waiters -> Tasks \cup {NoTask}]
    /\ told \in [Waiters -> [task : Tasks \cup {NoTask}, status : Statuses]]
    /\ faults \in 0..MaxFaults

(* A task is handed to a connected runner at most once, however claims     *)
(* overlap, replies get lost and the server restarts: db.py locks rows     *)
(* with SKIP LOCKED and nothing puts a claimed row back.                   *)
AtMostOnceDelivery == \A t \in Tasks : deliveries[t] <= 1

(* No row is in the hands of two claim handlers, from the lock of the      *)
(* sub-select to the reply.                                                *)
ClaimsDisjoint ==
    \A p, q \in Pollers : p # q => batch[p] \cap batch[q] = {}

(* What became of a row a runner was given: its result was acknowledged    *)
(* and is in the table, or it is still claimed, or the sweep took it.  So  *)
(* a report that is answered ok=False never finds a row that nobody has    *)
(* claimed yet.                                                            *)
HandedOutAccounted ==
    \A t \in Tasks : deliveries[t] > 0 =>
        \/ acked[t] = NoOutcome /\ status[t] \in {"claimed", "expired"}
        \/ acked[t] # NoOutcome /\ status[t] = acked[t]

(* A status that /local/task/{id}/wait reported as final stays true.       *)
WaitAnswerStaysTrue ==
    \A w \in Waiters : told[w].status \in Settled =>
        status[told[w].task] = told[w].status

(* Two live rows never share a dedup key (comment of column dedup_key and  *)
(* of queue_local_task).  Holds for one queueing client at a time only.    *)
OneLiveTaskPerKey ==
    \A t, u \in Tasks :
        t # u /\ key[t] = key[u] /\ key[t] # NoKey =>
            ~(status[t] \in LiveStatuses /\ status[u] \in LiveStatuses)

(* A claim belongs to one runner for ever: claimed_by is written once.     *)
ClaimIsForKeeps ==
    [][\A t \in Tasks : owner[t] # Nobody => owner'[t] = owner[t]]_vars

(* A result that a caller was told was recorded is never overwritten, by a *)
(* late duplicate report, another caller's report or the sweep.            *)
AckedResultKept ==
    [][\A t \in Tasks : acked[t] # NoOutcome =>
          acked'[t] = acked[t] /\ status'[t] = acked[t]]_vars

(* Every task gets a final status in the end: even if its reply was lost   *)
(* or its runner is gone, a poll of any runner expires it.                 *)
EventuallySettled ==
    \A t \in Tasks : (status[t] = "queued") ~> (status[t] \in Settled)

(* No claim handler waits for ever, on row locks or in its loop.           *)
ClaimReturns == \A p \in Pollers : (pc[p] # "idle") ~> (pc[p] = "idle")

----------------------------------------------------------------------------
(* The queue implements the abstract work queue, without release.          *)
Phase(t) == CASE status[t] = "absent" -> "absent"
              [] status[t] = "queued" -> "waiting"
              [] status[t] \in {"claimed", "running"} -> "leased"
              [] OTHER -> "done"

Lessee(t) == IF Phase(t) = "leased" THEN owner[t] ELSE Nobody

FinalStatus(t) == IF Phase(t) = "done" THEN status[t] ELSE NoOutcome

WQ == INSTANCE WorkQueue WITH
    Items <- Tasks,
    Workers <- Runners,
    Outcomes <- Settled,
    Unsettled <- NoOutcome,
    Releasable <- FALSE,
    phase <- [t \in Tasks |-> Phase(t)],
    lessee <- [t \in Tasks |-> Lessee(t)],
    outcome <- [t \in Tasks |-> FinalStatus(t)]

(* Rows are leased to one runner at a time and settled once.               *)
ImplementsWorkQueue == WQ!Spec

----------------------------------------------------------------------------
(* The inductive invariant behind the claim properties.                    *)

(* Only a claim statement in progress or a reply holds rows. *)
BatchHeld ==
    \A p \in Pollers : batch[p] # {} => pc[p] \in {"update", "reply"}

(* Locked rows are still queued: the sweep and the other claims leave them *)
(* alone until the statement commits.                                      *)
LockedRowsQueued == \A t \in Locked : status[t] = "queued"

(* Rows about to be handed out are claimed, and were never handed out.     *)
RepliedRowsFresh ==
    \A p \in Pollers : pc[p] = "reply" => \A t \in batch[p] :
        deliveries[t] = 0 /\ owner[t] = req[p].runner /\ owner[t] # Nobody

(* A row nobody has claimed has no claim history. *)
UnclaimedRowsFresh ==
    \A t \in Tasks : status[t] \in {"absent", "queued"} =>
        owner[t] = Nobody /\ deliveries[t] = 0 /\ acked[t] = NoOutcome

(* An owned row is past the queue, and an acknowledged one has its result. *)
ResultsRecorded ==
    \A t \in Tasks : /\ owner[t] # Nobody => status[t] \notin {"absent", "queued"}
                     /\ status[t] \in {"claimed", "running"} \cup Outcomes
                           => owner[t] # Nobody
                     /\ acked[t] # NoOutcome => status[t] = acked[t]
                     /\ acked[t] = NoOutcome => status[t] \notin Outcomes \cup {"running"}

(* A request being served names a runner. *)
RequestServed ==
    \A p \in Pollers : pc[p] # "idle" => req[p] \in Requests

ClaimInv ==
    /\ TypeOK
    /\ ClaimsDisjoint
    /\ AtMostOnceDelivery
    /\ BatchHeld
    /\ LockedRowsQueued
    /\ RepliedRowsFresh
    /\ UnclaimedRowsFresh
    /\ ResultsRecorded
    /\ RequestServed
=============================================================================
