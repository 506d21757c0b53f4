---------------------------- MODULE PendingMoves ----------------------------
(***************************************************************************)
(* The approval queue: table public.pending_moves (owned by motto-director *)
(* and shared with it), the statements of mcp_server/db.py that touch it,  *)
(* the cockpit routes a human approves or rejects moves with, the chat     *)
(* tools that propose moves, and the MCP tools droids claim and release    *)
(* approved moves with.                                                    *)
(*                                                                         *)
(* A claim is two steps, the FOR UPDATE SKIP LOCKED sub-select and the     *)
(* commit of the update, as in LocalTasks.  Releases are messages: a droid *)
(* sends one and stops working on the move at once; it may reach the       *)
(* server late and, when the droid retries a call whose answer it missed,  *)
(* a second time.  Moves are numbered in insertion order (created_at).     *)
(***************************************************************************)
EXTENDS Naturals, FiniteSets, Sequences

CONSTANTS MaxMoves,    \* bound: rows ever inserted
          Kinds,       \* move kinds ('merge_pr', 'file_issue', 'noop', ...)
          NoKind,      \* kind of a row not inserted yet
          Priorities,  \* priorities moves are proposed with
          Droids,      \* runner ids; each polls with one call at a time
          Nobody,      \* claimed_by IS NULL
          Requests,    \* the kinds and limit of the claims droids make
          MaxReleases, \* bound: releases sent
          MaxCuts      \* bound: claims cut off by a lost connection or restart

Moves == 1..MaxMoves

Statuses == {"absent", "pending", "approved", "claimed", "applied", "rejected"}
Verdicts == {"none", "approved", "rejected"}

ClaimRequest == [kinds : SUBSET Kinds, limit : 1..10]
ReleaseCall  == [move : Moves, runner : Droids, repeat : BOOLEAN]

ASSUME PendingMovesAssumption ==
    /\ MaxMoves \in Nat
    /\ MaxReleases \in Nat
    /\ MaxCuts \in Nat
    /\ NoKind \notin Kinds
    /\ Nobody \notin Droids
    /\ Priorities \subseteq Nat
    /\ Requests \subseteq ClaimRequest

VARIABLES
    status, kind, priority, claimedBy,  \* columns of public.pending_moves
    verdict,    \* history: what the cockpit answered about the row
    pc, req,    \* the claim call of droid d, and what it asks for
    batch,      \* rows the claim statement of d has locked, or returned
    holds,      \* moves droid d was given and is working on
    calls,      \* release calls on their way to the server
    sent,       \* releases sent so far
    cuts,       \* claim calls cut off so far
    lost,       \* moves whose claim committed but whose answer was lost
    repeated    \* history: the droid and move of each release that was repeated

rowVars   == <<status, kind, priority, claimedBy>>
claimVars == <<pc, req, batch>>
callVars  == <<calls, sent, repeated>>
vars == <<rowVars, verdict, claimVars, holds, callVars, cuts, lost>>

NoRequest == [kinds |-> {}, limit |-> 1]

Init ==
    /\ status = [m \in Moves |-> "absent"]
    /\ kind = [m \in Moves |-> NoKind]
    /\ priority = [m \in Moves |-> 0]
    /\ claimedBy = [m \in Moves |-> Nobody]
    /\ verdict = [m \in Moves |-> "none"]
    /\ pc = [d \in Droids |-> "idle"]
    /\ req = [d \in Droids |-> NoRequest]
    /\ batch = [d \in Droids |-> {}]
    /\ holds = [d \in Droids |-> {}]
    /\ calls = {}
    /\ sent = 0
    /\ cuts = 0
    /\ lost = {}
    /\ repeated = {}

----------------------------------------------------------------------------
(* Proposing and deciding.                                                 *)

NextRow(m) == status[m] = "absent" /\ \A u \in Moves : u < m => status[u] # "absent"

(* A chat tool, or motto-director, proposes a move; it waits for a human.  *)
EnqueuePendingMove(m, k, n) ==
    /\ NextRow(m)
    /\ status' = [status EXCEPT ![m] = "pending"]
    /\ kind' = [kind EXCEPT ![m] = k]
    /\ priority' = [priority EXCEPT ![m] = n]
    /\ UNCHANGED <<claimedBy, verdict, claimVars, holds, callVars, cuts, lost>>

(* Mutant: the update has no condition on the status. *)
MutantDecide(ids, v) ==
    /\ \E m \in ids : status[m] # "absent"
    /\ LET open == {m \in ids : status[m] # "absent"}
       IN  /\ status' = [m \in Moves |-> IF m \in open THEN v ELSE status[m]]
           /\ verdict' = [m \in Moves |-> IF m \in open THEN v ELSE verdict[m]]
    /\ UNCHANGED <<kind, priority, claimedBy, claimVars, holds,
                   callVars, cuts, lost>>

(* The rows of `ids` that are still pending get status v; each statement   *)
(* is answered with the number of rows it changed.                         *)
Decide(ids, v) ==
    /\ ids \cap {m \in Moves : status[m] = "pending"} # {}
    /\ LET open == {m \in ids : status[m] = "pending"}
       IN  /\ status' = [m \in Moves |-> IF m \in open THEN v ELSE status[m]]
           /\ verdict' = [m \in Moves |-> IF m \in open THEN v ELSE verdict[m]]
    /\ UNCHANGED <<kind, priority, claimedBy, claimVars, holds,
                   callVars, cuts, lost>>

DirectorApproveMove(m) == Decide({m}, "approved")

DirectorBulkApprove(ids) == Decide(ids, "approved")

DirectorRejectMove(m) == Decide({m}, "rejected")

----------------------------------------------------------------------------
(* Claiming: the tool claim_next_step over Db.director_claim_next_step.    *)

(* Calls with an empty runner id or a limit outside 1..10 change nothing.  *)
StartClaim(d, r) ==
    /\ pc[d] = "idle"
    /\ pc' = [pc EXCEPT ![d] = "select"]
    /\ req' = [req EXCEPT ![d] = r]
    /\ UNCHANGED <<rowVars, verdict, batch, holds, callVars, cuts, lost>>

Locked == UNION {batch[d] : d \in {e \in Droids : pc[e] = "update"}}

(* ORDER BY priority DESC, created_at ASC *)
Before(u, m) == priority[u] > priority[m] \/ (priority[u] = priority[m] /\ u < m)

First(n, S) == {m \in S : Cardinality({u \in S : Before(u, m)}) < n}

(* Mutant: an empty list of kinds asks for nothing. *)
MutantWanted(r, m) == kind[m] \in r.kinds

Wanted(r, m) == r.kinds = {} \/ kind[m] \in r.kinds

(* Mutant: the sub-select does not wait for the human. *)
MutantSelectPending(d) ==
    /\ pc[d] = "select"
    /\ LET free == {m \in Moves \ Locked : /\ status[m] \in {"pending", "approved"}
                                           /\ Wanted(req[d], m)}
       IN  batch' = [batch EXCEPT ![d] = First(req[d].limit, free)]
    /\ pc' = [pc EXCEPT ![d] = "update"]
    /\ UNCHANGED <<rowVars, verdict, req, holds, callVars, cuts, lost>>

SelectForUpdate(d) ==
    /\ pc[d] = "select"
    /\ LET free == {m \in Moves : /\ status[m] = "approved"
                                  /\ Wanted(req[d], m)
                                  /\ m \notin Locked}
       IN  batch' = [batch EXCEPT ![d] = First(req[d].limit, free)]
    /\ pc' = [pc EXCEPT ![d] = "update"]
    /\ UNCHANGED <<rowVars, verdict, req, holds, callVars, cuts, lost>>

UpdateClaimed(d) ==
    /\ pc[d] = "update"
    /\ status' = [m \in Moves |-> IF m \in batch[d] THEN "claimed" ELSE status[m]]
    /\ claimedBy' = [m \in Moves |-> IF m \in batch[d] THEN d ELSE claimedBy[m]]
    /\ pc' = [pc EXCEPT ![d] = "answer"]
    /\ UNCHANGED <<kind, priority, verdict, req, batch, holds,
                   callVars, cuts, lost>>

Finish(d) ==
    /\ pc' = [pc EXCEPT ![d] = "idle"]
    /\ req' = [req EXCEPT ![d] = NoRequest]
    /\ batch' = [batch EXCEPT ![d] = {}]

Answer(d) ==
    /\ pc[d] = "answer"
    /\ holds' = [holds EXCEPT ![d] = @ \cup batch[d]]
    /\ Finish(d)
    /\ UNCHANGED <<rowVars, verdict, callVars, cuts, lost>>

(* The connection or the server goes down during a claim: a statement that *)
(* has not committed is rolled back, an answer on its way is lost.         *)
LoseClaim(d) ==
    /\ pc[d] \in {"update", "answer"}
    /\ batch[d] # {}
    /\ cuts < MaxCuts
    /\ cuts' = cuts + 1
    /\ lost' = IF pc[d] = "answer" THEN lost \cup batch[d] ELSE lost
    /\ Finish(d)
    /\ UNCHANGED <<rowVars, verdict, holds, callVars>>

----------------------------------------------------------------------------
(* Releasing: the tool release_claimed_step over director_release_claim.   *)

(* A droid gives a move back. *)
SendRelease(d, m) ==
    /\ m \in holds[d]
    /\ sent < MaxReleases
    /\ sent' = sent + 1
    /\ holds' = [holds EXCEPT ![d] = @ \ {m}]
    /\ calls' = calls \cup {[move |-> m, runner |-> d, repeat |-> FALSE]}
    /\ UNCHANGED <<rowVars, verdict, claimVars, repeated, cuts, lost>>

(* Mutant: a release whoever has claimed the move. *)
MutantReleaseAnybody(c) ==
    IF status[c.move] = "claimed"
    THEN /\ status' = [status EXCEPT ![c.move] = "approved"]
         /\ claimedBy' = [claimedBy EXCEPT ![c.move] = Nobody]
         /\ UNCHANGED <<kind, priority>>
    ELSE UNCHANGED rowVars

(* Mutant: the wrong comparison with claimed_by. *)
MutantDirectorReleaseClaim(c) ==
    IF status[c.move] = "claimed" /\ claimedBy[c.move] # c.runner
    THEN /\ status' = [status EXCEPT ![c.move] = "approved"]
         /\ claimedBy' = [claimedBy EXCEPT ![c.move] = Nobody]
         /\ UNCHANGED <<kind, priority>>
    ELSE UNCHANGED rowVars

DirectorReleaseClaim(c) ==
    IF status[c.move] = "claimed" /\ claimedBy[c.move] = c.runner
    THEN /\ status' = [status EXCEPT ![c.move] = "approved"]
         /\ claimedBy' = [claimedBy EXCEPT ![c.move] = Nobody]
         /\ UNCHANGED <<kind, priority>>
    ELSE UNCHANGED rowVars

(* A release call arrives.  A droid that misses the answer may repeat the  *)
(* call, once.                                                             *)
ReceiveRelease(c) ==
    /\ c \in calls
    /\ DirectorReleaseClaim(c)
    /\ \/ calls' = calls \ {c} /\ UNCHANGED repeated
       \/ /\ ~c.repeat
          /\ calls' = (calls \ {c}) \cup {[c EXCEPT !.repeat = TRUE]}
          /\ repeated' = repeated \cup {<<c.runner, c.move>>}
    /\ UNCHANGED <<verdict, claimVars, holds, sent, cuts, lost>>

----------------------------------------------------------------------------
(* Applying is outside this repository: the droid, or motto-director for   *)
(* it, marks a move it holds as applied.  That update waits for row locks. *)
Apply(d, m) ==
    /\ m \in holds[d] \ Locked
    /\ status' = [status EXCEPT ![m] = "applied"]
    /\ holds' = [holds EXCEPT ![d] = @ \ {m}]
    /\ UNCHANGED <<kind, priority, claimedBy, verdict, claimVars,
                   callVars, cuts, lost>>

----------------------------------------------------------------------------
Human == \/ \E m \in Moves : DirectorApproveMove(m) \/ DirectorRejectMove(m)
         \/ \E ids \in SUBSET Moves : DirectorBulkApprove(ids)

Claim(d) == \/ \E r \in Requests : StartClaim(d, r)
            \/ SelectForUpdate(d)
            \/ UpdateClaimed(d)
            \/ Answer(d)

Droid(d) == \/ LoseClaim(d)
            \/ \E m \in Moves : SendRelease(d, m) \/ Apply(d, m)

Next == \/ \E m \in Moves, k \in Kinds, n \in Priorities : EnqueuePendingMove(m, k, n)
        \/ Human
        \/ \E d \in Droids : Claim(d) \/ Droid(d)
        \/ \E c \in calls : ReceiveRelease(c)

Spec == Init /\ [][Next]_vars

(* Droids keep polling, and calls that were sent arrive. *)
FairSpec == /\ Spec
            /\ \A d \in Droids : WF_vars(Claim(d))
            /\ WF_vars(\E c \in calls : ReceiveRelease(c))

----------------------------------------------------------------------------
TypeOK ==
    /\ status \in [Moves -> Statuses]
    /\ kind \in [Moves -> Kinds \cup {NoKind}]
    /\ priority \in [Moves -> Nat]
    /\ claimedBy \in [Moves -> Droids \cup {Nobody}]
    /\ verdict \in [Moves -> Verdicts]
    /\ pc \in [Droids -> {"idle", "select", "update", "answer"}]
    /\ req \in [Droids -> Requests \cup {NoRequest}]
    /\ batch \in [Droids -> SUBSET Moves]
    /\ holds \in [Droids -> SUBSET Moves]
    /\ calls \in SUBSET ReleaseCall
    /\ sent \in 0..MaxReleases
    /\ cuts \in 0..MaxCuts
    /\ lost \in SUBSET Moves
    /\ repeated \in SUBSET (Droids \X Moves)

(* Nothing reaches a droid that no human approved, and what a human        *)
(* rejected never leaves that status.                                      *)
HumanGate ==
    \A m \in Moves :
        /\ status[m] \in {"approved", "claimed", "applied"} => verdict[m] = "approved"
        /\ status[m] = "rejected" <=> verdict[m] = "rejected"
        /\ (\E d \in Droids : m \in holds[d] \cup batch[d]) => verdict[m] = "approved"

(* Approve and reject, single or bulk, race for a row and one wins: the    *)
(* answer about a row is never given twice.                                *)
VerdictOnce ==
    [][\A m \in Moves : verdict[m] # "none" => verdict'[m] = verdict[m]]_vars

(* A release call names the move and the runner but not the claim, so one  *)
(* that a droid repeats may take away a claim that it has made since.      *)
Overtaken(m) == \E d \in Droids : <<d, m>> \in repeated

Owned(d, m) ==
    /\ claimedBy[m] = d
    /\ \/ status[m] = "claimed"
       \/ status[m] = "applied" /\ Overtaken(m)

(* "multiple droids polling the same queue do not double-claim": a droid   *)
(* that has not repeated a release of a move works on it only while the    *)
(* table says that the move is claimed by it; no call of another droid,    *)
(* late or repeated, takes the claim away.  All that can happen is that a  *)
(* droid which repeated its release, and works on without its claim, has   *)
(* applied the move.                                                       *)
HolderIsOwner ==
    \A d \in Droids : \A m \in holds[d] : <<d, m>> \notin repeated => Owned(d, m)

(* A claimed row is in a droid's hands or on its way to it or back, unless *)
(* an answer was lost; nothing else strands it.                            *)
ClaimAccounted ==
    \A m \in Moves : status[m] = "claimed" =>
        \/ m \in holds[claimedBy[m]] \cup batch[claimedBy[m]] \cup lost
        \/ \E c \in calls : c.move = m /\ c.runner = claimedBy[m]

(* An approved move does not stay in the queue: a bounded number of        *)
(* releases and lost calls cannot starve it.                               *)
EventuallyClaimed ==
    \A m \in Moves : (status[m] = "approved") ~> (status[m] # "approved")

----------------------------------------------------------------------------
(* The queue implements the abstract work queue, with release; a row is in *)
(* it from its approval.                                                   *)
Phase(m) == CASE status[m] \in {"absent", "pending"} -> "absent"
              [] status[m] = "approved" -> "waiting"
              [] status[m] = "claimed" -> "leased"
              [] OTHER -> "done"

Lessee(m) == IF status[m] = "claimed" THEN claimedBy[m] ELSE Nobody

FinalStatus(m) == IF status[m] \in {"applied", "rejected"} THEN status[m] ELSE "none"

WQ == INSTANCE WorkQueue WITH
    Items <- Moves,
    Workers <- Droids,
    Outcomes <- {"applied", "rejected"},
    Unsettled <- "none",
    Releasable <- TRUE,
    phase <- [m \in Moves |-> Phase(m)],
    lessee <- [m \in Moves |-> Lessee(m)],
    outcome <- [m \in Moves |-> FinalStatus(m)]

(* Moves are leased to one droid at a time, and settled once.              *)
ImplementsWorkQueue == WQ!Spec
=============================================================================
