----------------------------- MODULE VerifyMove -----------------------------
(***************************************************************************)
(* Verifying moves: the MCP tool verify_move, the verifiers it dispatches  *)
(* to, the rows it records in fleet.move_verifications, the trust scores   *)
(* it nudges in fleet.trust_scores, and the capability request that a      *)
(* verifier without credentials files (module Capabilities).               *)
(*                                                                         *)
(* A call is a sequence of statements, each a transaction of its own:      *)
(*   fetch the move, verify (look up and insert a capability request when  *)
(*   the token is missing), record, then for the scope 'global' and the    *)
(*   scope of the repo: read the score, write the new score.               *)
(* Calls interleave between statements, and any of them may be cut off by  *)
(* a server restart.                                                       *)
(*                                                                         *)
(* A score is an exponential average of the samples it has absorbed; it is *)
(* represented by that sequence of samples.                                *)
(***************************************************************************)
EXTENDS Naturals, Sequences, FiniteSets, Capabilities

CONSTANTS Moves,       \* rows of public.pending_moves
          NoMove,
          KindOf,      \* their kind
          RepoOf,      \* their repo, NoRepo when the row has none
          Repos, NoRepo,
          Calls,       \* verify_move calls
          MaxRecords,  \* bound: verifications recorded
          MaxRestarts  \* bound: server restarts

Results    == {"passed", "failed", "inconclusive", "error"}
Definitive == {"passed", "failed"}
Global     == "global"
Scopes     == Repos \cup {Global}
Token      == "github_token"

ASSUME VerifyMoveAssumption ==
    /\ KindOf \in [Moves -> {"noop", "merge_pr", "other"}]
    /\ RepoOf \in [Moves -> Repos \cup {NoRepo}]
    /\ NoMove \notin Moves
    /\ NoRepo \notin Repos /\ Global \notin Repos
    /\ Filers = Calls /\ IsFiniteSet(Calls) /\ Token \in Names
    /\ MaxRecords \in Nat /\ MaxRestarts \in Nat

VARIABLES
    records,     \* fleet.move_verifications: move and status, oldest first
    score,       \* the samples a scope's score has absorbed
    sampleSize,  \* column sample_size
    exists,      \* scopes that have a row
    pc, move,    \* where call v is, and the move it verifies
    result,      \* the verifier's result
    seen,        \* the score that v read: the samples, or no row
    dropped,     \* history: nudges that were due and never made
    overlapped,  \* history: scopes written while another call was about to
                 \* write what it computed from an earlier read
    hasToken,    \* whether the server process has a GITHUB_TOKEN
    restarts

trustVars == <<score, sampleSize, exists>>
callVars  == <<pc, move, result, seen>>
serverVars == <<hasToken, restarts>>
vars == <<capVars, records, trustVars, callVars, dropped, overlapped, serverVars>>

NoRow == [row |-> FALSE, samples |-> <<>>]

Init ==
    /\ CapInit
    /\ records = <<>>
    /\ score = [s \in Scopes |-> <<>>]
    /\ sampleSize = [s \in Scopes |-> 0]
    /\ exists = {Global}
    /\ pc = [v \in Calls |-> "idle"]
    /\ move = [v \in Calls |-> NoMove]
    /\ result = [v \in Calls |-> "none"]
    /\ seen = [v \in Calls |-> NoRow]
    /\ dropped = [s \in Scopes |-> 0]
    /\ overlapped = {}
    /\ hasToken \in BOOLEAN
    /\ restarts = 0

----------------------------------------------------------------------------
(* A call returns, or raises. *)
Finish(v) ==
    /\ pc' = [pc EXCEPT ![v] = "idle"]
    /\ move' = [move EXCEPT ![v] = NoMove]
    /\ result' = [result EXCEPT ![v] = "none"]

GoTo(v, label) ==
    /\ pc' = [pc EXCEPT ![v] = label]
    /\ UNCHANGED <<move, result>>

(* The call fetches the move; its status is not looked at.                 *)
FetchMove(v, m) ==
    /\ pc[v] = "idle"
    /\ pc' = [pc EXCEPT ![v] = "verify"]
    /\ move' = [move EXCEPT ![v] = m]
    /\ UNCHANGED <<capVars, records, trustVars, result, seen, dropped, overlapped, serverVars>>

NeedsToken(m) == KindOf[m] = "merge_pr" /\ RepoOf[m] # NoRepo /\ ~hasToken

(* What a verifier that files no request may say of move m: noop always    *)
(* passes, a kind without a verifier is inconclusive, merge_pr depends on  *)
(* what GitHub answers, or raises; it raises, too, when the payload is not *)
(* an object.                                                              *)
Verdicts(m) ==
    CASE KindOf[m] = "noop"  -> {"passed"}
      [] KindOf[m] = "other" -> {"inconclusive"}
      [] KindOf[m] = "merge_pr" /\ RepoOf[m] = NoRepo -> {"inconclusive", "error"}
      [] OTHER -> Results

GetResult(v, r) ==
    /\ pc' = [pc EXCEPT ![v] = "record"]
    /\ result' = [result EXCEPT ![v] = r]
    /\ UNCHANGED <<records, trustVars, move, seen, dropped, overlapped, serverVars>>

Verify(v, r) ==
    /\ pc[v] = "verify"
    /\ ~NeedsToken(move[v])
    /\ r \in Verdicts(move[v])
    /\ GetResult(v, r)
    /\ UNCHANGED capVars

(* merge_pr without a token files a capability request and gives up, or    *)
(* answers "error" because filing raised: before the request was written,  *)
(* or after that.                                                          *)
RequestCapability(v) ==
    /\ pc[v] = "verify"
    /\ NeedsToken(move[v])
    /\ \/ (\E i \in RequestIds : FileHit(v, Token, i)) /\ GetResult(v, "inconclusive")
       \/ /\ FileMiss(v, Token)
          /\ UNCHANGED <<records, trustVars, callVars, dropped, overlapped, serverVars>>
       \/ /\ \E i \in RequestIds : FileInsert(v, i)
          /\ \E r \in {"inconclusive", "error"} : GetResult(v, r)
       \/ FileFails(v) /\ GetResult(v, "error")

RecordVerification(v) ==
    /\ pc[v] = "record"
    /\ Len(records) < MaxRecords
    /\ records' = Append(records, [move |-> move[v], status |-> result[v]])
    /\ IF result[v] \in Definitive THEN GoTo(v, "read global") ELSE Finish(v)
    /\ UNCHANGED <<capVars, trustVars, seen, dropped, overlapped, serverVars>>

----------------------------------------------------------------------------
(* Db.update_trust_score: read the score, compute, write it back.          *)

ScopeOf(v) == IF pc[v] \in {"read global", "write global"}
              THEN Global ELSE RepoOf[move[v]]

(* Mutant: the score of 'global' is read whatever the scope. *)
MutantReadScore(v) ==
    /\ pc[v] \in {"read global", "read repo"}
    /\ seen' = [seen EXCEPT ![v] = [row |-> ScopeOf(v) \in exists,
                                    samples |-> score[Global]]]
    /\ GoTo(v, IF pc[v] = "read global" THEN "write global" ELSE "write repo")
    /\ UNCHANGED <<capVars, records, trustVars, dropped, overlapped, serverVars>>

ReadScore(v) ==
    /\ pc[v] \in {"read global", "read repo"}
    /\ seen' = [seen EXCEPT ![v] = [row |-> ScopeOf(v) \in exists,
                                    samples |-> score[ScopeOf(v)]]]
    /\ GoTo(v, IF pc[v] = "read global" THEN "write global" ELSE "write repo")
    /\ UNCHANGED <<capVars, records, trustVars, dropped, overlapped, serverVars>>

(* Mutant: the repo is never nudged. *)
MutantContinue(v) == Finish(v)

(* After 'global' comes the repo, if the move has one. *)
Continue(v) == IF pc[v] = "write global" /\ RepoOf[move[v]] # NoRepo
               THEN GoTo(v, "read repo") ELSE Finish(v)

Writing(v) == pc[v] \in {"write global", "write repo"}

(* Update of an existing row: the score is computed from what was read,    *)
(* the sample size from what the row holds.  Or insert of a new row, which *)
(* the unique constraint refuses if another call was faster; then the call *)
(* raises.                                                                 *)
WriteScore(v) ==
    /\ Writing(v)
    /\ LET s == ScopeOf(v)
       IN  \/ /\ seen[v].row \/ s \notin exists
              /\ score' = [score EXCEPT ![s] = Append(seen[v].samples, result[v])]
              /\ sampleSize' = [sampleSize EXCEPT ![s] = @ + 1]
              /\ exists' = exists \cup {s}
              /\ overlapped' = IF \E w \in Calls \ {v} : Writing(w) /\ ScopeOf(w) = s
                               THEN overlapped \cup {s} ELSE overlapped
              /\ Continue(v)
              /\ UNCHANGED dropped
           \/ /\ ~seen[v].row /\ s \in exists
              /\ dropped' = [dropped EXCEPT ![s] = @ + 1]
              /\ Finish(v)
              /\ UNCHANGED <<trustVars, overlapped>>
    /\ seen' = [seen EXCEPT ![v] = NoRow]
    /\ UNCHANGED <<capVars, records, serverVars>>

----------------------------------------------------------------------------
(* Nudges that call v still has to make. *)
Due(v) ==
    LET repo == {RepoOf[move[v]]} \ {NoRepo}
    IN  CASE pc[v] \in {"read global", "write global"} -> {Global} \cup repo
          [] pc[v] \in {"read repo", "write repo"} -> repo
          [] OTHER -> {}

DueTo(s) == Cardinality({v \in Calls : s \in Due(v)})

(* The new process may have been given the token, or lost it. *)
ServerRestart ==
    /\ restarts < MaxRestarts
    /\ restarts' = restarts + 1
    /\ hasToken' \in BOOLEAN
    /\ CapRestart
    /\ pc' = [v \in Calls |-> "idle"]
    /\ move' = [v \in Calls |-> NoMove]
    /\ result' = [v \in Calls |-> "none"]
    /\ seen' = [v \in Calls |-> NoRow]
    /\ dropped' = [s \in Scopes |-> dropped[s] + DueTo(s)]
    /\ UNCHANGED <<records, trustVars, overlapped>>

Decide(i, d) ==
    /\ DecideCapabilityRequest(i, d)
    /\ UNCHANGED <<records, trustVars, callVars, dropped, overlapped, serverVars>>

----------------------------------------------------------------------------
Call(v) == \/ \E m \in Moves : FetchMove(v, m)
           \/ \E r \in Results : Verify(v, r)
           \/ RequestCapability(v)
           \/ RecordVerification(v)
           \/ ReadScore(v)
           \/ WriteScore(v)

Next == \/ \E v \in Calls : Call(v)
        \/ \E i \in RequestIds, d \in Decisions : Decide(i, d)
        \/ ServerRestart

Spec == Init /\ [][Next]_vars

----------------------------------------------------------------------------
TypeOK ==
    /\ CapTypeOK
    /\ records \in Seq([move : Moves, status : Results])
    /\ score \in [Scopes -> Seq(Definitive)]
    /\ sampleSize \in [Scopes -> Nat]
    /\ exists \in SUBSET Scopes
    /\ pc \in [Calls -> {"idle", "verify", "record", "read global",
                         "write global", "read repo", "write repo"}]
    /\ move \in [Calls -> Moves \cup {NoMove}]
    /\ result \in [Calls -> Results \cup {"none"}]
    /\ seen \in [Calls -> [row : BOOLEAN, samples : Seq(Definitive)]]
    /\ dropped \in [Scopes -> Nat]
    /\ overlapped \in SUBSET Scopes
    /\ hasToken \in BOOLEAN
    /\ restarts \in 0..MaxRestarts

Concerns(i, s) == s = Global \/ s = RepoOf[records[i].move]

(* Recorded verifications that concern scope s and have a definite result. *)
DefinitiveRecords(s) ==
    {i \in DOMAIN records : records[i].status \in Definitive /\ Concerns(i, s)}

(* "Trust score nudges only on definitive outcomes", each once: the sample *)
(* size of a scope is the number of its definitive records, less those     *)
(* whose call is still running or was cut off or refused on the way.       *)
SamplesAccounted ==
    \A s \in Scopes :
        sampleSize[s] + DueTo(s) + dropped[s] = Cardinality(DefinitiveRecords(s))

(* A sample is lost only to a call that read the score before another one  *)
(* wrote it; restarts, refused inserts and token changes lose none.        *)
OnlyOverlapLosesSamples ==
    \A s \in Scopes \ overlapped : Len(score[s]) = sampleSize[s]

=============================================================================
