---------------------------- MODULE Capabilities ----------------------------
(***************************************************************************)
(* Capability requests: table fleet.capability_requests, with which an     *)
(* agent or a verifier asks a human for a connector, a key or a scope.     *)
(*                                                                         *)
(* Filing is two statements (look for a pending request, then insert), so  *)
(* handlers interleave between them.  Deciding is one guarded update.      *)
(***************************************************************************)
EXTENDS Naturals

CONSTANTS MaxRequests,   \* bound: rows ever inserted
          Names,         \* capabilities that can be asked for
          NoName,
          Filers         \* handlers that may file a request

RequestIds == 1..MaxRequests
Decisions  == {"granted", "denied"}

ASSUME CapabilitiesAssumption == MaxRequests \in Nat /\ NoName \notin Names

VARIABLES capability, capStatus,  \* columns of the table
          filing,                 \* the insert that handler f is about to do
          decided,                \* history: the decision a human was told was made
          contended               \* history: names inserted while another handler,
                                  \* having found none pending, was about to insert

capVars == <<capability, capStatus, filing, decided, contended>>

CapInit ==
    /\ capability = [i \in RequestIds |-> NoName]
    /\ capStatus = [i \in RequestIds |-> "absent"]
    /\ filing = [f \in Filers |-> NoName]
    /\ decided = [i \in RequestIds |-> "none"]
    /\ contended = {}

Pending(n) == {i \in RequestIds : capability[i] = n /\ capStatus[i] = "pending"}

(* The lookup finds a pending request: its youngest is the answer. *)
FileHit(f, n, i) ==
    /\ filing[f] = NoName
    /\ i \in Pending(n)
    /\ \A j \in Pending(n) : j <= i
    /\ UNCHANGED capVars

(* Mutant: the handler inserts without looking. *)
MutantFileMiss(f, n) ==
    /\ filing[f] = NoName
    /\ filing' = [filing EXCEPT ![f] = n]
    /\ UNCHANGED <<capability, capStatus, decided, contended>>

FileMiss(f, n) ==
    /\ filing[f] = NoName
    /\ Pending(n) = {}
    /\ filing' = [filing EXCEPT ![f] = n]
    /\ UNCHANGED <<capability, capStatus, decided, contended>>

FileInsert(f, i) ==
    /\ filing[f] # NoName
    /\ capStatus[i] = "absent" /\ \A j \in RequestIds : j < i => capStatus[j] # "absent"
    /\ capability' = [capability EXCEPT ![i] = filing[f]]
    /\ capStatus' = [capStatus EXCEPT ![i] = "pending"]
    /\ filing' = [filing EXCEPT ![f] = NoName]
    /\ contended' = IF \E g \in Filers \ {f} : filing[g] = filing[f]
                    THEN contended \cup {filing[f]} ELSE contended
    /\ UNCHANGED decided

(* An exception of either statement, before anything is written. *)
FileFails(f) ==
    /\ filing' = [filing EXCEPT ![f] = NoName]
    /\ UNCHANGED <<capability, capStatus, decided, contended>>

(* Mutant: the update has no condition on the status. *)
MutantDecideCapabilityRequest(i, d) ==
    /\ capStatus[i] # "absent"
    /\ capStatus' = [capStatus EXCEPT ![i] = d]
    /\ decided' = [decided EXCEPT ![i] = d]
    /\ UNCHANGED <<capability, filing, contended>>

(* A human grants or denies; a request that is decided already is left     *)
(* alone and the answer is ok=False.                                       *)
DecideCapabilityRequest(i, d) ==
    /\ capStatus[i] = "pending"
    /\ capStatus' = [capStatus EXCEPT ![i] = d]
    /\ decided' = [decided EXCEPT ![i] = d]
    /\ UNCHANGED <<capability, filing, contended>>

(* The filing handlers die with the server process. *)
CapRestart ==
    /\ filing' = [f \in Filers |-> NoName]
    /\ UNCHANGED <<capability, capStatus, decided, contended>>

----------------------------------------------------------------------------
CapTypeOK ==
    /\ capability \in [RequestIds -> Names \cup {NoName}]
    /\ capStatus \in [RequestIds -> {"absent", "pending"} \cup Decisions]
    /\ filing \in [Filers -> Names \cup {NoName}]
    /\ decided \in [RequestIds -> Decisions \cup {"none"}]
    /\ contended \in SUBSET Names

(* "Idempotent on (capability, status='pending')": a capability has one    *)
(* pending request, unless two handlers looked for one before either       *)
(* inserted: look-up and insert are two statements.                        *)
OnePendingPerCapability ==
    \A i, j \in RequestIds :
        /\ capStatus[i] = "pending" /\ capStatus[j] = "pending"
        /\ capability[i] = capability[j] /\ capability[i] \notin contended
        => i = j

----------------------------------------------------------------------------
(* The requests as a work queue that nobody leases from: they wait for a   *)
(* human, whose decision settles them.                                     *)

RequestPhase(i) == CASE capStatus[i] = "absent"  -> "absent"
                     [] capStatus[i] = "pending" -> "waiting"
                     [] OTHER                    -> "done"

Decision(i) == IF capStatus[i] \in Decisions THEN capStatus[i] ELSE "none"

RequestQueue == INSTANCE WorkQueue WITH
    Items <- RequestIds,
    Workers <- {},
    Nobody <- "nobody",
    Outcomes <- Decisions,
    Unsettled <- "none",
    Releasable <- FALSE,
    phase <- [i \in RequestIds |-> RequestPhase(i)],
    lessee <- [i \in RequestIds |-> "nobody"],
    outcome <- [i \in RequestIds |-> Decision(i)]

(* A request is decided once and for good, whoever files and decides.      *)
DecidedForGood == RequestQueue!Spec
=============================================================================
