------------------------------ MODULE Intents ------------------------------
(***************************************************************************)
(* Intents: nudges from one agent (or the cockpit) to another, in table    *)
(* fleet.intents, and the agents registered in fleet.agents.               *)
(*                                                                         *)
(* Signalling resolves the target's name to a row of fleet.agents in the   *)
(* insert itself; an agent that is not registered gives a NULL target.     *)
(* Consuming is one statement, of two steps here: the locks of its CTE are *)
(* visible to others, its commit comes later.  FOR UPDATE SKIP LOCKED names*)
(* no table, so it locks the row of fleet.agents that is joined as well as *)
(* the intents.  Intents are numbered in insertion order (created_at).     *)
(***************************************************************************)
EXTENDS Naturals, FiniteSets

CONSTANTS Agents,      \* names agents register with
          NoAgent,     \* target_agent_id IS NULL
          MaxIntents,  \* bound: rows ever inserted
          Consumers,   \* processes that call consume_open_intents in a loop
          AgentOf,     \* the agent each of them is
          Limits,      \* the limits they call with
          MaxLosses    \* bound: calls cut off by a disconnect or restart

IntentIds == 1..MaxIntents

ASSUME IntentsAssumption ==
    /\ NoAgent \notin Agents
    /\ AgentOf \in [Consumers -> Agents]
    /\ MaxIntents \in Nat /\ MaxLosses \in Nat
    /\ Limits \subseteq Nat \ {0}

VARIABLES
    registered,            \* fleet.agents
    intentStatus, target,  \* columns of fleet.intents
    stage, taken,          \* the call of consumer c: where it is, its rows
    delivered,             \* history: times an agent received an intent
    forgotten,             \* history: intents in answers that were lost
    losses

intentVars == <<intentStatus, target, stage, taken, delivered, forgotten, losses>>

IntentsInit ==
    /\ registered = {}
    /\ intentStatus = [i \in IntentIds |-> "absent"]
    /\ target = [i \in IntentIds |-> NoAgent]
    /\ stage = [c \in Consumers |-> "idle"]
    /\ taken = [c \in Consumers |-> {}]
    /\ delivered = [i \in IntentIds |-> 0]
    /\ forgotten = {}
    /\ losses = 0

(* Registering again updates the row that exists. *)
RegisterAgent(a) ==
    /\ a \notin registered
    /\ registered' = registered \cup {a}
    /\ UNCHANGED intentVars

(* The row of the agent is locked by a poll that has not committed. *)
AgentLocked(a) == \E c \in Consumers : stage[c] = "update" /\ AgentOf[c] = a

(* The check of the foreign key waits while a poll has locked the agent.   *)
SignalIntent(i, a) ==
    /\ a \in registered => ~AgentLocked(a)
    /\ intentStatus[i] = "absent"
    /\ \A j \in IntentIds : j < i => intentStatus[j] # "absent"
    /\ intentStatus' = [intentStatus EXCEPT ![i] = "open"]
    /\ target' = [target EXCEPT ![i] = IF a \in registered THEN a ELSE NoAgent]
    /\ UNCHANGED <<registered, stage, taken, delivered, forgotten, losses>>

OpenFor(a) == {i \in IntentIds : intentStatus[i] = "open" /\ target[i] = a}

Oldest(n, S) == {i \in S : Cardinality({j \in S : j < i}) < n}

(* Mutant: the CTE takes no locks. *)
MutantTakeOpen(c, n, skipped) ==
    /\ stage[c] = "idle" /\ OpenFor(AgentOf[c]) # {}
    /\ stage' = [stage EXCEPT ![c] = "update"]
    /\ taken' = [taken EXCEPT ![c] = Oldest(n, OpenFor(AgentOf[c]))]
    /\ UNCHANGED <<registered, intentStatus, target, delivered, forgotten, losses>>

(* The CTE tries the open intents of the agent, oldest first, and skips    *)
(* one that is locked, or whose agent is, at that moment.  Another poll    *)
(* locks the agent until it commits; a heartbeat, a new registration and   *)
(* the foreign keys of the agent's runs, events and intents lock it for    *)
(* the time of a statement, which may be over at the next intent: which    *)
(* ones are skipped is open.  A poll that finds none changes nothing, and  *)
(* is left out.                                                            *)
TakeOpen(c, n, skipped) ==
    /\ stage[c] = "idle" /\ ~AgentLocked(AgentOf[c])
    /\ OpenFor(AgentOf[c]) \ skipped # {}
    /\ stage' = [stage EXCEPT ![c] = "update"]
    /\ taken' = [taken EXCEPT ![c] = Oldest(n, OpenFor(AgentOf[c]) \ skipped)]
    /\ UNCHANGED <<registered, intentStatus, target, delivered, forgotten, losses>>

(* Mutant: the UPDATE takes every open intent of the agent. *)
MutantMarkConsumed(c) ==
    /\ stage[c] = "update"
    /\ stage' = [stage EXCEPT ![c] = "answer"]
    /\ intentStatus' = [i \in IntentIds |-> IF i \in OpenFor(AgentOf[c]) THEN "consumed"
                                            ELSE intentStatus[i]]
    /\ UNCHANGED <<registered, target, taken, delivered, forgotten, losses>>

MarkConsumed(c) ==
    /\ stage[c] = "update"
    /\ stage' = [stage EXCEPT ![c] = "answer"]
    /\ intentStatus' = [i \in IntentIds |-> IF i \in taken[c] THEN "consumed"
                                            ELSE intentStatus[i]]
    /\ UNCHANGED <<registered, target, taken, delivered, forgotten, losses>>

ConsumerDone(c) ==
    /\ stage' = [stage EXCEPT ![c] = "idle"]
    /\ taken' = [taken EXCEPT ![c] = {}]
    /\ UNCHANGED <<registered, intentStatus, target>>

AnswerIntents(c) ==
    /\ stage[c] = "answer"
    /\ delivered' = [i \in IntentIds |-> IF i \in taken[c] THEN delivered[i] + 1
                                         ELSE delivered[i]]
    /\ ConsumerDone(c)
    /\ UNCHANGED <<forgotten, losses>>

(* Mutant: the intents of an answer that is lost are open again. *)
MutantLoseConsumer(c) ==
    /\ stage[c] # "idle"
    /\ losses < MaxLosses
    /\ losses' = losses + 1
    /\ intentStatus' = [i \in IntentIds |-> IF i \in taken[c] THEN "open" ELSE intentStatus[i]]
    /\ stage' = [stage EXCEPT ![c] = "idle"]
    /\ taken' = [taken EXCEPT ![c] = {}]
    /\ UNCHANGED <<registered, target, delivered, forgotten>>

(* The connection or the process goes down: before the commit nothing has  *)
(* happened, after it the intents are consumed and nobody has them.        *)
LoseConsumer(c) ==
    /\ stage[c] # "idle"
    /\ losses < MaxLosses
    /\ losses' = losses + 1
    /\ forgotten' = IF stage[c] = "answer" THEN forgotten \cup taken[c] ELSE forgotten
    /\ ConsumerDone(c)
    /\ UNCHANGED delivered

ConsumeIntents(c) == \/ \E n \in Limits, skipped \in SUBSET IntentIds : TakeOpen(c, n, skipped)
                     \/ MarkConsumed(c)
                     \/ AnswerIntents(c)

IntentsStep == \/ \E a \in Agents : RegisterAgent(a)
               \/ \E i \in IntentIds, a \in Agents : SignalIntent(i, a)
               \/ \E c \in Consumers : ConsumeIntents(c) \/ LoseConsumer(c)

----------------------------------------------------------------------------
IntentsTypeOK ==
    /\ registered \in SUBSET Agents
    /\ intentStatus \in [IntentIds -> {"absent", "open", "consumed"}]
    /\ target \in [IntentIds -> Agents \cup {NoAgent}]
    /\ stage \in [Consumers -> {"idle", "update", "answer"}]
    /\ taken \in [Consumers -> SUBSET IntentIds]
    /\ delivered \in [IntentIds -> Nat]
    /\ forgotten \in SUBSET IntentIds
    /\ losses \in 0..MaxLosses

(* "Atomically claim and mark consumed": however many processes poll for   *)
(* one agent, an intent is acted on at most once, and only by its target.  *)
ConsumedOnce ==
    /\ \A i \in IntentIds : delivered[i] <= 1
    /\ \A c, d \in Consumers : c # d => taken[c] \cap taken[d] = {}
    /\ \A c \in Consumers : \A i \in taken[c] : target[i] = AgentOf[c]

(* An intent that is consumed has reached its agent, or is in an answer on *)
(* its way, or in one that was lost; and it is never more than one of them.*)
IntentsAccounted ==
    \A i \in IntentIds :
        LET inAnswer == \E c \in Consumers : stage[c] = "answer" /\ i \in taken[c]
        IN  (intentStatus[i] = "consumed") <=>
                \/ inAnswer /\ delivered[i] = 0 /\ i \notin forgotten
                \/ ~inAnswer /\ delivered[i] = 1 /\ i \notin forgotten
                \/ ~inAnswer /\ delivered[i] = 0 /\ i \in forgotten

----------------------------------------------------------------------------
(* The intents as a work queue: the commit that consumes them settles them *)
(* (who consumes them is told by the answer, not by the row).              *)

IntentPhase(i) == CASE intentStatus[i] = "absent" -> "absent"
                    [] intentStatus[i] = "open"   -> "waiting"
                    [] OTHER                      -> "done"

IntentQueue == INSTANCE WorkQueue WITH
    Items <- IntentIds,
    Workers <- {},
    Nobody <- "nobody",
    Outcomes <- {"consumed"},
    Unsettled <- "none",
    Releasable <- FALSE,
    phase <- [i \in IntentIds |-> IntentPhase(i)],
    lessee <- [i \in IntentIds |-> "nobody"],
    outcome <- [i \in IntentIds |-> IF intentStatus[i] = "consumed" THEN "consumed"
                                                                  ELSE "none"]

(* An intent is consumed once and for good, whichever process polls and    *)
(* whatever becomes of its answer.                                         *)
ConsumedForGood == IntentQueue!Spec
=============================================================================
