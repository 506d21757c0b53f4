---------------------------- MODULE SentryAlerts ----------------------------
(***************************************************************************)
(* scripts/configure_sentry_alerts.py: list the alert rules of the         *)
(* project, create those that are missing, one request at a time, each     *)
(* tried again after a rate limit, a server error or a lost connection.    *)
(*                                                                         *)
(* The script may be run again, and by two operators at once; Sentry       *)
(* accepts several rules of one name.  Someone may delete a rule in the    *)
(* web interface.  Rule n stands for ALERT_RULES[n - 1].                   *)
(***************************************************************************)
EXTENDS Naturals, FiniteSets

CONSTANTS Operators,   \* who may run the script
          NRules,      \* Len(ALERT_RULES)
          MaxRetries,  \* max_retries of _api
          MaxRuns,     \* bound: runs of the script
          MaxDeletes   \* bound: rules deleted by hand

Rules == 1..NRules

ASSUME SentryAssumption ==
    /\ NRules \in Nat /\ MaxRetries \in Nat \ {0}
    /\ MaxRuns \in Nat /\ MaxDeletes \in Nat

VARIABLES
    remote,    \* Sentry: how many alert rules have the name of rule r
    pc, attempt, existing, rule, configured, exit,   \* the script of each operator
    runs, deletes,
    blind,     \* history: operators whose script could not list the rules
    resent,    \* history: rules a script asks for again though Sentry has created them
    since,     \* history: rules created by others since the script's listing
    gone       \* history: rules that disappeared since the script was started

scriptVars == <<pc, attempt, existing, rule, configured, exit>>
historyVars == <<blind, resent, since, gone>>
vars == <<remote, scriptVars, runs, deletes, historyVars>>

(* What comes of one request.  "transient" is a rate limit, a server error *)
(* or a connection error; "odd" a success with another status or shape     *)
(* than expected; "garbled" a success whose body is not JSON.              *)
Outcomes == {"ok", "odd", "refused", "transient", "garbled"}
Exits    == {"none", "zero", "one"}   \* "one": any failure

Init ==
    /\ remote \in [Rules -> {0, 1}]
    /\ pc = [o \in Operators |-> "idle"]
    /\ attempt = [o \in Operators |-> 1]
    /\ existing = [o \in Operators |-> {}]
    /\ rule = [o \in Operators |-> 1]
    /\ configured = [o \in Operators |-> 0]
    /\ exit = [o \in Operators |-> "none"]
    /\ runs = 0 /\ deletes = 0
    /\ blind = {}
    /\ resent = [o \in Operators |-> {}]
    /\ since = [o \in Operators |-> {}]
    /\ gone = [o \in Operators |-> {}]

Start(o, hasToken) ==
    /\ pc[o] = "idle" /\ runs < MaxRuns
    /\ runs' = runs + 1
    /\ pc' = [pc EXCEPT ![o] = IF hasToken THEN "list" ELSE "idle"]
    /\ exit' = [exit EXCEPT ![o] = IF hasToken THEN "none" ELSE "one"]
    /\ gone' = [gone EXCEPT ![o] = {}]
    /\ UNCHANGED <<remote, attempt, existing, rule, configured, deletes, blind, resent, since>>

(* The process ends, and what it knows is lost. *)
Exit(o, code) ==
    /\ pc' = [pc EXCEPT ![o] = "idle"]
    /\ exit' = [exit EXCEPT ![o] = code]
    /\ attempt' = [attempt EXCEPT ![o] = 1]
    /\ existing' = [existing EXCEPT ![o] = {}]
    /\ rule' = [rule EXCEPT ![o] = 1]
    /\ configured' = [configured EXCEPT ![o] = 0]
    /\ blind' = blind \ {o}
    /\ resent' = [resent EXCEPT ![o] = {}]

----------------------------------------------------------------------------
(* _api sends the request again. *)
Retries(o, outcome) == outcome = "transient" /\ attempt[o] < MaxRetries

(* The script's next attempt is the first of another request.              *)
NextRequest(o) == attempt' = [attempt EXCEPT ![o] = 1]
Again(o)       == attempt' = [attempt EXCEPT ![o] = @ + 1]

(* Mutant: a listing that failed is taken for a full one. *)
MutantListing(o, outcome) == Rules

(* _existing_rule_names: without a list, no rule is assumed to exist. *)
Listing(o, outcome) == IF outcome = "ok" THEN {r \in Rules : remote[r] > 0} ELSE {}

ExistingRuleNames(o, outcome) ==
    /\ pc[o] = "list"
    /\ \/ /\ outcome = "garbled"
          /\ Exit(o, "one")
       \/ /\ Retries(o, outcome)
          /\ Again(o)
          /\ UNCHANGED <<pc, existing, rule, configured, exit, blind, resent>>
       \/ /\ outcome # "garbled" /\ ~Retries(o, outcome)
          /\ pc' = [pc EXCEPT ![o] = "rules"]
          /\ existing' = [existing EXCEPT ![o] = Listing(o, outcome)]
          /\ blind' = IF outcome = "ok" THEN blind ELSE blind \cup {o}
          /\ NextRequest(o)
          /\ UNCHANGED <<rule, configured, exit, resent>>
    /\ UNCHANGED <<remote, runs, deletes, since, gone>>

----------------------------------------------------------------------------
Advance(o, counts) ==
    /\ rule' = [rule EXCEPT ![o] = @ + 1]
    /\ configured' = [configured EXCEPT ![o] = @ + IF counts THEN 1 ELSE 0]

(* Mutant: a rule that exists is created as well. *)
MutantSkips(o) == FALSE

Skips(o) == rule[o] \in existing[o]

SkipRule(o) ==
    /\ pc[o] = "rules" /\ rule[o] \in Rules /\ Skips(o)
    /\ Advance(o, TRUE)
    /\ UNCHANGED <<remote, pc, attempt, existing, exit, runs, deletes, historyVars>>

(* What Sentry may have done by the time a request has that outcome.       *)
Applied(outcome) == CASE outcome \in {"ok", "garbled"} -> {TRUE}
                      [] outcome = "refused"           -> {FALSE}
                      [] OTHER                         -> BOOLEAN

CreatedBy(o, r, applied) ==
    [p \in Operators |->
        IF p = o \/ ~applied \/ pc[p] # "rules" THEN since[p] ELSE since[p] \cup {r}]

(* One POST of the current rule. *)
CreateRule(o, outcome, applied) ==
    LET r == rule[o] IN
    /\ pc[o] = "rules" /\ r \in Rules /\ ~Skips(o)
    /\ applied \in Applied(outcome)
    /\ remote' = IF applied THEN [remote EXCEPT ![r] = @ + 1] ELSE remote
    /\ since' = [CreatedBy(o, r, applied) EXCEPT ![o] = IF outcome = "garbled" THEN {} ELSE @]
    /\ \/ /\ outcome = "garbled"
          /\ Exit(o, "one")
       \/ /\ Retries(o, outcome)
          /\ Again(o)
          /\ resent' = IF applied THEN [resent EXCEPT ![o] = @ \cup {r}] ELSE resent
          /\ UNCHANGED <<pc, existing, rule, configured, exit, blind>>
       \/ /\ outcome # "garbled" /\ ~Retries(o, outcome)
          /\ NextRequest(o)
          /\ Advance(o, outcome = "ok")
          /\ UNCHANGED <<pc, existing, exit, blind, resent>>
    /\ UNCHANGED <<runs, deletes, gone>>

Finish(o) ==
    /\ pc[o] = "rules" /\ rule[o] > NRules
    /\ Exit(o, IF configured[o] = NRules THEN "zero" ELSE "one")
    /\ since' = [since EXCEPT ![o] = {}]
    /\ UNCHANGED <<remote, runs, deletes, gone>>

(* The operator stops the script. *)
Kill(o) ==
    /\ pc[o] # "idle"
    /\ Exit(o, "one")
    /\ since' = [since EXCEPT ![o] = {}]
    /\ UNCHANGED <<remote, runs, deletes, gone>>

DeleteByHand(r) ==
    /\ remote[r] > 0 /\ deletes < MaxDeletes
    /\ deletes' = deletes + 1
    /\ remote' = [remote EXCEPT ![r] = @ - 1]
    /\ gone' = [o \in Operators |->
                   IF remote[r] = 1 /\ (pc[o] # "idle" \/ exit[o] = "zero")
                   THEN gone[o] \cup {r} ELSE gone[o]]
    /\ UNCHANGED <<scriptVars, runs, blind, resent, since>>

----------------------------------------------------------------------------
Step(o) == \/ \E x \in Outcomes : \/ ExistingRuleNames(o, x)
                                  \/ \E applied \in BOOLEAN : CreateRule(o, x, applied)
           \/ SkipRule(o)
           \/ Finish(o)

Next == \/ \E o \in Operators : \/ \E t \in BOOLEAN : Start(o, t)
                                \/ Step(o) \/ Kill(o)
        \/ \E r \in Rules : DeleteByHand(r)

Spec == Init /\ [][Next]_vars

----------------------------------------------------------------------------
(* When the script exits with 0, Sentry had every rule while it ran; one   *)
(* that is missing now was deleted by hand since it was started.           *)
ExitZeroMeansConfigured ==
    \A o \in Operators :
        exit[o] = "zero" => \A r \in Rules : remote[r] > 0 \/ r \in gone[o]

(* The script creates a rule that exists already only when it could not    *)
(* list the rules, when it repeats a request whose answer was lost, or     *)
(* when another run created the rule after this one's listing.  The first  *)
(* two need one operator only, for whom the script is not idempotent.      *)
OnlyKnownDuplicates ==
    [][\A o \in Operators :
          LET r == rule[o]
          IN  /\ pc[o] = "rules" /\ r \in Rules
              /\ remote'[r] > remote[r] /\ remote[r] > 0
              /\ attempt'[o] # attempt[o] \/ rule'[o] # r \/ pc'[o] # pc[o]
              => o \in blind \/ r \in resent[o] \/ r \in since[o]]_vars
=============================================================================
