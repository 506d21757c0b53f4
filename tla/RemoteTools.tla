----------------------------- MODULE RemoteTools -----------------------------
(***************************************************************************)
(* The MCP tools that change things at a provider: secrets in Doppler      *)
(* (set, delete, rename), and the gated actions of the Cloudflare and      *)
(* Northflank servers; and Doppler's audit over all projects.              *)
(*                                                                         *)
(* A tool is a sequence of requests, and the server keeps nothing between  *)
(* them.  Requests of several tools interleave; each may fail, be answered *)
(* without a body, or lose its answer after it was done.                   *)
(***************************************************************************)
EXTENDS ProviderAnswers, Sequences, FiniteSets

CONSTANTS Calls,         \* tool calls, one each
          Projects,      \* sequence: Doppler projects as the API lists them
          Canonical,     \* CANONICAL_PROJECT
          Configs,       \* sequence: the configs to audit
          Names, Values, \* names and values of secrets
          NoValue,       \* no such secret
          Restricted,    \* secrets that Doppler lists without their raw value
          Empty,         \* the empty string
          WritePlaces,   \* bound: where secrets are written
          GatedTools,    \* bound: which gated tools are called
          InitialStores  \* bound: what Doppler holds at first

ProjectIds == {Projects[i] : i \in DOMAIN Projects}
ConfigIds  == {Configs[i] : i \in DOMAIN Configs}
Places     == ProjectIds \X ConfigIds
Stores     == [Places -> [Names -> Values \cup {NoValue}]]

(* The tools with one request, and the provider behind each. *)
CloudflareTools == {"create_dns_record", "delete_dns_record", "purge_zone_cache",
                    "redeploy_pages"}
NorthflankTools == {"restart_service", "redeploy_service", "trigger_job_run",
                    "resync_secret_group"}

ASSUME RemoteToolsAssumption ==
    /\ Projects \in Seq(ProjectIds) /\ Configs \in Seq(ConfigIds)
    /\ Canonical \in ProjectIds
    /\ NoValue \notin Values \cup {Empty}
    /\ Restricted \subseteq Places \X Names
    /\ WritePlaces \subseteq Places
    /\ GatedTools \subseteq CloudflareTools \cup NorthflankTools
    /\ InitialStores \subseteq Stores

VARIABLES
    store,       \* Doppler: the secrets of each project and config
    call,        \* call c: its tool and arguments, and the request it is at
    answered,    \* what call c answered
    applied,     \* history: the requests of c that its provider carried out
    misled,      \* history: calls that took a refused request for a success
    overlapped,  \* history: renames whose names another call wrote meanwhile
    audit        \* the audit in progress

toolsVars == <<store, call, answered, applied, misled, overlapped, audit>>

NoPlace == <<"none", "none">>
NotCalled == [tool |-> "none", at |-> "start", place |-> NoPlace,
              from |-> "none", to |-> "none", keep |-> FALSE, raw |-> NoValue]

NoAudit == [at |-> "start", next |-> 1, scanned |-> {}, dirty |-> FALSE,
            misled |-> FALSE,
            index |-> [n \in Names |-> [p \in ProjectIds |-> NoValue]]]

ToolsInit ==
    /\ store \in InitialStores
    /\ call = [c \in Calls |-> NotCalled]
    /\ answered = [c \in Calls |-> "nothing"]
    /\ applied = [c \in Calls |-> {}]
    /\ misled = {}
    /\ overlapped = {}
    /\ audit = NoAudit

ProviderOf(t) == CASE t \in CloudflareTools -> "cloudflare"
                   [] t \in NorthflankTools -> "northflank"
                   [] OTHER -> "doppler"

----------------------------------------------------------------------------
(* A call arrives.                                                         *)

Begin(c, request) ==
    /\ call[c] = NotCalled
    /\ call' = [call EXCEPT ![c] = request]
    /\ UNCHANGED <<store, answered, applied, misled, overlapped, audit>>

SecretSet(c, pl, n, v) ==
    Begin(c, [NotCalled EXCEPT !.tool = "set", !.at = "set", !.place = pl,
                               !.to = n, !.raw = v])

SecretDelete(c, pl, n) ==
    Begin(c, [NotCalled EXCEPT !.tool = "delete", !.at = "delete", !.place = pl,
                               !.from = n])

SecretRename(c, pl, old, new, keep) ==
    Begin(c, [NotCalled EXCEPT !.tool = "rename", !.at = "get", !.place = pl,
                               !.from = old, !.to = new, !.keep = keep])

Gated(c, t) == Begin(c, [NotCalled EXCEPT !.tool = t, !.at = "act"])

(* Without confirm=True no request is sent. *)
Refuse(c) ==
    /\ call[c] = NotCalled
    /\ call' = [call EXCEPT ![c].at = "end"]
    /\ answered' = [answered EXCEPT ![c] = "refused"]
    /\ UNCHANGED <<store, applied, misled, overlapped, audit>>

----------------------------------------------------------------------------
(* Requests.                                                               *)

(* The renames whose work a change of name n at pl by call c disturbs: the *)
(* old name since it was read, the new one since it was written.           *)
Disturbed(c, pl, n) ==
    {d \in Calls \ {c} : /\ call[d].tool = "rename" /\ call[d].place = pl
                         /\ \/ call[d].from = n /\ call[d].at \in {"set", "delete"}
                            \/ call[d].to = n /\ call[d].at = "delete"}

(* What is remembered of a call that has answered. *)
Over(c) == [NotCalled EXCEPT !.at = "end", !.tool = call[c].tool, !.keep = call[c].keep]

(* Call c goes on at `next`, or answers `answer` when next is "end".       *)
GoTo(c, next, answer) ==
    IF next # "end" THEN call' = [call EXCEPT ![c].at = next] /\ UNCHANGED answered
    ELSE /\ call' = [call EXCEPT ![c] = Over(c)]
         /\ answered' = [answered EXCEPT ![c] = answer]

(* Mutant: an exception of the request is swallowed. *)
MutantProceed(c, x, next) == GoTo(c, next, "ok")

(* An exception of the request ends the call. *)
Proceed(c, x, next) == IF Fails(x) THEN GoTo(c, "end", "raised")
                                   ELSE GoTo(c, next, "ok")

(* The history of a write request. *)
Note(c, x) ==
    /\ applied' = IF x.applied THEN [applied EXCEPT ![c] = @ \cup {call[c].at}]
                               ELSE applied
    /\ misled' = IF x.applied \/ Fails(x) THEN misled ELSE misled \cup {c}

(* Name n at c's place becomes v. *)
WriteSecret(c, n, v, next) ==
    \E x \in Exchanges("doppler") :
        /\ Proceed(c, x, next)
        /\ Note(c, x)
        /\ IF x.applied
           THEN /\ store' = [store EXCEPT ![call[c].place][n] = v]
                /\ overlapped' = overlapped \cup Disturbed(c, call[c].place, n)
                /\ audit' = [audit EXCEPT !.dirty = TRUE]
           ELSE UNCHANGED <<store, overlapped, audit>>

(* doppler_secret_rename reads the old secret first.  Anything but a row   *)
(* with a raw value is answered as not found.                              *)
GetSecret(c) ==
    /\ call[c].at = "get"
    /\ \E x \in Exchanges("doppler") :
          LET pl == call[c].place
              n == call[c].from
              raw == store[pl][n]
              found == x.reading = "json" /\ raw # NoValue /\ <<pl, n>> \notin Restricted
          IN  IF found
              THEN call' = [call EXCEPT ![c].at = "set", ![c].raw = raw] /\ UNCHANGED answered
              ELSE GoTo(c, "end", IF Fails(x) THEN "raised" ELSE "not found")
    /\ UNCHANGED <<store, applied, misled, overlapped, audit>>

AfterSet(c) == IF call[c].tool = "rename" /\ ~call[c].keep THEN "delete" ELSE "end"

SetSecret(c) == /\ call[c].at = "set"
                /\ WriteSecret(c, call[c].to, call[c].raw, AfterSet(c))

(* Doppler deletes a secret that is set to null. *)
DeleteSecret(c) == /\ call[c].at = "delete"
                   /\ WriteSecret(c, call[c].from, NoValue, "end")

Act(c) ==
    /\ call[c].at = "act"
    /\ \E x \in Exchanges(ProviderOf(call[c].tool)) : Proceed(c, x, "end") /\ Note(c, x)
    /\ UNCHANGED <<store, overlapped, audit>>

----------------------------------------------------------------------------
(* doppler_audit_consolidation: one request for the projects, then one for *)
(* each project and config.                                                *)

AuditOrder == [i \in 1..(Len(Projects) * Len(Configs)) |->
                 <<Projects[((i - 1) \div Len(Configs)) + 1],
                   Configs[((i - 1) % Len(Configs)) + 1]>>]

AuditTo(a) == /\ audit' = a
              /\ UNCHANGED <<store, call, answered, applied, misled, overlapped>>

(* An answer without projects makes an empty report. *)
ListProjects ==
    /\ audit.at = "start"
    /\ \E x \in Exchanges("doppler") :
          AuditTo([NoAudit EXCEPT !.at = IF Fails(x) THEN "raised"
                                         ELSE IF x.reading = "json" THEN "scan"
                                         ELSE "report"])

(* Mutant: a place counts as scanned although its request failed. *)
MutantSkip == [audit EXCEPT !.next = @ + 1,
                            !.scanned = @ \cup {AuditOrder[audit.next]}]

(* A RuntimeError skips the place. *)
Skip == [audit EXCEPT !.next = @ + 1]

(* What is hashed of secret n at pl: a row without a raw value counts as    *)
(* the empty string.                                                       *)
RawOrEmpty(pl, n) == IF store[pl][n] # NoValue /\ <<pl, n>> \in Restricted
                     THEN Empty ELSE store[pl][n]

(* A later config of a project overwrites what an earlier one had. *)
Scan(pl, listed) ==
    [audit EXCEPT
        !.next = @ + 1,
        !.scanned = @ \cup {pl},
        !.misled = @ \/ ~listed,
        !.index = [n \in Names |-> IF listed /\ store[pl][n] # NoValue
                                   THEN [@[n] EXCEPT ![pl[1]] = RawOrEmpty(pl, n)]
                                   ELSE @[n]]]

ListSecrets ==
    /\ audit.at = "scan"
    /\ audit.next <= Len(AuditOrder)
    /\ \E x \in Exchanges("doppler") :
          AuditTo(CASE x.reading = "error" -> Skip
                    [] x.reading = "lost" -> [audit EXCEPT !.at = "raised"]
                    [] OTHER -> Scan(AuditOrder[audit.next], x.reading = "json"))

Report == /\ audit.at = "scan"
          /\ audit.next > Len(AuditOrder)
          /\ AuditTo([audit EXCEPT !.at = "report"])

Holders(n) == {p \in ProjectIds : audit.index[n][p] # NoValue}

Duplicates       == {n \in Names : Cardinality(Holders(n)) > 1}
CanonicalOnly    == {n \in Names : Holders(n) = {Canonical}}
NonCanonicalOnly == {n \in Names : Holders(n) # {}} \ (Duplicates \cup CanonicalOnly)
ValuesMatch(n)   == Cardinality({audit.index[n][p] : p \in Holders(n)}) = 1

----------------------------------------------------------------------------
Tool(c) == \/ Refuse(c)
           \/ \E pl \in WritePlaces, n \in Names :
                 \/ \E v \in Values : SecretSet(c, pl, n, v)
                 \/ SecretDelete(c, pl, n)
                 \/ \E new \in Names, keep \in BOOLEAN : SecretRename(c, pl, n, new, keep)
           \/ \E t \in GatedTools : Gated(c, t)
           \/ GetSecret(c)
           \/ SetSecret(c)
           \/ DeleteSecret(c)
           \/ Act(c)

Audit == ListProjects \/ ListSecrets \/ Report

ToolsNext == Audit \/ \E c \in Calls : Tool(c)

ToolsSpec == ToolsInit /\ [][ToolsNext]_toolsVars

----------------------------------------------------------------------------
CallStates ==
    [tool : {"none", "set", "delete", "rename"} \cup CloudflareTools \cup NorthflankTools,
     at : {"start", "get", "set", "delete", "act", "end"},
     place : Places \cup {NoPlace}, from : Names \cup {"none"}, to : Names \cup {"none"},
     keep : BOOLEAN, raw : Values \cup {NoValue}]

AuditStates == [at : {"start", "scan", "report", "raised"}, next : Nat \ {0},
                scanned : SUBSET Places, dirty : BOOLEAN, misled : BOOLEAN,
                index : [Names -> [ProjectIds -> Values \cup {NoValue, Empty}]]]

ToolsTypeOK ==
    /\ store \in Stores
    /\ call \in [Calls -> CallStates]
    /\ answered \in [Calls -> {"nothing", "refused", "not found", "ok", "raised"}]
    /\ applied \in [Calls -> SUBSET {"set", "delete", "act"}]
    /\ misled \in SUBSET Calls /\ overlapped \in SUBSET Calls
    /\ audit \in AuditStates

(* The requests a call that answers ok must have had carried out. *)
Needed(c) == CASE call[c].tool = "set" -> {"set"}
               [] call[c].tool = "delete" -> {"delete"}
               [] call[c].tool = "rename" ->
                     IF call[c].keep THEN {"set"} ELSE {"set", "delete"}
               [] OTHER -> {"act"}

(* An answer ok means that the provider carried out every request of the   *)
(* tool, and one without confirm that it carried out none.  The exception  *)
(* is Doppler's client, which takes a refusal without a body for success;  *)
(* the clients of Cloudflare and Northflank are never misled.              *)
ToldTruth ==
    \A c \in Calls :
        /\ answered[c] = "ok" => applied[c] = Needed(c) \/ c \in misled
        /\ answered[c] \in {"refused", "not found"} => applied[c] = {}
        /\ c \in misled => ProviderOf(call[c].tool) = "doppler"

(* A rename removes a value under the old name only if the new name has    *)
(* it, so that a crash or failure between its three requests loses no      *)
(* secret, unless another call wrote one of the two names meanwhile, a     *)
(* refused set was taken for a success, or the two names are equal; and it *)
(* removes nothing when it was asked to keep the old name.                 *)
RenameKeepsValue ==
    [][\A c \in Calls :
          LET r == call[c]
          IN  r.tool = "rename" /\ "delete" \in applied'[c] \ applied[c] =>
                 /\ ~r.keep
                 /\ \/ store'[r.place][r.to] = store[r.place][r.from]
                    \/ c \in overlapped \cup misled
                    \/ r.from = r.to]_toolsVars

(* The places scanned that hold name n, and their projects. *)
CopiesOf(n)  == {pl \in audit.scanned : store[pl][n] # NoValue}
HoldersOf(n) == {pl[1] : pl \in CopiesOf(n)}

(* A report of what the places still hold: nothing was written during the  *)
(* audit, and its requests were answered or refused with a body.           *)
Undisturbed == audit.at = "report" /\ ~audit.dirty /\ ~audit.misled

(* No project has n in two of the configs, so that none hides another. *)
OneEach(n) == Cardinality(CopiesOf(n)) = Cardinality(HoldersOf(n))

(* All copies of n are the same. *)
Equal(n) == \A p, q \in CopiesOf(n) : store[p][n] = store[q][n]

(* An undisturbed report agrees with what the places it names as scanned   *)
(* hold: who has a name, and, for a name that no project has in two of the *)
(* configs and whose raw values were all shown, whether its values match.  *)
AuditTrue ==
    Undisturbed =>
       /\ Duplicates = {n \in Names : Cardinality(HoldersOf(n)) > 1}
       /\ CanonicalOnly = {n \in Names : HoldersOf(n) = {Canonical}}
       /\ \A n \in NonCanonicalOnly : Canonical \notin HoldersOf(n)
       /\ \A n \in Duplicates :
             OneEach(n) /\ (\A pl \in CopiesOf(n) : <<pl, n>> \notin Restricted) =>
                ValuesMatch(n) = Equal(n)

(* What SKILL.md's workflow relies on: a duplicate reported as             *)
(* values_match=true may be deleted outside the canonical project, for     *)
(* all projects have the same value.  The server takes secrets without a   *)
(* raw value for equal, whatever they are.                                 *)
MatchMeansEqual ==
    Undisturbed => \A n \in Duplicates : OneEach(n) /\ ValuesMatch(n) => Equal(n)
==============================================================================
