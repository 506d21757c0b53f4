--------------------------- MODULE Servers_proofs ---------------------------
(***************************************************************************)
(* Theorems about the MCP servers: first the tools of Doppler, Cloudflare  *)
(* and Northflank (RemoteTools), for any projects, configs, secrets and    *)
(* calls; then the credential-rotation queue (Grabber), for any number of  *)
(* jobs, services, calls in flight and changes of playbooks.               *)
(***************************************************************************)
EXTENDS RemoteTools, Grabber, FiniteSetTheorems, SequenceTheorems, TLAPS

(***************************************************************************)
(* RemoteTools.                                                            *)
(***************************************************************************)
----------------------------------------------------------------------------
(* What a call has done when it is at a request, and when it has answered. *)

AtRequest(c) ==
    LET r == call[c]
    IN  /\ r.at = "get" => r.tool = "rename"
        /\ r.at = "set" => r.tool \in {"set", "rename"}
        /\ r.at = "delete" => r.tool \in {"delete", "rename"}
        /\ r.at = "act" => r.tool \in CloudflareTools \cup NorthflankTools
        /\ r.at \in {"get", "set", "delete"} => r.place \in Places
        /\ r.at = "set" => r.to \in Names
        /\ r.at = "delete" => r.from \in Names
        /\ r.tool = "rename" /\ r.at # "end" => r.from \in Names /\ r.to \in Names

(* Nothing is written and nobody misled before the first write; a rename   *)
(* that deletes has set the new name, or believes it.                      *)
DoneSoFar(c) ==
    LET r == call[c]
    IN  /\ r.at # "end" => answered[c] = "nothing"
        /\ r.at \in {"start", "get", "set", "act"} \/ (r.at = "delete" /\ r.tool = "delete") =>
              applied[c] = {} /\ c \notin misled
        /\ r.at = "delete" /\ r.tool = "rename" =>
              ~r.keep /\ (applied[c] = {"set"} \/ c \in misled)

Truthful(c) ==
    /\ answered[c] = "ok" => applied[c] = Needed(c) \/ c \in misled
    /\ answered[c] \in {"refused", "not found"} => applied[c] = {}
    /\ c \in misled => ProviderOf(call[c].tool) = "doppler"

CallInv == \A c \in Calls : AtRequest(c) /\ DoneSoFar(c) /\ Truthful(c)

(* What a rename has read is under the old name, and once written under    *)
(* the new one too, as long as nobody else writes one of the two.          *)
RenameSound(c) ==
    LET r == call[c]
    IN  r.tool = "rename" =>
           /\ r.at = "set" => r.raw = store[r.place][r.from] \/ c \in overlapped
           /\ r.at = "delete" => \/ store[r.place][r.to] = store[r.place][r.from]
                                 \/ c \in overlapped \cup misled
                                 \/ r.from = r.to

RenameInv == \A c \in Calls : RenameSound(c)

(* The index has what is hashed of a secret of each scanned project for    *)
(* each of its names.                                                      *)
IndexTrue ==
    \A n \in Names, p \in ProjectIds :
        /\ audit.index[n][p] # NoValue =>
              \E pl \in audit.scanned : /\ pl[1] = p /\ RawOrEmpty(pl, n) = audit.index[n][p]
                                        /\ store[pl][n] # NoValue
        /\ \A pl \in audit.scanned :
              pl[1] = p /\ store[pl][n] # NoValue => audit.index[n][p] # NoValue

AuditInv ==
    audit.at \in {"scan", "report"} /\ ~audit.dirty /\ ~audit.misled => IndexTrue

ToolsInv == ToolsTypeOK /\ CallInv /\ RenameInv /\ AuditInv

----------------------------------------------------------------------------
(* Answers of the providers.                                               *)

LEMMA ExchangeType ==
    ASSUME NEW p \in Providers, NEW x \in Exchanges(p)
    PROVE  x.applied \in BOOLEAN
<1>1. \A a : Accepted(a) \in BOOLEAN
  BY DEF Accepted
<1> QED BY <1>1 DEF Exchanges

(* Only the client of Doppler takes a refusal for a success. *)
LEMMA HonestClients ==
    ASSUME NEW p \in {"cloudflare", "northflank"}, NEW x \in Exchanges(p), ~Fails(x)
    PROVE  x.applied
<1>1. PICK a \in Answers(p) : x = [applied |-> Accepted(a), reading |-> Reads(p, a)]
  BY DEF Exchanges, Fails
<1>2. Reads(p, a) # "error"
  BY <1>1 DEF Fails
<1>3. a.code < 400 /\ a.body # "failure"
  <2>1. a \in AnswerKinds /\ (a.body \in {"success", "failure"} => p = "cloudflare")
    BY DEF Answers
  <2>2. a.code \in {200, 204, 400}
    BY <2>1 DEF AnswerKinds
  <2> QED BY <1>2, <2>1, <2>2 DEF Reads, CloudflareReads, NorthflankReads
<1> QED BY <1>1, <1>3 DEF Accepted

LEMMA ProviderType ==
    ASSUME NEW t
    PROVE  /\ ProviderOf(t) \in Providers
           /\ t \in CloudflareTools \cup NorthflankTools =>
                 ProviderOf(t) \in {"cloudflare", "northflank"}
           /\ t \in {"none", "set", "delete", "rename"} => ProviderOf(t) = "doppler"
BY DEF ProviderOf, Providers, CloudflareTools, NorthflankTools

----------------------------------------------------------------------------
(* Steps of a call.                                                        *)

(* The invariants of a call are its own. *)
LEMMA CallKept ==
    ASSUME CallInv, NEW c \in Calls,
           \A d \in Calls \ {c} : /\ call'[d] = call[d] /\ answered'[d] = answered[d]
                                 /\ applied'[d] = applied[d] /\ (d \in misled' => d \in misled)
                                 /\ (d \in misled => d \in misled'),
           AtRequest(c)', DoneSoFar(c)', Truthful(c)'
    PROVE  CallInv'
<1>1. ASSUME NEW d \in Calls \ {c} PROVE AtRequest(d)' /\ DoneSoFar(d)' /\ Truthful(d)'
  <2>1. AtRequest(d)'
    BY DEF CallInv, AtRequest
  <2>2. DoneSoFar(d)'
    BY DEF CallInv, DoneSoFar
  <2>3. Truthful(d)'
    BY DEF CallInv, Truthful, Needed, ProviderOf
  <2> QED BY <2>1, <2>2, <2>3
<1> QED BY <1>1 DEF CallInv

LEMMA RenameKept ==
    ASSUME RenameInv, NEW c \in Calls, UNCHANGED <<store, overlapped>>,
           \A d \in Calls \ {c} : call'[d] = call[d], misled \subseteq misled',
           RenameSound(c)'
    PROVE  RenameInv'
<1>1. ASSUME NEW d \in Calls \ {c} PROVE RenameSound(d)'
  BY DEF RenameInv, RenameSound
<1> QED BY <1>1 DEF RenameInv

(* What the audit would hash changes with the secrets only. *)
LEMMA SameRows == UNCHANGED store => \A q, n : RawOrEmpty(q, n)' = RawOrEmpty(q, n)
BY DEF RawOrEmpty

LEMMA AuditKept == ASSUME AuditInv, UNCHANGED <<store, audit>> PROVE AuditInv'
BY SameRows DEF AuditInv, IndexTrue

(* A call in its initial state starts. *)
LEMMA BeginStep ==
    ASSUME ToolsInv, NEW c \in Calls, NEW request \in CallStates, Begin(c, request),
           request.at \in {"get", "set", "delete", "act"},
           /\ request.at = "get" <=> request.tool = "rename"
           /\ request.at = "set" <=> request.tool = "set"
           /\ request.at = "delete" <=> request.tool = "delete"
           /\ request.at = "act" => request.tool \in CloudflareTools \cup NorthflankTools
           /\ request.at # "act" => request.place \in Places
           /\ request.at = "set" => request.to \in Names
           /\ request.at = "delete" => request.from \in Names
           /\ request.at = "get" => request.from \in Names /\ request.to \in Names
    PROVE  ToolsInv'
<1> USE DEF ToolsInv
<1>1. /\ call[c] = NotCalled /\ call' = [call EXCEPT ![c] = request]
      /\ UNCHANGED <<store, answered, applied, misled, overlapped, audit>>
      /\ call \in [Calls -> CallStates]
  BY DEF Begin, ToolsTypeOK
<1>2. ToolsTypeOK'
  BY <1>1 DEF ToolsTypeOK
<1>3. answered[c] = "nothing" /\ applied[c] = {} /\ c \notin misled
  BY <1>1 DEF CallInv, DoneSoFar, NotCalled
<1>4. call'[c] = request
  BY <1>1
<1>5. CallInv'
  <2>1. AtRequest(c)'
    BY <1>4 DEF AtRequest
  <2>2. DoneSoFar(c)'
    BY <1>1, <1>3, <1>4 DEF DoneSoFar
  <2>3. Truthful(c)'
    BY <1>1, <1>3, <1>4 DEF Truthful
  <2> QED BY <1>1, <2>1, <2>2, <2>3, CallKept
<1>6. RenameInv'
  <2>1. RenameSound(c)'
    BY <1>4 DEF RenameSound
  <2> QED BY <1>1, <2>1, RenameKept
<1>7. AuditInv'
  BY <1>1, AuditKept
<1> QED BY <1>2, <1>5, <1>6, <1>7

LEMMA RefuseStep == ASSUME ToolsInv, NEW c \in Calls, Refuse(c) PROVE ToolsInv'
<1> USE DEF ToolsInv
<1>1. /\ call[c] = NotCalled /\ call' = [call EXCEPT ![c] = [NotCalled EXCEPT !.at = "end"]]
      /\ answered' = [answered EXCEPT ![c] = "refused"]
      /\ UNCHANGED <<store, applied, misled, overlapped, audit>>
      /\ call \in [Calls -> CallStates]
  BY DEF Refuse, ToolsTypeOK
<1>2. [NotCalled EXCEPT !.at = "end"] \in CallStates
  BY <1>1 DEF NotCalled, CallStates
<1>3. ToolsTypeOK'
  BY <1>1, <1>2 DEF ToolsTypeOK
<1>4. applied[c] = {} /\ c \notin misled
  BY <1>1 DEF CallInv, DoneSoFar, NotCalled
<1>5. call'[c].at = "end" /\ call'[c].tool = "none" /\ answered'[c] = "refused"
  BY <1>1 DEF NotCalled, ToolsTypeOK
<1>6. CallInv'
  <2>1. AtRequest(c)' /\ DoneSoFar(c)' /\ Truthful(c)'
    BY <1>1, <1>4, <1>5 DEF AtRequest, DoneSoFar, Truthful
  <2>2. \A d \in Calls \ {c} : call'[d] = call[d] /\ answered'[d] = answered[d]
    BY <1>1 DEF ToolsTypeOK
  <2> QED BY <1>1, <2>1, <2>2, CallKept
<1>7. RenameInv'
  <2>1. RenameSound(c)'
    BY <1>5 DEF RenameSound
  <2> QED BY <1>1, <2>1, RenameKept
<1>8. AuditInv'
  BY <1>1, AuditKept
<1> QED BY <1>3, <1>6, <1>7, <1>8

LEMMA OverType ==
    ASSUME ToolsTypeOK, NEW c \in Calls
    PROVE  /\ Over(c) \in CallStates /\ Over(c).at = "end"
           /\ Over(c).tool = call[c].tool /\ Over(c).keep = call[c].keep
<1>1. call[c] \in CallStates
  BY DEF ToolsTypeOK
<1> QED BY <1>1 DEF Over, NotCalled, CallStates

LEMMA GetStep == ASSUME ToolsInv, NEW c \in Calls, GetSecret(c) PROVE ToolsInv'
<1> USE DEF ToolsInv
<1> DEFINE raw == store[call[c].place][call[c].from]
           read == [call[c] EXCEPT !.at = "set", !.raw = raw]
<1>1. /\ call[c].at = "get" /\ UNCHANGED <<store, applied, misled, overlapped, audit>>
      /\ call \in [Calls -> CallStates] /\ call[c] \in CallStates
      /\ answered \in [Calls -> {"nothing", "refused", "not found", "ok", "raised"}]
  BY DEF GetSecret, ToolsTypeOK
<1>2. /\ call[c].tool = "rename" /\ call[c].place \in Places
      /\ call[c].from \in Names /\ call[c].to \in Names
  BY <1>1 DEF CallInv, AtRequest
<1>3. answered[c] = "nothing" /\ applied[c] = {} /\ c \notin misled
  BY <1>1 DEF CallInv, DoneSoFar
<1>4. \/ call' = [call EXCEPT ![c] = read] /\ UNCHANGED answered
      \/ /\ call' = [call EXCEPT ![c] = Over(c)]
         /\ \E a \in {"raised", "not found"} : answered' = [answered EXCEPT ![c] = a]
  BY <1>1 DEF GetSecret, GoTo
<1>5. raw \in Values \cup {NoValue}
  BY <1>2 DEF ToolsTypeOK, Stores
<1>6. CASE call' = [call EXCEPT ![c] = read] /\ UNCHANGED answered
  <2>1. /\ read \in CallStates /\ read.at = "set" /\ read.tool = "rename" /\ read.raw = raw
        /\ read.place = call[c].place /\ read.from = call[c].from /\ read.to = call[c].to
    BY <1>1, <1>2, <1>5 DEF CallStates
  <2> HIDE DEF read
  <2>2. call'[c] = read /\ \A d \in Calls \ {c} : call'[d] = call[d]
    BY <1>1, <1>6
  <2>3. ToolsTypeOK'
    BY <1>1, <1>6, <2>1 DEF ToolsTypeOK
  <2>4. AtRequest(c)' /\ DoneSoFar(c)' /\ Truthful(c)'
    BY <1>1, <1>2, <1>3, <1>6, <2>1, <2>2 DEF AtRequest, DoneSoFar, Truthful
  <2>5. CallInv'
    BY <1>1, <1>6, <2>2, <2>4, CallKept
  <2>6. RenameInv'
    <3>1. RenameSound(c)'
      BY <1>1, <2>1, <2>2 DEF RenameSound
    <3> QED BY <1>1, <2>2, <3>1, RenameKept
  <2>7. AuditInv'
    BY <1>1, AuditKept
  <2> QED BY <2>3, <2>5, <2>6, <2>7
<1>7. ASSUME NEW a \in {"raised", "not found"}, call' = [call EXCEPT ![c] = Over(c)],
             answered' = [answered EXCEPT ![c] = a]
      PROVE  ToolsInv'
  <2>1. /\ call'[c] = Over(c) /\ answered'[c] = a
        /\ \A d \in Calls \ {c} : call'[d] = call[d] /\ answered'[d] = answered[d]
    BY <1>1, <1>7
  <2>2. ToolsTypeOK'
    BY <1>1, <1>7, OverType DEF ToolsTypeOK
  <2>3. AtRequest(c)' /\ DoneSoFar(c)' /\ Truthful(c)'
    BY <1>1, <1>3, <2>1, OverType DEF AtRequest, DoneSoFar, Truthful
  <2>4. CallInv'
    BY <1>1, <2>1, <2>3, CallKept
  <2>5. RenameInv'
    <3>1. RenameSound(c)'
      BY <2>1, OverType DEF RenameSound
    <3> QED BY <1>1, <2>1, <3>1, RenameKept
  <2>6. AuditInv'
    BY <1>1, AuditKept
  <2> QED BY <2>2, <2>4, <2>5, <2>6
<1> QED BY <1>4, <1>6, <1>7

(* A request that was sent, for a tool with one more request at `next` or  *)
(* none.                                                                   *)
LEMMA ProceedEffect ==
    ASSUME ToolsTypeOK, NEW c \in Calls, NEW x, NEW next \in {"delete", "end"},
           Proceed(c, x, next), Note(c, x), x.applied \in BOOLEAN
    PROVE  /\ IF Fails(x) \/ next = "end" THEN call' = [call EXCEPT ![c] = Over(c)]
              ELSE call' = [call EXCEPT ![c].at = "delete"]
           /\ answered' = IF Fails(x) THEN [answered EXCEPT ![c] = "raised"]
                          ELSE IF next = "end" THEN [answered EXCEPT ![c] = "ok"] ELSE answered
           /\ applied' = IF x.applied THEN [applied EXCEPT ![c] = applied[c] \cup {call[c].at}]
                         ELSE applied
           /\ misled' = IF x.applied \/ Fails(x) THEN misled ELSE misled \cup {c}
BY DEF Proceed, Note, GoTo

LEMMA ActStep == ASSUME ToolsInv, NEW c \in Calls, Act(c) PROVE ToolsInv'
<1> USE DEF ToolsInv
<1>1. /\ call[c].at = "act" /\ UNCHANGED <<store, overlapped, audit>>
      /\ call \in [Calls -> CallStates] /\ applied \in [Calls -> SUBSET {"set", "delete", "act"}]
      /\ answered \in [Calls -> {"nothing", "refused", "not found", "ok", "raised"}]
  BY DEF Act, ToolsTypeOK
<1>2. call[c].tool \in CloudflareTools \cup NorthflankTools
  BY <1>1 DEF CallInv, AtRequest
<1>3. answered[c] = "nothing" /\ applied[c] = {} /\ c \notin misled
  BY <1>1 DEF CallInv, DoneSoFar
<1>4. PICK x \in Exchanges(ProviderOf(call[c].tool)) : Proceed(c, x, "end") /\ Note(c, x)
  BY DEF Act
<1>5. x.applied \in BOOLEAN /\ (Fails(x) \/ x.applied)
  BY <1>2, ProviderType, ExchangeType, HonestClients
<1>6. /\ call' = [call EXCEPT ![c] = Over(c)]
      /\ answered' = [answered EXCEPT ![c] = IF Fails(x) THEN "raised" ELSE "ok"]
      /\ applied' = IF x.applied THEN [applied EXCEPT ![c] = {"act"}] ELSE applied
      /\ misled' = misled
  <2>1. /\ IF Fails(x) \/ "end" = "end" THEN call' = [call EXCEPT ![c] = Over(c)]
           ELSE call' = [call EXCEPT ![c].at = "delete"]
        /\ answered' = IF Fails(x) THEN [answered EXCEPT ![c] = "raised"]
                       ELSE IF "end" = "end" THEN [answered EXCEPT ![c] = "ok"] ELSE answered
        /\ applied' = IF x.applied THEN [applied EXCEPT ![c] = applied[c] \cup {call[c].at}]
                      ELSE applied
        /\ misled' = IF x.applied \/ Fails(x) THEN misled ELSE misled \cup {c}
    BY <1>4, <1>5, ProceedEffect
  <2>2. applied[c] \cup {call[c].at} = {"act"}
    BY <1>1, <1>3
  <2> QED BY <1>5, <2>1, <2>2
<1>7. /\ call'[c] = Over(c)
      /\ answered'[c] \in {"raised", "ok"} /\ (answered'[c] = "ok" => ~Fails(x))
      /\ applied'[c] = (IF x.applied THEN {"act"} ELSE {})
      /\ \A d \in Calls \ {c} : /\ call'[d] = call[d] /\ answered'[d] = answered[d]
                               /\ applied'[d] = applied[d]
  BY <1>1, <1>3, <1>6
<1>8. ToolsTypeOK'
  BY <1>1, <1>6, OverType DEF ToolsTypeOK
<1>9. Needed(c)' = {"act"}
  <2>1. call[c].tool \notin {"set", "delete", "rename"}
    BY <1>2 DEF CloudflareTools, NorthflankTools
  <2> QED BY <1>7, <2>1, OverType DEF Needed
<1>10. AtRequest(c)' /\ DoneSoFar(c)' /\ Truthful(c)'
  <2>1. AtRequest(c)' /\ DoneSoFar(c)'
    BY <1>7, OverType DEF AtRequest, DoneSoFar
  <2>2. Truthful(c)'
    <3>1. answered'[c] = "ok" => applied'[c] = Needed(c)'
      BY <1>5, <1>7, <1>9
    <3>2. answered'[c] \notin {"refused", "not found"} /\ c \notin misled'
      BY <1>3, <1>6, <1>7
    <3> QED BY <3>1, <3>2 DEF Truthful
  <2> QED BY <2>1, <2>2
<1>11. CallInv'
  BY <1>6, <1>7, <1>10, CallKept
<1>12. RenameInv'
  <2>1. RenameSound(c)'
    BY <1>7, OverType DEF RenameSound
  <2> QED BY <1>1, <1>6, <1>7, <2>1, RenameKept
<1>13. AuditInv'
  BY <1>1, AuditKept
<1> QED BY <1>8, <1>11, <1>12, <1>13

(* Doppler's secrets after name n at pl has become v. *)
Written(s, pl, n, v) == [s EXCEPT ![pl][n] = v]

LEMMA StoreWrite ==
    ASSUME NEW s \in Stores, NEW pl \in Places, NEW n \in Names, NEW v \in Values \cup {NoValue}
    PROVE  /\ Written(s, pl, n, v) \in Stores
           /\ Written(s, pl, n, v)[pl][n] = v
           /\ \A q \in Places, m \in Names :
                 q # pl \/ m # n => Written(s, pl, n, v)[q][m] = s[q][m]
<1>1. s \in [Places -> [Names -> Values \cup {NoValue}]]
  BY DEF Stores
<1>2. [s[pl] EXCEPT ![n] = v] \in [Names -> Values \cup {NoValue}]
  BY <1>1
<1>3. [s EXCEPT ![pl] = [s[pl] EXCEPT ![n] = v]] \in [Places -> [Names -> Values \cup {NoValue}]]
  BY <1>1, <1>2
<1>4. [s EXCEPT ![pl][n] = v] = [s EXCEPT ![pl] = [s[pl] EXCEPT ![n] = v]]
  OBVIOUS
<1> QED BY <1>1, <1>3, <1>4 DEF Stores, Written

(* What exchange x of a write request of call c does at Doppler. *)
Wrote(c, x, pl, n, v) ==
    IF x.applied
    THEN /\ store' = Written(store, pl, n, v)
         /\ overlapped' = overlapped \cup Disturbed(c, pl, n)
         /\ audit' = [audit EXCEPT !.dirty = TRUE]
    ELSE UNCHANGED <<store, overlapped, audit>>

(* Secrets are written: each write is by call c, for itself.               *)
LEMMA WriteEffect ==
    ASSUME ToolsInv, NEW c \in Calls, call[c].at \in {"set", "delete"},
           NEW pl \in Places, call[c].place = pl,
           NEW n \in Names, NEW v \in Values \cup {NoValue}, NEW next \in {"delete", "end"},
           NEW x \in Exchanges("doppler"), Proceed(c, x, next), Note(c, x),
           Wrote(c, x, pl, n, v)
    PROVE  /\ ToolsTypeOK' /\ AuditInv'
           /\ \A d \in Calls \ {c} : /\ call'[d] = call[d] /\ answered'[d] = answered[d]
                                    /\ applied'[d] = applied[d] /\ RenameSound(d)'
                                    /\ (d \in misled' <=> d \in misled)
<1> USE DEF Wrote
<1>0. ToolsTypeOK /\ CallInv /\ RenameInv /\ AuditInv
  BY DEF ToolsInv
<1>1. x.applied \in BOOLEAN
  BY ExchangeType DEF Providers
<1>2. /\ IF Fails(x) \/ next = "end" THEN call' = [call EXCEPT ![c] = Over(c)]
         ELSE call' = [call EXCEPT ![c].at = "delete"]
      /\ answered' = IF Fails(x) THEN [answered EXCEPT ![c] = "raised"]
                     ELSE IF next = "end" THEN [answered EXCEPT ![c] = "ok"] ELSE answered
      /\ applied' = IF x.applied THEN [applied EXCEPT ![c] = applied[c] \cup {call[c].at}]
                    ELSE applied
      /\ misled' = IF x.applied \/ Fails(x) THEN misled ELSE misled \cup {c}
  BY <1>0, <1>1, ProceedEffect
<1>3. /\ call \in [Calls -> CallStates] /\ applied \in [Calls -> SUBSET {"set", "delete", "act"}]
      /\ answered \in [Calls -> {"nothing", "refused", "not found", "ok", "raised"}]
      /\ store \in Stores /\ audit \in AuditStates
      /\ misled \in SUBSET Calls /\ overlapped \in SUBSET Calls
  BY <1>0 DEF ToolsTypeOK
<1>4. call' \in [Calls -> CallStates]
  <2>1. CASE call' = [call EXCEPT ![c] = Over(c)]
    BY <1>0, <1>3, <2>1, OverType
  <2>2. CASE call' = [call EXCEPT ![c].at = "delete"]
    <3>1. [call[c] EXCEPT !.at = "delete"] \in CallStates
      BY <1>3 DEF CallStates
    <3> QED BY <1>3, <2>2, <3>1
  <2> QED BY <1>2, <2>1, <2>2
<1>5. store' \in Stores
  <2>1. CASE x.applied
    <3>1. store' = Written(store, pl, n, v)
      BY <2>1
    <3>2. Written(store, pl, n, v) \in Stores
      BY <1>3, StoreWrite
    <3> QED BY <3>1, <3>2
  <2>2. CASE ~x.applied
    BY <1>3, <2>2
  <2> QED BY <1>1, <2>1, <2>2
<1>6. audit' \in AuditStates
  BY <1>1, <1>3 DEF AuditStates
<1>7. overlapped' \in SUBSET Calls /\ misled' \in SUBSET Calls
  BY <1>1, <1>2, <1>3 DEF Disturbed
<1>8. /\ applied' \in [Calls -> SUBSET {"set", "delete", "act"}]
      /\ answered' \in [Calls -> {"nothing", "refused", "not found", "ok", "raised"}]
  BY <1>1, <1>2, <1>3
<1>9. ToolsTypeOK'
  BY <1>4, <1>5, <1>6, <1>7, <1>8 DEF ToolsTypeOK
<1>10. AuditInv'
  <2>1. CASE x.applied
    <3>1. audit'.dirty
      BY <1>3, <2>1 DEF AuditStates
    <3> QED BY <3>1 DEF AuditInv
  <2>2. CASE ~x.applied
    BY <1>0, <2>2, AuditKept
  <2> QED BY <1>1, <2>1, <2>2
<1>11. ASSUME NEW d \in Calls \ {c}
       PROVE  /\ call'[d] = call[d] /\ answered'[d] = answered[d] /\ applied'[d] = applied[d]
              /\ (d \in misled' <=> d \in misled)
  BY <1>1, <1>2, <1>3
<1>12. ASSUME NEW d \in Calls \ {c} PROVE RenameSound(d)'
  <2>1. RenameSound(d) /\ AtRequest(d) /\ call'[d] = call[d]
    BY <1>0, <1>11 DEF RenameInv, CallInv
  <2>2. CASE ~x.applied
    BY <1>11, <2>1, <2>2 DEF RenameSound
  <2>3. CASE x.applied /\ d \in Disturbed(c, pl, n)
    BY <2>1, <2>3 DEF RenameSound
  <2>4. CASE x.applied /\ d \notin Disturbed(c, pl, n)
    <3>a. store' = Written(store, pl, n, v)
      BY <2>4
    <3>b. \A q \in Places, m \in Names :
             q # pl \/ m # n =>
                Written(store, pl, n, v)[q][m] = store[q][m]
      <4>1. store \in Stores
        BY <1>3
      <4> QED BY <4>1, StoreWrite
    <3>1. ASSUME call[d].tool = "rename", call[d].at \in {"set", "delete"}
          PROVE  store'[call[d].place][call[d].from] = store[call[d].place][call[d].from]
      <4>1. call[d].place \in Places /\ call[d].from \in Names
        BY <2>1, <3>1 DEF AtRequest
      <4>2. call[d].place # pl \/ call[d].from # n
        BY <2>4, <3>1 DEF Disturbed
      <4> QED BY <3>a, <3>b, <4>1, <4>2
    <3>2. ASSUME call[d].tool = "rename", call[d].at = "delete"
          PROVE  store'[call[d].place][call[d].to] = store[call[d].place][call[d].to]
      <4>1. call[d].place \in Places /\ call[d].to \in Names
        BY <2>1, <3>2 DEF AtRequest
      <4>2. call[d].place # pl \/ call[d].to # n
        BY <2>4, <3>2 DEF Disturbed
      <4> QED BY <3>a, <3>b, <4>1, <4>2
    <3>3. d \in overlapped => d \in overlapped'
      BY <2>4
    <3> QED BY <1>11, <2>1, <3>1, <3>2, <3>3 DEF RenameSound
  <2> QED BY <1>1, <2>2, <2>3, <2>4
<1> QED BY <1>9, <1>10, <1>11, <1>12

(* A request that writes a secret, with the exchange named. *)
LEMMA WritePicked ==
    ASSUME NEW c \in Calls, NEW pl, call[c].place = pl, NEW n, NEW v, NEW next,
           WriteSecret(c, n, v, next)
    PROVE  \E x \in Exchanges("doppler") :
              Proceed(c, x, next) /\ Note(c, x) /\ Wrote(c, x, pl, n, v)
BY DEF WriteSecret, Wrote, Written

LEMMA SetStep == ASSUME ToolsInv, NEW c \in Calls, SetSecret(c) PROVE ToolsInv'
<1> DEFINE r  == call[c]
           pl == r.place
           next == AfterSet(c)
<1>1. ToolsTypeOK /\ CallInv /\ RenameInv
  BY DEF ToolsInv
<1>2. /\ r.at = "set" /\ WriteSecret(c, r.to, r.raw, next)
      /\ next = (IF r.tool = "rename" /\ ~r.keep THEN "delete" ELSE "end")
  BY DEF SetSecret, AfterSet
<1>3. /\ r \in CallStates /\ r.raw \in Values \cup {NoValue} /\ r.keep \in BOOLEAN
      /\ store \in Stores /\ call \in [Calls -> CallStates]
      /\ applied \in [Calls -> SUBSET {"set", "delete", "act"}]
      /\ answered \in [Calls -> {"nothing", "refused", "not found", "ok", "raised"}]
  <2>1. r \in CallStates
    BY <1>1 DEF ToolsTypeOK
  <2> QED BY <1>1, <2>1 DEF ToolsTypeOK, CallStates
<1>4. /\ r.tool \in {"set", "rename"} /\ pl \in Places /\ r.to \in Names
      /\ r.tool = "rename" => r.from \in Names
  BY <1>1, <1>2 DEF CallInv, AtRequest
<1>5. answered[c] = "nothing" /\ applied[c] = {} /\ c \notin misled
  BY <1>1, <1>2 DEF CallInv, DoneSoFar
<1>6. next \in {"delete", "end"}
  BY <1>2
<1>a. PICK x \in Exchanges("doppler") :
         Proceed(c, x, next) /\ Note(c, x) /\ Wrote(c, x, pl, r.to, r.raw)
  BY <1>2, WritePicked
<1>b. x.applied \in BOOLEAN
  BY ExchangeType DEF Providers
<1> HIDE DEF next
<1>8. /\ ToolsTypeOK' /\ AuditInv'
      /\ \A d \in Calls \ {c} : /\ call'[d] = call[d] /\ answered'[d] = answered[d]
                               /\ applied'[d] = applied[d] /\ RenameSound(d)'
                               /\ (d \in misled' <=> d \in misled)
  <2>1. call[c].at \in {"set", "delete"} /\ call[c].place = pl
    BY <1>2
  <2>2. pl \in Places /\ r.to \in Names /\ r.raw \in Values \cup {NoValue}
    BY <1>3, <1>4
  <2> HIDE DEF pl, r
  <2> QED BY <2>1, <2>2, <1>6, <1>a, WriteEffect
<1>7. /\ x.applied \in BOOLEAN /\ Proceed(c, x, next) /\ Note(c, x)
      /\ IF x.applied
         THEN /\ store' = Written(store, pl, r.to, r.raw)
              /\ overlapped' = overlapped \cup Disturbed(c, pl, r.to)
              /\ audit' = [audit EXCEPT !.dirty = TRUE]
         ELSE UNCHANGED <<store, overlapped, audit>>
  BY <1>a, <1>b DEF Wrote
<1>9. /\ IF Fails(x) \/ next = "end" THEN call' = [call EXCEPT ![c] = Over(c)]
         ELSE call' = [call EXCEPT ![c].at = "delete"]
      /\ answered' = IF Fails(x) THEN [answered EXCEPT ![c] = "raised"]
                     ELSE IF next = "end" THEN [answered EXCEPT ![c] = "ok"] ELSE answered
      /\ applied' = IF x.applied THEN [applied EXCEPT ![c] = applied[c] \cup {r.at}]
                    ELSE applied
      /\ misled' = IF x.applied \/ Fails(x) THEN misled ELSE misled \cup {c}
  BY <1>1, <1>6, <1>7, ProceedEffect
<1>10. ProviderOf(r.tool) = "doppler"
  BY <1>4, ProviderType
<1>11. applied'[c] = (IF x.applied THEN {"set"} ELSE {})
  BY <1>2, <1>3, <1>5, <1>7, <1>9
<1>12. CASE Fails(x)
  <2>1. call'[c] = Over(c) /\ answered'[c] = "raised" /\ c \notin misled'
    BY <1>3, <1>5, <1>9, <1>12
  <2>2. AtRequest(c)' /\ DoneSoFar(c)' /\ Truthful(c)' /\ RenameSound(c)'
    BY <1>1, <2>1, OverType DEF AtRequest, DoneSoFar, Truthful, RenameSound
  <2> QED BY <1>1, <1>8, <2>2, CallKept DEF ToolsInv, RenameInv
<1>13. CASE ~Fails(x) /\ next = "end"
  <2>1. /\ call'[c] = Over(c) /\ answered'[c] = "ok"
        /\ applied'[c] = {"set"} \/ c \in misled'
    BY <1>3, <1>7, <1>9, <1>11, <1>13
  <2>2. r.tool = "set" \/ (r.tool = "rename" /\ r.keep)
    BY <1>2, <1>3, <1>4, <1>13
  <2>3. Needed(c)' = {"set"}
    BY <1>1, <2>1, <2>2, OverType DEF Needed
  <2>4. ProviderOf(call'[c].tool) = "doppler"
    BY <1>1, <1>10, <2>1, OverType
  <2>5. AtRequest(c)' /\ DoneSoFar(c)' /\ Truthful(c)' /\ RenameSound(c)'
    BY <1>1, <2>1, <2>3, <2>4, OverType DEF AtRequest, DoneSoFar, Truthful, RenameSound
  <2> QED BY <1>1, <1>8, <2>5, CallKept DEF ToolsInv, RenameInv
<1>14. CASE ~Fails(x) /\ next = "delete"
  <2>1. r.tool = "rename" /\ ~r.keep
    BY <1>2, <1>14
  <2>2. call' = [call EXCEPT ![c] = [r EXCEPT !.at = "delete"]] /\ answered' = answered
    BY <1>3, <1>9, <1>14
  <2>3. /\ call'[c].at = "delete" /\ call'[c].tool = "rename" /\ ~call'[c].keep
        /\ call'[c].place = pl /\ call'[c].from = r.from /\ call'[c].to = r.to
    BY <1>3, <2>1, <2>2 DEF CallStates
  <2>4. applied'[c] = {"set"} \/ c \in misled'
    BY <1>7, <1>9, <1>11, <1>14
  <2>5. AtRequest(c)' /\ DoneSoFar(c)'
    BY <1>4, <1>5, <2>1, <2>2, <2>3, <2>4 DEF AtRequest, DoneSoFar
  <2>6. Truthful(c)'
    BY <1>5, <1>10, <2>1, <2>2, <2>3 DEF Truthful
  <2>7. RenameSound(c)'
    <3>1. CASE ~x.applied
      BY <1>9, <1>14, <2>3, <3>1 DEF RenameSound
    <3>2. CASE x.applied /\ r.from # r.to
      <4>1. store' = Written(store, pl, r.to, r.raw)
        BY <1>7, <3>2
      <4>2. store \in Stores /\ r.raw \in Values \cup {NoValue}
        BY <1>3
      <4>3. /\ Written(store, pl, r.to, r.raw)[pl][r.to] = r.raw
            /\ Written(store, pl, r.to, r.raw)[pl][r.from] = store[pl][r.from]
        BY <1>4, <2>1, <3>2, <4>2, StoreWrite
      <4>4. r.raw = store[pl][r.from] \/ c \in overlapped
        BY <1>1, <1>2, <2>1 DEF RenameInv, RenameSound
      <4>5. c \in overlapped => c \in overlapped'
        BY <1>7, <3>2
      <4> QED BY <2>3, <4>1, <4>3, <4>4, <4>5 DEF RenameSound
    <3>3. CASE r.from = r.to
      BY <2>3, <3>3 DEF RenameSound
    <3> QED BY <1>7, <3>1, <3>2, <3>3
  <2> QED BY <1>1, <1>8, <2>5, <2>6, <2>7, CallKept DEF ToolsInv, RenameInv
<1> QED BY <1>6, <1>12, <1>13, <1>14
(* The last request of a delete and of a rename. *)
LEMMA DeleteStep ==
    ASSUME ToolsInv, NEW c \in Calls, DeleteSecret(c)
    PROVE  /\ ToolsInv'
           /\ \A d \in Calls \ {c} : applied'[d] = applied[d]
           /\ "delete" \in applied'[c] \ applied[c] =>
                 /\ store' = Written(store, call[c].place, call[c].from, NoValue)
                 /\ c \in overlapped => c \in overlapped'
<1> DEFINE r  == call[c]
           pl == r.place
<1>1. ToolsTypeOK /\ CallInv /\ RenameInv
  BY DEF ToolsInv
<1>2. r.at = "delete" /\ WriteSecret(c, r.from, NoValue, "end")
  BY DEF DeleteSecret
<1>3. /\ r \in CallStates /\ r.keep \in BOOLEAN
      /\ store \in Stores /\ call \in [Calls -> CallStates]
      /\ applied \in [Calls -> SUBSET {"set", "delete", "act"}]
      /\ answered \in [Calls -> {"nothing", "refused", "not found", "ok", "raised"}]
  <2>1. r \in CallStates
    BY <1>1 DEF ToolsTypeOK
  <2> QED BY <1>1, <2>1 DEF ToolsTypeOK, CallStates
<1>4. r.tool \in {"delete", "rename"} /\ pl \in Places /\ r.from \in Names
  BY <1>1, <1>2 DEF CallInv, AtRequest
<1>5. /\ answered[c] = "nothing"
      /\ r.tool = "delete" => applied[c] = {} /\ c \notin misled
      /\ r.tool = "rename" => ~r.keep /\ (applied[c] = {"set"} \/ c \in misled)
  BY <1>1, <1>2 DEF CallInv, DoneSoFar
<1>6. PICK x \in Exchanges("doppler") :
         Proceed(c, x, "end") /\ Note(c, x) /\ Wrote(c, x, pl, r.from, NoValue)
  BY <1>2, WritePicked
<1>7. x.applied \in BOOLEAN
  BY ExchangeType DEF Providers
<1>8. /\ ToolsTypeOK' /\ AuditInv'
      /\ \A d \in Calls \ {c} : /\ call'[d] = call[d] /\ answered'[d] = answered[d]
                               /\ applied'[d] = applied[d] /\ RenameSound(d)'
                               /\ (d \in misled' <=> d \in misled)
  <2>1. call[c].at \in {"set", "delete"} /\ call[c].place = pl
    BY <1>2
  <2>2. pl \in Places /\ r.from \in Names /\ NoValue \in Values \cup {NoValue}
    BY <1>4
  <2>3. "end" \in {"delete", "end"}
    OBVIOUS
  <2> HIDE DEF pl, r
  <2> QED BY <2>1, <2>2, <2>3, <1>6, WriteEffect
<1>9. /\ call' = [call EXCEPT ![c] = Over(c)]
      /\ answered' = [answered EXCEPT ![c] = IF Fails(x) THEN "raised" ELSE "ok"]
      /\ applied' = IF x.applied THEN [applied EXCEPT ![c] = applied[c] \cup {"delete"}]
                    ELSE applied
      /\ misled' = IF x.applied \/ Fails(x) THEN misled ELSE misled \cup {c}
  BY <1>2, <1>6 DEF Proceed, Note, GoTo
<1>10. /\ call'[c] = Over(c) /\ answered'[c] = (IF Fails(x) THEN "raised" ELSE "ok")
       /\ applied'[c] = (IF x.applied THEN applied[c] \cup {"delete"} ELSE applied[c])
  BY <1>3, <1>7, <1>9
<1>11. ProviderOf(call'[c].tool) = "doppler"
  BY <1>1, <1>4, <1>10, OverType, ProviderType
<1>12. Truthful(c)'
  <2>1. /\ call'[c].tool = "delete" => Needed(c)' = {"delete"}
        /\ call'[c].tool = "rename" /\ ~call'[c].keep => Needed(c)' = {"set", "delete"}
    BY DEF Needed
  <2>2. ASSUME ~Fails(x), x.applied PROVE applied'[c] = Needed(c)' \/ c \in misled'
    BY <1>1, <1>4, <1>5, <1>9, <1>10, <2>1, <2>2, OverType
  <2>3. ASSUME ~Fails(x), ~x.applied PROVE c \in misled'
    BY <1>9, <2>3
  <2> QED BY <1>7, <1>10, <1>11, <2>2, <2>3 DEF Truthful
<1>13. AtRequest(c)' /\ DoneSoFar(c)' /\ RenameSound(c)'
  BY <1>1, <1>10, OverType DEF AtRequest, DoneSoFar, RenameSound
<1>14. ToolsInv'
  <2>1. CallInv'
    BY <1>1, <1>8, <1>12, <1>13, CallKept
  <2> QED BY <1>8, <1>13, <2>1 DEF ToolsInv, RenameInv
<1>15. "delete" \in applied'[c] \ applied[c] =>
          /\ store' = Written(store, pl, r.from, NoValue)
          /\ c \in overlapped => c \in overlapped'
  BY <1>6, <1>7, <1>10 DEF Wrote
<1> QED BY <1>8, <1>14, <1>15

----------------------------------------------------------------------------
(* Steps of the audit.                                                     *)

LEMMA Quotients ==
    ASSUME NEW a \in Nat, NEW b \in Nat, NEW k \in Nat, k < a * b
    PROVE  k \div b \in 0..(a - 1) /\ k % b \in 0..(b - 1)
<1>1. b > 0
  <2>1. b = 0 => a * b = 0
    OBVIOUS
  <2> QED BY <2>1
<1> DEFINE q == k \div b
<1>2. q \in Nat /\ k % b \in 0..(b - 1) /\ k = b * q + (k % b)
  BY <1>1
<1> HIDE DEF q
<1>3. ASSUME q >= a PROVE FALSE
  <2>1. b * q >= b * a
    BY <1>1, <1>2, <1>3
  <2>2. b * a = a * b /\ b * q \in Nat /\ a * b \in Nat
    BY <1>2
  <2> QED BY <1>2, <2>1, <2>2
<1> QED BY <1>2, <1>3 DEF q

(* The audit's order visits places, as many as there are. *)
LEMMA OrderType ==
    /\ AuditOrder \in Seq(Places)
    /\ \A i \in 1..Len(AuditOrder) : AuditOrder[i] \in Places
<1> DEFINE N == Len(Projects) * Len(Configs)
<1>1. /\ Len(Projects) \in Nat /\ Projects \in [1..Len(Projects) -> ProjectIds]
      /\ Len(Configs) \in Nat /\ Configs \in [1..Len(Configs) -> ConfigIds]
  BY RemoteToolsAssumption, LenProperties
<1>2. N \in Nat
  BY <1>1
<1>3. ASSUME NEW i \in 1..N
      PROVE  <<Projects[((i - 1) \div Len(Configs)) + 1],
               Configs[((i - 1) % Len(Configs)) + 1]>> \in Places
  <2>1. i - 1 \in Nat /\ i - 1 < Len(Projects) * Len(Configs)
    BY <1>2
  <2>2. /\ (i - 1) \div Len(Configs) \in 0..(Len(Projects) - 1)
        /\ (i - 1) % Len(Configs) \in 0..(Len(Configs) - 1)
    BY <1>1, <2>1, Quotients
  <2>3. /\ ((i - 1) \div Len(Configs)) + 1 \in 1..Len(Projects)
        /\ ((i - 1) % Len(Configs)) + 1 \in 1..Len(Configs)
    BY <1>1, <2>2
  <2> QED BY <1>1, <2>3 DEF Places
<1>4. AuditOrder \in [1..N -> Places]
  BY <1>3 DEF AuditOrder
<1>5. AuditOrder \in Seq(Places)
  BY <1>2, <1>4, SeqDef
<1>6. AuditOrder \in [1..Len(AuditOrder) -> Places]
  BY <1>5, LenProperties
<1> QED BY <1>5, <1>6

LEMMA AuditCalls ==
    ASSUME ToolsInv, NEW a \in AuditStates, AuditTo(a), AuditInv'
    PROVE  ToolsInv'
<1>1. UNCHANGED <<store, call, answered, applied, misled, overlapped>> /\ audit' = a
  BY DEF AuditTo
<1>2. ToolsTypeOK'
  BY <1>1 DEF ToolsInv, ToolsTypeOK
<1>3. CallInv'
  BY <1>1 DEF ToolsInv, CallInv, AtRequest, DoneSoFar, Truthful, Needed
<1>4. RenameInv'
  BY <1>1 DEF ToolsInv, RenameInv, RenameSound
<1> QED BY <1>2, <1>3, <1>4 DEF ToolsInv

LEMMA NoAuditType ==
    /\ NoAudit \in AuditStates /\ NoAudit.at = "start" /\ NoAudit.scanned = {}
    /\ \A n \in Names, p \in ProjectIds : NoAudit.index[n][p] = NoValue
<1> DEFINE none == [n \in Names |-> [p \in ProjectIds |-> NoValue]]
           none0 == [at |-> "start", next |-> 1, scanned |-> {}, dirty |-> FALSE,
                     misled |-> FALSE, index |-> none]
<1>1. none \in [Names -> [ProjectIds -> Values \cup {NoValue, Empty}]]
  OBVIOUS
<1>2. \A n \in Names, p \in ProjectIds : none[n][p] = NoValue
  OBVIOUS
<1>3. NoAudit = none0
  BY DEF NoAudit
<1> HIDE DEF none
<1>4. none0 \in AuditStates
  <2>1. 1 \in Nat \ {0} /\ {} \in SUBSET Places /\ FALSE \in BOOLEAN
    OBVIOUS
  <2> QED BY <1>1, <2>1 DEF AuditStates
<1>5. none0.at = "start" /\ none0.scanned = {} /\ none0.index = none
  OBVIOUS
<1> QED BY <1>2, <1>3, <1>4, <1>5

LEMMA EmptyIndex ==
    ASSUME NEW phase \in {"start", "scan", "report", "raised"}
    PROVE  LET a == [NoAudit EXCEPT !.at = phase]
           IN  a \in AuditStates /\ (audit' = a => AuditInv')
<1> DEFINE a == [NoAudit EXCEPT !.at = phase]
<1>1. a \in AuditStates /\ a.scanned = NoAudit.scanned /\ a.index = NoAudit.index
  BY NoAuditType DEF AuditStates
<1> HIDE DEF a
<1>2. audit' = a => AuditInv'
  BY <1>1, NoAuditType DEF AuditInv, IndexTrue
<1> QED BY <1>1, <1>2 DEF a

LEMMA ListProjectsStep == ASSUME ToolsInv, ListProjects PROVE ToolsInv'
<1>1. PICK phase \in {"start", "scan", "report", "raised"} :
         AuditTo([NoAudit EXCEPT !.at = phase])
  BY DEF ListProjects
<1>2. audit' = [NoAudit EXCEPT !.at = phase]
  BY <1>1 DEF AuditTo
<1> QED BY <1>1, <1>2, EmptyIndex, AuditCalls

(* A place is scanned, with or without its secrets in the answer. *)
LEMMA ScanEffect ==
    ASSUME ToolsInv, NEW pl \in Places, NEW listed \in BOOLEAN
    PROVE  /\ Scan(pl, listed) \in AuditStates
           /\ audit.at = "scan" /\ audit' = Scan(pl, listed) /\ UNCHANGED store => AuditInv'
<1>1. store \in [Places -> [Names -> Values \cup {NoValue}]] /\ audit \in AuditStates
  BY DEF ToolsInv, ToolsTypeOK, Stores
<1>2. /\ audit.next \in Nat \ {0} /\ audit.scanned \in SUBSET Places
      /\ audit.misled \in BOOLEAN /\ audit.dirty \in BOOLEAN
      /\ audit.index \in [Names -> [ProjectIds -> Values \cup {NoValue, Empty}]]
  BY <1>1 DEF AuditStates
<1>3. pl[1] \in ProjectIds
  BY DEF Places
<1> DEFINE index == [n \in Names |-> IF listed /\ store[pl][n] # NoValue
                                    THEN [audit.index[n] EXCEPT ![pl[1]] = RawOrEmpty(pl, n)]
                                    ELSE audit.index[n]]
           a == [audit EXCEPT !.next = audit.next + 1, !.scanned = audit.scanned \cup {pl},
                              !.misled = audit.misled \/ ~listed, !.index = index]
<1>4. Scan(pl, listed) = a
  BY <1>1 DEF Scan, AuditStates
<1>5. index \in [Names -> [ProjectIds -> Values \cup {NoValue, Empty}]]
  <2>1. ASSUME NEW n \in Names
        PROVE  /\ audit.index[n] \in [ProjectIds -> Values \cup {NoValue, Empty}]
               /\ [audit.index[n] EXCEPT ![pl[1]] = RawOrEmpty(pl, n)]
                     \in [ProjectIds -> Values \cup {NoValue, Empty}]
    <3>1. audit.index[n] \in [ProjectIds -> Values \cup {NoValue, Empty}]
      BY <1>2
    <3>2. RawOrEmpty(pl, n) \in Values \cup {NoValue, Empty}
      BY <1>1 DEF RawOrEmpty
    <3> QED BY <3>1, <3>2
  <2> QED BY <2>1
<1>6. \A n \in Names, p \in ProjectIds :
         index[n][p] = IF listed /\ store[pl][n] # NoValue /\ p = pl[1]
                       THEN RawOrEmpty(pl, n) ELSE audit.index[n][p]
  BY <1>2
<1> HIDE DEF index
<1>7. /\ a \in AuditStates /\ a.at = audit.at /\ a.dirty = audit.dirty
      /\ a.misled = (audit.misled \/ ~listed) /\ a.index = index
      /\ a.scanned = audit.scanned \cup {pl}
  <2>1. /\ audit.next + 1 \in Nat \ {0} /\ audit.scanned \cup {pl} \in SUBSET Places
        /\ (audit.misled \/ ~listed) \in BOOLEAN
    BY <1>2
  <2>2. /\ a.at = audit.at /\ a.dirty = audit.dirty /\ a.index = index
        /\ a.misled = (audit.misled \/ ~listed) /\ a.scanned = audit.scanned \cup {pl}
    BY <1>1 DEF AuditStates
  <2>3. a \in AuditStates
    BY <1>1, <1>5, <2>1 DEF AuditStates
  <2> QED BY <2>2, <2>3
<1> HIDE DEF a
<1>8. ASSUME audit.at = "scan", audit' = a, UNCHANGED store, ~a.dirty, ~a.misled
      PROVE  IndexTrue'
  <2>1. listed /\ IndexTrue
    BY <1>2, <1>7, <1>8 DEF ToolsInv, AuditInv
  <2>0. \A q, n : store'[q][n] = store[q][n] /\ RawOrEmpty(q, n)' = RawOrEmpty(q, n)
    BY <1>8 DEF RawOrEmpty
  <2> SUFFICES ASSUME NEW n \in Names, NEW p \in ProjectIds
      PROVE /\ index[n][p] # NoValue =>
                  \E q \in a.scanned : /\ q[1] = p /\ RawOrEmpty(q, n) = index[n][p]
                                       /\ store[q][n] # NoValue
            /\ \A q \in a.scanned : q[1] = p /\ store[q][n] # NoValue => index[n][p] # NoValue
    BY <1>7, <1>8, <2>0 DEF IndexTrue
  <2>2. /\ audit.index[n][p] # NoValue =>
              \E q \in audit.scanned : /\ q[1] = p /\ RawOrEmpty(q, n) = audit.index[n][p]
                                       /\ store[q][n] # NoValue
        /\ \A q \in audit.scanned :
              q[1] = p /\ store[q][n] # NoValue => audit.index[n][p] # NoValue
    BY <2>1 DEF IndexTrue
  <2>3. index[n][p] = IF store[pl][n] # NoValue /\ p = pl[1]
                      THEN RawOrEmpty(pl, n) ELSE audit.index[n][p]
    BY <1>6, <2>1
  <2>4. store[pl][n] # NoValue => RawOrEmpty(pl, n) # NoValue
    BY RemoteToolsAssumption DEF RawOrEmpty
  <2> QED BY <1>7, <2>2, <2>3, <2>4
<1> QED BY <1>4, <1>7, <1>8 DEF AuditInv

LEMMA ListSecretsStep == ASSUME ToolsInv, ListSecrets PROVE ToolsInv'
<1>1. audit \in AuditStates /\ audit.next \in 1..Len(AuditOrder) /\ audit.at = "scan"
  <2>1. audit \in AuditStates
    BY DEF ToolsInv, ToolsTypeOK
  <2>2. Len(AuditOrder) \in Nat
    BY OrderType, LenProperties
  <2> QED BY <2>1, <2>2 DEF ListSecrets, AuditStates
<1> DEFINE pl == AuditOrder[audit.next]
<1>2. pl \in Places
  BY <1>1, OrderType
<1>3. UNCHANGED store
  BY DEF ListSecrets, AuditTo
<1>4. \/ AuditTo(Skip)
      \/ AuditTo([audit EXCEPT !.at = "raised"])
      \/ \E listed \in BOOLEAN : AuditTo(Scan(pl, listed))
  BY DEF ListSecrets
<1>5. CASE AuditTo(Skip)
  <2>1. /\ Skip \in AuditStates /\ Skip.at = audit.at /\ Skip.dirty = audit.dirty
        /\ Skip.misled = audit.misled /\ Skip.index = audit.index /\ Skip.scanned = audit.scanned
    BY <1>1 DEF Skip, AuditStates
  <2>2. audit' = Skip
    BY <1>5 DEF AuditTo
  <2>3. AuditInv'
    BY <1>3, <2>1, <2>2, SameRows DEF ToolsInv, AuditInv, IndexTrue
  <2> QED BY <1>5, <2>1, <2>3, AuditCalls
<1>6. CASE AuditTo([audit EXCEPT !.at = "raised"])
  <2>1. [audit EXCEPT !.at = "raised"] \in AuditStates
    BY <1>1 DEF AuditStates
  <2>2. AuditInv'
    <3>1. audit'.at = "raised"
      BY <1>1, <1>6 DEF AuditTo, AuditStates
    <3> QED BY <3>1 DEF AuditInv
  <2> QED BY <1>6, <2>1, <2>2, AuditCalls
<1>7. ASSUME NEW listed \in BOOLEAN, AuditTo(Scan(pl, listed)) PROVE ToolsInv'
  <2>1. audit' = Scan(pl, listed)
    BY <1>7 DEF AuditTo
  <2>2. Scan(pl, listed) \in AuditStates /\ AuditInv'
    <3> HIDE DEF pl
    <3> QED BY <1>1, <1>2, <1>3, <2>1, ScanEffect
  <2> QED BY <1>7, <2>2, AuditCalls
<1> QED BY <1>4, <1>5, <1>6, <1>7

LEMMA ReportStep == ASSUME ToolsInv, Report PROVE ToolsInv'
<1> DEFINE a == [audit EXCEPT !.at = "report"]
<1>1. audit \in AuditStates
  BY DEF ToolsInv, ToolsTypeOK
<1>2. /\ a \in AuditStates /\ a.dirty = audit.dirty /\ a.misled = audit.misled
      /\ a.index = audit.index /\ a.scanned = audit.scanned
  BY <1>1 DEF AuditStates
<1>3. AuditTo(a) /\ audit.at = "scan"
  BY DEF Report
<1> HIDE DEF a
<1>4. AuditInv'
  BY <1>2, <1>3, SameRows DEF AuditTo, ToolsInv, AuditInv, IndexTrue
<1> QED BY <1>2, <1>3, <1>4, AuditCalls
----------------------------------------------------------------------------
LEMMA ToolsInitial == ToolsInit => ToolsInv
<1> SUFFICES ASSUME ToolsInit PROVE ToolsInv
  OBVIOUS
<1>1. NotCalled \in CallStates /\ NotCalled.at = "start" /\ NotCalled.tool = "none"
  BY DEF NotCalled, CallStates
<1>2. \A c \in Calls : /\ call[c] = NotCalled /\ answered[c] = "nothing"
                       /\ applied[c] = {} /\ c \notin misled
  BY DEF ToolsInit
<1>4. audit \in AuditStates /\ AuditInv
  BY NoAuditType DEF ToolsInit, AuditInv
<1>5. ToolsTypeOK
  BY <1>1, <1>4, RemoteToolsAssumption DEF ToolsInit, ToolsTypeOK
<1>6. CallInv
  BY <1>1, <1>2 DEF CallInv, AtRequest, DoneSoFar, Truthful
<1>7. RenameInv
  BY <1>1, <1>2 DEF RenameInv, RenameSound
<1> QED BY <1>4, <1>5, <1>6, <1>7 DEF ToolsInv

(* A tool's first state is one of a call that may begin. *)
LEMMA BeginTools ==
    ASSUME ToolsInv, NEW c \in Calls,
           \/ \E pl \in WritePlaces, n \in Names :
                 \/ \E v \in Values : SecretSet(c, pl, n, v)
                 \/ SecretDelete(c, pl, n)
                 \/ \E new \in Names, keep \in BOOLEAN : SecretRename(c, pl, n, new, keep)
           \/ \E t \in GatedTools : Gated(c, t)
    PROVE  ToolsInv' /\ UNCHANGED <<store, applied>>
<1>0. WritePlaces \subseteq Places /\ GatedTools \subseteq CloudflareTools \cup NorthflankTools
  BY RemoteToolsAssumption
<1>1. ASSUME NEW pl \in WritePlaces, NEW n \in Names, NEW v \in Values, SecretSet(c, pl, n, v)
      PROVE  ToolsInv' /\ UNCHANGED <<store, applied>>
  <2> DEFINE q == [NotCalled EXCEPT !.tool = "set", !.at = "set", !.place = pl,
                                    !.to = n, !.raw = v]
  <2>1. /\ q \in CallStates /\ q.tool = "set" /\ q.at = "set" /\ q.place \in Places
        /\ q.to \in Names
    BY <1>0 DEF NotCalled, CallStates
  <2>2. Begin(c, q)
    BY <1>1 DEF SecretSet
  <2> HIDE DEF q
  <2> QED BY <2>1, <2>2, BeginStep DEF Begin
<1>2. ASSUME NEW pl \in WritePlaces, NEW n \in Names, SecretDelete(c, pl, n)
      PROVE  ToolsInv' /\ UNCHANGED <<store, applied>>
  <2> DEFINE q == [NotCalled EXCEPT !.tool = "delete", !.at = "delete", !.place = pl,
                                    !.from = n]
  <2>1. /\ q \in CallStates /\ q.tool = "delete" /\ q.at = "delete" /\ q.place \in Places
        /\ q.from \in Names
    BY <1>0 DEF NotCalled, CallStates
  <2>2. Begin(c, q)
    BY <1>2 DEF SecretDelete
  <2> HIDE DEF q
  <2> QED BY <2>1, <2>2, BeginStep DEF Begin
<1>3. ASSUME NEW pl \in WritePlaces, NEW n \in Names, NEW new \in Names, NEW keep \in BOOLEAN,
             SecretRename(c, pl, n, new, keep)
      PROVE  ToolsInv' /\ UNCHANGED <<store, applied>>
  <2> DEFINE q == [NotCalled EXCEPT !.tool = "rename", !.at = "get", !.place = pl,
                                    !.from = n, !.to = new, !.keep = keep]
  <2>1. /\ q \in CallStates /\ q.tool = "rename" /\ q.at = "get" /\ q.place \in Places
        /\ q.from \in Names /\ q.to \in Names
    BY <1>0 DEF NotCalled, CallStates
  <2>2. Begin(c, q)
    BY <1>3 DEF SecretRename
  <2> HIDE DEF q
  <2> QED BY <2>1, <2>2, BeginStep DEF Begin
<1>4. ASSUME NEW t \in GatedTools, Gated(c, t) PROVE ToolsInv' /\ UNCHANGED <<store, applied>>
  <2> DEFINE q == [NotCalled EXCEPT !.tool = t, !.at = "act"]
  <2>1. /\ q \in CallStates /\ q.tool \in CloudflareTools \cup NorthflankTools /\ q.at = "act"
    BY <1>0 DEF NotCalled, CallStates
  <2>2. q.tool \notin {"set", "delete", "rename"}
    BY <2>1 DEF CloudflareTools, NorthflankTools
  <2>3. Begin(c, q)
    BY <1>4 DEF Gated
  <2> HIDE DEF q
  <2> QED BY <2>1, <2>2, <2>3, BeginStep DEF Begin
<1> QED BY <1>1, <1>2, <1>3, <1>4

LEMMA ToolsStutter == ASSUME ToolsInv, UNCHANGED toolsVars PROVE ToolsInv'
<1>1. UNCHANGED <<store, call, answered, applied, misled, overlapped, audit>>
  BY DEF toolsVars
<1>2. ToolsTypeOK'
  BY <1>1 DEF ToolsInv, ToolsTypeOK
<1>4. AuditInv'
  BY <1>1, AuditKept DEF ToolsInv
<1>3. CallInv' /\ RenameInv'
  BY <1>1 DEF ToolsInv, CallInv, AtRequest, DoneSoFar, Truthful, Needed, RenameInv, RenameSound
<1> QED BY <1>2, <1>3, <1>4 DEF ToolsInv

LEMMA ToolsStep == ToolsInv /\ [ToolsNext]_toolsVars => ToolsInv'
<1> SUFFICES ASSUME ToolsInv, [ToolsNext]_toolsVars PROVE ToolsInv'
  OBVIOUS
<1>1. CASE UNCHANGED toolsVars
  BY <1>1, ToolsStutter
<1>2. CASE Audit
  BY <1>2, ListProjectsStep, ListSecretsStep, ReportStep DEF Audit
<1>3. ASSUME NEW c \in Calls, Tool(c) PROVE ToolsInv'
  <2>1. CASE Refuse(c)
    BY <2>1, RefuseStep
  <2>2. CASE \/ \E pl \in WritePlaces, n \in Names :
                   \/ \E v \in Values : SecretSet(c, pl, n, v)
                   \/ SecretDelete(c, pl, n)
                   \/ \E new \in Names, keep \in BOOLEAN : SecretRename(c, pl, n, new, keep)
             \/ \E t \in GatedTools : Gated(c, t)
    BY <2>2, BeginTools
  <2>3. CASE GetSecret(c)
    BY <2>3, GetStep
  <2>4. CASE SetSecret(c)
    BY <2>4, SetStep
  <2>5. CASE DeleteSecret(c)
    BY <2>5, DeleteStep
  <2>6. CASE Act(c)
    BY <2>6, ActStep
  <2> QED BY <1>3, <2>1, <2>2, <2>3, <2>4, <2>5, <2>6 DEF Tool
<1> QED BY <1>1, <1>2, <1>3 DEF ToolsNext

(* The inductive invariant of the tools holds in every state. *)
THEOREM ToolsInvariant == ToolsSpec => []ToolsInv
BY ToolsInitial, ToolsStep, PTL DEF ToolsSpec

(* The type invariant of the tools. *)
THEOREM ToolsTypeCorrect == ToolsSpec => []ToolsTypeOK
<1>1. ToolsInv => ToolsTypeOK
  BY DEF ToolsInv
<1> QED BY <1>1, ToolsInvariant, PTL

(* A tool answers ok only when the provider did all its requests, or it is *)
(* Doppler's client that was misled, and without confirm nothing was done. *)
THEOREM AnswersAreTrue == ToolsSpec => []ToldTruth
<1>1. ToolsInv => ToldTruth
  BY DEF ToolsInv, CallInv, Truthful, ToldTruth
<1> QED BY <1>1, ToolsInvariant, PTL

(* Only the last request of a delete or a rename deletes.                  *)
LEMMA WhoDeletes ==
    ASSUME ToolsInv, [ToolsNext]_toolsVars, NEW c \in Calls, "delete" \in applied'[c] \ applied[c]
    PROVE  DeleteSecret(c)
<1>1. applied' # applied
  OBVIOUS
<1>2. PICK d \in Calls : Tool(d)
  <2>1. ~UNCHANGED toolsVars
    BY <1>1 DEF toolsVars
  <2>2. ~Audit
    BY <1>1 DEF Audit, ListProjects, ListSecrets, Report, AuditTo
  <2> QED BY <2>1, <2>2 DEF ToolsNext
<1>3. GetSecret(d) \/ SetSecret(d) \/ DeleteSecret(d) \/ Act(d)
  <2>1. ~Refuse(d)
    BY <1>1 DEF Refuse
  <2> QED BY <1>1, <1>2, <2>1, BeginTools DEF Tool
<1>4. ~GetSecret(d)
  BY <1>1 DEF GetSecret
<1>5. applied \in [Calls -> SUBSET {"set", "delete", "act"}]
  BY DEF ToolsInv, ToolsTypeOK
<1>6. ASSUME NEW x, Note(d, x), call[d].at # "delete" PROVE FALSE
  <2>1. applied' = [applied EXCEPT ![d] = applied[d] \cup {call[d].at}] \/ applied' = applied
    BY <1>6 DEF Note
  <2> QED BY <1>1, <1>5, <1>6, <2>1
<1>7. ~SetSecret(d) /\ ~Act(d)
  <2>1. ASSUME SetSecret(d) PROVE FALSE
    <3>1. call[d].at = "set" /\ \E x : Note(d, x)
      BY <2>1 DEF SetSecret, WriteSecret
    <3> QED BY <1>6, <3>1
  <2>2. ASSUME Act(d) PROVE FALSE
    <3>1. call[d].at = "act" /\ \E x : Note(d, x)
      BY <2>2 DEF Act
    <3> QED BY <1>6, <3>1
  <2> QED BY <2>1, <2>2
<1>8. DeleteSecret(d)
  BY <1>3, <1>4, <1>7
<1>9. d = c
  BY <1>8, DeleteStep
<1> QED BY <1>8, <1>9

(* A rename deletes the old name only when the new one has its value, but  *)
(* for a concurrent write, a misled client, or two equal names.            *)
THEOREM RenamesKeepValues == ToolsSpec => RenameKeepsValue
<1> DEFINE Kept(c) ==
      LET r == call[c]
      IN  r.tool = "rename" /\ "delete" \in applied'[c] \ applied[c] =>
             /\ ~r.keep
             /\ \/ store'[r.place][r.to] = store[r.place][r.from]
                \/ c \in overlapped \cup misled
                \/ r.from = r.to
<1>1. ASSUME ToolsInv, [ToolsNext]_toolsVars, NEW c \in Calls PROVE Kept(c)
  <2> SUFFICES ASSUME call[c].tool = "rename", "delete" \in applied'[c] \ applied[c],
                      call[c].from # call[c].to, c \notin overlapped \cup misled
      PROVE  store'[call[c].place][call[c].to] = store[call[c].place][call[c].from]
    <3>1. ASSUME call[c].tool = "rename", "delete" \in applied'[c] \ applied[c]
          PROVE  ~call[c].keep
      <4>1. call[c].at = "delete"
        BY <1>1, <3>1, WhoDeletes DEF DeleteSecret
      <4> QED BY <1>1, <3>1, <4>1 DEF ToolsInv, CallInv, DoneSoFar
    <3> QED BY <3>1
  <2>1. DeleteSecret(c) /\ call[c].at = "delete"
    BY <1>1, WhoDeletes DEF DeleteSecret
  <2>2. store' = Written(store, call[c].place, call[c].from, NoValue)
    BY <1>1, <2>1, DeleteStep
  <2>3. call[c].place \in Places /\ call[c].from \in Names /\ call[c].to \in Names
    BY <1>1, <2>1 DEF ToolsInv, CallInv, AtRequest
  <2>4. store \in Stores
    BY <1>1 DEF ToolsInv, ToolsTypeOK
  <2>5. store'[call[c].place][call[c].to] = store[call[c].place][call[c].to]
    <3>1. NoValue \in Values \cup {NoValue}
      OBVIOUS
    <3> QED BY <2>2, <2>3, <2>4, <3>1, StoreWrite
  <2>6. store[call[c].place][call[c].to] = store[call[c].place][call[c].from]
    BY <1>1, <2>1 DEF ToolsInv, RenameInv, RenameSound
  <2> QED BY <2>5, <2>6
<1>2. ToolsInv /\ [ToolsNext]_toolsVars => [\A c \in Calls : Kept(c)]_toolsVars
  BY <1>1
<1> QED BY <1>2, ToolsInvariant, PTL DEF RenameKeepsValue, ToolsSpec
----------------------------------------------------------------------------
(* What a report says, and what is true of the places it has scanned.      *)

LEMMA PlacesFinite == IsFiniteSet(ProjectIds) /\ IsFiniteSet(Places)
<1>1. ASSUME NEW S, NEW s \in Seq(S), S = {s[i] : i \in DOMAIN s} PROVE IsFiniteSet(S)
  <2>1. Len(s) \in Nat /\ s \in [1..Len(s) -> S] /\ DOMAIN s = 1..Len(s)
    BY <1>1, LenProperties
  <2>2. s \in Surjection(1..Len(s), S)
    BY <1>1, <2>1 DEF Surjection
  <2>3. IsFiniteSet(1..Len(s))
    BY <2>1, FS_Interval
  <2> QED BY <2>2, <2>3, FS_Surjection
<1>2. IsFiniteSet(ProjectIds)
  BY <1>1, RemoteToolsAssumption DEF ProjectIds
<1>3. IsFiniteSet(ConfigIds)
  BY <1>1, RemoteToolsAssumption DEF ConfigIds
<1> QED BY <1>2, <1>3, FS_Product DEF Places

LEMMA HoldersTrue ==
    ASSUME ToolsTypeOK, IndexTrue, NEW n \in Names
    PROVE  /\ Holders(n) = HoldersOf(n)
           /\ \A p \in Holders(n) : \E q \in CopiesOf(n) :
                 q[1] = p /\ RawOrEmpty(q, n) = audit.index[n][p]
<1>1. audit.scanned \in SUBSET Places
  BY DEF ToolsTypeOK, AuditStates
<1>2. \A q \in Places : q[1] \in ProjectIds
  BY DEF Places
<1>3. ASSUME NEW p \in Holders(n)
      PROVE  \E q \in CopiesOf(n) : q[1] = p /\ RawOrEmpty(q, n) = audit.index[n][p]
  BY DEF Holders, IndexTrue, CopiesOf
<1>4. ASSUME NEW q \in CopiesOf(n) PROVE q[1] \in Holders(n)
  BY <1>1, <1>2 DEF Holders, IndexTrue, CopiesOf
<1>5. Holders(n) = HoldersOf(n)
  BY <1>3, <1>4 DEF HoldersOf
<1> QED BY <1>3, <1>5

(* When each holder has one copy, the values of the index are the values   *)
(* of the copies.                                                          *)
LEMMA ValuesTrue ==
    ASSUME ToolsTypeOK, IndexTrue, NEW n \in Duplicates,
           OneEach(n), \A pl \in CopiesOf(n) : <<pl, n>> \notin Restricted
    PROVE  ValuesMatch(n) = Equal(n)
<1> DEFINE V == {audit.index[n][p] : p \in Holders(n)}
           f == [q \in CopiesOf(n) |-> q[1]]
           g == [q \in CopiesOf(n) |-> store[q][n]]
<1>0. n \in Names /\ Cardinality(Holders(n)) > 1
  BY DEF Duplicates
<1>r. \A q \in CopiesOf(n) : RawOrEmpty(q, n) = store[q][n]
  BY DEF RawOrEmpty
<1>1. /\ Holders(n) = HoldersOf(n)
      /\ \A p \in Holders(n) : \E q \in CopiesOf(n) :
            q[1] = p /\ store[q][n] = audit.index[n][p]
  BY <1>0, <1>r, HoldersTrue
<1>2. IsFiniteSet(CopiesOf(n))
  <2>1. CopiesOf(n) \in SUBSET Places
    BY DEF ToolsTypeOK, AuditStates, CopiesOf
  <2> QED BY <2>1, PlacesFinite, FS_Subset
<1>3. f \in Injection(CopiesOf(n), HoldersOf(n))
  <2>1. f \in Surjection(CopiesOf(n), HoldersOf(n))
    BY DEF Surjection, HoldersOf
  <2> HIDE DEF f
  <2> QED BY <1>2, <2>1, FS_Surjection DEF OneEach
<1>4. \A p, q \in CopiesOf(n) : p[1] = q[1] => p = q
  BY <1>3 DEF Injection, IsInjective
<1>5. \A q \in CopiesOf(n) : q[1] \in Holders(n) /\ audit.index[n][q[1]] = store[q][n]
  <2> SUFFICES ASSUME NEW q \in CopiesOf(n)
      PROVE  q[1] \in Holders(n) /\ audit.index[n][q[1]] = store[q][n]
    OBVIOUS
  <2>1. q[1] \in Holders(n)
    BY <1>1 DEF HoldersOf
  <2>2. PICK r \in CopiesOf(n) : r[1] = q[1] /\ store[r][n] = audit.index[n][q[1]]
    BY <1>1, <2>1
  <2>3. r = q
    BY <1>4, <2>2
  <2> QED BY <2>1, <2>2, <2>3
<1>6. V = {store[q][n] : q \in CopiesOf(n)}
  <2>1. ASSUME NEW v \in V PROVE v \in {store[q][n] : q \in CopiesOf(n)}
    BY <1>1
  <2>2. ASSUME NEW q \in CopiesOf(n) PROVE store[q][n] \in V
    BY <1>5
  <2> QED BY <2>1, <2>2
<1> HIDE DEF V
<1>7. IsFiniteSet(V)
  <2>1. g \in Surjection(CopiesOf(n), V)
    BY <1>6 DEF Surjection
  <2> HIDE DEF g
  <2> QED BY <1>2, <2>1, FS_Surjection
<1>8. Holders(n) # {}
  BY <1>0, FS_EmptySet
<1>9. CopiesOf(n) # {}
  BY <1>1, <1>8
<1>10. ASSUME Cardinality(V) = 1 PROVE \A p, q \in CopiesOf(n) : store[p][n] = store[q][n]
  <2>1. PICK v : V = {v}
    BY <1>7, <1>10, FS_Singleton
  <2> QED BY <1>6, <2>1
<1>11. ASSUME \A p, q \in CopiesOf(n) : store[p][n] = store[q][n] PROVE Cardinality(V) = 1
  <2>1. PICK p \in CopiesOf(n) : TRUE
    BY <1>9
  <2>2. V = {store[p][n]}
    BY <1>6, <1>11, <2>1
  <2> QED BY <2>2, FS_Singleton
<1>12. ValuesMatch(n) <=> Cardinality(V) = 1
  BY DEF ValuesMatch, V
<1> QED BY <1>10, <1>11, <1>12 DEF ValuesMatch, Equal

LEMMA ReportTrue == ASSUME ToolsInv PROVE AuditTrue
<1> SUFFICES ASSUME audit.at = "report", ~audit.dirty, ~audit.misled
    PROVE /\ Duplicates = {n \in Names : Cardinality(HoldersOf(n)) > 1}
          /\ CanonicalOnly = {n \in Names : HoldersOf(n) = {Canonical}}
          /\ \A n \in NonCanonicalOnly : Canonical \notin HoldersOf(n)
          /\ \A n \in Duplicates :
                OneEach(n) /\ (\A pl \in CopiesOf(n) : <<pl, n>> \notin Restricted) =>
                   ValuesMatch(n) = Equal(n)
  BY DEF AuditTrue, Undisturbed
<1>1. ToolsTypeOK /\ IndexTrue
  BY DEF ToolsInv, AuditInv
<1>2. \A n \in Names : Holders(n) = HoldersOf(n)
  BY <1>1, HoldersTrue
<1>3. Duplicates = {n \in Names : Cardinality(HoldersOf(n)) > 1}
  BY <1>2 DEF Duplicates
<1>4. CanonicalOnly = {n \in Names : HoldersOf(n) = {Canonical}}
  BY <1>2 DEF CanonicalOnly
<1>5. ASSUME NEW n \in NonCanonicalOnly, Canonical \in HoldersOf(n) PROVE FALSE
  <2>1. /\ n \in Names /\ Canonical \in Holders(n)
        /\ ~(Cardinality(Holders(n)) > 1) /\ Holders(n) # {Canonical}
    BY <1>2, <1>5 DEF NonCanonicalOnly, Duplicates, CanonicalOnly
  <2>2. IsFiniteSet(Holders(n)) /\ Cardinality(Holders(n)) \in Nat
    <3>1. Holders(n) \in SUBSET ProjectIds
      BY DEF Holders
    <3> QED BY <3>1, PlacesFinite, FS_Subset, FS_CardinalityType
  <2>3. Cardinality(Holders(n)) = 1
    <3>1. Cardinality(Holders(n)) # 0
      BY <2>1, <2>2, FS_EmptySet
    <3> QED BY <2>1, <2>2, <3>1
  <2>4. PICK p : Holders(n) = {p}
    BY <2>2, <2>3, FS_Singleton
  <2> QED BY <2>1, <2>4
<1> QED BY <1>1, <1>3, <1>4, <1>5, ValuesTrue

(* The audit of stores that nobody wrote meanwhile reports what they hold; *)
(* of the values, where Doppler shows them.                                *)
THEOREM AuditsAreTrue == ToolsSpec => []AuditTrue
<1>1. ToolsInv => AuditTrue
  BY ReportTrue
<1> QED BY <1>1, ToolsInvariant, PTL

(***************************************************************************)
(* Grabber.                                                                *)
(***************************************************************************)
LEMMA CountsAreNaturals ==
    \A s : IsFiniteSet(JobsIn(s)) /\ Cardinality(JobsIn(s)) \in Nat
<1> SUFFICES ASSUME NEW s PROVE IsFiniteSet(JobsIn(s)) /\ Cardinality(JobsIn(s)) \in Nat
  OBVIOUS
<1>1. JobsIn(s) \in SUBSET Jobs /\ IsFiniteSet(Jobs)
  BY GrabberAssumption DEF JobsIn
<1> QED BY <1>1, FS_Subset, FS_CardinalityType

LEMMA TypeInit == Init => TypeOK
<1> SUFFICES ASSUME Init PROVE TypeOK
  OBVIOUS
<1>1. published \in BOOLEAN
  BY Zenon DEF Init
<1>2. told \in [Handlers -> [tool : {"none", "enqueue", "cancel"},
                             job : Jobs \cup {NoJob}, ok : BOOLEAN]]
  BY DEF Init, Nothing
<1>3. health \in [Handlers -> [queued : Nat, running : Nat]]
  BY DEF Init, NoCounts
<1>4. /\ status \in [Jobs -> Statuses] /\ edits \in 0..MaxEdits
      /\ service \in [Handlers -> Services \cup {NoService}]
      /\ playbook \in [Services -> PlaybookStatuses \cup {"absent"}]
      /\ at \in [Handlers -> {"idle", "open", "ready", "insert", "count", "reply"}]
  BY GrabberAssumption DEF Init, Statuses
<1>5. steady \in [Handlers -> SUBSET Jobs]
  BY DEF Init
<1>6. started \in SUBSET Jobs /\ stale \in SUBSET Handlers /\ racers \in SUBSET Handlers
      /\ lostPools \in Nat
  BY DEF Init
<1> QED BY <1>1, <1>2, <1>3, <1>4, <1>5, <1>6 DEF TypeOK

(* What an answer leaves well-typed. *)
LEMMA AnswerType ==
    ASSUME TypeOK, NEW h \in Handlers, Answer(h, Nothing) \/
              (\E t \in {"enqueue", "cancel"}, j \in Jobs \cup {NoJob}, ok \in BOOLEAN :
                  Answer(h, [tool |-> t, job |-> j, ok |-> ok]))
    PROVE  /\ at' \in [Handlers -> {"idle", "open", "ready", "insert", "count", "reply"}]
           /\ service' \in [Handlers -> Services \cup {NoService}]
           /\ health' \in [Handlers -> [queued : Nat, running : Nat]]
           /\ told' \in [Handlers -> [tool : {"none", "enqueue", "cancel"},
                                      job : Jobs \cup {NoJob}, ok : BOOLEAN]]
           /\ stale' \in SUBSET Handlers
           /\ steady' \in [Handlers -> SUBSET Jobs]
<1>1. PICK a \in [tool : {"none", "enqueue", "cancel"}, job : Jobs \cup {NoJob}, ok : BOOLEAN] :
          Answer(h, a)
  BY DEF Nothing
<1>2. health' = [health EXCEPT ![h] = NoCounts] /\ NoCounts \in [queued : Nat, running : Nat]
  BY <1>1 DEF Answer, NoCounts
<1> QED BY <1>1, <1>2 DEF Answer, TypeOK

LEMMA TypeStep == TypeOK /\ [Next]_vars => TypeOK'
<1> SUFFICES ASSUME TypeOK, [Next]_vars PROVE TypeOK'
  OBVIOUS
<1> USE DEF jobVars, poolVars, handlerVars
<1>1. ASSUME NEW h \in Handlers, FindPool(h) PROVE TypeOK'
  BY <1>1 DEF FindPool, TypeOK
<1>2. ASSUME NEW h \in Handlers, OpenPool(h) PROVE TypeOK'
  <2>1. published' \in BOOLEAN
    BY <1>2, Zenon DEF OpenPool
  <2> QED BY <1>2, <2>1 DEF OpenPool, TypeOK
<1>3. ASSUME NEW h \in Handlers, Raise(h) PROVE TypeOK'
  BY <1>3, AnswerType DEF Raise, TypeOK
<1>4. ASSUME NEW h \in Handlers, NEW s \in Services, ReadPlaybook(h, s) PROVE TypeOK'
  <2>1. CASE Enqueueable(s)
    BY <1>4, <2>1 DEF ReadPlaybook, TypeOK
  <2>2. CASE ~Enqueueable(s)
    BY <1>4, <2>2, AnswerType DEF ReadPlaybook, TypeOK
  <2> QED BY <2>1, <2>2
<1>5. ASSUME NEW h \in Handlers, NEW j \in Jobs, NEW heard \in BOOLEAN, InsertJob(h, j, heard)
      PROVE  TypeOK'
  <2>1. Answer(h, Nothing) \/ Answer(h, [tool |-> "enqueue", job |-> j, ok |-> TRUE])
    BY <1>5 DEF InsertJob
  <2>2. status' \in [Jobs -> Statuses]
    BY <1>5 DEF InsertJob, TypeOK, Statuses
  <2> QED BY <1>5, <2>1, <2>2, AnswerType DEF InsertJob, TypeOK
<1>6. ASSUME NEW h \in Handlers, NEW j \in Known, NEW heard \in BOOLEAN,
             CancelRotation(h, j, heard)
      PROVE  TypeOK'
  <2> DEFINE hit == j \in Jobs /\ Cancellable(j)
  <2>1. j \in Jobs \cup {NoJob} /\ hit \in BOOLEAN
    BY Zenon DEF Known
  <2>2. Answer(h, Nothing) \/ Answer(h, [tool |-> "cancel", job |-> j, ok |-> hit])
    BY <1>6, Zenon DEF CancelRotation
  <2>3. status' \in [Jobs -> Statuses]
    BY <1>6 DEF CancelRotation, TypeOK, Statuses
  <2>4. \/ Answer(h, Nothing)
        \/ \E t \in {"enqueue", "cancel"}, i \in Jobs \cup {NoJob}, ok \in BOOLEAN :
              Answer(h, [tool |-> t, job |-> i, ok |-> ok])
    BY <2>1, <2>2, Zenon
  <2> QED BY <1>6, <2>3, <2>4, AnswerType DEF CancelRotation, TypeOK
<1>7. ASSUME NEW h \in Handlers, Count(h) PROVE TypeOK'
  <2>1. steady' \in [Handlers -> SUBSET Jobs]
    BY <1>7 DEF Count, TypeOK, Active, JobsIn
  <2>2. health' \in [Handlers -> [queued : Nat, running : Nat]]
    <3>1. PICK n \in Nat : \/ health' = [health EXCEPT ![h].queued = n]
                           \/ health' = [health EXCEPT ![h].running = n]
      BY <1>7, CountsAreNaturals DEF Count
    <3>2. health[h] \in [queued : Nat, running : Nat]
      BY DEF TypeOK
    <3>3. /\ [health[h] EXCEPT !.queued = n] \in [queued : Nat, running : Nat]
          /\ [health[h] EXCEPT !.running = n] \in [queued : Nat, running : Nat]
      BY <3>2
    <3> QED BY <3>1, <3>3 DEF TypeOK
  <2> QED BY <1>7, <2>1, <2>2 DEF Count, TypeOK
<1>8. ASSUME NEW h \in Handlers, ReplyHealth(h) PROVE TypeOK'
  BY <1>8, AnswerType DEF ReplyHealth, TypeOK
<1>9. ASSUME NEW j \in Jobs, WorkerStarts(j) PROVE TypeOK'
  BY <1>9 DEF WorkerStarts, TypeOK, Statuses
<1>10. ASSUME NEW j \in Jobs, NEW s \in Ended, WorkerEnds(j, s) PROVE TypeOK'
  <2>1. steady' \in [Handlers -> SUBSET Jobs]
    BY <1>10 DEF WorkerEnds, Quit, TypeOK
  <2> QED BY <1>10, <2>1 DEF WorkerEnds, TypeOK, Statuses
<1>11. ASSUME NEW s \in Services, NEW p \in PlaybookStatuses, EditPlaybook(s, p) PROVE TypeOK'
  BY <1>11, GrabberAssumption DEF EditPlaybook, TypeOK
<1>12. CASE UNCHANGED vars
  BY <1>12 DEF vars, TypeOK
<1> QED BY <1>1, <1>2, <1>3, <1>4, <1>5, <1>6, <1>7, <1>8, <1>9, <1>10, <1>11, <1>12
        DEF Next, Enqueue

(* The tables, the calls in flight and the history keep their types. *)
THEOREM TypeCorrect == Spec => []TypeOK
BY TypeInit, TypeStep, PTL DEF Spec

----------------------------------------------------------------------------
(* Cancelling.  A job has been started exactly when it is running or has   *)
(* ended, and a status other than pending is left by the worker only.      *)
StartedOnce ==
    \A j \in Jobs : j \in started <=> status[j] \in {"running"} \cup Ended

JobInv == TypeOK /\ StartedOnce /\ CancelAnswerTrue

(* A step that tells nothing new keeps the answers true, if it takes no    *)
(* job out of status cancelled or out of the started ones.                 *)
LEMMA ToldStep ==
    ASSUME TypeOK, CancelAnswerTrue, TypeOK',
           \A h \in Handlers : told'[h] = told[h] \/ told'[h].tool # "cancel",
           \A j \in Jobs : /\ status[j] = "cancelled" => status'[j] = "cancelled"
                           /\ j \in started => j \in started'
                           /\ j \in started' \ started => status[j] # "cancelled"
    PROVE  CancelAnswerTrue'
<1> SUFFICES ASSUME NEW h \in Handlers, told'[h].tool = "cancel", told'[h].job \in Jobs
             PROVE  IF told'[h].ok
                    THEN status'[told'[h].job] = "cancelled" /\ told'[h].job \notin started'
                    ELSE told'[h].job \in started' \/ status'[told'[h].job] = "cancelled"
  BY DEF CancelAnswerTrue
<1>1. told'[h] = told[h]
  OBVIOUS
<1>2. IF told[h].ok
      THEN status[told[h].job] = "cancelled" /\ told[h].job \notin started
      ELSE told[h].job \in started \/ status[told[h].job] = "cancelled"
  BY <1>1 DEF CancelAnswerTrue
<1>3. PICK j \in Jobs : j = told[h].job /\ j = told'[h].job
  BY <1>1
<1>4. CASE told[h].ok
  <2>1. status[j] = "cancelled" /\ j \notin started
    BY <1>2, <1>3, <1>4, Zenon
  <2>2. status'[j] = "cancelled" /\ j \notin started'
    BY <1>3, <2>1
  <2>3. told'[h].ok
    BY <1>1, <1>4, Zenon
  <2> QED BY <1>3, <2>2, <2>3, Zenon
<1>5. CASE ~told[h].ok
  <2>1. j \in started \/ status[j] = "cancelled"
    BY <1>2, <1>3, <1>5, Zenon
  <2>2. j \in started' \/ status'[j] = "cancelled"
    BY <1>3, <2>1
  <2>3. ~told'[h].ok
    BY <1>1, <1>5, Zenon
  <2> QED BY <1>3, <2>2, <2>3, Zenon
<1> QED BY <1>4, <1>5

LEMMA JobStep == JobInv /\ [Next]_vars => JobInv'
<1> SUFFICES ASSUME JobInv, [Next]_vars PROVE JobInv'
  OBVIOUS
<1>0. TypeOK /\ TypeOK' /\ StartedOnce /\ CancelAnswerTrue
  BY TypeStep DEF JobInv
<1> USE <1>0 DEF JobInv, jobVars, poolVars, handlerVars
<1>1. ASSUME UNCHANGED <<status, started>>,
             \A h \in Handlers : told'[h] = told[h] \/ told'[h].tool # "cancel"
      PROVE  JobInv'
  BY <1>1, ToldStep DEF StartedOnce
<1>2. ASSUME NEW h \in Handlers, Answer(h, Nothing)
      PROVE  \A g \in Handlers : told'[g] = told[g] \/ told'[g].tool # "cancel"
  BY <1>2 DEF Answer, Nothing, TypeOK
<1>3. ASSUME NEW h \in Handlers,
             \/ FindPool(h) \/ OpenPool(h) \/ Raise(h) \/ Count(h) \/ ReplyHealth(h)
             \/ \E s \in Services : ReadPlaybook(h, s)
      PROVE  JobInv'
  <2>1. UNCHANGED <<status, started>>
    BY <1>3 DEF FindPool, OpenPool, Raise, Count, ReplyHealth, ReadPlaybook
  <2>2. UNCHANGED told \/ Answer(h, Nothing)
    BY <1>3 DEF FindPool, OpenPool, Raise, Count, ReplyHealth, ReadPlaybook
  <2> QED BY <1>1, <1>2, <2>1, <2>2
<1>4. ASSUME NEW h \in Handlers, NEW j \in Jobs, NEW heard \in BOOLEAN, InsertJob(h, j, heard)
      PROVE  JobInv'
  <2>1. status' = [status EXCEPT ![j] = "pending"] /\ status[j] = "absent" /\ UNCHANGED started
    BY <1>4 DEF InsertJob
  <2>2. StartedOnce'
    BY <2>1 DEF StartedOnce, TypeOK, Ended
  <2>3. \A g \in Handlers : told'[g] = told[g] \/ told'[g].tool # "cancel"
    BY <1>4 DEF InsertJob, Answer, Nothing, TypeOK
  <2> QED BY <2>1, <2>2, <2>3, ToldStep DEF TypeOK
<1>5. ASSUME NEW h \in Handlers, NEW j \in Known, NEW heard \in BOOLEAN,
             CancelRotation(h, j, heard)
      PROVE  JobInv'
  <2> DEFINE hit == j \in Jobs /\ Cancellable(j)
  <2>1. /\ status' = IF hit THEN [status EXCEPT ![j] = "cancelled"] ELSE status
        /\ Answer(h, IF heard THEN [tool |-> "cancel", job |-> j, ok |-> hit] ELSE Nothing)
        /\ UNCHANGED started
    BY <1>5, Zenon DEF CancelRotation
  <2>2. StartedOnce'
    BY <2>1 DEF StartedOnce, TypeOK, Ended, Cancellable
  <2>3. \A i \in Jobs : /\ status[i] = "cancelled" => status'[i] = "cancelled"
                        /\ i \in started => i \in started'
                        /\ i \in started' \ started => status[i] # "cancelled"
    BY <2>1 DEF TypeOK
  <2>4. CASE ~heard
    BY <2>1, <2>2, <2>3, <2>4, <1>2, ToldStep
  <2>5. CASE heard
    <3>1. \A g \in Handlers : told'[g] = IF g = h THEN [tool |-> "cancel", job |-> j, ok |-> hit]
                                         ELSE told[g]
      BY <2>1, <2>5, Zenon DEF Answer, TypeOK
    <3>2. ASSUME j \in Jobs
          PROVE  IF hit THEN status'[j] = "cancelled" /\ j \notin started'
                        ELSE j \in started' \/ status'[j] = "cancelled"
      <4>1. status[j] \in {"pending", "running", "cancelled"} \cup Ended
        BY <3>2, GrabberAssumption DEF Known, TypeOK, Statuses
      <4> QED BY <2>1, <3>2, <4>1 DEF StartedOnce, TypeOK, Ended, Cancellable
    <3>3. CancelAnswerTrue'
      <4> SUFFICES ASSUME NEW g \in Handlers, told'[g].tool = "cancel", told'[g].job \in Jobs
                   PROVE  IF told'[g].ok
                          THEN status'[told'[g].job] = "cancelled" /\ told'[g].job \notin started'
                          ELSE told'[g].job \in started' \/ status'[told'[g].job] = "cancelled"
        BY DEF CancelAnswerTrue
      <4>1. CASE g = h
        <5>1. told'[g].job = j /\ (told'[g].ok <=> hit)
          <6>1. told'[g] = [tool |-> "cancel", job |-> j, ok |-> hit]
            BY <3>1, <4>1, Zenon
          <6>2. told'[g].job = j
            BY <6>1
          <6>3. told'[g].ok = hit
            BY <6>1
          <6> QED BY <6>2, <6>3, Zenon
        <5> QED BY <3>2, <5>1
      <4>2. CASE g # h
        <5>1. told'[g] = told[g]
          BY <3>1, <4>2
        <5>2. IF told[g].ok
              THEN status[told[g].job] = "cancelled" /\ told[g].job \notin started
              ELSE told[g].job \in started \/ status[told[g].job] = "cancelled"
          BY <5>1 DEF CancelAnswerTrue
        <5> QED BY <2>1, <2>3, <5>1, <5>2
      <4> QED BY <4>1, <4>2
    <3> QED BY <2>2, <3>3
  <2> QED BY <2>4, <2>5
<1>6. ASSUME NEW j \in Jobs, WorkerStarts(j) \/ \E s \in Ended : WorkerEnds(j, s)
      PROVE  JobInv'
  <2>1. StartedOnce' /\ told' = told
    BY <1>6 DEF WorkerStarts, WorkerEnds, StartedOnce, TypeOK, Ended
  <2>2. \A i \in Jobs : /\ status[i] = "cancelled" => status'[i] = "cancelled"
                        /\ i \in started => i \in started'
                        /\ i \in started' \ started => status[i] # "cancelled"
    BY <1>6 DEF WorkerStarts, WorkerEnds, TypeOK, Ended
  <2> QED BY <2>1, <2>2, ToldStep
<1>7. ASSUME NEW s \in Services, NEW p \in PlaybookStatuses, EditPlaybook(s, p) PROVE JobInv'
  BY <1>1, <1>7 DEF EditPlaybook
<1>8. CASE UNCHANGED vars
  BY <1>1, <1>8 DEF vars
<1> QED BY <1>3, <1>4, <1>5, <1>6, <1>7, <1>8 DEF Next, Enqueue

(* The answer of cancel_rotation is final, whatever the worker and other   *)
(* calls do around it and whichever answers are lost.                      *)
THEOREM CancelAnswersAreTrue == Spec => []CancelAnswerTrue
<1>1. Init => JobInv
  BY TypeInit DEF Init, JobInv, StartedOnce, CancelAnswerTrue, Nothing, Ended
<1> QED BY <1>1, JobStep, PTL DEF Spec, JobInv

----------------------------------------------------------------------------
(* Enqueueing.  A call about to insert has found a playbook it may use, or *)
(* the playbook was edited since.                                          *)
PlaybookSeen ==
    \A h \in Handlers : at[h] = "insert" =>
        /\ service[h] \in Services
        /\ playbook[service[h]] \in {"live", "placeholder"} \/ h \in stale

EnqueueInv == TypeOK /\ PlaybookSeen

LEMMA EnqueueStep == EnqueueInv /\ [Next]_vars => EnqueueInv'
<1> SUFFICES ASSUME EnqueueInv, [Next]_vars PROVE EnqueueInv'
  OBVIOUS
<1>0. TypeOK /\ TypeOK' /\ PlaybookSeen
  BY TypeStep DEF EnqueueInv
<1> USE <1>0 DEF EnqueueInv, jobVars, poolVars, handlerVars
<1>1. ASSUME NEW h \in Handlers, NEW a, Answer(h, a), UNCHANGED playbook PROVE EnqueueInv'
  BY <1>1 DEF Answer, PlaybookSeen, TypeOK
<1>2. ASSUME NEW h \in Handlers, FindPool(h) \/ OpenPool(h) \/ Count(h) PROVE EnqueueInv'
  BY <1>2 DEF FindPool, OpenPool, Count, PlaybookSeen, TypeOK
<1>3. ASSUME NEW h \in Handlers, Raise(h) \/ ReplyHealth(h) PROVE EnqueueInv'
  BY <1>1, <1>3 DEF Raise, ReplyHealth
<1>4. ASSUME NEW h \in Handlers, NEW s \in Services, ReadPlaybook(h, s) PROVE EnqueueInv'
  <2>1. CASE Enqueueable(s)
    <3>1. playbook[s] \in {"live", "placeholder"}
      BY <2>1 DEF Enqueueable, TypeOK, PlaybookStatuses
    <3> QED BY <1>4, <2>1, <3>1 DEF ReadPlaybook, PlaybookSeen, TypeOK
  <2>2. CASE ~Enqueueable(s)
    BY <1>1, <1>4, <2>2 DEF ReadPlaybook
  <2> QED BY <2>1, <2>2
<1>5. ASSUME NEW h \in Handlers, NEW j, NEW heard, InsertJob(h, j, heard) \/ CancelRotation(h, j, heard)
      PROVE  EnqueueInv'
  <2>1. UNCHANGED playbook /\ \E a : Answer(h, a)
    BY <1>5 DEF InsertJob, CancelRotation
  <2> QED BY <1>1, <2>1
<1>6. ASSUME NEW j \in Jobs, WorkerStarts(j) \/ \E s \in Ended : WorkerEnds(j, s)
      PROVE  EnqueueInv'
  BY <1>6 DEF WorkerStarts, WorkerEnds, PlaybookSeen
<1>7. ASSUME NEW s \in Services, NEW p \in PlaybookStatuses, EditPlaybook(s, p)
      PROVE  EnqueueInv'
  BY <1>7 DEF EditPlaybook, PlaybookSeen, TypeOK
<1>8. CASE UNCHANGED vars
  BY <1>8 DEF vars, PlaybookSeen
<1> QED BY <1>2, <1>3, <1>4, <1>5, <1>6, <1>7, <1>8 DEF Next, Enqueue

LEMMA EnqueueInvariant == Spec => []EnqueueInv
<1>1. Init => EnqueueInv
  BY TypeInit DEF Init, EnqueueInv, PlaybookSeen
<1> QED BY <1>1, EnqueueStep, PTL DEF Spec

(* enqueue_rotation inserts a job for a service without a usable playbook  *)
(* only if the playbook changed between its two statements.                *)
THEOREM DisabledJobsOverlap == Spec => DisabledOnlyByOverlap
<1> DEFINE Sound == \A h \in Handlers :
          /\ at[h] = "insert" /\ at'[h] # "insert"
          /\ \E j \in JobsIn("absent") : status'[j] # "absent"
          => playbook[service[h]] \in {"live", "placeholder"} \/ h \in stale
<1>1. EnqueueInv => Sound
  BY DEF EnqueueInv, PlaybookSeen
<1> HIDE DEF Sound
<1>2. Spec => [][Sound]_vars
  BY <1>1, EnqueueInvariant, PTL DEF Spec
<1> QED BY <1>2, Zenon DEF Sound, DisabledOnlyByOverlap

----------------------------------------------------------------------------
(* Pools.  Each call that is opening a pool has found none; when the first *)
(* pool is published, one of them has opened it, and each of the others    *)
(* replaces one.                                                           *)
Opening == {h \in Handlers : at[h] = "open"}

PoolsCounted ==
    IF published THEN lostPools + 1 + Cardinality(Opening) <= Cardinality(racers)
                 ELSE lostPools = 0 /\ Opening \subseteq racers

PoolInv == TypeOK /\ PoolsCounted

LEMMA HandlerSetsFinite ==
    ASSUME NEW S \in SUBSET Handlers
    PROVE  IsFiniteSet(S) /\ Cardinality(S) \in Nat
BY GrabberAssumption, FS_Subset, FS_CardinalityType

(* A step by which nobody opens a pool or begins to. *)
LEMMA NoPoolStep ==
    ASSUME PoolInv, TypeOK', UNCHANGED poolVars, Opening' \subseteq Opening
    PROVE  PoolInv'
<1>1. Cardinality(Opening') <= Cardinality(Opening)
  BY FS_Subset, HandlerSetsFinite DEF Opening
<1>2. /\ Cardinality(Opening) \in Nat /\ Cardinality(Opening') \in Nat
      /\ Cardinality(racers) \in Nat
  BY HandlerSetsFinite DEF Opening, PoolInv, TypeOK
<1> QED BY <1>1, <1>2 DEF PoolInv, PoolsCounted, poolVars, TypeOK

LEMMA PoolStep == PoolInv /\ [Next]_vars => PoolInv'
<1> SUFFICES ASSUME PoolInv, [Next]_vars PROVE PoolInv'
  OBVIOUS
<1>0. TypeOK /\ TypeOK'
  BY TypeStep DEF PoolInv
<1> USE <1>0 DEF jobVars, handlerVars
<1>1. ASSUME NEW h \in Handlers, NEW a, Answer(h, a), UNCHANGED poolVars PROVE PoolInv'
  <2>1. Opening' \subseteq Opening
    BY <1>1 DEF Answer, Opening, TypeOK
  <2> QED BY <1>1, <2>1, NoPoolStep
<1>2. ASSUME NEW h \in Handlers, FindPool(h) PROVE PoolInv'
  <2>1. CASE published
    <3>1. Opening' \subseteq Opening /\ UNCHANGED poolVars
      BY <1>2, <2>1 DEF FindPool, Opening, TypeOK, poolVars
    <3> QED BY <3>1, NoPoolStep
  <2>2. CASE ~published
    <3>1. /\ Opening' = Opening \cup {h} /\ racers' = racers \cup {h}
          /\ ~published' /\ lostPools' = lostPools
      BY <1>2, <2>2 DEF FindPool, Opening, TypeOK
    <3> QED BY <2>2, <3>1 DEF PoolInv, PoolsCounted
  <2> QED BY <2>1, <2>2
<1>3. ASSUME NEW h \in Handlers, OpenPool(h) PROVE PoolInv'
  <2>1. Opening' = Opening \ {h} /\ h \in Opening /\ racers' = racers
    BY <1>3 DEF OpenPool, Opening, TypeOK
  <2>2. published' /\ lostPools' = IF published THEN lostPools + 1 ELSE lostPools
    BY <1>3 DEF OpenPool
  <2>3. Opening \in SUBSET Handlers /\ racers \in SUBSET Handlers
    BY DEF Opening, TypeOK
  <2>4. /\ Cardinality(Opening) \in Nat /\ Cardinality(racers) \in Nat
        /\ Cardinality(Opening') = Cardinality(Opening) - 1
    BY <2>1, <2>3, HandlerSetsFinite, FS_RemoveElement
  <2>5. CASE published
    BY <2>1, <2>2, <2>4, <2>5 DEF PoolInv, PoolsCounted, TypeOK
  <2>6. CASE ~published
    <3>1. Cardinality(Opening) <= Cardinality(racers)
      BY <2>3, <2>6, HandlerSetsFinite, FS_Subset DEF PoolInv, PoolsCounted
    <3> QED BY <2>1, <2>2, <2>4, <2>6, <3>1 DEF PoolInv, PoolsCounted, TypeOK
  <2> QED BY <2>5, <2>6
<1>4. ASSUME NEW h \in Handlers, Raise(h) \/ ReplyHealth(h) PROVE PoolInv'
  BY <1>1, <1>4 DEF Raise, ReplyHealth
<1>5. ASSUME NEW h \in Handlers, NEW s \in Services, ReadPlaybook(h, s) PROVE PoolInv'
  <2>1. CASE Enqueueable(s)
    <3>1. Opening' \subseteq Opening /\ UNCHANGED poolVars
      BY <1>5, <2>1 DEF ReadPlaybook, Opening, TypeOK
    <3> QED BY <3>1, NoPoolStep
  <2>2. CASE ~Enqueueable(s)
    BY <1>1, <1>5, <2>2 DEF ReadPlaybook
  <2> QED BY <2>1, <2>2
<1>6. ASSUME NEW h \in Handlers, NEW j, NEW heard,
             InsertJob(h, j, heard) \/ CancelRotation(h, j, heard)
      PROVE  PoolInv'
  <2>1. UNCHANGED poolVars /\ \E a : Answer(h, a)
    BY <1>6 DEF InsertJob, CancelRotation
  <2> QED BY <1>1, <2>1
<1>7. ASSUME NEW h \in Handlers, Count(h) PROVE PoolInv'
  <2>1. Opening' \subseteq Opening /\ UNCHANGED poolVars
    BY <1>7 DEF Count, Opening, TypeOK
  <2> QED BY <2>1, NoPoolStep
<1>8. CASE \/ \E j \in Jobs : WorkerStarts(j) \/ \E s \in Ended : WorkerEnds(j, s)
           \/ \E s \in Services, p \in PlaybookStatuses : EditPlaybook(s, p)
           \/ UNCHANGED vars
  <2>1. Opening' = Opening /\ UNCHANGED poolVars
    BY <1>8 DEF WorkerStarts, WorkerEnds, EditPlaybook, vars, Opening
  <2> QED BY <2>1, NoPoolStep
<1> QED BY <1>2, <1>3, <1>4, <1>5, <1>6, <1>7, <1>8 DEF Next, Enqueue

(* _pool loses a pool only to a call that came when there was none yet.    *)
THEOREM PoolsAreLostByRace == Spec => []PoolsLostByRaceOnly
<1>1. Init => PoolInv
  <2> SUFFICES ASSUME Init PROVE PoolsCounted
    BY TypeInit DEF PoolInv
  <2>1. ~published /\ lostPools = 0 /\ Opening = {}
    BY DEF Init, Opening
  <2> QED BY <2>1 DEF PoolsCounted
<1>2. PoolInv => PoolsLostByRaceOnly
  <2> SUFFICES ASSUME PoolInv PROVE PoolsLostByRaceOnly
    OBVIOUS
  <2>1. Cardinality(Opening) \in Nat /\ Cardinality(racers) \in Nat /\ lostPools \in Nat
    BY HandlerSetsFinite DEF Opening, PoolInv, TypeOK
  <2> QED BY <2>1 DEF PoolInv, PoolsCounted, PoolsLostByRaceOnly
<1> QED BY <1>1, <1>2, PoolStep, PTL DEF Spec

----------------------------------------------------------------------------
(* Counting.  Between its two counts, the jobs a health call has yet to    *)
(* count are running; afterwards all of them are counted.                  *)
HealthSeen ==
    \A h \in Handlers :
        /\ at[h] = "count" =>
              Cardinality(steady[h] \ JobsIn("running")) <= health[h].queued
        /\ at[h] = "reply" =>
              Cardinality(steady[h]) <= health[h].queued + health[h].running

HealthInv == TypeOK /\ HealthSeen

LEMMA JobSetsFinite ==
    ASSUME NEW S \in SUBSET Jobs
    PROVE  IsFiniteSet(S) /\ Cardinality(S) \in Nat
BY GrabberAssumption, FS_Subset, FS_CardinalityType

(* A step in which no call counts, and no job that is still to be counted  *)
(* leaves the running ones.                                                *)
LEMMA NoCountStep ==
    ASSUME HealthInv, TypeOK',
           \A h \in Handlers : at'[h] \in {"count", "reply"} =>
              /\ at'[h] = at[h]
              /\ health'[h] = health[h]
              /\ steady'[h] \subseteq steady[h]
              /\ steady'[h] \ JobsIn("running")' \subseteq steady[h] \ JobsIn("running")
    PROVE  HealthInv'
<1> SUFFICES ASSUME NEW h \in Handlers
             PROVE  /\ at'[h] = "count" =>
                          Cardinality(steady'[h] \ JobsIn("running")') <= health'[h].queued
                    /\ at'[h] = "reply" =>
                          Cardinality(steady'[h]) <= health'[h].queued + health'[h].running
  BY DEF HealthInv, HealthSeen
<1>1. /\ steady[h] \in SUBSET Jobs /\ steady'[h] \in SUBSET Jobs
      /\ health[h].queued \in Nat /\ health[h].running \in Nat
  BY DEF HealthInv, TypeOK
<1>2. ASSUME NEW S \in SUBSET Jobs, NEW T \in SUBSET S
      PROVE  /\ Cardinality(T) <= Cardinality(S)
             /\ Cardinality(T) \in Nat /\ Cardinality(S) \in Nat
  <2>1. T \in SUBSET Jobs
    OBVIOUS
  <2> QED BY <2>1, JobSetsFinite, FS_Subset
<1>3. CASE at'[h] = "count"
  <2> DEFINE S == steady[h] \ JobsIn("running")
             T == steady'[h] \ JobsIn("running")'
  <2>1. S \in SUBSET Jobs /\ T \in SUBSET S
    BY <1>1, <1>3
  <2>2. Cardinality(S) <= health[h].queued
    BY <1>3 DEF HealthInv, HealthSeen
  <2>3. Cardinality(T) <= Cardinality(S) /\ Cardinality(T) \in Nat /\ Cardinality(S) \in Nat
    BY <1>2, <2>1
  <2> QED BY <1>1, <1>3, <2>2, <2>3
<1>4. CASE at'[h] = "reply"
  <2>1. Cardinality(steady[h]) <= health[h].queued + health[h].running
    BY <1>4 DEF HealthInv, HealthSeen
  <2>2. steady'[h] \in SUBSET steady[h]
    BY <1>4
  <2> QED BY <1>1, <1>2, <1>4, <2>1, <2>2
<1> QED BY <1>3, <1>4

LEMMA CountStep ==
    ASSUME HealthInv, TypeOK', NEW h \in Handlers, Count(h) PROVE HealthInv'
<1> USE DEF HealthInv, TypeOK
<1>0. status' = status
  BY DEF Count, jobVars
<1>1. \A s : JobsIn(s)' = JobsIn(s) /\ JobsIn(s) \in SUBSET Jobs
  BY <1>0 DEF JobsIn
<1>2. ASSUME NEW g \in Handlers, g # h
      PROVE  at'[g] = at[g] /\ health'[g] = health[g] /\ steady'[g] = steady[g]
  BY <1>2 DEF Count
<1>3. CASE at[h] = "ready"
  <2>1. /\ at'[h] = "count" /\ steady'[h] = Active
        /\ health'[h].queued = Cardinality(JobsIn("pending"))
    BY <1>3 DEF Count
  <2>2. Active \ JobsIn("running") = JobsIn("pending")
    BY DEF Active, JobsIn
  <2>3. Cardinality(JobsIn("pending")) \in Nat
    BY CountsAreNaturals
  <2>4. Cardinality(steady'[h] \ JobsIn("running")') <= health'[h].queued
    <3>1. steady'[h] \ JobsIn("running")' = JobsIn("pending")
      BY <1>1, <2>1, <2>2
    <3>2. Cardinality(steady'[h] \ JobsIn("running")') = Cardinality(JobsIn("pending"))
      BY <3>1, Zenon
    <3> QED BY <2>1, <2>3, <3>2
  <2> QED BY <1>1, <1>2, <2>1, <2>4 DEF HealthSeen
<1>4. CASE at[h] = "count"
  <2> DEFINE S == steady[h]
             R == JobsIn("running")
  <2>1. /\ at'[h] = "reply" /\ steady'[h] = S
        /\ health'[h].queued = health[h].queued /\ health'[h].running = Cardinality(R)
    BY <1>4 DEF Count
  <2>2. S \in SUBSET Jobs /\ R \in SUBSET Jobs /\ S \cap R \in SUBSET R
        /\ S \cap R \in SUBSET Jobs /\ S \ R \in SUBSET Jobs
    BY <1>1
  <2>3. /\ Cardinality(S) \in Nat /\ Cardinality(R) \in Nat /\ Cardinality(S \cap R) \in Nat
        /\ Cardinality(S \ R) \in Nat
        /\ Cardinality(S \cap R) <= Cardinality(R)
        /\ Cardinality(S \ R) = Cardinality(S) - Cardinality(S \cap R)
    BY <2>2, JobSetsFinite, FS_Subset, FS_Difference
  <2>4. Cardinality(S \ R) <= health[h].queued /\ health[h].queued \in Nat
    BY <1>4 DEF HealthSeen
  <2>5. Cardinality(steady'[h]) <= health'[h].queued + health'[h].running
    <3> HIDE DEF S, R
    <3> QED BY <2>1, <2>3, <2>4
  <2> QED BY <1>1, <1>2, <2>1, <2>5 DEF HealthSeen
<1> QED BY <1>3, <1>4 DEF Count

LEMMA HealthStep == HealthInv /\ [Next]_vars => HealthInv'
<1> SUFFICES ASSUME HealthInv, [Next]_vars PROVE HealthInv'
  OBVIOUS
<1>0. TypeOK /\ TypeOK'
  BY TypeStep DEF HealthInv
<1> USE <1>0 DEF jobVars, poolVars, handlerVars
<1>1. ASSUME NEW h \in Handlers, NEW a, Answer(h, a), JobsIn("running")' = JobsIn("running")
      PROVE  HealthInv'
  BY <1>1, NoCountStep DEF Answer, TypeOK
<1>2. ASSUME NEW h \in Handlers, FindPool(h) \/ OpenPool(h) PROVE HealthInv'
  BY <1>2, NoCountStep DEF FindPool, OpenPool, TypeOK, JobsIn
<1>3. ASSUME NEW h \in Handlers, Raise(h) \/ ReplyHealth(h) PROVE HealthInv'
  BY <1>1, <1>3 DEF Raise, ReplyHealth, JobsIn
<1>4. ASSUME NEW h \in Handlers, NEW s \in Services, ReadPlaybook(h, s) PROVE HealthInv'
  <2>1. CASE Enqueueable(s)
    BY <1>4, <2>1, NoCountStep DEF ReadPlaybook, TypeOK, JobsIn
  <2>2. CASE ~Enqueueable(s)
    BY <1>1, <1>4, <2>2 DEF ReadPlaybook, JobsIn
  <2> QED BY <2>1, <2>2
<1>5. ASSUME NEW h \in Handlers, NEW j \in Jobs, NEW heard, InsertJob(h, j, heard)
      PROVE  HealthInv'
  <2>1. JobsIn("running")' = JobsIn("running")
    BY <1>5 DEF InsertJob, JobsIn, TypeOK
  <2> QED BY <1>1, <1>5, <2>1 DEF InsertJob
<1>6. ASSUME NEW h \in Handlers, NEW j \in Known, NEW heard, CancelRotation(h, j, heard)
      PROVE  HealthInv'
  <2>1. JobsIn("running")' = JobsIn("running")
    BY <1>6 DEF CancelRotation, Cancellable, JobsIn, TypeOK
  <2> QED BY <1>1, <1>6, <2>1 DEF CancelRotation
<1>7. ASSUME NEW h \in Handlers, Count(h) PROVE HealthInv'
  BY <1>7, CountStep
<1>8. ASSUME NEW j \in Jobs, WorkerStarts(j) PROVE HealthInv'
  <2>1. JobsIn("running") \subseteq JobsIn("running")'
    BY <1>8 DEF WorkerStarts, JobsIn, TypeOK
  <2> QED BY <1>8, <2>1, NoCountStep DEF WorkerStarts
<1>9. ASSUME NEW j \in Jobs, NEW s \in Ended, WorkerEnds(j, s) PROVE HealthInv'
  <2>1. JobsIn("running") \subseteq JobsIn("running")' \cup {j}
    BY <1>9 DEF WorkerEnds, JobsIn, TypeOK
  <2> QED BY <1>9, <2>1, NoCountStep DEF WorkerEnds, Quit
<1>10. CASE \/ \E s \in Services, p \in PlaybookStatuses : EditPlaybook(s, p)
            \/ UNCHANGED vars
  BY <1>10, NoCountStep DEF EditPlaybook, vars, JobsIn
<1> QED BY <1>2, <1>3, <1>4, <1>5, <1>6, <1>7, <1>8, <1>9, <1>10 DEF Next, Enqueue

(* grabber_health misses no job that was pending or running all the time,  *)
(* although it counts in two statements while the worker goes on.          *)
THEOREM HealthMissesNothing == Spec => []HealthCoversActive
<1>1. Init => HealthInv
  BY TypeInit DEF Init, HealthInv, HealthSeen
<1>2. HealthInv => HealthCoversActive
  BY DEF HealthInv, HealthSeen, HealthCoversActive
<1> QED BY <1>1, <1>2, HealthStep, PTL DEF Spec

----------------------------------------------------------------------------
(* The rotation queue implements the work queue.                           *)

LEMMA SameJobs == UNCHANGED status => UNCHANGED WQ!vars
BY DEF WQ!vars, Phase, Lessee, Result

(* A change of one job's status is a step of the work queue. *)
LEMMA JobChange ==
    ASSUME TypeOK, NEW j \in Jobs, NEW s \in Statuses, status' = [status EXCEPT ![j] = s],
           \/ status[j] = "absent" /\ s = "pending"
           \/ status[j] = "pending" /\ s \in {"running", "cancelled"}
           \/ status[j] = "running" /\ s \in Ended
    PROVE  WQ!Next
<1>1. /\ status'[j] = s /\ \A i \in Jobs \ {j} : status'[i] = status[i]
      /\ status \in [Jobs -> Statuses] /\ status' \in [Jobs -> Statuses]
  BY DEF TypeOK
<1>2. \A i \in Jobs \ {j} : Phase(i)' = Phase(i) /\ Lessee(i)' = Lessee(i) /\ Result(i)' = Result(i)
  BY <1>1 DEF Phase, Lessee, Result
<1>3. CASE status[j] = "absent" /\ s = "pending"
  <2>1. /\ Phase(j) = "absent" /\ Phase(j)' = "waiting"
        /\ Lessee(j)' = Lessee(j) /\ Result(j)' = Result(j)
    BY <1>1, <1>3 DEF Phase, Lessee, Result, Results, Ended
  <2>2. WQ!Add({j})
    BY <1>2, <2>1 DEF WQ!Add
  <2> QED BY <2>2 DEF WQ!Next
<1>4. CASE status[j] = "pending" /\ s = "running"
  <2>1. /\ Phase(j) = "waiting" /\ Phase(j)' = "leased"
        /\ Lessee(j)' = "worker" /\ Result(j)' = Result(j)
    BY <1>1, <1>4 DEF Phase, Lessee, Result, Results, Ended
  <2>2. WQ!Lease("worker", {j})
    BY <1>2, <2>1 DEF WQ!Lease
  <2> QED BY <2>2 DEF WQ!Next
<1>5. CASE s \in Results /\ status[j] \in {"pending", "running"}
  <2>1. /\ Phase(j) # "done" /\ Phase(j)' = "done"
        /\ Lessee(j)' = "nobody" /\ Result(j)' = s
    BY <1>1, <1>5 DEF Phase, Lessee, Result, Results, Ended
  <2>2. WQ!Settle({j}, s)
    BY <1>2, <2>1 DEF WQ!Settle
  <2> QED BY <1>5, <2>2 DEF WQ!Next
<1> QED BY <1>3, <1>4, <1>5 DEF Results

LEMMA QueueStep == TypeOK /\ [Next]_vars => [WQ!Next]_(WQ!vars)
<1> SUFFICES ASSUME TypeOK, [Next]_vars PROVE WQ!Next \/ UNCHANGED WQ!vars
  OBVIOUS
<1>1. ASSUME NEW h \in Handlers, NEW j \in Jobs, NEW heard, InsertJob(h, j, heard) PROVE WQ!Next
  BY <1>1, JobChange DEF InsertJob, Statuses
<1>2. ASSUME NEW h \in Handlers, NEW j \in Known, NEW heard, CancelRotation(h, j, heard)
      PROVE  WQ!Next \/ UNCHANGED WQ!vars
  BY <1>2, JobChange, SameJobs DEF CancelRotation, Cancellable, Statuses
<1>3. ASSUME NEW j \in Jobs, WorkerStarts(j) PROVE WQ!Next
  BY <1>3, JobChange DEF WorkerStarts, Statuses
<1>4. ASSUME NEW j \in Jobs, NEW s \in Ended, WorkerEnds(j, s) PROVE WQ!Next
  <2>1. s \in Statuses
    BY DEF Statuses
  <2> QED BY <1>4, <2>1, JobChange DEF WorkerEnds
<1>5. ASSUME UNCHANGED jobVars PROVE UNCHANGED WQ!vars
  BY <1>5, SameJobs DEF jobVars
<1>6. ASSUME NEW h \in Handlers,
             \/ FindPool(h) \/ OpenPool(h) \/ Raise(h) \/ Count(h) \/ ReplyHealth(h)
             \/ \E s \in Services : ReadPlaybook(h, s)
      PROVE  UNCHANGED jobVars
  BY <1>6 DEF FindPool, OpenPool, Raise, Count, ReplyHealth, ReadPlaybook
<1>7. CASE \/ \E s \in Services, p \in PlaybookStatuses : EditPlaybook(s, p)
           \/ UNCHANGED vars
  BY <1>5, <1>7 DEF EditPlaybook, vars
<1> QED BY <1>1, <1>2, <1>3, <1>4, <1>5, <1>6, <1>7 DEF Next, Enqueue

(* Every behaviour of the rotation queue is one of the abstract work queue: *)
(* the worker and the cancellations of any number of callers never settle a *)
(* job twice, and a cancelled job is never handed to the worker.            *)
THEOREM Implementation == Spec => ImplementsWorkQueue
<1>1. Init => WQ!Init
  BY DEF Init, WQ!Init, Phase, Lessee, Result, Results, Ended
<1> QED BY <1>1, TypeCorrect, QueueStep, PTL DEF Spec, WQ!Spec, ImplementsWorkQueue
=============================================================================
