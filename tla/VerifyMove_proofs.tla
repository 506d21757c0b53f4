-------------------------- MODULE VerifyMove_proofs --------------------------
(* Theorems about verify_move, the trust scores and the capability         *)
(* requests it files, for any number of moves, calls, records and restarts.*)
EXTENDS VerifyMove, FiniteSetTheorems, SequenceTheorems, TLAPS

----------------------------------------------------------------------------
(* Capability requests.  A handler that is about to insert has found no    *)
(* pending request, and there is none yet, or another handler was faster.  *)
FilersLooked ==
    \A f \in Filers : filing[f] # NoName =>
        Pending(filing[f]) = {} \/ filing[f] \in contended

CapInv == CapTypeOK /\ FilersLooked /\ OnePendingPerCapability

(* What a step of the composition does to the requests. *)
CapStep == \/ \E f \in Filers : FileMiss(f, Token) \/ FileFails(f)
           \/ \E f \in Filers, i \in RequestIds : FileInsert(f, i)
           \/ \E i \in RequestIds, d \in Decisions : DecideCapabilityRequest(i, d)
           \/ CapRestart
           \/ UNCHANGED capVars

LEMMA CapSteps == [Next]_vars => CapStep
BY VerifyMoveAssumption
   DEF Next, vars, Call, FetchMove, Verify, RequestCapability, FileHit, RecordVerification,
       ReadScore, WriteScore, Decide, ServerRestart, CapStep

LEMMA CapInitial == CapInit => CapInv
BY CapabilitiesAssumption
   DEF CapInit, CapInv, CapTypeOK, FilersLooked, OnePendingPerCapability

LEMMA CapInvStep == CapInv /\ CapStep => CapInv'
<1> SUFFICES ASSUME CapInv, CapStep PROVE CapInv'
  OBVIOUS
<1>0. CapTypeOK /\ FilersLooked /\ OnePendingPerCapability
  BY DEF CapInv
<1>1. ASSUME NEW f \in Filers, FileMiss(f, Token) PROVE CapInv'
  <2>1. CapTypeOK'
    BY <1>0, <1>1, VerifyMoveAssumption DEF FileMiss, CapTypeOK
  <2>2. FilersLooked'
    BY <1>0, <1>1 DEF FileMiss, CapTypeOK, FilersLooked, Pending
  <2>3. OnePendingPerCapability'
    BY <1>0, <1>1 DEF FileMiss, OnePendingPerCapability
  <2> QED BY <2>1, <2>2, <2>3 DEF CapInv
<1>2. ASSUME NEW f \in Filers, NEW i \in RequestIds, FileInsert(f, i) PROVE CapInv'
  <2> DEFINE n == filing[f]
  <2>1. /\ n \in Names /\ n # NoName /\ capStatus[i] = "absent"
        /\ capability' = [capability EXCEPT ![i] = n]
        /\ capStatus' = [capStatus EXCEPT ![i] = "pending"]
        /\ filing' = [filing EXCEPT ![f] = NoName]
        /\ contended \subseteq contended' /\ contended' \subseteq contended \cup {n}
        /\ (\E g \in Filers \ {f} : filing[g] = n) => n \in contended'
    BY <1>0, <1>2 DEF FileInsert, CapTypeOK
  <2>2. CapTypeOK'
    BY <1>0, <1>2, <2>1 DEF FileInsert, CapTypeOK
  <2>3. Pending(n) = {} \/ n \in contended
    BY <1>0, <2>1 DEF FilersLooked
  <2>4. ASSUME NEW m, m # n PROVE Pending(m)' = Pending(m)
    BY <1>0, <2>1, <2>4 DEF Pending, CapTypeOK
  <2>5. FilersLooked'
    <3> SUFFICES ASSUME NEW g \in Filers, filing'[g] # NoName
                 PROVE  Pending(filing[g])' = {} \/ filing[g] \in contended'
      BY <1>0, <2>1 DEF FilersLooked, CapTypeOK, Pending
    <3>1. g # f /\ filing[g] # NoName
      BY <1>0, <2>1 DEF CapTypeOK
    <3>2. CASE filing[g] = n
      BY <2>1, <3>1, <3>2
    <3>3. CASE filing[g] # n
      BY <1>0, <2>1, <2>4, <3>1, <3>3 DEF FilersLooked
    <3> QED BY <3>2, <3>3
  <2>6. OnePendingPerCapability'
    <3> SUFFICES ASSUME NEW j \in RequestIds, NEW k \in RequestIds,
                        capStatus'[j] = "pending", capStatus'[k] = "pending",
                        capability'[j] = capability'[k], capability'[j] \notin contended'
                 PROVE  j = k
      BY DEF OnePendingPerCapability, RequestIds
    <3>1. ASSUME NEW x \in RequestIds, x # i, capStatus'[x] = "pending",
                 capability'[x] = n, n \notin contended'
          PROVE  FALSE
      BY <1>0, <2>1, <2>3, <3>1 DEF CapTypeOK, Pending
    <3>2. capability'[i] = n
      BY <1>0, <2>1 DEF CapTypeOK
    <3>3. CASE j = i \/ k = i
      BY <3>1, <3>2, <3>3
    <3>4. CASE j # i /\ k # i
      BY <1>0, <2>1, <3>4 DEF CapTypeOK, OnePendingPerCapability
    <3> QED BY <3>3, <3>4
  <2> QED BY <2>2, <2>5, <2>6 DEF CapInv
<1>3. ASSUME NEW i \in RequestIds, NEW d \in Decisions, DecideCapabilityRequest(i, d)
      PROVE  CapInv'
  <2>1. CapTypeOK'
    BY <1>0, <1>3 DEF DecideCapabilityRequest, CapTypeOK
  <2>2. \A j \in RequestIds : capStatus'[j] = "pending" => capStatus[j] = "pending"
    BY <1>0, <1>3 DEF DecideCapabilityRequest, CapTypeOK, Decisions
  <2>3. UNCHANGED <<capability, filing, contended>>
    BY <1>3 DEF DecideCapabilityRequest
  <2>4. FilersLooked' /\ OnePendingPerCapability'
    BY <1>0, <2>2, <2>3 DEF FilersLooked, OnePendingPerCapability, Pending
  <2> QED BY <2>1, <2>4 DEF CapInv
<1>4. CASE CapRestart
  BY <1>0, <1>4 DEF CapRestart, CapInv, CapTypeOK, FilersLooked, OnePendingPerCapability
<1>5. CASE UNCHANGED capVars
  BY <1>0, <1>5 DEF capVars, CapInv, CapTypeOK, FilersLooked, OnePendingPerCapability, Pending
<1>6. ASSUME NEW f \in Filers, FileFails(f) PROVE CapInv'
  BY <1>0, <1>6 DEF FileFails, CapTypeOK, FilersLooked, OnePendingPerCapability, Pending, CapInv
<1> QED BY <1>1, <1>2, <1>3, <1>4, <1>5, <1>6 DEF CapStep

LEMMA CapInvariant == Spec => []CapInv
<1>1. Init => CapInv
  BY CapInitial DEF Init
<1>2. CapInv /\ [Next]_vars => CapInv'
  BY CapSteps, CapInvStep
<1> QED BY <1>1, <1>2, PTL DEF Spec

(* file_capability_request leaves one pending request per capability, but  *)
(* for names that two handlers looked up before either inserted.           *)
THEOREM OneRequestPends == Spec => []OnePendingPerCapability
BY CapInvariant, PTL DEF CapInv

(* The table of requests implements the work queue. *)
LEMMA RequestStep == CapTypeOK /\ CapStep => [RequestQueue!Next]_(RequestQueue!vars)
<1> SUFFICES ASSUME CapTypeOK, CapStep PROVE RequestQueue!Next \/ UNCHANGED RequestQueue!vars
  OBVIOUS
<1>1. ASSUME UNCHANGED capStatus PROVE UNCHANGED RequestQueue!vars
  BY <1>1 DEF RequestQueue!vars, RequestPhase, Decision
<1>2. ASSUME NEW i \in RequestIds, NEW s, capStatus' = [capStatus EXCEPT ![i] = s]
      PROVE  /\ capStatus'[i] = s
             /\ \A j \in RequestIds \ {i} :
                   RequestPhase(j)' = RequestPhase(j) /\ Decision(j)' = Decision(j)
  BY <1>2 DEF CapTypeOK, RequestPhase, Decision
<1>3. ASSUME NEW f \in Filers, NEW i \in RequestIds, FileInsert(f, i) PROVE RequestQueue!Next
  <2>1. capStatus[i] = "absent" /\ capStatus' = [capStatus EXCEPT ![i] = "pending"]
    BY <1>3 DEF FileInsert
  <2>2. capStatus'[i] = "pending"
    BY <1>2, <2>1
  <2>3. /\ RequestPhase(i) = "absent" /\ RequestPhase(i)' = "waiting"
        /\ Decision(i)' = Decision(i)
    BY <2>1, <2>2 DEF RequestPhase, Decision, Decisions
  <2>4. RequestQueue!Add({i})
    BY <1>2, <2>1, <2>3 DEF RequestQueue!Add
  <2> QED BY <2>4 DEF RequestQueue!Next
<1>4. ASSUME NEW i \in RequestIds, NEW d \in Decisions, DecideCapabilityRequest(i, d)
      PROVE  RequestQueue!Next
  <2>1. capStatus[i] = "pending" /\ capStatus' = [capStatus EXCEPT ![i] = d]
    BY <1>4 DEF DecideCapabilityRequest
  <2>2. capStatus'[i] = d
    BY <1>2, <2>1
  <2>3. RequestPhase(i) # "done" /\ RequestPhase(i)' = "done" /\ Decision(i)' = d
    BY <2>1, <2>2 DEF RequestPhase, Decision, Decisions
  <2>4. RequestQueue!Settle({i}, d)
    BY <1>2, <2>1, <2>3 DEF RequestQueue!Settle
  <2> QED BY <2>4 DEF RequestQueue!Next
<1> QED BY <1>1, <1>3, <1>4 DEF CapStep, FileMiss, FileFails, CapRestart, capVars

(* A request that a verifier has filed is decided once and for good, in    *)
(* every behaviour of verify_move with its verifiers, humans and restarts. *)
THEOREM DecisionsAreFinal == Spec => DecidedForGood
<1>1. Init => RequestQueue!Init
  BY DEF Init, CapInit, RequestQueue!Init, RequestPhase, Decision, Decisions
<1>2. CapInv /\ [Next]_vars => [RequestQueue!Next]_(RequestQueue!vars)
  BY CapSteps, RequestStep DEF CapInv
<1> QED BY <1>1, <1>2, CapInvariant, PTL DEF Spec, RequestQueue!Spec, DecidedForGood

----------------------------------------------------------------------------
(* The calls.  A call past its verifier has a result, past its record a    *)
(* definitive one; it nudges a repo only if the move has one; and the      *)
(* score of 'global' always has a row, so writing it is never refused.     *)
PastRecord == {"read global", "write global", "read repo", "write repo"}

VerifyTypes ==
    /\ records \in Seq([move : Moves, status : Results])
    /\ score \in [Scopes -> Seq(Definitive)]
    /\ sampleSize \in [Scopes -> Nat]
    /\ exists \in SUBSET Scopes
    /\ pc \in [Calls -> {"idle", "verify", "record"} \cup PastRecord]
    /\ move \in [Calls -> Moves \cup {NoMove}]
    /\ result \in [Calls -> Results \cup {"none"}]
    /\ seen \in [Calls -> [row : BOOLEAN, samples : Seq(Definitive)]]
    /\ dropped \in [Scopes -> Nat]
    /\ overlapped \in SUBSET Scopes

CallSane(v) ==
    /\ pc[v] # "idle" => move[v] \in Moves
    /\ pc[v] = "record" => result[v] \in Results
    /\ pc[v] \in PastRecord => result[v] \in Definitive
    /\ pc[v] \in {"read repo", "write repo"} => RepoOf[move[v]] # NoRepo
    /\ pc[v] = "write global" => seen[v].row

CallsInv == /\ VerifyTypes
            /\ Global \in exists
            /\ \A v \in Calls : CallSane(v)

LEMMA ScopeOfSane ==
    ASSUME CallsInv, NEW v \in Calls, pc[v] \in PastRecord PROVE ScopeOf(v) \in Scopes
<1>1. CASE pc[v] \in {"read global", "write global"}
  BY <1>1 DEF ScopeOf, Scopes
<1>2. CASE pc[v] \in {"read repo", "write repo"}
  <2>1. move[v] \in Moves /\ RepoOf[move[v]] # NoRepo
    BY <1>2 DEF CallsInv, CallSane
  <2> QED BY <1>2, <2>1, VerifyMoveAssumption DEF ScopeOf, Scopes
<1> QED BY <1>1, <1>2 DEF PastRecord

(* What one step of the composition does to the calls.  Either one call    *)
(* moves, or the server restarts, or nothing here changes.                 *)
Got(v) ==
    /\ pc[v] = "verify"
    /\ pc' = [pc EXCEPT ![v] = "record"]
    /\ \E r \in Results : result' = [result EXCEPT ![v] = r]
    /\ UNCHANGED <<records, trustVars, move, seen, dropped, overlapped>>

StillVars == <<records, trustVars, callVars, dropped, overlapped>>

CallStep == \/ \E v \in Calls, m \in Moves : FetchMove(v, m)
            \/ \E v \in Calls : Got(v)
            \/ \E v \in Calls : RecordVerification(v)
            \/ \E v \in Calls : ReadScore(v)
            \/ \E v \in Calls : WriteScore(v)
            \/ ServerRestart
            \/ UNCHANGED StillVars

LEMMA CallSteps == [Next]_vars => CallStep
<1> SUFFICES ASSUME [Next]_vars PROVE CallStep
  OBVIOUS
<1>1. ASSUME NEW v \in Calls, NEW r \in Results, Verify(v, r) PROVE Got(v)
  BY <1>1 DEF Verify, GetResult, Got
<1>2. ASSUME NEW v \in Calls, RequestCapability(v) PROVE Got(v) \/ UNCHANGED StillVars
  BY <1>2 DEF RequestCapability, GetResult, Got, Results, StillVars
<1>3. ASSUME NEW i, NEW d, Decide(i, d) PROVE UNCHANGED StillVars
  BY <1>3 DEF Decide, StillVars
<1>4. CASE UNCHANGED vars
  BY <1>4 DEF vars, StillVars, CallStep
<1>5. ASSUME NEW v \in Calls, Call(v) PROVE CallStep
  <2>1. \/ (\E m \in Moves : FetchMove(v, m)) \/ (\E r \in Results : Verify(v, r))
        \/ RequestCapability(v) \/ RecordVerification(v) \/ ReadScore(v) \/ WriteScore(v)
    BY <1>5 DEF Call
  <2> QED BY <1>1, <1>2, <2>1 DEF CallStep
<1> QED BY <1>3, <1>4, <1>5 DEF Next, CallStep

LEMMA CallsInitial == Init => CallsInv
BY VerifyMoveAssumption
   DEF Init, CallsInv, VerifyTypes, CallSane, Scopes, NoRow, PastRecord

(* A step of call v leaves the others sane. *)
LEMMA OthersSane ==
    ASSUME CallsInv, NEW v \in Calls, VerifyTypes', CallSane(v)', exists \subseteq exists',
           \A w \in Calls \ {v} : /\ pc'[w] = pc[w] /\ move'[w] = move[w]
                                  /\ result'[w] = result[w] /\ seen'[w] = seen[w]
    PROVE  CallsInv'
<1>1. ASSUME NEW w \in Calls, w # v PROVE CallSane(w)'
  BY <1>1 DEF CallsInv, CallSane
<1> QED BY <1>1 DEF CallsInv

LEMMA CallsInvStep == CallsInv /\ CallStep => CallsInv'
<1> SUFFICES ASSUME CallsInv, CallStep PROVE CallsInv'
  OBVIOUS
<1>0. VerifyTypes /\ Global \in exists /\ \A v \in Calls : CallSane(v)
  BY DEF CallsInv
<1>1. ASSUME NEW v \in Calls, NEW m \in Moves, FetchMove(v, m) PROVE CallsInv'
  <2>1. VerifyTypes'
    BY <1>0, <1>1 DEF FetchMove, VerifyTypes, trustVars
  <2>2. CallSane(v)'
    BY <1>0, <1>1 DEF FetchMove, VerifyTypes, CallSane, PastRecord
  <2>3. \A w \in Calls \ {v} : /\ pc'[w] = pc[w] /\ move'[w] = move[w]
                               /\ result'[w] = result[w] /\ seen'[w] = seen[w]
    BY <1>0, <1>1 DEF FetchMove, VerifyTypes
  <2> QED BY <1>1, <2>1, <2>2, <2>3, OthersSane DEF FetchMove, trustVars
<1>2. ASSUME NEW v \in Calls, Got(v) PROVE CallsInv'
  <2>1. VerifyTypes'
    BY <1>0, <1>2 DEF Got, VerifyTypes, trustVars
  <2>2. CallSane(v)'
    BY <1>0, <1>2 DEF Got, VerifyTypes, CallSane, PastRecord
  <2>3. \A w \in Calls \ {v} : /\ pc'[w] = pc[w] /\ move'[w] = move[w]
                               /\ result'[w] = result[w] /\ seen'[w] = seen[w]
    BY <1>0, <1>2 DEF Got, VerifyTypes
  <2> QED BY <1>2, <2>1, <2>2, <2>3, OthersSane DEF Got, trustVars
<1>3. ASSUME NEW v \in Calls, RecordVerification(v) PROVE CallsInv'
  <2>1. move[v] \in Moves /\ result[v] \in Results /\ pc[v] = "record"
    BY <1>0, <1>3 DEF RecordVerification, CallSane
  <2>2. records' \in Seq([move : Moves, status : Results])
    <3> DEFINE R == [move : Moves, status : Results]
               x == [move |-> move[v], status |-> result[v]]
    <3>1. x \in R /\ records \in Seq(R) /\ records' = Append(records, x)
      BY <1>0, <1>3, <2>1 DEF RecordVerification, VerifyTypes
    <3> HIDE DEF R, x
    <3>2. records' \in Seq(R)
      BY <3>1, AppendProperties
    <3> QED BY <3>2 DEF R
  <2>3. /\ UNCHANGED <<score, sampleSize, exists, seen, dropped, overlapped>>
        /\ \/ /\ result[v] \in Definitive
              /\ pc' = [pc EXCEPT ![v] = "read global"] /\ UNCHANGED <<move, result>>
           \/ /\ pc' = [pc EXCEPT ![v] = "idle"] /\ move' = [move EXCEPT ![v] = NoMove]
              /\ result' = [result EXCEPT ![v] = "none"]
    BY <1>3 DEF RecordVerification, GoTo, Finish, trustVars
  <2>4. VerifyTypes'
    BY <1>0, <2>2, <2>3 DEF VerifyTypes, PastRecord
  <2>5. CallSane(v)'
    BY <1>0, <2>1, <2>3 DEF VerifyTypes, CallSane, PastRecord
  <2>6. \A w \in Calls \ {v} : /\ pc'[w] = pc[w] /\ move'[w] = move[w]
                               /\ result'[w] = result[w] /\ seen'[w] = seen[w]
    BY <1>0, <2>3 DEF VerifyTypes
  <2> QED BY <2>3, <2>4, <2>5, <2>6, OthersSane
<1>4. ASSUME NEW v \in Calls, ReadScore(v) PROVE CallsInv'
  <2>1. ScopeOf(v) \in Scopes
    BY <1>4, ScopeOfSane DEF ReadScore, PastRecord
  <2>2. /\ UNCHANGED <<records, score, sampleSize, exists, move, result, dropped, overlapped>>
        /\ seen' = [seen EXCEPT ![v] = [row |-> ScopeOf(v) \in exists,
                                        samples |-> score[ScopeOf(v)]]]
        /\ \/ /\ pc[v] = "read global" /\ ScopeOf(v) = Global
              /\ pc' = [pc EXCEPT ![v] = "write global"]
           \/ /\ pc[v] = "read repo" /\ pc' = [pc EXCEPT ![v] = "write repo"]
    BY <1>4 DEF ReadScore, GoTo, trustVars, ScopeOf
  <2>3. seen' \in [Calls -> [row : BOOLEAN, samples : Seq(Definitive)]]
    <3>1. [row |-> ScopeOf(v) \in exists, samples |-> score[ScopeOf(v)]]
          \in [row : BOOLEAN, samples : Seq(Definitive)]
      <4>1. (ScopeOf(v) \in exists) \in BOOLEAN /\ score[ScopeOf(v)] \in Seq(Definitive)
        BY <1>0, <2>1 DEF VerifyTypes
      <4> QED BY <4>1, Zenon
    <3> QED BY <1>0, <2>2, <3>1, Zenon DEF VerifyTypes
  <2>4. VerifyTypes'
    BY <1>0, <2>2, <2>3 DEF VerifyTypes, PastRecord
  <2>5. CallSane(v)'
    <3>1. seen'[v].row = (ScopeOf(v) \in exists)
      BY <1>0, <2>2 DEF VerifyTypes
    <3> QED BY <1>0, <2>2, <3>1 DEF VerifyTypes, CallSane, PastRecord
  <2>6. \A w \in Calls \ {v} : /\ pc'[w] = pc[w] /\ move'[w] = move[w]
                               /\ result'[w] = result[w] /\ seen'[w] = seen[w]
    BY <1>0, <2>2 DEF VerifyTypes
  <2> QED BY <2>2, <2>4, <2>5, <2>6, OthersSane
<1>5. ASSUME NEW v \in Calls, WriteScore(v) PROVE CallsInv'
  <2> DEFINE s == ScopeOf(v)
  <2>1. s \in Scopes /\ pc[v] \in {"write global", "write repo"} /\ result[v] \in Definitive
    BY <1>0, <1>5, ScopeOfSane DEF WriteScore, Writing, PastRecord, CallSane
  <2>2. /\ seen' = [seen EXCEPT ![v] = NoRow] /\ UNCHANGED records
        /\ \/ /\ score' = [score EXCEPT ![s] = Append(seen[v].samples, result[v])]
              /\ sampleSize' = [sampleSize EXCEPT ![s] = @ + 1]
              /\ exists' = exists \cup {s}
              /\ overlapped' \subseteq overlapped \cup {s}
              /\ UNCHANGED dropped
           \/ /\ dropped' = [dropped EXCEPT ![s] = @ + 1]
              /\ UNCHANGED <<score, sampleSize, exists, overlapped>>
    BY <1>5 DEF WriteScore, trustVars
  <2>3. \/ /\ pc[v] = "write global" /\ RepoOf[move[v]] # NoRepo
           /\ pc' = [pc EXCEPT ![v] = "read repo"] /\ UNCHANGED <<move, result>>
        \/ /\ pc' = [pc EXCEPT ![v] = "idle"] /\ move' = [move EXCEPT ![v] = NoMove]
           /\ result' = [result EXCEPT ![v] = "none"]
    BY <1>5 DEF WriteScore, Continue, GoTo, Finish
  <2>4. seen' \in [Calls -> [row : BOOLEAN, samples : Seq(Definitive)]]
    BY <1>0, <2>2 DEF VerifyTypes, NoRow
  <2>5. Append(seen[v].samples, result[v]) \in Seq(Definitive)
    <3>1. seen[v] \in [row : BOOLEAN, samples : Seq(Definitive)]
      BY <1>0 DEF VerifyTypes
    <3>2. seen[v].samples \in Seq(Definitive)
      BY <3>1
    <3> QED BY <2>1, <3>2, AppendProperties
  <2> HIDE DEF s
  <2>6. /\ score' \in [Scopes -> Seq(Definitive)] /\ sampleSize' \in [Scopes -> Nat]
        /\ exists' \in SUBSET Scopes /\ dropped' \in [Scopes -> Nat]
        /\ overlapped' \in SUBSET Scopes
    <3>1. score' \in [Scopes -> Seq(Definitive)]
      BY <1>0, <2>1, <2>2, <2>5, Zenon DEF VerifyTypes
    <3>2. sampleSize' \in [Scopes -> Nat] /\ dropped' \in [Scopes -> Nat]
      <4>1. /\ sampleSize' = [sampleSize EXCEPT ![s] = @ + 1] \/ UNCHANGED sampleSize
            /\ dropped' = [dropped EXCEPT ![s] = @ + 1] \/ UNCHANGED dropped
        BY <2>2
      <4>2. sampleSize \in [Scopes -> Nat] /\ dropped \in [Scopes -> Nat]
        BY <1>0 DEF VerifyTypes
      <4>3. sampleSize[s] \in Nat /\ dropped[s] \in Nat
        BY <2>1, <4>2, Zenon
      <4>4. sampleSize[s] + 1 \in Nat /\ dropped[s] + 1 \in Nat
        BY <4>3
      <4> QED BY <2>1, <4>1, <4>2, <4>4, Zenon
    <3>3. exists' \in SUBSET Scopes /\ overlapped' \in SUBSET Scopes
      BY <1>0, <2>1, <2>2 DEF VerifyTypes
    <3> QED BY <3>1, <3>2, <3>3
  <2>7. VerifyTypes'
    BY <1>0, <2>2, <2>3, <2>4, <2>6 DEF VerifyTypes, PastRecord
  <2>8. CallSane(v)'
    BY <1>0, <2>1, <2>3 DEF VerifyTypes, CallSane, PastRecord
  <2>9. \A w \in Calls \ {v} : /\ pc'[w] = pc[w] /\ move'[w] = move[w]
                               /\ result'[w] = result[w] /\ seen'[w] = seen[w]
    BY <1>0, <2>2, <2>3 DEF VerifyTypes
  <2> QED BY <2>2, <2>7, <2>8, <2>9, OthersSane
<1>6. CASE ServerRestart
  <2>1. \A s \in Scopes : DueTo(s) \in Nat
    BY VerifyMoveAssumption, FS_Subset, FS_CardinalityType DEF DueTo
  <2>2. VerifyTypes'
    BY <1>0, <1>6, <2>1 DEF ServerRestart, VerifyTypes, trustVars, NoRow
  <2> QED BY <1>0, <1>6, <2>2 DEF ServerRestart, CallsInv, CallSane, trustVars, PastRecord
<1>7. CASE UNCHANGED StillVars
  BY <1>0, <1>7 DEF StillVars, trustVars, callVars, CallsInv, VerifyTypes, CallSane
<1> QED BY <1>1, <1>2, <1>3, <1>4, <1>5, <1>6, <1>7 DEF CallStep

LEMMA CallsInvariant == Spec => []CallsInv
<1>1. Init => CallsInv
  BY CallsInitial
<1>2. CallsInv /\ [Next]_vars => CallsInv'
  BY CallSteps, CallsInvStep
<1> QED BY <1>1, <1>2, PTL DEF Spec

----------------------------------------------------------------------------
(* Scores.  A call about to write has read the score as it is, or another  *)
(* call has written the scope meanwhile.                                   *)
ScoreSeen ==
    \A v \in Calls : Writing(v) =>
        ScopeOf(v) \in overlapped \/ seen[v].samples = score[ScopeOf(v)]

ScoreInv == CallsInv /\ ScoreSeen /\ OnlyOverlapLosesSamples

(* A step that writes no score and lets no call begin to write one. *)
LEMMA NoWriteStep ==
    ASSUME ScoreInv, CallsInv', UNCHANGED trustVars, UNCHANGED overlapped,
           \A w \in Calls : Writing(w)' =>
               Writing(w) /\ pc'[w] = pc[w] /\ move'[w] = move[w] /\ seen'[w] = seen[w]
    PROVE  ScoreInv'
<1>1. OnlyOverlapLosesSamples'
  BY DEF ScoreInv, OnlyOverlapLosesSamples, trustVars
<1>2. ASSUME NEW w \in Calls, Writing(w)'
      PROVE  (ScopeOf(w) \in overlapped \/ seen[w].samples = score[ScopeOf(w)])'
  <2>1. ScopeOf(w)' = ScopeOf(w)
    BY <1>2 DEF ScopeOf
  <2>2. ScopeOf(w) \in overlapped \/ seen[w].samples = score[ScopeOf(w)]
    BY <1>2 DEF ScoreInv, ScoreSeen
  <2> QED BY <1>2, <2>1, <2>2 DEF trustVars
<1> QED BY <1>1, <1>2 DEF ScoreInv, ScoreSeen

LEMMA ScoreStep == ScoreInv /\ CallStep => ScoreInv'
<1> SUFFICES ASSUME ScoreInv, CallStep PROVE ScoreInv'
  OBVIOUS
<1>0. CallsInv /\ VerifyTypes /\ ScoreSeen /\ OnlyOverlapLosesSamples /\ CallsInv'
  BY CallsInvStep DEF ScoreInv, CallsInv
<1>1. ASSUME NEW v \in Calls, NEW m \in Moves, FetchMove(v, m) PROVE ScoreInv'
  <2>1. \A w \in Calls : Writing(w)' =>
            Writing(w) /\ pc'[w] = pc[w] /\ move'[w] = move[w] /\ seen'[w] = seen[w]
    BY <1>0, <1>1 DEF FetchMove, Writing, VerifyTypes
  <2> QED BY <1>0, <1>1, <2>1, NoWriteStep DEF FetchMove
<1>2. ASSUME NEW v \in Calls, Got(v) PROVE ScoreInv'
  <2>1. \A w \in Calls : Writing(w)' =>
            Writing(w) /\ pc'[w] = pc[w] /\ move'[w] = move[w] /\ seen'[w] = seen[w]
    BY <1>0, <1>2 DEF Got, Writing, VerifyTypes
  <2> QED BY <1>0, <1>2, <2>1, NoWriteStep DEF Got
<1>3. ASSUME NEW v \in Calls, RecordVerification(v) PROVE ScoreInv'
  <2>1. \A w \in Calls : Writing(w)' =>
            Writing(w) /\ pc'[w] = pc[w] /\ move'[w] = move[w] /\ seen'[w] = seen[w]
    BY <1>0, <1>3 DEF RecordVerification, GoTo, Finish, Writing, VerifyTypes
  <2> QED BY <1>0, <1>3, <2>1, NoWriteStep DEF RecordVerification
<1>4. ASSUME NEW v \in Calls, ReadScore(v) PROVE ScoreInv'
  <2> DEFINE s == ScopeOf(v)
  <2>1. /\ UNCHANGED <<score, sampleSize, move, overlapped>>
        /\ seen'[v].samples = score[s]
        /\ pc[v] = "read global" => pc'[v] = "write global"
        /\ pc[v] = "read repo" => pc'[v] = "write repo"
        /\ pc[v] \in {"read global", "read repo"}
        /\ \A w \in Calls \ {v} : pc'[w] = pc[w] /\ seen'[w] = seen[w]
    BY <1>0, <1>4 DEF ReadScore, GoTo, trustVars, VerifyTypes
  <2>2. OnlyOverlapLosesSamples'
    BY <1>0, <2>1 DEF OnlyOverlapLosesSamples
  <2>3. ScopeOf(v)' = s
    BY <2>1 DEF ScopeOf
  <2>4. ASSUME NEW w \in Calls, w # v, Writing(w)'
        PROVE  (ScopeOf(w) \in overlapped \/ seen[w].samples = score[ScopeOf(w)])'
    <3>1. Writing(w) /\ ScopeOf(w)' = ScopeOf(w)
      BY <2>1, <2>4 DEF Writing, ScopeOf
    <3> QED BY <1>0, <2>1, <2>4, <3>1 DEF ScoreSeen
  <2>5. seen'[v].samples = score'[ScopeOf(v)']
    BY <2>1, <2>3
  <2> QED BY <1>0, <2>2, <2>4, <2>5 DEF ScoreInv, ScoreSeen
<1>5. ASSUME NEW v \in Calls, WriteScore(v) PROVE ScoreInv'
  <2> DEFINE s == ScopeOf(v)
  <2>1. s \in Scopes /\ Writing(v) /\ result[v] \in Definitive /\ seen[v].samples \in Seq(Definitive)
    <3>1. seen[v] \in [row : BOOLEAN, samples : Seq(Definitive)]
      BY <1>0 DEF VerifyTypes
    <3> QED BY <1>0, <1>5, <3>1, ScopeOfSane
            DEF WriteScore, Writing, PastRecord, CallsInv, CallSane
  <2>2. /\ ~Writing(v)'
        /\ \A w \in Calls \ {v} : pc'[w] = pc[w] /\ move'[w] = move[w] /\ seen'[w] = seen[w]
    BY <1>0, <1>5 DEF WriteScore, Continue, GoTo, Finish, Writing, VerifyTypes
  <2>3. ASSUME NEW w \in Calls, Writing(w)'
        PROVE  w # v /\ Writing(w) /\ ScopeOf(w)' = ScopeOf(w) /\ seen'[w] = seen[w]
    BY <2>2, <2>3 DEF Writing, ScopeOf
  <2>4. CASE UNCHANGED trustVars /\ UNCHANGED overlapped
    <3>1. OnlyOverlapLosesSamples'
      BY <1>0, <2>4 DEF OnlyOverlapLosesSamples, trustVars
    <3>2. ScoreSeen'
      BY <1>0, <2>3, <2>4 DEF ScoreSeen, trustVars
    <3> QED BY <1>0, <3>1, <3>2 DEF ScoreInv
  <2>5. CASE /\ score' = [score EXCEPT ![s] = Append(seen[v].samples, result[v])]
             /\ sampleSize' = [sampleSize EXCEPT ![s] = @ + 1]
             /\ overlapped' = IF \E w \in Calls \ {v} : Writing(w) /\ ScopeOf(w) = s
                              THEN overlapped \cup {s} ELSE overlapped
    <3>1. ASSUME NEW w \in Calls, Writing(w)'
          PROVE  (ScopeOf(w) \in overlapped \/ seen[w].samples = score[ScopeOf(w)])'
      <4>1. CASE ScopeOf(w) = s
        BY <2>3, <2>5, <3>1, <4>1
      <4>2. CASE ScopeOf(w) # s
        <5>1. ScopeOf(w) \in Scopes
          BY <1>0, <2>3, <3>1, ScopeOfSane DEF Writing, PastRecord
        <5>2. score'[ScopeOf(w)] = score[ScopeOf(w)]
          BY <1>0, <2>5, <4>2, <5>1 DEF VerifyTypes
        <5>3. ScopeOf(w) \in overlapped \/ seen[w].samples = score[ScopeOf(w)]
          BY <1>0, <2>3, <3>1 DEF ScoreSeen
        <5> QED BY <2>3, <2>5, <3>1, <5>2, <5>3
      <4> QED BY <4>1, <4>2
    <3>2. ASSUME NEW t \in Scopes, t \notin overlapped' PROVE Len(score'[t]) = sampleSize'[t]
      <4>1. t \notin overlapped /\ Len(score[t]) = sampleSize[t]
        BY <1>0, <2>5, <3>2 DEF OnlyOverlapLosesSamples
      <4>2. CASE t = s
        <5>1. seen[v].samples = score[s]
          BY <1>0, <2>1, <4>1, <4>2 DEF ScoreSeen
        <5>2. score'[t] = Append(score[t], result[v]) /\ sampleSize'[t] = sampleSize[t] + 1
          BY <1>0, <2>1, <2>5, <4>2, <5>1 DEF VerifyTypes
        <5>3. Len(Append(score[t], result[v])) = Len(score[t]) + 1
          BY <2>1, <4>2, <5>1, AppendProperties
        <5> QED BY <4>1, <5>2, <5>3
      <4>3. CASE t # s
        BY <1>0, <2>1, <2>5, <4>1, <4>3 DEF VerifyTypes
      <4> QED BY <4>2, <4>3
    <3> QED BY <1>0, <3>1, <3>2 DEF ScoreInv, ScoreSeen, OnlyOverlapLosesSamples
  <2> QED BY <1>5, <2>4, <2>5 DEF WriteScore
<1>6. CASE ServerRestart
  <2>1. \A w \in Calls : ~Writing(w)'
    BY <1>6 DEF ServerRestart, Writing
  <2> QED BY <1>0, <1>6, <2>1, NoWriteStep DEF ServerRestart
<1>7. CASE UNCHANGED StillVars
  <2>1. \A w \in Calls : Writing(w)' =>
            Writing(w) /\ pc'[w] = pc[w] /\ move'[w] = move[w] /\ seen'[w] = seen[w]
    BY <1>7 DEF StillVars, callVars, Writing
  <2> QED BY <1>0, <1>7, <2>1, NoWriteStep DEF StillVars
<1> QED BY <1>1, <1>2, <1>3, <1>4, <1>5, <1>6, <1>7 DEF CallStep

(* update_trust_score loses a sample only to a call that read the score    *)
(* before another one wrote it; restarts and refused inserts lose none.    *)
THEOREM SamplesAreKept == Spec => []OnlyOverlapLosesSamples
<1>1. Init => ScoreInv
  BY CallsInitial DEF Init, ScoreInv, ScoreSeen, OnlyOverlapLosesSamples, Writing
<1>2. ScoreInv /\ [Next]_vars => ScoreInv'
  BY CallSteps, ScoreStep
<1>3. ScoreInv => OnlyOverlapLosesSamples
  BY DEF ScoreInv
<1> QED BY <1>1, <1>2, <1>3, PTL DEF Spec

(* Only a restart changes the token of the process, and restarts are counted. *)
LEMMA RestartsInvariant == Spec => [](hasToken \in BOOLEAN /\ restarts \in 0..MaxRestarts)
<1> DEFINE I == hasToken \in BOOLEAN /\ restarts \in 0..MaxRestarts
<1>1. Init => I
  BY VerifyMoveAssumption DEF Init
<1>2. I /\ [Next]_vars => I'
  <2> SUFFICES ASSUME I, [Next]_vars PROVE I'
    OBVIOUS
  <2>1. CASE ServerRestart
    BY <2>1, VerifyMoveAssumption DEF ServerRestart
  <2>2. CASE ~ServerRestart
    <3>1. UNCHANGED serverVars
      BY <2>2 DEF Next, vars, Call, FetchMove, Verify, RequestCapability, GetResult,
                  RecordVerification, ReadScore, WriteScore, Decide
    <3> QED BY <3>1 DEF serverVars
  <2> QED BY <2>1, <2>2
<1> QED BY <1>1, <1>2, PTL DEF Spec

(* The rows, scores, calls and requests keep their types. *)
THEOREM TypeCorrect == Spec => []TypeOK
<1>1. CapInv /\ CallsInv /\ hasToken \in BOOLEAN /\ restarts \in 0..MaxRestarts => TypeOK
  BY DEF CapInv, CallsInv, VerifyTypes, PastRecord, TypeOK
<1> QED BY <1>1, CapInvariant, CallsInvariant, RestartsInvariant, PTL

----------------------------------------------------------------------------
(* Accounts.  The nudges that are due change with one call at a time.      *)
LEMMA DueCount ==
    ASSUME NEW v \in Calls, NEW s,
           \A w \in Calls \ {v} : pc'[w] = pc[w] /\ move'[w] = move[w]
    PROVE  /\ DueTo(s) \in Nat /\ DueTo(s)' \in Nat
           /\ (s \in Due(v) <=> s \in Due(v)') => DueTo(s)' = DueTo(s)
           /\ s \notin Due(v) /\ s \in Due(v)' => DueTo(s)' = DueTo(s) + 1
           /\ s \in Due(v) /\ s \notin Due(v)' => DueTo(s) = DueTo(s)' + 1
<1> DEFINE D == {w \in Calls : s \in Due(w)}
           E == {w \in Calls : s \in Due(w)'}
<1>1. \A w \in Calls \ {v} : Due(w)' = Due(w)
  BY DEF Due
<1>2. IsFiniteSet(D) /\ IsFiniteSet(E)
  BY VerifyMoveAssumption, FS_Subset
<1>3. DueTo(s) = Cardinality(D) /\ DueTo(s)' = Cardinality(E)
  BY DEF DueTo
<1>4. /\ (s \in Due(v) <=> s \in Due(v)') => E = D
      /\ s \notin Due(v) /\ s \in Due(v)' => E = D \cup {v} /\ v \notin D
      /\ s \in Due(v) /\ s \notin Due(v)' => D = E \cup {v} /\ v \notin E
  BY <1>1
<1> HIDE DEF D, E
<1>5. Cardinality(D) \in Nat /\ Cardinality(E) \in Nat
  BY <1>2, FS_CardinalityType
<1>6. v \notin D => Cardinality(D \cup {v}) = Cardinality(D) + 1
  BY <1>2, FS_AddElement
<1>7. v \notin E => Cardinality(E \cup {v}) = Cardinality(E) + 1
  BY <1>2, FS_AddElement
<1> QED BY <1>3, <1>4, <1>5, <1>6, <1>7

(* A record more is one more of the definitive ones of its scopes.         *)
LEMMA RecordCount ==
    ASSUME VerifyTypes, NEW m \in Moves, NEW r \in Results, NEW s,
           records' = Append(records, [move |-> m, status |-> r])
    PROVE  /\ Cardinality(DefinitiveRecords(s)) \in Nat
           /\ Cardinality(DefinitiveRecords(s)') =
                 IF r \in Definitive /\ (s = Global \/ s = RepoOf[m])
                 THEN Cardinality(DefinitiveRecords(s)) + 1
                 ELSE Cardinality(DefinitiveRecords(s))
<1> DEFINE n == Len(records) + 1
           x == [move |-> m, status |-> r]
           R == [move : Moves, status : Results]
<1>1. records \in Seq(R) /\ x \in R
  BY DEF VerifyTypes
<1>2. /\ DOMAIN records = 1..Len(records) /\ Len(records) \in Nat
      /\ DOMAIN records' = 1..n
      /\ records'[n] = x /\ \A i \in 1..Len(records) : records'[i] = records[i]
  <2> HIDE DEF x, R
  <2>1. records' = Append(records, x)
    BY DEF x
  <2> QED BY <1>1, <2>1, AppendProperties, LenProperties
<1>3. x.status = r /\ x.move = m
  OBVIOUS
<1>4. IsFiniteSet(DefinitiveRecords(s))
  <2>1. IsFiniteSet(1..Len(records))
    BY <1>2, FS_Interval
  <2> QED BY <1>2, <2>1, FS_Subset DEF DefinitiveRecords
<1>5. n \notin DefinitiveRecords(s)
  BY <1>2 DEF DefinitiveRecords
<1>6. DefinitiveRecords(s)' = IF r \in Definitive /\ (s = Global \/ s = RepoOf[m])
                             THEN DefinitiveRecords(s) \cup {n}
                             ELSE DefinitiveRecords(s)
  <2> HIDE DEF x
  <2>1. DOMAIN records' = DOMAIN records \cup {n} /\ n \notin DOMAIN records
    BY <1>2
  <2>2. \A i \in DOMAIN records : records'[i] = records[i]
    BY <1>2
  <2>3. records'[n].status = r /\ records'[n].move = m
    BY <1>2, <1>3
  <2> HIDE DEF n
  <2> QED BY <2>1, <2>2, <2>3 DEF DefinitiveRecords, Concerns
<1> HIDE DEF n, x, R
<1>7. Cardinality(DefinitiveRecords(s)) \in Nat
  BY <1>4, FS_CardinalityType
<1>8. Cardinality(DefinitiveRecords(s) \cup {n}) = Cardinality(DefinitiveRecords(s)) + 1
  BY <1>4, <1>5, FS_AddElement
<1>9. CASE r \in Definitive /\ (s = Global \/ s = RepoOf[m])
  <2>1. DefinitiveRecords(s)' = DefinitiveRecords(s) \cup {n}
    BY <1>6, <1>9
  <2> QED BY <1>7, <1>8, <1>9, <2>1, Zenon
<1>10. CASE ~(r \in Definitive /\ (s = Global \/ s = RepoOf[m]))
  <2>1. DefinitiveRecords(s)' = DefinitiveRecords(s)
    BY <1>6, <1>10
  <2> QED BY <1>7, <1>10, <2>1, Zenon
<1> QED BY <1>9, <1>10

AccountInv == CallsInv /\ SamplesAccounted

(* A step that touches neither records nor counters and leaves what is due.*)
LEMMA NoAccountStep ==
    ASSUME AccountInv, CallsInv', UNCHANGED <<records, sampleSize, dropped>>, NEW v \in Calls,
           \A w \in Calls \ {v} : pc'[w] = pc[w] /\ move'[w] = move[w],
           Due(v)' = Due(v)
    PROVE  AccountInv'
<1>1. ASSUME NEW s \in Scopes
      PROVE  (sampleSize[s] + DueTo(s) + dropped[s] = Cardinality(DefinitiveRecords(s)))'
  <2>1. DueTo(s)' = DueTo(s)
    BY DueCount
  <2>2. DefinitiveRecords(s)' = DefinitiveRecords(s)
    BY DEF DefinitiveRecords, Concerns
  <2>3. sampleSize[s] + DueTo(s) + dropped[s] = Cardinality(DefinitiveRecords(s))
    BY DEF AccountInv, SamplesAccounted
  <2> QED BY <2>1, <2>2, <2>3
<1> QED BY <1>1 DEF AccountInv, SamplesAccounted

LEMMA AccountStep == AccountInv /\ CallStep => AccountInv'
<1> SUFFICES ASSUME AccountInv, CallStep PROVE AccountInv'
  OBVIOUS
<1>0. CallsInv /\ VerifyTypes /\ SamplesAccounted /\ CallsInv'
  BY CallsInvStep DEF AccountInv, CallsInv
<1>1. ASSUME NEW v \in Calls, NEW m \in Moves, FetchMove(v, m) PROVE AccountInv'
  <2>1. Due(v)' = Due(v) /\ \A w \in Calls \ {v} : pc'[w] = pc[w] /\ move'[w] = move[w]
    BY <1>0, <1>1 DEF FetchMove, Due, VerifyTypes
  <2> QED BY <1>0, <1>1, <2>1, NoAccountStep DEF FetchMove, trustVars
<1>2. ASSUME NEW v \in Calls, Got(v) PROVE AccountInv'
  <2>1. Due(v)' = Due(v) /\ \A w \in Calls \ {v} : pc'[w] = pc[w] /\ move'[w] = move[w]
    BY <1>0, <1>2 DEF Got, Due, VerifyTypes
  <2> QED BY <1>0, <1>2, <2>1, NoAccountStep DEF Got, trustVars
<1>3. ASSUME NEW v \in Calls, RecordVerification(v) PROVE AccountInv'
  <2>1. move[v] \in Moves /\ result[v] \in Results /\ pc[v] = "record"
    BY <1>0, <1>3 DEF RecordVerification, CallsInv, CallSane
  <2>2. \A w \in Calls \ {v} : pc'[w] = pc[w] /\ move'[w] = move[w]
    BY <1>0, <1>3 DEF RecordVerification, GoTo, Finish, VerifyTypes
  <2>3. /\ UNCHANGED <<sampleSize, dropped>>
        /\ records' = Append(records, [move |-> move[v], status |-> result[v]])
    BY <1>3 DEF RecordVerification, trustVars
  <2>4. ASSUME NEW s \in Scopes
        PROVE  (sampleSize[s] + DueTo(s) + dropped[s] = Cardinality(DefinitiveRecords(s)))'
    <3>1. s \notin Due(v)
      BY <2>1 DEF Due
    <3>2. s \in Due(v)' <=> result[v] \in Definitive /\ (s = Global \/ s = RepoOf[move[v]])
      <4>1. CASE result[v] \in Definitive
        <5>1. pc'[v] = "read global" /\ move'[v] = move[v]
          BY <1>0, <1>3, <4>1 DEF RecordVerification, GoTo, VerifyTypes
        <5>2. s = NoRepo => s = Global
          BY VerifyMoveAssumption DEF Scopes
        <5> QED BY <4>1, <5>1, <5>2 DEF Due
      <4>2. CASE result[v] \notin Definitive
        <5>1. pc'[v] = "idle"
          BY <1>0, <1>3, <4>2 DEF RecordVerification, Finish, VerifyTypes
        <5> QED BY <4>2, <5>1 DEF Due
      <4> QED BY <4>1, <4>2
    <3>3. sampleSize[s] \in Nat /\ dropped[s] \in Nat
      BY <1>0 DEF VerifyTypes
    <3>4. sampleSize[s] + DueTo(s) + dropped[s] = Cardinality(DefinitiveRecords(s))
      BY <1>0 DEF SamplesAccounted
    <3>5. /\ DueTo(s) \in Nat /\ DueTo(s)' \in Nat
          /\ DueTo(s)' = IF result[v] \in Definitive /\ (s = Global \/ s = RepoOf[move[v]])
                         THEN DueTo(s) + 1 ELSE DueTo(s)
      BY <2>2, <3>1, <3>2, DueCount
    <3>6. /\ Cardinality(DefinitiveRecords(s)) \in Nat
          /\ Cardinality(DefinitiveRecords(s)') =
                IF result[v] \in Definitive /\ (s = Global \/ s = RepoOf[move[v]])
                THEN Cardinality(DefinitiveRecords(s)) + 1
                ELSE Cardinality(DefinitiveRecords(s))
      BY <1>0, <2>1, <2>3, RecordCount
    <3> QED BY <2>3, <3>3, <3>4, <3>5, <3>6
  <2> QED BY <1>0, <2>4 DEF AccountInv, SamplesAccounted
<1>4. ASSUME NEW v \in Calls, ReadScore(v) PROVE AccountInv'
  <2>1. Due(v)' = Due(v) /\ \A w \in Calls \ {v} : pc'[w] = pc[w] /\ move'[w] = move[w]
    BY <1>0, <1>4 DEF ReadScore, GoTo, Due, VerifyTypes
  <2> QED BY <1>0, <1>4, <2>1, NoAccountStep DEF ReadScore, trustVars
<1>5. ASSUME NEW v \in Calls, WriteScore(v) PROVE AccountInv'
  <2> DEFINE t == ScopeOf(v)
  <2>1. t \in Scopes /\ pc[v] \in {"write global", "write repo"} /\ move[v] \in Moves
    BY <1>0, <1>5, ScopeOfSane DEF WriteScore, Writing, PastRecord, CallsInv, CallSane
  <2>2. \A w \in Calls \ {v} : pc'[w] = pc[w] /\ move'[w] = move[w]
    BY <1>0, <1>5 DEF WriteScore, Continue, GoTo, Finish, VerifyTypes
  <2>3. /\ UNCHANGED records
        /\ \/ sampleSize' = [sampleSize EXCEPT ![t] = @ + 1] /\ UNCHANGED dropped
           \/ dropped' = [dropped EXCEPT ![t] = @ + 1] /\ UNCHANGED sampleSize
    BY <1>5 DEF WriteScore, trustVars
  <2>4. \/ /\ pc[v] = "write global" /\ RepoOf[move[v]] # NoRepo
           /\ pc'[v] = "read repo" /\ move'[v] = move[v]
        \/ /\ pc[v] = "write global" => RepoOf[move[v]] = NoRepo
           /\ pc'[v] = "idle"
    <3>1. pc[v] = "write global" => seen[v].row /\ ScopeOf(v) \in exists
      BY <1>0 DEF CallsInv, CallSane, ScopeOf
    <3>2. pc[v] = "write global" => Continue(v)
      BY <1>5, <3>1 DEF WriteScore
    <3>3. Continue(v) \/ Finish(v)
      BY <1>5 DEF WriteScore
    <3> QED BY <1>0, <2>1, <3>2, <3>3 DEF Continue, GoTo, Finish, VerifyTypes
  <2>5. ASSUME NEW s \in Scopes
        PROVE  (s \in Due(v) <=> s \in Due(v)' \/ s = t) /\ t \notin Due(v)'
    <3>1. CASE pc[v] = "write global"
      <4>1. t = Global
        BY <3>1 DEF ScopeOf
      <4>2. RepoOf[move[v]] = NoRepo \/ RepoOf[move[v]] # Global
        BY <2>1, VerifyMoveAssumption
      <4> HIDE DEF t
      <4> QED BY <2>4, <3>1, <4>1, <4>2 DEF Due
    <3>2. CASE pc[v] = "write repo"
      <4>1. t = RepoOf[move[v]] /\ t # NoRepo
        BY <1>0, <3>2 DEF ScopeOf, CallsInv, CallSane
      <4> HIDE DEF t
      <4> QED BY <2>4, <3>2, <4>1 DEF Due
    <3> QED BY <2>1, <3>1, <3>2
  <2> HIDE DEF t
  <2>6. ASSUME NEW s \in Scopes
        PROVE  (sampleSize[s] + DueTo(s) + dropped[s] = Cardinality(DefinitiveRecords(s)))'
    <3>1. sampleSize[s] \in Nat /\ dropped[s] \in Nat
      BY <1>0 DEF VerifyTypes
    <3>2. sampleSize[s] + DueTo(s) + dropped[s] = Cardinality(DefinitiveRecords(s))
      BY <1>0 DEF SamplesAccounted
    <3>3. DefinitiveRecords(s)' = DefinitiveRecords(s)
      BY <2>3 DEF DefinitiveRecords, Concerns
    <3>4. /\ DueTo(s) \in Nat /\ DueTo(s)' \in Nat
          /\ s = t => DueTo(s) = DueTo(s)' + 1
          /\ s # t => DueTo(s)' = DueTo(s)
      BY <2>2, <2>5, DueCount
    <3>5. /\ s # t => sampleSize'[s] = sampleSize[s] /\ dropped'[s] = dropped[s]
          /\ s = t => \/ sampleSize'[s] = sampleSize[s] + 1 /\ dropped'[s] = dropped[s]
                      \/ sampleSize'[s] = sampleSize[s] /\ dropped'[s] = dropped[s] + 1
      BY <1>0, <2>3 DEF VerifyTypes
    <3> QED BY <3>1, <3>2, <3>3, <3>4, <3>5
  <2> QED BY <1>0, <2>6 DEF AccountInv, SamplesAccounted
<1>6. CASE ServerRestart
  <2>1. ASSUME NEW s \in Scopes
        PROVE  (sampleSize[s] + DueTo(s) + dropped[s] = Cardinality(DefinitiveRecords(s)))'
    <3>1. sampleSize[s] \in Nat /\ dropped[s] \in Nat /\ DueTo(s) \in Nat
      BY <1>0, VerifyMoveAssumption, FS_Subset, FS_CardinalityType DEF VerifyTypes, DueTo
    <3>2. sampleSize[s] + DueTo(s) + dropped[s] = Cardinality(DefinitiveRecords(s))
      BY <1>0 DEF SamplesAccounted
    <3>3. DefinitiveRecords(s)' = DefinitiveRecords(s)
      BY <1>6 DEF ServerRestart, DefinitiveRecords, Concerns
    <3>4. DueTo(s)' = 0
      <4>1. {v \in Calls : s \in Due(v)}' = {}
        BY <1>6 DEF ServerRestart, Due
      <4> QED BY <4>1, FS_EmptySet DEF DueTo
    <3>5. dropped'[s] = dropped[s] + DueTo(s) /\ sampleSize'[s] = sampleSize[s]
      BY <1>6 DEF ServerRestart, trustVars
    <3> QED BY <3>1, <3>2, <3>3, <3>4, <3>5
  <2> QED BY <1>0, <2>1 DEF AccountInv, SamplesAccounted
<1>7. CASE UNCHANGED StillVars
  BY <1>0, <1>7 DEF StillVars, trustVars, callVars, AccountInv, SamplesAccounted, DueTo, Due,
                    DefinitiveRecords, Concerns
<1> QED BY <1>1, <1>2, <1>3, <1>4, <1>5, <1>6, <1>7 DEF CallStep

(* verify_move nudges the scores of a scope once for each definitive       *)
(* record that concerns it, but for the nudges that are still due, were    *)
(* cut off by a restart, or were refused as a second insert.               *)
THEOREM SamplesAreAccounted == Spec => []SamplesAccounted
<1>1. Init => AccountInv
  <2> SUFFICES ASSUME Init, NEW s \in Scopes
               PROVE  sampleSize[s] + DueTo(s) + dropped[s] = Cardinality(DefinitiveRecords(s))
    BY CallsInitial DEF AccountInv, SamplesAccounted
  <2>1. {v \in Calls : s \in Due(v)} = {} /\ DefinitiveRecords(s) = {}
    <3>1. records = <<>> /\ \A v \in Calls : pc[v] = "idle"
      BY DEF Init
    <3>2. DOMAIN records = {}
      BY <3>1
    <3>3. \A v \in Calls : Due(v) = {}
      BY <3>1 DEF Due
    <3> QED BY <3>2, <3>3 DEF DefinitiveRecords
  <2>2. DueTo(s) = 0 /\ Cardinality(DefinitiveRecords(s)) = 0
    BY <2>1, FS_EmptySet DEF DueTo
  <2> QED BY <2>2 DEF Init
<1>2. AccountInv /\ [Next]_vars => AccountInv'
  BY CallSteps, AccountStep
<1>3. AccountInv => SamplesAccounted
  BY DEF AccountInv
<1> QED BY <1>1, <1>2, <1>3, PTL DEF Spec
=============================================================================
