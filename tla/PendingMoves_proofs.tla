------------------------- MODULE PendingMoves_proofs -------------------------
(* Theorems about the approval queue, for any number of moves, droids,     *)
(* releases and claims that are cut off.                                   *)
EXTENDS PendingMoves, TLAPS

LEMMA TypeInit == Init => TypeOK
BY PendingMovesAssumption DEF Init, TypeOK, Statuses, Verdicts

LEMMA CallType ==
    ASSUME NEW c \in ReleaseCall
    PROVE  [c EXCEPT !.repeat = TRUE] \in ReleaseCall
           /\ [c EXCEPT !.repeat = TRUE].move = c.move
           /\ [c EXCEPT !.repeat = TRUE].runner = c.runner
           /\ [c EXCEPT !.repeat = TRUE].repeat
BY DEF ReleaseCall

LEMMA TypeStep == TypeOK /\ [Next]_vars => TypeOK'
<1> SUFFICES ASSUME TypeOK, [Next]_vars PROVE TypeOK'
  OBVIOUS
<1> USE PendingMovesAssumption DEF TypeOK, rowVars, claimVars, callVars
<1>1. ASSUME NEW m \in Moves, NEW k \in Kinds, NEW n \in Priorities, EnqueuePendingMove(m, k, n)
      PROVE  TypeOK'
  BY <1>1 DEF EnqueuePendingMove, Statuses
<1>2. ASSUME NEW ids \in SUBSET Moves, NEW v \in {"approved", "rejected"}, Decide(ids, v)
      PROVE  TypeOK'
  BY <1>2 DEF Decide, Statuses, Verdicts
<1>3. ASSUME NEW d \in Droids, Claim(d) PROVE TypeOK'
  <2>1. ASSUME NEW r \in Requests, StartClaim(d, r) PROVE TypeOK'
    BY <2>1 DEF StartClaim
  <2>2. CASE SelectForUpdate(d)
    <3>1. batch' \in [Droids -> SUBSET Moves]
      BY <2>2 DEF SelectForUpdate, First
    <3> QED BY <2>2, <3>1 DEF SelectForUpdate
  <2>3. CASE UpdateClaimed(d)
    BY <2>3 DEF UpdateClaimed, Statuses
  <2>4. CASE Answer(d)
    BY <2>4 DEF Answer, Finish
  <2> QED BY <1>3, <2>1, <2>2, <2>3, <2>4 DEF Claim
<1>4. ASSUME NEW d \in Droids, LoseClaim(d) PROVE TypeOK'
  <2>1. lost' \in SUBSET Moves
    BY <1>4 DEF LoseClaim
  <2> QED BY <1>4, <2>1 DEF LoseClaim, Finish
<1>5. ASSUME NEW d \in Droids, NEW m \in Moves, SendRelease(d, m) PROVE TypeOK'
  <2>1. calls' \in SUBSET ReleaseCall
    <3>1. [move |-> m, runner |-> d, repeat |-> FALSE] \in ReleaseCall
      BY DEF ReleaseCall
    <3> QED BY <1>5, <3>1 DEF SendRelease
  <2> QED BY <1>5, <2>1 DEF SendRelease
<1>6. ASSUME NEW d \in Droids, NEW m \in Moves, Apply(d, m) PROVE TypeOK'
  BY <1>6 DEF Apply, Statuses
<1>7. ASSUME NEW c \in calls, ReceiveRelease(c) PROVE TypeOK'
  <2>1. c \in ReleaseCall /\ c.move \in Moves
    BY DEF ReleaseCall
  <2>2. calls' \in SUBSET ReleaseCall /\ repeated' \in SUBSET (Droids \X Moves)
    BY <1>7, <2>1, CallType DEF ReceiveRelease, ReleaseCall
  <2>3. /\ status' \in [Moves -> Statuses] /\ claimedBy' \in [Moves -> Droids \cup {Nobody}]
        /\ UNCHANGED <<kind, priority>>
    BY <1>7, <2>1 DEF ReceiveRelease, DirectorReleaseClaim, Statuses
  <2> QED BY <1>7, <2>2, <2>3 DEF ReceiveRelease
<1>8. CASE UNCHANGED vars
  BY <1>8 DEF vars
<1> QED BY <1>1, <1>2, <1>3, <1>4, <1>5, <1>6, <1>7, <1>8
        DEF Next, Human, Droid, DirectorApproveMove, DirectorRejectMove, DirectorBulkApprove

(* The rows, the calls and the history keep their types. *)
THEOREM TypeCorrect == Spec => []TypeOK
BY TypeInit, TypeStep, PTL DEF Spec

----------------------------------------------------------------------------
(* The human gate.  A row that waits for the human has no verdict yet.     *)
Undecided == \A m \in Moves : status[m] \in {"absent", "pending"} => verdict[m] = "none"

GateInv == TypeOK /\ HumanGate /\ Undecided

LEMMA GateInit == Init => GateInv
BY TypeInit DEF Init, GateInv, HumanGate, Undecided

LEMMA GateStep == GateInv /\ [Next]_vars => GateInv'
<1> SUFFICES ASSUME GateInv, [Next]_vars PROVE GateInv'
  OBVIOUS
<1>0. TypeOK /\ TypeOK' /\ HumanGate /\ Undecided
  BY TypeStep DEF GateInv
<1> USE <1>0 DEF GateInv, rowVars, claimVars, callVars
<1>1. ASSUME NEW m \in Moves, NEW k \in Kinds, NEW n \in Priorities, EnqueuePendingMove(m, k, n)
      PROVE  GateInv'
  BY <1>1 DEF EnqueuePendingMove, NextRow, HumanGate, Undecided, TypeOK
<1>2. ASSUME NEW ids \in SUBSET Moves, NEW v \in {"approved", "rejected"}, Decide(ids, v)
      PROVE  GateInv'
  <2>1. /\ UNCHANGED <<holds, batch>>
        /\ \A m \in Moves :
              \/ status'[m] = status[m] /\ verdict'[m] = verdict[m]
              \/ status[m] = "pending" /\ status'[m] = v /\ verdict'[m] = v
    BY <1>2 DEF Decide, TypeOK
  <2>2. HumanGate'
    BY <2>1 DEF HumanGate, Undecided
  <2>3. Undecided'
    BY <2>1 DEF Undecided
  <2> QED BY <2>2, <2>3
<1>3. ASSUME UNCHANGED verdict,
             \A m \in Moves :
                \/ status'[m] = status[m]
                \/ verdict[m] = "approved" /\ status'[m] \in {"approved", "claimed", "applied"},
             \A m \in Moves, d \in Droids :
                m \in holds'[d] \cup batch'[d] =>
                   m \in holds[d] \cup batch[d] \/ status[m] = "approved"
      PROVE  GateInv'
  BY <1>3 DEF HumanGate, Undecided
<1>4. ASSUME NEW d \in Droids, Claim(d) PROVE GateInv'
  <2>1. ASSUME NEW r \in Requests, StartClaim(d, r) PROVE GateInv'
    BY <1>3, <2>1 DEF StartClaim
  <2>2. CASE SelectForUpdate(d)
    <3>1. \A m \in batch'[d] : status[m] = "approved"
      BY <2>2 DEF SelectForUpdate, First, TypeOK
    <3> QED BY <1>3, <2>2, <3>1 DEF SelectForUpdate, TypeOK
  <2>3. CASE UpdateClaimed(d)
    <3>1. \A m \in batch[d] : verdict[m] = "approved"
      BY DEF HumanGate, TypeOK
    <3> QED BY <1>3, <2>3, <3>1 DEF UpdateClaimed
  <2>4. CASE Answer(d)
    BY <1>3, <2>4 DEF Answer, Finish, TypeOK
  <2> QED BY <1>4, <2>1, <2>2, <2>3, <2>4 DEF Claim
<1>5. ASSUME NEW d \in Droids, LoseClaim(d) PROVE GateInv'
  BY <1>3, <1>5 DEF LoseClaim, Finish, TypeOK
<1>6. ASSUME NEW d \in Droids, NEW m \in Moves, SendRelease(d, m) PROVE GateInv'
  BY <1>3, <1>6 DEF SendRelease, TypeOK
<1>7. ASSUME NEW d \in Droids, NEW m \in Moves, Apply(d, m) PROVE GateInv'
  <2>1. verdict[m] = "approved"
    BY <1>7 DEF Apply, HumanGate
  <2> QED BY <1>3, <1>7, <2>1 DEF Apply, TypeOK
<1>8. ASSUME NEW c \in calls, ReceiveRelease(c) PROVE GateInv'
  <2>1. c.move \in Moves
    BY DEF TypeOK, ReleaseCall
  <2>2. \A m \in Moves : \/ status'[m] = status[m]
                         \/ status[m] = "claimed" /\ status'[m] = "approved"
    BY <1>8, <2>1 DEF ReceiveRelease, DirectorReleaseClaim, TypeOK
  <2>3. UNCHANGED <<verdict, holds, batch>>
    BY <1>8 DEF ReceiveRelease
  <2> QED BY <1>3, <2>2, <2>3 DEF HumanGate
<1>9. CASE UNCHANGED vars
  BY <1>3, <1>9 DEF vars
<1> QED BY <1>1, <1>2, <1>4, <1>5, <1>6, <1>7, <1>8, <1>9
        DEF Next, Human, Droid, DirectorApproveMove, DirectorRejectMove, DirectorBulkApprove

LEMMA GateInvariant == Spec => []GateInv
BY GateInit, GateStep, PTL DEF Spec

(* Nothing reaches a droid that no human approved, and nothing a human     *)
(* rejected is ever claimed, whatever droids, releases and faults do.      *)
THEOREM GateHolds == Spec => []HumanGate
<1>1. GateInv => HumanGate
  BY DEF GateInv
<1> QED BY <1>1, GateInvariant, PTL

(* However many cockpits race for a row, one answer about it counts.       *)
THEOREM VerdictStands == Spec => VerdictOnce
<1> DEFINE Stands == \A m \in Moves : verdict[m] # "none" => verdict'[m] = verdict[m]
<1>1. GateInv /\ [Next]_vars => [Stands]_vars
  <2> SUFFICES ASSUME GateInv, Next PROVE Stands
    BY DEF vars
  <2>1. ASSUME NEW ids \in SUBSET Moves, NEW v \in {"approved", "rejected"}, Decide(ids, v)
        PROVE  Stands
    BY <2>1 DEF Decide, GateInv, Undecided, TypeOK
  <2>2. CASE UNCHANGED verdict
    BY <2>2
  <2>3. \/ UNCHANGED verdict
        \/ \E ids \in SUBSET Moves, v \in {"approved", "rejected"} : Decide(ids, v)
    BY DEF Next, Human, Droid, Claim, DirectorApproveMove, DirectorRejectMove,
           DirectorBulkApprove, EnqueuePendingMove, StartClaim, SelectForUpdate,
           UpdateClaimed, Answer, LoseClaim, SendRelease, Apply, ReceiveRelease
  <2> QED BY <2>1, <2>2, <2>3
<1> HIDE DEF Stands
<1>2. Spec => [][Stands]_vars
  BY <1>1, GateInvariant, PTL DEF Spec
<1> QED BY <1>2, Zenon DEF Stands, VerdictOnce

----------------------------------------------------------------------------
(* Row locks.  A droid that is not claiming has no batch; the rows a claim *)
(* statement has locked stay approved, and no other statement locks them.  *)
RowsLocked ==
    \A d \in Droids :
        /\ pc[d] \in {"idle", "select"} => batch[d] = {}
        /\ pc[d] = "update" => \A m \in batch[d] :
              /\ status[m] = "approved"
              /\ \A e \in Droids \ {d} : pc[e] = "update" => m \notin batch[e]

LockInv == GateInv /\ RowsLocked

(* A step that locks nothing, and leaves the rows alone that are locked. *)
LEMMA LockFrame ==
    ASSUME LockInv, GateInv',
           \A d \in Droids : pc'[d] \in {"idle", "select"} => batch'[d] = {},
           \A d \in Droids : pc'[d] = "update" =>
              /\ pc[d] = "update" /\ batch'[d] = batch[d]
              /\ \A m \in batch[d] : status'[m] = status[m]
    PROVE  LockInv'
BY DEF LockInv, RowsLocked

LEMMA LockStep == LockInv /\ [Next]_vars => LockInv'
<1> SUFFICES ASSUME LockInv, [Next]_vars PROVE LockInv'
  OBVIOUS
<1>0. GateInv /\ GateInv' /\ TypeOK /\ TypeOK' /\ RowsLocked
  BY GateStep DEF LockInv, GateInv
<1> USE <1>0 DEF rowVars, claimVars, callVars
<1>1. ASSUME UNCHANGED <<pc, batch>>,
             \A d \in Droids : pc[d] = "update" => \A m \in batch[d] : status'[m] = status[m]
      PROVE  LockInv'
  BY <1>1, LockFrame DEF RowsLocked
<1>2. ASSUME NEW m \in Moves, NEW k \in Kinds, NEW n \in Priorities, EnqueuePendingMove(m, k, n)
      PROVE  LockInv'
  BY <1>1, <1>2 DEF EnqueuePendingMove, NextRow, RowsLocked, TypeOK
<1>3. ASSUME NEW ids \in SUBSET Moves, NEW v \in {"approved", "rejected"}, Decide(ids, v)
      PROVE  LockInv'
  BY <1>1, <1>3 DEF Decide, RowsLocked, TypeOK
<1>4. ASSUME NEW d \in Droids, Claim(d) PROVE LockInv'
  <2>1. ASSUME NEW r \in Requests, StartClaim(d, r) PROVE LockInv'
    BY <2>1, LockFrame DEF StartClaim, RowsLocked, TypeOK
  <2>2. CASE SelectForUpdate(d)
    <3>1. /\ \A m \in batch'[d] : status[m] = "approved" /\ m \notin Locked
          /\ pc' = [pc EXCEPT ![d] = "update"] /\ status' = status /\ pc[d] = "select"
          /\ \A e \in Droids \ {d} : batch'[e] = batch[e]
      BY <2>2 DEF SelectForUpdate, First, TypeOK
    <3>2. \A m \in batch'[d] : \A e \in Droids : pc[e] = "update" => m \notin batch[e]
      BY <3>1 DEF Locked
    <3> QED BY <3>1, <3>2 DEF LockInv, RowsLocked, TypeOK
  <2>3. CASE UpdateClaimed(d)
    <3>1. /\ pc' = [pc EXCEPT ![d] = "answer"] /\ pc[d] = "update" /\ batch' = batch
          /\ \A m \in Moves \ batch[d] : status'[m] = status[m]
      BY <2>3 DEF UpdateClaimed
    <3>2. \A e \in Droids : pc'[e] = "update" =>
             /\ pc[e] = "update"
             /\ \A m \in batch[e] : m \in Moves \ batch[d]
      BY <3>1 DEF RowsLocked, TypeOK
    <3> QED BY <3>1, <3>2, LockFrame DEF RowsLocked, TypeOK
  <2>4. CASE Answer(d)
    BY <2>4, LockFrame DEF Answer, Finish, RowsLocked, TypeOK
  <2> QED BY <1>4, <2>1, <2>2, <2>3, <2>4 DEF Claim
<1>5. ASSUME NEW d \in Droids, LoseClaim(d) PROVE LockInv'
  BY <1>5, LockFrame DEF LoseClaim, Finish, RowsLocked, TypeOK
<1>6. ASSUME NEW d \in Droids, NEW m \in Moves, SendRelease(d, m) PROVE LockInv'
  BY <1>1, <1>6 DEF SendRelease
<1>7. ASSUME NEW d \in Droids, NEW m \in Moves, Apply(d, m) PROVE LockInv'
  <2>1. \A e \in Droids : pc[e] = "update" => m \notin batch[e]
    BY <1>7 DEF Apply, Locked
  <2> QED BY <1>1, <1>7, <2>1 DEF Apply, TypeOK
<1>8. ASSUME NEW c \in calls, ReceiveRelease(c) PROVE LockInv'
  <2>1. c.move \in Moves
    BY DEF TypeOK, ReleaseCall
  <2>2. \A m \in Moves : status'[m] = status[m] \/ status[m] = "claimed"
    BY <1>8, <2>1 DEF ReceiveRelease, DirectorReleaseClaim, TypeOK
  <2>3. \A d \in Droids : pc[d] = "update" => \A m \in batch[d] : status'[m] = status[m]
    BY <2>2 DEF RowsLocked, TypeOK
  <2> QED BY <1>1, <1>8, <2>3 DEF ReceiveRelease
<1>9. CASE UNCHANGED vars
  BY <1>1, <1>9 DEF vars
<1> QED BY <1>2, <1>3, <1>4, <1>5, <1>6, <1>7, <1>8, <1>9
        DEF Next, Human, Droid, DirectorApproveMove, DirectorRejectMove, DirectorBulkApprove

LEMMA LockInvariant == Spec => []LockInv
<1>1. Init => LockInv
  BY GateInit DEF Init, LockInv, RowsLocked
<1> QED BY <1>1, LockStep, PTL DEF Spec

----------------------------------------------------------------------------
(* The queue implements the abstract work queue.                           *)

LEMMA SameView ==
    ASSUME UNCHANGED <<status, claimedBy>>
    PROVE  UNCHANGED WQ!vars
BY DEF WQ!vars, Phase, Lessee, FinalStatus

(* How the abstract queue sees the status of a row. *)
LEMMA ViewOf ==
    ASSUME TypeOK, NEW m \in Moves
    PROVE  /\ status[m] \in {"absent", "pending"} =>
                 Phase(m) = "absent" /\ Lessee(m) = Nobody /\ FinalStatus(m) = "none"
           /\ status[m] = "approved" =>
                 Phase(m) = "waiting" /\ Lessee(m) = Nobody /\ FinalStatus(m) = "none"
           /\ status[m] = "claimed" =>
                 Phase(m) = "leased" /\ Lessee(m) = claimedBy[m] /\ FinalStatus(m) = "none"
           /\ status[m] \in {"applied", "rejected"} =>
                 Phase(m) = "done" /\ Lessee(m) = Nobody /\ FinalStatus(m) = status[m]
           /\ status[m] \in Statuses
BY DEF TypeOK, Statuses, Phase, Lessee, FinalStatus

LEMMA StepImplements == LockInv /\ TypeOK' /\ [Next]_vars => [WQ!Next]_WQ!vars
<1> SUFFICES ASSUME LockInv, TypeOK', [Next]_vars PROVE [WQ!Next]_WQ!vars
  OBVIOUS
<1>0. TypeOK /\ HumanGate /\ RowsLocked
  BY DEF LockInv, GateInv
<1>1. ASSUME NEW m \in Moves, status'[m] = status[m], claimedBy'[m] = claimedBy[m]
      PROVE  Phase(m)' = Phase(m) /\ Lessee(m)' = Lessee(m) /\ FinalStatus(m)' = FinalStatus(m)
  BY <1>1 DEF Phase, Lessee, FinalStatus
<1>v. ASSUME NEW m \in Moves
      PROVE  /\ status'[m] \in {"absent", "pending"} =>
                   Phase(m)' = "absent" /\ Lessee(m)' = Nobody /\ FinalStatus(m)' = "none"
             /\ status'[m] = "approved" =>
                   Phase(m)' = "waiting" /\ Lessee(m)' = Nobody /\ FinalStatus(m)' = "none"
             /\ status'[m] = "claimed" =>
                   Phase(m)' = "leased" /\ Lessee(m)' = claimedBy'[m] /\ FinalStatus(m)' = "none"
             /\ status'[m] \in {"applied", "rejected"} =>
                   Phase(m)' = "done" /\ Lessee(m)' = Nobody /\ FinalStatus(m)' = status'[m]
  BY DEF TypeOK, Statuses, Phase, Lessee, FinalStatus
<1>2. ASSUME NEW m \in Moves, NEW k \in Kinds, NEW n \in Priorities, EnqueuePendingMove(m, k, n)
      PROVE  UNCHANGED WQ!vars
  <2>1. \A u \in Moves : /\ claimedBy'[u] = claimedBy[u]
                         /\ \/ status'[u] = status[u]
                            \/ status[u] = "absent" /\ status'[u] = "pending"
    BY <1>0, <1>2 DEF EnqueuePendingMove, NextRow, TypeOK
  <2>2. \A u \in Moves : /\ Phase(u)' = Phase(u) /\ Lessee(u)' = Lessee(u)
                         /\ FinalStatus(u)' = FinalStatus(u)
    BY <1>0, <1>1, <1>v, <2>1, ViewOf
  <2> QED BY <2>2 DEF WQ!vars
<1>3. ASSUME NEW ids \in SUBSET Moves, NEW v \in {"approved", "rejected"}, Decide(ids, v)
      PROVE  \E open \in SUBSET Moves : WQ!Add(open) \/ WQ!Settle(open, "rejected")
  <2> DEFINE open == {m \in ids : status[m] = "pending"}
  <2>1. /\ open \in SUBSET Moves /\ claimedBy' = claimedBy
        /\ \A m \in open : status[m] = "pending" /\ status'[m] = v
        /\ \A m \in Moves \ open : status'[m] = status[m]
    BY <1>3 DEF Decide, rowVars
  <2> HIDE DEF open
  <2>2. \A m \in Moves \ open : /\ Phase(m)' = Phase(m) /\ Lessee(m)' = Lessee(m)
                                /\ FinalStatus(m)' = FinalStatus(m)
    BY <1>1, <2>1
  <2>3. \A m \in open : /\ Phase(m) = "absent" /\ Lessee(m) = Nobody
                        /\ FinalStatus(m) = "none"
    BY <1>0, <2>1, ViewOf
  <2>4. CASE v = "approved"
    <3>1. \A m \in open : /\ Phase(m)' = "waiting" /\ Lessee(m)' = Nobody
                          /\ FinalStatus(m)' = "none"
      BY <1>v, <2>1, <2>4
    <3> QED BY <2>1, <2>2, <2>3, <3>1 DEF WQ!Add
  <2>5. CASE v = "rejected"
    <3>1. \A m \in open : /\ Phase(m)' = "done" /\ Lessee(m)' = Nobody
                          /\ FinalStatus(m)' = "rejected"
      BY <1>v, <2>1, <2>5
    <3> QED BY <2>1, <2>2, <2>3, <3>1 DEF WQ!Settle
  <2> QED BY <2>4, <2>5
<1>4. ASSUME NEW d \in Droids, UpdateClaimed(d)
      PROVE  WQ!Lease(d, batch[d]) /\ batch[d] \in SUBSET Moves
  <2>1. /\ batch[d] \in SUBSET Moves
        /\ \A m \in batch[d] : /\ status[m] = "approved" /\ status'[m] = "claimed"
                               /\ claimedBy'[m] = d
        /\ \A m \in Moves \ batch[d] : status'[m] = status[m] /\ claimedBy'[m] = claimedBy[m]
    BY <1>0, <1>4 DEF UpdateClaimed, RowsLocked, TypeOK
  <2>2. \A m \in Moves \ batch[d] : /\ Phase(m)' = Phase(m) /\ Lessee(m)' = Lessee(m)
                                    /\ FinalStatus(m)' = FinalStatus(m)
    BY <1>1, <2>1
  <2>3. \A m \in batch[d] : /\ Phase(m) = "waiting" /\ FinalStatus(m) = "none"
                            /\ Phase(m)' = "leased" /\ Lessee(m)' = d
                            /\ FinalStatus(m)' = "none"
    BY <1>0, <1>v, <2>1, ViewOf
  <2> QED BY <2>1, <2>2, <2>3 DEF WQ!Lease
<1>5. ASSUME NEW d \in Droids, NEW m \in Moves, Apply(d, m)
      PROVE  WQ!Settle({m}, "applied") \/ UNCHANGED WQ!vars
  <2>1. /\ status' = [status EXCEPT ![m] = "applied"] /\ claimedBy' = claimedBy
        /\ m \in holds[d]
    BY <1>5 DEF Apply
  <2>2. status[m] \notin {"pending", "rejected"}
    BY <2>1, <1>0 DEF LockInv, GateInv, HumanGate, Undecided
  <2>3. CASE status[m] = "applied"
    <3>1. status' = status
      BY <1>0, <2>1, <2>3 DEF TypeOK
    <3> QED BY <2>1, <3>1, SameView
  <2>4. CASE status[m] # "applied"
    <3>1. Phase(m) # "done"
      BY <1>0, <2>2, <2>4, ViewOf DEF Statuses
    <3>2. Phase(m)' = "done" /\ Lessee(m)' = Nobody /\ FinalStatus(m)' = "applied"
      BY <1>0, <1>v, <2>1 DEF TypeOK
    <3>3. \A u \in Moves \ {m} : /\ Phase(u)' = Phase(u) /\ Lessee(u)' = Lessee(u)
                                 /\ FinalStatus(u)' = FinalStatus(u)
      BY <1>0, <1>1, <2>1 DEF TypeOK
    <3> QED BY <3>1, <3>2, <3>3 DEF WQ!Settle
  <2> QED BY <2>3, <2>4
<1>6. ASSUME NEW c \in calls, ReceiveRelease(c)
      PROVE  (\E m \in Moves : WQ!Release(m)) \/ UNCHANGED WQ!vars
  <2>1. c.move \in Moves
    BY <1>0 DEF TypeOK, ReleaseCall
  <2>2. CASE status[c.move] = "claimed" /\ claimedBy[c.move] = c.runner
    <3> DEFINE m == c.move
    <3>1. /\ status' = [status EXCEPT ![m] = "approved"]
          /\ claimedBy' = [claimedBy EXCEPT ![m] = Nobody]
      BY <1>6, <2>2 DEF ReceiveRelease, DirectorReleaseClaim
    <3>2. /\ Phase(m) = "leased" /\ FinalStatus(m) = "none"
          /\ Phase(m)' = "waiting" /\ Lessee(m)' = Nobody /\ FinalStatus(m)' = "none"
      BY <1>0, <1>v, <2>1, <2>2, <3>1, ViewOf DEF TypeOK
    <3>3. \A u \in Moves \ {m} : /\ Phase(u)' = Phase(u) /\ Lessee(u)' = Lessee(u)
                                 /\ FinalStatus(u)' = FinalStatus(u)
      BY <1>0, <1>1, <2>1, <3>1 DEF TypeOK
    <3> HIDE DEF m
    <3>4. WQ!Release(m)
      BY <2>1, <3>2, <3>3 DEF WQ!Release, m
    <3> QED BY <2>1, <3>4 DEF m
  <2>3. CASE ~(status[c.move] = "claimed" /\ claimedBy[c.move] = c.runner)
    BY <1>6, <2>3, SameView DEF ReceiveRelease, DirectorReleaseClaim, rowVars
  <2> QED BY <2>2, <2>3
<1>7. ASSUME NEW d \in Droids,
             \/ \E r \in Requests : StartClaim(d, r)
             \/ SelectForUpdate(d) \/ Answer(d) \/ LoseClaim(d)
             \/ \E m \in Moves : SendRelease(d, m)
      PROVE  UNCHANGED WQ!vars
  BY <1>7, SameView DEF StartClaim, SelectForUpdate, Answer, LoseClaim, SendRelease, rowVars
<1>8. CASE UNCHANGED vars
  BY <1>8, SameView DEF vars, rowVars
<1> QED BY <1>2, <1>3, <1>4, <1>5, <1>6, <1>7, <1>8
        DEF Next, Human, Claim, Droid, DirectorApproveMove, DirectorRejectMove,
            DirectorBulkApprove, WQ!Next

(* Every behaviour of the queue is one of the abstract work queue: moves   *)
(* are leased to one droid at a time, go back by a release only, and are   *)
(* settled once.                                                           *)
THEOREM Implementation == Spec => ImplementsWorkQueue
<1>1. Init => WQ!Init
  BY DEF Init, WQ!Init, Phase, Lessee, FinalStatus
<1>2. LockInv => TypeOK
  BY DEF LockInv, GateInv
<1> QED BY <1>1, <1>2, LockInvariant, StepImplements, PTL
        DEF Spec, ImplementsWorkQueue, WQ!Spec

----------------------------------------------------------------------------
(* Who works on a claimed row.  Unless a droid has repeated its release of *)
(* a row, a row in an answer on its way to it is claimed by it, and it     *)
(* does not work on it yet; a row that it is releasing is still claimed by *)
(* it, and it does not work on it any more.                                *)
AnswerOwned ==
    \A d \in Droids : pc[d] = "answer" => \A m \in batch[d] :
        <<d, m>> \notin repeated => Owned(d, m) /\ m \notin holds[d]

CallsOwned ==
    \A c \in calls :
        /\ c.repeat => <<c.runner, c.move>> \in repeated
        /\ <<c.runner, c.move>> \notin repeated =>
              /\ Owned(c.runner, c.move)
              /\ c.move \notin holds[c.runner]
              /\ pc[c.runner] = "answer" => c.move \notin batch[c.runner]

ClaimedByDroid == \A m \in Moves : status[m] = "claimed" => claimedBy[m] \in Droids

OwnInv == /\ LockInv
          /\ AnswerOwned
          /\ HolderIsOwner
          /\ CallsOwned
          /\ ClaimedByDroid
          /\ ClaimAccounted

LEMMA OwnTypes == OwnInv => /\ TypeOK /\ RowsLocked /\ HumanGate /\ Undecided
                            /\ AnswerOwned /\ HolderIsOwner /\ CallsOwned
                            /\ ClaimedByDroid /\ ClaimAccounted
BY DEF OwnInv, LockInv, GateInv

LEMMA CallParts == \A c \in ReleaseCall : c.move \in Moves /\ c.runner \in Droids
BY DEF ReleaseCall

(* A step that takes nobody's claim away leaves Owned alone. *)
LEMMA OwnedFrame ==
    ASSUME repeated \subseteq repeated', NEW d, NEW m,
           claimedBy'[m] = claimedBy[m],
           status'[m] = status[m] \/ (status'[m] = "applied" /\ Overtaken(m)')
    PROVE  Owned(d, m) => Owned(d, m)'
BY DEF Owned, Overtaken

(* A step that only touches rows that nobody has claimed. *)
LEMMA OwnFrame ==
    ASSUME OwnInv, LockInv', UNCHANGED <<batch, holds, calls, repeated, lost>>,
           \A d \in Droids : pc'[d] = "answer" => pc[d] = "answer",
           \A m \in Moves :
              \/ status'[m] = status[m] /\ claimedBy'[m] = claimedBy[m]
              \/ /\ status[m] \notin {"claimed", "applied"}
                 /\ status'[m] # "claimed"
    PROVE  OwnInv'
<1> USE OwnTypes
<1>0. \A c \in calls : c.move \in Moves /\ c.runner \in Droids
  BY CallParts DEF TypeOK
<1>1. \A d \in Droids, m \in Moves : Owned(d, m) => Owned(d, m)'
  BY DEF Owned, Overtaken
<1>2. AnswerOwned'
  BY <1>1 DEF AnswerOwned, TypeOK
<1>3. HolderIsOwner'
  BY <1>1 DEF HolderIsOwner, TypeOK
<1>4. CallsOwned'
  BY <1>0, <1>1 DEF CallsOwned
<1>5. ClaimedByDroid' /\ ClaimAccounted'
  BY DEF ClaimedByDroid, ClaimAccounted
<1> QED BY <1>2, <1>3, <1>4, <1>5 DEF OwnInv

LEMMA OwnClaimStep ==
    ASSUME OwnInv, LockInv', NEW d \in Droids, Claim(d) PROVE OwnInv'
<1> USE OwnTypes DEF rowVars, claimVars, callVars
<1>0. \A c \in calls : c.move \in Moves /\ c.runner \in Droids
  BY CallParts DEF TypeOK
<1>s. ASSUME UNCHANGED <<status, claimedBy, repeated>>
      PROVE  \A e \in Droids, m \in Moves : Owned(e, m) => Owned(e, m)'
  BY <1>s DEF Owned, Overtaken
<1>1. ASSUME NEW r \in Requests, StartClaim(d, r) PROVE OwnInv'
  BY <1>1, OwnFrame DEF StartClaim, TypeOK
<1>2. CASE SelectForUpdate(d)
  <2>1. /\ pc[d] = "select" /\ pc' = [pc EXCEPT ![d] = "update"] /\ batch[d] = {}
        /\ \A e \in Droids \ {d} : batch'[e] = batch[e]
        /\ UNCHANGED <<status, claimedBy, holds, calls, repeated, lost>>
    BY <1>2 DEF SelectForUpdate, RowsLocked, TypeOK
  <2>s. \A e \in Droids, m \in Moves : Owned(e, m) => Owned(e, m)'
    BY <1>s, <2>1
  <2>2. AnswerOwned' /\ HolderIsOwner' /\ ClaimedByDroid'
    BY <2>1, <2>s DEF AnswerOwned, HolderIsOwner, ClaimedByDroid, TypeOK
  <2>3. CallsOwned'
    BY <1>0, <2>1, <2>s DEF CallsOwned, TypeOK
  <2>4. ClaimAccounted'
    BY <2>1 DEF ClaimAccounted, ClaimedByDroid
  <2> QED BY <2>2, <2>3, <2>4 DEF OwnInv
<1>3. CASE UpdateClaimed(d)
  <2>1. /\ pc[d] = "update" /\ pc' = [pc EXCEPT ![d] = "answer"]
        /\ UNCHANGED <<batch, holds, calls, repeated, lost>>
        /\ batch[d] \in SUBSET Moves
        /\ \A m \in batch[d] : status[m] = "approved" /\ status'[m] = "claimed" /\ claimedBy'[m] = d
        /\ \A m \in Moves \ batch[d] : status'[m] = status[m] /\ claimedBy'[m] = claimedBy[m]
    BY <1>3 DEF UpdateClaimed, RowsLocked, TypeOK
  <2>2. \A e \in Droids, m \in Moves : Owned(e, m) => m \notin batch[d] /\ Owned(e, m)'
    BY <2>1 DEF Owned, Overtaken
  <2>3. AnswerOwned'
    <3> SUFFICES ASSUME NEW e \in Droids, pc'[e] = "answer", NEW m \in batch[e],
                        <<e, m>> \notin repeated
                 PROVE  Owned(e, m)' /\ m \notin holds[e]
      BY <2>1 DEF AnswerOwned
    <3>0. m \in Moves
      BY DEF TypeOK
    <3>1. CASE e = d
      <4>1. m \notin holds[e]
        BY <2>2, <3>0, <3>1 DEF HolderIsOwner
      <4> QED BY <2>1, <3>1, <4>1 DEF Owned
    <3>2. CASE e # d
      <4>1. pc[e] = "answer"
        BY <2>1, <3>2 DEF TypeOK
      <4> QED BY <2>2, <3>0, <4>1 DEF AnswerOwned
    <3> QED BY <3>1, <3>2
  <2>4. HolderIsOwner'
    BY <2>1, <2>2 DEF HolderIsOwner, TypeOK
  <2>5. CallsOwned'
    <3> SUFFICES ASSUME NEW c \in calls, <<c.runner, c.move>> \notin repeated
                 PROVE  /\ Owned(c.runner, c.move)'
                        /\ pc'[c.runner] = "answer" => c.move \notin batch[c.runner]
      BY <2>1 DEF CallsOwned
    <3>1. Owned(c.runner, c.move)' /\ c.move \notin batch[d]
      BY <1>0, <2>2 DEF CallsOwned
    <3>2. c.runner # d => pc'[c.runner] = pc[c.runner]
      BY <1>0, <2>1 DEF TypeOK
    <3> QED BY <3>1, <3>2 DEF CallsOwned
  <2>6. ClaimedByDroid' /\ ClaimAccounted'
    BY <2>1 DEF ClaimedByDroid, ClaimAccounted
  <2> QED BY <2>3, <2>4, <2>5, <2>6 DEF OwnInv
<1>4. CASE Answer(d)
  <2>1. /\ pc[d] = "answer" /\ pc' = [pc EXCEPT ![d] = "idle"] /\ batch' = [batch EXCEPT ![d] = {}]
        /\ holds' = [holds EXCEPT ![d] = holds[d] \cup batch[d]]
        /\ UNCHANGED <<status, claimedBy, calls, repeated, lost>>
    BY <1>4 DEF Answer, Finish
  <2>s. \A e \in Droids, m \in Moves : Owned(e, m) => Owned(e, m)'
    BY <1>s, <2>1
  <2>2. AnswerOwned' /\ HolderIsOwner' /\ ClaimedByDroid'
    BY <2>1, <2>s DEF AnswerOwned, HolderIsOwner, ClaimedByDroid, TypeOK
  <2>3. CallsOwned'
    BY <1>0, <2>1, <2>s DEF CallsOwned, TypeOK
  <2>4. ClaimAccounted'
    BY <2>1 DEF ClaimAccounted, ClaimedByDroid, TypeOK
  <2> QED BY <2>2, <2>3, <2>4 DEF OwnInv
<1> QED BY <1>1, <1>2, <1>3, <1>4 DEF Claim

LEMMA OwnReceiveStep ==
    ASSUME OwnInv, LockInv', NEW c \in calls, ReceiveRelease(c) PROVE OwnInv'
<1> USE OwnTypes DEF rowVars, claimVars, callVars
<1>0. c \in ReleaseCall /\ \A b \in calls : b.move \in Moves /\ b.runner \in Droids
  BY CallParts DEF TypeOK
<1> DEFINE again == [c EXCEPT !.repeat = TRUE]
<1>1. again.move = c.move /\ again.runner = c.runner /\ again.repeat
  BY <1>0, CallType
<1> HIDE DEF again
<1>2. /\ UNCHANGED <<pc, batch, holds, lost>> /\ repeated \subseteq repeated'
      /\ \/ calls' = calls \ {c} /\ repeated' = repeated
         \/ /\ calls' = (calls \ {c}) \cup {again}
            /\ <<c.runner, c.move>> \in repeated'
  BY DEF ReceiveRelease, again
<1>3. ASSUME NEW b \in calls, <<b.runner, b.move>> \notin repeated,
             b.runner = c.runner, b.move = c.move
      PROVE  b = c
  <2>1. ~b.repeat /\ ~c.repeat
    BY <1>3 DEF CallsOwned
  <2> QED BY <1>0, <1>3, <2>1 DEF TypeOK, ReleaseCall
(* Only the runner of the call can lose what it owns. *)
<1>4. \A e \in Droids, m \in Moves :
         Owned(e, m) /\ (e # c.runner \/ m # c.move) => Owned(e, m)'
  <2> SUFFICES ASSUME NEW e \in Droids, NEW m \in Moves, Owned(e, m),
                      e # c.runner \/ m # c.move
               PROVE  Owned(e, m)'
    OBVIOUS
  <2>1. status'[m] = status[m] /\ claimedBy'[m] = claimedBy[m]
    BY <1>0 DEF ReceiveRelease, DirectorReleaseClaim, TypeOK, Owned
  <2> QED BY <1>2, <2>1, OwnedFrame
(* That runner neither works on the row nor is about to. *)
<1>5. <<c.runner, c.move>> \notin repeated =>
         /\ c.move \notin holds[c.runner]
         /\ pc[c.runner] = "answer" => c.move \notin batch[c.runner]
  BY DEF CallsOwned
<1>6. AnswerOwned'
  BY <1>2, <1>4, <1>5 DEF AnswerOwned, TypeOK
<1>7. HolderIsOwner'
  BY <1>2, <1>4, <1>5 DEF HolderIsOwner, TypeOK
<1>8. CallsOwned'
  <2> SUFFICES ASSUME NEW b \in calls', ~(b.repeat /\ <<b.runner, b.move>> \in repeated')
               PROVE  /\ b.repeat => <<b.runner, b.move>> \in repeated'
                      /\ <<b.runner, b.move>> \notin repeated' =>
                            /\ Owned(b.runner, b.move)'
                            /\ b.move \notin holds[b.runner]
                            /\ pc[b.runner] = "answer" => b.move \notin batch[b.runner]
    BY <1>2 DEF CallsOwned
  <2>1. b \in calls /\ b # c
    BY <1>1, <1>2
  <2>2. <<b.runner, b.move>> \notin repeated => b.runner # c.runner \/ b.move # c.move
    BY <1>3, <2>1
  <2> QED BY <1>0, <1>2, <1>4, <2>1, <2>2 DEF CallsOwned
<1>9. CASE status[c.move] = "claimed" /\ claimedBy[c.move] = c.runner
  <2>1. /\ status'[c.move] = "approved"
        /\ \A m \in Moves \ {c.move} : status'[m] = status[m] /\ claimedBy'[m] = claimedBy[m]
    BY <1>0, <1>9 DEF ReceiveRelease, DirectorReleaseClaim, TypeOK
  <2>2. ClaimedByDroid' /\ ClaimAccounted'
    BY <1>2, <2>1 DEF ClaimedByDroid, ClaimAccounted
  <2> QED BY <1>6, <1>7, <1>8, <2>2 DEF OwnInv
<1>10. CASE ~(status[c.move] = "claimed" /\ claimedBy[c.move] = c.runner)
  <2>1. UNCHANGED <<status, claimedBy>>
    BY <1>10 DEF ReceiveRelease, DirectorReleaseClaim
  <2>2. ClaimedByDroid' /\ ClaimAccounted'
    BY <1>2, <1>10, <2>1 DEF ClaimedByDroid, ClaimAccounted
  <2> QED BY <1>6, <1>7, <1>8, <2>2 DEF OwnInv
<1> QED BY <1>9, <1>10

LEMMA OwnStep == OwnInv /\ [Next]_vars => OwnInv'
<1> SUFFICES ASSUME OwnInv, [Next]_vars PROVE OwnInv'
  OBVIOUS
<1>0. LockInv'
  BY LockStep DEF OwnInv
<1> USE <1>0, OwnTypes DEF rowVars, claimVars, callVars
<1>c. \A c \in calls : c.move \in Moves /\ c.runner \in Droids
  BY CallParts DEF TypeOK
<1>s. ASSUME UNCHANGED <<status, claimedBy, repeated>>
      PROVE  \A e \in Droids, m \in Moves : Owned(e, m) => Owned(e, m)'
  BY <1>s DEF Owned, Overtaken
<1>1. ASSUME NEW m \in Moves, NEW k \in Kinds, NEW n \in Priorities, EnqueuePendingMove(m, k, n)
      PROVE  OwnInv'
  BY <1>1, OwnFrame DEF EnqueuePendingMove, NextRow, TypeOK
<1>2. ASSUME NEW ids \in SUBSET Moves, NEW v \in {"approved", "rejected"}, Decide(ids, v)
      PROVE  OwnInv'
  BY <1>2, OwnFrame DEF Decide, TypeOK
<1>3. ASSUME NEW d \in Droids, Claim(d) PROVE OwnInv'
  BY <1>3, OwnClaimStep
<1>4. ASSUME NEW d \in Droids, LoseClaim(d) PROVE OwnInv'
  <2>1. /\ pc[d] \in {"update", "answer"} /\ pc' = [pc EXCEPT ![d] = "idle"]
        /\ batch' = [batch EXCEPT ![d] = {}]
        /\ lost' = IF pc[d] = "answer" THEN lost \cup batch[d] ELSE lost
        /\ UNCHANGED <<status, claimedBy, holds, calls, repeated>>
    BY <1>4 DEF LoseClaim, Finish
  <2>s. \A e \in Droids, m \in Moves : Owned(e, m) => Owned(e, m)'
    BY <1>s, <2>1
  <2>2. AnswerOwned' /\ HolderIsOwner' /\ ClaimedByDroid'
    BY <2>1, <2>s DEF AnswerOwned, HolderIsOwner, ClaimedByDroid, TypeOK
  <2>3. CallsOwned'
    BY <1>c, <2>1, <2>s DEF CallsOwned, TypeOK
  <2>4. ClaimAccounted'
    BY <2>1 DEF ClaimAccounted, ClaimedByDroid, RowsLocked, TypeOK
  <2> QED BY <1>0, <2>2, <2>3, <2>4 DEF OwnInv
<1>5. ASSUME NEW d \in Droids, NEW m \in Moves, SendRelease(d, m) PROVE OwnInv'
  <2> DEFINE call == [move |-> m, runner |-> d, repeat |-> FALSE]
  <2>1. /\ m \in holds[d] /\ holds' = [holds EXCEPT ![d] = holds[d] \ {m}]
        /\ calls' = calls \cup {call}
        /\ call.move = m /\ call.runner = d /\ ~call.repeat
        /\ UNCHANGED <<status, claimedBy, pc, batch, repeated, lost>>
    BY <1>5 DEF SendRelease
  <2> HIDE DEF call
  <2>s. \A e \in Droids, n \in Moves : Owned(e, n) => Owned(e, n)'
    BY <1>s, <2>1
  <2>2. AnswerOwned' /\ HolderIsOwner' /\ ClaimedByDroid'
    BY <2>1, <2>s DEF AnswerOwned, HolderIsOwner, ClaimedByDroid, TypeOK
  <2>3. <<d, m>> \notin repeated =>
           /\ Owned(d, m)' /\ m \notin holds'[d]
           /\ pc[d] = "answer" => m \notin batch[d]
    BY <2>1, <2>s DEF HolderIsOwner, AnswerOwned, TypeOK
  <2>4. CallsOwned'
    <3> SUFFICES ASSUME NEW c \in calls'
                 PROVE  /\ c.repeat => <<c.runner, c.move>> \in repeated
                        /\ <<c.runner, c.move>> \notin repeated =>
                              /\ Owned(c.runner, c.move)'
                              /\ c.move \notin holds'[c.runner]
                              /\ pc[c.runner] = "answer" => c.move \notin batch[c.runner]
      BY <2>1 DEF CallsOwned
    <3>1. CASE c = call
      BY <2>1, <2>3, <3>1
    <3>2. CASE c \in calls
      BY <1>c, <2>1, <2>s, <3>2 DEF CallsOwned, TypeOK
    <3> QED BY <2>1, <3>1, <3>2
  <2>5. ClaimAccounted'
    BY <2>1 DEF ClaimAccounted, ClaimedByDroid, TypeOK
  <2> QED BY <1>0, <2>2, <2>4, <2>5 DEF OwnInv
<1>6. ASSUME NEW d \in Droids, NEW m \in Moves, Apply(d, m) PROVE OwnInv'
  <2>1. /\ m \in holds[d] /\ holds' = [holds EXCEPT ![d] = holds[d] \ {m}]
        /\ status' = [status EXCEPT ![m] = "applied"]
        /\ UNCHANGED <<claimedBy, pc, batch, calls, repeated, lost>>
    BY <1>6 DEF Apply
  (* The others keep what they own: the move is d's, or d has repeated. *)
  <2>2. \A e \in Droids, n \in Moves :
           Owned(e, n) /\ ~(e = d /\ n = m /\ <<d, m>> \notin repeated) => Owned(e, n)'
    <3> SUFFICES ASSUME NEW e \in Droids, NEW n \in Moves, Owned(e, n),
                        ~(e = d /\ n = m /\ <<d, m>> \notin repeated)
                 PROVE  Owned(e, n)'
      OBVIOUS
    <3>1. n = m => <<d, m>> \in repeated
      BY <2>1 DEF HolderIsOwner, Owned
    <3>2. status'[n] = status[n] \/ (status'[n] = "applied" /\ Overtaken(n)')
      BY <2>1, <3>1 DEF TypeOK, Overtaken
    <3> QED BY <2>1, <3>2, OwnedFrame
  <2>3. <<d, m>> \notin repeated =>
           /\ m \notin holds'[d] /\ (pc[d] = "answer" => m \notin batch[d])
           /\ \A c \in calls : c.runner # d \/ c.move # m
    BY <2>1 DEF AnswerOwned, CallsOwned, TypeOK
  <2>4. AnswerOwned' /\ HolderIsOwner' /\ ClaimedByDroid'
    BY <2>1, <2>2, <2>3 DEF AnswerOwned, HolderIsOwner, ClaimedByDroid, TypeOK
  <2>5. CallsOwned'
    BY <1>c, <2>1, <2>2, <2>3 DEF CallsOwned, TypeOK
  <2>6. ClaimAccounted'
    BY <2>1 DEF ClaimAccounted, ClaimedByDroid, TypeOK
  <2> QED BY <1>0, <2>4, <2>5, <2>6 DEF OwnInv
<1>7. ASSUME NEW c \in calls, ReceiveRelease(c) PROVE OwnInv'
  BY <1>7, OwnReceiveStep
<1>8. CASE UNCHANGED vars
  BY <1>8, OwnFrame DEF vars
<1> QED BY <1>1, <1>2, <1>3, <1>4, <1>5, <1>6, <1>7, <1>8
        DEF Next, Human, Droid, DirectorApproveMove, DirectorRejectMove, DirectorBulkApprove

LEMMA OwnInvariant == Spec => []OwnInv
<1>1. Init => OwnInv
  <2>1. Init => LockInv
    BY GateInit DEF Init, LockInv, RowsLocked
  <2> QED BY <2>1 DEF Init, OwnInv, AnswerOwned, HolderIsOwner, CallsOwned,
                      ClaimedByDroid, ClaimAccounted
<1> QED BY <1>1, OwnStep, PTL DEF Spec

(* A droid works only on rows that the table says it has claimed, unless   *)
(* it has itself repeated a release of the row.                            *)
THEOREM HoldersOwn == Spec => []HolderIsOwner
BY OwnInvariant, PTL DEF OwnInv

(* A claimed row is in a droid's hands, on its way to it or back, or its   *)
(* answer was lost.                                                        *)
THEOREM ClaimsAccounted == Spec => []ClaimAccounted
BY OwnInvariant, PTL DEF OwnInv
=============================================================================
