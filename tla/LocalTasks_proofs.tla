------------------------- MODULE LocalTasks_proofs -------------------------
(* Theorems about the local-task queue, for any number of rows, handlers,  *)
(* runners, requests and faults.                                           *)
EXTENDS LocalTasks, TLAPS

LEMMA TypeInit == Init => TypeOK
BY LocalTasksAssumption
   DEF Init, TypeOK, NoWant, NoRequest, NoTask, NoAnswer, NoOutcome,
       Statuses, LiveStatuses, Settled

LEMMA TypeStep == TypeOK /\ [Next]_vars => TypeOK'
<1> USE LocalTasksAssumption
<1> SUFFICES ASSUME TypeOK, [Next]_vars PROVE TypeOK'
  OBVIOUS
<1> USE DEF TypeOK
<1>1. ASSUME NEW c \in Clients, NEW k \in Kinds, NEW d \in Keys,
             QueueCheck(c, k, d)
      PROVE  TypeOK'
  BY <1>1 DEF QueueCheck, rowVars, historyVars, pollVars, waitVars
<1>2. ASSUME NEW c \in Clients, NEW t \in Tasks, NEW k \in Kinds,
             QueueUnkeyed(c, t, k)
      PROVE  TypeOK'
  BY <1>2 DEF QueueUnkeyed, InsertRow, historyVars, pollVars, waitVars,
              Statuses, LiveStatuses
<1>3. ASSUME NEW c \in Clients, NEW t \in Tasks, QueueInsert(c, t)
      PROVE  TypeOK'
  BY <1>3 DEF QueueInsert, InsertRow, historyVars, pollVars, waitVars,
              Statuses, LiveStatuses, NoWant
<1>4. ASSUME NEW p \in Pollers, Poller(p)
      PROVE  TypeOK'
  <2>1. ASSUME NEW r \in Requests, StartClaim(p, r) PROVE TypeOK'
    BY <2>1 DEF StartClaim, rowVars, historyVars, waitVars
  <2>2. CASE CheckConnection(p)
    BY <2>2 DEF CheckConnection, Finish, rowVars, historyVars, waitVars
  <2>3. CASE ExpireLocalTasks(p)
    BY <2>3 DEF ExpireLocalTasks, historyVars, waitVars, Statuses, Settled
  <2>4. CASE SelectForUpdate(p)
    <3>1. batch' \in [Pollers -> SUBSET Tasks]
      BY <2>4 DEF SelectForUpdate, Oldest
    <3> QED BY <2>4, <3>1 DEF SelectForUpdate, rowVars, historyVars, waitVars
  <2>5. CASE UpdateClaimed(p)
    <3>1. req[p].runner \in Runners \cup {Nobody}
      BY DEF ClaimRequest, NoRequest
    <3> QED BY <2>5, <3>1 DEF UpdateClaimed, historyVars, waitVars,
                              Statuses, LiveStatuses
  <2>6. CASE Reply(p)
    BY <2>6 DEF Reply, Finish, rowVars, waitVars
  <2>7. CASE GiveUp(p)
    BY <2>7 DEF GiveUp, Finish, rowVars, historyVars, waitVars
  <2>8. CASE SleepAndRetry(p)
    BY <2>8 DEF SleepAndRetry, rowVars, historyVars, waitVars
  <2> QED BY <1>4, <2>1, <2>2, <2>3, <2>4, <2>5, <2>6, <2>7, <2>8 DEF Poller
<1>5. ASSUME NEW p \in Pollers, Disconnect(p)
      PROVE  TypeOK'
  BY <1>5 DEF Disconnect, rowVars, historyVars, waitVars
<1>6. ASSUME NEW w \in Waiters, NEW t \in Tasks, WaitStart(w, t)
      PROVE  TypeOK'
  BY <1>6 DEF WaitStart, rowVars, historyVars, pollVars
<1>7. ASSUME NEW w \in Waiters, NEW late \in BOOLEAN, WaitAnswer(w, late)
      PROVE  TypeOK'
  BY <1>7 DEF WaitAnswer, rowVars, historyVars, pollVars, NoTask
<1>8. ASSUME NEW t \in Tasks, Age(t)
      PROVE  TypeOK'
  BY <1>8 DEF Age, historyVars, pollVars, waitVars
<1>9. ASSUME NEW t \in Tasks, NEW o \in Outcomes, CompleteLocalTask(t, o)
      PROVE  TypeOK'
  BY <1>9 DEF CompleteLocalTask, pollVars, waitVars, Statuses, Settled
<1>10. CASE ServerRestart
  BY <1>10 DEF ServerRestart, rowVars, historyVars, NoWant, NoTask
<1>11. CASE UNCHANGED vars
  BY <1>11 DEF vars, rowVars, historyVars, pollVars, waitVars
<1> QED
  BY <1>1, <1>2, <1>3, <1>4, <1>5, <1>6, <1>7, <1>8, <1>9, <1>10, <1>11
     DEF Next, Client, Pending, Waiter, Complete

(* The columns, the handlers and the history keep their types. *)
THEOREM TypeCorrect == Spec => []TypeOK
BY TypeInit, TypeStep, PTL DEF Spec

----------------------------------------------------------------------------
(* The claim invariant.                                                    *)

LEMMA ClaimInit == Init => ClaimInv
<1> SUFFICES ASSUME Init PROVE ClaimInv
  OBVIOUS
<1>1. TypeOK
  BY TypeInit
<1>2. Locked = {}
  BY DEF Init, Locked
<1> QED
  BY <1>1, <1>2, LocalTasksAssumption
     DEF Init, ClaimInv, ClaimsDisjoint, AtMostOnceDelivery, BatchHeld,
         LockedRowsQueued, RepliedRowsFresh, UnclaimedRowsFresh,
         ResultsRecorded, RequestServed, NoOutcome

(* A step that leaves the rows' status, owner and history alone, and only  *)
(* shrinks what handlers hold, keeps the invariant.                        *)
LEMMA ClaimFrame ==
    ASSUME ClaimInv, TypeOK',
           UNCHANGED <<status, owner, deliveries, acked>>,
           \A p \in Pollers :
              \/ pc'[p] = "idle" /\ batch'[p] = {}
              \/ /\ UNCHANGED <<pc[p], req[p], batch[p]>>
              \/ /\ batch[p] = {} /\ batch'[p] = {}
                 /\ req'[p] \in Requests
    PROVE  ClaimInv'
<1> USE DEF ClaimInv
<1>1. (AtMostOnceDelivery /\ UnclaimedRowsFresh /\ ResultsRecorded)'
  BY DEF AtMostOnceDelivery, UnclaimedRowsFresh, ResultsRecorded
<1>2. \A p \in Pollers : batch'[p] # {} => UNCHANGED <<pc[p], req[p], batch[p]>>
  OBVIOUS
<1>3. ClaimsDisjoint'
  BY <1>2 DEF ClaimsDisjoint
<1>4. BatchHeld'
  BY <1>2 DEF BatchHeld
<1>5. LockedRowsQueued'
  BY <1>2 DEF LockedRowsQueued, Locked
<1>6. RepliedRowsFresh'
  BY <1>2 DEF RepliedRowsFresh
<1>7. RequestServed'
  BY DEF RequestServed
<1> QED BY <1>1, <1>3, <1>4, <1>5, <1>6, <1>7

LEMMA ClaimStep == ClaimInv /\ [Next]_vars => ClaimInv'
<1> SUFFICES ASSUME ClaimInv, [Next]_vars PROVE ClaimInv'
  OBVIOUS
<1> USE LocalTasksAssumption
<1>t. TypeOK /\ TypeOK'
  BY TypeStep DEF ClaimInv
<1>1. ASSUME NEW c \in Clients, NEW k \in Kinds, NEW d \in Keys,
             QueueCheck(c, k, d)
      PROVE  ClaimInv'
  BY <1>1, <1>t, ClaimFrame DEF QueueCheck, rowVars, historyVars, pollVars
<1>2. ASSUME NEW t \in Tasks, NEW k, NEW d, InsertRow(t, k, d)
      PROVE  ClaimInv'
  <2>1. /\ status[t] = "absent"
        /\ status' = [status EXCEPT ![t] = "queued"]
        /\ UNCHANGED <<owner, deliveries, acked, pc, req, batch>>
    BY <1>2 DEF InsertRow, NextRow, historyVars, pollVars
  <2>2. (UnclaimedRowsFresh /\ ResultsRecorded)'
    BY <1>t, <2>1 DEF ClaimInv, UnclaimedRowsFresh, ResultsRecorded, TypeOK
  <2>3. LockedRowsQueued'
    BY <1>t, <2>1 DEF ClaimInv, LockedRowsQueued, Locked, TypeOK
  <2> QED
    BY <1>t, <2>1, <2>2, <2>3
       DEF ClaimInv, ClaimsDisjoint, AtMostOnceDelivery, BatchHeld,
           RepliedRowsFresh, RequestServed
<1>3. ASSUME NEW p \in Pollers, NEW r \in Requests, StartClaim(p, r)
      PROVE  ClaimInv'
  <2>1. batch[p] = {}
    BY <1>3 DEF StartClaim, ClaimInv, BatchHeld
  <2> QED
    BY <1>3, <1>t, <2>1, ClaimFrame DEF StartClaim, rowVars, historyVars, TypeOK
<1>4. ASSUME NEW p \in Pollers, CheckConnection(p)
      PROVE  ClaimInv'
  <2>1. batch[p] = {} /\ req[p] \in Requests
    BY <1>4 DEF CheckConnection, ClaimInv, BatchHeld, RequestServed
  <2> QED
    BY <1>4, <1>t, <2>1, ClaimFrame
       DEF CheckConnection, Finish, rowVars, historyVars, TypeOK
<1>5. ASSUME NEW p \in Pollers, ExpireLocalTasks(p)
      PROVE  ClaimInv'
  <2>1. batch[p] = {} /\ req[p] \in Requests
    BY <1>5 DEF ExpireLocalTasks, ClaimInv, BatchHeld, RequestServed
  <2>2. /\ UNCHANGED <<owner, deliveries, acked, batch, req>>
        /\ \A q \in Pollers : q # p => pc'[q] = pc[q]
        /\ pc'[p] = "select" /\ pc[p] = "sweep"
    BY <1>5, <1>t DEF ExpireLocalTasks, historyVars, TypeOK
  <2>3. \A t \in Tasks : \/ status'[t] = status[t]
                         \/ /\ t \notin Locked /\ status'[t] = "expired"
                            /\ status[t] \in LiveStatuses
    BY <1>5 DEF ExpireLocalTasks, Stale
  <2>4. (UnclaimedRowsFresh /\ AtMostOnceDelivery)'
    BY <1>t, <2>2, <2>3 DEF ClaimInv, UnclaimedRowsFresh, AtMostOnceDelivery
  <2>5. ResultsRecorded'
    <3>1. \A t \in Tasks : status[t] \in LiveStatuses => acked[t] = NoOutcome
      BY <1>t DEF ClaimInv, ResultsRecorded, LiveStatuses, TypeOK
    <3> QED
      BY <1>t, <2>2, <2>3, <3>1
         DEF ClaimInv, ResultsRecorded, UnclaimedRowsFresh, LiveStatuses, NoOutcome
  <2>6. LockedRowsQueued'
    <3> SUFFICES ASSUME NEW t \in Locked' PROVE status'[t] = "queued"
      BY DEF LockedRowsQueued
    <3>1. PICK q \in Pollers : pc'[q] = "update" /\ t \in batch'[q]
      BY DEF Locked
    <3>2. t \in Locked /\ t \in Tasks
      BY <3>1, <1>t, <2>2 DEF Locked, TypeOK
    <3> QED BY <3>2, <2>3 DEF ClaimInv, LockedRowsQueued
  <2> QED
    BY <1>t, <2>1, <2>2, <2>4, <2>5, <2>6
       DEF ClaimInv, ClaimsDisjoint, BatchHeld, RepliedRowsFresh, RequestServed
<1>6. ASSUME NEW p \in Pollers, SelectForUpdate(p)
      PROVE  ClaimInv'
  <2>1. batch[p] = {} /\ req[p] \in Requests
    BY <1>6 DEF SelectForUpdate, ClaimInv, BatchHeld, RequestServed
  <2>2. /\ UNCHANGED <<status, owner, deliveries, acked, req>>
        /\ \A q \in Pollers : q # p => pc'[q] = pc[q] /\ batch'[q] = batch[q]
        /\ pc'[p] = "update"
    BY <1>6, <1>t DEF SelectForUpdate, rowVars, historyVars, TypeOK
  <2>3. \A t \in batch'[p] : status[t] = "queued" /\ t \notin Locked
    BY <1>6, <1>t DEF SelectForUpdate, Oldest, TypeOK
  <2>4. \A q \in Pollers : \A t \in batch[q] : pc[q] = "reply" => status[t] # "queued"
    BY <1>t DEF ClaimInv, RepliedRowsFresh, UnclaimedRowsFresh, TypeOK
  <2>5. \A q \in Pollers : q # p => batch'[p] \cap batch[q] = {}
    BY <1>t, <2>3, <2>4 DEF ClaimInv, BatchHeld, Locked
  <2>6. ClaimsDisjoint'
    BY <1>t, <2>2, <2>5 DEF ClaimInv, ClaimsDisjoint
  <2>7. LockedRowsQueued'
    BY <1>t, <2>2, <2>3 DEF ClaimInv, LockedRowsQueued, Locked
  <2> QED
    BY <1>t, <2>1, <2>2, <2>6, <2>7
       DEF ClaimInv, AtMostOnceDelivery, BatchHeld, RepliedRowsFresh,
           UnclaimedRowsFresh, ResultsRecorded, RequestServed
<1>7. ASSUME NEW p \in Pollers, UpdateClaimed(p)
      PROVE  ClaimInv'
  <2>1. req[p] \in Requests /\ req[p].runner \in Runners
    BY <1>7 DEF UpdateClaimed, ClaimInv, RequestServed, ClaimRequest
  <2>2. /\ UNCHANGED <<deliveries, acked, req, batch>>
        /\ \A q \in Pollers : q # p => pc'[q] = pc[q]
        /\ pc[p] = "update"
        /\ pc'[p] \in {"empty", "reply"}
        /\ pc'[p] = "empty" => batch[p] = {}
    BY <1>7, <1>t DEF UpdateClaimed, historyVars, TypeOK
  <2>3. \A t \in batch[p] : status[t] = "queued" /\ t \in Tasks
    BY <1>t, <2>2 DEF ClaimInv, LockedRowsQueued, Locked, TypeOK
  <2>4. \A t \in Tasks :
           \/ /\ t \in batch[p] /\ status'[t] = "claimed"
              /\ owner'[t] = req[p].runner
           \/ /\ t \notin batch[p] /\ status'[t] = status[t]
              /\ owner'[t] = owner[t]
    BY <1>7 DEF UpdateClaimed
  <2>5. (AtMostOnceDelivery /\ UnclaimedRowsFresh)'
    BY <1>t, <2>2, <2>4 DEF ClaimInv, AtMostOnceDelivery, UnclaimedRowsFresh
  <2>6. ResultsRecorded'
    <3> SUFFICES ASSUME NEW t \in Tasks
                 PROVE  /\ owner'[t] # Nobody => status'[t] \notin {"absent", "queued"}
                        /\ status'[t] \in {"claimed", "running"} \cup Outcomes
                              => owner'[t] # Nobody
                        /\ acked'[t] # NoOutcome => status'[t] = acked'[t]
                        /\ acked'[t] = NoOutcome
                              => status'[t] \notin Outcomes \cup {"running"}
      BY DEF ResultsRecorded
    <3>1. CASE t \in batch[p]
      BY <3>1, <1>t, <2>1, <2>2, <2>3, <2>4 DEF ClaimInv, UnclaimedRowsFresh
    <3>2. CASE t \notin batch[p]
      BY <3>2, <1>t, <2>2, <2>4 DEF ClaimInv, ResultsRecorded
    <3> QED BY <3>1, <3>2
  <2>7. RepliedRowsFresh'
    <3> SUFFICES ASSUME NEW q \in Pollers, pc'[q] = "reply", NEW t \in batch'[q]
                 PROVE  deliveries'[t] = 0 /\ owner'[t] = req'[q].runner
                        /\ owner'[t] # Nobody
      BY DEF RepliedRowsFresh
    <3>1. t \in Tasks
      BY <1>t DEF TypeOK
    <3>2. CASE q = p
      BY <3>1, <3>2, <1>t, <2>1, <2>2, <2>3, <2>4 DEF ClaimInv, UnclaimedRowsFresh
    <3>3. CASE q # p
      BY <3>1, <3>3, <1>t, <2>2, <2>4 DEF ClaimInv, RepliedRowsFresh, ClaimsDisjoint
    <3> QED BY <3>2, <3>3
  <2>8. LockedRowsQueued'
    <3> SUFFICES ASSUME NEW t \in Locked' PROVE status'[t] = "queued"
      BY DEF LockedRowsQueued
    <3>1. PICK q \in Pollers : pc'[q] = "update" /\ t \in batch'[q]
      BY DEF Locked
    <3>2. q # p /\ t \notin batch[p] /\ t \in Tasks
      BY <3>1, <1>t, <2>2 DEF ClaimInv, ClaimsDisjoint, TypeOK
    <3> QED
      BY <3>1, <3>2, <1>t, <2>2, <2>4 DEF ClaimInv, LockedRowsQueued, Locked
  <2> QED
    BY <1>t, <2>1, <2>2, <2>5, <2>6, <2>7, <2>8
       DEF ClaimInv, ClaimsDisjoint, BatchHeld, RequestServed
<1>8. ASSUME NEW p \in Pollers, Reply(p)
      PROVE  ClaimInv'
  <2>1. /\ UNCHANGED <<status, owner, acked>>
        /\ pc[p] = "reply" /\ pc'[p] = "idle" /\ batch'[p] = {}
        /\ \A q \in Pollers : q # p => UNCHANGED <<pc[q], batch[q], req[q]>>
    BY <1>8, <1>t DEF Reply, Finish, rowVars, TypeOK
  <2>2. \A t \in Tasks : \/ deliveries'[t] = deliveries[t]
                         \/ /\ t \in batch[p]
                            /\ deliveries[t] = 0 /\ deliveries'[t] = 1
                            /\ status[t] \notin {"absent", "queued"}
    BY <1>8, <1>t, <2>1
       DEF Reply, ClaimInv, RepliedRowsFresh, ResultsRecorded, TypeOK
  <2>3. (AtMostOnceDelivery /\ UnclaimedRowsFresh /\ ResultsRecorded)'
    BY <1>t, <2>1, <2>2
       DEF ClaimInv, AtMostOnceDelivery, UnclaimedRowsFresh, ResultsRecorded
  <2>4. RepliedRowsFresh'
    BY <1>t, <2>1, <2>2 DEF ClaimInv, RepliedRowsFresh, ClaimsDisjoint, TypeOK
  <2>5. LockedRowsQueued'
    BY <1>t, <2>1 DEF ClaimInv, LockedRowsQueued, Locked
  <2> QED
    BY <1>t, <2>1, <2>3, <2>4, <2>5
       DEF ClaimInv, ClaimsDisjoint, BatchHeld, RequestServed
<1>9. ASSUME NEW p \in Pollers, GiveUp(p) \/ SleepAndRetry(p)
      PROVE  ClaimInv'
  <2>1. batch[p] = {} /\ req[p] \in Requests
    BY <1>9 DEF GiveUp, SleepAndRetry, ClaimInv, BatchHeld, RequestServed
  <2> QED
    BY <1>9, <1>t, <2>1, ClaimFrame
       DEF GiveUp, SleepAndRetry, Finish, rowVars, historyVars, TypeOK
<1>10. ASSUME NEW p \in Pollers, Disconnect(p)
       PROVE  ClaimInv'
  BY <1>10, <1>t, ClaimFrame DEF Disconnect, rowVars, historyVars
<1>11. ASSUME NEW w \in Waiters, NEW t \in Tasks, WaitStart(w, t)
       PROVE  ClaimInv'
  BY <1>11, <1>t, ClaimFrame DEF WaitStart, rowVars, historyVars, pollVars
<1>12. ASSUME NEW w \in Waiters, NEW late \in BOOLEAN, WaitAnswer(w, late)
       PROVE  ClaimInv'
  BY <1>12, <1>t, ClaimFrame DEF WaitAnswer, rowVars, historyVars, pollVars
<1>13. ASSUME NEW t \in Tasks, Age(t)
       PROVE  ClaimInv'
  BY <1>13, <1>t, ClaimFrame DEF Age, historyVars, pollVars
<1>14. ASSUME NEW t \in Tasks, NEW o \in Outcomes, CompleteLocalTask(t, o)
       PROVE  ClaimInv'
  <2>1. /\ UNCHANGED <<owner, deliveries, pc, req, batch>>
        /\ status[t] \in {"claimed", "running"}
        /\ status' = [status EXCEPT ![t] = o]
        /\ acked' = [acked EXCEPT ![t] = o]
        /\ o \notin {"absent", "queued", NoOutcome}
    BY <1>14 DEF CompleteLocalTask, pollVars, NoOutcome
  <2>2. (UnclaimedRowsFresh /\ ResultsRecorded)'
    BY <1>t, <2>1 DEF ClaimInv, UnclaimedRowsFresh, ResultsRecorded, TypeOK
  <2>3. LockedRowsQueued'
    BY <1>t, <2>1 DEF ClaimInv, LockedRowsQueued, Locked, TypeOK
  <2> QED
    BY <1>t, <2>1, <2>2, <2>3
       DEF ClaimInv, ClaimsDisjoint, AtMostOnceDelivery, BatchHeld,
           RepliedRowsFresh, RequestServed
<1>15. CASE ServerRestart
  BY <1>15, <1>t, ClaimFrame DEF ServerRestart, rowVars, historyVars
<1>16. CASE UNCHANGED vars
  BY <1>16, <1>t, ClaimFrame DEF vars, rowVars, historyVars, pollVars
<1> QED
  BY <1>1, <1>2, <1>3, <1>4, <1>5, <1>6, <1>7, <1>8, <1>9, <1>10, <1>11,
     <1>12, <1>13, <1>14, <1>15, <1>16
     DEF Next, Client, Pending, QueueUnkeyed, QueueInsert, Poller, Waiter, Complete

(* The inductive invariant of the queue. *)
THEOREM ClaimInvariant == Spec => []ClaimInv
BY ClaimInit, ClaimStep, PTL DEF Spec

----------------------------------------------------------------------------
(* What the invariant gives.                                               *)

(* A task is handed out at most once. *)
THEOREM AtMostOnce == Spec => []AtMostOnceDelivery
<1>1. ClaimInv => AtMostOnceDelivery
  BY DEF ClaimInv
<1> QED BY <1>1, ClaimInvariant, PTL

(* Claims in flight never share a row. *)
THEOREM Disjoint == Spec => []ClaimsDisjoint
<1>1. ClaimInv => ClaimsDisjoint
  BY DEF ClaimInv
<1> QED BY <1>1, ClaimInvariant, PTL

(* A row that a runner was given has its result, waits for it, or expired. *)
THEOREM Accounted == Spec => []HandedOutAccounted
<1>1. ClaimInv => HandedOutAccounted
  <2> SUFFICES ASSUME ClaimInv, NEW t \in Tasks, deliveries[t] > 0
               PROVE  \/ acked[t] = NoOutcome /\ status[t] \in {"claimed", "expired"}
                      \/ acked[t] # NoOutcome /\ status[t] = acked[t]
    BY DEF HandedOutAccounted
  <2>1. status[t] \notin {"absent", "queued"}
    BY DEF ClaimInv, UnclaimedRowsFresh
  <2>2. status[t] \in Statuses
    BY DEF ClaimInv, TypeOK
  <2>3. /\ acked[t] # NoOutcome => status[t] = acked[t]
        /\ acked[t] = NoOutcome => status[t] \notin Outcomes \cup {"running"}
    BY DEF ClaimInv, ResultsRecorded
  <2> QED BY <2>1, <2>2, <2>3 DEF Statuses, LiveStatuses, Settled
<1> QED BY <1>1, ClaimInvariant, PTL

(* The columns of a row change in these ways only. *)
LEMMA RowStep ==
    ASSUME ClaimInv, [Next]_vars, NEW t \in Tasks
    PROVE  \/ UNCHANGED <<status[t], owner[t], acked[t]>>
           \/ /\ status[t] = "absent" /\ status'[t] = "queued"
              /\ UNCHANGED <<owner[t], acked[t]>>
           \/ /\ status[t] = "queued" /\ status'[t] = "claimed"
              /\ owner'[t] \in Runners
              /\ UNCHANGED acked[t]
           \/ /\ status[t] \in LiveStatuses /\ status'[t] = "expired"
              /\ UNCHANGED <<owner[t], acked[t]>>
           \/ /\ status[t] \in {"claimed", "running"}
              /\ status'[t] = acked'[t] /\ acked'[t] \in Outcomes
              /\ UNCHANGED owner[t]
<1> USE LocalTasksAssumption
<1>t. TypeOK
  BY DEF ClaimInv
<1>1. ASSUME NEW u \in Tasks, NEW k, NEW d, InsertRow(u, k, d)
      PROVE  \/ UNCHANGED <<status[t], owner[t], acked[t]>>
             \/ /\ status[t] = "absent" /\ status'[t] = "queued"
                /\ UNCHANGED <<owner[t], acked[t]>>
  BY <1>1, <1>t DEF InsertRow, NextRow, historyVars, TypeOK
<1>2. ASSUME NEW p \in Pollers, ExpireLocalTasks(p)
      PROVE  \/ UNCHANGED <<status[t], owner[t], acked[t]>>
             \/ /\ status[t] \in LiveStatuses /\ status'[t] = "expired"
                /\ UNCHANGED <<owner[t], acked[t]>>
  BY <1>2 DEF ExpireLocalTasks, Stale, historyVars
<1>3. ASSUME NEW p \in Pollers, UpdateClaimed(p)
      PROVE  \/ UNCHANGED <<status[t], owner[t], acked[t]>>
             \/ /\ status[t] = "queued" /\ status'[t] = "claimed"
                /\ owner'[t] \in Runners
                /\ UNCHANGED acked[t]
  <2>1. req[p] \in Requests
    BY <1>3 DEF UpdateClaimed, ClaimInv, RequestServed
  <2>2. t \in batch[p] => status[t] = "queued"
    BY <1>3 DEF UpdateClaimed, ClaimInv, LockedRowsQueued, Locked
  <2> QED BY <1>3, <2>1, <2>2 DEF UpdateClaimed, historyVars, ClaimRequest
<1>4. ASSUME NEW p \in Pollers, Poller(p), ~ExpireLocalTasks(p), ~UpdateClaimed(p)
      PROVE  UNCHANGED <<status[t], owner[t], acked[t]>>
  BY <1>4 DEF Poller, StartClaim, CheckConnection, SelectForUpdate, Reply,
              GiveUp, SleepAndRetry, rowVars, historyVars
<1>5. ASSUME NEW u \in Tasks, NEW o \in Outcomes, CompleteLocalTask(u, o)
      PROVE  \/ UNCHANGED <<status[t], owner[t], acked[t]>>
             \/ /\ status[t] \in {"claimed", "running"}
                /\ status'[t] = acked'[t] /\ acked'[t] \in Outcomes
                /\ UNCHANGED owner[t]
  BY <1>5, <1>t DEF CompleteLocalTask, TypeOK
<1>6. ASSUME \/ \E c \in Clients, k \in Kinds, d \in Keys : QueueCheck(c, k, d)
             \/ \E p \in Pollers : Disconnect(p)
             \/ \E w \in Waiters : Waiter(w)
             \/ \E u \in Tasks : Age(u)
             \/ ServerRestart
             \/ UNCHANGED vars
      PROVE  UNCHANGED <<status[t], owner[t], acked[t]>>
  BY <1>6 DEF QueueCheck, Disconnect, Waiter, WaitStart, WaitAnswer, Age,
              ServerRestart, vars, rowVars, historyVars
<1> QED
  BY <1>1, <1>2, <1>3, <1>4, <1>5, <1>6
     DEF Next, Client, Pending, QueueUnkeyed, QueueInsert, Complete

(* claimed_by is written once. *)
THEOREM ClaimKept == Spec => ClaimIsForKeeps
<1>1. ClaimInv /\ [Next]_vars =>
         [\A t \in Tasks : owner[t] # Nobody => owner'[t] = owner[t]]_vars
  <2> SUFFICES ASSUME ClaimInv, [Next]_vars, NEW t \in Tasks, owner[t] # Nobody
               PROVE  owner'[t] = owner[t]
    OBVIOUS
  <2>1. status[t] # "queued"
    BY DEF ClaimInv, ResultsRecorded
  <2> QED BY <2>1, RowStep
<1> QED BY <1>1, ClaimInvariant, PTL DEF Spec, ClaimIsForKeeps

(* An acknowledged result stays. *)
THEOREM ResultKept == Spec => AckedResultKept
<1>1. ClaimInv /\ [Next]_vars =>
         [\A t \in Tasks : acked[t] # NoOutcome =>
             acked'[t] = acked[t] /\ status'[t] = acked[t]]_vars
  <2> SUFFICES ASSUME ClaimInv, [Next]_vars, NEW t \in Tasks, acked[t] # NoOutcome
               PROVE  acked'[t] = acked[t] /\ status'[t] = acked[t]
    OBVIOUS
  <2>1. status[t] = acked[t] /\ acked[t] \in Outcomes
    BY DEF ClaimInv, ResultsRecorded, TypeOK
  <2>2. status[t] \notin {"absent", "queued"} \cup LiveStatuses
    BY <2>1, LocalTasksAssumption DEF LiveStatuses
  <2> QED BY <2>1, <2>2, RowStep DEF LiveStatuses
<1> QED BY <1>1, ClaimInvariant, PTL DEF Spec, AckedResultKept

----------------------------------------------------------------------------
(* The queue implements the abstract work queue.                           *)

LEMMA PhaseOf ==
    ASSUME TypeOK, NEW t \in Tasks
    PROVE  /\ status[t] = "absent" => Phase(t) = "absent"
           /\ status[t] = "queued" => Phase(t) = "waiting"
           /\ status[t] \in {"claimed", "running"} => Phase(t) = "leased"
           /\ status[t] \in Settled => Phase(t) = "done"
           /\ Phase(t) \in {"absent", "waiting", "leased", "done"}
BY LocalTasksAssumption DEF Phase, TypeOK, Statuses, LiveStatuses, Settled

LEMMA SameView ==
    ASSUME UNCHANGED <<status, owner>>
    PROVE  UNCHANGED WQ!vars
BY DEF WQ!vars, Phase, Lessee, FinalStatus

LEMMA StepImplements == ClaimInv /\ TypeOK' /\ [Next]_vars => [WQ!Next]_WQ!vars
<1> SUFFICES ASSUME ClaimInv, TypeOK', [Next]_vars PROVE [WQ!Next]_WQ!vars
  OBVIOUS
<1> USE LocalTasksAssumption
<1>t. TypeOK
  BY DEF ClaimInv
<1>1. ASSUME NEW u \in Tasks, NEW k, NEW d, InsertRow(u, k, d)
      PROVE  WQ!Add({u})
  <2>1. /\ status[u] = "absent" /\ owner' = owner
        /\ status' = [status EXCEPT ![u] = "queued"]
    BY <1>1 DEF InsertRow, NextRow
  <2>2. Phase(u) = "absent" /\ Phase(u)' = "waiting"
    BY <1>t, <2>1 DEF Phase, TypeOK
  <2>3. \A t \in Tasks : t # u => /\ Phase(t)' = Phase(t)
                                  /\ Lessee(t)' = Lessee(t)
                                  /\ FinalStatus(t)' = FinalStatus(t)
    BY <1>t, <2>1 DEF Phase, Lessee, FinalStatus, TypeOK
  <2>4. Lessee(u)' = Lessee(u) /\ FinalStatus(u)' = FinalStatus(u)
    BY <2>2 DEF Lessee, FinalStatus
  <2> QED BY <2>2, <2>3, <2>4 DEF WQ!Add
<1>2. ASSUME NEW p \in Pollers, ExpireLocalTasks(p)
      PROVE  WQ!Settle(Stale, "expired")
  <2>1. \A t \in Tasks :
           \/ /\ t \in Stale /\ status[t] \in LiveStatuses
              /\ status'[t] = "expired"
           \/ t \notin Stale /\ status'[t] = status[t]
    BY <1>2 DEF ExpireLocalTasks, Stale
  <2>2. owner' = owner /\ Stale \subseteq Tasks
    BY <1>2, <1>t DEF ExpireLocalTasks, Stale, TypeOK
  <2>3. \A t \in Stale : /\ Phase(t) # "done" /\ Phase(t)' = "done"
                         /\ Lessee(t)' = Nobody
                         /\ FinalStatus(t)' = "expired"
    BY <1>t, <2>1, <2>2
       DEF Phase, Lessee, FinalStatus, LiveStatuses, TypeOK
  <2>4. \A t \in Tasks \ Stale : /\ Phase(t)' = Phase(t)
                                 /\ Lessee(t)' = Lessee(t)
                                 /\ FinalStatus(t)' = FinalStatus(t)
    BY <2>1, <2>2 DEF Phase, Lessee, FinalStatus
  <2> QED BY <2>2, <2>3, <2>4 DEF WQ!Settle
<1>3. ASSUME NEW p \in Pollers, UpdateClaimed(p)
      PROVE  /\ WQ!Lease(req[p].runner, batch[p])
             /\ req[p].runner \in Runners /\ batch[p] \subseteq Tasks
  <2>1. req[p].runner \in Runners /\ batch[p] \subseteq Tasks
    BY <1>3, <1>t DEF UpdateClaimed, ClaimInv, RequestServed, ClaimRequest, TypeOK
  <2>2. \A t \in batch[p] : status[t] = "queued"
    BY <1>3 DEF UpdateClaimed, ClaimInv, LockedRowsQueued, Locked
  <2>3. \A t \in Tasks :
           \/ /\ t \in batch[p] /\ status'[t] = "claimed"
              /\ owner'[t] = req[p].runner
           \/ t \notin batch[p] /\ status'[t] = status[t] /\ owner'[t] = owner[t]
    BY <1>3 DEF UpdateClaimed
  <2>4. \A t \in batch[p] : /\ Phase(t) = "waiting" /\ Phase(t)' = "leased"
                            /\ Lessee(t)' = req[p].runner
                            /\ FinalStatus(t)' = FinalStatus(t)
    BY <2>1, <2>2, <2>3 DEF Phase, Lessee, FinalStatus
  <2>5. \A t \in Tasks \ batch[p] : /\ Phase(t)' = Phase(t)
                                    /\ Lessee(t)' = Lessee(t)
                                    /\ FinalStatus(t)' = FinalStatus(t)
    BY <2>3 DEF Phase, Lessee, FinalStatus
  <2> QED BY <2>1, <2>4, <2>5 DEF WQ!Lease
<1>4. ASSUME NEW u \in Tasks, NEW o \in Outcomes, CompleteLocalTask(u, o)
      PROVE  WQ!Settle({u}, o)
  <2>1. /\ status[u] \in {"claimed", "running"} /\ owner' = owner
        /\ status' = [status EXCEPT ![u] = o]
    BY <1>4 DEF CompleteLocalTask
  <2>2. /\ Phase(u) # "done" /\ Phase(u)' = "done"
        /\ Lessee(u)' = Nobody /\ FinalStatus(u)' = o
    BY <1>t, <2>1 DEF Phase, Lessee, FinalStatus, TypeOK
  <2>3. \A t \in Tasks : t # u => /\ Phase(t)' = Phase(t)
                                  /\ Lessee(t)' = Lessee(t)
                                  /\ FinalStatus(t)' = FinalStatus(t)
    BY <1>t, <2>1 DEF Phase, Lessee, FinalStatus, TypeOK
  <2> QED BY <2>2, <2>3 DEF WQ!Settle
<1>5. ASSUME NEW p \in Pollers, Poller(p), ~ExpireLocalTasks(p), ~UpdateClaimed(p)
      PROVE  UNCHANGED <<status, owner>>
  BY <1>5 DEF Poller, StartClaim, CheckConnection, SelectForUpdate, Reply,
              GiveUp, SleepAndRetry, rowVars
<1>6. ASSUME \/ \E c \in Clients, k \in Kinds, d \in Keys : QueueCheck(c, k, d)
             \/ \E p \in Pollers : Disconnect(p)
             \/ \E w \in Waiters : Waiter(w)
             \/ \E u \in Tasks : Age(u)
             \/ ServerRestart
             \/ UNCHANGED vars
      PROVE  UNCHANGED <<status, owner>>
  BY <1>6 DEF QueueCheck, Disconnect, Waiter, WaitStart, WaitAnswer, Age,
              ServerRestart, vars, rowVars
<1>7. CASE UNCHANGED <<status, owner>>
  BY <1>7, SameView
<1>8. CASE WQ!Next
  BY <1>8
<1>9. \/ UNCHANGED <<status, owner>>
      \/ \E u \in Tasks : WQ!Add({u})
      \/ WQ!Settle(Stale, "expired")
      \/ \E p \in Pollers : UpdateClaimed(p)
      \/ \E u \in Tasks, o \in Outcomes : WQ!Settle({u}, o)
  BY <1>1, <1>2, <1>4, <1>5, <1>6
     DEF Next, Client, Pending, QueueUnkeyed, QueueInsert, Complete
<1>10. (\E p \in Pollers : UpdateClaimed(p)) => WQ!Next
  BY <1>3 DEF WQ!Next
<1>11. Stale \in SUBSET Tasks
  BY <1>t DEF Stale, TypeOK
<1> QED BY <1>7, <1>8, <1>9, <1>10, <1>11 DEF WQ!Next, Settled

(* Every behaviour of the queue is one of the abstract work queue: rows    *)
(* are leased to one runner at a time, never go back, are settled once.    *)
THEOREM Implementation == Spec => ImplementsWorkQueue
<1>1. Init => WQ!Init
  BY PhaseOf, TypeInit DEF Init, WQ!Init, Lessee, FinalStatus
<1>2. ClaimInv => TypeOK
  BY DEF ClaimInv
<1> QED
  BY <1>1, <1>2, ClaimInvariant, StepImplements, PTL
     DEF Spec, ImplementsWorkQueue, WQ!Spec

----------------------------------------------------------------------------
(* Answers to waiting callers.  A row that is settled never changes.       *)
LEMMA SettledStay ==
    ASSUME ClaimInv, [Next]_vars, NEW t \in Tasks, status[t] \in Settled
    PROVE  status'[t] = status[t]
<1>1. status[t] \notin {"absent"} \cup LiveStatuses
  BY LocalTasksAssumption DEF Settled, LiveStatuses
<1> QED BY <1>1, RowStep DEF LiveStatuses

AnswerHolds(w) ==
    told[w].status \in Settled =>
        told[w].task \in Tasks /\ status[told[w].task] = told[w].status

LEMMA AnswerStep ==
    ASSUME ClaimInv, [Next]_vars, NEW w \in Waiters, AnswerHolds(w) PROVE AnswerHolds(w)'
<1>t. TypeOK
  BY DEF ClaimInv
<1>1. CASE told'[w] = told[w]
  BY <1>1, SettledStay DEF AnswerHolds
<1>2. CASE told'[w] # told[w]
  <2>1. PICK x \in Waiters, late \in BOOLEAN : WaitAnswer(x, late)
    BY <1>2 DEF Next, Client, QueueCheck, QueueUnkeyed, InsertRow, Pending, QueueInsert, Poller,
                StartClaim, CheckConnection, ExpireLocalTasks, SelectForUpdate,
                UpdateClaimed, Reply, GiveUp, SleepAndRetry, Complete,
                CompleteLocalTask, Waiter, WaitStart, Age, Disconnect, ServerRestart,
                waitVars, vars
  <2>2. x = w
    BY <1>t, <1>2, <2>1 DEF WaitAnswer, TypeOK
  <2>3. /\ watch[w] \in Tasks /\ UNCHANGED status
        /\ told'[w] = [task |-> watch[w], status |-> status[watch[w]]]
    BY <1>t, <2>1, <2>2 DEF WaitAnswer, TypeOK, rowVars
  <2> QED BY <2>3 DEF AnswerHolds
<1> QED BY <1>1, <1>2

(* What /local/task/{id}/wait answered about a finished task stays true.   *)
THEOREM AnswersStayTrue == Spec => []WaitAnswerStaysTrue
<1> DEFINE Inv == \A w \in Waiters : AnswerHolds(w)
<1>1. Init => Inv
  BY LocalTasksAssumption DEF Init, AnswerHolds, NoAnswer, Settled
<1>2. ClaimInv /\ Inv /\ [Next]_vars => Inv'
  BY AnswerStep
<1>3. Inv => WaitAnswerStaysTrue
  BY DEF AnswerHolds, WaitAnswerStaysTrue
<1> HIDE DEF Inv
<1> QED BY <1>1, <1>2, <1>3, ClaimInvariant, PTL DEF Spec

----------------------------------------------------------------------------
(* Deduplication, for one queueing client at a time.  A client that is     *)
(* about to insert a row with a key found no live row with it, and there   *)
(* is none yet.                                                            *)
OneClient == \A c, d \in Clients : c = d

Unused(c) == want[c].key # NoKey => LiveWithKey(want[c].key) = {}

KeyInv == /\ TypeOK
          /\ OneLiveTaskPerKey
          /\ \A c \in Clients : Unused(c)

(* A step that inserts no row and lets no client begin to. *)
LEMMA NoInsertStep ==
    ASSUME KeyInv, TypeOK', UNCHANGED key,
           \A t \in Tasks : status'[t] \in LiveStatuses => status[t] \in LiveStatuses,
           \A c \in Clients : want'[c] = want[c] \/ want'[c].key = NoKey
    PROVE  KeyInv'
<1>1. OneLiveTaskPerKey'
  BY DEF KeyInv, OneLiveTaskPerKey
<1>2. ASSUME NEW c \in Clients, want'[c].key # NoKey
      PROVE  LiveWithKey(want[c].key)' = {}
  <2>1. want'[c] = want[c] /\ LiveWithKey(want[c].key) = {}
    BY <1>2 DEF KeyInv, Unused
  <2> QED BY <2>1 DEF LiveWithKey
<1> QED BY <1>1, <1>2 DEF KeyInv, Unused

(* The step of a row that is inserted. *)
LEMMA InsertStep ==
    ASSUME KeyInv, TypeOK', NEW t \in Tasks, NEW k, NEW d \in Keys \cup {NoKey},
           InsertRow(t, k, d), d = NoKey \/ LiveWithKey(d) = {},
           \A x \in Clients : want'[x].key = NoKey \/ (d = NoKey /\ want'[x] = want[x])
    PROVE  KeyInv'
<1>1. /\ status[t] = "absent"
      /\ \A u \in Tasks \ {t} : status'[u] = status[u] /\ key'[u] = key[u]
      /\ key'[t] = d
  BY DEF InsertRow, NextRow, KeyInv, TypeOK
<1>2. ASSUME NEW u \in Tasks, u # t, key'[u] = d, d # NoKey, status'[u] \in LiveStatuses
      PROVE  FALSE
  BY <1>1, <1>2 DEF LiveWithKey
<1>3. OneLiveTaskPerKey'
  <2> SUFFICES ASSUME NEW u \in Tasks, NEW v \in Tasks, u # v, key'[u] = key'[v],
                      key'[u] # NoKey, status'[u] \in LiveStatuses, status'[v] \in LiveStatuses
               PROVE  FALSE
    BY DEF OneLiveTaskPerKey, Tasks
  <2>1. CASE u = t \/ v = t
    BY <1>1, <1>2, <2>1
  <2>2. CASE u # t /\ v # t
    BY <1>1, <2>2 DEF KeyInv, OneLiveTaskPerKey
  <2> QED BY <2>1, <2>2
<1>4. ASSUME NEW c \in Clients, want'[c].key # NoKey
      PROVE  LiveWithKey(want[c].key)' = {}
  <2>1. d = NoKey /\ want'[c] = want[c] /\ LiveWithKey(want[c].key) = {}
    BY <1>4 DEF KeyInv, Unused
  <2> QED BY <1>1, <1>4, <2>1 DEF LiveWithKey
<1> QED BY <1>3, <1>4 DEF KeyInv, Unused

LEMMA KeyStep == OneClient /\ ClaimInv /\ KeyInv /\ [Next]_vars => KeyInv'
<1> SUFFICES ASSUME OneClient, ClaimInv, KeyInv, [Next]_vars PROVE KeyInv'
  OBVIOUS
<1>0. TypeOK /\ TypeOK'
  BY TypeStep DEF KeyInv
<1>1. ASSUME NEW c \in Clients, NEW k \in Kinds, NEW d \in Keys, QueueCheck(c, k, d)
      PROVE  KeyInv'
  <2>1. UNCHANGED <<status, key>> /\ LiveWithKey(d) = {}
    BY <1>1 DEF QueueCheck, rowVars
  <2>2. want'[c].key = d /\ \A x \in Clients \ {c} : want'[x] = want[x]
    BY <1>0, <1>1 DEF QueueCheck, TypeOK
  <2>3. OneLiveTaskPerKey'
    BY <2>1 DEF KeyInv, OneLiveTaskPerKey
  <2>4. \A x \in Clients : x = c
    BY DEF OneClient
  <2>5. LiveWithKey(want[c].key)' = {}
    BY <2>1, <2>2 DEF LiveWithKey
  <2> QED BY <1>0, <2>3, <2>4, <2>5 DEF KeyInv, Unused
<1>2. ASSUME NEW c \in Clients, NEW t \in Tasks, QueueInsert(c, t) PROVE KeyInv'
  <2>1. /\ InsertRow(t, want[c].kind, want[c].key)
        /\ want' = [want EXCEPT ![c] = NoWant]
    BY <1>2 DEF QueueInsert
  <2>2. PICK k, d : k = want[c].kind /\ d = want[c].key
    OBVIOUS
  <2>3. d \in Keys \cup {NoKey} /\ want'[c].key = NoKey
    BY <1>0, <2>1, <2>2 DEF TypeOK, NoWant
  <2>4. d = NoKey \/ LiveWithKey(d) = {}
    BY <2>2 DEF KeyInv, Unused
  <2>5. \A x \in Clients : want'[x].key = NoKey \/ (d = NoKey /\ want'[x] = want[x])
    BY <2>3 DEF OneClient
  <2>6. InsertRow(t, k, d)
    BY <2>1, <2>2
  <2>7. d \in Keys \cup {NoKey}
    BY <2>3
  <2> QED BY <1>0, <2>4, <2>5, <2>6, <2>7, InsertStep
<1>3. ASSUME NEW c \in Clients, NEW t \in Tasks, NEW k \in Kinds, QueueUnkeyed(c, t, k)
      PROVE  KeyInv'
  <2>1. InsertRow(t, k, NoKey) /\ UNCHANGED want
    BY <1>3 DEF QueueUnkeyed
  <2> QED BY <1>0, <2>1, InsertStep
<1>4. CASE \E p \in Pollers : ExpireLocalTasks(p)
  BY <1>0, <1>4, NoInsertStep, LocalTasksAssumption DEF ExpireLocalTasks, LiveStatuses
<1>5. CASE \E p \in Pollers : UpdateClaimed(p)
  <2>1. PICK p \in Pollers : UpdateClaimed(p)
    BY <1>5
  <2>2. ASSUME NEW t \in batch[p] PROVE status[t] \in LiveStatuses
    <3>1. t \in Locked
      BY <2>1, <2>2 DEF UpdateClaimed, Locked
    <3> QED BY <3>1 DEF ClaimInv, LockedRowsQueued, LiveStatuses
  <2> QED
    BY <1>0, <2>1, <2>2, NoInsertStep DEF UpdateClaimed, LiveStatuses
<1>6. ASSUME NEW t \in Tasks, NEW o \in Outcomes, CompleteLocalTask(t, o) PROVE KeyInv'
  <2>1. \A u \in Tasks : status'[u] \in LiveStatuses => status[u] \in LiveStatuses
    BY <1>0, <1>6 DEF CompleteLocalTask, TypeOK, LiveStatuses
  <2> QED BY <1>0, <1>6, <2>1, NoInsertStep DEF CompleteLocalTask
<1>7. ASSUME NEW p \in Pollers, Poller(p), ~ExpireLocalTasks(p), ~UpdateClaimed(p)
      PROVE  KeyInv'
  <2>1. UNCHANGED <<status, key, want>>
    BY <1>7 DEF Poller, StartClaim, CheckConnection, SelectForUpdate, Reply, GiveUp,
                SleepAndRetry, rowVars
  <2> QED BY <1>0, <2>1, NoInsertStep
<1>8. CASE \/ \E p \in Pollers : Disconnect(p)
           \/ \E w \in Waiters : Waiter(w)
           \/ \E t \in Tasks : Age(t)
           \/ UNCHANGED vars
  <2>1. UNCHANGED <<status, key, want>>
    BY <1>8 DEF Disconnect, Waiter, WaitStart, WaitAnswer, Age, rowVars, vars
  <2> QED BY <1>0, <2>1, NoInsertStep
<1>9. CASE ServerRestart
  BY <1>0, <1>9, NoInsertStep DEF ServerRestart, NoWant, rowVars
<1> QED BY <1>1, <1>2, <1>3, <1>4, <1>5, <1>6, <1>7, <1>8, <1>9
        DEF Next, Client, Pending, Complete

(* While one client queues at a time, no two live rows share a dedup key,  *)
(* whatever runners, sweeps, reports and restarts do to the rows.          *)
THEOREM OneLivePerKey == Spec => [](OneClient => OneLiveTaskPerKey)
<1> DEFINE Inv == OneClient => KeyInv
<1>1. Init => Inv
  BY TypeInit DEF Init, KeyInv, Unused, OneLiveTaskPerKey, NoWant
<1>2. ClaimInv /\ Inv /\ [Next]_vars => Inv'
  BY KeyStep DEF OneClient
<1>3. Inv => (OneClient => OneLiveTaskPerKey)
  BY DEF KeyInv
<1> HIDE DEF Inv
<1> QED BY <1>1, <1>2, <1>3, ClaimInvariant, PTL DEF Spec
=============================================================================
