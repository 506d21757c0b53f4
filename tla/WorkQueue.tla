----------------------------- MODULE WorkQueue -----------------------------
(***************************************************************************)
(* What a database-backed work queue of motto-mcp-server promises to the   *)
(* parties on both sides of it, whatever its table is called.              *)
(*                                                                         *)
(* An item is put in once, is leased by at most one worker at a time, may  *)
(* go back to waiting only where the queue has a release operation, and    *)
(* is settled once and for good.  LocalTasks (no release), PendingMoves    *)
(* (release, and a human gate before an item waits) and Grabber (one       *)
(* worker) implement this module, and so do the tables of Capabilities and *)
(* Intents, whose rows wait to be settled and are leased to nobody.        *)
(***************************************************************************)
CONSTANTS Items,       \* rows of the table
          Workers,     \* parties that lease rows
          Nobody,      \* the lessee of a row that is not leased
          Outcomes,    \* final statuses of a row
          Unsettled,   \* the outcome of a row that has none
          Releasable   \* TRUE where the queue has a release operation

VARIABLES phase,    \* "absent", "waiting", "leased" or "done"
          lessee,   \* the worker a leased row belongs to
          outcome   \* the final status of a settled row

vars == <<phase, lessee, outcome>>

Init == /\ phase = [i \in Items |-> "absent"]
        /\ lessee = [i \in Items |-> Nobody]
        /\ outcome = [i \in Items |-> Unsettled]

(* Rows become available to workers. *)
Add(batch) ==
    /\ \A i \in batch : phase[i] = "absent"
    /\ phase' = [i \in Items |-> IF i \in batch THEN "waiting" ELSE phase[i]]
    /\ UNCHANGED <<lessee, outcome>>

(* A worker leases a batch of waiting rows. *)
Lease(w, batch) ==
    /\ \A i \in batch : phase[i] = "waiting"
    /\ phase' = [i \in Items |-> IF i \in batch THEN "leased" ELSE phase[i]]
    /\ lessee' = [i \in Items |-> IF i \in batch THEN w ELSE lessee[i]]
    /\ UNCHANGED outcome

(* A leased row goes back to waiting. *)
Release(i) ==
    /\ Releasable
    /\ phase[i] = "leased"
    /\ phase' = [phase EXCEPT ![i] = "waiting"]
    /\ lessee' = [lessee EXCEPT ![i] = Nobody]
    /\ UNCHANGED outcome

(* Rows get their final status; only rows that have none yet may. *)
Settle(batch, o) ==
    /\ \A i \in batch : phase[i] # "done"
    /\ phase' = [i \in Items |-> IF i \in batch THEN "done" ELSE phase[i]]
    /\ lessee' = [i \in Items |-> IF i \in batch THEN Nobody ELSE lessee[i]]
    /\ outcome' = [i \in Items |-> IF i \in batch THEN o ELSE outcome[i]]

Next == \/ \E batch \in SUBSET Items : Add(batch)
        \/ \E i \in Items : Release(i)
        \/ \E w \in Workers, batch \in SUBSET Items : Lease(w, batch)
        \/ \E o \in Outcomes, batch \in SUBSET Items : Settle(batch, o)

Spec == Init /\ [][Next]_vars

============================================================================
