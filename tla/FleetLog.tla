------------------------------ MODULE FleetLog ------------------------------
(***************************************************************************)
(* The log of the fleet: runs, what agents record about them (events and   *)
(* artifacts; decisions are written by other services), and the bundle a   *)
(* debugger or motto-director reads with get_run and replay_run.  Composed *)
(* with the intents of the same agents (module Intents).                   *)
(*                                                                         *)
(* Every write is one statement.  A bundle is read by six statements, each *)
(* with a snapshot of its own: the run, its events, decisions, artifacts,  *)
(* its parent, its children.  Writers interleave with them.                *)
(* Entries are numbered in insertion order.                                *)
(***************************************************************************)
EXTENDS Intents

CONSTANTS Runs,        \* run ids
          NoRun,
          MaxEntries,  \* bound: entries ever recorded
          MaxEnds,     \* bound: reports that a run has ended
          MaxRows,     \* bound: runs, entries and intents together
          Readers      \* handlers of replay_run

Entries    == 1..MaxEntries
EntryKinds == {"event", "decision", "artifact"}
FinalStatuses == {"success", "error", "cancelled"}

ASSUME FleetLogAssumption ==
    /\ NoRun \notin Runs
    /\ MaxEntries \in Nat /\ MaxEnds \in Nat /\ MaxRows \in Nat

VARIABLES
    runStatus, parent,      \* columns of fleet.runs
    entryRun, entryKind,    \* columns of fleet.events, .decisions, .artifacts
    ends,
    atEnd,                  \* history: entries and children of a run when it ended
    step, bundle            \* reader v: the next statement, what it has read

runVars   == <<runStatus, parent>>
entryVars == <<entryRun, entryKind>>
logVars   == <<runVars, entryVars, ends, atEnd, step, bundle>>
vars      == <<registered, intentVars, logVars>>

NothingRead == [run |-> NoRun, status |-> "none", entries |-> {}, parent |-> NoRun,
                children |-> {}]

LogInit ==
    /\ runStatus = [r \in Runs |-> "absent"]
    /\ parent = [r \in Runs |-> NoRun]
    /\ entryRun = [e \in Entries |-> NoRun]
    /\ entryKind = [e \in Entries |-> "none"]
    /\ ends = 0
    /\ atEnd = [r \in Runs |-> [entries |-> {}, children |-> {}]]
    /\ step = [v \in Readers |-> "idle"]
    /\ bundle = [v \in Readers |-> NothingRead]

Exists(r) == runStatus[r] # "absent"
EntriesOf(r) == {e \in Entries : entryRun[e] = r}
ChildrenOf(r) == {c \in Runs : parent[c] = r}

----------------------------------------------------------------------------
(* Writing.  Without a registered agent the insert selects no row: nothing *)
(* is written, and the answer names no run.  Its foreign key waits while a *)
(* poll has locked the agent.                                              *)
SomeWriter == \E a \in registered : ~AgentLocked(a)

StartRun(r, p) ==
    /\ SomeWriter
    /\ ~Exists(r)
    /\ p = NoRun \/ (p \in Runs /\ Exists(p))
    /\ runStatus' = [runStatus EXCEPT ![r] = "running"]
    /\ parent' = [parent EXCEPT ![r] = p]
    /\ UNCHANGED <<registered, intentVars, entryVars, ends, atEnd, step, bundle>>

(* A run may be reported as ended more than once; the last report stays.   *)
EndRun(r, s) ==
    /\ Exists(r) /\ ends < MaxEnds
    /\ runStatus' = [runStatus EXCEPT ![r] = s]
    /\ ends' = ends + 1
    /\ atEnd' = IF runStatus[r] # "running" THEN atEnd
                ELSE [atEnd EXCEPT ![r] = [entries |-> EntriesOf(r),
                                           children |-> ChildrenOf(r)]]
    /\ UNCHANGED <<registered, intentVars, parent, entryVars, step, bundle>>

Record(e, r, k) ==
    /\ SomeWriter
    /\ entryKind[e] = "none" /\ \A f \in Entries : f < e => entryKind[f] # "none"
    /\ Exists(r)
    /\ entryRun' = [entryRun EXCEPT ![e] = r]
    /\ entryKind' = [entryKind EXCEPT ![e] = k]
    /\ UNCHANGED <<registered, intentVars, runVars, ends, atEnd, step, bundle>>

RecordEvent(e, r)           == Record(e, r, "event")
RecordArtifactContent(e, r) == Record(e, r, "artifact")
RecordDecision(e, r)        == Record(e, r, "decision")

----------------------------------------------------------------------------
(* Reading: Db.replay_run over Db.get_run.                                 *)

Read(v, now, next, b) ==
    /\ step[v] = now
    /\ step' = [step EXCEPT ![v] = next]
    /\ bundle' = [bundle EXCEPT ![v] = b]
    /\ UNCHANGED <<registered, intentVars, runVars, entryVars, ends, atEnd>>

(* The first statement.  A run that does not exist is answered with a null *)
(* run and empty lists, which is left out.                                 *)
ReadRun(v, r) ==
    /\ Exists(r)
    /\ Read(v, "idle", "event", [NothingRead EXCEPT !.run = r, !.status = runStatus[r]])

After(k) == CASE k = "event" -> "decision"
              [] k = "decision" -> "artifact"
              [] k = "artifact" -> "parent"

ReadEntries(v, k) ==
    Read(v, k, After(k),
         [bundle[v] EXCEPT !.entries =
             @ \cup {e \in EntriesOf(bundle[v].run) : entryKind[e] = k}])

(* Mutant: the parent's statement refreshes the run's row as well. *)
MutantReadParent(v) ==
    /\ Read(v, "parent", "children",
            [bundle[v] EXCEPT !.parent = parent[bundle[v].run],
                              !.status = runStatus[bundle[v].run]])

(* parent_run_id comes from the row that was read first; it never changes. *)
ReadParent(v) ==
    /\ Read(v, "parent", "children", [bundle[v] EXCEPT !.parent = parent[bundle[v].run]])

ReadChildren(v) ==
    Read(v, "children", "answered",
         [bundle[v] EXCEPT !.children = ChildrenOf(bundle[v].run)])

Answered(v) == Read(v, "answered", "idle", NothingRead)

ReplayRun(v) == \/ \E r \in Runs : ReadRun(v, r)
                \/ \E k \in EntryKinds : ReadEntries(v, k)
                \/ ReadParent(v)
                \/ ReadChildren(v)
                \/ Answered(v)

----------------------------------------------------------------------------
LogStep == \/ \E r \in Runs, p \in Runs \cup {NoRun} : StartRun(r, p)
           \/ \E r \in Runs, s \in FinalStatuses : EndRun(r, s)
           \/ \E e \in Entries, r \in Runs : \/ RecordEvent(e, r)
                                             \/ RecordArtifactContent(e, r)
                                             \/ RecordDecision(e, r)
           \/ \E v \in Readers : ReplayRun(v)

Init == IntentsInit /\ LogInit

Rows == Cardinality({r \in Runs : Exists(r)})
        + Cardinality({e \in Entries : entryKind[e] # "none"})
        + Cardinality({i \in IntentIds : intentStatus[i] # "absent"})

Next == /\ (IntentsStep /\ UNCHANGED logVars) \/ LogStep
        /\ Rows' <= MaxRows

Spec == Init /\ [][Next]_vars

----------------------------------------------------------------------------
TypeOK ==
    /\ IntentsTypeOK
    /\ runStatus \in [Runs -> {"absent", "running"} \cup FinalStatuses]
    /\ parent \in [Runs -> Runs \cup {NoRun}]
    /\ entryRun \in [Entries -> Runs \cup {NoRun}]
    /\ entryKind \in [Entries -> EntryKinds \cup {"none"}]
    /\ ends \in 0..MaxEnds
    /\ atEnd \in [Runs -> [entries : SUBSET Entries, children : SUBSET Runs]]
    /\ step \in [Readers -> EntryKinds \cup {"idle", "parent", "children", "answered"}]
    /\ bundle \in [Readers -> [run : Runs \cup {NoRun},
                               status : {"none", "running"} \cup FinalStatuses,
                               entries : SUBSET Entries,
                               parent : Runs \cup {NoRun},
                               children : SUBSET Runs]]

(* A bundle that shows a run as ended has everything that was recorded     *)
(* under it, and every child that was started, before it ended: the run is *)
(* read first, though nothing locks it while the rest is read.             *)
FinishedBundleComplete ==
    \A v \in Readers :
        LET b == bundle[v]
        IN  step[v] = "answered" /\ b.status \in FinalStatuses =>
                /\ atEnd[b.run].entries \subseteq b.entries
                /\ atEnd[b.run].children \subseteq b.children
=============================================================================
