--------------------------- MODULE FleetLog_proofs ---------------------------
(* Theorems about intents and replay bundles, for any number of agents,    *)
(* processes, intents, runs, entries, readers and calls that are cut off.  *)
EXTENDS FleetLog, TLAPS

(* The steps of the composition, seen from either side. *)
LEMMA IntentsMove == [Next]_vars => IntentsStep \/ UNCHANGED <<registered, intentVars>>
BY DEF Next, vars, LogStep, StartRun, EndRun, RecordEvent, RecordArtifactContent,
       RecordDecision, Record, ReplayRun, ReadRun, ReadEntries, ReadParent,
       ReadChildren, Answered, Read

LEMMA LogMoves == [Next]_vars => LogStep \/ UNCHANGED logVars
BY DEF Next, vars

----------------------------------------------------------------------------
(* Intents.  A process holds rows only between the look-up and the answer; *)
(* what a statement has locked is still open; and an intent that is not    *)
(* consumed has no history.                                                *)
InAnswer(i) == \E c \in Consumers : stage[c] = "answer" /\ i \in taken[c]

TakenHeld ==
    \A c \in Consumers :
        /\ stage[c] = "idle" => taken[c] = {}
        /\ stage[c] = "update" => \A i \in taken[c] : intentStatus[i] = "open"

Fate(i) ==
    IF intentStatus[i] = "consumed"
    THEN \/ InAnswer(i) /\ delivered[i] = 0 /\ i \notin forgotten
         \/ ~InAnswer(i) /\ delivered[i] = 1 /\ i \notin forgotten
         \/ ~InAnswer(i) /\ delivered[i] = 0 /\ i \in forgotten
    ELSE ~InAnswer(i) /\ delivered[i] = 0 /\ i \notin forgotten

Exclusive ==
    /\ \A c, d \in Consumers : c # d => taken[c] \cap taken[d] = {}
    /\ \A c \in Consumers : \A i \in taken[c] : target[i] = AgentOf[c]

IntentsInv == /\ IntentsTypeOK
              /\ TakenHeld
              /\ Exclusive
              /\ \A i \in IntentIds : Fate(i)

LEMMA IntentsInitial == IntentsInit => IntentsInv
BY IntentsAssumption
   DEF IntentsInit, IntentsInv, IntentsTypeOK, TakenHeld, Exclusive, Fate, InAnswer

(* A consumer lets go of its rows; nobody else's change. *)
LEMMA DoneStep ==
    ASSUME IntentsInv, NEW c \in Consumers, ConsumerDone(c)
    PROVE  /\ stage' \in [Consumers -> {"idle", "update", "answer"}]
           /\ taken' \in [Consumers -> SUBSET IntentIds]
           /\ TakenHeld' /\ Exclusive'
           /\ \A i \in IntentIds : InAnswer(i)' <=> InAnswer(i) /\ i \notin taken[c]
<1> USE DEF IntentsInv, IntentsTypeOK
<1>1. /\ stage' \in [Consumers -> {"idle", "update", "answer"}]
      /\ taken' \in [Consumers -> SUBSET IntentIds]
      /\ stage'[c] = "idle" /\ taken'[c] = {}
      /\ \A d \in Consumers \ {c} : stage'[d] = stage[d] /\ taken'[d] = taken[d]
  BY DEF ConsumerDone
<1>2. TakenHeld'
  BY <1>1 DEF TakenHeld, ConsumerDone
<1>3. Exclusive'
  BY <1>1 DEF Exclusive, ConsumerDone
<1>4. ASSUME NEW i \in IntentIds PROVE InAnswer(i)' <=> InAnswer(i) /\ i \notin taken[c]
  BY <1>1 DEF InAnswer, Exclusive
<1> QED BY <1>1, <1>2, <1>3, <1>4

LEMMA IntentsInvStep ==
    IntentsInv /\ (IntentsStep \/ UNCHANGED <<registered, intentVars>>) => IntentsInv'
<1> SUFFICES ASSUME IntentsInv, IntentsStep \/ UNCHANGED <<registered, intentVars>>
             PROVE  IntentsInv'
  OBVIOUS
<1>0. /\ IntentsTypeOK /\ TakenHeld /\ Exclusive
      /\ \A i \in IntentIds : Fate(i)
  BY DEF IntentsInv
<1>1. ASSUME NEW a \in Agents, RegisterAgent(a) PROVE IntentsInv'
  BY <1>0, <1>1 DEF RegisterAgent, intentVars, IntentsInv, IntentsTypeOK, TakenHeld,
                    Exclusive, Fate, InAnswer
<1>2. ASSUME NEW i \in IntentIds, NEW a \in Agents, SignalIntent(i, a) PROVE IntentsInv'
  <2>1. IntentsTypeOK'
    BY <1>0, <1>2 DEF SignalIntent, IntentsTypeOK
  <2>2. \A c \in Consumers : i \notin taken[c]
    BY <1>0, <1>2 DEF SignalIntent, IntentsTypeOK, TakenHeld, Fate, InAnswer
  <2>3. TakenHeld' /\ Exclusive'
    BY <1>0, <1>2, <2>2 DEF SignalIntent, IntentsTypeOK, TakenHeld, Exclusive
  <2>4. ASSUME NEW j \in IntentIds PROVE Fate(j)'
    BY <1>0, <1>2 DEF SignalIntent, IntentsTypeOK, Fate, InAnswer
  <2> QED BY <2>1, <2>3, <2>4 DEF IntentsInv
<1>3. ASSUME NEW c \in Consumers, NEW n \in Limits, NEW skipped \in SUBSET IntentIds,
             TakeOpen(c, n, skipped)
      PROVE  IntentsInv'
  <2>1. /\ taken'[c] \subseteq OpenFor(AgentOf[c]) /\ ~AgentLocked(AgentOf[c])
        /\ stage[c] = "idle" /\ stage'[c] = "update"
        /\ \A d \in Consumers \ {c} : stage'[d] = stage[d] /\ taken'[d] = taken[d]
        /\ UNCHANGED <<registered, intentStatus, target, delivered, forgotten, losses>>
    BY <1>0, <1>3 DEF TakeOpen, Oldest, IntentsTypeOK
  <2>2. IntentsTypeOK'
    BY <1>0, <1>3 DEF TakeOpen, Oldest, OpenFor, IntentsTypeOK
  <2>3. TakenHeld'
    BY <1>0, <2>1 DEF TakenHeld, OpenFor
  <2>4. ASSUME NEW d \in Consumers \ {c} PROVE taken'[c] \cap taken[d] = {}
    <3>1. ASSUME NEW i \in taken'[c], i \in taken[d] PROVE FALSE
      <4>1. intentStatus[i] = "open" /\ i \in IntentIds /\ target[i] = AgentOf[c]
        BY <2>1, <3>1 DEF OpenFor
      <4>2. stage[d] # "update"
        BY <1>0, <2>1, <3>1, <4>1 DEF AgentLocked, Exclusive
      <4>3. stage[d] # "answer"
        BY <1>0, <3>1, <4>1 DEF Fate, InAnswer
      <4> QED BY <1>0, <3>1, <4>2, <4>3 DEF TakenHeld, IntentsTypeOK
    <3> QED BY <3>1
  <2>5. Exclusive'
    BY <1>0, <2>1, <2>4 DEF Exclusive, OpenFor
  <2>6. ASSUME NEW i \in IntentIds PROVE Fate(i)'
    <3>1. InAnswer(i)' <=> InAnswer(i)
      BY <2>1 DEF InAnswer
    <3> QED BY <1>0, <2>1, <3>1 DEF Fate
  <2> QED BY <2>2, <2>3, <2>5, <2>6 DEF IntentsInv
<1>4. ASSUME NEW c \in Consumers, MarkConsumed(c) PROVE IntentsInv'
  <2>1. /\ stage[c] = "update" /\ stage'[c] = "answer"
        /\ \A d \in Consumers \ {c} : stage'[d] = stage[d]
        /\ UNCHANGED <<registered, target, taken, delivered, forgotten, losses>>
        /\ \A i \in IntentIds : intentStatus'[i] = IF i \in taken[c] THEN "consumed"
                                                   ELSE intentStatus[i]
    BY <1>0, <1>4 DEF MarkConsumed, IntentsTypeOK
  <2>2. IntentsTypeOK'
    BY <1>0, <1>4 DEF MarkConsumed, IntentsTypeOK
  <2>3. Exclusive'
    BY <1>0, <2>1 DEF Exclusive
  <2>4. TakenHeld'
    BY <1>0, <2>1 DEF TakenHeld, Exclusive, IntentsTypeOK
  <2>5. ASSUME NEW i \in IntentIds PROVE Fate(i)'
    <3>1. InAnswer(i)' <=> InAnswer(i) \/ i \in taken[c]
      BY <2>1 DEF InAnswer
    <3>2. i \in taken[c] => intentStatus[i] = "open"
      BY <1>0, <2>1 DEF TakenHeld
    <3> QED BY <1>0, <2>1, <3>1, <3>2 DEF Fate
  <2> QED BY <2>2, <2>3, <2>4, <2>5 DEF IntentsInv
<1>5. ASSUME NEW c \in Consumers, AnswerIntents(c) PROVE IntentsInv'
  <2>1. /\ TakenHeld' /\ Exclusive'
        /\ stage' \in [Consumers -> {"idle", "update", "answer"}]
        /\ taken' \in [Consumers -> SUBSET IntentIds]
        /\ \A i \in IntentIds : InAnswer(i)' <=> InAnswer(i) /\ i \notin taken[c]
    BY <1>5, DoneStep DEF AnswerIntents
  <2>2. IntentsTypeOK'
    BY <1>0, <1>5, <2>1 DEF AnswerIntents, ConsumerDone, IntentsTypeOK
  <2>3. ASSUME NEW i \in IntentIds PROVE Fate(i)'
    <3>1. /\ UNCHANGED <<intentStatus, forgotten>>
          /\ delivered'[i] = IF i \in taken[c] THEN delivered[i] + 1 ELSE delivered[i]
          /\ i \in taken[c] => InAnswer(i)
      BY <1>5 DEF AnswerIntents, ConsumerDone, InAnswer
    <3>2. Fate(i) /\ (InAnswer(i)' <=> InAnswer(i) /\ i \notin taken[c])
      BY <1>0, <2>1
    <3> QED BY <3>1, <3>2 DEF Fate
  <2> QED BY <2>1, <2>2, <2>3 DEF IntentsInv
<1>6. ASSUME NEW c \in Consumers, LoseConsumer(c) PROVE IntentsInv'
  <2>1. /\ TakenHeld' /\ Exclusive'
        /\ stage' \in [Consumers -> {"idle", "update", "answer"}]
        /\ taken' \in [Consumers -> SUBSET IntentIds]
        /\ \A i \in IntentIds : InAnswer(i)' <=> InAnswer(i) /\ i \notin taken[c]
    BY <1>6, DoneStep DEF LoseConsumer
  <2>2. IntentsTypeOK'
    BY <1>0, <1>6, <2>1, IntentsAssumption DEF LoseConsumer, ConsumerDone, IntentsTypeOK
  <2>3. ASSUME NEW i \in IntentIds PROVE Fate(i)'
    <3>1. /\ UNCHANGED <<intentStatus, delivered>>
          /\ i \in forgotten' <=> i \in forgotten \/ (stage[c] = "answer" /\ i \in taken[c])
      BY <1>6 DEF LoseConsumer, ConsumerDone
    <3>2. Fate(i) /\ (InAnswer(i)' <=> InAnswer(i) /\ i \notin taken[c])
      BY <1>0, <2>1
    <3>3. i \in taken[c] => (InAnswer(i) <=> stage[c] = "answer")
      BY <1>0 DEF InAnswer, Exclusive
    <3> QED BY <3>1, <3>2, <3>3 DEF Fate
  <2> QED BY <2>1, <2>2, <2>3 DEF IntentsInv
<1>7. CASE UNCHANGED <<registered, intentVars>>
  BY <1>0, <1>7 DEF intentVars, IntentsInv, IntentsTypeOK, TakenHeld, Exclusive, Fate, InAnswer
<1> QED BY <1>1, <1>2, <1>3, <1>4, <1>5, <1>6, <1>7 DEF IntentsStep, ConsumeIntents

LEMMA IntentsInvariant == Spec => []IntentsInv
<1>1. Init => IntentsInv
  BY IntentsInitial DEF Init
<1>2. IntentsInv /\ [Next]_vars => IntentsInv'
  BY IntentsMove, IntentsInvStep
<1> QED BY <1>1, <1>2, PTL DEF Spec

(* consume_open_intents hands an intent to one process of its target, once. *)
THEOREM IntentsGoOnce == Spec => []ConsumedOnce
<1>1. IntentsInv => ConsumedOnce
  <2> SUFFICES ASSUME IntentsInv PROVE ConsumedOnce
    OBVIOUS
  <2>1. ASSUME NEW i \in IntentIds PROVE delivered[i] <= 1
    BY DEF IntentsInv, Fate
  <2> QED BY <2>1 DEF IntentsInv, Exclusive, ConsumedOnce
<1> QED BY <1>1, IntentsInvariant, PTL

(* An intent that is consumed has reached its agent, or is in one answer   *)
(* on its way, or was in one that was lost.                                *)
THEOREM IntentsAreAccounted == Spec => []IntentsAccounted
<1>1. IntentsInv => IntentsAccounted
  BY DEF IntentsInv, Fate, InAnswer, IntentsAccounted
<1> QED BY <1>1, IntentsInvariant, PTL

(* The table of intents implements the work queue. *)
LEMMA IntentQueueStep == IntentsInv /\ IntentsStep => [IntentQueue!Next]_(IntentQueue!vars)
<1> SUFFICES ASSUME IntentsInv, IntentsStep PROVE IntentQueue!Next \/ UNCHANGED IntentQueue!vars
  OBVIOUS
<1>0. IntentsTypeOK /\ TakenHeld
  BY DEF IntentsInv
<1>1. ASSUME UNCHANGED intentStatus PROVE UNCHANGED IntentQueue!vars
  BY <1>1 DEF IntentQueue!vars, IntentPhase
<1>2. ASSUME NEW i \in IntentIds, NEW a \in Agents, SignalIntent(i, a) PROVE IntentQueue!Next
  <2>1. /\ intentStatus[i] = "absent" /\ intentStatus'[i] = "open"
        /\ \A j \in IntentIds \ {i} : intentStatus'[j] = intentStatus[j]
    BY <1>0, <1>2 DEF SignalIntent, IntentsTypeOK
  <2>2. IntentQueue!Add({i})
    BY <2>1 DEF IntentQueue!Add, IntentPhase
  <2> QED BY <2>2 DEF IntentQueue!Next
<1>3. ASSUME NEW c \in Consumers, MarkConsumed(c) PROVE IntentQueue!Next
  <2>1. /\ \A i \in IntentIds : intentStatus'[i] = IF i \in taken[c] THEN "consumed"
                                                   ELSE intentStatus[i]
        /\ stage[c] = "update" /\ taken[c] \in SUBSET IntentIds
    BY <1>0, <1>3 DEF MarkConsumed, IntentsTypeOK
  <2>2. \A i \in taken[c] : intentStatus[i] = "open"
    BY <1>0, <2>1 DEF TakenHeld
  <2>3. IntentQueue!Settle(taken[c], "consumed")
    BY <2>1, <2>2 DEF IntentQueue!Settle, IntentPhase
  <2> QED BY <2>1, <2>3 DEF IntentQueue!Next
<1> QED BY <1>1, <1>2, <1>3
        DEF IntentsStep, ConsumeIntents, RegisterAgent, TakeOpen, AnswerIntents, LoseConsumer,
            ConsumerDone, intentVars

(* An intent is consumed once and for good, in every behaviour of the      *)
(* processes that poll, also of several for one agent.                     *)
THEOREM ConsumptionIsFinal == Spec => ConsumedForGood
<1>1. Init => IntentQueue!Init
  BY DEF Init, IntentsInit, IntentQueue!Init, IntentPhase
<1>2. UNCHANGED intentStatus => UNCHANGED IntentQueue!vars
  BY DEF IntentQueue!vars, IntentPhase
<1>3. IntentsInv /\ [Next]_vars => [IntentQueue!Next]_(IntentQueue!vars)
  <2>1. UNCHANGED <<registered, intentVars>> => UNCHANGED IntentQueue!vars
    BY <1>2 DEF intentVars
  <2> QED BY <2>1, IntentsMove, IntentQueueStep
<1> QED BY <1>1, <1>3, IntentsInvariant, PTL DEF Spec, IntentQueue!Spec, ConsumedForGood

----------------------------------------------------------------------------
(* Bundles.  What was remembered of a run at its end is still recorded     *)
(* under it, and nothing is known of what has not been written.            *)
LogTypes ==
    /\ runStatus \in [Runs -> {"absent", "running"} \cup FinalStatuses]
    /\ parent \in [Runs -> Runs \cup {NoRun}]
    /\ entryRun \in [Entries -> Runs \cup {NoRun}]
    /\ entryKind \in [Entries -> EntryKinds \cup {"none"}]
    /\ ends \in 0..MaxEnds
    /\ atEnd \in [Runs -> [entries : SUBSET Entries, children : SUBSET Runs]]
    /\ step \in [Readers -> EntryKinds \cup {"idle", "parent", "children", "answered"}]
    /\ bundle \in [Readers -> [run : Runs \cup {NoRun},
                               status : {"none", "running"} \cup FinalStatuses,
                               entries : SUBSET Entries,
                               parent : Runs \cup {NoRun},
                               children : SUBSET Runs]]

Blank == /\ \A e \in Entries : entryKind[e] = "none" => entryRun[e] = NoRun
         /\ \A r \in Runs : runStatus[r] = "absent" => parent[r] = NoRun

AtEndStands ==
    \A r \in Runs : /\ atEnd[r].entries \subseteq EntriesOf(r)
                    /\ atEnd[r].children \subseteq ChildrenOf(r)

(* A reader that has seen a run as ended reads of a run whose end was      *)
(* remembered before, and every statement it has behind it has found all   *)
(* entries of its kind that were there at that end.                        *)
Seen(v, k) ==
    {e \in atEnd[bundle[v].run].entries : entryKind[e] = k} \subseteq bundle[v].entries

ReaderKnows(v) ==
    step[v] # "idle" =>
        /\ bundle[v].run \in Runs
        /\ bundle[v].status \in FinalStatuses =>
              /\ runStatus[bundle[v].run] \in FinalStatuses
              /\ step[v] # "event" => Seen(v, "event")
              /\ step[v] \notin {"event", "decision"} => Seen(v, "decision")
              /\ step[v] \notin EntryKinds => Seen(v, "artifact")
              /\ step[v] = "answered" =>
                    atEnd[bundle[v].run].children \subseteq bundle[v].children

LogInv == /\ LogTypes
          /\ Blank
          /\ AtEndStands
          /\ \A v \in Readers : ReaderKnows(v)

LEMMA LogInitial == LogInit => LogInv
BY FleetLogAssumption
   DEF LogInit, LogInv, LogTypes, Blank, AtEndStands, ReaderKnows, NothingRead,
       EntriesOf, ChildrenOf

(* A step of a reader leaves the log and the other readers alone. *)
LEMMA ReadStep ==
    ASSUME LogInv, NEW v \in Readers, NEW now, NEW b,
           NEW next \in EntryKinds \cup {"idle", "parent", "children", "answered"},
           b \in [run : Runs \cup {NoRun}, status : {"none", "running"} \cup FinalStatuses,
                 entries : SUBSET Entries, parent : Runs \cup {NoRun},
                 children : SUBSET Runs],
           Read(v, now, next, b),
           ReaderKnows(v)'
    PROVE  LogInv'
<1>1. /\ step' = [step EXCEPT ![v] = next]
      /\ bundle' = [bundle EXCEPT ![v] = b]
      /\ UNCHANGED <<runStatus, parent, entryRun, entryKind, ends, atEnd>>
  BY DEF Read, runVars, entryVars
<1>2. LogTypes'
  BY <1>1 DEF LogInv, LogTypes
<1>3. Blank' /\ AtEndStands'
  BY <1>1 DEF LogInv, Blank, AtEndStands, EntriesOf, ChildrenOf
<1>4. ASSUME NEW w \in Readers, w # v PROVE ReaderKnows(w)'
  <2>1. step'[w] = step[w] /\ bundle'[w] = bundle[w]
    BY <1>1, <1>4 DEF LogInv, LogTypes
  <2> QED BY <1>1, <2>1 DEF LogInv, ReaderKnows, Seen
<1> QED BY <1>2, <1>3, <1>4 DEF LogInv

(* A step of a writer changes nothing that a reader relies on. *)
LEMMA WriteStep ==
    ASSUME LogInv, LogTypes', UNCHANGED <<step, bundle>>,
           \A r \in Runs : runStatus[r] \in FinalStatuses =>
               runStatus'[r] \in FinalStatuses /\ atEnd'[r] = atEnd[r],
           \A r \in Runs : \A e \in atEnd[r].entries : entryKind'[e] = entryKind[e]
    PROVE  \A v \in Readers : ReaderKnows(v)'
<1> SUFFICES ASSUME NEW v \in Readers PROVE ReaderKnows(v)'
  OBVIOUS
<1>1. ReaderKnows(v)
  BY DEF LogInv
<1>2. CASE step[v] # "idle" /\ bundle[v].status \in FinalStatuses
  <2>1. bundle[v].run \in Runs /\ runStatus[bundle[v].run] \in FinalStatuses
    BY <1>1, <1>2 DEF ReaderKnows
  <2>2. ASSUME NEW k, Seen(v, k) PROVE Seen(v, k)'
    BY <2>1, <2>2 DEF Seen
  <2> QED BY <1>1, <2>1, <2>2 DEF ReaderKnows
<1>3. CASE ~(step[v] # "idle" /\ bundle[v].status \in FinalStatuses)
  BY <1>1, <1>3 DEF ReaderKnows
<1> QED BY <1>2, <1>3

LEMMA LogInvStep == LogInv /\ (LogStep \/ UNCHANGED logVars) => LogInv'
<1> SUFFICES ASSUME LogInv, LogStep \/ UNCHANGED logVars PROVE LogInv'
  OBVIOUS
<1>0. /\ LogTypes /\ Blank /\ AtEndStands
      /\ \A v \in Readers : ReaderKnows(v)
  BY DEF LogInv
<1>1. ASSUME NEW r \in Runs, NEW p \in Runs \cup {NoRun}, StartRun(r, p) PROVE LogInv'
  <2>1. /\ runStatus[r] = "absent"
        /\ runStatus' = [runStatus EXCEPT ![r] = "running"]
        /\ parent' = [parent EXCEPT ![r] = p]
        /\ UNCHANGED <<entryRun, entryKind, ends, atEnd, step, bundle>>
    BY <1>1 DEF StartRun, Exists, entryVars
  <2>2. LogTypes'
    BY <1>0, <2>1 DEF LogTypes
  <2>3. Blank'
    BY <1>0, <2>1 DEF Blank, LogTypes
  <2>4. AtEndStands'
    <3> SUFFICES ASSUME NEW q \in Runs
                 PROVE  /\ atEnd[q].entries \subseteq EntriesOf(q)'
                        /\ atEnd[q].children \subseteq ChildrenOf(q)'
      BY <2>1 DEF AtEndStands
    <3>1. atEnd[q].entries \subseteq EntriesOf(q)'
      BY <1>0, <2>1 DEF AtEndStands, EntriesOf
    <3>2. ASSUME NEW x \in atEnd[q].children PROVE x \in Runs /\ parent'[x] = q
      BY <1>0, <2>1, FleetLogAssumption DEF AtEndStands, ChildrenOf, Blank, LogTypes
    <3> QED BY <3>1, <3>2 DEF ChildrenOf
  <2>5. \A q \in Runs : runStatus[q] \in FinalStatuses =>
                          runStatus'[q] \in FinalStatuses /\ atEnd'[q] = atEnd[q]
    BY <1>0, <2>1 DEF LogTypes, FinalStatuses
  <2>6. \A v \in Readers : ReaderKnows(v)'
    BY <2>1, <2>2, <2>5, WriteStep
  <2> QED BY <2>2, <2>3, <2>4, <2>6 DEF LogInv
<1>2. ASSUME NEW r \in Runs, NEW s \in FinalStatuses, EndRun(r, s) PROVE LogInv'
  <2>1. /\ runStatus[r] # "absent"
        /\ runStatus' = [runStatus EXCEPT ![r] = s]
        /\ UNCHANGED <<parent, entryRun, entryKind, step, bundle>>
    BY <1>2 DEF EndRun, Exists, entryVars
  <2>2. /\ \A q \in Runs \ {r} : atEnd'[q] = atEnd[q]
        /\ \/ atEnd'[r] = atEnd[r]
           \/ /\ runStatus[r] = "running"
              /\ atEnd'[r] = [entries |-> EntriesOf(r), children |-> ChildrenOf(r)]
        /\ atEnd' \in [Runs -> [entries : SUBSET Entries, children : SUBSET Runs]]
    BY <1>0, <1>2 DEF EndRun, LogTypes, EntriesOf, ChildrenOf
  <2>3. ends' \in 0..MaxEnds
    BY <1>0, <1>2, FleetLogAssumption DEF EndRun, LogTypes
  <2>4. LogTypes'
    BY <1>0, <2>1, <2>2, <2>3 DEF LogTypes
  <2>5. Blank'
    BY <1>0, <2>1 DEF Blank, LogTypes, FinalStatuses
  <2>6. AtEndStands'
    BY <1>0, <2>1, <2>2 DEF AtEndStands, EntriesOf, ChildrenOf
  <2>7. \A q \in Runs : runStatus[q] \in FinalStatuses =>
                          runStatus'[q] \in FinalStatuses /\ atEnd'[q] = atEnd[q]
    BY <1>0, <2>1, <2>2 DEF LogTypes, FinalStatuses
  <2>8. \A v \in Readers : ReaderKnows(v)'
    BY <2>1, <2>4, <2>7, WriteStep
  <2> QED BY <2>4, <2>5, <2>6, <2>8 DEF LogInv
<1>3. ASSUME NEW e \in Entries, NEW r \in Runs, NEW k \in EntryKinds, Record(e, r, k)
      PROVE  LogInv'
  <2>1. /\ entryKind[e] = "none"
        /\ entryRun' = [entryRun EXCEPT ![e] = r]
        /\ entryKind' = [entryKind EXCEPT ![e] = k]
        /\ UNCHANGED <<runStatus, parent, ends, atEnd, step, bundle>>
    BY <1>3 DEF Record, runVars
  <2>2. LogTypes'
    BY <1>0, <2>1 DEF LogTypes
  <2>3. Blank'
    BY <1>0, <2>1 DEF Blank, LogTypes, EntryKinds
  <2>4. ASSUME NEW q \in Runs, NEW f \in atEnd[q].entries
        PROVE  f \in Entries /\ f # e /\ entryRun[f] = q
    BY <1>0, <2>1, FleetLogAssumption DEF AtEndStands, EntriesOf, Blank
  <2>5. AtEndStands'
    BY <1>0, <2>1, <2>4 DEF AtEndStands, EntriesOf, ChildrenOf, LogTypes
  <2>6. \A q \in Runs : \A f \in atEnd[q].entries : entryKind'[f] = entryKind[f]
    BY <1>0, <2>1, <2>4 DEF LogTypes
  <2>7. \A v \in Readers : ReaderKnows(v)'
    BY <2>1, <2>2, <2>6, WriteStep
  <2> QED BY <2>2, <2>3, <2>5, <2>7 DEF LogInv
<1>4. ASSUME NEW v \in Readers, ReplayRun(v) PROVE LogInv'
  <2> DEFINE r == bundle[v].run
  <2>0. bundle[v] \in [run : Runs \cup {NoRun}, status : {"none", "running"} \cup FinalStatuses,
                      entries : SUBSET Entries, parent : Runs \cup {NoRun},
                      children : SUBSET Runs]
    BY <1>0 DEF LogTypes
  <2>1. ASSUME NEW q \in Runs, ReadRun(v, q) PROVE LogInv'
    <3> DEFINE b == [NothingRead EXCEPT !.run = q, !.status = runStatus[q]]
    <3>1. Read(v, "idle", "event", b) /\ runStatus[q] # "absent"
      BY <2>1 DEF ReadRun, Exists
    <3>2. runStatus[q] \in {"none", "running"} \cup FinalStatuses
      BY <1>0, <3>1 DEF LogTypes
    <3>3. /\ b \in [run : Runs \cup {NoRun}, status : {"none", "running"} \cup FinalStatuses,
                   entries : SUBSET Entries, parent : Runs \cup {NoRun}, children : SUBSET Runs]
          /\ b.run = q /\ b.status = runStatus[q]
      BY <3>2 DEF NothingRead
    <3> HIDE DEF b
    <3>4. step'[v] = "event" /\ bundle'[v] = b /\ UNCHANGED runStatus
      BY <1>0, <3>1 DEF Read, runVars, LogTypes
    <3>5. ReaderKnows(v)'
      BY <3>3, <3>4 DEF ReaderKnows, EntryKinds
    <3> QED BY <3>1, <3>3, <3>5, ReadStep DEF EntryKinds
  <2>2. ASSUME NEW k \in EntryKinds, ReadEntries(v, k) PROVE LogInv'
    <3> DEFINE found == {e \in EntriesOf(r) : entryKind[e] = k}
               b == [bundle[v] EXCEPT !.entries = @ \cup found]
    <3>1. Read(v, k, After(k), b)
      BY <2>2 DEF ReadEntries
    <3>2. /\ b \in [run : Runs \cup {NoRun}, status : {"none", "running"} \cup FinalStatuses,
                   entries : SUBSET Entries, parent : Runs \cup {NoRun}, children : SUBSET Runs]
          /\ b.run = r /\ b.status = bundle[v].status
          /\ b.entries = bundle[v].entries \cup found
      BY <2>0 DEF EntriesOf
    <3>3. /\ step[v] = k /\ step'[v] = After(k) /\ bundle'[v] = b
          /\ UNCHANGED <<runStatus, entryKind, atEnd>>
      BY <1>0, <3>1 DEF Read, runVars, entryVars, LogTypes
    <3>4. After(k) \in {"decision", "artifact", "parent"}
      BY DEF After, EntryKinds
    <3>5. ReaderKnows(v)
      BY <1>0
    <3>6. r \in Runs
      BY <3>3, <3>5 DEF ReaderKnows, EntryKinds
    <3>7. {e \in atEnd[r].entries : entryKind[e] = k} \subseteq found
      BY <1>0, <3>6 DEF AtEndStands
    <3>8. /\ Seen(v, k)'
          /\ \A j : Seen(v, j) => Seen(v, j)'
      BY <3>2, <3>3, <3>7 DEF Seen
    <3> HIDE DEF b, found
    <3>9. ReaderKnows(v)'
      <4>1. bundle'[v].run = r /\ bundle'[v].status = bundle[v].status
        BY <3>2, <3>3
      <4>2. CASE bundle[v].status \notin FinalStatuses
        BY <3>6, <4>1, <4>2 DEF ReaderKnows
      <4>3. CASE bundle[v].status \in FinalStatuses
        BY <3>3, <3>5, <3>6, <3>8, <4>1, <4>3 DEF ReaderKnows, After, EntryKinds
      <4> QED BY <4>2, <4>3
    <3> QED BY <3>1, <3>2, <3>4, <3>9, ReadStep DEF EntryKinds
  <2>3. ASSUME ReadParent(v) \/ ReadChildren(v) PROVE LogInv'
    <3>1. PICK now \in {"parent", "children"}, next \in {"children", "answered"},
                p \in {bundle[v].parent, parent[r]}, kids \in {bundle[v].children, ChildrenOf(r)} :
             /\ now = "parent" => next = "children" /\ p = parent[r] /\ kids = bundle[v].children
             /\ now = "children" => next = "answered" /\ p = bundle[v].parent /\ kids = ChildrenOf(r)
             /\ Read(v, now, next, [bundle[v] EXCEPT !.parent = p, !.children = kids])
      <4>1. CASE ReadParent(v)
        <5>1. [bundle[v] EXCEPT !.parent = parent[r]]
              = [bundle[v] EXCEPT !.parent = parent[r], !.children = bundle[v].children]
          BY <2>0
        <5> QED BY <4>1, <5>1 DEF ReadParent
      <4>2. CASE ReadChildren(v)
        <5>1. [bundle[v] EXCEPT !.children = ChildrenOf(r)]
              = [bundle[v] EXCEPT !.parent = bundle[v].parent, !.children = ChildrenOf(r)]
          BY <2>0
        <5> QED BY <4>2, <5>1 DEF ReadChildren
      <4> QED BY <2>3, <4>1, <4>2
    <3> DEFINE b == [bundle[v] EXCEPT !.parent = p, !.children = kids]
    <3>2. /\ step[v] = now /\ step'[v] = next /\ bundle'[v] = b
          /\ UNCHANGED <<runStatus, entryKind, atEnd>>
      BY <1>0, <3>1 DEF Read, runVars, entryVars, LogTypes
    <3>3. ReaderKnows(v)
      BY <1>0
    <3>4. r \in Runs
      BY <3>2, <3>3 DEF ReaderKnows
    <3>5. p \in Runs \cup {NoRun} /\ kids \in SUBSET Runs
      BY <1>0, <2>0, <3>1, <3>4 DEF LogTypes, ChildrenOf
    <3>6. /\ b \in [run : Runs \cup {NoRun}, status : {"none", "running"} \cup FinalStatuses,
                   entries : SUBSET Entries, parent : Runs \cup {NoRun}, children : SUBSET Runs]
          /\ b.run = r /\ b.status = bundle[v].status
          /\ b.entries = bundle[v].entries /\ b.children = kids
      BY <2>0, <3>5
    <3>7. \A j : Seen(v, j) => Seen(v, j)'
      BY <3>2, <3>6 DEF Seen
    <3>8. next = "answered" => atEnd[r].children \subseteq kids
      BY <1>0, <3>1, <3>4 DEF AtEndStands
    <3>9. ReaderKnows(v)'
      BY <3>2, <3>3, <3>4, <3>6, <3>7, <3>8 DEF ReaderKnows, EntryKinds
    <3> HIDE DEF b
    <3> QED BY <3>1, <3>6, <3>9, ReadStep DEF b, EntryKinds
  <2>4. ASSUME Answered(v) PROVE LogInv'
    <3>1. Read(v, "answered", "idle", NothingRead)
      BY <2>4 DEF Answered
    <3>2. step'[v] = "idle"
      BY <1>0, <3>1 DEF Read, LogTypes
    <3>3. ReaderKnows(v)'
      BY <3>2 DEF ReaderKnows
    <3>4. NothingRead \in [run : Runs \cup {NoRun},
                          status : {"none", "running"} \cup FinalStatuses,
                          entries : SUBSET Entries, parent : Runs \cup {NoRun},
                          children : SUBSET Runs]
      BY DEF NothingRead
    <3> QED BY <3>1, <3>3, <3>4, ReadStep
  <2> QED BY <1>4, <2>1, <2>2, <2>3, <2>4 DEF ReplayRun
<1>5. CASE UNCHANGED logVars
  BY <1>0, <1>5 DEF logVars, runVars, entryVars, LogInv, LogTypes, Blank, AtEndStands,
                    ReaderKnows, Seen, EntriesOf, ChildrenOf
<1> QED BY <1>1, <1>2, <1>3, <1>4, <1>5
        DEF LogStep, RecordEvent, RecordArtifactContent, RecordDecision, EntryKinds

LEMMA LogInvariant == Spec => []LogInv
<1>1. Init => LogInv
  BY LogInitial DEF Init
<1>2. LogInv /\ [Next]_vars => LogInv'
  BY LogMoves, LogInvStep
<1> QED BY <1>1, <1>2, PTL DEF Spec

(* The tables, the calls and the readers keep their types. *)
THEOREM TypeCorrect == Spec => []TypeOK
<1>1. IntentsInv /\ LogInv => TypeOK
  BY DEF IntentsInv, LogInv, LogTypes, TypeOK
<1> QED BY <1>1, IntentsInvariant, LogInvariant, PTL

(* A bundle that replay_run answers for a run it read as ended has every   *)
(* entry and every child from before the end, though six statements read   *)
(* it while others write.                                                  *)
THEOREM BundlesAreComplete == Spec => []FinishedBundleComplete
<1>1. LogInv => FinishedBundleComplete
  <2> SUFFICES ASSUME LogInv, NEW v \in Readers, step[v] = "answered",
                      bundle[v].status \in FinalStatuses
               PROVE  /\ atEnd[bundle[v].run].entries \subseteq bundle[v].entries
                      /\ atEnd[bundle[v].run].children \subseteq bundle[v].children
    BY DEF FinishedBundleComplete
  <2>1. /\ bundle[v].run \in Runs
        /\ \A k \in EntryKinds : Seen(v, k)
        /\ atEnd[bundle[v].run].children \subseteq bundle[v].children
    BY DEF LogInv, ReaderKnows, EntryKinds
  <2>2. ASSUME NEW e \in atEnd[bundle[v].run].entries PROVE entryKind[e] \in EntryKinds
    BY <2>1, FleetLogAssumption DEF LogInv, LogTypes, Blank, AtEndStands, EntriesOf
  <2> QED BY <2>1, <2>2 DEF Seen
<1> QED BY <1>1, LogInvariant, PTL
=============================================================================
