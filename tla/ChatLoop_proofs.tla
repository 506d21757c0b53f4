--------------------------- MODULE ChatLoop_proofs ---------------------------
(* Theorems about the chat, for any number of chats, rounds, tool calls,   *)
(* requests and restarts.                                                  *)
EXTENDS ChatLoop, FiniteSetTheorems, SequenceTheorems, TLAPS

----------------------------------------------------------------------------
(* The inductive invariants.                                               *)

(* The calls in the log are of complete rounds or of the one being run.    *)
LogInOrder ==
    \A c \in Chats :
        /\ phase[c] = "idle" => hop[c] = 0
        /\ \A k \in DOMAIN toolLog[c] :
              /\ toolLog[c][k].id[1] <= hop[c]
              /\ phase[c] \in {"idle", "ask"} => toolLog[c][k].id[1] < hop[c]

(* Message h opens a round with calls ids, `done` of them have results so  *)
(* far, which end the conversation; what comes before h is well formed.    *)
RoundOpen(m, h, ids, done) ==
    /\ h \in DOMAIN m /\ Len(m) = h + done /\ done \in 0..Len(ids)
    /\ m[h] = [role |-> "assistant", ids |-> ids]
    /\ \A k \in 1..done : Answers(m, h, h + k)
    /\ \A i \in DOMAIN m :
          IF m[i].role = "tool" THEN \E g \in DOMAIN m : Answers(m, g, i)
          ELSE i = h \/ \A k \in DOMAIN m[i].ids : i + k \in DOMAIN m /\ Answers(m, i, i + k)

RoundIds(c) == [k \in DOMAIN round[c] |-> <<hop[c], k>>]

(* While a round is run, its message is open at the call that is next.     *)
PromptInv ==
    \A c \in Chats :
        /\ phase[c] \in {"idle", "ask", "summarize"} => WellFormed(messages[c])
        /\ phase[c] = "dispatch" =>
              /\ Running(c) \in DOMAIN round[c]
              /\ \E h \in DOMAIN messages[c] : RoundOpen(messages[c], h, RoundIds(c), Running(c) - 1)

(* The log mentions at all times what was filed, and reports as filed      *)
(* nothing else; a reply is the log.                                       *)
EffectsLogged ==
    \A c \in Chats :
        /\ Reported(toolLog[c]) \subseteq moves[c] /\ moves[c] \subseteq Mentioned(toolLog[c])
        /\ phase[c] = "replied" => reported[c] = toolLog[c]

ChatInv == /\ TypeOK
           /\ LogInOrder
           /\ PromptInv
           /\ EffectsLogged
           /\ ToldDecisionStands

----------------------------------------------------------------------------
(* The conversation.                                                       *)

(* The message with the calls of a round opens it. *)
LEMMA OpensRound ==
    ASSUME NEW m \in Seq(Messages), WellFormed(m), NEW ids \in Seq(CallIds)
    PROVE  RoundOpen(Append(m, [role |-> "assistant", ids |-> ids]), Len(m) + 1, ids, 0)
<1> DEFINE a == [role |-> "assistant", ids |-> ids]
           n == Append(m, a)
<1>1. /\ Len(n) = Len(m) + 1 /\ DOMAIN n = 1..Len(m) + 1 /\ DOMAIN m = 1..Len(m)
      /\ Len(m) \in Nat /\ \A i \in DOMAIN m : n[i] = m[i]
      /\ n[Len(m) + 1] = a
  BY AppendProperties, LenProperties
<1>2. Len(ids) \in Nat
  BY LenProperties
<1> HIDE DEF n
<1>3. ASSUME NEW i \in DOMAIN m, NEW j \in DOMAIN m, Answers(m, i, j) PROVE Answers(n, i, j)
  BY <1>1, <1>3 DEF Answers
<1>4. ASSUME NEW i \in DOMAIN n
      PROVE  IF n[i].role = "tool" THEN \E g \in DOMAIN n : Answers(n, g, i)
             ELSE i = Len(m) + 1
                  \/ \A k \in DOMAIN n[i].ids : i + k \in DOMAIN n /\ Answers(n, i, i + k)
  <2>1. CASE i = Len(m) + 1
    BY <1>1, <2>1
  <2>2. CASE i \in DOMAIN m
    BY <1>1, <1>3, <2>2 DEF WellFormed
  <2> QED BY <1>1, <2>1, <2>2
<1> QED BY <1>1, <1>2, <1>4 DEF RoundOpen, n

(* The result of the call that is next answers it. *)
LEMMA AnswersNext ==
    ASSUME NEW m \in Seq(Messages), NEW h \in Nat, NEW ids \in Seq(CallIds), NEW done \in Nat,
           RoundOpen(m, h, ids, done), done + 1 \in DOMAIN ids
    PROVE  RoundOpen(Append(m, [role |-> "tool", id |-> ids[done + 1]]), h, ids, done + 1)
<1> DEFINE a == [role |-> "tool", id |-> ids[done + 1]]
           n == Append(m, a)
<1>1. /\ Len(n) = Len(m) + 1 /\ DOMAIN n = 1..Len(m) + 1 /\ DOMAIN m = 1..Len(m)
      /\ Len(m) \in Nat /\ \A i \in DOMAIN m : n[i] = m[i]
      /\ n[Len(m) + 1] = a
  BY AppendProperties, LenProperties
<1>2. Len(ids) \in Nat /\ DOMAIN ids = 1..Len(ids)
  BY LenProperties
<1> HIDE DEF n
<1>3. ASSUME NEW i \in DOMAIN m, NEW j \in DOMAIN m, Answers(m, i, j) PROVE Answers(n, i, j)
  BY <1>1, <1>3 DEF Answers
<1>4. h \in DOMAIN m /\ Len(m) = h + done /\ m[h] = [role |-> "assistant", ids |-> ids]
  BY DEF RoundOpen
<1>5. Answers(n, h, h + (done + 1))
  BY <1>1, <1>2, <1>4 DEF Answers
<1>6. ASSUME NEW k \in 1..done + 1 PROVE Answers(n, h, h + k)
  <2>1. CASE k = done + 1
    BY <1>5, <2>1
  <2>2. CASE k \in 1..done
    <3>1. Answers(m, h, h + k)
      BY <2>2 DEF RoundOpen
    <3>2. h + k \in DOMAIN m
      BY <1>1, <1>4, <2>2
    <3> QED BY <1>3, <1>4, <3>1, <3>2
  <2> QED BY <2>1, <2>2
<1>7. ASSUME NEW i \in DOMAIN n
      PROVE  IF n[i].role = "tool" THEN \E g \in DOMAIN n : Answers(n, g, i)
             ELSE i = h
                  \/ \A k \in DOMAIN n[i].ids : i + k \in DOMAIN n /\ Answers(n, i, i + k)
  <2>1. CASE i = Len(m) + 1
    BY <1>1, <1>4, <1>5, <2>1
  <2>2. CASE i \in DOMAIN m
    BY <1>1, <1>3, <2>2 DEF RoundOpen
  <2> QED BY <1>1, <2>1, <2>2
<1>8. h \in DOMAIN n /\ Len(n) = h + (done + 1) /\ n[h] = m[h]
  BY <1>1, <1>4
<1>9. done + 1 \in 0..Len(ids)
  BY <1>2
<1>10. RoundOpen(n, h, ids, done + 1)
  BY <1>4, <1>6, <1>7, <1>8, <1>9 DEF RoundOpen
<1> QED BY <1>10 DEF n

(* With its last result the conversation is well formed again. *)
LEMMA ClosesRound ==
    ASSUME NEW m, NEW h \in Nat, NEW ids \in Seq(CallIds), RoundOpen(m, h, ids, Len(ids)),
           m \in Seq(Messages)
    PROVE  WellFormed(m)
<1>1. Len(ids) \in Nat /\ DOMAIN ids = 1..Len(ids) /\ DOMAIN m = 1..Len(m) /\ Len(m) \in Nat
  BY LenProperties
<1>2. h \in DOMAIN m /\ Len(m) = h + Len(ids) /\ m[h].ids = ids /\ m[h].role = "assistant"
  BY DEF RoundOpen
<1>3. ASSUME NEW k \in DOMAIN m[h].ids PROVE h + k \in DOMAIN m /\ Answers(m, h, h + k)
  BY <1>1, <1>2 DEF RoundOpen
<1> QED BY <1>2, <1>3 DEF RoundOpen, WellFormed

----------------------------------------------------------------------------
(* The log.                                                                *)

LEMMA EntryCall ==
    ASSUME NEW log \in Seq(Entries), NEW k \in DOMAIN log
    PROVE  log[k] \in Entries /\ log[k].call \in ToolCalls
<1>1. log[k] \in Entries
  BY ElementOfSeq, LenProperties
<1> QED BY <1>1 DEF Entries

LEMMA RanInCount ==
    ASSUME NEW log \in Seq(Entries), NEW r
    PROVE  IsFiniteSet(RanIn(log, r)) /\ Cardinality(RanIn(log, r)) \in Nat
<1>1. DOMAIN log = 1..Len(log) /\ Len(log) \in Nat
  BY LenProperties
<1>2. IsFiniteSet(1..Len(log))
  BY <1>1, FS_Interval
<1>3. RanIn(log, r) \in SUBSET (1..Len(log))
  BY <1>1 DEF RanIn
<1> QED BY <1>2, <1>3, FS_Subset, FS_CardinalityType

(* One entry more is one more in its round. *)
LEMMA RanInAppend ==
    ASSUME NEW log \in Seq(Entries), NEW r, NEW e \in Entries, e.id[1] = r
    PROVE  Cardinality(RanIn(Append(log, e), r)) = Cardinality(RanIn(log, r)) + 1
<1>1. /\ DOMAIN log = 1..Len(log) /\ Len(log) \in Nat
      /\ DOMAIN Append(log, e) = 1..Len(log) + 1
      /\ \A k \in 1..Len(log) : Append(log, e)[k] = log[k]
      /\ Append(log, e)[Len(log) + 1] = e
  BY LenProperties, AppendProperties
<1>2. RanIn(Append(log, e), r) = RanIn(log, r) \cup {Len(log) + 1}
  BY <1>1 DEF RanIn
<1>3. Len(log) + 1 \notin RanIn(log, r)
  BY <1>1 DEF RanIn
<1> QED BY <1>2, <1>3, RanInCount, FS_AddElement

LEMMA ProposalsAppend ==
    ASSUME NEW log \in Seq(Entries), NEW e \in Entries
    PROVE  /\ Mentioned(Append(log, e)) =
                  Mentioned(log) \cup (IF e.call.tool = "propose" THEN {e.id} ELSE {})
           /\ Reported(Append(log, e)) =
                  Reported(log) \cup (IF e.call.tool = "propose" /\ e.ok THEN {e.id} ELSE {})
<1> DEFINE longer == Append(log, e)
<1>1. /\ DOMAIN log = 1..Len(log) /\ Len(log) \in Nat
      /\ DOMAIN longer = 1..Len(log) + 1
      /\ \A k \in 1..Len(log) : longer[k] = log[k]
      /\ longer[Len(log) + 1] = e
  BY LenProperties, AppendProperties
<1> HIDE DEF longer
<1>2. DOMAIN longer = DOMAIN log \cup {Len(log) + 1}
  BY <1>1
<1>3. \A k \in DOMAIN log : longer[k] = log[k]
  BY <1>1
<1>4. Mentioned(longer) = Mentioned(log) \cup (IF e.call.tool = "propose" THEN {e.id} ELSE {})
  BY <1>1, <1>2, <1>3 DEF Mentioned, Proposals
<1>5. Reported(longer) =
          Reported(log) \cup (IF e.call.tool = "propose" /\ e.ok THEN {e.id} ELSE {})
  BY <1>1, <1>2, <1>3 DEF Reported, Proposals
<1> QED BY <1>4, <1>5 DEF longer

----------------------------------------------------------------------------
(* The result of one call.                                                 *)

LEMMA RunningType ==
    ASSUME TypeOK, NEW c \in Chats
    PROVE  Running(c) \in Nat \ {0}
BY RanInCount DEF TypeOK, Running

(* The entry and the message that Log writes. *)
LEMMA LogWrites ==
    ASSUME TypeOK, PromptInv, NEW c \in Chats, phase[c] = "dispatch",
           NEW done \in BOOLEAN, NEW ok \in BOOLEAN, Log(c, done, ok)
    PROVE  LET id == <<hop[c], Running(c)>>
               e  == [id |-> id, call |-> Current(c), done |-> done, ok |-> ok]
           IN  /\ id \in CallIds /\ e \in Entries /\ Current(c) \in ToolCalls
               /\ toolLog' = [toolLog EXCEPT ![c] = Append(toolLog[c], e)]
               /\ messages' = [messages EXCEPT ![c] =
                      Append(messages[c], [role |-> "tool", id |-> id])]
<1>1. hop[c] \in 0..MaxHops - 1
  BY DEF TypeOK
<1>2. <<hop[c], Running(c)>> \in CallIds
  BY <1>1, RunningType DEF CallIds
<1>3. Current(c) \in ToolCalls
  <2>1. round[c] \in Seq(ToolCalls) /\ Running(c) \in DOMAIN round[c]
    BY DEF TypeOK, PromptInv
  <2> QED BY <2>1, ElementOfSeq, LenProperties DEF Current
<1> QED BY <1>2, <1>3 DEF Log, Entries

LEMMA LogTypes ==
    ASSUME TypeOK, PromptInv, NEW c \in Chats, phase[c] = "dispatch",
           NEW done \in BOOLEAN, NEW ok \in BOOLEAN, Log(c, done, ok)
    PROVE  /\ phase' \in [Chats -> InFlight \cup {"idle", "replied", "raised", "cut"}]
           /\ hop' \in [Chats -> 0..MaxHops]
           /\ \A d \in Chats : phase'[d] \in {"ask", "dispatch"} => hop'[d] \in 0..MaxHops - 1
           /\ round' \in [Chats -> Seq(ToolCalls)]
           /\ messages' \in [Chats -> Seq(Messages)]
           /\ toolLog' \in [Chats -> Seq(Entries)]
           /\ reported' \in [Chats -> Seq(Entries)]
           /\ restarts' \in 0..MaxRestarts
<1> DEFINE id == <<hop[c], Running(c)>>
           e  == [id |-> id, call |-> Current(c), done |-> done, ok |-> ok]
<1>1. /\ id \in CallIds /\ e \in Entries
      /\ toolLog' = [toolLog EXCEPT ![c] = Append(toolLog[c], e)]
      /\ messages' = [messages EXCEPT ![c] = Append(messages[c], [role |-> "tool", id |-> id])]
  BY LogWrites
<1> HIDE DEF id, e
<1>2. toolLog' \in [Chats -> Seq(Entries)]
  BY <1>1, AppendProperties DEF TypeOK
<1>3. messages' \in [Chats -> Seq(Messages)]
  <2>1. [role |-> "tool", id |-> id] \in Messages
    BY <1>1 DEF Messages
  <2> QED BY <1>1, <2>1, AppendProperties DEF TypeOK
<1>4. round' = round /\ reported' = reported /\ restarts' = restarts
  BY DEF Log
<1>5. /\ phase \in [Chats -> InFlight \cup {"idle", "replied", "raised", "cut"}]
      /\ hop \in [Chats -> 0..MaxHops]
      /\ \A d \in Chats : phase[d] \in {"ask", "dispatch"} => hop[d] \in 0..MaxHops - 1
      /\ MaxHops \in Nat
  BY ChatLoopAssumption DEF TypeOK
<1>6. /\ phase' \in [Chats -> InFlight \cup {"idle", "replied", "raised", "cut"}]
      /\ hop' \in [Chats -> 0..MaxHops]
      /\ \A d \in Chats : phase'[d] \in {"ask", "dispatch"} => hop'[d] \in 0..MaxHops - 1
  <2>1. CASE AfterRound(c)
    BY <1>5, <2>1 DEF AfterRound, InFlight
  <2>2. CASE UNCHANGED <<phase, hop>>
    BY <1>5, <2>2
  <2> QED BY <2>1, <2>2 DEF Log
<1> QED BY <1>2, <1>3, <1>4, <1>6 DEF TypeOK

LEMMA LogOrder ==
    ASSUME TypeOK, PromptInv, LogInOrder, NEW c \in Chats, phase[c] = "dispatch",
           NEW done \in BOOLEAN, NEW ok \in BOOLEAN, Log(c, done, ok)
    PROVE  LogInOrder'
<1> DEFINE e == [id |-> <<hop[c], Running(c)>>, call |-> Current(c), done |-> done, ok |-> ok]
<1>1. /\ e \in Entries /\ e.id[1] = hop[c]
      /\ toolLog' = [toolLog EXCEPT ![c] = Append(toolLog[c], e)]
  BY LogWrites
<1> HIDE DEF e
<1>2. /\ toolLog[c] \in Seq(Entries) /\ toolLog \in [Chats -> Seq(Entries)]
      /\ hop \in [Chats -> 0..MaxHops] /\ MaxHops \in Nat
      /\ phase \in [Chats -> InFlight \cup {"idle", "replied", "raised", "cut"}]
  BY ChatLoopAssumption DEF TypeOK
<1>3. /\ DOMAIN toolLog'[c] = DOMAIN toolLog[c] \cup {Len(toolLog[c]) + 1}
      /\ \A k \in DOMAIN toolLog[c] : toolLog'[c][k] = toolLog[c][k]
      /\ toolLog'[c][Len(toolLog[c]) + 1] = e
  BY <1>1, <1>2, AppendProperties, LenProperties
<1>4. /\ \A d \in Chats \ {c} : phase'[d] = phase[d] /\ hop'[d] = hop[d]
                               /\ toolLog'[d] = toolLog[d]
      /\ (hop'[c] = hop[c] /\ phase'[c] = "dispatch") \/ hop'[c] = hop[c] + 1
      /\ phase'[c] # "idle"
  <2>1. CASE AfterRound(c)
    BY <1>1, <1>2, <2>1 DEF AfterRound
  <2>2. CASE UNCHANGED <<phase, hop>>
    BY <1>1, <1>2, <2>2
  <2> QED BY <2>1, <2>2 DEF Log
<1>5. ASSUME NEW k \in DOMAIN toolLog'[c]
      PROVE  /\ toolLog'[c][k].id[1] <= hop'[c]
             /\ phase'[c] \in {"idle", "ask"} => toolLog'[c][k].id[1] < hop'[c]
  <2>1. toolLog'[c][k].id[1] <= hop[c] /\ toolLog'[c][k].id[1] \in Nat
    <3>1. CASE k \in DOMAIN toolLog[c]
      <4>1. toolLog[c][k] \in Entries
        BY <1>2, <3>1, EntryCall
      <4> QED BY <1>3, <3>1, <4>1 DEF LogInOrder, Entries, CallIds
    <3>2. CASE k = Len(toolLog[c]) + 1
      BY <1>1, <1>2, <1>3, <3>2
    <3> QED BY <1>3, <3>1, <3>2
  <2> QED BY <1>2, <1>4, <2>1
<1> QED BY <1>4, <1>5 DEF LogInOrder

LEMMA LogPrompt ==
    ASSUME TypeOK, PromptInv, NEW c \in Chats, phase[c] = "dispatch",
           NEW done \in BOOLEAN, NEW ok \in BOOLEAN, Log(c, done, ok)
    PROVE  PromptInv'
<1> DEFINE id == <<hop[c], Running(c)>>
           e  == [id |-> id, call |-> Current(c), done |-> done, ok |-> ok]
           m  == messages[c]
<1>1. /\ id \in CallIds /\ e \in Entries
      /\ toolLog' = [toolLog EXCEPT ![c] = Append(toolLog[c], e)]
      /\ messages' = [messages EXCEPT ![c] = Append(m, [role |-> "tool", id |-> id])]
  BY LogWrites
<1>2. /\ round[c] \in Seq(ToolCalls) /\ m \in Seq(Messages) /\ toolLog[c] \in Seq(Entries)
      /\ hop[c] \in 0..MaxHops - 1 /\ Running(c) \in Nat \ {0} /\ MaxHops \in Nat
      /\ phase \in [Chats -> InFlight \cup {"idle", "replied", "raised", "cut"}]
      /\ hop \in [Chats -> 0..MaxHops]
  BY RunningType, ChatLoopAssumption DEF TypeOK
<1>3. DOMAIN round[c] = 1..Len(round[c]) /\ Len(round[c]) \in Nat
  BY <1>2, LenProperties
<1>4. /\ RoundIds(c) \in Seq(CallIds) /\ Len(RoundIds(c)) = Len(round[c])
      /\ DOMAIN RoundIds(c) = DOMAIN round[c]
  <2>1. RoundIds(c) \in [1..Len(round[c]) -> CallIds]
    BY <1>2, <1>3 DEF RoundIds, CallIds
  <2> QED BY <1>3, <2>1, SeqDef, LenProperties
<1>5. PICK h \in DOMAIN m : RoundOpen(m, h, RoundIds(c), Running(c) - 1)
  BY DEF PromptInv
<1>6. h \in Nat /\ Running(c) \in DOMAIN round[c] /\ RoundIds(c)[Running(c)] = id
  BY <1>2, LenProperties DEF PromptInv, RoundIds
<1>7. RoundOpen(messages'[c], h, RoundIds(c), Running(c))
  <2>1. Running(c) - 1 \in Nat /\ (Running(c) - 1) + 1 = Running(c)
    BY <1>2
  <2>2. RoundOpen(Append(m, [role |-> "tool", id |-> id]), h, RoundIds(c), Running(c))
    BY <1>2, <1>4, <1>5, <1>6, <2>1, AnswersNext
  <2>3. messages'[c] = Append(m, [role |-> "tool", id |-> id])
    BY <1>1 DEF TypeOK
  <2> QED BY <2>2, <2>3
<1>8. ASSUME NEW d \in Chats \ {c}
      PROVE  /\ phase'[d] = phase[d] /\ hop'[d] = hop[d] /\ round'[d] = round[d]
             /\ messages'[d] = messages[d] /\ toolLog'[d] = toolLog[d]
  <2>1. CASE AfterRound(c)
    BY <1>1, <1>2, <2>1 DEF AfterRound, Log, TypeOK
  <2>2. CASE UNCHANGED <<phase, hop>>
    BY <1>1, <2>2 DEF Log, TypeOK
  <2> QED BY <2>1, <2>2 DEF Log
<1>9. ASSUME NEW d \in Chats \ {c}
      PROVE  RoundIds(d)' = RoundIds(d) /\ Running(d)' = Running(d)
  BY <1>8 DEF RoundIds, Running
<1>10. CASE Running(c) = Len(round[c])
  <2>1. phase'[c] \in {"ask", "summarize"}
    BY <1>2, <1>10 DEF Log, AfterRound
  <2>2. messages'[c] \in Seq(Messages)
    BY LogTypes
  <2>3. WellFormed(messages'[c])
    BY <1>4, <1>6, <1>7, <1>10, <2>2, ClosesRound
  <2> QED BY <1>8, <1>9, <2>1, <2>3 DEF PromptInv
<1>11. CASE Running(c) # Len(round[c])
  <2>1. UNCHANGED <<phase, hop, round>>
    BY <1>11 DEF Log
  <2>2. Running(c)' = Running(c) + 1
    <3>1. toolLog'[c] = Append(toolLog[c], e) /\ e.id[1] = hop[c] /\ hop'[c] = hop[c]
      BY <1>1, <2>1 DEF TypeOK
    <3>2. Cardinality(RanIn(Append(toolLog[c], e), hop[c]))
             = Cardinality(RanIn(toolLog[c], hop[c])) + 1
      BY <1>1, <1>2, <3>1, RanInAppend
    <3>3. Cardinality(RanIn(toolLog[c], hop[c])) \in Nat
      BY <1>2, RanInCount
    <3> QED BY <3>1, <3>2, <3>3 DEF Running
  <2>3. RoundIds(c)' = RoundIds(c)
    BY <2>1 DEF RoundIds
  <2>4. Running(c)' \in DOMAIN round'[c] /\ Running(c)' - 1 = Running(c)
    BY <1>2, <1>3, <1>6, <1>11, <2>1, <2>2
  <2>5. h \in DOMAIN messages'[c]
    BY <1>7 DEF RoundOpen
  <2> QED BY <1>7, <1>8, <1>9, <2>1, <2>3, <2>4, <2>5 DEF PromptInv
<1> QED BY <1>10, <1>11

(* The log follows what the tool filed. *)
LEMMA LogEffects ==
    ASSUME TypeOK, PromptInv, EffectsLogged, NEW c \in Chats, phase[c] = "dispatch",
           NEW done \in BOOLEAN, NEW ok \in BOOLEAN, Log(c, done, ok),
           Current(c).tool = "propose" /\ ok => done,
           moves' = [moves EXCEPT ![c] = moves[c] \cup
               (IF Current(c).tool = "propose" /\ done THEN {<<hop[c], Running(c)>>} ELSE {})]
    PROVE  EffectsLogged' /\ moves' \in [Chats -> SUBSET CallIds]
<1> DEFINE id == <<hop[c], Running(c)>>
           e  == [id |-> id, call |-> Current(c), done |-> done, ok |-> ok]
<1>1. /\ id \in CallIds /\ e \in Entries
      /\ toolLog' = [toolLog EXCEPT ![c] = Append(toolLog[c], e)]
  BY LogWrites
<1>2. toolLog \in [Chats -> Seq(Entries)] /\ moves \in [Chats -> SUBSET CallIds]
  BY DEF TypeOK
<1>3. /\ Mentioned(Append(toolLog[c], e)) =
             Mentioned(toolLog[c]) \cup (IF Current(c).tool = "propose" THEN {id} ELSE {})
      /\ Reported(Append(toolLog[c], e)) =
             Reported(toolLog[c]) \cup (IF Current(c).tool = "propose" /\ ok THEN {id} ELSE {})
  BY <1>1, <1>2, ProposalsAppend
<1> HIDE DEF id, e
<1>4. \A d \in Chats : /\ Reported(toolLog'[d]) \subseteq moves'[d]
                       /\ moves'[d] \subseteq Mentioned(toolLog'[d])
  <2>1. \A d \in Chats \ {c} : toolLog'[d] = toolLog[d] /\ moves'[d] = moves[d]
    BY <1>1, <1>2
  <2>2. /\ toolLog'[c] = Append(toolLog[c], e)
        /\ moves'[c] = moves[c] \cup (IF Current(c).tool = "propose" /\ done THEN {id} ELSE {})
    BY <1>1, <1>2 DEF id
  <2> QED BY <1>3, <2>1, <2>2 DEF EffectsLogged
<1>5. \A d \in Chats : phase'[d] = "replied" => d # c /\ phase[d] = "replied"
  <2>1. CASE AfterRound(c)
    BY <2>1 DEF AfterRound, TypeOK
  <2>2. CASE UNCHANGED <<phase, hop>>
    BY <2>2 DEF TypeOK
  <2> QED BY <2>1, <2>2 DEF Log
<1>6. reported' = reported
  BY DEF Log
<1>7. \A d \in Chats : phase'[d] = "replied" => reported'[d] = toolLog'[d]
  BY <1>1, <1>2, <1>5, <1>6 DEF EffectsLogged
<1> QED BY <1>1, <1>2, <1>4, <1>7 DEF EffectsLogged, id

(* What is decided stays decided. *)
FinalStays == \A i \in RequestIds : capStatus[i] \in Decisions => capStatus'[i] = capStatus[i]

LEMMA DecideCall ==
    ASSUME NEW call \in ToolCalls, call.tool = "decide"
    PROVE  call.request \in RequestIds /\ call.decision \in Decisions
BY DEF ToolCalls

LEMMA ToldKept ==
    ASSUME TypeOK, ToldDecisionStands, FinalStays, UNCHANGED toolLog
    PROVE  ToldDecisionStands'
<1>1. ASSUME NEW c \in Chats, NEW k \in DOMAIN toolLog[c],
             toolLog[c][k].call.tool = "decide", toolLog[c][k].done
      PROVE  capStatus'[toolLog[c][k].call.request] = toolLog[c][k].call.decision
  <2>1. toolLog[c][k].call \in ToolCalls
    <3>1. toolLog[c] \in Seq(Entries)
      BY DEF TypeOK
    <3> QED BY <3>1, EntryCall
  <2> QED BY <1>1, <2>1, DecideCall DEF ToldDecisionStands, FinalStays
<1> QED BY <1>1 DEF ToldDecisionStands

LEMMA LogTold ==
    ASSUME TypeOK, PromptInv, ToldDecisionStands, NEW c \in Chats, phase[c] = "dispatch",
           NEW done \in BOOLEAN, NEW ok \in BOOLEAN, Log(c, done, ok), FinalStays,
           Current(c).tool = "decide" /\ done =>
               capStatus'[Current(c).request] = Current(c).decision
    PROVE  ToldDecisionStands'
<1> DEFINE e == [id |-> <<hop[c], Running(c)>>, call |-> Current(c), done |-> done, ok |-> ok]
<1>1. e \in Entries /\ toolLog' = [toolLog EXCEPT ![c] = Append(toolLog[c], e)]
  BY LogWrites
<1>2. toolLog \in [Chats -> Seq(Entries)]
  BY DEF TypeOK
<1>3. ASSUME NEW d \in Chats, NEW k \in DOMAIN toolLog[d],
             toolLog[d][k].call.tool = "decide", toolLog[d][k].done
      PROVE  capStatus'[toolLog[d][k].call.request] = toolLog[d][k].call.decision
  <2>1. toolLog[d][k].call \in ToolCalls
    BY <1>2, EntryCall
  <2> QED BY <1>3, <2>1, DecideCall DEF ToldDecisionStands, FinalStays
<1>4. /\ \A d \in Chats \ {c} : toolLog'[d] = toolLog[d]
      /\ DOMAIN toolLog'[c] = DOMAIN toolLog[c] \cup {Len(toolLog[c]) + 1}
      /\ \A k \in DOMAIN toolLog[c] : toolLog'[c][k] = toolLog[c][k]
      /\ toolLog'[c][Len(toolLog[c]) + 1] = e
  BY <1>1, <1>2, AppendProperties, LenProperties
<1>5. ASSUME NEW d \in Chats, NEW k \in DOMAIN toolLog'[d],
             toolLog'[d][k].call.tool = "decide", toolLog'[d][k].done
      PROVE  capStatus'[toolLog'[d][k].call.request] = toolLog'[d][k].call.decision
  <2>1. CASE d = c /\ k = Len(toolLog[c]) + 1
    BY <1>4, <1>5, <2>1
  <2>2. CASE k \in DOMAIN toolLog[d] /\ toolLog'[d][k] = toolLog[d][k]
    BY <1>3, <1>5, <2>2
  <2> QED BY <1>4, <2>1, <2>2
<1> QED BY <1>5 DEF ToldDecisionStands

----------------------------------------------------------------------------
(* The steps.                                                              *)

(* A call that has its result keeps the invariant, whatever the tool.      *)
LEMMA Logged ==
    ASSUME ChatInv, NEW c \in Chats, phase[c] = "dispatch",
           NEW done \in BOOLEAN, NEW ok \in BOOLEAN, Log(c, done, ok), FinalStays, CapTypeOK',
           Current(c).tool = "propose" /\ ok => done,
           moves' = [moves EXCEPT ![c] = moves[c] \cup
               (IF Current(c).tool = "propose" /\ done THEN {<<hop[c], Running(c)>>} ELSE {})],
           Current(c).tool = "decide" /\ done =>
               capStatus'[Current(c).request] = Current(c).decision
    PROVE  ChatInv'
<1>1. TypeOK /\ PromptInv /\ LogInOrder /\ EffectsLogged /\ ToldDecisionStands
  BY DEF ChatInv
<1>2. moves' \in [Chats -> SUBSET CallIds] /\ EffectsLogged'
  BY <1>1, LogEffects
<1>3. TypeOK'
  BY <1>1, <1>2, LogTypes DEF TypeOK
<1>4. LogInOrder' /\ PromptInv'
  BY <1>1, LogOrder, LogPrompt
<1>5. ToldDecisionStands'
  BY <1>1, LogTold
<1> QED BY <1>2, <1>3, <1>4, <1>5 DEF ChatInv

(* The answer of a statement about the requests. *)
LEMMA CapStep ==
    ASSUME CapTypeOK,
           \/ UNCHANGED capVars
           \/ \E c \in Chats : /\ filing' = [filing EXCEPT ![c] = NoName]
                               /\ UNCHANGED <<capability, capStatus, decided, contended>>
           \/ \E c \in Chats, i \in RequestIds : FileInsert(c, i)
           \/ \E c \in Chats, n \in Names : FileMiss(c, n)
           \/ \E i \in RequestIds, d \in Decisions : DecideCapabilityRequest(i, d)
           \/ CapRestart
    PROVE  CapTypeOK' /\ FinalStays
<1> USE CapabilitiesAssumption, ChatLoopAssumption DEF CapTypeOK, FinalStays, Decisions
<1>1. CASE UNCHANGED capVars
  BY <1>1 DEF capVars
<1>2. ASSUME NEW c \in Chats, filing' = [filing EXCEPT ![c] = NoName],
             UNCHANGED <<capability, capStatus, decided, contended>>
      PROVE  CapTypeOK' /\ FinalStays
  BY <1>2
<1>3. ASSUME NEW c \in Chats, NEW i \in RequestIds, FileInsert(c, i)
      PROVE  CapTypeOK' /\ FinalStays
  BY <1>3 DEF FileInsert
<1>4. ASSUME NEW c \in Chats, NEW n \in Names, FileMiss(c, n) PROVE CapTypeOK' /\ FinalStays
  BY <1>4 DEF FileMiss
<1>5. ASSUME NEW i \in RequestIds, NEW d \in Decisions, DecideCapabilityRequest(i, d)
      PROVE  CapTypeOK' /\ FinalStays
  BY <1>5 DEF DecideCapabilityRequest
<1>6. CASE CapRestart
  BY <1>6 DEF CapRestart
<1> QED BY <1>1, <1>2, <1>3, <1>4, <1>5, <1>6

(* A call that goes on without a result: the look-up of a request missed.  *)
LEMMA ChatStutter ==
    ASSUME ChatInv, UNCHANGED chatVars, FinalStays, CapTypeOK'
    PROVE  ChatInv'
<1>1. TypeOK' /\ LogInOrder' /\ EffectsLogged'
  BY DEF ChatInv, chatVars, TypeOK, LogInOrder, EffectsLogged
<1>2. PromptInv'
  BY DEF ChatInv, chatVars, PromptInv, Running, RoundIds
<1>3. ToldDecisionStands'
  BY ToldKept DEF ChatInv, chatVars
<1> QED BY <1>1, <1>2, <1>3 DEF ChatInv

LEMMA DispatchStep ==
    ASSUME ChatInv, NEW c \in Chats, Dispatch(c)
    PROVE  ChatInv'
<1> DEFINE Filed(done) == IF Current(c).tool = "propose" /\ done
                          THEN {<<hop[c], Running(c)>>} ELSE {}
<1>1. TypeOK /\ CapTypeOK /\ PromptInv /\ phase[c] = "dispatch"
  BY DEF ChatInv, TypeOK, Dispatch, DispatchFails, FileFails, DispatchRead, DispatchPropose,
         DispatchRequest, DispatchDecide, Dispatching
<1>2. Current(c) \in ToolCalls /\ moves \in [Chats -> SUBSET CallIds]
  <2>1. round[c] \in Seq(ToolCalls) /\ Running(c) \in DOMAIN round[c]
    BY <1>1 DEF TypeOK, PromptInv
  <2> QED BY <1>1, <2>1, ElementOfSeq, LenProperties DEF Current, TypeOK
<1>3. CASE DispatchFails(c)
  <2>1. FinalStays /\ CapTypeOK'
    BY <1>1, <1>3, CapStep DEF DispatchFails, FileFails
  <2>2. moves' = [moves EXCEPT ![c] = moves[c] \cup Filed(FALSE)]
    BY <1>2, <1>3 DEF DispatchFails, FileFails
  <2> QED BY <1>1, <1>3, <2>1, <2>2, Logged DEF DispatchFails, FileFails
<1>4. CASE DispatchRead(c)
  <2>1. FinalStays /\ CapTypeOK'
    BY <1>1, <1>4, CapStep DEF DispatchRead
  <2>2. Current(c).tool = "read" /\ moves' = [moves EXCEPT ![c] = moves[c] \cup Filed(TRUE)]
    BY <1>2, <1>4 DEF DispatchRead, Dispatching
  <2> QED BY <1>1, <1>4, <2>1, <2>2, Logged DEF DispatchRead
<1>5. CASE DispatchPropose(c)
  <2>1. FinalStays /\ CapTypeOK'
    BY <1>1, <1>5, CapStep DEF DispatchPropose
  <2>2. Current(c).tool = "propose" /\ moves' = [moves EXCEPT ![c] = moves[c] \cup Filed(TRUE)]
    BY <1>2, <1>5 DEF DispatchPropose, Dispatching
  <2>3. PICK ok \in BOOLEAN : Log(c, TRUE, ok)
    BY <1>5 DEF DispatchPropose, LogWritten
  <2> QED BY <1>1, <2>1, <2>2, <2>3, Logged
<1>6. CASE DispatchRequest(c)
  <2>1. Current(c).tool = "request" /\ Current(c).capability \in Names
    BY <1>2, <1>6 DEF DispatchRequest, Dispatching, ToolCalls
  <2>2. FinalStays /\ CapTypeOK'
    BY <1>1, <1>6, <2>1, CapStep DEF DispatchRequest, FileHit
  <2>3. CASE UNCHANGED chatVars
    BY <2>2, <2>3, ChatStutter
  <2>4. ASSUME NEW ok \in BOOLEAN, Log(c, TRUE, ok), UNCHANGED moves PROVE ChatInv'
    <3>1. moves' = [moves EXCEPT ![c] = moves[c] \cup Filed(TRUE)]
      BY <1>2, <2>1, <2>4
    <3> QED BY <1>1, <2>1, <2>2, <2>4, <3>1, Logged
  <2> QED BY <1>6, <2>3, <2>4 DEF DispatchRequest, LogWritten
<1>7. CASE DispatchDecide(c)
  <2>1. /\ Current(c).tool = "decide" /\ Current(c).request \in RequestIds
        /\ Current(c).decision \in Decisions
    BY <1>2, <1>7, DecideCall DEF DispatchDecide, Dispatching
  <2>2. FinalStays /\ CapTypeOK'
    BY <1>1, <1>7, <2>1, CapStep DEF DispatchDecide
  <2>3. moves' = [moves EXCEPT ![c] = moves[c] \cup Filed(TRUE)]
        /\ moves' = [moves EXCEPT ![c] = moves[c] \cup Filed(FALSE)]
    BY <1>2, <1>7, <2>1 DEF DispatchDecide
  <2>4. ASSUME NEW ok \in BOOLEAN, Log(c, TRUE, ok),
               DecideCapabilityRequest(Current(c).request, Current(c).decision)
        PROVE  ChatInv'
    <3>1. capStatus'[Current(c).request] = Current(c).decision
      BY <1>1, <2>1, <2>4 DEF DecideCapabilityRequest, CapTypeOK
    <3> QED BY <1>1, <2>2, <2>3, <2>4, <3>1, Logged
  <2>5. CASE Log(c, FALSE, TRUE)
    BY <1>1, <2>1, <2>2, <2>3, <2>5, Logged
  <2> QED BY <1>7, <2>4, <2>5 DEF DispatchDecide, LogWritten
<1> QED BY <1>3, <1>4, <1>5, <1>6, <1>7 DEF Dispatch

LEMMA ChatInitial == Init => ChatInv
<1> SUFFICES ASSUME Init PROVE ChatInv
  OBVIOUS
<1> USE ChatLoopAssumption, CapabilitiesAssumption DEF Init, CapInit
<1>1. <<>> \in Seq(ToolCalls) /\ <<>> \in Seq(Messages) /\ <<>> \in Seq(Entries)
  BY EmptySeq
<1>2. CapTypeOK
  BY DEF CapTypeOK, Decisions
<1>3. TypeOK
  BY <1>1, <1>2 DEF TypeOK, InFlight
<1>4. LogInOrder /\ PromptInv /\ ToldDecisionStands
  BY DEF LogInOrder, PromptInv, WellFormed, ToldDecisionStands
<1>5. EffectsLogged
  BY DEF EffectsLogged, Reported, Mentioned, Proposals
<1> QED BY <1>3, <1>4, <1>5 DEF ChatInv

(* A request begins, or ends with a reply or an exception: only its phase  *)
(* changes, and what it reports.                                           *)
LEMMA PhaseStep ==
    ASSUME ChatInv, NEW c \in Chats, NEW p \in {"ask", "replied", "raised"},
           phase' = [phase EXCEPT ![c] = p], p = "ask" => phase[c] = "idle",
           UNCHANGED <<capVars, hop, round, messages, toolLog, moves, restarts>>,
           reported' = IF p = "replied" THEN [reported EXCEPT ![c] = toolLog[c]] ELSE reported
    PROVE  ChatInv'
<1> USE DEF ChatInv
<1>1. CapTypeOK' /\ FinalStays
  BY CapStep DEF TypeOK
<1>2. /\ phase' \in [Chats -> InFlight \cup {"idle", "replied", "raised", "cut"}]
      /\ \A d \in Chats : phase'[d] \in {"ask", "dispatch"} => hop'[d] \in 0..MaxHops - 1
  BY ChatLoopAssumption DEF TypeOK, InFlight, LogInOrder
<1>3. reported' \in [Chats -> Seq(Entries)]
  BY DEF TypeOK
<1>4. TypeOK'
  BY <1>1, <1>2, <1>3 DEF TypeOK
<1>5. LogInOrder'
  BY DEF LogInOrder, TypeOK
<1>6. PromptInv'
  BY DEF PromptInv, Running, RoundIds, TypeOK
<1>7. EffectsLogged'
  BY DEF EffectsLogged, TypeOK
<1>8. ToldDecisionStands'
  BY <1>1, ToldKept
<1> QED BY <1>4, <1>5, <1>6, <1>7, <1>8

(* The model calls tools: a new round is opened. *)
LEMMA CallsStep ==
    ASSUME ChatInv, NEW c \in Chats, NEW calls \in Rounds(c), ModelCalls(c, calls)
    PROVE  ChatInv'
<1> DEFINE ids == [k \in DOMAIN calls |-> <<hop[c], k>>]
           a   == [role |-> "assistant", ids |-> ids]
<1> USE DEF ChatInv
<1>1. /\ phase[c] = "ask" /\ phase' = [phase EXCEPT ![c] = "dispatch"]
      /\ round' = [round EXCEPT ![c] = calls]
      /\ messages' = [messages EXCEPT ![c] = Append(messages[c], a)]
      /\ UNCHANGED <<capVars, hop, toolLog, reported, moves, restarts>>
  BY DEF ModelCalls, TypeOK
<1>2. /\ phase \in [Chats -> InFlight \cup {"idle", "replied", "raised", "cut"}]
      /\ round \in [Chats -> Seq(ToolCalls)] /\ messages \in [Chats -> Seq(Messages)]
      /\ toolLog \in [Chats -> Seq(Entries)] /\ hop[c] \in 0..MaxHops - 1 /\ MaxHops \in Nat
  BY <1>1, ChatLoopAssumption DEF TypeOK
<1>3. PICK n \in Nat \ {0} : calls \in [1..n -> ToolCalls]
  <2>1. MaxCalls[c] \in Nat /\ Menu[c] \subseteq ToolCalls
    BY ChatLoopAssumption, MenuAssumption
  <2> QED BY <2>1 DEF Rounds
<1>4. calls \in Seq(ToolCalls) /\ DOMAIN calls = 1..n
  BY <1>3, SeqDef
<1>5. ids \in Seq(CallIds) /\ Len(ids) \in Nat
  <2>1. ids \in [1..n -> CallIds]
    BY <1>2, <1>4 DEF CallIds
  <2> QED BY <2>1, SeqDef, LenProperties
<1> HIDE DEF ids
<1>6. a \in Messages
  BY <1>5 DEF Messages
<1>7. CapTypeOK' /\ FinalStays
  BY <1>1, CapStep DEF TypeOK
<1>8. TypeOK'
  <2>1. messages' \in [Chats -> Seq(Messages)] /\ round' \in [Chats -> Seq(ToolCalls)]
    BY <1>1, <1>2, <1>4, <1>6, AppendProperties
  <2>2. /\ phase' \in [Chats -> InFlight \cup {"idle", "replied", "raised", "cut"}]
        /\ \A d \in Chats : phase'[d] \in {"ask", "dispatch"} => hop'[d] \in 0..MaxHops - 1
    BY <1>1, <1>2 DEF TypeOK, InFlight
  <2> QED BY <1>1, <1>7, <2>1, <2>2 DEF TypeOK
<1>9. LogInOrder'
  BY <1>1, <1>2 DEF LogInOrder
<1>10. EffectsLogged'
  BY <1>1, <1>2 DEF EffectsLogged
<1>11. ToldDecisionStands'
  BY <1>1, <1>7, ToldKept
<1>12. Running(c)' = 1
  <2>1. RanIn(toolLog[c], hop[c]) = {}
    <3>1. ASSUME NEW k \in DOMAIN toolLog[c] PROVE toolLog[c][k].id[1] # hop[c]
      <4>1. toolLog[c][k] \in Entries /\ toolLog[c][k].id[1] < hop[c]
        BY <1>1, <1>2, EntryCall DEF LogInOrder
      <4> QED BY <1>2, <4>1 DEF Entries, CallIds
    <3> QED BY <3>1 DEF RanIn
  <2> QED BY <1>1, <2>1, FS_EmptySet DEF Running
<1>13. RoundIds(c)' = ids
  BY <1>1, <1>2 DEF RoundIds, ids
<1>14. RoundOpen(messages'[c], Len(messages[c]) + 1, ids, 0)
  BY <1>1, <1>2, <1>5, OpensRound DEF PromptInv
<1>15. Len(messages[c]) + 1 \in DOMAIN messages'[c] /\ 1 \in DOMAIN round'[c] /\ 1 - 1 = 0
  BY <1>1, <1>2, <1>3, <1>4, <1>14 DEF RoundOpen
<1>16. ASSUME NEW d \in Chats \ {c}
       PROVE  /\ phase'[d] = phase[d] /\ messages'[d] = messages[d] /\ round'[d] = round[d]
              /\ RoundIds(d)' = RoundIds(d) /\ Running(d)' = Running(d)
  BY <1>1, <1>2 DEF RoundIds, Running
<1>17. PromptInv'
  <2>1. phase'[c] = "dispatch"
    BY <1>1, <1>2
  <2>2. /\ Running(c)' \in DOMAIN round'[c]
        /\ \E h \in DOMAIN messages'[c] :
              RoundOpen(messages'[c], h, RoundIds(c)', Running(c)' - 1)
    BY <1>12, <1>13, <1>14, <1>15
  <2>3. ASSUME NEW d \in Chats \ {c}
        PROVE  /\ phase'[d] \in {"idle", "ask", "summarize"} => WellFormed(messages'[d])
               /\ phase'[d] = "dispatch" =>
                     /\ Running(d)' \in DOMAIN round'[d]
                     /\ \E h \in DOMAIN messages'[d] :
                           RoundOpen(messages'[d], h, RoundIds(d)', Running(d)' - 1)
    BY <1>16 DEF PromptInv
  <2> QED BY <2>1, <2>2, <2>3 DEF PromptInv
<1> QED BY <1>8, <1>9, <1>10, <1>11, <1>17

LEMMA RestartStep == ASSUME ChatInv, ServerRestart PROVE ChatInv'
<1> USE DEF ChatInv, ServerRestart
<1>1. CapTypeOK' /\ FinalStays
  BY CapStep DEF TypeOK
<1>2. TypeOK'
  BY <1>1, ChatLoopAssumption DEF TypeOK, InFlight
<1>3. LogInOrder' /\ EffectsLogged'
  BY DEF LogInOrder, EffectsLogged, InFlight
<1>4. PromptInv'
  <2>1. \A c \in Chats : (phase'[c] = phase[c] /\ phase[c] \notin InFlight) \/ phase'[c] = "cut"
    OBVIOUS
  <2>2. UNCHANGED messages
    OBVIOUS
  <2> QED BY <2>1, <2>2 DEF PromptInv, InFlight
<1>5. ToldDecisionStands'
  BY <1>1, ToldKept
<1> QED BY <1>2, <1>3, <1>4, <1>5

LEMMA ChatStepKeeps == ChatInv /\ [Next]_vars => ChatInv'
<1> SUFFICES ASSUME ChatInv, [Next]_vars PROVE ChatInv'
  OBVIOUS
<1>1. CapTypeOK
  BY DEF ChatInv, TypeOK
<1>2. ASSUME NEW c \in Chats, Post(c) PROVE ChatInv'
  BY <1>2, PhaseStep DEF Post
<1>3. ASSUME NEW c \in Chats, ModelFails(c) \/ ModelStops(c) \/ Summarize(c) PROVE ChatInv'
  BY <1>3, PhaseStep DEF ModelFails, ModelStops, Summarize, Reply
<1>4. ASSUME NEW c \in Chats, NEW calls \in Rounds(c), ModelCalls(c, calls) PROVE ChatInv'
  BY <1>4, CallsStep
<1>5. ASSUME NEW c \in Chats, Raise(c) PROVE ChatInv'
  BY <1>5, PhaseStep DEF Raise
<1>6. ASSUME NEW c \in Chats, Dispatch(c) PROVE ChatInv'
  BY <1>6, DispatchStep
<1>7. ASSUME NEW i \in RequestIds, NEW d \in Decisions, Decide(i, d) PROVE ChatInv'
  BY <1>1, <1>7, CapStep, ChatStutter DEF Decide
<1>8. CASE ServerRestart
  BY <1>8, RestartStep
<1>9. CASE UNCHANGED vars
  BY <1>1, <1>9, CapStep, ChatStutter DEF vars
<1> QED BY <1>2, <1>3, <1>4, <1>5, <1>6, <1>7, <1>8, <1>9 DEF Next, ChatStep

(* The inductive invariant of the chat. *)
THEOREM ChatInvariant == Spec => []ChatInv
BY ChatInitial, ChatStepKeeps, PTL DEF Spec

(* The requests for capabilities, the conversations and the logs keep      *)
(* their types.                                                            *)
THEOREM TypeCorrect == Spec => []TypeOK
BY ChatInvariant, PTL DEF ChatInv

(* The conversation that the model is shown has, behind each message with  *)
(* calls, one result per call, in order, whatever failed on the way.       *)
THEOREM PromptsAreWellFormed == Spec => []PromptWellFormed
<1>1. ChatInv => PromptWellFormed
  BY DEF ChatInv, PromptInv, PromptWellFormed
<1> QED BY <1>1, ChatInvariant, PTL

(* A reply reports as filed only moves that were filed, and leaves no      *)
(* filed move unmentioned, though the tool that filed it may have failed   *)
(* after it.                                                               *)
THEOREM EffectsAreReported == Spec => []EffectsReported
<1>1. ChatInv => EffectsReported
  BY DEF ChatInv, EffectsLogged, EffectsReported
<1> QED BY <1>1, ChatInvariant, PTL

(* A decision that a chat made is what the request shows, whether or not   *)
(* the chat got the answer.                                                *)
THEOREM ToldDecisionsStand == Spec => []ToldDecisionStands
BY ChatInvariant, PTL DEF ChatInv

----------------------------------------------------------------------------
(* The requests, which chats and humans share.                             *)

(* What a step of a chat, a human or the server does to the requests. *)
RequestMove == \/ \E c \in Chats : /\ filing' = [filing EXCEPT ![c] = NoName]
                                   /\ UNCHANGED <<capability, capStatus, decided, contended>>
               \/ \E c \in Chats, n \in Names : FileMiss(c, n)
               \/ \E c \in Chats, i \in RequestIds : FileInsert(c, i)
               \/ \E i \in RequestIds, d \in Decisions : DecideCapabilityRequest(i, d)
               \/ CapRestart
               \/ UNCHANGED capVars

LEMMA RequestMoves == ChatInv /\ [Next]_vars => RequestMove
<1> SUFFICES ASSUME ChatInv, [Next]_vars PROVE RequestMove
  OBVIOUS
<1>1. ASSUME NEW c \in Chats, Dispatch(c) PROVE RequestMove
  <2>1. phase[c] = "dispatch"
    BY <1>1 DEF Dispatch, DispatchFails, FileFails, DispatchRead, DispatchPropose, DispatchRequest,
                DispatchDecide, Dispatching
  <2>2. Current(c) \in ToolCalls
    <3>1. round[c] \in Seq(ToolCalls) /\ Running(c) \in DOMAIN round[c]
      BY <2>1 DEF ChatInv, TypeOK, PromptInv
    <3> QED BY <3>1, ElementOfSeq, LenProperties DEF Current
  <2>3. CASE DispatchFails(c)
    BY <2>3 DEF DispatchFails, FileFails, RequestMove
  <2>4. CASE DispatchRead(c) \/ DispatchPropose(c)
    BY <2>4 DEF DispatchRead, DispatchPropose, RequestMove
  <2>5. CASE DispatchRequest(c)
    <3>1. Current(c).capability \in Names
      BY <2>2, <2>5 DEF DispatchRequest, Dispatching, ToolCalls
    <3> QED BY <2>5, <3>1 DEF DispatchRequest, FileHit, RequestMove
  <2>6. CASE DispatchDecide(c)
    <3>1. Current(c).request \in RequestIds /\ Current(c).decision \in Decisions
      BY <2>2, <2>6, DecideCall DEF DispatchDecide, Dispatching
    <3> QED BY <2>6, <3>1 DEF DispatchDecide, RequestMove
  <2> QED BY <1>1, <2>3, <2>4, <2>5, <2>6 DEF Dispatch
<1>2. ASSUME NEW c \in Chats,
             \/ Post(c) \/ ModelFails(c) \/ ModelStops(c) \/ Summarize(c)
             \/ \E calls \in Rounds(c) : ModelCalls(c, calls)
      PROVE  RequestMove
  BY <1>2 DEF Post, ModelFails, ModelStops, Summarize, Reply, ModelCalls, RequestMove
<1>3. ASSUME NEW c \in Chats, Raise(c) PROVE RequestMove
  BY <1>3 DEF Raise, RequestMove
<1>4. ASSUME NEW i \in RequestIds, NEW d \in Decisions, Decide(i, d) PROVE RequestMove
  BY <1>4 DEF Decide, RequestMove
<1>5. CASE ServerRestart \/ UNCHANGED vars
  BY <1>5 DEF ServerRestart, vars, RequestMove
<1> QED BY <1>1, <1>2, <1>3, <1>4, <1>5 DEF Next, ChatStep

(* A chat about to insert has found nothing pending, and that still holds, *)
(* or another one has inserted the name meanwhile.                         *)
FilersLooked ==
    \A f \in Filers : filing[f] # NoName =>
        Pending(filing[f]) = {} \/ filing[f] \in contended

LEMMA InsertRequest ==
    ASSUME CapTypeOK, FilersLooked, OnePendingPerCapability,
           NEW f \in Filers, NEW i \in RequestIds, FileInsert(f, i)
    PROVE  FilersLooked' /\ OnePendingPerCapability'
<1> DEFINE n == filing[f]
<1>1. /\ n \in Names /\ n # NoName /\ capStatus[i] = "absent"
      /\ capability' = [capability EXCEPT ![i] = n]
      /\ capStatus' = [capStatus EXCEPT ![i] = "pending"]
      /\ filing' = [filing EXCEPT ![f] = NoName]
      /\ contended \subseteq contended'
      /\ (\E g \in Filers \ {f} : filing[g] = n) => n \in contended'
  BY DEF FileInsert, CapTypeOK
<1>2. Pending(n) = {} \/ n \in contended
  BY <1>1 DEF FilersLooked
<1>3. ASSUME NEW m, m # n PROVE Pending(m)' = Pending(m)
  BY <1>1, <1>3 DEF Pending, CapTypeOK
<1>4. FilersLooked'
  <2> SUFFICES ASSUME NEW g \in Filers, filing'[g] # NoName
               PROVE  Pending(filing[g])' = {} \/ filing[g] \in contended'
    BY <1>1 DEF FilersLooked, CapTypeOK, Pending
  <2>1. g # f /\ filing[g] # NoName
    BY <1>1 DEF CapTypeOK
  <2>2. CASE filing[g] = n
    BY <1>1, <2>1, <2>2
  <2>3. CASE filing[g] # n
    BY <1>1, <1>3, <2>1, <2>3 DEF FilersLooked
  <2> QED BY <2>2, <2>3
<1>5. ASSUME NEW j \in RequestIds, NEW k \in RequestIds,
             capStatus'[j] = "pending", capStatus'[k] = "pending",
             capability'[j] = capability'[k], capability'[j] \notin contended'
      PROVE  j = k
  <2>1. ASSUME NEW x \in RequestIds, x # i, capStatus'[x] = "pending",
               capability'[x] = n, n \notin contended'
        PROVE  FALSE
    BY <1>1, <1>2, <2>1 DEF CapTypeOK, Pending
  <2>2. capability'[i] = n
    BY <1>1 DEF CapTypeOK
  <2>3. CASE j = i \/ k = i
    BY <1>5, <2>1, <2>2, <2>3
  <2>4. CASE j # i /\ k # i
    BY <1>1, <1>5, <2>4 DEF CapTypeOK, OnePendingPerCapability
  <2> QED BY <2>3, <2>4
<1> QED BY <1>4, <1>5 DEF OnePendingPerCapability, RequestIds

(* A capability has one pending request, also when chats ask for it, but   *)
(* for names that two handlers looked up before either inserted.           *)
THEOREM OneRequestPends == Spec => []OnePendingPerCapability
<1> DEFINE Inv == FilersLooked /\ OnePendingPerCapability
<1>1. Init => Inv
  BY DEF Init, CapInit, FilersLooked, OnePendingPerCapability
<1>2. ChatInv /\ Inv /\ [Next]_vars => Inv'
  <2> SUFFICES ASSUME ChatInv, Inv, RequestMove PROVE Inv'
    BY RequestMoves
  <2>0. CapTypeOK /\ Chats = Filers
    BY ChatLoopAssumption DEF ChatInv, TypeOK
  <2>1. ASSUME NEW c \in Chats, filing' = [filing EXCEPT ![c] = NoName],
               UNCHANGED <<capability, capStatus, decided, contended>>
        PROVE  Inv'
    BY <2>0, <2>1 DEF CapTypeOK, FilersLooked, OnePendingPerCapability, Pending
  <2>2. ASSUME NEW c \in Chats, NEW n \in Names, FileMiss(c, n) PROVE Inv'
    BY <2>0, <2>2 DEF FileMiss, CapTypeOK, FilersLooked, OnePendingPerCapability, Pending
  <2>3. ASSUME NEW c \in Chats, NEW i \in RequestIds, FileInsert(c, i) PROVE Inv'
    BY <2>0, <2>3, InsertRequest
  <2>4. ASSUME NEW i \in RequestIds, NEW d \in Decisions, DecideCapabilityRequest(i, d)
        PROVE  Inv'
    <3>1. \A j \in RequestIds : capStatus'[j] = "pending" => capStatus[j] = "pending"
      BY <2>0, <2>4 DEF DecideCapabilityRequest, CapTypeOK, Decisions
    <3>2. UNCHANGED <<capability, filing, contended>>
      BY <2>4 DEF DecideCapabilityRequest
    <3> QED BY <2>0, <3>1, <3>2 DEF FilersLooked, OnePendingPerCapability, Pending
  <2>5. CASE CapRestart
    BY <2>0, <2>5 DEF CapRestart, CapTypeOK, FilersLooked, OnePendingPerCapability
  <2>6. CASE UNCHANGED capVars
    BY <2>6 DEF capVars, FilersLooked, OnePendingPerCapability, Pending
  <2> QED BY <2>1, <2>2, <2>3, <2>4, <2>5, <2>6 DEF RequestMove
<1> QED BY <1>1, <1>2, ChatInvariant, PTL DEF Spec

(* The table of requests implements the work queue. *)
LEMMA RequestStep == CapTypeOK /\ RequestMove => [RequestQueue!Next]_(RequestQueue!vars)
<1> SUFFICES ASSUME CapTypeOK, RequestMove PROVE RequestQueue!Next \/ UNCHANGED RequestQueue!vars
  OBVIOUS
<1>1. ASSUME UNCHANGED capStatus PROVE UNCHANGED RequestQueue!vars
  BY <1>1 DEF RequestQueue!vars, RequestPhase, Decision
<1>2. ASSUME NEW i \in RequestIds, NEW s, capStatus' = [capStatus EXCEPT ![i] = s]
      PROVE  /\ capStatus'[i] = s
             /\ \A j \in RequestIds \ {i} :
                   RequestPhase(j)' = RequestPhase(j) /\ Decision(j)' = Decision(j)
  BY <1>2 DEF CapTypeOK, RequestPhase, Decision
<1>3. ASSUME NEW f \in Chats, NEW i \in RequestIds, FileInsert(f, i) PROVE RequestQueue!Next
  <2>1. capStatus[i] = "absent" /\ capStatus' = [capStatus EXCEPT ![i] = "pending"]
    BY <1>3 DEF FileInsert
  <2>2. capStatus'[i] = "pending"
    BY <1>2, <2>1
  <2>3. /\ RequestPhase(i) = "absent" /\ RequestPhase(i)' = "waiting"
        /\ Decision(i)' = Decision(i)
    BY <2>1, <2>2 DEF RequestPhase, Decision, Decisions
  <2>4. RequestQueue!Add({i})
    BY <1>2, <2>1, <2>3 DEF RequestQueue!Add
  <2> QED BY <2>4 DEF RequestQueue!Next
<1>4. ASSUME NEW i \in RequestIds, NEW d \in Decisions, DecideCapabilityRequest(i, d)
      PROVE  RequestQueue!Next
  <2>1. capStatus[i] = "pending" /\ capStatus' = [capStatus EXCEPT ![i] = d]
    BY <1>4 DEF DecideCapabilityRequest
  <2>2. capStatus'[i] = d
    BY <1>2, <2>1
  <2>3. RequestPhase(i) # "done" /\ RequestPhase(i)' = "done" /\ Decision(i)' = d
    BY <2>1, <2>2 DEF RequestPhase, Decision, Decisions
  <2>4. RequestQueue!Settle({i}, d)
    BY <1>2, <2>1, <2>3 DEF RequestQueue!Settle
  <2> QED BY <2>4 DEF RequestQueue!Next
<1> QED BY <1>1, <1>3, <1>4 DEF RequestMove, FileMiss, CapRestart, capVars

(* A request that a chat has filed is decided once and for good, by        *)
(* whichever chat or human comes first, in every behaviour of the chats.   *)
THEOREM DecisionsAreFinal == Spec => DecidedForGood
<1>1. Init => RequestQueue!Init
  BY DEF Init, CapInit, RequestQueue!Init, RequestPhase, Decision, Decisions
<1>2. ChatInv /\ [Next]_vars => [RequestQueue!Next]_(RequestQueue!vars)
  BY RequestMoves, RequestStep DEF ChatInv, TypeOK
<1> QED BY <1>1, <1>2, ChatInvariant, PTL DEF Spec, RequestQueue!Spec, DecidedForGood
=============================================================================
