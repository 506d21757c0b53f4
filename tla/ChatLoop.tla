------------------------------ MODULE ChatLoop ------------------------------
(***************************************************************************)
(* The cockpit's chat: a request POST /cockpit/chat asks the language      *)
(* model, runs the tools it calls, shows it the results and asks again,    *)
(* for at most MaxHops rounds; then it asks once more without tools.  What *)
(* the tools did is reported with the reply.                               *)
(*                                                                         *)
(* Tools act on the database shared with other chats and with the buttons  *)
(* of the cockpit: proposals are pending moves, capability requests are    *)
(* those of module Capabilities.  A request is atomic between awaits only: *)
(* the model's answer, and each statement of a tool, are steps.            *)
(*                                                                         *)
(* The history that the client sends (text only) and the texts of answers  *)
(* are left out; so is a request with tools disabled, which behaves like   *)
(* one whose model calls none.                                             *)
(***************************************************************************)
EXTENDS Capabilities, Sequences, FiniteSets

CONSTANTS Chats,       \* requests to /cockpit/chat
          MaxHops,     \* MAX_TOOL_HOPS, 6 in the code
          Menu,        \* bound: the tool calls that the model of chat c makes
          MaxCalls,    \* bound: tool calls in one answer of that model
          MaxRestarts  \* bound: server restarts

ASSUME ChatLoopAssumption ==
    /\ Filers = Chats
    /\ MaxHops \in Nat \ {0} /\ MaxRestarts \in Nat
    /\ MaxCalls \in [Chats -> Nat]

(* A tool call as far as its effect goes.  "read" stands for the tools that *)
(* change nothing, "propose" for the three that file a move for approval.   *)
ToolCalls ==
    [tool : {"read", "propose"}] \cup [tool : {"request"}, capability : Names]
        \cup [tool : {"decide"}, request : RequestIds, decision : Decisions]

ASSUME MenuAssumption == Menu \in [Chats -> SUBSET ToolCalls]

CallIds == (0..MaxHops - 1) \X (Nat \ {0})

VARIABLES
    phase,     \* where request c is
    hop,       \* rounds with tool calls that are complete
    round,     \* the tool calls of this round
    messages,  \* what this request added to the conversation
    toolLog,   \* tool_log
    reported,  \* the tool_calls of the reply
    moves,     \* rows that c filed in public.pending_moves
    restarts

chatVars == <<phase, hop, round, messages, toolLog, reported, moves, restarts>>
vars == <<capVars, chatVars>>

InFlight == {"ask", "dispatch", "summarize"}

Init ==
    /\ CapInit
    /\ phase = [c \in Chats |-> "idle"]
    /\ hop = [c \in Chats |-> 0]
    /\ round = [c \in Chats |-> <<>>]
    /\ messages = [c \in Chats |-> <<>>]
    /\ toolLog = [c \in Chats |-> <<>>]
    /\ reported = [c \in Chats |-> <<>>]
    /\ moves = [c \in Chats |-> {}]
    /\ restarts = 0

Post(c) ==
    /\ phase[c] = "idle"
    /\ phase' = [phase EXCEPT ![c] = "ask"]
    /\ UNCHANGED <<capVars, hop, round, messages, toolLog, reported, moves, restarts>>

----------------------------------------------------------------------------
(* The model answers.                                                      *)

Reply(c) ==
    /\ phase' = [phase EXCEPT ![c] = "replied"]
    /\ reported' = [reported EXCEPT ![c] = toolLog[c]]
    /\ UNCHANGED <<capVars, hop, round, messages, toolLog, moves, restarts>>

(* Mutant: the reply to an error reports no tool calls. *)
MutantErrorReply(c) ==
    /\ phase[c] = "ask"
    /\ phase' = [phase EXCEPT ![c] = "replied"]
    /\ UNCHANGED <<capVars, hop, round, messages, toolLog, reported, moves, restarts>>

(* Timeout, transport error, HTTP status, JSON or choices missing.         *)
ModelFails(c) == phase[c] = "ask" /\ Reply(c)

ModelStops(c) == phase[c] = "ask" /\ Reply(c)

ModelCalls(c, calls) ==
    /\ phase[c] = "ask"
    /\ phase' = [phase EXCEPT ![c] = "dispatch"]
    /\ round' = [round EXCEPT ![c] = calls]
    /\ messages' = [messages EXCEPT ![c] = Append(@,
           [role |-> "assistant", ids |-> [k \in DOMAIN calls |-> <<hop[c], k>>]])]
    /\ UNCHANGED <<capVars, hop, toolLog, reported, moves, restarts>>

(* The round without tools: a text or an error, both end the request.      *)
Summarize(c) == phase[c] = "summarize" /\ Reply(c)

(* An answer of a shape that the code does not expect raises: status 500.  *)
Raise(c) ==
    /\ phase[c] \in InFlight
    /\ filing[c] = NoName
    /\ phase' = [phase EXCEPT ![c] = "raised"]
    /\ UNCHANGED <<capVars, hop, round, messages, toolLog, reported, moves, restarts>>

----------------------------------------------------------------------------
(* chat_tools.dispatch runs one call after the other.                      *)

(* The entries of a log that are of round r. *)
RanIn(log, r) == {k \in DOMAIN log : log[k].id[1] = r}

Running(c) == Cardinality(RanIn(toolLog[c], hop[c])) + 1

Current(c) == round[c][Running(c)]

(* Mutant: the budget is one round too large. *)
MutantAfterRound(c) ==
    /\ phase' = [phase EXCEPT ![c] = IF hop[c] + 1 <= MaxHops THEN "ask" ELSE "summarize"]
    /\ hop' = [hop EXCEPT ![c] = @ + 1]

AfterRound(c) ==
    /\ phase' = [phase EXCEPT ![c] = IF hop[c] + 1 < MaxHops THEN "ask" ELSE "summarize"]
    /\ hop' = [hop EXCEPT ![c] = @ + 1]

(* Mutant: no message for a call that failed. *)
MutantLog(c, done, ok) ==
    LET id == <<hop[c], Running(c)>>
    IN  /\ toolLog' = [toolLog EXCEPT ![c] =
               Append(@, [id |-> id, call |-> Current(c), done |-> done, ok |-> ok])]
        /\ messages' = [messages EXCEPT ![c] =
               IF ok THEN Append(@, [role |-> "tool", id |-> id]) ELSE @]
        /\ IF Running(c) = Len(round[c]) THEN AfterRound(c) ELSE UNCHANGED <<phase, hop>>
        /\ UNCHANGED <<round, reported, restarts>>

(* The result is logged, with ok when it has no "error" key, and shown to  *)
(* the model; done says whether the tool did what it was asked to do,      *)
(* which the log does not show.                                            *)
Log(c, done, ok) ==
    LET id == <<hop[c], Running(c)>>
    IN  /\ toolLog' = [toolLog EXCEPT ![c] =
               Append(@, [id |-> id, call |-> Current(c), done |-> done, ok |-> ok])]
        /\ messages' = [messages EXCEPT ![c] = Append(@, [role |-> "tool", id |-> id])]
        /\ IF Running(c) = Len(round[c]) THEN AfterRound(c) ELSE UNCHANGED <<phase, hop>>
        /\ UNCHANGED <<round, reported, restarts>>

Dispatching(c, tool) == phase[c] = "dispatch" /\ Current(c).tool = tool

(* An unknown tool, missing arguments, or an exception before anything is  *)
(* written: {"error": ...}.                                                *)
DispatchFails(c) ==
    /\ phase[c] = "dispatch"
    /\ FileFails(c)
    /\ Log(c, FALSE, FALSE)
    /\ UNCHANGED moves

DispatchRead(c) ==
    /\ Dispatching(c, "read")
    /\ Log(c, TRUE, TRUE)
    /\ UNCHANGED <<capVars, moves>>

(* What a tool has written is committed before it answers, and an          *)
(* exception after that (the answer of the statement lost, the connection  *)
(* not released) is an {"error": ...} all the same.                        *)
LogWritten(c) == \E ok \in BOOLEAN : Log(c, TRUE, ok)

DispatchPropose(c) ==
    /\ Dispatching(c, "propose")
    /\ moves' = [moves EXCEPT ![c] = @ \cup {<<hop[c], Running(c)>>}]
    /\ LogWritten(c)
    /\ UNCHANGED capVars

DispatchRequest(c) ==
    /\ Dispatching(c, "request")
    /\ \/ /\ \E i \in RequestIds : FileHit(c, Current(c).capability, i)
          /\ Log(c, TRUE, TRUE) /\ UNCHANGED moves
       \/ FileMiss(c, Current(c).capability) /\ UNCHANGED chatVars
       \/ /\ \E i \in RequestIds : FileInsert(c, i)
          /\ LogWritten(c) /\ UNCHANGED moves

(* Deciding a request that is not pending gives {"ok": False}, which has   *)
(* no "error" key.                                                         *)
DispatchDecide(c) ==
    /\ Dispatching(c, "decide")
    /\ LET i == Current(c).request
       IN  \/ DecideCapabilityRequest(i, Current(c).decision) /\ LogWritten(c)
           \/ capStatus[i] # "pending" /\ Log(c, FALSE, TRUE) /\ UNCHANGED capVars
    /\ UNCHANGED moves

Dispatch(c) == \/ DispatchFails(c)
               \/ DispatchRead(c)
               \/ DispatchPropose(c)
               \/ DispatchRequest(c)
               \/ DispatchDecide(c)

----------------------------------------------------------------------------
(* A button of the cockpit, or another agent.                              *)
Decide(i, d) == DecideCapabilityRequest(i, d) /\ UNCHANGED chatVars

ServerRestart ==
    /\ restarts < MaxRestarts
    /\ restarts' = restarts + 1
    /\ CapRestart
    /\ phase' = [c \in Chats |-> IF phase[c] \in InFlight THEN "cut" ELSE phase[c]]
    /\ UNCHANGED <<hop, round, messages, toolLog, reported, moves>>

(* What one answer of the model may call, within the bounds.  Nothing      *)
(* bounds how often it answers with calls, but for the code's own limit.   *)
Rounds(c) == UNION {[1..n -> Menu[c]] : n \in 1..MaxCalls[c]}

ChatStep(c) == \/ ModelFails(c)
               \/ ModelStops(c)
               \/ \E calls \in Rounds(c) : ModelCalls(c, calls)
               \/ Summarize(c)
               \/ Raise(c)
               \/ Dispatch(c)

Next == \/ \E c \in Chats : Post(c) \/ ChatStep(c)
        \/ \E i \in RequestIds, d \in Decisions : Decide(i, d)
        \/ ServerRestart

Spec == Init /\ [][Next]_vars

(* The call of the model times out, and the database answers. *)
FairSpec == Spec /\ \A c \in Chats : WF_vars(ChatStep(c))

----------------------------------------------------------------------------
Entries == [id : CallIds, call : ToolCalls, done : BOOLEAN, ok : BOOLEAN]

Messages == [role : {"assistant"}, ids : Seq(CallIds)] \cup [role : {"tool"}, id : CallIds]

TypeOK ==
    /\ CapTypeOK
    /\ phase \in [Chats -> InFlight \cup {"idle", "replied", "raised", "cut"}]
    /\ hop \in [Chats -> 0..MaxHops]
    /\ \A c \in Chats : phase[c] \in {"ask", "dispatch"} => hop[c] \in 0..MaxHops - 1
    /\ round \in [Chats -> Seq(ToolCalls)]
    /\ messages \in [Chats -> Seq(Messages)]
    /\ toolLog \in [Chats -> Seq(Entries)]
    /\ reported \in [Chats -> Seq(Entries)]
    /\ moves \in [Chats -> SUBSET CallIds]
    /\ restarts \in 0..MaxRestarts

(* Message j is the result of a call in message i. *)
Answers(m, i, j) ==
    /\ i < j /\ m[i].role = "assistant" /\ m[j].role = "tool"
    /\ j - i \in DOMAIN m[i].ids /\ m[j].id = m[i].ids[j - i]

WellFormed(m) ==
    \A i \in DOMAIN m :
        IF m[i].role = "tool" THEN \E h \in DOMAIN m : Answers(m, h, i)
        ELSE \A k \in DOMAIN m[i].ids : i + k \in DOMAIN m /\ Answers(m, i, i + k)

(* The conversation that the model is shown is one it accepts: behind each *)
(* message with tool calls stand their results, one per call, in order,    *)
(* also of calls that failed, and there are no other results.              *)
PromptWellFormed ==
    \A c \in Chats : phase[c] \in {"ask", "summarize"} => WellFormed(messages[c])

(* The proposals of a log, and those that it reports as filed. *)
Proposals(log) == {k \in DOMAIN log : log[k].call.tool = "propose"}
Mentioned(log) == {log[k].id : k \in Proposals(log)}
Reported(log)  == {log[k].id : k \in {k \in Proposals(log) : log[k].ok}}

(* "so Luke sees what the director did": a move that a reply reports as    *)
(* filed was filed, and each move that was filed has its entry there, also *)
(* when the model failed on the way.  That entry may be an error: the      *)
(* insert can be committed and the tool raise after it.                    *)
EffectsReported ==
    \A c \in Chats : phase[c] = "replied" =>
        Reported(reported[c]) \subseteq moves[c] /\ moves[c] \subseteq Mentioned(reported[c])

(* A decision that a chat made, and was told so or lost the answer, is     *)
(* what the request shows, now and later, whatever other chats and humans  *)
(* decide.                                                                 *)
ToldDecisionStands ==
    \A c \in Chats : \A k \in DOMAIN toolLog[c] :
        LET t == toolLog[c][k]
        IN  t.call.tool = "decide" /\ t.done => capStatus[t.call.request] = t.call.decision

(* "Cap at MAX_TOOL_HOPS to avoid runaway loops": every request ends, and  *)
(* with at most MaxHops rounds of tools, though the model never stops      *)
(* calling them.                                                           *)
ToolRounds(c) == Cardinality({i \in DOMAIN messages[c] : messages[c][i].role = "assistant"})

EndsWithinBudget ==
    \A c \in Chats : phase[c] = "ask" ~>
        phase[c] \in {"replied", "raised", "cut"} /\ ToolRounds(c) <= MaxHops
=============================================================================
