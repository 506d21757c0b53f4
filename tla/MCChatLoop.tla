----------------------------- MODULE MCChatLoop -----------------------------
(* A small instance of ChatLoop for TLC: a chat whose model calls one tool *)
(* at a time, of any kind, next to one whose model denies requests, up to  *)
(* two in an answer.                                                       *)
EXTENDS ChatLoop, TLC

CONSTANTS c1, c2

OneAndTwo == c1 :> 1 @@ c2 :> 2

Deciding(d) == {t \in ToolCalls : t.tool = "decide" /\ t.decision = d}

GrantsAndDenies == c1 :> ToolCalls \ Deciding("denied") @@ c2 :> Deciding("denied")
=============================================================================
