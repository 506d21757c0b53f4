---------------------------- MODULE MCLocalTasks ----------------------------
(* Small instances of LocalTasks for TLC. *)
EXTENDS LocalTasks, TLC

CONSTANTS r1, r2, shell, ocr

(* Runner r1 long-polls for anything, one row at a time; runner r2 takes   *)
(* up to two OCR tasks with the one-shot route.                            *)
LongPollAny == [runner |-> r1, kinds |-> {}, limit |-> 1, long |-> TRUE]
OneShotOcr  == [runner |-> r2, kinds |-> {ocr}, limit |-> 2, long |-> FALSE]
OneShotAny  == [runner |-> r2, kinds |-> {}, limit |-> 2, long |-> FALSE]

MixedRequests == {LongPollAny, OneShotOcr}
RivalRequests == {LongPollAny, OneShotAny}
OneRequest    == {LongPollAny}

PollerSymmetry == Permutations(Pollers)
=============================================================================
