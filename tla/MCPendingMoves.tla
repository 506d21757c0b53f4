--------------------------- MODULE MCPendingMoves ---------------------------
(* Small instances of PendingMoves for TLC. *)
EXTENDS PendingMoves, TLC

CONSTANTS merge, issue

OneOfAny   == {[kinds |-> {}, limit |-> 1]}
OneOrTwo   == {[kinds |-> {}, limit |-> 1], [kinds |-> {}, limit |-> 2]}
MergeOrAny == {[kinds |-> {merge}, limit |-> 1], [kinds |-> {}, limit |-> 2]}

DroidSymmetry == Permutations(Droids)
=============================================================================
