---------------------------- MODULE MCVerifyMove ----------------------------
(* Small instances of VerifyMove for TLC. *)
EXTENDS VerifyMove, TLC

CONSTANTS m1, m2, repoA

TwoMergesKind == m1 :> "merge_pr" @@ m2 :> "merge_pr"
SameRepo      == m1 :> repoA @@ m2 :> repoA

MergeAndNoop  == m1 :> "merge_pr" @@ m2 :> "noop"
RepoAndNone   == m1 :> repoA @@ m2 :> NoRepo

TokenName     == {Token}
CallSymmetry  == Permutations(Calls)
=============================================================================
