----------------------------- MODULE MCFleetLog -----------------------------
(* A small instance of FleetLog for TLC: two processes of one agent.       *)
EXTENDS FleetLog, TLC

CONSTANTS scout, s1, s2

BothScout == s1 :> scout @@ s2 :> scout
=============================================================================
