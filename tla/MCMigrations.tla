---------------------------- MODULE MCMigrations ----------------------------
(* Small instances of Migrations for TLC: one image without file 0006, and *)
(* two that have it.                                                       *)
EXTENDS Migrations, TLC

CONSTANTS old, new1, new2

RollingDeploy == old :> 2 @@ new1 :> 3 @@ new2 :> 3
=============================================================================
