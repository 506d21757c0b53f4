------------------------------ MODULE MCScripts ------------------------------
(* The two programs of operators, SentryAlerts and TunnelUpdater, for TLC.  *)
(* They share nothing, so a behaviour is one of either.                     *)
EXTENDS SentryAlerts, TunnelUpdater, TLC

VARIABLE script

scriptsVars == <<script, vars, tunnelVars>>

ScriptsInit == /\ script \in {"sentry", "tunnel"}
               /\ Init /\ TunnelInit

RunSentry == script = "sentry" /\ Next /\ UNCHANGED <<script, tunnelVars>>
RunTunnel == script = "tunnel" /\ TunnelNext /\ UNCHANGED <<script, vars>>

ScriptsSpec == ScriptsInit /\ [][RunSentry \/ RunTunnel]_scriptsVars

ScriptSymmetry == Permutations(Operators) \cup Permutations(Updaters)
==============================================================================
