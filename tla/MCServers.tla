------------------------------ MODULE MCServers ------------------------------
(* The MCP servers for TLC: the tools of Doppler, Cloudflare and            *)
(* Northflank, and the rotation queue with one service, so that every       *)
(* enqueue meets the same playbook.  They share nothing, so a behaviour is  *)
(* one of either; the other part stays in one initial state.                *)
EXTENDS MCRemoteTools, Grabber

VARIABLE server

serversVars == <<server, toolsVars, vars>>

ServersInit ==
    /\ server \in {"tools", "grabber"}
    /\ ToolsInit /\ Init
    /\ server = "tools" => \A s \in Services : playbook[s] = "absent"

RunTools   == server = "tools" /\ ToolsNext /\ UNCHANGED <<server, vars>>
RunGrabber == server = "grabber" /\ Next /\ UNCHANGED <<server, toolsVars>>

ServersSpec == ServersInit /\ [][RunTools \/ RunGrabber]_serversVars

ServerSymmetry ==
    CallSymmetry \cup Permutations(Jobs) \cup Permutations(Handlers)
==============================================================================
