---------------------------- MODULE TunnelUpdater ----------------------------
(***************************************************************************)
(* mcp_server/update_tunnel_url.py: find the URL of the quick tunnel, in   *)
(* the metrics of cloudflared or in its log, and put it under the key that *)
(* the Worker proxy reads.  It is run after each start of cloudflared, by  *)
(* start_tunnel.cmd or by a scheduled task, so that runs may overlap.      *)
(*                                                                         *)
(* A tunnel, and its URL, is a number; cloudflared is started again with   *)
(* a new one.  start_tunnel.cmd empties the log then, a service manager    *)
(* may append to it.  Other tunnels of the machine have metrics as well.   *)
(***************************************************************************)
EXTENDS Naturals, Sequences

CONSTANTS Updaters,    \* runs of the program
          NoUpdater,
          MaxTunnels,  \* bound: starts of cloudflared
          MaxLogReads  \* MAX_RETRIES

NoURL   == 0
Foreign == MaxTunnels + 1   \* the URL of another tunnel of the machine

ASSUME TunnelAssumption ==
    MaxTunnels \in Nat /\ MaxLogReads \in Nat \ {0} /\ NoUpdater \notin Updaters

VARIABLES
    live, announced,  \* cloudflared: its tunnel, and whether it has told the URL
    log,              \* the URLs in the log file, oldest first
    kv,               \* the value of tunnel-url
    at, url, reads,   \* the program: its next step, the URL it found, log reads begun
    published,        \* runs that ended well
    writer,           \* history: the run that wrote kv
    before,           \* history: runs begun before the last start of cloudflared
    appended          \* history: a start of cloudflared has kept the log

cloudflaredVars == <<live, announced, log, before, appended>>
tunnelVars == <<cloudflaredVars, kv, at, url, reads, published, writer>>

TunnelInit ==
    /\ live = 1 /\ announced = FALSE /\ log = <<>>
    /\ kv = NoURL /\ writer = NoUpdater
    /\ at = [u \in Updaters |-> "start"]
    /\ url = [u \in Updaters |-> NoURL]
    /\ reads = [u \in Updaters |-> 0]
    /\ published = {} /\ before = {} /\ appended = FALSE

Go(u, step) == at' = [at EXCEPT ![u] = step]

(* The run goes on with the URL it has found, or looks in the log.         *)
Found(u, found) ==
    /\ Go(u, IF found = NoURL THEN "log" ELSE "put")
    /\ url' = [url EXCEPT ![u] = found]

----------------------------------------------------------------------------
(* get_tunnel_url_from_metrics: the first port with a tunnel counts; no    *)
(* port may answer.                                                        *)
ReadMetrics(u, found) ==
    /\ at[u] = "start"
    /\ found \in {NoURL, Foreign} \cup (IF announced THEN {live} ELSE {})
    /\ Found(u, found)
    /\ UNCHANGED <<cloudflaredVars, kv, reads, published, writer>>

ExtractTunnelURL == IF log = <<>> THEN NoURL ELSE Head(log)

(* One round of the loop: a file that is missing or has no URL in it costs *)
(* one of the reads.                                                       *)
ReadLog(u, readable) ==
    /\ at[u] = "log" /\ reads[u] < MaxLogReads
    /\ reads' = [reads EXCEPT ![u] = @ + 1]
    /\ Found(u, IF readable THEN ExtractTunnelURL ELSE NoURL)
    /\ UNCHANGED <<cloudflaredVars, kv, published, writer>>

(* Mutant: an error does not keep the run from ending well. *)
MutantAfterPut(u, outcome) ==
    \/ /\ outcome \in {"200", "error"}
       /\ Go(u, "end")
       /\ published' = published \cup {u}
    \/ /\ outcome = "2xx"
       /\ Go(u, "log")
       /\ UNCHANGED published

(* An error is raised by urlopen.  It ends the program when the URL is     *)
(* that of the metrics, and is caught in the loop over the log.            *)
AfterPut(u, outcome) ==
    \/ /\ outcome = "200"
       /\ Go(u, "end")
       /\ published' = published \cup {u}
    \/ /\ outcome = "error" /\ reads[u] = 0
       /\ Go(u, "end")
       /\ UNCHANGED published
    \/ /\ outcome = "2xx" \/ (outcome = "error" /\ reads[u] > 0)
       /\ Go(u, "log")
       /\ UNCHANGED published

(* The request: it is answered with 200 or another success, or an error    *)
(* comes back, perhaps after it was carried out.                           *)
UpdateKV(u, outcome, applied) ==
    /\ at[u] = "put"
    /\ outcome = "200" => applied
    /\ kv' = IF applied THEN url[u] ELSE kv
    /\ writer' = IF applied THEN u ELSE writer
    /\ AfterPut(u, outcome)
    /\ UNCHANGED <<cloudflaredVars, url, reads>>

GiveUpLog(u) ==
    /\ at[u] = "log" /\ reads[u] = MaxLogReads
    /\ Go(u, "end")
    /\ UNCHANGED <<cloudflaredVars, kv, url, reads, published, writer>>

----------------------------------------------------------------------------
Announce ==
    /\ ~announced
    /\ announced' = TRUE
    /\ log' = Append(log, live)
    /\ UNCHANGED <<live, before, appended, kv, at, url, reads, published, writer>>

Relaunch(appends) ==
    /\ live < MaxTunnels
    /\ live' = live + 1
    /\ announced' = FALSE
    /\ log' = IF appends THEN log ELSE <<>>
    /\ appended' = (appends /\ (appended \/ log # <<>>))
    /\ before' = {u \in Updaters : at[u] # "start"}
    /\ UNCHANGED <<kv, at, url, reads, published, writer>>

----------------------------------------------------------------------------
UpdaterStep(u) ==
    \/ \E found \in 0..Foreign : ReadMetrics(u, found)
    \/ \E readable \in BOOLEAN : ReadLog(u, readable)
    \/ \E outcome \in {"200", "2xx", "error"}, applied \in BOOLEAN :
          UpdateKV(u, outcome, applied)
    \/ GiveUpLog(u)

TunnelNext == \/ \E u \in Updaters : UpdaterStep(u)
              \/ Announce
              \/ \E appends \in BOOLEAN : Relaunch(appends)

TunnelSpec == TunnelInit /\ [][TunnelNext]_tunnelVars

----------------------------------------------------------------------------
(* After a run that was begun once the tunnel was up again has ended well, *)
(* the proxy reads the URL of the running tunnel.  It does not if the run  *)
(* met an older URL in a log that was kept, if the metrics were those of a *)
(* foreign tunnel, or if a run from before the restart wrote last.         *)
ProxyFindsTunnel ==
    \A u \in published \ before :
        appended \/ kv \in {live, Foreign} \/ writer \in before
=============================================================================
