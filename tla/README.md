# TLA+ development of the motto fleet control plane

This directory specifies `motto-mcp-server`: the process that keeps the state of
a fleet of agents in Postgres and serves it to agents (MCP tools), to runners and
to a human's cockpit (HTTP). Every module is translated from the code under
`src/`; `PROJECT.json` names, for each definition, the lines it stands for.

Run a model with `tlc -config <name>.cfg <module>.tla`, check the proofs with
`tlapm <module>_proofs.tla`.

## The system

| component | state it keeps | operations | hard behaviour | what makes it correct |
|---|---|---|---|---|
| Local-task queue (`db.py` 675-888, `routes` 220-434, migration 0004) | table `fleet.local_tasks`; handlers in flight | queue with dedup key, claim (one shot, long poll, tool), expire, complete, wait | claims race and overlap with the sweep; replies are lost; the server restarts; reports repeat | a task goes to one runner; acknowledged results stay; keys deduplicate; every task settles |
| Approval queue (`db.py` 933-1115, 1291; `routes` 466-552; migration 0006) | `public.pending_moves`, shared with motto-director | propose, approve, bulk approve, reject, claim, release | several cockpits, several droids, lost answers, repeated releases | no move without a human's yes; one verdict; one droid per move; best move first |
| Move verification (`server.py` 442-515, `verifiers/`, `db.py` 1368-1457) | `fleet.move_verifications` | fetch, run a verifier, record, nudge scores | a sequence of transactions that interleaves with others and may be cut off | every definitive record moves the scores once |
| Trust scores (`db.py` 1579-1658) | `fleet.trust_scores` | read, compute in Python, write | lost update | a score absorbs the samples it counts |
| Capability requests (`db.py` 1461-1575) | `fleet.capability_requests` | file, grant, deny | look-up and insert are two statements; verifiers, chats and buttons use it | one pending request per capability; decisions stay |
| Boot and migrations (`server.py` 49-57, `db.py` 119-156) | `fleet.schema_migrations`, the schema | apply the files of the image | instances of a rolling deploy boot together and are killed; another service owns one of the tables | a file is applied once, with its record, before serving |
| Agents, runs, events (`db.py` 158-434) | `fleet.agents`, `fleet.runs`, `fleet.events` | register, start, end, replay | late and repeated reports; a bundle is read by six statements | the bundle of an ended run is complete |
| Intents (`db.py` 436-493) | `fleet.intents` | signal, consume | several processes of one agent; a poll locks the agent's row as well; consumption precedes delivery | an intent is consumed once, for good, and accounted for |
| Artifacts, decisions, locks (`db.py` 272-395, 495-671) | tables of migration 0002 | create, review, acquire, release | lease expiry, forced release | a lock has one holder |
| Director epics (`db.py` 1122-1253) | `public.director_epics` | list, set status | transitions are documented, not enforced; nothing in the repository calls them | a decision is not undone |
| Cockpit chat (`routes` 51-214, `chat_tools.py`, `handlers/deepseek.py`, `fleet_context.py`) | one conversation per request | model call, tool calls | tool errors, model errors, hop limit, other chats | every tool call is answered; the reply tells what was done; the loop ends |
| Doppler server (`servers/doppler`) | none; secrets live in Doppler | set, delete, rename, audit; listings | a rename is three requests, an audit many; refusals without a body, lost answers | ok means done; a rename loses no value; the report is true of what it scanned |
| Cloudflare, Northflank servers (`servers/cloudflare`, `servers/northflank`) | none | gated actions of one request each; listings | partial failures answered with status 200 | ok means done; nothing is done without `confirm` |
| Grabber server (`servers/grabber`, migration 0003) | `fleet.grabber_jobs`, `fleet.grabber_playbooks`, the pool | enqueue, cancel, health; listings | an external worker writes the same rows; the playbook changes between two statements; the pool is opened in an await | a cancelled job is never run; no disabled service; no job uncounted |
| Tunnel updater (`update_tunnel_url.py`, `start_tunnel.cmd`) | none; a key of Cloudflare's KV | find the URL, put it | retries, overlapping runs, restarts of cloudflared | the proxy finds the running tunnel |
| Sentry script (`scripts/configure_sentry_alerts.py`) | none; rules live in Sentry | list, create what is missing | retries after lost answers, failed listings, two operators | exit 0 means configured; nothing twice |
| Fleet proxy tools (`tools_fleet_proxy.py`) | none | one HTTP request per tool | | |
| Authentication, cockpit HTML | none | | | |

Interaction: clients and the chat tools insert rows into the two queues; runners and
droids pull from them; humans decide in between; motto-director, another service,
shares `public.pending_moves` and marks moves as applied; `verify_move` looks at
moves, files capability requests and nudges the scores. Inside the server there is one
asyncio process: a handler runs until it awaits, and every SQL statement outside
`conn.transaction()` is a transaction of its own, so handlers of different requests
interleave between statements. The database is the only shared state.

## Modules

| module | what it is |
|---|---|
| `WorkQueue` | abstract specification of a queue: rows are absent, waiting, leased to one worker, or done with a final outcome |
| `LocalTasks` | the local-task queue; implements `WorkQueue` without release |
| `PendingMoves` | the approval queue; implements `WorkQueue` with release |
| `Capabilities` | capability requests; state and operations used by `VerifyMove` and `ChatLoop`; implements `WorkQueue` without leases |
| `VerifyMove` | `verify_move`, the verifiers' outcomes, records, trust scores; composes `Capabilities` |
| `ChatLoop` | the cockpit's tool loop and the effects of its tools; composes `Capabilities` |
| `Intents` | registered agents and intents; used by `FleetLog`; the intents implement `WorkQueue` without leases |
| `FleetLog` | runs, what is recorded about them, and replay bundles; composes `Intents` |
| `Migrations` | booting instances, `apply_migrations`, the file 0006 |
| `ProviderAnswers` | how the three provider clients read an HTTP answer; operators only |
| `RemoteTools` | the tools of the Doppler, Cloudflare and Northflank servers that change something, and Doppler's audit; uses `ProviderAnswers` |
| `Grabber` | the rotation queue of the grabber server; implements `WorkQueue` with the worker as its one lessee |
| `SentryAlerts`, `TunnelUpdater` | the two programs of operators |
| `LocalTasks_proofs`, `PendingMoves_proofs`, `Migrations_proofs`, `VerifyMove_proofs`, `FleetLog_proofs`, `ChatLoop_proofs` | theorems about the module of that name |
| `Servers_proofs` | theorems about `RemoteTools` and `Grabber` |
| `Scripts_proofs` | theorems about `SentryAlerts` and `TunnelUpdater` |
| `MC...` | small instances for TLC |

Definitions named `Mutant...` are deliberately wrong variants of the definition that
follows them. They are used by no specification; substituting one shows that a property
notices that error (`PROJECT.json`, "mutants").

### LocalTasks

`status`, `kind`, `key`, `owner` are the columns of `fleet.local_tasks`; rows are numbered
in insertion order, which stands for `created_at`; `overdue` is the set of rows whose
`created_at + ttl_seconds` has passed (one bit instead of a clock). A claim handler `p` is at
`pc[p]`: `top` of the long-poll loop, before the `sweep`, before the claim statement's
sub-`select`, before its `update` commits, `reply`, or `empty` (long poll that got nothing).
`batch[p]` are the rows it has locked or is about to return. The claim statement is two
steps, because its `FOR UPDATE SKIP LOCKED` is visible to other statements: other claims
skip the rows, and the sweep waits for them. `want[c]` is the insert a queueing handler does
after its dedup look-up missed; `watch` and `told` belong to `/local/task/{id}/wait`.
A dedup hit and a refused completion change nothing and are stuttering steps.
`deliveries` and `acked` are history: how often a row reached a runner that still listened,
and the result that a caller was told was recorded.

The environment may disconnect a runner and restart the server at any point (bounded by
`MaxFaults`), and lets any row's time to live run out. A restart rolls back uncommitted
statements and forgets the handlers. The sweep is one step that waits for locked rows.

### PendingMoves

As above, for `public.pending_moves`. `holds[d]` are the moves a droid was given and works on.
A release is a message in `calls`; the droid stops working when it sends it, it arrives at any
later time, and it may be repeated once. `Apply` is motto-director's update and external.
`LoseClaim` cuts off a claim before its commit (rolled back) or after it (the moves are in
`lost`: claimed, and nobody works on them). The order of the rows within one answer is left out. Which rows a claim takes follows the priorities
(`Before`, `First`); no property is about that order.

### Capabilities and VerifyMove

A `verify_move` call `v` runs through `verify`, `record`, `read global`, `write global`,
`read repo`, `write repo`, one step per statement. `Verdicts` says what each verifier may
answer. A score is an exponential average; it is represented by the sequence of samples it has
absorbed, which determines it and which shows a lost update. `sampleSize` is incremented in
SQL and does not lose any. `WriteScore` has the update branch, the insert branch, and the
insert that the primary key refuses, which ends the call with an exception. `hasToken` is
the environment of the server process and may change with a restart. Two history variables
mark the overlaps behind which the code's guarantees end: `overlapped` scopes were written
between another call's read and write, `contended` names were inserted between another
handler's look-up and insert. Filing may raise before or after its insert; the verifier then answers `error`
(`FileFails`, `RequestCapability`).

### ChatLoop

A request `c` is at `phase[c]`: `ask` (the model has the conversation), `dispatch` (the tool
calls of `round[c]` run one after the other), `summarize` (the last round, without tools),
`replied`, `raised` (status 500) or `cut` (server restart). `messages[c]` is what the request
appended to the conversation, `toolLog[c]` is `tool_log`, `reported[c]` the `tool_calls` of the
reply. The model of `c` is free to call the tools of `Menu[c]` in every answer, up to
`MaxCalls[c]` in one, to stop, or to fail at any time; only the code's limit ends it. `done` in an entry is
what the tool achieved, `ok` what the log says: `dispatch` turns every exception into an error, one raised
after the tool's insert or update was committed included (`LogWritten`), so an effect may stand in the log as an error.

### Intents and FleetLog

Consuming intents is two steps, as claiming tasks is. `taken[c]` are the rows of a call in
flight; a call cut off before its commit changes nothing, one cut off after it puts its rows in
`forgotten`. A call that finds nothing is a stuttering step. The select is `FOR UPDATE SKIP LOCKED`
over a join and names no table, so it locks the row of `fleet.agents` too (`AgentLocked`): while one poll has it,
other polls of the agent find nothing, and inserts whose foreign key needs the row wait. Heartbeats, registrations and those
inserts lock it in their turn for the time of a statement, and the select skips intents one by one as it meets them,
so the rows a poll passes over are any (`skipped`). That an intent is consumed in the end, or
that intents are consumed in order, follows from nothing in the code and is not claimed. In `FleetLog` a reader of
`replay_run` is at the next of its six statements, `step[v]`, with what it has read in `bundle[v]`;
`atEnd[r]` remembers what belonged to a run when it was first reported as ended.

### Migrations

Each instance reads the applied list once, then runs each missing file in a transaction with
the insert that records it. `Record` waits for another open transaction with the same
name and fails if that one commits; `Collide` is a file whose text fails because another
instance runs it. That the two statements which create `fleet.schema_migrations` may collide in the same way
when the very first instances boot is left out: the loser goes down before it has read anything, as in `Crash`. 0006 adds columns only if `public.pending_moves` exists.

### ProviderAnswers and RemoteTools

An answer is a status code and a kind of body. `DopplerReads`, `CloudflareReads` and
`NorthflankReads` are the tests of the three clients in their order; `Exchanges(p)` pairs what the
provider did with what the caller makes of it, an answer that is lost included. In `RemoteTools`
a call `c` is at its next request, `call[c].at`; `applied[c]` (history) are the requests its provider
carried out, `misled` the calls that took a refusal for success, `overlapped` the renames whose
names were written meanwhile. `audit` is one run of `doppler_audit_consolidation`, with `index` as
in the code (the last config of a project overwrites the others). Secrets in `Restricted` are listed without
their raw value: a rename does not find them, and the audit hashes the empty string for each
(`RawOrEmpty`). Provider and server share
nothing but the requests, so every request is one step with any of the exchanges.

### Grabber

A tool call `h` finds or opens the pool (`published` is the entry of `_pool_holder`), then runs
its statements one by one: `insert` after the playbook was read, `count` after the pending
jobs were counted, `reply`. `told[h]` is its last answer. The worker and the administrator of the
playbooks are other programs; from the status values and columns of migration 0003 they take
pending jobs, end running ones, and change playbooks. `stale`, `steady`, `racers` and `lostPools` are history.

### SentryAlerts and TunnelUpdater

`SentryAlerts` has the script of each operator at a request (`pc`, `attempt`, `rule`), every
outcome of a request with its effect at Sentry (`remote` counts the rules of each name), and the
script's end. `blind`, `resent`, `since` and `gone` are history: why a rule may be created
twice or be missing. `TunnelUpdater` has cloudflared (`live`, `announced`, its `log`), the key `kv`
and runs of the program; a URL is the number of its tunnel, `Foreign` that of another tunnel of the machine.

## Runs

| run | instance | shows |
|---|---|---|
| `local_claim` | 2 tasks of 2 kinds, 2 handlers, 2 runners, 2 faults, 2 outcomes | safety of claims; `LocalTasks` implements `WorkQueue` |
| `local_client` | 2 tasks, 1 key, 1 client, 1 runner, 1 waiter, 1 fault | dedup for one client at a time; answers of `wait` stay true |
| `local_live` | 2 tasks, 2 handlers, 1 fault | every task settles; claims return |
| `moves` | 2 moves, 2 priorities, 2 droids, 1 release (repeatable), 1 cut | the human gate, exclusive claims, refinement, progress |
| `verify` | 2 calls, 2 moves, 1 repo, 3 records, 2 requests, with and without token, 1 restart | nudges are accounted for; only overlaps lose samples or duplicate requests |
| `chat` | 2 chats (one of 1 call per answer of any kind but denials, one of up to 2 denials), 2 rounds, 1 request, 1 restart | well-formed conversations, honest replies, every request ends within its rounds |
| `fleet` | 1 agent of 2 processes, 3 intents, 2 runs, 2 entries, 3 rows in all, 1 reader, 2 end reports, 1 cut | intents consumed once and for good, and accounted for; complete bundles |
| `boot` | 3 instances (one older image), 3 files, 2 kills | migrations are applied once, in order, before serving; all instances serve |
| `servers` | tools: 2 calls, 2 projects of 2 configs, 2 names (one restricted), 2 values, one gated tool of each provider, 1 audit; grabber: 2 calls at a time, 2 jobs, 1 service, 2 changes of its playbook | ok means done, but for the misreading of Doppler's client; a rename loses no value; the audit agrees with what it scanned; cancelled jobs are never run; health misses no job; disabled services and lost pools only by overlap |
| `audit_restricted` | as the tools of `servers`, the audit alone | violation: two different secrets are reported to match |
| `scripts` | Sentry: 2 operators, 2 rules, 3 attempts, 2 runs, 1 deletion; tunnel: 2 runs, 3 tunnels, 2 log reads | exit 0 means configured, duplicates have one of three causes; the proxy finds the tunnel |
| `boot_columns` | as `boot` | violation: the claim columns are never added |

Two rows and two handlers are enough for the queues: every property relates at most two rows
and two handlers, a claim of two rows next to a claim of one exercises limits and skipped locks,
and one row more changes nothing that a row can do. Two faults let a lost reply be followed by a
restart. Three records let a score be nudged between another call's read and write and afterwards
once more. `MAX_TOOL_HOPS` is 6 in the code and 2 here: a first round, a last one, and the round after
it are what the loop distinguishes; two calls in an answer let one fail before another, and both models may
call tools in every answer, so that only the limit ends them. Three rows let a run
end between an entry, or a child, and the reader's statement for it. Three instances let two race for one file while a third one, older, is behind.

Two calls are what an overlap of a rename with another write takes, and what the race for the
pool takes; two configs per project let one overwrite the other in the audit's index. In `scripts` and in `servers` the
two parts share no state, so each behaviour is of one of them, chosen at the start. `MAX_RETRIES`
of the tunnel updater is 30 in the code and 2 here: a round that fails, and a last one.

Deadlock is checked in the queues. It is not in `VerifyMove` (nobody is obliged to call again
once the bound on records is reached), in `ChatLoop` and `FleetLog` (requests end, rows run out), in `Migrations` (all instances serve), and in `MCServers`, `SentryAlerts` and `TunnelUpdater` (calls and programs end).

## Fairness

* `LocalTasks!FairSpec`: weak fairness of each claim handler's next step (the event loop and
  Postgres run what can run, and a runner polls again: it is a loop with a sleep of a second),
  strong fairness of `GiveUp` (the deadline of a long poll is a fixed instant, compared with the
  clock on every pass, so a poll that keeps finding nothing cannot go on for ever), weak
  fairness of `Age` (time passes). Clients, completions and faults have none.
* `PendingMoves!FairSpec`: droids poll, and calls that were sent arrive. Humans, releases and
  faults have none; `EventuallyClaimed` starts at an approved move.
* `ChatLoop!FairSpec`: a request in flight goes on: the call of the model has a timeout, tools are
  SQL statements.
* `FleetLog` has none: a poll may find the agent's row locked every time.
* `Migrations!FairSpec`: the platform starts an instance that is down, and a boot goes on.

## Theorems

Each `*_proofs` module proves its theorems for every value of the constants that the `ASSUME` of
its component allows, and assumes nothing else. `TypeCorrect` is `Spec => []TypeOK`.

### LocalTasks_proofs

For every number of tasks, handlers, runners, kinds and faults:

* `TypeCorrect`: `Spec => []TypeOK`.
* `ClaimInvariant`: `Spec => []ClaimInv`, and from it `AtMostOnce`, `Disjoint`, `Accounted`.
* `ClaimKept`, `ResultKept`: the two action properties.
* `AnswersStayTrue`: `Spec => []WaitAnswerStaysTrue`.
* `OneLivePerKey`: `Spec => [](OneClient => OneLiveTaskPerKey)`, where `OneClient` says that there is
  one queueing client at a time. Without it the property is false (see the disagreements below).
* `Implementation`: `Spec => WQ!Spec`, the local-task queue implements `WorkQueue`.

`AtMostOnceDelivery` is not inductive: from a state in which two handlers hold one row, or a
handler holds a row that was delivered before, the next reply breaks it. `ClaimInv` adds what
rules these states out: handlers' batches are disjoint (`ClaimsDisjoint`), only handlers between
sub-select and reply hold rows (`BatchHeld`), rows locked by an uncommitted statement are still
queued (`LockedRowsQueued`, which needs that the sweep waits for locks and that completion
requires a claimed row), rows about to be answered are claimed by that runner and were never
delivered (`RepliedRowsFresh`), unclaimed rows have no history (`UnclaimedRowsFresh`), and
owned rows have left the queue for good (`ResultsRecorded`). `RowStep` says how one row may
change in one step; the action properties, the refinement and `AnswersStayTrue` follow from it.
`OneLivePerKey` needs `KeyInv`: the key that a client is about to insert is still unused (`Unused`).

### PendingMoves_proofs

For every number of moves, droids, releases and cut-off claims: `TypeCorrect`, `GateHolds`
(`HumanGate`), `VerdictStands` (`VerdictOnce`), `HoldersOwn` (`HolderIsOwner`), `ClaimsAccounted`
(`ClaimAccounted`) and `Implementation` (`Spec => WQ!Spec`). The argument has three layers. `GateInv` adds
that a row which waits for the human has no verdict yet (`Undecided`): otherwise a second approval
could change one. `LockInv` adds that rows under an uncommitted claim are still approved, and locked by one
droid (`RowsLocked`): without it the claim's commit could take a rejected row, or two droids one row.
`OwnInv` adds who is responsible for a claimed row while it is in no droid's hands: the answer on its
way (`AnswerOwned`) and the release on its way (`CallsOwned`). `HolderIsOwner` alone is not inductive,
because a release that arrives late clears a claim, and only `CallsOwned` says whose. Exempt is, per droid and
move, the droid that has itself repeated its release; another droid's claim is never taken away by it.

### Migrations_proofs

For every number of instances, files, images and kills: `TypeCorrect`, `RecordsAreTrue`
(`RecordedMeansApplied`), `MigrationsRunOnce` (`RunOnce`), `ServersAreMigrated` (`ServesMigrated`), all from
`BootInvariant`. An instance works from a list it read once, so `BootInv` says that the list stays true
(`BeliefTrue`); that an open transaction stages the file it is about (`StagedIsNext`); and that of the
transactions past their insert one holds a name, which is not recorded yet (`NameHeldOnce`, the primary key).
`RunOnce` counts commits only up to 1 and needs the exact count, `RunsRecorded`.

### Servers_proofs

`RemoteTools`, for every number of calls, projects, configs, names and values, and whatever Doppler
holds at first: `ToolsTypeCorrect`, `AnswersAreTrue` (`ToldTruth`), `RenamesKeepValues` (`RenameKeepsValue`)
and `AuditsAreTrue` (`AuditTrue`), all from `ToolsInvariant`. None of the three is inductive. An answer is
given at the last request, so `DoneSoFar` says what a call has had carried out at each request: nothing
before its first write, and before the deletion of a rename the set, or it was misled. A rename deletes on
the strength of what it read two requests ago, so `RenameSound` follows that value: while nobody
else writes the two names, what was read is still under the old name, and after the set under the new one too. The
report is made from the index, so `IndexTrue` says, while nothing was written or misread, that the index has for
each project and name what is hashed of a scanned place, and misses none. That the clients of Cloudflare and Northflank are
never misled is the lemma `HonestClients` about `Reads`; that the audit's order visits places only needs
the arithmetic of its flattened loops (`Quotients`, `OrderType`); that values match when each
project has one copy, none of them restricted, is a pigeonhole argument over finitely many places (`ValuesTrue`).

`Grabber`, for every number of jobs, services, calls and edits of playbooks: `TypeCorrect`, `CancelAnswersAreTrue`,
`DisabledJobsOverlap`, `PoolsAreLostByRace`, `HealthMissesNothing`, each from an invariant of its own. `JobInv`
ties `started` to the status. `EnqueueInv` says that a call about to insert has seen a usable playbook, or that the
playbook was edited since. `PoolInv` counts: calls that are opening a pool were there before one was
published, and each of them but the first replaces one. `HealthInv` says that between the two counts the
steady jobs not counted yet are running, so that the second count meets them. Counting needs finitely
many jobs and calls, which `GrabberAssumption` states. `Implementation` (`Spec => WQ!Spec`) says that the worker
and the cancellations together treat a job as an item of `WorkQueue`. It rests on the conditional
update of `cancel_rotation` and on the one assumption made of the worker, which is another program: that it
takes a job by one statement, and pending ones only.

### Scripts_proofs

For every number of operators, rules, attempts and runs: `ZeroIsTrue` (`ExitZeroMeansConfigured`) and
`DuplicatesAreKnown` (`OnlyKnownDuplicates`). The script compares two numbers at its end, so `ExitInv` (`Counted`)
relates them to the rules: no more are counted than were tried, and when none failed, all
of those tried exist or were deleted since. `DupInv` (`Excused`) says of every rule still to be created
that, if it exists, one of the three causes has already come about.

For every number of runs, starts of cloudflared and reads: `TunnelIsFound` (`ProxyFindsTunnel`). `TunnelInv`
follows the URL from the log (`LogFresh`) through a run (`FoundFresh`) to the key (`WriterFresh`).

### VerifyMove_proofs

For every number of moves, calls, records, requests and restarts: `TypeCorrect`, `SamplesAreAccounted`
(`SamplesAccounted`), `SamplesAreKept` (`OnlyOverlapLosesSamples`), `OneRequestPends`
(`OnePendingPerCapability`). `CapStep` and `CallStep` are what a step looks like to the requests and to the calls, so
that the two are proved about separately. `FilersLooked` says of a handler about to insert that
nothing is pending under its name, or the name is contended. `DecisionsAreFinal`
(`Spec => RequestQueue!Spec`) is the refinement of `WorkQueue`. `CallsInv` has what the calls rely
on: past the record a result is definitive, a repo is nudged only if there is one, and the row of
'global' always exists, so that its nudge is never refused and the repo's is never skipped with it.
`ScoreInv` adds that a call about to write has read the score as it is, unless the scope is overlapped. The
accounts are a sum that each step keeps: a record raises the nudges due (`RecordCount`,
`DueCount`), a write or a refusal lowers them by one scope. `VerifyMoveAssumption` states that the calls
are finitely many, because the nudges due are counted.

### FleetLog_proofs

For every number of agents, processes, intents, runs, entries and readers: `TypeCorrect`, `IntentsGoOnce`
(`ConsumedOnce`), `IntentsAreAccounted` (`IntentsAccounted`), `BundlesAreComplete`
(`FinishedBundleComplete`), `ConsumptionIsFinal` (`Spec => IntentQueue!Spec`, the refinement of
`WorkQueue`, which needs `TakenHeld` for the commit). In `IntentsInv` a row that a statement holds is still open (`TakenHeld`), and an
intent that is not consumed has no history (`Fate`); without the first a commit could consume an
intent again, without the second it would be accounted for twice. In `LogInv` what was remembered at the end
of a run is still recorded under it (`AtEndStands`), and a reader that has seen the run as ended has found
everything remembered that its statements so far are about (`ReaderKnows`): the run is read
first, so its end was remembered before any of them.

### ChatLoop_proofs

For every number of chats, rounds, calls per round, requests and restarts: `TypeCorrect`, `PromptsAreWellFormed`
(`PromptWellFormed`), `EffectsAreReported` (`EffectsReported`), `ToldDecisionsStand` (`ToldDecisionStands`),
all from `ChatInvariant`. `PromptWellFormed` is about the moments at which the model is asked, and says nothing of a round
that is being run, so `PromptInv` adds that the round's message is then open (`RoundOpen`): the calls before the
current one have their results, in order, and these end the conversation. The current call is counted from the
log, so `LogInOrder` says that the log has no entry of a later round. `EffectsLogged` is `EffectsReported` at every
moment of the request, not only at its reply; it bounds the moves from both sides, by the entries that report one as filed and by
all entries of proposals. How one more entry changes the count of a round is
`RanInAppend`, which needs that the entries are finitely many (`RanInCount`).

The requests are filed and decided by the chats' tools here, so their theorems are proved again for these
steps: `OneRequestPends` (`OnePendingPerCapability`, with `FilersLooked` as in `VerifyMove_proofs`) and
`DecisionsAreFinal`. `RequestMoves` says that every step of the chat is, to the requests, one of the operations of
`Capabilities`, or a handler that gives up a look-up.

### Refinements of WorkQueue

`Implementation` in `LocalTasks_proofs` and `PendingMoves_proofs` is also checked by runs (`local_claim`,
`moves`). That of the intents (`ConsumedForGood`) is checked by `fleet`. Those of the rotation queue and the requests are theorems
only: no run lists them, and the runs of these modules explore the same steps for the other properties.

### Only model-checked

Liveness everywhere (TLAPS does not reason about fairness and ENABLED), and `NextBootAddsColumns` in
`Migrations` and `MatchMeansEqual` in `RemoteTools` (runs that find them violated). Every invariant and every action property of the other runs
is a theorem.

## Disagreements between the code and its documentation

* `queue_local_task` deduplicates only requests that do not overlap, whatever the comments at
  `db.py` 687 and `0004_local_tasks.sql` 24 say: look-up and insert are two statements and the index on
  `dedup_key` is not unique. `local_client` checks the rule for one queueing client at a time; with two,
  both miss and both insert. The same pattern in `file_capability_request` is why
  `OnePendingPerCapability` excepts contended names.
* The docstring at `db.py` 966 promises the claimed rows in priority order; they come from
  `UPDATE ... RETURNING` and are not sorted afterwards.
* `update_trust_score` loses a sample when two calls nudge one score at once, and counts both;
  `OnlyOverlapLosesSamples` says that nothing else loses any.
* `verify_move` does not look at the status of the move, though its docstring speaks of an applied
  row, and verifying a
  move twice nudges the scores twice although its docstring asks for the most recent row.
* 0006 is recorded as applied although it did nothing (`boot_columns`).
* `release_claimed_step` identifies a claim by move and runner: a repeated call can take away
  a later claim of the same droid. `HolderIsOwner` names that exception.
* A capability decision that comes too late is logged by the chat with `ok` true, because its result
  `{"ok": false}` has no `error` key; `hops` in the reply, documented as the number of model rounds,
  counts the rounds that called tools.
* `consume_open_intents` promises every open intent (`server.py` 267) and takes at most `limit`, and fewer, or none, while
  another statement has locked them or the row of the agent.
* `chat_tools.dispatch` says that errors are returned so that the model can "see the failure and recover" (287-288); the error may
  come after the move was filed, and a model that tries again files it twice.
* `doppler_secret_rename` with equal names deletes the secret; a failure between its requests leaves
  both names, and the caller is told of an error. `DopplerClient._request` takes a refusal without a body
  for success (`misled`), so "ok" may then be untrue, and an audit may call a place scanned.
* `doppler_audit_consolidation` over several configs keeps the last value of a project only;
  `AuditTrue` speaks of values for names that no project has twice. A secret without a raw value is hashed as the
  empty string, so that different ones match, although `SKILL.md` 66-69 has matching ones deleted (`audit_restricted`);
  `AuditTrue` speaks of values that were shown.
* `configure_sentry_alerts.py` calls itself idempotent (line 4); a rule is created twice when its answer
  was lost and the request repeated, or when the rules could not be listed. `OnlyKnownDuplicates`
  says that, besides a second operator, there is no other cause.
* `cancel_rotation` answers any error, a lost connection included, with "Invalid job_id", though the job
  may have been cancelled; a job that is cancelled gets no `ended_at`, so `grabber_health` never reports
  it as the last run. The listing of services in the message of `enqueue_rotation` opens a cursor outside a
  transaction, which asyncpg refuses; an unknown service is an error either way.
* `update_tunnel_url.py` says it takes the latest URL of the log and takes the first;
  `ProxyFindsTunnel` excepts a log that was kept over a restart (`start_tunnel.cmd` empties it). An error of
  the request with the URL from the metrics ends the program, although its message announces the log as the fallback.
* The sweep also expires claimed tasks, though the comment on `ttl_seconds` speaks of
  un-claimed work; the runner's late result is then refused.

## Not modelled, and what is left

* Read-only listings, dashboards and page text; authentication (a comparison of tokens); the fleet
  proxy tools (one HTTP request per tool, no state, no reading of the answer of their own).
* `director_set_epic_status` and the other functions over epics: nothing in the repository calls them,
  so there are no sequences of calls to check.
* Heartbeats, the review marks of artifacts, and the forced release of locks: each is one unconditional
  statement (the last writer wins, and `force_release_lock` documents that it does not look at the holder).
  The programs that acquire locks and decide on reviews are not in the repository.
* Left for later: `PendingMoves` behind the proposals of the chat in one run.
