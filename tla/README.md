# Operium in TLA+

A verification development for the Operium repository: models of the parts of the
program that carry its own state and concurrency, TLC instances of them, and proofs
checked by TLAPS. Paths below are relative to `src/`.

Operium keeps a small fleet of machines in order. On each machine a *node agent*
(ONA, one Node.js process over one SQLite file) probes the machine, runs scheduled
jobs, exchanges COP packets with its peers and keeps a calendar of obligations; a
command line and operator scripts work beside it on the same files. Two scheduled jobs,
the *packet consumer* and the *mobile diagnostic*, execute requests found in GitHub
issues and post the receipts back. Around the agent are the tools people and coding
agents use by hand: sessions and Git handoffs, the rollout of keys, deployments on the
hosts, and the observation of the fleet.

## Inventory

| component | state it keeps | operations | what is hard | what makes it correct |
|---|---|---|---|---|
| **Authorized packet consumer** `lib/node-agent/packet-consumer.js` | append-only events of its own SQLite store: queued, claim, grant-spent, grant-authority, grant-revoked, result, delivery | `authorize`, `consumePacket`, `publishPacketReceipt` | several processes on one store; a crash or SQLITE_BUSY between any two writes; authority that expires, is revoked or re-signed while a call runs; a POST whose answer is lost | executed at most once and paid for, within the budget; revocations bite; the receipt is honest, returned, and returned once |
| **Packet consumer tick** `scripts/ona-packet-consumer.js` | repair events (backoff per request) | `runConsumerTick`, `runScheduledHeartbeat` | ticks that overlap or die, an issue edited between request and receipt | waits grow; a pending receipt is not abandoned for the next request |
| **FractaCalendar** `lib/node-agent/calendar-*.js`, `lib/calendar*.js`, `lib/cop-wake.js` | `calendar_obligations` and the log `cop_events` | schedule, wake, tick, resolve, replay, backfill | a tick awaits network handlers in the middle of a list it read once; table and log are separate statements; `--local` writes them from a second process | the table is the projection of the log; a human judgment stands |
| **COP messaging** `lib/node-agent/cop-*.js`, `ttl-sweeper.js` | `cop_outbox` on the sender, `cop_inbox` on the peer | enqueue, deliver, handle, mark, sweep | two drainers of one outbox; lost, late and duplicated requests; crashes on either side; records that expire | handled once while remembered; every row settles |
| **Job scheduler and runner** `lib/node-agent/job-*.js` | `scheduled_jobs`; the flags `syncing`, `runningJob` | refresh from the registry, run due jobs, time out | rows pruned by an unreadable catalogue; children that outlive their timeout; in-process jobs that hang | intervals are kept; every due job is run |
| **Management actions, probe worker, supervisor** `soma-actions.js`, `management-actions.js`, `probe-worker.js`, `bin/operium-node-agent.js`, `scripts/ops/run-ona-supervised.js` | `management_actions`; the process and its exit code | refresh, accept restart, boot, complete pending restarts | the action outlives the process that accepted it | an accepted restart is completed by a restart; no action is silently lost |
| **Peer synchronisation and attractors** `peer-sync.js`, `attractor.js`, `heartbeat.js` | `peer_nodes`; the blackboard outside | advertise, withdraw, mirror | overlapping heartbeats and cycles, skewed clocks | the table is as recent as its date says |
| **ONA recovery observer** `lib/ona-recovery.js` | `ona_recovery_state` with its cooldown | probe, ssh restart, verify, persist | the cooldown is read before and written after the attempt | one restart per cooldown; a stopped agent returns |
| **Mobile diagnostic** `mobile-diagnostic.js`, `scripts/ona-mobile-diagnostic.js` | claim, result and delivery events | admit, claim, run over ssh, return | a second process on one store, an edited issue, a cut POST | the same promise as the packet consumer's |
| **Git work in progress** `lib/git-wip.js` | clones and a branch `wip/<topic>` of the remote | handoff, resume | another machine pushes, and the user edits, in between | no secret committed, nothing published lost |
| **Sessions** `pause-`, `checkpoint-`, `next-`, `status-session.js`, `cogentia-bridge.js` | the anchor file, its branch, continuations | pause, checkpoint, next | commits and branch switches between scan, push and anchor; two callers | a published anchor names commits others can fetch |
| **Secrets, system bearer, environment files** `fracta-runtime-secrets.js`, `system-bearer.js`, `env-key-file.js`, `claude-mode.js` | source of truth, copies, vault, running services, `settings.json` | rollout, apply, rewrite a file others write too | restarts deferred after writes; ssh calls cut anywhere; no locks | no service left on an old key unnoticed; reports are true; entries of others survive |
| **Node memory** `db.js`, `migrate.js`, `local-state.js`, `snapshot.js` | the SQLite file | open, migrate, seed, store results and snapshots | several processes open and migrate it at once | the schema is whole before use; results are kept |
| **HTTP surface and control room** `http-server.js`, `nasa-portal.js`, `soma.js`, `status.js` | cache files | build packs, survey the fleet | requests interleave at each await | nothing shown is older than its date |
| **Private mail server** `scripts/ops/stalwart-*.sh`, `fracta-stalwart-*.sh` | the service, its env file, certificate and data; Caddy and the firewall | backup, restore, certificate sync, forwarding; three installation scripts | timer and operator stop and restart one service; scripts end at any command (`set -e`) | the server is up on its files, snapshots at rest, no open port or recovery mode left behind |
| **Host deployments** `scripts/ops/deploy-cogentia-*.sh`, `*-magistral-*.sh` | units, timers, drop-ins, the key file | install, run once, enable, roll back; give the key, promote | failure at any command, also in the rollback; two at once | all or nothing; a newer key is not undone |
| **Fleet observation and diagnosis** `fractanet-observation.js`, `node-diagnose.js`, `operium-up.js`, `drift.js`, `probes.js` | continuations shared by runs; `local_state` | `observe nodes`, `node diagnose` | concurrent workers; facts of different age in one verdict | every divergence named, none twice; an exact exit code |
| **Console and edge portal** `apps/console` | what the page shows | poll, remount, panel | polls overlap and are aborted | the page says only what it knows |
| **Catalogue, registry, audit, DNS; command line and reports** | none | pure functions, parsing, printing | — | — |

How the parts meet: the scheduler starts the packet consumer's tick, the mobile
diagnostic, the heartbeat, the recovery observer and the calendar tick; the probe worker
sweeps both COP tables, drains the outbox and mirrors the peers; the HTTP surface
receives COP packets and passes wake and resolve packets to the calendar, accepts
management actions and serves the control room. Calendar, packet consumer and mobile
diagnostic share the event store code (`appendCopEvent`, INSERT OR IGNORE by id), which
is what all three rely on to write a fact once. `node diagnose` reads what the probe
worker stored. The operator's tools meet only in the files and services they change.

`PROJECT.json` lists the hazards of this code at their lines, each with the properties
that would catch it, or with the reason why none does.

## Modules

| module | role |
|---|---|
| `PacketConsumer` | consumer processes over one store, GitHub and the operator's policy |
| `AuthorizedEffect` | what the consumer, and the mobile diagnostic, promise: no processes, locks or crashes |
| `PacketTick`, `MobileDiagnostic` | which request a tick attempts and when; the resident diagnostic |
| `Calendar`, `WakeSchedule` | ticks, wakes and resolutions of one process with replay; how wake packets of two processes become rows |
| `CopDelivery` | outbox, drainers, network, peer inbox and handler |
| `NodeAgent`, `OnaRecovery` | one agent with supervisor, actions, probes and jobs; the observer that restarts another one |
| `NodeMemory`, `PeerMesh`, `PortalCache` | the database and its openers; the table of peers; the control room's files |
| `GitWip`, `Session` | the handoff branch; pause, checkpoint and next |
| `SecretRollout`, `BearerApply`, `LocalFiles` | keys rolled out over ssh; the system bearer; files rewritten whole |
| `MailServer`, `MailInstall` | looking after the mail server; installing it |
| `CycleDeploy`, `MagistralHost` | the two periodic services; the key and the promotion of Magistral |
| `Divergence`, `Diagnose`, `Console` | `observe nodes`; `node diagnose` beside the agent; the public page |
| `MCPacketConsumer`, `MCCalendar`, `MCCopDelivery` | instances for TLC: grants, wakes, packet kinds, symmetry |
| `MCReturns`, `MCNodeAgent`, `MCMachine`, `MCHost` | instances of several parts in one specification |
| `RecursionLemmas` | induction, least and greatest elements, recursive functions over the naturals |
| `PacketConsumerProofs`, `CopDeliveryProofs`, `CalendarProofs` | proofs about the module each is named after |
| `NodeAgentProofs` | proofs about `NodeAgent`, `OnaRecovery` and the two together (`MCNodeAgent`) |
| `WorkProofs` | proofs about `GitWip`, `Session`, `SecretRollout`, `LocalFiles` |
| `MachineProofs` | proofs about `PeerMesh`, `PortalCache`, `MobileDiagnostic`, `PacketTick` and about `MCMachine` |
| `HostProofs` | proofs about the ten parts of `MCHost` and about their composition |

Definitions whose comment starts "Mutant of" are not used by any specification: each is
a plausible bug of the definition it names, kept to show that a property notices it.
The names of history variables say what they remember (`forgotten`, `crossed`, `dropped`,
`abandoned`, `contended`, …): properties use them to name the exact circumstances under
which the code gives a guarantee up.

A shell script under `set -e` is modelled as any program here: one step for what it does
between two commands that take long or that others see, and a step that ends it where it
is. A process that awaits is modelled as segments between its awaits.

### PacketConsumer

State: one variable per kind of event (`queued`, `claim`, `result`, `delivery` per
packet; `spent`, `revoked`), the process that holds the delivery transaction (`writer`),
the locals of each call, and the world: time, the policy's list of revoked ids, the
issue's comments, POSTs still on their way. `consumePacket` is synchronous, so a step
is what one database statement, transaction or `gh` call does; processes interleave
between them.

| action | code in `packet-consumer.js` |
|---|---|
| `Begin` | the observation event and the first `check(false)` |
| `Enqueue` | the queued event, `packet_identity_conflict` |
| `ReadResult`, `ReadClaim` | the reads before the claim: replay, `claimed_execution_outcome_unknown`, `provider_unavailable` |
| `Claim` | BEGIN IMMEDIATE: `check`, claim, budget, interval, pinned authority, spend |
| `Recheck`, `Run`, `RecordResult` | the check right before the effect, the provider, the result event |
| `ReadDelivery`, `BeginDelivery` | `check(true)` outside and inside the delivery transaction |
| `ListComments`, `Post`, `Confirm` | `publishPacketReceipt`: first page, POST, read back, COMMIT |
| `Busy` | SQLITE_BUSY after `busy_timeout` (1 s) behind another process's delivery transaction |
| `Crash`, `EditPolicy`, `Comment`, `LandLate`, `Tick` | the environment |

Two things a reader may not expect are in the code and so in the model. `authorize`
writes the revocation record and then throws; inside a transaction the throw rolls the
record back (`Deny` without `RevokedBy`). And the delivery transaction stays open
across network calls, so every other writer may time out behind it; a call that does so
after the effect loses its outcome (`Busy` at "record").

Abstracted: a grant is the JSON the issuer signs reduced to what admission looks at
(`scope` pairs the packet with the digest of request, source and provider; `until`
stands for every check that fails before revocation is considered); digests are model
values, so equal digests mean equal content.

### Calendar

State: `row` (`calendar_obligations`), `log` (the calendar's events), a clock, and the
locals of each call. A call runs to its next `await` without giving way (`MayStep`);
only watch handlers await. Each statement commits by itself, so a crash may fall
between an appended event and the update of its row; history variables `open` and
`lost` remember which events that happened to. Conventions: an id derived from the time
is unique (no two calls read the same millisecond); the SELECT that precedes a
statement without an await belongs to its step; a "once" cadence stores NULL, which the
due query takes as due, as in the code. Not modelled here: calls with `log: false`; the backfill of
rows older than the event log and a second process writing the tables (`--local`) are in
`WakeSchedule`. `Replay` is an operator called by properties only: in the repository only
tests call it. It is the value of a recursive function (`Replayed[n]`: the rows after n
events), so that it can be reasoned about.

### CopDelivery

State: `outbox` rows; for each drainer (the agent's probe cycle, CLI processes) the rows
it listed, the row it is sending and the answer it has; requests on the network; the
peer's `inbox`, and the request whose handler ran but is not recorded yet.

| action | code |
|---|---|
| `Enqueue` | `enqueueOutbox` |
| `StartPass` | `runTtlSweeper` (agent only), `listPendingOutbox` |
| `Send`, `Receive`, `Timeout` | one round of the loop of `deliverCopOutbox`, before and after its await; `markOutboxDelivered`, `markOutboxFailed` |
| `Take`, `Record` | `handleCopHttpRequest`: authentication, `inboxExists`, the handler, `recordCopInbox` |
| `SweepInbox` | the peer's own sweep |
| `Lose`, `CrashPeer`, `CrashDrainer`, `Tick` | the environment |

The rows a drainer marks are the ones it listed, with the attempts they had then, as
the code's UPDATE by id does; this is how overlapping passes overwrite each other. A
request whose sender stopped waiting stays on the network and may be handled later
(`by = None`); `net` is a set, so at most one abandoned copy of each packet is kept. The
doubling of the backoff is a recursive function (`Doubled`), as it is in `PacketTick`.
The handlers of the peer are synchronous, so it takes one request at a time. Not
modelled: the listing limit of 20, SQLITE_BUSY, rows with broken JSON.

### PacketTick

State: the text an issue shows now, how far each packet is (`stage`, and whether its
returned receipt says completed), the latest repair event of each policy item, and where
each tick stands.

| action | code in `scripts/ona-packet-consumer.js` |
|---|---|
| `TickBegins`, `PickItem` | the loop of `runConsumerTick` up to the await: an item in its wait is skipped, a pending receipt of a followed issue is finished first, a packet that was executed is consumed without a read |
| `FetchItem` | the issue arrives and names the packet |
| `ClaimPacket`, `RecordResult`, `Deliver` | the three records of `consumePacket` |
| `Settled` | `result.ok`: the receipt was returned and says completed |
| `ItemFails` | `defer`, from the catch or for a result that is not ok, with the doubled, capped wait |
| `RunnerDies`, `NextText`, `WaitPasses` | the environment |

A receipt that was returned may say failed or timed out: such a packet is deferred like
any failure, and every later tick finds it delivered and defers it again, up to the cap.
Another tick may come, and the process die, between any two of these steps. Ticks overlap
when an operator runs the command beside the scheduled job; `crossed` holds the ticks that
share, or shared, their item with another, until they leave it. When `ItemFails` is due is
nondeterministic, since `PacketConsumer` says what admits a packet.

### MobileDiagnostic

State: the issue's digest, the digest the policy pins, the claim, receipt and delivery
events, the comments. `ReadIssue`, `ClaimExecution`, `RunSsh`, `RecordReceipt` are
`executeMobilePacket` (a command that could not be spawned is recorded as failed without
having run); `OpenDelivery` .. `ConfirmReceipt` the delivery under the write
lock in `runResidentTick`. It differs from the consumer in what is pinned (one digest, no
grants) and in failing closed on an edited issue; it implements the same
`AuthorizedEffect`, with one packet and a budget of one.

### WakeSchedule

State: `events` (stored packets and wakes in the order of `seq`), the obligations, and
per process the wake it handles. `ScheduleCalendar` parses and resolves, `PutCopPacket`
stores a packet given by value, `AppendWake` and `UpsertObligation` are the two
statements of `upsertWakePacket`, `BackfillWake` what opening a database does for rows
older than the log. The packets enumerated are what `calendar schedule`, `calendar watch
dns` and a continuation build, by value and by reference, and files with a missing due
date, id or packet.

Two calls for one obligation may append in one order and write its row in the other, or
die between the two. The history variables are set by the statements that bring that
about, and never by looking at the row: `Dropped` when an append finds the id of its wake
on another event (`ignored`; the divergence `calendar_rewake` shows), `overtaken` when a
later wake of the obligation is logged while a call is between its two statements, or was
before the call handled its own again, and `behind` when an overtaken call writes or an
appended call dies. `RowFromLog` asks of each row, these crossings included, that the log
has its wake and its work, and only where nothing was overtaken that the wake is the last
one.

### NodeAgent

State: the supervisor's loop, the process's `phase` and incarnation, the tables
`management_actions` and `scheduled_jobs` (which survive it), the probe cycle and the
scheduler's tick.

| action | code |
|---|---|
| `Supervise`, `ChildExit`, `StopService` | loop, exit code and signal handlers of `run-ona-supervised.js` |
| `OpenMemory`, `Listen`, `BootFails`, `Signalled`, `StopAgent`, `Closed` | `main` and `shutdown` of `operium-node-agent.js`; the first probe cycle runs before the port is taken, then `CompletePending` |
| `RequestRefresh`, `RequestRestart`, `RestartExit`, `PortalAction` | the routes of `soma-actions.js` and `nasa-portal.js`; exit code 75 after the answer |
| `ProbeTimer`, `ProbeEnds`, `ProbeThrows` | `runCycle` |
| `RefreshRegistry`, `StartScheduler`, `TickStarts`, `StartJob`, `SpawnJob`, `JobEnds`, `JobTimesOut`, `CalendarStarts`, `TickEnds` | `job-scheduler.js`, `job-runner.js` |
| `Crash`, `Vanish`, `StartService`, `BreakCatalogue`, `StrayEnds` | the environment; a child whose timeout has passed is signalled, not waited for |

`StartJob` is the call of `runScheduledJob`, which awaits the import of the script;
`SpawnJob` is the spawn after it, and only then is there a timeout (`child`).

Worth knowing: any boot completes every pending restart; an action that was `running`
when its process died or its cycle threw stays so for ever; a catalogue that cannot be
read for one tick deletes the rows of all catalogue jobs, and their intervals with them;
a second agent started by hand completes pending restarts and runs a cycle before it
finds the port taken. `runNow` (forced runs) is called by nothing and left out.

### OnaRecovery

State: the watched service, one record per call, `left` (the cooldown relative to now,
per observer's database). A call is `Begin`, then the branches of `recoverOna`: healthy,
cooling, found down, ssh restart (which may fail or be cut after it worked), verify, and
`Persist` at the end. Calls of one observer overlap: its job and the command line.

### GitWip

A branch is the set of changes its commits carry; nothing is rewritten, so a
fast-forward is a superset. `HandoffFetch` .. `PushWip` and `FetchAndSwitch`,
`PullFastForward` are the git commands of `handoffWip` and `resumeWip`; `GitFails` ends a
call at any of them, `Edits` is the user. Left out: `--allow-dirty`, `--allow-empty`, and
the option not to include untracked files.

### Session

State: branch, commits and remote of each repository, the anchor and what of it is
published, continuations. `Scan`, `PushRepo`, `EmitContinuation`, `WriteAnchor`,
`StageAnchor`, `CommitAnchor`, `PublishAnchor`, `Resolve` are the steps of
`pauseSession`; `Checkpoint` and `NextStep` call it as the code does. The scan, several
git commands in the code, is one step. What the model shows of the code: a branch without
upstream is neither pushed nor reported; a missing repository counts as clean;
`statusSession` reads `repo.ahead` where `getGitRepoStatus` reports it under `sync`, so
it is always 0 and the push step of `next` is dead; the anchor's commit takes along
whatever is staged; a failed push of the anchor is silent; `checkpoint` returns
`ok: false` after it sealed when its gate was blocked; the status of a continuation is
checked when loaded, not when resolved.

### SecretRollout, BearerApply, LocalFiles

`SecretRollout` runs the catalogue: `VerifyKey` compares the copies, `WriteKey` writes
them all when one differs, `Restart` restarts after the last key what was written for.
Each ssh call may be cut before, during or after what it does. `unread` holds the
services that run on an older key than their files, `dropped` those whose restart was
given up: a later run does not make up for it, since it finds the copies aligned.

`BearerApply` is one procedure (`ReadSot`, `CompareCopy`, `WriteCopy`, `VaultSync`,
`VerifyCopy`) that restarts nothing itself; `FollowReport` is the person who does what the
report says. `SyncEnvKey` is the other tool that writes the gateway's env file,
`sync-env-key.js`: it restarts nothing and its report asks for no restart, so a later dry
run, which finds the copy aligned, asks for none either while the gateway still runs on the
old key. `author` remembers who wrote the copy since the gateway was started, and
`RestartAsked` names this case as the exception it is. `rotated` and `rewritten` remember
of a run that the bearer was rotated since it read it, and the copy written since it
verified it.

`LocalFiles` has `settings.json` and an env file with the tools that read, change and
rename over them, and the writers that truncate and write them. A tool that reads a
half-written file takes it as empty.

### NodeMemory, PeerMesh, PortalCache

`NodeMemory`: every SQL statement commits by itself, so a migration is executed statement
by statement and recorded after (`ExecMigration`, `RecordMigration`), by several openers
at once. The agent's identity is synchronised in three statements (`SyncLocalIdentity`
looks, `DeleteRetired`, `UpsertLocalIdentity`) and a probe cycle stored in two
(`ApplyProbeCycle`, `StoreProbeCycle`), so that another agent may come in between.
`SeedLocalState` is of every opener; `UpsertPeerSnapshot` and `PruneSnapshots` write the
snapshots a `node snapshot --peer` fetches or, without an answer, reads from the cache.
Tools that name no node seed a row `resource://local`; expired snapshots are served until
a sweeper removes them.

`PeerMesh`: heartbeats build an advertisement and post it later (`BuildAttractor`,
`BeatLands`), cycles fetch a snapshot and apply it later (`FetchSnapshot`, `SyncPeers`,
the upserts followed by the delete). The blackboard is external.

`PortalCache`: a pack is dated when its request begins and its views are read one by one;
the last request to end writes the file. A survey probes the fleet in order.

### MailServer, MailInstall

`MailServer`: a job is a run of one of four scripts; `daemon` is the service and what it
has loaded, `envFile` and `tls` what is in its files. `systemctl restart` is a server
that is starting and then `Started` or `StartFails`; a certificate and its key are
installed one after the other; the extraction of an archive is one step. A backup packs a
running server when it is told to (`STALWART_BACKUP_STOP_SERVICE`), a restore goes on when
the server cannot be stopped (`RestoreCannotStop`), and the server may die by itself
(`ServerDies`). `forgotten` remembers what a script that ended early left behind; `crossed`
and `running`, of a script and of the archive it made, why the data may have been in
motion: another script ran or the server was about to start, or it was left running.

`MailInstall`: the three scripts as steps that end them where they are. `finalize` runs
in recovery mode and restores the plain environment; Caddy's file is edited with backup
and restore. Its branch for a failed `apply` (lines 178-180) is dead under `set -e`, and
phase1 cannot be run again after it was interrupted.

### CycleDeploy, MagistralHost

`CycleDeploy`: preflight, release (with a mark written last), the units file by file,
daemon-reload, one run, probe drop-in removed, timer enabled, verification; on an error
the trap (`Fails`) rolls back, by a script that can fail itself. `loaded` is what the
service manager has read, which `daemon-reload` makes equal to the files.

`MagistralHost`: the map script sets the key aside in one file (`PickToken`) and appends
it to the env file later (`AppendToken`, a file two runs share); the promotion writes two
drop-ins, restarts, asks, and takes both back if the service does not answer.

### Divergence, Diagnose, Console

`Divergence`: the workers of a run share a cursor (`TakeNode` takes and advances it in one
segment); `Answers` is the ssh probe, and a node answers what it is then;
`WriteContinuation` one file written only if absent. Any revision but the expected one
diverges, a missing repository's included, and commits on a node change it (`head`). The
id of a continuation is a digest of node, invariant and evidence, so another ssh failure
leads to the old, perhaps resolved, one, while any unrelated change makes a new
continuation for the same divergence.

`Diagnose`: the agent's cycle probes one kind after the other and stores the result with
its score and drift; the observer asks the aggregator, its own services, the agent's
status and its drift, one after the other, and computes one exit code. An agent that does
not answer for its status is never given 0; one that ends between status and drift lets
0 be given without its drift. Consequences of the
code that the model contains: the first cycle of an agent always finds the agent
unreachable; a node with fewer than three applicable probes never ends with 0; an
unreadable registry is noticed by the node's drift only; the "fragile" branch of
`summarizeHealth` is never taken. Unauthorised reads and spurious probe timeouts are
left out.

`Console`: polls begun by a timer, with one AbortController per mounted effect; a version
number stands for the fleet. The blackboard's `ok` is never looked at, so a failed board
reads "No operium.node.v1 attractors": the property says so (`blind`).

## Runs

| run | what it shows | bounds |
|---|---|---|
| `packet_edited` | honest receipts, recorded revocations stop spending, and the store implements `AuthorizedEffect`: one execution, one payment per packet, orphans stay orphans | two processes (one race), one packet edited to a second content, a standing grant for what it said first and an expiring one-shot grant without publishing for the edited content, both revocable, one crash, one tick of time, one foreign comment |
| `packet_standing` | the budget of a standing grant id, signed twice with different numbers, holds over two packets and two processes | time 0..2 against an interval of 1 or 2 and budgets of 1 and 2, so that budget and interval both are what refuses in some state; late POSTs allowed |
| `packet_refusal` | *violation*: a refusal does not persist the revocation (see Findings) | as `packet_edited`, one grant revocable |
| `returns` | what must come back does, of two parts: the receipt appears once and is returned unless the reconciliation window fills up; every outbox row is settled for good | receipt: two processes, two crashes, a window of 2 comments and two foreign ones, so the window can overflow before and after the receipt; no late POSTs. Outbox: one packet of 2 attempts with doubling waits, two CLI passes; retention ordered as in the code (wait < delivered < inbox < failed) |
| `calendar_projection` | replay of the log always gives the table; only an overlapping tick undoes a judgment | two overlapping calls, a recurring watch with a deadline and a continuation, six clock readings, one crash at any statement |
| `calendar_rewake`, `calendar_resolved` | *violations* (see Findings) | as above, without crashes |
| `cop_delivery` | handled again only after a lost or forgotten record | two packets (one of a refused type), agent and a CLI pass overlapping, 2 attempts, every table swept, one crash on either side |
| `cop_refused` | *violation* (see Findings) | one packet, agent alone, no crash |
| `node_agent` | actions are accounted for, restarts complete, intervals are kept, the scheduler serves; a stopped agent is restarted, once per cooldown | agent: two boots (one restart), one action, an in-process and a spawned job, one stray child, one unreadable catalogue. Observer: two calls on one database, a cooldown of 2 |
| `machine_parts` | eight parts of a machine: ticks, mobile diagnostic, peers, control room, handoff, sessions, rollout, files | two actors in each; a followed issue with two texts beside a plain item, waits to the cap, ticks that die at any step; a peer with skew 1 and a time to live of 1 over four clock readings; a secret-like and a plain change; one repository with a branch with and one without upstream; two keys in two copies read by two services, one rotation; one foreign edit |
| `host_parts` | ten parts of the hosts: mail server, installation, deployments, Magistral, database, wakes, bearer, observation, diagnosis, console | two actors in each; three mail jobs and one renewal, four installation scripts (so a failed one is followed by others) and one typo; both services deployed; two keys issued; two migrations of two statements, two identities, an open for each; four wakes and one death; three runs of the bearer tool and two rotations; two runs that ask a server, whose repository is pinned, and a laptop both at once, one change of a node, which may be a commit; four possible faults, one of which comes or goes, one end of the agent; two polls and two mounts |

`node_agent`, `returns`, `machine_parts` and `host_parts` hold several parts that share no
state. `part` names the one that moves; it never changes, the others stand still, and so
each behaviour is one of one part and each property is about one part. In `machine_parts`
and `host_parts` the two actors of a part are alike and appear in no definition by name;
because only one part moves, exchanging all of these pairs at once is a symmetry, and the
properties of those runs are safety properties. Runs with liveness use no symmetry.

Why the bounds are enough for what they show: each race in this code is between two
actors (claimers, ticks, drainers, scripts), so two are given; each counter has a bound at
which behaviour changes (budget, interval, attempts, window, retention, cap of a wait) and
the constants cross it; crashes are possible at every step and one or two of them reach
every pair of "done but not recorded" states. What does not depend on a small scope is
what the theorems below state for any number of processes, packets, keys and crashes. The
real constants (100 comments, 10 attempts, 1 min to 1 h of backoff, 24/48 h and 7 days of
retention, 2000 replayed events, 50 snapshots, 15 min of cooldown) are scaled down keeping
their order; `cop_delivery` collapses them to 1, which only allows more interleavings.
`CHECK_DEADLOCK FALSE` is set where the bounds of the environment run out: the system
rests when there is nothing to do.

### Fairness

- `PacketConsumer` (in `MCReturns`): weak fairness of each live process's next step (a
  call is synchronous and its network calls have timeouts); strong fairness of beginning a
  call for each packet (the scheduler repeats the tick, and the lock is free again and
  again) and of each delivery step succeeding (GitHub and the lock do not fail one packet
  forever). Nothing is assumed of the operator, the clock or other commenters.
- `CopDelivery` (in `MCReturns`): weak fairness of the agent's pass and of its steps (the
  interval of the probe worker, `AbortSignal.timeout` on every POST), and of time. Nothing
  is assumed of the network, the peer or CLI processes: settling includes giving up.
- `NodeAgent` (in `MCNodeAgent`): weak fairness of the supervisor's loop, of the opening of
  the database, of the exits that were decided, and of the scheduler's own steps
  (`TickStarts`, `StartJob`, `JobTimesOut`, `CalendarStarts`): the process's own timers and
  statements, and the timeout of a child that was spawned. Nothing is assumed of what the
  code awaits without a limit: the import of a script before it is spawned (`SpawnJob`), a
  script run in process (`JobEnds`), the obligations of the calendar with the fetch of a
  DNS watch (`TickEnds`), a probe cycle. `SchedulerServes` says that one of the first three
  that never settles is what stops the scheduler, and only that.
- `OnaRecovery`: assumed inside `StoppedServiceReturns` only: the observer's timer starts
  it again and again, and ssh does not fail in every one of its attempts.

Everything else is safety, and specified without fairness.

## Proofs

TLAPS proves, for any values of the constants that satisfy the named assumptions of each
module (all of which TLC evaluates in the runs):

- `RecursionLemmas`. The library's induction theorems take an operator as a parameter,
  which no installed prover can instantiate. Here a *set* takes its place: the least
  element of a nonempty set of naturals (from the well-foundedness of <) gives
  `Induction` over a set of numbers, and that the existence of a function defined by
  recursion (`Recursion`). The induction over a log, or over the doublings of a wait, is
  then an ordinary proof; what cannot be had this way is a theorem about a RECURSIVE operator.
- `PacketConsumerProofs`. `Typing`: type correctness. `AtMostOnce` and
  `HonestReceipts`: neither property is inductive, since neither says who may execute
  next. The strengthening `OnceInv` adds that an executing packet is claimed, has no
  result and has one executing owner (`OneOwner`), and that what its owner has noted in
  `attempted` agrees with whether the provider ran (`RunsTold`). The claim transaction
  re-reads the claim, and this is the one place where the induction needs it.
  `RevokedNeverSpent`: only `Claim` spends, and it checks `revoked` in the same step.
  `OrphansAreFinal`: only an owner records, and nobody becomes the owner of a claimed
  packet. `WithinBudget` and `WithinRate` rest on `Ledger`: all spends of
  an id are spends of one grant, since a standing grant is pinned by its first spend
  and a one-shot id is spent once; without the pin two grants re-signed under one id
  would each count the other's spends against its own numbers. `PaidOnce` needs that a
  call past "enqueue" works on the content its packet is queued with (`Paired`).
  `RevokedNeverPublished` rests on the write lock: while a call delivers it is the
  writer, and a revocation cannot be recorded until it is done (`LockedOut`).
  `ReceiptsOnce` rests on `LockedOut` and `PostedOnce`: the writer that goes to POST has
  found no receipt, and nobody else can add one. Its hypothesis ~`LatePosts` excludes just
  the hazard that the code documents; nothing is assumed of the size of the window.
  `Implements`: the refinement mapping of the run
  `packet_edited`, for every value of the constants. `Claim` maps to Authorize, `Run` to
  Effect, `RecordResult` to Record, `Confirm` to Deliver, everything else to a stutter;
  `OnceInv` and `Ledger` supply the guards, and `Answered` (only a packet with a result
  is delivered) the order of the last two.
- `CopDeliveryProofs`. The inductive invariant has six parts: types; `Routing` (an
  answer finds the drainer that waits for it, and nothing is left of a request once it
  was answered or abandoned: without it an "ok" could be applied to another row);
  `Accounted` (every run of a handler is accounted for by an inbox record, by the
  request about to write it, or by a record the peer lost), which gives
  `OnceUnlessForgotten`; `Evidence` (inbox records, the request being recorded and "ok"
  answers all imply that the handler ran), which gives `DeliveredHandled`; `Attempted`
  (no copy of a row's attempts, however stale, exceeds the attempts made), which gives
  `GivenUpHonestly`; `Bounded` (no count of attempts, however it was overwritten, leaves
  its range, and no wait exceeds its cap), which with the others gives `Typing`, the type
  invariant as the run states it. Nothing is assumed of the number of drainers, the
  retention times or the order in which clocks run out.
- `CalendarProofs`. `TableIsProjection`: the table alone says nothing about the events
  that made it, so the invariant speaks of every segment a call may be in. `Fresh`: no
  event has an id that is still to come; `Segments`: what a call between its two
  statements has appended is in the log and is what it is going to store; `LogKept`:
  events stay as they were appended; `Woken`: a row comes from the wake of its obligation;
  `Projected`: replaying the log, without the events whose update a crash cut off, gives
  what readers see. The step from a log to a longer one is the induction of
  `RecursionLemmas`. `JudgmentsStand` adds `Judged`: a call that is about to store an open
  row over a settled one had listed it before the judgment. Both theorems assume
  ~`Rewake` (a wake comes only for an obligation without a row) and the first also
  `OneWake` (it is then the same packet): without them they are false, which is finding 3.
  Any number of calls, obligations and crashes.
- `NodeAgentProofs`. `Typing` with `ProbeInv` (which action a probe cycle in progress
  answers for, and in which phases there is one). `RestartsReal` and
  `RefreshesAccounted` from `RowsInv`: no row was accepted by a later incarnation than the
  present one, and by an earlier one while the database is being opened, so that what a
  boot completes was accepted before it. `IntervalsKept` from `JobInv`: a row of
  `scheduled_jobs` that is not waiting for its interval belongs to a job that has rested
  or was forgotten, and what is left to do in a tick is due. `CooldownKept`: the cooldown
  is read early in a call and written at its end, so `CooldownInv` relates the age of a
  call, the time since the last attempt that met no other (`clean`) and what is left of
  the cooldown. `NodeTyped`: the two parts as composed.
- `WorkProofs`. `NoSecretEver` and `PublishedStays` from `WipInv`: a change that is only in
  one clone is in no other and not on the remote, a tracking branch lags behind the
  remote, and a call past its switch is on its branch (`OnBranch`); so a push that is
  accepted is a superset, and clones that have parted can be brought together by no step.
  `PausesHonest`: `SessionInv` says that what a pause claims of a repository is no more
  than its head, and, once it has pushed, than its remote (`ClaimsTrue`), and that so do
  the anchor's file, index, commit and remote copy (`AnchorsTrue`); a continuation is in the hands
  of one pause and undecided, or contended (`HeldOnce`).
  `StaleAccounted`: `RolloutInv` carries the obligation from the write to the restart,
  whoever else rolls out. `RestStays`: `LocalInv` says that an undisturbed tool still
  holds what the file has, and that nobody holds a version that was never written.
- `MachineProofs`. `PeersStayCurrent`: `LagsBehind` orders the row, the snapshots under
  way, the board and the posts under way of a node while no heartbeat was overtaken.
  `PacksStayHonest`: `PortalInv` dates everything a request has read from its begin, and
  keeps the file no younger than an uncrossed request. `DiagnosticReturnedOnce` and
  `DiagnosticImplements` from `MobileInv`: who owns the one execution (`OwnedOnce`), and
  that whoever delivers holds the lock, has a result to deliver, and has seen every
  comment but those that landed late (`LockedDelivery`); the claim maps to Authorize, the
  command to Effect. `TicksKeep`: waits grow because a tick that met no other on its item
  still knows the attempt the table has (`TicksApart`, with what a tick holds in each
  step), and a pending receipt is not left for the next text because a tick that is about
  to claim has found nothing pending in its issue, and nothing has become so
  (`NothingPending`). Its hypothesis `OneItemPerPacket` says that no two items of a policy
  name one packet: with two, a tick on one could leave a receipt to the other.
  `MachineTyped`: the eight parts as composed.
- `HostProofs`, for any number of scripts, operators, runs and processes. `ReportsTrue`:
  `BearerInv` says that where the gateway is not on its file the run that wrote it is past
  its write and applies, or nobody is left to ask (`AuthorKnown`), and of each run what it
  has read, pushed and verified is worth after the rotations and writes since (`RunTrue`).
  `DeploymentsStay`: for a service whose deployments have not crossed, `CycleInv` says
  that at most one deployment is at work on it, and what each stage implies of files,
  loaded units and timer (`StageIs`); a rollback passes through stages of the same kind,
  which is why a failure at any command ends in a state of rest. `MagistralStays`: an
  uncrossed promotion is alone, and each of its stages fixes drop-ins, units and what
  runs; what a script is about to append is no older than the key in force unless it is
  late (`AppendTrue`). `VerdictsExact`: the row of an undisturbed cycle is what the faults
  make of it (`CycleTrue`), and what an undisturbed observer has heard is still so
  (`LookTrue`); the exit code is then compared case by case. `RowsFromLog`: every row is
  of a wake of its obligation with work the log has for it (`RowOwned`), a wake about to
  be written to its row is logged, and is the last one there unless it was overtaken
  (`CallerLogged`); so the row's wake is logged (`RowLogged`), and is the last one unless
  the call that logged the last one has yet to write (`RowLatest`). `MailStays`: a script
  that copies data, that nothing crossed and that had the server stopped is alone, and the
  server has been down since (`AloneAtRest`). `InstallStays`: what a script that has come
  so far has seen to, and that one which had the host for itself still has it
  (`SetupSound`). `PageHonest`: a later poll is of no earlier mount (`PollsOrdered`), and
  a page that is done loading shows something, an error, or is blind (`PageSettled`).
  `FleetObserved`: what a run has collected of a node that stayed what it is is true, and
  its cursor has passed only nodes that are being asked or have answered
  (`CollectedTrue`). `MemoryStays`: what is recorded has been executed, no process
  believes more applied than is recorded, and of the migration it is at no less has been
  executed than it has itself (`Migrated`); a row about to be deleted is of another
  identity (`Retiring`); while a tool fetches and nothing older is on its way, whatever
  arrives was made after it began (`FetchTrue`). `HostTyped`: the ten parts as composed;
  `EachPartKeeps`: the composition implies the specification of each part, so that every
  property of the run `host_parts` holds of its specification.

Some of these theorems state properties no run checks by itself: `AtMostOneRun`,
`OrphanStaysOrphan` and `ClaimPaidOnce`, which the refinement checked by `packet_edited`
includes; `RateHeld`, `RevocationStopsPublishing`, `DeliveredWasHandled` and
`GivenUpAfterAllAttempts`, which rest on the proof alone; and the parts of a conjunction
that a run states as a whole.

The assumptions on constants say what the code's own identifiers give: a wake of the old
format carries a packet, the id of a wake is never that of an obligation, and `NoPacket` is
no packet (`WakeSchedule`); the nodes to ask are a sequence of known ones, and no answer is
no evidence (`Divergence`); the values that stand for null are none of those they stand
beside. TLC evaluates each of them on a run that extends its module.

Only model-checked, because TLAPS has no ENABLED: the liveness properties
`ReceiptReturned`, `EventuallySettled`, `RestartCompletes`, `SchedulerServes` and
`StoppedServiceReturns`. Every invariant and every action property of the passing runs is
proved. What the proofs do not say is said by their hypotheses: that no POST lands late
(`ReceiptsOnce`), that no obligation is woken twice (`TableIsProjection`, `JudgmentsStand`),
that no two items name one packet (`TicksKeep`); and by the exceptions that the
properties name.

## Findings

Four places where the code and what is said of it part; `PROJECT.json` quotes the lines.

1. A revocation discovered inside a transaction is rolled back with it: dropping the id
   from the policy list un-revokes it (`packet_refusal`).
2. A tick that listed a continuation before it was resolved writes its old status over
   the closed row; since its next run is NULL, every later tick runs it again
   (`calendar_resolved`).
3. A second wake with the id of an existing obligation resets its row while its event
   is ignored: the log no longer derives the table (`calendar_rewake`).
4. A packet of a refused type is recorded in the inbox, so its retry is answered as a
   duplicate and the sender marks it delivered (`cop_refused`).

Documented and accepted rather than found: a POST whose `gh` was killed may land after
the retry has looked, so a receipt can appear twice (the documentation disclaims
exactly-once; `LatePosts` is FALSE in `returns` for this reason, and
`ReceiptTwiceOnlyIfLate` of the mobile diagnostic allows for it).

Where the code gives a guarantee up without saying so, the exception is part of the
property: see the history variables named in it, and the sections above.

## Not modelled

- The views (`soma.js`, `status.js`, pages), the catalogue and registry, the audit and the
  DNS reconciliation: pure functions of what tables and files hold. Their effects on state
  are in `NodeAgent` (the job list) and in the calendar modules (the DNS watch).
- The command line and the reports (providers, tools, backlog): parsing and printing. What
  a command changes is modelled with the part it calls. `resume` and `status` of a session
  only read.
- `runNow`, NodeDetail, SomaInspector and SomaActionsPanel: called by or mounted in nothing.
- The generated pages of the edge portal.
- SQLITE_BUSY outside the packet consumer, malformed rows, listing limits.

## Plan

What is left, in this order: an abstract store-and-forward that `CopDelivery` implements,
with its refinement proved; how many receipts late POSTs can add to an issue; what the calendar still keeps when a wake is sent
again (`Rewake`), as an invariant with that exception; the listing limits of the outbox.
