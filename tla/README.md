# Formal models of Yuzora

Yuzora is a Tauri 2 desktop application (Rust back end, React front end) for
working with projects, terminals, git and databases. Its *companion* lets a
phone look at, and within limits drive, the desktop's terminals. This directory
keeps TLA+ models of the companion's core and of the host's database
connections, the TLC configurations that check them on small instances and the
TLAPS proofs for every instance.

Contents: [inventory](#inventory), [plan](#plan), [modules](#modules),
[runs](#runs-and-bounds), [fairness](#fairness), [proofs](#proofs),
[findings](#findings), [limits](#what-is-not-modelled).

Paths below are relative to `src/`; `companion/` stands for
`src-tauri/companion/src/`, `desktop/` for `src-tauri/src/`, `host/` for
`src-tauri/host/src/`.

## Inventory

### How the parts fit together

The desktop process (`desktop/`) spawns the **gateway** (`companion/`) as a
child process. It writes newline-delimited JSON commands to the gateway's stdin
and reads events from its stdout. Phones reach the gateway by HTTP and
WebSocket, through a third process (`companion-net`, a tsnet node). The gateway
keeps everything in memory; what must survive it (the paired devices) is
reported to the desktop, which writes `devices.json` and starts the next
gateway from that file. There is no automatic restart, and events and replies
carry no request id.

Inside the gateway the following run concurrently: the command loop of `main`,
one task per HTTP request, one task per WebSocket peer, a maintenance interval
of one second, and the writer that drains a bounded queue of events to stdout.
They share three mutexes: the pairing table, the ceremonies and the identity
table. The rule of the code is that a change which *widens* access is announced
before it is made and refused when the queue is full, while one that *tightens*
access is made at once and its announcement is deferred.

Writes of a phone reach the terminals through the **write bridge**: a queue per
socket, one job at a time on an executor with few slots, and leases on what the
host opened. Every write stream is announced to the desktop, whose page keeps a
list of the open ones.

The **host** library runs the database connections. One *actor* per connection
grants a single lease; a worker task runs the query, pages through its result
and settles the lease; a call that cancels, and the teardown, reach the worker
through a channel, an interrupt or the helper process that holds the network
driver.

### Components

| Component | State | Operations | What makes it correct | Status |
|---|---|---|---|---|
| Pairing table (`companion/pairing.rs`) | records of offers, a watch channel each, parked polls | create and evict, approve, reject, cancel, claim, long poll, ticket, registration start, retry, finish, maintenance | no poll misses a decision, an ended pairing stays ended, attempts are limited, each ticket opens one registration, the desktop hears of every outcome | `Pairing` |
| Ceremonies (`companion/webauthn.rs`, `gateway_auth.rs`) | open challenges by kind | insert with limits and replacement, take once, purge | a challenge is used once, by whom it was issued for | `Pairing`, `Sessions` |
| Identity (`companion/session.rs`) | devices, failures, sessions with elevations, peers, deferred snapshots | validate, elevate, issue, invalidate, command, register, register and unregister peers, maintenance | no session without a usable device, no elevation beyond its grant, no socket without a session, limits per device | `Sessions`, `DeviceSync` |
| Admin channel (`companion/admin.rs`, `main.rs`, `http.rs`) | bounded queue, reply in flight, policy end | emit and flush, try to emit, command loop, shutdown | order of reports, nothing announced late | `DeviceSync`, `Pairing`, `StreamAudit` |
| Companion manager and store (`desktop/companion_service.rs`, `companion_store.rs`) | process status, waiting command, `devices.json` | start, ready, request, timeout, halt, stop, on_event, edit while stopped | the disk converges to the gateway; a revocation is never undone | `DeviceSync` |
| Facade and clock (`companion/gateway.rs`, `clock.rs`) | clock floor | with_authorized, logout, maintenance, refusal at the end of the policy | time never goes back | in the gateway's modules |
| HTTP server, guard (`companion/http.rs`, `guard.rs`) | connection permits | routing, header checks | parsing and limits | not modelled |
| WebSocket bridge (`companion/bridge.rs`, `read_bridge.rs`) | subscriptions, outbound budget, pings | subscribe, drive loop | ends with its session | peers (`Sessions`), writes (`WriteBridge`) |
| Write bridge, jobs (`companion/write_bridge.rs`, `herdr_jobs.rs`) | queued work, one running job, leases, job slots | admit, start, cancel, finish, watchdog | a reply never claims more or less than what ran, limits at the host, no permit leaks | `WriteBridge` implements `WriteOutcome` |
| Audit (`companion/audit.rs`) | deferred bundles, reservations | announce, tighten, flush | order and bounded memory, nothing lost silently, the page converges | `StreamAudit` |
| Push, git reads (`companion/push.rs`, `git_bridge.rs`) | subscriptions, acknowledgements | subscribe, publish, read | | push planned |
| Commands, net node, desktop push (`desktop/companion_commands.rs`, `companion_net.rs`, `companion_push.rs`) | enabled state, node process | enable, disable, serve, unserve | no node in front of a dead gateway | planned |
| `companion-net` (Go) | tsnet node | listen, admit | | not modelled: library I/O |
| Companion web app (`src/companion`) | view state | requests | | environment: may send anything |
| Database connections (`host/db_connection_actor.rs`, `db_service.rs`, `db_query_worker.rs`) | lease, marks, channels, helper pipes | run, page, release, cancel, close | a cancellation strikes its own run, answers the truth and returns | `DbConnection` |
| Git services and watchers, herdr services, host streams | processes, queues | | flow control, coalescing | candidates |
| Files, search, transfer, processes, desktop shell | OS state | | | not modelled: I/O and glue |
| Front-end stores and terminal (`src/state`, `src/terminal`) | UI state | | | candidates (terminal transport) |

### What is hard here

`PROJECT.json` lists each hazard at its line. They fall into these groups.

* *Between two critical sections.* A poll subscribes, rechecks and parks; a
  ticket is consumed and its challenge published later; a passkey is verified
  with no lock held; a ceremony is taken under one mutex and committed under
  another. Decisions, expiry, revocation and lock-outs come in between.
* *A full queue.* Widenings are refused, tightenings are deferred, and deferred
  snapshots must not be overtaken, lost or multiplied.
* *Replies without ids.* The desktop matches events with the command that waits
  by type, device and content; late and early replies are told apart by that
  alone.
* *Crash and restart.* What was not on disk is undone.
* *Limits.* Sessions, peers, challenges, pairings, failures in a row.
* *Progress.* Deferred events and lapsed sessions depend on a later maintenance.
* *Cancellation against completion.* A write or a query ends while it is being
  cancelled; the request is already on its way, and what comes next must not
  meet it.
* *A call that never returns.* The host, the database or the helper may hang;
  watchdogs and read timeouts answer instead, and the late result must find its
  place taken.

## Plan

Order of work, the most important behaviour first.

1. **Done.** `Pairing`, `DeviceSync`, `Sessions`; then `WriteBridge` with its
   abstract specification `WriteOutcome`, `StreamAudit` (event queue,
   reservations, deferred audit, the page's list), `DbConnection`.
2. **Done.** Proofs of every safety property of `Pairing`, `Sessions`,
   `DeviceSync`, `WriteBridge` and `StreamAudit`, with the refinement of
   `WriteOutcome`, and of what `DbConnection` promises for primary queries.
3. **Abstract specifications.** The life of a pairing as the desktop sees it
   (offered, claimed, approved, closed or completed), implemented by `Pairing`;
   a register of devices with one durable copy, implemented by `DeviceSync`.
4. **Desktop and host.** The order of node and gateway in enable and disable
   (`companion_commands.rs`, `companion_net.rs`), the cache of result pages
   (`host/db_result_session.rs`), the flow control of host streams, the
   coalescing of git refreshes.

## Modules

Each component has one module. `MC<Module>` extends it with the symmetry set
for TLC, `<Module>Proofs` with the theorems. Definitions called mutants are
wrong versions of the definition after them: `PROJECT.json` names, for every
property, one that breaks it.

### Pairing

One record per pairing id (`entries`), with the fields of `pairing.rs` except
the label, the SAS and the hashes. `changed` is the watch channel: one
subscriber and one unseen change. Each action is one critical section:

| Action | Code |
|---|---|
| `CommandBegin`, then `Create`, `CreateRefused` or `Decide` | `Pairings::command`: maintenance in its own critical section, then the command |
| `Claim` | `Pairings::claim`, with the right secret or a wrong one |
| `StatusRefused`, `StatusEnter`, `StatusRecheck`, `StatusWake`, `StatusTimer`, `StatusAnswer` | `Pairings::status`: authenticate and subscribe, recheck, wait, answer |
| `ConsumeTicket`, `OptionsPublish`, `OptionsRefused` | `Gateway::registration_options`, `retry_registration` |
| `TakeCeremony`, `VerifyFailed`, `Finish` | `Gateway::registration_finish`: take, verify with no lock, commit |
| `Maintenance` | `Pairings::maintenance` and `Ceremonies::purge` |
| `Tick`, `Deliver`, `OtherEvent` | the clock, the event writer, other users of the queue |

`view` is what the desktop has read of each pairing; `Tells` says that it makes,
with the pairing's events in the queue, a given story. Secrets and tokens are
right or wrong. A ticket is its serial. A wrong token
costs an attempt; an unknown id has no record and changes nothing. The order in
which maintenance walks the hash map is arbitrary, so any order of the
notifications that fit is allowed. The gateway is modelled while its policy
runs.

### DeviceSync

Both ends of the admin channel. A device is its grants and its lock; labels,
credentials and instants travel in the same snapshots. On the gateway's side:
the table, the deferred snapshots (`notif`), the devices with a new
`last_seen` (`dirty`), the event queue, and where the command loop stands
(idle, about to queue its reply, waiting for a slot, waiting for the flush). On
the desktop's side: `devices.json`, the waiting command and the status of the
process. `Stopping` and `Halted` are the two meanings of `terminal` in
`companion_service.rs`; the process still lives in both and its events still
arrive.

`Exit` may happen at any time, as a crash or after a shutdown, and loses all
that was not written. `Start` reads the disk and fails when it holds more
devices than the policy allows. A write of the disk may fail, which halts the
gateway (`Handle`). `Expire`, the last `Maintenance` and `AnnounceExpiry` are
the end of the policy.

### Sessions

Everything under the identity lock is one action; a ceremony is taken first
under its own lock (`taken`) and committed later by `FinishLogin` or
`FinishElevation`, which recheck as `finish_assertion` does. The verification
of an assertion is its verdict: `ok`, `invalid` (no failure is counted),
`policy` (one is) or `rollback` of the sign count (which locks the device).
Session ids and challenges are random in the code and numbered here in the
order of issue; only `KeptLogins` uses the numbers, as the order of
`login_order`, to drop the oldest login challenge. A device that is revoked is `None` and is
never registered again under the same id. Time is discrete; the five durations
of the policy and the code are constants.

What the event queue refuses is left to `DeviceSync`: here a command is applied
or leaves everything as it is.

### WriteBridge and WriteOutcome

`WriteOutcome` is the promise to the phone: the host performs a write at most
once, its caller is told at most one outcome, *ok* only if the host performed
it and *dropped* or *busy* only if it never does. `WriteBridge` implements it
(`KeepsPromise`, with the replies of a write mapped to what its caller knows).

A peer is one task, so its handlers (`AdmitOpen`, `AdmitWrite`, `Pump`,
`Finish`, `Stall`, `Sweep`, `Cancel`) are atomic with respect to each other. A
job runs on a thread of the executor; each access to a shared flag is a step
(`JobCheck`, `JobStart`, `JobStartCheck`, `JobHandoff`, `JobReturn`, `JobFree`,
`JobDeliver`). `PendingWrite::cancelled` sets its flag and reads `started` in
two steps, as a job may start in between. A lease on a host resource is where
it is held: in the job, a stream, the hand-over to a full client, waiting for a
release slot, being released. The queue of a socket is a set ordered by the
numbers of admission, which is how the code keeps it when it takes the writes of
a stream out and sends the rest again. Reply codes are abstracted to five
outcomes. A call refused at admission changes nothing and is left out. Reads
have slots of their own and are left out too.

### StreamAudit

The event queue with its three classes of slots, the reservations taken before
the host is touched, the announcements, the deferred tightening events with the
record of lost ones, the input bucket of a stream; then the desktop's reader,
the `peers.list` call with its time-out and correlation by id, and the page of
`companionStore.ts`, which merges events and answers. The key of a stream is
unique in one process only: after `Crash` it means another stream. `PageOpen`
says whether a page listens; without one only the gateway's side moves.
The open of a stream is three steps of its job: the reservation (`OpenJob`), the
start together with the `leased` flag (`OpenStarts`), and the host's answer. The
stream may be dropped between any two: before `leased` is set that is told as
`open.failed` (`OpenFailed`) while the job goes on, later as a release.
`DEFERRED = 0` stands for a table of deferred bundles that other devices have
filled. `Flush` chooses how many events of each bundle it tells (`Told`) and an
order of the bundles (`Bundled`), since the code walks a hash map; it stops for
lack of room only. What is counted over the queue is a cardinality (`Total`), so
that it can be reasoned about without induction.

### DbConnection

One connection of one of the three engines, and the runs it executes one after
the other. `actor` is the mutex-protected core (lease, marks, pending dispatch,
metadata lease, closed); `worker` the task of the active run, by what it waits
for; `helper` the helper process with its request pipe, the query it runs, the
terminal answer not read yet and `pending_cancel` (`latched`).

| Action | Code |
|---|---|
| `AcquireExecution`, `Spawn`, `AcquireMetadata`, `SettleMetadata` | leases of `ConnectionActor`, the start of `query_run_in_state` |
| `SendQuery`, `StartRows`, `PageRead`, `QueryEnded`, `Drained`, `CancelSeen`, `Confirmed`, `ReadFails` | `network_run_primary_worker` and what it calls |
| `SqliteStart`, `SqlitePage`, `SqliteEnd`, `SqliteInterrupted` | `sqlite_run_primary_worker`, statements of a SQLite script |
| `Install`, `TakeNext`, `TakeRelease`, `TakeCancel`, `ResultNext`, `ResultRelease` | the result continuation |
| `UnitRows`, `NextUnit`, `ScriptEnd`, `ScriptCancelSeen` | scripts |
| `RequestCancel`, `Dispatch...`, `NotifyWorker`, `CompleteDispatch`, `FailDispatch`, `SignalResultCancel`, `CancelReturns` | the stages of `request_cancel` and `query_cancel_in_state`; between two of them everything else may happen |
| `RequestTeardown`, `SignalTeardown` | `request_lifecycle_teardown`: the marks, then the driver |
| `HelperQuery`, `HelperControl`, `HelperRows`, `HelperFinish` | `query_worker_loop`, `helper_pg_query`, `helper_mssql_query` |

The settlement of a lease and the clearing of the run's channel and
continuation are one step: nothing that looks at them in between finds a run to
act on. `begin_run` only fails for a stale owner, which cannot occur here. A
MSSQL commit or rollback, which runs as a script of one statement, is the mode
`script`. A caller that abandons its request is not modelled. The PostgreSQL
helper writes `Cancelled` first and then waits up to two seconds for the
server-side cancel it then sends (`db_service.rs` 3101-3108). That wait is left
out: `HelperControl` ends with the answer, and a server that acts on the cancel
only when the next statement runs is outside the model.

## Runs and bounds

| Run | Instance | Shows |
|---|---|---|
| `pairing` | 1 pairing, offers and tickets of 1, window of 2, 2 attempts, queue of 1, time to 4, 2 tickets, 1 foreign event, with fairness | types, `NoLostWakeup`, `OneRegistrationInFlight`, `EndedIsFinal`, `RegisteredInWindow`, `TicketSpentOnce`, `OutcomeDelivered`, `EveryPairingEnds` |
| `pairing_two` | 2 pairings, table of 1, queue of 1, time to 2 | eviction: `DesktopTold`, `LimitsHold` |
| `devicesync` | 2 devices, 1 allowed, queue of 1, 2 commands, 2 gateways, with fairness | `RevokedStaysGone`, `Converges`, `DeferralsBounded`, `EventuallySynced` |
| `devicesync_deferral` | 1 device, queue of 1, 2 commands | `DeferredWasApplied` is violated |
| `sessions` | 2 devices, 1 session each, 2 failures, 2 peers per device and 3 in all of 4 that ask, 2 sessions, 3 challenges, time to 2, where the policy ends | types, `NoOrphanSession`, `ElevationCovered`, `PeerBacked`, `ChallengeOnce`, `LimitsExact` |
| `sessions_ends` | 2 devices, 2 sessions each, 4 sessions, 4 challenges, 1 peer, no elevations, time to 2, where the policy ends, with fairness | `EndedForACause`, `OverIsHungUp` |
| `writebridge` | 2 sockets of a device, 1 write slot, 1 release slot, 2 resources, control and full streams | `HostWithinLimits`, `ControlYieldsToFull`, `NoSelfRefusal` |
| `writebridge_live` | 1 socket, full streams, operations and prompts, an elevation that ends, with fairness | `KeepsPromise` (refinement), `SubmittedAnswered`, `WriteAnswered`, `PermitsReturn` |
| `streamaudit` | 2 streams of a device, queue of 3 with 2 for audits, 1 deferred bundle, no page | types with the reserved slots, `AuditAccounted`, `OpensFollowCloses`, `InputAudited` |
| `streamaudit_page` | 1 stream, queue of 2, no deferral left, a page, 1 time-out, 1 crash, with fairness | `PageExplained`, `PageConverges` |
| `dbconnection` | 2 runs, 3 engines, both modes, scripts of 2, 1 page request, 1 close, with fairness | types, `PrimaryCancelContained`, `CancelSettles` |
| `dbconnection_script` | 2 runs, PostgreSQL | `CancelHitsOwnRun` is violated |

`LimitsHold` joins the size of the pairing table and the attempts per pairing;
`LimitsExact` the sizes of the identity tables, the lock-out no later than
the limit and that a device always finds room for its session; `HostWithinLimits`
the permits and the one full client of a device.

Why these bounds reach the interesting cases:

* `pairing`: a window (2) longer than a ticket (1) lets a registration expire,
  be retried and be started anew within one approval; two attempts tell a
  counted failure from the fatal one; two tickets let an old one be replayed.
* `pairing_two`: one record in the table makes the second `Create` evict the
  first; a queue of one makes notifications wait.
* `devicesync`: one device allowed and two ids make a revoked device and its
  successor meet; two commands make a late reply meet the next command; two
  starts make a loss visible.
* `sessions`: every limit is passed by something that asks. Two devices may
  both be paired and logged in, so one device's third peer is refused for its own
  limit, another's second for the limit over all, and a login has to find room
  beside the other device's session. Two failures in a row lock and an unlock has
  to forget them; the second login of a device evicts its first. Time passes the
  end of a challenge, an elevation, a control grant, an idle session and the
  policy.
* `sessions_ends`: with two sessions per device and two devices paired, a login
  at the limit has sessions of different ages and of another device to spare;
  time 2 ends the idle time, the absolute time and the policy. Elevations play no
  part in why a session ends and are off. That the elevation challenges of ended
  sessions are dropped before they are counted takes five challenges to tell and
  is left to the theorem `SessionsLimitsExact`.
* `writebridge`: two writes on two sockets are a control stream displaced by a
  full one, two full ones that compete, or a stalled open whose successor waits;
  one slot of each kind makes every permit contended.
* `writebridge_live`: two writes of one socket are an open and an operation on
  it, or a write queued behind one that stalls; time to 1 ends the elevation.
* `streamaudit`: with three slots, two for audits, two streams exhaust the
  queue, the reservations and the deferral; one stream's end is deferred while
  the other opens.
* `streamaudit_page`: one stream and one crash are two streams with the same
  key. The same with two streams was checked once for `PageExplained`
  (13 million states) and is too large to keep.
* `dbconnection`: a second run is what a late cancellation meets; a script of
  two statements separates the last from the others. Three runs on PostgreSQL
  were checked once for the invariants.

Bounds that are not in the code (`MaxTime`, `MaxTickets`, `MaxOther`,
`MaxCommands`, `MaxStarts`, `MaxSessions`, `MaxChallenges`, `MaxPeers`,
`MaxWrites`, `MaxInputs`, `MaxPlain`, `MaxLifecycle`, `MaxTimeouts`,
`MaxCrashes`, `MaxUnits`, `MaxPages`, `MaxCloses`) are constants named in the
guards that use them. Ids are symmetric in the runs without fairness that
have several. `Pairing`
and `Sessions` always have maintenance to run; in the other modules the
deadlock check is off: a stopped desktop, a socket that is gone or a closed
connection whose bounds are used up has nothing left to do.

## Fairness

* `WF(Maintenance)`: the server's one-second interval (`companion/http.rs`
  283-293) runs for as long as it serves.
* `WF(Deliver)`: the writer task drains the queue; a write that takes longer
  than a second ends the process instead (`companion/admin.rs`).
* `WF(Command)`, `WF(Emit)` and, in `Pairing`, the second half of a command:
  the command loop of `main` finishes what it took from stdin.
* `WF(Tick)`: time passes, up to the bound. `EveryPairingEnds` is stated for
  pairings whose window ends within it.
* `WF(HangUp(p))`: the task of a peer leaves its loop when told
  (`companion/bridge.rs` 486-505).
* `WriteBridge`: the task of a peer is polled (its ping wakes it), its watchdog
  fires, an invalidation is noticed, threads of the pool run (`Progress`).
  Nothing is assumed of the host, whose calls may hang: `SubmittedAnswered`
  holds without it. `WriteAnswered` and `PermitsReturn` assume that calls of the
  host return and say so in their formula (`HostReturns`).
* `StreamAudit`: peer tasks, open jobs, maintenance, writer, admin loop, reader, and the
  page's timer and event loop run.
* `DbConnection`: tasks that can go on do, the helper reads its requests, a read
  of the helper that finds nothing times out (`HELPER_IO_TIMEOUT`), a teardown
  goes from the marks to the driver. Nothing is assumed of queries, which may
  run for ever, or of requests for pages.

Nothing is assumed of phones or the user. No fairness is asked of `Exit`,
`Stop` or any request.

## Proofs

The proofs hold for every value of the constants that satisfies the named
assumptions: finite sets of ids, positive durations and limits, natural bounds.

`PairingProofs`, from `PairingsFinite`, `DurationsPositive`, `LimitsPositive`,
`BoundsNatural`:

* `PairingInvariant`: `Spec` implies always `TypeOK`, `StateShape`,
  `AttemptsLimited` and `NoLostWakeup`.
* `PairingEndedIsFinal`, `PairingTicketSpentOnce`, `PairingRegisteredInWindow`:
  `Spec` implies the action properties of these names.

`NoLostWakeup` is not inductive alone: it needs to know which changes of a
record raise `changed`, and that only `StatusEnter`, by a poll that is not
parked yet, lowers it. The types need that a poll in progress has a ticket left
to issue (`PollBound`), and the shape of records that a fresh id has none
(`FreshUnused`). `TicketCurrent` and `SpentIssued` say that a ticket in the
table is the latest issued and unspent. The inductive invariant `IInv` joins
all of these. The argument describes
what may happen to one record (`Move`) and to the table (`TableStep`), shows
once that such a step preserves each conjunct, and then that every action is
such a step. `EndedIsFinal` follows from the same description. For the other two
action properties, `NextOpens` shows that only `ConsumeTicket` starts a
registration and only `Finish` completes one; `TicketCurrent` and the shape of a
record that has not expired give the rest.

`PairingDesktopProofs`, from the same assumptions and on top of that invariant:

* `PairingTypes`, `PairingLimitsHold`, `PairingOneRegistration`,
  `PairingDesktopTold`: `Spec` implies always `TypeOK`, `LimitsHold`,
  `OneRegistrationInFlight` and `DesktopTold`.

`Account` classifies what a critical section does to one pairing and which
event of it, if any, it queues: nothing, a silent change, or a change with the
event that announces it; `NextAccounts` shows that every action is of this
form. The limits of the table follow by counting: only `Create` adds a record,
after it has evicted or refused. `OneRegistrationInFlight` needs `Flight`: a
pairing that may still open a registration has none in flight, and what is in
flight is in one place. `DesktopTold` is shown as `ToldOf`, that one of the
stories that the state of the record allows is told; queueing an event
lengthens the story, delivering one moves it from the queue to what was told,
and a record is dropped only in a state whose story has ended.

`SessionsProofs`, from the assumptions of `Sessions`:

* `SessionsInvariant`: `Spec` implies always `IdentityTypes`,
  `NoOrphanSession`, `ElevationCovered`, `PeerBacked` and `LockedAtLimit`.

The inductive invariant adds that sessions are issued in order
(`IssuedInOrder`, so a new one overwrites none and no older peer refers to it),
that a taken elevation names a session (`TakenSound`), and states the three
session properties per session (`SessionsGood`) and per peer (`PeersGood`).
The difficult case is `FinishElevation`: the grant is read when the elevation
is set, so it holds then; afterwards only `Update`, `Revoke` and the lock-out
change a device, and each ends the device's sessions in the same step.

`SessionsLimitsProofs`, on top of that invariant:

* `SessionsTypes`, `ChallengeSpentOnce`: `Spec` implies always `TypeOK` and
  `ChallengeOnce`. `CeremonyInv` adds that challenges are numbered in order and
  that a number occurs once; the pool of login challenges stays within its limit
  because a full pool has an oldest one to drop (`LeastNatural`).
* `SessionsLimitsExact`: `Spec` implies always `LimitsExact`. `TableInv` adds
  that no more than `MAX_DEVICES` devices are known. That the limit over all
  devices refuses nobody is a counting argument (`SharedOut`): the sessions that
  survive a purge belong to known devices, each has at most
  `SESSIONS_PER_DEVICE`, and the device at hand has a place left, so an
  injection into devices times places misses one place. Elevation challenges
  inject into the active sessions.
* `SessionsEndForACause`: `Spec` implies `EndedForACause`. Most steps end only
  inactive sessions or those of the device they name. The difficult case is a
  login at the limit, which drops a session first: by `SessionsLimitsExact` it
  is then never refused, so a session is dropped only for another one.
* `SessionsNoOrphan`, `PeersStayBacked`: the corollaries of `SessionsInvariant`.

`DeviceSyncProofs`, from the assumptions of `DeviceSync`:

* `DeviceSyncTypes`, `RevocationIsFinal`, `DesktopConverges`,
  `DeferralsAreBounded`: `Spec` implies always `TypeOK`, `RevokedStaysGone`,
  `Converges` and `DeferralsBounded`; `DeviceSyncInvariant` is the inductive
  invariant they follow from.

Why more is needed: `Converges` looks at the last report of a device in the
queue, so the proof needs to know how the last report moves when an event is
appended or taken off, and that a deferred snapshot is what the table holds
(`NotifCurrent`). Its condition, that no deferral was taken for another command,
is a fact about the past: `SyncedInv` instead says of each device that it will
be as in the table or that a command completed without being applied may still
concern it (`Ahead`), which rests on the order of the serials (`SerialsSound`)
and on what a deferral under way says of the waiting command (`DeferralSound`).
`RevokedStaysGone` needs that whoever says a device is gone has the last word
(`GoneFinal`). The bound on deferrals counts devices and notifications together,
which only a registration can increase, and it asks for room first.

`WriteBridgeProofs`, from the assumptions of `WriteBridge`:

* `WriteBridgeTypes`, `HostStaysWithinLimits`, `FullFindsNoControl`,
  `NoRefusalByOwnJob`: `Spec` implies always `TypeOK`, `HostWithinLimits`,
  `ControlYieldsToFull` and `NoSelfRefusal`; `WriteBridgeInvariant` is the
  inductive invariant.
* `BridgeKeepsPromise`: `Spec` implies `KeepsPromise`, that is, the bridge
  implements `WriteOutcome`.

The invariant relates, for each write, where its job is, which permits it
holds, what its lease is and what was answered: a queued write is neither
submitted nor answered (`QueueSound`), a job that runs is the active one of its
peer (`ActiveSound`), a permit that is not free belongs to one job or lease
(`PermitSound`, `PermitsCounted`), the active write is owed an answer until it
has one (`OwedSound`), the Host is called once the `started` flag is set
(`StartedSound`) and a result is what the Host did (`ResultSound`).
`HandoffSound` and `FullSound` carry the displacement of a control stream by a
full one across its steps. For the refinement each action is shown to perform
one write (`PerformStep`) or to answer writes that have no answer yet
(`AnswerStep`, which includes a stutter), saying no more and no less than the
invariant knows of them.

`StreamAuditProofs`, from `LimitsAssumption` (finitely many streams, as keys are
numbers of one process, and no more audit slots than the queue has):

* `StreamAuditTypes`, `NothingUntold`, `StreamOrder`, `StreamInputs`: `Spec`
  implies always `TypeOK`, `AuditAccounted`, `OpensFollowCloses` and
  `InputAudited`; `StreamAuditInvariant` is the inductive invariant.
* `PageIsExplained`: if a window listens (`PageOpen`), `Spec` implies always
  `PageExplained`.

`TypeOK` bounds the queue together with its reservations, so it needs that a
reservation is taken out of the room that the other two classes leave
(`WithinCapacity`). `AuditAccounted` compares counters with the queue and the
deferred bundles: a bundle is kept only for a stream that is gone (`StageInv`),
so the bundles are disjoint and their sizes add up; appending to the queue,
taking its head off and telling part of some bundles each change the sums by
what moved. `InputAudited` needs that a job whose input was audited but has not
started is already covered (`InputInv`). `OpensFollowCloses` speaks of what was
heard; `OrderInv` says why it stays so: when a stream is announced, no bundle
holds an end of a stream it follows, and every such end that is queued stands
ahead of the announcement.

The page needs two more invariants. `RequestInv`: the question of the page, or
its answer, is in one place and once, and nowhere when nobody waits, so an
answer given up on is never applied. `PageInv`: `Fits` holds of what is shown
and of every answer that the page may still apply. The difficult cases are an
event that the page handles while an answer taken before it is under way, where
`raced` discards that answer, and `Crash`, after which keys mean other streams:
everything the page shows is excused until it handles the `Down` ahead of it.

`DbConnectionProofs`, from `EnginesKnown`, `ModesKnown`, `NoRunIsNone`,
`BoundsNatural`:

* `DbConnectionTypes`: `Spec` implies always `TypeOK`.
* `CancellationContained`: `Spec` implies always `PrimaryCancelContained`.

A cancellation is treated as a token: to be dispatched, in the helper's pipe,
kept by the idle helper, or used up by the answer "cancelled". The inductive
invariant says that only the run that holds the actor has a dispatch under way
(`LeaseInv`), that what the helper works on is the query of the active run
(`HelperInv`), that a run has one token at most and that a token belongs to the
marked active run or to a closed connection (`PrimaryInv`). The difficult case
is a run that settles while its token is still in the pipe: PostgreSQL keeps
the connection only on the answer "cancelled", which used the token up, and
every other settlement of a marked primary run closes it. `PrimaryInv` is
conditional on no script having reached another run, as the property is; hits
are never forgotten and a run keeps its mode, so the condition held in every
earlier state. The steps of the worker are first reduced to a few effects
(`Moves`, `Ends`), so each part of the invariant has one case per effect.

Only model-checked: the liveness properties (`OutcomeDelivered`,
`EveryPairingEnds`, `EventuallySynced`, `OverIsHungUp`, `SubmittedAnswered`,
`WriteAnswered`, `PermitsReturn`, `PageConverges`, `CancelSettles`). Liveness
under fairness is out of the prover's reach, as is `ENABLED`. The proof modules avoid induction over data:
pools that the code keeps in order are sets ordered by number here, and what is
counted is the cardinality of a set.

## Findings

1. *A deferral taken for another command* (`devicesync_deferral`,
   `desktop/companion_service.rs` 566). "The gateway already applied a
   tightening or neutral change but could not report it yet. Persist it now".
   The event is matched by device and type of command. When the first of two
   commands of one type has been completed by a snapshot that reflects it, its
   deferral arrives while the second waits and makes the desktop save and
   acknowledge a command the gateway has not seen. `Converges` and
   `EventuallySynced` leave this one case out.
2. *A cancelled script that cancels its successor* (`dbconnection_script`,
   `host/db_service.rs` 6700). The actor "remains busy until both halves have
   completed, preventing a late Cancel A from targeting Run B"
   (`host/db_connection_actor.rs` 426). It is free once the request is written
   to the helper's pipe. A primary query that ends in this window closes the
   connection unless the helper confirms the cancellation; a PostgreSQL script
   does not, so the idle helper keeps the request and answers the next run's
   query with it. `PrimaryCancelContained` states the promise for primary
   queries, as long as no script has broken it.

Smaller remarks, listed as hazards: `stop()` replaces the mark of a halted
gateway, so events between it and the kill are saved although a comment says
nothing more is acted on (`desktop/companion_service.rs` 503 and 797); a SQLite
cancellation between the first page and its continuation waits for the next
page request (`Missed` in `CancelSettles`); the cancellation of an MSSQL script
that has just ended reports a terminated connection that is still open.

One loss is by design and noted as a hazard: a lock-out or snapshot still
deferred when the process dies, or at the end of the policy, never reaches the
disk. `EventuallySynced` is therefore about a gateway that serves.

## What is not modelled

* Read streams of a socket, the byte budget of its outbound queue, pings and
  rate limits; the rate-limited summary of rejected writes and the events of
  sessions that open and close (`companion/audit.rs`).
* Push notifications, git reads, the order of node and gateway on the desktop.
* The cache of result pages, connections forwarded to a remote host, single-cell
  updates, the transaction flag and opening of database connections.
* Cryptography, WebAuthn encoding, HTTP parsing: verdicts and requests are
  inputs.
* `companion-net`, git, herdr, files, search, processes, logging and the user
  interface: I/O around external programs, parsing of their output, or
  single-threaded state with tests of its own. They are most of the
  repository's lines.
* Replies to pairing commands on the desktop: `Pairing` ends where the desktop
  reads the event.
