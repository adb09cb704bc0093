# Verification of AETHRIONIS Studio's Buzz core

TLA+ models of the parts of AETHRIONIS Studio (a fork of Buzz) whose correctness depends on the
order in which concurrent things happen, with TLC configurations that check them on small
instances and TLAPS proofs that hold for every instance. Paths are relative to the repository.

## 1. The system

AETHRIONIS Studio is a desktop work environment on top of a Nostr relay. People and AI agents
talk in channels; agents are driven by a harness that turns channel events into prompts; the relay
stores events, hosts git repositories, runs workflows and pairs devices.

| Component | Where | State | Operations | What is hard | Module |
|---|---|---|---|---|---|
| Agent event queue | `crates/buzz-acp/src/queue.rs` | per-channel queues, in-flight set and deadlines, retry throttle and counters, cancelled batches, withheld steers | push, flush_next, mark_complete, three requeues, drain_channel, compaction, withhold/release/remove | operations composed in an order the callers choose; caps; expiry | `EventQueue` |
| Harness main loop | `crates/buzz-acp/src/lib.rs` | pool, circuit breakers, task map, removed channels, steer acks | one `select!` arm per message source, maintenance, dispatch | late results, acks and panics against dispatch | `AcpHarness` |
| Agent pool and prompt tasks | `crates/buzz-acp/src/pool.rs`, `acp.rs` | agent slots, control and steer channels, the batch of each turn | claim, run, cancel, steer, panic, respawn | a task dies with something in its hands | `AcpHarness` |
| Relay connection of the harness | `crates/buzz-acp/src/relay.rs` | socket, subscriptions, per-channel watermarks, dedup set, rate-limit gate, parked requests | execute commands, read frames, resubscribe, drain, reconnect | replay windows, a full channel, refusals during a resubscription | `RelayLink` |
| Relay: one connection's subscriptions | `crates/buzz-relay/src/handlers/req.rs`, `close.rs`, `connection.rs`, `subscription.rs` | registered filters, send buffer | admit, register, replay, fan out, deny, revoke | a REQ in a task of its own beside CLOSE and live events | `RelayLink` |
| Git hosting | `crates/buzz-relay/src/api/git/` | packs and manifests by content, one pointer per repository | hydrate, receive-pack, publish by compare-and-swap, announce | concurrent pushes without a lock, lost answers, compaction under readers | `GitStore`, `GitPublish`, `GitHosting` |
| Community deletion | `crates/buzz-deletion/`, `crates/buzz-db/src/deletion.rs`, migration 0029 | request rows, executor claims, serving-write leases, manifest of keys | submit, approve, quiesce, fence, drain, delete, purge, verify, abort, unblock | crash between stages, stalled executors, writes that cross the fence | `Deletion` |
| Workflow triggers | `crates/buzz-workflow/src/lib.rs`, `crates/buzz-db/src/workflow.rs` | durable claims of instants, each pod's anchors and cache | cron loop, event handler, departure of an owner | pods with different clocks, restarts, stale caches | `WorkflowTriggers` |
| Replica reads | `crates/buzz-db/src/replica_fence.rs`, routing in `lib.rs`, migrations 0021 and 0026 | heartbeat token, each pod's ring of walls | probe, record, rotate, route a page | commits that a scan does not see, restores of the writer | `ReplicaFence` |
| Push leases, matching, delivery | `crates/buzz-db/src/push.rs`, `crates/buzz-relay/src/push_runtime.rs`, migrations 0012-0023, delivery in `crates/buzz-push-gateway` | leases, match queue, outbox, burnt request ids | activate, renew, revoke, match, claim, revalidate, send, settle | claims that run out, lost answers, renewal under a matcher | `PushWake` |
| Pool lifecycle | `crates/buzz-acp/src/pool_lifecycle.rs` | lazy wake attempts | wake, retry, sleep | a late wake of an abandoned attempt | - |
| Ingest, event store | `crates/buzz-relay/src/handlers/ingest.rs`, `crates/buzz-db/src/` | Postgres rows | validate, store, query | serialised by the database | - |
| Device pairing | `crates/buzz-core/src/pairing/`, `crates/buzz-pair-relay/` | two session state machines, ephemeral mailboxes | offer, confirm, transfer | reordered, duplicated and late messages | - |
| Mesh, huddles, pub/sub, audit, kubernetes backend | `crates/buzz-relay-mesh`, `buzz-relay/src/audio`, `buzz-pubsub`, `buzz-audit`, `buzz-backend-kubernetes` | memberships, rooms, fan-out, a hash chain, cluster objects | join, publish, append, reconcile | fencing | - |
| Agent runtime, CLI, SDK, media, search, voice, personas, auth | the other crates | little or none | request and response | parsing and I/O | - |
| Desktop application, web client, studio gateway | `app/`, `web/`, `studio/` | user-interface state | | rendering | - |

How they interact: the relay pushes channel events to the harness over a WebSocket; the harness
owns the queue and the pool, and prompt tasks report to it over channels; git pushes go through the
relay's HTTP handlers to the object store and end in a relay-signed event in the event store;
deletion fences the writers of a community through leases in the database. Several relay pods share one
Postgres: what keeps their cron loops, push workers, deletion executors and probes apart is a claim, a lease or a
token in a row, never a lock in memory.

`PROJECT.json` lists every component, modelled or not, and every hazard at its line.

## 2. Modules

| Module | Models | Reading guide |
|---|---|---|
| `EventQueue` | `struct EventQueue` of `queue.rs` | the queue is a record, each method an operator from record to record |
| `AcpHarness` | the main loop, the pool, prompt tasks, respawns, the clock | one action per `select!` arm or task step; `pc` is where the loop stands |
| `MCAcpHarness` | instance for TLC | the order of `created_at` |
| `AcpHarnessProofs` | theorems about `AcpHarness`: types, caps, the pool's books | one lemma per method of `EventQueue`, then one per action |
| `AcpCustodyProofs` | theorems about `AcpHarness`: where an event is kept | lemmas about the queue's methods, then one per kind of step |
| `GitStore` | the object store as `api/git/store.rs` uses it | packs, manifests and the pointer of one repository |
| `RefRegister` | what a push promises its client | abstract: an atomic register of refs |
| `GitPublish` | a push: `transport.rs`, `hydrate.rs`, `cas_publish.rs` | one action per store request or git command; `pc[p]` is where push p stands |
| `GitHosting` | announcing a repository: `side_effects.rs`, `git_repo.rs` | composes announcements with the pushes of `GitPublish` |
| `MCGitHosting` | instance for TLC | a history graph of two commits, and which requests race |
| `GitPublishProofs` | theorems about `GitPublish` and `GitHosting` | types, one line of history, clonability, limits, the register, announced successes; then the same beside announcements |
| `TenantErasure` | what deleting a community promises | abstract: serve, close, reopen, erase, certify |
| `Deletion` | the deletion saga and the serving path it fences | one action per transaction or external effect; implements `TenantErasure` |
| `RelayLink` | the harness's background task and one connection of the relay | both ends of the socket and the frames between them |
| `WorkflowTriggers` | the cron loop and the event handler of every pod | discrete time, one action per database call |
| `ReplicaFence` | probes, ring, floor guard and routing | the writer's log; a replica is a prefix of it |
| `PushWake` | trigger, matcher, courier, gateway | three queues between four kinds of process |
| `DeletionProofs`, `RelayLinkProofs`, `WorkflowTriggersProofs`, `ReplicaFenceProofs`, `PushWakeProofs` | theorems about the module of the name | the invariant first, then one lemma per kind of step |
| `MCDeletion`, `MCRelayLink`, `MCWorkflowTriggers`, `MCReplicaFence`, `MCPushWake` | instances for TLC | symmetry and skews |

### EventQueue

An event is its rank in order of arrival (`received_at`); `CreatedAt` is the author's timestamp,
which relay replay delivers in any order. An `Instant` is only ever compared with now: a throttle is
`none`, `future` or `past`, and a channel whose in-flight deadline has passed is in `due`. The
expiry that `flush_next` and `has_flushable_work` share is `Expire`; `flush_next` itself is split
into what it may return (`QueuedBatches`, `CancelledBatches`) and what it leaves (`FlushQueued`,
`FlushCancelled`), because the caller needs both. `SortedByCreatedAt` is the stable sort of the
batch.

### AcpHarness

The main loop is one thread of control. A `select!` arm with its whole handler is one action;
`dispatch_pending` is a loop of actions, one per batch, during which tasks may move and the loop does
nothing else. Prompt tasks, respawn tasks and ack watchers run beside it.

| Code | Model |
|---|---|
| top of the loop, 30 s maintenance | `NotDue`, `Maintain`, `Collect` |
| `dispatch_pending` | `DispatchNothing`, `DispatchQueued`, `DispatchCancelled` with `Claim`, `PoolExhausted` |
| relay arm, `mode_gate_signal`, `try_native_steer`, `signal_in_flight_task` | `EventDropped`, `EventQueued`, `EventSteered`, `EventSignals`, `OwnerControl`, `MembershipRemoved`, `MembershipAdded` |
| timer arms | `Tick`, `HeartbeatFired` |
| result arm, `handle_prompt_result` | `HandleResult` with `Disposed`, `Settles`, `Completed`, `AgentReturns` |
| panic arm, `recover_panicked_agent`, `drain_ready_join_results` | `RecoverPanicked`, `DrainDone` |
| steer-ack arm | `HandleSteerAck` |
| `run_prompt_task` and the read loop of `acp.rs` | `WriteSteer`, `SteerReply`, `TurnOk`, `TurnFails`, `TurnCancelled`, `TurnCancelFails`, `TurnPanics` |
| respawn tasks, circuit breaker, clocks | `RespawnEnds`, `CooldownElapses`, `BackoffElapses`, `DeadlinePasses` |

`settled` and `interrupted` are history variables: the events whose story has ended (delivered,
steered, dead-lettered, dropped by a cap, a mode, a membership removal or an owner) and the events that
were ever part of a cancelled batch. `failures` and `expiries` count the two bounded kinds of fault.

Abstractions: which idle agent `try_claim` prefers, whether a crash is the one that opens the circuit,
and which of the failures of a turn happens are free choices. Prompts, sessions, notices, reactions and
metrics are left out.

### GitStore, GitPublish, RefRegister

A repository is a set of packs and a sequence of manifests, both written create-only and named by their
content, and one pointer that names a manifest. A digest is the position of a manifest in the order of first
writes; a pack is the set of commits it holds; the pointer's ETag is its body, so the model has the ABA that a
content-derived ETag allows. A conditional PUT is a request on the wire that the store applies at any later
moment, also when its sender has timed out, lost its lease or died. The request or its answer may be lost
(`Fail` while `waiting`).

| Code | Model |
|---|---|
| `info_refs` and the client's choice | `Advertise` |
| `hydrate_for_write`: pointer, then manifest and packs | `LoadPointer`, `Materialize` |
| `git receive-pack`, its report and the hook | `ReceivePack`, `HookDeclines`, `SkipPublish` |
| serving-write lease | `Acquire`, `LeaseLost`, `Release` |
| `cas_publish`: delta, compaction, limits | `CaptureDelta`, `CaptureCompacted`, `OverLimit` |
| uploads, validation, manifest | `PutPack`, `PutManifest`, `ManifestInvalid` |
| pointer CAS and its three outcomes | `SendCas`, `RecvWon`, `RecvLost`, `Fail` |
| kind:30618 event and the status | `Announce`, `AnnounceFails`, `Release` |
| the relay dies | `Crash` |

`history` records the pointer writes that took effect. `ReceivePack` follows git: without `atomic` each ref is
updated on its own, a stale one is reported `ng`, and the others move. A refs-only push makes a pack of no objects,
as `git pack-objects` does. Both were confirmed with git itself.

Abstractions: one repository and one owner; packs with the same objects are one pack; byte counts are commits
plus one for the header; the compaction permit, its timeout and its quota are the free choice between
`CaptureCompacted` and `CaptureDelta`; the deletion fence appears as the loss of the lease. Index sidecars, the pack
cache (both caches of immutable objects), upload-pack and the S3 client's own resends are left out.

### GitHosting

An announcement reserves the name in Postgres, seeds the pointer if it is missing, takes the name back if that
fails and it made the row, and emits an empty ref state for a fresh name. Its steps are separate actions
(`Peek`, `Insert`, `Reclassify`, `GetPointer`, `SendSeed`, `SeedWon`, `SeedLost`, `ReRead`, `ReleaseName`,
`EmitInitial` and the failures), because other announcements and pushes run between them.

### TenantErasure, Deletion

A community is served, closed, perhaps reopened, erased and certified; `Deletion` shows that executors, operators and
serving writes together do nothing else (`Erasure`, with `phase <- Phase`: the stage of the request, and before
erasing the lifecycle state of the community row).

| Code | Model |
|---|---|
| guarded database writes and the advisory lock | `BeginWrite`, `CommitWrite`, `LockFree` |
| serving-write lease, its heartbeat and what it protects | `Acquire`, `Verify`, `EffectLands`, `LandsLate`, `LeaseLost`, `BeginFinal`, `Release`, `LeaseExpires`, `Reap` |
| operators | `Submit`, `FreezeInventory`, `Approve`, `Abort`, `BlockPreclaim`, `Unblock`, `OwnerArchives` |
| executors: claim, heartbeat, crash, shutdown | `Claim`, `NextTurn`, `ClaimExpires`, `ExecutorCrash`, `Shutdown` |
| the stages of `execute_stage` | `BeginQuiescing`, `Fence`, `CheckDrained`, `Clear`, `List`, `Append`, `Freeze`, `MarkDrained`, `NextChunk`, `DeleteLands`, `Stamp`, `MarkBindingsRemoved`, `PurgePostgres`, `PurgeCache`, `VerifyPostgres`, `VerifyStorage`, `MarkVerified`, `MarkRetention` |
| a stage that fails | `StageFails`, `Failed`, `Retried`, `Stale` |

A transaction is one action, except where it reads under no lock what it relies on later (the manifest chunks). The
object store applies a PUT whenever it likes: while its sender waits, also when the lease has run out meanwhile
(`EffectLands`), or after the sender gave up and dropped its guard (`late`, `LandsLate`). `strays` records the keys that
a PUT without a lease put behind the fence. Checkpoints, taxonomy sweeps and audit rows are left out.

### RelayLink

Both ends of one WebSocket. The client's loop is `Task`; `phase` says whether it reads, resubscribes, drains commands
or is offline. A REQ is a job of its own at the relay: it registers (`RelayRegisters`) and then replays newest first
(`RelayReplays`), while new events are fanned out and a CLOSE is handled at once. There is no clock: `Drift` bounds how
far authors' clocks disagree and `Skew` is the margin the filter subtracts. The relay may refuse any REQ, the connection
may fail at any moment, a failure of `drain_post_reconnect` is swallowed as the callers swallow it, and the harness
subscribes and unsubscribes as it likes.

Two variables record where the code departs from what it promises, and guard nothing. `swallowed` are the channels that
`drain_post_reconnect` failed to ask for on the present socket. `spoilt` becomes true in five steps, each named at its
action: the connection is lost before the end of a replay (`RelayForgetsConnection`), the relay refuses a REQ that asks
for dropped events (`RelayRefuses`), such a REQ is written into a dead socket (`AsksAgain`), a channel is subscribed
while something of an earlier subscription is left (`Untouched`), and a socket with swallowed channels recovers
(`LinkRecovers`). Section 4 says what each of them does. The membership and control subscriptions, which use the same
bookkeeping on one slot each, published events and backoff times are left out.

### WorkflowTriggers

Every pod sleeps `Window`, lists the enabled schedules and decides by its own clock (`Skew`). `Claim` is the insert
into `scheduled_workflow_fires`, the only thing the pods share; `loop[p].last` is `last_fired`, lost in a crash and
seeded from the claims. Event workflows go through the cached list (`FillCache`, `ReactCheck`, `ReactCreate`). What a run
does after it has been created, manual and webhook triggers and approvals are left out.

### ReplicaFence

The writer's database is the sequence of its commits, a replica a prefix of one, a restore cuts it (`Rewind`) and
replicas may stay on the line it abandoned. A probe is four steps (`ProbeSample`, `ScanActivity`, `ScanPrepared`,
`CommitToken`) with transactions moving between them, and `Record`. `ServesCursor`, `ServesThread` and `ServesHead` are
the routing decisions; the properties quantify over every page that would be served. Any probe may fail, any pod
restart and the writer be restored at any moment. `restore` is a history variable: `unseen` from a restore on, `none`
again once a pod has rotated the epoch, and `missed` when a pod took a token of the restored writer that its ring could
not tell from an ordinary one (`Remembers`). Assumptions: the two subqueries of the scan run in the order they are
written (the code's comment relies on it, SQL does not promise it), and PREPARE stamps a transaction within `Margin` of
its guard.

### PushWake

An event is inserted beside the activation of a lease (`InsertEvent`, `CommitEvent`, `Activate`: the gate lock keeps an
activation out while an insert is open). Matchers claim jobs, load the lease and put a wake in the outbox; couriers
claim wakes, revalidate twice, send and settle by the answer (`Verdict`); a claim may run out at any time, also behind
earlier wakes of the batch (`WakeLapses`). The gateway burns the request id before it asks APNs (`Admits`) and releases
it when no answer came, whether or not APNs took the request (`ApnsBusy`). `excused` are the events somebody gave up for
a reason of their own (attempts exhausted, refused, a transport error that is not retried), `overdue` the events whose
wake was failed because its claim had run out before it was sent, `unheard` counts the acceptances of APNs the gateway
did not hear of. One installation, one community; filters, classes, quotas and the usefulness deadline are left out, and
every event is recent enough for the backfill.

## 3. Runs

All bounds are constants of the cfg files.

| Run | Instance | Shows |
|---|---|---|
| `turns` | 1 channel, 2 agents, 3 events, Steer, 2 failures, one deadline passes | `NoEventLost`, `OnePlace`, `NeverRedelivered`, `WithheldAwaitsAck`, `OneTurnPerChannel`, `QueueBounded`, `BackoffRemembersAttempts`, `TypeOK` through every order of acks, results, retries and dispatches, and `InFlightBacked`: although `mark_complete` has no generation token, a channel in flight always has a turn that will release it |
| `control` | Drop mode, 2 channels, 2 agents, 3 events, owner interrupts and cancels, heartbeats, 2 failures | `PoolConsistent`, `DropNeverRetries` |
| `live` | 2 channels, 1 agent, 3 events, 1 failure, fairness | `EveryEventSettles`; `NoEventLost` and `NeverRedelivered` where the pool is exhausted |
| `cancel_loss` | Interrupt, 1 failure | `CancelledEventsSurvive` is violated (finding 1) |
| `git` | 3 pushes to one branch, one of them perhaps to a branch with an unsafe name, 2 commits, compaction at 1 pack, at most 2 packs and 4 bytes; 2 announcements before them, or beside one push | `LinearHistory`, `AlwaysClonable`, `HydratesWithinLimits`, `SuccessIsAnnounced`, `TypeOK`, and the refinement `AtomicRefs`, in which announcements do not show |
| `deletion` | 1 request, 2 executors, 1 serving write, 1 key, 2 crashes, stalls, failures or interventions, late PUTs, fairness | the refinement `Erasure` for all keys but `strays`, `ManifestExact`, `FenceBacked`, `ArchiveRestored`, `EveryRequestSettles` |
| `deletion_late` | 1 request, 1 executor, 1 serving write, 1 key, 1 upset | `NothingAfterFreeze` is violated (finding 3) |
| `link` | 1 channel, 2 events, inbox of 1, 2 faults or drops, 2 commands, fairness | `NoEventLost` and `EveryEventArrives` unless `spoilt`, `NeverTwice`, `NoSilentSubscription` for all channels but `swallowed` |
| `link_loss` | the same with 1 fault | `NothingLost`, the same without `spoilt`, is violated (finding 2) |
| `workflow` | 2 pods one unit apart, 1 workflow of any kind, 13 units of time, 1 upset | `OneRunPerInstant`, `ClaimsAreKept`, `RateBounded`, `NeverSkipsTwo`, `DepartedStartNothing` |
| `fence` | 1 pod, 1 replica, 1 transaction, 3 heartbeats, 1 failed probe or restart, 1 restore, at any moment | `NoHoles`, `BoundedStaleness`, but for a replica of an abandoned line once a restore was `missed` |
| `push` | 1 event, 1 endpoint, 1 matcher, 2 couriers, 2 generations, 2 faults, fairness | `NoWakeLost` but for `overdue`, `NeverRungTwice` but for `unheard`, `EverySettles` |

Why these bounds are enough for the cases to happen:

- Harness: three events are one in a turn, one steered or merged into it and one behind it; two agents on one channel are
  what a late result of an expired turn needs, two channels on one agent what an exhausted pool needs; `MaxRetries = 1`
  makes a retry and a dead letter happen within two failures; `MaxPending` and `MaxBatch` put the caps within reach.
- Git: a return of the pointer to an earlier body needs three pushes. With `CompactAt = 1`, `MaxPacks = 2` and
  `MaxRepoBytes = 4` deltas, compaction, its fall-back and each limit are met. `MCRaces` lets three pushes race once the
  announcements have been accepted, two once they have failed (then the pushes race to create the pointer), and two
  announcements race with one push; the proofs have no such bound. The run ends in `Terminating` when every request is answered, so deadlock is checked: no push gets stuck.
  Everywhere else the system may rest, and it is not.
- Deletion: two upsets are a stalled executor and its successor, an abort under a stage, or a crash and a retry; with
  `MaxRetries = 2` a request is blocked.
- Link: two events further apart than the skew are what a watermark can hide; an inbox of one is full at once; the dedup
  set rotates after the second event. The safety properties were also checked with a third command (`MaxAsks = 3`), which
  is what unsubscribing and subscribing again needs.
- Workflow: 13 units hold four intervals and three cron periods, a restart inside one of them included.
- Fence: three heartbeats are one before a restore, one that notices it and one of the new epoch; the ring holds two. The
  properties were also checked with two pods (`MaxTime = 1`, `Margin = 1`, `Budget = 0`, no failures) and with two
  restores of one pod (`MaxTime = 2`, `Margin = 1`).
- Push: two couriers are a late one and its successor, two generations a renewal; two attempts make the second the last.

`OneTurnPerChannel` and `NeverRedelivered` speak of behaviours in which no in-flight deadline has passed:
after an expiry the queue deliberately dispatches the channel again while the old turn is still running.

**Fairness.** Nothing is assumed of users, operators or owners, and no fault is required to happen or to stop except
through its bound.

- Harness. `LoopStep` (weak): the loop body never waits except in `select!`. `PanicStep` and `AckStep` (strong): their
  arms stand above the relay and timer arms of a `biased` select, so they are not passed over for ever. `Maintain`
  (strong): it is due every 30 seconds and checked at the top of every iteration. `TurnEnds` (weak):
  `max_turn_duration` ends every turn. `RespawnEnds`, `CooldownElapses`, `BackoffElapses` (weak): bounded initialisation
  and clocks. `Tick` (weak): presence, typing and reaper intervals, when they are configured. Owner controls are off in
  `live`: an owner who interrupts every attempt keeps an event waiting for ever.
- Deletion. A serving write that was admitted goes on (weak), the lease of a dead one and the claim of a dead executor
  run out (weak), and an executor that can make progress again and again does (strong, because another executor's claim
  may come between): `run_loop` polls without end.
- Link. The relay's tasks, the background task, the rate-limit gate's deadline, a stalled socket that recovers or times
  out, and a harness that keeps taking events (all weak).
- Push. Commits, claims that run out, the reaper, both loops, the request timeout and the gateway (all weak).

## 4. Findings

1. **Events of an interrupted turn are lost** (`cancel_loss`). `flush_next` merges them into the next batch
   as `cancelled_events`; when that batch fails or finds no agent, `requeue` and
   `requeue_preserve_timestamps` put back `events` only. `NoEventLost` excepts exactly these events.
2. **A connection lost before the end of a replay hides older events** (`link_loss`). `record_event` raises `last_seen`
   to the newest event it has read, while older ones may still be on their way: the relay registers a subscription before
   it replays, so a live event can come first, and it replays newest first. When the connection is lost in between, the
   older events lie below every later `since`. `NoEventLost` excepts behaviours in which this, or one of the four other
   steps listed under "Relay connection", has happened.
3. **A tenant key can appear after the freeze** (`deletion_late`). "the post-drain listing is the final storage state, so no
   tenant key can appear after the freeze" (`buzz-deletion/src/lib.rs:1126`) relies on the leases of serving writes. A
   lease that runs out, or a guard that is dropped (`lib.rs:83`, `:140`), leaves no row, while the PUT it protected may
   still be applied. The executor finds no live lease and lists, and the key comes later. `Erasure` and `ManifestExact`
   hold for every other key: `strays` are exactly the keys that such a PUT put behind the fence.

Behaviours that differ from a comment, or that a reader should know, and have no run of their own. None of them is kept
out of a model by a guard or a constant. Where a passing property has an exception for one of them, the variable that
records it is named, and TLC finds a counterexample within the lengths given as soon as the exception is dropped.

Harness

- The pool-exhausted path of `dispatch_pending` calls `mark_complete`, which sees an expired throttle and clears the
  attempts although no turn ran (`lib.rs:3745` against `queue.rs:386`).
- `flush_next` compares the heads of queues, and a requeued batch is in `created_at` order, so the channel with the
  oldest event is not always served first (`queue.rs:257`, `:350`). `requeue` says it trims the oldest events; `pop_back`
  drops the newest (`queue.rs:488`).
- The control sender is taken by the first signal: an owner's cancel after a steer fallback does nothing until the turn
  ends (`lib.rs:3602`). `Some(Err(e)) = join_next()` disables the panic arm for the rest of a `select!` (`lib.rs:2551`).
- With presence, typing, heartbeats and the reaper all off (`Timers = FALSE`) nothing wakes the `select!` on a quiet
  channel, and a requeued batch waits (`lib.rs:2469`).

Git

- A fresh reservation whose seed fails is released, although a second announcement of the same owner was accepted on the
  strength of the row (`side_effects.rs:2703`).
- A push between the seed and the announcement's initial event leaves the empty ref state as the newest event
  (`side_effects.rs:2740`); two pushes may insert their events in the other order (`transport.rs:2025`).
- A push told "git backend error" may be published, before or after it is told (`transport.rs:1950`). `RefRegister`
  leaves the outcome of an error open for this reason. A push declined for one stale ref has moved its other refs in the
  workspace (`transport.rs:1829`); git's report says `ok` for them, nothing is published.
- A refs-only push adds an empty pack to the manifest, which counts towards its limit (`cas_publish.rs:480`). A
  re-announcement that loses its seed to a push is refused (`side_effects.rs:2865`).

Relay connection

- `drain_post_reconnect` returns Failed so that "the caller can reconnect" (`relay.rs:2904`), but its callers look for
  Shutdown only (`relay.rs:1610`, `:1693`, `:1870`, `:1944`, `:1983`, `:2016`). A subscription it could not send stays
  recorded and unsent (`swallowed`; without the exception `NoSilentSubscription` is violated after 10 states), and on a
  socket that recovers its events are lost (`spoilt`).
- `channel_dropped_since` is removed when the REQ is written (`relay.rs:2566`, `:2737`, `:2795`). If the relay refuses
  that REQ with a rate limit (13 states), or it went into a dead socket (13 states), the dropped events are
  not asked for again (`spoilt`).
- Subscribing again asks from `last_seen` and ignores `channel_dropped_since`, and frames still in flight after an
  unsubscription write the `last_seen` of the next one (`relay.rs:1415`; `spoilt`; 16 states, with `MaxAsks = 3`).
- A CLOSE is handled at once and may overtake the REQ before it (`connection.rs:596`). A channel dropped after a denial
  stays in the main loop's `subscribed_channel_ids`.
- Not in the model: the relay drops frames for a slow client within its grace count (`connection.rs:102`), cuts a replay
  at 1000 events (`req.rs:957`), and answers a failed history query with EOSE.

Workflows

- The cron window is exactly the sleep, and a pass takes time: an instant between two windows belongs to no tick
  (`lib.rs:757`). A claim whose run cannot be created uses up its instant. A failed read of the anchor seeds it with now.
- `RateBounded` needs passes that take no longer than the sleep (`MaxLag <= Window`) when clocks disagree by most of an
  interval: a pod that restarted, and whose clock is slow, meets in a long pass the claim of a fast pod an interval
  ahead, takes it for a claim that is not its own past and claims instant 0 (`Window = 1`, `MaxLag = 3`,
  `Interval = 4`, a skew of 3).
- Runs that were pending or running when a pod died are not recovered, and no path reaches the approval step.

Replica reads

- "degraded capacity, never holes" (`replica_fence.rs:45`) does not hold over every restore. A regression of the token is
  noticed only against the ring of the pod that takes it (`replica_fence.rs:219`). The ring is empty after a failed probe
  or a restart while the epoch stays (`:198`, `:776`), and a pod whose last token is older than a token another pod has
  committed since the restore sees nothing unusual either (`:203`, `:647`). A replica of the abandoned line can then prove
  rows it does not have. `NoHoles` and `BoundedStaleness` except such a replica from the step in which a token is taken
  that way (`restore = "missed"`), and nothing else: failed probes and restores that some ring can still tell are covered.

Push

- Claims exist for "recovering expired worker leases" (`push.rs:1019`), but revalidation reports a wake whose claim has
  run out as suppressed, and the courier then fails it, although it was never sent (`push_runtime.rs:360`,
  `push.rs:1113`). A batch of 16 is delivered in sequence, each with a timeout of up to 10 s, under a claim of 30 s.
  `NoWakeLost` excepts these wakes (`overdue`).
- If APNs accepts and its answer is lost, `apns.rs:234` takes it for a retry and `postgres.rs:347` releases the id: the
  device may ring again. `NeverRungTwice` allows one more ring for each such answer (`unheard`).
- Only timeouts and failed connections are retried; any other transport error, or an unreadable body, fails the wake at
  once although the gateway may have rung (`push_runtime.rs:527`).
- A lease renewed while a matcher holds a job with the old generation gets no wake for it: the backfill conflicts with
  the row and the matcher's wake is of an inactive lease (`push.rs:60` against its doc at `:43`).
- A 404 for a second attempt counts as delivered, also where the gateway refused the grant. `prune_wake_outbox` is called
  only by tests.

## 5. Proofs

`AcpHarnessProofs` proves for every method of the queue that it preserves `QueueInv`: the queue is well typed, every
channel respects the cap (`Capped`), a channel in backoff has attempts on record (`Remembers`), and only
channels in flight have a passed deadline. It then lifts this to the system.

- `TypeCorrect`, `DepthCap`, `BackoffKeepsCount`: `Typed` is inductive. Besides the types it says that a
  heartbeat's task holds no events (`HeartbeatsBare`), without which a panicked heartbeat could put events
  back on a channel that does not exist.
- `PoolBooks`, `NoWedgedChannel`: `Books` is inductive relative to `Typed`. `PoolConsistent` alone is not:
  that the heartbeat flag follows the end of a heartbeat needs `OneHeartbeat` (at most one heartbeat task).
  `InFlightBacked` holds although several turns may run on one channel after an expiry, because every path
  that removes a turn from the task map also takes its channel out of flight.

`AcpCustodyProofs` follows every event through the harness.

- `NothingLost`, `NeverInTwoPlaces`, `NothingTwice`, `NothingStuck`: the inductive invariant is `Custody`. `Safekeeping`
  says that the tables of the queue and the batches of the turns share no event (`Apart`) and that every event that
  arrived is in one of them, settled, or was in a cancelled batch (`Accounted`). `Tokens` says that a steer is held by one
  turn or one ack, `Awaited` that an event in the side table has such a holder, and `Timely`, for behaviours in which
  no deadline has passed, that what is settled is held nowhere (`Fresh`) and a steered event lies in the side table
  only. None of the four properties is inductive alone: that a settled event is not put back needs to know that it is
  in no second place, and that needs to know who holds a steer. The methods of the queue are described once, by what
  they move between tables (`FlushTakes`, `ArrivalKeeps`, ...), and the steps of the harness by which of the moves they
  make.
- `OneTurnEach`: `OneTurnPerChannel` with what an unexpired channel in flight looks like (`Turns`).
- `NeverTriedAgain`: in Drop mode no turn returns its batch (`Frugal`), so neither kind of requeue is reached.

`GitPublishProofs` proves the push protocol for any number of pushers, refs and commits, any history graph and any
limits.

- `PushTypes`: `Typed` adds to the types that every digest in use (pointer, workspace, wire, history, composed
  manifest) names a stored manifest (`Bounded`); a manifest could not be looked up otherwise.
- `OneLine`: `LinearHistory` is not inductive. `Line` strengthens it: a manifest is younger than its parent
  (`Older`, because a digest can only be named once it exists), m_after and the precondition of its CAS come from the
  same pointer read (`Derived`), and published digests grow (`Rising`). A winning CAS therefore publishes a younger
  manifest than the pointer's, and no body ever comes back.
- `Clonable`: `AlwaysClonable` holds of every stored manifest, published or not (`Sound`), and of every m_after being
  uploaded once its remaining packs are (`Pending`). A delta leans on packs its parent has, a compacted set on
  nothing.
- `Hydrates`: the byte limits hold of every stored manifest and of every m_after being uploaded (`Limited`). The total of
  a manifest is the size of one set of units, so that another pack adds at most its own bytes (`BytesAdd`), which is
  what `DeltaFits` counts.
- `Linearizable` (`Spec => AtomicRefs`): a push takes effect where the store applies its PUT. The invariant has three
  parts: requests and statuses (`Asked`), one CAS per push with statuses that agree with its answer (`Once`), and
  workspace, m_after and CAS body all being the parent's refs with the push applied (`Faithful`).
- `Announced`: the CAS a push waits for carries its own m_after (`OwnCas`), its event is stored (`OwnEvent`) before
  the status is built (`Said`).

- `HostLinearizable`, `HostSafe`: the same beside announcements. The parts of the invariant speak of pushers' requests
  and leave room for one other kind, the seed of an empty repository (`Seeding`); that the empty manifest is stored
  (`EmptyStored`) makes a seed change nothing but the wire. A seed that wins publishes the refs that were there.

`DeletionProofs` proves the saga for any number of requests, executors, serving writes, keys and upsets. Every step is
one of a few kinds (`Served`, `Files`, `Aborts`, `Quiesces`, `Advances`, `Prepares`, ...), and each kind keeps `Inductive`:
the community's row follows the stage of the one open request (`Lifecycle`), quiescing recorded the owner's flag
(`Archiving`), nobody serves behind the fence (`Quiet`), what an executor saw of its request stays true although its claim
may be gone (`Seen`), stamps come after the drain and the drain after the freeze (`Stamping`), and what was verified
absent stays absent unless it is a stray (`Absent`). Nothing is assumed of when the store applies a PUT.

- `RowsAgree`, `OwnerFlagSurvives`, `ManifestHolds` are read off it. `ManifestExact` needs `Seen`: an executor that lost
  its claim may still clear or append chunks, but only of a manifest that was not frozen when it looked.
- `ErasureRefinement` (`Spec => Erasure`): each kind of step is a step of `TenantErasure` or a stutter, with
  `objects <- objects \ strays`. A late PUT that lands behind the fence is a stutter, one that lands before it is served.

`RelayLinkProofs`, for any channels, events, commands, faults, clocks and capacities:

- `LinkTypes`: two definitions need an argument. `NewestFirst` chooses an order of what the store found, so one must
  exist (`Sorts`: a smallest set without one gets one by putting its oldest event last), and `AllIntents` is a recursive
  function over the queued commands, followed one command at a time (`ManyIntents`).
- `NothingSilent`: `NoSilentSubscription` speaks of the loop, and `Attached` of every phase on a socket that may still
  work. It is stronger in one place: a REQ handler that has registered does not count, because what it registered may have
  been revoked or closed since (`Cared`). The exception is one channel on one socket: a later request for it, or a new
  socket, ends it.
- `NoneTwice`, if the events do not fill two generations of the dedup set (`WindowHolds`; `SEEN_ID_LIMIT` is the
  code's size for that): what waits in the channel or was taken is remembered (`Deduped`), and a generation rotated out
  was full but for the event dropped at that moment (`Generations`), so that a second rotation, which would forget, is
  never reached. The bound is exact: with one event more (`MaxEvents = 3`, `SeenLimit = 4`) TLC finds an event taken
  twice.
- `NoneLost`: `NoEventLost`, that is `NothingLost` until one of the five steps of `spoilt`. Each of the five is needed
  (section 4). `NothingLost` is far from inductive: that an event is on its way now says nothing of the mark its
  neighbours leave. `Followed` says of an event not yet handed over that it is `Safe` (a drop mark covers it, or a
  request for dropped events, a handler or a replayed frame has it) or `Ahead`: `last_seen` has not moved past its window,
  no frame of its channel that would move it stands before the event's own, and the relay either has sent that frame or,
  not being registered, will be asked for it by every request on the line. A new event is within `Drift <= Skew` of every
  mark (`Dated`), which is what `SINCE_SKEW_SECS` is for. The other parts say that frames of an active channel come from
  a registration (`Heard`), that nothing survives a lost connection (`Severed`), that what the dedup set knows was handed
  over (`Handed`), that a dropped event's channel will be asked for (`Reasks`), that a waiting subscription finds a blank
  channel (`Fresh`), and that a swallowed failure means a broken socket (`Swallows`). `Kinds` sorts the steps into
  fourteen kinds, and most of the parts are shown to be preserved by one case for each kind. TLC checked the parts first.

`WorkflowTriggersProofs`, for any pods, skews, periods and intervals:

- `OneRunEach`, `ClaimsKept`: a pod between claim and run is the only one at its instant (`Fires`).
- `DepartedAreRefused`: whoever passed the check was a member since the pass began (`Allowing`); an action property.
- `SchedulesBounded`, if a pass takes no longer than the sleep: pods tick in time and claim boundaries that lie between
  the first interval and the fastest clock (`Paced`), and distinct boundaries are an interval apart. Section 4 says why
  the hypothesis is needed; in the code a pass is a few queries and the sleep a minute.
- `SchedulesKept`: at its last tick a pod was content with every schedule (`Attended`), because its own anchor is less
  than an interval old and that interval is claimed, or because somebody's claim is less than an interval away
  (`Rooted`); the next tick comes within `Window + MaxLag <= Interval`. A restart, a failed read or a change of the
  workflow starts the count again (`Onset`).

`PushWakeProofs`:

- `RungOnce`: a request being sent has burnt its id, alone, and an id that rang and was heard to ring stays burnt
  (`Burnt`).
- `WakesKept`: the generation only grows and an insert open beside a lease has its job (`Ages`), a batch past its loading
  is about to queue what it owes (`Matching`), a courier turns down a current wake only when its claim has run out
  (`Carrying`), and an owed wake has not failed (`OwedWakes`). The claim may run out at any time.

`ReplicaFenceProofs`, for any pods, replicas, margins and budgets. `Sound` says that a transaction under way writes above
its guard's floor (`Guarded`), how far each probe has come with its wall (`Probing`), and what a token in a ring proves:
rows after it lie above its wall (`Proven`).

- `PagesOnLine`, `HeadsOnLine`: pages from a replica on the writer's line are complete and fresh however often the writer
  is restored.
- `PagesComplete`, `HeadsFresh`: `NoHoles` and `BoundedStaleness` for any number of pods, restores, failed probes and
  restarts. `Noticed` holds until a restore is missed: once every restore has been noticed, abandoned replicas show
  another epoch than the writer's (`Parted`), and at any time an abandoned replica has the rows of every token it can
  prove to a pod (`Covered`), while the token a probe may be bringing will be seen as a regression (`Harmless`).

Assumptions: `QueueConstants` and `HarnessConstants` (positive caps, known modes) for the harness; for git
`NoCommitAssumption`, `CommitsAssumption` (finitely many commits), `PushersAssumption`, `AnnouncersAssumption`,
`ReachAssumption` (a commit reaches itself), `BranchPrefAssumption` (the default branch exists and has a safe name) and
`LimitsAssumption`; `DeletionAssumption` and `PushAssumption` (the bounds are numbers, the null values are nobody's),
`LinkAssumption` (a channel, numbers, and clocks that disagree by no more than the skew), `FenceAssumption` (a positive
margin and ring), `ScheduleAssumption` (a period is no shorter than the window, an interval
no shorter than window and pass together). TLC evaluates them in every run. The sizes of all other sets are arbitrary.

Only model-checked: `EveryEventSettles`, `EveryRequestSettles`, `EveryEventArrives` and `EverySettles` (liveness and
ENABLED are beyond the prover).

## 6. Plan

Done: the harness and its queue, git hosting with its register, community deletion with its abstract erasure, the relay
connection, workflow triggers, the replica fence and push delivery; every safety property that a
passing run checks is proved.

Components still to model, in order of how much they rely on ordering: `PoolLifecycle` (lazy wake attempts, idle sleep),
device pairing over the ephemeral relay, the execution of workflow runs, mesh membership and fenced huddle rooms, the
audit chain.

### Not modelled

- Ingest, queries and search: one transaction each; what the database serialises is not repeated here.
- The agent runtime, the language-model client, SDK builders, media, voice, personas, the CLI and developer tools:
  requests, parsing and formatting without protocol state of their own.
- The desktop application, the web client and the studio gateway: user-interface state and rendering. They and the
  crates above are most of the repository's lines, so the share that the models cover is small although the parts whose
  correctness depends on interleavings are the ones covered.
- Cryptography, storage engines, Postgres, S3, Redis and APNs themselves; they appear as the guarantees the code relies on.
