----------------------------- MODULE AcpHarness -----------------------------
(***************************************************************************)
(* The main loop of the agent harness (crates/buzz-acp/src/lib.rs), the    *)
(* agent pool and the prompt tasks it spawns (crates/buzz-acp/src/pool.rs),*)
(* around the event queue of module EventQueue.                            *)
(*                                                                         *)
(* Concurrency.  One thread of control, the main loop, owns the queue, the *)
(* pool and the task map.  Prompt tasks, respawn tasks and steer-ack       *)
(* watchers run beside it and only talk to it through channels.  A select! *)
(* arm with its handler is one action; dispatch_pending is a loop of       *)
(* actions, one per batch, during which tasks may take steps but the main  *)
(* loop does nothing else.  pc is where the main loop stands:              *)
(*                                                                         *)
(*   top     -> (maintenance -> dispatch_maintain) -> collect              *)
(*           -> (respawned agents -> dispatch_collect) -> select           *)
(*   select  -> an arm -> (drain) -> dispatch_select -> top                *)
(*                                                                         *)
(* Abstractions.  Sessions and which idle agent try_claim prefers: any     *)
(* idle agent.  The crash window of the circuit breaker: whether a crash   *)
(* of a closed circuit is the one that opens it is a free choice.  Notices,*)
(* reactions, typing indicators and observer frames are left out.          *)
(***************************************************************************)
EXTENDS EventQueue

CONSTANTS
    Agent,            \* agent slots (config.agents)
    NoChannel,        \* the "channel" of a heartbeat turn
    EventHandling,    \* --multiple-event-handling
    Heartbeats,       \* whether heartbeat_interval_secs > 0
    Timers,           \* whether presence, typing or a reaper ticks the select!
    OwnerControls,    \* control frames the owner may send to a running turn
    MaxFailures,      \* bound: turns that fail or panic, failed respawns
    MaxExpiries       \* bound: in-flight deadlines that pass

ASSUME HarnessConstants ==
    /\ NoChannel \notin Channel
    /\ EventHandling \in {"Queue", "Steer", "Interrupt", "OwnerInterrupt"}
    /\ Heartbeats \in BOOLEAN
    /\ Timers \in BOOLEAN
    /\ OwnerControls \subseteq {"cancel", "interrupt"}
    /\ MaxFailures \in Nat
    /\ MaxExpiries \in Nat

VARIABLES
    queue,                \* EventQueue
    slots,                \* state of each agent slot
    circuit,              \* SlotCircuit.open_until of each slot
    tasks,                \* task_map, with what each prompt task has done
    acks,                 \* steer acks on their way to the main loop
    removed,              \* removed_channels
    heartbeat_in_flight,
    pc,                   \* where the main loop stands
    next,                 \* the next event to arrive
    settled,              \* history: events delivered, dead-lettered or dropped
    interrupted,          \* history: events that were ever in cancelled_batches
    failures, expiries    \* counters of the two bounds

vars == <<queue, slots, circuit, tasks, acks, removed, heartbeat_in_flight,
          pc, next, settled, interrupted, failures, expiries>>

loopVars == <<removed, heartbeat_in_flight, next>>
bounds   == <<failures, expiries>>

-----------------------------------------------------------------------------
(* Prompt tasks.  A task is a TaskMeta with the batch it works on.          *)
(* phase: "none" (no task), "running", "panicked", or the PromptOutcome it  *)
(* has sent; back: whether the PromptResult carries the batch.              *)

ErrorOutcomes == {"auth", "app", "transport"}
FailOutcomes  == ErrorOutcomes \cup {"exited", "idle", "hard", "hard_active"}
Outcomes      == FailOutcomes \cup {"ok", "cancelled", "drain_timeout"}

Fatal == {"exited", "idle", "hard", "hard_active", "drain_timeout", "transport"}

Task ==
    [ch : Channel \cup {NoChannel}, events : Seq(Event), cancelled : Seq(Event),
     reason : Reason,
     control : {"none", "armed", "steer", "interrupt", "cancel"},
     steer_rx : SUBSET Event,      \* the capacity-1 steer channel
     pending_steer : SUBSET Event, \* the steer written, not yet answered
     phase : {"none", "running", "panicked"} \cup Outcomes,
     back : BOOLEAN]

NoTask ==
    [ch |-> NoChannel, events |-> <<>>, cancelled |-> <<>>, reason |-> "none",
     control |-> "none", steer_rx |-> {}, pending_steer |-> {},
     phase |-> "none", back |-> FALSE]

NewTask(b) ==
    [NoTask EXCEPT !.ch = b.ch, !.events = b.events, !.cancelled = b.cancelled,
                   !.reason = b.reason, !.control = "armed", !.phase = "running"]

HeartbeatTask == [NoTask EXCEPT !.phase = "running"]

BatchOf(t) ==
    [ch |-> t.ch, events |-> t.events, cancelled |-> t.cancelled, reason |-> t.reason]

EventsOf(t) == ToSet(t.events) \cup ToSet(t.cancelled)

InTaskMap(a) == tasks[a].phase # "none"

TasksOn(c) == {a \in Agent : InTaskMap(a) /\ tasks[a].ch = c}

Idle == {a \in Agent : slots[a] = "idle"}

RespawnInFlight == {"respawning", "respawned", "failed"}

(* live_count() == 0 && !any_respawn_in_flight(): the loop exits *)
AllDead(ss) == \A a \in Agent : ss[a] = "empty"

(* biased select!: a result that is ready is taken before any other arm *)
NoResult == \A a \in Agent : tasks[a].phase \notin Outcomes

-----------------------------------------------------------------------------
Init ==
    /\ queue = NewQueue
    /\ slots = [a \in Agent |-> "idle"]
    /\ circuit = [a \in Agent |-> "closed"]
    /\ tasks = [a \in Agent |-> NoTask]
    /\ acks = {}
    /\ removed = {}
    /\ heartbeat_in_flight = FALSE
    /\ pc = "top"
    /\ next = 1
    /\ settled = {}
    /\ interrupted = {}
    /\ failures = 0
    /\ expiries = 0

-----------------------------------------------------------------------------
(* The top of the loop                                                     *)

NotDue ==
    /\ pc = "top"
    /\ pc' = "collect"
    /\ UNCHANGED <<queue, slots, circuit, tasks, acks, settled, interrupted, loopVars, bounds>>

(* Maintenance: compact, refill empty slots whose circuit allows it, and    *)
(* dispatch if a throttle has expired.                                      *)
CanRefill(a) == slots[a] = "empty" /\ circuit[a] # "open"

(* Mutant: maintenance does not look for work whose throttle expired. *)
MaintainWithoutDispatch ==
    /\ pc = "top"
    /\ slots' = [a \in Agent |-> IF CanRefill(a) THEN "respawning" ELSE slots[a]]
    /\ circuit' = [a \in Agent |-> IF CanRefill(a) THEN "closed" ELSE circuit[a]]
    /\ queue' = CompactExpiredState(queue)
    /\ pc' = "collect"
    /\ UNCHANGED <<tasks, acks, settled, interrupted, loopVars, bounds>>

Maintain ==
    LET compacted == CompactExpiredState(queue)
    IN  /\ pc = "top"
        /\ slots' = [a \in Agent |-> IF CanRefill(a) THEN "respawning" ELSE slots[a]]
        /\ circuit' = [a \in Agent |-> IF CanRefill(a) THEN "closed" ELSE circuit[a]]
        /\ queue' = Expire(compacted)
        /\ settled' = settled \cup ExpiryOverflow(compacted)
        /\ pc' = IF HasFlushableWork(compacted) THEN "dispatch_maintain" ELSE "collect"
        /\ UNCHANGED <<tasks, acks, interrupted, loopVars, bounds>>

(* Collect every respawn result that has arrived. *)
Collect ==
    /\ pc = "collect"
    /\ slots' = [a \in Agent |-> CASE slots[a] = "respawned" -> "idle"
                                   [] slots[a] = "failed"    -> "empty"
                                   [] OTHER                  -> slots[a]]
    /\ circuit' = [a \in Agent |-> IF slots[a] = "failed" THEN "open" ELSE circuit[a]]
    /\ pc' = IF \E a \in Agent : slots[a] = "respawned" THEN "dispatch_collect"
                                                        ELSE "select"
    /\ UNCHANGED <<queue, tasks, acks, settled, interrupted, loopVars, bounds>>

-----------------------------------------------------------------------------
(* dispatch_pending: flush_next until it returns None or no agent is idle  *)

Dispatching == pc \in {"dispatch_maintain", "dispatch_collect", "dispatch_select"}

AfterDispatch ==
    CASE pc = "dispatch_maintain" -> "collect"
      [] pc = "dispatch_collect"  -> "select"
      [] OTHER                    -> "top"

(* Every flush_next first releases the channels whose deadline passed. *)
Released == Expire(queue)

DispatchNothing ==
    /\ Dispatching
    /\ Ready(Released) = {} /\ CancelledReady(Released) = {}
    /\ queue' = Released
    /\ settled' = settled \cup ExpiryOverflow(queue)
    /\ pc' = AfterDispatch
    /\ UNCHANGED <<slots, circuit, tasks, acks, interrupted, loopVars, bounds>>

(* try_claim found an agent: spawn the prompt task. *)
Claim(flushed, b) ==
    \E a \in Idle :
        /\ slots' = [slots EXCEPT ![a] = "busy"]
        /\ tasks' = [tasks EXCEPT ![a] = NewTask(b)]
        /\ queue' = flushed
        /\ settled' = settled \cup ExpiryOverflow(queue)
        /\ pc' = pc
        /\ UNCHANGED <<circuit, acks, interrupted, loopVars, bounds>>

(* No idle agent: put the batch back and stop dispatching. *)
PoolExhausted(flushed, b) ==
    /\ Idle = {}
    /\ queue' = MarkComplete(RequeuePreserveTimestamps(flushed, b), b.ch)
    /\ settled' = settled \cup ExpiryOverflow(queue) \cup Trimmed(PutBack(flushed, b))
    /\ pc' = AfterDispatch
    /\ UNCHANGED <<slots, circuit, tasks, acks, interrupted, loopVars, bounds>>

DispatchQueued ==
    /\ Dispatching
    /\ \E b \in QueuedBatches(Released) :
          \/ Claim(FlushQueued(Released, b.ch), b)
          \/ PoolExhausted(FlushQueued(Released, b.ch), b)

DispatchCancelled ==
    /\ Dispatching
    /\ Ready(Released) = {}
    /\ \E b \in CancelledBatches(Released) :
          \/ Claim(FlushCancelled(Released, b.ch), b)
          \/ PoolExhausted(FlushCancelled(Released, b.ch), b)

-----------------------------------------------------------------------------
(* signal_in_flight_task: the sender is taken, so a turn gets one signal.   *)

Signal(a, s) ==
    IF tasks[a].control = "armed" THEN [tasks EXCEPT ![a].control = s] ELSE tasks

Signalled(c, s) ==
    IF TasksOn(c) = {} THEN {tasks} ELSE {Signal(a, s) : a \in TasksOn(c)}

-----------------------------------------------------------------------------
(* The relay arm                                                           *)

SelectIdle == pc = "select" /\ NoResult

ModeGateSignals ==
    CASE EventHandling = "Queue"     -> {}
      [] EventHandling = "Steer"     -> {"steer"}
      [] EventHandling = "Interrupt" -> {"interrupt"}
      [] OTHER                       -> {"interrupt"}  \* if the author is the owner

(* Whether the event leaves the running turn alone. *)
MayJustQueue(c) ==
    c \notin queue.in_flight \/ EventHandling \in {"Queue", "OwnerInterrupt"}

Arrives(c) ==
    /\ SelectIdle
    /\ next \in Event
    /\ next' = next + 1
    /\ pc' = "dispatch_select"
    /\ UNCHANGED <<slots, circuit, interrupted, removed, heartbeat_in_flight, bounds>>

PushDrops(c) == ToSet(queue.queues[c]) \ ToSet(MakeRoom(queue.queues[c]))

(* DedupMode::Drop rejects the event. *)
EventDropped(c) ==
    /\ Arrives(c)
    /\ ~Accepts(queue, c)
    /\ settled' = settled \cup {next}
    /\ UNCHANGED <<queue, tasks, acks>>

EventQueued(c) ==
    /\ Arrives(c)
    /\ Accepts(queue, c)
    /\ MayJustQueue(c)
    /\ queue' = Push(queue, c, next)
    /\ settled' = settled \cup PushDrops(c)
    /\ UNCHANGED <<tasks, acks>>

(* try_native_steer: the capacity-1 channel of the running task took it, so *)
(* the event is withheld before anything else can run.                      *)
CanSteer(a) == tasks[a].phase = "running" /\ tasks[a].steer_rx = {}

EventSteered(c) ==
    /\ Arrives(c)
    /\ Accepts(queue, c)
    /\ c \in queue.in_flight
    /\ "steer" \in ModeGateSignals
    /\ \E a \in TasksOn(c) :
          /\ CanSteer(a)
          /\ tasks' = [tasks EXCEPT ![a].steer_rx = {next}]
    /\ queue' = MarkNativeSteerPending(Push(queue, c, next), c, next)
    /\ settled' = settled \cup PushDrops(c)
    /\ UNCHANGED acks

(* Interrupt, or the cancel+merge fallback of a steer that was not taken. *)
EventSignals(c) ==
    /\ Arrives(c)
    /\ Accepts(queue, c)
    /\ c \in queue.in_flight
    /\ \E s \in ModeGateSignals :
          /\ s = "steer" => TasksOn(c) = {} \/ \E a \in TasksOn(c) : ~CanSteer(a)
          /\ tasks' \in Signalled(c, s)
    /\ queue' = Push(queue, c, next)
    /\ settled' = settled \cup PushDrops(c)
    /\ UNCHANGED acks

(* !cancel, !rotate and observer frames: consumed, never queued. *)
OwnerControl(c) ==
    /\ SelectIdle
    /\ \E s \in OwnerControls : tasks' \in Signalled(c, s)
    /\ pc' = "top"
    /\ UNCHANGED <<queue, slots, circuit, acks, settled, interrupted, loopVars, bounds>>

MembershipRemoved(c) ==
    /\ SelectIdle
    /\ queue' = DrainChannel(queue, c)
    /\ removed' = removed \cup {c}
    /\ settled' = settled \cup Pending(queue, c)
    /\ pc' = "top"
    /\ UNCHANGED <<slots, circuit, tasks, acks, heartbeat_in_flight, next, interrupted, bounds>>

MembershipAdded(c) ==
    /\ SelectIdle
    /\ removed' = removed \ {c}
    /\ pc' = "top"
    /\ UNCHANGED <<queue, slots, circuit, tasks, acks, heartbeat_in_flight, next, settled,
                   interrupted, bounds>>

-----------------------------------------------------------------------------
(* Timer arms                                                              *)

(* Presence, typing and reaper ticks only make the loop go round. *)
Tick ==
    /\ SelectIdle
    /\ Timers
    /\ pc' = "top"
    /\ UNCHANGED <<queue, slots, circuit, tasks, acks, settled, interrupted, loopVars, bounds>>

HeartbeatFired ==
    /\ SelectIdle
    /\ Heartbeats
    /\ queue' = Expire(queue)
    /\ settled' = settled \cup ExpiryOverflow(queue)
    /\ \/ /\ HasFlushableWork(queue)
          /\ pc' = "dispatch_select"
          /\ UNCHANGED <<slots, tasks, heartbeat_in_flight>>
       \/ /\ ~HasFlushableWork(queue)
          /\ ~heartbeat_in_flight
          /\ \E a \in Idle :
                /\ slots' = [slots EXCEPT ![a] = "busy"]
                /\ tasks' = [tasks EXCEPT ![a] = HeartbeatTask]
          /\ heartbeat_in_flight' = TRUE
          /\ pc' = "top"
       \/ /\ ~HasFlushableWork(queue)
          /\ heartbeat_in_flight \/ Idle = {}
          /\ pc' = "top"
          /\ UNCHANGED <<slots, tasks, heartbeat_in_flight>>
    /\ UNCHANGED <<circuit, acks, removed, next, interrupted, bounds>>

Shutdown ==
    /\ SelectIdle
    /\ pc' = "exited"
    /\ UNCHANGED <<queue, slots, circuit, tasks, acks, settled, interrupted, loopVars, bounds>>

-----------------------------------------------------------------------------
(* The result arm: handle_prompt_result                                    *)

(* What becomes of the batch of a finished turn.  The batch is put back     *)
(* BEFORE mark_complete, which looks at retry_after.                        *)
Cancelled(t)    == t.phase \in {"cancelled", "drain_timeout"}
DeadLettered(t) == t.phase \in {"hard", "auth"}
Returned(t)     == t.back /\ t.ch \notin removed

Retried(t) == Returned(t) /\ ~Cancelled(t) /\ ~DeadLettered(t)

ReasonOf(t) == IF t.reason = "none" THEN "steer" ELSE t.reason

Disposed(t) ==
    IF Returned(t) /\ Cancelled(t)
    THEN RequeueAsCancelled(queue, BatchOf(t), ReasonOf(t))
    ELSE IF Retried(t) THEN Requeue(queue, BatchOf(t)) ELSE queue

(* The events whose story ends here: delivered, dead-lettered, dropped.     *)
Settles(t) ==
    IF Returned(t) /\ Cancelled(t) THEN {}
    ELSE IF Retried(t) /\ ~Exhausted(queue, BatchOf(t))
         THEN Trimmed(PutBack(queue, BatchOf(t)))
         ELSE EventsOf(t)

(* Mutant: no mark_complete for a channel the agent was removed from. *)
CompletedUnlessRemoved(q, t) ==
    IF t.ch \in removed \cup {NoChannel} THEN q ELSE MarkComplete(q, t.ch)

Completed(q, t) == IF t.ch = NoChannel THEN q ELSE MarkComplete(q, t.ch)

(* Mutant: a slot is respawned although its circuit just opened. *)
CrashVerdictsRespawnAnyway(k) == {<<"respawning", "closed">>, <<"respawning", "open">>}

(* SlotCircuit::record_crash: the slot and the circuit after a crash.       *)
CrashVerdicts(k) ==
    CASE k = "closed" -> {<<"respawning", "closed">>, <<"empty", "open">>}
      [] k = "open"   -> {<<"empty", "open">>}
      [] OTHER        -> {<<"respawning", "closed">>}

(* The agent goes back to its slot, or is respawned through the circuit.    *)
AgentReturns(a, fatal) ==
    \/ /\ ~fatal
       /\ slots' = [slots EXCEPT ![a] = "idle"]
       /\ UNCHANGED circuit
    \/ /\ fatal
       /\ \E v \in CrashVerdicts(circuit[a]) :
             /\ slots' = [slots EXCEPT ![a] = v[1]]
             /\ circuit' = [circuit EXCEPT ![a] = v[2]]

HandleResult(a) ==
    LET t == tasks[a]
    IN  /\ pc = "select"
        /\ t.phase \in Outcomes
        /\ queue' = Completed(Disposed(t), t)
        /\ settled' = settled \cup Settles(t)
        /\ interrupted' = IF Returned(t) /\ Cancelled(t)
                          THEN interrupted \cup EventsOf(t) ELSE interrupted
        /\ tasks' = [tasks EXCEPT ![a] = NoTask]
        /\ heartbeat_in_flight' = (heartbeat_in_flight /\ t.ch # NoChannel)
        /\ AgentReturns(a, t.phase \in Fatal)
        /\ pc' = IF AllDead(slots') THEN "exited" ELSE "drain"
        /\ UNCHANGED <<acks, removed, next, bounds>>

(* Mutant: a panic puts the batch back whatever the dedup mode. *)
RecoverableInDropMode(t) == t.ch \notin removed \cup {NoChannel}

(* recover_panicked_agent, from the panic arm of the select! and from       *)
(* drain_ready_join_results.                                                *)
Recoverable(t) == DedupMode = "Queue" /\ t.ch \notin removed \cup {NoChannel}

RecoverPanicked(a) ==
    LET t == tasks[a]
        b == BatchOf(t)
    IN  /\ SelectIdle \/ pc = "drain"
        /\ t.phase = "panicked"
        /\ queue' = Completed(IF Recoverable(t) THEN Requeue(queue, b) ELSE queue, t)
        /\ settled' = settled \cup
              IF Recoverable(t) /\ ~Exhausted(queue, b) THEN Trimmed(PutBack(queue, b))
                                                        ELSE EventsOf(t)
        /\ tasks' = [tasks EXCEPT ![a] = NoTask]
        /\ heartbeat_in_flight' = (heartbeat_in_flight /\ t.ch # NoChannel)
        /\ AgentReturns(a, TRUE)
        /\ pc' = IF AllDead(slots') THEN "exited"
                 ELSE IF pc = "drain" THEN "drain" ELSE "dispatch_select"
        /\ UNCHANGED <<acks, removed, next, interrupted, bounds>>

DrainDone ==
    /\ pc = "drain"
    /\ pc' = "dispatch_select"
    /\ UNCHANGED <<queue, slots, circuit, tasks, acks, settled, interrupted, loopVars, bounds>>

-----------------------------------------------------------------------------
(* The steer-ack arm.  "fallback" stands for the acks that release the      *)
(* event and fire cancel+merge (method_not_found, Transport,                *)
(* ExpectedRunIdMissing, OutcomeRejected), "release" for the ones that only *)
(* release it (AgentError, PromptCompletedNeutral, a dropped sender).       *)

SteerAckKinds == {"success", "fallback", "release"}

SteerAck == [ch : Channel, event : Event, ack : SteerAckKinds]

ReleaseDrops(k) ==
    IF Contains(queue.withheld[k.ch], k.event)
    THEN Trimmed(<<k.event>> \o queue.queues[k.ch]) ELSE {}

HandleSteerAck(k) ==
    /\ SelectIdle
    /\ acks' = acks \ {k}
    /\ \/ /\ k.ack = "success"
          /\ queue' = RemoveEvent(ExtendInFlightDeadline(queue, k.ch), k.ch, k.event)
          /\ settled' = settled \cup {k.event}
          /\ UNCHANGED tasks
       \/ /\ k.ack = "release"
          /\ queue' = ReleaseNativeSteer(queue, k.ch, k.event)
          /\ settled' = settled \cup ReleaseDrops(k)
          /\ UNCHANGED tasks
       \/ /\ k.ack = "fallback"
          /\ queue' = ReleaseNativeSteer(queue, k.ch, k.event)
          /\ settled' = settled \cup ReleaseDrops(k)
          /\ tasks' \in Signalled(k.ch, "steer")
    /\ pc' = "dispatch_select"
    /\ UNCHANGED <<slots, circuit, interrupted, loopVars, bounds>>

-----------------------------------------------------------------------------
(* Prompt tasks (run_prompt_task) and their read loop                      *)

Running == pc # "exited"

taskUnchanged ==
    UNCHANGED <<queue, slots, circuit, pc, settled, interrupted, loopVars, expiries>>

(* The steer arm of the read loop writes the request, or answers at once    *)
(* that there is no transport for it.                                       *)
WriteSteer(a) ==
    /\ Running
    /\ tasks[a].phase = "running"
    /\ tasks[a].pending_steer = {}
    /\ tasks[a].steer_rx # {}
    /\ \/ /\ tasks' = [tasks EXCEPT ![a].pending_steer = tasks[a].steer_rx,
                                    ![a].steer_rx = {}]
          /\ UNCHANGED acks
       \/ /\ tasks' = [tasks EXCEPT ![a].steer_rx = {}]
          /\ acks' = acks \cup {[ch |-> tasks[a].ch, event |-> e, ack |-> "fallback"] :
                                  e \in tasks[a].steer_rx}
    /\ UNCHANGED failures
    /\ taskUnchanged

SteerReply(a) ==
    /\ Running
    /\ tasks[a].phase = "running"
    /\ tasks[a].pending_steer # {}
    /\ tasks' = [tasks EXCEPT ![a].pending_steer = {}]
    /\ \E k \in SteerAckKinds :
          acks' = acks \cup {[ch |-> tasks[a].ch, event |-> e, ack |-> k] :
                               e \in tasks[a].pending_steer}
    /\ UNCHANGED failures
    /\ taskUnchanged

(* Mutant: a task ends and its steers are never answered. *)
EndsSilently(a, phase, back, reason) ==
    /\ Running
    /\ tasks[a].phase = "running"
    /\ tasks' = [tasks EXCEPT ![a] = [@ EXCEPT !.phase = phase, !.back = back,
                                               !.reason = reason, !.steer_rx = {},
                                               !.pending_steer = {}]]
    /\ UNCHANGED acks
    /\ taskUnchanged

(* A task ends: every steer it still holds is answered neutrally. *)
Ends(a, phase, back, reason) ==
    /\ Running
    /\ tasks[a].phase = "running"
    /\ tasks' = [tasks EXCEPT ![a] = [@ EXCEPT !.phase = phase, !.back = back,
                                               !.reason = reason, !.steer_rx = {},
                                               !.pending_steer = {}]]
    /\ acks' = acks \cup {[ch |-> tasks[a].ch, event |-> e, ack |-> "release"] :
                            e \in tasks[a].steer_rx \cup tasks[a].pending_steer}
    /\ taskUnchanged

Fails ==
    /\ failures < MaxFailures
    /\ failures' = failures + 1

(* requeue_batch_if_queue *)
KeepsBatch(a) == DedupMode = "Queue" /\ tasks[a].ch # NoChannel

(* The turn completed, before or after a control signal was sent to it. *)
TurnOk(a) ==
    /\ Ends(a, "ok", FALSE, tasks[a].reason)
    /\ UNCHANGED failures

TurnFails(a) ==
    /\ Fails
    /\ \E o \in FailOutcomes : Ends(a, o, KeepsBatch(a), tasks[a].reason)

(* requeue_cancelled_batch: a cancelled turn keeps its batch unless the     *)
(* owner cancelled or rotated it.                                           *)
CancelReason(a) ==
    IF tasks[a].control \in {"steer", "interrupt"} THEN tasks[a].control ELSE tasks[a].reason

KeepsCancelled(a) == KeepsBatch(a) /\ tasks[a].control # "cancel"

TurnCancelled(a) ==
    /\ tasks[a].control \in {"steer", "interrupt", "cancel"}
    /\ Ends(a, "cancelled", KeepsCancelled(a), CancelReason(a))
    /\ UNCHANGED failures

(* classify_control_cancel_failure *)
TurnCancelFails(a) ==
    /\ tasks[a].control \in {"steer", "interrupt", "cancel"}
    /\ Fails
    /\ \E o \in {"drain_timeout", "exited", "idle"} \cup ErrorOutcomes :
          Ends(a, o, KeepsCancelled(a), CancelReason(a))

TurnPanics(a) ==
    /\ Fails
    /\ Ends(a, "panicked", FALSE, tasks[a].reason)

-----------------------------------------------------------------------------
(* Respawn tasks and the clock                                             *)

RespawnEnds(a) ==
    /\ Running
    /\ slots[a] = "respawning"
    /\ \/ slots' = [slots EXCEPT ![a] = "respawned"] /\ UNCHANGED failures
       \/ slots' = [slots EXCEPT ![a] = "failed"] /\ Fails
    /\ UNCHANGED <<queue, circuit, tasks, acks, pc, settled, interrupted, loopVars, expiries>>

CooldownElapses(a) ==
    /\ Running
    /\ circuit[a] = "open"
    /\ circuit' = [circuit EXCEPT ![a] = "cooled"]
    /\ UNCHANGED <<queue, slots, tasks, acks, pc, settled, interrupted, loopVars, bounds>>

BackoffElapses(c) ==
    /\ Running
    /\ queue.retry_after[c] = "future"
    /\ queue' = [queue EXCEPT !.retry_after[c] = "past"]
    /\ UNCHANGED <<slots, circuit, tasks, acks, pc, settled, interrupted, loopVars, bounds>>

DeadlinePasses(c) ==
    /\ Running
    /\ c \in queue.in_flight \ queue.due
    /\ expiries < MaxExpiries
    /\ expiries' = expiries + 1
    /\ queue' = [queue EXCEPT !.due = @ \cup {c}]
    /\ UNCHANGED <<slots, circuit, tasks, acks, pc, settled, interrupted, loopVars, failures>>

-----------------------------------------------------------------------------
LoopStep ==
    \/ NotDue \/ Maintain \/ Collect
    \/ DispatchNothing \/ DispatchQueued \/ DispatchCancelled
    \/ \E a \in Agent : HandleResult(a)
    \/ DrainDone

PanicStep == \E a \in Agent : RecoverPanicked(a)
AckStep   == \E k \in acks : HandleSteerAck(k)

RelayStep ==
    \E c \in Channel :
        \/ EventDropped(c) \/ EventQueued(c) \/ EventSteered(c) \/ EventSignals(c)
        \/ OwnerControl(c) \/ MembershipRemoved(c) \/ MembershipAdded(c)

TurnEnds(a) ==
    \/ TurnOk(a) \/ TurnFails(a) \/ TurnCancelled(a) \/ TurnCancelFails(a)
    \/ TurnPanics(a)

TaskStep(a) == WriteSteer(a) \/ SteerReply(a) \/ TurnEnds(a)

ClockStep ==
    \/ \E a \in Agent : RespawnEnds(a) \/ CooldownElapses(a)
    \/ \E c \in Channel : BackoffElapses(c) \/ DeadlinePasses(c)

Next ==
    \/ LoopStep \/ PanicStep \/ AckStep \/ RelayStep
    \/ Tick \/ HeartbeatFired \/ Shutdown
    \/ \E a \in Agent : TaskStep(a)
    \/ ClockStep

Spec == Init /\ [][Next]_vars

(* Fairness.  The loop body always runs on (WF of its steps).  The panic    *)
(* and ack arms outrank the relay and timer arms in the biased select!, so  *)
(* they are not passed over for ever (SF).  Maintenance is due every 30 s,  *)
(* so a loop that keeps coming round runs it (SF).  A turn ends because of  *)
(* max_turn_duration, a respawn because spawn_and_init is bounded, and      *)
(* clocks advance.  Nothing is assumed of the relay or the owner.           *)
Fairness ==
    /\ WF_vars(LoopStep)
    /\ SF_vars(Maintain)
    /\ SF_vars(PanicStep)
    /\ SF_vars(AckStep)
    /\ WF_vars(Tick)
    /\ \A a \in Agent : /\ WF_vars(TurnEnds(a))
                        /\ WF_vars(RespawnEnds(a))
                        /\ WF_vars(CooldownElapses(a))
    /\ \A c \in Channel : WF_vars(BackoffElapses(c))

FairSpec == Spec /\ Fairness

-----------------------------------------------------------------------------
(* Properties                                                              *)

SlotStates == {"idle", "busy", "empty"} \cup RespawnInFlight

LoopPoints == {"top", "collect", "select", "drain", "exited", "dispatch_maintain",
               "dispatch_collect", "dispatch_select"}

(* The state is well typed: in particular retry counters stay within        *)
(* MAX_RETRIES and only a channel in flight has a deadline that passed.     *)
TypeOK ==
    /\ queue \in EventQueue
    /\ queue.due \subseteq queue.in_flight
    /\ slots \in [Agent -> SlotStates]
    /\ circuit \in [Agent -> {"closed", "open", "cooled"}]
    /\ tasks \in [Agent -> Task]
    /\ acks \subseteq SteerAck
    /\ removed \subseteq Channel
    /\ heartbeat_in_flight \in BOOLEAN
    /\ pc \in LoopPoints
    /\ next \in 1..(MaxEvents + 1)
    /\ settled \subseteq Event
    /\ interrupted \subseteq Event
    /\ failures \in 0..MaxFailures
    /\ expiries \in 0..MaxExpiries

Arrived == 1..(next - 1)

Held ==
    (UNION {Pending(queue, c) : c \in Channel}) \cup
    (UNION {EventsOf(tasks[a]) : a \in Agent})

(* No event that reached the queue disappears: it is queued, withheld,      *)
(* waiting to be merged, in a running turn, or its story has ended.  Events *)
(* of a cancelled batch are excepted here: see CancelledEventsSurvive.      *)
NoEventLost == Arrived \subseteq Held \cup settled \cup interrupted

(* The documented promise without the exception: requeue "prevents event    *)
(* loss when session creation or session/prompt fails transiently", and the *)
(* events merged from a cancelled turn are part of the batch.               *)
CancelledEventsSurvive == Arrived \subseteq Held \cup settled

(* While no in-flight deadline has passed, an event whose story has ended   *)
(* (delivered, steered, dead-lettered or dropped) is never held again, so   *)
(* it is never prompted a second time.                                      *)
NeverRedelivered == expiries = 0 => settled \cap Held = {}

NoRepeats(s) == \A i, j \in DOMAIN s : s[i] = s[j] => i = j

(* An event is in one place at a time: one table of the queue or the batch  *)
(* of one turn, once.                                                       *)
OnePlace ==
    /\ \A c \in Channel :
          /\ NoRepeats(queue.queues[c] \o queue.cancelled[c] \o queue.withheld[c])
          /\ \A d \in Channel \ {c} : Pending(queue, c) \cap Pending(queue, d) = {}
          /\ \A a \in Agent : Pending(queue, c) \cap EventsOf(tasks[a]) = {}
    /\ \A a \in Agent :
          /\ NoRepeats(tasks[a].events \o tasks[a].cancelled)
          /\ \A b \in Agent \ {a} : EventsOf(tasks[a]) \cap EventsOf(tasks[b]) = {}

(* A channel marked in flight has a turn in the task map, whose end will    *)
(* release it: no channel is wedged, whatever dies or expires.              *)
InFlightBacked == \A c \in queue.in_flight : TasksOn(c) # {}

(* While no in-flight deadline has passed, a channel has at most one turn   *)
(* and is in flight as long as it runs.                                     *)
OneTurnPerChannel ==
    expiries = 0 =>
        \A a \in Agent :
            InTaskMap(a) /\ tasks[a].ch # NoChannel =>
                /\ tasks[a].ch \in queue.in_flight
                /\ TasksOn(tasks[a].ch) = {a}

(* A withheld event still has somebody who will answer its steer, so it is  *)
(* not stuck in the side table.                                             *)
WithheldAwaitsAck ==
    \A c \in Channel : \A e \in InWithheld(queue, c) :
        \/ \E a \in TasksOn(c) : e \in tasks[a].steer_rx \cup tasks[a].pending_steer
        \/ \E k \in acks : k.ch = c /\ k.event = e

(* A channel that is backing off remembers how many attempts it has used,   *)
(* through mark_complete and compaction.                                    *)
BackoffRemembersAttempts ==
    \A c \in Channel : queue.retry_after[c] = "future" => queue.retry_counts[c] > 0

(* The depth cap holds however pushes, requeues, releases and recoveries    *)
(* follow each other.                                                       *)
QueueBounded == \A c \in Channel : Len(queue.queues[c]) <= MaxPending

(* The pool's books agree: a slot is checked out iff the task map has its   *)
(* turn, the heartbeat flag is set iff a heartbeat runs, and an agent only  *)
(* lives behind a closed circuit.                                           *)
PoolConsistent ==
    /\ \A a \in Agent : /\ slots[a] = "busy" <=> InTaskMap(a)
                        /\ slots[a] # "empty" => circuit[a] = "closed"
    /\ heartbeat_in_flight <=> \E a \in Agent : InTaskMap(a) /\ tasks[a].ch = NoChannel

(* In Drop mode nothing is ever tried again: no attempt is counted and no   *)
(* batch waits to be merged, however turns fail, panic or are cancelled.    *)
DropNeverRetries ==
    DedupMode = "Drop" =>
        \A c \in Channel : queue.retry_counts[c] = 0 /\ queue.cancelled[c] = <<>>

(* Nothing waits for ever: whoever holds an event (a queue, the side table, *)
(* a cancelled batch, a turn) gives it up at last, unless the harness exits.*)
EveryEventSettles ==
    \A e \in Event : (e \in Arrived) ~> (e \notin Held \/ pc = "exited")
=============================================================================
