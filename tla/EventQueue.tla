----------------------------- MODULE EventQueue -----------------------------
(***************************************************************************)
(* The per-channel event queue of the agent harness                        *)
(* (crates/buzz-acp/src/queue.rs, struct EventQueue).                      *)
(*                                                                         *)
(* The queue is a value: a record with one component per field of the      *)
(* struct, and one operator per method, from the record before the call to *)
(* the record after it.  The harness main loop (module AcpHarness) owns    *)
(* the record and applies several methods in one handler, so the methods   *)
(* have to compose.                                                        *)
(*                                                                         *)
(* Abstractions.                                                           *)
(*  - An event is a number, its rank in order of arrival, which is the     *)
(*    order of received_at.  CreatedAt gives the author's timestamp, which *)
(*    relay replay may deliver in any order.                               *)
(*  - An Instant is compared only with now, so a stored retry_after is     *)
(*    "none" (no entry), "future" or "past", and the stored deadline of an *)
(*    in-flight channel has passed iff the channel is in `due'.            *)
(*  - A HashMap from channels to sequences is a total function; no entry   *)
(*    and an empty sequence are the same, as they are for every method.    *)
(*  - in_flight_batch_sizes only feeds a log line and is left out.         *)
(***************************************************************************)
EXTENDS Integers, SequencesExt

CONSTANTS
    Channel,        \* channels the agent is subscribed to
    MaxEvents,      \* bound: how many events the relay delivers
    CreatedAt,      \* created_at of each event
    DedupMode,      \* "Drop" or "Queue"
    MaxPending,     \* MAX_PENDING_PER_CHANNEL
    MaxBatch,       \* MAX_BATCH_EVENTS
    MaxRetries      \* MAX_RETRIES

Event == 1..MaxEvents

ASSUME QueueConstants ==
    /\ MaxEvents \in Nat
    /\ CreatedAt \in [Event -> Nat]
    /\ DedupMode \in {"Drop", "Queue"}
    /\ MaxPending \in Nat \ {0}
    /\ MaxBatch \in Nat \ {0}
    /\ MaxRetries \in Nat

Reason == {"none", "steer", "interrupt"}

EventQueue ==
    [queues       : [Channel -> Seq(Event)],
     in_flight    : SUBSET Channel,
     due          : SUBSET Channel,
     retry_after  : [Channel -> {"none", "future", "past"}],
     retry_counts : [Channel -> 0..MaxRetries],
     cancelled    : [Channel -> Seq(Event)],
     reasons      : [Channel -> Reason],
     withheld     : [Channel -> Seq(Event)]]

FlushBatch ==
    [ch : Channel, events : Seq(Event), cancelled : Seq(Event), reason : Reason]

(* EventQueue::new *)
NewQueue ==
    [queues       |-> [c \in Channel |-> <<>>],
     in_flight    |-> {},
     due          |-> {},
     retry_after  |-> [c \in Channel |-> "none"],
     retry_counts |-> [c \in Channel |-> 0],
     cancelled    |-> [c \in Channel |-> <<>>],
     reasons      |-> [c \in Channel |-> "none"],
     withheld     |-> [c \in Channel |-> <<>>]]

-----------------------------------------------------------------------------
(* The per-channel cap.  A push makes room at the front; every operation   *)
(* that puts events back at the front trims the back.                      *)

TrimBack(s) == IF Len(s) > MaxPending THEN SubSeq(s, 1, MaxPending) ELSE s

Trimmed(s) == ToSet(s) \ ToSet(TrimBack(s))

(* push: accepted unless the channel is in flight in Drop mode *)
Accepts(q, c) == ~(DedupMode = "Drop" /\ c \in q.in_flight)

(* Mutant: the cap admits one event too many. *)
MakeRoomOffByOne(s) == IF Len(s) > MaxPending THEN Tail(s) ELSE s

MakeRoom(s) == IF Len(s) >= MaxPending THEN Tail(s) ELSE s

Push(q, c, e) == [q EXCEPT !.queues[c] = Append(MakeRoom(@), e)]

-----------------------------------------------------------------------------
(* flush_next                                                              *)

(* Mutant: the withheld events of an expired channel are dropped. *)
ExpireForgetsWithheld(q) ==
    [q EXCEPT !.in_flight = @ \ q.due,
              !.due       = {},
              !.withheld  = [c \in Channel |->
                               IF c \in q.due THEN <<>> ELSE q.withheld[c]]]

(* Mutant: they are copied to the queue and stay in the side table. *)
ExpireKeepsWithheld(q) ==
    [q EXCEPT !.in_flight = @ \ q.due,
              !.due       = {},
              !.queues    = [c \in Channel |->
                               IF c \in q.due
                               THEN TrimBack(q.withheld[c] \o q.queues[c])
                               ELSE q.queues[c]]]

(* Auto-expiry, shared by flush_next and has_flushable_work: a channel     *)
(* whose deadline passed is released and its withheld steer events go back *)
(* to the front of its queue (recover_withheld_for_expired_channel).       *)
Expire(q) ==
    [q EXCEPT !.in_flight = @ \ q.due,
              !.due       = {},
              !.queues    = [c \in Channel |->
                               IF c \in q.due /\ q.withheld[c] # <<>>
                               THEN TrimBack(q.withheld[c] \o q.queues[c])
                               ELSE q.queues[c]],
              !.withheld  = [c \in Channel |->
                               IF c \in q.due THEN <<>> ELSE q.withheld[c]]]

(* The events that the cap drops when withheld events are recovered. *)
ExpiryOverflow(q) == UNION {Trimmed(q.withheld[c] \o q.queues[c]) : c \in q.due}

(* Mutant: a channel in flight is not skipped. *)
ReadyIgnoresInFlight(q) ==
    {c \in Channel : q.queues[c] # <<>> /\ q.retry_after[c] # "future"}

Ready(q) ==
    {c \in Channel : /\ q.queues[c] # <<>>
                     /\ c \notin q.in_flight
                     /\ q.retry_after[c] # "future"}

OldestReady(q) ==
    {c \in Ready(q) : \A d \in Ready(q) : Head(q.queues[c]) <= Head(q.queues[d])}

(* The fallback looks at neither the retry throttle nor the age. *)
CancelledReady(q) ==
    {c \in Channel : q.cancelled[c] # <<>> /\ c \notin q.in_flight}

(* What flush_next takes from a queue, and what it leaves. *)
Drained(q, c) ==
    SubSeq(q.queues[c], 1, IF Len(q.queues[c]) > MaxBatch THEN MaxBatch
                                                          ELSE Len(q.queues[c]))

Remainder(q, c) ==
    IF Len(q.queues[c]) > MaxBatch
    THEN SubSeq(q.queues[c], MaxBatch + 1, Len(q.queues[c]))
    ELSE <<>>

(* The batch is sorted by created_at; the sort is stable.  There is exactly *)
(* one such order of a sequence without repetitions.                        *)
SortsBefore(s, x, y) ==
    \/ CreatedAt[x] < CreatedAt[y]
    \/ /\ CreatedAt[x] = CreatedAt[y]
       /\ \E i, j \in DOMAIN s : i < j /\ s[i] = x /\ s[j] = y

SortedByCreatedAt(s) ==
    {t \in [DOMAIN s -> ToSet(s)] :
        /\ ToSet(t) = ToSet(s)
        /\ \A i, j \in DOMAIN s : i < j => SortsBefore(s, t[i], t[j])}

(* The batches flush_next may return from the queues, or else from the      *)
(* cancelled ones, and the queue after it: the channel is in flight, and a  *)
(* cancelled batch that was waiting is merged into the new one.             *)
QueuedBatches(q) ==
    UNION {{[ch        |-> c,
             events    |-> sorted,
             cancelled |-> q.cancelled[c],
             reason    |-> IF q.cancelled[c] = <<>> THEN "none" ELSE q.reasons[c]] :
              sorted \in SortedByCreatedAt(Drained(q, c))} : c \in OldestReady(q)}

FlushQueued(q, c) ==
    [q EXCEPT !.queues[c]    = Remainder(q, c),
              !.in_flight    = @ \cup {c},
              !.cancelled[c] = <<>>,
              !.reasons[c]   = "none"]

CancelledBatches(q) ==
    {[ch |-> c, events |-> q.cancelled[c], cancelled |-> <<>>, reason |-> q.reasons[c]] :
        c \in CancelledReady(q)}

FlushCancelled(q, c) ==
    [q EXCEPT !.in_flight    = @ \cup {c},
              !.cancelled[c] = <<>>,
              !.reasons[c]   = "none"]

-----------------------------------------------------------------------------
(* The end of a turn                                                       *)

(* Mutant: mark_complete always forgets the attempts. *)
MarkCompleteForgets(q, c) ==
    [q EXCEPT !.in_flight       = @ \ {c},
              !.due             = @ \ {c},
              !.retry_counts[c] = 0]

MarkComplete(q, c) ==
    LET throttled == q.retry_after[c] = "future"
    IN  [q EXCEPT !.in_flight       = @ \ {c},
                  !.due             = @ \ {c},
                  !.retry_after[c]  = IF throttled THEN @ ELSE "none",
                  !.retry_counts[c] = IF throttled THEN @ ELSE 0]

(* Mutant: one attempt too many. *)
ExhaustedOffByOne(q, b) == q.retry_counts[b.ch] > MaxRetries

(* requeue: the attempt that exceeds MAX_RETRIES is dead-lettered *)
Exhausted(q, b) == q.retry_counts[b.ch] + 1 > MaxRetries

PutBack(q, b) == b.events \o q.queues[b.ch]

Requeue(q, b) ==
    IF Exhausted(q, b)
    THEN [q EXCEPT !.retry_counts[b.ch] = 0,
                   !.retry_after[b.ch]  = "none"]
    ELSE [q EXCEPT !.retry_counts[b.ch] = @ + 1,
                   !.queues[b.ch]       = TrimBack(PutBack(q, b)),
                   !.retry_after[b.ch]  = "future"]

RequeuePreserveTimestamps(q, b) ==
    [q EXCEPT !.queues[b.ch] = TrimBack(PutBack(q, b))]

RequeueAsCancelled(q, b, reason) ==
    [q EXCEPT !.cancelled[b.ch] = @ \o b.cancelled \o b.events,
              !.reasons[b.ch]   = reason]

-----------------------------------------------------------------------------
(* Queries, membership removal, maintenance                                *)

HasFlushableWork(q) ==
    LET r == Expire(q) IN Ready(r) # {} \/ CancelledReady(r) # {}

DrainChannel(q, c) ==
    [q EXCEPT !.queues[c]       = <<>>,
              !.retry_after[c]  = "none",
              !.retry_counts[c] = 0,
              !.cancelled[c]    = <<>>,
              !.reasons[c]      = "none",
              !.withheld[c]     = <<>>]

CompactExpiredState(q) ==
    LET active(c) == q.retry_after[c] = "future"
    IN  [q EXCEPT !.retry_after  = [c \in Channel |->
                                      IF active(c) THEN "future" ELSE "none"],
                  !.retry_counts = [c \in Channel |->
                                      IF \/ active(c)
                                         \/ q.queues[c] # <<>>
                                         \/ c \in q.in_flight
                                      THEN q.retry_counts[c] ELSE 0]]

-----------------------------------------------------------------------------
(* The side table of events whose native steer is in flight                *)

(* Events are distinct, so there is one position to remove. *)
Position(s, e) == CHOOSE i \in DOMAIN s : s[i] = e

Without(s, e) == IF Contains(s, e) THEN RemoveAt(s, Position(s, e)) ELSE s

MarkNativeSteerPending(q, c, e) ==
    IF Contains(q.queues[c], e)
    THEN [q EXCEPT !.queues[c]   = Without(@, e),
                   !.withheld[c] = Append(@, e)]
    ELSE q

(* Mutant: the event leaves the side table and is not put back. *)
ReleaseForgets(q, c, e) == [q EXCEPT !.withheld[c] = Without(@, e)]

ReleaseNativeSteer(q, c, e) ==
    IF Contains(q.withheld[c], e)
    THEN [q EXCEPT !.withheld[c] = Without(@, e),
                   !.queues[c]   = TrimBack(<<e>> \o @)]
    ELSE q

(* Mutant: a delivered event stays in the side table. *)
RemoveFromQueueOnly(q, c, e) == [q EXCEPT !.queues[c] = Without(@, e)]

RemoveEvent(q, c, e) ==
    [q EXCEPT !.withheld[c] = Without(@, e),
              !.queues[c]   = Without(@, e)]

(* extend_in_flight_deadline: max(current, now + budget), so a deadline    *)
(* that has passed is in the future again; nothing for a channel that is   *)
(* not in flight.                                                          *)
ExtendInFlightDeadline(q, c) == [q EXCEPT !.due = @ \ {c}]

-----------------------------------------------------------------------------
(* Where the queue holds an event *)

InQueue(q, c)     == ToSet(q.queues[c])
InCancelled(q, c) == ToSet(q.cancelled[c])
InWithheld(q, c)  == ToSet(q.withheld[c])

Pending(q, c) == InQueue(q, c) \cup InCancelled(q, c) \cup InWithheld(q, c)
=============================================================================
