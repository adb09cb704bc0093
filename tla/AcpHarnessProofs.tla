-------------------------- MODULE AcpHarnessProofs --------------------------
(***************************************************************************)
(* Proofs about the harness for any number of channels, agents and events, *)
(* and for every setting of the options.  First what the methods of the    *)
(* event queue preserve: QueueInv is the invariant of the struct, and the  *)
(* one lemma per method also says what it does to in_flight.  Then the     *)
(* system.                                                                 *)
(***************************************************************************)
EXTENDS AcpHarness, TLAPS

(* The depth cap and the memory of a channel that is backing off. *)
Capped(q) == \A c \in Channel : Len(q.queues[c]) <= MaxPending

Remembers(q) ==
    \A c \in Channel : q.retry_after[c] = "future" => q.retry_counts[c] > 0

QueueInv(q) ==
    /\ q \in EventQueue
    /\ q.due \subseteq q.in_flight
    /\ Capped(q)
    /\ Remembers(q)

-----------------------------------------------------------------------------
(* Sequences *)

(* TrimBack returns a sequence of events within the cap. *)
LEMMA TrimBackType ==
    ASSUME NEW s \in Seq(Event)
    PROVE  /\ TrimBack(s) \in Seq(Event)
           /\ Len(TrimBack(s)) <= MaxPending
BY QueueConstants DEF TrimBack

(* MakeRoom leaves room for the event that push appends. *)
LEMMA MakeRoomType ==
    ASSUME NEW s \in Seq(Event), Len(s) <= MaxPending
    PROVE  /\ MakeRoom(s) \in Seq(Event)
           /\ Len(MakeRoom(s)) < MaxPending
BY QueueConstants DEF MakeRoom

(* Without returns a sequence of events that is no longer. *)
LEMMA WithoutType ==
    ASSUME NEW s \in Seq(Event), NEW e
    PROVE  /\ Without(s, e) \in Seq(Event)
           /\ Len(Without(s, e)) <= Len(s)
<1>1. CASE ~Contains(s, e)
  BY <1>1 DEF Without
<1>2. CASE Contains(s, e)
  <2>1. PICK i \in DOMAIN s : s[i] = e
    BY <1>2 DEF Contains
  <2>2. Position(s, e) \in DOMAIN s
    BY <2>1 DEF Position
  <2>3. Position(s, e) \in 1..Len(s)
    BY <2>2
  <2>4. QED
    BY <1>2, <2>3 DEF Without, RemoveAt
<1>3. QED
  BY <1>1, <1>2

(* A batch sorted by created_at is a sequence of events. *)
LEMMA SortedType ==
    ASSUME NEW s \in Seq(Event), NEW t \in SortedByCreatedAt(s)
    PROVE  t \in Seq(Event)
<1>1. t \in [DOMAIN s -> ToSet(s)]
  BY DEF SortedByCreatedAt
<1>2. ToSet(s) \subseteq Event
  BY DEF ToSet
<1>3. DOMAIN s = 1..Len(s) /\ Len(s) \in Nat
  OBVIOUS
<1>4. t \in [1..Len(s) -> Event]
  BY <1>1, <1>2, <1>3
<1>5. QED
  BY <1>3, <1>4

-----------------------------------------------------------------------------
(* The methods *)

(* new: an empty queue satisfies the invariant. *)
LEMMA NewQueueInv ==
    /\ QueueInv(NewQueue)
    /\ NewQueue.in_flight = {}
BY QueueConstants DEF QueueInv, Capped, Remembers, NewQueue, EventQueue, Reason

(* push appends within the cap and leaves in_flight alone. *)
LEMMA PushInv ==
    ASSUME NEW q, QueueInv(q), NEW c \in Channel, NEW e \in Event
    PROVE  /\ QueueInv(Push(q, c, e))
           /\ Push(q, c, e).in_flight = q.in_flight
<1> DEFINE s == Append(MakeRoom(q.queues[c]), e)
           f == [q.queues EXCEPT ![c] = s]
<1>1. q \in EventQueue /\ q.queues \in [Channel -> Seq(Event)]
  BY DEF QueueInv, EventQueue
<1>2. s \in Seq(Event) /\ Len(s) <= MaxPending
  BY <1>1, MakeRoomType, QueueConstants DEF QueueInv, Capped
<1>3. f \in [Channel -> Seq(Event)] /\ \A d \in Channel : Len(f[d]) <= MaxPending
  BY <1>1, <1>2 DEF QueueInv, Capped
<1>4. Push(q, c, e) = [q EXCEPT !.queues = f]
  BY DEF Push
<1> HIDE DEF f, s
<1>5. [q EXCEPT !.queues = f] \in EventQueue
  BY <1>1, <1>3 DEF EventQueue
<1>6. QED
  BY <1>1, <1>3, <1>4, <1>5 DEF QueueInv, Capped, Remembers, EventQueue

(* Auto-expiry: the released channels are the ones whose deadline passed,  *)
(* and the recovered events stay within the cap.                           *)
LEMMA ExpireInv ==
    ASSUME NEW q, QueueInv(q)
    PROVE  /\ QueueInv(Expire(q))
           /\ Expire(q).in_flight = q.in_flight \ q.due
<1> DEFINE f == [c \in Channel |-> IF c \in q.due /\ q.withheld[c] # <<>>
                                   THEN TrimBack(q.withheld[c] \o q.queues[c])
                                   ELSE q.queues[c]]
           w == [c \in Channel |-> IF c \in q.due THEN <<>> ELSE q.withheld[c]]
<1>1. /\ q \in EventQueue
      /\ q.queues \in [Channel -> Seq(Event)]
      /\ q.withheld \in [Channel -> Seq(Event)]
      /\ q.in_flight \subseteq Channel
  BY DEF QueueInv, EventQueue
<1>2. \A c \in Channel : f[c] \in Seq(Event) /\ Len(f[c]) <= MaxPending
  <2> SUFFICES ASSUME NEW c \in Channel
               PROVE  f[c] \in Seq(Event) /\ Len(f[c]) <= MaxPending
    OBVIOUS
  <2>1. q.queues[c] \in Seq(Event) /\ Len(q.queues[c]) <= MaxPending
    BY <1>1 DEF QueueInv, Capped
  <2>2. q.withheld[c] \o q.queues[c] \in Seq(Event)
    BY <1>1
  <2>3. QED
    BY <2>1, <2>2, TrimBackType
<1>3. f \in [Channel -> Seq(Event)] /\ w \in [Channel -> Seq(Event)]
  BY <1>1, <1>2
<1>4. Expire(q) = [q EXCEPT !.in_flight = q.in_flight \ q.due, !.due = {},
                            !.queues = f, !.withheld = w]
  BY DEF Expire
<1> HIDE DEF f, w
<1>5. [q EXCEPT !.in_flight = q.in_flight \ q.due, !.due = {},
                !.queues = f, !.withheld = w] \in EventQueue
  BY <1>1, <1>3 DEF EventQueue
<1>6. QED
  BY <1>1, <1>2, <1>4, <1>5 DEF QueueInv, Capped, Remembers, EventQueue

(* What flush_next takes and leaves are sequences of events within the cap. *)
LEMMA DrainedType ==
    ASSUME NEW q, QueueInv(q), NEW c \in Channel
    PROVE  /\ Drained(q, c) \in Seq(Event)
           /\ Remainder(q, c) \in Seq(Event)
           /\ Len(Remainder(q, c)) <= MaxPending
<1>1. q.queues[c] \in Seq(Event) /\ Len(q.queues[c]) <= MaxPending
  BY DEF QueueInv, Capped, EventQueue
<1>2. QED
  BY <1>1, QueueConstants DEF Drained, Remainder

(* flush_next takes a batch of a channel that becomes in flight. *)
LEMMA QueuedBatchType ==
    ASSUME NEW q, QueueInv(q), NEW b \in QueuedBatches(q)
    PROVE  b \in FlushBatch
<1>1. PICK c \in OldestReady(q) : \E sorted \in SortedByCreatedAt(Drained(q, c)) :
             b = [ch |-> c, events |-> sorted, cancelled |-> q.cancelled[c],
                  reason |-> IF q.cancelled[c] = <<>> THEN "none" ELSE q.reasons[c]]
  BY DEF QueuedBatches
<1>2. c \in Channel
  BY DEF OldestReady, Ready
<1>3. q.cancelled[c] \in Seq(Event) /\ q.reasons[c] \in Reason
  BY <1>2 DEF QueueInv, EventQueue
<1>4. \A t \in SortedByCreatedAt(Drained(q, c)) : t \in Seq(Event)
  BY <1>2, DrainedType, SortedType
<1>5. QED
  BY <1>1, <1>2, <1>3, <1>4 DEF FlushBatch, Reason

LEMMA CancelledBatchType ==
    ASSUME NEW q, QueueInv(q), NEW b \in CancelledBatches(q)
    PROVE  b \in FlushBatch
<1>1. PICK c \in CancelledReady(q) :
             b = [ch |-> c, events |-> q.cancelled[c], cancelled |-> <<>>,
                  reason |-> q.reasons[c]]
  BY DEF CancelledBatches
<1>2. c \in Channel
  BY DEF CancelledReady
<1>3. q.cancelled[c] \in Seq(Event) /\ q.reasons[c] \in Reason
  BY <1>2 DEF QueueInv, EventQueue
<1>4. QED
  BY <1>1, <1>2, <1>3 DEF FlushBatch

LEMMA FlushQueuedInv ==
    ASSUME NEW q, QueueInv(q), NEW c \in Channel
    PROVE  /\ QueueInv(FlushQueued(q, c))
           /\ FlushQueued(q, c).in_flight = q.in_flight \cup {c}
<1> DEFINE f == [q.queues EXCEPT ![c] = Remainder(q, c)]
           k == [q.cancelled EXCEPT ![c] = <<>>]
           r == [q.reasons EXCEPT ![c] = "none"]
<1>1. /\ q \in EventQueue
      /\ q.queues \in [Channel -> Seq(Event)]
      /\ q.cancelled \in [Channel -> Seq(Event)]
      /\ q.reasons \in [Channel -> Reason]
      /\ q.in_flight \subseteq Channel
  BY DEF QueueInv, EventQueue
<1>2. \A d \in Channel : f[d] \in Seq(Event) /\ Len(f[d]) <= MaxPending
  BY <1>1, DrainedType DEF QueueInv, Capped
<1>3. /\ f \in [Channel -> Seq(Event)]
      /\ k \in [Channel -> Seq(Event)]
      /\ r \in [Channel -> Reason]
  BY <1>1, <1>2 DEF Reason
<1>4. FlushQueued(q, c) = [q EXCEPT !.queues = f, !.in_flight = q.in_flight \cup {c},
                                    !.cancelled = k, !.reasons = r]
  BY DEF FlushQueued
<1> HIDE DEF f, k, r
<1>5. [q EXCEPT !.queues = f, !.in_flight = q.in_flight \cup {c},
                !.cancelled = k, !.reasons = r] \in EventQueue
  BY <1>1, <1>3 DEF EventQueue
<1>6. QED
  BY <1>1, <1>2, <1>4, <1>5 DEF QueueInv, Capped, Remembers, EventQueue

LEMMA FlushCancelledInv ==
    ASSUME NEW q, QueueInv(q), NEW c \in Channel
    PROVE  /\ QueueInv(FlushCancelled(q, c))
           /\ FlushCancelled(q, c).in_flight = q.in_flight \cup {c}
<1> DEFINE k == [q.cancelled EXCEPT ![c] = <<>>]
           r == [q.reasons EXCEPT ![c] = "none"]
<1>1. /\ q \in EventQueue
      /\ q.cancelled \in [Channel -> Seq(Event)]
      /\ q.reasons \in [Channel -> Reason]
      /\ q.in_flight \subseteq Channel
  BY DEF QueueInv, EventQueue
<1>2. k \in [Channel -> Seq(Event)] /\ r \in [Channel -> Reason]
  BY <1>1 DEF Reason
<1>3. FlushCancelled(q, c) = [q EXCEPT !.in_flight = q.in_flight \cup {c},
                                       !.cancelled = k, !.reasons = r]
  BY DEF FlushCancelled
<1> HIDE DEF k, r
<1>4. [q EXCEPT !.in_flight = q.in_flight \cup {c},
                !.cancelled = k, !.reasons = r] \in EventQueue
  BY <1>1, <1>2 DEF EventQueue
<1>5. QED
  BY <1>1, <1>3, <1>4 DEF QueueInv, Capped, Remembers, EventQueue

(* mark_complete releases the channel; attempts are kept while throttled. *)
LEMMA MarkCompleteInv ==
    ASSUME NEW q, QueueInv(q), NEW c \in Channel
    PROVE  /\ QueueInv(MarkComplete(q, c))
           /\ MarkComplete(q, c).in_flight = q.in_flight \ {c}
<1> DEFINE thr == q.retry_after[c] = "future"
           a == [q.retry_after EXCEPT ![c] = IF thr THEN @ ELSE "none"]
           n == [q.retry_counts EXCEPT ![c] = IF thr THEN @ ELSE 0]
<1>1. /\ q \in EventQueue
      /\ q.retry_after \in [Channel -> {"none", "future", "past"}]
      /\ q.retry_counts \in [Channel -> 0..MaxRetries]
      /\ q.in_flight \subseteq Channel
      /\ q.due \subseteq Channel
  BY DEF QueueInv, EventQueue
<1>2. /\ a \in [Channel -> {"none", "future", "past"}]
      /\ n \in [Channel -> 0..MaxRetries]
  BY <1>1, QueueConstants
<1>3. \A d \in Channel : a[d] = "future" => n[d] > 0
  BY <1>1 DEF QueueInv, Remembers
<1>4. MarkComplete(q, c) = [q EXCEPT !.in_flight = q.in_flight \ {c},
                                     !.due = q.due \ {c},
                                     !.retry_after = a, !.retry_counts = n]
  BY DEF MarkComplete
<1> HIDE DEF a, n
<1>5. [q EXCEPT !.in_flight = q.in_flight \ {c}, !.due = q.due \ {c},
                !.retry_after = a, !.retry_counts = n] \in EventQueue
  BY <1>1, <1>2 DEF EventQueue
<1>6. QED
  BY <1>1, <1>3, <1>4, <1>5 DEF QueueInv, Capped, Remembers, EventQueue

(* requeue counts the attempt within MAX_RETRIES or forgets the channel. *)
LEMMA RequeueInv ==
    ASSUME NEW q, QueueInv(q), NEW b \in FlushBatch
    PROVE  /\ QueueInv(Requeue(q, b))
           /\ Requeue(q, b).in_flight = q.in_flight
<1> DEFINE c == b.ch
<1>1. /\ q \in EventQueue
      /\ q.queues \in [Channel -> Seq(Event)]
      /\ q.retry_after \in [Channel -> {"none", "future", "past"}]
      /\ q.retry_counts \in [Channel -> 0..MaxRetries]
      /\ c \in Channel
      /\ b.events \in Seq(Event)
  BY DEF QueueInv, EventQueue, FlushBatch
<1>2. PutBack(q, b) \in Seq(Event)
  BY <1>1 DEF PutBack
<1>3. CASE Exhausted(q, b)
  <2> DEFINE a == [q.retry_after EXCEPT ![c] = "none"]
             n == [q.retry_counts EXCEPT ![c] = 0]
  <2>1. /\ a \in [Channel -> {"none", "future", "past"}]
        /\ n \in [Channel -> 0..MaxRetries]
    BY <1>1, QueueConstants
  <2>2. \A d \in Channel : a[d] = "future" => n[d] > 0
    BY <1>1 DEF QueueInv, Remembers
  <2>3. Requeue(q, b) = [q EXCEPT !.retry_counts = n, !.retry_after = a]
    BY <1>3 DEF Requeue
  <2> HIDE DEF a, n
  <2>4. [q EXCEPT !.retry_counts = n, !.retry_after = a] \in EventQueue
    BY <1>1, <2>1 DEF EventQueue
  <2>5. QED
    BY <1>1, <2>2, <2>3, <2>4 DEF QueueInv, Capped, Remembers, EventQueue
<1>4. CASE ~Exhausted(q, b)
  <2> DEFINE a == [q.retry_after EXCEPT ![c] = "future"]
             n == [q.retry_counts EXCEPT ![c] = @ + 1]
             f == [q.queues EXCEPT ![c] = TrimBack(PutBack(q, b))]
  <2>1. q.retry_counts[c] + 1 \in 0..MaxRetries /\ q.retry_counts[c] + 1 > 0
    BY <1>1, <1>4, QueueConstants DEF Exhausted
  <2>2. /\ a \in [Channel -> {"none", "future", "past"}]
        /\ n \in [Channel -> 0..MaxRetries]
    BY <1>1, <2>1
  <2>3. \A d \in Channel : a[d] = "future" => n[d] > 0
    BY <1>1, <2>1 DEF QueueInv, Remembers
  <2>4. /\ f \in [Channel -> Seq(Event)]
        /\ \A d \in Channel : Len(f[d]) <= MaxPending
    BY <1>1, <1>2, TrimBackType DEF QueueInv, Capped
  <2>5. Requeue(q, b) = [q EXCEPT !.retry_counts = n, !.queues = f, !.retry_after = a]
    BY <1>4 DEF Requeue
  <2> HIDE DEF a, n, f
  <2>6. [q EXCEPT !.retry_counts = n, !.queues = f, !.retry_after = a] \in EventQueue
    BY <1>1, <2>2, <2>4 DEF EventQueue
  <2>7. QED
    BY <1>1, <2>3, <2>4, <2>5, <2>6 DEF QueueInv, Capped, Remembers, EventQueue
<1>5. QED
  BY <1>3, <1>4

LEMMA RequeuePreserveInv ==
    ASSUME NEW q, QueueInv(q), NEW b \in FlushBatch
    PROVE  /\ QueueInv(RequeuePreserveTimestamps(q, b))
           /\ RequeuePreserveTimestamps(q, b).in_flight = q.in_flight
<1> DEFINE c == b.ch
           f == [q.queues EXCEPT ![c] = TrimBack(PutBack(q, b))]
<1>1. /\ q \in EventQueue
      /\ q.queues \in [Channel -> Seq(Event)]
      /\ c \in Channel
      /\ b.events \in Seq(Event)
  BY DEF QueueInv, EventQueue, FlushBatch
<1>2. PutBack(q, b) \in Seq(Event)
  BY <1>1 DEF PutBack
<1>3. /\ f \in [Channel -> Seq(Event)]
      /\ \A d \in Channel : Len(f[d]) <= MaxPending
  BY <1>1, <1>2, TrimBackType DEF QueueInv, Capped
<1>4. RequeuePreserveTimestamps(q, b) = [q EXCEPT !.queues = f]
  BY DEF RequeuePreserveTimestamps
<1> HIDE DEF f
<1>5. [q EXCEPT !.queues = f] \in EventQueue
  BY <1>1, <1>3 DEF EventQueue
<1>6. QED
  BY <1>1, <1>3, <1>4, <1>5 DEF QueueInv, Capped, Remembers, EventQueue

LEMMA RequeueAsCancelledInv ==
    ASSUME NEW q, QueueInv(q), NEW b \in FlushBatch, NEW r \in Reason
    PROVE  /\ QueueInv(RequeueAsCancelled(q, b, r))
           /\ RequeueAsCancelled(q, b, r).in_flight = q.in_flight
<1> DEFINE c == b.ch
           k == [q.cancelled EXCEPT ![c] = @ \o b.cancelled \o b.events]
           rs == [q.reasons EXCEPT ![c] = r]
<1>1. /\ q \in EventQueue
      /\ q.cancelled \in [Channel -> Seq(Event)]
      /\ q.reasons \in [Channel -> Reason]
      /\ c \in Channel
      /\ b.events \in Seq(Event)
      /\ b.cancelled \in Seq(Event)
  BY DEF QueueInv, EventQueue, FlushBatch
<1>2. q.cancelled[c] \o b.cancelled \o b.events \in Seq(Event)
  BY <1>1
<1>3. k \in [Channel -> Seq(Event)] /\ rs \in [Channel -> Reason]
  BY <1>1, <1>2
<1>4. RequeueAsCancelled(q, b, r) = [q EXCEPT !.cancelled = k, !.reasons = rs]
  BY DEF RequeueAsCancelled
<1> HIDE DEF k, rs
<1>5. [q EXCEPT !.cancelled = k, !.reasons = rs] \in EventQueue
  BY <1>1, <1>3 DEF EventQueue
<1>6. QED
  BY <1>1, <1>4, <1>5 DEF QueueInv, Capped, Remembers, EventQueue

(* drain_channel forgets the channel but for its in-flight mark. *)
LEMMA DrainChannelInv ==
    ASSUME NEW q, QueueInv(q), NEW c \in Channel
    PROVE  /\ QueueInv(DrainChannel(q, c))
           /\ DrainChannel(q, c).in_flight = q.in_flight
<1> DEFINE f == [q.queues EXCEPT ![c] = <<>>]
           a == [q.retry_after EXCEPT ![c] = "none"]
           n == [q.retry_counts EXCEPT ![c] = 0]
           k == [q.cancelled EXCEPT ![c] = <<>>]
           r == [q.reasons EXCEPT ![c] = "none"]
           w == [q.withheld EXCEPT ![c] = <<>>]
<1>1. /\ q \in EventQueue
      /\ q.queues \in [Channel -> Seq(Event)]
      /\ q.retry_after \in [Channel -> {"none", "future", "past"}]
      /\ q.retry_counts \in [Channel -> 0..MaxRetries]
      /\ q.cancelled \in [Channel -> Seq(Event)]
      /\ q.reasons \in [Channel -> Reason]
      /\ q.withheld \in [Channel -> Seq(Event)]
  BY DEF QueueInv, EventQueue
<1>2. /\ f \in [Channel -> Seq(Event)]
      /\ k \in [Channel -> Seq(Event)]
      /\ w \in [Channel -> Seq(Event)]
  BY <1>1
<1>3. /\ a \in [Channel -> {"none", "future", "past"}]
      /\ n \in [Channel -> 0..MaxRetries]
      /\ r \in [Channel -> Reason]
  BY <1>1, QueueConstants DEF Reason
<1>4. \A d \in Channel : Len(f[d]) <= MaxPending
  BY <1>1, QueueConstants DEF QueueInv, Capped
<1>5. \A d \in Channel : a[d] = "future" => n[d] > 0
  BY <1>1 DEF QueueInv, Remembers
<1>6. DrainChannel(q, c) = [q EXCEPT !.queues = f, !.retry_after = a,
                                     !.retry_counts = n, !.cancelled = k,
                                     !.reasons = r, !.withheld = w]
  BY DEF DrainChannel
<1> HIDE DEF f, a, n, k, r, w
<1>7. [q EXCEPT !.queues = f, !.retry_after = a, !.retry_counts = n,
                !.cancelled = k, !.reasons = r, !.withheld = w] \in EventQueue
  BY <1>1, <1>2, <1>3 DEF EventQueue
<1>8. QED
  BY <1>1, <1>4, <1>5, <1>6, <1>7 DEF QueueInv, Capped, Remembers, EventQueue

(* Compaction keeps the attempts of every throttled channel. *)
LEMMA CompactInv ==
    ASSUME NEW q, QueueInv(q)
    PROVE  /\ QueueInv(CompactExpiredState(q))
           /\ CompactExpiredState(q).in_flight = q.in_flight
<1> DEFINE a == [c \in Channel |-> IF q.retry_after[c] = "future" THEN "future" ELSE "none"]
           n == [c \in Channel |-> IF \/ q.retry_after[c] = "future"
                                      \/ q.queues[c] # <<>>
                                      \/ c \in q.in_flight
                                   THEN q.retry_counts[c] ELSE 0]
<1>1. q \in EventQueue /\ q.retry_counts \in [Channel -> 0..MaxRetries]
  BY DEF QueueInv, EventQueue
<1>2. /\ a \in [Channel -> {"none", "future", "past"}]
      /\ n \in [Channel -> 0..MaxRetries]
  BY <1>1, QueueConstants
<1>3. \A d \in Channel : a[d] = "future" => n[d] > 0
  BY <1>1 DEF QueueInv, Remembers
<1>4. CompactExpiredState(q) = [q EXCEPT !.retry_after = a, !.retry_counts = n]
  BY DEF CompactExpiredState
<1> HIDE DEF a, n
<1>5. [q EXCEPT !.retry_after = a, !.retry_counts = n] \in EventQueue
  BY <1>1, <1>2 DEF EventQueue
<1>6. QED
  BY <1>1, <1>3, <1>4, <1>5 DEF QueueInv, Capped, Remembers, EventQueue

(* The side table: events move between it and the queue within the cap. *)
WithSideTable(q, c, s, t) == [q EXCEPT !.queues[c] = s, !.withheld[c] = t]

LEMMA SideTableUpdate ==
    ASSUME NEW q, QueueInv(q), NEW c \in Channel,
           NEW s \in Seq(Event), Len(s) <= MaxPending, NEW t \in Seq(Event)
    PROVE  /\ QueueInv(WithSideTable(q, c, s, t))
           /\ WithSideTable(q, c, s, t).in_flight = q.in_flight
<1> DEFINE f == [q.queues EXCEPT ![c] = s]
           w == [q.withheld EXCEPT ![c] = t]
<1>1. /\ q \in EventQueue
      /\ q.queues \in [Channel -> Seq(Event)]
      /\ q.withheld \in [Channel -> Seq(Event)]
  BY DEF QueueInv, EventQueue
<1>2. f \in [Channel -> Seq(Event)] /\ w \in [Channel -> Seq(Event)]
  BY <1>1
<1>3. \A d \in Channel : Len(f[d]) <= MaxPending
  BY <1>1 DEF QueueInv, Capped
<1>4. WithSideTable(q, c, s, t) = [q EXCEPT !.queues = f, !.withheld = w]
  BY DEF WithSideTable
<1> HIDE DEF f, w
<1>5. [q EXCEPT !.queues = f, !.withheld = w] \in EventQueue
  BY <1>1, <1>2 DEF EventQueue
<1>6. QED
  BY <1>1, <1>3, <1>4, <1>5 DEF QueueInv, Capped, Remembers, EventQueue

LEMMA MarkNativeSteerPendingInv ==
    ASSUME NEW q, QueueInv(q), NEW c \in Channel, NEW e \in Event
    PROVE  /\ QueueInv(MarkNativeSteerPending(q, c, e))
           /\ MarkNativeSteerPending(q, c, e).in_flight = q.in_flight
<1>1. CASE ~Contains(q.queues[c], e)
  BY <1>1 DEF MarkNativeSteerPending
<1>2. CASE Contains(q.queues[c], e)
  <2>1. /\ q.queues[c] \in Seq(Event) /\ q.withheld[c] \in Seq(Event)
        /\ Len(q.queues[c]) <= MaxPending
    BY DEF QueueInv, Capped, EventQueue
  <2>2. /\ Without(q.queues[c], e) \in Seq(Event)
        /\ Len(Without(q.queues[c], e)) <= Len(q.queues[c])
    BY <2>1, WithoutType
  <2>3. Len(Without(q.queues[c], e)) <= MaxPending
    BY <2>1, <2>2, QueueConstants
  <2>4. Append(q.withheld[c], e) \in Seq(Event)
    BY <2>1
  <2>5. MarkNativeSteerPending(q, c, e)
          = WithSideTable(q, c, Without(q.queues[c], e), Append(q.withheld[c], e))
    BY <1>2 DEF MarkNativeSteerPending, WithSideTable
  <2>6. QED
    BY <2>2, <2>3, <2>4, <2>5, SideTableUpdate
<1>3. QED
  BY <1>1, <1>2

LEMMA ReleaseNativeSteerInv ==
    ASSUME NEW q, QueueInv(q), NEW c \in Channel, NEW e \in Event
    PROVE  /\ QueueInv(ReleaseNativeSteer(q, c, e))
           /\ ReleaseNativeSteer(q, c, e).in_flight = q.in_flight
<1>1. CASE ~Contains(q.withheld[c], e)
  BY <1>1 DEF ReleaseNativeSteer
<1>2. CASE Contains(q.withheld[c], e)
  <2>1. q.queues[c] \in Seq(Event) /\ q.withheld[c] \in Seq(Event)
    BY DEF QueueInv, EventQueue
  <2>2. <<e>> \o q.queues[c] \in Seq(Event)
    BY <2>1
  <2>3. /\ TrimBack(<<e>> \o q.queues[c]) \in Seq(Event)
        /\ Len(TrimBack(<<e>> \o q.queues[c])) <= MaxPending
    BY <2>2, TrimBackType
  <2>4. Without(q.withheld[c], e) \in Seq(Event)
    BY <2>1, WithoutType
  <2>5. ReleaseNativeSteer(q, c, e)
          = WithSideTable(q, c, TrimBack(<<e>> \o q.queues[c]), Without(q.withheld[c], e))
    BY <1>2 DEF ReleaseNativeSteer, WithSideTable, QueueInv, EventQueue
  <2>6. QED
    BY <2>3, <2>4, <2>5, SideTableUpdate
<1>3. QED
  BY <1>1, <1>2

LEMMA RemoveEventInv ==
    ASSUME NEW q, QueueInv(q), NEW c \in Channel, NEW e \in Event
    PROVE  /\ QueueInv(RemoveEvent(q, c, e))
           /\ RemoveEvent(q, c, e).in_flight = q.in_flight
<1>1. /\ q.queues[c] \in Seq(Event) /\ q.withheld[c] \in Seq(Event)
      /\ Len(q.queues[c]) <= MaxPending
  BY DEF QueueInv, Capped, EventQueue
<1>2. /\ Without(q.queues[c], e) \in Seq(Event)
      /\ Len(Without(q.queues[c], e)) <= Len(q.queues[c])
      /\ Without(q.withheld[c], e) \in Seq(Event)
  BY <1>1, WithoutType
<1>3. Len(Without(q.queues[c], e)) <= MaxPending
  BY <1>1, <1>2, QueueConstants
<1>4. RemoveEvent(q, c, e)
        = WithSideTable(q, c, Without(q.queues[c], e), Without(q.withheld[c], e))
  BY DEF RemoveEvent, WithSideTable, QueueInv, EventQueue
<1>5. QED
  BY <1>2, <1>3, <1>4, SideTableUpdate

(* A deadline that moves, either way, changes nothing else. *)
LEMMA DueUpdate ==
    ASSUME NEW q, QueueInv(q), NEW d \in SUBSET q.in_flight
    PROVE  /\ QueueInv([q EXCEPT !.due = d])
           /\ [q EXCEPT !.due = d].in_flight = q.in_flight
<1>1. q \in EventQueue /\ d \subseteq Channel
  BY DEF QueueInv, EventQueue
<1>2. [q EXCEPT !.due = d] \in EventQueue
  BY <1>1 DEF EventQueue
<1>3. QED
  BY <1>1, <1>2 DEF QueueInv, Capped, Remembers, EventQueue

(* A throttle that expires changes nothing else. *)
LEMMA BackoffUpdate ==
    ASSUME NEW q, QueueInv(q), NEW c \in Channel
    PROVE  /\ QueueInv([q EXCEPT !.retry_after[c] = "past"])
           /\ [q EXCEPT !.retry_after[c] = "past"].in_flight = q.in_flight
<1> DEFINE a == [q.retry_after EXCEPT ![c] = "past"]
<1>1. /\ q \in EventQueue
      /\ q.retry_after \in [Channel -> {"none", "future", "past"}]
  BY DEF QueueInv, EventQueue
<1>2. /\ a \in [Channel -> {"none", "future", "past"}]
      /\ \A d \in Channel : a[d] = "future" => q.retry_counts[d] > 0
  BY <1>1 DEF QueueInv, Remembers
<1>3. [q EXCEPT !.retry_after[c] = "past"] = [q EXCEPT !.retry_after = a]
  OBVIOUS
<1> HIDE DEF a
<1>4. [q EXCEPT !.retry_after = a] \in EventQueue
  BY <1>1, <1>2 DEF EventQueue
<1>5. QED
  BY <1>1, <1>2, <1>3, <1>4 DEF QueueInv, Capped, Remembers, EventQueue

-----------------------------------------------------------------------------
(* The harness *)

(* Strengthening: a heartbeat turn takes no steers and returns no batch.   *)
HeartbeatsBare ==
    \A a \in Agent :
        tasks[a].ch = NoChannel =>
            /\ tasks[a].steer_rx = {} /\ tasks[a].pending_steer = {}
            /\ tasks[a].back = FALSE

(* The state outside the queue. *)
Shape ==
    /\ slots \in [Agent -> SlotStates]
    /\ circuit \in [Agent -> {"closed", "open", "cooled"}]
    /\ tasks \in [Agent -> Task]
    /\ acks \subseteq SteerAck
    /\ removed \subseteq Channel
    /\ heartbeat_in_flight \in BOOLEAN
    /\ pc \in LoopPoints
    /\ next \in 1..(MaxEvents + 1)
    /\ settled \subseteq Event
    /\ interrupted \subseteq Event
    /\ failures \in 0..MaxFailures
    /\ expiries \in 0..MaxExpiries
    /\ HeartbeatsBare

Typed == QueueInv(queue) /\ Shape

(* The inductive invariant gives the three properties that the runs check. *)
LEMMA TypedGives ==
    Typed => TypeOK /\ QueueBounded /\ BackoffRemembersAttempts
BY DEF Typed, Shape, TypeOK, QueueInv, Capped, Remembers, QueueBounded,
       BackoffRemembersAttempts

-----------------------------------------------------------------------------
(* Helpers *)

LEMMA TrimmedType ==
    ASSUME NEW s \in Seq(Event)
    PROVE  Trimmed(s) \subseteq Event
BY DEF Trimmed, ToSet

LEMMA OverflowType ==
    ASSUME NEW q, QueueInv(q)
    PROVE  ExpiryOverflow(q) \subseteq Event
<1>1. ASSUME NEW c \in q.due
      PROVE  Trimmed(q.withheld[c] \o q.queues[c]) \subseteq Event
  <2>1. q.withheld[c] \in Seq(Event) /\ q.queues[c] \in Seq(Event)
    BY DEF QueueInv, EventQueue
  <2>2. q.withheld[c] \o q.queues[c] \in Seq(Event)
    BY <2>1
  <2>3. QED
    BY <2>2, TrimmedType
<1>2. QED
  BY <1>1 DEF ExpiryOverflow

LEMMA NewTaskType ==
    /\ NoTask \in Task
    /\ HeartbeatTask \in Task
    /\ \A b \in FlushBatch : NewTask(b) \in Task /\ NewTask(b).ch \in Channel
<1>1. NoTask \in Task
  BY DEF NoTask, Task, Reason
<1>2. HeartbeatTask \in Task
  BY <1>1 DEF HeartbeatTask, Task
<1>3. ASSUME NEW b \in FlushBatch
      PROVE  NewTask(b) \in Task /\ NewTask(b).ch \in Channel
  BY <1>1 DEF NewTask, Task, FlushBatch
<1>4. QED
  BY <1>1, <1>2, <1>3

LEMMA BatchOfType ==
    ASSUME NEW t \in Task, t.ch \in Channel
    PROVE  BatchOf(t) \in FlushBatch
BY DEF BatchOf, Task, FlushBatch

LEMMA EventsOfType ==
    ASSUME NEW t \in Task
    PROVE  EventsOf(t) \subseteq Event
<1>1. t.events \in Seq(Event) /\ t.cancelled \in Seq(Event)
  BY DEF Task
<1>2. QED
  BY <1>1 DEF EventsOf, ToSet

LEMMA PutBackType ==
    ASSUME NEW q, QueueInv(q), NEW b \in FlushBatch
    PROVE  Trimmed(PutBack(q, b)) \subseteq Event
<1>1. b.events \in Seq(Event) /\ q.queues[b.ch] \in Seq(Event)
  BY DEF QueueInv, EventQueue, FlushBatch
<1>2. PutBack(q, b) \in Seq(Event)
  BY <1>1 DEF PutBack
<1>3. QED
  BY <1>2, TrimmedType

(* A control signal keeps the tasks well typed and takes no steer away. *)
LEMMA SignalledType ==
    ASSUME Shape, NEW c \in Channel, NEW s \in {"steer", "interrupt", "cancel"},
           NEW ts \in Signalled(c, s)
    PROVE  /\ ts \in [Agent -> Task]
           /\ \A a \in Agent : /\ ts[a].ch = tasks[a].ch
                               /\ ts[a].phase = tasks[a].phase
                               /\ ts[a].steer_rx = tasks[a].steer_rx
                               /\ ts[a].pending_steer = tasks[a].pending_steer
                               /\ ts[a].back = tasks[a].back
<1>1. tasks \in [Agent -> Task]
  BY DEF Shape
<1>2. CASE ts = tasks
  BY <1>1, <1>2
<1>3. ASSUME NEW a \in Agent, ts = [tasks EXCEPT ![a].control = s]
      PROVE  /\ ts \in [Agent -> Task]
             /\ \A b \in Agent : /\ ts[b].ch = tasks[b].ch
                                 /\ ts[b].phase = tasks[b].phase
                                 /\ ts[b].steer_rx = tasks[b].steer_rx
                                 /\ ts[b].pending_steer = tasks[b].pending_steer
                                 /\ ts[b].back = tasks[b].back
  BY <1>1, <1>3 DEF Task
<1>4. ts = tasks \/ \E a \in Agent : ts = [tasks EXCEPT ![a].control = s]
  BY DEF Signalled, Signal, TasksOn
<1>5. QED
  BY <1>2, <1>3, <1>4

LEMMA SignalledBare ==
    ASSUME Shape, NEW c \in Channel, NEW s \in {"steer", "interrupt", "cancel"},
           tasks' \in Signalled(c, s)
    PROVE  tasks' \in [Agent -> Task] /\ HeartbeatsBare'
<1>1. /\ tasks' \in [Agent -> Task]
      /\ \A a \in Agent : /\ tasks'[a].ch = tasks[a].ch
                          /\ tasks'[a].steer_rx = tasks[a].steer_rx
                          /\ tasks'[a].pending_steer = tasks[a].pending_steer
                          /\ tasks'[a].back = tasks[a].back
  BY SignalledType
<1>2. HeartbeatsBare
  BY DEF Shape
<1>3. QED
  BY <1>1, <1>2 DEF HeartbeatsBare

-----------------------------------------------------------------------------
(* The actions keep the state well typed, the queue within its cap and the  *)
(* attempts of a throttled channel remembered.                              *)

LEMMA TypedInit == Init => Typed
<1> SUFFICES ASSUME Init PROVE Typed
  OBVIOUS
<1>1. QueueInv(queue)
  BY NewQueueInv DEF Init
<1>2. \A a \in Agent : tasks[a] = NoTask
  BY DEF Init
<1>3. HeartbeatsBare
  BY <1>2 DEF HeartbeatsBare, NoTask
<1>4. next \in 1..(MaxEvents + 1) /\ failures \in 0..MaxFailures /\ expiries \in 0..MaxExpiries
  BY QueueConstants, HarnessConstants DEF Init
<1>5. tasks \in [Agent -> Task]
  BY NewTaskType DEF Init
<1>6. QED
  BY <1>1, <1>3, <1>4, <1>5 DEF Init, Typed, Shape, SlotStates, LoopPoints

(* The top of the loop and dispatch_pending. *)
LEMMA TypedTop ==
    ASSUME Typed, NotDue \/ Maintain \/ Collect \/ DispatchNothing
    PROVE  Typed'
<1>1. CASE NotDue
  BY <1>1 DEF NotDue, Typed, Shape, HeartbeatsBare, LoopPoints, loopVars, bounds
<1>2. CASE Maintain
  <2>1. QueueInv(CompactExpiredState(queue))
    BY CompactInv DEF Typed
  <2>2. QueueInv(queue')
    BY <1>2, <2>1, ExpireInv DEF Maintain
  <2>3. settled' \subseteq Event
    BY <1>2, <2>1, OverflowType DEF Maintain, Typed, Shape
  <2>4. QED
    BY <1>2, <2>2, <2>3
       DEF Maintain, Typed, Shape, HeartbeatsBare, SlotStates, RespawnInFlight,
           LoopPoints, loopVars, bounds
<1>3. CASE Collect
  BY <1>3 DEF Collect, Typed, Shape, HeartbeatsBare, SlotStates, LoopPoints, loopVars, bounds
<1>4. CASE DispatchNothing
  <2>1. QueueInv(queue')
    BY <1>4, ExpireInv DEF DispatchNothing, Released, Typed
  <2>2. settled' \subseteq Event
    BY <1>4, OverflowType DEF DispatchNothing, Typed, Shape
  <2>3. QED
    BY <1>4, <2>1, <2>2
       DEF DispatchNothing, AfterDispatch, Typed, Shape, HeartbeatsBare, LoopPoints,
           loopVars, bounds
<1>5. QED
  BY <1>1, <1>2, <1>3, <1>4

LEMMA TypedClaim ==
    ASSUME Typed, NEW q, QueueInv(q), NEW b \in FlushBatch, Claim(q, b)
    PROVE  Typed'
<1>1. PICK a \in Idle :
         /\ slots' = [slots EXCEPT ![a] = "busy"]
         /\ tasks' = [tasks EXCEPT ![a] = NewTask(b)]
  BY DEF Claim
<1>2. a \in Agent
  BY DEF Idle
<1>3. tasks' \in [Agent -> Task] /\ tasks'[a] = NewTask(b)
      /\ \A d \in Agent \ {a} : tasks'[d] = tasks[d]
  BY <1>1, <1>2, NewTaskType DEF Typed, Shape
<1>4. HeartbeatsBare'
  BY <1>2, <1>3, NewTaskType, HarnessConstants DEF Typed, Shape, HeartbeatsBare
<1>5. slots' \in [Agent -> SlotStates]
  BY <1>1, <1>2 DEF Typed, Shape, SlotStates
<1>6. settled' \subseteq Event
  BY OverflowType DEF Claim, Typed, Shape
<1>7. QueueInv(queue')
  BY DEF Claim
<1>8. QED
  BY <1>3, <1>4, <1>5, <1>6, <1>7 DEF Claim, Typed, Shape, loopVars, bounds

LEMMA TypedPoolExhausted ==
    ASSUME Typed, NEW q, QueueInv(q), NEW b \in FlushBatch, PoolExhausted(q, b)
    PROVE  Typed'
<1>1. QueueInv(RequeuePreserveTimestamps(q, b))
  BY RequeuePreserveInv
<1>2. b.ch \in Channel
  BY DEF FlushBatch
<1>3. QueueInv(queue')
  BY <1>1, <1>2, MarkCompleteInv DEF PoolExhausted
<1>4. settled' \subseteq Event
  BY OverflowType, PutBackType DEF PoolExhausted, Typed, Shape
<1>5. QED
  BY <1>3, <1>4
     DEF PoolExhausted, AfterDispatch, Typed, Shape, HeartbeatsBare, LoopPoints,
         loopVars, bounds

LEMMA TypedDispatch ==
    ASSUME Typed, DispatchQueued \/ DispatchCancelled
    PROVE  Typed'
<1>1. QueueInv(Released)
  BY ExpireInv DEF Typed, Released
<1>2. CASE DispatchQueued
  <2>1. PICK b \in QueuedBatches(Released) :
           \/ Claim(FlushQueued(Released, b.ch), b)
           \/ PoolExhausted(FlushQueued(Released, b.ch), b)
    BY <1>2 DEF DispatchQueued
  <2>2. b \in FlushBatch /\ b.ch \in Channel
    BY <1>1, QueuedBatchType DEF FlushBatch
  <2>3. QueueInv(FlushQueued(Released, b.ch))
    BY <1>1, <2>2, FlushQueuedInv
  <2>4. QED
    BY <2>1, <2>2, <2>3, TypedClaim, TypedPoolExhausted
<1>3. CASE DispatchCancelled
  <2>1. PICK b \in CancelledBatches(Released) :
           \/ Claim(FlushCancelled(Released, b.ch), b)
           \/ PoolExhausted(FlushCancelled(Released, b.ch), b)
    BY <1>3 DEF DispatchCancelled
  <2>2. b \in FlushBatch /\ b.ch \in Channel
    BY <1>1, CancelledBatchType DEF FlushBatch
  <2>3. QueueInv(FlushCancelled(Released, b.ch))
    BY <1>1, <2>2, FlushCancelledInv
  <2>4. QED
    BY <2>1, <2>2, <2>3, TypedClaim, TypedPoolExhausted
<1>4. QED
  BY <1>2, <1>3

(* The relay arm. *)
LEMMA PushDropsType ==
    ASSUME Typed, NEW c \in Channel
    PROVE  PushDrops(c) \subseteq Event
<1>1. queue.queues[c] \in Seq(Event)
  BY DEF Typed, QueueInv, EventQueue
<1>2. QED
  BY <1>1 DEF PushDrops, ToSet

LEMMA TypedArrival ==
    ASSUME Typed, NEW c \in Channel,
           EventDropped(c) \/ EventQueued(c) \/ EventSteered(c) \/ EventSignals(c)
    PROVE  Typed'
<1>1. Arrives(c)
  BY DEF EventDropped, EventQueued, EventSteered, EventSignals
<1>2. /\ next \in Event
      /\ next' \in 1..(MaxEvents + 1)
      /\ pc' \in LoopPoints
      /\ UNCHANGED <<slots, circuit, interrupted, removed, heartbeat_in_flight,
                     failures, expiries>>
  BY <1>1, QueueConstants DEF Arrives, LoopPoints, Event, bounds
<1>3. QueueInv(Push(queue, c, next))
  BY <1>2, PushInv DEF Typed
<1>4. CASE EventDropped(c)
  BY <1>2, <1>4 DEF EventDropped, Typed, Shape, HeartbeatsBare
<1>5. CASE EventQueued(c)
  <2>1. settled' \subseteq Event
    BY <1>5, PushDropsType DEF EventQueued, Typed, Shape
  <2>2. QED
    BY <1>2, <1>3, <1>5, <2>1 DEF EventQueued, Typed, Shape, HeartbeatsBare
<1>6. CASE EventSteered(c)
  <2>1. settled' \subseteq Event
    BY <1>6, PushDropsType DEF EventSteered, Typed, Shape
  <2>2. QueueInv(queue')
    BY <1>2, <1>3, <1>6, MarkNativeSteerPendingInv DEF EventSteered
  <2>3. PICK a \in Agent : tasks[a].ch = c /\ tasks' = [tasks EXCEPT ![a].steer_rx = {next}]
    BY <1>6 DEF EventSteered, TasksOn
  <2>4. tasks' \in [Agent -> Task]
    <3>1. tasks \in [Agent -> Task] /\ tasks[a] \in Task
      BY DEF Typed, Shape
    <3>2. [tasks[a] EXCEPT !.steer_rx = {next}] \in Task
      BY <1>2, <3>1 DEF Task
    <3>3. tasks' = [tasks EXCEPT ![a] = [tasks[a] EXCEPT !.steer_rx = {next}]]
      BY <2>3
    <3>4. QED
      BY <3>1, <3>2, <3>3
  <2>5. HeartbeatsBare'
    BY <2>3, HarnessConstants DEF Typed, Shape, HeartbeatsBare, Task
  <2>6. acks' = acks
    BY <1>6 DEF EventSteered
  <2>7. QED
    BY <1>2, <2>1, <2>2, <2>4, <2>5, <2>6 DEF Typed, Shape
<1>7. CASE EventSignals(c)
  <2>1. settled' \subseteq Event
    BY <1>7, PushDropsType DEF EventSignals, Typed, Shape
  <2>2. PICK s \in ModeGateSignals : tasks' \in Signalled(c, s)
    BY <1>7 DEF EventSignals
  <2>3. s \in {"steer", "interrupt", "cancel"}
    BY DEF ModeGateSignals
  <2>4. tasks' \in [Agent -> Task] /\ HeartbeatsBare'
    BY <2>2, <2>3, SignalledBare DEF Typed
  <2>5. queue' = Push(queue, c, next) /\ acks' = acks
    BY <1>7 DEF EventSignals
  <2>6. QED
    BY <1>2, <1>3, <2>1, <2>4, <2>5 DEF Typed, Shape
<1>8. QED
  BY <1>4, <1>5, <1>6, <1>7

LEMMA TypedControl ==
    ASSUME Typed, NEW c \in Channel,
           OwnerControl(c) \/ MembershipRemoved(c) \/ MembershipAdded(c)
    PROVE  Typed'
<1>1. CASE OwnerControl(c)
  <2>1. PICK s \in OwnerControls : tasks' \in Signalled(c, s)
    BY <1>1 DEF OwnerControl
  <2>2. s \in {"steer", "interrupt", "cancel"}
    BY HarnessConstants
  <2>3. tasks' \in [Agent -> Task] /\ HeartbeatsBare'
    BY <2>1, <2>2, SignalledBare DEF Typed
  <2>4. QED
    BY <1>1, <2>3 DEF OwnerControl, Typed, Shape, LoopPoints, loopVars, bounds
<1>2. CASE MembershipRemoved(c)
  <2>1. QueueInv(queue')
    BY <1>2, DrainChannelInv DEF MembershipRemoved, Typed
  <2>2. /\ queue.queues[c] \in Seq(Event)
        /\ queue.cancelled[c] \in Seq(Event)
        /\ queue.withheld[c] \in Seq(Event)
    BY DEF Typed, QueueInv, EventQueue
  <2>3. Pending(queue, c) \subseteq Event
    BY <2>2 DEF Pending, InQueue, InCancelled, InWithheld, ToSet
  <2>4. QED
    BY <1>2, <2>1, <2>3
       DEF MembershipRemoved, Typed, Shape, HeartbeatsBare, LoopPoints, bounds
<1>3. CASE MembershipAdded(c)
  BY <1>3 DEF MembershipAdded, Typed, Shape, HeartbeatsBare, LoopPoints, bounds
<1>4. QED
  BY <1>1, <1>2, <1>3

(* Timers, heartbeats, shutdown and the end of a drain. *)
LEMMA TypedTimers ==
    ASSUME Typed, Tick \/ HeartbeatFired \/ Shutdown \/ DrainDone
    PROVE  Typed'
<1>1. CASE Tick
  BY <1>1 DEF Tick, Typed, Shape, HeartbeatsBare, LoopPoints, loopVars, bounds
<1>2. CASE Shutdown
  BY <1>2 DEF Shutdown, Typed, Shape, HeartbeatsBare, LoopPoints, loopVars, bounds
<1>3. CASE DrainDone
  BY <1>3 DEF DrainDone, Typed, Shape, HeartbeatsBare, LoopPoints, loopVars, bounds
<1>4. CASE HeartbeatFired
  <2>1. QueueInv(queue')
    BY <1>4, ExpireInv DEF HeartbeatFired, Typed
  <2>2. settled' \subseteq Event
    BY <1>4, OverflowType DEF HeartbeatFired, Typed, Shape
  <2>3. UNCHANGED <<circuit, acks, removed, next, interrupted, failures, expiries>>
    BY <1>4 DEF HeartbeatFired, bounds
  <2>4. pc' \in LoopPoints /\ heartbeat_in_flight' \in BOOLEAN
    BY <1>4 DEF HeartbeatFired, LoopPoints, Typed, Shape
  <2>5. \/ UNCHANGED <<slots, tasks>>
        \/ \E a \in Agent : /\ slots' = [slots EXCEPT ![a] = "busy"]
                            /\ tasks' = [tasks EXCEPT ![a] = HeartbeatTask]
    BY <1>4 DEF HeartbeatFired, Idle
  <2>6. /\ slots' \in [Agent -> SlotStates]
        /\ tasks' \in [Agent -> Task]
    BY <2>5, NewTaskType DEF Typed, Shape, SlotStates
  <2>7. HeartbeatsBare'
    BY <2>5 DEF Typed, Shape, HeartbeatsBare, HeartbeatTask, NoTask
  <2>8. QED
    BY <2>1, <2>2, <2>3, <2>4, <2>6, <2>7 DEF Typed, Shape
<1>5. QED
  BY <1>1, <1>2, <1>3, <1>4

(* The result arm and panics. *)
LEMMA TypedAgentReturns ==
    ASSUME Typed, NEW a \in Agent, NEW fatal, AgentReturns(a, fatal)
    PROVE  /\ slots' \in [Agent -> SlotStates]
           /\ circuit' \in [Agent -> {"closed", "open", "cooled"}]
<1>1. /\ slots \in [Agent -> SlotStates]
      /\ circuit \in [Agent -> {"closed", "open", "cooled"}]
  BY DEF Typed, Shape
<1>2. CASE ~fatal
  BY <1>1, <1>2 DEF AgentReturns, SlotStates
<1>3. CASE fatal
  <2>1. PICK v \in CrashVerdicts(circuit[a]) :
           /\ slots' = [slots EXCEPT ![a] = v[1]]
           /\ circuit' = [circuit EXCEPT ![a] = v[2]]
    BY <1>3 DEF AgentReturns
  <2>2. v \in {<<"respawning", "closed">>, <<"empty", "open">>}
    BY DEF CrashVerdicts
  <2>3. v[1] \in SlotStates /\ v[2] \in {"closed", "open", "cooled"}
    BY <2>2 DEF SlotStates, RespawnInFlight
  <2>4. QED
    BY <1>1, <2>1, <2>3
<1>4. QED
  BY <1>2, <1>3

(* Every task that returns a batch works on a channel. *)
LEMMA CompletedInv ==
    ASSUME NEW q, QueueInv(q), NEW t \in Task
    PROVE  /\ QueueInv(Completed(q, t))
           /\ Completed(q, t).in_flight = q.in_flight \ {t.ch}
<1>1. CASE t.ch = NoChannel
  <2>1. q.in_flight \subseteq Channel
    BY DEF QueueInv, EventQueue
  <2>2. QED
    BY <1>1, <2>1, HarnessConstants DEF Completed
<1>2. CASE t.ch # NoChannel
  <2>1. t.ch \in Channel
    BY <1>2 DEF Task
  <2>2. QED
    BY <1>2, <2>1, MarkCompleteInv DEF Completed
<1>3. QED
  BY <1>1, <1>2

LEMMA DisposedInv ==
    ASSUME Typed, NEW a \in Agent
    PROVE  /\ QueueInv(Disposed(tasks[a]))
           /\ Disposed(tasks[a]).in_flight = queue.in_flight
           /\ Settles(tasks[a]) \subseteq Event
<1> DEFINE t == tasks[a]
           b == BatchOf(t)
<1>1. t \in Task /\ QueueInv(queue)
  BY DEF Typed, Shape
<1>2. Returned(t) => t.ch \in Channel
  BY <1>1 DEF Returned, Typed, Shape, HeartbeatsBare, Task
<1>3. Returned(t) => b \in FlushBatch
  BY <1>1, <1>2, BatchOfType
<1>4. EventsOf(t) \subseteq Event
  BY <1>1, EventsOfType
<1>5. ReasonOf(t) \in Reason
  BY <1>1 DEF ReasonOf, Task, Reason
<1>6. CASE Returned(t) /\ Cancelled(t)
  <2>1. /\ QueueInv(RequeueAsCancelled(queue, b, ReasonOf(t)))
        /\ RequeueAsCancelled(queue, b, ReasonOf(t)).in_flight = queue.in_flight
    BY <1>1, <1>3, <1>5, <1>6, RequeueAsCancelledInv
  <2>2. QED
    BY <1>6, <2>1 DEF Disposed, Settles
<1>7. CASE ~(Returned(t) /\ Cancelled(t)) /\ Retried(t)
  <2>1. Returned(t)
    BY <1>7 DEF Retried
  <2>2. /\ QueueInv(Requeue(queue, b))
        /\ Requeue(queue, b).in_flight = queue.in_flight
        /\ Trimmed(PutBack(queue, b)) \subseteq Event
    BY <1>1, <1>3, <2>1, RequeueInv, PutBackType
  <2>3. QED
    BY <1>4, <1>7, <2>2 DEF Disposed, Settles
<1>8. CASE ~(Returned(t) /\ Cancelled(t)) /\ ~Retried(t)
  BY <1>1, <1>4, <1>8 DEF Disposed, Settles
<1>9. QED
  BY <1>6, <1>7, <1>8

(* A task leaves the task map. *)
LEMMA TaskGone ==
    ASSUME Typed, NEW a \in Agent, tasks' = [tasks EXCEPT ![a] = NoTask]
    PROVE  tasks' \in [Agent -> Task] /\ HeartbeatsBare'
BY NewTaskType DEF Typed, Shape, HeartbeatsBare, NoTask

LEMMA TypedResult ==
    ASSUME Typed, NEW a \in Agent, HandleResult(a)
    PROVE  Typed'
<1> DEFINE t == tasks[a]
<1>1. t \in Task
  BY DEF Typed, Shape
<1>2. QueueInv(queue') /\ settled' \subseteq Event
  <2>1. QueueInv(Disposed(t)) /\ Settles(t) \subseteq Event
    BY DisposedInv
  <2>2. queue' = Completed(Disposed(t), t) /\ settled' = settled \cup Settles(t)
    BY DEF HandleResult
  <2>3. QED
    BY <1>1, <2>1, <2>2, CompletedInv DEF Typed, Shape
<1>3. tasks' \in [Agent -> Task] /\ HeartbeatsBare'
  BY TaskGone DEF HandleResult
<1>4. /\ slots' \in [Agent -> SlotStates]
      /\ circuit' \in [Agent -> {"closed", "open", "cooled"}]
  <2>1. AgentReturns(a, t.phase \in Fatal)
    BY DEF HandleResult
  <2>2. QED
    BY <2>1, TypedAgentReturns, Zenon
<1>5. interrupted' \subseteq Event
  BY <1>1, EventsOfType DEF HandleResult, Typed, Shape
<1>6. heartbeat_in_flight' \in BOOLEAN /\ pc' \in LoopPoints
  BY DEF HandleResult, LoopPoints
<1>7. UNCHANGED <<acks, removed, next, failures, expiries>>
  BY DEF HandleResult, bounds
<1>8. QED
  BY <1>2, <1>3, <1>4, <1>5, <1>6, <1>7 DEF Typed, Shape

LEMMA RecoveredInv ==
    ASSUME Typed, NEW a \in Agent
    PROVE  LET t == tasks[a]
               q == IF Recoverable(t) THEN Requeue(queue, BatchOf(t)) ELSE queue
           IN  /\ QueueInv(q)
               /\ q.in_flight = queue.in_flight
               /\ Recoverable(t) => Trimmed(PutBack(queue, BatchOf(t))) \subseteq Event
<1> DEFINE t == tasks[a]
<1>1. t \in Task /\ QueueInv(queue)
  BY DEF Typed, Shape
<1>2. CASE ~Recoverable(t)
  BY <1>1, <1>2
<1>3. CASE Recoverable(t)
  <2>1. t.ch \in Channel
    BY <1>1, <1>3 DEF Recoverable, Task
  <2>2. BatchOf(t) \in FlushBatch
    BY <1>1, <2>1, BatchOfType
  <2>3. QED
    BY <1>1, <1>3, <2>2, RequeueInv, PutBackType
<1>4. QED
  BY <1>2, <1>3

LEMMA TypedPanic ==
    ASSUME Typed, NEW a \in Agent, RecoverPanicked(a)
    PROVE  Typed'
<1> DEFINE t == tasks[a]
           q == IF Recoverable(t) THEN Requeue(queue, BatchOf(t)) ELSE queue
<1>1. t \in Task
  BY DEF Typed, Shape
<1>2. /\ QueueInv(q)
      /\ Recoverable(t) => Trimmed(PutBack(queue, BatchOf(t))) \subseteq Event
  BY RecoveredInv
<1>3. queue' = Completed(q, t)
  BY DEF RecoverPanicked
<1>4. QueueInv(queue')
  <2> HIDE DEF q, t
  <2>1. QED
    BY <1>1, <1>2, <1>3, CompletedInv
<1>5. settled' \subseteq Event
  BY <1>1, <1>2, EventsOfType DEF RecoverPanicked, Typed, Shape
<1>6. tasks' \in [Agent -> Task] /\ HeartbeatsBare'
  BY TaskGone DEF RecoverPanicked
<1>7. /\ slots' \in [Agent -> SlotStates]
      /\ circuit' \in [Agent -> {"closed", "open", "cooled"}]
  BY TypedAgentReturns DEF RecoverPanicked
<1>8. heartbeat_in_flight' \in BOOLEAN /\ pc' \in LoopPoints
  BY DEF RecoverPanicked, LoopPoints
<1>9. UNCHANGED <<acks, removed, next, interrupted, failures, expiries>>
  BY DEF RecoverPanicked, bounds
<1>10. QED
  BY <1>4, <1>5, <1>6, <1>7, <1>8, <1>9 DEF Typed, Shape

(* The steer-ack arm. *)
LEMMA TypedAck ==
    ASSUME Typed, NEW k \in acks, HandleSteerAck(k)
    PROVE  Typed'
<1>1. k.ch \in Channel /\ k.event \in Event
  BY DEF Typed, Shape, SteerAck
<1>2. QueueInv(queue) /\ queue.queues[k.ch] \in Seq(Event)
  BY <1>1 DEF Typed, QueueInv, EventQueue
<1>3. ReleaseDrops(k) \subseteq Event
  <2>1. <<k.event>> \o queue.queues[k.ch] \in Seq(Event)
    BY <1>1, <1>2
  <2>2. QED
    BY <2>1, TrimmedType DEF ReleaseDrops
<1>4. /\ acks' \subseteq SteerAck
      /\ pc' \in LoopPoints
      /\ UNCHANGED <<slots, circuit, interrupted, removed, heartbeat_in_flight, next,
                     failures, expiries>>
  BY DEF HandleSteerAck, LoopPoints, Typed, Shape, loopVars, bounds
<1>5. CASE k.ack = "success"
  <2>1. /\ queue' = RemoveEvent(ExtendInFlightDeadline(queue, k.ch), k.ch, k.event)
        /\ settled' = settled \cup {k.event}
        /\ tasks' = tasks
    BY <1>5 DEF HandleSteerAck
  <2>2. QueueInv(ExtendInFlightDeadline(queue, k.ch))
    BY <1>2, DueUpdate DEF ExtendInFlightDeadline, QueueInv
  <2>3. QueueInv(queue')
    BY <1>1, <2>1, <2>2, RemoveEventInv
  <2>4. QED
    BY <1>1, <1>4, <2>1, <2>3 DEF Typed, Shape, HeartbeatsBare
<1>6. CASE k.ack # "success"
  <2>1. /\ queue' = ReleaseNativeSteer(queue, k.ch, k.event)
        /\ settled' = settled \cup ReleaseDrops(k)
        /\ tasks' = tasks \/ tasks' \in Signalled(k.ch, "steer")
    BY <1>6 DEF HandleSteerAck
  <2>2. QueueInv(queue')
    BY <1>1, <1>2, <2>1, ReleaseNativeSteerInv
  <2>3. tasks' \in [Agent -> Task] /\ HeartbeatsBare'
    <3>1. CASE tasks' = tasks
      BY <3>1 DEF Typed, Shape, HeartbeatsBare
    <3>2. CASE tasks' \in Signalled(k.ch, "steer")
      BY <1>1, <3>2, SignalledBare DEF Typed
    <3>3. QED
      BY <2>1, <3>1, <3>2
  <2>4. QED
    BY <1>3, <1>4, <2>1, <2>2, <2>3 DEF Typed, Shape
<1>7. QED
  BY <1>5, <1>6

(* Prompt tasks: what they do to their own record and to the acks. *)
LEMMA AcksOf ==
    ASSUME Typed, NEW a \in Agent, NEW k \in SteerAckKinds,
           NEW es \in SUBSET (tasks[a].steer_rx \cup tasks[a].pending_steer)
    PROVE  {[ch |-> tasks[a].ch, event |-> e, ack |-> k] : e \in es} \subseteq SteerAck
<1>1. tasks[a] \in Task
  BY DEF Typed, Shape
<1>2. es \subseteq Event
  BY <1>1 DEF Task
<1>3. es # {} => tasks[a].ch \in Channel
  BY <1>1 DEF Typed, Shape, HeartbeatsBare, Task
<1>4. QED
  BY <1>2, <1>3 DEF SteerAck

(* A steer written or answered only moves steers of the task. *)
LEMMA SteerTask ==
    ASSUME Typed, NEW a \in Agent, WriteSteer(a) \/ SteerReply(a)
    PROVE  \E u \in Task : /\ tasks' = [tasks EXCEPT ![a] = u]
                          /\ u.ch = tasks[a].ch /\ u.back = tasks[a].back
                          /\ u.phase = tasks[a].phase
                          /\ u.steer_rx \cup u.pending_steer
                               \subseteq tasks[a].steer_rx \cup tasks[a].pending_steer
<1> DEFINE t == tasks[a]
<1>1. t \in Task /\ tasks \in [Agent -> Task]
  BY DEF Typed, Shape
<1>2. CASE tasks' = [tasks EXCEPT ![a].pending_steer = t.steer_rx, ![a].steer_rx = {}]
  <2> DEFINE u == [t EXCEPT !.pending_steer = t.steer_rx, !.steer_rx = {}]
  <2>1. u \in Task /\ u.ch = t.ch /\ u.back = t.back /\ u.phase = t.phase
        /\ u.steer_rx = {} /\ u.pending_steer = t.steer_rx
    BY <1>1 DEF Task
  <2>2. tasks' = [tasks EXCEPT ![a] = u]
    BY <1>1, <1>2
  <2>3. QED
    BY <2>1, <2>2
<1>3. CASE tasks' = [tasks EXCEPT ![a].steer_rx = {}]
  <2> DEFINE u == [t EXCEPT !.steer_rx = {}]
  <2>1. u \in Task /\ u.ch = t.ch /\ u.back = t.back /\ u.phase = t.phase
        /\ u.steer_rx = {} /\ u.pending_steer = t.pending_steer
    BY <1>1 DEF Task
  <2>2. tasks' = [tasks EXCEPT ![a] = u]
    BY <1>1, <1>3
  <2>3. QED
    BY <2>1, <2>2
<1>4. CASE tasks' = [tasks EXCEPT ![a].pending_steer = {}]
  <2> DEFINE u == [t EXCEPT !.pending_steer = {}]
  <2>1. u \in Task /\ u.ch = t.ch /\ u.back = t.back /\ u.phase = t.phase
        /\ u.steer_rx = t.steer_rx /\ u.pending_steer = {}
    BY <1>1 DEF Task
  <2>2. tasks' = [tasks EXCEPT ![a] = u]
    BY <1>1, <1>4
  <2>3. QED
    BY <2>1, <2>2
<1>5. QED
  BY <1>2, <1>3, <1>4 DEF WriteSteer, SteerReply

LEMMA TypedSteer ==
    ASSUME Typed, NEW a \in Agent, WriteSteer(a) \/ SteerReply(a)
    PROVE  Typed'
<1> DEFINE t == tasks[a]
<1>1. t \in Task /\ tasks \in [Agent -> Task]
  BY DEF Typed, Shape
<1>2. /\ UNCHANGED <<queue, slots, circuit, removed, heartbeat_in_flight, pc, next,
                     settled, interrupted, failures, expiries>>
  BY DEF WriteSteer, SteerReply, taskUnchanged, loopVars
<1>3. \E u \in Task : /\ tasks' = [tasks EXCEPT ![a] = u]
                      /\ u.ch = t.ch /\ u.back = t.back
                      /\ u.steer_rx \cup u.pending_steer
                           \subseteq t.steer_rx \cup t.pending_steer
  BY SteerTask
<1>4. tasks' \in [Agent -> Task] /\ HeartbeatsBare'
  BY <1>1, <1>3 DEF Typed, Shape, HeartbeatsBare
<1>5. acks' \subseteq SteerAck
  <2>1. acks \subseteq SteerAck
    BY DEF Typed, Shape
  <2>2. \A k \in SteerAckKinds : \A es \in {t.steer_rx, t.pending_steer} :
           {[ch |-> t.ch, event |-> e, ack |-> k] : e \in es} \subseteq SteerAck
    BY AcksOf
  <2>3. \/ acks' = acks
        \/ \E k \in SteerAckKinds : \E es \in {t.steer_rx, t.pending_steer} :
              acks' = acks \cup {[ch |-> t.ch, event |-> e, ack |-> k] : e \in es}
    BY DEF WriteSteer, SteerReply, SteerAckKinds
  <2>4. QED
    BY <2>1, <2>2, <2>3
<1>6. QED
  BY <1>2, <1>4, <1>5 DEF Typed, Shape, QueueInv, Capped, Remembers

LEMMA TypedEnds ==
    ASSUME Typed, NEW a \in Agent, NEW phase \in Outcomes \cup {"panicked"},
           NEW back \in BOOLEAN, back => tasks[a].ch # NoChannel,
           NEW reason \in Reason, failures' \in 0..MaxFailures,
           Ends(a, phase, back, reason)
    PROVE  Typed'
<1> DEFINE t == tasks[a]
           u == [t EXCEPT !.phase = phase, !.back = back, !.reason = reason,
                          !.steer_rx = {}, !.pending_steer = {}]
<1>1. t \in Task /\ tasks \in [Agent -> Task]
  BY DEF Typed, Shape
<1>2. u \in Task /\ u.ch = t.ch /\ u.back = back /\ u.steer_rx = {} /\ u.pending_steer = {}
  BY <1>1 DEF Task
<1>3. tasks' = [tasks EXCEPT ![a] = u]
  BY <1>1 DEF Ends
<1> HIDE DEF u
<1>4. tasks' \in [Agent -> Task]
  BY <1>1, <1>2, <1>3
<1>5. tasks'[a] = u /\ \A d \in Agent \ {a} : tasks'[d] = tasks[d]
  BY <1>1, <1>3
<1>6. HeartbeatsBare'
  BY <1>2, <1>5 DEF Typed, Shape, HeartbeatsBare
<1>7. acks' \subseteq SteerAck
  <2>1. {[ch |-> t.ch, event |-> e, ack |-> "release"] :
           e \in t.steer_rx \cup t.pending_steer} \subseteq SteerAck
    BY AcksOf DEF SteerAckKinds
  <2>2. QED
    BY <2>1 DEF Ends, Typed, Shape
<1>8. UNCHANGED <<queue, slots, circuit, removed, heartbeat_in_flight, pc, next,
                  settled, interrupted, expiries>>
  BY DEF Ends, taskUnchanged, loopVars
<1>9. QED
  BY <1>4, <1>6, <1>7, <1>8 DEF Typed, Shape, QueueInv, Capped, Remembers

LEMMA TypedTurnEnds ==
    ASSUME Typed, NEW a \in Agent, TurnEnds(a)
    PROVE  Typed'
<1>1. tasks[a].reason \in Reason /\ CancelReason(a) \in Reason
  BY DEF Typed, Shape, Task, CancelReason, Reason
<1>2. failures \in 0..MaxFailures /\ (Fails => failures' \in 0..MaxFailures)
  BY HarnessConstants DEF Typed, Shape, Fails
<1>3. /\ KeepsBatch(a) \in BOOLEAN /\ (KeepsBatch(a) => tasks[a].ch # NoChannel)
      /\ KeepsCancelled(a) \in BOOLEAN /\ (KeepsCancelled(a) => tasks[a].ch # NoChannel)
  BY DEF KeepsBatch, KeepsCancelled
<1>4. CASE TurnOk(a)
  BY <1>1, <1>2, <1>4, TypedEnds DEF TurnOk, Outcomes
<1>5. CASE TurnFails(a)
  <2>1. PICK o \in FailOutcomes : Ends(a, o, KeepsBatch(a), tasks[a].reason)
    BY <1>5 DEF TurnFails
  <2>2. failures' \in 0..MaxFailures /\ o \in Outcomes
    BY <1>2, <1>5 DEF TurnFails, Outcomes
  <2>3. QED
    BY <1>1, <1>3, <2>1, <2>2, TypedEnds
<1>6. CASE TurnCancelled(a)
  <2>1. Ends(a, "cancelled", KeepsCancelled(a), CancelReason(a)) /\ failures' = failures
    BY <1>6 DEF TurnCancelled
  <2>2. QED
    BY <1>1, <1>2, <1>3, <2>1, TypedEnds DEF Outcomes
<1>7. CASE TurnCancelFails(a)
  <2>1. PICK o \in {"drain_timeout", "exited", "idle"} \cup ErrorOutcomes :
            Ends(a, o, KeepsCancelled(a), CancelReason(a))
    BY <1>7 DEF TurnCancelFails
  <2>2. failures' \in 0..MaxFailures /\ o \in Outcomes
    BY <1>2, <1>7 DEF TurnCancelFails, Outcomes, FailOutcomes
  <2>3. QED
    BY <1>1, <1>3, <2>1, <2>2, TypedEnds
<1>8. CASE TurnPanics(a)
  BY <1>1, <1>2, <1>8, TypedEnds DEF TurnPanics
<1>9. QED
  BY <1>4, <1>5, <1>6, <1>7, <1>8 DEF TurnEnds

(* Respawn tasks and clocks. *)
LEMMA TypedClock ==
    ASSUME Typed, ClockStep
    PROVE  Typed'
<1>1. ASSUME NEW a \in Agent, RespawnEnds(a)
      PROVE  Typed'
  <2>1. slots' \in [Agent -> SlotStates]
    BY <1>1 DEF RespawnEnds, Typed, Shape, SlotStates, RespawnInFlight
  <2>2. failures' \in 0..MaxFailures
    BY <1>1, HarnessConstants DEF RespawnEnds, Fails, Typed, Shape
  <2>3. QED
    BY <1>1, <2>1, <2>2
       DEF RespawnEnds, Typed, Shape, HeartbeatsBare, QueueInv, Capped, Remembers, loopVars
<1>2. ASSUME NEW a \in Agent, CooldownElapses(a)
      PROVE  Typed'
  BY <1>2 DEF CooldownElapses, Typed, Shape, HeartbeatsBare, QueueInv, Capped, Remembers,
              loopVars, bounds
<1>3. ASSUME NEW c \in Channel, BackoffElapses(c)
      PROVE  Typed'
  <2>1. QueueInv(queue')
    BY <1>3, BackoffUpdate DEF BackoffElapses, Typed
  <2>2. QED
    BY <1>3, <2>1 DEF BackoffElapses, Typed, Shape, HeartbeatsBare, loopVars, bounds
<1>4. ASSUME NEW c \in Channel, DeadlinePasses(c)
      PROVE  Typed'
  <2>1. queue.due \cup {c} \subseteq queue.in_flight
    BY <1>4 DEF DeadlinePasses, Typed, QueueInv
  <2>2. QueueInv(queue')
    BY <1>4, <2>1, DueUpdate DEF DeadlinePasses, Typed
  <2>3. expiries' \in 0..MaxExpiries
    BY <1>4, HarnessConstants DEF DeadlinePasses, Typed, Shape
  <2>4. QED
    BY <1>4, <2>2, <2>3 DEF DeadlinePasses, Typed, Shape, HeartbeatsBare, loopVars
<1>5. QED
  BY <1>1, <1>2, <1>3, <1>4 DEF ClockStep

LEMMA TypedStep == Typed /\ [Next]_vars => Typed'
<1> SUFFICES ASSUME Typed, [Next]_vars PROVE Typed'
  OBVIOUS
<1>1. CASE LoopStep
  <2>1. CASE NotDue \/ Maintain \/ Collect \/ DispatchNothing
    BY <2>1, TypedTop
  <2>2. CASE DispatchQueued \/ DispatchCancelled
    BY <2>2, TypedDispatch
  <2>3. CASE \E a \in Agent : HandleResult(a)
    BY <2>3, TypedResult
  <2>4. CASE DrainDone
    BY <2>4, TypedTimers
  <2>5. QED
    BY <1>1, <2>1, <2>2, <2>3, <2>4 DEF LoopStep
<1>2. CASE PanicStep
  BY <1>2, TypedPanic DEF PanicStep
<1>3. CASE AckStep
  BY <1>3, TypedAck DEF AckStep
<1>4. CASE RelayStep
  BY <1>4, TypedArrival, TypedControl DEF RelayStep
<1>5. CASE Tick \/ HeartbeatFired \/ Shutdown
  BY <1>5, TypedTimers
<1>6. CASE \E a \in Agent : TaskStep(a)
  BY <1>6, TypedSteer, TypedTurnEnds DEF TaskStep
<1>7. CASE ClockStep
  BY <1>7, TypedClock
<1>8. CASE UNCHANGED vars
  BY <1>8 DEF vars, loopVars, bounds, Typed, Shape, HeartbeatsBare, QueueInv, Capped, Remembers
<1>9. QED
  BY <1>1, <1>2, <1>3, <1>4, <1>5, <1>6, <1>7, <1>8 DEF Next

LEMMA TypedAlways == Spec => []Typed
BY TypedInit, TypedStep, PTL DEF Spec

(* The state of the harness is well typed: no retry counter passes          *)
(* MAX_RETRIES and only a channel in flight can have an expired deadline.   *)
THEOREM TypeCorrect == Spec => []TypeOK
BY TypedAlways, TypedGives, PTL

(* No sequence of pushes, requeues, steer releases and expiry recoveries    *)
(* takes a channel over MAX_PENDING_PER_CHANNEL.                            *)
THEOREM DepthCap == Spec => []QueueBounded
BY TypedAlways, TypedGives, PTL

(* A channel that is backing off never forgets its attempts, so the number  *)
(* of attempts before a batch is dead-lettered is not reset by a turn end   *)
(* or by compaction while the throttle is active.                           *)
THEOREM BackoffKeepsCount == Spec => []BackoffRemembersAttempts
BY TypedAlways, TypedGives, PTL

-----------------------------------------------------------------------------
(* The books of the pool, and the turns behind the in-flight channels.      *)

(* Strengthening: heartbeat_in_flight is one flag, so one heartbeat runs.   *)
OneHeartbeat ==
    \A a, b \in Agent :
        /\ InTaskMap(a) /\ tasks[a].ch = NoChannel
        /\ InTaskMap(b) /\ tasks[b].ch = NoChannel
        => a = b

Books == PoolConsistent /\ OneHeartbeat /\ InFlightBacked

LEMMA BooksInit == Init => Books
BY NewQueueInv DEF Init, Books, PoolConsistent, OneHeartbeat, InFlightBacked, InTaskMap, NoTask

(* A step that neither starts nor ends a turn, nor touches a slot, and puts *)
(* no channel in flight.                                                    *)
LEMMA BooksKept ==
    ASSUME Books,
           UNCHANGED <<slots, circuit, heartbeat_in_flight>>,
           queue'.in_flight \subseteq queue.in_flight,
           \A a \in Agent : /\ tasks'[a].ch = tasks[a].ch
                            /\ (tasks'[a].phase = "none") <=> (tasks[a].phase = "none")
    PROVE  Books'
<1>1. \A a \in Agent : InTaskMap(a)' <=> InTaskMap(a)
  BY DEF InTaskMap
<1>2. PoolConsistent'
  BY <1>1 DEF Books, PoolConsistent
<1>3. OneHeartbeat'
  BY <1>1 DEF Books, OneHeartbeat
<1>4. InFlightBacked'
  BY <1>1 DEF Books, InFlightBacked, TasksOn
<1>5. QED
  BY <1>2, <1>3, <1>4 DEF Books

(* Slots that go between empty and the stages of a respawn. *)
LEMMA BooksSlots ==
    ASSUME Books, UNCHANGED <<tasks, heartbeat_in_flight>>,
           queue'.in_flight \subseteq queue.in_flight,
           \A a \in Agent : /\ (slots'[a] = "busy") <=> (slots[a] = "busy")
                            /\ slots'[a] # "empty" => circuit'[a] = "closed"
    PROVE  Books'
BY DEF Books, PoolConsistent, OneHeartbeat, InFlightBacked, TasksOn, InTaskMap

(* An idle agent starts a turn on a channel, which is put in flight. *)
LEMMA BooksClaim ==
    ASSUME Typed, Books, NEW q, NEW b \in FlushBatch, Claim(q, b),
           q.in_flight \subseteq queue.in_flight \cup {b.ch}
    PROVE  Books'
<1>1. PICK a \in Agent :
         /\ slots[a] = "idle"
         /\ slots' = [slots EXCEPT ![a] = "busy"]
         /\ tasks' = [tasks EXCEPT ![a] = NewTask(b)]
  BY DEF Claim, Idle
<1>2. UNCHANGED <<circuit, heartbeat_in_flight>> /\ queue' = q
  BY DEF Claim, loopVars
<1>3. ~InTaskMap(a) /\ circuit[a] = "closed"
  BY <1>1 DEF Books, PoolConsistent
<1>4. /\ slots'[a] = "busy" /\ tasks'[a] = NewTask(b)
      /\ \A d \in Agent \ {a} : slots'[d] = slots[d] /\ tasks'[d] = tasks[d]
  BY <1>1 DEF Typed, Shape
<1>5. NewTask(b).ch = b.ch /\ NewTask(b).phase = "running" /\ b.ch # NoChannel
  BY HarnessConstants DEF NewTask, NoTask, FlushBatch
<1>6. /\ InTaskMap(a)'
      /\ \A d \in Agent \ {a} : InTaskMap(d)' <=> InTaskMap(d)
  BY <1>4, <1>5 DEF InTaskMap
<1>7. PoolConsistent'
  BY <1>2, <1>3, <1>4, <1>5, <1>6 DEF Books, PoolConsistent
<1>8. OneHeartbeat'
  BY <1>4, <1>5, <1>6 DEF Books, OneHeartbeat
<1>9. InFlightBacked'
  BY <1>2, <1>3, <1>4, <1>5, <1>6 DEF Books, InFlightBacked, TasksOn
<1>10. QED
  BY <1>7, <1>8, <1>9 DEF Books

(* A turn leaves the task map: its channel is released and its agent goes   *)
(* back to its slot or through the circuit breaker.                         *)
LEMMA BooksEnd ==
    ASSUME Typed, Books, NEW a \in Agent, InTaskMap(a), NEW fatal, AgentReturns(a, fatal),
           tasks' = [tasks EXCEPT ![a] = NoTask],
           heartbeat_in_flight' = (heartbeat_in_flight /\ tasks[a].ch # NoChannel),
           queue'.in_flight = queue.in_flight \ {tasks[a].ch}
    PROVE  Books'
<1>1. slots[a] = "busy" /\ circuit[a] = "closed"
  BY DEF Books, PoolConsistent
<1>2. /\ tasks'[a] = NoTask
      /\ \A d \in Agent \ {a} : tasks'[d] = tasks[d]
  BY DEF Typed, Shape
<1>3. /\ \A d \in Agent \ {a} : slots'[d] = slots[d] /\ circuit'[d] = circuit[d]
      /\ slots'[a] # "busy"
      /\ slots'[a] # "empty" => circuit'[a] = "closed"
  <2>1. slots \in [Agent -> SlotStates] /\ circuit \in [Agent -> {"closed", "open", "cooled"}]
    BY DEF Typed, Shape
  <2>2. CASE ~fatal
    BY <1>1, <2>1, <2>2 DEF AgentReturns
  <2>3. CASE fatal
    <3>1. PICK v \in CrashVerdicts(circuit[a]) :
             /\ slots' = [slots EXCEPT ![a] = v[1]]
             /\ circuit' = [circuit EXCEPT ![a] = v[2]]
      BY <2>3 DEF AgentReturns
    <3>2. v = <<"respawning", "closed">> \/ v = <<"empty", "open">>
      BY <1>1 DEF CrashVerdicts
    <3>3. QED
      BY <2>1, <3>1, <3>2
  <2>4. QED
    BY <2>2, <2>3
<1>4. /\ ~InTaskMap(a)'
      /\ \A d \in Agent \ {a} : InTaskMap(d)' <=> InTaskMap(d)
  BY <1>2 DEF InTaskMap, NoTask
<1>5. OneHeartbeat'
  BY <1>2, <1>4 DEF Books, OneHeartbeat
<1>6. heartbeat_in_flight' <=> \E d \in Agent : InTaskMap(d)' /\ tasks'[d].ch = NoChannel
  BY <1>2, <1>4 DEF Books, OneHeartbeat, PoolConsistent
<1>7. PoolConsistent'
  BY <1>2, <1>3, <1>4, <1>6 DEF Books, PoolConsistent
<1>8. InFlightBacked'
  BY <1>2, <1>4 DEF Books, InFlightBacked, TasksOn
<1>9. QED
  BY <1>5, <1>7, <1>8 DEF Books

(* The two outcomes of dispatching a batch: a pool that is exhausted leaves *)
(* no trace in in_flight.                                                   *)
LEMMA BooksBatch ==
    ASSUME Typed, Books, NEW q, QueueInv(q), NEW b \in FlushBatch,
           q.in_flight = Released.in_flight \cup {b.ch},
           Claim(q, b) \/ PoolExhausted(q, b)
    PROVE  Books'
<1>1. Released.in_flight \subseteq queue.in_flight
  BY ExpireInv DEF Typed, Released
<1>2. CASE Claim(q, b)
  BY <1>1, <1>2, BooksClaim
<1>3. CASE PoolExhausted(q, b)
  <2>1. b.ch \in Channel
    BY DEF FlushBatch
  <2>2. /\ QueueInv(RequeuePreserveTimestamps(q, b))
        /\ RequeuePreserveTimestamps(q, b).in_flight = q.in_flight
    BY RequeuePreserveInv
  <2>3. queue'.in_flight = q.in_flight \ {b.ch}
    BY <1>3, <2>1, <2>2, MarkCompleteInv DEF PoolExhausted
  <2>4. UNCHANGED <<slots, circuit, heartbeat_in_flight, tasks>>
    BY <1>3 DEF PoolExhausted, loopVars
  <2>5. QED
    BY <1>1, <2>3, <2>4, BooksKept
<1>4. QED
  BY <1>2, <1>3

LEMMA BooksDispatch ==
    ASSUME Typed, Books, DispatchQueued \/ DispatchCancelled
    PROVE  Books'
<1>1. QueueInv(Released)
  BY ExpireInv DEF Typed, Released
<1>2. CASE DispatchQueued
  <2>1. PICK b \in QueuedBatches(Released) :
           \/ Claim(FlushQueued(Released, b.ch), b)
           \/ PoolExhausted(FlushQueued(Released, b.ch), b)
    BY <1>2 DEF DispatchQueued
  <2>2. b \in FlushBatch /\ b.ch \in Channel
    BY <1>1, QueuedBatchType DEF FlushBatch
  <2>3. QED
    BY <1>1, <2>1, <2>2, FlushQueuedInv, BooksBatch
<1>3. CASE DispatchCancelled
  <2>1. PICK b \in CancelledBatches(Released) :
           \/ Claim(FlushCancelled(Released, b.ch), b)
           \/ PoolExhausted(FlushCancelled(Released, b.ch), b)
    BY <1>3 DEF DispatchCancelled
  <2>2. b \in FlushBatch /\ b.ch \in Channel
    BY <1>1, CancelledBatchType DEF FlushBatch
  <2>3. QED
    BY <1>1, <2>1, <2>2, FlushCancelledInv, BooksBatch
<1>4. QED
  BY <1>2, <1>3

(* The top of the loop, timers and clocks. *)
LEMMA BooksTop ==
    ASSUME Typed, Books,
           NotDue \/ Maintain \/ Collect \/ DispatchNothing \/ DrainDone \/ Tick \/ Shutdown
    PROVE  Books'
<1>1. CASE NotDue \/ DrainDone \/ Tick \/ Shutdown
  <2>1. UNCHANGED <<queue, slots, circuit, tasks, heartbeat_in_flight>>
    BY <1>1 DEF NotDue, DrainDone, Tick, Shutdown, loopVars
  <2>2. QED
    BY <2>1, BooksKept
<1>2. CASE Maintain
  <2>1. /\ QueueInv(CompactExpiredState(queue))
        /\ CompactExpiredState(queue).in_flight = queue.in_flight
    BY CompactInv DEF Typed
  <2>2. queue'.in_flight \subseteq queue.in_flight
    BY <1>2, <2>1, ExpireInv DEF Maintain
  <2>3. UNCHANGED <<tasks, heartbeat_in_flight>>
    BY <1>2 DEF Maintain, loopVars
  <2>4. \A a \in Agent : /\ (slots'[a] = "busy") <=> (slots[a] = "busy")
                         /\ slots'[a] # "empty" => circuit'[a] = "closed"
    BY <1>2 DEF Maintain, CanRefill, Books, PoolConsistent
  <2>5. QED
    BY <2>2, <2>3, <2>4, BooksSlots
<1>3. CASE Collect
  <2>1. UNCHANGED <<queue, tasks, heartbeat_in_flight>>
    BY <1>3 DEF Collect, loopVars
  <2>2. \A a \in Agent : /\ (slots'[a] = "busy") <=> (slots[a] = "busy")
                         /\ slots'[a] # "empty" => circuit'[a] = "closed"
    BY <1>3 DEF Collect, Books, PoolConsistent
  <2>3. QED
    BY <2>1, <2>2, BooksSlots
<1>4. CASE DispatchNothing
  <2>1. queue'.in_flight \subseteq queue.in_flight
    BY <1>4, ExpireInv DEF DispatchNothing, Released, Typed
  <2>2. UNCHANGED <<slots, circuit, tasks, heartbeat_in_flight>>
    BY <1>4 DEF DispatchNothing, loopVars
  <2>3. QED
    BY <2>1, <2>2, BooksKept
<1>5. QED
  BY <1>1, <1>2, <1>3, <1>4

LEMMA BooksHeartbeat ==
    ASSUME Typed, Books, HeartbeatFired
    PROVE  Books'
<1>1. queue'.in_flight \subseteq queue.in_flight
  BY ExpireInv DEF HeartbeatFired, Typed
<1>2. CASE UNCHANGED <<slots, circuit, tasks, heartbeat_in_flight>>
  BY <1>1, <1>2, BooksKept
<1>3. ASSUME ~heartbeat_in_flight, heartbeat_in_flight', circuit' = circuit,
             NEW a \in Agent, slots[a] = "idle",
             slots' = [slots EXCEPT ![a] = "busy"],
             tasks' = [tasks EXCEPT ![a] = HeartbeatTask]
      PROVE  Books'
  <2>1. ~InTaskMap(a) /\ circuit[a] = "closed"
    BY <1>3 DEF Books, PoolConsistent
  <2>2. \A d \in Agent : ~(InTaskMap(d) /\ tasks[d].ch = NoChannel)
    BY <1>3 DEF Books, PoolConsistent
  <2>3. /\ slots'[a] = "busy" /\ tasks'[a] = HeartbeatTask
        /\ \A d \in Agent \ {a} : slots'[d] = slots[d] /\ tasks'[d] = tasks[d]
    BY <1>3 DEF Typed, Shape
  <2>4. HeartbeatTask.ch = NoChannel /\ HeartbeatTask.phase = "running"
    BY DEF HeartbeatTask, NoTask
  <2>5. /\ InTaskMap(a)'
        /\ \A d \in Agent \ {a} : InTaskMap(d)' <=> InTaskMap(d)
    BY <2>3, <2>4 DEF InTaskMap
  <2>6. PoolConsistent'
    BY <1>3, <2>1, <2>3, <2>4, <2>5 DEF Books, PoolConsistent
  <2>7. OneHeartbeat'
    BY <2>2, <2>3, <2>5 DEF OneHeartbeat
  <2>8. InFlightBacked'
    BY <1>1, <2>1, <2>3, <2>5 DEF Books, InFlightBacked, TasksOn
  <2>9. QED
    BY <2>6, <2>7, <2>8 DEF Books
<1>4. QED
  BY <1>2, <1>3 DEF HeartbeatFired, Idle

LEMMA BooksRelay ==
    ASSUME Typed, Books, RelayStep
    PROVE  Books'
<1>1. PICK c \in Channel :
         \/ EventDropped(c) \/ EventQueued(c) \/ EventSteered(c) \/ EventSignals(c)
         \/ OwnerControl(c) \/ MembershipRemoved(c) \/ MembershipAdded(c)
  BY DEF RelayStep
<1>2. UNCHANGED <<slots, circuit, heartbeat_in_flight>>
  BY <1>1 DEF EventDropped, EventQueued, EventSteered, EventSignals, Arrives, OwnerControl,
              MembershipRemoved, MembershipAdded, loopVars
<1>3. queue'.in_flight = queue.in_flight
  <2>1. next \in Event =>
            /\ QueueInv(Push(queue, c, next))
            /\ Push(queue, c, next).in_flight = queue.in_flight
            /\ MarkNativeSteerPending(Push(queue, c, next), c, next).in_flight
                 = queue.in_flight
    BY PushInv, MarkNativeSteerPendingInv DEF Typed
  <2>2. DrainChannel(queue, c).in_flight = queue.in_flight
    BY DrainChannelInv DEF Typed
  <2>3. QED
    BY <1>1, <2>1, <2>2
       DEF EventDropped, EventQueued, EventSteered, EventSignals, Arrives, OwnerControl,
           MembershipRemoved, MembershipAdded
<1>4. \A a \in Agent : /\ tasks'[a].ch = tasks[a].ch
                       /\ (tasks'[a].phase = "none") <=> (tasks[a].phase = "none")
  <2>1. CASE tasks' = tasks
    BY <2>1
  <2>2. CASE \E a \in Agent : tasks' = [tasks EXCEPT ![a].steer_rx = {next}]
    <3>1. PICK a \in Agent : tasks' = [tasks EXCEPT ![a].steer_rx = {next}]
      BY <2>2
    <3>2. \A d \in Agent : tasks[d] \in Task
      BY DEF Typed, Shape
    <3>3. QED
      BY <3>1, <3>2 DEF Typed, Shape, Task
  <2>3. CASE \E s \in {"steer", "interrupt", "cancel"} : tasks' \in Signalled(c, s)
    BY <2>3, SignalledType DEF Typed
  <2>4. QED
    BY <1>1, <2>1, <2>2, <2>3, HarnessConstants
       DEF EventDropped, EventQueued, EventSteered, EventSignals, OwnerControl,
           MembershipRemoved, MembershipAdded, ModeGateSignals, TasksOn
<1>5. QED
  BY <1>2, <1>3, <1>4, BooksKept

LEMMA BooksAck ==
    ASSUME Typed, Books, NEW k \in acks, HandleSteerAck(k)
    PROVE  Books'
<1>1. k.ch \in Channel /\ k.event \in Event
  BY DEF Typed, Shape, SteerAck
<1>2. UNCHANGED <<slots, circuit, heartbeat_in_flight>>
  BY DEF HandleSteerAck, loopVars
<1>3. queue'.in_flight = queue.in_flight
  <2>1. /\ QueueInv(ExtendInFlightDeadline(queue, k.ch))
        /\ ExtendInFlightDeadline(queue, k.ch).in_flight = queue.in_flight
    BY DueUpdate DEF ExtendInFlightDeadline, QueueInv, Typed
  <2>2. RemoveEvent(ExtendInFlightDeadline(queue, k.ch), k.ch, k.event).in_flight
          = queue.in_flight
    BY <1>1, <2>1, RemoveEventInv
  <2>3. ReleaseNativeSteer(queue, k.ch, k.event).in_flight = queue.in_flight
    BY <1>1, ReleaseNativeSteerInv DEF Typed
  <2>4. QED
    BY <2>2, <2>3 DEF HandleSteerAck
<1>4. \A a \in Agent : /\ tasks'[a].ch = tasks[a].ch
                       /\ (tasks'[a].phase = "none") <=> (tasks[a].phase = "none")
  <2>1. CASE tasks' = tasks
    BY <2>1
  <2>2. CASE tasks' \in Signalled(k.ch, "steer")
    BY <1>1, <2>2, SignalledType DEF Typed
  <2>3. QED
    BY <2>1, <2>2 DEF HandleSteerAck
<1>5. QED
  BY <1>2, <1>3, <1>4, BooksKept

(* A turn that ends, by a result or a panic. *)
LEMMA BooksResult ==
    ASSUME Typed, Books, NEW a \in Agent, HandleResult(a)
    PROVE  Books'
<1>1. tasks[a] \in Task
  BY DEF Typed, Shape
<1>2. InTaskMap(a)
  BY DEF HandleResult, InTaskMap, Outcomes, FailOutcomes, ErrorOutcomes
<1>3. QueueInv(Disposed(tasks[a])) /\ Disposed(tasks[a]).in_flight = queue.in_flight
  BY DisposedInv
<1>4. queue'.in_flight = queue.in_flight \ {tasks[a].ch}
  BY <1>1, <1>3, CompletedInv DEF HandleResult
<1>5. /\ tasks' = [tasks EXCEPT ![a] = NoTask]
      /\ heartbeat_in_flight' = (heartbeat_in_flight /\ tasks[a].ch # NoChannel)
      /\ AgentReturns(a, tasks[a].phase \in Fatal)
  BY DEF HandleResult
<1>6. QED
  BY <1>2, <1>4, <1>5, BooksEnd, Zenon

LEMMA BooksPanic ==
    ASSUME Typed, Books, NEW a \in Agent, RecoverPanicked(a)
    PROVE  Books'
<1> DEFINE t == tasks[a]
           q == IF Recoverable(t) THEN Requeue(queue, BatchOf(t)) ELSE queue
<1>1. t \in Task
  BY DEF Typed, Shape
<1>2. InTaskMap(a)
  BY DEF RecoverPanicked, InTaskMap
<1>3. QueueInv(q) /\ q.in_flight = queue.in_flight
  BY RecoveredInv
<1>4. queue' = Completed(q, t)
  BY DEF RecoverPanicked
<1>5. queue'.in_flight = queue.in_flight \ {t.ch}
  <2> HIDE DEF q, t
  <2>1. QED
    BY <1>1, <1>3, <1>4, CompletedInv
<1>6. /\ tasks' = [tasks EXCEPT ![a] = NoTask]
      /\ heartbeat_in_flight' = (heartbeat_in_flight /\ tasks[a].ch # NoChannel)
      /\ AgentReturns(a, TRUE)
  BY DEF RecoverPanicked
<1>7. QED
  BY <1>2, <1>5, <1>6, BooksEnd, Zenon

(* Prompt tasks change neither the task map nor a slot. *)
LEMMA BooksTask ==
    ASSUME Typed, Books, NEW a \in Agent, TaskStep(a)
    PROVE  Books'
<1>1. tasks \in [Agent -> Task] /\ tasks[a] \in Task
  BY DEF Typed, Shape
<1>2. UNCHANGED <<queue, slots, circuit, heartbeat_in_flight>>
  BY DEF TaskStep, WriteSteer, SteerReply, TurnEnds, TurnOk, TurnFails, TurnCancelled,
         TurnCancelFails, TurnPanics, Ends, taskUnchanged, loopVars
<1>3. tasks[a].phase = "running"
  BY DEF TaskStep, WriteSteer, SteerReply, TurnEnds, TurnOk, TurnFails, TurnCancelled,
         TurnCancelFails, TurnPanics, Ends
<1>4. \A d \in Agent : /\ tasks'[d].ch = tasks[d].ch
                       /\ (tasks'[d].phase = "none") <=> (tasks[d].phase = "none")
  <2>1. CASE WriteSteer(a) \/ SteerReply(a)
    <3>1. PICK u \in Task : /\ tasks' = [tasks EXCEPT ![a] = u]
                            /\ u.ch = tasks[a].ch /\ u.phase = tasks[a].phase
      BY <2>1, SteerTask
    <3>2. QED
      BY <1>1, <3>1
  <2>2. CASE TurnEnds(a)
    <3>1. PICK o \in Outcomes \cup {"panicked"} :
             \E back \in BOOLEAN, reason \in Reason : Ends(a, o, back, reason)
      <4>1. tasks[a].reason \in Reason /\ CancelReason(a) \in Reason
        BY <1>1 DEF Task, CancelReason, Reason
      <4>2. KeepsBatch(a) \in BOOLEAN /\ KeepsCancelled(a) \in BOOLEAN
        BY DEF KeepsBatch, KeepsCancelled
      <4>3. QED
        BY <2>2, <4>1, <4>2
           DEF TurnEnds, TurnOk, TurnFails, TurnCancelled, TurnCancelFails, TurnPanics,
               Outcomes, FailOutcomes
    <3>2. PICK back \in BOOLEAN, reason \in Reason : Ends(a, o, back, reason)
      BY <3>1
    <3>3. o # "none"
      BY DEF Outcomes, FailOutcomes, ErrorOutcomes
    <3>4. QED
      BY <1>1, <1>3, <3>2, <3>3 DEF Ends, Task
  <2>3. QED
    BY <2>1, <2>2 DEF TaskStep
<1>5. QED
  BY <1>2, <1>4, BooksKept

LEMMA BooksClock ==
    ASSUME Typed, Books, ClockStep
    PROVE  Books'
<1>1. ASSUME NEW a \in Agent, RespawnEnds(a)
      PROVE  Books'
  <2>1. UNCHANGED <<queue, circuit, tasks, heartbeat_in_flight>>
    BY <1>1 DEF RespawnEnds, loopVars
  <2>2. \A d \in Agent : /\ (slots'[d] = "busy") <=> (slots[d] = "busy")
                         /\ slots'[d] # "empty" => circuit'[d] = "closed"
    BY <1>1 DEF RespawnEnds, Books, PoolConsistent, Typed, Shape
  <2>3. QED
    BY <2>1, <2>2, BooksSlots
<1>2. ASSUME NEW a \in Agent, CooldownElapses(a)
      PROVE  Books'
  <2>1. UNCHANGED <<queue, slots, tasks, heartbeat_in_flight>>
    BY <1>2 DEF CooldownElapses, loopVars
  <2>2. \A d \in Agent : /\ (slots'[d] = "busy") <=> (slots[d] = "busy")
                         /\ slots'[d] # "empty" => circuit'[d] = "closed"
    BY <1>2 DEF CooldownElapses, Books, PoolConsistent, Typed, Shape
  <2>3. QED
    BY <2>1, <2>2, BooksSlots
<1>3. ASSUME NEW c \in Channel, BackoffElapses(c)
      PROVE  Books'
  <2>1. queue'.in_flight = queue.in_flight
    BY <1>3, BackoffUpdate DEF BackoffElapses, Typed
  <2>2. UNCHANGED <<slots, circuit, tasks, heartbeat_in_flight>>
    BY <1>3 DEF BackoffElapses, loopVars
  <2>3. QED
    BY <2>1, <2>2, BooksKept
<1>4. ASSUME NEW c \in Channel, DeadlinePasses(c)
      PROVE  Books'
  <2>1. queue'.in_flight = queue.in_flight
    BY <1>4 DEF DeadlinePasses, Typed, QueueInv, EventQueue
  <2>2. UNCHANGED <<slots, circuit, tasks, heartbeat_in_flight>>
    BY <1>4 DEF DeadlinePasses, loopVars
  <2>3. QED
    BY <2>1, <2>2, BooksKept
<1>5. QED
  BY <1>1, <1>2, <1>3, <1>4 DEF ClockStep

LEMMA BooksStep == Typed /\ Books /\ [Next]_vars => Books'
<1> SUFFICES ASSUME Typed, Books, [Next]_vars PROVE Books'
  OBVIOUS
<1>1. CASE LoopStep
  <2>1. CASE NotDue \/ Maintain \/ Collect \/ DispatchNothing \/ DrainDone
    BY <2>1, BooksTop
  <2>2. CASE DispatchQueued \/ DispatchCancelled
    BY <2>2, BooksDispatch
  <2>3. CASE \E a \in Agent : HandleResult(a)
    BY <2>3, BooksResult
  <2>4. QED
    BY <1>1, <2>1, <2>2, <2>3 DEF LoopStep
<1>2. CASE PanicStep
  BY <1>2, BooksPanic DEF PanicStep
<1>3. CASE AckStep
  BY <1>3, BooksAck DEF AckStep
<1>4. CASE RelayStep
  BY <1>4, BooksRelay
<1>5. CASE HeartbeatFired
  BY <1>5, BooksHeartbeat
<1>6. CASE Tick \/ Shutdown
  BY <1>6, BooksTop
<1>7. CASE \E a \in Agent : TaskStep(a)
  BY <1>7, BooksTask
<1>8. CASE ClockStep
  BY <1>8, BooksClock
<1>9. CASE UNCHANGED vars
  <2>1. UNCHANGED <<queue, slots, circuit, tasks, heartbeat_in_flight>>
    BY <1>9 DEF vars
  <2>2. QED
    BY <2>1, BooksKept
<1>10. QED
  BY <1>1, <1>2, <1>3, <1>4, <1>5, <1>6, <1>7, <1>8, <1>9 DEF Next

LEMMA BooksAlways == Spec => []Books
<1>1. Init => Books
  BY BooksInit
<1>2. Typed /\ Books /\ [Next]_vars => Books'
  BY BooksStep
<1>3. QED
  BY <1>1, <1>2, TypedAlways, PTL DEF Spec

(* The pool's books agree with the task map and the circuit breakers,       *)
(* however turns end, agents crash and slots are refilled: an agent is      *)
(* checked out iff its turn is in the task map, and never lives behind an   *)
(* open circuit.                                                            *)
THEOREM PoolBooks == Spec => []PoolConsistent
<1>1. Books => PoolConsistent
  BY DEF Books
<1>2. QED
  BY <1>1, BooksAlways, PTL

(* No channel is wedged: a channel that is in flight has a turn in the task *)
(* map, whose result or panic calls mark_complete, even after a deadline    *)
(* expired under an old turn and a new one was started.                     *)
THEOREM NoWedgedChannel == Spec => []InFlightBacked
<1>1. Books => InFlightBacked
  BY DEF Books
<1>2. QED
  BY <1>1, BooksAlways, PTL
=============================================================================
