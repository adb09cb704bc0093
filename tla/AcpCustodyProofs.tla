-------------------------- MODULE AcpCustodyProofs --------------------------
(***************************************************************************)
(* Proofs about where the harness keeps an event, for any number of        *)
(* channels, agents and events, and for every setting of the options.      *)
(***************************************************************************)
EXTENDS AcpHarnessProofs, SequenceTheorems

-----------------------------------------------------------------------------
(* Sequences without repetitions, and the events in them.                   *)

LEMMA ElementsOf ==
    ASSUME NEW s \in Seq(Event)
    PROVE  /\ ToSet(s) \subseteq Event
           /\ \A i \in 1..Len(s) : s[i] \in ToSet(s)
           /\ \A e \in ToSet(s) : \E i \in 1..Len(s) : s[i] = e
           /\ Len(s) \in Nat /\ DOMAIN s = 1..Len(s)
BY DEF ToSet

LEMMA NothingIn == ToSet(<<>>) = {} /\ NoRepeats(<<>>) /\ <<>> \in Seq(Event)
BY DEF ToSet, NoRepeats

LEMMA Singly ==
    ASSUME NEW e \in Event
    PROVE  <<e>> \in Seq(Event) /\ ToSet(<<e>>) = {e} /\ NoRepeats(<<e>>)
BY DEF ToSet, NoRepeats

LEMMA AppendElements ==
    ASSUME NEW s \in Seq(Event), NEW e \in Event
    PROVE  /\ Append(s, e) \in Seq(Event)
           /\ ToSet(Append(s, e)) = ToSet(s) \cup {e}
           /\ NoRepeats(s) /\ e \notin ToSet(s) => NoRepeats(Append(s, e))
<1> DEFINE t == Append(s, e)
<1>1. /\ t \in Seq(Event) /\ Len(t) = Len(s) + 1 /\ t[Len(s) + 1] = e
      /\ \A i \in 1..Len(s) : t[i] = s[i]
      /\ Len(s) \in Nat /\ DOMAIN t = 1..Len(t) /\ DOMAIN s = 1..Len(s)
  OBVIOUS
<1> HIDE DEF t
<1>2. \A i \in 1..Len(t) : i \in 1..Len(s) \/ i = Len(s) + 1
  BY <1>1
<1>3. Len(s) + 1 \in 1..Len(t) /\ \A i \in 1..Len(s) : i \in 1..Len(t)
  BY <1>1
<1>4. ToSet(t) = ToSet(s) \cup {e}
  BY <1>1, <1>2, <1>3 DEF ToSet
<1>5. ASSUME NoRepeats(s), e \notin ToSet(s) PROVE NoRepeats(t)
  <2>1. \A i \in 1..Len(s) : s[i] # e
    BY <1>1, <1>5 DEF ToSet
  <2>2. QED
    BY <1>1, <1>2, <1>5, <2>1 DEF NoRepeats
<1>6. QED
  BY <1>1, <1>4, <1>5 DEF t

(* Where the elements of a concatenation come from. *)
LEMMA ConcatIndices ==
    ASSUME NEW s \in Seq(Event), NEW t \in Seq(Event)
    PROVE  /\ s \o t \in Seq(Event)
           /\ DOMAIN (s \o t) = 1..(Len(s) + Len(t))
           /\ \A i \in 1..Len(s) : i \in DOMAIN (s \o t) /\ (s \o t)[i] = s[i]
           /\ \A i \in 1..Len(t) : /\ i + Len(s) \in DOMAIN (s \o t)
                                   /\ (s \o t)[i + Len(s)] = t[i]
           /\ \A i \in DOMAIN (s \o t) :
                 \/ i \in 1..Len(s)
                 \/ i - Len(s) \in 1..Len(t) /\ (s \o t)[i] = t[i - Len(s)]
<1> DEFINE u == s \o t
<1>1. /\ u \in Seq(Event) /\ Len(u) = Len(s) + Len(t)
      /\ \A i \in 1..Len(s) : u[i] = s[i]
      /\ \A i \in 1..Len(u) : i > Len(s) => u[i] = t[i - Len(s)]
      /\ Len(s) \in Nat /\ Len(t) \in Nat
      /\ DOMAIN u = 1..Len(u) /\ DOMAIN s = 1..Len(s) /\ DOMAIN t = 1..Len(t)
  OBVIOUS
<1> HIDE DEF u
<1>2. \A i \in 1..Len(u) : i \in 1..Len(s) \/ (i > Len(s) /\ i - Len(s) \in 1..Len(t))
  BY <1>1
<1>3. \A i \in 1..Len(s) : i \in 1..Len(u)
  BY <1>1
<1>4. ASSUME NEW i \in 1..Len(t)
      PROVE  i + Len(s) \in 1..Len(u) /\ u[i + Len(s)] = t[i]
  <2>1. i + Len(s) \in 1..Len(u) /\ i + Len(s) > Len(s) /\ (i + Len(s)) - Len(s) = i
    BY <1>1
  <2>2. u[i + Len(s)] = t[(i + Len(s)) - Len(s)]
    BY <1>1, <2>1
  <2>3. QED
    BY <2>1, <2>2
<1>5. QED
  BY <1>1, <1>2, <1>3, <1>4 DEF u

LEMMA ConcatElements ==
    ASSUME NEW s \in Seq(Event), NEW t \in Seq(Event)
    PROVE  /\ s \o t \in Seq(Event)
           /\ ToSet(s \o t) = ToSet(s) \cup ToSet(t)
           /\ NoRepeats(s) /\ NoRepeats(t) /\ ToSet(s) \cap ToSet(t) = {} => NoRepeats(s \o t)
<1> DEFINE u == s \o t
<1>1. /\ u \in Seq(Event)
      /\ \A i \in 1..Len(s) : i \in DOMAIN u /\ u[i] = s[i]
      /\ \A i \in 1..Len(t) : i + Len(s) \in DOMAIN u /\ u[i + Len(s)] = t[i]
      /\ \A i \in DOMAIN u : i \in 1..Len(s) \/ (i - Len(s) \in 1..Len(t) /\ u[i] = t[i - Len(s)])
      /\ Len(s) \in Nat /\ Len(t) \in Nat
      /\ DOMAIN s = 1..Len(s) /\ DOMAIN t = 1..Len(t)
      /\ DOMAIN u = 1..(Len(s) + Len(t))
  BY ConcatIndices
<1> HIDE DEF u
<1>5. ToSet(u) = ToSet(s) \cup ToSet(t)
  <2>1. ToSet(u) \subseteq ToSet(s) \cup ToSet(t)
    BY <1>1 DEF ToSet
  <2>2. ToSet(s) \subseteq ToSet(u)
    BY <1>1 DEF ToSet
  <2>3. ASSUME NEW i \in 1..Len(t) PROVE t[i] \in ToSet(u)
    <3>1. i + Len(s) \in DOMAIN u /\ u[i + Len(s)] = t[i]
      BY <1>1
    <3>2. QED
      BY <3>1 DEF ToSet
  <2>4. ToSet(t) \subseteq ToSet(u)
    BY <1>1, <2>3 DEF ToSet
  <2>5. QED
    BY <2>1, <2>2, <2>4
<1>6. ASSUME NoRepeats(s), NoRepeats(t), ToSet(s) \cap ToSet(t) = {},
             NEW i \in DOMAIN u, NEW j \in DOMAIN u, u[i] = u[j]
      PROVE  i = j
  <2>1. \A x \in 1..Len(s), y \in 1..Len(t) : s[x] # t[y]
    BY <1>1, <1>6 DEF ToSet
  <2>2. CASE i \in 1..Len(s) /\ j \in 1..Len(s)
    BY <1>1, <1>6, <2>2 DEF NoRepeats
  <2>3. CASE /\ i - Len(s) \in 1..Len(t) /\ u[i] = t[i - Len(s)]
             /\ j - Len(s) \in 1..Len(t) /\ u[j] = t[j - Len(s)]
    <3>2. i - Len(s) = j - Len(s)
      BY <1>1, <1>6, <2>3 DEF NoRepeats
    <3>3. QED
      BY <1>1, <3>2
  <2>4. CASE i \in 1..Len(s) /\ j - Len(s) \in 1..Len(t) /\ u[j] = t[j - Len(s)]
    BY <1>1, <1>6, <2>1, <2>4
  <2>5. CASE j \in 1..Len(s) /\ i - Len(s) \in 1..Len(t) /\ u[i] = t[i - Len(s)]
    BY <1>1, <1>6, <2>1, <2>5
  <2>6. QED
    BY <1>1, <2>2, <2>3, <2>4, <2>5
<1>7. QED
  BY <1>1, <1>5, <1>6 DEF u, NoRepeats

(* A slice of a sequence has the elements at its positions. *)
LEMMA SliceElements ==
    ASSUME NEW s \in Seq(Event), NEW m \in 1..(Len(s) + 1), NEW n \in 0..Len(s)
    PROVE  /\ SubSeq(s, m, n) \in Seq(Event)
           /\ ToSet(SubSeq(s, m, n)) = {s[k] : k \in m..n}
           /\ NoRepeats(s) => NoRepeats(SubSeq(s, m, n))
<1> DEFINE u == SubSeq(s, m, n)
<1>1. m \in Int /\ n \in Int /\ \A i \in m..n : i \in 1..Len(s) /\ s[i] \in Event
  OBVIOUS
<1>2. /\ u \in Seq(Event)
      /\ Len(u) = IF m <= n THEN n - m + 1 ELSE 0
      /\ \A i \in 1..(n - m + 1) : u[i] = s[m + i - 1]
  BY <1>1, SubSeqProperties
<1> HIDE DEF u
<1>3. DOMAIN u = 1..(n - m + 1) /\ DOMAIN s = 1..Len(s)
  <2>1. DOMAIN u = 1..Len(u)
    BY <1>2
  <2>2. QED
    BY <1>1, <1>2, <2>1
<1>4. \A i \in 1..(n - m + 1) : m + i - 1 \in m..n
  BY <1>1
<1>5. \A k \in m..n : k - m + 1 \in 1..(n - m + 1) /\ m + (k - m + 1) - 1 = k
  BY <1>1
<1>6. ToSet(u) = {s[k] : k \in m..n}
  <2>1. ASSUME NEW i \in 1..(n - m + 1) PROVE u[i] \in {s[k] : k \in m..n}
    BY <1>2, <1>4
  <2>2. ASSUME NEW k \in m..n PROVE s[k] \in ToSet(u)
    <3>1. k - m + 1 \in DOMAIN u /\ u[k - m + 1] = s[k]
      BY <1>2, <1>3, <1>5
    <3>2. QED
      BY <3>1 DEF ToSet
  <2>3. ToSet(u) \subseteq {s[k] : k \in m..n}
    BY <1>3, <2>1 DEF ToSet
  <2>4. QED
    BY <2>2, <2>3
<1>7. ASSUME NoRepeats(s), NEW i \in DOMAIN u, NEW j \in DOMAIN u, u[i] = u[j]
      PROVE  i = j
  <2>1. /\ s[m + i - 1] = s[m + j - 1]
        /\ m + i - 1 \in 1..Len(s) /\ m + j - 1 \in 1..Len(s)
    BY <1>1, <1>2, <1>3, <1>4, <1>7
  <2>2. m + i - 1 = m + j - 1
    BY <1>3, <1>7, <2>1 DEF NoRepeats
  <2>3. i \in Int /\ j \in Int
    BY <1>3
  <2>4. QED
    BY <1>1, <2>2, <2>3
<1>8. QED
  BY <1>2, <1>6, <1>7 DEF u, NoRepeats

(* Cut in two, a sequence without repetitions has two disjoint parts. *)
LEMMA SplitElements ==
    ASSUME NEW s \in Seq(Event), NEW n \in 0..Len(s)
    PROVE  LET u == SubSeq(s, 1, n)
               v == SubSeq(s, n + 1, Len(s))
           IN  /\ u \in Seq(Event) /\ v \in Seq(Event)
               /\ ToSet(u) \cup ToSet(v) = ToSet(s)
               /\ NoRepeats(s) => NoRepeats(u) /\ NoRepeats(v) /\ ToSet(u) \cap ToSet(v) = {}
<1> DEFINE u == SubSeq(s, 1, n)
           v == SubSeq(s, n + 1, Len(s))
<1>1. n \in Nat /\ Len(s) \in Nat /\ n <= Len(s) /\ DOMAIN s = 1..Len(s)
  OBVIOUS
<1>2. 1 \in 1..(Len(s) + 1) /\ n + 1 \in 1..(Len(s) + 1) /\ Len(s) \in 0..Len(s)
  BY <1>1
<1>3. /\ u \in Seq(Event) /\ ToSet(u) = {s[k] : k \in 1..n}
      /\ NoRepeats(s) => NoRepeats(u)
  BY <1>2, SliceElements
<1>4. /\ v \in Seq(Event) /\ ToSet(v) = {s[k] : k \in (n + 1)..Len(s)}
      /\ NoRepeats(s) => NoRepeats(v)
  BY <1>2, SliceElements
<1> HIDE DEF u, v
<1>5. /\ \A k \in 1..n : k \in 1..Len(s) /\ k \notin (n + 1)..Len(s)
      /\ \A k \in (n + 1)..Len(s) : k \in 1..Len(s)
      /\ \A k \in 1..Len(s) : k \in 1..n \/ k \in (n + 1)..Len(s)
  BY <1>1
<1>6. ToSet(s) = {s[k] : k \in 1..Len(s)}
  BY <1>1 DEF ToSet
<1>7. ToSet(u) \cup ToSet(v) = ToSet(s)
  BY <1>3, <1>4, <1>5, <1>6
<1>8. ASSUME NoRepeats(s) PROVE ToSet(u) \cap ToSet(v) = {}
  BY <1>1, <1>3, <1>4, <1>5, <1>8 DEF NoRepeats
<1>9. QED
  BY <1>3, <1>4, <1>7, <1>8 DEF u, v

(* Without takes out one event. *)
LEMMA WithoutElements ==
    ASSUME NEW s \in Seq(Event), NEW e, NoRepeats(s)
    PROVE  /\ Without(s, e) \in Seq(Event)
           /\ ToSet(Without(s, e)) = ToSet(s) \ {e}
           /\ NoRepeats(Without(s, e))
<1>1. Contains(s, e) <=> e \in ToSet(s)
  BY DEF Contains, ToSet
<1>2. CASE ~Contains(s, e)
  BY <1>1, <1>2 DEF Without
<1>3. CASE Contains(s, e)
  <2> DEFINE i == Position(s, e)
             u == SubSeq(s, 1, i - 1)
             v == SubSeq(s, i + 1, Len(s))
  <2>1. i \in 1..Len(s) /\ s[i] = e
    <3>1. \E j \in DOMAIN s : s[j] = e
      BY <1>3 DEF Contains
    <3>2. QED
      BY <3>1 DEF Position
  <2>2. Without(s, e) = u \o v
    BY <1>3 DEF Without, RemoveAt
  <2> HIDE DEF i
  <2>3. /\ 1 \in 1..(Len(s) + 1) /\ i - 1 \in 0..Len(s)
        /\ i + 1 \in 1..(Len(s) + 1) /\ Len(s) \in 0..Len(s)
    BY <2>1
  <2>4. u \in Seq(Event) /\ ToSet(u) = {s[k] : k \in 1..(i - 1)} /\ NoRepeats(u)
    BY <2>3, SliceElements
  <2>5. v \in Seq(Event) /\ ToSet(v) = {s[k] : k \in (i + 1)..Len(s)} /\ NoRepeats(v)
    BY <2>3, SliceElements
  <2> HIDE DEF u, v
  <2>6. /\ \A k \in 1..(i - 1) : k \in 1..Len(s) /\ k # i /\ k \notin (i + 1)..Len(s)
        /\ \A k \in (i + 1)..Len(s) : k \in 1..Len(s) /\ k # i
        /\ \A k \in 1..Len(s) : k = i \/ k \in 1..(i - 1) \/ k \in (i + 1)..Len(s)
    BY <2>1
  <2>7. ToSet(s) = {s[k] : k \in 1..Len(s)} /\ DOMAIN s = 1..Len(s)
    BY DEF ToSet
  <2>8. ToSet(u) \cap ToSet(v) = {}
    BY <2>4, <2>5, <2>6, <2>7 DEF NoRepeats
  <2>9. ToSet(u) \cup ToSet(v) = ToSet(s) \ {e}
    <3>1. \A k \in 1..Len(s) : k # i => s[k] # e
      BY <2>1, <2>7 DEF NoRepeats
    <3>2. QED
      BY <2>1, <2>4, <2>5, <2>6, <2>7, <3>1
  <2>10. QED
    BY <2>2, <2>4, <2>5, <2>8, <2>9, ConcatElements
<1>4. QED
  BY <1>2, <1>3

(* Sorting a batch by created_at repeats nothing and loses nothing. *)
LEMMA SortElements ==
    ASSUME NEW s \in Seq(Event), NoRepeats(s), NEW t \in SortedByCreatedAt(s)
    PROVE  t \in Seq(Event) /\ ToSet(t) = ToSet(s) /\ NoRepeats(t)
<1>1. /\ t \in [DOMAIN s -> ToSet(s)] /\ ToSet(t) = ToSet(s)
      /\ \A i, j \in DOMAIN s : i < j => SortsBefore(s, t[i], t[j])
  BY DEF SortedByCreatedAt
<1>2. DOMAIN t = DOMAIN s /\ DOMAIN s = 1..Len(s) /\ ToSet(s) \subseteq Event
  BY <1>1, ElementsOf
<1>3. ASSUME NEW i \in DOMAIN s, NEW j \in DOMAIN s, i < j, t[i] = t[j] PROVE FALSE
  <2>1. SortsBefore(s, t[i], t[i])
    BY <1>1, <1>3
  <2>2. t[i] \in Event
    BY <1>1, <1>2
  <2>3. CreatedAt[t[i]] \in Nat
    BY <2>2, QueueConstants
  <2>4. PICK x \in DOMAIN s, y \in DOMAIN s : x < y /\ s[x] = t[i] /\ s[y] = t[i]
    BY <2>1, <2>3 DEF SortsBefore
  <2>5. x = y
    BY <2>4 DEF NoRepeats
  <2>6. QED
    BY <1>2, <2>4, <2>5
<1>4. NoRepeats(t)
  <2>1. \A i, j \in DOMAIN s : i = j \/ i < j \/ j < i
    BY <1>2
  <2>2. QED
    BY <1>2, <1>3, <2>1 DEF NoRepeats
<1>5. QED
  BY <1>1, <1>4, SortedType

(* TrimBack and MakeRoom leave out events, and repeat none. *)
LEMMA TrimElements ==
    ASSUME NEW s \in Seq(Event)
    PROVE  /\ TrimBack(s) \in Seq(Event)
           /\ ToSet(TrimBack(s)) \subseteq ToSet(s)
           /\ ToSet(s) = ToSet(TrimBack(s)) \cup Trimmed(s)
           /\ Trimmed(s) \cap ToSet(TrimBack(s)) = {}
           /\ NoRepeats(s) => NoRepeats(TrimBack(s))
<1>1. CASE Len(s) > MaxPending
  <2>1. MaxPending \in 0..Len(s)
    BY <1>1, QueueConstants
  <2>2. TrimBack(s) = SubSeq(s, 1, MaxPending)
    BY <1>1 DEF TrimBack
  <2>3. /\ TrimBack(s) \in Seq(Event)
        /\ ToSet(TrimBack(s)) \subseteq ToSet(s)
        /\ NoRepeats(s) => NoRepeats(TrimBack(s))
    BY <2>1, <2>2, SplitElements
  <2>4. QED
    BY <2>3 DEF Trimmed
<1>2. CASE ~(Len(s) > MaxPending)
  BY <1>2 DEF TrimBack, Trimmed
<1>3. QED
  BY <1>1, <1>2

LEMMA RoomElements ==
    ASSUME NEW s \in Seq(Event)
    PROVE  /\ MakeRoom(s) \in Seq(Event)
           /\ ToSet(MakeRoom(s)) \subseteq ToSet(s)
           /\ NoRepeats(s) => NoRepeats(MakeRoom(s))
<1>1. CASE Len(s) >= MaxPending
  <2>1. 1 \in 0..Len(s)
    BY <1>1, QueueConstants
  <2>2. MakeRoom(s) = SubSeq(s, 1 + 1, Len(s))
    BY <1>1, <2>1 DEF MakeRoom
  <2>3. QED
    BY <2>1, <2>2, SplitElements
<1>2. CASE ~(Len(s) >= MaxPending)
  BY <1>2 DEF MakeRoom
<1>3. QED
  BY <1>1, <1>2

-----------------------------------------------------------------------------
(* Where the events are.  The invariant is stated of values, because one    *)
(* handler applies several methods of the queue in a row.                   *)

(* The tables of a channel, and the parts of a batch, share no event. *)
Neat(q, c) ==
    /\ NoRepeats(q.queues[c]) /\ NoRepeats(q.cancelled[c]) /\ NoRepeats(q.withheld[c])
    /\ InQueue(q, c) \cap InCancelled(q, c) = {}
    /\ InQueue(q, c) \cap InWithheld(q, c) = {}
    /\ InCancelled(q, c) \cap InWithheld(q, c) = {}

Whole(t) ==
    /\ NoRepeats(t.events) /\ NoRepeats(t.cancelled)
    /\ ToSet(t.events) \cap ToSet(t.cancelled) = {}

Apart(q, ts) ==
    /\ \A c \in Channel : Neat(q, c)
    /\ \A c, d \in Channel : c # d => Pending(q, c) \cap Pending(q, d) = {}
    /\ \A c \in Channel, a \in Agent : Pending(q, c) \cap EventsOf(ts[a]) = {}
    /\ \A a \in Agent : Whole(ts[a])
    /\ \A a, b \in Agent : a # b => EventsOf(ts[a]) \cap EventsOf(ts[b]) = {}

(* Of all events that arrived, each one is held, gone or cut: gone are the  *)
(* settled ones, cut the ones that were in a cancelled batch.               *)
Accounted(q, ts, gone, cut, all) ==
    /\ \A c \in Channel : Pending(q, c) \subseteq all /\ InCancelled(q, c) \subseteq cut
    /\ \A a \in Agent : EventsOf(ts[a]) \subseteq all /\ ToSet(ts[a].cancelled) \subseteq cut
    /\ gone \subseteq all
    /\ \A e \in all : \/ e \in gone \cup cut
                      \/ \E c \in Channel : e \in Pending(q, c)
                      \/ \E a \in Agent : e \in EventsOf(ts[a])

Kept(q, ts, gone, cut, all) == Apart(q, ts) /\ Accounted(q, ts, gone, cut, all)

(* Nothing that is gone is held. *)
Fresh(q, ts, gone) ==
    /\ \A c \in Channel : Pending(q, c) \cap gone = {}
    /\ \A a \in Agent : EventsOf(ts[a]) \cap gone = {}

SameAt(q, r, c) ==
    /\ r.queues[c] = q.queues[c]
    /\ r.cancelled[c] = q.cancelled[c]
    /\ r.withheld[c] = q.withheld[c]

SameElsewhere(q, r, c) == \A d \in Channel : d # c => SameAt(q, r, d)

SameTables(q, r) == \A d \in Channel : SameAt(q, r, d)

SameBatches(ts, us) ==
    \A a \in Agent : us[a].events = ts[a].events /\ us[a].cancelled = ts[a].cancelled

LEMMA SameAtHolds ==
    ASSUME NEW q, NEW r, NEW c, SameAt(q, r, c)
    PROVE  /\ InQueue(r, c) = InQueue(q, c)
           /\ InCancelled(r, c) = InCancelled(q, c)
           /\ InWithheld(r, c) = InWithheld(q, c)
           /\ Pending(r, c) = Pending(q, c)
           /\ Neat(q, c) => Neat(r, c)
BY DEF SameAt, InQueue, InCancelled, InWithheld, Pending, Neat

(* A step that moves nothing keeps everything. *)
LEMMA NothingMoves ==
    ASSUME NEW q, NEW r, NEW ts, NEW us, NEW gone, NEW cut, NEW all,
           SameTables(q, r), SameBatches(ts, us)
    PROVE  /\ Kept(q, ts, gone, cut, all) => Kept(r, us, gone, cut, all)
           /\ Fresh(q, ts, gone) => Fresh(r, us, gone)
<1>1. \A c \in Channel : /\ Pending(r, c) = Pending(q, c) /\ InCancelled(r, c) = InCancelled(q, c)
                         /\ Neat(q, c) => Neat(r, c)
  BY SameAtHolds DEF SameTables
<1>2. \A a \in Agent : /\ EventsOf(us[a]) = EventsOf(ts[a])
                       /\ ToSet(us[a].cancelled) = ToSet(ts[a].cancelled)
                       /\ Whole(ts[a]) => Whole(us[a])
  BY DEF SameBatches, EventsOf, Whole
<1>3. Apart(q, ts) => Apart(r, us)
  BY <1>1, <1>2 DEF Apart
<1>4. Accounted(q, ts, gone, cut, all) => Accounted(r, us, gone, cut, all)
  BY <1>1, <1>2 DEF Accounted
<1>5. QED
  BY <1>1, <1>2, <1>3, <1>4 DEF Kept, Fresh

(* A step within one channel: new events may come in, what leaves is gone.  *)
LEMMA ChannelMoves ==
    ASSUME NEW q, NEW r, NEW ts, NEW gone, NEW later, NEW cut, NEW all, NEW new,
           NEW c \in Channel,
           Kept(q, ts, gone, cut, all), SameElsewhere(q, r, c),
           Neat(r, c), InCancelled(r, c) \subseteq cut,
           new \cap all = {}, gone \subseteq later, later \subseteq all \cup new,
           Pending(r, c) \subseteq Pending(q, c) \cup new,
           Pending(q, c) \cup new \subseteq Pending(r, c) \cup later \cup cut
    PROVE  Kept(r, ts, later, cut, all \cup new)
<1>1. \A d \in Channel : d # c => /\ Pending(r, d) = Pending(q, d)
                                  /\ InCancelled(r, d) = InCancelled(q, d)
                                  /\ Neat(q, d) => Neat(r, d)
  BY SameAtHolds DEF SameElsewhere
<1>2. Apart(q, ts) /\ Accounted(q, ts, gone, cut, all)
  BY DEF Kept
<1>3. /\ \A d \in Channel : Pending(q, d) \subseteq all
      /\ \A a \in Agent : EventsOf(ts[a]) \subseteq all
  BY <1>2 DEF Accounted
<1>4. Apart(r, ts)
  <2>1. \A d \in Channel : Neat(r, d)
    BY <1>1, <1>2 DEF Apart
  <2>2. \A d \in Channel : d # c => Pending(r, c) \cap Pending(r, d) = {}
    BY <1>1, <1>2, <1>3 DEF Apart
  <2>3. \A d, x \in Channel : d # x => Pending(r, x) \cap Pending(r, d) = {}
    BY <1>1, <1>2, <2>2 DEF Apart
  <2>4. \A d \in Channel, a \in Agent : Pending(r, d) \cap EventsOf(ts[a]) = {}
    BY <1>1, <1>2, <1>3 DEF Apart
  <2>5. QED
    BY <1>2, <2>1, <2>3, <2>4 DEF Apart
<1>5. Accounted(r, ts, later, cut, all \cup new)
  <2>1. \A d \in Channel : /\ Pending(r, d) \subseteq all \cup new
                           /\ InCancelled(r, d) \subseteq cut
    BY <1>1, <1>2, <1>3 DEF Accounted
  <2>2. ASSUME NEW e \in all \cup new
        PROVE  \/ e \in later \cup cut
               \/ \E d \in Channel : e \in Pending(r, d)
               \/ \E a \in Agent : e \in EventsOf(ts[a])
    <3>1. \/ e \in gone \cup cut \cup new
          \/ \E d \in Channel : e \in Pending(q, d)
          \/ \E a \in Agent : e \in EventsOf(ts[a])
      BY <1>2 DEF Accounted
    <3>2. QED
      BY <1>1, <3>1
  <2>3. QED
    BY <1>2, <2>1, <2>2 DEF Accounted
<1>6. QED
  BY <1>4, <1>5 DEF Kept

LEMMA ChannelFresh ==
    ASSUME NEW q, NEW r, NEW ts, NEW gone, NEW later, NEW cut, NEW all, NEW new,
           NEW c \in Channel,
           Kept(q, ts, gone, cut, all), Fresh(q, ts, gone), SameElsewhere(q, r, c),
           new \cap all = {}, later \subseteq gone \cup Pending(q, c) \cup new,
           Pending(r, c) \cap later = {}
    PROVE  Fresh(r, ts, later)
<1>1. \A d \in Channel : d # c => Pending(r, d) = Pending(q, d)
  BY SameAtHolds DEF SameElsewhere
<1>2. /\ \A d \in Channel : Pending(q, d) \subseteq all
      /\ \A a \in Agent : EventsOf(ts[a]) \subseteq all
      /\ \A d \in Channel : d # c => Pending(q, c) \cap Pending(q, d) = {}
      /\ \A a \in Agent : Pending(q, c) \cap EventsOf(ts[a]) = {}
  BY DEF Kept, Accounted, Apart
<1>3. QED
  BY <1>1, <1>2 DEF Fresh

(* A step that moves events between a channel and the batch of a turn. *)
LEMMA BatchMoves ==
    ASSUME NEW q, NEW r, NEW ts \in [Agent -> Task], NEW t \in Task,
           NEW gone, NEW later, NEW cut, NEW cut2, NEW all,
           NEW c \in Channel, NEW a \in Agent,
           Kept(q, ts, gone, cut, all), SameElsewhere(q, r, c),
           Neat(r, c), InCancelled(r, c) \subseteq cut2,
           Whole(t), ToSet(t.cancelled) \subseteq cut2,
           cut \subseteq cut2, gone \subseteq later, later \subseteq all,
           Pending(r, c) \cup EventsOf(t) \subseteq Pending(q, c) \cup EventsOf(ts[a]),
           Pending(r, c) \cap EventsOf(t) = {},
           Pending(q, c) \cup EventsOf(ts[a])
               \subseteq Pending(r, c) \cup EventsOf(t) \cup later \cup cut2
    PROVE  Kept(r, [ts EXCEPT ![a] = t], later, cut2, all)
<1> DEFINE us == [ts EXCEPT ![a] = t]
<1>1. us[a] = t /\ \A b \in Agent : b # a => us[b] = ts[b]
  OBVIOUS
<1> HIDE DEF us
<1>2. \A d \in Channel : d # c => /\ Pending(r, d) = Pending(q, d)
                                  /\ InCancelled(r, d) = InCancelled(q, d)
                                  /\ Neat(q, d) => Neat(r, d)
  BY SameAtHolds DEF SameElsewhere
<1>3. Apart(q, ts) /\ Accounted(q, ts, gone, cut, all)
  BY DEF Kept
<1>4. Apart(r, us)
  <2>1. \A d \in Channel : Neat(r, d)
    BY <1>2, <1>3 DEF Apart
  <2>2. \A b \in Agent : Whole(us[b])
    BY <1>1, <1>3 DEF Apart
  <2>3. \A d \in Channel : d # c => Pending(r, c) \cap Pending(r, d) = {}
    BY <1>2, <1>3 DEF Apart
  <2>4. \A d, x \in Channel : d # x => Pending(r, x) \cap Pending(r, d) = {}
    BY <1>2, <1>3, <2>3 DEF Apart
  <2>5. \A d \in Channel : Pending(r, d) \cap EventsOf(us[a]) = {}
    BY <1>1, <1>2, <1>3 DEF Apart
  <2>6. \A d \in Channel, b \in Agent : b # a => Pending(r, d) \cap EventsOf(us[b]) = {}
    BY <1>1, <1>2, <1>3 DEF Apart
  <2>7. \A b \in Agent : b # a => EventsOf(us[a]) \cap EventsOf(us[b]) = {}
    BY <1>1, <1>3 DEF Apart
  <2>8. \A b, x \in Agent : b # x => EventsOf(us[x]) \cap EventsOf(us[b]) = {}
    BY <1>1, <1>3, <2>7 DEF Apart
  <2>9. QED
    BY <2>1, <2>2, <2>4, <2>5, <2>6, <2>8 DEF Apart
<1>5. Accounted(r, us, later, cut2, all)
  <2>1. \A d \in Channel : Pending(r, d) \subseteq all /\ InCancelled(r, d) \subseteq cut2
    BY <1>2, <1>3 DEF Accounted
  <2>2. \A b \in Agent : EventsOf(us[b]) \subseteq all /\ ToSet(us[b].cancelled) \subseteq cut2
    BY <1>1, <1>3 DEF Accounted
  <2>3. ASSUME NEW e \in all
        PROVE  \/ e \in later \cup cut2
               \/ \E d \in Channel : e \in Pending(r, d)
               \/ \E b \in Agent : e \in EventsOf(us[b])
    <3>1. \/ e \in gone \cup cut
          \/ \E d \in Channel : e \in Pending(q, d)
          \/ \E b \in Agent : e \in EventsOf(ts[b])
      BY <1>3 DEF Accounted
    <3>2. CASE e \in Pending(r, c) \cup EventsOf(us[a]) \cup later \cup cut2
      BY <3>2
    <3>3. CASE \E d \in Channel : d # c /\ e \in Pending(q, d)
      BY <1>2, <3>3
    <3>4. CASE \E b \in Agent : b # a /\ e \in EventsOf(ts[b])
      BY <1>1, <3>4
    <3>5. QED
      BY <1>1, <3>1, <3>2, <3>3, <3>4
  <2>4. QED
    BY <2>1, <2>2, <2>3 DEF Accounted
<1>6. QED
  BY <1>4, <1>5 DEF Kept, us

LEMMA BatchFresh ==
    ASSUME NEW q, NEW r, NEW ts \in [Agent -> Task], NEW t \in Task,
           NEW gone, NEW later, NEW cut, NEW all,
           NEW c \in Channel, NEW a \in Agent,
           Kept(q, ts, gone, cut, all), Fresh(q, ts, gone), SameElsewhere(q, r, c),
           later \subseteq gone \cup Pending(q, c) \cup EventsOf(ts[a]),
           (Pending(r, c) \cup EventsOf(t)) \cap later = {}
    PROVE  Fresh(r, [ts EXCEPT ![a] = t], later)
<1> DEFINE us == [ts EXCEPT ![a] = t]
<1>1. us[a] = t /\ \A b \in Agent : b # a => us[b] = ts[b]
  OBVIOUS
<1> HIDE DEF us
<1>2. \A d \in Channel : d # c => Pending(r, d) = Pending(q, d)
  BY SameAtHolds DEF SameElsewhere
<1>3. /\ \A d \in Channel : d # c => Pending(q, c) \cap Pending(q, d) = {}
      /\ \A d \in Channel, b \in Agent : Pending(q, d) \cap EventsOf(ts[b]) = {}
      /\ \A b \in Agent : b # a => EventsOf(ts[a]) \cap EventsOf(ts[b]) = {}
  BY DEF Kept, Apart
<1>4. \A d \in Channel : Pending(r, d) \cap later = {}
  BY <1>2, <1>3 DEF Fresh
<1>5. \A b \in Agent : EventsOf(us[b]) \cap later = {}
  BY <1>1, <1>3 DEF Fresh
<1>6. QED
  BY <1>4, <1>5 DEF Fresh, us

(* A turn leaves the task map and all its events are gone. *)
LEMMA TurnGone ==
    ASSUME NEW q, NEW r, NEW ts \in [Agent -> Task], NEW gone, NEW cut, NEW all,
           NEW a \in Agent, SameTables(q, r), Kept(q, ts, gone, cut, all)
    PROVE  LET us == [ts EXCEPT ![a] = NoTask]
               later == gone \cup EventsOf(ts[a])
           IN  /\ Kept(r, us, later, cut, all)
               /\ Fresh(q, ts, gone) => Fresh(r, us, later)
<1> DEFINE us == [ts EXCEPT ![a] = NoTask]
           later == gone \cup EventsOf(ts[a])
<1>1. us[a] = NoTask /\ \A b \in Agent : b # a => us[b] = ts[b]
  OBVIOUS
<1> HIDE DEF us
<1>2. EventsOf(NoTask) = {} /\ ToSet(NoTask.cancelled) = {} /\ Whole(NoTask)
  BY NothingIn DEF EventsOf, NoTask, Whole
<1>3. \A d \in Channel : /\ Pending(r, d) = Pending(q, d)
                         /\ InCancelled(r, d) = InCancelled(q, d)
                         /\ Neat(q, d) => Neat(r, d)
  BY SameAtHolds DEF SameTables
<1>4. Apart(q, ts) /\ Accounted(q, ts, gone, cut, all)
  BY DEF Kept
<1>5. Apart(r, us)
  <2>1. \A d \in Channel, b \in Agent : Pending(r, d) \cap EventsOf(us[b]) = {}
    BY <1>1, <1>2, <1>3, <1>4 DEF Apart
  <2>2. \A b, x \in Agent : b # x => EventsOf(us[x]) \cap EventsOf(us[b]) = {}
    BY <1>1, <1>2, <1>4 DEF Apart
  <2>3. \A b \in Agent : Whole(us[b])
    BY <1>1, <1>2, <1>4 DEF Apart
  <2>4. QED
    BY <1>3, <1>4, <2>1, <2>2, <2>3 DEF Apart
<1>6. Accounted(r, us, later, cut, all)
  <2>1. \A b \in Agent : EventsOf(us[b]) \subseteq all /\ ToSet(us[b].cancelled) \subseteq cut
    BY <1>1, <1>2, <1>4 DEF Accounted
  <2>2. ASSUME NEW e \in all
        PROVE  \/ e \in later \cup cut
               \/ \E d \in Channel : e \in Pending(r, d)
               \/ \E b \in Agent : e \in EventsOf(us[b])
    BY <1>1, <1>3, <1>4 DEF Accounted
  <2>3. QED
    BY <1>3, <1>4, <2>1, <2>2 DEF Accounted
<1>7. ASSUME Fresh(q, ts, gone) PROVE Fresh(r, us, later)
  <2>1. \A d \in Channel : Pending(r, d) \cap later = {}
    BY <1>3, <1>4, <1>7 DEF Fresh, Apart
  <2>2. \A b \in Agent : EventsOf(us[b]) \cap later = {}
    BY <1>1, <1>2, <1>4, <1>7 DEF Fresh, Apart
  <2>3. QED
    BY <2>1, <2>2 DEF Fresh
<1>8. QED
  BY <1>5, <1>6, <1>7 DEF Kept, us


-----------------------------------------------------------------------------
(* What each method of the queue moves. *)

LEMMA Tables ==
    ASSUME NEW q, QueueInv(q)
    PROVE  /\ q \in EventQueue
           /\ q.queues \in [Channel -> Seq(Event)]
           /\ q.cancelled \in [Channel -> Seq(Event)]
           /\ q.withheld \in [Channel -> Seq(Event)]
BY DEF QueueInv, EventQueue

(* push *)
LEMMA PushMoves ==
    ASSUME NEW q, QueueInv(q), NEW c \in Channel, NEW e \in Event, Neat(q, c),
           e \notin Pending(q, c)
    PROVE  LET r == Push(q, c, e)
           IN  /\ SameElsewhere(q, r, c)
               /\ r.cancelled = q.cancelled /\ r.withheld = q.withheld
               /\ r.queues[c] = Append(MakeRoom(q.queues[c]), e)
               /\ InQueue(r, c) = ToSet(MakeRoom(q.queues[c])) \cup {e}
               /\ Neat(r, c)
<1> DEFINE r == Push(q, c, e)
           s == MakeRoom(q.queues[c])
<1>1. /\ r.queues = [q.queues EXCEPT ![c] = Append(s, e)]
      /\ r.cancelled = q.cancelled /\ r.withheld = q.withheld
  BY Tables DEF Push, EventQueue
<1>2. r.queues[c] = Append(s, e) /\ SameElsewhere(q, r, c)
  BY <1>1, Tables DEF SameElsewhere, SameAt
<1>3. /\ s \in Seq(Event) /\ ToSet(s) \subseteq InQueue(q, c)
      /\ NoRepeats(s)
  BY Tables, RoomElements DEF InQueue, Neat
<1>4. e \notin ToSet(s)
  BY <1>3 DEF Pending
<1> HIDE DEF r, s
<1>5. ToSet(Append(s, e)) = ToSet(s) \cup {e} /\ NoRepeats(Append(s, e))
  BY <1>3, <1>4, AppendElements
<1>6. InQueue(r, c) = ToSet(s) \cup {e} /\ NoRepeats(r.queues[c])
  BY <1>2, <1>5 DEF InQueue
<1>7. InCancelled(r, c) = InCancelled(q, c) /\ InWithheld(r, c) = InWithheld(q, c)
  BY <1>1 DEF InCancelled, InWithheld
<1>8. Neat(r, c)
  BY <1>1, <1>3, <1>6, <1>7 DEF Neat, Pending
<1>9. QED
  BY <1>1, <1>2, <1>6, <1>8 DEF r, s

(* mark_native_steer_pending, right after the push *)
LEMMA SteerMoves ==
    ASSUME NEW q, QueueInv(q), NEW c \in Channel, NEW e \in Event, Neat(q, c),
           e \notin Pending(q, c)
    PROVE  LET r == MarkNativeSteerPending(Push(q, c, e), c, e)
           IN  /\ SameElsewhere(q, r, c)
               /\ r.cancelled = q.cancelled
               /\ InQueue(r, c) = ToSet(MakeRoom(q.queues[c]))
               /\ InWithheld(r, c) = InWithheld(q, c) \cup {e}
               /\ Neat(r, c)
<1> DEFINE p == Push(q, c, e)
           r == MarkNativeSteerPending(p, c, e)
           s == MakeRoom(q.queues[c])
<1>1. /\ SameElsewhere(q, p, c) /\ p.cancelled = q.cancelled /\ p.withheld = q.withheld
      /\ InQueue(p, c) = ToSet(s) \cup {e} /\ Neat(p, c) /\ QueueInv(p)
  BY PushMoves, PushInv
<1>2. ToSet(s) \subseteq InQueue(q, c)
  BY Tables, RoomElements DEF InQueue
<1>3. e \notin ToSet(s) /\ e \notin InCancelled(q, c) /\ e \notin InWithheld(q, c)
  BY <1>2 DEF Pending
<1> HIDE DEF p, s
<1>4. Contains(p.queues[c], e)
  <2>1. e \in ToSet(p.queues[c])
    BY <1>1 DEF InQueue
  <2>2. QED
    BY <2>1 DEF ToSet, Contains
<1>5. /\ r.queues = [p.queues EXCEPT ![c] = Without(p.queues[c], e)]
      /\ r.withheld = [p.withheld EXCEPT ![c] = Append(p.withheld[c], e)]
      /\ r.cancelled = p.cancelled
  BY <1>1, <1>4, Tables DEF MarkNativeSteerPending, EventQueue
<1> HIDE DEF r
<1>6. /\ r.queues[c] = Without(p.queues[c], e)
      /\ r.withheld[c] = Append(p.withheld[c], e)
      /\ SameElsewhere(q, r, c)
  BY <1>1, <1>5, Tables DEF SameElsewhere, SameAt
<1>7. p.queues[c] \in Seq(Event) /\ p.withheld[c] \in Seq(Event)
  BY <1>1, Tables
<1>8. NoRepeats(p.queues[c]) /\ NoRepeats(p.withheld[c])
  BY <1>1 DEF Neat
<1>9. ToSet(r.queues[c]) = ToSet(p.queues[c]) \ {e} /\ NoRepeats(r.queues[c])
  BY <1>6, <1>7, <1>8, WithoutElements
<1>10. e \notin ToSet(p.withheld[c])
  BY <1>1, <1>3 DEF InWithheld
<1>11. ToSet(r.withheld[c]) = ToSet(p.withheld[c]) \cup {e} /\ NoRepeats(r.withheld[c])
  BY <1>6, <1>7, <1>8, <1>10, AppendElements
<1>12. InQueue(r, c) = ToSet(s)
  BY <1>1, <1>3, <1>9 DEF InQueue
<1>13. InWithheld(r, c) = InWithheld(q, c) \cup {e}
  BY <1>1, <1>11 DEF InWithheld
<1>14. InCancelled(r, c) = InCancelled(q, c) /\ r.cancelled = q.cancelled
  BY <1>1, <1>5 DEF InCancelled
<1>15. Neat(r, c)
  BY <1>2, <1>3, <1>9, <1>11, <1>12, <1>13, <1>14 DEF Neat
<1>16. QED
  BY <1>6, <1>12, <1>13, <1>14, <1>15 DEF r, p, s

(* Auto-expiry *)
LEMMA ExpireMoves ==
    ASSUME NEW q, QueueInv(q), NEW c \in Channel, Neat(q, c)
    PROVE  LET r == Expire(q)
           IN  /\ Neat(r, c)
               /\ r.cancelled = q.cancelled
               /\ Pending(r, c) \subseteq Pending(q, c)
               /\ Pending(q, c) \subseteq Pending(r, c) \cup ExpiryOverflow(q)
               /\ InWithheld(r, c) \subseteq InWithheld(q, c)
               /\ c \notin q.due => SameAt(q, r, c)
<1> DEFINE r == Expire(q)
           s == q.withheld[c] \o q.queues[c]
<1>1. /\ r.queues[c] = IF c \in q.due /\ q.withheld[c] # <<>> THEN TrimBack(s) ELSE q.queues[c]
      /\ r.withheld[c] = IF c \in q.due THEN <<>> ELSE q.withheld[c]
      /\ r.cancelled = q.cancelled
  BY Tables DEF Expire, EventQueue
<1> HIDE DEF r
<1>2. q.withheld[c] \in Seq(Event) /\ q.queues[c] \in Seq(Event)
  BY Tables
<1>3. /\ s \in Seq(Event) /\ ToSet(s) = InWithheld(q, c) \cup InQueue(q, c)
      /\ NoRepeats(s)
  BY <1>2, ConcatElements DEF Neat, InWithheld, InQueue
<1> HIDE DEF s
<1>4. /\ ToSet(TrimBack(s)) \subseteq ToSet(s)
      /\ ToSet(s) = ToSet(TrimBack(s)) \cup Trimmed(s)
      /\ NoRepeats(TrimBack(s))
  BY <1>3, TrimElements
<1>5. c \in q.due => Trimmed(s) \subseteq ExpiryOverflow(q)
  BY DEF ExpiryOverflow, s
<1>6. InCancelled(r, c) = InCancelled(q, c)
  BY <1>1 DEF InCancelled
<1>7. CASE c \notin q.due
  <2>1. SameAt(q, r, c)
    BY <1>1, <1>7 DEF SameAt
  <2>2. QED
    BY <1>1, <2>1, SameAtHolds DEF r
<1>8. CASE c \in q.due /\ q.withheld[c] # <<>>
  <2>1. InQueue(r, c) = ToSet(TrimBack(s)) /\ InWithheld(r, c) = {} /\ NoRepeats(r.queues[c])
        /\ NoRepeats(r.withheld[c])
    BY <1>1, <1>4, <1>8, NothingIn DEF InQueue, InWithheld
  <2>2. Neat(r, c)
    BY <1>1, <1>3, <1>4, <1>6, <2>1 DEF Neat
  <2>3. Pending(r, c) \subseteq Pending(q, c)
    BY <1>3, <1>4, <1>6, <2>1 DEF Pending
  <2>4. Pending(q, c) \subseteq Pending(r, c) \cup ExpiryOverflow(q)
    BY <1>3, <1>4, <1>5, <1>6, <1>8, <2>1 DEF Pending
  <2>5. QED
    BY <1>1, <1>8, <2>1, <2>2, <2>3, <2>4 DEF r
<1>9. CASE c \in q.due /\ q.withheld[c] = <<>>
  <2>1. SameAt(q, r, c)
    BY <1>1, <1>9 DEF SameAt
  <2>2. QED
    BY <1>1, <1>9, <2>1, SameAtHolds DEF r
<1>10. QED
  BY <1>7, <1>8, <1>9

(* flush_next takes from the front of a queue, with the cancelled batch. *)
LEMMA FlushQueuedMoves ==
    ASSUME NEW q, QueueInv(q), NEW b \in QueuedBatches(q),
           \A c \in Channel : Neat(q, c)
    PROVE  LET c == b.ch
               r == FlushQueued(q, c)
           IN  /\ c \in Channel /\ c \notin q.in_flight /\ b \in FlushBatch
               /\ SameElsewhere(q, r, c) /\ Neat(r, c) /\ Whole(b)
               /\ InQueue(r, c) \cup ToSet(b.events) = InQueue(q, c)
               /\ InQueue(r, c) \cap ToSet(b.events) = {}
               /\ InCancelled(r, c) = {} /\ r.cancelled[c] = <<>>
               /\ ToSet(b.cancelled) = InCancelled(q, c)
               /\ b.cancelled = q.cancelled[c]
               /\ r.withheld = q.withheld
<1>1. PICK c \in OldestReady(q) : \E sorted \in SortedByCreatedAt(Drained(q, c)) :
             b = [ch |-> c, events |-> sorted, cancelled |-> q.cancelled[c],
                  reason |-> IF q.cancelled[c] = <<>> THEN "none" ELSE q.reasons[c]]
  BY DEF QueuedBatches
<1>2. b.ch = c /\ b.cancelled = q.cancelled[c] /\ b.events \in SortedByCreatedAt(Drained(q, c))
  BY <1>1
<1>3. c \in Channel /\ c \notin q.in_flight
  BY DEF OldestReady, Ready
<1>4. b \in FlushBatch
  BY QueuedBatchType
<1> DEFINE r == FlushQueued(q, c)
           s == q.queues[c]
           d == Drained(q, c)
           m == Remainder(q, c)
<1>5. /\ r.queues = [q.queues EXCEPT ![c] = m]
      /\ r.cancelled = [q.cancelled EXCEPT ![c] = <<>>]
      /\ r.withheld = q.withheld
  BY <1>3, Tables DEF FlushQueued, EventQueue
<1> HIDE DEF r
<1>6. /\ r.queues[c] = m /\ r.cancelled[c] = <<>> /\ SameElsewhere(q, r, c)
  BY <1>3, <1>5, Tables DEF SameElsewhere, SameAt
<1>7. s \in Seq(Event) /\ NoRepeats(s)
  BY <1>3, Tables DEF Neat
<1>8. /\ d \in Seq(Event) /\ m \in Seq(Event) /\ NoRepeats(d) /\ NoRepeats(m)
      /\ ToSet(d) \cup ToSet(m) = ToSet(s) /\ ToSet(d) \cap ToSet(m) = {}
  <2>1. CASE Len(s) > MaxBatch
    <3>1. MaxBatch \in 0..Len(s)
      BY <1>7, <2>1, QueueConstants
    <3>2. d = SubSeq(s, 1, MaxBatch) /\ m = SubSeq(s, MaxBatch + 1, Len(s))
      BY <2>1 DEF Drained, Remainder
    <3> HIDE DEF d, m, s
    <3>3. QED
      BY <1>7, <3>1, <3>2, SplitElements
  <2>2. CASE ~(Len(s) > MaxBatch)
    <3>1. d = SubSeq(s, 1, Len(s)) /\ m = <<>>
      BY <2>2 DEF Drained, Remainder
    <3> HIDE DEF d, m, s
    <3>2. d = s
      BY <1>7, <3>1, SubSeqFull
    <3>3. QED
      BY <1>7, <3>1, <3>2, NothingIn
  <2>3. QED
    BY <2>1, <2>2
<1> HIDE DEF d, m
<1>9. ToSet(b.events) = ToSet(d) /\ NoRepeats(b.events)
  BY <1>2, <1>8, SortElements DEF d
<1> HIDE DEF s
<1>10. InQueue(q, c) = ToSet(s) /\ InQueue(r, c) = ToSet(m) /\ InCancelled(r, c) = {}
       /\ ToSet(b.cancelled) = InCancelled(q, c) /\ InWithheld(r, c) = InWithheld(q, c)
  BY <1>2, <1>5, <1>6, NothingIn DEF InQueue, InCancelled, InWithheld, s
<1>11. Neat(r, c)
  BY <1>3, <1>5, <1>6, <1>8, <1>10, NothingIn DEF Neat
<1>12. Whole(b)
  BY <1>2, <1>3, <1>8, <1>9, <1>10 DEF Whole, Neat
<1>13. QED
  BY <1>2, <1>3, <1>4, <1>5, <1>6, <1>8, <1>9, <1>10, <1>11, <1>12 DEF r

(* The fallback of flush_next takes a cancelled batch. *)
LEMMA FlushCancelledMoves ==
    ASSUME NEW q, QueueInv(q), NEW b \in CancelledBatches(q),
           \A c \in Channel : Neat(q, c)
    PROVE  LET c == b.ch
               r == FlushCancelled(q, c)
           IN  /\ c \in Channel /\ c \notin q.in_flight /\ b \in FlushBatch
               /\ SameElsewhere(q, r, c) /\ Neat(r, c) /\ Whole(b)
               /\ r.queues = q.queues
               /\ ToSet(b.events) = InCancelled(q, c)
               /\ InCancelled(r, c) = {} /\ r.cancelled[c] = <<>>
               /\ b.cancelled = <<>>
               /\ r.withheld = q.withheld
<1>1. PICK c \in CancelledReady(q) :
             b = [ch |-> c, events |-> q.cancelled[c], cancelled |-> <<>>,
                  reason |-> q.reasons[c]]
  BY DEF CancelledBatches
<1>2. b.ch = c /\ b.events = q.cancelled[c] /\ b.cancelled = <<>>
  BY <1>1
<1>3. c \in Channel /\ c \notin q.in_flight /\ b \in FlushBatch
  BY CancelledBatchType DEF CancelledReady
<1> DEFINE r == FlushCancelled(q, c)
<1>5. /\ r.queues = q.queues
      /\ r.cancelled = [q.cancelled EXCEPT ![c] = <<>>]
      /\ r.withheld = q.withheld
  BY <1>3, Tables DEF FlushCancelled, EventQueue
<1> HIDE DEF r
<1>6. r.cancelled[c] = <<>> /\ SameElsewhere(q, r, c)
  BY <1>3, <1>5, Tables DEF SameElsewhere, SameAt
<1>7. InCancelled(r, c) = {} /\ InQueue(r, c) = InQueue(q, c) /\ InWithheld(r, c) = InWithheld(q, c)
  BY <1>5, <1>6, NothingIn DEF InQueue, InCancelled, InWithheld
<1>8. Neat(r, c)
  BY <1>3, <1>5, <1>6, <1>7, NothingIn DEF Neat
<1>9. Whole(b)
  BY <1>2, <1>3, NothingIn DEF Whole, Neat
<1>10. QED
  BY <1>2, <1>3, <1>5, <1>6, <1>7, <1>8, <1>9 DEF r, InCancelled


(* requeue and requeue_preserve_timestamps put the events at the front.     *)
LEMMA PutBackMoves ==
    ASSUME NEW q, QueueInv(q), NEW b \in FlushBatch, NEW r,
           Neat(q, b.ch), Whole(b), ToSet(b.events) \cap Pending(q, b.ch) = {},
           r.queues = [q.queues EXCEPT ![b.ch] = TrimBack(PutBack(q, b))],
           r.cancelled = q.cancelled, r.withheld = q.withheld
    PROVE  LET c == b.ch
               lost == Trimmed(PutBack(q, b))
           IN  /\ SameElsewhere(q, r, c) /\ Neat(r, c)
               /\ InQueue(r, c) \cup lost = InQueue(q, c) \cup ToSet(b.events)
               /\ InQueue(r, c) \cap lost = {}
<1> DEFINE c == b.ch
           s == PutBack(q, b)
<1>1. c \in Channel /\ b.events \in Seq(Event)
  BY DEF FlushBatch
<1>2. q.queues[c] \in Seq(Event)
  BY <1>1, Tables
<1>3. r.queues[c] = TrimBack(s) /\ SameElsewhere(q, r, c)
  BY <1>1, Tables DEF SameElsewhere, SameAt
<1>4. /\ s \in Seq(Event) /\ ToSet(s) = ToSet(b.events) \cup InQueue(q, c)
      /\ NoRepeats(s)
  <2>1. NoRepeats(b.events) /\ NoRepeats(q.queues[c]) /\ ToSet(b.events) \cap ToSet(q.queues[c]) = {}
    BY DEF Neat, Whole, Pending, InQueue
  <2>2. s = b.events \o q.queues[c]
    BY DEF PutBack
  <2>3. QED
    BY <1>1, <1>2, <2>1, <2>2, ConcatElements DEF InQueue
<1> HIDE DEF s
<1>5. /\ ToSet(TrimBack(s)) \subseteq ToSet(s)
      /\ ToSet(s) = ToSet(TrimBack(s)) \cup Trimmed(s)
      /\ Trimmed(s) \cap ToSet(TrimBack(s)) = {}
      /\ NoRepeats(TrimBack(s))
  BY <1>4, TrimElements
<1>6. /\ InQueue(r, c) = ToSet(TrimBack(s)) /\ NoRepeats(r.queues[c])
      /\ InCancelled(r, c) = InCancelled(q, c) /\ InWithheld(r, c) = InWithheld(q, c)
  BY <1>3, <1>5 DEF InQueue, InCancelled, InWithheld
<1>7. Neat(r, c)
  BY <1>4, <1>5, <1>6 DEF Neat, Pending
<1>8. QED
  BY <1>3, <1>4, <1>5, <1>6, <1>7 DEF s

LEMMA PreserveTables ==
    ASSUME NEW q, QueueInv(q), NEW b \in FlushBatch
    PROVE  LET r == RequeuePreserveTimestamps(q, b)
           IN  /\ r.queues = [q.queues EXCEPT ![b.ch] = TrimBack(PutBack(q, b))]
               /\ r.cancelled = q.cancelled /\ r.withheld = q.withheld
BY Tables DEF RequeuePreserveTimestamps, EventQueue

LEMMA RequeueTables ==
    ASSUME NEW q, QueueInv(q), NEW b \in FlushBatch
    PROVE  LET r == Requeue(q, b)
           IN  /\ Exhausted(q, b) => r.queues = q.queues
               /\ ~Exhausted(q, b) =>
                     r.queues = [q.queues EXCEPT ![b.ch] = TrimBack(PutBack(q, b))]
               /\ r.cancelled = q.cancelled /\ r.withheld = q.withheld
BY Tables DEF Requeue, EventQueue

(* requeue_as_cancelled keeps the batch beside the queue. *)
LEMMA CancelMoves ==
    ASSUME NEW q, QueueInv(q), NEW b \in FlushBatch, NEW reason,
           Neat(q, b.ch), Whole(b),
           (ToSet(b.events) \cup ToSet(b.cancelled)) \cap Pending(q, b.ch) = {}
    PROVE  LET c == b.ch
               r == RequeueAsCancelled(q, b, reason)
           IN  /\ SameElsewhere(q, r, c) /\ Neat(r, c)
               /\ InCancelled(r, c) = InCancelled(q, c) \cup ToSet(b.events) \cup ToSet(b.cancelled)
               /\ r.queues = q.queues /\ r.withheld = q.withheld
<1> DEFINE c == b.ch
           r == RequeueAsCancelled(q, b, reason)
           s == q.cancelled[c] \o b.cancelled
           u == s \o b.events
<1>1. c \in Channel /\ b.events \in Seq(Event) /\ b.cancelled \in Seq(Event)
  BY DEF FlushBatch
<1>2. q.cancelled[c] \in Seq(Event)
  BY <1>1, Tables
<1>3. /\ r.cancelled = [q.cancelled EXCEPT ![c] = u]
      /\ r.queues = q.queues /\ r.withheld = q.withheld
  BY <1>1, Tables DEF RequeueAsCancelled, EventQueue
<1>4. /\ NoRepeats(q.cancelled[c]) /\ NoRepeats(b.events) /\ NoRepeats(b.cancelled)
      /\ ToSet(q.cancelled[c]) \cap ToSet(b.cancelled) = {}
      /\ ToSet(q.cancelled[c]) \cap ToSet(b.events) = {}
      /\ ToSet(b.cancelled) \cap ToSet(b.events) = {}
  BY DEF Neat, Whole, Pending, InCancelled
<1> HIDE DEF r
<1>5. /\ s \in Seq(Event) /\ ToSet(s) = ToSet(q.cancelled[c]) \cup ToSet(b.cancelled)
      /\ NoRepeats(s)
  BY <1>1, <1>2, <1>4, ConcatElements
<1> HIDE DEF s
<1>6. ToSet(u) = ToSet(s) \cup ToSet(b.events) /\ NoRepeats(u)
  <2>1. ToSet(s) \cap ToSet(b.events) = {}
    BY <1>4, <1>5
  <2>2. QED
    BY <1>1, <1>4, <1>5, <2>1, ConcatElements
<1> HIDE DEF u
<1>7. r.cancelled[c] = u /\ SameElsewhere(q, r, c)
  BY <1>1, <1>3, Tables DEF SameElsewhere, SameAt
<1>8. /\ InCancelled(r, c) = InCancelled(q, c) \cup ToSet(b.events) \cup ToSet(b.cancelled)
      /\ InQueue(r, c) = InQueue(q, c) /\ InWithheld(r, c) = InWithheld(q, c)
  BY <1>3, <1>5, <1>6, <1>7 DEF InCancelled, InQueue, InWithheld
<1>9. Neat(r, c)
  BY <1>3, <1>6, <1>7, <1>8 DEF Neat, Pending
<1>10. QED
  BY <1>3, <1>7, <1>8, <1>9 DEF r

(* The methods that move no event. *)
LEMMA QuietMethods ==
    ASSUME NEW q, QueueInv(q), NEW c \in Channel
    PROVE  /\ SameTables(q, MarkComplete(q, c))
           /\ SameTables(q, CompactExpiredState(q))
           /\ SameTables(q, ExtendInFlightDeadline(q, c))
           /\ MarkComplete(q, c).due = q.due \ {c}
           /\ CompactExpiredState(q).due = q.due
           /\ ExtendInFlightDeadline(q, c).due = q.due \ {c}
<1>1. SameTables(q, MarkComplete(q, c)) /\ MarkComplete(q, c).due = q.due \ {c}
  BY Tables DEF MarkComplete, EventQueue, SameTables, SameAt
<1>2. SameTables(q, CompactExpiredState(q)) /\ CompactExpiredState(q).due = q.due
  BY Tables DEF CompactExpiredState, EventQueue, SameTables, SameAt
<1>3. /\ SameTables(q, ExtendInFlightDeadline(q, c))
      /\ ExtendInFlightDeadline(q, c).due = q.due \ {c}
  BY Tables DEF ExtendInFlightDeadline, EventQueue, SameTables, SameAt
<1>4. QED
  BY <1>1, <1>2, <1>3

(* drain_channel *)
LEMMA DrainMoves ==
    ASSUME NEW q, QueueInv(q), NEW c \in Channel
    PROVE  LET r == DrainChannel(q, c)
           IN  /\ SameElsewhere(q, r, c) /\ Neat(r, c) /\ Pending(r, c) = {}
               /\ r.queues[c] = <<>> /\ r.cancelled[c] = <<>> /\ r.withheld[c] = <<>>
<1> DEFINE r == DrainChannel(q, c)
<1>1. /\ r.queues = [q.queues EXCEPT ![c] = <<>>]
      /\ r.cancelled = [q.cancelled EXCEPT ![c] = <<>>]
      /\ r.withheld = [q.withheld EXCEPT ![c] = <<>>]
  BY Tables DEF DrainChannel, EventQueue
<1> HIDE DEF r
<1>2. /\ SameElsewhere(q, r, c)
      /\ r.queues[c] = <<>> /\ r.cancelled[c] = <<>> /\ r.withheld[c] = <<>>
  BY <1>1, Tables DEF SameElsewhere, SameAt
<1>3. InQueue(r, c) = {} /\ InCancelled(r, c) = {} /\ InWithheld(r, c) = {}
  BY <1>2, NothingIn DEF InQueue, InCancelled, InWithheld
<1>4. Neat(r, c) /\ Pending(r, c) = {}
  BY <1>2, <1>3, NothingIn DEF Neat, Pending
<1>5. QED
  BY <1>2, <1>4 DEF r

(* release_native_steer puts a withheld event at the front of its queue. *)
LEMMA ReleaseMoves ==
    ASSUME NEW q, QueueInv(q), NEW c \in Channel, NEW e \in InWithheld(q, c), Neat(q, c)
    PROVE  LET r == ReleaseNativeSteer(q, c, e)
               s == <<e>> \o q.queues[c]
           IN  /\ SameElsewhere(q, r, c) /\ Neat(r, c)
               /\ InWithheld(r, c) = InWithheld(q, c) \ {e}
               /\ InQueue(r, c) \cup Trimmed(s) = InQueue(q, c) \cup {e}
               /\ InQueue(r, c) \cap Trimmed(s) = {}
               /\ r.cancelled = q.cancelled
<1> DEFINE r == ReleaseNativeSteer(q, c, e)
           s == <<e>> \o q.queues[c]
<1>1. q.queues[c] \in Seq(Event) /\ q.withheld[c] \in Seq(Event)
  BY Tables
<1>2. e \in Event /\ Contains(q.withheld[c], e)
  BY <1>1 DEF InWithheld, ToSet, Contains
<1>3. /\ r.queues = [q.queues EXCEPT ![c] = TrimBack(s)]
      /\ r.withheld = [q.withheld EXCEPT ![c] = Without(q.withheld[c], e)]
      /\ r.cancelled = q.cancelled
  BY <1>2, Tables DEF ReleaseNativeSteer, EventQueue
<1> HIDE DEF r
<1>4. /\ r.queues[c] = TrimBack(s) /\ r.withheld[c] = Without(q.withheld[c], e)
      /\ SameElsewhere(q, r, c)
  BY <1>3, Tables DEF SameElsewhere, SameAt
<1>5. e \notin InQueue(q, c) /\ e \notin InCancelled(q, c)
  BY DEF Neat
<1>6. s \in Seq(Event) /\ ToSet(s) = {e} \cup InQueue(q, c) /\ NoRepeats(s)
  <2>1. <<e>> \in Seq(Event) /\ ToSet(<<e>>) = {e} /\ NoRepeats(<<e>>)
    BY <1>2, Singly
  <2>2. NoRepeats(q.queues[c]) /\ ToSet(<<e>>) \cap ToSet(q.queues[c]) = {}
    BY <1>5, <2>1 DEF Neat, InQueue
  <2>3. QED
    BY <1>1, <2>1, <2>2, ConcatElements DEF InQueue
<1> HIDE DEF s
<1>7. /\ ToSet(TrimBack(s)) \subseteq ToSet(s)
      /\ ToSet(s) = ToSet(TrimBack(s)) \cup Trimmed(s)
      /\ Trimmed(s) \cap ToSet(TrimBack(s)) = {}
      /\ NoRepeats(TrimBack(s))
  BY <1>6, TrimElements
<1>8. /\ ToSet(Without(q.withheld[c], e)) = ToSet(q.withheld[c]) \ {e}
      /\ NoRepeats(Without(q.withheld[c], e))
  BY <1>1, WithoutElements DEF Neat
<1>9. /\ InQueue(r, c) = ToSet(TrimBack(s)) /\ InWithheld(r, c) = InWithheld(q, c) \ {e}
      /\ InCancelled(r, c) = InCancelled(q, c)
      /\ NoRepeats(r.queues[c]) /\ NoRepeats(r.withheld[c]) /\ NoRepeats(r.cancelled[c])
  BY <1>3, <1>4, <1>7, <1>8 DEF InQueue, InWithheld, InCancelled, Neat
<1>10. Neat(r, c)
  BY <1>5, <1>6, <1>7, <1>9 DEF Neat
<1>11. QED
  BY <1>3, <1>4, <1>6, <1>7, <1>9, <1>10 DEF r, s

(* remove_event takes a delivered event out of both tables. *)
LEMMA RemoveMoves ==
    ASSUME NEW q, QueueInv(q), NEW c \in Channel, NEW e, Neat(q, c)
    PROVE  LET r == RemoveEvent(q, c, e)
           IN  /\ SameElsewhere(q, r, c) /\ Neat(r, c)
               /\ InWithheld(r, c) = InWithheld(q, c) \ {e}
               /\ InQueue(r, c) = InQueue(q, c) \ {e}
               /\ r.cancelled = q.cancelled
<1> DEFINE r == RemoveEvent(q, c, e)
<1>1. q.queues[c] \in Seq(Event) /\ q.withheld[c] \in Seq(Event)
  BY Tables
<1>2. /\ r.queues = [q.queues EXCEPT ![c] = Without(q.queues[c], e)]
      /\ r.withheld = [q.withheld EXCEPT ![c] = Without(q.withheld[c], e)]
      /\ r.cancelled = q.cancelled
  BY Tables DEF RemoveEvent, EventQueue
<1> HIDE DEF r
<1>3. /\ r.queues[c] = Without(q.queues[c], e) /\ r.withheld[c] = Without(q.withheld[c], e)
      /\ SameElsewhere(q, r, c)
  BY <1>2, Tables DEF SameElsewhere, SameAt
<1>4. /\ ToSet(Without(q.queues[c], e)) = ToSet(q.queues[c]) \ {e}
      /\ NoRepeats(Without(q.queues[c], e))
      /\ ToSet(Without(q.withheld[c], e)) = ToSet(q.withheld[c]) \ {e}
      /\ NoRepeats(Without(q.withheld[c], e))
  BY <1>1, WithoutElements DEF Neat
<1>5. /\ InQueue(r, c) = InQueue(q, c) \ {e} /\ InWithheld(r, c) = InWithheld(q, c) \ {e}
      /\ InCancelled(r, c) = InCancelled(q, c)
      /\ NoRepeats(r.queues[c]) /\ NoRepeats(r.withheld[c]) /\ NoRepeats(r.cancelled[c])
  BY <1>2, <1>3, <1>4 DEF InQueue, InWithheld, InCancelled, Neat
<1>6. Neat(r, c)
  BY <1>5 DEF Neat
<1>7. QED
  BY <1>2, <1>3, <1>5, <1>6 DEF r


-----------------------------------------------------------------------------
(* What a handler does with the events it moves. *)

(* The places other than the side table. *)
Loose(q, c) == InQueue(q, c) \cup InCancelled(q, c)

Lies(q, ts, e) ==
    \/ \E c \in Channel : e \in Loose(q, c)
    \/ \E a \in Agent : e \in EventsOf(ts[a])

NoLooser(q, ts, r, us) == \A e : Lies(r, us, e) => Lies(q, ts, e)

LEMMA LooseSame ==
    ASSUME NEW q, NEW r, NEW ts, NEW us, SameTables(q, r), SameBatches(ts, us)
    PROVE  NoLooser(q, ts, r, us)
<1>1. \A c \in Channel : Loose(r, c) = Loose(q, c)
  BY SameAtHolds DEF SameTables, Loose
<1>2. \A a \in Agent : EventsOf(us[a]) = EventsOf(ts[a])
  BY DEF SameBatches, EventsOf
<1>3. QED
  BY <1>1, <1>2 DEF NoLooser, Lies

LEMMA LooseChannel ==
    ASSUME NEW q, NEW r, NEW ts, NEW c \in Channel, NEW extra, SameElsewhere(q, r, c),
           Loose(r, c) \subseteq Loose(q, c) \cup extra
    PROVE  \A e : Lies(r, ts, e) => Lies(q, ts, e) \/ e \in extra
<1>1. \A d \in Channel : d # c => Loose(r, d) = Loose(q, d)
  BY SameAtHolds DEF SameElsewhere, Loose
<1>2. QED
  BY <1>1 DEF Lies

LEMMA LooseBatch ==
    ASSUME NEW q, NEW r, NEW ts \in [Agent -> Task], NEW t \in Task,
           NEW c \in Channel, NEW a \in Agent, SameElsewhere(q, r, c),
           Loose(r, c) \cup EventsOf(t) \subseteq Loose(q, c) \cup EventsOf(ts[a])
    PROVE  NoLooser(q, ts, r, [ts EXCEPT ![a] = t])
<1> DEFINE us == [ts EXCEPT ![a] = t]
<1>1. us[a] = t /\ \A b \in Agent : b # a => us[b] = ts[b]
  OBVIOUS
<1> HIDE DEF us
<1>2. \A d \in Channel : d # c => Loose(r, d) = Loose(q, d)
  BY SameAtHolds DEF SameElsewhere, Loose
<1>3. QED
  BY <1>1, <1>2 DEF NoLooser, Lies, us

(* Every flush_next and every look for work first expires the deadlines. *)
LEMMA ExpireKeeps ==
    ASSUME NEW q, QueueInv(q), NEW ts, NEW gone, NEW cut, NEW all,
           Kept(q, ts, gone, cut, all)
    PROVE  /\ Kept(Expire(q), ts, gone \cup ExpiryOverflow(q), cut, all)
           /\ \A c \in Channel : InWithheld(Expire(q), c) \subseteq InWithheld(q, c)
           /\ q.due = {} => SameTables(q, Expire(q)) /\ ExpiryOverflow(q) = {}
           /\ Expire(q).due = {}
<1> DEFINE r == Expire(q)
           later == gone \cup ExpiryOverflow(q)
<1>1. Apart(q, ts) /\ Accounted(q, ts, gone, cut, all) /\ \A c \in Channel : Neat(q, c)
  BY DEF Kept, Apart
<1>2. \A c \in Channel : /\ Neat(r, c)
                         /\ Pending(r, c) \subseteq Pending(q, c)
                         /\ Pending(q, c) \subseteq Pending(r, c) \cup ExpiryOverflow(q)
                         /\ InWithheld(r, c) \subseteq InWithheld(q, c)
                         /\ c \notin q.due => SameAt(q, r, c)
                         /\ InCancelled(r, c) = InCancelled(q, c)
  BY <1>1, ExpireMoves DEF InCancelled
<1>3. ExpiryOverflow(q) \subseteq all
  <2>1. ASSUME NEW c \in q.due PROVE Trimmed(q.withheld[c] \o q.queues[c]) \subseteq all
    <3>1. c \in Channel
      BY DEF QueueInv, EventQueue
    <3>2. q.withheld[c] \in Seq(Event) /\ q.queues[c] \in Seq(Event)
      BY <3>1, Tables
    <3>3. ToSet(q.withheld[c] \o q.queues[c]) = InWithheld(q, c) \cup InQueue(q, c)
      BY <3>2, ConcatElements DEF InWithheld, InQueue
    <3>4. Pending(q, c) \subseteq all
      BY <1>1, <3>1 DEF Accounted
    <3>5. QED
      BY <3>3, <3>4 DEF Trimmed, Pending
  <2>2. QED
    BY <2>1 DEF ExpiryOverflow
<1>4. r.due = {}
  BY Tables DEF Expire, EventQueue
<1>5. q.due = {} => ExpiryOverflow(q) = {}
  BY DEF ExpiryOverflow
<1> HIDE DEF r
<1>6. Apart(r, ts)
  BY <1>1, <1>2 DEF Apart
<1>7. Accounted(r, ts, later, cut, all)
  <2>1. ASSUME NEW e \in all
        PROVE  \/ e \in later \cup cut
               \/ \E c \in Channel : e \in Pending(r, c)
               \/ \E a \in Agent : e \in EventsOf(ts[a])
    BY <1>1, <1>2 DEF Accounted
  <2>2. QED
    BY <1>1, <1>2, <1>3, <2>1 DEF Accounted
<1>8. QED
  BY <1>2, <1>4, <1>5, <1>6, <1>7 DEF Kept, SameTables, r

(* What flush_next took out of the queue. *)
Flushed(p, f, b) ==
    /\ b.ch \in Channel /\ b.ch \notin p.in_flight /\ b \in FlushBatch
    /\ SameElsewhere(p, f, b.ch) /\ Neat(f, b.ch) /\ Whole(b)
    /\ InCancelled(f, b.ch) = {}
    /\ ToSet(b.cancelled) \subseteq InCancelled(p, b.ch)
    /\ InQueue(f, b.ch) \cup ToSet(b.events) \cup ToSet(b.cancelled) = Loose(p, b.ch)
    /\ InQueue(f, b.ch) \cap (ToSet(b.events) \cup ToSet(b.cancelled)) = {}
    /\ InWithheld(f, b.ch) = InWithheld(p, b.ch)
    /\ f.withheld = p.withheld

LEMMA FlushTakes ==
    ASSUME NEW q, QueueInv(q), \A c \in Channel : Neat(q, c)
    PROVE  /\ \A b \in QueuedBatches(q) : Flushed(q, FlushQueued(q, b.ch), b)
           /\ \A b \in CancelledBatches(q) : Flushed(q, FlushCancelled(q, b.ch), b)
<1>1. ASSUME NEW b \in QueuedBatches(q) PROVE Flushed(q, FlushQueued(q, b.ch), b)
  <2> DEFINE c == b.ch
             f == FlushQueued(q, c)
  <2>1. /\ c \in Channel /\ c \notin q.in_flight /\ b \in FlushBatch
        /\ SameElsewhere(q, f, c) /\ Neat(f, c) /\ Whole(b)
        /\ InQueue(f, c) \cup ToSet(b.events) = InQueue(q, c)
        /\ InQueue(f, c) \cap ToSet(b.events) = {}
        /\ InCancelled(f, c) = {}
        /\ ToSet(b.cancelled) = InCancelled(q, c)
        /\ f.withheld = q.withheld
    BY FlushQueuedMoves
  <2> HIDE DEF f
  <2>2. InWithheld(f, c) = InWithheld(q, c)
    BY <2>1 DEF InWithheld
  <2>3. InQueue(q, c) \cap InCancelled(q, c) = {}
    BY <2>1 DEF Neat
  <2>4. QED
    BY <2>1, <2>2, <2>3 DEF Flushed, Loose, f
<1>2. ASSUME NEW b \in CancelledBatches(q) PROVE Flushed(q, FlushCancelled(q, b.ch), b)
  <2> DEFINE c == b.ch
             f == FlushCancelled(q, c)
  <2>1. /\ c \in Channel /\ c \notin q.in_flight /\ b \in FlushBatch
        /\ SameElsewhere(q, f, c) /\ Neat(f, c) /\ Whole(b)
        /\ f.queues = q.queues
        /\ ToSet(b.events) = InCancelled(q, c)
        /\ InCancelled(f, c) = {}
        /\ b.cancelled = <<>>
        /\ f.withheld = q.withheld
    BY FlushCancelledMoves
  <2> HIDE DEF f
  <2>2. InWithheld(f, c) = InWithheld(q, c) /\ InQueue(f, c) = InQueue(q, c)
    BY <2>1 DEF InWithheld, InQueue
  <2>3. InQueue(q, c) \cap InCancelled(q, c) = {} /\ ToSet(b.cancelled) = {}
    BY <2>1, NothingIn DEF Neat
  <2>4. QED
    BY <2>1, <2>2, <2>3 DEF Flushed, Loose, f
<1>3. QED
  BY <1>1, <1>2

LEMMA NewTaskHolds ==
    ASSUME NEW b \in FlushBatch
    PROVE  /\ EventsOf(NewTask(b)) = ToSet(b.events) \cup ToSet(b.cancelled)
           /\ NewTask(b).cancelled = b.cancelled /\ NewTask(b).events = b.events
           /\ Whole(b) => Whole(NewTask(b))
           /\ NewTask(b) \in Task
           /\ NewTask(b).ch = b.ch /\ NewTask(b).phase = "running" /\ NewTask(b).back = FALSE
           /\ NewTask(b).steer_rx = {} /\ NewTask(b).pending_steer = {}
<1>1. /\ NewTask(b).cancelled = b.cancelled /\ NewTask(b).events = b.events
      /\ NewTask(b).ch = b.ch /\ NewTask(b).phase = "running" /\ NewTask(b).back = FALSE
      /\ NewTask(b).steer_rx = {} /\ NewTask(b).pending_steer = {}
  BY DEF NewTask, NoTask
<1>2. NewTask(b) \in Task
  BY NewTaskType
<1>3. QED
  BY <1>1, <1>2 DEF EventsOf, Whole

LEMMA NoTaskHolds ==
    /\ EventsOf(NoTask) = {} /\ ToSet(NoTask.cancelled) = {} /\ Whole(NoTask) /\ NoTask \in Task
    /\ NoTask.phase = "none" /\ NoTask.ch = NoChannel /\ NoTask.back = FALSE
    /\ NoTask.steer_rx = {} /\ NoTask.pending_steer = {}
    /\ NoTask.events = <<>> /\ NoTask.cancelled = <<>>
BY NothingIn, NewTaskType DEF EventsOf, NoTask, Whole

(* try_claim found an agent: the batch is the turn's. *)
LEMMA ClaimKeeps ==
    ASSUME NEW p, NEW f, NEW b, Flushed(p, f, b), NEW ts \in [Agent -> Task],
           NEW gone, NEW cut, NEW all, NEW a \in Agent, ts[a] = NoTask,
           Kept(p, ts, gone, cut, all)
    PROVE  LET us == [ts EXCEPT ![a] = NewTask(b)]
           IN  /\ Kept(f, us, gone, cut, all)
               /\ Fresh(p, ts, gone) => Fresh(f, us, gone)
               /\ NoLooser(p, ts, f, us)
<1> DEFINE t == NewTask(b)
           c == b.ch
<1>1. /\ c \in Channel /\ b \in FlushBatch /\ SameElsewhere(p, f, c) /\ Neat(f, c) /\ Whole(b)
      /\ InCancelled(f, c) = {} /\ ToSet(b.cancelled) \subseteq InCancelled(p, c)
      /\ InQueue(f, c) \cup ToSet(b.events) \cup ToSet(b.cancelled) = Loose(p, c)
      /\ InQueue(f, c) \cap (ToSet(b.events) \cup ToSet(b.cancelled)) = {}
      /\ InWithheld(f, c) = InWithheld(p, c)
  BY DEF Flushed
<1>2. /\ EventsOf(t) = ToSet(b.events) \cup ToSet(b.cancelled)
      /\ t.cancelled = b.cancelled /\ Whole(t) /\ t \in Task
  BY <1>1, NewTaskHolds
<1>3. EventsOf(ts[a]) = {}
  BY NoTaskHolds
<1> HIDE DEF t
<1>4. Neat(p, c) /\ InCancelled(p, c) \subseteq cut /\ gone \subseteq all
  BY <1>1 DEF Kept, Apart, Accounted
<1>5. Pending(f, c) \cup EventsOf(t) = Pending(p, c) /\ Pending(f, c) \cap EventsOf(t) = {}
  <2>1. InWithheld(p, c) \cap Loose(p, c) = {}
    BY <1>4 DEF Neat, Loose
  <2>2. QED
    BY <1>1, <1>2, <2>1 DEF Pending, Loose
<1>6. Kept(f, [ts EXCEPT ![a] = t], gone, cut, all)
  <2>1. /\ Pending(f, c) \cup EventsOf(t) \subseteq Pending(p, c) \cup EventsOf(ts[a])
        /\ Pending(p, c) \cup EventsOf(ts[a])
               \subseteq Pending(f, c) \cup EventsOf(t) \cup gone \cup cut
        /\ InCancelled(f, c) \subseteq cut /\ ToSet(t.cancelled) \subseteq cut
    BY <1>1, <1>2, <1>3, <1>4, <1>5
  <2>2. QED
    BY <1>1, <1>2, <1>4, <1>5, <2>1, BatchMoves
<1>7. ASSUME Fresh(p, ts, gone) PROVE Fresh(f, [ts EXCEPT ![a] = t], gone)
  <2>1. (Pending(f, c) \cup EventsOf(t)) \cap gone = {}
    BY <1>1, <1>5, <1>7 DEF Fresh
  <2>2. gone \subseteq gone \cup Pending(p, c) \cup EventsOf(ts[a])
    OBVIOUS
  <2>3. QED
    BY <1>1, <1>2, <1>7, <2>1, <2>2, BatchFresh
<1>8. NoLooser(p, ts, f, [ts EXCEPT ![a] = t])
  <2>1. Loose(f, c) \cup EventsOf(t) \subseteq Loose(p, c) \cup EventsOf(ts[a])
    BY <1>1, <1>2 DEF Loose
  <2>2. QED
    BY <1>1, <1>2, <2>1, LooseBatch
<1>9. QED
  BY <1>6, <1>7, <1>8 DEF t

(* No agent was idle: the events go back, a merged cancelled batch is cut.  *)
LEMMA ExhaustedKeeps ==
    ASSUME NEW p, NEW f, QueueInv(f), NEW b, Flushed(p, f, b), NEW ts,
           NEW gone, NEW cut, NEW all, Kept(p, ts, gone, cut, all)
    PROVE  LET r == MarkComplete(RequeuePreserveTimestamps(f, b), b.ch)
               later == gone \cup Trimmed(PutBack(f, b))
           IN  /\ Kept(r, ts, later, cut, all)
               /\ Fresh(p, ts, gone) => Fresh(r, ts, later)
               /\ NoLooser(p, ts, r, ts)
               /\ SameElsewhere(p, r, b.ch) /\ r.withheld = p.withheld
<1> DEFINE c == b.ch
           g == RequeuePreserveTimestamps(f, b)
           r == MarkComplete(g, c)
           lost == Trimmed(PutBack(f, b))
           later == gone \cup lost
<1>1. /\ c \in Channel /\ b \in FlushBatch /\ SameElsewhere(p, f, c) /\ Neat(f, c) /\ Whole(b)
      /\ InCancelled(f, c) = {} /\ ToSet(b.cancelled) \subseteq InCancelled(p, c)
      /\ InQueue(f, c) \cup ToSet(b.events) \cup ToSet(b.cancelled) = Loose(p, c)
      /\ InQueue(f, c) \cap (ToSet(b.events) \cup ToSet(b.cancelled)) = {}
      /\ InWithheld(f, c) = InWithheld(p, c) /\ f.withheld = p.withheld
  BY DEF Flushed
<1>2. Neat(p, c) /\ InCancelled(p, c) \subseteq cut /\ gone \subseteq all /\ Pending(p, c) \subseteq all
  BY <1>1 DEF Kept, Apart, Accounted
<1>3. InWithheld(p, c) \cap Loose(p, c) = {}
  BY <1>2 DEF Neat, Loose
<1>4. ToSet(b.events) \cap Pending(f, c) = {}
  BY <1>1, <1>3 DEF Pending
<1>5. /\ QueueInv(g)
      /\ g.queues = [f.queues EXCEPT ![c] = TrimBack(PutBack(f, b))]
      /\ g.cancelled = f.cancelled /\ g.withheld = f.withheld
  BY <1>1, PreserveTables, RequeuePreserveInv
<1> HIDE DEF g
<1>6. /\ SameElsewhere(f, g, c) /\ Neat(g, c)
      /\ InQueue(g, c) \cup lost = InQueue(f, c) \cup ToSet(b.events)
      /\ InQueue(g, c) \cap lost = {}
  BY <1>1, <1>4, <1>5, PutBackMoves
<1>7. SameTables(g, r)
  BY <1>1, <1>5, QuietMethods
<1>8. r.withheld = p.withheld
  BY <1>1, <1>5, Tables DEF MarkComplete, EventQueue
<1> HIDE DEF r
<1>9. /\ InQueue(r, c) = InQueue(g, c) /\ InCancelled(r, c) = {}
      /\ InWithheld(r, c) = InWithheld(p, c) /\ Neat(r, c)
  BY <1>1, <1>5, <1>6, <1>7, SameAtHolds DEF SameTables, InCancelled, InWithheld
<1>10. SameElsewhere(p, r, c)
  BY <1>1, <1>6, <1>7 DEF SameElsewhere, SameTables, SameAt
<1> HIDE DEF lost
<1>11. /\ Pending(r, c) \subseteq Pending(p, c) \cup {}
       /\ Pending(p, c) \cup {} \subseteq Pending(r, c) \cup later \cup cut
       /\ lost \subseteq Pending(p, c) /\ Pending(r, c) \cap lost = {}
       /\ Loose(r, c) \subseteq Loose(p, c) \cup {}
  BY <1>1, <1>2, <1>3, <1>6, <1>9 DEF Pending, Loose
<1>12. Kept(r, ts, later, cut, all)
  <2>1. {} \cap all = {} /\ gone \subseteq later /\ later \subseteq all \cup {}
    BY <1>2, <1>11
  <2>2. InCancelled(r, c) \subseteq cut
    BY <1>9
  <2>3. Kept(r, ts, later, cut, all \cup {})
    BY <1>1, <1>9, <1>10, <1>11, <2>1, <2>2, ChannelMoves
  <2>4. all \cup {} = all
    OBVIOUS
  <2>5. QED
    BY <2>3, <2>4
<1>13. ASSUME Fresh(p, ts, gone) PROVE Fresh(r, ts, later)
  <2>1. /\ {} \cap all = {} /\ later \subseteq gone \cup Pending(p, c) \cup {}
        /\ Pending(r, c) \cap later = {}
    BY <1>1, <1>11, <1>13 DEF Fresh
  <2>2. QED
    BY <1>1, <1>10, <1>13, <2>1, ChannelFresh
<1>14. NoLooser(p, ts, r, ts)
  <2>1. \A e : Lies(r, ts, e) => Lies(p, ts, e) \/ e \in {}
    BY <1>1, <1>10, <1>11, LooseChannel
  <2>2. QED
    BY <2>1 DEF NoLooser
<1>15. QED
  BY <1>8, <1>10, <1>12, <1>13, <1>14 DEF r, g, lost


(* The batch of a turn that ended goes back to the queue. *)
LEMMA RetriedKeeps ==
    ASSUME NEW q, QueueInv(q), NEW r, NEW ts \in [Agent -> Task],
           NEW gone, NEW cut, NEW all, NEW a \in Agent, Kept(q, ts, gone, cut, all),
           ts[a].ch \in Channel,
           r.queues = [q.queues EXCEPT ![ts[a].ch] = TrimBack(PutBack(q, BatchOf(ts[a])))],
           r.cancelled = q.cancelled, r.withheld = q.withheld
    PROVE  LET us == [ts EXCEPT ![a] = NoTask]
               later == gone \cup Trimmed(PutBack(q, BatchOf(ts[a])))
           IN  /\ Kept(r, us, later, cut, all)
               /\ Fresh(q, ts, gone) => Fresh(r, us, later)
               /\ NoLooser(q, ts, r, us)
<1> DEFINE t == ts[a]
           b == BatchOf(t)
           c == t.ch
           lost == Trimmed(PutBack(q, b))
           later == gone \cup lost
<1>1. t \in Task /\ b \in FlushBatch
  BY BatchOfType
<1>2. b.ch = c /\ b.events = t.events /\ b.cancelled = t.cancelled
  BY DEF BatchOf
<1>3. /\ Neat(q, c) /\ Whole(t) /\ Pending(q, c) \cap EventsOf(t) = {}
      /\ Pending(q, c) \subseteq all /\ EventsOf(t) \subseteq all
      /\ InCancelled(q, c) \subseteq cut /\ ToSet(t.cancelled) \subseteq cut /\ gone \subseteq all
  BY DEF Kept, Apart, Accounted
<1> HIDE DEF b
<1>4. Whole(b) /\ ToSet(b.events) \cap Pending(q, b.ch) = {} /\ Neat(q, b.ch)
  BY <1>2, <1>3 DEF Whole, EventsOf
<1>5. /\ SameElsewhere(q, r, c) /\ Neat(r, c)
      /\ InQueue(r, c) \cup lost = InQueue(q, c) \cup ToSet(t.events)
      /\ InQueue(r, c) \cap lost = {}
  BY <1>1, <1>2, <1>4, PutBackMoves DEF b
<1>6. InCancelled(r, c) = InCancelled(q, c) /\ InWithheld(r, c) = InWithheld(q, c)
  BY DEF InCancelled, InWithheld
<1> HIDE DEF lost
<1>7. EventsOf(t) = ToSet(t.events) \cup ToSet(t.cancelled)
  BY DEF EventsOf
<1>8. InQueue(q, c) \cap (InCancelled(q, c) \cup InWithheld(q, c)) = {}
  BY <1>3 DEF Neat
<1>9. /\ Pending(r, c) \cup EventsOf(NoTask) \subseteq Pending(q, c) \cup EventsOf(t)
      /\ Pending(r, c) \cap EventsOf(NoTask) = {}
      /\ Pending(q, c) \cup EventsOf(t)
            \subseteq Pending(r, c) \cup EventsOf(NoTask) \cup later \cup cut
      /\ lost \subseteq Pending(q, c) \cup EventsOf(t)
      /\ Pending(r, c) \cap lost = {}
      /\ Loose(r, c) \cup EventsOf(NoTask) \subseteq Loose(q, c) \cup EventsOf(t)
  <2>1. /\ Pending(r, c) \subseteq Pending(q, c) \cup EventsOf(t)
        /\ Loose(r, c) \subseteq Loose(q, c) \cup EventsOf(t)
        /\ lost \subseteq Pending(q, c) \cup EventsOf(t)
    BY <1>5, <1>6, <1>7 DEF Pending, Loose
  <2>2. Pending(q, c) \cup EventsOf(t) \subseteq Pending(r, c) \cup later \cup cut
    BY <1>3, <1>5, <1>6, <1>7 DEF Pending
  <2>3. Pending(r, c) \cap lost = {}
    BY <1>3, <1>5, <1>6, <1>7, <1>8 DEF Pending
  <2>4. QED
    BY <2>1, <2>2, <2>3, NoTaskHolds
<1>10. Kept(r, [ts EXCEPT ![a] = NoTask], later, cut, all)
  <2>1. /\ InCancelled(r, c) \subseteq cut /\ ToSet(NoTask.cancelled) \subseteq cut
        /\ Whole(NoTask) /\ NoTask \in Task /\ cut \subseteq cut
        /\ gone \subseteq later /\ later \subseteq all
    BY <1>3, <1>6, <1>9, NoTaskHolds
  <2>2. QED
    BY <1>5, <1>9, <2>1, BatchMoves
<1>11. ASSUME Fresh(q, ts, gone) PROVE Fresh(r, [ts EXCEPT ![a] = NoTask], later)
  <2>1. later \subseteq gone \cup Pending(q, c) \cup EventsOf(ts[a])
    BY <1>9
  <2>2. (Pending(r, c) \cup EventsOf(NoTask)) \cap later = {}
    BY <1>9, <1>11, NoTaskHolds DEF Fresh
  <2>3. QED
    BY <1>5, <1>11, <2>1, <2>2, NoTaskHolds, BatchFresh
<1>12. NoLooser(q, ts, r, [ts EXCEPT ![a] = NoTask])
  BY <1>5, <1>9, NoTaskHolds, LooseBatch
<1>13. QED
  BY <1>10, <1>11, <1>12 DEF lost, b

(* The batch of a cancelled turn waits to be merged. *)
LEMMA CancelledKeeps ==
    ASSUME NEW q, QueueInv(q), NEW ts \in [Agent -> Task], NEW reason,
           NEW gone, NEW cut, NEW all, NEW a \in Agent, Kept(q, ts, gone, cut, all),
           ts[a].ch \in Channel
    PROVE  LET us == [ts EXCEPT ![a] = NoTask]
               r  == RequeueAsCancelled(q, BatchOf(ts[a]), reason)
           IN  /\ Kept(r, us, gone, cut \cup EventsOf(ts[a]), all)
               /\ Fresh(q, ts, gone) => Fresh(r, us, gone)
               /\ NoLooser(q, ts, r, us)
<1> DEFINE t == ts[a]
           b == BatchOf(t)
           c == t.ch
           r == RequeueAsCancelled(q, b, reason)
           cut2 == cut \cup EventsOf(t)
<1>1. t \in Task /\ b \in FlushBatch
  BY BatchOfType
<1>2. b.ch = c /\ b.events = t.events /\ b.cancelled = t.cancelled
  BY DEF BatchOf
<1>3. /\ Neat(q, c) /\ Whole(t) /\ Pending(q, c) \cap EventsOf(t) = {}
      /\ Pending(q, c) \subseteq all /\ EventsOf(t) \subseteq all
      /\ InCancelled(q, c) \subseteq cut /\ ToSet(t.cancelled) \subseteq cut /\ gone \subseteq all
  BY DEF Kept, Apart, Accounted
<1> HIDE DEF b
<1>4. /\ Whole(b) /\ (ToSet(b.events) \cup ToSet(b.cancelled)) \cap Pending(q, b.ch) = {}
      /\ Neat(q, b.ch)
  BY <1>2, <1>3 DEF Whole, EventsOf
<1>5. /\ SameElsewhere(q, r, c) /\ Neat(r, c)
      /\ InCancelled(r, c) = InCancelled(q, c) \cup ToSet(t.events) \cup ToSet(t.cancelled)
      /\ r.queues = q.queues /\ r.withheld = q.withheld
  BY <1>1, <1>2, <1>4, CancelMoves
<1> HIDE DEF r
<1>6. InQueue(r, c) = InQueue(q, c) /\ InWithheld(r, c) = InWithheld(q, c)
  BY <1>5 DEF InQueue, InWithheld
<1>7. EventsOf(t) = ToSet(t.events) \cup ToSet(t.cancelled)
  BY DEF EventsOf
<1>8. /\ Pending(r, c) = Pending(q, c) \cup EventsOf(t)
      /\ Loose(r, c) = Loose(q, c) \cup EventsOf(t)
      /\ InCancelled(r, c) \subseteq cut2
  BY <1>3, <1>5, <1>6, <1>7 DEF Pending, Loose
<1>9. /\ Pending(r, c) \cup EventsOf(NoTask) \subseteq Pending(q, c) \cup EventsOf(t)
      /\ Pending(r, c) \cap EventsOf(NoTask) = {}
      /\ Pending(q, c) \cup EventsOf(t)
            \subseteq Pending(r, c) \cup EventsOf(NoTask) \cup gone \cup cut2
      /\ Loose(r, c) \cup EventsOf(NoTask) \subseteq Loose(q, c) \cup EventsOf(t)
  BY <1>8, NoTaskHolds
<1>10. Kept(r, [ts EXCEPT ![a] = NoTask], gone, cut2, all)
  <2>1. /\ ToSet(NoTask.cancelled) \subseteq cut2
        /\ Whole(NoTask) /\ NoTask \in Task /\ cut \subseteq cut2
        /\ gone \subseteq gone
    BY NoTaskHolds
  <2>2. QED
    BY <1>3, <1>5, <1>8, <1>9, <2>1, BatchMoves
<1>11. ASSUME Fresh(q, ts, gone) PROVE Fresh(r, [ts EXCEPT ![a] = NoTask], gone)
  <2>1. gone \subseteq gone \cup Pending(q, c) \cup EventsOf(ts[a])
    OBVIOUS
  <2>2. (Pending(r, c) \cup EventsOf(NoTask)) \cap gone = {}
    BY <1>8, <1>11, NoTaskHolds DEF Fresh
  <2>3. QED
    BY <1>5, <1>11, <2>1, <2>2, NoTaskHolds, BatchFresh
<1>12. NoLooser(q, ts, r, [ts EXCEPT ![a] = NoTask])
  BY <1>5, <1>9, NoTaskHolds, LooseBatch
<1>13. QED
  BY <1>10, <1>11, <1>12 DEF r, b

(* The turn is over and its events are gone. *)
LEMMA GoneLooser ==
    ASSUME NEW q, NEW r, NEW ts \in [Agent -> Task], NEW a \in Agent, SameTables(q, r)
    PROVE  NoLooser(q, ts, r, [ts EXCEPT ![a] = NoTask])
<1> DEFINE us == [ts EXCEPT ![a] = NoTask]
<1>1. us[a] = NoTask /\ \A b \in Agent : b # a => us[b] = ts[b]
  OBVIOUS
<1> HIDE DEF us
<1>2. \A c \in Channel : Loose(r, c) = Loose(q, c)
  BY SameAtHolds DEF SameTables, Loose
<1>3. QED
  BY <1>1, <1>2, NoTaskHolds DEF NoLooser, Lies, us

(* A new event is refused, queued or withheld. *)
Crowded(q, c) == ToSet(q.queues[c]) \ ToSet(MakeRoom(q.queues[c]))

Admits(q, c, e, r, gone, later) ==
    \/ r = q /\ later = gone \cup {e}
    \/ r = Push(q, c, e) /\ later = gone \cup Crowded(q, c)
    \/ r = MarkNativeSteerPending(Push(q, c, e), c, e) /\ later = gone \cup Crowded(q, c)

LEMMA ArrivalKeeps ==
    ASSUME NEW q, QueueInv(q), NEW ts, NEW gone, NEW cut, NEW all, NEW c \in Channel,
           NEW e \in Event, e \notin all, Kept(q, ts, gone, cut, all), NEW r,
           NEW later, Admits(q, c, e, r, gone, later)
    PROVE  /\ Kept(r, ts, later, cut, all \cup {e})
           /\ Fresh(q, ts, gone) => Fresh(r, ts, later)
           /\ \A x : Lies(r, ts, x) =>
                 \/ Lies(q, ts, x)
                 \/ x = e /\ r = Push(q, c, e)
<1> DEFINE drops == Crowded(q, c)
<1>1. /\ Neat(q, c) /\ Pending(q, c) \subseteq all /\ gone \subseteq all
      /\ InCancelled(q, c) \subseteq cut
  BY DEF Kept, Apart, Accounted
<1>2. e \notin Pending(q, c) /\ {e} \cap all = {}
  BY <1>1
<1>3. ToSet(MakeRoom(q.queues[c])) \cup drops = InQueue(q, c)
      /\ ToSet(MakeRoom(q.queues[c])) \cap drops = {}
  BY RoomElements, Tables DEF InQueue, Crowded
<1> HIDE DEF drops
<1>4. /\ SameElsewhere(q, r, c) /\ Neat(r, c)
      /\ InCancelled(r, c) = InCancelled(q, c)
      /\ Pending(r, c) \subseteq Pending(q, c) \cup {e}
      /\ Pending(q, c) \cup {e} \subseteq Pending(r, c) \cup later
      /\ later \subseteq gone \cup Pending(q, c) \cup {e}
      /\ gone \subseteq later
      /\ Pending(r, c) \cap gone = {} => Pending(r, c) \cap later = {}
      /\ Loose(r, c) \subseteq Loose(q, c) \cup {x \in {e} : r = Push(q, c, e)}
  <2>1. CASE r = q /\ later = gone \cup {e}
    BY <1>1, <1>2, <2>1 DEF SameElsewhere, SameAt
  <2>2. CASE r = Push(q, c, e) /\ later = gone \cup drops
    <3>1. /\ SameElsewhere(q, r, c) /\ r.cancelled = q.cancelled /\ r.withheld = q.withheld
          /\ InQueue(r, c) = ToSet(MakeRoom(q.queues[c])) \cup {e} /\ Neat(r, c)
      BY <1>1, <1>2, <2>2, PushMoves
    <3>2. InCancelled(r, c) = InCancelled(q, c) /\ InWithheld(r, c) = InWithheld(q, c)
      BY <3>1 DEF InCancelled, InWithheld
    <3>3. InQueue(q, c) \cap (InCancelled(q, c) \cup InWithheld(q, c)) = {}
      BY <1>1 DEF Neat
    <3>4. e \notin drops
      BY <1>2, <1>3 DEF Pending
    <3>5. QED
      BY <1>3, <2>2, <3>1, <3>2, <3>3, <3>4 DEF Pending, Loose
  <2>3. CASE r = MarkNativeSteerPending(Push(q, c, e), c, e) /\ later = gone \cup drops
    <3>1. /\ SameElsewhere(q, r, c) /\ r.cancelled = q.cancelled
          /\ InQueue(r, c) = ToSet(MakeRoom(q.queues[c]))
          /\ InWithheld(r, c) = InWithheld(q, c) \cup {e} /\ Neat(r, c)
      BY <1>1, <1>2, <2>3, SteerMoves
    <3>2. InCancelled(r, c) = InCancelled(q, c)
      BY <3>1 DEF InCancelled
    <3>3. InQueue(q, c) \cap (InCancelled(q, c) \cup InWithheld(q, c)) = {}
      BY <1>1 DEF Neat
    <3>4. e \notin drops
      BY <1>2, <1>3 DEF Pending
    <3>5. QED
      BY <1>3, <2>3, <3>1, <3>2, <3>3, <3>4 DEF Pending, Loose
  <2>4. QED
    BY <2>1, <2>2, <2>3 DEF Admits, drops
<1>5. Kept(r, ts, later, cut, all \cup {e})
  <2>1. /\ InCancelled(r, c) \subseteq cut /\ later \subseteq all \cup {e}
        /\ Pending(q, c) \cup {e} \subseteq Pending(r, c) \cup later \cup cut
    BY <1>1, <1>4
  <2>2. QED
    BY <1>2, <1>4, <2>1, ChannelMoves
<1>6. ASSUME Fresh(q, ts, gone) PROVE Fresh(r, ts, later)
  <2>1. Pending(q, c) \cap gone = {} /\ e \notin gone
    BY <1>1, <1>6 DEF Fresh
  <2>2. Pending(r, c) \cap later = {}
    BY <1>2, <1>4, <2>1
  <2>3. QED
    BY <1>2, <1>4, <1>6, <2>2, ChannelFresh
<1>7. \A x : Lies(r, ts, x) => Lies(q, ts, x) \/ x \in {y \in {e} : r = Push(q, c, e)}
  BY <1>4, LooseChannel
<1>8. QED
  BY <1>5, <1>6, <1>7


(* Something leaves one channel for good, or comes out of its side table.   *)
LEMMA LeavingKeeps ==
    ASSUME NEW q, NEW r, NEW ts, NEW gone, NEW cut, NEW all, NEW c \in Channel, NEW lost,
           Kept(q, ts, gone, cut, all), SameElsewhere(q, r, c), Neat(r, c),
           InCancelled(r, c) \subseteq InCancelled(q, c), lost \subseteq all,
           Pending(r, c) \subseteq Pending(q, c), Pending(q, c) \subseteq Pending(r, c) \cup lost
    PROVE  /\ Kept(r, ts, gone \cup lost, cut, all)
           /\ Fresh(q, ts, gone) /\ lost \subseteq Pending(q, c) /\ Pending(r, c) \cap lost = {} =>
                 Fresh(r, ts, gone \cup lost)
<1>1. gone \subseteq all /\ InCancelled(q, c) \subseteq cut
  BY DEF Kept, Accounted
<1>2. Kept(r, ts, gone \cup lost, cut, all)
  <2>1. /\ {} \cap all = {} /\ gone \subseteq gone \cup lost /\ gone \cup lost \subseteq all \cup {}
        /\ InCancelled(r, c) \subseteq cut
        /\ Pending(r, c) \subseteq Pending(q, c) \cup {}
        /\ Pending(q, c) \cup {} \subseteq Pending(r, c) \cup (gone \cup lost) \cup cut
        /\ all \cup {} = all
    BY <1>1
  <2>2. Kept(r, ts, gone \cup lost, cut, all \cup {})
    BY <2>1, ChannelMoves
  <2>3. QED
    BY <2>1, <2>2
<1>3. ASSUME Fresh(q, ts, gone), lost \subseteq Pending(q, c), Pending(r, c) \cap lost = {}
      PROVE  Fresh(r, ts, gone \cup lost)
  <2>1. /\ {} \cap all = {} /\ gone \cup lost \subseteq gone \cup Pending(q, c) \cup {}
        /\ Pending(r, c) \cap (gone \cup lost) = {}
    BY <1>3 DEF Fresh
  <2>2. QED
    BY <1>3, <2>1, ChannelFresh
<1>4. QED
  BY <1>2, <1>3

(* The agent is removed from a channel. *)
LEMMA DrainKeeps ==
    ASSUME NEW q, QueueInv(q), NEW ts, NEW gone, NEW cut, NEW all, NEW c \in Channel,
           Kept(q, ts, gone, cut, all)
    PROVE  LET r == DrainChannel(q, c)
               later == gone \cup Pending(q, c)
           IN  /\ Kept(r, ts, later, cut, all)
               /\ Fresh(q, ts, gone) => Fresh(r, ts, later)
               /\ NoLooser(q, ts, r, ts)
               /\ \A d \in Channel : InWithheld(r, d) \subseteq InWithheld(q, d)
<1> DEFINE r == DrainChannel(q, c)
<1>1. /\ SameElsewhere(q, r, c) /\ Neat(r, c) /\ Pending(r, c) = {}
  BY DrainMoves
<1> HIDE DEF r
<1>2. /\ InCancelled(r, c) = {} /\ Loose(r, c) = {} /\ InWithheld(r, c) = {}
  BY <1>1 DEF Pending, Loose
<1>3. Pending(q, c) \subseteq all
  BY DEF Kept, Accounted
<1>4. /\ Kept(r, ts, gone \cup Pending(q, c), cut, all)
      /\ Fresh(q, ts, gone) => Fresh(r, ts, gone \cup Pending(q, c))
  BY <1>1, <1>2, <1>3, LeavingKeeps
<1>5. NoLooser(q, ts, r, ts)
  <2>1. \A e : Lies(r, ts, e) => Lies(q, ts, e) \/ e \in {}
    BY <1>1, <1>2, LooseChannel
  <2>2. QED
    BY <2>1 DEF NoLooser
<1>6. \A d \in Channel : d # c => InWithheld(r, d) = InWithheld(q, d)
  BY <1>1, SameAtHolds DEF SameElsewhere
<1>7. QED
  BY <1>2, <1>4, <1>5, <1>6 DEF r

(* A steer that was not taken: the withheld event is queued again. *)
LEMMA ReleaseKeeps ==
    ASSUME NEW q, QueueInv(q), NEW ts, NEW gone, NEW cut, NEW all, NEW c \in Channel,
           NEW e \in Event, Kept(q, ts, gone, cut, all)
    PROVE  LET r == ReleaseNativeSteer(q, c, e)
               lost == IF Contains(q.withheld[c], e) THEN Trimmed(<<e>> \o q.queues[c]) ELSE {}
           IN  /\ Kept(r, ts, gone \cup lost, cut, all)
               /\ Fresh(q, ts, gone) => Fresh(r, ts, gone \cup lost)
               /\ \A x : Lies(r, ts, x) => Lies(q, ts, x) \/ x = e
               /\ \A d \in Channel : InWithheld(r, d) \subseteq InWithheld(q, d)
               /\ e \notin InWithheld(r, c)
<1> DEFINE r == ReleaseNativeSteer(q, c, e)
           lost == IF Contains(q.withheld[c], e) THEN Trimmed(<<e>> \o q.queues[c]) ELSE {}
<1>1. Contains(q.withheld[c], e) <=> e \in InWithheld(q, c)
  <2>1. q.withheld[c] \in Seq(Event)
    BY Tables
  <2>2. QED
    BY <2>1 DEF Contains, InWithheld, ToSet
<1>2. CASE ~Contains(q.withheld[c], e)
  <2>1. r = q /\ lost = {}
    BY <1>2 DEF ReleaseNativeSteer
  <2>2. gone \cup {} = gone
    OBVIOUS
  <2> HIDE DEF r, lost
  <2>3. QED
    BY <1>1, <1>2, <2>1, <2>2 DEF r, lost
<1>3. CASE Contains(q.withheld[c], e)
  <2>1. lost = Trimmed(<<e>> \o q.queues[c])
    BY <1>3
  <2>2. Neat(q, c) /\ Pending(q, c) \subseteq all
    BY DEF Kept, Apart, Accounted
  <2>3. /\ SameElsewhere(q, r, c) /\ Neat(r, c)
        /\ InWithheld(r, c) = InWithheld(q, c) \ {e}
        /\ InQueue(r, c) \cup lost = InQueue(q, c) \cup {e}
        /\ InQueue(r, c) \cap lost = {}
        /\ r.cancelled = q.cancelled
    BY <1>1, <1>3, <2>1, <2>2, ReleaseMoves
  <2> HIDE DEF r, lost
  <2>4. InCancelled(r, c) = InCancelled(q, c)
    BY <2>3 DEF InCancelled
  <2>5. e \in InWithheld(q, c)
    BY <1>1, <1>3
  <2>6. /\ Pending(r, c) \subseteq Pending(q, c)
        /\ Pending(q, c) \subseteq Pending(r, c) \cup lost
        /\ lost \subseteq Pending(q, c)
        /\ Loose(r, c) \subseteq Loose(q, c) \cup {e}
    BY <2>3, <2>4, <2>5 DEF Pending, Loose
  <2>7. Pending(r, c) \cap lost = {}
    <3>1. /\ InCancelled(q, c) \cap (InQueue(q, c) \cup {e}) = {}
          /\ (InWithheld(q, c) \ {e}) \cap (InQueue(q, c) \cup {e}) = {}
      BY <2>2, <2>5 DEF Neat
    <3>2. QED
      BY <2>3, <2>4, <3>1 DEF Pending
  <2>8. lost \subseteq all
    BY <2>2, <2>6
  <2>9. InCancelled(r, c) \subseteq InCancelled(q, c)
    BY <2>4
  <2>10. /\ Kept(r, ts, gone \cup lost, cut, all)
         /\ Fresh(q, ts, gone) => Fresh(r, ts, gone \cup lost)
    BY <2>3, <2>6, <2>7, <2>8, <2>9, LeavingKeeps
  <2>11. \A x : Lies(r, ts, x) => Lies(q, ts, x) \/ x \in {e}
    BY <2>3, <2>6, LooseChannel
  <2>12. \A d \in Channel : d # c => InWithheld(r, d) = InWithheld(q, d)
    BY <2>3, SameAtHolds DEF SameElsewhere
  <2>13. QED
    BY <2>3, <2>10, <2>11, <2>12 DEF r, lost
<1>4. QED
  BY <1>2, <1>3

(* A steer that was delivered: the event is gone from its channel. *)
LEMMA RemoveKeeps ==
    ASSUME NEW q, QueueInv(q), NEW ts, NEW gone, NEW cut, NEW all, NEW c \in Channel,
           NEW e \in all, Kept(q, ts, gone, cut, all)
    PROVE  LET r == RemoveEvent(q, c, e)
           IN  /\ Kept(r, ts, gone \cup {e}, cut, all)
               /\ NoLooser(q, ts, r, ts)
               /\ \A d \in Channel : /\ InWithheld(r, d) \subseteq InWithheld(q, d)
                                     /\ Pending(r, d) \subseteq Pending(q, d)
               /\ e \notin InWithheld(r, c)
<1> DEFINE r == RemoveEvent(q, c, e)
<1>1. Neat(q, c)
  BY DEF Kept, Apart
<1>2. /\ SameElsewhere(q, r, c) /\ Neat(r, c)
      /\ InWithheld(r, c) = InWithheld(q, c) \ {e}
      /\ InQueue(r, c) = InQueue(q, c) \ {e}
      /\ r.cancelled = q.cancelled
  BY <1>1, RemoveMoves
<1> HIDE DEF r
<1>3. InCancelled(r, c) = InCancelled(q, c)
  BY <1>2 DEF InCancelled
<1>4. /\ Pending(r, c) \subseteq Pending(q, c)
      /\ Pending(q, c) \subseteq Pending(r, c) \cup {e}
      /\ Loose(r, c) \subseteq Loose(q, c) \cup {}
      /\ {e} \subseteq all /\ InCancelled(r, c) \subseteq InCancelled(q, c)
  BY <1>2, <1>3 DEF Pending, Loose
<1>5. Kept(r, ts, gone \cup {e}, cut, all)
  BY <1>2, <1>4, LeavingKeeps
<1>6. NoLooser(q, ts, r, ts)
  <2>1. \A x : Lies(r, ts, x) => Lies(q, ts, x) \/ x \in {}
    BY <1>2, <1>4, LooseChannel
  <2>2. QED
    BY <2>1 DEF NoLooser
<1>7. \A d \in Channel : d # c => /\ InWithheld(r, d) = InWithheld(q, d)
                                  /\ Pending(r, d) = Pending(q, d)
  BY <1>2, SameAtHolds DEF SameElsewhere
<1>8. QED
  BY <1>2, <1>4, <1>5, <1>6, <1>7 DEF r


-----------------------------------------------------------------------------
(* Drop mode: nothing is tried again.                                       *)

(* No attempt is counted and no batch waits to be merged. *)
Plain(q) == \A c \in Channel : q.retry_counts[c] = 0 /\ q.cancelled[c] = <<>>

(* Strengthening: no turn of a harness in Drop mode returns its batch. *)
Frugal == DedupMode = "Drop" => Plain(queue) /\ \A a \in Agent : tasks[a].back = FALSE

LEMMA PlainMethods ==
    ASSUME NEW q, QueueInv(q), Plain(q), NEW c \in Channel
    PROVE  /\ \A e : Plain(Push(q, c, e))
           /\ \A e : Plain(MarkNativeSteerPending(q, c, e))
           /\ \A e : Plain(ReleaseNativeSteer(q, c, e))
           /\ \A e : Plain(RemoveEvent(q, c, e))
           /\ \A b \in FlushBatch : Plain(RequeuePreserveTimestamps(q, b))
           /\ Plain(FlushQueued(q, c)) /\ Plain(FlushCancelled(q, c))
           /\ Plain(MarkComplete(q, c)) /\ Plain(DrainChannel(q, c))
           /\ Plain(ExtendInFlightDeadline(q, c))
           /\ Plain([q EXCEPT !.retry_after[c] = "past"])
           /\ \A d : Plain([q EXCEPT !.due = d])
<1>1. /\ q \in EventQueue
      /\ q.retry_counts \in [Channel -> 0..MaxRetries]
      /\ q.cancelled \in [Channel -> Seq(Event)]
  BY DEF QueueInv, EventQueue
<1>2. \A r : r.retry_counts = q.retry_counts /\ r.cancelled = q.cancelled => Plain(r)
  BY DEF Plain
<1>3. \A e : Plain(Push(q, c, e))
  BY <1>1, <1>2 DEF Push, EventQueue
<1>4. \A e : Plain(MarkNativeSteerPending(q, c, e))
  BY <1>1, <1>2 DEF MarkNativeSteerPending, EventQueue
<1>5. \A e : Plain(ReleaseNativeSteer(q, c, e))
  BY <1>1, <1>2 DEF ReleaseNativeSteer, EventQueue
<1>6. \A e : Plain(RemoveEvent(q, c, e))
  BY <1>1, <1>2 DEF RemoveEvent, EventQueue
<1>7. \A b \in FlushBatch : Plain(RequeuePreserveTimestamps(q, b))
  BY <1>1, <1>2 DEF RequeuePreserveTimestamps, EventQueue
<1>8. Plain(FlushQueued(q, c))
  BY <1>1 DEF FlushQueued, EventQueue, Plain
<1>9. Plain(FlushCancelled(q, c))
  BY <1>1 DEF FlushCancelled, EventQueue, Plain
<1>10. Plain(MarkComplete(q, c))
  BY <1>1 DEF MarkComplete, EventQueue, Plain
<1>11. Plain(DrainChannel(q, c))
  BY <1>1 DEF DrainChannel, EventQueue, Plain
<1>12. Plain(ExtendInFlightDeadline(q, c))
  BY <1>1, <1>2 DEF ExtendInFlightDeadline, EventQueue
<1>13. Plain([q EXCEPT !.retry_after[c] = "past"])
  BY <1>1, <1>2 DEF EventQueue
<1>14. \A d : Plain([q EXCEPT !.due = d])
  BY <1>1, <1>2 DEF EventQueue
<1>15. QED
  BY <1>3, <1>4, <1>5, <1>6, <1>7, <1>8, <1>9, <1>10, <1>11, <1>12, <1>13,
     <1>14

LEMMA PlainExpiry ==
    ASSUME NEW q, QueueInv(q), Plain(q)
    PROVE  Plain(Expire(q)) /\ Plain(CompactExpiredState(q))
<1>1. /\ q \in EventQueue
      /\ q.retry_counts \in [Channel -> 0..MaxRetries]
  BY DEF QueueInv, EventQueue
<1>2. Plain(Expire(q))
  BY <1>1 DEF Expire, EventQueue, Plain
<1>3. Plain(CompactExpiredState(q))
  BY <1>1 DEF CompactExpiredState, EventQueue, Plain
<1>4. QED
  BY <1>2, <1>3

LEMMA FrugalInit == Init => Frugal
BY DEF Init, Frugal, Plain, NewQueue, NoTask

(* What dispatch_pending did with the batch that flush_next returned. *)
LEMMA Dispatches ==
    ASSUME Typed, DispatchQueued \/ DispatchCancelled
    PROVE  \E f, b :
              /\ b \in FlushBatch /\ b.ch \in Channel /\ b.ch \notin Released.in_flight
              /\ QueueInv(f) /\ f.in_flight = Released.in_flight \cup {b.ch}
              /\ f.due = Released.due
              /\ Plain(Released) => Plain(f)
              /\ (\A c \in Channel : Neat(Released, c)) => Flushed(Released, f, b)
              /\ Claim(f, b) \/ PoolExhausted(f, b)
<1>1. QueueInv(Released) /\ Released \in EventQueue
  BY ExpireInv DEF Typed, Released, QueueInv
<1>2. CASE DispatchQueued
  <2>1. PICK b \in QueuedBatches(Released) :
           \/ Claim(FlushQueued(Released, b.ch), b)
           \/ PoolExhausted(FlushQueued(Released, b.ch), b)
    BY <1>2 DEF DispatchQueued
  <2>2. b \in FlushBatch /\ b.ch \in Channel
    BY <1>1, QueuedBatchType DEF FlushBatch
  <2>3. b.ch \notin Released.in_flight
    BY DEF QueuedBatches, OldestReady, Ready
  <2>4. /\ QueueInv(FlushQueued(Released, b.ch))
        /\ FlushQueued(Released, b.ch).in_flight = Released.in_flight \cup {b.ch}
    BY <1>1, <2>2, FlushQueuedInv
  <2>5. FlushQueued(Released, b.ch).due = Released.due
    BY <1>1 DEF FlushQueued, EventQueue
  <2>6. Plain(Released) => Plain(FlushQueued(Released, b.ch))
    BY <1>1, <2>2, PlainMethods
  <2>7. (\A c \in Channel : Neat(Released, c)) =>
           Flushed(Released, FlushQueued(Released, b.ch), b)
    BY <1>1, FlushTakes
  <2>8. QED
    BY <2>1, <2>2, <2>3, <2>4, <2>5, <2>6, <2>7
<1>3. CASE DispatchCancelled
  <2>1. PICK b \in CancelledBatches(Released) :
           \/ Claim(FlushCancelled(Released, b.ch), b)
           \/ PoolExhausted(FlushCancelled(Released, b.ch), b)
    BY <1>3 DEF DispatchCancelled
  <2>2. b \in FlushBatch /\ b.ch \in Channel
    BY <1>1, CancelledBatchType DEF FlushBatch
  <2>3. b.ch \notin Released.in_flight
    BY DEF CancelledBatches, CancelledReady
  <2>4. /\ QueueInv(FlushCancelled(Released, b.ch))
        /\ FlushCancelled(Released, b.ch).in_flight = Released.in_flight \cup {b.ch}
    BY <1>1, <2>2, FlushCancelledInv
  <2>5. FlushCancelled(Released, b.ch).due = Released.due
    BY <1>1 DEF FlushCancelled, EventQueue
  <2>6. Plain(Released) => Plain(FlushCancelled(Released, b.ch))
    BY <1>1, <2>2, PlainMethods
  <2>7. (\A c \in Channel : Neat(Released, c)) =>
           Flushed(Released, FlushCancelled(Released, b.ch), b)
    BY <1>1, FlushTakes
  <2>8. QED
    BY <2>1, <2>2, <2>3, <2>4, <2>5, <2>6, <2>7
<1>4. QED
  BY <1>2, <1>3


-----------------------------------------------------------------------------
(* The steps, by what they do to the queue, the turns and the steers.       *)

(* The events a turn was steered with and has not answered for. *)
Steers(t) == t.steer_rx \cup t.pending_steer

(* Turns that at most got a control signal. *)
TasksAlike(ts, us) ==
    \A a \in Agent :
        /\ us[a].events = ts[a].events /\ us[a].cancelled = ts[a].cancelled
        /\ us[a].ch = ts[a].ch /\ us[a].phase = ts[a].phase /\ us[a].back = ts[a].back
        /\ us[a].steer_rx = ts[a].steer_rx /\ us[a].pending_steer = ts[a].pending_steer
        /\ ts[a].phase = "none" => us[a] = ts[a]

LEMMA AlikeBatches ==
    ASSUME NEW ts, NEW us, TasksAlike(ts, us)
    PROVE  SameBatches(ts, us)
BY DEF TasksAlike, SameBatches

LEMMA SignalledAlike ==
    ASSUME Shape, NEW c \in Channel, NEW s \in {"steer", "interrupt", "cancel"},
           NEW ts \in Signalled(c, s)
    PROVE  TasksAlike(tasks, ts)
<1>1. tasks \in [Agent -> Task]
  BY DEF Shape
<1>2. CASE ts = tasks
  BY <1>2 DEF TasksAlike
<1>3. ASSUME NEW a \in Agent, tasks[a].phase # "none", ts = [tasks EXCEPT ![a].control = s]
      PROVE  TasksAlike(tasks, ts)
  BY <1>1, <1>3 DEF TasksAlike, Task
<1>4. ts = tasks \/ \E a \in Agent : /\ tasks[a].phase # "none"
                                     /\ ts = [tasks EXCEPT ![a].control = s]
  BY DEF Signalled, Signal, TasksOn, InTaskMap
<1>5. QED
  BY <1>2, <1>3, <1>4

(* Nothing is moved, started or answered. *)
QuietStep ==
    \/ NotDue \/ Collect \/ DrainDone \/ Tick \/ Shutdown \/ ClockStep \/ UNCHANGED vars
    \/ \E c \in Channel : OwnerControl(c) \/ MembershipAdded(c)

QueueAlike(q, r) ==
    /\ SameTables(q, r) /\ r.in_flight = q.in_flight /\ r.retry_counts = q.retry_counts

LEMMA QuietSteps ==
    ASSUME Typed, QuietStep
    PROVE  /\ QueueAlike(queue, queue') /\ TasksAlike(tasks, tasks')
           /\ UNCHANGED <<acks, next, settled, interrupted>>
           /\ expiries' = 0 => expiries = 0 /\ queue'.due = queue.due
<1>1. queue \in EventQueue /\ tasks \in [Agent -> Task]
  BY DEF Typed, Shape, QueueInv
<1>2. QueueAlike(queue, queue) /\ TasksAlike(tasks, tasks)
  BY DEF QueueAlike, SameTables, SameAt, TasksAlike
<1>3. CASE UNCHANGED <<queue, tasks, acks, next, settled, interrupted, expiries>>
  BY <1>2, <1>3
<1>4. ASSUME NEW c \in Channel, OwnerControl(c)
      PROVE  /\ UNCHANGED <<queue, acks, next, settled, interrupted, expiries>>
             /\ TasksAlike(tasks, tasks')
  <2>1. PICK s \in OwnerControls : tasks' \in Signalled(c, s)
    BY <1>4 DEF OwnerControl
  <2>2. TasksAlike(tasks, tasks')
    BY <2>1, SignalledAlike, HarnessConstants DEF Typed
  <2>3. QED
    BY <1>4, <2>2 DEF OwnerControl, loopVars, bounds
<1>5. ASSUME NEW c \in Channel, BackoffElapses(c)
      PROVE  /\ UNCHANGED <<tasks, acks, next, settled, interrupted, expiries>>
             /\ QueueAlike(queue, queue') /\ queue'.due = queue.due
  <2>1. queue' = [queue EXCEPT !.retry_after[c] = "past"]
        /\ UNCHANGED <<tasks, acks, next, settled, interrupted, expiries>>
    BY <1>5 DEF BackoffElapses, loopVars, bounds
  <2>2. QED
    BY <1>1, <2>1 DEF QueueAlike, SameTables, SameAt, EventQueue
<1>6. ASSUME NEW c \in Channel, DeadlinePasses(c)
      PROVE  /\ UNCHANGED <<tasks, acks, next, settled, interrupted>>
             /\ QueueAlike(queue, queue') /\ expiries' # 0
  <2>1. queue' = [queue EXCEPT !.due = queue.due \cup {c}]
        /\ UNCHANGED <<tasks, acks, next, settled, interrupted>>
        /\ expiries' = expiries + 1
    BY <1>6 DEF DeadlinePasses, loopVars
  <2>2. expiries' # 0
    BY <2>1 DEF Typed, Shape
  <2>3. QED
    BY <1>1, <2>1, <2>2 DEF QueueAlike, SameTables, SameAt, EventQueue
<1>7. \/ UNCHANGED <<queue, tasks, acks, next, settled, interrupted, expiries>>
      \/ \E c \in Channel : OwnerControl(c) \/ BackoffElapses(c) \/ DeadlinePasses(c)
  BY DEF QuietStep, NotDue, Collect, DrainDone, Tick, Shutdown, ClockStep, RespawnEnds,
         CooldownElapses, MembershipAdded, vars, loopVars, bounds
<1>8. QED
  BY <1>2, <1>3, <1>4, <1>5, <1>6, <1>7

(* The looks for work that find nothing to dispatch, or leave it to a later *)
(* step: deadlines are expired, and perhaps a heartbeat turn starts.        *)
LEMMA ExpirySteps ==
    ASSUME Typed, Maintain \/ DispatchNothing \/ HeartbeatFired
    PROVE  /\ \E q : /\ QueueInv(q) /\ SameTables(queue, q)
                     /\ q.in_flight = queue.in_flight /\ q.due = queue.due
                     /\ Plain(queue) => Plain(q)
                     /\ queue' = Expire(q)
                     /\ settled' = settled \cup ExpiryOverflow(q)
           /\ UNCHANGED <<acks, next, interrupted, expiries>>
           /\ \/ tasks' = tasks
              \/ \E a \in Agent : /\ slots[a] = "idle"
                                  /\ tasks' = [tasks EXCEPT ![a] = HeartbeatTask]
<1>1. QueueInv(queue) /\ queue \in EventQueue
  BY DEF Typed, QueueInv
<1>2. SameTables(queue, queue)
  BY DEF SameTables, SameAt
<1>3. CASE Maintain
  <2> DEFINE q == CompactExpiredState(queue)
  <2>1. QueueInv(q) /\ q.in_flight = queue.in_flight
    BY <1>1, CompactInv
  <2>2. SameTables(queue, q) /\ q.due = queue.due
    BY <1>1 DEF CompactExpiredState, SameTables, SameAt, EventQueue
  <2>3. Plain(queue) => Plain(q)
    BY <1>1, PlainExpiry
  <2>4. queue' = Expire(q) /\ settled' = settled \cup ExpiryOverflow(q)
    BY <1>3 DEF Maintain
  <2> HIDE DEF q
  <2>5. UNCHANGED <<acks, next, interrupted, expiries, tasks>>
    BY <1>3 DEF Maintain, loopVars, bounds
  <2>6. QED
    BY <2>1, <2>2, <2>3, <2>4, <2>5
<1>4. CASE DispatchNothing
  <2>1. queue' = Expire(queue) /\ settled' = settled \cup ExpiryOverflow(queue)
        /\ UNCHANGED <<acks, next, interrupted, expiries, tasks>>
    BY <1>4 DEF DispatchNothing, Released, loopVars, bounds
  <2>2. QED
    BY <1>1, <1>2, <2>1
<1>5. CASE HeartbeatFired
  <2>1. queue' = Expire(queue) /\ settled' = settled \cup ExpiryOverflow(queue)
        /\ UNCHANGED <<acks, next, interrupted, expiries>>
    BY <1>5 DEF HeartbeatFired, loopVars, bounds
  <2>2. \/ tasks' = tasks
        \/ \E a \in Agent : /\ slots[a] = "idle"
                            /\ tasks' = [tasks EXCEPT ![a] = HeartbeatTask]
    BY <1>5 DEF HeartbeatFired, Idle
  <2>3. QED
    BY <1>1, <1>2, <2>1, <2>2
<1>6. QED
  BY <1>3, <1>4, <1>5


(* A finished turn leaves the task map: its batch waits to be merged, goes  *)
(* back to the queue, or is gone; then mark_complete.                       *)
BatchCancelled(t, q) ==
    /\ t.back /\ t.ch \in Channel
    /\ \E reason : q = RequeueAsCancelled(queue, BatchOf(t), reason)
    /\ settled' = settled /\ interrupted' = interrupted \cup EventsOf(t)

BatchRetried(t, q) ==
    /\ t.back \/ DedupMode = "Queue"
    /\ t.ch \in Channel
    /\ q = Requeue(queue, BatchOf(t)) /\ ~Exhausted(queue, BatchOf(t))
    /\ settled' = settled \cup Trimmed(PutBack(queue, BatchOf(t)))
    /\ interrupted' = interrupted

BatchGone(t, q) ==
    /\ SameTables(queue, q) /\ (Plain(queue) => Plain(q))
    /\ settled' = settled \cup EventsOf(t) /\ interrupted' = interrupted

LEMMA ExhaustedBatch ==
    ASSUME NEW q, QueueInv(q), NEW b \in FlushBatch, Exhausted(q, b)
    PROVE  SameTables(q, Requeue(q, b)) /\ (Plain(q) => Plain(Requeue(q, b)))
<1>1. q \in EventQueue /\ q.retry_counts \in [Channel -> 0..MaxRetries]
  BY DEF QueueInv, EventQueue
<1>2. SameTables(q, Requeue(q, b))
  BY RequeueTables DEF SameTables, SameAt
<1>3. Requeue(q, b).retry_counts = [q.retry_counts EXCEPT ![b.ch] = 0]
  BY <1>1 DEF Requeue, EventQueue
<1>4. QED
  BY <1>1, <1>2, <1>3 DEF Plain, SameTables, SameAt

LEMMA RequeueDue ==
    ASSUME NEW q, QueueInv(q), NEW b \in FlushBatch, NEW reason
    PROVE  Requeue(q, b).due = q.due /\ RequeueAsCancelled(q, b, reason).due = q.due
BY DEF QueueInv, EventQueue, Requeue, RequeueAsCancelled

LEMMA CompletedTables ==
    ASSUME NEW q, QueueInv(q), NEW t \in Task
    PROVE  /\ SameTables(q, Completed(q, t))
           /\ Completed(q, t).due = q.due \ {t.ch}
           /\ Plain(q) => Plain(Completed(q, t))
<1>1. CASE t.ch = NoChannel
  <2>1. q.due \subseteq Channel
    BY DEF QueueInv, EventQueue
  <2>2. QED
    BY <1>1, <2>1, HarnessConstants DEF Completed, SameTables, SameAt
<1>2. CASE t.ch # NoChannel
  <2>1. t.ch \in Channel
    BY <1>2 DEF Task
  <2>2. QED
    BY <1>2, <2>1, QuietMethods, PlainMethods DEF Completed
<1>3. QED
  BY <1>1, <1>2

LEMMA EndSteps ==
    ASSUME Typed, NEW a \in Agent, HandleResult(a) \/ RecoverPanicked(a)
    PROVE  /\ tasks[a].phase \notin {"none", "running"}
           /\ tasks' = [tasks EXCEPT ![a] = NoTask]
           /\ UNCHANGED <<acks, next, expiries>>
           /\ \E q : /\ QueueInv(q) /\ q.in_flight = queue.in_flight /\ q.due = queue.due
                     /\ queue' = Completed(q, tasks[a])
                     /\ \/ BatchCancelled(tasks[a], q)
                        \/ BatchRetried(tasks[a], q)
                        \/ BatchGone(tasks[a], q)
<1> DEFINE t == tasks[a]
           b == BatchOf(t)
<1>1. t \in Task /\ QueueInv(queue)
  BY DEF Typed, Shape
<1>2. SameTables(queue, queue)
  BY DEF SameTables, SameAt
<1>3. CASE HandleResult(a)
  <2>1. /\ tasks[a].phase \notin {"none", "running"}
        /\ tasks' = [tasks EXCEPT ![a] = NoTask]
        /\ UNCHANGED <<acks, next, expiries>>
    BY <1>3 DEF HandleResult, bounds, Outcomes, FailOutcomes, ErrorOutcomes
  <2>2. QueueInv(Disposed(t)) /\ Disposed(t).in_flight = queue.in_flight
    BY DisposedInv
  <2>3. queue' = Completed(Disposed(t), t) /\ settled' = settled \cup Settles(t)
    BY <1>3 DEF HandleResult
  <2>4. interrupted' = IF Returned(t) /\ Cancelled(t)
                       THEN interrupted \cup EventsOf(t) ELSE interrupted
    BY <1>3 DEF HandleResult
  <2>5. Returned(t) => t.back /\ t.ch \in Channel /\ b \in FlushBatch
    BY <1>1, BatchOfType DEF Returned, Typed, Shape, HeartbeatsBare, Task
  <2>6. Disposed(t).due = queue.due
    BY <1>1, <2>5, RequeueDue DEF Disposed, Retried
  <2>7. CASE Returned(t) /\ Cancelled(t)
    <3>1. Disposed(t) = RequeueAsCancelled(queue, b, ReasonOf(t)) /\ Settles(t) = {}
      BY <2>7 DEF Disposed, Settles
    <3>2. BatchCancelled(t, Disposed(t))
      BY <2>3, <2>4, <2>5, <2>7, <3>1 DEF BatchCancelled
    <3>3. QED
      BY <2>1, <2>2, <2>3, <2>6, <3>2
  <2>8. CASE ~(Returned(t) /\ Cancelled(t)) /\ Retried(t) /\ ~Exhausted(queue, b)
    <3>1. Returned(t) /\ Disposed(t) = Requeue(queue, b)
          /\ Settles(t) = Trimmed(PutBack(queue, b))
      BY <2>8 DEF Disposed, Settles, Retried
    <3>2. BatchRetried(t, Disposed(t))
      BY <2>3, <2>4, <2>5, <2>8, <3>1 DEF BatchRetried
    <3>3. QED
      BY <2>1, <2>2, <2>3, <2>6, <3>2
  <2>9. CASE ~(Returned(t) /\ Cancelled(t)) /\ Retried(t) /\ Exhausted(queue, b)
    <3>1. Returned(t) /\ Disposed(t) = Requeue(queue, b) /\ Settles(t) = EventsOf(t)
      BY <2>9 DEF Disposed, Settles, Retried
    <3>2. SameTables(queue, Disposed(t)) /\ (Plain(queue) => Plain(Disposed(t)))
      BY <1>1, <2>5, <2>9, <3>1, ExhaustedBatch
    <3>3. BatchGone(t, Disposed(t))
      BY <2>3, <2>4, <2>9, <3>1, <3>2 DEF BatchGone
    <3>4. QED
      BY <2>1, <2>2, <2>3, <2>6, <3>3
  <2>10. CASE ~(Returned(t) /\ Cancelled(t)) /\ ~Retried(t)
    <3>1. Disposed(t) = queue /\ Settles(t) = EventsOf(t)
      BY <2>10 DEF Disposed, Settles
    <3>2. BatchGone(t, Disposed(t))
      BY <1>2, <2>3, <2>4, <2>10, <3>1 DEF BatchGone
    <3>3. QED
      BY <2>1, <2>2, <2>3, <2>6, <3>2
  <2>11. QED
    BY <2>7, <2>8, <2>9, <2>10
<1>4. CASE RecoverPanicked(a)
  <2> DEFINE q == IF Recoverable(t) THEN Requeue(queue, b) ELSE queue
  <2>1. /\ tasks[a].phase \notin {"none", "running"}
        /\ tasks' = [tasks EXCEPT ![a] = NoTask]
        /\ UNCHANGED <<acks, next, expiries, interrupted>>
    BY <1>4 DEF RecoverPanicked, bounds
  <2>2. QueueInv(q) /\ q.in_flight = queue.in_flight
    BY RecoveredInv
  <2>3. queue' = Completed(q, t)
    BY <1>4 DEF RecoverPanicked
  <2>4. settled' = settled \cup IF Recoverable(t) /\ ~Exhausted(queue, b)
                                THEN Trimmed(PutBack(queue, b)) ELSE EventsOf(t)
    BY <1>4 DEF RecoverPanicked
  <2>5. Recoverable(t) => DedupMode = "Queue" /\ t.ch \in Channel /\ b \in FlushBatch
    BY <1>1, BatchOfType DEF Recoverable, Task
  <2>6. q.due = queue.due
    BY <1>1, <2>5, RequeueDue
  <2>7. CASE Recoverable(t) /\ ~Exhausted(queue, b)
    <3>1. BatchRetried(t, q)
      BY <2>1, <2>4, <2>5, <2>7 DEF BatchRetried
    <3> HIDE DEF q
    <3>2. QED
      BY <2>1, <2>2, <2>3, <2>6, <3>1
  <2>8. CASE Recoverable(t) /\ Exhausted(queue, b)
    <3>1. SameTables(queue, q) /\ (Plain(queue) => Plain(q))
      BY <1>1, <2>5, <2>8, ExhaustedBatch
    <3>2. BatchGone(t, q)
      BY <2>1, <2>4, <2>8, <3>1 DEF BatchGone
    <3> HIDE DEF q
    <3>3. QED
      BY <2>1, <2>2, <2>3, <2>6, <3>2
  <2>9. CASE ~Recoverable(t)
    <3>1. BatchGone(t, q)
      BY <1>2, <2>1, <2>4, <2>9 DEF BatchGone
    <3> HIDE DEF q
    <3>2. QED
      BY <2>1, <2>2, <2>3, <2>6, <3>1
  <2>10. QED
    BY <2>7, <2>8, <2>9
<1>5. QED
  BY <1>3, <1>4


(* A prompt task moves a steer along, or answers for some of its steers.    *)
Answers(c, es, k) == {[ch |-> c, event |-> e, ack |-> k] : e \in es}

TaskMoves(a, u, es, k) ==
    /\ tasks' = [tasks EXCEPT ![a] = u]
    /\ u.ch = tasks[a].ch
    /\ u.events = tasks[a].events /\ u.cancelled = tasks[a].cancelled
    /\ u.phase # "none"
    /\ u.back = tasks[a].back \/ u.back = FALSE \/ DedupMode = "Queue"
    /\ u.phase # "running" => Steers(u) = {}
    /\ Steers(tasks[a]) = Steers(u) \cup es
    /\ tasks[a].steer_rx \cap tasks[a].pending_steer = {} =>
          Steers(u) \cap es = {} /\ u.steer_rx \cap u.pending_steer = {}
    /\ acks' = acks \cup Answers(tasks[a].ch, es, k)

LEMMA TaskSteps ==
    ASSUME Typed, NEW a \in Agent, TaskStep(a)
    PROVE  /\ tasks[a].phase = "running"
           /\ UNCHANGED <<queue, next, settled, interrupted, expiries>>
           /\ \E u \in Task, es \in SUBSET Event, k \in SteerAckKinds : TaskMoves(a, u, es, k)
<1> DEFINE t == tasks[a]
<1>1. t \in Task /\ tasks \in [Agent -> Task]
  BY DEF Typed, Shape
<1>2. /\ t.steer_rx \in SUBSET Event /\ t.pending_steer \in SUBSET Event
      /\ Steers(t) \in SUBSET Event /\ {} \in SUBSET Event
  BY <1>1 DEF Task, Steers
<1>3. CASE WriteSteer(a)
  <2>1. /\ tasks[a].phase = "running" /\ t.pending_steer = {}
        /\ UNCHANGED <<queue, next, settled, interrupted, expiries>>
    BY <1>3 DEF WriteSteer, taskUnchanged, loopVars
  <2>2. CASE /\ tasks' = [tasks EXCEPT ![a].pending_steer = t.steer_rx, ![a].steer_rx = {}]
             /\ acks' = acks
    <3> DEFINE u == [t EXCEPT !.pending_steer = t.steer_rx, !.steer_rx = {}]
    <3>1. /\ u \in Task /\ u.ch = t.ch /\ u.back = t.back /\ u.phase = t.phase
          /\ u.steer_rx = {} /\ u.pending_steer = t.steer_rx
          /\ u.events = t.events /\ u.cancelled = t.cancelled
      BY <1>1 DEF Task
    <3>2. tasks' = [tasks EXCEPT ![a] = u]
      BY <1>1, <2>2
    <3> HIDE DEF u
    <3>3. Answers(t.ch, {}, "release") = {}
      BY DEF Answers
    <3>4. TaskMoves(a, u, {}, "release")
      BY <2>1, <2>2, <3>1, <3>2, <3>3 DEF TaskMoves, Steers
    <3>5. QED
      BY <1>2, <2>1, <3>1, <3>4 DEF SteerAckKinds
  <2>3. CASE /\ tasks' = [tasks EXCEPT ![a].steer_rx = {}]
             /\ acks' = acks \cup Answers(t.ch, t.steer_rx, "fallback")
    <3> DEFINE u == [t EXCEPT !.steer_rx = {}]
    <3>1. /\ u \in Task /\ u.ch = t.ch /\ u.back = t.back /\ u.phase = t.phase
          /\ u.steer_rx = {} /\ u.pending_steer = t.pending_steer
          /\ u.events = t.events /\ u.cancelled = t.cancelled
      BY <1>1 DEF Task
    <3>2. tasks' = [tasks EXCEPT ![a] = u]
      BY <1>1, <2>3
    <3> HIDE DEF u
    <3>3. TaskMoves(a, u, t.steer_rx, "fallback")
      BY <2>1, <2>3, <3>1, <3>2 DEF TaskMoves, Steers
    <3>4. QED
      BY <1>2, <2>1, <3>1, <3>3 DEF SteerAckKinds
  <2>4. QED
    BY <1>3, <2>2, <2>3 DEF WriteSteer, Answers
<1>4. CASE SteerReply(a)
  <2>1. /\ tasks[a].phase = "running"
        /\ UNCHANGED <<queue, next, settled, interrupted, expiries>>
        /\ tasks' = [tasks EXCEPT ![a].pending_steer = {}]
    BY <1>4 DEF SteerReply, taskUnchanged, loopVars
  <2>2. PICK k \in SteerAckKinds : acks' = acks \cup Answers(t.ch, t.pending_steer, k)
    BY <1>4 DEF SteerReply, Answers
  <2> DEFINE u == [t EXCEPT !.pending_steer = {}]
  <2>3. /\ u \in Task /\ u.ch = t.ch /\ u.back = t.back /\ u.phase = t.phase
        /\ u.steer_rx = t.steer_rx /\ u.pending_steer = {}
        /\ u.events = t.events /\ u.cancelled = t.cancelled
    BY <1>1 DEF Task
  <2>4. tasks' = [tasks EXCEPT ![a] = u]
    BY <1>1, <2>1
  <2> HIDE DEF u
  <2>5. TaskMoves(a, u, t.pending_steer, k)
    BY <2>1, <2>2, <2>3, <2>4 DEF TaskMoves, Steers
  <2>6. QED
    BY <1>2, <2>1, <2>3, <2>5
<1>5. CASE TurnEnds(a)
  <2>1. tasks[a].reason \in Reason /\ CancelReason(a) \in Reason
    BY <1>1 DEF Task, CancelReason, Reason
  <2>2. /\ KeepsBatch(a) \in BOOLEAN /\ KeepsCancelled(a) \in BOOLEAN
        /\ KeepsBatch(a) => DedupMode = "Queue"
        /\ KeepsCancelled(a) => DedupMode = "Queue"
    BY DEF KeepsBatch, KeepsCancelled
  <2>3. PICK o \in Outcomes \cup {"panicked"} :
           \E back \in BOOLEAN, reason \in Reason :
              Ends(a, o, back, reason) /\ (back => DedupMode = "Queue")
    BY <1>5, <2>1, <2>2
       DEF TurnEnds, TurnOk, TurnFails, TurnCancelled, TurnCancelFails, TurnPanics,
           Outcomes, FailOutcomes
  <2>4. PICK back \in BOOLEAN, reason \in Reason :
           Ends(a, o, back, reason) /\ (back => DedupMode = "Queue")
    BY <2>3
  <2>5. o \notin {"none", "running"}
    BY DEF Outcomes, FailOutcomes, ErrorOutcomes
  <2> DEFINE u == [t EXCEPT !.phase = o, !.back = back, !.reason = reason,
                            !.steer_rx = {}, !.pending_steer = {}]
  <2>6. /\ u \in Task /\ u.ch = t.ch /\ u.back = back /\ u.phase = o
        /\ u.steer_rx = {} /\ u.pending_steer = {}
        /\ u.events = t.events /\ u.cancelled = t.cancelled
    BY <1>1 DEF Task
  <2>7. tasks' = [tasks EXCEPT ![a] = u]
    BY <1>1, <2>4 DEF Ends
  <2> HIDE DEF u
  <2>8. acks' = acks \cup Answers(t.ch, Steers(t), "release")
    BY <2>4 DEF Ends, Answers, Steers
  <2>9. /\ tasks[a].phase = "running"
        /\ UNCHANGED <<queue, next, settled, interrupted, expiries>>
    BY <2>4 DEF Ends, taskUnchanged, loopVars
  <2>10. Steers(u) = {}
    BY <2>6 DEF Steers
  <2>11. u.back = FALSE \/ DedupMode = "Queue"
    BY <2>4, <2>6
  <2>12. TaskMoves(a, u, Steers(t), "release")
    BY <2>5, <2>6, <2>7, <2>8, <2>10, <2>11 DEF TaskMoves
  <2>13. QED
    BY <1>2, <2>6, <2>9, <2>12 DEF SteerAckKinds
<1>6. QED
  BY <1>3, <1>4, <1>5 DEF TaskStep

(* An event arrives: it is refused, queued, or handed to the running turn.  *)
Refused(c) ==
    /\ queue' = queue /\ tasks' = tasks /\ settled' = settled \cup {next}

Taken(c) ==
    /\ queue' = Push(queue, c, next) /\ settled' = settled \cup PushDrops(c)
    /\ TasksAlike(tasks, tasks')

Handed(c) ==
    /\ queue' = MarkNativeSteerPending(Push(queue, c, next), c, next)
    /\ settled' = settled \cup PushDrops(c)
    /\ \E a \in Agent :
          /\ tasks[a].ch = c /\ tasks[a].phase = "running" /\ tasks[a].steer_rx = {}
          /\ tasks' = [tasks EXCEPT ![a].steer_rx = {next}]

LEMMA ArrivalSteps ==
    ASSUME Typed, NEW c \in Channel,
           EventDropped(c) \/ EventQueued(c) \/ EventSteered(c) \/ EventSignals(c)
    PROVE  /\ next \in Event /\ next' = next + 1
           /\ UNCHANGED <<acks, interrupted, expiries>>
           /\ Refused(c) \/ Taken(c) \/ Handed(c)
<1>1. Arrives(c)
  BY DEF EventDropped, EventQueued, EventSteered, EventSignals
<1>2. next \in Event /\ next' = next + 1 /\ UNCHANGED <<acks, interrupted, expiries>>
  BY <1>1 DEF Arrives, bounds, EventDropped, EventQueued, EventSteered, EventSignals
<1>3. CASE EventDropped(c)
  BY <1>2, <1>3 DEF EventDropped, Refused
<1>4. CASE EventQueued(c)
  BY <1>2, <1>4 DEF EventQueued, Taken, TasksAlike
<1>5. CASE EventSteered(c)
  BY <1>2, <1>5 DEF EventSteered, Handed, TasksOn, CanSteer
<1>6. CASE EventSignals(c)
  <2>1. PICK s \in ModeGateSignals : tasks' \in Signalled(c, s)
    BY <1>6 DEF EventSignals
  <2>2. s \in {"steer", "interrupt", "cancel"}
    BY DEF ModeGateSignals
  <2>3. TasksAlike(tasks, tasks')
    BY <2>1, <2>2, SignalledAlike DEF Typed
  <2>4. QED
    BY <1>2, <1>6, <2>3 DEF EventSignals, Taken
<1>7. QED
  BY <1>3, <1>4, <1>5, <1>6

(* The main loop hears what became of a steer. *)
LEMMA AckSteps ==
    ASSUME Typed, NEW k \in acks, HandleSteerAck(k)
    PROVE  /\ k.ch \in Channel /\ k.event \in Event
           /\ acks' = acks \ {k} /\ TasksAlike(tasks, tasks')
           /\ UNCHANGED <<interrupted, next, expiries>>
           /\ \/ /\ \E q : /\ QueueInv(q) /\ SameTables(queue, q)
                           /\ q.in_flight = queue.in_flight
                           /\ q.due = queue.due \ {k.ch}
                           /\ Plain(queue) => Plain(q)
                           /\ queue' = RemoveEvent(q, k.ch, k.event)
                 /\ settled' = settled \cup {k.event}
              \/ /\ queue' = ReleaseNativeSteer(queue, k.ch, k.event)
                 /\ settled' = settled \cup ReleaseDrops(k)
<1>1. k.ch \in Channel /\ k.event \in Event
  BY DEF Typed, Shape, SteerAck
<1>2. QueueInv(queue) /\ queue.due \subseteq queue.in_flight
  BY DEF Typed, QueueInv
<1>3. acks' = acks \ {k} /\ UNCHANGED <<interrupted, next, expiries>>
  BY DEF HandleSteerAck, loopVars, bounds
<1>4. TasksAlike(tasks, tasks')
  <2>1. CASE tasks' = tasks
    BY <2>1 DEF TasksAlike
  <2>2. CASE tasks' \in Signalled(k.ch, "steer")
    BY <1>1, <2>2, SignalledAlike DEF Typed
  <2>3. QED
    BY <2>1, <2>2 DEF HandleSteerAck
<1>5. CASE k.ack = "success"
  <2> DEFINE q == ExtendInFlightDeadline(queue, k.ch)
  <2>1. QueueInv(q) /\ q.in_flight = queue.in_flight
    BY <1>2, DueUpdate DEF ExtendInFlightDeadline
  <2>2. SameTables(queue, q) /\ q.due = queue.due \ {k.ch}
    BY <1>1, <1>2, QuietMethods
  <2>3. Plain(queue) => Plain(q)
    BY <1>1, <1>2, PlainMethods
  <2>4. queue' = RemoveEvent(q, k.ch, k.event) /\ settled' = settled \cup {k.event}
    BY <1>5 DEF HandleSteerAck
  <2> HIDE DEF q
  <2>5. QED
    BY <1>1, <1>3, <1>4, <2>1, <2>2, <2>3, <2>4
<1>6. CASE k.ack # "success"
  BY <1>1, <1>3, <1>4, <1>6 DEF HandleSteerAck
<1>7. QED
  BY <1>5, <1>6


(* Every step is one of these. *)
LEMMA StepKinds ==
    ASSUME [Next]_vars
    PROVE  \/ QuietStep
           \/ Maintain \/ DispatchNothing \/ HeartbeatFired
           \/ DispatchQueued \/ DispatchCancelled
           \/ \E a \in Agent : HandleResult(a) \/ RecoverPanicked(a)
           \/ \E k \in acks : HandleSteerAck(k)
           \/ \E c \in Channel :
                 EventDropped(c) \/ EventQueued(c) \/ EventSteered(c) \/ EventSignals(c)
           \/ \E c \in Channel : MembershipRemoved(c)
           \/ \E a \in Agent : TaskStep(a)
BY DEF QuietStep, Next, LoopStep, PanicStep, AckStep, RelayStep

-----------------------------------------------------------------------------
(* The theorem about Drop mode. *)

LEMMA FrugalStep == Typed /\ Frugal /\ [Next]_vars => Frugal'
<1> SUFFICES ASSUME Typed, Frugal, [Next]_vars, DedupMode = "Drop"
             PROVE  Plain(queue') /\ \A a \in Agent : tasks'[a].back = FALSE
  BY DEF Frugal
<1>1. /\ QueueInv(queue) /\ tasks \in [Agent -> Task]
      /\ Plain(queue) /\ \A a \in Agent : tasks[a].back = FALSE
  BY DEF Typed, Shape, Frugal
<1>2. /\ NoTask.back = FALSE /\ HeartbeatTask.back = FALSE
      /\ \A b \in FlushBatch : NewTask(b).back = FALSE
  BY NewTaskHolds DEF NoTask, HeartbeatTask
<1>3. TasksAlike(tasks, tasks') => \A a \in Agent : tasks'[a].back = FALSE
  BY <1>1 DEF TasksAlike
<1>4. CASE QuietStep
  <2>1. QueueAlike(queue, queue') /\ TasksAlike(tasks, tasks')
    BY <1>4, QuietSteps
  <2>2. QED
    BY <1>1, <1>3, <2>1 DEF QueueAlike, SameTables, SameAt, Plain
<1>5. CASE Maintain \/ DispatchNothing \/ HeartbeatFired
  <2>1. \E q : QueueInv(q) /\ (Plain(queue) => Plain(q)) /\ queue' = Expire(q)
    BY <1>5, ExpirySteps
  <2>2. \/ tasks' = tasks
        \/ \E a \in Agent : tasks' = [tasks EXCEPT ![a] = HeartbeatTask]
    BY <1>5, ExpirySteps
  <2>3. QED
    BY <1>1, <1>2, <2>1, <2>2, PlainExpiry
<1>6. CASE DispatchQueued \/ DispatchCancelled
  <2>1. PICK f, b : /\ b \in FlushBatch /\ b.ch \in Channel /\ QueueInv(f)
                    /\ Plain(Released) => Plain(f)
                    /\ Claim(f, b) \/ PoolExhausted(f, b)
    BY <1>6, Dispatches
  <2>2. Plain(f)
    BY <1>1, <2>1, PlainExpiry DEF Released
  <2>3. CASE Claim(f, b)
    BY <1>1, <1>2, <2>1, <2>2, <2>3 DEF Claim, Idle
  <2>4. CASE PoolExhausted(f, b)
    <3>1. /\ QueueInv(RequeuePreserveTimestamps(f, b))
          /\ Plain(RequeuePreserveTimestamps(f, b))
      BY <2>1, <2>2, RequeuePreserveInv, PlainMethods
    <3>2. Plain(MarkComplete(RequeuePreserveTimestamps(f, b), b.ch))
      BY <2>1, <3>1, PlainMethods
    <3>3. QED
      BY <1>1, <2>4, <3>2 DEF PoolExhausted
  <2>5. QED
    BY <2>1, <2>3, <2>4
<1>7. ASSUME NEW a \in Agent, HandleResult(a) \/ RecoverPanicked(a)
      PROVE  Plain(queue') /\ \A d \in Agent : tasks'[d].back = FALSE
  <2>1. tasks' = [tasks EXCEPT ![a] = NoTask]
    BY <1>7, EndSteps
  <2>2. PICK q : /\ QueueInv(q) /\ queue' = Completed(q, tasks[a])
                 /\ \/ BatchCancelled(tasks[a], q) \/ BatchRetried(tasks[a], q)
                    \/ BatchGone(tasks[a], q)
    BY <1>7, EndSteps
  <2>3. Plain(q)
    BY <1>1, <2>2 DEF BatchCancelled, BatchRetried, BatchGone
  <2>4. Plain(queue')
    BY <1>1, <2>2, <2>3, CompletedTables
  <2>5. QED
    BY <1>1, <1>2, <2>1, <2>4
<1>8. ASSUME NEW k \in acks, HandleSteerAck(k)
      PROVE  Plain(queue') /\ \A d \in Agent : tasks'[d].back = FALSE
  <2>1. /\ k.ch \in Channel /\ TasksAlike(tasks, tasks')
        /\ \/ \E q : /\ QueueInv(q) /\ (Plain(queue) => Plain(q))
                     /\ queue' = RemoveEvent(q, k.ch, k.event)
           \/ queue' = ReleaseNativeSteer(queue, k.ch, k.event)
    BY <1>8, AckSteps
  <2>2. \A q : QueueInv(q) /\ Plain(q) => Plain(RemoveEvent(q, k.ch, k.event))
    BY <2>1, PlainMethods
  <2>3. Plain(ReleaseNativeSteer(queue, k.ch, k.event))
    BY <1>1, <2>1, PlainMethods
  <2>4. QED
    BY <1>1, <1>3, <2>1, <2>2, <2>3
<1>9. ASSUME NEW c \in Channel,
             EventDropped(c) \/ EventQueued(c) \/ EventSteered(c) \/ EventSignals(c)
      PROVE  Plain(queue') /\ \A d \in Agent : tasks'[d].back = FALSE
  <2>1. next \in Event /\ (Refused(c) \/ Taken(c) \/ Handed(c))
    BY <1>9, ArrivalSteps
  <2>2. QueueInv(Push(queue, c, next)) /\ Plain(Push(queue, c, next))
    BY <1>1, <2>1, PushInv, PlainMethods
  <2>3. Plain(queue')
    <3>1. Plain(MarkNativeSteerPending(Push(queue, c, next), c, next))
      BY <2>2, PlainMethods
    <3>2. QED
      BY <1>1, <2>1, <2>2, <3>1 DEF Refused, Taken, Handed
  <2>4. CASE Handed(c)
    <3>1. PICK a \in Agent : tasks' = [tasks EXCEPT ![a].steer_rx = {next}]
      BY <2>4 DEF Handed
    <3>2. \A d \in Agent : tasks'[d].back = tasks[d].back
      BY <1>1, <3>1 DEF Task
    <3>3. QED
      BY <1>1, <2>3, <3>2
  <2>5. QED
    BY <1>1, <1>3, <2>1, <2>3, <2>4 DEF Refused, Taken
<1>10. ASSUME NEW c \in Channel, MembershipRemoved(c)
       PROVE  Plain(queue') /\ \A d \in Agent : tasks'[d].back = FALSE
  BY <1>1, <1>10, PlainMethods DEF MembershipRemoved
<1>11. ASSUME NEW a \in Agent, TaskStep(a)
       PROVE  Plain(queue') /\ \A d \in Agent : tasks'[d].back = FALSE
  <2>1. queue' = queue
    BY <1>11, TaskSteps
  <2>2. PICK u \in Task : /\ tasks' = [tasks EXCEPT ![a] = u]
                          /\ u.back = tasks[a].back \/ u.back = FALSE \/ DedupMode = "Queue"
    BY <1>11, TaskSteps DEF TaskMoves
  <2>3. QED
    BY <1>1, <2>1, <2>2
<1>12. QED
  BY <1>4, <1>5, <1>6, <1>7, <1>8, <1>9, <1>10, <1>11, StepKinds

(* In Drop mode nothing is ever tried again, in whatever order turns fail,  *)
(* panic, are cancelled or expire: requeue counts no attempt and            *)
(* requeue_as_cancelled is never reached.                                   *)
THEOREM NeverTriedAgain == Spec => []DropNeverRetries
<1>1. Frugal => DropNeverRetries
  BY DEF Frugal, Plain, DropNeverRetries
<1>2. QED
  BY <1>1, FrugalInit, FrugalStep, TypedAlways, PTL DEF Spec


-----------------------------------------------------------------------------
(* One turn per channel.                                                    *)

(* Of the turns ts, the ones that work on a channel are alone on it, and    *)
(* the channel is flying.                                                   *)
Solo(flying, ts) ==
    \A a \in Agent :
        ts[a].phase # "none" /\ ts[a].ch # NoChannel =>
            /\ ts[a].ch \in flying
            /\ \A b \in Agent : ts[b].phase # "none" /\ ts[b].ch = ts[a].ch => b = a

(* Strengthening: a slot of the task map that has no turn is blank, and no  *)
(* deadline is due as long as none has passed.                              *)
Blank == \A a \in Agent : tasks[a].phase = "none" => tasks[a] = NoTask

Punctual == expiries = 0 => queue.due = {} /\ Solo(queue.in_flight, tasks)

Turns == Blank /\ Punctual

LEMMA TurnsInit == Init => Turns
BY NewQueueInv DEF Init, Turns, Blank, Punctual, Solo, NewQueue, NoTask

(* No turn starts or ends, no channel is released or taken. *)
LEMMA TurnsKept ==
    ASSUME Turns,
           \A a \in Agent : /\ tasks'[a].ch = tasks[a].ch
                            /\ tasks'[a].phase = "none" => tasks'[a] = tasks[a]
                            /\ tasks[a].phase = "none" => tasks'[a].phase = "none",
           expiries' = 0 => /\ expiries = 0
                            /\ queue.due = {} =>
                                  queue'.due = {} /\ queue'.in_flight = queue.in_flight
    PROVE  Turns'
<1>1. Blank'
  BY DEF Turns, Blank
<1>2. Punctual'
  <2>1. SUFFICES ASSUME expiries' = 0 PROVE queue'.due = {} /\ Solo(queue'.in_flight, tasks')
    BY DEF Punctual
  <2>2. /\ Solo(queue.in_flight, tasks) /\ queue'.due = {}
        /\ queue'.in_flight = queue.in_flight
    BY <2>1 DEF Turns, Punctual
  <2>3. \A a \in Agent : tasks'[a].phase # "none" => tasks[a].phase # "none"
    OBVIOUS
  <2>4. QED
    BY <2>2, <2>3 DEF Solo
<1>3. QED
  BY <1>1, <1>2 DEF Turns

LEMMA AlikeTurns ==
    ASSUME NEW ts, NEW us, TasksAlike(ts, us), NEW a \in Agent
    PROVE  /\ us[a].ch = ts[a].ch
           /\ us[a].phase = "none" => us[a] = ts[a]
           /\ ts[a].phase = "none" => us[a].phase = "none"
BY DEF TasksAlike

(* An agent that was idle has no turn. *)
LEMMA IdleBlank ==
    ASSUME Typed, Books, Turns, NEW a \in Agent, slots[a] = "idle"
    PROVE  tasks[a] = NoTask
BY DEF Books, PoolConsistent, InTaskMap, Turns, Blank

LEMMA TurnsStep == Typed /\ Books /\ Turns /\ [Next]_vars => Turns'
<1> SUFFICES ASSUME Typed, Books, Turns, [Next]_vars PROVE Turns'
  OBVIOUS
<1>1. QueueInv(queue) /\ tasks \in [Agent -> Task] /\ queue \in EventQueue
  BY DEF Typed, Shape, QueueInv
<1>2. CASE QuietStep
  <2>1. /\ TasksAlike(tasks, tasks') /\ queue'.in_flight = queue.in_flight
        /\ expiries' = 0 => expiries = 0 /\ queue'.due = queue.due
    BY <1>2, QuietSteps DEF QueueAlike
  <2>2. QED
    BY <2>1, AlikeTurns, TurnsKept
<1>3. CASE Maintain \/ DispatchNothing \/ HeartbeatFired
  <2>1. PICK q : /\ QueueInv(q) /\ q.in_flight = queue.in_flight /\ q.due = queue.due
                 /\ queue' = Expire(q)
    BY <1>3, ExpirySteps
  <2>2. queue'.due = {} /\ queue'.in_flight = queue.in_flight \ queue.due
    <3>1. Expire(q).due = {}
      BY <2>1 DEF Expire, QueueInv, EventQueue
    <3>2. QED
      BY <2>1, <3>1, ExpireInv
  <2>3. expiries' = expiries
    BY <1>3, ExpirySteps
  <2>4. CASE tasks' = tasks
    BY <2>2, <2>3, <2>4, TurnsKept
  <2>5. ASSUME NEW a \in Agent, slots[a] = "idle",
               tasks' = [tasks EXCEPT ![a] = HeartbeatTask]
        PROVE  Turns'
    <3>1. /\ tasks'[a].ch = NoChannel /\ tasks'[a].phase = "running"
          /\ \A d \in Agent \ {a} : tasks'[d] = tasks[d]
      BY <1>1, <2>5 DEF HeartbeatTask, NoTask
    <3>2. Blank'
      BY <3>1 DEF Turns, Blank
    <3>3. Punctual'
      BY <2>2, <2>3, <3>1 DEF Turns, Punctual, Solo
    <3>4. QED
      BY <3>2, <3>3 DEF Turns
  <2>6. QED
    BY <1>3, <2>4, <2>5, ExpirySteps
<1>4. CASE DispatchQueued \/ DispatchCancelled
  <2>1. PICK f, b : /\ b \in FlushBatch /\ b.ch \in Channel /\ b.ch \notin Released.in_flight
                    /\ QueueInv(f) /\ f.in_flight = Released.in_flight \cup {b.ch}
                    /\ f.due = Released.due
                    /\ Claim(f, b) \/ PoolExhausted(f, b)
    BY <1>4, Dispatches
  <2>2. f.due = {} /\ Released.in_flight = queue.in_flight \ queue.due
    <3>1. Released.due = {}
      BY <1>1 DEF Released, Expire, EventQueue
    <3>2. QED
      BY <1>1, <2>1, <3>1, ExpireInv DEF Released
  <2>3. CASE Claim(f, b)
    <3>1. PICK a \in Agent : slots[a] = "idle" /\ tasks' = [tasks EXCEPT ![a] = NewTask(b)]
      BY <2>3 DEF Claim, Idle
    <3>2. queue' = f /\ expiries' = expiries
      BY <2>3 DEF Claim, bounds
    <3>3. /\ tasks'[a].ch = b.ch /\ tasks'[a].phase = "running"
          /\ \A d \in Agent \ {a} : tasks'[d] = tasks[d]
      BY <1>1, <2>1, <3>1, NewTaskHolds
    <3>4. Blank'
      BY <3>3 DEF Turns, Blank
    <3>5. ASSUME expiries' = 0
          PROVE  queue'.due = {} /\ Solo(queue'.in_flight, tasks')
      <4>1. /\ Solo(queue.in_flight, tasks) /\ b.ch \notin queue.in_flight
            /\ queue'.in_flight = queue.in_flight \cup {b.ch}
        BY <2>1, <2>2, <3>2, <3>5 DEF Turns, Punctual
      <4>2. QED
        BY <2>2, <3>2, <3>3, <4>1 DEF Solo
    <3>6. QED
      BY <3>4, <3>5 DEF Turns, Punctual
  <2>4. CASE PoolExhausted(f, b)
    <3> DEFINE p == RequeuePreserveTimestamps(f, b)
    <3>1. /\ queue' = MarkComplete(p, b.ch) /\ tasks' = tasks /\ expiries' = expiries
      BY <2>4 DEF PoolExhausted, bounds
    <3>2. QueueInv(p) /\ p.in_flight = f.in_flight /\ p.due = f.due
      BY <2>1, RequeuePreserveInv DEF RequeuePreserveTimestamps, QueueInv, EventQueue
    <3> HIDE DEF p
    <3>3. queue'.in_flight = f.in_flight \ {b.ch} /\ queue'.due = f.due \ {b.ch}
      BY <2>1, <3>1, <3>2, MarkCompleteInv, QuietMethods
    <3>4. queue'.due = {} /\ queue'.in_flight = queue.in_flight \ queue.due
      BY <2>1, <2>2, <3>3
    <3>5. QED
      BY <3>1, <3>4, TurnsKept
  <2>5. QED
    BY <2>1, <2>3, <2>4
<1>5. ASSUME NEW a \in Agent, HandleResult(a) \/ RecoverPanicked(a)
      PROVE  Turns'
  <2>1. /\ tasks' = [tasks EXCEPT ![a] = NoTask] /\ expiries' = expiries
        /\ tasks[a].phase # "none"
    BY <1>5, EndSteps
  <2>2. PICK q : /\ QueueInv(q) /\ q.in_flight = queue.in_flight /\ q.due = queue.due
                 /\ queue' = Completed(q, tasks[a])
    BY <1>5, EndSteps
  <2>3. /\ queue'.in_flight = queue.in_flight \ {tasks[a].ch}
        /\ queue'.due = queue.due \ {tasks[a].ch}
    BY <1>1, <2>2, CompletedInv, CompletedTables
  <2>4. tasks'[a] = NoTask /\ \A d \in Agent \ {a} : tasks'[d] = tasks[d]
    BY <1>1, <2>1
  <2>5. Blank'
    BY <2>4 DEF Turns, Blank
  <2>6. ASSUME expiries' = 0
        PROVE  queue'.due = {} /\ Solo(queue'.in_flight, tasks')
    <3>1. queue.due = {} /\ Solo(queue.in_flight, tasks)
      BY <2>1, <2>6 DEF Turns, Punctual
    <3>2. QED
      BY <2>1, <2>3, <2>4, <3>1 DEF Solo, NoTask
  <2>7. QED
    BY <2>5, <2>6 DEF Turns, Punctual
<1>6. ASSUME NEW k \in acks, HandleSteerAck(k)
      PROVE  Turns'
  <2>1. /\ k.ch \in Channel /\ k.event \in Event
        /\ TasksAlike(tasks, tasks') /\ expiries' = expiries
    BY <1>6, AckSteps
  <2>2. \/ \E q : /\ QueueInv(q) /\ q.in_flight = queue.in_flight
                  /\ q.due = queue.due \ {k.ch}
                  /\ queue' = RemoveEvent(q, k.ch, k.event)
        \/ queue' = ReleaseNativeSteer(queue, k.ch, k.event)
    BY <1>6, AckSteps
  <2>3. queue.due = {} => queue'.due = {}
    <3>1. \A q : QueueInv(q) => RemoveEvent(q, k.ch, k.event).due = q.due
      BY DEF RemoveEvent, QueueInv, EventQueue
    <3>2. ReleaseNativeSteer(queue, k.ch, k.event).due = queue.due
      BY <1>1 DEF ReleaseNativeSteer, EventQueue
    <3>3. QED
      BY <2>2, <3>1, <3>2
  <2>4. queue'.in_flight = queue.in_flight
    BY <1>1, <2>1, <2>2, RemoveEventInv, ReleaseNativeSteerInv
  <2>5. QED
    BY <2>1, <2>3, <2>4, AlikeTurns, TurnsKept
<1>7. ASSUME NEW c \in Channel,
             EventDropped(c) \/ EventQueued(c) \/ EventSteered(c) \/ EventSignals(c)
      PROVE  Turns'
  <2>1. next \in Event /\ expiries' = expiries /\ (Refused(c) \/ Taken(c) \/ Handed(c))
    BY <1>7, ArrivalSteps
  <2>2. LET p == Push(queue, c, next)
        IN  QueueInv(p) /\ p.in_flight = queue.in_flight /\ p.due = queue.due
    BY <1>1, <2>1, PushInv DEF Push, EventQueue
  <2>3. LET p == MarkNativeSteerPending(Push(queue, c, next), c, next)
        IN  p.in_flight = queue.in_flight /\ p.due = queue.due
    <3> DEFINE p == Push(queue, c, next)
    <3> HIDE DEF p
    <3>1. QueueInv(p) /\ p.in_flight = queue.in_flight /\ p.due = queue.due
      BY <2>2 DEF p
    <3>2. MarkNativeSteerPending(p, c, next).due = p.due
      BY <3>1 DEF MarkNativeSteerPending, QueueInv, EventQueue
    <3>3. QED
      BY <2>1, <3>1, <3>2, MarkNativeSteerPendingInv DEF p
  <2>4. queue'.in_flight = queue.in_flight /\ queue'.due = queue.due
    BY <2>1, <2>2, <2>3 DEF Refused, Taken, Handed
  <2>5. CASE Handed(c)
    <3>1. PICK a \in Agent : /\ tasks[a].phase = "running"
                             /\ tasks' = [tasks EXCEPT ![a].steer_rx = {next}]
      BY <2>5 DEF Handed
    <3>2. \A d \in Agent : /\ tasks'[d].ch = tasks[d].ch
                           /\ tasks'[d].phase = tasks[d].phase
                           /\ tasks[d].phase = "none" => tasks'[d] = tasks[d]
      BY <1>1, <3>1 DEF Task
    <3>3. QED
      BY <2>1, <2>4, <3>2, TurnsKept
  <2>6. CASE Refused(c) \/ Taken(c)
    <3>1. TasksAlike(tasks, tasks')
      BY <2>6 DEF Refused, Taken, TasksAlike
    <3>2. QED
      BY <2>1, <2>4, <3>1, AlikeTurns, TurnsKept
  <2>7. QED
    BY <2>1, <2>5, <2>6
<1>8. ASSUME NEW c \in Channel, MembershipRemoved(c)
      PROVE  Turns'
  <2>1. queue' = DrainChannel(queue, c) /\ tasks' = tasks /\ expiries' = expiries
    BY <1>8 DEF MembershipRemoved, bounds
  <2>2. queue'.in_flight = queue.in_flight /\ queue'.due = queue.due
    BY <1>1, <2>1 DEF DrainChannel, EventQueue
  <2>3. QED
    BY <2>1, <2>2, TurnsKept
<1>9. ASSUME NEW a \in Agent, TaskStep(a)
      PROVE  Turns'
  <2>1. queue' = queue /\ expiries' = expiries /\ tasks[a].phase = "running"
    BY <1>9, TaskSteps
  <2>2. PICK u \in Task : /\ tasks' = [tasks EXCEPT ![a] = u]
                          /\ u.ch = tasks[a].ch /\ u.phase # "none"
    BY <1>9, TaskSteps DEF TaskMoves
  <2>3. \A d \in Agent : /\ tasks'[d].ch = tasks[d].ch
                         /\ tasks'[d].phase = "none" => tasks'[d] = tasks[d]
                         /\ tasks[d].phase = "none" => tasks'[d].phase = "none"
    BY <1>1, <2>1, <2>2
  <2>4. QED
    BY <2>1, <2>3, TurnsKept
<1>10. QED
  BY <1>2, <1>3, <1>4, <1>5, <1>6, <1>7, <1>8, <1>9, StepKinds

LEMMA TurnsAlways == Spec => []Turns
BY TurnsInit, TurnsStep, TypedAlways, BooksAlways, PTL DEF Spec

(* As long as no in-flight deadline has passed, a channel has at most one   *)
(* turn, and it is in flight until that turn's result is handled: two       *)
(* agents never work on the same channel, however steers, cancellations,    *)
(* panics and respawns interleave with dispatch.                            *)
THEOREM OneTurnEach == Spec => []OneTurnPerChannel
<1>1. Turns => OneTurnPerChannel
  BY DEF Turns, Punctual, Solo, OneTurnPerChannel, TasksOn, InTaskMap
<1>2. QED
  BY <1>1, TurnsAlways, PTL


-----------------------------------------------------------------------------
(* The custody of events: the inductive invariant.                          *)

(* Every event that arrived is in one place, or its story has ended. *)
Safekeeping == Kept(queue, tasks, settled, interrupted, Arrived)

(* Somebody still answers for a steer of the event. *)
Steering(e) ==
    \/ \E a \in Agent : e \in Steers(tasks[a])
    \/ \E k \in acks : k.event = e

(* Only a running turn holds steers, and one holder answers for an event.   *)
Tokens ==
    /\ \A a \in Agent : /\ Steers(tasks[a]) \subseteq Arrived
                        /\ tasks[a].steer_rx \cap tasks[a].pending_steer = {}
                        /\ tasks[a].phase # "running" => Steers(tasks[a]) = {}
    /\ \A a, b \in Agent : a # b => Steers(tasks[a]) \cap Steers(tasks[b]) = {}
    /\ \A k \in acks : /\ k.event \in Arrived
                       /\ \A a \in Agent : k.event \notin Steers(tasks[a])
    /\ \A k, l \in acks : k.event = l.event => k = l

(* A withheld event has somebody who answers for it. *)
Awaited ==
    \A c \in Channel : \A e \in InWithheld(queue, c) :
        \/ \E a \in Agent : tasks[a].ch = c /\ e \in Steers(tasks[a])
        \/ \E k \in acks : k.ch = c /\ k.event = e

(* While no deadline has passed, what is settled is held nowhere, and an    *)
(* event that somebody answers for is nowhere but in the side table.        *)
Timely ==
    expiries = 0 =>
        /\ Fresh(queue, tasks, settled)
        /\ \A e : Steering(e) => ~Lies(queue, tasks, e)

Custody == Safekeeping /\ Tokens /\ Awaited /\ Timely

(* The summary of a step that hands out no steer and answers none. *)
Ordinary ==
    /\ Safekeeping'
    /\ expiries' = 0 => expiries = 0
    /\ expiries' = 0 /\ queue.due = {} =>
          /\ Fresh(queue, tasks, settled) => Fresh(queue, tasks, settled)'
          /\ \A e : Lies(queue', tasks', e) => Lies(queue, tasks, e) \/ e \notin Arrived
    /\ \A c \in Channel : InWithheld(queue', c) \subseteq InWithheld(queue, c)
    /\ acks' = acks /\ Arrived \subseteq Arrived'
    /\ \A a \in Agent :
          /\ tasks'[a].steer_rx = tasks[a].steer_rx
          /\ tasks'[a].pending_steer = tasks[a].pending_steer
          /\ Steers(tasks[a]) # {} =>
                tasks'[a].ch = tasks[a].ch /\ tasks'[a].phase = tasks[a].phase

LEMMA OrdinaryKeeps ==
    ASSUME Turns, Custody, Ordinary
    PROVE  Custody'
<1>1. \A a \in Agent : Steers(tasks'[a]) = Steers(tasks[a])
  BY DEF Ordinary, Steers
<1>2. acks' = acks /\ Arrived \subseteq Arrived'
  BY DEF Ordinary
<1>3. Tokens'
  <2>1. \A a \in Agent : /\ Steers(tasks'[a]) \subseteq Arrived'
                         /\ tasks'[a].steer_rx \cap tasks'[a].pending_steer = {}
                         /\ tasks'[a].phase # "running" => Steers(tasks'[a]) = {}
    BY <1>1, <1>2 DEF Ordinary, Custody, Tokens
  <2>2. /\ \A a, b \in Agent : a # b => Steers(tasks'[a]) \cap Steers(tasks'[b]) = {}
        /\ \A k \in acks' : /\ k.event \in Arrived'
                            /\ \A a \in Agent : k.event \notin Steers(tasks'[a])
        /\ \A k, l \in acks' : k.event = l.event => k = l
    BY <1>1, <1>2 DEF Custody, Tokens
  <2>3. QED
    BY <2>1, <2>2 DEF Tokens
<1>4. Awaited'
  <2>1. \A c \in Channel : InWithheld(queue', c) \subseteq InWithheld(queue, c)
    BY DEF Ordinary
  <2>2. \A a \in Agent : Steers(tasks[a]) # {} => tasks'[a].ch = tasks[a].ch
    BY DEF Ordinary
  <2>3. QED
    BY <1>1, <1>2, <2>1, <2>2 DEF Custody, Awaited
<1>5. Timely'
  <2>1. SUFFICES ASSUME expiries' = 0
                 PROVE  /\ Fresh(queue, tasks, settled)'
                        /\ \A e : Steering(e)' => ~Lies(queue', tasks', e)
    BY DEF Timely
  <2>2. /\ queue.due = {} /\ Fresh(queue, tasks, settled)
        /\ \A e : Steering(e) => ~Lies(queue, tasks, e)
    BY <2>1 DEF Ordinary, Turns, Punctual, Custody, Timely
  <2>3. /\ Fresh(queue, tasks, settled)'
        /\ \A e : Lies(queue', tasks', e) => Lies(queue, tasks, e) \/ e \notin Arrived
    BY <2>1, <2>2 DEF Ordinary
  <2>4. \A e : Steering(e)' => Steering(e) /\ e \in Arrived
    BY <1>1, <1>2 DEF Steering, Custody, Tokens
  <2>5. QED
    BY <2>2, <2>3, <2>4
<1>6. QED
  BY <1>3, <1>4, <1>5 DEF Custody, Ordinary

LEMMA CustodyInit == Init => Custody
<1> SUFFICES ASSUME Init PROVE Custody
  OBVIOUS
<1>1. /\ queue = NewQueue /\ settled = {} /\ interrupted = {} /\ acks = {} /\ next = 1
      /\ \A a \in Agent : tasks[a] = NoTask
  BY DEF Init
<1>2. \A c \in Channel : /\ queue.queues[c] = <<>> /\ queue.cancelled[c] = <<>>
                         /\ queue.withheld[c] = <<>>
  BY <1>1 DEF NewQueue
<1>3. \A c \in Channel : /\ Neat(queue, c) /\ Pending(queue, c) = {}
                         /\ InCancelled(queue, c) = {} /\ InWithheld(queue, c) = {}
  BY <1>2, NothingIn DEF Neat, Pending, InQueue, InCancelled, InWithheld
<1>4. Arrived = {}
  BY <1>1 DEF Arrived
<1>5. Safekeeping
  <2>1. Apart(queue, tasks)
    BY <1>1, <1>3, NoTaskHolds DEF Apart
  <2>2. Accounted(queue, tasks, settled, interrupted, Arrived)
    BY <1>1, <1>3, <1>4, NoTaskHolds DEF Accounted
  <2>3. QED
    BY <2>1, <2>2 DEF Safekeeping, Kept
<1>6. \A a \in Agent : Steers(tasks[a]) = {}
  BY <1>1, NoTaskHolds DEF Steers
<1>7. Tokens
  BY <1>1, <1>6, NoTaskHolds DEF Tokens
<1>8. Awaited
  BY <1>3 DEF Awaited
<1>9. Timely
  BY <1>1, <1>6 DEF Timely, Fresh, Steering
<1>10. QED
  BY <1>5, <1>7, <1>8, <1>9 DEF Custody

LEMMA ArrivedSame == next' = next => Arrived' = Arrived
BY DEF Arrived

LEMMA ArrivedNext ==
    ASSUME Typed, next \in Event, next' = next + 1
    PROVE  Arrived' = Arrived \cup {next} /\ next \notin Arrived
<1>1. next \in Nat
  BY DEF Event
<1>2. QED
  BY <1>1 DEF Arrived, Event

(* What the steps do to the steers of turns that are alike. *)
LEMMA AlikeSteers ==
    ASSUME NEW ts, NEW us, TasksAlike(ts, us), NEW a \in Agent
    PROVE  /\ us[a].steer_rx = ts[a].steer_rx
           /\ us[a].pending_steer = ts[a].pending_steer
           /\ us[a].ch = ts[a].ch /\ us[a].phase = ts[a].phase
BY DEF TasksAlike

LEMMA QuietCustody ==
    ASSUME Typed, Turns, Custody, QuietStep
    PROVE  Custody'
<1>1. /\ SameTables(queue, queue') /\ SameBatches(tasks, tasks')
      /\ UNCHANGED <<acks, next, settled, interrupted>>
      /\ expiries' = 0 => expiries = 0
      /\ TasksAlike(tasks, tasks')
  BY QuietSteps, AlikeBatches DEF QueueAlike
<1>2. Arrived' = Arrived
  BY <1>1, ArrivedSame
<1>3. Safekeeping'
  <2>1. Kept(queue', tasks', settled, interrupted, Arrived)
    BY <1>1, NothingMoves DEF Custody, Safekeeping
  <2>2. QED
    BY <1>1, <1>2, <2>1 DEF Safekeeping
<1>4. Fresh(queue, tasks, settled) => Fresh(queue, tasks, settled)'
  BY <1>1, NothingMoves
<1>5. \A e : Lies(queue', tasks', e) => Lies(queue, tasks, e)
  BY <1>1, LooseSame DEF NoLooser
<1>6. \A c \in Channel : InWithheld(queue', c) \subseteq InWithheld(queue, c)
  BY <1>1, SameAtHolds DEF SameTables
<1>7. Ordinary
  BY <1>1, <1>2, <1>3, <1>4, <1>5, <1>6, AlikeSteers DEF Ordinary
<1>8. QED
  BY <1>7, OrdinaryKeeps


LEMMA SameTablesTo ==
    ASSUME NEW q, NEW r, NEW s, SameTables(q, r), SameTables(r, s)
    PROVE  SameTables(q, s)
BY DEF SameTables, SameAt

LEMMA ExpiryCustody ==
    ASSUME Typed, Books, Turns, Custody, Maintain \/ DispatchNothing \/ HeartbeatFired
    PROVE  Custody'
<1>1. PICK q : /\ QueueInv(q) /\ SameTables(queue, q) /\ q.due = queue.due
               /\ queue' = Expire(q)
               /\ settled' = settled \cup ExpiryOverflow(q)
  BY ExpirySteps
<1>2. UNCHANGED <<acks, next, interrupted, expiries>>
  BY ExpirySteps
<1>3. \/ tasks' = tasks
      \/ \E a \in Agent : /\ tasks[a] = NoTask
                          /\ tasks' = [tasks EXCEPT ![a] = HeartbeatTask]
  BY ExpirySteps, IdleBlank
<1>4. /\ SameBatches(tasks, tasks')
      /\ \A a \in Agent :
          /\ tasks'[a].steer_rx = tasks[a].steer_rx
          /\ tasks'[a].pending_steer = tasks[a].pending_steer
          /\ Steers(tasks[a]) # {} =>
                tasks'[a].ch = tasks[a].ch /\ tasks'[a].phase = tasks[a].phase
  <2>1. CASE tasks' = tasks
    BY <2>1 DEF SameBatches
  <2>2. ASSUME NEW a \in Agent, tasks[a] = NoTask,
               tasks' = [tasks EXCEPT ![a] = HeartbeatTask]
        PROVE  <1>4!:
    <3>1. tasks'[a] = HeartbeatTask /\ \A d \in Agent \ {a} : tasks'[d] = tasks[d]
      BY <2>2 DEF Typed, Shape
    <3>2. /\ HeartbeatTask.events = <<>> /\ HeartbeatTask.cancelled = <<>>
          /\ HeartbeatTask.steer_rx = {} /\ HeartbeatTask.pending_steer = {}
      BY DEF HeartbeatTask, NoTask
    <3>3. SameBatches(tasks, tasks')
      BY <2>2, <3>1, <3>2, NoTaskHolds DEF SameBatches
    <3>4. Steers(tasks[a]) = {}
      BY <2>2, NoTaskHolds DEF Steers
    <3>5. QED
      BY <2>2, <3>1, <3>2, <3>3, <3>4, NoTaskHolds
  <2>3. QED
    BY <1>3, <2>1, <2>2
<1>5. SameBatches(tasks, tasks) /\ SameTables(queue', queue')
  BY DEF SameBatches, SameTables, SameAt
<1>6. /\ Kept(q, tasks, settled, interrupted, Arrived)
      /\ Fresh(queue, tasks, settled) => Fresh(q, tasks, settled)
  BY <1>1, <1>5, NothingMoves DEF Custody, Safekeeping
<1>7. /\ Kept(queue', tasks, settled', interrupted, Arrived)
      /\ \A c \in Channel : InWithheld(queue', c) \subseteq InWithheld(q, c)
      /\ q.due = {} => SameTables(q, queue') /\ ExpiryOverflow(q) = {}
  BY <1>1, <1>6, ExpireKeeps
<1>8. Arrived' = Arrived
  BY <1>2, ArrivedSame
<1>9. Safekeeping'
  <2>1. Kept(queue', tasks', settled', interrupted, Arrived)
    BY <1>4, <1>5, <1>7, NothingMoves
  <2>2. QED
    BY <1>2, <1>8, <2>1 DEF Safekeeping
<1>10. ASSUME queue.due = {}
       PROVE  /\ Fresh(queue, tasks, settled) => Fresh(queue, tasks, settled)'
              /\ \A e : Lies(queue', tasks', e) => Lies(queue, tasks, e)
  <2>1. SameTables(queue, queue') /\ settled' = settled
    BY <1>1, <1>7, <1>10, SameTablesTo
  <2>2. QED
    BY <1>4, <2>1, NothingMoves, LooseSame DEF NoLooser
<1>11. \A c \in Channel : InWithheld(queue', c) \subseteq InWithheld(queue, c)
  BY <1>1, <1>7, SameAtHolds DEF SameTables
<1>12. Ordinary
  BY <1>2, <1>4, <1>8, <1>9, <1>10, <1>11 DEF Ordinary
<1>13. QED
  BY <1>12, OrdinaryKeeps

LEMMA DispatchCustody ==
    ASSUME Typed, Books, Turns, Custody, DispatchQueued \/ DispatchCancelled
    PROVE  Custody'
<1> DEFINE p == Released
           gone == settled \cup ExpiryOverflow(queue)
<1>1. QueueInv(queue) /\ tasks \in [Agent -> Task]
  BY DEF Typed, Shape
<1>2. QueueInv(p) /\ p = Expire(queue)
  BY <1>1, ExpireInv DEF Released
<1> HIDE DEF p
<1>3. /\ Kept(p, tasks, gone, interrupted, Arrived)
      /\ \A c \in Channel : InWithheld(p, c) \subseteq InWithheld(queue, c)
      /\ queue.due = {} => SameTables(queue, p) /\ ExpiryOverflow(queue) = {}
  BY <1>1, <1>2, ExpireKeeps DEF Custody, Safekeeping
<1>4. PICK f, b : /\ b \in FlushBatch /\ QueueInv(f) /\ Flushed(p, f, b)
                  /\ Claim(f, b) \/ PoolExhausted(f, b)
  <2>1. \A c \in Channel : Neat(p, c)
    BY <1>3 DEF Kept, Apart
  <2>2. QED
    BY <2>1, Dispatches DEF p
<1>5. ASSUME queue.due = {}
      PROVE  /\ Fresh(queue, tasks, settled) => Fresh(p, tasks, gone)
             /\ NoLooser(queue, tasks, p, tasks)
  <2>1. SameTables(queue, p) /\ gone = settled /\ SameBatches(tasks, tasks)
    BY <1>3, <1>5 DEF SameBatches
  <2>2. QED
    BY <2>1, NothingMoves, LooseSame
<1> HIDE DEF gone
<1>6. \A c \in Channel : InWithheld(f, c) = InWithheld(p, c)
  BY <1>4 DEF Flushed, InWithheld
<1>7. CASE Claim(f, b)
  <2>1. PICK a \in Agent : slots[a] = "idle" /\ tasks' = [tasks EXCEPT ![a] = NewTask(b)]
    BY <1>7 DEF Claim, Idle
  <2>2. /\ queue' = f /\ settled' = gone
        /\ UNCHANGED <<acks, next, interrupted, expiries>>
    BY <1>7 DEF Claim, loopVars, bounds, gone
  <2>3. tasks[a] = NoTask
    BY <2>1, IdleBlank
  <2>4. /\ Kept(f, tasks', gone, interrupted, Arrived)
        /\ Fresh(p, tasks, gone) => Fresh(f, tasks', gone)
        /\ NoLooser(p, tasks, f, tasks')
    BY <1>1, <1>3, <1>4, <2>1, <2>3, ClaimKeeps
  <2>5. \A d \in Agent :
          /\ tasks'[d].steer_rx = tasks[d].steer_rx
          /\ tasks'[d].pending_steer = tasks[d].pending_steer
          /\ Steers(tasks[d]) # {} =>
                tasks'[d].ch = tasks[d].ch /\ tasks'[d].phase = tasks[d].phase
    <3>1. tasks'[a] = NewTask(b) /\ \A d \in Agent \ {a} : tasks'[d] = tasks[d]
      BY <1>1, <2>1
    <3>2. Steers(tasks[a]) = {}
      BY <2>3, NoTaskHolds DEF Steers
    <3>3. /\ NewTask(b).steer_rx = {} /\ NewTask(b).pending_steer = {}
          /\ tasks[a].steer_rx = {} /\ tasks[a].pending_steer = {}
      BY <1>4, <2>3, NoTaskHolds, NewTaskHolds
    <3>4. QED
      BY <3>1, <3>2, <3>3
  <2>6. Arrived' = Arrived
    BY <2>2, ArrivedSame
  <2>7. Safekeeping'
    BY <2>2, <2>4, <2>6 DEF Safekeeping
  <2>8. queue.due = {} =>
          /\ Fresh(queue, tasks, settled) => Fresh(queue, tasks, settled)'
          /\ \A e : Lies(queue', tasks', e) => Lies(queue, tasks, e)
    BY <1>5, <2>2, <2>4 DEF NoLooser
  <2>9. \A c \in Channel : InWithheld(queue', c) \subseteq InWithheld(queue, c)
    BY <1>3, <1>6, <2>2
  <2>10. Ordinary
    BY <2>2, <2>5, <2>6, <2>7, <2>8, <2>9 DEF Ordinary
  <2>11. QED
    BY <2>10, OrdinaryKeeps
<1>8. CASE PoolExhausted(f, b)
  <2> DEFINE r == MarkComplete(RequeuePreserveTimestamps(f, b), b.ch)
             later == gone \cup Trimmed(PutBack(f, b))
  <2>1. /\ queue' = r /\ settled' = later /\ tasks' = tasks
        /\ UNCHANGED <<acks, next, interrupted, expiries>>
    BY <1>8 DEF PoolExhausted, loopVars, bounds, gone
  <2>2. /\ Kept(r, tasks, later, interrupted, Arrived)
        /\ Fresh(p, tasks, gone) => Fresh(r, tasks, later)
        /\ NoLooser(p, tasks, r, tasks)
        /\ r.withheld = p.withheld
    BY <1>3, <1>4, ExhaustedKeeps
  <2> HIDE DEF r, later
  <2>3. Arrived' = Arrived
    BY <2>1, ArrivedSame
  <2>4. Safekeeping'
    BY <2>1, <2>2, <2>3 DEF Safekeeping
  <2>5. queue.due = {} =>
          /\ Fresh(queue, tasks, settled) => Fresh(queue, tasks, settled)'
          /\ \A e : Lies(queue', tasks', e) => Lies(queue, tasks, e)
    BY <1>5, <2>1, <2>2 DEF NoLooser
  <2>6. \A c \in Channel : InWithheld(queue', c) \subseteq InWithheld(queue, c)
    BY <1>3, <2>1, <2>2 DEF InWithheld
  <2>7. Ordinary
    BY <2>1, <2>3, <2>4, <2>5, <2>6 DEF Ordinary
  <2>8. QED
    BY <2>7, OrdinaryKeeps
<1>9. QED
  BY <1>4, <1>7, <1>8

LEMMA EndCustody ==
    ASSUME Typed, Turns, Custody, NEW a \in Agent, HandleResult(a) \/ RecoverPanicked(a)
    PROVE  Custody'
<1> DEFINE t == tasks[a]
<1>1. QueueInv(queue) /\ tasks \in [Agent -> Task] /\ t \in Task
  BY DEF Typed, Shape
<1>2. /\ t.phase # "running"
      /\ tasks' = [tasks EXCEPT ![a] = NoTask]
      /\ UNCHANGED <<acks, next, expiries>>
  BY EndSteps
<1>3. PICK q : /\ QueueInv(q) /\ queue' = Completed(q, t)
               /\ BatchCancelled(t, q) \/ BatchRetried(t, q) \/ BatchGone(t, q)
  BY EndSteps
<1>4. SameTables(q, queue') /\ SameBatches(tasks', tasks')
  BY <1>1, <1>3, CompletedTables DEF SameBatches
<1>5. Kept(queue, tasks, settled, interrupted, Arrived)
  BY DEF Custody, Safekeeping
<1>6. /\ Kept(q, tasks', settled', interrupted', Arrived)
      /\ Fresh(queue, tasks, settled) => Fresh(q, tasks', settled')
      /\ NoLooser(queue, tasks, q, tasks')
      /\ q.withheld = queue.withheld \/ SameTables(queue, q)
  <2>1. CASE BatchCancelled(t, q)
    <3>1. PICK reason : q = RequeueAsCancelled(queue, BatchOf(t), reason)
      BY <2>1 DEF BatchCancelled
    <3>2. /\ t.ch \in Channel /\ settled' = settled
          /\ interrupted' = interrupted \cup EventsOf(t)
      BY <2>1 DEF BatchCancelled
    <3>3. q.withheld = queue.withheld
      BY <1>1, <3>1 DEF RequeueAsCancelled, QueueInv, EventQueue
    <3>4. QED
      BY <1>1, <1>2, <1>5, <3>1, <3>2, <3>3, CancelledKeeps
  <2>2. CASE BatchRetried(t, q)
    <3>1. /\ t.ch \in Channel /\ q = Requeue(queue, BatchOf(t))
          /\ ~Exhausted(queue, BatchOf(t))
          /\ settled' = settled \cup Trimmed(PutBack(queue, BatchOf(t)))
          /\ interrupted' = interrupted
      BY <2>2 DEF BatchRetried
    <3>2. BatchOf(t) \in FlushBatch /\ BatchOf(t).ch = t.ch
      BY <1>1, <3>1, BatchOfType DEF BatchOf
    <3>3. /\ q.queues = [queue.queues EXCEPT ![t.ch] = TrimBack(PutBack(queue, BatchOf(t)))]
          /\ q.cancelled = queue.cancelled /\ q.withheld = queue.withheld
      BY <1>1, <3>1, <3>2, RequeueTables
    <3>4. QED
      BY <1>1, <1>2, <1>5, <3>1, <3>3, RetriedKeeps
  <2>3. CASE BatchGone(t, q)
    <3>1. /\ SameTables(queue, q) /\ settled' = settled \cup EventsOf(t)
          /\ interrupted' = interrupted
      BY <2>3 DEF BatchGone
    <3>2. QED
      BY <1>1, <1>2, <1>5, <3>1, TurnGone, GoneLooser
  <2>4. QED
    BY <1>3, <2>1, <2>2, <2>3
<1>7. Arrived' = Arrived
  BY <1>2, ArrivedSame
<1>8. Safekeeping'
  <2>1. Kept(queue', tasks', settled', interrupted', Arrived)
    BY <1>4, <1>6, NothingMoves
  <2>2. QED
    BY <1>7, <2>1 DEF Safekeeping
<1>9. Fresh(queue, tasks, settled) => Fresh(queue, tasks, settled)'
  BY <1>4, <1>6, NothingMoves
<1>10. \A e : Lies(queue', tasks', e) => Lies(queue, tasks, e)
  BY <1>4, <1>6, LooseSame DEF NoLooser
<1>11. \A c \in Channel : InWithheld(queue', c) \subseteq InWithheld(queue, c)
  BY <1>4, <1>6 DEF InWithheld, SameTables, SameAt
<1>12. \A d \in Agent :
          /\ tasks'[d].steer_rx = tasks[d].steer_rx
          /\ tasks'[d].pending_steer = tasks[d].pending_steer
          /\ Steers(tasks[d]) # {} =>
                tasks'[d].ch = tasks[d].ch /\ tasks'[d].phase = tasks[d].phase
  <2>1. Steers(tasks[a]) = {}
    BY <1>2 DEF Custody, Tokens
  <2>2. tasks[a].steer_rx = {} /\ tasks[a].pending_steer = {}
    BY <2>1 DEF Steers
  <2>3. tasks'[a] = NoTask /\ \A d \in Agent \ {a} : tasks'[d] = tasks[d]
    BY <1>1, <1>2
  <2>4. QED
    BY <2>1, <2>2, <2>3, NoTaskHolds
<1>13. Ordinary
  BY <1>2, <1>7, <1>8, <1>9, <1>10, <1>11, <1>12 DEF Ordinary
<1>14. QED
  BY <1>13, OrdinaryKeeps


LEMMA ArrivalCustody ==
    ASSUME Typed, Turns, Custody, NEW c \in Channel, next \in Event, next' = next + 1,
           UNCHANGED <<acks, interrupted, expiries>>, Refused(c) \/ Taken(c)
    PROVE  Custody'
<1>1. QueueInv(queue)
  BY DEF Typed
<1>2. Arrived' = Arrived \cup {next} /\ next \notin Arrived
  BY ArrivedNext
<1>3. TasksAlike(tasks, tasks') /\ SameBatches(tasks, tasks') /\ SameTables(queue', queue')
  BY AlikeBatches DEF Refused, Taken, TasksAlike, SameTables, SameAt
<1>4. \/ queue' = queue /\ settled' = settled \cup {next}
      \/ queue' = Push(queue, c, next) /\ settled' = settled \cup PushDrops(c)
  BY DEF Refused, Taken
<1>5. Kept(queue, tasks, settled, interrupted, Arrived)
  BY DEF Custody, Safekeeping
<1>6. /\ Kept(queue', tasks, settled', interrupted, Arrived \cup {next})
      /\ Fresh(queue, tasks, settled) => Fresh(queue', tasks, settled')
      /\ \A x : Lies(queue', tasks, x) => Lies(queue, tasks, x) \/ x = next
  <2> DEFINE r == queue'
             later == settled'
  <2>1. PushDrops(c) = Crowded(queue, c)
    BY DEF PushDrops, Crowded
  <2>2. Admits(queue, c, next, r, settled, later)
    BY <1>4, <2>1 DEF r, later, Admits
  <2> HIDE DEF r, later
  <2>3. /\ Kept(r, tasks, later, interrupted, Arrived \cup {next})
        /\ Fresh(queue, tasks, settled) => Fresh(r, tasks, later)
        /\ \A x : Lies(r, tasks, x) => Lies(queue, tasks, x) \/ x = next
    BY <1>1, <1>2, <1>5, <2>2, ArrivalKeeps
  <2>4. QED
    BY <2>3 DEF r, later
<1>7. Safekeeping'
  <2>1. Kept(queue', tasks', settled', interrupted, Arrived \cup {next})
    BY <1>3, <1>6, NothingMoves
  <2>2. QED
    BY <1>2, <2>1 DEF Safekeeping
<1>8. Fresh(queue, tasks, settled) => Fresh(queue, tasks, settled)'
  BY <1>3, <1>6, NothingMoves
<1>9. \A e : Lies(queue', tasks', e) => Lies(queue, tasks, e) \/ e \notin Arrived
  BY <1>2, <1>3, <1>6, LooseSame DEF NoLooser
<1>10. \A d \in Channel : InWithheld(queue', d) \subseteq InWithheld(queue, d)
  <2>1. Push(queue, c, next).withheld = queue.withheld
    BY <1>1 DEF Push, QueueInv, EventQueue
  <2>2. QED
    BY <1>4, <2>1 DEF InWithheld
<1>11. Ordinary
  BY <1>2, <1>3, <1>7, <1>8, <1>9, <1>10, AlikeSteers DEF Ordinary
<1>12. QED
  BY <1>11, OrdinaryKeeps

LEMMA LeavingCustody ==
    ASSUME Typed, Turns, Custody, NEW c \in Channel, MembershipRemoved(c)
    PROVE  Custody'
<1>1. /\ queue' = DrainChannel(queue, c) /\ settled' = settled \cup Pending(queue, c)
      /\ UNCHANGED <<tasks, acks, next, interrupted, expiries>>
  BY DEF MembershipRemoved, bounds
<1>2. QueueInv(queue) /\ Kept(queue, tasks, settled, interrupted, Arrived)
  BY DEF Typed, Custody, Safekeeping
<1>3. /\ Kept(queue', tasks, settled', interrupted, Arrived)
      /\ Fresh(queue, tasks, settled) => Fresh(queue', tasks, settled')
      /\ NoLooser(queue, tasks, queue', tasks)
      /\ \A d \in Channel : InWithheld(queue', d) \subseteq InWithheld(queue, d)
  BY <1>1, <1>2, DrainKeeps
<1>4. Arrived' = Arrived
  BY <1>1, ArrivedSame
<1>5. Safekeeping'
  BY <1>1, <1>3, <1>4 DEF Safekeeping
<1>6. Ordinary
  BY <1>1, <1>3, <1>4, <1>5 DEF Ordinary, NoLooser
<1>7. QED
  BY <1>6, OrdinaryKeeps

(* A withheld event lies nowhere else. *)
LEMMA WithheldOnly ==
    ASSUME NEW q, NEW ts, Apart(q, ts), NEW c \in Channel, NEW e \in InWithheld(q, c)
    PROVE  ~Lies(q, ts, e)
<1>1. e \in Pending(q, c) /\ e \notin Loose(q, c)
  BY DEF Apart, Neat, Pending, Loose
<1>2. \A d \in Channel : d # c => e \notin Loose(q, d)
  BY <1>1 DEF Apart, Pending, Loose
<1>3. \A a \in Agent : e \notin EventsOf(ts[a])
  BY <1>1 DEF Apart
<1>4. QED
  BY <1>1, <1>2, <1>3 DEF Lies

LEMMA HandedCustody ==
    ASSUME Typed, Custody, NEW c \in Channel, next \in Event, next' = next + 1,
           UNCHANGED <<acks, interrupted, expiries>>, Handed(c)
    PROVE  Custody'
<1>1. QueueInv(queue) /\ tasks \in [Agent -> Task]
  BY DEF Typed, Shape
<1>2. Arrived' = Arrived \cup {next} /\ next \notin Arrived
  BY ArrivedNext
<1>3. PICK a \in Agent :
         /\ tasks[a].ch = c /\ tasks[a].phase = "running" /\ tasks[a].steer_rx = {}
         /\ tasks' = [tasks EXCEPT ![a].steer_rx = {next}]
  BY DEF Handed
<1>4. /\ queue' = MarkNativeSteerPending(Push(queue, c, next), c, next)
      /\ settled' = settled \cup PushDrops(c)
  BY DEF Handed
<1>5. /\ \A d \in Agent : /\ tasks'[d].events = tasks[d].events
                          /\ tasks'[d].cancelled = tasks[d].cancelled
                          /\ tasks'[d].ch = tasks[d].ch /\ tasks'[d].phase = tasks[d].phase
                          /\ tasks'[d].pending_steer = tasks[d].pending_steer
      /\ \A d \in Agent \ {a} : tasks'[d] = tasks[d]
      /\ tasks'[a].steer_rx = {next}
  BY <1>1, <1>3 DEF Task
<1>6. SameBatches(tasks, tasks') /\ SameTables(queue', queue')
  BY <1>5 DEF SameBatches, SameTables, SameAt
<1>7. Kept(queue, tasks, settled, interrupted, Arrived)
  BY DEF Custody, Safekeeping
<1>8. /\ Kept(queue', tasks, settled', interrupted, Arrived \cup {next})
      /\ Fresh(queue, tasks, settled) => Fresh(queue', tasks, settled')
      /\ \A x : Lies(queue', tasks, x) => Lies(queue, tasks, x) \/ x = next
  <2> DEFINE r == queue'
             later == settled'
  <2>1. PushDrops(c) = Crowded(queue, c)
    BY DEF PushDrops, Crowded
  <2>2. Admits(queue, c, next, r, settled, later)
    BY <1>4, <2>1 DEF r, later, Admits
  <2> HIDE DEF r, later
  <2>3. /\ Kept(r, tasks, later, interrupted, Arrived \cup {next})
        /\ Fresh(queue, tasks, settled) => Fresh(r, tasks, later)
        /\ \A x : Lies(r, tasks, x) => Lies(queue, tasks, x) \/ x = next
    BY <1>1, <1>2, <1>7, <2>2, ArrivalKeeps
  <2>4. QED
    BY <2>3 DEF r, later
<1>9. Kept(queue', tasks', settled', interrupted, Arrived \cup {next})
  BY <1>6, <1>8, NothingMoves
<1>10. Safekeeping'
  BY <1>2, <1>9 DEF Safekeeping
<1>11. /\ InWithheld(queue', c) = InWithheld(queue, c) \cup {next}
       /\ \A d \in Channel : d # c => InWithheld(queue', d) = InWithheld(queue, d)
  <2>1. Neat(queue, c) /\ next \notin Pending(queue, c)
    BY <1>2, <1>7 DEF Kept, Apart, Accounted
  <2>2. /\ InWithheld(queue', c) = InWithheld(queue, c) \cup {next}
        /\ SameElsewhere(queue, queue', c)
    BY <1>1, <1>4, <2>1, SteerMoves
  <2>3. QED
    BY <2>2, SameAtHolds DEF SameElsewhere
<1>12. /\ Steers(tasks'[a]) = Steers(tasks[a]) \cup {next}
       /\ \A d \in Agent \ {a} : Steers(tasks'[d]) = Steers(tasks[d])
  BY <1>3, <1>5 DEF Steers
<1>13. Tokens'
  <2>1. \A d \in Agent : /\ Steers(tasks'[d]) \subseteq Arrived'
                         /\ tasks'[d].steer_rx \cap tasks'[d].pending_steer = {}
                         /\ tasks'[d].phase # "running" => Steers(tasks'[d]) = {}
    <3>1. tasks[a].pending_steer \subseteq Arrived
      BY DEF Custody, Tokens, Steers
    <3>2. \A d \in Agent \ {a} : /\ Steers(tasks[d]) \subseteq Arrived
                                 /\ tasks[d].steer_rx \cap tasks[d].pending_steer = {}
                                 /\ tasks[d].phase # "running" => Steers(tasks[d]) = {}
      BY DEF Custody, Tokens
    <3>3. /\ Steers(tasks'[a]) \subseteq Arrived'
          /\ tasks'[a].steer_rx \cap tasks'[a].pending_steer = {}
          /\ tasks'[a].phase = "running"
      <4>1. Steers(tasks[a]) \subseteq Arrived
        BY DEF Custody, Tokens
      <4>2. QED
        BY <1>2, <1>3, <1>5, <1>12, <3>1, <4>1
    <3>4. QED
      BY <1>2, <1>5, <3>2, <3>3
  <2>2. \A d, b \in Agent : d # b => Steers(tasks'[d]) \cap Steers(tasks'[b]) = {}
    BY <1>2, <1>12 DEF Custody, Tokens
  <2>3. /\ \A k \in acks' : /\ k.event \in Arrived'
                            /\ \A d \in Agent : k.event \notin Steers(tasks'[d])
        /\ \A k, l \in acks' : k.event = l.event => k = l
    BY <1>2, <1>12 DEF Custody, Tokens
  <2>4. QED
    BY <2>1, <2>2, <2>3 DEF Tokens
<1>14. Awaited'
  <2>1. ASSUME NEW d \in Channel, NEW e \in InWithheld(queue', d)
        PROVE  \/ \E b \in Agent : tasks'[b].ch = d /\ e \in Steers(tasks'[b])
               \/ \E k \in acks' : k.ch = d /\ k.event = e
    <3>1. CASE e \in InWithheld(queue, d)
      BY <1>5, <1>12, <3>1 DEF Custody, Awaited
    <3>2. CASE e = next /\ d = c
      BY <1>3, <1>5, <1>12, <3>2
    <3>3. QED
      BY <1>11, <2>1, <3>1, <3>2
  <2>2. QED
    BY <2>1 DEF Awaited
<1>15. Timely'
  <2>1. SUFFICES ASSUME expiries' = 0
                 PROVE  /\ Fresh(queue, tasks, settled)'
                        /\ \A e : Steering(e)' => ~Lies(queue', tasks', e)
    BY DEF Timely
  <2>2. /\ Fresh(queue, tasks, settled)
        /\ \A e : Steering(e) => ~Lies(queue, tasks, e)
    BY <2>1 DEF Custody, Timely
  <2>3. Fresh(queue, tasks, settled)'
    BY <1>6, <1>8, <2>2, NothingMoves
  <2>4. \A e : Steering(e)' => Steering(e) \/ e = next
    BY <1>12 DEF Steering
  <2>5. \A e : Lies(queue', tasks', e) => Lies(queue, tasks, e) \/ e = next
    BY <1>6, <1>8, LooseSame DEF NoLooser
  <2>6. ~Lies(queue', tasks', next)
    BY <1>9, <1>11, WithheldOnly DEF Kept
  <2>7. QED
    BY <2>2, <2>3, <2>4, <2>5, <2>6
<1>16. QED
  BY <1>10, <1>13, <1>14, <1>15 DEF Custody

LEMMA TaskCustody ==
    ASSUME Typed, Custody, NEW a \in Agent, TaskStep(a)
    PROVE  Custody'
<1> DEFINE t == tasks[a]
<1>1. tasks \in [Agent -> Task]
  BY DEF Typed, Shape
<1>2. /\ t.phase = "running"
      /\ UNCHANGED <<queue, next, settled, interrupted, expiries>>
  BY TaskSteps
<1>3. PICK u \in Task, es \in SUBSET Event, k \in SteerAckKinds : TaskMoves(a, u, es, k)
  BY TaskSteps
<1>4. /\ tasks'[a] = u /\ \A d \in Agent \ {a} : tasks'[d] = tasks[d]
      /\ u.ch = t.ch /\ u.events = t.events /\ u.cancelled = t.cancelled
      /\ u.phase # "running" => Steers(u) = {}
      /\ Steers(t) = Steers(u) \cup es
      /\ acks' = acks \cup Answers(t.ch, es, k)
  BY <1>1, <1>3 DEF TaskMoves
<1>5. Steers(u) \cap es = {} /\ u.steer_rx \cap u.pending_steer = {}
  BY <1>3 DEF TaskMoves, Custody, Tokens
<1>6. SameBatches(tasks, tasks') /\ SameTables(queue, queue')
  BY <1>2, <1>4 DEF SameBatches, SameTables, SameAt
<1>7. Arrived' = Arrived
  BY <1>2, ArrivedSame
<1>8. Safekeeping'
  BY <1>2, <1>6, <1>7, NothingMoves DEF Custody, Safekeeping
<1>9. /\ \A l \in Answers(t.ch, es, k) : l.ch = t.ch /\ l.event \in es
      /\ \A e \in es : \E l \in Answers(t.ch, es, k) : l.ch = t.ch /\ l.event = e
      /\ \A l, m \in Answers(t.ch, es, k) : l.event = m.event => l = m
  <2>1. \A l \in Answers(t.ch, es, k) :
           \E e \in es : l = [ch |-> t.ch, event |-> e, ack |-> k]
    BY DEF Answers
  <2>2. \A e \in es : [ch |-> t.ch, event |-> e, ack |-> k] \in Answers(t.ch, es, k)
    BY DEF Answers
  <2>3. \A e : LET l == [ch |-> t.ch, event |-> e, ack |-> k]
               IN  l.ch = t.ch /\ l.event = e
    OBVIOUS
  <2>4. \A e \in es : \E l \in Answers(t.ch, es, k) : l.ch = t.ch /\ l.event = e
    BY <2>2, <2>3
  <2>5. \A l \in Answers(t.ch, es, k) : l.ch = t.ch /\ l.event \in es
    BY <2>1
  <2>6. ASSUME NEW l \in Answers(t.ch, es, k), NEW m \in Answers(t.ch, es, k),
               l.event = m.event
        PROVE  l = m
    <3>1. PICK e \in es : l = [ch |-> t.ch, event |-> e, ack |-> k]
      BY <2>1
    <3>2. PICK f \in es : m = [ch |-> t.ch, event |-> f, ack |-> k]
      BY <2>1
    <3>3. l.event = e /\ m.event = f
      BY <3>1, <3>2
    <3>4. QED
      BY <2>6, <3>1, <3>2, <3>3
  <2>7. QED
    BY <2>4, <2>5, <2>6
<1>10. Tokens'
  <2>1. \A d \in Agent : /\ Steers(tasks'[d]) \subseteq Arrived
                         /\ tasks'[d].steer_rx \cap tasks'[d].pending_steer = {}
                         /\ tasks'[d].phase # "running" => Steers(tasks'[d]) = {}
                         /\ Steers(tasks'[d]) \subseteq Steers(tasks[d])
    BY <1>4, <1>5 DEF Custody, Tokens
  <2>2. \A d, b \in Agent : d # b => Steers(tasks'[d]) \cap Steers(tasks'[b]) = {}
    BY <2>1 DEF Custody, Tokens
  <2>3. \A l \in acks' : /\ l.event \in Arrived
                         /\ \A d \in Agent : l.event \notin Steers(tasks'[d])
    <3>1. ASSUME NEW l \in acks
          PROVE  /\ l.event \in Arrived
                 /\ \A d \in Agent : l.event \notin Steers(tasks'[d])
      BY <2>1 DEF Custody, Tokens
    <3>2. ASSUME NEW l \in Answers(t.ch, es, k)
          PROVE  /\ l.event \in Arrived
                 /\ \A d \in Agent : l.event \notin Steers(tasks'[d])
      <4>1. l.event \in es /\ l.event \in Steers(t)
        BY <1>4, <1>9
      <4>2. \A d \in Agent \ {a} : l.event \notin Steers(tasks[d])
        BY <4>1 DEF Custody, Tokens
      <4>3. QED
        BY <1>4, <1>5, <2>1, <4>1, <4>2 DEF Custody, Tokens
    <3>3. QED
      BY <1>4, <3>1, <3>2
  <2>4. \A l, m \in acks' : l.event = m.event => l = m
    <3>1. \A l \in acks, m \in Answers(t.ch, es, k) : l.event # m.event
      BY <1>4, <1>9 DEF Custody, Tokens
    <3>2. \A l, m \in acks : l.event = m.event => l = m
      BY DEF Custody, Tokens
    <3>3. QED
      BY <1>4, <1>9, <3>1, <3>2
  <2>5. QED
    BY <1>7, <2>1, <2>2, <2>3, <2>4 DEF Tokens
<1>11. Awaited'
  <2>1. ASSUME NEW c \in Channel, NEW e \in InWithheld(queue, c)
        PROVE  \/ \E b \in Agent : tasks'[b].ch = c /\ e \in Steers(tasks'[b])
               \/ \E l \in acks' : l.ch = c /\ l.event = e
    <3>1. CASE \E l \in acks : l.ch = c /\ l.event = e
      BY <1>4, <3>1
    <3>2. CASE \E b \in Agent : tasks[b].ch = c /\ e \in Steers(tasks[b])
      BY <1>4, <1>9, <3>2
    <3>3. QED
      BY <2>1, <3>1, <3>2 DEF Custody, Awaited
  <2>2. QED
    BY <1>2, <2>1 DEF Awaited
<1>12. Timely'
  <2>1. \A e : Steering(e)' => Steering(e)
    BY <1>4, <1>9 DEF Steering
  <2>2. Fresh(queue, tasks, settled) => Fresh(queue', tasks', settled')
    BY <1>2, <1>6, NothingMoves
  <2>3. \A e : Lies(queue', tasks', e) => Lies(queue, tasks, e)
    BY <1>6, LooseSame DEF NoLooser
  <2>4. QED
    BY <1>2, <2>1, <2>2, <2>3 DEF Timely, Custody
<1>13. QED
  BY <1>8, <1>10, <1>11, <1>12 DEF Custody


(* An answer to a steer: one holder less, and the event is in no side       *)
(* table any more.                                                          *)
LEMMA AckCustody ==
    ASSUME Typed, Turns, Custody, NEW k \in acks, HandleSteerAck(k)
    PROVE  Custody'
<1> DEFINE e == k.event
<1>1. /\ k.ch \in Channel /\ e \in Event /\ acks' = acks \ {k}
      /\ TasksAlike(tasks, tasks') /\ UNCHANGED <<interrupted, next, expiries>>
  BY AckSteps
<1>2. QueueInv(queue) /\ Kept(queue, tasks, settled, interrupted, Arrived)
  BY DEF Typed, Custody, Safekeeping
<1>3. SameBatches(tasks, tasks') /\ SameBatches(tasks, tasks) /\ SameTables(queue', queue')
  BY <1>1, AlikeBatches DEF SameBatches, SameTables, SameAt
<1>4. \A a \in Agent : /\ Steers(tasks'[a]) = Steers(tasks[a])
                       /\ tasks'[a].steer_rx = tasks[a].steer_rx
                       /\ tasks'[a].pending_steer = tasks[a].pending_steer
                       /\ tasks'[a].ch = tasks[a].ch /\ tasks'[a].phase = tasks[a].phase
  BY <1>1, AlikeSteers DEF Steers
<1>5. Arrived' = Arrived
  BY <1>1, ArrivedSame
<1>6. /\ e \in Arrived /\ \A a \in Agent : e \notin Steers(tasks[a])
      /\ \A l \in acks : l.event = e => l = k
  BY DEF Custody, Tokens
<1>7. Tokens'
  BY <1>1, <1>4, <1>5 DEF Custody, Tokens
<1>8. \A x : Steering(x)' => Steering(x) /\ x # e
  BY <1>1, <1>4, <1>6 DEF Steering
<1>9. ASSUME \A d \in Channel : InWithheld(queue', d) \subseteq InWithheld(queue, d),
             e \notin InWithheld(queue', k.ch)
      PROVE  /\ Awaited'
             /\ \A d \in Channel : e \notin InWithheld(queue', d)
  <2>1. ASSUME NEW d \in Channel, NEW x \in InWithheld(queue', d)
        PROVE  \/ \E a \in Agent : tasks'[a].ch = d /\ x \in Steers(tasks'[a])
               \/ \E l \in acks' : l.ch = d /\ l.event = x
    <3>1. CASE \E a \in Agent : tasks[a].ch = d /\ x \in Steers(tasks[a])
      BY <1>4, <3>1
    <3>2. ASSUME NEW l \in acks, l.ch = d, l.event = x
          PROVE  l \in acks'
      BY <1>1, <1>9, <2>1, <3>2
    <3>3. x \in InWithheld(queue, d)
      BY <1>9, <2>1
    <3>4. QED
      BY <3>1, <3>2, <3>3 DEF Custody, Awaited
  <2>2. \A d \in Channel : e \notin InWithheld(queue', d)
    BY <1>1, <1>4, <1>6, <2>1
  <2>3. QED
    BY <2>1, <2>2 DEF Awaited
<1>10. ASSUME NEW q, QueueInv(q), SameTables(queue, q),
              queue' = RemoveEvent(q, k.ch, e), settled' = settled \cup {e}
       PROVE  Custody'
  <2>1. Kept(q, tasks, settled, interrupted, Arrived)
    BY <1>2, <1>3, <1>10, NothingMoves
  <2>2. /\ Kept(queue', tasks, settled', interrupted, Arrived)
        /\ NoLooser(q, tasks, queue', tasks)
        /\ \A d \in Channel : /\ InWithheld(queue', d) \subseteq InWithheld(q, d)
                              /\ Pending(queue', d) \subseteq Pending(q, d)
        /\ e \notin InWithheld(queue', k.ch)
    BY <1>1, <1>6, <1>10, <2>1, RemoveKeeps
  <2>3. \A d \in Channel : /\ InWithheld(q, d) = InWithheld(queue, d)
                           /\ Pending(q, d) = Pending(queue, d)
    BY <1>10, SameAtHolds DEF SameTables
  <2>4. NoLooser(queue, tasks, q, tasks)
    BY <1>3, <1>10, LooseSame
  <2>5. Safekeeping'
    <3>1. Kept(queue', tasks', settled', interrupted, Arrived)
      BY <1>3, <2>2, NothingMoves
    <3>2. QED
      BY <1>1, <1>5, <3>1 DEF Safekeeping
  <2>6. Awaited' /\ \A d \in Channel : e \notin InWithheld(queue', d)
    BY <1>9, <2>2, <2>3
  <2>7. \A x : Lies(queue', tasks', x) => Lies(queue, tasks, x)
    <3>1. NoLooser(queue', tasks, queue', tasks')
      BY <1>3, LooseSame
    <3>2. QED
      BY <2>2, <2>4, <3>1 DEF NoLooser
  <2>8. Timely'
    <3>1. SUFFICES ASSUME expiries' = 0
                   PROVE  /\ Fresh(queue, tasks, settled)'
                          /\ \A x : Steering(x)' => ~Lies(queue', tasks', x)
      BY DEF Timely
    <3>2. /\ Fresh(queue, tasks, settled)
          /\ \A x : Steering(x) => ~Lies(queue, tasks, x)
      BY <1>1, <3>1 DEF Custody, Timely
    <3>3. ~Lies(queue', tasks', e)
      BY <2>7, <3>2 DEF Steering
    <3>4. /\ \A d \in Channel : e \notin Pending(queue', d)
          /\ \A a \in Agent : e \notin EventsOf(tasks'[a])
      BY <2>6, <3>3 DEF Lies, Loose, Pending
    <3>5. /\ \A d \in Channel : Pending(queue', d) \cap settled = {}
          /\ \A a \in Agent : EventsOf(tasks'[a]) \cap settled = {}
      <4>1. \A a \in Agent : EventsOf(tasks'[a]) = EventsOf(tasks[a])
        BY <1>3 DEF SameBatches, EventsOf
      <4>2. QED
        BY <2>2, <2>3, <3>2, <4>1 DEF Fresh
    <3>6. Fresh(queue', tasks', settled')
      BY <1>10, <3>4, <3>5 DEF Fresh
    <3>7. QED
      BY <1>8, <2>7, <3>2, <3>6
  <2>9. QED
    BY <1>7, <2>5, <2>6, <2>8 DEF Custody
<1>11. ASSUME queue' = ReleaseNativeSteer(queue, k.ch, e),
              settled' = settled \cup ReleaseDrops(k)
       PROVE  Custody'
  <2>1. /\ Kept(queue', tasks, settled', interrupted, Arrived)
        /\ Fresh(queue, tasks, settled) => Fresh(queue', tasks, settled')
        /\ \A x : Lies(queue', tasks, x) => Lies(queue, tasks, x) \/ x = e
        /\ \A d \in Channel : InWithheld(queue', d) \subseteq InWithheld(queue, d)
        /\ e \notin InWithheld(queue', k.ch)
    <3> DEFINE lost == IF Contains(queue.withheld[k.ch], e)
                       THEN Trimmed(<<e>> \o queue.queues[k.ch]) ELSE {}
               r == ReleaseNativeSteer(queue, k.ch, e)
    <3>1. queue' = r /\ settled' = settled \cup lost
      BY <1>11 DEF ReleaseDrops
    <3>2. /\ QueueInv(queue) /\ k.ch \in Channel /\ e \in Event
          /\ Kept(queue, tasks, settled, interrupted, Arrived)
      BY <1>1, <1>2 DEF Custody, Safekeeping
    <3>3. /\ Kept(r, tasks, settled \cup lost, interrupted, Arrived)
          /\ Fresh(queue, tasks, settled) => Fresh(r, tasks, settled \cup lost)
          /\ \A x : Lies(r, tasks, x) => Lies(queue, tasks, x) \/ x = e
          /\ \A d \in Channel : InWithheld(r, d) \subseteq InWithheld(queue, d)
          /\ e \notin InWithheld(r, k.ch)
      <4> HIDE DEF e
      <4>1. QED
        BY <3>2, ReleaseKeeps
    <3> HIDE DEF lost, r
    <3>4. QED
      BY <3>1, <3>3
  <2>2. Safekeeping'
    <3>1. Kept(queue', tasks', settled', interrupted, Arrived)
      BY <1>3, <2>1, NothingMoves
    <3>2. QED
      BY <1>1, <1>5, <3>1 DEF Safekeeping
  <2>3. Awaited'
    BY <1>9, <2>1
  <2>4. \A x : Lies(queue', tasks', x) => Lies(queue, tasks, x) \/ x = e
    <3>1. NoLooser(queue', tasks, queue', tasks')
      BY <1>3, LooseSame
    <3>2. QED
      BY <2>1, <3>1 DEF NoLooser
  <2>5. Fresh(queue, tasks, settled) => Fresh(queue', tasks', settled')
    BY <1>3, <2>1, NothingMoves
  <2>6. Timely'
    BY <1>1, <1>8, <2>4, <2>5 DEF Custody, Timely
  <2>7. QED
    BY <1>7, <2>2, <2>3, <2>6 DEF Custody
<1>12. QED
  BY <1>10, <1>11, AckSteps

LEMMA CustodyStep == Typed /\ Books /\ Turns /\ Custody /\ [Next]_vars => Custody'
<1> SUFFICES ASSUME Typed, Books, Turns, Custody, [Next]_vars PROVE Custody'
  OBVIOUS
<1>1. CASE QuietStep
  BY <1>1, QuietCustody
<1>2. CASE Maintain \/ DispatchNothing \/ HeartbeatFired
  BY <1>2, ExpiryCustody
<1>3. CASE DispatchQueued \/ DispatchCancelled
  BY <1>3, DispatchCustody
<1>4. ASSUME NEW a \in Agent, HandleResult(a) \/ RecoverPanicked(a) PROVE Custody'
  BY <1>4, EndCustody
<1>5. ASSUME NEW k \in acks, HandleSteerAck(k) PROVE Custody'
  BY <1>5, AckCustody
<1>6. ASSUME NEW c \in Channel,
             EventDropped(c) \/ EventQueued(c) \/ EventSteered(c) \/ EventSignals(c)
      PROVE  Custody'
  <2>1. /\ next \in Event /\ next' = next + 1
        /\ UNCHANGED <<acks, interrupted, expiries>>
        /\ Refused(c) \/ Taken(c) \/ Handed(c)
    BY <1>6, ArrivalSteps
  <2>2. QED
    BY <2>1, ArrivalCustody, HandedCustody
<1>7. ASSUME NEW c \in Channel, MembershipRemoved(c) PROVE Custody'
  BY <1>7, LeavingCustody
<1>8. ASSUME NEW a \in Agent, TaskStep(a) PROVE Custody'
  BY <1>8, TaskCustody
<1>9. QED
  BY <1>1, <1>2, <1>3, <1>4, <1>5, <1>6, <1>7, <1>8, StepKinds

LEMMA CustodyAlways == Spec => []Custody
BY CustodyInit, CustodyStep, TypedAlways, BooksAlways, TurnsAlways, PTL DEF Spec

-----------------------------------------------------------------------------
(* What custody gives. *)

(* An event that reached the queue is never in two places: two tables of    *)
(* the queue, the queue and a batch, or the batches of two turns, however   *)
(* pushes, steers, requeues, merges and expiry recoveries follow each other.*)
THEOREM NeverInTwoPlaces == Spec => []OnePlace
<1>1. Typed /\ Custody => OnePlace
  <2> SUFFICES ASSUME Typed, Custody PROVE OnePlace
    OBVIOUS
  <2>1. QueueInv(queue) /\ Apart(queue, tasks) /\ tasks \in [Agent -> Task]
    BY DEF Typed, Shape, Custody, Safekeeping, Kept
  <2>2. ASSUME NEW c \in Channel
        PROVE  NoRepeats(queue.queues[c] \o queue.cancelled[c] \o queue.withheld[c])
    <3> DEFINE s == queue.queues[c] \o queue.cancelled[c]
    <3>1. /\ queue.queues[c] \in Seq(Event) /\ queue.cancelled[c] \in Seq(Event)
          /\ queue.withheld[c] \in Seq(Event)
      BY <2>1, Tables
    <3>2. Neat(queue, c)
      BY <2>1 DEF Apart
    <3>3. /\ s \in Seq(Event) /\ NoRepeats(s)
          /\ ToSet(s) = ToSet(queue.queues[c]) \cup ToSet(queue.cancelled[c])
      BY <3>1, <3>2, ConcatElements DEF Neat, InQueue, InCancelled
    <3> HIDE DEF s
    <3>4. NoRepeats(s \o queue.withheld[c])
      BY <3>1, <3>2, <3>3, ConcatElements DEF Neat, InQueue, InCancelled, InWithheld
    <3>5. QED
      BY <3>4 DEF s
  <2>3. ASSUME NEW a \in Agent
        PROVE  NoRepeats(tasks[a].events \o tasks[a].cancelled)
    <3>1. tasks[a].events \in Seq(Event) /\ tasks[a].cancelled \in Seq(Event)
      BY <2>1 DEF Task
    <3>2. Whole(tasks[a])
      BY <2>1 DEF Apart
    <3>3. QED
      BY <3>1, <3>2, ConcatElements DEF Whole
  <2>4. QED
    BY <2>1, <2>2, <2>3 DEF OnePlace, Apart
<1>2. QED
  BY <1>1, TypedAlways, CustodyAlways, PTL

(* No event that reached the queue disappears: it is queued, withheld,      *)
(* waiting to be merged or in a turn, unless its story has ended or it was  *)
(* in a batch that was cancelled.                                           *)
THEOREM NothingLost == Spec => []NoEventLost
<1>1. Custody => NoEventLost
  <2> SUFFICES ASSUME Custody, NEW e \in Arrived
               PROVE  e \in Held \cup settled \cup interrupted
    BY DEF NoEventLost
  <2>1. \/ e \in settled \cup interrupted
        \/ \E c \in Channel : e \in Pending(queue, c)
        \/ \E a \in Agent : e \in EventsOf(tasks[a])
    BY DEF Custody, Safekeeping, Kept, Accounted
  <2>2. /\ \A c \in Channel : Pending(queue, c) \subseteq Held
        /\ \A a \in Agent : EventsOf(tasks[a]) \subseteq Held
    BY DEF Held
  <2>3. QED
    BY <2>1, <2>2
<1>2. QED
  BY <1>1, CustodyAlways, PTL

(* As long as no in-flight deadline has passed, an event that was           *)
(* delivered, steered, dead-lettered or dropped is held nowhere, so no turn *)
(* is prompted with it again: in particular a steer that the agent took is  *)
(* taken out of the side table and is in no batch.                          *)
THEOREM NothingTwice == Spec => []NeverRedelivered
<1>1. Custody => NeverRedelivered
  <2> SUFFICES ASSUME Custody, expiries = 0, NEW e \in settled, e \in Held PROVE FALSE
    BY DEF NeverRedelivered
  <2>1. \/ \E c \in Channel : e \in Pending(queue, c)
        \/ \E a \in Agent : e \in EventsOf(tasks[a])
    BY DEF Held
  <2>2. Fresh(queue, tasks, settled)
    BY DEF Custody, Timely
  <2>3. QED
    BY <2>1, <2>2 DEF Fresh
<1>2. QED
  BY <1>1, CustodyAlways, PTL

(* An event in the side table has a running turn or an ack under way that   *)
(* will take it out, also after its channel was released by an expired      *)
(* deadline or left, or its turn failed or panicked.                        *)
THEOREM NothingStuck == Spec => []WithheldAwaitsAck
<1>1. Custody => WithheldAwaitsAck
  <2> SUFFICES ASSUME Custody PROVE WithheldAwaitsAck
    OBVIOUS
  <2>1. \A a \in Agent : Steers(tasks[a]) # {} => InTaskMap(a)
    BY DEF Custody, Tokens, InTaskMap
  <2>2. QED
    BY <2>1 DEF Custody, Awaited, WithheldAwaitsAck, TasksOn, Steers
<1>2. QED
  BY <1>1, CustodyAlways, PTL

=============================================================================
