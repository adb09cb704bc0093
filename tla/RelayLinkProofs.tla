-------------------------- MODULE RelayLinkProofs --------------------------
(***************************************************************************)
(* Proofs about the connection for any number of channels, events, faults  *)
(* and commands, and any clocks and capacities.                            *)
(***************************************************************************)
EXTENDS RelayLink, FiniteSetTheorems, SequenceTheorems, WellFoundedInduction, TLAPS

-----------------------------------------------------------------------------
(* Operators *)

(* A non-empty set of numbers has a least one. *)
LEMMA Least ==
    ASSUME NEW S, S \subseteq Nat, S # {}
    PROVE  \E i \in S : \A j \in S : i <= j
<1>1. PICK i \in S : \A j \in S : ~(<<j, i>> \in OpToRel(<, Nat))
  BY NatLessThanWellFounded, WFMin
<1>2. ASSUME NEW j \in Nat, NEW k \in Nat, j < k
      PROVE  <<j, k>> \in OpToRel(<, Nat)
  BY <1>2 DEF OpToRel
<1>3. ASSUME NEW j \in S PROVE i <= j
  <2>1. ~(j < i)
    BY <1>1, <1>2
  <2>2. QED
    BY <2>1
<1>4. QED
  BY <1>3

(* The present is a time. *)
LEMMA NowType ==
    ASSUME stamp \in [Event -> 0..MaxStamp]
    PROVE  Now \in 1..MaxStamp
<1> DEFINE S == {1} \cup {stamp[e] : e \in Published}
           T == {MaxStamp - x : x \in S}
<1>1. MaxStamp \in Nat \ {0}
  BY LinkAssumption
<1>2. S \subseteq 1..MaxStamp /\ S # {}
  BY <1>1 DEF Published
<1>3. T \subseteq Nat /\ T # {}
  BY <1>1, <1>2
<1>4. PICK t \in T : \A u \in T : t <= u
  BY <1>3, Least
<1>5. PICK x \in S : t = MaxStamp - x
  BY <1>4
<1>6. ASSUME NEW y \in S PROVE x >= y
  <2>1. MaxStamp - y \in T /\ x \in 1..MaxStamp /\ y \in 1..MaxStamp
    BY <1>2
  <2>2. MaxStamp - x <= MaxStamp - y
    BY <1>4, <1>5, <2>1
  <2>3. QED
    BY <1>1, <2>1, <2>2
<1>7. Now = Max(S)
  BY DEF Now
<1> HIDE DEF S
<1>8. Max(S) \in S
  BY <1>6 DEF Max
<1>9. QED
  BY <1>2, <1>7, <1>8

(* What the store finds can be put in order, newest first. *)
Sortable(es, st) ==
    \E s \in [1..Cardinality(es) -> es] :
        /\ \A i, j \in 1..Cardinality(es) : i # j => s[i] # s[j]
        /\ \A i, j \in 1..Cardinality(es) : i < j => st[s[i]] >= st[s[j]]

LEMMA Sorts ==
    ASSUME NEW st \in [Event -> Nat], NEW es \in SUBSET Event
    PROVE  Sortable(es, st)
<1> DEFINE Bad == {n \in Nat : \E fs \in SUBSET Event :
                                  Cardinality(fs) = n /\ ~Sortable(fs, st)}
<1>1. \A fs \in SUBSET Event : IsFiniteSet(fs) /\ Cardinality(fs) \in Nat
  <2>1. IsFiniteSet(Event)
    BY LinkAssumption, FS_Interval DEF Event
  <2>2. QED
    BY <2>1, FS_Subset, FS_CardinalityType
<1>2. SUFFICES ASSUME Bad # {} PROVE FALSE
  BY <1>1
<1>3. PICK n \in Bad : \A k \in Bad : n <= k
  BY <1>2, Least
<1>4. PICK fs \in SUBSET Event : Cardinality(fs) = n /\ ~Sortable(fs, st)
  BY <1>3
<1>5. ASSUME NEW gs \in SUBSET Event, Cardinality(gs) < n PROVE Sortable(gs, st)
  BY <1>1, <1>3, <1>5
<1> HIDE DEF Bad
<1>6. n \in Nat
  BY <1>1, <1>4
<1>7. CASE fs = {}
  <2>1. Cardinality(fs) = 0
    BY <1>7, FS_EmptySet
  <2> DEFINE s == [i \in 1..0 |-> 0]
  <2>2. s \in [1..0 -> fs]
    OBVIOUS
  <2> HIDE DEF s
  <2>3. \A i \in 1..0 : FALSE
    OBVIOUS
  <2>4. Sortable(fs, st)
    BY <2>1, <2>2, <2>3 DEF Sortable
  <2>5. QED
    BY <1>4, <2>4
<1>8. CASE fs # {}
  <2> DEFINE S == {st[e] : e \in fs}
  <2>1. S \subseteq Nat /\ S # {}
    BY <1>8
  <2>2. PICK x \in S : \A y \in S : x <= y
    BY <2>1, Least
  <2>3. PICK m \in fs : st[m] = x
    BY <2>2
  <2>4. \A e \in fs : st[e] \in Nat /\ st[m] <= st[e]
    BY <2>2, <2>3
  <2> HIDE DEF S
  <2> DEFINE gs == fs \ {m}
  <2>5. Cardinality(gs) = n - 1
    BY <1>1, <1>4, <2>3, FS_RemoveElement
  <2>6. n > 0
    BY <1>1, <1>4, <1>6, <1>8, FS_EmptySet
  <2>7. Sortable(gs, st)
    BY <1>5, <1>6, <2>5, <2>6
  <2>8. PICK g \in [1..(n - 1) -> gs] :
           /\ \A i, j \in 1..(n - 1) : i # j => g[i] # g[j]
           /\ \A i, j \in 1..(n - 1) : i < j => st[g[i]] >= st[g[j]]
    BY <2>5, <2>7 DEF Sortable
  <2>9. \A i \in 1..(n - 1) : g[i] \in fs /\ g[i] # m
    BY <2>8
  <2> HIDE DEF gs
  <2> DEFINE s == [i \in 1..n |-> IF i = n THEN m ELSE g[i]]
  <2>10. \A i \in 1..n : i # n => i \in 1..(n - 1)
    BY <1>6, <2>6
  <2>11. s \in [1..n -> fs]
    BY <2>3, <2>9, <2>10
  <2>12. /\ \A i \in 1..n : i = n => s[i] = m
         /\ \A i \in 1..n : i # n => s[i] = g[i]
    OBVIOUS
  <2> HIDE DEF s
  <2>13. ASSUME NEW i \in 1..n, NEW j \in 1..n, i # j PROVE s[i] # s[j]
    BY <2>8, <2>9, <2>10, <2>12, <2>13
  <2>14. ASSUME NEW i \in 1..n, NEW j \in 1..n, i < j PROVE st[s[i]] >= st[s[j]]
    <3>1. i # n /\ i \in 1..(n - 1) /\ s[i] = g[i]
      BY <1>6, <2>10, <2>12, <2>14
    <3>2. CASE j = n
      BY <2>4, <2>9, <2>12, <3>1, <3>2
    <3>3. CASE j # n
      BY <2>8, <2>10, <2>12, <2>14, <3>1, <3>3
    <3>4. QED
      BY <3>2, <3>3
  <2>15. Sortable(fs, st)
    BY <1>4, <2>11, <2>13, <2>14 DEF Sortable
  <2>16. QED
    BY <1>4, <2>15
<1>9. QED
  BY <1>7, <1>8

LEMMA ReplayOrder ==
    ASSUME stamp \in [Event -> 0..MaxStamp], NEW es \in SUBSET Event
    PROVE  /\ Cardinality(es) \in Nat
           /\ NewestFirst(es) \in [1..Cardinality(es) -> es]
           /\ \A i, k \in 1..Cardinality(es) : i # k => NewestFirst(es)[i] # NewestFirst(es)[k]
<1>0. IsFiniteSet(Event)
  BY LinkAssumption, FS_Interval DEF Event
<1>1. Cardinality(es) \in Nat
  BY <1>0, FS_Subset, FS_CardinalityType
<1>2. stamp \in [Event -> Nat]
  BY LinkAssumption
<1>3. Sortable(es, stamp)
  BY <1>2, Sorts
<1>4. QED
  BY <1>1, <1>3 DEF Sortable, NewestFirst

(* The state that commands are recorded in. *)
IntentType ==
    [active : SUBSET Channel, lastSeen : [Channel -> 0..MaxStamp],
     floor : [Channel -> 0..MaxStamp], dropped : [Channel -> 0..MaxStamp],
     parked : SUBSET Channel, retry : SUBSET Channel]

LEMMA OneIntent ==
    ASSUME NEW st \in IntentType, NEW cmd \in Command
    PROVE  Intent(st, cmd) \in IntentType
<1>0. 0 \in 0..MaxStamp
  BY LinkAssumption
<1>1. CASE cmd.k = "sub"
  <2>1. cmd.c \in Channel /\ cmd.floor \in 0..MaxStamp
    BY <1>1 DEF Command
  <2>2. Intent(st, cmd) = [st EXCEPT !.active = @ \cup {cmd.c},
                                     !.floor[cmd.c] = IF @ = 0 THEN cmd.floor ELSE @]
    BY <1>1 DEF Intent
  <2>3. st.floor[cmd.c] \in 0..MaxStamp /\ st.floor \in [Channel -> 0..MaxStamp]
    BY <2>1 DEF IntentType
  <2> DEFINE z == IF st.floor[cmd.c] = 0 THEN cmd.floor ELSE st.floor[cmd.c]
             g == [st.floor EXCEPT ![cmd.c] = z]
  <2>4. g \in [Channel -> 0..MaxStamp]
    BY <2>1, <2>3
  <2>5. Intent(st, cmd) = [st EXCEPT !.active = @ \cup {cmd.c}, !.floor = g]
    BY <2>2 DEF IntentType
  <2> HIDE DEF g
  <2>6. st.active \cup {cmd.c} \in SUBSET Channel
    BY <2>1 DEF IntentType
  <2>7. QED
    BY <2>4, <2>5, <2>6 DEF IntentType
<1>2. CASE cmd.k = "unsub"
  <2>1. cmd.c \in Channel
    BY <1>2 DEF Command
  <2>2. QED
    BY <1>0, <1>2, <2>1 DEF Intent, IntentType
<1>3. CASE cmd.k \notin {"sub", "unsub"}
  BY <1>3 DEF Intent
<1>4. QED
  BY <1>1, <1>2, <1>3

(* Recording the commands of a queue one after the other. *)
Chain(q, s0, f, n) ==
    /\ f \in [0..n -> IntentType]
    /\ f[0] = s0
    /\ \A i \in 1..n : f[i] = Intent(f[i - 1], q[i])

LEMMA ChainExists ==
    ASSUME NEW q \in Seq(Command), NEW s0 \in IntentType
    PROVE  \E f : Chain(q, s0, f, Len(q))
<1> DEFINE Bad == {n \in 0..Len(q) : ~\E f : Chain(q, s0, f, n)}
<1>0. Len(q) \in Nat
  OBVIOUS
<1>1. SUFFICES ASSUME Bad # {} PROVE FALSE
  BY <1>0
<1>2. PICK n \in Bad : \A k \in Bad : n <= k
  <2>1. Bad \subseteq Nat
    BY <1>0
  <2>2. QED
    BY <1>1, <2>1, Least
<1>3. n \in 0..Len(q) /\ ~\E f : Chain(q, s0, f, n)
  BY <1>2
<1>4. \A k \in 0..Len(q) : k < n => \E f : Chain(q, s0, f, k)
  BY <1>0, <1>2
<1> HIDE DEF Bad
<1>5. CASE n = 0
  <2> DEFINE f == [i \in 0..0 |-> s0]
  <2>1. f \in [0..0 -> IntentType] /\ f[0] = s0
    OBVIOUS
  <2> HIDE DEF f
  <2>2. \A i \in 1..0 : FALSE
    OBVIOUS
  <2>3. Chain(q, s0, f, 0)
    BY <2>1, <2>2 DEF Chain
  <2>4. QED
    BY <1>3, <1>5, <2>3
<1>6. CASE n # 0
  <2>1. n - 1 \in 0..Len(q) /\ n - 1 < n /\ n \in 1..Len(q) /\ n \in Nat
    BY <1>0, <1>3, <1>6
  <2>2. PICK g : Chain(q, s0, g, n - 1)
    BY <1>4, <2>1
  <2>3. Intent(g[n - 1], q[n]) \in IntentType
    BY <2>1, <2>2, OneIntent DEF Chain
  <2> DEFINE f == [i \in 0..n |-> IF i = n THEN Intent(g[n - 1], q[n]) ELSE g[i]]
  <2>4. \A i \in 0..n : i # n => i \in 0..(n - 1)
    BY <2>1
  <2>5. f \in [0..n -> IntentType]
    BY <2>2, <2>3, <2>4 DEF Chain
  <2>6. /\ f[n] = Intent(g[n - 1], q[n])
        /\ \A i \in 0..(n - 1) : f[i] = g[i]
    BY <2>1
  <2> HIDE DEF f
  <2>7. f[0] = s0
    BY <2>1, <2>2, <2>6 DEF Chain
  <2>8. ASSUME NEW i \in 1..n PROVE f[i] = Intent(f[i - 1], q[i])
    <3>1. i - 1 \in 0..(n - 1) /\ f[i - 1] = g[i - 1]
      BY <2>1, <2>6
    <3>2. CASE i = n
      BY <2>6, <3>1, <3>2
    <3>3. CASE i # n
      <4>1. i \in 1..(n - 1) /\ i \in 0..(n - 1)
        BY <2>1, <3>3
      <4>2. QED
        BY <2>2, <2>6, <3>1, <4>1 DEF Chain
    <3>4. QED
      BY <3>2, <3>3
  <2>9. Chain(q, s0, f, n)
    BY <2>5, <2>7, <2>8 DEF Chain
  <2>10. QED
    BY <1>3, <2>9
<1>7. QED
  BY <1>5, <1>6

(* f runs from state s0 through the commands of q to state s1. *)
Run(f, q, s0, s1) ==
    /\ f[0] = s0
    /\ \A i \in 1..Len(q) : f[i] = Intent(f[i - 1], q[i])
    /\ \A i \in 0..Len(q) : f[i] \in IntentType
    /\ s1 = f[Len(q)]

LEMMA Unrolled ==
    ASSUME NEW q \in Seq(Command), Intents \in IntentType
    PROVE  \E f : Run(f, q, Intents, AllIntents(q))
<1> DEFINE F(f) == [i \in 0..Len(q) |-> IF i = 0 THEN Intents ELSE Intent(f[i - 1], q[i])]
           after == CHOOSE f : f = F(f)
<1>0. Len(q) \in Nat
  OBVIOUS
<1>1. PICK f : Chain(q, Intents, f, Len(q))
  BY ChainExists
<1>2. f = F(f)
  <2>1. \A i \in 0..Len(q) : i # 0 => i \in 1..Len(q)
    BY <1>0
  <2>2. \A i \in 0..Len(q) : f[i] = F(f)[i]
    BY <1>1, <2>1 DEF Chain
  <2>3. f = [i \in 0..Len(q) |-> f[i]]
    BY <1>1 DEF Chain
  <2>4. QED
    BY <2>2, <2>3
<1>3. after = F(after)
  BY <1>2
<1>4. AllIntents(q) = after[Len(q)]
  BY DEF AllIntents
<1> HIDE DEF after
<1>5. /\ after[0] = Intents
      /\ \A i \in 1..Len(q) : after[i] = Intent(after[i - 1], q[i])
  BY <1>0, <1>3
<1> DEFINE Bad == {i \in 0..Len(q) : after[i] \notin IntentType}
<1>6. ASSUME Bad # {} PROVE FALSE
  <2>1. Bad \subseteq Nat
    BY <1>0
  <2>2. PICK n \in Bad : \A k \in Bad : n <= k
    BY <1>6, <2>1, Least
  <2>3. n \in 0..Len(q) /\ after[n] \notin IntentType
    BY <2>2
  <2>4. n \in 1..Len(q) /\ n - 1 \in 0..Len(q) /\ n - 1 < n
    BY <1>0, <1>5, <2>3
  <2>5. after[n - 1] \in IntentType
    BY <2>2, <2>4
  <2>6. QED
    BY <1>5, <2>3, <2>4, <2>5, OneIntent
<1>7. \A i \in 0..Len(q) : after[i] \in IntentType
  BY <1>6
<1>8. Run(after, q, Intents, AllIntents(q))
  BY <1>4, <1>5, <1>7 DEF Run
<1>9. QED
  BY <1>8

LEMMA ManyIntents ==
    ASSUME Intents \in IntentType, NEW q \in Seq(Command)
    PROVE  AllIntents(q) \in IntentType
<1>1. Len(q) \in 0..Len(q)
  OBVIOUS
<1>2. PICK f : Run(f, q, Intents, AllIntents(q))
  BY Unrolled
<1>3. QED
  BY <1>1, <1>2 DEF Run

-----------------------------------------------------------------------------
(* Types *)

LEMMA ReqType ==
    ASSUME TypeOK, NEW c \in Channel, NEW t \in 0..MaxStamp
    PROVE  Since(t) \in 0..MaxStamp /\ Req(c, t) \in Question
<1>1. MaxStamp \in Nat /\ Skew \in Nat
  BY LinkAssumption
<1>2. Since(t) \in 0..MaxStamp
  BY <1>1 DEF Since
<1>3. (dropped[c] > 0) \in BOOLEAN
  OBVIOUS
<1>4. QED
  BY <1>2, <1>3 DEF Req, Question

LEMMA SinceTypes ==
    ASSUME TypeOK, NEW c \in Channel
    PROVE  ChannelSince(c) \in 0..MaxStamp
BY LinkAssumption DEF TypeOK, ChannelSince, Earlier

(* What is written goes to the end of the line, or nowhere. *)
LEMMA Written ==
    ASSUME TypeOK, NEW f \in Question, Write(f)
    PROVE  up' \in Seq(Question)
BY DEF TypeOK, Write

LEMMA IntentsType == TypeOK => Intents \in IntentType
BY DEF TypeOK, Intents, IntentType

LEMMA BecomesType ==
    ASSUME NEW st \in IntentType, BecomesIntents(st)
    PROVE  /\ active' \subseteq Channel /\ parked' \subseteq Channel /\ retry' \subseteq Channel
           /\ lastSeen' \in [Channel -> 0..MaxStamp]
           /\ dropped' \in [Channel -> 0..MaxStamp]
           /\ floor' \in [Channel -> 0..MaxStamp]
BY DEF IntentType, BecomesIntents

LEMMA ForgetType ==
    ASSUME TypeOK, NEW c \in Channel, ForgetChannel(c)
    PROVE  /\ active' \subseteq Channel /\ parked' \subseteq Channel /\ retry' \subseteq Channel
           /\ lastSeen' \in [Channel -> 0..MaxStamp]
           /\ dropped' \in [Channel -> 0..MaxStamp]
           /\ floor' \in [Channel -> 0..MaxStamp]
BY LinkAssumption DEF TypeOK, ForgetChannel

LEMMA SignalType ==
    ASSUME TypeOK
    PROVE  SignalTo(inbox) \in Seq(Event \cup {Sentinel}) /\ Len(SignalTo(inbox)) <= InboxCap
<1>1. InboxCap \in Nat
  BY LinkAssumption
<1>2. Len(inbox) \in Nat /\ Len(Append(inbox, Sentinel)) = Len(inbox) + 1
  BY DEF TypeOK
<1>3. QED
  BY <1>1, <1>2 DEF TypeOK, SignalTo

LEMMA OfflineType ==
    ASSUME TypeOK, GoOffline
    PROVE  /\ phase' = "offline" /\ sock' = "down" /\ swallowed' = {}
           /\ up' = <<>> /\ down' = <<>> /\ jobs' = {}
           /\ live' \in [Channel -> -1..MaxStamp]
           /\ fresh' = FALSE /\ todo' = todo /\ spoilt' \in BOOLEAN
<1>1. -1 \in -1..MaxStamp
  BY LinkAssumption
<1>2. QED
  BY <1>1 DEF GoOffline, RelayForgetsConnection, Spoils, Unsubscribed, TypeOK

(* What the relay replays goes to the end of the line. *)
LEMMA Replayed ==
    ASSUME TypeOK, NEW j \in jobs, RelayReplays(j)
    PROVE  \E frames \in Seq(Response) : down' = down \o frames
<1> DEFINE es == {e \in Published : home[e] = j.c /\ stamp[e] >= j.since}
           found == NewestFirst(es)
           frames == [i \in DOMAIN found |->
                         [k |-> "event", e |-> found[i], replayed |-> TRUE]]
<1>1. es \in SUBSET Event
  BY DEF Published
<1>2. Cardinality(es) \in Nat /\ found \in [1..Cardinality(es) -> es]
  BY <1>1, ReplayOrder DEF TypeOK
<1>3. down' = down \o frames
  BY DEF RelayReplays
<1> HIDE DEF es, found
<1>4. frames \in [1..Cardinality(es) -> Response]
  BY <1>1, <1>2 DEF Response
<1>5. frames \in Seq(Response)
  BY <1>2, <1>4
<1>6. QED
  BY <1>3, <1>5

LEMMA TypeInit == Init => TypeOK
<1> SUFFICES ASSUME Init PROVE TypeOK
  OBVIOUS
<1> USE DEF Init
<1>1. /\ 0 \in 0..MaxStamp /\ -1 \in -1..MaxStamp
      /\ 0 \in 0..MaxFaults /\ 0 \in 0..MaxAsks /\ 0 <= InboxCap
      /\ (CHOOSE c \in Channel : TRUE) \in Channel
  BY LinkAssumption
<1>2. /\ stamp \in [Event -> 0..MaxStamp]
      /\ home \in [Event -> Channel]
      /\ live \in [Channel -> -1..MaxStamp]
      /\ lastSeen \in [Channel -> 0..MaxStamp]
      /\ dropped \in [Channel -> 0..MaxStamp]
      /\ floor \in [Channel -> 0..MaxStamp]
      /\ got \in [Event -> Nat]
  BY <1>1 DEF Unsubscribed
<1>3. seen \in [current : SUBSET Event, previous : SUBSET Event]
  OBVIOUS
<1>4. /\ up \in Seq(Question) /\ down \in Seq(Response) /\ cmds \in Seq(Command)
      /\ inbox \in Seq(Event \cup {Sentinel}) /\ Len(inbox) <= InboxCap
  BY <1>1
<1>5. QED
  BY <1>1, <1>2, <1>3, <1>4 DEF TypeOK

(* Once spoilt, always spoilt. *)
LEMMA SpoiltStays == TypeOK /\ [Next]_vars => spoilt' \in BOOLEAN /\ (spoilt => spoilt')
<1> DEFINE Grows == spoilt' \in BOOLEAN /\ (spoilt => spoilt')
<1> SUFFICES ASSUME TypeOK, [Next]_vars PROVE Grows
  OBVIOUS
<1>b. spoilt \in BOOLEAN
  BY DEF TypeOK
<1> USE <1>b DEF Spoils
<1>1. ASSUME Relay \/ GateOpens \/ HarnessTakes PROVE Grows
  BY <1>1 DEF Relay, RelayAdmits, RelayCloses, RelayRegisters, RelayReplays, GateOpens,
              HarnessTakes
<1>2. ASSUME Faults PROVE Grows
  BY <1>2 DEF Faults, RelayRefuses, RelayDenies, RelayRevokes, LinkStalls, LinkRecovers,
              LinkDies, RelayForgetsConnection
<1>3. ASSUME NEW c \in Channel, HarnessSubscribes(c) \/ HarnessUnsubscribes(c) PROVE Grows
  BY <1>3 DEF HarnessSubscribes, HarnessUnsubscribes
<1>4. ASSUME GoOffline PROVE Grows
  BY <1>4 DEF GoOffline, RelayForgetsConnection
<1>5. ASSUME Task PROVE Grows
  <2>1. ASSUME ClientReadsEvent \/ ClientReadsDenial \/ ClientReadsRateLimit \/ ClientReadsClosed
        PROVE  Grows
    BY <2>1 DEF ClientReadsEvent, ClientReadsDenial, ClientReadsRateLimit, ClientReadsClosed,
                AsksAgain
  <2>2. ASSUME ClientNotices \/ ClientFailsToExecute \/ ClientReconnects \/ DrainFails
        PROVE  Grows
    BY <1>4, <2>2 DEF ClientNotices, ClientFailsToExecute, ClientReconnects, DrainFails
  <2>3. ASSUME ClientExecutes \/ DrainExecutes \/ ClientAppliesOffline \/ ClientConnects
        PROVE  Grows
    BY <2>3 DEF ClientExecutes, DrainExecutes, Executes, ClientAppliesOffline, ClientConnects
  <2>4. ASSUME ClientResubscribes \/ ResubscribedAll \/ DrainSkipsReconnect \/ Drained
        PROVE  Grows
    BY <2>4 DEF ClientResubscribes, ResubscribedAll, DrainSkipsReconnect, Drained
  <2>5. ASSUME NEW c, ResubscribesOne(c) \/ DrainParked(c) \/ DrainRetry(c) PROVE Grows
    BY <2>5 DEF ResubscribesOne, DrainParked, DrainRetry, AsksAgain
  <2>6. QED
    BY <1>5, <2>1, <2>2, <2>3, <2>4, <2>5 DEF Task
<1>6. ASSUME NEW c \in Channel, NEW t \in 1..MaxStamp, RelayPublish(c, t) PROVE Grows
  BY <1>6 DEF RelayPublish
<1>7. CASE UNCHANGED vars
  BY <1>7 DEF vars
<1>8. QED
  BY <1>1, <1>2, <1>3, <1>5, <1>6, <1>7 DEF Next, Asks

LEMMA TypeStep == TypeOK /\ [Next]_vars => TypeOK'
<1> SUFFICES ASSUME TypeOK, [Next]_vars PROVE TypeOK'
  OBVIOUS
<1>z. spoilt' \in BOOLEAN
  BY SpoiltStays
<1> USE DEF relayVars, wireVars, taskVars, markVars, parkVars, harnessVars, budgetVars
<1>h. /\ down # <<>> => Head(down) \in Response /\ Tail(down) \in Seq(Response)
      /\ up # <<>> => Head(up) \in Question /\ Tail(up) \in Seq(Question)
      /\ cmds # <<>> => Head(cmds) \in Command /\ Tail(cmds) \in Seq(Command)
  BY DEF TypeOK
<1>n. /\ MaxStamp \in Nat \ {0} /\ MaxFaults \in Nat /\ MaxAsks \in Nat
      /\ InboxCap \in Nat
  BY LinkAssumption
<1>s. down \in Seq(Response) /\ up \in Seq(Question) /\ cmds \in Seq(Command)
  BY DEF TypeOK
<1>d. ASSUME NEW c \in Channel PROVE [dropped EXCEPT ![c] = 0] \in [Channel -> 0..MaxStamp]
  BY <1>n DEF TypeOK
<1>e. /\ <<>> \in Seq(Question) /\ <<>> \in Seq(Response) /\ <<>> \in Seq(Command)
      /\ {} \subseteq [c : Channel, since : 0..MaxStamp, registered : BOOLEAN]
  OBVIOUS
<1>f. ASSUME MayFail PROVE faults' \in 0..MaxFaults
  BY <1>n, <1>f DEF MayFail, TypeOK
<1>1. ASSUME NEW c \in Channel, NEW t \in 1..MaxStamp, RelayPublish(c, t) PROVE TypeOK'
  <2> DEFINE e == Cardinality(Published) + 1
  <2>1. e \in Event
    BY <1>1 DEF RelayPublish
  <2>2. /\ stamp' = [stamp EXCEPT ![e] = t] /\ home' = [home EXCEPT ![e] = c]
        /\ t \in 0..MaxStamp
    BY <1>1, <1>n DEF RelayPublish
  <2> DEFINE f == [k |-> "event", e |-> e, replayed |-> FALSE]
  <2>3. f \in Response
    BY <2>1 DEF Response
  <2>4. down' = down \/ down' = Append(down, f)
    BY <1>1 DEF RelayPublish
  <2> HIDE DEF e, f
  <2>5. down' \in Seq(Response)
    BY <1>s, <2>3, <2>4
  <2>5a. stamp' \in [Event -> 0..MaxStamp] /\ home' \in [Event -> Channel]
    BY <2>1, <2>2 DEF TypeOK
  <2>6. QED
    BY <1>1, <2>5, <2>5a DEF RelayPublish, TypeOK
<1>2. ASSUME RelayAdmits PROVE TypeOK'
  <2>1. Head(up).c \in Channel /\ Head(up).since \in 0..MaxStamp
    BY <1>2, <1>h DEF RelayAdmits, Question
  <2> DEFINE j == [c |-> Head(up).c, since |-> Head(up).since, registered |-> FALSE]
  <2>1a. j \in [c : Channel, since : 0..MaxStamp, registered : BOOLEAN]
    BY <2>1
  <2>1b. jobs' = jobs \cup {j}
    BY <1>2 DEF RelayAdmits
  <2> HIDE DEF j
  <2>2. jobs' \subseteq [c : Channel, since : 0..MaxStamp, registered : BOOLEAN]
    BY <2>1a, <2>1b DEF TypeOK
  <2>3. QED
    BY <1>2, <1>h, <2>2 DEF RelayAdmits, TypeOK
<1>3. ASSUME NEW why \in {"rate", "other"}, RelayRefuses(why) PROVE TypeOK'
  <2>1. [k |-> "closed", c |-> Head(up).c, why |-> why] \in Response
    BY <1>3, <1>h DEF RelayRefuses, Question, Response
  <2>2. down' \in Seq(Response)
    BY <1>3, <2>1 DEF RelayRefuses, TypeOK
  <2>3. QED
    BY <1>z, <1>3, <1>f, <1>h, <2>2 DEF RelayRefuses, TypeOK
<1>4. ASSUME NEW j \in jobs, RelayRegisters(j) PROVE TypeOK'
  <2>1. j \in [c : Channel, since : 0..MaxStamp, registered : BOOLEAN]
    BY DEF TypeOK
  <2>2. j.since \in -1..MaxStamp /\ j.c \in Channel
    BY <1>n, <2>1
  <2>3. live' \in [Channel -> -1..MaxStamp]
    BY <1>4, <2>2 DEF RelayRegisters, TypeOK
  <2>4. jobs' \subseteq [c : Channel, since : 0..MaxStamp, registered : BOOLEAN]
    BY <1>4, <2>1 DEF RelayRegisters, TypeOK
  <2>5. QED
    BY <1>4, <2>3, <2>4 DEF RelayRegisters, TypeOK
<1>5. ASSUME NEW j \in jobs, RelayReplays(j) PROVE TypeOK'
  <2>1. PICK frames \in Seq(Response) : down' = down \o frames
    BY <1>5, Replayed
  <2>2. down' \in Seq(Response)
    BY <1>s, <2>1
  <2>3. QED
    BY <1>5, <2>2 DEF RelayReplays, TypeOK
<1>6. ASSUME NEW j \in jobs, RelayDenies(j) PROVE TypeOK'
  <2>1. [k |-> "closed", c |-> j.c, why |-> "denied"] \in Response
    BY DEF TypeOK, Response
  <2>2. down' \in Seq(Response)
    BY <1>6, <2>1 DEF RelayDenies, TypeOK
  <2>3. QED
    BY <1>6, <1>f, <2>2 DEF RelayDenies, TypeOK
<1>7. ASSUME NEW c \in Channel, RelayRevokes(c) PROVE TypeOK'
  <2>1. [k |-> "closed", c |-> c, why |-> "denied"] \in Response
    BY DEF Response
  <2>2. down' \in Seq(Response)
    BY <1>7, <2>1 DEF RelayRevokes, TypeOK
  <2>3. live' \in [Channel -> -1..MaxStamp]
    BY <1>7, <1>n DEF RelayRevokes, TypeOK, Unsubscribed
  <2>4. QED
    BY <1>7, <1>f, <2>2, <2>3 DEF RelayRevokes, TypeOK
<1>8. ASSUME RelayCloses PROVE TypeOK'
  <2>1. Head(up).c \in Channel
    BY <1>8, <1>h DEF RelayCloses, Question
  <2>2. [k |-> "closed", c |-> Head(up).c, why |-> "other"] \in Response
    BY <2>1 DEF Response
  <2>3. down' \in Seq(Response)
    BY <1>8, <2>2 DEF RelayCloses, TypeOK
  <2>4. live' \in [Channel -> -1..MaxStamp]
    BY <1>8, <1>n, <2>1 DEF RelayCloses, TypeOK, Unsubscribed
  <2>5. QED
    BY <1>8, <1>h, <2>3, <2>4 DEF RelayCloses, TypeOK
<1>9. ASSUME LinkStalls \/ LinkRecovers PROVE TypeOK'
  BY <1>z, <1>9, <1>f DEF LinkStalls, LinkRecovers, TypeOK
<1>10. ASSUME LinkDies PROVE TypeOK'
  <2>1. up' = <<>> /\ down' = <<>> /\ jobs' = {} /\ live' \in [Channel -> -1..MaxStamp]
    BY <1>10, <1>n DEF LinkDies, RelayForgetsConnection, Unsubscribed
  <2>2. QED
    BY <1>z, <1>10, <1>f, <2>1 DEF LinkDies, TypeOK
<1>11. ASSUME GateOpens PROVE TypeOK'
  BY <1>11 DEF GateOpens, TypeOK
<1>12. ASSUME HarnessTakes PROVE TypeOK'
  <2>1. /\ inbox' \in Seq(Event \cup {Sentinel}) /\ Len(inbox') <= InboxCap
        /\ Head(inbox) \in Event \cup {Sentinel}
    <3>1. inbox # <<>> /\ inbox' = Tail(inbox) /\ inbox \in Seq(Event \cup {Sentinel})
      BY <1>12 DEF HarnessTakes, TypeOK
    <3>2. Len(inbox') = Len(inbox) - 1 /\ Len(inbox) \in Nat
      BY <3>1
    <3>3. QED
      BY <1>n, <3>1, <3>2 DEF TypeOK
  <2> DEFINE f == [k |-> "reconnect"]
  <2>2. f \in Command /\ (cmds' = cmds \/ cmds' = Append(cmds, f))
    BY <1>12 DEF HarnessTakes, Command
  <2> HIDE DEF f
  <2>3. cmds' \in Seq(Command)
    BY <1>s, <2>2
  <2>4. got' \in [Event -> Nat]
    <3>1. CASE Head(inbox) = Sentinel
      BY <1>12, <3>1 DEF HarnessTakes, TypeOK
    <3>2. CASE Head(inbox) # Sentinel
      <4>1. Head(inbox) \in Event /\ got' = [got EXCEPT ![Head(inbox)] = @ + 1]
        BY <1>12, <2>1, <3>2 DEF HarnessTakes
      <4>2. QED
        BY <4>1 DEF TypeOK
    <3>3. QED
      BY <3>1, <3>2
  <2>5. QED
    BY <1>12, <2>1, <2>3, <2>4 DEF HarnessTakes, TypeOK
<1>13. ASSUME NEW c \in Channel, HarnessSubscribes(c) \/ HarnessUnsubscribes(c)
       PROVE  TypeOK'
  <2>1. Now \in 0..MaxStamp
    BY <1>n, NowType DEF TypeOK
  <2> DEFINE f == [k |-> "sub", c |-> c, floor |-> Now]
             g == [k |-> "unsub", c |-> c]
  <2>2. /\ f \in Command /\ g \in Command
        /\ cmds' = Append(cmds, f) \/ cmds' = Append(cmds, g)
    BY <1>13, <2>1 DEF HarnessSubscribes, HarnessUnsubscribes, Command
  <2> HIDE DEF f, g
  <2>3. cmds' \in Seq(Command)
    BY <1>s, <2>2
  <2>4. asks' \in 0..MaxAsks /\ subscribed' \subseteq Channel
    BY <1>13, <1>n DEF HarnessSubscribes, HarnessUnsubscribes, TypeOK
  <2>5. QED
    BY <1>z, <1>13, <2>3, <2>4 DEF HarnessSubscribes, HarnessUnsubscribes, TypeOK
<1>14. ASSUME ClientReadsEvent PROVE TypeOK'
  <2>1. /\ down' \in Seq(Response) /\ Head(down).e \in Event
    BY <1>14, <1>h DEF ClientReadsEvent, Response
  <2> DEFINE e == Head(down).e
             c == home[e]
  <2>2. e \in Event /\ c \in Channel /\ stamp[e] \in 0..MaxStamp
    BY <2>1 DEF TypeOK
  <2>3. CASE Known(e)
    BY <1>14, <2>1, <2>3 DEF ClientReadsEvent, TypeOK
  <2>4. CASE ~Known(e)
    <3>1. lastSeen' = [lastSeen EXCEPT ![c] = Later(@, stamp[e])]
      BY <1>14, <2>4 DEF ClientReadsEvent
    <3>2. lastSeen' \in [Channel -> 0..MaxStamp]
      BY <2>2, <3>1 DEF TypeOK, Later
    <3>3. /\ Remember(e) \in [current : SUBSET Event, previous : SUBSET Event]
          /\ Forget(Remember(e), e) \in [current : SUBSET Event, previous : SUBSET Event]
      <4>1. seen \in [current : SUBSET Event, previous : SUBSET Event]
        BY DEF TypeOK
      <4>2. Remember(e) \in [current : SUBSET Event, previous : SUBSET Event]
        BY <2>2, <4>1 DEF Remember
      <4>3. QED
        BY <4>2 DEF Forget
    <3>4. CASE Len(inbox) < InboxCap
      <4>1. seen' = Remember(e) /\ inbox' = Append(inbox, e) /\ UNCHANGED <<dropped, resubNeeded, faults>>
        BY <1>14, <2>4, <3>4 DEF ClientReadsEvent
      <4>2. inbox' \in Seq(Event \cup {Sentinel}) /\ Len(inbox') = Len(inbox) + 1 /\ Len(inbox) \in Nat
        BY <2>2, <4>1 DEF TypeOK
      <4>3. Len(inbox') <= InboxCap
        BY <1>n, <3>4, <4>2
      <4> HIDE DEF e, c
      <4>4. QED
        BY <1>14, <2>1, <3>2, <3>3, <4>1, <4>2, <4>3 DEF ClientReadsEvent, TypeOK
    <3>5. CASE ~(Len(inbox) < InboxCap)
      <4>1. /\ seen' = Forget(Remember(e), e) /\ UNCHANGED inbox /\ resubNeeded' = TRUE
            /\ faults < MaxFaults /\ faults' = faults + 1
            /\ dropped' = [dropped EXCEPT ![c] =
                             IF @ = 0 THEN stamp[e] ELSE Earlier(@, stamp[e])]
        BY <1>14, <2>4, <3>5 DEF ClientReadsEvent, MayFail
      <4> HIDE DEF e, c
      <4>2. dropped' \in [Channel -> 0..MaxStamp]
        BY <2>2, <4>1 DEF TypeOK, Earlier
      <4>3. faults' \in 0..MaxFaults
        BY <1>n, <4>1 DEF TypeOK
      <4>4. QED
        BY <1>14, <2>1, <3>2, <3>3, <4>1, <4>2, <4>3 DEF ClientReadsEvent, TypeOK
    <3>6. QED
      BY <3>4, <3>5
  <2>5. QED
    BY <2>3, <2>4
<1>15. ASSUME ClientReadsDenial \/ ClientReadsRateLimit \/ ClientReadsClosed PROVE TypeOK'
  <2>1. down' \in Seq(Response) /\ Head(down).c \in Channel
    BY <1>15, <1>h
       DEF ClientReadsDenial, ClientReadsRateLimit, ClientReadsClosed, Response
  <2>2. CASE ClientReadsDenial
    <3>1. ForgetChannel(Head(down).c)
      BY <2>2 DEF ClientReadsDenial
    <3>2. QED
      BY <2>1, <2>2, <3>1, ForgetType DEF ClientReadsDenial, TypeOK
  <2>3. CASE ClientReadsRateLimit
    BY <2>1, <2>3 DEF ClientReadsRateLimit, TypeOK
  <2>4. CASE ClientReadsClosed
    <3> DEFINE c == Head(down).c
    <3>1. CASE c \in active
      <4>1. /\ Write(Req(c, ChannelSince(c))) /\ dropped' = [dropped EXCEPT ![c] = 0]
            /\ swallowed' = swallowed \ {c}
        BY <2>4, <3>1 DEF ClientReadsClosed, AsksAgain
      <4>2. up' \in Seq(Question)
        BY <2>1, <4>1, SinceTypes, ReqType, Written
      <4>3. dropped' \in [Channel -> 0..MaxStamp]
        BY <1>d, <2>1, <4>1
      <4>4. QED
        BY <1>z, <2>1, <2>4, <4>1, <4>2, <4>3 DEF ClientReadsClosed, TypeOK
    <3>2. CASE c \notin active
      BY <2>1, <2>4, <3>2 DEF ClientReadsClosed, TypeOK
    <3>3. QED
      BY <3>1, <3>2
  <2>5. QED
    BY <1>15, <2>2, <2>3, <2>4
<1>16. ASSUME ClientNotices PROVE TypeOK'
  <2>1. GoOffline /\ inbox' = SignalTo(inbox)
    BY <1>16 DEF ClientNotices
  <2>2. /\ phase' = "offline" /\ sock' = "down" /\ swallowed' = {}
        /\ up' = <<>> /\ down' = <<>> /\ jobs' = {}
        /\ live' \in [Channel -> -1..MaxStamp]
        /\ fresh' = FALSE /\ todo' = todo
        /\ inbox' \in Seq(Event \cup {Sentinel}) /\ Len(inbox') <= InboxCap
    BY <2>1, OfflineType, SignalType
  <2>3. QED
    BY <1>z, <1>16, <1>e, <2>2 DEF ClientNotices, TypeOK
<1>17. ASSUME cmds # <<>>, Head(cmds).k # "reconnect", Executes(Head(cmds)) PROVE TypeOK'
  <2> DEFINE cmd == Head(cmds)
             st == Intent(Intents, cmd)
  <2>1. cmd \in Command /\ cmds' \in Seq(Command) /\ st \in IntentType
    BY <1>17, <1>h, IntentsType, OneIntent DEF Executes
  <2>2. cmd.c \in Channel
    BY <1>17, <2>1 DEF Command
  <2>3. CASE SubscribeGated(cmd)
    <3>1. [st EXCEPT !.parked = @ \cup {cmd.c}] \in IntentType
      BY <2>1, <2>2 DEF IntentType
    <3>2. BecomesIntents([st EXCEPT !.parked = @ \cup {cmd.c}]) /\ up' = up
      BY <2>3 DEF SubscribeGated
    <3> HIDE DEF st, cmd
    <3>3. QED
      BY <1>17, <2>1, <3>1, <3>2, BecomesType DEF Executes, TypeOK
  <2>4. CASE SubscribeSent(cmd)
    <3> DEFINE since == IF lastSeen[cmd.c] > 0 THEN lastSeen[cmd.c] ELSE st.floor[cmd.c]
               new == [st EXCEPT !.parked = @ \ {cmd.c}, !.retry = @ \ {cmd.c}]
    <3>1. new \in IntentType
      BY <2>1, <2>2 DEF IntentType
    <3>2. since \in 0..MaxStamp
      BY <2>1, <2>2 DEF TypeOK, IntentType
    <3>3. BecomesIntents(new) /\ Write(Req(cmd.c, since))
      BY <2>4 DEF SubscribeSent
    <3> HIDE DEF st, cmd, since, new
    <3>4. up' \in Seq(Question)
      BY <2>2, <3>2, <3>3, ReqType, Written
    <3>5. QED
      BY <1>17, <2>1, <3>1, <3>3, <3>4, BecomesType DEF Executes, TypeOK
  <2>5. CASE UnsubscribeSent(cmd)
    <3> DEFINE f == [k |-> "close", c |-> cmd.c]
    <3>1. f \in Question
      BY <2>2 DEF Question
    <3>2. ForgetChannel(cmd.c) /\ (Write(f) \/ up' = up)
      BY <2>5 DEF UnsubscribeSent
    <3> HIDE DEF st, cmd, f
    <3>3. up' \in Seq(Question)
      BY <3>1, <3>2, Written DEF TypeOK
    <3>4. QED
      BY <1>17, <2>1, <2>2, <3>2, <3>3, ForgetType DEF Executes, TypeOK
  <2>6. QED
    BY <1>17, <2>3, <2>4, <2>5 DEF Executes
<1>18. ASSUME ClientFailsToExecute \/ ClientAppliesOffline PROVE TypeOK'
  <2> DEFINE st == Intent(Intents, Head(cmds))
  <2>1. st \in IntentType /\ BecomesIntents(st) /\ cmds' \in Seq(Command)
    BY <1>18, <1>h, IntentsType, OneIntent DEF ClientFailsToExecute, ClientAppliesOffline
  <2> HIDE DEF st
  <2>2. CASE ClientFailsToExecute
    <3>1. GoOffline /\ inbox' = SignalTo(inbox)
      BY <2>2 DEF ClientFailsToExecute
    <3>2. /\ phase' = "offline" /\ sock' = "down" /\ swallowed' = {}
          /\ up' = <<>> /\ down' = <<>> /\ jobs' = {}
          /\ live' \in [Channel -> -1..MaxStamp]
          /\ fresh' = FALSE /\ todo' = todo
          /\ inbox' \in Seq(Event \cup {Sentinel}) /\ Len(inbox') <= InboxCap
      BY <3>1, OfflineType, SignalType
    <3>3. /\ active' \subseteq Channel /\ parked' \subseteq Channel /\ retry' \subseteq Channel
          /\ lastSeen' \in [Channel -> 0..MaxStamp]
          /\ dropped' \in [Channel -> 0..MaxStamp]
          /\ floor' \in [Channel -> 0..MaxStamp]
      BY <2>1, BecomesType
    <3>4. QED
      BY <1>z, <1>e, <2>1, <2>2, <3>2, <3>3 DEF ClientFailsToExecute, TypeOK
  <2>3. CASE ClientAppliesOffline
    BY <2>1, <2>3, BecomesType DEF ClientAppliesOffline, TypeOK
  <2>4. QED
    BY <1>18, <2>2, <2>3
<1>19. ASSUME ClientReconnects PROVE TypeOK'
  <2>1. GoOffline /\ cmds' \in Seq(Command)
    BY <1>19, <1>h DEF ClientReconnects
  <2>2. /\ phase' = "offline" /\ sock' = "down" /\ swallowed' = {}
        /\ up' = <<>> /\ down' = <<>> /\ jobs' = {}
        /\ live' \in [Channel -> -1..MaxStamp]
        /\ fresh' = FALSE /\ todo' = todo
    BY <2>1, OfflineType
  <2>3. QED
    BY <1>z, <1>19, <1>e, <2>1, <2>2 DEF ClientReconnects, TypeOK
<1>20. ASSUME ClientConnects \/ ClientResubscribes \/ ResubscribedAll \/ Drained
       PROVE  TypeOK'
  <2>1. CASE ClientConnects
    BY <2>1 DEF ClientConnects, TypeOK
  <2>2. CASE ClientResubscribes
    BY <2>2 DEF ClientResubscribes, TypeOK
  <2>3. CASE ResubscribedAll
    BY <2>3 DEF ResubscribedAll, TypeOK
  <2>4. CASE Drained
    BY <2>4 DEF Drained, Draining, TypeOK
  <2>5. QED
    BY <1>20, <2>1, <2>2, <2>3, <2>4
<1>21. ASSUME NEW c \in Channel, ResubscribesOne(c) \/ DrainParked(c) \/ DrainRetry(c)
       PROVE  TypeOK'
  <2>1. ChannelSince(c) \in 0..MaxStamp /\ Req(c, ChannelSince(c)) \in Question
    BY SinceTypes, ReqType
  <2>2. /\ Write(Req(c, ChannelSince(c))) \/ up' = up
        /\ dropped' = dropped \/ dropped' = [dropped EXCEPT ![c] = 0]
        /\ parked' \subseteq parked \cup {c} /\ retry' \subseteq retry \cup {c}
        /\ swallowed' \subseteq swallowed
    BY <1>21 DEF ResubscribesOne, DrainParked, DrainRetry, AsksAgain
  <2>3. up' \in Seq(Question)
    BY <2>1, <2>2, Written DEF TypeOK
  <2>4. dropped' \in [Channel -> 0..MaxStamp]
    <3>1. dropped \in [Channel -> 0..MaxStamp]
      BY DEF TypeOK
    <3>2. QED
      BY <1>d, <2>2, <3>1
  <2>5. todo' \subseteq Channel /\ phase' = phase /\ sock' = sock /\ gate' = gate
    BY <1>21 DEF ResubscribesOne, DrainParked, DrainRetry, TypeOK
  <2>6. CASE ResubscribesOne(c)
    BY <1>z, <2>2, <2>3, <2>4, <2>5, <2>6 DEF ResubscribesOne, TypeOK
  <2>7. CASE DrainParked(c) \/ DrainRetry(c)
    BY <1>z, <2>2, <2>3, <2>4, <2>5, <2>7 DEF DrainParked, DrainRetry, TypeOK
  <2>8. QED
    BY <1>21, <2>6, <2>7
<1>22. ASSUME DrainSkipsReconnect PROVE TypeOK'
  BY <1>22, <1>h DEF DrainSkipsReconnect, TypeOK
<1>23. ASSUME DrainFails PROVE TypeOK'
  <2>1. /\ BecomesIntents(AllIntents(cmds)) /\ cmds' = <<>>
        /\ AllIntents(cmds) \in IntentType
    BY <1>23, IntentsType, ManyIntents DEF DrainFails, TypeOK
  <2>2. /\ active' \subseteq Channel /\ parked' \subseteq Channel /\ retry' \subseteq Channel
        /\ lastSeen' \in [Channel -> 0..MaxStamp]
        /\ dropped' \in [Channel -> 0..MaxStamp]
        /\ floor' \in [Channel -> 0..MaxStamp]
        /\ cmds' \in Seq(Command)
    BY <2>1, BecomesType
  <2>3. CASE phase = "drain"
    <3>1. GoOffline /\ (inbox' = inbox \/ inbox' = SignalTo(inbox))
      BY <1>23, <2>3 DEF DrainFails
    <3>2. /\ phase' = "offline" /\ sock' = "down" /\ swallowed' = {}
          /\ up' = <<>> /\ down' = <<>> /\ jobs' = {}
          /\ live' \in [Channel -> -1..MaxStamp]
          /\ fresh' = FALSE /\ todo' = todo
          /\ inbox' \in Seq(Event \cup {Sentinel}) /\ Len(inbox') <= InboxCap
      <4>1. inbox \in Seq(Event \cup {Sentinel}) /\ Len(inbox) <= InboxCap
        BY DEF TypeOK
      <4>2. QED
        BY <3>1, <4>1, OfflineType, SignalType
    <3>3. QED
      BY <1>z, <1>23, <1>e, <2>2, <3>2 DEF DrainFails, TypeOK
  <2>4. CASE phase # "drain"
    <3>1. \A i \in 1..Len(cmds) : cmds[i].k = "sub" => cmds[i].c \in Channel
      <4>1. \A i \in 1..Len(cmds) : cmds[i] \in Command
        BY DEF TypeOK
      <4>2. QED
        BY <4>1 DEF Command
    <3>2. swallowed' \subseteq Channel
      <4> DEFINE K == {cmds[i].c : i \in {n \in 1..Len(cmds) : cmds[n].k = "sub"}}
      <4>1. swallowed' = swallowed \cup K
        BY <1>23, <2>4 DEF DrainFails
      <4>2. K \subseteq Channel
        BY <3>1
      <4>3. swallowed \subseteq Channel
        BY DEF TypeOK
      <4> HIDE DEF K
      <4>4. QED
        BY <4>1, <4>2, <4>3
    <3>3. QED
      BY <1>z, <1>23, <2>2, <2>4, <3>2 DEF DrainFails, Draining, TypeOK
  <2>5. QED
    BY <2>3, <2>4
<1>24. ASSUME Task PROVE TypeOK'
  <2>1. todo \subseteq Channel /\ parked \subseteq Channel /\ retry \subseteq Channel
    BY DEF TypeOK
  <2>2. QED
    BY <1>14, <1>15, <1>16, <1>17, <1>18, <1>19, <1>20, <1>21, <1>22, <1>23, <1>24, <2>1
       DEF Task, ClientExecutes, DrainExecutes
<1>25. CASE UNCHANGED vars
  BY <1>25 DEF vars, TypeOK
<1>26. QED
  BY <1>1, <1>2, <1>3, <1>4, <1>5, <1>6, <1>7, <1>8, <1>9, <1>10, <1>11, <1>12, <1>13,
     <1>24, <1>25 DEF Next, Relay, Faults, Asks

(* THEOREM: every variable of the link keeps its type: in particular the   *)
(* event channel never holds more than its capacity (try_send), every      *)
(* frame on either line is well formed, and the background task is offline *)
(* exactly when it has no socket.                                          *)
THEOREM LinkTypes == Spec => []TypeOK
<1>1. Init => TypeOK
  BY TypeInit
<1>2. TypeOK /\ [Next]_vars => TypeOK'
  BY TypeStep
<1>3. QED
  BY <1>1, <1>2, PTL DEF Spec

-----------------------------------------------------------------------------
(* No subscription is silently dead.                                       *)

(* Some frame of the line is of kind k and names channel c. *)
Named(q, k, c) == \E i \in 1..Len(q) : q[i].k = k /\ q[i].c = c

(* Somebody cares for the channel: it is registered, will be, or will be   *)
(* asked for.  A registered handler counts for nothing: the registration   *)
(* it made may have been revoked since.                                    *)
Cared(c) ==
    \/ live[c] # Unsubscribed
    \/ \E j \in jobs : j.c = c /\ ~j.registered
    \/ Named(up, "req", c)
    \/ c \in parked
    \/ c \in retry
    \/ Named(down, "closed", c)
    \/ resubNeeded
    \/ phase = "resub" /\ c \in todo

Attached == sock \in {"up", "stuck"} => \A c \in active \ swallowed : Cared(c)

LEMMA NamedAppend ==
    ASSUME NEW S, NEW q \in Seq(S), NEW f \in S, NEW k, NEW c
    PROVE  /\ Named(q, k, c) => Named(Append(q, f), k, c)
           /\ f.k = k /\ f.c = c => Named(Append(q, f), k, c)
<1>1. /\ Len(q) \in Nat /\ Len(Append(q, f)) = Len(q) + 1
      /\ Append(q, f)[Len(q) + 1] = f
      /\ \A i \in 1..Len(q) : Append(q, f)[i] = q[i]
  OBVIOUS
<1>2. Len(q) + 1 \in 1..(Len(q) + 1) /\ \A i \in 1..Len(q) : i \in 1..(Len(q) + 1)
  BY <1>1
<1>3. QED
  BY <1>1, <1>2 DEF Named

LEMMA NamedTail ==
    ASSUME NEW S, NEW q \in Seq(S), q # <<>>, NEW k, NEW c,
           ~(Head(q).k = k /\ Head(q).c = c), Named(q, k, c)
    PROVE  Named(Tail(q), k, c)
<1>1. /\ Len(q) \in Nat \ {0} /\ Len(Tail(q)) = Len(q) - 1 /\ Head(q) = q[1]
      /\ \A i \in 1..(Len(q) - 1) : Tail(q)[i] = q[i + 1]
  OBVIOUS
<1>2. PICK i \in 1..Len(q) : q[i].k = k /\ q[i].c = c
  BY DEF Named
<1>3. i # 1
  BY <1>1, <1>2
<1>4. i - 1 \in 1..(Len(q) - 1) /\ (i - 1) + 1 = i
  BY <1>1, <1>3
<1>5. Tail(q)[i - 1] = q[i]
  BY <1>1, <1>4
<1>6. QED
  BY <1>1, <1>2, <1>4, <1>5 DEF Named

LEMMA NamedConcat ==
    ASSUME NEW S, NEW q \in Seq(S), NEW r \in Seq(S), NEW k, NEW c, Named(q, k, c)
    PROVE  Named(q \o r, k, c)
<1>1. /\ Len(q) \in Nat /\ Len(r) \in Nat /\ Len(q \o r) = Len(q) + Len(r)
      /\ \A i \in 1..Len(q) : (q \o r)[i] = q[i]
  OBVIOUS
<1>2. \A i \in 1..Len(q) : i \in 1..(Len(q) + Len(r))
  BY <1>1
<1>3. QED
  BY <1>1, <1>2 DEF Named

(* A question written on a working socket is on the line, and none before  *)
(* it is lost.                                                             *)
LEMMA WriteKeeps ==
    ASSUME TypeOK, NEW f \in Question, Write(f), NEW c
    PROVE  /\ Named(up, "req", c) => Named(up', "req", c)
           /\ sock = "up" /\ f.k = "req" /\ f.c = c => Named(up', "req", c)
<1>1. up \in Seq(Question)
  BY DEF TypeOK
<1>2. CASE sock = "up"
  <2>1. up' = Append(up, f)
    BY <1>2 DEF Write
  <2>2. QED
    BY <1>1, <2>1, NamedAppend
<1>3. CASE sock # "up"
  BY <1>3 DEF Write
<1>4. QED
  BY <1>2, <1>3

(* The one place the harness's subscription becomes active on a socket:    *)
(* parked behind the gate, or on the line.                                 *)
LEMMA ExecuteAttaches ==
    ASSUME TypeOK, cmds # <<>>, Head(cmds).k # "reconnect", Executes(Head(cmds)),
           sock \in {"up", "stuck"}, \A c \in active \ swallowed : Cared(c),
           NEW d \in active' \ swallowed'
    PROVE  Cared(d)'
<1> DEFINE cmd == Head(cmds)
           st == Intent(Intents, cmd)
<1>d. d # cmd.c => d \notin swallowed
  BY DEF Executes
<1>1. cmd \in Command
  BY DEF TypeOK
<1>2. cmd.c \in Channel
  BY <1>1 DEF Command
<1>3. /\ live' = live /\ jobs' = jobs /\ sock' = sock /\ down' = down /\ phase' = phase
      /\ todo' = todo /\ resubNeeded' = resubNeeded
  BY DEF Executes, relayVars, taskVars
<1>4. cmd.k = "sub" => /\ st.active = active \cup {cmd.c}
                       /\ st.parked = parked /\ st.retry = retry
                       /\ st.floor[cmd.c] \in 0..MaxStamp
  <2>1. ASSUME cmd.k = "sub" PROVE cmd.floor \in 0..MaxStamp
    BY <1>1, <2>1 DEF Command
  <2>2. ASSUME cmd.k = "sub"
        PROVE  st = [Intents EXCEPT !.active = @ \cup {cmd.c},
                                    !.floor[cmd.c] = IF @ = 0 THEN cmd.floor ELSE @]
    BY <2>2 DEF Intent
  <2>3. st \in IntentType
    BY <1>1, IntentsType, OneIntent
  <2>4. ASSUME cmd.k = "sub"
        PROVE  st.active = active \cup {cmd.c} /\ st.parked = parked /\ st.retry = retry
    BY <2>2, <2>4 DEF Intents
  <2>5. QED
    BY <1>2, <2>3, <2>4 DEF IntentType
<1>5. CASE cmd.k = "sub" /\ SubscribeGated(cmd)
  <2>1. /\ active' = st.active /\ retry' = st.retry /\ up' = up
        /\ parked' = st.parked \cup {cmd.c}
    <3>1. st \in IntentType
      BY <1>1, IntentsType, OneIntent
    <3> HIDE DEF st
    <3>2. BecomesIntents([st EXCEPT !.parked = @ \cup {cmd.c}]) /\ up' = up
      BY <1>5 DEF SubscribeGated, st
    <3>3. QED
      BY <3>1, <3>2 DEF BecomesIntents, IntentType
  <2> HIDE DEF cmd, st
  <2>2. QED
    BY <1>d, <1>3, <1>4, <1>5, <2>1 DEF Cared
<1>6. CASE cmd.k = "sub" /\ SubscribeSent(cmd)
  <2> DEFINE since == IF lastSeen[cmd.c] > 0 THEN lastSeen[cmd.c] ELSE st.floor[cmd.c]
             f == Req(cmd.c, since)
  <2>1. since \in 0..MaxStamp
    BY <1>2, <1>4, <1>6 DEF TypeOK
  <2>2. f \in Question /\ f.k = "req" /\ f.c = cmd.c
    <3>1. f \in Question
      BY <1>2, <2>1, ReqType
    <3>2. QED
      BY <3>1 DEF Req
  <2>3. /\ active' = st.active /\ retry' = st.retry \ {cmd.c}
        /\ parked' = st.parked \ {cmd.c}
    <3>1. st \in IntentType
      BY <1>1, IntentsType, OneIntent
    <3> HIDE DEF st
    <3>2. BecomesIntents([st EXCEPT !.parked = @ \ {cmd.c}, !.retry = @ \ {cmd.c}])
      BY <1>6 DEF SubscribeSent, st
    <3>3. QED
      BY <3>1, <3>2 DEF BecomesIntents, IntentType
  <2>4. sock = "up" /\ Write(f)
    BY <1>6 DEF SubscribeSent, Writable
  <2> HIDE DEF cmd, st, since, f
  <2>5. Named(up, "req", d) => Named(up', "req", d)
    BY <2>2, <2>4, WriteKeeps
  <2>6. d = cmd.c => Named(up', "req", d)
    BY <2>2, <2>4, WriteKeeps
  <2>7. QED
    BY <1>d, <1>3, <1>4, <1>6, <2>3, <2>5, <2>6 DEF Cared
<1>7. CASE cmd.k = "unsub" /\ UnsubscribeSent(cmd)
  <2> DEFINE f == [k |-> "close", c |-> cmd.c]
  <2>1. f \in Question
    BY <1>2 DEF Question
  <2>2. Write(f) \/ up' = up
    BY <1>7 DEF UnsubscribeSent
  <2>3. active' = active \ {cmd.c} /\ parked' = parked \ {cmd.c} /\ retry' = retry \ {cmd.c}
    BY <1>7 DEF UnsubscribeSent, ForgetChannel
  <2> HIDE DEF cmd, f
  <2>4. Named(up, "req", d) => Named(up', "req", d)
    BY <2>1, <2>2, WriteKeeps
  <2>5. QED
    BY <1>d, <1>3, <2>3, <2>4 DEF Cared
<1>8. QED
  BY <1>5, <1>6, <1>7 DEF Executes

-----------------------------------------------------------------------------
(* No event reaches the harness twice.                                     *)

(* The size at which a generation of seen_ids is full. *)
Generation == SeenLimit \div 2

(* The dedup window holds every event there can be: a generation is        *)
(* discarded only when the next is full, and the events do not fill two.   *)
WindowHolds == MaxEvents + 1 < 2 * Generation

Remembered(s) == s.current \cup s.previous

(* A generation that was rotated out was full, but for the event dropped   *)
(* at that moment.                                                         *)
Generations(s) ==
    /\ s.current \cap s.previous = {}
    /\ Cardinality(s.current) < Generation
    /\ s.previous = {} \/ Cardinality(s.previous) >= Generation - 1

(* What waits in the channel q is remembered (K), has not been taken (g),  *)
(* and waits once.                                                         *)
WaitsOnce(q, K, g) ==
    \A i \in 1..Len(q) : q[i] # Sentinel =>
        /\ q[i] \in K
        /\ g[q[i]] = 0
        /\ \A k \in 1..Len(q) : k # i => q[k] # q[i]

TakenOnce(K, g) == \A e \in Event : g[e] <= 1 /\ (g[e] > 0 => e \in K)

Deduped ==
    /\ Generations(seen)
    /\ TakenOnce(Remembered(seen), got)
    /\ WaitsOnce(inbox, Remembered(seen), got)

(* Remembering a new event, and forgetting it again at once, loses no      *)
(* other.                                                                  *)
LEMMA RememberKeeps ==
    ASSUME WindowHolds, TypeOK, Generations(seen), NEW e \in Event,
           e \notin Remembered(seen)
    PROVE  /\ Remembered(Remember(e)) = Remembered(seen) \cup {e}
           /\ Generations(Remember(e))
           /\ Remembered(Forget(Remember(e), e)) = Remembered(seen)
           /\ Generations(Forget(Remember(e), e))
<1> DEFINE L == Generation
           cur == seen.current
           prev == seen.previous
           full == cur \cup {e}
<1>1. MaxEvents \in Nat /\ SeenLimit \in Nat /\ L \in Nat
  BY LinkAssumption DEF Generation
<1>2. L >= 1 /\ MaxEvents + 1 < 2 * L
  BY <1>1 DEF WindowHolds
<1>3. /\ cur \in SUBSET Event /\ prev \in SUBSET Event
      /\ seen \in [current : SUBSET Event, previous : SUBSET Event]
  BY DEF TypeOK
<1>4. IsFiniteSet(Event) /\ Cardinality(Event) = MaxEvents
  BY <1>1, FS_Interval DEF Event
<1>5. /\ IsFiniteSet(cur) /\ IsFiniteSet(prev)
      /\ Cardinality(cur) \in Nat /\ Cardinality(prev) \in Nat
  BY <1>3, <1>4, FS_Subset, FS_CardinalityType
<1>6. e \notin cur /\ e \notin prev
  BY DEF Remembered
<1>7. IsFiniteSet(full) /\ Cardinality(full) = Cardinality(cur) + 1
  BY <1>5, <1>6, FS_AddElement
<1>8. /\ cur \cap prev = {} /\ Cardinality(cur) < L
      /\ prev = {} \/ Cardinality(prev) >= L - 1
  BY DEF Generations
<1>e. IsFiniteSet({}) /\ Cardinality({}) = 0
  BY FS_EmptySet
<1>9. CASE Cardinality(full) >= L
  <2>1. prev = {}
    <3> SUFFICES ASSUME prev # {} PROVE FALSE
      OBVIOUS
    <3>1. Cardinality(prev) >= L - 1
      BY <1>8
    <3>2. full \cap prev = {}
      BY <1>6, <1>8
    <3>3. Cardinality(full \cup prev) = Cardinality(full) + Cardinality(prev)
      <4> HIDE DEF full, prev, cur
      <4>1. Cardinality(full \cup prev)
              = Cardinality(full) + Cardinality(prev) - Cardinality(full \cap prev)
        BY <1>5, <1>7, FS_Union
      <4>2. Cardinality(full \cap prev) = 0
        BY <1>e, <3>2
      <4>3. QED
        BY <1>5, <1>7, <4>1, <4>2
    <3>4. Cardinality(full \cup prev) <= MaxEvents
      BY <1>3, <1>4, FS_Subset
    <3> HIDE DEF cur, prev, full, L
    <3>5. QED
      BY <1>1, <1>2, <1>5, <1>7, <1>9, <3>1, <3>3, <3>4
  <2>2. Remember(e) = [current |-> {}, previous |-> full]
    BY <1>9 DEF Remember, Generation
  <2>3. Forget(Remember(e), e) = [current |-> {}, previous |-> cur]
    <3>1. full \ {e} = cur /\ {} \ {e} = {}
      BY <1>6
    <3>2. QED
      BY <2>2, <3>1 DEF Forget
  <2>4. Remember(e).current = {} /\ Remember(e).previous = full
    BY <2>2
  <2>5. Forget(Remember(e), e).current = {} /\ Forget(Remember(e), e).previous = cur
    BY <2>3
  <2>6. Remembered(seen) = cur
    BY <2>1 DEF Remembered
  <2>7. Cardinality(full) >= L - 1 /\ Cardinality(cur) >= L - 1 /\ 0 < L
    BY <1>1, <1>2, <1>5, <1>7, <1>9
  <2> HIDE DEF cur, prev, full
  <2>8. Remembered(Remember(e)) = full /\ Generations(Remember(e))
    BY <1>e, <2>4, <2>7 DEF Remembered, Generations
  <2>9. Remembered(Forget(Remember(e), e)) = cur /\ Generations(Forget(Remember(e), e))
    BY <1>e, <2>5, <2>7 DEF Remembered, Generations
  <2>10. QED
    BY <2>6, <2>8, <2>9 DEF full
<1>10. CASE ~(Cardinality(full) >= L)
  <2>1. Remember(e) = [seen EXCEPT !.current = full]
    BY <1>10 DEF Remember, Generation
  <2>2. Remember(e).current = full /\ Remember(e).previous = prev
    BY <1>3, <2>1
  <2>3. Forget(Remember(e), e).current = cur /\ Forget(Remember(e), e).previous = prev
    BY <1>6, <2>2 DEF Forget
  <2>4. Cardinality(full) < L /\ full \cap prev = {}
    BY <1>1, <1>5, <1>6, <1>7, <1>8, <1>10
  <2>5. Remembered(seen) = cur \cup prev
    BY DEF Remembered
  <2>6. full \cup prev = (cur \cup prev) \cup {e}
    OBVIOUS
  <2> HIDE DEF cur, prev, full
  <2>7. QED
    BY <1>8, <2>2, <2>3, <2>4, <2>5, <2>6 DEF Remembered, Generations
<1>11. QED
  BY <1>9, <1>10

LEMMA SignalWaits ==
    ASSUME NEW q \in Seq(Event \cup {Sentinel}), NEW K, NEW g, WaitsOnce(q, K, g)
    PROVE  WaitsOnce(SignalTo(q), K, g)
<1>1. /\ Len(q) \in Nat /\ Len(Append(q, Sentinel)) = Len(q) + 1
      /\ Append(q, Sentinel)[Len(q) + 1] = Sentinel
      /\ \A i \in 1..Len(q) : Append(q, Sentinel)[i] = q[i]
  OBVIOUS
<1>2. \A i \in 1..(Len(q) + 1) : i \in 1..Len(q) \/ i = Len(q) + 1
  BY <1>1
<1>3. WaitsOnce(Append(q, Sentinel), K, g)
  BY <1>1, <1>2 DEF WaitsOnce
<1>4. QED
  BY <1>3 DEF SignalTo

LEMMA AppendWaits ==
    ASSUME NEW q \in Seq(Event \cup {Sentinel}), NEW K, NEW g, WaitsOnce(q, K, g),
           NEW e \in Event, e \notin K, g[e] = 0
    PROVE  WaitsOnce(Append(q, e), K \cup {e}, g)
<1>0. e # Sentinel
  BY LinkAssumption DEF Event, Sentinel
<1>1. /\ Len(q) \in Nat /\ Len(Append(q, e)) = Len(q) + 1
      /\ Append(q, e)[Len(q) + 1] = e
      /\ \A i \in 1..Len(q) : Append(q, e)[i] = q[i]
  OBVIOUS
<1>2. \A i \in 1..(Len(q) + 1) : i \in 1..Len(q) \/ i = Len(q) + 1
  BY <1>1
<1>3. \A i \in 1..Len(q) : q[i] # e
  BY <1>0 DEF WaitsOnce
<1>4. QED
  BY <1>0, <1>1, <1>2, <1>3 DEF WaitsOnce

(* Taking the head. *)
LEMMA TailWaits ==
    ASSUME NEW q \in Seq(Event \cup {Sentinel}), q # <<>>, NEW K, NEW g, NEW h,
           WaitsOnce(q, K, g),
           \A e \in Event : (Head(q) = Sentinel \/ e # Head(q)) => h[e] = g[e]
    PROVE  WaitsOnce(Tail(q), K, h)
<1>1. /\ Len(q) \in Nat \ {0} /\ Len(Tail(q)) = Len(q) - 1 /\ Head(q) = q[1]
      /\ \A i \in 1..(Len(q) - 1) : Tail(q)[i] = q[i + 1]
      /\ \A i \in 1..Len(q) : q[i] \in Event \cup {Sentinel}
  OBVIOUS
<1> SUFFICES ASSUME NEW i \in 1..Len(Tail(q)), Tail(q)[i] # Sentinel
             PROVE  /\ Tail(q)[i] \in K
                    /\ h[Tail(q)[i]] = 0
                    /\ \A k \in 1..Len(Tail(q)) : k # i => Tail(q)[k] # Tail(q)[i]
  BY DEF WaitsOnce
<1>2. /\ i + 1 \in 1..Len(q) /\ i + 1 # 1 /\ 1 \in 1..Len(q) /\ Tail(q)[i] = q[i + 1]
  BY <1>1
<1>3. q[i + 1] \in K /\ g[q[i + 1]] = 0 /\ \A k \in 1..Len(q) : k # i + 1 => q[k] # q[i + 1]
  BY <1>2 DEF WaitsOnce
<1>4. q[i + 1] # Head(q) /\ q[i + 1] \in Event
  BY <1>1, <1>2, <1>3
<1>5. ASSUME NEW k \in 1..Len(Tail(q)), k # i PROVE Tail(q)[k] # Tail(q)[i]
  <2>1. k + 1 \in 1..Len(q) /\ k + 1 # i + 1 /\ Tail(q)[k] = q[k + 1]
    BY <1>1, <1>5
  <2>2. QED
    BY <1>2, <1>3, <2>1
<1>6. QED
  BY <1>2, <1>3, <1>4, <1>5

LEMMA DedupStep ==
    ASSUME WindowHolds
    PROVE  TypeOK /\ Deduped /\ [Next]_vars => Deduped'
<1> SUFFICES ASSUME TypeOK, Deduped, [Next]_vars PROVE Deduped'
  OBVIOUS
<1> USE DEF relayVars, wireVars, taskVars, markVars, parkVars, harnessVars, budgetVars
<1>t. inbox \in Seq(Event \cup {Sentinel}) /\ got \in [Event -> Nat]
  BY DEF TypeOK
<1>1. ASSUME UNCHANGED <<seen, got>>, inbox' = inbox \/ inbox' = SignalTo(inbox)
      PROVE  Deduped'
  <2>1. WaitsOnce(SignalTo(inbox), Remembered(seen), got)
    BY <1>t, SignalWaits DEF Deduped
  <2>2. QED
    BY <1>1, <2>1 DEF Deduped
<1>2. ASSUME ClientReadsEvent PROVE Deduped'
  <2> DEFINE e == Head(down).e
  <2>1. e \in Event
    <3>1. down # <<>> /\ Head(down).k = "event" /\ Head(down) \in Response
      BY <1>2 DEF ClientReadsEvent, TypeOK
    <3>2. QED
      BY <3>1 DEF Response
  <2>2. got' = got
    BY <1>2 DEF ClientReadsEvent
  <2>3. CASE Known(e)
    <3>1. UNCHANGED <<seen, inbox>>
      BY <1>2, <2>3 DEF ClientReadsEvent
    <3>2. QED
      BY <1>1, <2>2, <3>1
  <2>4. CASE ~Known(e)
    <3>1. e \notin Remembered(seen)
      BY <2>4 DEF Known, Remembered
    <3>2. /\ Remembered(Remember(e)) = Remembered(seen) \cup {e}
          /\ Generations(Remember(e))
          /\ Remembered(Forget(Remember(e), e)) = Remembered(seen)
          /\ Generations(Forget(Remember(e), e))
      BY <2>1, <3>1, RememberKeeps DEF Deduped
    <3>3. \/ seen' = Remember(e) /\ inbox' = Append(inbox, e)
          \/ seen' = Forget(Remember(e), e) /\ inbox' = inbox
      BY <1>2, <2>4 DEF ClientReadsEvent
    <3> HIDE DEF e
    <3>4. CASE seen' = Remember(e) /\ inbox' = Append(inbox, e)
      <4>1. got[e] = 0
        BY <1>t, <2>1, <3>1 DEF Deduped, TakenOnce
      <4>2. WaitsOnce(inbox', Remembered(seen'), got')
        BY <1>t, <2>1, <2>2, <3>1, <3>2, <3>4, <4>1, AppendWaits DEF Deduped
      <4>3. Generations(seen') /\ TakenOnce(Remembered(seen'), got')
        BY <2>2, <3>2, <3>4 DEF Deduped, TakenOnce
      <4>4. QED
        BY <4>2, <4>3 DEF Deduped
    <3>5. CASE seen' = Forget(Remember(e), e) /\ inbox' = inbox
      BY <2>2, <3>2, <3>5 DEF Deduped
    <3>6. QED
      BY <3>3, <3>4, <3>5
  <2>5. QED
    BY <2>3, <2>4
<1>3. ASSUME HarnessTakes PROVE Deduped'
  <2>1. inbox # <<>> /\ inbox' = Tail(inbox) /\ seen' = seen
    BY <1>3 DEF HarnessTakes
  <2>2. CASE Head(inbox) = Sentinel
    <3>1. got' = got
      BY <1>3, <2>2 DEF HarnessTakes
    <3>2. WaitsOnce(inbox', Remembered(seen), got)
      BY <1>t, <2>1, TailWaits DEF Deduped
    <3>3. QED
      BY <2>1, <3>1, <3>2 DEF Deduped
  <2>3. CASE Head(inbox) # Sentinel
    <3> DEFINE e == Head(inbox)
    <3>1. e \in Event /\ e = inbox[1] /\ 1 \in 1..Len(inbox)
      BY <1>t, <2>1, <2>3
    <3>2. got' = [got EXCEPT ![e] = @ + 1]
      BY <1>3, <2>3 DEF HarnessTakes
    <3>3. got[e] = 0 /\ e \in Remembered(seen)
      BY <2>3, <3>1 DEF Deduped, WaitsOnce
    <3>4. got'[e] = 1 /\ \A d \in Event : d # e => got'[d] = got[d]
      BY <1>t, <3>1, <3>2, <3>3
    <3>5. WaitsOnce(inbox', Remembered(seen), got')
      BY <1>t, <2>1, <2>3, <3>4, TailWaits DEF Deduped
    <3> HIDE DEF e
    <3>6. TakenOnce(Remembered(seen), got')
      BY <3>1, <3>3, <3>4 DEF Deduped, TakenOnce
    <3>7. QED
      BY <2>1, <3>5, <3>6 DEF Deduped
  <2>4. QED
    BY <2>2, <2>3
<1>4. ASSUME Task PROVE Deduped'
  <2>1. CASE ClientReadsDenial \/ ClientReadsRateLimit \/ ClientReadsClosed
             \/ ClientExecutes \/ ClientReconnects \/ ClientAppliesOffline
    BY <1>1, <2>1 DEF ClientReadsDenial, ClientReadsRateLimit, ClientReadsClosed,
       ClientExecutes, Executes, ClientReconnects, ClientAppliesOffline
  <2>2. CASE ClientConnects \/ ClientResubscribes \/ ResubscribedAll \/ DrainExecutes
             \/ DrainSkipsReconnect \/ Drained
    BY <1>1, <2>2 DEF ClientConnects, ClientResubscribes, ResubscribedAll,
       DrainExecutes, Executes, DrainSkipsReconnect, Drained
  <2>3. CASE ClientNotices \/ ClientFailsToExecute \/ DrainFails
    BY <1>1, <2>3 DEF ClientNotices, ClientFailsToExecute, DrainFails
  <2>4. CASE \E c \in todo : ResubscribesOne(c)
    BY <1>1, <2>4 DEF ResubscribesOne
  <2>5. CASE (\E c \in parked : DrainParked(c)) \/ (\E c \in retry : DrainRetry(c))
    BY <1>1, <2>5 DEF DrainParked, DrainRetry
  <2>6. QED
    BY <1>2, <1>4, <2>1, <2>2, <2>3, <2>4, <2>5 DEF Task
<1>5. ASSUME Relay \/ GateOpens \/ Asks PROVE Deduped'
  BY <1>1, <1>5 DEF Relay, RelayAdmits, RelayCloses, RelayRegisters, RelayReplays,
     GateOpens, Asks, HarnessSubscribes, HarnessUnsubscribes
<1>6. ASSUME Faults PROVE Deduped'
  BY <1>1, <1>6 DEF Faults, RelayRefuses, RelayDenies, RelayRevokes, LinkStalls,
     LinkRecovers, LinkDies
<1>7. ASSUME NEW c \in Channel, NEW t \in 1..MaxStamp, RelayPublish(c, t) PROVE Deduped'
  BY <1>1, <1>7 DEF RelayPublish
<1>8. CASE UNCHANGED vars
  BY <1>1, <1>8 DEF vars
<1>9. QED
  BY <1>3, <1>4, <1>5, <1>6, <1>7, <1>8 DEF Next

LEMMA DedupCounts == TypeOK /\ Deduped => NeverTwice
<1> SUFFICES ASSUME TypeOK, Deduped, NEW e \in Event
             PROVE  got[e] + Cardinality({i \in 1..Len(inbox) : inbox[i] = e}) <= 1
  BY DEF NeverTwice
<1> DEFINE at == {i \in 1..Len(inbox) : inbox[i] = e}
<1>1. got[e] \in Nat /\ got[e] <= 1 /\ e # Sentinel
  <2>1. got[e] \in Nat
    BY DEF TypeOK
  <2>2. got[e] <= 1
    BY DEF Deduped, TakenOnce
  <2>3. e # Sentinel
    BY LinkAssumption DEF Event, Sentinel
  <2>4. QED
    BY <2>1, <2>2, <2>3
<1>2. CASE at = {}
  <2>1. Cardinality(at) = 0
    BY <1>2, FS_EmptySet
  <2>2. QED
    BY <1>1, <2>1
<1>3. CASE at # {}
  <2>1. PICK i \in 1..Len(inbox) : inbox[i] = e
    BY <1>3
  <2>2. got[e] = 0 /\ \A k \in 1..Len(inbox) : k # i => inbox[k] # e
    BY <1>1, <2>1 DEF Deduped, WaitsOnce
  <2>3. at = {i}
    BY <2>1, <2>2
  <2>4. Cardinality(at) = 1
    BY <2>3, FS_Singleton
  <2>5. QED
    BY <2>2, <2>4
<1>4. QED
  BY <1>2, <1>3

(* THEOREM: no event reaches the harness twice (seen_ids, relay.rs): not   *)
(* by a replay that overlaps what was forwarded, not by a reconnection,    *)
(* not by an event dropped on a full channel and fetched again - whatever  *)
(* fails, on any number of channels - as long as the events do not fill    *)
(* the dedup set's two generations.                                        *)
THEOREM NoneTwice ==
    ASSUME WindowHolds
    PROVE  Spec => []NeverTwice
<1>1. Init => TypeOK /\ Deduped
  <2>1. Init => TypeOK
    BY TypeInit
  <2>2. ASSUME Init PROVE Deduped
    <3>1. 0 < Generation
      <4>1. MaxEvents \in Nat /\ SeenLimit \in Nat /\ Generation \in Nat
        BY LinkAssumption DEF Generation
      <4>2. QED
        BY <4>1 DEF WindowHolds
    <3>2. /\ seen.current = {} /\ seen.previous = {} /\ Cardinality({}) = 0
          /\ inbox = <<>> /\ \A e \in Event : got[e] = 0
      BY <2>2, FS_EmptySet DEF Init
    <3>3. Generations(seen)
      BY <3>1, <3>2 DEF Generations
    <3>4. WaitsOnce(inbox, Remembered(seen), got)
      BY <3>2 DEF WaitsOnce
    <3>5. QED
      BY <3>2, <3>3, <3>4 DEF Deduped, TakenOnce
  <2>3. QED
    BY <2>1, <2>2
<1>2. TypeOK /\ Deduped /\ [Next]_vars => (TypeOK /\ Deduped)'
  BY TypeStep, DedupStep
<1>3. TypeOK /\ Deduped => NeverTwice
  BY DedupCounts
<1>4. QED
  BY <1>1, <1>2, <1>3, PTL DEF Spec

-----------------------------------------------------------------------------
(* No event is lost.                                                       *)
(*                                                                         *)
(* Here a line (of frames, commands or events) is mostly the set of what   *)
(* is on it.                                                               *)

On(q) == {q[i] : i \in 1..Len(q)}

LEMMA OnEmpty == On(<<>>) = {}
BY DEF On

LEMMA OnType ==
    ASSUME NEW S, NEW q \in Seq(S)
    PROVE  On(q) \subseteq S
BY DEF On

LEMMA OnAppend ==
    ASSUME NEW S, NEW q \in Seq(S), NEW f \in S
    PROVE  On(Append(q, f)) = On(q) \cup {f}
<1>1. /\ Len(q) \in Nat /\ Len(Append(q, f)) = Len(q) + 1
      /\ Append(q, f)[Len(q) + 1] = f
      /\ \A i \in 1..Len(q) : Append(q, f)[i] = q[i]
  OBVIOUS
<1>2. /\ Len(q) + 1 \in 1..(Len(q) + 1)
      /\ \A i \in 1..Len(q) : i \in 1..(Len(q) + 1)
      /\ \A i \in 1..(Len(q) + 1) : i \in 1..Len(q) \/ i = Len(q) + 1
  BY <1>1
<1>3. QED
  BY <1>1, <1>2 DEF On

LEMMA OnTail ==
    ASSUME NEW S, NEW q \in Seq(S), q # <<>>
    PROVE  On(q) = {Head(q)} \cup On(Tail(q))
<1>1. /\ Len(q) \in Nat \ {0} /\ Len(Tail(q)) = Len(q) - 1 /\ Head(q) = q[1]
      /\ \A i \in 1..(Len(q) - 1) : Tail(q)[i] = q[i + 1]
  OBVIOUS
<1>2. 1 \in 1..Len(q) /\ \A i \in 1..(Len(q) - 1) : i + 1 \in 1..Len(q)
  BY <1>1
<1>3. \A i \in 1..Len(q) : i = 1 \/ (i - 1 \in 1..(Len(q) - 1) /\ (i - 1) + 1 = i)
  BY <1>1
<1>4. ASSUME NEW x \in On(q) PROVE x \in {Head(q)} \cup On(Tail(q))
  <2>1. PICK i \in 1..Len(q) : x = q[i]
    BY DEF On
  <2>2. CASE i = 1
    BY <1>1, <2>1, <2>2
  <2>3. CASE i # 1
    <3>1. i - 1 \in 1..Len(Tail(q)) /\ Tail(q)[i - 1] = x
      BY <1>1, <1>3, <2>1, <2>3
    <3>2. QED
      BY <3>1 DEF On
  <2>4. QED
    BY <2>2, <2>3
<1>5. ASSUME NEW x \in {Head(q)} \cup On(Tail(q)) PROVE x \in On(q)
  BY <1>1, <1>2 DEF On
<1>6. QED
  BY <1>4, <1>5

LEMMA OnConcat ==
    ASSUME NEW S, NEW q \in Seq(S), NEW r \in Seq(S)
    PROVE  On(q \o r) = On(q) \cup On(r)
<1>1. /\ Len(q) \in Nat /\ Len(r) \in Nat /\ Len(q \o r) = Len(q) + Len(r)
      /\ \A i \in 1..(Len(q) + Len(r)) :
             (q \o r)[i] = IF i <= Len(q) THEN q[i] ELSE r[i - Len(q)]
  OBVIOUS
<1>2. ASSUME NEW x \in On(q \o r) PROVE x \in On(q) \cup On(r)
  <2>1. PICK i \in 1..(Len(q) + Len(r)) : x = (q \o r)[i]
    BY <1>1 DEF On
  <2>2. i <= Len(q) => i \in 1..Len(q)
    BY <1>1
  <2>3. ~(i <= Len(q)) => i - Len(q) \in 1..Len(r)
    BY <1>1
  <2>4. QED
    BY <1>1, <2>1, <2>2, <2>3 DEF On
<1>3. ASSUME NEW x \in On(q) PROVE x \in On(q \o r)
  <2>1. PICK i \in 1..Len(q) : x = q[i]
    BY DEF On
  <2>2. i \in 1..(Len(q) + Len(r)) /\ i <= Len(q)
    BY <1>1
  <2>3. QED
    BY <1>1, <2>1, <2>2 DEF On
<1>4. ASSUME NEW x \in On(r) PROVE x \in On(q \o r)
  <2>1. PICK i \in 1..Len(r) : x = r[i]
    BY DEF On
  <2>2. Len(q) + i \in 1..(Len(q) + Len(r)) /\ ~(Len(q) + i <= Len(q)) /\ (Len(q) + i) - Len(q) = i
    BY <1>1
  <2>3. QED
    BY <1>1, <2>1, <2>2 DEF On
<1>5. QED
  BY <1>2, <1>3, <1>4

Frame(f, e) == f.k = "event" /\ f.e = e

(* Among the frames of its channel, event e stands no later than any that  *)
(* would move the watermark past the window of e.                          *)
Behind(q, h, st, e) ==
    \A i \in 1..Len(q) : q[i].k = "event" /\ h[q[i].e] = h[e] =>
        \/ st[q[i].e] <= st[e] + Skew
        \/ \E k \in 1..i : Frame(q[k], e)

(* No channel has two subscriptions among the commands. *)
OnceEach(q) ==
    \A i, k \in 1..Len(q) :
        q[i].k = "sub" /\ q[k].k = "sub" /\ q[i].c = q[k].c => i = k

LEMMA BehindAppend ==
    ASSUME NEW S, NEW q \in Seq(S), NEW f \in S, NEW h, NEW st, NEW e, Behind(q, h, st, e),
           \/ f.k # "event"
           \/ h[f.e] # h[e]
           \/ st[f.e] <= st[e] + Skew
           \/ f.e = e
           \/ \E g \in On(q) : Frame(g, e)
    PROVE  Behind(Append(q, f), h, st, e)
<1> DEFINE p == Append(q, f)
           n == Len(q) + 1
<1>1. /\ Len(q) \in Nat /\ Len(p) = n /\ p[n] = f
      /\ \A i \in 1..Len(q) : p[i] = q[i]
  OBVIOUS
<1> HIDE DEF p
<1>2. /\ \A i \in 1..n : i \in 1..Len(q) \/ i = n
      /\ \A i \in 1..Len(q) : i \in 1..n
      /\ \A i \in 1..Len(q) : \A k \in 1..i : k \in 1..Len(q)
      /\ n \in 1..n
  BY <1>1
<1> HIDE DEF n
<1>3. ASSUME NEW i \in 1..Len(q), p[i].k = "event" /\ h[p[i].e] = h[e]
      PROVE  st[p[i].e] <= st[e] + Skew \/ \E k \in 1..i : Frame(p[k], e)
  <2>1. p[i] = q[i]
    BY <1>1
  <2>2. st[q[i].e] <= st[e] + Skew \/ \E k \in 1..i : Frame(q[k], e)
    BY <1>3, <2>1 DEF Behind
  <2>3. QED
    BY <1>1, <1>2, <2>1, <2>2
<1>4. ASSUME p[n].k = "event" /\ h[p[n].e] = h[e]
      PROVE  st[p[n].e] <= st[e] + Skew \/ \E k \in 1..n : Frame(p[k], e)
  <2>1. CASE \E g \in On(q) : Frame(g, e)
    BY <1>1, <1>2, <2>1 DEF On
  <2>2. CASE f.e = e
    BY <1>1, <1>2, <1>4, <2>2 DEF Frame
  <2>3. QED
    BY <1>1, <1>4, <2>1, <2>2
<1>5. Behind(p, h, st, e)
  BY <1>1, <1>2, <1>3, <1>4 DEF Behind
<1>6. QED
  BY <1>5 DEF p

LEMMA BehindTail ==
    ASSUME NEW S, NEW q \in Seq(S), q # <<>>, NEW h, NEW st, NEW e,
           Behind(q, h, st, e), ~Frame(Head(q), e)
    PROVE  Behind(Tail(q), h, st, e)
<1> DEFINE p == Tail(q)
<1>1. /\ Len(q) \in Nat \ {0} /\ Len(p) = Len(q) - 1 /\ Head(q) = q[1]
      /\ \A i \in 1..(Len(q) - 1) : p[i] = q[i + 1]
  OBVIOUS
<1> HIDE DEF p
<1>2. ASSUME NEW i \in 1..Len(p), p[i].k = "event" /\ h[p[i].e] = h[e]
      PROVE  st[p[i].e] <= st[e] + Skew \/ \E k \in 1..i : Frame(p[k], e)
  <2>1. i + 1 \in 1..Len(q) /\ p[i] = q[i + 1]
    BY <1>1
  <2>2. st[q[i + 1].e] <= st[e] + Skew \/ \E k \in 1..(i + 1) : Frame(q[k], e)
    BY <1>2, <2>1 DEF Behind
  <2>3. ASSUME NEW k \in 1..(i + 1), Frame(q[k], e)
        PROVE  \E m \in 1..i : Frame(p[m], e)
    <3>1. k # 1
      BY <1>1, <2>3
    <3>2. k - 1 \in 1..i /\ k - 1 \in 1..(Len(q) - 1) /\ (k - 1) + 1 = k
      BY <1>1, <3>1
    <3>3. p[k - 1] = q[k]
      BY <1>1, <3>2
    <3>4. QED
      BY <2>3, <3>2, <3>3
  <2>4. QED
    BY <2>1, <2>2, <2>3
<1>3. QED
  BY <1>2 DEF Behind, p

(* Frames of other channels, or frames behind e itself, change nothing. *)
LEMMA BehindConcat ==
    ASSUME NEW S, NEW q \in Seq(S), NEW r \in Seq(S), NEW h, NEW st, NEW e,
           Behind(q, h, st, e),
           \/ \A f \in On(r) : f.k = "event" => h[f.e] # h[e]
           \/ \E g \in On(q) : Frame(g, e)
    PROVE  Behind(q \o r, h, st, e)
<1> DEFINE p == q \o r
<1>1. /\ Len(q) \in Nat /\ Len(r) \in Nat /\ Len(p) = Len(q) + Len(r)
      /\ \A i \in 1..Len(q) : p[i] = q[i]
      /\ \A i \in (Len(q) + 1)..(Len(q) + Len(r)) : p[i] = r[i - Len(q)]
  OBVIOUS
<1> HIDE DEF p
<1>2. ASSUME NEW i \in 1..Len(p), p[i].k = "event" /\ h[p[i].e] = h[e]
      PROVE  st[p[i].e] <= st[e] + Skew \/ \E k \in 1..i : Frame(p[k], e)
  <2>1. CASE i <= Len(q)
    <3>1. i \in 1..Len(q) /\ \A k \in 1..i : k \in 1..Len(q)
      BY <1>1, <2>1
    <3>2. p[i] = q[i] /\ \A k \in 1..i : p[k] = q[k]
      BY <1>1, <3>1
    <3>3. st[q[i].e] <= st[e] + Skew \/ \E k \in 1..i : Frame(q[k], e)
      BY <1>2, <3>1, <3>2 DEF Behind
    <3>4. QED
      BY <3>2, <3>3
  <2>2. CASE ~(i <= Len(q))
    <3>1. /\ i \in (Len(q) + 1)..(Len(q) + Len(r)) /\ i - Len(q) \in 1..Len(r)
          /\ \A k \in 1..Len(q) : k \in 1..i
      BY <1>1, <2>2
    <3>2. p[i] \in On(r)
      BY <1>1, <3>1 DEF On
    <3>3. PICK g \in On(q) : Frame(g, e)
      BY <1>2, <3>2
    <3>4. PICK k \in 1..Len(q) : g = q[k]
      BY DEF On
    <3>5. QED
      BY <1>1, <3>1, <3>3, <3>4
  <2>3. QED
    BY <2>1, <2>2
<1>3. QED
  BY <1>2 DEF Behind, p

(* Only the events on the line and e itself matter. *)
LEMMA BehindSame ==
    ASSUME NEW q, NEW h, NEW st, NEW g, NEW tt, NEW e, Behind(q, h, st, e),
           g[e] = h[e], tt[e] = st[e],
           \A f \in On(q) : f.k = "event" => g[f.e] = h[f.e] /\ tt[f.e] = st[f.e]
    PROVE  Behind(q, g, tt, e)
<1>1. \A i \in 1..Len(q) : q[i] \in On(q)
  BY DEF On
<1>2. QED
  BY <1>1 DEF Behind

LEMMA BehindEmpty == \A h, st, e : Behind(<<>>, h, st, e)
BY DEF Behind

LEMMA OnceTail ==
    ASSUME NEW S, NEW q \in Seq(S), q # <<>>, OnceEach(q)
    PROVE  /\ OnceEach(Tail(q))
           /\ Head(q).k = "sub" =>
                 \A f \in On(Tail(q)) : f.k = "sub" => f.c # Head(q).c
<1> DEFINE p == Tail(q)
<1>1. /\ Len(q) \in Nat \ {0} /\ Len(p) = Len(q) - 1 /\ Head(q) = q[1]
      /\ \A i \in 1..(Len(q) - 1) : p[i] = q[i + 1]
  OBVIOUS
<1> HIDE DEF p
<1>2. 1 \in 1..Len(q) /\ \A i \in 1..Len(p) : i + 1 \in 1..Len(q) /\ i + 1 # 1 /\ p[i] = q[i + 1]
  BY <1>1
<1>3. OnceEach(p)
  <2> SUFFICES ASSUME NEW i \in 1..Len(p), NEW k \in 1..Len(p),
                      p[i].k = "sub", p[k].k = "sub", p[i].c = p[k].c
               PROVE  i = k
    BY DEF OnceEach
  <2>1. i + 1 = k + 1
    BY <1>2 DEF OnceEach
  <2>2. QED
    BY <1>1, <2>1
<1>4. ASSUME Head(q).k = "sub", NEW f \in On(p), f.k = "sub" PROVE f.c # Head(q).c
  <2>1. PICK i \in 1..Len(p) : f = p[i]
    BY DEF On
  <2>2. QED
    BY <1>1, <1>2, <1>4, <2>1 DEF OnceEach
<1>5. QED
  BY <1>3, <1>4 DEF p

LEMMA OnceAppend ==
    ASSUME NEW S, NEW q \in Seq(S), NEW f \in S, OnceEach(q),
           f.k = "sub" => \A g \in On(q) : g.k = "sub" => g.c # f.c
    PROVE  OnceEach(Append(q, f))
<1> DEFINE p == Append(q, f)
           n == Len(q) + 1
<1>1. /\ Len(q) \in Nat /\ Len(p) = n /\ p[n] = f
      /\ \A i \in 1..Len(q) : p[i] = q[i]
  OBVIOUS
<1> HIDE DEF p
<1>2. \A i \in 1..n : i \in 1..Len(q) \/ i = n
  BY <1>1
<1> HIDE DEF n
<1>3. \A i \in 1..Len(q) : q[i] \in On(q)
  BY DEF On
<1>4. OnceEach(p)
  BY <1>1, <1>2, <1>3 DEF OnceEach
<1>5. QED
  BY <1>4 DEF p

(* The present is a time no event is later than, and it only moves on.     *)
Newest(st) == Max({1} \cup {st[e] : e \in {x \in Event : st[x] > 0}})

LEMMA NewestType ==
    ASSUME NEW st \in [Event -> 0..MaxStamp]
    PROVE  /\ Newest(st) \in 1..MaxStamp
           /\ \A e \in Event : st[e] <= Newest(st)
           /\ Newest(st) = 1 \/ \E e \in Event : st[e] > 0 /\ Newest(st) = st[e]
<1> DEFINE S == {1} \cup {st[e] : e \in {x \in Event : st[x] > 0}}
           T == {MaxStamp - x : x \in S}
<1>1. MaxStamp \in Nat \ {0}
  BY LinkAssumption
<1>2. S \subseteq 1..MaxStamp /\ S # {}
  BY <1>1
<1>3. T \subseteq Nat /\ T # {}
  BY <1>1, <1>2
<1>4. PICK t \in T : \A u \in T : t <= u
  BY <1>3, Least
<1>5. PICK x \in S : t = MaxStamp - x
  BY <1>4
<1>6. ASSUME NEW y \in S PROVE x >= y
  <2>1. MaxStamp - y \in T /\ x \in 1..MaxStamp /\ y \in 1..MaxStamp
    BY <1>2
  <2>2. MaxStamp - x <= MaxStamp - y
    BY <1>4, <1>5, <2>1
  <2>3. QED
    BY <1>1, <2>1, <2>2
<1>7. Newest(st) = Max(S)
  BY DEF Newest
<1>8. /\ \A e \in Event : st[e] > 0 => st[e] \in S
      /\ \A y \in S : y = 1 \/ \E e \in Event : st[e] > 0 /\ y = st[e]
      /\ 1 \in S
  OBVIOUS
<1> HIDE DEF S
<1>9. Max(S) \in S /\ \A y \in S : Max(S) >= y
  BY <1>6 DEF Max
<1>10. Newest(st) \in 1..MaxStamp
  BY <1>2, <1>7, <1>9
<1>11. ASSUME NEW e \in Event PROVE st[e] <= Newest(st)
  <2>1. st[e] \in 0..MaxStamp
    OBVIOUS
  <2>2. CASE st[e] > 0
    BY <1>7, <1>8, <1>9, <1>10, <2>1, <2>2
  <2>3. CASE ~(st[e] > 0)
    BY <1>1, <1>10, <2>1, <2>3
  <2>4. QED
    BY <2>2, <2>3
<1>12. QED
  BY <1>7, <1>8, <1>9, <1>10, <1>11

(* Nothing of the channel is left: neither in the task's books, nor at the *)
(* relay, nor on the lines between them.                                   *)
Blank(c) ==
    /\ c \notin active
    /\ lastSeen[c] = 0
    /\ live[c] = Unsubscribed
    /\ \A f \in On(up) : f.c # c
    /\ \A j \in jobs : j.c # c
    /\ \A f \in On(down) : f.k = "event" => home[f.e] # c

Subbed(c) == \E f \in On(cmds) : f.k = "sub" /\ f.c = c

LEMMA Afresh == \A c \in Channel : Untouched(c) => Blank(c) /\ ~Subbed(c)
BY DEF Untouched, Blank, Subbed, On

DeniedIn(q, c) == \E f \in On(q) : f.k = "closed" /\ f.c = c /\ f.why = "denied"

ClosedIn(q, c) == \E f \in On(q) : f.k = "closed" /\ f.c = c

(* An event the harness is owed and has not been handed. *)
Waiting(e) ==
    /\ stamp[e] > 0
    /\ home[e] \in active
    /\ ~DeniedIn(down, home[e])
    /\ stamp[e] >= Since(floor[home[e]])
    /\ got[e] = 0
    /\ e \notin On(inbox)

(* Somebody is bound to bring it: it was dropped and its channel's mark    *)
(* says so, or a request that nobody may refuse, a handler or a frame of a *)
(* replay has it.                                                          *)
Safe(e) ==
    \/ dropped[home[e]] > 0 /\ dropped[home[e]] <= stamp[e] + Skew
    \/ \E f \in On(up) : f.k = "req" /\ f.c = home[e] /\ f.owes /\ f.since <= stamp[e]
    \/ \E j \in jobs : j.c = home[e] /\ j.since <= stamp[e]
    \/ \E f \in On(down) : Frame(f, e) /\ f.replayed

(* Or else the watermark has not passed it and will not before its frame;  *)
(* if the channel is registered, the frame is on the line, and if not,     *)
(* every request for the channel asks for it.                              *)
Sent(e) == \E f \in On(down) : Frame(f, e)

Asked(e) ==
    /\ \A j \in jobs : j.c # home[e]
    /\ \A f \in On(up) : f.k = "req" /\ f.c = home[e] => f.since <= stamp[e]

Ahead(e) ==
    /\ lastSeen[home[e]] <= stamp[e] + Skew
    /\ Behind(down, home, stamp, e)
    /\ live[home[e]] = Unsubscribed => Asked(e)
    /\ live[home[e]] # Unsubscribed => Sent(e)

Followed == \A e \in Event : Waiting(e) => Safe(e) \/ Ahead(e)

(* The events are published in order, and no mark is in the future.        *)
Numbered == \E n \in 0..MaxEvents : Published = 1..n

DatedBy(n) ==
    /\ \A c \in Channel : /\ lastSeen[c] <= n /\ live[c] <= Since(n)
                          /\ dropped[c] > 0 => lastSeen[c] > 0
                          /\ floor[c] <= n
    /\ \A f \in On(cmds) : f.k = "sub" => f.floor <= n
    /\ \A f \in On(up) : f.k = "req" => f.since <= Since(n)
    /\ \A j \in jobs : j.since <= Since(n)

Dated ==
    /\ DatedBy(Newest(stamp))
    /\ \A f \in On(down) : f.k = "event" => stamp[f.e] > 0

(* Without a connection nothing is on its way. *)
Severed ==
    sock \in {"dead", "down"} =>
        /\ up = <<>> /\ down = <<>> /\ jobs = {}
        /\ \A c \in Channel : live[c] = Unsubscribed

(* What is remembered was handed over. *)
Handed == \A e \in Event : Known(e) => got[e] > 0 \/ e \in On(inbox)

(* A subscription among the commands is of a channel nothing is left of,   *)
(* a CLOSE on the line is of one that is not active, and the task asks     *)
(* again for active channels only.                                         *)
Fresh ==
    /\ \A f \in On(cmds) : f.k = "sub" => Blank(f.c)
    /\ OnceEach(cmds)
    /\ \A f \in On(up) : f.k = "close" => f.c \notin active
    /\ todo \subseteq active /\ retry \subseteq active
    /\ phase # "resub" => todo = {}

(* Frames of an active channel that is not denied come from a registration.*)
Heard ==
    \A c \in active : ~DeniedIn(down, c) /\ live[c] = Unsubscribed =>
        /\ \A j \in jobs : j.c = c => ~j.registered
        /\ \A f \in On(down) : f.k = "event" => home[f.e] # c

(* The task has a reason to ask for the channel again. *)
Again(c) ==
    \/ resubNeeded
    \/ phase = "resub" /\ c \in todo
    \/ c \in parked
    \/ c \in retry
    \/ ClosedIn(down, c)

(* What was dropped will be asked for. *)
Reasks ==
    sock \in {"up", "stuck"} => \A c \in active : dropped[c] > 0 => Again(c)

(* A drain that failed leaves the socket broken: its queue became intent   *)
(* that nobody sends.                                                      *)
Swallows == swallowed # {} => sock \in {"stuck", "dead"}

LEMMA Lines ==
    ASSUME TypeOK
    PROVE  /\ On(<<>>) = {}
           /\ On(up) \subseteq Question /\ On(down) \subseteq Response
           /\ On(cmds) \subseteq Command /\ On(inbox) \subseteq Event \cup {Sentinel}
           /\ up # <<>> => On(up) = {Head(up)} \cup On(Tail(up))
           /\ down # <<>> => On(down) = {Head(down)} \cup On(Tail(down))
           /\ cmds # <<>> => On(cmds) = {Head(cmds)} \cup On(Tail(cmds))
           /\ inbox # <<>> => On(inbox) = {Head(inbox)} \cup On(Tail(inbox))
           /\ \A f \in Question : On(Append(up, f)) = On(up) \cup {f}
           /\ \A f \in Response : On(Append(down, f)) = On(down) \cup {f}
           /\ \A f \in Command : On(Append(cmds, f)) = On(cmds) \cup {f}
           /\ \A f \in Event \cup {Sentinel} : On(Append(inbox, f)) = On(inbox) \cup {f}
           /\ \A r \in Seq(Response) : On(down \o r) = On(down) \cup On(r)
<1>1. /\ up \in Seq(Question) /\ down \in Seq(Response) /\ cmds \in Seq(Command)
      /\ inbox \in Seq(Event \cup {Sentinel})
  BY DEF TypeOK
<1>2. On(<<>>) = {}
  BY OnEmpty
<1>3. /\ On(up) \subseteq Question /\ On(down) \subseteq Response
      /\ On(cmds) \subseteq Command /\ On(inbox) \subseteq Event \cup {Sentinel}
  BY <1>1, OnType
<1>4. /\ up # <<>> => On(up) = {Head(up)} \cup On(Tail(up))
      /\ down # <<>> => On(down) = {Head(down)} \cup On(Tail(down))
  BY <1>1, OnTail
<1>5. /\ cmds # <<>> => On(cmds) = {Head(cmds)} \cup On(Tail(cmds))
      /\ inbox # <<>> => On(inbox) = {Head(inbox)} \cup On(Tail(inbox))
  BY <1>1, OnTail
<1>6. ASSUME NEW f \in Question PROVE On(Append(up, f)) = On(up) \cup {f}
  BY <1>1, OnAppend
<1>7. ASSUME NEW f \in Response PROVE On(Append(down, f)) = On(down) \cup {f}
  BY <1>1, OnAppend
<1>8. ASSUME NEW f \in Command PROVE On(Append(cmds, f)) = On(cmds) \cup {f}
  BY <1>1, OnAppend
<1>9. ASSUME NEW f \in Event \cup {Sentinel} PROVE On(Append(inbox, f)) = On(inbox) \cup {f}
  BY <1>1, OnAppend
<1>10. ASSUME NEW r \in Seq(Response) PROVE On(down \o r) = On(down) \cup On(r)
  BY <1>1, OnConcat
<1>11. QED
  BY <1>2, <1>3, <1>4, <1>5, <1>6, <1>7, <1>8, <1>9, <1>10

(* What a question, a response, a command and a handler are made of. *)
LEMMA Parts ==
    /\ \A f \in Question : /\ f.k \in {"req", "close"} /\ f.c \in Channel
                           /\ f.k = "req" => f.since \in 0..MaxStamp /\ f.owes \in BOOLEAN
    /\ \A f \in Response : /\ f.k \in {"event", "closed"}
                           /\ f.k = "event" => f.e \in Event /\ f.replayed \in BOOLEAN
                           /\ f.k = "closed" => /\ f.c \in Channel
                                                /\ f.why \in {"rate", "other", "denied"}
    /\ \A f \in Command : /\ f.k \in {"sub", "unsub", "reconnect"}
                          /\ f.k # "reconnect" => f.c \in Channel
                          /\ f.k = "sub" => f.floor \in 0..MaxStamp
<1>1. ASSUME NEW f \in Question
      PROVE  /\ f.k \in {"req", "close"} /\ f.c \in Channel
             /\ f.k = "req" => f.since \in 0..MaxStamp /\ f.owes \in BOOLEAN
  BY DEF Question
<1>2. ASSUME NEW f \in Response
      PROVE  /\ f.k \in {"event", "closed"}
             /\ f.k = "event" => f.e \in Event /\ f.replayed \in BOOLEAN
             /\ f.k = "closed" => f.c \in Channel /\ f.why \in {"rate", "other", "denied"}
  BY DEF Response
<1>3. ASSUME NEW f \in Command
      PROVE  /\ f.k \in {"sub", "unsub", "reconnect"}
             /\ f.k # "reconnect" => f.c \in Channel
             /\ f.k = "sub" => f.floor \in 0..MaxStamp
  BY DEF Command
<1>4. QED
  BY <1>1, <1>2, <1>3

(* What commands do to the books: a channel that is not subscribed leaves  *)
(* or stays as it was; marks are kept or cleared; n bounds the floors.     *)
Moves(a, b, S, n) ==
    /\ \A c \in Channel :
          /\ \/ b.lastSeen[c] = a.lastSeen[c] /\ b.dropped[c] = a.dropped[c]
             \/ b.lastSeen[c] = 0 /\ b.dropped[c] = 0
          /\ c \in b.active /\ c \notin S =>
                /\ c \in a.active
                /\ b.lastSeen[c] = a.lastSeen[c]
                /\ b.dropped[c] = a.dropped[c]
                /\ b.floor[c] = a.floor[c]
                /\ c \in a.parked => c \in b.parked
                /\ c \in a.retry => c \in b.retry
          /\ a.floor[c] <= n => b.floor[c] <= n
    /\ a.retry \subseteq a.active => b.retry \subseteq b.active

LEMMA OneMove ==
    ASSUME NEW st \in IntentType, NEW cmd \in Command, NEW S, NEW n \in Nat,
           cmd.k = "sub" => cmd.c \in S /\ cmd.floor <= n
    PROVE  Moves(st, Intent(st, cmd), S, n)
<1> DEFINE new == Intent(st, cmd)
<1>1. cmd.k \in {"sub", "unsub", "reconnect"}
  BY Parts
<1>t. /\ st.active \subseteq Channel /\ st.retry \subseteq Channel
      /\ st.lastSeen \in [Channel -> 0..MaxStamp] /\ st.dropped \in [Channel -> 0..MaxStamp]
      /\ st.floor \in [Channel -> 0..MaxStamp]
  BY DEF IntentType
<1>2. CASE cmd.k = "sub"
  <2>1. cmd.c \in Channel /\ cmd.c \in S /\ cmd.floor <= n
    BY <1>2, Parts
  <2>2. new = [st EXCEPT !.active = @ \cup {cmd.c},
                         !.floor[cmd.c] = IF @ = 0 THEN cmd.floor ELSE @]
    BY <1>2 DEF Intent
  <2>3. /\ new.active = st.active \cup {cmd.c} /\ new.lastSeen = st.lastSeen
        /\ new.dropped = st.dropped /\ new.parked = st.parked /\ new.retry = st.retry
    BY <2>2 DEF IntentType
  <2>4. new.floor = [st.floor EXCEPT ![cmd.c] = IF @ = 0 THEN cmd.floor ELSE @]
    BY <2>2 DEF IntentType
  <2> HIDE DEF new
  <2>5. \A c \in Channel : /\ c # cmd.c => new.floor[c] = st.floor[c]
                           /\ st.floor[c] <= n => new.floor[c] <= n
    BY <1>t, <2>1, <2>4
  <2>6. Moves(st, new, S, n)
    BY <2>1, <2>3, <2>5 DEF Moves
  <2>7. QED
    BY <2>6 DEF new
<1>3. CASE cmd.k = "unsub"
  <2>1. cmd.c \in Channel
    BY <1>3, Parts
  <2>2. /\ new.active = st.active \ {cmd.c}
        /\ new.lastSeen = [st.lastSeen EXCEPT ![cmd.c] = 0]
        /\ new.floor = [st.floor EXCEPT ![cmd.c] = 0]
        /\ new.dropped = [st.dropped EXCEPT ![cmd.c] = 0]
        /\ new.parked = st.parked \ {cmd.c}
        /\ new.retry = st.retry \ {cmd.c}
    BY <1>3 DEF Intent
  <2> HIDE DEF new
  <2>3. \A c \in Channel : c # cmd.c => /\ new.floor[c] = st.floor[c]
                                        /\ new.lastSeen[c] = st.lastSeen[c]
                                        /\ new.dropped[c] = st.dropped[c]
    BY <1>t, <2>1, <2>2
  <2>4. new.floor[cmd.c] = 0 /\ new.lastSeen[cmd.c] = 0 /\ new.dropped[cmd.c] = 0
    BY <1>t, <2>1, <2>2
  <2>5. \A c \in Channel : st.floor[c] <= n => new.floor[c] <= n
    BY <2>3, <2>4
  <2>6. \A c \in Channel : \/ new.lastSeen[c] = st.lastSeen[c] /\ new.dropped[c] = st.dropped[c]
                           \/ new.lastSeen[c] = 0 /\ new.dropped[c] = 0
    BY <2>3, <2>4
  <2>7. Moves(st, new, S, n)
    BY <2>2, <2>3, <2>5, <2>6 DEF Moves
  <2>8. QED
    BY <2>7 DEF new
<1>4. CASE cmd.k = "reconnect"
  <2>1. new = st
    BY <1>4 DEF Intent
  <2> HIDE DEF new
  <2>2. Moves(st, new, S, n)
    BY <2>1 DEF Moves
  <2>3. QED
    BY <2>2 DEF new
<1>5. QED
  BY <1>1, <1>2, <1>3, <1>4

LEMMA MovesCompose ==
    ASSUME NEW a, NEW b, NEW d, NEW S, NEW n, Moves(a, b, S, n), Moves(b, d, S, n)
    PROVE  Moves(a, d, S, n)
<1>1. a.retry \subseteq a.active => d.retry \subseteq d.active
  BY DEF Moves
<1>2. ASSUME NEW c \in Channel
      PROVE  /\ \/ d.lastSeen[c] = a.lastSeen[c] /\ d.dropped[c] = a.dropped[c]
                \/ d.lastSeen[c] = 0 /\ d.dropped[c] = 0
             /\ a.floor[c] <= n => d.floor[c] <= n
  BY DEF Moves
<1>3. ASSUME NEW c \in Channel, c \in d.active, c \notin S
      PROVE  /\ c \in a.active
             /\ d.lastSeen[c] = a.lastSeen[c]
             /\ d.dropped[c] = a.dropped[c]
             /\ d.floor[c] = a.floor[c]
             /\ c \in a.parked => c \in d.parked
             /\ c \in a.retry => c \in d.retry
  BY <1>3 DEF Moves
<1>4. QED
  BY <1>1, <1>2, <1>3 DEF Moves

LEMMA ManyMoves ==
    ASSUME Intents \in IntentType, NEW q \in Seq(Command), NEW S, NEW n \in Nat,
           \A f \in On(q) : f.k = "sub" => f.c \in S /\ f.floor <= n
    PROVE  Moves(Intents, AllIntents(q), S, n)
<1>0. Len(q) \in Nat /\ \A i \in 1..Len(q) : q[i] \in Command /\ q[i] \in On(q)
  BY DEF On
<1>p. PICK after : Run(after, q, Intents, AllIntents(q))
  BY Unrolled
<1>1. /\ after[0] = Intents
      /\ \A i \in 1..Len(q) : after[i] = Intent(after[i - 1], q[i])
      /\ \A i \in 0..Len(q) : after[i] \in IntentType
      /\ AllIntents(q) = after[Len(q)]
  BY <1>p DEF Run
<1> DEFINE Bad == {i \in 0..Len(q) : ~Moves(Intents, after[i], S, n)}
<1>2. ASSUME Bad # {} PROVE FALSE
  <2>1. Bad \subseteq Nat
    BY <1>0
  <2>2. PICK m \in Bad : \A k \in Bad : m <= k
    BY <1>2, <2>1, Least
  <2>3. m \in 0..Len(q) /\ ~Moves(Intents, after[m], S, n)
    BY <2>2
  <2>4. Moves(Intents, Intents, S, n)
    BY DEF Moves
  <2>5. m \in 1..Len(q) /\ m - 1 \in 0..Len(q) /\ m - 1 < m
    BY <1>0, <1>1, <2>3, <2>4
  <2>6. Moves(Intents, after[m - 1], S, n)
    BY <2>2, <2>5
  <2>7. Moves(after[m - 1], after[m], S, n)
    BY <1>0, <1>1, <2>5, OneMove
  <2>8. QED
    BY <2>3, <2>6, <2>7, MovesCompose
<1>3. QED
  BY <1>0, <1>1, <1>2

-----------------------------------------------------------------------------
(* Every channel is cared for.                                             *)

LEMMA AttachedStep == TypeOK /\ Attached /\ [Next]_vars => Attached'
<1> SUFFICES ASSUME TypeOK, Attached, [Next]_vars
             PROVE  Attached'
  OBVIOUS
<1> USE DEF relayVars, wireVars, taskVars, markVars, parkVars, harnessVars, budgetVars
<1>a. ASSUME sock \in {"up", "stuck"}, NEW c \in active \ swallowed PROVE Cared(c)
  BY <1>a DEF Attached
<1>s. /\ down \in Seq(Response) /\ up \in Seq(Question)
      /\ \A j \in jobs : j.c \in Channel /\ j.since \in 0..MaxStamp
      /\ live \in [Channel -> -1..MaxStamp]
      /\ MaxStamp \in Nat
  BY LinkAssumption DEF TypeOK
<1>h. up # <<>> => Head(up) \in Question
  BY <1>s
(* What neither touches the wire nor the task's books. *)
<1>1. ASSUME UNCHANGED <<live, jobs, sock, up, phase, todo, active, resubNeeded,
                         parked, retry, swallowed>>,
             \A c : Named(down, "closed", c) => Named(down', "closed", c)
      PROVE  Attached'
  BY <1>1, <1>a DEF Attached, Cared
<1>2. ASSUME NEW c \in Channel, NEW t \in 1..MaxStamp, RelayPublish(c, t)
      PROVE  Attached'
  <2> DEFINE e == Cardinality(Published) + 1
             f == [k |-> "event", e |-> e, replayed |-> FALSE]
  <2>1. f \in Response
    BY <1>2 DEF RelayPublish, Response
  <2>2. down' = down \/ down' = Append(down, f)
    BY <1>2 DEF RelayPublish
  <2> HIDE DEF f
  <2>3. \A d : Named(down, "closed", d) => Named(down', "closed", d)
    BY <1>s, <2>1, <2>2, NamedAppend
  <2>4. QED
    BY <1>1, <1>2, <2>3 DEF RelayPublish
<1>3. ASSUME RelayAdmits PROVE Attached'
  <2>1. /\ up # <<>> /\ up' = Tail(up)
        /\ UNCHANGED <<live, sock, down, phase, todo, active, resubNeeded, parked,
                       retry, swallowed>>
    BY <1>3 DEF RelayAdmits
  <2> DEFINE j == [c |-> Head(up).c, since |-> Head(up).since, registered |-> FALSE]
  <2>2. jobs' = jobs \cup {j} /\ j.c = Head(up).c /\ ~j.registered
    BY <1>3 DEF RelayAdmits
  <2> HIDE DEF j
  <2>3. ASSUME NEW c, Cared(c) PROVE Cared(c)'
    <3>1. c # Head(up).c => (Named(up, "req", c) => Named(up', "req", c))
      BY <1>s, <2>1, NamedTail
    <3>2. QED
      BY <2>1, <2>2, <2>3, <3>1 DEF Cared
  <2>4. QED
    BY <1>a, <2>1, <2>3 DEF Attached
<1>4. ASSUME NEW why \in {"rate", "other"}, RelayRefuses(why) PROVE Attached'
  <2>1. /\ up # <<>> /\ up' = Tail(up)
        /\ UNCHANGED <<live, jobs, sock, phase, todo, active, resubNeeded, parked,
                       retry, swallowed>>
    BY <1>4 DEF RelayRefuses
  <2> DEFINE f == [k |-> "closed", c |-> Head(up).c, why |-> why]
  <2>2. f \in Response /\ f.k = "closed" /\ f.c = Head(up).c /\ down' = Append(down, f)
    BY <1>4, <1>h DEF RelayRefuses, Question, Response
  <2> HIDE DEF f
  <2>3. ASSUME NEW c, Cared(c) PROVE Cared(c)'
    <3>1. c # Head(up).c => (Named(up, "req", c) => Named(up', "req", c))
      BY <1>s, <2>1, NamedTail
    <3>2. /\ Named(down, "closed", c) => Named(down', "closed", c)
          /\ c = Head(up).c => Named(down', "closed", c)
      BY <1>s, <2>2, NamedAppend
    <3>3. QED
      BY <2>1, <2>3, <3>1, <3>2 DEF Cared
  <2>4. QED
    BY <1>a, <2>1, <2>3 DEF Attached
<1>5. ASSUME NEW j \in jobs, RelayRegisters(j) PROVE Attached'
  <2>1. /\ live' = [live EXCEPT ![j.c] = j.since]
        /\ jobs \ {j} \subseteq jobs'
        /\ UNCHANGED <<sock, up, down, phase, todo, active, resubNeeded, parked,
                       retry, swallowed>>
    BY <1>5 DEF RelayRegisters
  <2>2. ASSUME NEW c \in Channel, Cared(c) PROVE Cared(c)'
    <3>1. c = j.c => live'[c] # Unsubscribed
      BY <1>s, <2>1 DEF Unsubscribed
    <3>2. c # j.c => live'[c] = live[c]
      BY <1>s, <2>1
    <3>3. QED
      BY <2>1, <2>2, <3>1, <3>2 DEF Cared
  <2>3. QED
    BY <1>a, <2>1, <2>2 DEF Attached, TypeOK
<1>6. ASSUME NEW j \in jobs, RelayReplays(j) PROVE Attached'
  <2>1. /\ j.registered /\ jobs' = jobs \ {j}
        /\ UNCHANGED <<live, sock, up, phase, todo, active, resubNeeded, parked,
                       retry, swallowed>>
    BY <1>6 DEF RelayReplays
  <2>2. PICK frames \in Seq(Response) : down' = down \o frames
    BY <1>6, Replayed
  <2>3. ASSUME NEW c, Cared(c) PROVE Cared(c)'
    <3>1. Named(down, "closed", c) => Named(down', "closed", c)
      BY <1>s, <2>2, NamedConcat
    <3>2. QED
      BY <2>1, <2>3, <3>1 DEF Cared
  <2>4. QED
    BY <1>a, <2>1, <2>3 DEF Attached
<1>7. ASSUME NEW j \in jobs, RelayDenies(j) PROVE Attached'
  <2>1. /\ jobs' = jobs \ {j}
        /\ UNCHANGED <<live, sock, up, phase, todo, active, resubNeeded, parked,
                       retry, swallowed>>
    BY <1>7 DEF RelayDenies
  <2> DEFINE f == [k |-> "closed", c |-> j.c, why |-> "denied"]
  <2>2. f \in Response /\ f.k = "closed" /\ f.c = j.c /\ down' = Append(down, f)
    BY <1>7, <1>s DEF RelayDenies, Response
  <2> HIDE DEF f
  <2>3. ASSUME NEW c, Cared(c) PROVE Cared(c)'
    <3>1. /\ Named(down, "closed", c) => Named(down', "closed", c)
          /\ c = j.c => Named(down', "closed", c)
      BY <1>s, <2>2, NamedAppend
    <3>2. QED
      BY <2>1, <2>3, <3>1 DEF Cared
  <2>4. QED
    BY <1>a, <2>1, <2>3 DEF Attached
<1>8. ASSUME NEW d \in Channel, RelayRevokes(d) PROVE Attached'
  <2>1. /\ live' = [live EXCEPT ![d] = Unsubscribed]
        /\ UNCHANGED <<jobs, sock, up, phase, todo, active, resubNeeded, parked,
                       retry, swallowed>>
    BY <1>8 DEF RelayRevokes
  <2> DEFINE f == [k |-> "closed", c |-> d, why |-> "denied"]
  <2>2. f \in Response /\ f.k = "closed" /\ f.c = d /\ down' = Append(down, f)
    BY <1>8 DEF RelayRevokes, Response
  <2> HIDE DEF f
  <2>3. ASSUME NEW c \in Channel, Cared(c) PROVE Cared(c)'
    <3>1. /\ Named(down, "closed", c) => Named(down', "closed", c)
          /\ c = d => Named(down', "closed", c)
      BY <1>s, <2>2, NamedAppend
    <3>2. c # d => live'[c] = live[c]
      BY <1>s, <2>1
    <3>3. QED
      BY <2>1, <2>3, <3>1, <3>2 DEF Cared
  <2>4. QED
    BY <1>a, <2>1, <2>3 DEF Attached, TypeOK
<1>9. ASSUME RelayCloses PROVE Attached'
  <2> DEFINE d == Head(up).c
  <2>1. /\ up # <<>> /\ up' = Tail(up) /\ Head(up).k = "close"
        /\ live' = [live EXCEPT ![d] = Unsubscribed]
        /\ UNCHANGED <<jobs, sock, phase, todo, active, resubNeeded, parked,
                       retry, swallowed>>
    BY <1>9 DEF RelayCloses
  <2>2. d \in Channel
    BY <1>h, <2>1 DEF Question
  <2> DEFINE f == [k |-> "closed", c |-> d, why |-> "other"]
  <2>3. f \in Response /\ f.k = "closed" /\ f.c = d /\ down' = Append(down, f)
    BY <1>9, <2>2 DEF RelayCloses, Response
  <2> HIDE DEF f
  <2>4. ASSUME NEW c \in Channel, Cared(c) PROVE Cared(c)'
    <3>1. /\ Named(down, "closed", c) => Named(down', "closed", c)
          /\ c = d => Named(down', "closed", c)
      BY <1>s, <2>3, NamedAppend
    <3>2. c # d => live'[c] = live[c]
      BY <1>s, <2>1
    <3>3. Head(up).k # "req"
      BY <2>1
    <3>4. Named(up, "req", c) => Named(up', "req", c)
      BY <1>s, <2>1, <3>3, NamedTail
    <3>5. QED
      BY <2>1, <2>4, <3>1, <3>2, <3>4 DEF Cared
  <2>5. QED
    BY <1>a, <2>1, <2>4 DEF Attached, TypeOK
<1>10. ASSUME LinkStalls \/ LinkRecovers PROVE Attached'
  <2>1. UNCHANGED <<live, jobs, up, down, phase, todo, active, resubNeeded, parked,
                    retry, swallowed>>
    BY <1>10 DEF LinkStalls, LinkRecovers
  <2>2. ASSUME NEW c, Cared(c) PROVE Cared(c)'
    BY <2>1, <2>2 DEF Cared
  <2>3. \/ sock = "up" /\ sock' = "stuck"
        \/ sock = "stuck" /\ sock' = "up"
    BY <1>10 DEF LinkStalls, LinkRecovers
  <2>4. QED
    BY <1>a, <2>1, <2>2, <2>3 DEF Attached
<1>11. ASSUME LinkDies PROVE Attached'
  BY <1>11 DEF LinkDies, Swallows, Attached
<1>12. ASSUME GateOpens \/ HarnessTakes PROVE Attached'
  <2>1. UNCHANGED <<live, jobs, sock, up, phase, todo, active, resubNeeded,
                    parked, retry, swallowed, down>>
    BY <1>12 DEF GateOpens, HarnessTakes
  <2>2. QED
    BY <1>1, <2>1
<1>13. ASSUME NEW c \in Channel, HarnessSubscribes(c) \/ HarnessUnsubscribes(c)
       PROVE  Attached'
  <2>1. UNCHANGED <<live, jobs, sock, up, phase, todo, active, resubNeeded,
                    parked, retry, swallowed, down>>
    BY <1>13 DEF HarnessSubscribes, HarnessUnsubscribes
  <2>2. QED
    BY <1>1, <2>1
<1>14. ASSUME ClientReadsEvent PROVE Attached'
  <2>1. /\ down # <<>> /\ down' = Tail(down) /\ Head(down).k = "event"
        /\ resubNeeded' = resubNeeded \/ resubNeeded' = TRUE
        /\ UNCHANGED <<live, jobs, sock, up, phase, todo, active, parked, retry, swallowed>>
    BY <1>14 DEF ClientReadsEvent
  <2>2. ASSUME NEW c, Cared(c) PROVE Cared(c)'
    <3>1. Head(down).k # "closed"
      BY <2>1
    <3>2. Named(down, "closed", c) => Named(down', "closed", c)
      BY <1>s, <2>1, <3>1, NamedTail
    <3>3. QED
      BY <2>1, <2>2, <3>2 DEF Cared
  <2>3. QED
    BY <1>a, <2>1, <2>2 DEF Attached
<1>15. ASSUME ClientReadsDenial PROVE Attached'
  <2> DEFINE d == Head(down).c
  <2>1. /\ down # <<>> /\ down' = Tail(down)
        /\ active' = active \ {d} /\ parked' = parked \ {d} /\ retry' = retry \ {d}
        /\ UNCHANGED <<live, jobs, sock, up, phase, todo, resubNeeded, swallowed>>
    BY <1>15 DEF ClientReadsDenial, ForgetChannel
  <2>2. ASSUME NEW c, c # d, Cared(c) PROVE Cared(c)'
    <3>1. Named(down, "closed", c) => Named(down', "closed", c)
      BY <1>s, <2>1, <2>2, NamedTail
    <3>2. QED
      BY <2>1, <2>2, <3>1 DEF Cared
  <2>3. QED
    BY <1>a, <2>1, <2>2 DEF Attached
<1>16. ASSUME ClientReadsRateLimit PROVE Attached'
  <2> DEFINE d == Head(down).c
  <2>1. /\ down # <<>> /\ down' = Tail(down) /\ parked' = parked \cup {d}
        /\ UNCHANGED <<live, jobs, sock, up, phase, todo, active, resubNeeded, retry, swallowed>>
    BY <1>16 DEF ClientReadsRateLimit
  <2>2. ASSUME NEW c, Cared(c) PROVE Cared(c)'
    <3>1. c # d => (Named(down, "closed", c) => Named(down', "closed", c))
      BY <1>s, <2>1, NamedTail
    <3>2. QED
      BY <2>1, <2>2, <3>1 DEF Cared
  <2>3. QED
    BY <1>a, <2>1, <2>2 DEF Attached
<1>17. ASSUME ClientReadsClosed PROVE Attached'
  <2> DEFINE d == Head(down).c
             f == Req(d, ChannelSince(d))
  <2>1. /\ sock = "up" /\ down # <<>> /\ down' = Tail(down)
        /\ UNCHANGED <<live, jobs, sock, phase, todo, active, resubNeeded, parked, retry>>
    BY <1>17 DEF ClientReadsClosed
  <2>2. /\ d \in active => Write(f) /\ swallowed' = swallowed \ {d}
        /\ d \notin active => up' = up /\ swallowed' = swallowed
    BY <1>17 DEF ClientReadsClosed, AsksAgain
  <2>3. d \in active => f \in Question /\ f.k = "req" /\ f.c = d
    <3>1. active \subseteq Channel
      BY DEF TypeOK
    <3>2. d \in active => f \in Question
      BY <3>1, SinceTypes, ReqType
    <3>3. QED
      BY <3>2 DEF Req
  <2> HIDE DEF d, f
  <2>4. ASSUME NEW c \in active, c = d \/ Cared(c) PROVE Cared(c)'
    <3>1. c # d => (Named(down, "closed", c) => Named(down', "closed", c))
      BY <1>s, <2>1, NamedTail DEF d
    <3>2. Named(up, "req", c) => Named(up', "req", c)
      BY <2>2, <2>3, WriteKeeps
    <3>3. c = d => Named(up', "req", c)
      BY <2>1, <2>2, <2>3, WriteKeeps
    <3>4. QED
      BY <2>1, <2>4, <3>1, <3>2, <3>3 DEF Cared
  <2>5. QED
    BY <1>a, <2>1, <2>2, <2>4 DEF Attached
(* The socket is given up. *)
<1>18. ASSUME sock' = "down" PROVE Attached'
  BY <1>18 DEF Attached
<1>19. ASSUME ClientNotices \/ ClientFailsToExecute \/ ClientReconnects
       PROVE  Attached'
  <2>1. GoOffline
    BY <1>19 DEF ClientNotices, ClientFailsToExecute, ClientReconnects
  <2>2. QED
    BY <1>18, <2>1 DEF GoOffline
<1>20. ASSUME ClientExecutes \/ DrainExecutes PROVE Attached'
  <2>1. cmds # <<>> /\ Head(cmds).k # "reconnect" /\ Executes(Head(cmds))
    BY <1>20 DEF ClientExecutes, DrainExecutes
  <2>2. sock' = sock
    BY <2>1 DEF Executes
  <2>3. ASSUME sock \in {"up", "stuck"}, NEW d \in active' \ swallowed' PROVE Cared(d)'
    BY <1>a, <2>1, <2>3, ExecuteAttaches
  <2>4. QED
    BY <2>2, <2>3 DEF Attached
<1>21. ASSUME ClientAppliesOffline PROVE Attached'
  BY <1>21 DEF ClientAppliesOffline, TypeOK, Attached
<1>22. ASSUME ClientConnects PROVE Attached'
  <2>1. phase' = "resub" /\ todo' = active /\ active' = active
    BY <1>22 DEF ClientConnects
  <2>2. QED
    BY <2>1 DEF Attached, Cared
<1>23. ASSUME ClientResubscribes PROVE Attached'
  <2>1. /\ phase' = "resub" /\ todo' = active /\ active' = active
    BY <1>23 DEF ClientResubscribes
  <2>2. QED
    BY <2>1 DEF Attached, Cared
<1>24. ASSUME NEW d \in todo, ResubscribesOne(d) PROVE Attached'
  <2> DEFINE f == Req(d, ChannelSince(d))
  <2>1. f \in Question /\ f.k = "req" /\ f.c = d
    <3>1. d \in Channel
      BY DEF TypeOK
    <3>2. f \in Question
      BY <3>1, SinceTypes, ReqType
    <3>3. QED
      BY <3>2 DEF Req
  <2>2. /\ phase = "resub" /\ todo' = todo \ {d}
        /\ UNCHANGED <<live, jobs, sock, down, phase, active, resubNeeded>>
        /\ parked \subseteq parked' /\ retry \subseteq retry'
        /\ \/ d \in parked' /\ up' = up
           \/ d \in retry' /\ up' = up
           \/ Write(f) /\ sock \in {"up", "dead"}
        /\ swallowed \ {d} \subseteq swallowed'
    BY <1>24 DEF ResubscribesOne, AsksAgain, Writable
  <2> HIDE DEF f
  <2>3. ASSUME sock \in {"up", "stuck"}, NEW c, c = d \/ Cared(c) PROVE Cared(c)'
    <3>1. Named(up, "req", c) => Named(up', "req", c)
      BY <2>1, <2>2, WriteKeeps
    <3>2. c = d => c \in parked' \/ c \in retry' \/ Named(up', "req", c)
      BY <2>1, <2>2, <2>3, WriteKeeps
    <3>3. QED
      BY <2>2, <2>3, <3>1, <3>2 DEF Cared
  <2>4. QED
    BY <1>a, <2>2, <2>3 DEF Attached
<1>25. ASSUME ResubscribedAll \/ Drained PROVE Attached'
  <2>1. /\ UNCHANGED <<live, jobs, sock, up, down, active, resubNeeded, parked, retry, swallowed>>
        /\ phase = "resub" => todo = {}
    BY <1>25 DEF ResubscribedAll, Drained, Draining
  <2>2. ASSUME NEW c, Cared(c) PROVE Cared(c)'
    BY <2>1, <2>2 DEF Cared
  <2>3. QED
    BY <1>a, <2>1, <2>2 DEF Attached
<1>26. ASSUME DrainSkipsReconnect PROVE Attached'
  <2>1. UNCHANGED <<live, jobs, sock, up, phase, todo, active, resubNeeded,
                    parked, retry, swallowed, down>>
    BY <1>26 DEF DrainSkipsReconnect
  <2>2. QED
    BY <1>1, <2>1
<1>27. ASSUME DrainFails PROVE Attached'
  <2>1. CASE phase = "drain"
    BY <1>18, <1>27, <2>1 DEF DrainFails, GoOffline
  <2>2. CASE phase # "drain"
    <3> DEFINE S == {c \in Channel : Subbed(c)}
               n == MaxStamp
    <3>1. /\ UNCHANGED <<live, jobs, sock, up, down, resubNeeded, todo>>
          /\ phase = "postdrain" /\ phase' = "loop" /\ BecomesIntents(AllIntents(cmds))
          /\ swallowed' = swallowed \cup
                          {cmds[i].c : i \in {m \in 1..Len(cmds) : cmds[m].k = "sub"}}
      BY <1>27, <2>2 DEF DrainFails, Draining
    <3>2. /\ Intents \in IntentType /\ cmds \in Seq(Command)
          /\ \A f \in On(cmds) : f.k = "sub" => f.c \in S /\ f.floor <= n
      <4>1. Intents \in IntentType /\ cmds \in Seq(Command) /\ On(cmds) \subseteq Command
        BY IntentsType, Lines DEF TypeOK
      <4>2. ASSUME NEW f \in On(cmds), f.k = "sub" PROVE f.c \in S /\ f.floor <= n
        BY <1>s, <4>1, <4>2, Parts DEF Subbed
      <4>3. QED
        BY <4>1, <4>2
    <3>3. Moves(Intents, AllIntents(cmds), S, n)
      BY <1>s, <3>2, ManyMoves
    <3>4. ASSUME NEW c \in active', c \notin S
          PROVE  c \in active /\ (c \in parked => c \in parked') /\ (c \in retry => c \in retry')
      <4>1. AllIntents(cmds) \in IntentType
        BY <3>2, ManyIntents
      <4>2. AllIntents(cmds).active \subseteq Channel
        BY <4>1 DEF IntentType
      <4>3. /\ active' = AllIntents(cmds).active /\ parked' = AllIntents(cmds).parked
            /\ retry' = AllIntents(cmds).retry
        BY <3>1 DEF BecomesIntents
      <4>4. Intents.active = active /\ Intents.parked = parked /\ Intents.retry = retry
        BY DEF Intents
      <4>5. QED
        BY <3>3, <3>4, <4>2, <4>3, <4>4 DEF Moves
    <3>5. S \subseteq swallowed'
      BY <3>1 DEF Subbed, On
    <3> HIDE DEF S, n
    <3>6. ASSUME NEW c \in active' \ swallowed', Cared(c) PROVE Cared(c)'
      BY <3>1, <3>4, <3>5, <3>6 DEF Cared
    <3>7. active' \ swallowed' \subseteq active \ swallowed
      BY <3>1, <3>4, <3>5
    <3>8. QED
      BY <1>a, <3>1, <3>6, <3>7 DEF Attached
  <2>3. QED
    BY <2>1, <2>2
<1>28. ASSUME NEW d \in parked \cup retry, DrainParked(d) \/ DrainRetry(d)
       PROVE  Attached'
  <2> DEFINE f == Req(d, ChannelSince(d))
  <2>1. f \in Question /\ f.k = "req" /\ f.c = d
    <3>1. d \in Channel
      BY DEF TypeOK
    <3>2. f \in Question
      BY <3>1, SinceTypes, ReqType
    <3>3. QED
      BY <3>2 DEF Req
  <2>2. /\ UNCHANGED <<live, jobs, sock, down, phase, todo, active, resubNeeded>>
        /\ swallowed' = swallowed \/ (swallowed' = swallowed \ {d} /\ Write(f) /\ sock \in {"up", "dead"})
        /\ parked \ {d} \subseteq parked' /\ retry \ {d} \subseteq retry'
        /\ \/ d \in parked' /\ up' = up
           \/ d \notin active /\ up' = up
           \/ Write(f) /\ sock \in {"up", "dead"}
    BY <1>28 DEF DrainParked, DrainRetry, AsksAgain, Writable
  <2> HIDE DEF f
  <2>3. ASSUME sock \in {"up", "stuck"}, NEW c \in active, c = d \/ Cared(c) PROVE Cared(c)'
    <3>1. Named(up, "req", c) => Named(up', "req", c)
      BY <2>1, <2>2, WriteKeeps
    <3>2. c = d => c \in parked' \/ Named(up', "req", c)
      BY <2>1, <2>2, <2>3, WriteKeeps
    <3>3. QED
      BY <2>2, <2>3, <3>1, <3>2 DEF Cared
  <2>4. QED
    BY <1>a, <2>2, <2>3 DEF Attached
<1>29. ASSUME Task PROVE Attached'
  BY <1>14, <1>15, <1>16, <1>17, <1>19, <1>20, <1>21, <1>22, <1>23, <1>24, <1>25,
     <1>26, <1>27, <1>28, <1>29 DEF Task
<1>30. CASE UNCHANGED vars
  BY <1>1, <1>30 DEF vars
<1>31. QED
  BY <1>2, <1>3, <1>4, <1>5, <1>6, <1>7, <1>8, <1>9, <1>10, <1>11, <1>12, <1>13,
     <1>29, <1>30 DEF Next, Relay, Faults, Asks

(* THEOREM: no subscription is silently dead (background task of the       *)
(* harness, relay.rs): while the loop runs on a working socket, every      *)
(* active channel is registered at the relay, being asked for, or parked   *)
(* where the loop will find it, but for the channels drain_post_reconnect  *)
(* failed to ask for - whatever the link does, for any number of channels, *)
(* commands, faults and events.                                            *)
THEOREM NothingSilent == Spec => []NoSilentSubscription
<1>1. Init => TypeOK /\ Attached
  <2>1. Init => TypeOK
    BY TypeInit
  <2>2. Init => Attached
    BY DEF Init, Attached
  <2>3. QED
    BY <2>1, <2>2
<1>2. TypeOK /\ Attached /\ [Next]_vars => (TypeOK /\ Attached)'
  BY TypeStep, AttachedStep
<1>3. TypeOK /\ Attached => NoSilentSubscription
  BY DEF Attached, Cared, Named, NoSilentSubscription, Closing
<1>4. QED
  BY <1>1, <1>2, <1>3, PTL DEF Spec

-----------------------------------------------------------------------------
(* The steps of the specification, by what they do to the channels' books  *)
(* and to the lines.                                                       *)

(* What was handed over stays handed over. *)
Kept == \A e \in Event : got[e] > 0 \/ e \in On(inbox) => got'[e] > 0 \/ e \in On(inbox')

(* At most a CLOSED is read that is no denial. *)
Passes ==
    \/ down' = down
    \/ /\ down # <<>> /\ down' = Tail(down)
       /\ Head(down).k = "closed" /\ Head(down).why # "denied"

Aside ==
    /\ UNCHANGED <<stamp, home, live, jobs, up, active, lastSeen, dropped, floor>>
    /\ Passes /\ Kept

AskStep(c) ==
    /\ c \in active /\ sock = "up"
    /\ up' = Append(up, Req(c, ChannelSince(c)))
    /\ dropped' = [dropped EXCEPT ![c] = 0]
    /\ UNCHANGED <<stamp, home, live, jobs, active, lastSeen, floor>>
    /\ Passes /\ Kept

(* Commands move the books of the channels they name only; a channel of    *)
(* theirs that stays active is one they subscribe.                         *)
Recorded ==
    /\ \A c \in Channel :
          /\ \/ lastSeen'[c] = lastSeen[c] /\ dropped'[c] = dropped[c]
             \/ lastSeen'[c] = 0 /\ dropped'[c] = 0
          /\ c \in active' /\ ~Subbed(c) =>
                /\ c \in active
                /\ lastSeen'[c] = lastSeen[c]
                /\ dropped'[c] = dropped[c]
                /\ floor'[c] = floor[c]
                /\ c \in parked => c \in parked'
                /\ c \in retry => c \in retry'
          /\ floor'[c] <= Newest(stamp)
    /\ retry' \subseteq active'

RecordStep ==
    /\ UNCHANGED <<stamp, home, live, jobs, down>>
    /\ Kept /\ Recorded
    /\ \/ up' = up
       \/ \E f \in Question : /\ sock = "up" /\ up' = Append(up, f)
                              /\ f.k = "close" /\ f.c \in active /\ f.c \notin active'
       \/ \E f \in Question : /\ sock = "up" /\ up' = Append(up, f)
                              /\ f.k = "req" /\ Subbed(f.c) /\ f.c \in active'
                              /\ f.since = Since(floor'[f.c])

CutStep ==
    /\ ~ReplayUnderWay
    /\ up' = <<>> /\ down' = <<>> /\ jobs' = {}
    /\ live' = [c \in Channel |-> Unsubscribed]
    /\ UNCHANGED <<stamp, home>>
    /\ Kept /\ Recorded

LEMMA Present ==
    ASSUME TypeOK
    PROVE  /\ Now = Newest(stamp) /\ Newest(stamp) \in 1..MaxStamp
           /\ Newest(stamp) \in Nat /\ MaxStamp \in Nat
           /\ \A e \in Event : stamp[e] <= Newest(stamp)
<1>1. stamp \in [Event -> 0..MaxStamp] /\ MaxStamp \in Nat
  BY LinkAssumption DEF TypeOK
<1>2. Now = Newest(stamp)
  BY DEF Now, Published, Newest
<1>3. QED
  BY <1>1, <1>2, NewestType

LEMMA RecordedMoves ==
    ASSUME TypeOK, Dated, Fresh, NEW st \in IntentType,
           Moves(Intents, st, {c \in Channel : Subbed(c)}, Newest(stamp)),
           BecomesIntents(st)
    PROVE  Recorded
<1> DEFINE S == {c \in Channel : Subbed(c)}
           a == Intents
           n == Newest(stamp)
<1>1. /\ a.active = active /\ a.lastSeen = lastSeen /\ a.floor = floor
      /\ a.dropped = dropped /\ a.parked = parked /\ a.retry = retry
  BY DEF Intents
<1>2. /\ active' = st.active /\ lastSeen' = st.lastSeen /\ floor' = st.floor
      /\ dropped' = st.dropped /\ parked' = st.parked /\ retry' = st.retry
  BY DEF BecomesIntents
<1>3. \A c \in Channel : floor[c] <= n
  BY DEF Dated, DatedBy
<1>4. retry \subseteq active
  BY DEF Fresh
<1>5. \A c \in Channel : ~Subbed(c) => c \notin S
  OBVIOUS
<1>6. Moves(a, st, S, n)
  OBVIOUS
<1> HIDE DEF S, a, n
<1>7. ASSUME NEW c \in Channel
      PROVE  /\ \/ lastSeen'[c] = lastSeen[c] /\ dropped'[c] = dropped[c]
                \/ lastSeen'[c] = 0 /\ dropped'[c] = 0
             /\ floor'[c] <= n
  BY <1>1, <1>2, <1>3, <1>6 DEF Moves
<1>8. ASSUME NEW c \in Channel, c \in active', ~Subbed(c)
      PROVE  /\ c \in active
             /\ lastSeen'[c] = lastSeen[c]
             /\ dropped'[c] = dropped[c]
             /\ floor'[c] = floor[c]
             /\ c \in parked => c \in parked'
             /\ c \in retry => c \in retry'
  BY <1>1, <1>2, <1>5, <1>6, <1>8 DEF Moves
<1>9. retry' \subseteq active'
  BY <1>1, <1>2, <1>4, <1>6 DEF Moves
<1>10. QED
  BY <1>7, <1>8, <1>9 DEF Recorded, n

LEMMA RecordsOne ==
    ASSUME TypeOK, Dated, Fresh, cmds # <<>>, BecomesIntents(Intent(Intents, Head(cmds)))
    PROVE  Recorded
<1>1. Intents \in IntentType
  BY IntentsType
<1>2. Head(cmds) \in Command /\ Head(cmds) \in On(cmds)
  BY Lines
<1>3. Newest(stamp) \in Nat
  BY Present
<1>4. Head(cmds).k = "sub" => /\ Head(cmds).c \in {c \in Channel : Subbed(c)}
                              /\ Head(cmds).floor <= Newest(stamp)
  BY <1>2, Parts DEF Subbed, Dated, DatedBy
<1>5. Moves(Intents, Intent(Intents, Head(cmds)), {c \in Channel : Subbed(c)}, Newest(stamp))
  BY <1>1, <1>2, <1>3, <1>4, OneMove
<1>6. Intent(Intents, Head(cmds)) \in IntentType
  BY <1>1, <1>2, OneIntent
<1>7. QED
  BY <1>5, <1>6, RecordedMoves

LEMMA RecordsAll ==
    ASSUME TypeOK, Dated, Fresh, BecomesIntents(AllIntents(cmds))
    PROVE  Recorded
<1>1. Intents \in IntentType /\ cmds \in Seq(Command)
  BY IntentsType DEF TypeOK
<1>2. On(cmds) \subseteq Command
  BY Lines
<1>3. Newest(stamp) \in Nat
  BY Present
<1>4. \A f \in On(cmds) : f.k = "sub" => /\ f.c \in {c \in Channel : Subbed(c)}
                                         /\ f.floor <= Newest(stamp)
  BY <1>2, Parts DEF Subbed, Dated, DatedBy
<1>5. Moves(Intents, AllIntents(cmds), {c \in Channel : Subbed(c)}, Newest(stamp))
  BY <1>1, <1>3, <1>4, ManyMoves
<1>6. AllIntents(cmds) \in IntentType
  BY <1>1, ManyIntents
<1>7. QED
  BY <1>5, <1>6, RecordedMoves

(* A command executed on the socket. *)
LEMMA ExecuteRecords ==
    ASSUME ~spoilt', TypeOK, Dated, Fresh, cmds # <<>>,
           Head(cmds).k # "reconnect", Executes(Head(cmds))
    PROVE  RecordStep
<1> DEFINE cmd == Head(cmds)
           st == Intent(Intents, cmd)
           n == Newest(stamp)
<1>1. cmd \in Command /\ cmd \in On(cmds) /\ cmd.c \in Channel /\ cmds' = Tail(cmds)
  <2>1. cmd \in Command /\ cmd \in On(cmds)
    BY Lines
  <2>2. QED
    BY <2>1, Parts DEF Executes
<1>2. UNCHANGED <<stamp, home, live, jobs, down, got, inbox>>
  BY DEF Executes, relayVars
<1>3. Kept
  BY <1>2 DEF Kept
<1>t. /\ active \subseteq Channel /\ retry \subseteq Channel
      /\ lastSeen \in [Channel -> 0..MaxStamp] /\ dropped \in [Channel -> 0..MaxStamp]
      /\ floor \in [Channel -> 0..MaxStamp]
  BY DEF TypeOK
<1>n. n \in Nat /\ \A c \in Channel : floor[c] <= n
  BY Present DEF Dated, DatedBy
<1>r. retry \subseteq active
  BY DEF Fresh
<1>5. CASE cmd.k = "sub"
  <2>1. Subbed(cmd.c) /\ lastSeen[cmd.c] = 0 /\ cmd.floor <= n /\ cmd.floor \in 0..MaxStamp
    BY <1>1, <1>5, Parts DEF Subbed, Fresh, Blank, Dated, DatedBy
  <2>2. st = [Intents EXCEPT !.active = @ \cup {cmd.c},
                             !.floor[cmd.c] = IF @ = 0 THEN cmd.floor ELSE @]
    BY <1>5 DEF Intent
  <2>3. /\ st.active = active \cup {cmd.c} /\ st.lastSeen = lastSeen
        /\ st.dropped = dropped /\ st.parked = parked /\ st.retry = retry
    BY <2>2 DEF Intents
  <2>4. st.floor = [floor EXCEPT ![cmd.c] = IF @ = 0 THEN cmd.floor ELSE @]
    BY <2>2 DEF Intents
  <2>5. st \in IntentType
    BY <1>1, IntentsType, OneIntent
  <2>6. SubscribeGated(cmd) \/ SubscribeSent(cmd)
    BY <1>5 DEF Executes
  <2>7. CASE SubscribeGated(cmd)
    <3>1. BecomesIntents([st EXCEPT !.parked = @ \cup {cmd.c}]) /\ up' = up
      BY <2>7 DEF SubscribeGated
    <3> HIDE DEF st
    <3>2. /\ active' = st.active /\ lastSeen' = st.lastSeen /\ floor' = st.floor
          /\ dropped' = st.dropped /\ retry' = st.retry
          /\ parked' = st.parked \cup {cmd.c}
      BY <3>1, <2>5 DEF BecomesIntents, IntentType
    <3> HIDE DEF cmd
    <3>3. \A c \in Channel : /\ c # cmd.c => floor'[c] = floor[c]
                             /\ floor'[c] <= n
      BY <1>1, <1>t, <1>n, <2>1, <2>4, <3>2
    <3>4. Recorded
      BY <1>1, <1>r, <2>1, <2>3, <3>2, <3>3 DEF Recorded, n
    <3>5. QED
      BY <1>2, <1>3, <3>1, <3>4 DEF RecordStep
  <2>8. CASE SubscribeSent(cmd)
    <3> DEFINE since == IF lastSeen[cmd.c] > 0 THEN lastSeen[cmd.c] ELSE st.floor[cmd.c]
               f == Req(cmd.c, since)
    <3>1. /\ BecomesIntents([st EXCEPT !.parked = @ \ {cmd.c}, !.retry = @ \ {cmd.c}])
          /\ Write(f)
      BY <2>8 DEF SubscribeSent
    <3>a. since = st.floor[cmd.c]
      BY <2>1
    <3>b. since \in 0..MaxStamp
      BY <2>5, <3>a, <1>1 DEF IntentType
    <3>c. f \in Question
      BY <1>1, <3>b, ReqType
    <3>d. f.k = "req" /\ f.c = cmd.c /\ f.since = Since(since)
      BY DEF Req
    <3>e. up' = up \/ (sock = "up" /\ up' = Append(up, f))
      BY <3>1 DEF Write
    <3> HIDE DEF st, since, f
    <3>2. /\ active' = st.active /\ lastSeen' = st.lastSeen /\ floor' = st.floor
          /\ dropped' = st.dropped /\ retry' = st.retry \ {cmd.c}
          /\ parked' = st.parked \ {cmd.c}
      BY <3>1, <2>5 DEF BecomesIntents, IntentType
    <3> HIDE DEF cmd
    <3>3. \A c \in Channel : /\ c # cmd.c => floor'[c] = floor[c]
                             /\ floor'[c] <= n
      BY <1>1, <1>t, <1>n, <2>1, <2>4, <3>2
    <3>4. Recorded
      BY <1>1, <1>r, <2>1, <2>3, <3>2, <3>3 DEF Recorded, n
    <3>5. Subbed(f.c) /\ f.c \in active' /\ f.since = Since(floor'[f.c])
      BY <2>1, <2>3, <3>2, <3>a, <3>d
    <3>6. QED
      BY <1>2, <1>3, <3>1, <3>4, <3>5, <3>c, <3>d, <3>e DEF RecordStep
  <2>9. QED
    BY <2>6, <2>7, <2>8
<1>6. CASE cmd.k = "unsub"
  <2>1. UnsubscribeSent(cmd)
    BY <1>6 DEF Executes
  <2>2. /\ active' = active \ {cmd.c}
        /\ lastSeen' = [lastSeen EXCEPT ![cmd.c] = 0]
        /\ floor' = [floor EXCEPT ![cmd.c] = 0]
        /\ dropped' = [dropped EXCEPT ![cmd.c] = 0]
        /\ parked' = parked \ {cmd.c} /\ retry' = retry \ {cmd.c}
    BY <2>1 DEF UnsubscribeSent, ForgetChannel
  <2> DEFINE f == [k |-> "close", c |-> cmd.c]
  <2>3. f \in Question /\ f.k = "close" /\ f.c = cmd.c
    BY <1>1 DEF Question
  <2>4. up' = up \/ (cmd.c \in active /\ sock = "up" /\ up' = Append(up, f))
    BY <2>1 DEF UnsubscribeSent, Write
  <2> HIDE DEF f, cmd
  <2>5. \A c \in Channel : c # cmd.c => /\ floor'[c] = floor[c]
                                        /\ lastSeen'[c] = lastSeen[c]
                                        /\ dropped'[c] = dropped[c]
    BY <1>1, <1>t, <2>2
  <2>6. floor'[cmd.c] = 0 /\ lastSeen'[cmd.c] = 0 /\ dropped'[cmd.c] = 0
    BY <1>1, <1>t, <2>2
  <2>7. \A c \in Channel : floor'[c] <= n
    BY <1>n, <2>5, <2>6
  <2>8. Recorded
    BY <1>r, <2>2, <2>5, <2>6, <2>7 DEF Recorded, n
  <2>9. QED
    BY <1>2, <1>3, <2>2, <2>3, <2>4, <2>8 DEF RecordStep
<1>7. QED
  BY <1>1, <1>5, <1>6, Parts

(* The books may also stay as they are. *)
LEMMA RecordsNothing ==
    ASSUME TypeOK, Dated, Fresh,
           UNCHANGED <<active, lastSeen, dropped, floor, parked, retry>>
    PROVE  Recorded
BY DEF Recorded, Dated, DatedBy, Fresh

LEMMA SignalKeeps ==
    ASSUME TypeOK, inbox' = inbox \/ inbox' = SignalTo(inbox), got' = got
    PROVE  Kept
<1>1. Sentinel \in Event \cup {Sentinel}
  OBVIOUS
<1>2. On(Append(inbox, Sentinel)) = On(inbox) \cup {Sentinel}
  BY <1>1, Lines
<1>3. inbox' = inbox \/ inbox' = Append(inbox, Sentinel)
  BY DEF SignalTo
<1>4. QED
  BY <1>2, <1>3 DEF Kept

LEMMA TakeKeeps ==
    ASSUME TypeOK, HarnessTakes
    PROVE  Kept
<1>1. /\ inbox # <<>> /\ inbox' = Tail(inbox)
      /\ \/ Head(inbox) = Sentinel /\ got' = got
         \/ got' = [got EXCEPT ![Head(inbox)] = @ + 1]
  BY DEF HarnessTakes
<1>2. On(inbox) = {Head(inbox)} \cup On(Tail(inbox))
  BY <1>1, Lines
<1>3. got \in [Event -> Nat] /\ \A e \in Event : e # Sentinel
  <2>1. got \in [Event -> Nat]
    BY DEF TypeOK
  <2>2. \A e \in Event : e # Sentinel
    BY DEF Event, Sentinel
  <2>3. QED
    BY <2>1, <2>2
<1>4. ASSUME NEW e \in Event, got[e] > 0 PROVE got'[e] > 0
  BY <1>1, <1>3, <1>4
<1>5. ASSUME NEW e \in Event, e \in On(inbox) PROVE got'[e] > 0 \/ e \in On(inbox')
  <2>1. CASE e = Head(inbox)
    BY <1>1, <1>3, <2>1
  <2>2. CASE e # Head(inbox)
    BY <1>1, <1>2, <1>5, <2>2
  <2>3. QED
    BY <2>1, <2>2
<1>6. QED
  BY <1>4, <1>5 DEF Kept

(* A request reaches the line, or it asked for nothing dropped. *)
LEMMA AsksWell ==
    ASSUME ~spoilt', TypeOK, NEW c \in Channel, AsksAgain(c)
    PROVE  \/ up' = up /\ dropped' = dropped
           \/ /\ sock = "up" /\ Write(Req(c, ChannelSince(c)))
              /\ dropped' = [dropped EXCEPT ![c] = 0]
<1>1. CASE sock = "up"
  BY <1>1 DEF AsksAgain
<1>2. CASE sock # "up"
  <2>1. up' = up /\ ~(dropped[c] > 0) /\ dropped' = [dropped EXCEPT ![c] = 0]
    BY <1>2 DEF AsksAgain, Write, Writable, Spoils
  <2>2. dropped \in [Channel -> Nat]
    BY LinkAssumption DEF TypeOK
  <2>3. QED
    BY <2>1, <2>2
<1>3. QED
  BY <1>1, <1>2

LEMMA Kinds ==
    ASSUME ~spoilt', TypeOK, Dated, Fresh, [Next]_vars
    PROVE  \/ \E c \in Channel, t \in 1..MaxStamp : RelayPublish(c, t)
           \/ RelayAdmits
           \/ \E why \in {"rate", "other"} : RelayRefuses(why)
           \/ \E j \in jobs : RelayRegisters(j)
           \/ \E j \in jobs : RelayReplays(j)
           \/ \E j \in jobs : RelayDenies(j)
           \/ \E c \in Channel : RelayRevokes(c)
           \/ RelayCloses \/ ClientReadsEvent \/ ClientReadsDenial
           \/ Aside \/ RecordStep \/ CutStep
           \/ \E c \in Channel : AskStep(c)
<1> USE DEF relayVars, wireVars, taskVars, markVars, parkVars, harnessVars, budgetVars
<1> DEFINE Asking == \E c \in Channel : AskStep(c)
<1>i. RelayForgetsConnection => ~ReplayUnderWay
  BY DEF RelayForgetsConnection, Spoils
<1>k. UNCHANGED <<got, inbox>> => Kept
  BY DEF Kept
<1>1. ASSUME LinkStalls \/ LinkRecovers \/ GateOpens PROVE Aside
  BY <1>1, <1>k DEF LinkStalls, LinkRecovers, GateOpens, Aside, Passes
<1>2. ASSUME HarnessTakes PROVE Aside
  BY <1>2, TakeKeeps DEF HarnessTakes, Aside, Passes
<1>3. ASSUME NEW c \in Channel, HarnessSubscribes(c) \/ HarnessUnsubscribes(c) PROVE Aside
  BY <1>3, <1>k DEF HarnessSubscribes, HarnessUnsubscribes, Aside, Passes
<1>4. ASSUME ClientReadsRateLimit PROVE Aside
  BY <1>4, <1>k DEF ClientReadsRateLimit, Aside, Passes
<1>5. ASSUME ClientConnects \/ ClientResubscribes PROVE Aside
  BY <1>5, <1>k DEF ClientConnects, ClientResubscribes, Aside, Passes
<1>6. ASSUME ResubscribedAll \/ Drained \/ DrainSkipsReconnect PROVE Aside
  BY <1>6, <1>k DEF ResubscribedAll, Drained, DrainSkipsReconnect, Aside, Passes
<1>7. ASSUME ClientReadsClosed PROVE Aside \/ Asking
  <2> DEFINE d == Head(down).c
  <2>1. /\ sock = "up" /\ down # <<>> /\ down' = Tail(down)
        /\ Head(down).k = "closed" /\ Head(down).why = "other"
        /\ UNCHANGED <<stamp, home, live, jobs, active, lastSeen, floor, got, inbox>>
        /\ d \in active => /\ Write(Req(d, ChannelSince(d)))
                           /\ dropped' = [dropped EXCEPT ![d] = 0]
        /\ d \notin active => up' = up /\ dropped' = dropped
    BY <1>7 DEF ClientReadsClosed, AsksAgain
  <2>2. Passes
    BY <2>1 DEF Passes
  <2>3. active \subseteq Channel
    BY DEF TypeOK
  <2> HIDE DEF d
  <2>4. CASE d \in active
    BY <1>k, <2>1, <2>2, <2>3, <2>4 DEF AskStep, Write
  <2>5. CASE d \notin active
    BY <1>k, <2>1, <2>2, <2>5 DEF Aside
  <2>6. QED
    BY <2>4, <2>5
<1>8. ASSUME NEW d \in todo, ResubscribesOne(d) PROVE Aside \/ Asking
  <2>1. /\ UNCHANGED <<stamp, home, live, jobs, active, lastSeen, floor, got, inbox, down>>
        /\ \/ up' = up /\ dropped' = dropped
           \/ /\ sock = "up" /\ Write(Req(d, ChannelSince(d)))
              /\ dropped' = [dropped EXCEPT ![d] = 0]
    <3>1. d \in Channel
      BY DEF TypeOK
    <3>2. QED
      BY <1>8, <3>1, AsksWell DEF ResubscribesOne
  <2>2. d \in active /\ d \in Channel
    BY DEF TypeOK, Fresh
  <2>3. QED
    BY <1>k, <2>1, <2>2 DEF Aside, AskStep, Write, Passes
<1>9. ASSUME NEW d \in parked, DrainParked(d) PROVE Aside \/ Asking
  <2>1. /\ UNCHANGED <<stamp, home, live, jobs, active, lastSeen, floor, got, inbox, down>>
        /\ \/ up' = up /\ dropped' = dropped
           \/ /\ sock = "up" /\ Write(Req(d, ChannelSince(d))) /\ d \in active
              /\ dropped' = [dropped EXCEPT ![d] = 0]
    <3>1. d \in Channel
      BY DEF TypeOK
    <3>2. QED
      BY <1>9, <3>1, AsksWell DEF DrainParked
  <2>2. d \in Channel
    BY DEF TypeOK
  <2>3. QED
    BY <1>k, <2>1, <2>2 DEF Aside, AskStep, Write, Passes
<1>10. ASSUME NEW d \in retry, DrainRetry(d) PROVE Aside \/ Asking
  <2>1. /\ UNCHANGED <<stamp, home, live, jobs, active, lastSeen, floor, got, inbox, down>>
        /\ \/ up' = up /\ dropped' = dropped
           \/ /\ sock = "up" /\ Write(Req(d, ChannelSince(d)))
              /\ dropped' = [dropped EXCEPT ![d] = 0]
    <3>1. d \in Channel
      BY DEF TypeOK
    <3>2. QED
      BY <1>10, <3>1, AsksWell DEF DrainRetry
  <2>2. d \in active /\ d \in Channel
    BY DEF TypeOK, Fresh
  <2>3. QED
    BY <1>k, <2>1, <2>2 DEF Aside, AskStep, Write, Passes
<1>11. ASSUME ClientExecutes \/ DrainExecutes PROVE RecordStep
  BY <1>11, ExecuteRecords DEF ClientExecutes, DrainExecutes
<1>12. ASSUME ClientAppliesOffline PROVE RecordStep
  <2>1. Recorded
    BY <1>12, RecordsOne DEF ClientAppliesOffline
  <2>2. QED
    BY <1>12, <1>k, <2>1 DEF ClientAppliesOffline, RecordStep
<1>13. ASSUME LinkDies PROVE CutStep
  <2>1. Recorded
    BY <1>13, RecordsNothing DEF LinkDies
  <2>2. QED
    BY <1>13, <1>i, <1>k, <2>1 DEF LinkDies, CutStep, RelayForgetsConnection
<1>14. ASSUME ClientNotices \/ ClientReconnects PROVE CutStep
  <2>1. Recorded
    BY <1>14, RecordsNothing DEF ClientNotices, ClientReconnects
  <2>2. Kept
    BY <1>14, SignalKeeps DEF ClientNotices, ClientReconnects
  <2>3. QED
    BY <1>14, <1>i, <2>1, <2>2
       DEF ClientNotices, ClientReconnects, GoOffline, CutStep, RelayForgetsConnection
<1>15. ASSUME ClientFailsToExecute PROVE CutStep
  <2>1. Recorded
    BY <1>15, RecordsOne DEF ClientFailsToExecute
  <2>2. Kept
    BY <1>15, SignalKeeps DEF ClientFailsToExecute
  <2>3. QED
    BY <1>15, <1>i, <2>1, <2>2
       DEF ClientFailsToExecute, GoOffline, CutStep, RelayForgetsConnection
<1>16. ASSUME DrainFails PROVE RecordStep \/ CutStep
  <2>1. Recorded
    BY <1>16, RecordsAll DEF DrainFails
  <2>2. Kept
    BY <1>16, SignalKeeps DEF DrainFails
  <2>3. CASE phase = "drain"
    <3>1. GoOffline /\ UNCHANGED <<stamp, home>>
      BY <1>16, <2>3 DEF DrainFails
    <3>2. QED
      BY <1>i, <2>1, <2>2, <3>1 DEF GoOffline, CutStep, RelayForgetsConnection
  <2>4. CASE phase # "drain"
    <3>1. UNCHANGED <<stamp, home, live, jobs, down, up>>
      BY <1>16, <2>4 DEF DrainFails
    <3>2. QED
      BY <2>1, <2>2, <3>1 DEF RecordStep
  <2>5. QED
    BY <2>3, <2>4
<1>17. ASSUME Task
       PROVE  \/ ClientReadsEvent \/ ClientReadsDenial \/ Aside \/ RecordStep \/ CutStep
              \/ Asking
  BY <1>4, <1>5, <1>6, <1>7, <1>8, <1>9, <1>10, <1>11, <1>12, <1>14, <1>15, <1>16, <1>17
     DEF Task
<1>18. CASE UNCHANGED vars
  BY <1>18, <1>k DEF vars, Aside, Passes
<1>19. QED
  BY <1>1, <1>2, <1>3, <1>13, <1>17, <1>18 DEF Next, Relay, Faults, Asks

-----------------------------------------------------------------------------
(* What the steps do, on the sets of what is on the lines.                 *)

LEMMA Counting ==
    ASSUME TypeOK, Numbered
    PROVE  LET e == Cardinality(Published) + 1
           IN  e \in Event => /\ stamp[e] = 0
                              /\ \E n \in 0..MaxEvents : Published = 1..n /\ e = n + 1
<1> DEFINE e == Cardinality(Published) + 1
<1>1. PICK n \in 0..MaxEvents : Published = 1..n
  BY DEF Numbered
<1>2. n \in Nat
  BY LinkAssumption
<1>3. Cardinality(Published) = n
  <2>1. Cardinality(1..n) = IF 1 > n THEN 0 ELSE n - 1 + 1
    BY <1>2, FS_Interval
  <2>2. QED
    BY <1>1, <1>2, <2>1
<1>4. e = n + 1
  BY <1>3
<1> HIDE DEF e
<1>5. e \notin Published
  BY <1>1, <1>2, <1>4
<1>6. e \in Event => stamp[e] = 0
  BY <1>5 DEF Published, TypeOK
<1>7. QED
  BY <1>1, <1>4, <1>6 DEF e

(* A published event: the e-th, not known before, sent if the channel is   *)
(* registered.                                                             *)
Publishes(c, t, e, f) ==
    /\ stamp[e] = 0 /\ t >= Newest(stamp) - Drift
    /\ stamp' = [stamp EXCEPT ![e] = t] /\ home' = [home EXCEPT ![e] = c]
    /\ f \in Response /\ f.k = "event" /\ f.e = e /\ ~f.replayed
    /\ down' = IF live[c] # Unsubscribed /\ live[c] <= t THEN Append(down, f) ELSE down
    /\ UNCHANGED <<live, jobs, sock, up, active, lastSeen, dropped, floor, got, inbox,
                   cmds, seen, swallowed, phase, todo, retry, parked, resubNeeded>>

LEMMA Publishing ==
    ASSUME TypeOK, Numbered, NEW c \in Channel, NEW t \in 1..MaxStamp, RelayPublish(c, t)
    PROVE  \E e \in Event, f \in Response : Publishes(c, t, e, f)
<1> USE DEF relayVars, wireVars, taskVars, markVars, parkVars, harnessVars, budgetVars
<1> DEFINE e == Cardinality(Published) + 1
           f == [k |-> "event", e |-> e, replayed |-> FALSE]
<1>1. e \in Event /\ stamp[e] = 0
  BY Counting DEF RelayPublish
<1>2. f \in Response /\ f.k = "event" /\ f.e = e /\ ~f.replayed
  BY <1>1 DEF Response
<1>3. Now = Newest(stamp)
  BY Present
<1>4. /\ t >= Newest(stamp) - Drift
      /\ stamp' = [stamp EXCEPT ![e] = t] /\ home' = [home EXCEPT ![e] = c]
      /\ down' = IF live[c] # Unsubscribed /\ live[c] <= t THEN Append(down, f) ELSE down
  BY <1>3 DEF RelayPublish
<1>5. UNCHANGED <<live, jobs, sock, up, active, lastSeen, dropped, floor, got, inbox,
                  cmds, seen, swallowed, phase, todo, retry, parked, resubNeeded>>
  BY DEF RelayPublish
<1> HIDE DEF e, f
<1>6. Publishes(c, t, e, f)
  BY <1>1, <1>2, <1>4, <1>5 DEF Publishes
<1>7. QED
  BY <1>1, <1>2, <1>6

(* What a handler replays: the channel's stored events its filter accepts. *)
LEMMA Replaying ==
    ASSUME TypeOK, NEW j \in jobs, RelayReplays(j)
    PROVE  \E r \in Seq(Response) :
              /\ down' = down \o r
              /\ \A f \in On(r) : /\ f.k = "event" /\ f.replayed /\ f.e \in Event
                                  /\ home[f.e] = j.c /\ stamp[f.e] > 0
              /\ \A e \in Event : stamp[e] > 0 /\ home[e] = j.c /\ j.since <= stamp[e] =>
                    \E f \in On(r) : Frame(f, e) /\ f.replayed
<1> DEFINE es == {e \in Published : home[e] = j.c /\ stamp[e] >= j.since}
           found == NewestFirst(es)
           frames == [i \in DOMAIN found |->
                         [k |-> "event", e |-> found[i], replayed |-> TRUE]]
           n == Cardinality(es)
<1>1. es \in SUBSET Event
  BY DEF Published
<1>2. n \in Nat /\ found \in [1..n -> es]
  BY <1>1, ReplayOrder DEF TypeOK
<1>3. \A i, k \in 1..n : i # k => found[i] # found[k]
  BY <1>1, ReplayOrder DEF TypeOK
<1>4. down' = down \o frames
  BY DEF RelayReplays
<1>5. \A e \in es : e \in Event /\ home[e] = j.c /\ stamp[e] > 0
  BY <1>1 DEF Published
<1>6. ASSUME NEW e \in Event, stamp[e] > 0, home[e] = j.c, j.since <= stamp[e]
      PROVE  e \in es
  <2>1. stamp[e] \in Nat /\ j.since \in Nat
    BY LinkAssumption DEF TypeOK
  <2>2. stamp[e] >= j.since
    BY <1>6, <2>1
  <2>3. QED
    BY <1>6, <2>2 DEF Published
<1>7. ASSUME NEW e \in es PROVE \E i \in 1..n : found[i] = e
  <2>1. IsFiniteSet(es)
    <3>1. IsFiniteSet(Event)
      BY LinkAssumption, FS_Interval DEF Event
    <3>2. QED
      BY <1>1, <3>1, FS_Subset
  <2>2. found \in Injection(1..n, es)
    BY <1>2, <1>3 DEF Injection, IsInjective
  <2>3. Cardinality(1..n) = n /\ IsFiniteSet(1..n)
    <3>1. IsFiniteSet(1..n) /\ Cardinality(1..n) = IF 1 > n THEN 0 ELSE n - 1 + 1
      BY <1>2, FS_Interval
    <3> HIDE DEF n
    <3>2. QED
      BY <1>2, <3>1
  <2>4. QED
    <3>1. found \in Surjection(1..n, es)
      BY <2>1, <2>2, <2>3, FS_Injection
    <3>2. QED
      BY <3>1 DEF Surjection
<1> HIDE DEF es, found, n
<1>8. frames \in [1..n -> Response]
  BY <1>1, <1>2 DEF Response
<1>9. frames \in Seq(Response) /\ Len(frames) = n
  BY <1>2, <1>8
<1>10. \A i \in 1..n : /\ frames[i].k = "event" /\ frames[i].e = found[i]
                       /\ frames[i].replayed /\ found[i] \in es
  BY <1>2
<1> HIDE DEF frames
<1>11. \A i \in 1..n : frames[i] \in On(frames)
  BY <1>9 DEF On
<1>12. \A f \in On(frames) : \E i \in 1..n : f = frames[i]
  BY <1>9 DEF On
<1>13. ASSUME NEW e \in es PROVE \E f \in On(frames) : Frame(f, e) /\ f.replayed
  BY <1>7, <1>10, <1>11 DEF Frame
<1>14. \A f \in On(frames) : /\ f.k = "event" /\ f.replayed /\ f.e \in Event
                              /\ home[f.e] = j.c /\ stamp[f.e] > 0
  BY <1>5, <1>10, <1>12
<1>15. \A e \in Event : stamp[e] > 0 /\ home[e] = j.c /\ j.since <= stamp[e] =>
          \E f \in On(frames) : Frame(f, e) /\ f.replayed
  BY <1>6, <1>13
<1>16. frames \in Seq(Response)
  BY <1>9
<1>17. QED
  BY <1>4, <1>14, <1>15, <1>16

-----------------------------------------------------------------------------
(* Every event that waits is followed.                                     *)

LEMMA BehindNear ==
    ASSUME NEW q, NEW h, NEW st, NEW e,
           \A f \in On(q) : f.k = "event" /\ h[f.e] = h[e] => st[f.e] <= st[e] + Skew
    PROVE  Behind(q, h, st, e)
<1>1. \A i \in 1..Len(q) : q[i] \in On(q)
  BY DEF On
<1>2. QED
  BY <1>1 DEF Behind

(* An event waits longer only if it waited before. *)
LEMMA StillWaits ==
    ASSUME TypeOK, Kept, NEW e \in Event, home'[e] = home[e], stamp'[e] = stamp[e],
           home[e] \in active' => home[e] \in active,
           home[e] \in active' => floor'[home[e]] = floor[home[e]],
           home[e] \in active' /\ DeniedIn(down, home[e]) => DeniedIn(down', home[e]),
           Waiting(e)'
    PROVE  Waiting(e)
<1>1. got[e] \in Nat
  BY DEF TypeOK
<1>2. /\ stamp'[e] > 0
      /\ home'[e] \in active'
      /\ ~DeniedIn(down', home'[e])
      /\ stamp'[e] >= Since(floor'[home'[e]])
      /\ got'[e] = 0
      /\ e \notin On(inbox')
  BY DEF Waiting
<1>3. got[e] = 0 /\ e \notin On(inbox)
  BY <1>1, <1>2 DEF Kept
<1>4. QED
  BY <1>2, <1>3 DEF Waiting

(* The relay and the task may do nothing to e's channel but what takes     *)
(* away requests that may be refused, or adds or removes frames in the     *)
(* right order.                                                            *)
Gentle(e) ==
    /\ home'[e] = home[e] /\ stamp'[e] = stamp[e]
    /\ lastSeen'[home[e]] = lastSeen[home[e]]
    /\ dropped'[home[e]] = dropped[home[e]]
    /\ live'[home[e]] = live[home[e]]
    /\ \A j : j.c = home[e] => (j \in jobs <=> j \in jobs')
    /\ \A f : f.k = "req" /\ f.c = home[e] => /\ f \in On(up') => f \in On(up)
                                              /\ f \in On(up) /\ f.owes => f \in On(up')
    /\ \A f \in On(down) : Frame(f, e) => f \in On(down')

LEMMA GentleFollows ==
    ASSUME NEW e \in Event, Safe(e) \/ Ahead(e), Gentle(e),
           Ahead(e) => Behind(down', home', stamp', e)
    PROVE  Safe(e)' \/ Ahead(e)'
<1>1. CASE Safe(e)
  BY <1>1 DEF Safe, Gentle
<1>2. CASE Ahead(e)
  <2>1. live[home[e]] = Unsubscribed => Asked(e)'
    BY <1>2 DEF Ahead, Asked, Gentle
  <2>2. live[home[e]] # Unsubscribed => Sent(e)'
    BY <1>2 DEF Ahead, Sent, Gentle
  <2>3. QED
    BY <1>2, <2>1, <2>2 DEF Ahead, Gentle
<1>3. QED
  BY <1>1, <1>2

(* Reading a CLOSED changes nothing for the events. *)
LEMMA PassesOn ==
    ASSUME TypeOK, Passes
    PROVE  /\ On(down') \subseteq On(down)
           /\ \A f \in On(down) : f.k = "event" => f \in On(down')
           /\ \A c : DeniedIn(down, c) => DeniedIn(down', c)
           /\ \A h, st, e : Behind(down, h, st, e) => Behind(down', h, st, e)
<1>1. CASE down' = down
  BY <1>1
<1>2. CASE down' # down
  <2>1. /\ down # <<>> /\ down' = Tail(down)
        /\ Head(down).k = "closed" /\ Head(down).why # "denied"
    BY <1>2 DEF Passes
  <2>2. On(down) = {Head(down)} \cup On(down')
    BY <2>1, Lines
  <2>3. down \in Seq(Response)
    BY DEF TypeOK
  <2>4. ASSUME NEW h, NEW st, NEW e, Behind(down, h, st, e) PROVE Behind(down', h, st, e)
    <3>1. ~Frame(Head(down), e)
      BY <2>1 DEF Frame
    <3>2. QED
      BY <2>1, <2>3, <2>4, <3>1, BehindTail
  <2>5. QED
    BY <2>1, <2>2, <2>4 DEF DeniedIn
<1>3. QED
  BY <1>1, <1>2

LEMMA FollowedAside ==
    ASSUME TypeOK, Followed, Aside
    PROVE  Followed'
<1> SUFFICES ASSUME NEW e \in Event, Waiting(e)' PROVE Safe(e)' \/ Ahead(e)'
  BY DEF Followed
<1>1. /\ On(down') \subseteq On(down)
      /\ \A f \in On(down) : f.k = "event" => f \in On(down')
      /\ \A c : DeniedIn(down, c) => DeniedIn(down', c)
      /\ \A h, st, d : Behind(down, h, st, d) => Behind(down', h, st, d)
  BY PassesOn DEF Aside
<1>2. Waiting(e)
  BY <1>1, StillWaits DEF Aside
<1>3. Safe(e) \/ Ahead(e)
  BY <1>2 DEF Followed
<1>4. Gentle(e)
  BY <1>1 DEF Aside, Gentle, Frame
<1>5. Ahead(e) => Behind(down', home', stamp', e)
  BY <1>1 DEF Aside, Ahead
<1>6. QED
  BY <1>3, <1>4, <1>5, GentleFollows

LEMMA SinceFacts ==
    \A s, t \in Nat : /\ Since(s) \in Nat
                      /\ s <= t + Skew => Since(s) <= t
                      /\ s <= t => Since(s) <= Since(t)
BY LinkAssumption DEF Since

(* A new event: its time is within the skew of every mark, so whoever has  *)
(* asked for the channel has asked for it.                                 *)
LEMMA FollowedPublish ==
    ASSUME TypeOK, Dated, Followed, NEW c \in Channel, NEW t \in 1..MaxStamp,
           NEW x \in Event, NEW g \in Response, Publishes(c, t, x, g)
    PROVE  Followed'
<1> SUFFICES ASSUME NEW e \in Event, Waiting(e)' PROVE Safe(e)' \/ Ahead(e)'
  BY DEF Followed
<1> DEFINE n == Newest(stamp)
<1>p. /\ stamp[x] = 0 /\ t >= n - Drift
      /\ stamp' = [stamp EXCEPT ![x] = t] /\ home' = [home EXCEPT ![x] = c]
      /\ g.k = "event" /\ g.e = x /\ ~g.replayed
      /\ down' = IF live[c] # Unsubscribed /\ live[c] <= t THEN Append(down, g) ELSE down
      /\ UNCHANGED <<live, jobs, up, active, lastSeen, dropped, floor, got, inbox>>
  BY DEF Publishes
<1>t. /\ stamp \in [Event -> 0..MaxStamp] /\ home \in [Event -> Channel]
      /\ live \in [Channel -> -1..MaxStamp] /\ lastSeen \in [Channel -> 0..MaxStamp]
      /\ down \in Seq(Response) /\ t \in Nat
      /\ \A j \in jobs : j.since \in 0..MaxStamp
      /\ On(up) \subseteq Question
  <2>1. /\ stamp \in [Event -> 0..MaxStamp] /\ home \in [Event -> Channel]
        /\ live \in [Channel -> -1..MaxStamp] /\ lastSeen \in [Channel -> 0..MaxStamp]
        /\ down \in Seq(Response)
        /\ \A j \in jobs : j.since \in 0..MaxStamp
    BY DEF TypeOK
  <2>2. On(up) \subseteq Question
    BY Lines
  <2>3. t \in Nat
    OBVIOUS
  <2>4. QED
    BY <2>1, <2>2, <2>3
<1>n. /\ n \in Nat /\ n \in 1..MaxStamp /\ MaxStamp \in Nat /\ \A y \in Event : stamp[y] <= n
      /\ Skew \in Nat /\ Drift \in Nat /\ Drift <= Skew
  <2>1. /\ n \in Nat /\ n \in 1..MaxStamp /\ MaxStamp \in Nat
        /\ \A y \in Event : stamp[y] <= n
    BY Present
  <2>2. Skew \in Nat /\ Drift \in 0..Skew
    BY LinkAssumption
  <2>3. QED
    BY <2>1, <2>2
<1>d. /\ \A d \in Channel : lastSeen[d] <= n /\ live[d] <= Since(n)
      /\ \A f \in On(up) : f.k = "req" => f.since <= Since(n)
      /\ \A j \in jobs : j.since <= Since(n)
      /\ \A f \in On(down) : f.k = "event" => stamp[f.e] > 0
  BY DEF Dated, DatedBy
<1> HIDE DEF n
<1>1. n <= t + Skew
  BY <1>p, <1>t, <1>n
<1>2. Since(n) <= t /\ Since(n) \in Nat
  BY <1>1, <1>n, <1>t, SinceFacts
<1>3. stamp'[x] = t /\ home'[x] = c /\ \A y \in Event : y # x => stamp'[y] = stamp[y] /\ home'[y] = home[y]
  BY <1>p, <1>t
<1>4. live[c] <= t
  BY <1>2, <1>d, <1>t
<1>5. /\ live[c] # Unsubscribed => down' = Append(down, g) /\ On(down') = On(down) \cup {g}
      /\ live[c] = Unsubscribed => down' = down
  <2>1. On(Append(down, g)) = On(down) \cup {g}
    BY Lines
  <2>2. QED
    BY <1>p, <1>4, <2>1
<1>6. \A f \in On(down) : f.k = "event" => f.e \in Event /\ f.e # x
  BY <1>p, <1>d, Lines, Parts
<1>7. CASE e = x
  <2>1. stamp'[e] = t /\ home'[e] = c
    BY <1>3, <1>7
  <2>2. lastSeen'[c] <= t + Skew
    BY <1>1, <1>d, <1>n, <1>t, <1>p
  <2>3. ASSUME NEW f \in On(down'), f.k = "event" PROVE stamp'[f.e] <= stamp'[e] + Skew
    <3>1. CASE f \in On(down)
      <4>1. f.e \in Event /\ f.e # x
        BY <1>6, <2>3, <3>1
      <4>2. stamp'[f.e] = stamp[f.e] /\ stamp[f.e] <= n /\ stamp[f.e] \in Nat
        BY <1>3, <1>n, <1>t, <4>1
      <4>3. QED
        BY <1>1, <1>n, <1>t, <2>1, <4>2
    <3>2. CASE f \notin On(down)
      <4>1. f.e = x
        BY <1>5, <1>p, <3>2
      <4>2. QED
        BY <1>3, <1>n, <1>t, <2>1, <4>1
    <3>3. QED
      BY <3>1, <3>2
  <2>4. Behind(down', home', stamp', e)
    BY <2>3, BehindNear
  <2>5. CASE live[c] # Unsubscribed
    <3>1. Sent(e)'
      BY <1>5, <1>7, <1>p, <2>5 DEF Sent, Frame
    <3>2. QED
      BY <1>p, <2>1, <2>2, <2>4, <2>5, <3>1 DEF Ahead
  <2>6. CASE live[c] = Unsubscribed /\ \E j \in jobs : j.c = c
    <3>1. PICK j \in jobs : j.c = c
      BY <2>6
    <3>2. j.since <= t
      BY <1>2, <1>d, <1>t, <3>1
    <3>3. QED
      BY <1>p, <2>1, <3>1, <3>2 DEF Safe
  <2>7. CASE live[c] = Unsubscribed /\ \A j \in jobs : j.c # c
    <3>1. ASSUME NEW f \in On(up), f.k = "req" PROVE f.since <= t
      <4>1. f.since \in 0..MaxStamp /\ f.since <= Since(n)
        BY <1>t, <1>d, <3>1, Parts
      <4>2. QED
        BY <1>2, <1>t, <1>n, <4>1
    <3>2. Asked(e)'
      BY <1>p, <2>1, <2>7, <3>1 DEF Asked
    <3>3. QED
      BY <1>p, <2>1, <2>2, <2>4, <2>7, <3>2 DEF Ahead
  <2>8. QED
    BY <2>5, <2>6, <2>7
<1>8. CASE e # x
  <2>1. stamp'[e] = stamp[e] /\ home'[e] = home[e]
    BY <1>3, <1>8
  <2>2. On(down) \subseteq On(down') /\ Kept
    BY <1>5, <1>p DEF Kept
  <2>3. Waiting(e)
    BY <1>p, <2>1, <2>2, StillWaits DEF DeniedIn
  <2>4. Safe(e) \/ Ahead(e)
    BY <2>3 DEF Followed
  <2>5. Gentle(e)
    BY <1>p, <2>1, <2>2 DEF Gentle
  <2>6. ASSUME Ahead(e) PROVE Behind(down', home', stamp', e)
    <3>1. Behind(down, home, stamp, e)
      BY <2>6 DEF Ahead
    <3>2. \A f \in On(down) : f.k = "event" => home'[f.e] = home[f.e] /\ stamp'[f.e] = stamp[f.e]
      BY <1>3, <1>6
    <3>3. Behind(down, home', stamp', e)
      BY <2>1, <3>1, <3>2, BehindSame
    <3>4. CASE live[c] = Unsubscribed
      BY <1>5, <3>3, <3>4
    <3>5. CASE live[c] # Unsubscribed
      <4>1. home'[g.e] # home'[e] \/ \E f \in On(down) : Frame(f, e)
        <5>1. CASE home[e] = c
          BY <2>6, <3>5, <5>1 DEF Ahead, Sent
        <5>2. CASE home[e] # c
          BY <1>3, <1>p, <2>1, <5>2
        <5>3. QED
          BY <5>1, <5>2
      <4>2. Behind(Append(down, g), home', stamp', e)
        BY <1>t, <3>3, <4>1, BehindAppend
      <4>3. QED
        BY <1>5, <3>5, <4>2
    <3>6. QED
      BY <3>4, <3>5
  <2>7. QED
    BY <2>4, <2>5, <2>6, GentleFollows
<1>9. QED
  BY <1>7, <1>8

(* The oldest frame on the way to the relay is taken. *)
LEMMA UpTail ==
    ASSUME TypeOK, up # <<>>, up' = Tail(up)
    PROVE  /\ Head(up) \in Question /\ Head(up) \in On(up)
           /\ On(up) = {Head(up)} \cup On(up')
BY Lines

LEMMA FollowedAdmit ==
    ASSUME TypeOK, Followed, RelayAdmits
    PROVE  Followed'
<1> USE DEF relayVars, wireVars, taskVars, markVars, parkVars, harnessVars, budgetVars
<1> SUFFICES ASSUME NEW e \in Event, Waiting(e)' PROVE Safe(e)' \/ Ahead(e)'
  BY DEF Followed
<1> DEFINE h == Head(up)
           j == [c |-> h.c, since |-> h.since, registered |-> FALSE]
<1>1. /\ up # <<>> /\ up' = Tail(up) /\ h.k = "req" /\ jobs' = jobs \cup {j}
      /\ UNCHANGED <<stamp, home, live, down, active, lastSeen, dropped, floor, got, inbox>>
  BY DEF RelayAdmits
<1>2. On(up) = {h} \cup On(up')
  BY <1>1, UpTail
<1>3. j.c = h.c /\ j.since = h.since
  OBVIOUS
<1> HIDE DEF h, j
<1>4. Waiting(e)
  BY <1>1, StillWaits DEF Kept
<1>5. Safe(e) \/ Ahead(e)
  BY <1>4 DEF Followed
<1>6. CASE Safe(e)
  BY <1>1, <1>2, <1>3, <1>6 DEF Safe
<1>7. CASE Ahead(e) /\ live[home[e]] # Unsubscribed
  BY <1>1, <1>7 DEF Ahead, Sent
<1>8. CASE Ahead(e) /\ live[home[e]] = Unsubscribed
  <2>1. Asked(e)
    BY <1>8 DEF Ahead
  <2>2. CASE h.c = home[e]
    <3>1. h.since <= stamp[e]
      BY <1>1, <1>2, <2>1, <2>2 DEF Asked
    <3>2. QED
      BY <1>1, <1>3, <2>2, <3>1 DEF Safe
  <2>3. CASE h.c # home[e]
    <3>1. Asked(e)'
      BY <1>1, <1>2, <1>3, <2>1, <2>3 DEF Asked
    <3>2. QED
      BY <1>1, <1>8, <3>1 DEF Ahead
  <2>4. QED
    BY <2>2, <2>3
<1>9. QED
  BY <1>5, <1>6, <1>7, <1>8

(* A CLOSED goes to the end of the line. *)
LEMMA ClosedAppended ==
    ASSUME TypeOK, NEW f \in Response, f.k = "closed", down' = Append(down, f)
    PROVE  /\ On(down') = On(down) \cup {f}
           /\ \A c : DeniedIn(down, c) => DeniedIn(down', c)
           /\ f.why = "denied" => DeniedIn(down', f.c)
           /\ \A h, st, e : Behind(down, h, st, e) => Behind(down', h, st, e)
<1>1. down \in Seq(Response)
  BY DEF TypeOK
<1>2. On(down') = On(down) \cup {f}
  BY Lines
<1>3. ASSUME NEW h, NEW st, NEW e, Behind(down, h, st, e) PROVE Behind(down', h, st, e)
  <2>1. f.k # "event"
    OBVIOUS
  <2>2. Behind(Append(down, f), h, st, e)
    BY <1>1, <1>3, <2>1, BehindAppend
  <2>3. QED
    BY <2>2
<1>4. QED
  BY <1>2, <1>3 DEF DeniedIn

(* Only a request that asks for nothing dropped is refused here. *)
LEMMA FollowedRefuse ==
    ASSUME ~spoilt', TypeOK, Followed, NEW why \in {"rate", "other"}, RelayRefuses(why)
    PROVE  Followed'
<1> USE DEF relayVars, wireVars, taskVars, markVars, parkVars, harnessVars, budgetVars
<1> SUFFICES ASSUME NEW e \in Event, Waiting(e)' PROVE Safe(e)' \/ Ahead(e)'
  BY DEF Followed
<1> DEFINE h == Head(up)
           f == [k |-> "closed", c |-> h.c, why |-> why]
<1>1. /\ up # <<>> /\ up' = Tail(up) /\ h.k = "req" /\ ~h.owes
      /\ down' = Append(down, f)
      /\ UNCHANGED <<stamp, home, live, jobs, active, lastSeen, dropped, floor, got, inbox>>
  BY DEF RelayRefuses, Spoils
<1>2. On(up) = {h} \cup On(up') /\ h \in Question
  BY <1>1, UpTail
<1>3. f \in Response /\ f.k = "closed"
  <2>1. h.c \in Channel
    BY <1>2, Parts
  <2>2. QED
    BY <2>1 DEF Response
<1> HIDE DEF h, f
<1>4. /\ On(down') = On(down) \cup {f}
      /\ \A c : DeniedIn(down, c) => DeniedIn(down', c)
      /\ \A hh, st, d : Behind(down, hh, st, d) => Behind(down', hh, st, d)
  BY <1>1, <1>3, ClosedAppended
<1>5. Waiting(e)
  BY <1>1, <1>4, StillWaits DEF Kept
<1>6. Safe(e) \/ Ahead(e)
  BY <1>5 DEF Followed
<1>7. Gentle(e)
  BY <1>1, <1>2, <1>4 DEF Gentle
<1>8. Ahead(e) => Behind(down', home', stamp', e)
  BY <1>1, <1>4 DEF Ahead
<1>9. QED
  BY <1>6, <1>7, <1>8, GentleFollows

LEMMA FollowedRegister ==
    ASSUME TypeOK, Followed, NEW j \in jobs, RelayRegisters(j)
    PROVE  Followed'
<1> USE DEF relayVars, wireVars, taskVars, markVars, parkVars, harnessVars, budgetVars
<1> SUFFICES ASSUME NEW e \in Event, Waiting(e)' PROVE Safe(e)' \/ Ahead(e)'
  BY DEF Followed
<1> DEFINE k == [j EXCEPT !.registered = TRUE]
<1>1. /\ live' = [live EXCEPT ![j.c] = j.since] /\ jobs' = (jobs \ {j}) \cup {k}
      /\ UNCHANGED <<stamp, home, up, down, active, lastSeen, dropped, floor, got, inbox>>
  BY DEF RelayRegisters
<1>2. k.c = j.c /\ k.since = j.since
  BY DEF TypeOK
<1>3. /\ j.c \in Channel /\ j.since # Unsubscribed /\ live \in [Channel -> -1..MaxStamp]
      /\ home[e] \in Channel
  BY DEF TypeOK, Unsubscribed
<1> HIDE DEF k
<1>4. Waiting(e)
  BY <1>1, StillWaits DEF Kept
<1>5. Safe(e) \/ Ahead(e)
  BY <1>4 DEF Followed
<1>6. CASE Safe(e)
  <2>1. ASSUME NEW i \in jobs, i.c = home[e], i.since <= stamp[e]
        PROVE  \E m \in jobs' : m.c = home[e] /\ m.since <= stamp[e]
    <3>1. CASE i = j
      BY <1>1, <1>2, <2>1, <3>1
    <3>2. CASE i # j
      BY <1>1, <2>1, <3>2
    <3>3. QED
      BY <3>1, <3>2
  <2>2. QED
    BY <1>1, <1>6, <2>1 DEF Safe
<1>7. CASE Ahead(e) /\ home[e] = j.c
  <2>1. live[home[e]] # Unsubscribed
    BY <1>7 DEF Ahead, Asked
  <2>2. live'[home[e]] # Unsubscribed
    BY <1>1, <1>3, <1>7
  <2>3. QED
    BY <1>1, <1>7, <2>1, <2>2 DEF Ahead, Sent
<1>8. CASE Ahead(e) /\ home[e] # j.c
  <2>1. live'[home[e]] = live[home[e]]
    BY <1>1, <1>3, <1>8
  <2>2. Asked(e) => Asked(e)'
    BY <1>1, <1>2, <1>8 DEF Asked
  <2>3. QED
    BY <1>1, <1>8, <2>1, <2>2 DEF Ahead, Sent
<1>9. QED
  BY <1>5, <1>6, <1>7, <1>8

LEMMA FollowedReplay ==
    ASSUME TypeOK, Followed, NEW j \in jobs, RelayReplays(j)
    PROVE  Followed'
<1> USE DEF relayVars, wireVars, taskVars, markVars, parkVars, harnessVars, budgetVars
<1> SUFFICES ASSUME NEW e \in Event, Waiting(e)' PROVE Safe(e)' \/ Ahead(e)'
  BY DEF Followed
<1>1. /\ jobs' = jobs \ {j}
      /\ UNCHANGED <<stamp, home, live, up, active, lastSeen, dropped, floor, got, inbox>>
  BY DEF RelayReplays
<1>2. PICK r \in Seq(Response) :
              /\ down' = down \o r
              /\ \A f \in On(r) : /\ f.k = "event" /\ f.replayed /\ f.e \in Event
                                  /\ home[f.e] = j.c /\ stamp[f.e] > 0
              /\ \A x \in Event : stamp[x] > 0 /\ home[x] = j.c /\ j.since <= stamp[x] =>
                    \E f \in On(r) : Frame(f, x) /\ f.replayed
  BY Replaying
<1>3. On(down') = On(down) \cup On(r)
  BY <1>2, Lines
<1>4. down \in Seq(Response)
  BY DEF TypeOK
<1>5. Waiting(e)
  BY <1>1, <1>3, StillWaits DEF Kept, DeniedIn
<1>6. Safe(e) \/ Ahead(e)
  BY <1>5 DEF Followed
<1>7. CASE home[e] = j.c /\ j.since <= stamp[e]
  <2>1. stamp[e] > 0
    BY <1>5 DEF Waiting
  <2>2. \E f \in On(r) : Frame(f, e) /\ f.replayed
    BY <1>2, <1>7, <2>1
  <2>3. QED
    BY <1>3, <2>2 DEF Safe
<1>8. CASE Safe(e) /\ ~(home[e] = j.c /\ j.since <= stamp[e])
  BY <1>1, <1>3, <1>8 DEF Safe
<1>9. CASE Ahead(e) /\ home[e] = j.c
  <2>1. live[home[e]] # Unsubscribed
    BY <1>9 DEF Ahead, Asked
  <2>2. Sent(e)
    BY <1>9, <2>1 DEF Ahead
  <2>3. Behind(down \o r, home, stamp, e)
    BY <1>2, <1>4, <1>9, <2>2, BehindConcat DEF Ahead, Sent
  <2>4. Sent(e)'
    BY <1>3, <2>2 DEF Sent
  <2>5. QED
    BY <1>1, <1>2, <1>9, <2>1, <2>3, <2>4 DEF Ahead
<1>10. CASE Ahead(e) /\ home[e] # j.c
  <2>1. \A f \in On(r) : f.k = "event" => home[f.e] # home[e]
    BY <1>2, <1>10
  <2>2. Behind(down, home, stamp, e)
    BY <1>10 DEF Ahead
  <2>3. Behind(down \o r, home, stamp, e)
    BY <1>2, <1>4, <2>1, <2>2, BehindConcat
  <2>4. /\ Sent(e) => Sent(e)'
        /\ Asked(e) => Asked(e)'
    BY <1>1, <1>3, <1>10 DEF Sent, Asked
  <2>5. QED
    BY <1>1, <1>2, <1>10, <2>3, <2>4 DEF Ahead
<1>11. QED
  BY <1>6, <1>7, <1>8, <1>9, <1>10

(* A channel is denied, or its subscription closed: whatever waits there   *)
(* waits no more, and the others are not touched.                          *)
LEMMA FollowedOthers ==
    ASSUME TypeOK, Followed, NEW c, NEW f \in Response, f.k = "closed", f.c = c,
           down' = Append(down, f),
           f.why = "denied" \/ c \notin active,
           UNCHANGED <<stamp, home, active, lastSeen, dropped, floor, got, inbox>>,
           \A d \in Channel : d # c => live'[d] = live[d],
           \A j : j.c # c => (j \in jobs <=> j \in jobs'),
           \A g : g.k = "req" => (g \in On(up) <=> g \in On(up'))
    PROVE  Followed'
<1> SUFFICES ASSUME NEW e \in Event, Waiting(e)' PROVE Safe(e)' \/ Ahead(e)'
  BY DEF Followed
<1>1. /\ On(down') = On(down) \cup {f}
      /\ \A d : DeniedIn(down, d) => DeniedIn(down', d)
      /\ f.why = "denied" => DeniedIn(down', c)
      /\ \A h, st, d : Behind(down, h, st, d) => Behind(down', h, st, d)
  BY ClosedAppended
<1>2. home[e] # c /\ home[e] \in Channel
  BY <1>1 DEF Waiting, TypeOK
<1>3. Waiting(e)
  BY <1>1, StillWaits DEF Kept
<1>4. Safe(e) \/ Ahead(e)
  BY <1>3 DEF Followed
<1>5. Gentle(e)
  BY <1>1, <1>2 DEF Gentle
<1>6. Ahead(e) => Behind(down', home', stamp', e)
  BY <1>1 DEF Ahead
<1>7. QED
  BY <1>4, <1>5, <1>6, GentleFollows

LEMMA FollowedDeny ==
    ASSUME TypeOK, Followed, NEW j \in jobs, RelayDenies(j)
    PROVE  Followed'
<1> USE DEF relayVars, wireVars, taskVars, markVars, parkVars, harnessVars, budgetVars
<1> DEFINE f == [k |-> "closed", c |-> j.c, why |-> "denied"]
<1>1. /\ jobs' = jobs \ {j} /\ down' = Append(down, f)
      /\ UNCHANGED <<stamp, home, live, up, active, lastSeen, dropped, floor, got, inbox>>
  BY DEF RelayDenies
<1>2. f \in Response /\ f.k = "closed" /\ f.c = j.c /\ f.why = "denied"
  BY DEF Response, TypeOK
<1> HIDE DEF f
<1>3. \A i : i.c # j.c => (i \in jobs <=> i \in jobs')
  BY <1>1
<1>4. QED
  BY <1>1, <1>2, <1>3, FollowedOthers

LEMMA FollowedRevoke ==
    ASSUME TypeOK, Followed, NEW c \in Channel, RelayRevokes(c)
    PROVE  Followed'
<1> USE DEF relayVars, wireVars, taskVars, markVars, parkVars, harnessVars, budgetVars
<1> DEFINE f == [k |-> "closed", c |-> c, why |-> "denied"]
<1>1. /\ live' = [live EXCEPT ![c] = Unsubscribed] /\ down' = Append(down, f)
      /\ UNCHANGED <<stamp, home, jobs, up, active, lastSeen, dropped, floor, got, inbox>>
  BY DEF RelayRevokes
<1>2. f \in Response /\ f.k = "closed" /\ f.c = c /\ f.why = "denied"
  BY DEF Response
<1> HIDE DEF f
<1>3. \A d \in Channel : d # c => live'[d] = live[d]
  BY <1>1 DEF TypeOK
<1>4. QED
  BY <1>1, <1>2, <1>3, FollowedOthers

LEMMA FollowedClose ==
    ASSUME TypeOK, Fresh, Followed, RelayCloses
    PROVE  Followed'
<1> USE DEF relayVars, wireVars, taskVars, markVars, parkVars, harnessVars, budgetVars
<1> DEFINE h == Head(up)
           f == [k |-> "closed", c |-> h.c, why |-> "other"]
<1>1. /\ up # <<>> /\ up' = Tail(up) /\ h.k = "close"
      /\ live' = [live EXCEPT ![h.c] = Unsubscribed] /\ down' = Append(down, f)
      /\ UNCHANGED <<stamp, home, jobs, active, lastSeen, dropped, floor, got, inbox>>
  BY DEF RelayCloses
<1>2. h \in Question /\ h \in On(up) /\ On(up) = {h} \cup On(up')
  BY <1>1, UpTail
<1>3. h.c \in Channel /\ h.c \notin active
  BY <1>1, <1>2, Parts DEF Fresh
<1>4. f \in Response /\ f.k = "closed" /\ f.c = h.c
  BY <1>3 DEF Response
<1> HIDE DEF f, h
<1>5. \A d \in Channel : d # h.c => live'[d] = live[d]
  BY <1>1 DEF TypeOK
<1>6. \A g : g.k = "req" => (g \in On(up) <=> g \in On(up'))
  BY <1>1, <1>2
<1>7. QED
  BY <1>1, <1>3, <1>4, <1>5, <1>6, FollowedOthers

(* The channel is dropped on a denial. *)
LEMMA FollowedDenial ==
    ASSUME TypeOK, Followed, ClientReadsDenial
    PROVE  Followed'
<1> USE DEF relayVars, wireVars, taskVars, markVars, parkVars, harnessVars, budgetVars
<1> SUFFICES ASSUME NEW e \in Event, Waiting(e)' PROVE Safe(e)' \/ Ahead(e)'
  BY DEF Followed
<1> DEFINE d == Head(down).c
<1>1. /\ down # <<>> /\ down' = Tail(down) /\ Head(down).k = "closed"
      /\ active' = active \ {d}
      /\ lastSeen' = [lastSeen EXCEPT ![d] = 0]
      /\ floor' = [floor EXCEPT ![d] = 0]
      /\ dropped' = [dropped EXCEPT ![d] = 0]
      /\ UNCHANGED <<stamp, home, live, jobs, up, got, inbox>>
  BY DEF ClientReadsDenial, ForgetChannel
<1>2. On(down) = {Head(down)} \cup On(down') /\ down \in Seq(Response)
  BY <1>1, Lines DEF TypeOK
<1>3. home[e] # d /\ home[e] \in Channel /\ home[e] \in active
  BY <1>1 DEF Waiting, TypeOK
<1>4. /\ lastSeen'[home[e]] = lastSeen[home[e]] /\ dropped'[home[e]] = dropped[home[e]]
      /\ floor'[home[e]] = floor[home[e]]
  BY <1>1, <1>3 DEF TypeOK
<1>5. DeniedIn(down, home[e]) => DeniedIn(down', home[e])
  BY <1>2, <1>3 DEF DeniedIn
<1>6. Waiting(e)
  BY <1>1, <1>3, <1>4, <1>5, StillWaits DEF Kept
<1>7. Safe(e) \/ Ahead(e)
  BY <1>6 DEF Followed
<1>8. Gentle(e)
  BY <1>1, <1>2, <1>4 DEF Gentle, Frame
<1>9. Ahead(e) => Behind(down', home', stamp', e)
  <2>1. ~Frame(Head(down), e)
    BY <1>1 DEF Frame
  <2>2. Behind(down, home, stamp, e) => Behind(Tail(down), home, stamp, e)
    BY <1>1, <1>2, <2>1, BehindTail
  <2>3. QED
    BY <1>1, <2>2 DEF Ahead
<1>10. QED
  BY <1>7, <1>8, <1>9, GentleFollows

(* Asking for the channel: the request reaches back to the mark of what    *)
(* was dropped, and to the watermark.                                      *)
LEMMA FollowedAsk ==
    ASSUME TypeOK, Dated, Followed, NEW c \in Channel, AskStep(c)
    PROVE  Followed'
<1> SUFFICES ASSUME NEW e \in Event, Waiting(e)' PROVE Safe(e)' \/ Ahead(e)'
  BY DEF Followed
<1> DEFINE f == Req(c, ChannelSince(c))
           s == ChannelSince(c)
<1>1. /\ up' = Append(up, f) /\ dropped' = [dropped EXCEPT ![c] = 0]
      /\ UNCHANGED <<stamp, home, live, jobs, active, lastSeen, floor>>
      /\ Passes /\ Kept
  BY DEF AskStep
<1>2. /\ On(down') \subseteq On(down)
      /\ \A g \in On(down) : g.k = "event" => g \in On(down')
      /\ \A d : DeniedIn(down, d) => DeniedIn(down', d)
      /\ \A h, st, d : Behind(down, h, st, d) => Behind(down', h, st, d)
  BY <1>1, PassesOn
<1>3. s \in 0..MaxStamp /\ f \in Question
  BY SinceTypes, ReqType
<1>4. f.k = "req" /\ f.c = c /\ f.since = Since(s) /\ (dropped[c] > 0 => f.owes)
  BY DEF Req
<1>5. On(up') = On(up) \cup {f}
  BY <1>1, <1>3, Lines
<1>6. Waiting(e)
  BY <1>1, <1>2, StillWaits
<1>7. Safe(e) \/ Ahead(e)
  BY <1>6 DEF Followed
<1>t. /\ stamp[e] \in Nat /\ stamp[e] > 0 /\ home[e] \in Channel
      /\ dropped \in [Channel -> 0..MaxStamp] /\ lastSeen[c] \in Nat /\ floor[c] \in Nat
      /\ dropped[c] \in Nat /\ Skew \in Nat /\ s \in Nat
  <2>1. MaxStamp \in Nat /\ Skew \in Nat
    BY LinkAssumption
  <2>2. stamp[e] \in 0..MaxStamp /\ home[e] \in Channel
    BY DEF TypeOK
  <2>3. /\ dropped \in [Channel -> 0..MaxStamp] /\ lastSeen[c] \in 0..MaxStamp
        /\ floor[c] \in 0..MaxStamp
    BY DEF TypeOK
  <2>4. stamp[e] > 0
    BY <1>6 DEF Waiting
  <2>5. dropped[c] \in 0..MaxStamp
    BY <2>3
  <2>6. QED
    BY <1>3, <2>1, <2>2, <2>3, <2>4, <2>5
<1>s. /\ dropped[c] > 0 => s <= dropped[c]
      /\ lastSeen[c] > 0 => s <= lastSeen[c]
      /\ lastSeen[c] = 0 /\ dropped[c] = 0 => s = floor[c]
  BY <1>t DEF ChannelSince, Earlier
<1>d. dropped[c] > 0 => lastSeen[c] > 0
  BY DEF Dated, DatedBy
<1> HIDE DEF f, s
<1>8. CASE home[e] = c
  <2>1. ASSUME dropped[c] > 0, dropped[c] <= stamp[e] + Skew PROVE Safe(e)'
    <3>1. s <= stamp[e] + Skew
      BY <1>t, <1>s, <2>1
    <3>2. f.since <= stamp[e]
      BY <1>4, <1>t, <3>1, SinceFacts
    <3>3. QED
      BY <1>1, <1>4, <1>5, <1>8, <2>1, <3>2 DEF Safe
  <2>2. CASE Safe(e)
    BY <1>1, <1>2, <1>5, <1>8, <2>1, <2>2 DEF Safe, Frame
  <2>3. CASE Ahead(e)
    <3>1. f.since <= stamp[e]
      <4>1. CASE lastSeen[c] > 0
        <5>1. s <= stamp[e] + Skew
          BY <1>t, <1>s, <1>8, <2>3, <4>1 DEF Ahead
        <5>2. QED
          BY <1>4, <1>t, <5>1, SinceFacts
      <4>2. CASE lastSeen[c] = 0
        <5>1. s = floor[c]
          BY <1>t, <1>s, <1>d, <4>2
        <5>2. stamp[e] >= Since(floor[c])
          BY <1>6, <1>8 DEF Waiting
        <5>3. QED
          BY <1>4, <1>t, <5>1, <5>2, SinceFacts
      <4>3. QED
        BY <1>t, <4>1, <4>2
    <3>2. Asked(e) => Asked(e)'
      BY <1>1, <1>5, <3>1 DEF Asked
    <3>3. Sent(e) => Sent(e)'
      BY <1>2 DEF Sent, Frame
    <3>4. Behind(down', home', stamp', e)
      BY <1>1, <1>2, <2>3 DEF Ahead
    <3>5. QED
      BY <1>1, <2>3, <3>2, <3>3, <3>4 DEF Ahead
  <2>4. QED
    BY <1>7, <2>2, <2>3
<1>9. CASE home[e] # c
  <2>1. dropped'[home[e]] = dropped[home[e]]
    BY <1>1, <1>t, <1>9
  <2>2. Gentle(e)
    BY <1>1, <1>2, <1>4, <1>5, <1>9, <2>1 DEF Gentle, Frame
  <2>3. Ahead(e) => Behind(down', home', stamp', e)
    BY <1>1, <1>2 DEF Ahead
  <2>4. QED
    BY <1>7, <2>2, <2>3, GentleFollows
<1>10. QED
  BY <1>8, <1>9

(* A channel that joins has nothing on the lines, and its request reaches  *)
(* back to the floor of the subscription.                                  *)
LEMMA FollowedRecord ==
    ASSUME TypeOK, Fresh, Followed, RecordStep
    PROVE  Followed'
<1> SUFFICES ASSUME NEW e \in Event, Waiting(e)' PROVE Safe(e)' \/ Ahead(e)'
  BY DEF Followed
<1> DEFINE c == home[e]
<1>1. UNCHANGED <<stamp, home, live, jobs, down>> /\ Kept
  BY DEF RecordStep
<1>t. /\ c \in Channel /\ stamp[e] \in Nat /\ stamp[e] + Skew >= 0 /\ On(cmds) \subseteq Command
  <2>1. c \in Channel /\ stamp[e] \in 0..MaxStamp /\ MaxStamp \in Nat /\ Skew \in Nat
    BY LinkAssumption DEF TypeOK
  <2>2. On(cmds) \subseteq Command
    BY Lines
  <2>3. QED
    BY <2>1, <2>2
<1>2. /\ c \in active'
      /\ stamp[e] >= Since(floor'[c])
  BY <1>1 DEF Waiting
<1>u. \/ up' = up
      \/ \E f \in Question : /\ On(up') = On(up) \cup {f}
                             /\ f.k = "close"
      \/ \E f \in Question : /\ On(up') = On(up) \cup {f}
                             /\ f.k = "req" /\ Subbed(f.c)
                             /\ f.since = Since(floor'[f.c])
  BY Lines DEF RecordStep
<1>r. /\ \/ lastSeen'[c] = lastSeen[c] /\ dropped'[c] = dropped[c]
         \/ lastSeen'[c] = 0 /\ dropped'[c] = 0
      /\ ~Subbed(c) => /\ c \in active
                       /\ lastSeen'[c] = lastSeen[c]
                       /\ dropped'[c] = dropped[c]
                       /\ floor'[c] = floor[c]
  BY <1>2, <1>t DEF RecordStep, Recorded
<1> HIDE DEF c
<1>3. CASE Subbed(c)
  <2>1. Blank(c)
    BY <1>3 DEF Subbed, Fresh
  <2>2. lastSeen'[c] = 0
    BY <1>r, <2>1 DEF Blank
  <2>3. Behind(down, home, stamp, e)
    BY <2>1, BehindNear DEF Blank, c
  <2>4. Asked(e)'
    <3>1. \A j \in jobs' : j.c # c
      BY <1>1, <2>1 DEF Blank
    <3>f. \A f \in On(up) : f.c # c
      BY <2>1 DEF Blank
    <3>2. ASSUME NEW f \in On(up'), f.k = "req", f.c = c PROVE f.since <= stamp[e]
      <4>1. f \notin On(up)
        BY <3>2, <3>f
      <4>2. f.since = Since(floor'[c]) /\ f \in Question
        BY <1>u, <3>2, <4>1
      <4>3. f.since \in 0..MaxStamp
        BY <3>2, <4>2, Parts
      <4>4. QED
        BY <1>2, <1>t, <4>2, <4>3
    <3>3. QED
      BY <1>1, <3>1, <3>2 DEF Asked, c
  <2>5. live'[c] = Unsubscribed
    BY <1>1, <2>1 DEF Blank
  <2>6. lastSeen'[c] <= stamp[e] + Skew
    BY <1>t, <2>2
  <2>7. QED
    BY <1>1, <2>3, <2>4, <2>5, <2>6 DEF Ahead, c
<1>4. CASE ~Subbed(c)
  <2>1. Waiting(e)
    BY <1>1, <1>r, <1>4, StillWaits DEF c
  <2>2. Safe(e) \/ Ahead(e)
    BY <2>1 DEF Followed
  <2>3. \A f : f.k = "req" /\ f.c = c => (f \in On(up) <=> f \in On(up'))
    BY <1>u, <1>4
  <2>4. Gentle(e)
    BY <1>1, <1>r, <1>4, <2>3 DEF Gentle, c
  <2>5. Ahead(e) => Behind(down', home', stamp', e)
    BY <1>1 DEF Ahead
  <2>6. QED
    BY <2>2, <2>4, <2>5, GentleFollows
<1>5. QED
  BY <1>3, <1>4

(* The connection ends while no replay is under way: what was on the lines *)
(* lies within the window of the next request.                             *)
LEMMA FollowedCut ==
    ASSUME TypeOK, Fresh, Followed, CutStep
    PROVE  Followed'
<1> SUFFICES ASSUME NEW e \in Event, Waiting(e)' PROVE Safe(e)' \/ Ahead(e)'
  BY DEF Followed
<1> DEFINE c == home[e]
<1>1. /\ up' = <<>> /\ down' = <<>> /\ jobs' = {}
      /\ live' = [d \in Channel |-> Unsubscribed]
      /\ UNCHANGED <<stamp, home>> /\ Kept
  BY DEF CutStep
<1>2. /\ \A f \in On(up) : f.k # "req"
      /\ jobs = {}
      /\ \A f \in On(down) : ~(f.k = "event" /\ f.replayed)
  BY DEF CutStep, ReplayUnderWay, On
<1>3. \A d \in Channel : ~DeniedIn(down, d)
  BY DEF CutStep, ReplayUnderWay, Denied, DeniedIn, On
<1>t. c \in Channel /\ stamp[e] \in Nat /\ stamp[e] + Skew >= 0
  <2>1. c \in Channel /\ stamp[e] \in 0..MaxStamp /\ MaxStamp \in Nat /\ Skew \in Nat
    BY LinkAssumption DEF TypeOK
  <2>2. QED
    BY <2>1
<1>4. c \in active'
  BY <1>1 DEF Waiting
<1>r. /\ \/ lastSeen'[c] = lastSeen[c] /\ dropped'[c] = dropped[c]
         \/ lastSeen'[c] = 0 /\ dropped'[c] = 0
      /\ ~Subbed(c) => /\ c \in active
                       /\ lastSeen'[c] = lastSeen[c]
                       /\ dropped'[c] = dropped[c]
                       /\ floor'[c] = floor[c]
  BY <1>4, <1>t DEF CutStep, Recorded
<1>e. On(<<>>) = {}
  BY OnEmpty
<1> HIDE DEF c
<1>5. ASSUME lastSeen'[c] <= stamp[e] + Skew PROVE Ahead(e)'
  <2>1. Behind(down', home', stamp', e)
    BY <1>1, BehindEmpty
  <2>2. Asked(e)'
    BY <1>1, <1>e DEF Asked
  <2>3. live'[c] = Unsubscribed
    BY <1>1, <1>t
  <2>4. QED
    BY <1>1, <1>5, <2>1, <2>2, <2>3 DEF Ahead, c
<1>6. CASE Subbed(c)
  <2>1. lastSeen[c] = 0
    BY <1>6 DEF Subbed, Fresh, Blank
  <2>2. lastSeen'[c] <= stamp[e] + Skew
    BY <1>t, <1>r, <2>1
  <2>3. QED
    BY <1>5, <2>2
<1>7. CASE ~Subbed(c)
  <2>1. Waiting(e)
    BY <1>1, <1>3, <1>r, <1>t, <1>7, StillWaits DEF c
  <2>2. CASE Safe(e)
    <3>1. dropped[c] > 0 /\ dropped[c] <= stamp[e] + Skew
      BY <1>2, <2>2 DEF Safe, Frame, c
    <3>2. QED
      BY <1>1, <1>r, <1>7, <3>1 DEF Safe, c
  <2>3. CASE Ahead(e)
    BY <1>5, <1>7, <1>r, <2>3 DEF Ahead, c
  <2>4. QED
    BY <2>1, <2>2, <2>3 DEF Followed
<1>8. QED
  BY <1>6, <1>7

(* The task reads an event. *)
LEMMA FollowedRead ==
    ASSUME TypeOK, Dated, Handed, Followed, ClientReadsEvent
    PROVE  Followed'
<1> USE DEF relayVars, wireVars, taskVars, markVars, parkVars, harnessVars, budgetVars
<1> SUFFICES ASSUME NEW e \in Event, Waiting(e)' PROVE Safe(e)' \/ Ahead(e)'
  BY DEF Followed
<1> DEFINE x == Head(down).e
           c == home[x]
<1>1. /\ down # <<>> /\ down' = Tail(down) /\ Head(down).k = "event"
      /\ UNCHANGED <<stamp, home, live, jobs, up, active, floor, got>>
  BY DEF ClientReadsEvent
<1>2. \/ Known(x) /\ UNCHANGED <<lastSeen, dropped, inbox>>
      \/ /\ ~Known(x) /\ lastSeen' = [lastSeen EXCEPT ![c] = Later(@, stamp[x])]
         /\ dropped' = dropped /\ inbox' = Append(inbox, x)
      \/ /\ ~Known(x) /\ lastSeen' = [lastSeen EXCEPT ![c] = Later(@, stamp[x])]
         /\ dropped' = [dropped EXCEPT ![c] = IF @ = 0 THEN stamp[x] ELSE Earlier(@, stamp[x])]
         /\ inbox' = inbox
  BY DEF ClientReadsEvent
<1>3. On(down) = {Head(down)} \cup On(down') /\ down \in Seq(Response)
  BY <1>1, Lines DEF TypeOK
<1>4. Head(down) \in Response /\ x \in Event /\ stamp[x] > 0
  <2>1. Head(down) \in Response /\ Head(down) \in On(down)
    BY <1>1, Lines
  <2>2. QED
    BY <1>1, <2>1, Parts DEF Dated
<1>t. /\ stamp[x] \in Nat /\ stamp[e] \in Nat /\ Skew \in Nat /\ c \in Channel
      /\ home[e] \in Channel
      /\ lastSeen \in [Channel -> Nat] /\ dropped \in [Channel -> Nat]
  <2>1. MaxStamp \in Nat /\ Skew \in Nat
    BY LinkAssumption
  <2>2. /\ stamp[x] \in 0..MaxStamp /\ stamp[e] \in 0..MaxStamp /\ c \in Channel
        /\ home[e] \in Channel
    BY <1>4 DEF TypeOK
  <2>3. lastSeen \in [Channel -> 0..MaxStamp] /\ dropped \in [Channel -> 0..MaxStamp]
    BY DEF TypeOK
  <2> HIDE DEF x, c
  <2>4. QED
    BY <2>1, <2>2, <2>3
<1>5. inbox' = inbox \/ On(inbox') = On(inbox) \cup {x}
  <2>1. x \in Event \cup {Sentinel}
    BY <1>4
  <2>2. On(Append(inbox, x)) = On(inbox) \cup {x}
    BY <2>1, Lines
  <2>3. QED
    BY <1>2, <2>2
<1>k. Kept
  BY <1>1, <1>5 DEF Kept
<1>6. Frame(Head(down), x) /\ (e # x => ~Frame(Head(down), e))
  BY <1>1 DEF Frame
<1>7. DeniedIn(down, home[e]) => DeniedIn(down', home[e])
  BY <1>1, <1>3 DEF DeniedIn
<1>8. Waiting(e)
  BY <1>1, <1>7, <1>k, StillWaits
<1>9. Safe(e) \/ Ahead(e)
  BY <1>8 DEF Followed
<1> DEFINE h == Head(down)
<1>h. h = Head(down)
  OBVIOUS
<1> HIDE DEF x, c, h
<1>10. CASE e = x
  <2>1. ~Known(x)
    BY <1>8, <1>10, <1>4 DEF Handed, Waiting
  <2>2. inbox' # Append(inbox, x)
    <3>1. x \in Event \cup {Sentinel}
      BY <1>4
    <3>2. On(Append(inbox, x)) = On(inbox) \cup {x}
      BY <3>1, Lines
    <3>3. e \notin On(inbox')
      BY DEF Waiting
    <3>4. QED
      BY <1>10, <3>2, <3>3
  <2>3. dropped'[c] = IF dropped[c] = 0 THEN stamp[x] ELSE Earlier(dropped[c], stamp[x])
    BY <1>2, <1>t, <2>1, <2>2
  <2>4. dropped'[c] > 0 /\ dropped'[c] <= stamp[x] + Skew
    BY <1>4, <1>t, <2>3 DEF Earlier
  <2>5. QED
    BY <1>1, <1>10, <2>4 DEF Safe, c
<1>11. CASE e # x
  <2>b. Behind(down, home, stamp, e) => Behind(down', home, stamp, e)
    BY <1>1, <1>3, <1>6, <1>11, BehindTail
  <2>s. Sent(e) => Sent(e)'
    BY <1>3, <1>6, <1>11 DEF Sent
  <2>1. dropped[home[e]] > 0 => dropped'[home[e]] > 0 /\ dropped'[home[e]] <= dropped[home[e]]
    BY <1>2, <1>4, <1>t DEF Earlier
  <2>2. CASE Safe(e)
    <3>1. CASE dropped[home[e]] > 0 /\ dropped[home[e]] <= stamp[e] + Skew
      <4>1. dropped'[home[e]] > 0 /\ dropped'[home[e]] <= stamp[e] + Skew
        <5>1. dropped'[home[e]] \in Nat
          BY <1>2, <1>4, <1>t DEF Earlier
        <5>2. QED
          BY <1>t, <2>1, <3>1, <5>1
      <4>2. QED
        BY <1>1, <4>1 DEF Safe
    <3>2. CASE \E f \in On(down) : Frame(f, e) /\ f.replayed
      BY <1>1, <1>3, <1>6, <1>11, <3>2 DEF Safe
    <3>3. QED
      BY <1>1, <2>2, <3>1, <3>2 DEF Safe
  <2>3. CASE Ahead(e)
    <3>1. lastSeen'[home[e]] <= stamp[e] + Skew
      <4>1. CASE home[e] # c
        BY <1>2, <1>t, <2>3, <4>1 DEF Ahead
      <4>2. CASE home[e] = c
        <5>1. stamp[x] <= stamp[e] + Skew
          <6>1. /\ Len(down) \in Nat /\ 1 \in 1..Len(down) /\ down[1] = Head(down)
            BY <1>1, <1>3
          <6>2. down[1].k = "event" /\ home[down[1].e] = home[e] /\ down[1].e = x
            BY <1>1, <4>2, <6>1 DEF x, c
          <6>3. \/ stamp[down[1].e] <= stamp[e] + Skew
                \/ \E k \in 1..1 : Frame(down[k], e)
            BY <2>3, <6>1, <6>2 DEF Ahead, Behind
          <6>4. ~\E k \in 1..1 : Frame(down[k], e)
            BY <1>6, <1>11, <6>1
          <6>5. QED
            BY <6>2, <6>3, <6>4
        <5>2. lastSeen[c] <= stamp[e] + Skew
          BY <2>3, <4>2 DEF Ahead
        <5>3. lastSeen'[c] = lastSeen[c] \/ lastSeen'[c] = Later(lastSeen[c], stamp[x])
          BY <1>2, <1>t
        <5>4. QED
          BY <1>t, <4>2, <5>1, <5>2, <5>3 DEF Later
      <4>3. QED
        BY <4>1, <4>2
    <3>2. Asked(e) => Asked(e)'
      BY <1>1 DEF Asked
    <3>3. QED
      BY <1>1, <2>3, <2>b, <2>s, <3>1, <3>2 DEF Ahead
  <2>4. QED
    BY <1>9, <2>2, <2>3
<1>12. QED
  BY <1>10, <1>11

LEMMA FollowedStep ==
    ASSUME ~spoilt', TypeOK, Numbered, Dated, Handed, Fresh, Followed, [Next]_vars
    PROVE  Followed'
<1>1. ASSUME NEW c \in Channel, NEW t \in 1..MaxStamp, RelayPublish(c, t) PROVE Followed'
  <2>1. PICK e \in Event, f \in Response : Publishes(c, t, e, f)
    BY <1>1, Publishing
  <2>2. QED
    BY <2>1, FollowedPublish
<1>2. ASSUME RelayAdmits \/ RelayCloses PROVE Followed'
  BY <1>2, FollowedAdmit, FollowedClose
<1>3. ASSUME NEW why \in {"rate", "other"}, RelayRefuses(why) PROVE Followed'
  BY <1>3, FollowedRefuse
<1>4. ASSUME NEW j \in jobs, RelayRegisters(j) \/ RelayReplays(j) \/ RelayDenies(j)
      PROVE  Followed'
  BY <1>4, FollowedRegister, FollowedReplay, FollowedDeny
<1>5. ASSUME NEW c \in Channel, RelayRevokes(c) PROVE Followed'
  BY <1>5, FollowedRevoke
<1>6. ASSUME NEW c \in Channel, AskStep(c) PROVE Followed'
  BY <1>6, FollowedAsk
<1>7. ASSUME ClientReadsEvent \/ ClientReadsDenial PROVE Followed'
  BY <1>7, FollowedRead, FollowedDenial
<1>8. ASSUME Aside \/ RecordStep \/ CutStep PROVE Followed'
  BY <1>8, FollowedAside, FollowedRecord, FollowedCut
<1>9. QED
  BY <1>1, <1>2, <1>3, <1>4, <1>5, <1>6, <1>7, <1>8, Kinds

-----------------------------------------------------------------------------
(* Frames come from registrations.                                         *)

LEMMA HeardStep ==
    ASSUME ~spoilt', TypeOK, Numbered, Dated, Fresh, Heard, [Next]_vars
    PROVE  Heard'
<1> USE DEF relayVars, wireVars, taskVars, markVars, parkVars, harnessVars, budgetVars
<1>t. active \subseteq Channel /\ live \in [Channel -> -1..MaxStamp]
  BY DEF TypeOK
(* Nothing new is heard, nothing is registered or unregistered. *)
<1>0. ASSUME UNCHANGED <<home, live>>, On(down') \subseteq On(down), jobs' \subseteq jobs,
             \A c \in active' : c \in active /\ (DeniedIn(down, c) => DeniedIn(down', c))
      PROVE  Heard'
  BY <1>0 DEF Heard
<1>1. ASSUME NEW c \in Channel, NEW t \in 1..MaxStamp, RelayPublish(c, t) PROVE Heard'
  <2>1. PICK e \in Event, f \in Response : Publishes(c, t, e, f)
    BY <1>1, Publishing
  <2>2. /\ stamp[e] = 0 /\ home' = [home EXCEPT ![e] = c]
        /\ f.k = "event" /\ f.e = e
        /\ down' = IF live[c] # Unsubscribed /\ live[c] <= t THEN Append(down, f) ELSE down
        /\ UNCHANGED <<live, jobs, active>>
    BY <2>1 DEF Publishes
  <2>3. On(Append(down, f)) = On(down) \cup {f}
    BY Lines
  <2>4. /\ On(down) \subseteq On(down')
        /\ \A g \in On(down') : g \in On(down) \/ (g = f /\ live[c] # Unsubscribed)
    BY <2>2, <2>3
  <2>5. ASSUME NEW g \in On(down), g.k = "event" PROVE home'[g.e] = home[g.e]
    <3>1. g.e \in Event /\ g.e # e
      BY <2>2, <2>5, Lines, Parts DEF Dated
    <3>2. QED
      BY <2>2, <3>1 DEF TypeOK
  <2>6. home'[f.e] = c
    BY <2>2 DEF TypeOK
  <2>7. ASSUME NEW d \in active', ~DeniedIn(down', d), live'[d] = Unsubscribed
        PROVE  /\ \A j \in jobs' : j.c = d => ~j.registered
               /\ \A g \in On(down') : g.k = "event" => home'[g.e] # d
    <3>1. ~DeniedIn(down, d)
      BY <2>4, <2>7 DEF DeniedIn
    <3>2. /\ \A j \in jobs : j.c = d => ~j.registered
          /\ \A g \in On(down) : g.k = "event" => home[g.e] # d
      BY <2>2, <2>7, <3>1 DEF Heard
    <3>3. QED
      BY <2>2, <2>4, <2>5, <2>6, <2>7, <3>2
  <2>8. QED
    BY <2>7 DEF Heard
<1>2. ASSUME RelayAdmits PROVE Heard'
  <2> DEFINE j == [c |-> Head(up).c, since |-> Head(up).since, registered |-> FALSE]
  <2>1. jobs' = jobs \cup {j} /\ ~j.registered /\ UNCHANGED <<home, live, down, active>>
    BY <1>2 DEF RelayAdmits
  <2> HIDE DEF j
  <2>2. QED
    BY <2>1 DEF Heard
(* A CLOSED is sent. *)
<1>a. ASSUME NEW f \in Response, f.k = "closed", down' = Append(down, f)
      PROVE  /\ On(down') = On(down) \cup {f}
             /\ \A c : DeniedIn(down, c) => DeniedIn(down', c)
             /\ f.why = "denied" => DeniedIn(down', f.c)
             /\ \A g \in On(down') : g.k = "event" => g \in On(down)
  BY <1>a, ClosedAppended
<1>3. ASSUME NEW why \in {"rate", "other"}, RelayRefuses(why) PROVE Heard'
  <2> DEFINE f == [k |-> "closed", c |-> Head(up).c, why |-> why]
  <2>1. up # <<>> /\ up' = Tail(up) /\ down' = Append(down, f)
        /\ UNCHANGED <<home, live, jobs, active>>
    BY <1>3 DEF RelayRefuses
  <2>2. f \in Response /\ f.k = "closed"
    <3>1. Head(up).c \in Channel
      BY <2>1, UpTail, Parts
    <3>2. QED
      BY <3>1 DEF Response
  <2> HIDE DEF f
  <2>3. QED
    BY <1>a, <2>1, <2>2 DEF Heard
<1>4. ASSUME NEW j \in jobs, RelayRegisters(j) PROVE Heard'
  <2> DEFINE k == [j EXCEPT !.registered = TRUE]
  <2>1. /\ live' = [live EXCEPT ![j.c] = j.since] /\ jobs' = (jobs \ {j}) \cup {k}
        /\ UNCHANGED <<home, down, active>>
    BY <1>4 DEF RelayRegisters
  <2>2. j.c \in Channel /\ j.since # Unsubscribed /\ k.c = j.c
    BY DEF TypeOK, Unsubscribed
  <2> HIDE DEF k
  <2>3. live'[j.c] # Unsubscribed /\ \A d \in Channel : d # j.c => live'[d] = live[d]
    BY <1>t, <2>1, <2>2
  <2>4. QED
    BY <1>t, <2>1, <2>2, <2>3 DEF Heard
<1>5. ASSUME NEW j \in jobs, RelayReplays(j) PROVE Heard'
  <2>1. j.registered /\ jobs' = jobs \ {j} /\ UNCHANGED <<home, live, active>>
    BY <1>5 DEF RelayReplays
  <2>2. PICK r \in Seq(Response) :
           /\ down' = down \o r
           /\ \A f \in On(r) : f.k = "event" /\ home[f.e] = j.c
    BY <1>5, Replaying
  <2>3. On(down') = On(down) \cup On(r)
    BY <2>2, Lines
  <2>4. ASSUME NEW d \in active', ~DeniedIn(down', d), live'[d] = Unsubscribed
        PROVE  /\ \A k \in jobs' : k.c = d => ~k.registered
               /\ \A g \in On(down') : g.k = "event" => home'[g.e] # d
    <3>1. ~DeniedIn(down, d)
      BY <2>3, <2>4 DEF DeniedIn
    <3>2. /\ \A k \in jobs : k.c = d => ~k.registered
          /\ \A g \in On(down) : g.k = "event" => home[g.e] # d
      BY <2>1, <2>4, <3>1 DEF Heard
    <3>3. QED
      BY <2>1, <2>2, <2>3, <3>2
  <2>5. QED
    BY <2>4 DEF Heard
<1>6. ASSUME NEW j \in jobs, RelayDenies(j) PROVE Heard'
  <2> DEFINE f == [k |-> "closed", c |-> j.c, why |-> "denied"]
  <2>1. jobs' = jobs \ {j} /\ down' = Append(down, f) /\ UNCHANGED <<home, live, active>>
    BY <1>6 DEF RelayDenies
  <2>2. f \in Response /\ f.k = "closed"
    BY DEF Response, TypeOK
  <2> HIDE DEF f
  <2>3. QED
    BY <1>a, <2>1, <2>2 DEF Heard
<1>7. ASSUME NEW c \in Channel, RelayRevokes(c) PROVE Heard'
  <2> DEFINE f == [k |-> "closed", c |-> c, why |-> "denied"]
  <2>1. /\ live' = [live EXCEPT ![c] = Unsubscribed] /\ down' = Append(down, f)
        /\ UNCHANGED <<home, jobs, active>>
    BY <1>7 DEF RelayRevokes
  <2>2. f \in Response /\ f.k = "closed" /\ f.c = c /\ f.why = "denied"
    BY DEF Response
  <2> HIDE DEF f
  <2>3. DeniedIn(down', c) /\ \A d \in Channel : d # c => live'[d] = live[d]
    BY <1>a, <1>t, <2>1, <2>2
  <2>4. QED
    BY <1>a, <1>t, <2>1, <2>2, <2>3 DEF Heard
<1>8. ASSUME RelayCloses PROVE Heard'
  <2> DEFINE h == Head(up)
             f == [k |-> "closed", c |-> h.c, why |-> "other"]
  <2>1. /\ up # <<>> /\ up' = Tail(up) /\ h.k = "close"
        /\ live' = [live EXCEPT ![h.c] = Unsubscribed] /\ down' = Append(down, f)
        /\ UNCHANGED <<home, jobs, active>>
    BY <1>8 DEF RelayCloses
  <2>2. h.c \in Channel /\ h.c \notin active
    BY <2>1, UpTail, Parts DEF Fresh
  <2>3. f \in Response /\ f.k = "closed"
    BY <2>2 DEF Response
  <2> HIDE DEF f, h
  <2>4. \A d \in Channel : d # h.c => live'[d] = live[d]
    BY <1>t, <2>1
  <2>5. QED
    BY <1>a, <1>t, <2>1, <2>2, <2>3, <2>4 DEF Heard
<1>9. ASSUME ClientReadsEvent PROVE Heard'
  <2>1. /\ down # <<>> /\ down' = Tail(down) /\ Head(down).k = "event"
        /\ UNCHANGED <<home, live, jobs, active>>
    BY <1>9 DEF ClientReadsEvent
  <2>2. On(down) = {Head(down)} \cup On(down')
    BY <2>1, Lines
  <2>3. \A c : DeniedIn(down, c) => DeniedIn(down', c)
    BY <2>1, <2>2 DEF DeniedIn
  <2>4. QED
    BY <1>0, <2>1, <2>2, <2>3
<1>10. ASSUME ClientReadsDenial PROVE Heard'
  <2>1. /\ down # <<>> /\ down' = Tail(down) /\ active' = active \ {Head(down).c}
        /\ UNCHANGED <<home, live, jobs>>
    BY <1>10 DEF ClientReadsDenial, ForgetChannel
  <2>2. On(down) = {Head(down)} \cup On(down')
    BY <2>1, Lines
  <2>3. \A c \in active' : c \in active /\ (DeniedIn(down, c) => DeniedIn(down', c))
    BY <2>1, <2>2 DEF DeniedIn
  <2>4. QED
    BY <1>0, <2>1, <2>2, <2>3
<1>11. ASSUME Aside \/ \E c \in Channel : AskStep(c) PROVE Heard'
  <2>1. Passes /\ UNCHANGED <<home, live, jobs, active>>
    BY <1>11 DEF Aside, AskStep
  <2>2. QED
    BY <1>0, <2>1, PassesOn
<1>12. ASSUME RecordStep PROVE Heard'
  <2>1. UNCHANGED <<home, live, jobs, down>> /\ Recorded
    BY <1>12 DEF RecordStep
  <2>2. ASSUME NEW d \in active' PROVE d \in active \/ Blank(d)
    <3>1. d \in Channel
      BY TypeStep DEF TypeOK
    <3>2. CASE Subbed(d)
      BY <3>2 DEF Subbed, Fresh
    <3>3. CASE ~Subbed(d)
      BY <2>1, <3>1, <3>3 DEF Recorded
    <3>4. QED
      BY <3>2, <3>3
  <2>3. QED
    BY <2>1, <2>2 DEF Heard, Blank
<1>13. ASSUME CutStep PROVE Heard'
  <2>1. jobs' = {} /\ On(down') = {}
    BY <1>13, OnEmpty DEF CutStep
  <2>2. QED
    BY <2>1 DEF Heard
<1>14. QED
  BY <1>1, <1>2, <1>3, <1>4, <1>5, <1>6, <1>7, <1>8, <1>9, <1>10, <1>11, <1>12, <1>13, Kinds

-----------------------------------------------------------------------------
(* The command queue, and the channels that join.                          *)

LEMMA IntentJoins ==
    ASSUME NEW st \in IntentType, NEW cmd \in Command, NEW d \in Intent(st, cmd).active,
           d \notin st.active
    PROVE  cmd.k = "sub" /\ cmd.c = d
<1>1. CASE cmd.k = "sub"
  <2>1. Intent(st, cmd) = [st EXCEPT !.active = @ \cup {cmd.c},
                                     !.floor[cmd.c] = IF @ = 0 THEN cmd.floor ELSE @]
    BY <1>1 DEF Intent
  <2>2. Intent(st, cmd).active = st.active \cup {cmd.c}
    BY <2>1 DEF IntentType
  <2>3. QED
    BY <1>1, <2>2
<1>2. CASE cmd.k = "unsub"
  BY <1>2 DEF Intent
<1>3. CASE cmd.k \notin {"sub", "unsub"}
  BY <1>3 DEF Intent
<1>4. QED
  BY <1>1, <1>2, <1>3

LEMMA BecomesJoins ==
    ASSUME TypeOK, cmds # <<>>, BecomesIntents(Intent(Intents, Head(cmds))),
           NEW d \in active', d \notin active
    PROVE  Head(cmds).k = "sub" /\ Head(cmds).c = d
<1>1. Intents \in IntentType /\ Head(cmds) \in Command
  BY IntentsType, Lines
<1>2. Intents.active = active
  BY DEF Intents
<1>3. d \in Intent(Intents, Head(cmds)).active
  BY DEF BecomesIntents
<1>4. QED
  BY <1>1, <1>2, <1>3, IntentJoins

LEMMA ExecuteJoins ==
    ASSUME TypeOK, cmds # <<>>, Executes(Head(cmds)), NEW d \in active', d \notin active
    PROVE  Head(cmds).k = "sub" /\ Head(cmds).c = d
<1> DEFINE cmd == Head(cmds)
           st == Intent(Intents, cmd)
<1>1. Intents \in IntentType /\ cmd \in Command
  BY IntentsType, Lines
<1>2. Intents.active = active
  BY DEF Intents
<1>3. st \in IntentType
  BY <1>1, OneIntent
<1>4. CASE SubscribeGated(cmd) \/ SubscribeSent(cmd)
  <2>1. \/ BecomesIntents([st EXCEPT !.parked = @ \cup {cmd.c}])
        \/ BecomesIntents([st EXCEPT !.parked = @ \ {cmd.c}, !.retry = @ \ {cmd.c}])
    BY <1>4 DEF SubscribeGated, SubscribeSent
  <2> HIDE DEF st
  <2>2. active' = st.active
    BY <1>3, <2>1 DEF BecomesIntents, IntentType
  <2>3. QED
    BY <1>1, <1>2, <2>2, IntentJoins DEF st
<1>5. CASE UnsubscribeSent(cmd)
  BY <1>5 DEF UnsubscribeSent, ForgetChannel
<1>6. QED
  BY <1>4, <1>5 DEF Executes

(* What a step does to the queue: a channel joins when its command is      *)
(* taken.                                                                  *)
Taken(d) ==
    \/ cmds' = <<>>
    \/ cmds # <<>> /\ cmds' = Tail(cmds) /\ Head(cmds).k = "sub" /\ Head(cmds).c = d

Queues ==
    \/ cmds' = cmds
    \/ cmds # <<>> /\ cmds' = Tail(cmds)
    \/ cmds' = <<>>
    \/ \E f \in Command : cmds' = Append(cmds, f) /\ f.k # "sub"
    \/ \E c \in Channel : HarnessSubscribes(c)

LEMMA QueueStep ==
    ASSUME TypeOK, [Next]_vars
    PROVE  Queues /\ \A d \in active' : d \in active \/ Taken(d)
<1> USE DEF relayVars, wireVars, taskVars, markVars, parkVars, harnessVars, budgetVars
<1> DEFINE Joined == \A d \in active' : d \in active \/ Taken(d)
<1>1. ASSUME cmds' = cmds, active' \subseteq active PROVE Queues /\ Joined
  BY <1>1 DEF Queues
<1>2. ASSUME NEW c \in Channel, NEW t \in 1..MaxStamp, RelayPublish(c, t)
      PROVE  Queues /\ Joined
  BY <1>1, <1>2 DEF RelayPublish
<1>3. ASSUME Relay PROVE Queues /\ Joined
  BY <1>1, <1>3 DEF Relay, RelayAdmits, RelayCloses, RelayRegisters, RelayReplays
<1>4. ASSUME Faults PROVE Queues /\ Joined
  BY <1>1, <1>4 DEF Faults, RelayRefuses, RelayDenies, RelayRevokes, LinkStalls,
                    LinkRecovers, LinkDies
<1>5. ASSUME \/ ClientReadsEvent \/ ClientReadsRateLimit \/ ClientReadsClosed
             \/ ClientNotices \/ ClientConnects \/ ClientResubscribes
             \/ ResubscribedAll \/ Drained \/ GateOpens
      PROVE  Queues /\ Joined
  BY <1>1, <1>5 DEF ClientReadsEvent, ClientReadsRateLimit, ClientReadsClosed, ClientNotices,
                    ClientConnects, ClientResubscribes, ResubscribedAll, Drained, GateOpens
<1>6. ASSUME NEW c, ResubscribesOne(c) \/ DrainParked(c) \/ DrainRetry(c)
      PROVE  Queues /\ Joined
  BY <1>1, <1>6 DEF ResubscribesOne, DrainParked, DrainRetry
<1>7. ASSUME ClientReadsDenial PROVE Queues /\ Joined
  BY <1>1, <1>7 DEF ClientReadsDenial, ForgetChannel
<1>8. ASSUME ClientExecutes \/ DrainExecutes PROVE Queues /\ Joined
  <2>1. cmds # <<>> /\ Executes(Head(cmds)) /\ cmds' = Tail(cmds)
    BY <1>8 DEF ClientExecutes, DrainExecutes, Executes
  <2>2. QED
    BY <2>1, ExecuteJoins DEF Queues, Taken
<1>9. ASSUME ClientFailsToExecute \/ ClientAppliesOffline PROVE Queues /\ Joined
  <2>1. /\ cmds # <<>> /\ BecomesIntents(Intent(Intents, Head(cmds)))
        /\ cmds' = Tail(cmds)
    BY <1>9 DEF ClientFailsToExecute, ClientAppliesOffline
  <2>2. QED
    BY <2>1, BecomesJoins DEF Queues, Taken
<1>10. ASSUME ClientReconnects \/ DrainSkipsReconnect PROVE Queues /\ Joined
  BY <1>10 DEF ClientReconnects, DrainSkipsReconnect, Queues
<1>11. ASSUME DrainFails PROVE Queues /\ Joined
  BY <1>11 DEF DrainFails, Queues, Taken
<1>12. ASSUME HarnessTakes PROVE Queues /\ Joined
  <2> DEFINE f == [k |-> "reconnect"]
  <2>1. f \in Command /\ f.k # "sub"
    BY DEF Command
  <2>2. active' = active /\ (cmds' = cmds \/ cmds' = Append(cmds, f))
    BY <1>12 DEF HarnessTakes
  <2> HIDE DEF f
  <2>3. QED
    BY <2>1, <2>2 DEF Queues
<1>13. ASSUME NEW c \in Channel, HarnessSubscribes(c) PROVE Queues /\ Joined
  BY <1>13 DEF HarnessSubscribes, Queues
<1>14. ASSUME NEW c \in Channel, HarnessUnsubscribes(c) PROVE Queues /\ Joined
  <2> DEFINE f == [k |-> "unsub", c |-> c]
  <2>1. f \in Command /\ f.k # "sub"
    BY DEF Command
  <2>2. active' = active /\ cmds' = Append(cmds, f)
    BY <1>14 DEF HarnessUnsubscribes
  <2> HIDE DEF f
  <2>3. QED
    BY <2>1, <2>2 DEF Queues
<1>15. CASE UNCHANGED vars
  BY <1>1, <1>15 DEF vars
<1>16. ASSUME Task PROVE Queues /\ Joined
  BY <1>5, <1>6, <1>7, <1>8, <1>9, <1>10, <1>11, <1>16 DEF Task
<1>17. QED
  BY <1>2, <1>3, <1>4, <1>5, <1>12, <1>13, <1>14, <1>15, <1>16 DEF Next, Asks

(* The queue after a step: no channel twice, none of an active channel,    *)
(* and a new subscription only of a channel nothing is left of.            *)
LEMMA Waits ==
    ASSUME ~spoilt', TypeOK, Fresh, [Next]_vars
    PROVE  /\ OnceEach(cmds')
           /\ \A f \in On(cmds') : f.k = "sub" =>
                 /\ f.c \in Channel /\ f.c \notin active' /\ Blank(f.c)
                 /\ f \in On(cmds) \/ f.floor = Newest(stamp)
<1>0. Queues /\ \A d \in active' : d \in active \/ Taken(d)
  BY QueueStep
<1>1. cmds \in Seq(Command) /\ OnceEach(cmds) /\ On(cmds) \subseteq Command
  BY Lines DEF TypeOK, Fresh
<1>2. \A f \in On(cmds) : f.k = "sub" => f.c \in Channel /\ Blank(f.c) /\ f.c \notin active
  BY <1>1, Parts DEF Fresh, Blank
<1>e. OnceEach(<<>>) /\ On(<<>>) = {}
  BY OnEmpty DEF OnceEach
<1>3. CASE cmds' = <<>>
  BY <1>3, <1>e
<1>4. CASE cmds' = cmds /\ cmds # <<>>
  <2>1. ~\E d : Taken(d)
    <3>1. Len(Tail(cmds)) = Len(cmds) - 1 /\ Len(cmds) \in Nat
      BY <1>1, <1>4
    <3>2. cmds # Tail(cmds)
      BY <3>1
    <3>3. QED
      BY <1>4, <3>2 DEF Taken
  <2>2. QED
    BY <1>0, <1>1, <1>2, <1>4, <2>1
<1>5. CASE cmds # <<>> /\ cmds' = Tail(cmds)
  <2>1. On(cmds) = {Head(cmds)} \cup On(cmds')
    BY <1>5, Lines
  <2>2. /\ OnceEach(cmds')
        /\ Head(cmds).k = "sub" => \A f \in On(cmds') : f.k = "sub" => f.c # Head(cmds).c
    BY <1>1, <1>5, OnceTail
  <2>3. ASSUME NEW f \in On(cmds'), f.k = "sub" PROVE f.c \notin active'
    <3>1. f.c \notin active
      BY <1>2, <2>1, <2>3
    <3>2. cmds' # <<>>
      BY <1>e, <2>3
    <3>3. ~Taken(f.c)
      BY <2>2, <2>3, <3>2 DEF Taken
    <3>4. QED
      BY <1>0, <3>1, <3>3
  <2>4. QED
    BY <1>2, <2>1, <2>2, <2>3
(* Something joins the queue, so no channel joins. *)
<1>6. ASSUME NEW f \in Command, cmds' = Append(cmds, f),
             f.k = "sub" => Blank(f.c) /\ ~Subbed(f.c) /\ f.floor = Newest(stamp) /\ f.c \in Channel
      PROVE  /\ OnceEach(cmds')
             /\ \A g \in On(cmds') : g.k = "sub" =>
                   /\ g.c \in Channel /\ g.c \notin active' /\ Blank(g.c)
                   /\ g \in On(cmds) \/ g.floor = Newest(stamp)
  <2>1. On(cmds') = On(cmds) \cup {f}
    BY <1>6, Lines
  <2>2. ~\E d : Taken(d)
    <3>1. /\ Len(cmds') = Len(cmds) + 1 /\ Len(cmds) \in Nat
          /\ cmds # <<>> => Len(Tail(cmds)) = Len(cmds) - 1
      BY <1>1, <1>6
    <3>2. cmds' # <<>>
      BY <1>1, <1>6
    <3>3. cmds # <<>> => cmds' # Tail(cmds)
      BY <3>1
    <3>4. QED
      BY <3>2, <3>3 DEF Taken
  <2>3. active' \subseteq active
    BY <1>0, <2>2
  <2>4. f.k = "sub" => \A g \in On(cmds) : g.k = "sub" => g.c # f.c
    BY <1>6 DEF Subbed
  <2>5. OnceEach(cmds')
    BY <1>1, <1>6, <2>4, OnceAppend
  <2>6. QED
    BY <1>2, <1>6, <2>1, <2>3, <2>5 DEF Blank
<1>7. ASSUME NEW c \in Channel, HarnessSubscribes(c)
      PROVE  /\ OnceEach(cmds')
             /\ \A g \in On(cmds') : g.k = "sub" =>
                   /\ g.c \in Channel /\ g.c \notin active' /\ Blank(g.c)
                   /\ g \in On(cmds) \/ g.floor = Newest(stamp)
  <2> DEFINE f == [k |-> "sub", c |-> c, floor |-> Now]
  <2>1. cmds' = Append(cmds, f)
    BY <1>7 DEF HarnessSubscribes
  <2>2. Now = Newest(stamp) /\ Now \in 0..MaxStamp
    BY Present
  <2>3. f \in Command /\ f.c = c /\ f.floor = Newest(stamp)
    BY <2>2 DEF Command
  <2>4. Blank(c) /\ ~Subbed(c)
    BY <1>7, Afresh DEF HarnessSubscribes, Spoils
  <2> HIDE DEF f
  <2>5. QED
    BY <1>6, <2>1, <2>3, <2>4
<1>8. QED
  BY <1>0, <1>3, <1>4, <1>5, <1>6, <1>7 DEF Queues

-----------------------------------------------------------------------------
(* What is left of a channel that nothing is left of: nothing.             *)

LEMMA BlankStep ==
    ASSUME ~spoilt', TypeOK, Numbered, Dated, Fresh, [Next]_vars,
           NEW c \in Channel, Blank(c), c \notin active'
    PROVE  Blank(c)'
<1> USE DEF relayVars, wireVars, taskVars, markVars, parkVars, harnessVars, budgetVars
<1>b. /\ c \notin active
      /\ lastSeen[c] = 0
      /\ live[c] = Unsubscribed
      /\ \A f \in On(up) : f.c # c
      /\ \A j \in jobs : j.c # c
      /\ \A f \in On(down) : f.k = "event" => home[f.e] # c
  BY DEF Blank
<1>t. /\ live \in [Channel -> -1..MaxStamp] /\ lastSeen \in [Channel -> 0..MaxStamp]
      /\ home \in [Event -> Channel]
  BY DEF TypeOK
<1>0. ASSUME lastSeen'[c] = 0, live'[c] = Unsubscribed,
             \A f \in On(up') : f \in On(up) \/ f.c # c,
             \A j \in jobs' : j \in jobs \/ j.c # c,
             \A f \in On(down') : f.k = "event" => home'[f.e] # c
      PROVE  Blank(c)'
  BY <1>0, <1>b DEF Blank
(* Down the line comes nothing new but CLOSED frames. *)
<1>1. ASSUME UNCHANGED home, \A f \in On(down') : f \in On(down) \/ f.k # "event"
      PROVE  \A f \in On(down') : f.k = "event" => home'[f.e] # c
  BY <1>1, <1>b
<1>2. ASSUME NEW d \in Channel, NEW t \in 1..MaxStamp, RelayPublish(d, t) PROVE Blank(c)'
  <2>1. PICK e \in Event, f \in Response : Publishes(d, t, e, f)
    BY <1>2, Publishing
  <2>2. /\ stamp[e] = 0 /\ home' = [home EXCEPT ![e] = d]
        /\ f.k = "event" /\ f.e = e
        /\ down' = IF live[d] # Unsubscribed /\ live[d] <= t THEN Append(down, f) ELSE down
        /\ UNCHANGED <<live, jobs, up, lastSeen>>
    BY <2>1 DEF Publishes
  <2>3. On(Append(down, f)) = On(down) \cup {f}
    BY Lines
  <2>4. ASSUME NEW g \in On(down'), g.k = "event" PROVE home'[g.e] # c
    <3>1. CASE g \in On(down)
      <4>1. g.e \in Event /\ g.e # e
        BY <2>2, <2>4, <3>1, Lines, Parts DEF Dated
      <4>2. QED
        BY <1>b, <1>t, <2>2, <2>4, <3>1, <4>1
    <3>2. CASE g \notin On(down)
      <4>1. g = f /\ live[d] # Unsubscribed
        BY <2>2, <2>3, <3>2
      <4>2. QED
        BY <1>b, <1>t, <2>2, <4>1
    <3>3. QED
      BY <3>1, <3>2
  <2>5. QED
    BY <1>0, <1>b, <2>2, <2>4
<1>3. ASSUME RelayAdmits PROVE Blank(c)'
  <2> DEFINE j == [c |-> Head(up).c, since |-> Head(up).since, registered |-> FALSE]
  <2>1. /\ up # <<>> /\ up' = Tail(up) /\ jobs' = jobs \cup {j} /\ j.c = Head(up).c
        /\ UNCHANGED <<home, live, down, lastSeen>>
    BY <1>3 DEF RelayAdmits
  <2>2. Head(up) \in On(up) /\ On(up') \subseteq On(up)
    BY <2>1, UpTail
  <2> HIDE DEF j
  <2>3. QED
    BY <1>0, <1>1, <1>b, <2>1, <2>2
<1>a. ASSUME NEW f \in Response, f.k = "closed", down' = Append(down, f)
      PROVE  \A g \in On(down') : g \in On(down) \/ g.k # "event"
  BY <1>a, ClosedAppended
<1>4. ASSUME NEW why \in {"rate", "other"}, RelayRefuses(why) PROVE Blank(c)'
  <2> DEFINE f == [k |-> "closed", c |-> Head(up).c, why |-> why]
  <2>1. /\ up # <<>> /\ up' = Tail(up) /\ down' = Append(down, f)
        /\ UNCHANGED <<home, live, jobs, lastSeen>>
    BY <1>4 DEF RelayRefuses
  <2>2. Head(up).c \in Channel /\ On(up') \subseteq On(up)
    BY <2>1, UpTail, Parts
  <2>3. f \in Response /\ f.k = "closed"
    BY <2>2 DEF Response
  <2> HIDE DEF f
  <2>4. QED
    BY <1>0, <1>1, <1>a, <1>b, <2>1, <2>2, <2>3
<1>5. ASSUME NEW j \in jobs, RelayRegisters(j) PROVE Blank(c)'
  <2> DEFINE k == [j EXCEPT !.registered = TRUE]
  <2>1. /\ live' = [live EXCEPT ![j.c] = j.since] /\ jobs' = (jobs \ {j}) \cup {k}
        /\ UNCHANGED <<home, up, down, lastSeen>>
    BY <1>5 DEF RelayRegisters
  <2>2. k.c = j.c /\ j.c # c
    BY <1>b DEF TypeOK
  <2> HIDE DEF k
  <2>3. live'[c] = live[c]
    BY <1>t, <2>1, <2>2
  <2>4. QED
    BY <1>0, <1>1, <1>b, <2>1, <2>2, <2>3
<1>6. ASSUME NEW j \in jobs, RelayReplays(j) PROVE Blank(c)'
  <2>1. jobs' = jobs \ {j} /\ UNCHANGED <<home, live, up, lastSeen>>
    BY <1>6 DEF RelayReplays
  <2>2. PICK r \in Seq(Response) :
           /\ down' = down \o r
           /\ \A f \in On(r) : f.k = "event" /\ home[f.e] = j.c
    BY <1>6, Replaying
  <2>3. On(down') = On(down) \cup On(r)
    BY <2>2, Lines
  <2>4. QED
    BY <1>0, <1>b, <2>1, <2>2, <2>3
<1>7. ASSUME NEW j \in jobs, RelayDenies(j) PROVE Blank(c)'
  <2> DEFINE f == [k |-> "closed", c |-> j.c, why |-> "denied"]
  <2>1. jobs' = jobs \ {j} /\ down' = Append(down, f) /\ UNCHANGED <<home, live, up, lastSeen>>
    BY <1>7 DEF RelayDenies
  <2>2. f \in Response /\ f.k = "closed"
    BY DEF Response, TypeOK
  <2> HIDE DEF f
  <2>3. QED
    BY <1>0, <1>1, <1>a, <1>b, <2>1, <2>2
<1>8. ASSUME NEW d \in Channel, RelayRevokes(d) PROVE Blank(c)'
  <2> DEFINE f == [k |-> "closed", c |-> d, why |-> "denied"]
  <2>1. /\ live' = [live EXCEPT ![d] = Unsubscribed] /\ down' = Append(down, f)
        /\ UNCHANGED <<home, jobs, up, lastSeen>>
    BY <1>8 DEF RelayRevokes
  <2>2. f \in Response /\ f.k = "closed"
    BY DEF Response
  <2> HIDE DEF f
  <2>3. live'[c] = Unsubscribed
    BY <1>b, <1>t, <2>1
  <2>4. QED
    BY <1>0, <1>1, <1>a, <1>b, <2>1, <2>2, <2>3
<1>9. ASSUME RelayCloses PROVE Blank(c)'
  <2> DEFINE h == Head(up)
             f == [k |-> "closed", c |-> h.c, why |-> "other"]
  <2>1. /\ up # <<>> /\ up' = Tail(up)
        /\ live' = [live EXCEPT ![h.c] = Unsubscribed] /\ down' = Append(down, f)
        /\ UNCHANGED <<home, jobs, lastSeen>>
    BY <1>9 DEF RelayCloses
  <2>2. h.c \in Channel /\ On(up') \subseteq On(up)
    BY <2>1, UpTail, Parts
  <2>3. f \in Response /\ f.k = "closed"
    BY <2>2 DEF Response
  <2> HIDE DEF f, h
  <2>4. live'[c] = Unsubscribed
    BY <1>b, <1>t, <2>1
  <2>5. QED
    BY <1>0, <1>1, <1>a, <1>b, <2>1, <2>2, <2>3, <2>4
<1>10. ASSUME ClientReadsEvent PROVE Blank(c)'
  <2> DEFINE x == Head(down).e
  <2>1. /\ down # <<>> /\ down' = Tail(down) /\ Head(down).k = "event"
        /\ UNCHANGED <<home, live, jobs, up>>
        /\ \/ lastSeen' = lastSeen
           \/ lastSeen' = [lastSeen EXCEPT ![home[x]] = Later(@, stamp[x])]
    BY <1>10 DEF ClientReadsEvent
  <2>2. On(down) = {Head(down)} \cup On(down')
    BY <2>1, Lines
  <2>3. home[x] # c
    BY <1>b, <2>1, <2>2
  <2> HIDE DEF x
  <2>4. lastSeen'[c] = 0
    BY <1>b, <1>t, <2>1, <2>3
  <2>5. QED
    BY <1>0, <1>1, <1>b, <2>1, <2>2, <2>4
<1>11. ASSUME ClientReadsDenial PROVE Blank(c)'
  <2>1. /\ down # <<>> /\ down' = Tail(down)
        /\ lastSeen' = [lastSeen EXCEPT ![Head(down).c] = 0]
        /\ UNCHANGED <<home, live, jobs, up>>
    BY <1>11 DEF ClientReadsDenial, ForgetChannel
  <2>2. On(down) = {Head(down)} \cup On(down')
    BY <2>1, Lines
  <2>3. lastSeen'[c] = 0
    BY <1>b, <1>t, <2>1
  <2>4. QED
    BY <1>0, <1>1, <1>b, <2>1, <2>2, <2>3
<1>12. ASSUME Aside PROVE Blank(c)'
  <2>1. On(down') \subseteq On(down)
    BY <1>12, PassesOn DEF Aside
  <2>2. QED
    BY <1>0, <1>1, <1>12, <1>b, <2>1 DEF Aside
<1>13. ASSUME NEW d \in Channel, AskStep(d) PROVE Blank(c)'
  <2> DEFINE f == Req(d, ChannelSince(d))
  <2>1. /\ d \in active /\ up' = Append(up, f) /\ Passes
        /\ UNCHANGED <<home, live, jobs, lastSeen>>
    BY <1>13 DEF AskStep
  <2>2. f \in Question /\ f.c = d
    BY SinceTypes, ReqType DEF Req
  <2> HIDE DEF f
  <2>3. On(up') = On(up) \cup {f} /\ On(down') \subseteq On(down)
    BY <2>1, <2>2, Lines, PassesOn
  <2>4. QED
    BY <1>0, <1>1, <1>b, <2>1, <2>2, <2>3
<1>14. ASSUME RecordStep PROVE Blank(c)'
  <2>1. UNCHANGED <<home, live, jobs, down>> /\ Recorded
    BY <1>14 DEF RecordStep
  <2>2. lastSeen'[c] = 0
    BY <1>b, <2>1 DEF Recorded
  <2>3. \/ up' = up
        \/ \E f \in Question : up' = Append(up, f) /\ (f.c \in active \/ f.c \in active')
    BY <1>14 DEF RecordStep
  <2>4. \A f \in On(up') : f \in On(up) \/ f.c # c
    <3>1. ASSUME NEW g \in Question, up' = Append(up, g), g.c \in active \/ g.c \in active'
          PROVE  \A f \in On(up') : f \in On(up) \/ f.c # c
      <4>1. On(up') = On(up) \cup {g}
        BY <3>1, Lines
      <4>2. QED
        BY <1>b, <3>1, <4>1
    <3>2. QED
      BY <2>3, <3>1
  <2>5. QED
    BY <1>0, <1>1, <1>b, <2>1, <2>2, <2>4
<1>15. ASSUME CutStep PROVE Blank(c)'
  <2>1. /\ On(up') = {} /\ On(down') = {} /\ jobs' = {}
        /\ live' = [d \in Channel |-> Unsubscribed] /\ Recorded
    BY <1>15, OnEmpty DEF CutStep
  <2>2. lastSeen'[c] = 0
    BY <1>b, <2>1 DEF Recorded
  <2>3. QED
    BY <1>0, <2>1, <2>2
<1>16. QED
  BY <1>2, <1>3, <1>4, <1>5, <1>6, <1>7, <1>8, <1>9, <1>10, <1>11, <1>12, <1>13, <1>14,
     <1>15, Kinds

-----------------------------------------------------------------------------
(* Numbers and times.                                                      *)

LEMMA NewestGrows ==
    ASSUME NEW a \in [Event -> 0..MaxStamp], NEW b \in [Event -> 0..MaxStamp],
           \A e \in Event : a[e] <= b[e]
    PROVE  Newest(a) <= Newest(b)
<1>1. Newest(a) \in 1..MaxStamp /\ Newest(b) \in 1..MaxStamp /\ MaxStamp \in Nat
  BY NewestType, LinkAssumption
<1>2. Newest(a) = 1 \/ \E e \in Event : Newest(a) = a[e]
  BY NewestType
<1>3. CASE Newest(a) = 1
  BY <1>1, <1>3
<1>4. ASSUME NEW e \in Event, Newest(a) = a[e] PROVE Newest(a) <= Newest(b)
  <2>1. b[e] <= Newest(b) /\ a[e] <= b[e] /\ a[e] \in 0..MaxStamp /\ b[e] \in 0..MaxStamp
    BY NewestType
  <2>2. QED
    BY <1>1, <1>4, <2>1
<1>5. QED
  BY <1>2, <1>3, <1>4

LEMMA StampStep ==
    ASSUME TypeOK, Numbered, [Next]_vars
    PROVE  /\ \/ stamp' = stamp
              \/ \E c \in Channel, t \in 1..MaxStamp : RelayPublish(c, t)
           /\ seen' = seen \/ ClientReadsEvent
<1> USE DEF relayVars, wireVars, taskVars, markVars, parkVars, harnessVars, budgetVars
<1>1. ASSUME Relay \/ Faults PROVE UNCHANGED <<stamp, seen>>
  BY <1>1 DEF Relay, RelayAdmits, RelayCloses, RelayRegisters, RelayReplays, Faults,
              RelayRefuses, RelayDenies, RelayRevokes, LinkStalls, LinkRecovers, LinkDies
<1>2. ASSUME ClientExecutes \/ DrainExecutes PROVE UNCHANGED <<stamp, seen>>
  BY <1>2 DEF ClientExecutes, DrainExecutes, Executes
<1>3. ASSUME \/ ClientFailsToExecute \/ ClientAppliesOffline \/ ClientReconnects
             \/ DrainFails \/ ClientNotices \/ DrainSkipsReconnect
      PROVE  UNCHANGED <<stamp, seen>>
  BY <1>3 DEF ClientFailsToExecute, ClientAppliesOffline, ClientReconnects, DrainFails,
              ClientNotices, DrainSkipsReconnect
<1>4. ASSUME \/ ClientReadsDenial \/ ClientReadsRateLimit
             \/ ClientReadsClosed \/ ClientConnects \/ ClientResubscribes
             \/ ResubscribedAll \/ Drained \/ GateOpens \/ HarnessTakes
      PROVE  UNCHANGED <<stamp, seen>>
  BY <1>4 DEF ClientReadsDenial, ClientReadsRateLimit, ClientReadsClosed,
              ClientConnects, ClientResubscribes, ResubscribedAll, Drained, GateOpens,
              HarnessTakes
<1>5. ASSUME NEW c, ResubscribesOne(c) \/ DrainParked(c) \/ DrainRetry(c)
      PROVE  UNCHANGED <<stamp, seen>>
  BY <1>5 DEF ResubscribesOne, DrainParked, DrainRetry
<1>6. ASSUME NEW c, HarnessSubscribes(c) \/ HarnessUnsubscribes(c) PROVE UNCHANGED <<stamp, seen>>
  BY <1>6 DEF HarnessSubscribes, HarnessUnsubscribes
<1>7. CASE UNCHANGED vars
  BY <1>7 DEF vars
<1>p. ASSUME NEW c, NEW t, RelayPublish(c, t) PROVE seen' = seen
  BY <1>p DEF RelayPublish
<1>r. ASSUME ClientReadsEvent PROVE stamp' = stamp
  BY <1>r DEF ClientReadsEvent
<1>8. ASSUME Task PROVE ClientReadsEvent \/ UNCHANGED <<stamp, seen>>
  BY <1>2, <1>3, <1>4, <1>5, <1>8 DEF Task
<1>9. QED
  BY <1>1, <1>4, <1>6, <1>7, <1>8, <1>p, <1>r DEF Next, Asks

LEMMA NumberedStep ==
    ASSUME TypeOK, Numbered, [Next]_vars
    PROVE  Numbered'
<1>1. CASE stamp' = stamp
  BY <1>1 DEF Numbered, Published
<1>2. ASSUME NEW c \in Channel, NEW t \in 1..MaxStamp, RelayPublish(c, t) PROVE Numbered'
  <2> DEFINE e == Cardinality(Published) + 1
  <2>1. e \in Event /\ stamp' = [stamp EXCEPT ![e] = t]
    BY <1>2 DEF RelayPublish
  <2>2. PICK n \in 0..MaxEvents : Published = 1..n /\ e = n + 1
    BY <2>1, Counting
  <2> HIDE DEF e
  <2>3. stamp \in [Event -> 0..MaxStamp] /\ MaxEvents \in Nat /\ t > 0
    BY LinkAssumption DEF TypeOK
  <2>4. n \in Nat /\ n + 1 \in 1..MaxEvents
    BY <2>1, <2>2, <2>3 DEF Event
  <2>5. Published' = Published \cup {e}
    <3>1. \A x \in Event : stamp'[x] = IF x = e THEN t ELSE stamp[x]
      BY <2>1, <2>3
    <3>2. QED
      BY <2>1, <2>3, <3>1 DEF Published
  <2>6. Published' = 1..(n + 1)
    BY <2>2, <2>4, <2>5
  <2>7. n + 1 \in 0..MaxEvents
    BY <2>3, <2>4
  <2>8. QED
    BY <2>6, <2>7 DEF Numbered
<1>3. QED
  BY <1>1, <1>2, StampStep

LEMMA DatedStep ==
    ASSUME ~spoilt', TypeOK, Numbered, Dated, Fresh, [Next]_vars,
           \A f \in On(cmds') : f.k = "sub" => f \in On(cmds) \/ f.floor = Newest(stamp)
    PROVE  Dated'
<1> USE DEF relayVars, wireVars, taskVars, markVars, parkVars, harnessVars, budgetVars
<1>n. PICK n \in Nat : n = Newest(stamp)
  BY Present
<1>d. /\ \A c \in Channel : /\ lastSeen[c] <= n /\ live[c] <= Since(n)
                            /\ dropped[c] > 0 => lastSeen[c] > 0
                            /\ floor[c] <= n
      /\ \A f \in On(cmds) : f.k = "sub" => f.floor <= n
      /\ \A f \in On(up) : f.k = "req" => f.since <= Since(n)
      /\ \A j \in jobs : j.since <= Since(n)
      /\ \A f \in On(down) : f.k = "event" => stamp[f.e] > 0
  BY <1>n DEF Dated, DatedBy
<1>t. /\ live \in [Channel -> -1..MaxStamp] /\ lastSeen \in [Channel -> 0..MaxStamp]
      /\ dropped \in [Channel -> 0..MaxStamp] /\ floor \in [Channel -> 0..MaxStamp]
      /\ home \in [Event -> Channel] /\ stamp \in [Event -> 0..MaxStamp]
      /\ \A j \in jobs : j.c \in Channel /\ j.since \in 0..MaxStamp
  BY DEF TypeOK
<1>m. MaxStamp \in Nat /\ Skew \in Nat
  BY LinkAssumption
<1>s. Since(n) \in Nat
  BY SinceFacts
<1>q. \A f \in On(cmds') : f.k = "sub" => f.floor <= n
  BY <1>n, <1>d
<1>u. -1 <= Since(n)
  BY <1>s
(* The marks, the requests, the handlers and the frames of the next state. *)
<1>0. ASSUME stamp' = stamp,
             \A c \in Channel : /\ lastSeen'[c] <= n
                                /\ dropped'[c] > 0 => lastSeen'[c] > 0
                                /\ floor'[c] <= n,
             \A c \in Channel : live'[c] <= Since(n),
             \A f \in On(up') : f.k = "req" => f.since <= Since(n),
             \A j \in jobs' : j.since <= Since(n),
             \A f \in On(down') : f.k = "event" => stamp[f.e] > 0
      PROVE  Dated'
  <2>1. Newest(stamp') = n
    BY <1>0, <1>n
  <2>2. DatedBy(Newest(stamp))'
    BY <1>0, <1>q, <2>1 DEF DatedBy
  <2>3. QED
    BY <1>0, <2>2 DEF Dated
<1>1. ASSUME NEW c \in Channel, NEW t \in 1..MaxStamp, RelayPublish(c, t) PROVE Dated'
  <2>1. PICK e \in Event, f \in Response : Publishes(c, t, e, f)
    BY <1>1, Publishing
  <2>2. /\ stamp[e] = 0 /\ stamp' = [stamp EXCEPT ![e] = t] /\ f.k = "event" /\ f.e = e
        /\ down' = IF live[c] # Unsubscribed /\ live[c] <= t THEN Append(down, f) ELSE down
        /\ UNCHANGED <<live, jobs, up, lastSeen, dropped, floor, cmds>>
    BY <2>1 DEF Publishes
  <2>3. stamp' \in [Event -> 0..MaxStamp] /\ \A x \in Event : stamp[x] <= stamp'[x]
    BY <1>t, <1>m, <2>2
  <2>4. PICK m \in Nat : m = Newest(stamp')
    BY <1>m, <2>3, NewestType
  <2>5. n <= m
    BY <1>n, <1>t, <2>3, <2>4, NewestGrows
  <2>6. Since(n) <= Since(m) /\ Since(m) \in Nat
    BY <2>5, SinceFacts
  <2>7. On(Append(down, f)) = On(down) \cup {f}
    BY Lines
  <2>8. ASSUME NEW g \in On(down'), g.k = "event" PROVE stamp'[g.e] > 0
    <3>1. CASE g \in On(down)
      <4>1. g.e \in Event /\ stamp[g.e] > 0
        BY <1>d, <2>8, <3>1, Lines, Parts
      <4>2. QED
        BY <1>t, <1>m, <2>3, <4>1
    <3>2. CASE g \notin On(down)
      <4>1. g = f
        BY <2>2, <2>7, <3>2
      <4>2. QED
        BY <1>t, <2>2, <4>1
    <3>3. QED
      BY <3>1, <3>2
  <2>9. \A d \in Channel : /\ lastSeen[d] <= m /\ live[d] <= Since(m)
                           /\ dropped[d] > 0 => lastSeen[d] > 0
                           /\ floor[d] <= m
    BY <1>d, <1>m, <1>s, <1>t, <2>5, <2>6
  <2>10. ASSUME NEW g \in On(cmds), g.k = "sub" PROVE g.floor <= m
    <3>1. g.floor \in 0..MaxStamp
      BY <2>10, Lines, Parts
    <3>2. QED
      BY <1>d, <1>m, <2>5, <2>10, <3>1
  <2>11. ASSUME NEW g \in On(up), g.k = "req" PROVE g.since <= Since(m)
    <3>1. g.since \in 0..MaxStamp
      BY <2>11, Lines, Parts
    <3>2. QED
      BY <1>d, <1>m, <1>s, <2>6, <2>11, <3>1
  <2>12. \A j \in jobs : j.since <= Since(m)
    BY <1>d, <1>m, <1>s, <1>t, <2>6
  <2>13. DatedBy(Newest(stamp))'
    BY <2>2, <2>4, <2>9, <2>10, <2>11, <2>12 DEF DatedBy
  <2>14. QED
    BY <2>8, <2>13 DEF Dated
<1>2. ASSUME RelayAdmits PROVE Dated'
  <2> DEFINE j == [c |-> Head(up).c, since |-> Head(up).since, registered |-> FALSE]
  <2>1. /\ up # <<>> /\ up' = Tail(up) /\ Head(up).k = "req"
        /\ jobs' = jobs \cup {j} /\ j.since = Head(up).since
        /\ UNCHANGED <<stamp, live, down, lastSeen, dropped, floor>>
    BY <1>2 DEF RelayAdmits
  <2>2. Head(up) \in On(up) /\ On(up') \subseteq On(up)
    BY <2>1, UpTail
  <2> HIDE DEF j
  <2>3. QED
    BY <1>0, <1>d, <2>1, <2>2
<1>a. ASSUME NEW f \in Response, f.k = "closed", down' = Append(down, f)
      PROVE  \A g \in On(down') : g.k = "event" => stamp[g.e] > 0
  BY <1>a, <1>d, ClosedAppended
<1>3. ASSUME NEW why \in {"rate", "other"}, RelayRefuses(why) PROVE Dated'
  <2> DEFINE f == [k |-> "closed", c |-> Head(up).c, why |-> why]
  <2>1. /\ up # <<>> /\ up' = Tail(up) /\ down' = Append(down, f)
        /\ UNCHANGED <<stamp, live, jobs, lastSeen, dropped, floor>>
    BY <1>3 DEF RelayRefuses
  <2>2. Head(up).c \in Channel /\ On(up') \subseteq On(up)
    BY <2>1, UpTail, Parts
  <2>3. f \in Response /\ f.k = "closed"
    BY <2>2 DEF Response
  <2> HIDE DEF f
  <2>4. QED
    BY <1>0, <1>a, <1>d, <2>1, <2>2, <2>3
<1>4. ASSUME NEW j \in jobs, RelayRegisters(j) PROVE Dated'
  <2> DEFINE k == [j EXCEPT !.registered = TRUE]
  <2>1. /\ live' = [live EXCEPT ![j.c] = j.since] /\ jobs' = (jobs \ {j}) \cup {k}
        /\ UNCHANGED <<stamp, up, down, lastSeen, dropped, floor>>
    BY <1>4 DEF RelayRegisters
  <2>2. k.since = j.since /\ j.since <= Since(n)
    BY <1>d DEF TypeOK
  <2> HIDE DEF k
  <2>3. \A d \in Channel : live'[d] <= Since(n)
    BY <1>d, <1>t, <2>1, <2>2
  <2>4. QED
    BY <1>0, <1>d, <2>1, <2>2, <2>3
<1>5. ASSUME NEW j \in jobs, RelayReplays(j) PROVE Dated'
  <2>1. jobs' = jobs \ {j} /\ UNCHANGED <<stamp, live, up, lastSeen, dropped, floor>>
    BY <1>5 DEF RelayReplays
  <2>2. PICK r \in Seq(Response) :
           down' = down \o r /\ \A f \in On(r) : stamp[f.e] > 0
    BY <1>5, Replaying
  <2>3. On(down') = On(down) \cup On(r)
    BY <2>2, Lines
  <2>4. QED
    BY <1>0, <1>d, <2>1, <2>2, <2>3
<1>6. ASSUME NEW j \in jobs, RelayDenies(j) PROVE Dated'
  <2> DEFINE f == [k |-> "closed", c |-> j.c, why |-> "denied"]
  <2>1. /\ jobs' = jobs \ {j} /\ down' = Append(down, f)
        /\ UNCHANGED <<stamp, live, up, lastSeen, dropped, floor>>
    BY <1>6 DEF RelayDenies
  <2>2. f \in Response /\ f.k = "closed"
    BY DEF Response, TypeOK
  <2> HIDE DEF f
  <2>3. QED
    BY <1>0, <1>a, <1>d, <2>1, <2>2
<1>7. ASSUME NEW c \in Channel, RelayRevokes(c) PROVE Dated'
  <2> DEFINE f == [k |-> "closed", c |-> c, why |-> "denied"]
  <2>1. /\ live' = [live EXCEPT ![c] = -1] /\ down' = Append(down, f)
        /\ UNCHANGED <<stamp, jobs, up, lastSeen, dropped, floor>>
    BY <1>7 DEF RelayRevokes, Unsubscribed
  <2>2. f \in Response /\ f.k = "closed"
    BY DEF Response
  <2> HIDE DEF f
  <2>3. \A d \in Channel : live'[d] <= Since(n)
    BY <1>d, <1>t, <1>u, <2>1
  <2>4. QED
    BY <1>0, <1>a, <1>d, <2>1, <2>2, <2>3
<1>8. ASSUME RelayCloses PROVE Dated'
  <2> DEFINE h == Head(up)
             f == [k |-> "closed", c |-> h.c, why |-> "other"]
  <2>1. /\ up # <<>> /\ up' = Tail(up)
        /\ live' = [live EXCEPT ![h.c] = -1] /\ down' = Append(down, f)
        /\ UNCHANGED <<stamp, jobs, lastSeen, dropped, floor>>
    BY <1>8 DEF RelayCloses, Unsubscribed
  <2>2. h.c \in Channel /\ On(up') \subseteq On(up)
    BY <2>1, UpTail, Parts
  <2>3. f \in Response /\ f.k = "closed"
    BY <2>2 DEF Response
  <2> HIDE DEF f, h
  <2>4. \A d \in Channel : live'[d] <= Since(n)
    BY <1>d, <1>t, <1>u, <2>1
  <2>5. QED
    BY <1>0, <1>a, <1>d, <2>1, <2>2, <2>3, <2>4
<1>9. ASSUME ClientReadsEvent PROVE Dated'
  <2> DEFINE x == Head(down).e
             c == home[x]
  <2>1. /\ down # <<>> /\ down' = Tail(down) /\ Head(down).k = "event"
        /\ UNCHANGED <<stamp, live, jobs, up, floor>>
        /\ \/ UNCHANGED <<lastSeen, dropped>>
           \/ /\ lastSeen' = [lastSeen EXCEPT ![c] = Later(@, stamp[x])]
              /\ \/ dropped' = dropped
                 \/ dropped' = [dropped EXCEPT ![c] =
                                   IF @ = 0 THEN stamp[x] ELSE Earlier(@, stamp[x])]
    BY <1>9 DEF ClientReadsEvent
  <2>2. On(down) = {Head(down)} \cup On(down')
    BY <2>1, Lines
  <2>3. x \in Event /\ stamp[x] > 0 /\ stamp[x] <= n
    <3>1. Head(down) \in Response /\ Head(down) \in On(down)
      BY <2>1, Lines
    <3>2. x \in Event /\ stamp[x] > 0
      BY <1>d, <2>1, <3>1, Parts
    <3>3. QED
      BY <1>n, <3>2, Present
  <2> HIDE DEF x, c
  <2>4. c \in Channel
    BY <1>t, <2>3 DEF c
  <2>5. \A d \in Channel : lastSeen'[d] <= n /\ (dropped'[d] > 0 => lastSeen'[d] > 0)
    <3>1. CASE UNCHANGED <<lastSeen, dropped>>
      BY <1>d, <3>1
    <3>2. CASE lastSeen' = [lastSeen EXCEPT ![c] = Later(@, stamp[x])]
      <4>1. lastSeen'[c] <= n /\ lastSeen'[c] > 0
        BY <1>d, <1>m, <1>t, <2>3, <2>4, <3>2 DEF Later
      <4>2. \A d \in Channel : d # c => lastSeen'[d] = lastSeen[d] /\ dropped'[d] = dropped[d]
        BY <1>t, <2>1, <3>2
      <4>3. QED
        BY <1>d, <4>1, <4>2
    <3>3. QED
      BY <2>1, <3>1, <3>2
  <2>6. QED
    BY <1>0, <1>d, <2>1, <2>2, <2>5
<1>10. ASSUME ClientReadsDenial PROVE Dated'
  <2> DEFINE c == Head(down).c
  <2>1. /\ down # <<>> /\ down' = Tail(down)
        /\ lastSeen' = [lastSeen EXCEPT ![c] = 0]
        /\ floor' = [floor EXCEPT ![c] = 0]
        /\ dropped' = [dropped EXCEPT ![c] = 0]
        /\ UNCHANGED <<stamp, live, jobs, up>>
    BY <1>10 DEF ClientReadsDenial, ForgetChannel
  <2>2. On(down) = {Head(down)} \cup On(down')
    BY <2>1, Lines
  <2> HIDE DEF c
  <2>3. \A d \in Channel : /\ lastSeen'[d] <= n /\ (dropped'[d] > 0 => lastSeen'[d] > 0)
                           /\ floor'[d] <= n
    BY <1>d, <1>t, <2>1
  <2>4. QED
    BY <1>0, <1>d, <2>1, <2>2, <2>3
<1>11. ASSUME Aside PROVE Dated'
  <2>1. On(down') \subseteq On(down)
    BY <1>11, PassesOn DEF Aside
  <2>2. QED
    BY <1>0, <1>11, <1>d, <2>1 DEF Aside
<1>12. ASSUME NEW c \in Channel, AskStep(c) PROVE Dated'
  <2> DEFINE f == Req(c, ChannelSince(c))
  <2>1. /\ up' = Append(up, f) /\ Passes /\ dropped' = [dropped EXCEPT ![c] = 0]
        /\ UNCHANGED <<stamp, live, jobs, lastSeen, floor>>
    BY <1>12 DEF AskStep
  <2>2. ChannelSince(c) <= n /\ ChannelSince(c) \in Nat
    <3>1. lastSeen[c] \in Nat /\ dropped[c] \in Nat /\ floor[c] \in Nat
      BY <1>m, <1>t
    <3>2. /\ lastSeen[c] <= n /\ floor[c] <= n /\ (dropped[c] > 0 => lastSeen[c] > 0)
      BY <1>d
    <3>3. QED
      BY <3>1, <3>2 DEF ChannelSince, Earlier
  <2>3. f \in Question
    BY SinceTypes, ReqType
  <2>4. f.since <= Since(n)
    BY <2>2, SinceFacts DEF Req
  <2> HIDE DEF f
  <2>5. On(up') = On(up) \cup {f} /\ On(down') \subseteq On(down)
    BY <2>1, <2>3, Lines, PassesOn
  <2>6. \A d \in Channel : dropped'[d] > 0 => lastSeen'[d] > 0
    BY <1>d, <1>t, <2>1
  <2>7. QED
    BY <1>0, <1>d, <2>1, <2>4, <2>5, <2>6
(* Commands. *)
<1>13. ASSUME Recorded PROVE \A c \in Channel : /\ lastSeen'[c] <= n
                                                /\ dropped'[c] > 0 => lastSeen'[c] > 0
                                                /\ floor'[c] <= n
  BY <1>13, <1>d, <1>n DEF Recorded
<1>14. ASSUME RecordStep PROVE Dated'
  <2>1. UNCHANGED <<stamp, live, jobs, down>> /\ Recorded
    BY <1>14 DEF RecordStep
  <2>2. floor' \in [Channel -> 0..MaxStamp]
    BY TypeStep DEF TypeOK
  <2>3. ASSUME NEW g \in Question, up' = Append(up, g), g.k = "req" => g.since = Since(floor'[g.c])
        PROVE  \A f \in On(up') : f.k = "req" => f.since <= Since(n)
    <3>1. On(up') = On(up) \cup {g}
      BY <2>3, Lines
    <3>2. g.k = "req" => g.since <= Since(n)
      <4>1. g.c \in Channel
        BY Parts
      <4>2. floor'[g.c] \in Nat /\ floor'[g.c] <= n
        BY <1>13, <1>m, <2>1, <2>2, <4>1
      <4>3. QED
        BY <2>3, <4>2, SinceFacts
    <3>3. QED
      BY <1>d, <3>1, <3>2
  <2>4. \/ up' = up
        \/ \E g \in Question : up' = Append(up, g) /\ (g.k = "req" => g.since = Since(floor'[g.c]))
    BY <1>14 DEF RecordStep
  <2>5. QED
    BY <1>0, <1>13, <1>d, <2>1, <2>3, <2>4
<1>15. ASSUME CutStep PROVE Dated'
  <2>1. /\ On(up') = {} /\ On(down') = {} /\ jobs' = {} /\ stamp' = stamp
        /\ live' = [d \in Channel |-> -1] /\ Recorded
    BY <1>15, OnEmpty DEF CutStep, Unsubscribed
  <2>2. \A d \in Channel : live'[d] <= Since(n)
    BY <1>u, <2>1
  <2>3. QED
    BY <1>0, <1>13, <2>1, <2>2
<1>16. QED
  BY <1>1, <1>2, <1>3, <1>4, <1>5, <1>6, <1>7, <1>8, <1>9, <1>10, <1>11, <1>12, <1>14,
     <1>15, Kinds

-----------------------------------------------------------------------------
(* Without a connection nothing is on its way.                             *)

LEMMA SeveredStep ==
    ASSUME TypeOK, Severed, [Next]_vars
    PROVE  Severed'
<1> USE DEF relayVars, wireVars, taskVars, markVars, parkVars, harnessVars, budgetVars
<1>1. ASSUME UNCHANGED <<sock, live, jobs, down>>, up' = up \/ sock = "up"
      PROVE  Severed'
  BY <1>1 DEF Severed
<1>2. ASSUME sock' \notin {"dead", "down"} PROVE Severed'
  BY <1>2 DEF Severed
<1>3. ASSUME RelayForgetsConnection PROVE Severed'
  BY <1>3 DEF Severed, RelayForgetsConnection
<1>w. \A f : Write(f) => up' = up \/ sock = "up"
  BY DEF Write
<1>4. ASSUME NEW c \in Channel, NEW t \in 1..MaxStamp, RelayPublish(c, t) PROVE Severed'
  BY <1>4 DEF RelayPublish, Severed
<1>5. ASSUME RelayAdmits \/ RelayCloses PROVE Severed'
  BY <1>5 DEF RelayAdmits, RelayCloses, Severed
<1>6. ASSUME NEW why, RelayRefuses(why) PROVE Severed'
  BY <1>6 DEF RelayRefuses, Severed
<1>7. ASSUME NEW j \in jobs, RelayRegisters(j) \/ RelayReplays(j) \/ RelayDenies(j)
      PROVE  Severed'
  <2>1. sock' = sock /\ jobs # {}
    BY <1>7 DEF RelayRegisters, RelayReplays, RelayDenies
  <2>2. QED
    BY <2>1 DEF Severed
<1>8. ASSUME NEW c \in Channel, RelayRevokes(c) PROVE Severed'
  <2>1. sock' = sock /\ live[c] # Unsubscribed
    BY <1>8 DEF RelayRevokes
  <2>2. QED
    BY <2>1 DEF Severed
<1>9. ASSUME LinkStalls \/ LinkRecovers \/ ClientConnects PROVE Severed'
  BY <1>2, <1>9 DEF LinkStalls, LinkRecovers, ClientConnects
<1>10. ASSUME LinkDies \/ ClientNotices \/ ClientFailsToExecute \/ ClientReconnects
       PROVE  Severed'
  BY <1>3, <1>10 DEF LinkDies, ClientNotices, ClientFailsToExecute, ClientReconnects, GoOffline
<1>11. ASSUME \/ ClientReadsEvent \/ ClientReadsDenial \/ ClientReadsRateLimit
              \/ ClientReadsClosed
       PROVE  Severed'
  BY <1>2, <1>11 DEF ClientReadsEvent, ClientReadsDenial, ClientReadsRateLimit,
                     ClientReadsClosed
<1>12. ASSUME ClientExecutes \/ DrainExecutes PROVE Severed'
  <2>1. Executes(Head(cmds))
    BY <1>12 DEF ClientExecutes, DrainExecutes
  <2>2. UNCHANGED <<sock, live, jobs, down>>
    BY <2>1 DEF Executes
  <2>3. up' = up \/ sock = "up"
    BY <1>w, <2>1 DEF Executes, SubscribeGated, SubscribeSent, UnsubscribeSent
  <2>4. QED
    BY <1>1, <2>2, <2>3
<1>13. ASSUME NEW c, ResubscribesOne(c) \/ DrainParked(c) \/ DrainRetry(c) PROVE Severed'
  <2>1. UNCHANGED <<sock, live, jobs, down>>
    BY <1>13 DEF ResubscribesOne, DrainParked, DrainRetry
  <2>2. up' = up \/ sock = "up"
    BY <1>13, <1>w DEF ResubscribesOne, DrainParked, DrainRetry, AsksAgain
  <2>3. QED
    BY <1>1, <2>1, <2>2
<1>14. ASSUME \/ ClientAppliesOffline \/ ClientResubscribes \/ ResubscribedAll \/ Drained
              \/ DrainSkipsReconnect \/ GateOpens \/ HarnessTakes
       PROVE  Severed'
  BY <1>1, <1>14 DEF ClientAppliesOffline, ClientResubscribes, ResubscribedAll, Drained,
                     DrainSkipsReconnect, GateOpens, HarnessTakes
<1>15. ASSUME DrainFails PROVE Severed'
  <2>1. CASE phase = "drain"
    BY <1>3, <1>15, <2>1 DEF DrainFails, GoOffline
  <2>2. CASE phase # "drain"
    BY <1>1, <1>15, <2>2 DEF DrainFails
  <2>3. QED
    BY <2>1, <2>2
<1>16. ASSUME NEW c, HarnessSubscribes(c) \/ HarnessUnsubscribes(c) PROVE Severed'
  BY <1>1, <1>16 DEF HarnessSubscribes, HarnessUnsubscribes
<1>17. CASE UNCHANGED vars
  BY <1>1, <1>17 DEF vars
<1>18. ASSUME Task PROVE Severed'
  BY <1>9, <1>10, <1>11, <1>12, <1>13, <1>14, <1>15, <1>18 DEF Task
<1>19. ASSUME Relay \/ Faults PROVE Severed'
  BY <1>5, <1>6, <1>7, <1>8, <1>9, <1>10, <1>19 DEF Relay, Faults
<1>20. QED
  BY <1>4, <1>14, <1>16, <1>17, <1>18, <1>19 DEF Next, Asks

-----------------------------------------------------------------------------
(* What is remembered was handed over.                                     *)

LEMMA HandedStep ==
    ASSUME ~spoilt', TypeOK, Numbered, Dated, Fresh, Handed, [Next]_vars
    PROVE  Handed'
<1> USE DEF relayVars, wireVars, taskVars, markVars, parkVars, harnessVars, budgetVars
<1>1. ASSUME seen' = seen, Kept PROVE Handed'
  BY <1>1 DEF Handed, Known, Kept
<1>2. ASSUME ClientReadsEvent PROVE Handed'
  <2> DEFINE x == Head(down).e
  <2>1. down # <<>> /\ Head(down).k = "event" /\ got' = got
    BY <1>2 DEF ClientReadsEvent
  <2>2. x \in Event
    BY <2>1, Lines, Parts
  <2>3. \/ UNCHANGED <<seen, inbox>>
        \/ seen' = Remember(x) /\ inbox' = Append(inbox, x)
        \/ seen' = Forget(Remember(x), x) /\ inbox' = inbox
    BY <1>2 DEF ClientReadsEvent
  <2> HIDE DEF x
  <2>4. \A y : y \in Remember(x).current \cup Remember(x).previous => Known(y) \/ y = x
    <3>1. seen \in [current : SUBSET Event, previous : SUBSET Event]
      BY DEF TypeOK
    <3>2. QED
      BY <3>1 DEF Remember, Known
  <2>5. CASE UNCHANGED <<seen, inbox>>
    BY <1>1, <2>1, <2>5 DEF Kept
  <2>6. CASE seen' = Remember(x) /\ inbox' = Append(inbox, x)
    <3>1. x \in Event \cup {Sentinel}
      BY <2>2
    <3>2. On(inbox') = On(inbox) \cup {x}
      BY <2>6, <3>1, Lines
    <3>3. QED
      BY <2>1, <2>4, <2>6, <3>2 DEF Handed, Known
  <2>7. CASE seen' = Forget(Remember(x), x) /\ inbox' = inbox
    <3>1. \A y : y \in seen'.current \cup seen'.previous => Known(y)
      BY <2>4, <2>7 DEF Forget
    <3>2. QED
      BY <2>1, <2>7, <3>1 DEF Handed, Known
  <2>8. QED
    BY <2>3, <2>5, <2>6, <2>7
<1>3. ASSUME ~ClientReadsEvent PROVE Kept
  <2>1. UNCHANGED <<got, inbox>> => Kept
    BY DEF Kept
  <2>2. ASSUME NEW c \in Channel, NEW t \in 1..MaxStamp, RelayPublish(c, t) PROVE Kept
    BY <2>1, <2>2 DEF RelayPublish
  <2>3. ASSUME NEW why, RelayRefuses(why) PROVE Kept
    BY <2>1, <2>3 DEF RelayRefuses
  <2>4. ASSUME NEW j, RelayRegisters(j) \/ RelayReplays(j) \/ RelayDenies(j) PROVE Kept
    BY <2>1, <2>4 DEF RelayRegisters, RelayReplays, RelayDenies
  <2>5. ASSUME NEW c, RelayRevokes(c) PROVE Kept
    BY <2>1, <2>5 DEF RelayRevokes
  <2>6. ASSUME RelayAdmits \/ RelayCloses \/ ClientReadsDenial PROVE Kept
    BY <2>1, <2>6 DEF RelayAdmits, RelayCloses, ClientReadsDenial
  <2>7. ASSUME Aside \/ RecordStep \/ CutStep \/ \E c \in Channel : AskStep(c) PROVE Kept
    BY <2>7 DEF Aside, RecordStep, CutStep, AskStep
  <2>8. QED
    BY <1>3, <2>2, <2>3, <2>4, <2>5, <2>6, <2>7, Kinds
<1>4. QED
  BY <1>1, <1>2, <1>3, StampStep

-----------------------------------------------------------------------------
(* Subscriptions among the commands stay those of blank channels, CLOSEs   *)
(* on the line those of channels that are not active, and the task asks    *)
(* again for active channels only.                                         *)

LEMMA CloseStep ==
    ASSUME ~spoilt', TypeOK, Dated, Fresh, [Next]_vars,
           NEW f \in On(up'), f.k = "close"
    PROVE  f.c \notin active'
<1> USE DEF relayVars, wireVars, taskVars, markVars, parkVars, harnessVars, budgetVars
<1>1. ASSUME active' \subseteq active, f \in On(up) PROVE f.c \notin active'
  BY <1>1 DEF Fresh
<1>t. up # <<>> => On(Tail(up)) \subseteq On(up)
  BY Lines
<1>2. CASE \E c \in Channel, t \in 1..MaxStamp : RelayPublish(c, t)
  BY <1>1, <1>2 DEF RelayPublish
<1>3. CASE RelayAdmits \/ RelayCloses
  BY <1>1, <1>t, <1>3 DEF RelayAdmits, RelayCloses
<1>4. CASE \E why \in {"rate", "other"} : RelayRefuses(why)
  BY <1>1, <1>t, <1>4 DEF RelayRefuses
<1>5. CASE \E j \in jobs : RelayRegisters(j) \/ RelayReplays(j) \/ RelayDenies(j)
  BY <1>1, <1>5 DEF RelayRegisters, RelayReplays, RelayDenies
<1>6. CASE \E c \in Channel : RelayRevokes(c)
  BY <1>1, <1>6 DEF RelayRevokes
<1>7. CASE ClientReadsEvent \/ ClientReadsDenial
  BY <1>1, <1>7 DEF ClientReadsEvent, ClientReadsDenial, ForgetChannel
<1>8. CASE Aside
  BY <1>1, <1>8 DEF Aside
<1>9. ASSUME NEW c \in Channel, AskStep(c) PROVE f.c \notin active'
  <2> DEFINE g == Req(c, ChannelSince(c))
  <2>1. g \in Question
    BY SinceTypes, ReqType
  <2>2. g.k # "close" /\ up' = Append(up, g) /\ active' = active
    BY <1>9 DEF Req, AskStep
  <2> HIDE DEF g
  <2>3. f \in On(up)
    BY <2>1, <2>2, Lines
  <2>4. QED
    BY <1>1, <2>2, <2>3
<1>10. CASE RecordStep
  <2>1. Recorded
    BY <1>10 DEF RecordStep
  <2>2. CASE f \in On(up)
    <3>1. f.c \in Channel /\ f.c \notin active
      BY <2>2, Lines, Parts DEF Fresh
    <3>2. ~Subbed(f.c)
      BY <2>2 DEF Subbed, Fresh, Blank
    <3>3. QED
      BY <2>1, <3>1, <3>2 DEF Recorded
  <2>3. CASE f \notin On(up)
    <3>1. PICK g \in Question : up' = Append(up, g) /\ (g.k = "req" \/ g.c \notin active')
      BY <1>10, <2>3 DEF RecordStep
    <3>2. On(up') = On(up) \cup {g}
      BY <3>1, Lines
    <3>3. QED
      BY <2>3, <3>1, <3>2
  <2>4. QED
    BY <2>2, <2>3
<1>11. CASE CutStep
  BY <1>11, OnEmpty DEF CutStep
<1>12. QED
  BY <1>2, <1>3, <1>4, <1>5, <1>6, <1>7, <1>8, <1>9, <1>10, <1>11, Kinds

LEMMA TodoStep ==
    ASSUME ~spoilt', TypeOK, Dated, Fresh, [Next]_vars
    PROVE  /\ todo' \subseteq active' /\ retry' \subseteq active'
           /\ phase' # "resub" => todo' = {}
<1> USE DEF relayVars, wireVars, taskVars, markVars, parkVars, harnessVars, budgetVars
<1> DEFINE Good == /\ todo' \subseteq active' /\ retry' \subseteq active'
                   /\ phase' # "resub" => todo' = {}
<1>f. /\ todo \subseteq active /\ retry \subseteq active
      /\ phase # "resub" => todo = {}
  BY DEF Fresh
<1>1. ASSUME UNCHANGED <<phase, todo, active>>, retry' \subseteq retry PROVE Good
  BY <1>1, <1>f
(* Outside a resubscription only the retries matter. *)
<1>2. ASSUME phase # "resub", phase' # "resub", todo' = todo, retry' \subseteq active'
      PROVE  Good
  BY <1>2, <1>f
<1>3. ASSUME NEW c, NEW t, RelayPublish(c, t) PROVE Good
  BY <1>1, <1>3 DEF RelayPublish
<1>4. ASSUME Relay PROVE Good
  BY <1>1, <1>4 DEF Relay, RelayAdmits, RelayCloses, RelayRegisters, RelayReplays
<1>5. ASSUME Faults PROVE Good
  BY <1>1, <1>5 DEF Faults, RelayRefuses, RelayDenies, RelayRevokes, LinkStalls,
                    LinkRecovers, LinkDies
<1>6. ASSUME \/ ClientReadsEvent \/ ClientReadsRateLimit \/ ClientReadsClosed
             \/ GateOpens \/ HarnessTakes \/ DrainSkipsReconnect
      PROVE  Good
  BY <1>1, <1>6 DEF ClientReadsEvent, ClientReadsRateLimit, ClientReadsClosed, GateOpens,
                    HarnessTakes, DrainSkipsReconnect
<1>7. ASSUME NEW c, DrainParked(c) \/ DrainRetry(c) PROVE Good
  BY <1>1, <1>7 DEF DrainParked, DrainRetry
<1>8. ASSUME NEW c \in Channel, HarnessSubscribes(c) \/ HarnessUnsubscribes(c) PROVE Good
  BY <1>1, <1>8 DEF HarnessSubscribes, HarnessUnsubscribes
<1>9. ASSUME ClientReadsDenial PROVE Good
  <2>1. /\ phase = "loop" /\ phase' = phase /\ todo' = todo
        /\ active' = active \ {Head(down).c} /\ retry' = retry \ {Head(down).c}
    BY <1>9 DEF ClientReadsDenial, Looping, ForgetChannel
  <2>2. QED
    BY <1>f, <2>1
<1>10. ASSUME ClientNotices \/ ClientReconnects PROVE Good
  BY <1>2, <1>10, <1>f DEF ClientNotices, ClientReconnects, GoOffline, Looping
<1>11. ASSUME ClientExecutes \/ DrainExecutes PROVE Good
  <2>1. Recorded
    BY <1>11, ExecuteRecords DEF ClientExecutes, DrainExecutes, RecordStep
  <2>2. phase # "resub" /\ phase' = phase /\ todo' = todo
    BY <1>11 DEF ClientExecutes, DrainExecutes, Executes, Looping, Draining
  <2>3. QED
    BY <1>2, <2>1, <2>2 DEF Recorded
<1>12. ASSUME ClientFailsToExecute \/ ClientAppliesOffline PROVE Good
  <2>1. Recorded
    BY <1>12, RecordsOne DEF ClientFailsToExecute, ClientAppliesOffline
  <2>2. phase # "resub" /\ phase' # "resub" /\ todo' = todo
    BY <1>12 DEF ClientFailsToExecute, ClientAppliesOffline, GoOffline, Looping
  <2>3. QED
    BY <1>2, <2>1, <2>2 DEF Recorded
<1>13. ASSUME DrainFails PROVE Good
  <2>1. Recorded
    BY <1>13, RecordsAll DEF DrainFails
  <2>2. phase # "resub" /\ phase' # "resub" /\ todo' = todo
    BY <1>13 DEF DrainFails, GoOffline, Draining
  <2>3. QED
    BY <1>2, <2>1, <2>2 DEF Recorded
<1>14. ASSUME ClientConnects \/ ClientResubscribes PROVE Good
  <2>1. /\ phase' = "resub" /\ todo' = active /\ active' = active
        /\ retry' = {} \/ retry' = retry
    BY <1>14 DEF ClientConnects, ClientResubscribes
  <2>2. QED
    BY <1>f, <2>1
<1>15. ASSUME NEW c \in todo, ResubscribesOne(c) PROVE Good
  <2>1. /\ phase = "resub" /\ phase' = phase /\ todo' = todo \ {c} /\ active' = active
        /\ retry' = retry \/ retry' = retry \cup {c}
    BY <1>15 DEF ResubscribesOne
  <2>2. QED
    BY <1>f, <2>1
<1>16. ASSUME ResubscribedAll PROVE Good
  BY <1>16, <1>f DEF ResubscribedAll
<1>17. ASSUME Drained PROVE Good
  BY <1>2, <1>17, <1>f DEF Drained, Draining
<1>18. CASE UNCHANGED vars
  BY <1>1, <1>18 DEF vars
<1>19. ASSUME Task PROVE Good
  BY <1>6, <1>7, <1>9, <1>10, <1>11, <1>12, <1>13, <1>14, <1>15, <1>16, <1>17, <1>19 DEF Task
<1>20. QED
  BY <1>3, <1>4, <1>5, <1>6, <1>8, <1>18, <1>19 DEF Next, Asks

LEMMA FreshStep ==
    ASSUME ~spoilt', TypeOK, Numbered, Dated, Fresh, [Next]_vars
    PROVE  Fresh'
<1>1. /\ OnceEach(cmds')
      /\ \A f \in On(cmds') : f.k = "sub" => f.c \in Channel /\ f.c \notin active' /\ Blank(f.c)
  BY Waits
<1>2. \A c \in Channel : Blank(c) /\ c \notin active' => Blank(c)'
  BY BlankStep
<1>3. \A f \in On(cmds') : f.k = "sub" => Blank(f.c)'
  <2> SUFFICES ASSUME NEW f \in On(cmds'), f.k = "sub" PROVE Blank(f.c)'
    OBVIOUS
  <2>1. PICK c \in Channel : c = f.c /\ c \notin active' /\ Blank(c)
    BY <1>1
  <2>2. Blank(c)'
    BY <1>2, <2>1
  <2>3. QED
    BY <2>1, <2>2 DEF Blank
<1>4. \A f \in On(up') : f.k = "close" => f.c \notin active'
  BY CloseStep
<1>5. /\ todo' \subseteq active' /\ retry' \subseteq active'
      /\ phase' # "resub" => todo' = {}
  BY TodoStep
<1>6. QED
  BY <1>1, <1>3, <1>4, <1>5 DEF Fresh, OnceEach, On, Blank

-----------------------------------------------------------------------------
(* What was dropped will be asked for.                                     *)

LEMMA ReasksStep ==
    ASSUME ~spoilt', TypeOK, Dated, Fresh,
           Reasks, [Next]_vars
    PROVE  Reasks'
<1> USE DEF relayVars, wireVars, taskVars, markVars, parkVars, harnessVars, budgetVars
<1>t. /\ active \subseteq Channel /\ dropped \in [Channel -> 0..MaxStamp]
      /\ home \in [Event -> Channel]
  BY DEF TypeOK
<1>r. sock \in {"up", "stuck"} => \A c \in active : dropped[c] > 0 => Again(c)
  BY DEF Reasks
<1>v. ASSUME sock' \notin {"up", "stuck"} PROVE Reasks'
  BY <1>v DEF Reasks
(* The rule: a mark that is still there was there, and the reason stays. *)
<1>0. ASSUME sock' = sock,
             \A c \in active' : dropped'[c] > 0 /\ ~Again(c)' =>
                 c \in active /\ dropped[c] > 0 /\ ~Again(c)
      PROVE  Reasks'
  BY <1>0, <1>r DEF Reasks
<1>c. /\ up # <<>> => Head(up) \in Question /\ Head(up).c \in Channel
      /\ \A f \in Response : On(Append(down, f)) = On(down) \cup {f}
      /\ \A j \in jobs : j.c \in Channel
  <2>1. up # <<>> => Head(up) \in Question
    BY Lines
  <2>2. up # <<>> => Head(up).c \in Channel
    BY <2>1, Parts
  <2>3. \A j \in jobs : j.c \in Channel
    BY DEF TypeOK
  <2>4. QED
    BY <2>1, <2>2, <2>3, Lines
(* The books stay and nothing is read. *)
<1>1. ASSUME UNCHANGED <<phase, todo, active, dropped, resubNeeded, parked, retry>>,
             sock' = sock \/ (sock' \in {"up", "stuck"} /\ sock \in {"up", "stuck"}),
             On(down) \subseteq On(down')
      PROVE  Reasks'
  <2>1. \A c : Again(c) => Again(c)'
    BY <1>1 DEF Again, ClosedIn
  <2>2. QED
    BY <1>1, <1>r, <2>1 DEF Reasks
<1>2. ASSUME NEW c \in Channel, NEW t \in 1..MaxStamp, RelayPublish(c, t) PROVE Reasks'
  <2> DEFINE f == [k |-> "event", e |-> Cardinality(Published) + 1, replayed |-> FALSE]
  <2>1. f \in Response
    BY <1>2 DEF RelayPublish, Response
  <2>2. down' = down \/ down' = Append(down, f)
    BY <1>2 DEF RelayPublish
  <2> HIDE DEF f
  <2>3. On(down) \subseteq On(down')
    BY <1>c, <2>1, <2>2
  <2>4. QED
    BY <1>1, <1>2, <2>3 DEF RelayPublish
<1>3. ASSUME RelayAdmits PROVE Reasks'
  BY <1>1, <1>3 DEF RelayAdmits
<1>4. ASSUME NEW d \in Channel, NEW why \in {"rate", "other", "denied"},
             down' = Append(down, [k |-> "closed", c |-> d, why |-> why])
      PROVE  On(down) \subseteq On(down')
  <2> DEFINE f == [k |-> "closed", c |-> d, why |-> why]
  <2>1. f \in Response /\ down' = Append(down, f)
    BY <1>4 DEF Response
  <2> HIDE DEF f
  <2>2. QED
    BY <1>c, <2>1
<1>5. ASSUME RelayCloses PROVE Reasks'
  <2>1. On(down) \subseteq On(down')
    BY <1>4, <1>5, <1>c DEF RelayCloses
  <2>2. QED
    BY <1>1, <1>5, <2>1 DEF RelayCloses
<1>6. ASSUME NEW why \in {"rate", "other"}, RelayRefuses(why) PROVE Reasks'
  <2>1. On(down) \subseteq On(down')
    BY <1>4, <1>6, <1>c DEF RelayRefuses
  <2>2. QED
    BY <1>1, <1>6, <2>1 DEF RelayRefuses
<1>7. ASSUME NEW j \in jobs, RelayRegisters(j) \/ RelayDenies(j) PROVE Reasks'
  <2>1. On(down) \subseteq On(down')
    BY <1>4, <1>7, <1>c DEF RelayRegisters, RelayDenies
  <2>2. QED
    BY <1>1, <1>7, <2>1 DEF RelayRegisters, RelayDenies
<1>8. ASSUME NEW j \in jobs, RelayReplays(j) PROVE Reasks'
  <2>1. PICK frames \in Seq(Response) : down' = down \o frames
    BY <1>8, Replayed
  <2>2. On(down) \subseteq On(down')
    BY <2>1, Lines
  <2>3. QED
    BY <1>1, <1>8, <2>2 DEF RelayReplays
<1>9. ASSUME NEW c \in Channel, RelayRevokes(c) PROVE Reasks'
  <2>1. On(down) \subseteq On(down')
    BY <1>4, <1>9 DEF RelayRevokes
  <2>2. QED
    BY <1>1, <1>9, <2>1 DEF RelayRevokes
<1>10. ASSUME LinkStalls \/ LinkRecovers \/ GateOpens \/ HarnessTakes \/ DrainSkipsReconnect
       PROVE  Reasks'
  BY <1>1, <1>10 DEF LinkStalls, LinkRecovers, GateOpens, HarnessTakes, DrainSkipsReconnect
<1>11. ASSUME NEW c \in Channel, HarnessSubscribes(c) \/ HarnessUnsubscribes(c) PROVE Reasks'
  BY <1>1, <1>11 DEF HarnessSubscribes, HarnessUnsubscribes
<1>12. CASE UNCHANGED vars
  BY <1>1, <1>12 DEF vars
<1>13. ASSUME LinkDies PROVE Reasks'
  BY <1>v, <1>13 DEF LinkDies
<1>14. ASSUME ClientNotices \/ ClientFailsToExecute \/ ClientReconnects PROVE Reasks'
  BY <1>v, <1>14 DEF ClientNotices, ClientFailsToExecute, ClientReconnects, GoOffline
<1>15. ASSUME ClientAppliesOffline PROVE Reasks'
  <2>1. sock' = "down"
    BY <1>15 DEF ClientAppliesOffline, TypeOK
  <2>2. QED
    BY <1>v, <2>1
(* Commands: a channel that is subscribed has dropped nothing. *)
<1>q. ASSUME Recorded, UNCHANGED <<sock, down, todo, resubNeeded>>,
             phase' = phase \/ phase # "resub"
      PROVE  Reasks'
  <2>4. active' \subseteq Channel
    BY TypeStep DEF TypeOK
  <2>5. ASSUME NEW c \in active', dropped'[c] > 0
        PROVE  c \in active /\ dropped[c] > 0 /\ (Again(c) => Again(c)')
    <3>1. c \in Channel
      BY <2>4
    <3>2. CASE Subbed(c)
      <4>1. lastSeen[c] = 0
        BY <3>2 DEF Subbed, Fresh, Blank
      <4>2. ~(dropped[c] > 0)
        BY <3>1, <4>1 DEF Dated, DatedBy
      <4>3. dropped'[c] = dropped[c] \/ dropped'[c] = 0
        BY <1>q, <3>1 DEF Recorded
      <4>4. QED
        BY <2>5, <4>2, <4>3
    <3>3. CASE ~Subbed(c)
      <4>1. /\ c \in active /\ dropped'[c] = dropped[c]
            /\ c \in parked => c \in parked'
            /\ c \in retry => c \in retry'
        BY <1>q, <3>1, <3>3 DEF Recorded
      <4>2. QED
        BY <1>q, <2>5, <4>1 DEF Again
    <3>4. QED
      BY <3>2, <3>3
  <2>6. QED
    BY <1>0, <1>q, <2>5
<1>16. ASSUME DrainFails PROVE Reasks'
  <2>1. CASE phase = "drain"
    BY <1>v, <1>16, <2>1 DEF DrainFails, GoOffline
  <2>2. CASE phase # "drain"
    <3>1. Recorded
      BY <1>16, RecordsAll DEF DrainFails
    <3>2. UNCHANGED <<sock, down, todo, resubNeeded>> /\ phase # "resub"
      BY <1>16, <2>2 DEF DrainFails, Draining
    <3>3. QED
      BY <1>q, <3>1, <3>2
  <2>3. QED
    BY <2>1, <2>2
(* Frames that are read. *)
<1>d. ASSUME down # <<>>, down' = Tail(down), NEW c, ClosedIn(down, c), ~ClosedIn(down', c)
      PROVE  Head(down).k = "closed" /\ Head(down).c = c
  <2>1. On(down) = {Head(down)} \cup On(down')
    BY <1>d, Lines
  <2>2. QED
    BY <1>d, <2>1 DEF ClosedIn
<1>17. ASSUME ClientReadsEvent PROVE Reasks'
  <2>1. /\ down # <<>> /\ down' = Tail(down) /\ Head(down).k = "event"
        /\ UNCHANGED <<sock, phase, todo, active, parked, retry>>
        /\ resubNeeded' \/ (resubNeeded' = resubNeeded /\ dropped' = dropped)
    BY <1>17 DEF ClientReadsEvent
  <2>2. \A c : Again(c) => Again(c)'
    BY <1>d, <2>1 DEF Again
  <2>3. CASE resubNeeded'
    BY <2>3 DEF Reasks, Again
  <2>4. CASE dropped' = dropped
    BY <1>0, <2>1, <2>2, <2>4
  <2>5. QED
    BY <2>1, <2>3, <2>4
<1>18. ASSUME ClientReadsDenial PROVE Reasks'
  <2> DEFINE d == Head(down).c
  <2>1. /\ down # <<>> /\ down' = Tail(down)
        /\ UNCHANGED <<sock, phase, todo, resubNeeded>>
        /\ active' = active \ {d} /\ dropped' = [dropped EXCEPT ![d] = 0]
        /\ parked' = parked \ {d} /\ retry' = retry \ {d}
    BY <1>18 DEF ClientReadsDenial, ForgetChannel
  <2>2. ASSUME NEW c \in active' PROVE c \in active /\ dropped'[c] = dropped[c] /\ c # d
    BY <1>t, <2>1
  <2>3. ASSUME NEW c, c # d, Again(c) PROVE Again(c)'
    BY <1>d, <2>1, <2>3 DEF Again
  <2>4. QED
    BY <1>0, <2>1, <2>2, <2>3
<1>19. ASSUME ClientReadsRateLimit PROVE Reasks'
  <2> DEFINE d == Head(down).c
  <2>1. /\ down # <<>> /\ down' = Tail(down)
        /\ UNCHANGED <<sock, phase, todo, resubNeeded, active, dropped, retry>>
        /\ parked' = parked \cup {d}
    BY <1>19 DEF ClientReadsRateLimit
  <2>2. ASSUME NEW c, Again(c) PROVE Again(c)'
    BY <1>d, <2>1, <2>2 DEF Again
  <2>3. QED
    BY <1>0, <2>1, <2>2
<1>20. ASSUME ClientReadsClosed PROVE Reasks'
  <2> DEFINE d == Head(down).c
  <2>1. /\ down # <<>> /\ down' = Tail(down)
        /\ UNCHANGED <<sock, phase, todo, resubNeeded, active, parked, retry>>
        /\ IF d \in active THEN dropped' = [dropped EXCEPT ![d] = 0] ELSE dropped' = dropped
    BY <1>20 DEF ClientReadsClosed, AsksAgain
  <2>2. ASSUME NEW c, c # d, Again(c) PROVE Again(c)'
    BY <1>d, <2>1, <2>2 DEF Again
  <2> HIDE DEF d
  <2>3. ASSUME NEW c \in active, dropped'[c] > 0 PROVE c # d /\ dropped'[c] = dropped[c]
    BY <1>t, <2>1, <2>3
  <2>4. QED
    BY <1>0, <2>1, <2>2, <2>3
(* Requests that are made. *)
<1>21. ASSUME NEW d \in todo, ResubscribesOne(d) PROVE Reasks'
  <2>1. /\ UNCHANGED <<sock, phase, resubNeeded, active, down>>
        /\ todo' = todo \ {d} /\ parked \subseteq parked' /\ retry \subseteq retry'
        /\ \/ dropped' = dropped /\ (d \in parked' \/ d \in retry')
           \/ dropped' = [dropped EXCEPT ![d] = 0]
    BY <1>21 DEF ResubscribesOne, AsksAgain
  <2>2. ASSUME NEW c, c # d, Again(c) PROVE Again(c)'
    BY <2>1, <2>2 DEF Again
  <2>3. ASSUME NEW c \in active, dropped'[c] > 0
        PROVE  dropped[c] > 0 /\ (c # d \/ Again(c)')
    <3>1. CASE dropped' = dropped /\ (d \in parked' \/ d \in retry')
      BY <2>3, <3>1 DEF Again
    <3>2. CASE dropped' = [dropped EXCEPT ![d] = 0]
      BY <1>t, <2>3, <3>2
    <3>3. QED
      BY <2>1, <3>1, <3>2
  <2>4. QED
    BY <1>0, <2>1, <2>2, <2>3
<1>22. ASSUME NEW d, DrainParked(d) \/ DrainRetry(d) PROVE Reasks'
  <2>1. /\ UNCHANGED <<sock, phase, todo, resubNeeded, active, down>>
        /\ parked \ {d} \subseteq parked' /\ retry \ {d} \subseteq retry'
        /\ \/ dropped' = dropped /\ (d \in parked' \/ d \notin active)
           \/ dropped' = [dropped EXCEPT ![d] = 0]
    BY <1>22 DEF DrainParked, DrainRetry, AsksAgain
  <2>2. ASSUME NEW c, c # d, Again(c) PROVE Again(c)'
    BY <2>1, <2>2 DEF Again
  <2>3. ASSUME NEW c \in active, dropped'[c] > 0
        PROVE  dropped[c] > 0 /\ (c # d \/ Again(c)')
    <3>1. CASE dropped' = dropped /\ (d \in parked' \/ d \notin active)
      BY <2>3, <3>1 DEF Again
    <3>2. CASE dropped' = [dropped EXCEPT ![d] = 0]
      BY <1>t, <2>3, <3>2
    <3>3. QED
      BY <2>1, <3>1, <3>2
  <2>4. QED
    BY <1>0, <2>1, <2>2, <2>3
<1>23. ASSUME ClientExecutes \/ DrainExecutes PROVE Reasks'
  <2>1. cmds # <<>> /\ Head(cmds).k # "reconnect" /\ Executes(Head(cmds))
    BY <1>23 DEF ClientExecutes, DrainExecutes
  <2>2. Recorded /\ down' = down
    BY <2>1, ExecuteRecords DEF RecordStep
  <2>3. UNCHANGED <<sock, phase, todo, resubNeeded>>
    BY <2>1 DEF Executes
  <2>4. QED
    BY <1>q, <2>2, <2>3
<1>24. ASSUME ClientConnects \/ ClientResubscribes PROVE Reasks'
  <2>1. phase' = "resub" /\ todo' = active /\ active' = active
    BY <1>24 DEF ClientConnects, ClientResubscribes
  <2>2. QED
    BY <2>1 DEF Reasks, Again
<1>25. ASSUME ResubscribedAll \/ Drained PROVE Reasks'
  <2>1. /\ UNCHANGED <<sock, resubNeeded, active, dropped, parked, retry, down>>
        /\ phase = "resub" => todo = {}
    BY <1>25 DEF ResubscribedAll, Drained, Draining
  <2>2. \A c : Again(c) => Again(c)'
    BY <2>1 DEF Again
  <2>3. QED
    BY <1>0, <2>1, <2>2
<1>26. ASSUME Task PROVE Reasks'
  BY <1>10, <1>14, <1>15, <1>16, <1>17, <1>18, <1>19, <1>20, <1>21, <1>22, <1>23, <1>24,
     <1>25, <1>26 DEF Task
<1>27. QED
  BY <1>2, <1>3, <1>5, <1>6, <1>7, <1>8, <1>9, <1>10, <1>11, <1>12, <1>13, <1>26
     DEF Next, Relay, Faults, Asks

-----------------------------------------------------------------------------
(* The parts together.                                                     *)

NothingMissed ==
    /\ TypeOK /\ Swallows /\ Attached
    /\ Numbered /\ Dated /\ Severed /\ Handed /\ Fresh /\ Heard /\ Reasks
    /\ Followed

LEMMA SwallowsStep ==
    ASSUME ~spoilt', TypeOK, Swallows, [Next]_vars
    PROVE  Swallows'
<1> USE DEF relayVars, wireVars, taskVars, markVars, parkVars, harnessVars, budgetVars
<1>1. ASSUME swallowed' \subseteq swallowed, sock' = sock PROVE Swallows'
  BY <1>1 DEF Swallows
<1>2. ASSUME Relay \/ GateOpens \/ HarnessTakes PROVE Swallows'
  BY <1>1, <1>2 DEF Relay, RelayAdmits, RelayCloses, RelayRegisters, RelayReplays, GateOpens,
              HarnessTakes
<1>3. ASSUME NEW c \in Channel, NEW t \in 1..MaxStamp, RelayPublish(c, t) PROVE Swallows'
  BY <1>1, <1>3 DEF RelayPublish
<1>4. ASSUME NEW c \in Channel, HarnessSubscribes(c) \/ HarnessUnsubscribes(c) PROVE Swallows'
  BY <1>1, <1>4 DEF HarnessSubscribes, HarnessUnsubscribes
<1>5. ASSUME Faults PROVE Swallows'
  <2>1. ASSUME LinkStalls \/ LinkRecovers \/ LinkDies PROVE Swallows'
    BY <2>1 DEF LinkStalls, LinkRecovers, LinkDies, Spoils, Swallows
  <2>2. QED
    BY <1>1, <1>5, <2>1 DEF Faults, RelayRefuses, RelayDenies, RelayRevokes
<1>6. ASSUME GoOffline PROVE Swallows'
  BY <1>6 DEF GoOffline, Swallows
<1>7. ASSUME Task PROVE Swallows'
  <2>1. ASSUME ClientReadsEvent \/ ClientReadsDenial \/ ClientReadsRateLimit \/ ClientReadsClosed
        PROVE  Swallows'
    BY <1>1, <2>1 DEF ClientReadsEvent, ClientReadsDenial, ClientReadsRateLimit,
                      ClientReadsClosed, AsksAgain
  <2>2. ASSUME ClientNotices \/ ClientFailsToExecute \/ ClientReconnects PROVE Swallows'
    BY <1>6, <2>2 DEF ClientNotices, ClientFailsToExecute, ClientReconnects
  <2>3. ASSUME DrainFails PROVE Swallows'
    <3>1. phase = "drain" \/ (sock' = sock /\ sock # "up" /\ sock # "down")
      BY <2>3 DEF DrainFails, Draining, Fails, Unwritable, TypeOK
    <3>2. sock \in {"up", "stuck", "dead", "down"}
      BY DEF TypeOK
    <3>3. QED
      BY <1>6, <2>3, <3>1, <3>2 DEF DrainFails, Swallows
  <2>4. ASSUME ClientExecutes \/ DrainExecutes \/ ClientAppliesOffline \/ ClientResubscribes
        PROVE  Swallows'
    BY <1>1, <2>4 DEF ClientExecutes, DrainExecutes, Executes, ClientAppliesOffline,
                      ClientResubscribes
  <2>5. ASSUME ClientConnects PROVE Swallows'
    BY <2>5 DEF ClientConnects, Swallows, TypeOK
  <2>6. ASSUME ResubscribedAll \/ DrainSkipsReconnect \/ Drained PROVE Swallows'
    BY <1>1, <2>6 DEF ResubscribedAll, DrainSkipsReconnect, Drained
  <2>7. ASSUME NEW c, ResubscribesOne(c) \/ DrainParked(c) \/ DrainRetry(c) PROVE Swallows'
    BY <1>1, <2>7 DEF ResubscribesOne, DrainParked, DrainRetry, AsksAgain
  <2>8. QED
    BY <1>7, <2>1, <2>2, <2>3, <2>4, <2>5, <2>6, <2>7 DEF Task
<1>8. CASE UNCHANGED vars
  BY <1>1, <1>8 DEF vars
<1>9. QED
  BY <1>2, <1>3, <1>4, <1>5, <1>7, <1>8 DEF Next, Asks

LEMMA MissedInit == Init => NothingMissed
<1> SUFFICES ASSUME Init PROVE NothingMissed
  OBVIOUS
<1>1. TypeOK
  BY TypeInit
<1>2. Swallows /\ Attached
  BY DEF Init, Swallows, Attached
<1>3. /\ On(up) = {} /\ On(down) = {} /\ On(cmds) = {} /\ On(inbox) = {}
      /\ jobs = {} /\ active = {} /\ retry = {} /\ todo = {} /\ sock = "up"
  BY OnEmpty DEF Init
<1>4. Published = {} /\ MaxEvents \in Nat
  BY LinkAssumption DEF Init, Published
<1>5. Numbered
  <2>1. 0 \in 0..MaxEvents /\ Published = 1..0
    BY <1>4
  <2>2. QED
    BY <2>1 DEF Numbered
<1>6. Dated
  <2>1. PICK n \in Nat : n = Newest(stamp)
    BY <1>1, Present
  <2>2. \A c \in Channel : lastSeen[c] = 0 /\ dropped[c] = 0 /\ floor[c] = 0 /\ live[c] = -1
    BY DEF Init, Unsubscribed
  <2>3. Since(n) \in Nat
    BY SinceFacts
  <2>4. \A c \in Channel : /\ lastSeen[c] <= n /\ live[c] <= Since(n)
                           /\ dropped[c] > 0 => lastSeen[c] > 0
                           /\ floor[c] <= n
    BY <2>2, <2>3
  <2>5. QED
    BY <1>3, <2>1, <2>4 DEF Dated, DatedBy
<1>7. Severed /\ Reasks /\ Heard
  BY <1>3 DEF Severed, Reasks, Heard
<1>8. Handed
  BY DEF Init, Handed, Known
<1>9. Fresh
  BY <1>3 DEF Init, Fresh, OnceEach
<1>10. Followed
  BY <1>3 DEF Followed, Waiting
<1>11. QED
  BY <1>1, <1>2, <1>5, <1>6, <1>7, <1>8, <1>9, <1>10 DEF NothingMissed

LEMMA MissedStep ==
    ASSUME ~spoilt', NothingMissed, [Next]_vars
    PROVE  NothingMissed'
<1> USE DEF NothingMissed
<1>1. TypeOK' /\ Swallows' /\ Attached'
  BY TypeStep, SwallowsStep, AttachedStep
<1>2. Numbered' /\ Severed' /\ Handed' /\ Heard' /\ Reasks' /\ Followed'
  BY NumberedStep, SeveredStep, HandedStep, HeardStep, ReasksStep, FollowedStep
<1>3. Dated'
  BY Waits, DatedStep
<1>4. Fresh'
  BY FreshStep
<1>5. QED
  BY <1>1, <1>2, <1>3, <1>4

(* A mark that does not lie past the window of e, and a floor that does    *)
(* not, leave e in the window of the next request.                         *)
LEMMA InWindow ==
    ASSUME TypeOK, Dated, NEW e \in Event, NEW c \in Channel,
           stamp[e] >= Since(floor[c]),
           \/ dropped[c] > 0 /\ dropped[c] <= stamp[e] + Skew
           \/ lastSeen[c] <= stamp[e] + Skew
    PROVE  Since(ChannelSince(c)) <= stamp[e]
<1>1. /\ stamp[e] \in 0..MaxStamp /\ lastSeen[c] \in 0..MaxStamp
      /\ dropped[c] \in 0..MaxStamp /\ floor[c] \in 0..MaxStamp
  BY DEF TypeOK
<1>2. MaxStamp \in Nat /\ Skew \in Nat
  BY LinkAssumption
<1>3. dropped[c] > 0 => lastSeen[c] > 0
  BY DEF Dated, DatedBy
<1>4. CASE lastSeen[c] = 0
  <2>1. ChannelSince(c) = floor[c]
    BY <1>1, <1>2, <1>3, <1>4 DEF ChannelSince
  <2>2. floor[c] \in Nat
    BY <1>1, <1>2
  <2>3. Since(floor[c]) \in Nat
    BY <2>2, SinceFacts
  <2>4. QED
    BY <1>1, <1>2, <2>1, <2>3
<1>5. CASE lastSeen[c] # 0
  <2>1. ChannelSince(c) \in Nat /\ ChannelSince(c) <= stamp[e] + Skew
    BY <1>1, <1>2, <1>5 DEF ChannelSince, Earlier
  <2>2. stamp[e] \in Nat
    BY <1>1, <1>2
  <2>3. QED
    BY <2>1, <2>2, SinceFacts
<1>6. QED
  BY <1>4, <1>5

LEMMA MissedLoses == NothingMissed => NothingLost
<1> SUFFICES ASSUME NothingMissed PROVE NothingLost
  OBVIOUS
<1> SUFFICES ASSUME NEW e \in Owed, got[e] = 0, e \notin On(inbox), ~Coming(e)
             PROVE  WillAsk(home[e]) /\ Since(ChannelSince(home[e])) <= stamp[e]
  <2>1. \A e \in Owed : got[e] \in Nat
    BY DEF NothingMissed, TypeOK, Owed, Published
  <2>2. \A e \in Owed : got[e] > 0 \/ got[e] = 0
    BY <2>1
  <2>3. \A e : e \in On(inbox) => InInbox(e)
    BY DEF On, InInbox
  <2>4. QED
    BY <2>2, <2>3 DEF NothingLost
<1> USE DEF NothingMissed
<1> DEFINE c == home[e]
<1>1. e \in Event /\ stamp[e] > 0 /\ c \in active /\ stamp[e] >= Since(floor[c])
  BY DEF Owed, Published
<1>2. c \in Channel
  BY <1>1 DEF TypeOK
<1>3. ~DeniedIn(down, c)
  BY DEF Owed, Denied, DeniedIn, On
<1>4. Safe(e) \/ Ahead(e)
  BY <1>1, <1>3 DEF Followed, Waiting
<1>5. ASSUME sock \in {"up", "stuck"}
      PROVE  /\ ~Sent(e)
             /\ \A j \in jobs : ~(j.c = c /\ j.since <= stamp[e])
             /\ \A f \in On(up) : ~(f.k = "req" /\ f.c = c /\ f.since <= stamp[e])
  BY <1>5 DEF Coming, Sent, Frame, On
<1>6. ASSUME sock \notin {"up", "stuck"}
      PROVE  On(up) = {} /\ On(down) = {} /\ jobs = {} /\ live[c] = Unsubscribed
  <2>1. sock \in {"dead", "down"}
    BY <1>6 DEF TypeOK
  <2>2. QED
    BY <1>2, <2>1, OnEmpty DEF Severed
<1>7. \/ dropped[c] > 0 /\ dropped[c] <= stamp[e] + Skew
      \/ Ahead(e)
  BY <1>4, <1>5, <1>6 DEF Safe, Sent
<1>8. Since(ChannelSince(c)) <= stamp[e]
  BY <1>1, <1>2, <1>7, InWindow DEF Ahead
<1>9. WillAsk(c)
  <2>1. CASE sock # "up"
    BY <2>1 DEF WillAsk
  <2>2. CASE sock = "up"
    <3>1. swallowed = {}
      BY <2>2 DEF Swallows
    <3>2. ASSUME dropped[c] > 0 PROVE WillAsk(c)
      <4>1. Again(c)
        BY <1>1, <2>2, <3>1, <3>2 DEF Reasks
      <4>2. ClosedIn(down, c) => Closing(c)
        BY DEF ClosedIn, Closing, On
      <4>3. QED
        BY <4>1, <4>2 DEF Again, WillAsk
    <3>3. ASSUME Ahead(e) PROVE WillAsk(c)
      <4>1. live[c] = Unsubscribed /\ Asked(e)
        BY <1>5, <2>2, <3>3 DEF Ahead
      <4>2. Cared(c)
        BY <1>1, <2>2, <3>1 DEF Attached
      <4>3. ~Named(up, "req", c)
        BY <1>5, <2>2, <4>1 DEF Asked, Named, On
      <4>4. Named(down, "closed", c) => Closing(c)
        BY DEF Named, Closing
      <4>5. QED
        BY <4>1, <4>2, <4>3, <4>4 DEF Cared, Asked, WillAsk
    <3>4. QED
      BY <1>7, <3>2, <3>3
  <2>3. QED
    BY <2>1, <2>2
<1>10. QED
  BY <1>8, <1>9

(* THEOREM: no event is lost between the relay and the harness (background *)
(* task of the harness, relay.rs; REQ handlers of the relay, req.rs): one  *)
(* the harness is owed has reached it or its channel, is on its way, or    *)
(* lies in the window of a request that will be made - across stalls,      *)
(* losses, refusals, denials, rate limits, a full event channel and        *)
(* reconnections, for any number of channels, events and faults, and       *)
(* authors' clocks that disagree by no more than SINCE_SKEW_SECS - until   *)
(* one of the five steps that NoEventLost names has happened.              *)
THEOREM NoneLost == Spec => []NoEventLost
<1> DEFINE Inv == TypeOK /\ (spoilt \/ NothingMissed)
<1>1. Init => Inv
  BY TypeInit, MissedInit
<1>2. Inv /\ [Next]_vars => Inv'
  <2> SUFFICES ASSUME Inv, [Next]_vars PROVE Inv'
    OBVIOUS
  <2>1. TypeOK'
    BY TypeStep
  <2>2. spoilt => spoilt'
    BY SpoiltStays
  <2>3. ~spoilt' => NothingMissed'
    BY <2>2, MissedStep
  <2>4. QED
    BY <2>1, <2>3
<1>3. Inv => NoEventLost
  BY MissedLoses DEF NoEventLost
<1>4. QED
  BY <1>1, <1>2, <1>3, PTL DEF Spec
=============================================================================
