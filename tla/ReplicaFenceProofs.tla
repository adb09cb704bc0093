------------------------- MODULE ReplicaFenceProofs -------------------------
(***************************************************************************)
(* Proofs about reading from replicas, for any number of sessions, pods    *)
(* and replicas, any floor, margin and budget, and any length of history.  *)
(***************************************************************************)
EXTENDS ReplicaFence, WellFoundedInduction, NaturalsInduction, TLAPS

Deciding == {"committing", "preparing", "prepared"}

(* A transaction that passed the guard writes no row below its floor, and   *)
(* one that was prepared was so within the margin.                          *)
Guarded ==
    \A t \in Tx :
        /\ tx[t].start <= now /\ tx[t].guard <= now
        /\ tx[t].pc \in Deciding => tx[t].guard - Floor <= tx[t].stamp
        /\ tx[t].pc \in {"committing", "preparing"} => tx[t].start <= tx[t].guard
        /\ tx[t].pc = "preparing" => now < tx[t].guard + Margin
        /\ tx[t].pc = "prepared" => tx[t].start < tx[t].guard + Margin

(* No transaction under way will write at or below the wall w. *)
Above(w) == \A t \in Tx : tx[t].pc \in Deciding => w < tx[t].stamp

(* What a token k that was committed at a proves of the wall w: rows that   *)
(* come after a token as great, in the log or still to be committed, lie    *)
(* above the wall and are not older than a.                                 *)
Settles(k, w, a) ==
    /\ w + Floor + Margin <= now /\ a <= now
    /\ \A i, j \in 1..Len(log) :
          /\ i < j /\ log[i].k = "beat" /\ k <= log[i].token /\ log[j].k = "row"
          => w < log[j].stamp /\ a <= log[j].at
    /\ Above(w)

(* How far a probe has come with its wall. *)
Probing ==
    \A p \in Pod :
        /\ probe[p].pc # "idle" => probe[p].lower <= now
        /\ probe[p].pc = "scanned" =>
              \A t \in Tx : tx[t].pc \in {"committing", "preparing"} => Wall(p) < tx[t].stamp
        /\ probe[p].pc \in {"swept", "regressed"} => probe[p].at <= now /\ Above(Wall(p))
        /\ probe[p].pc \in {"beaten", "rotated"} =>
              0 < probe[p].token /\ Settles(probe[p].token, Wall(p), probe[p].at)

(* What the rings hold is proved. *)
Proven ==
    \A p \in Pod : \A i \in 1..Len(ring[p]) :
        0 < ring[p][i].token /\ Settles(ring[p][i].token, ring[p][i].wall, ring[p][i].at)

(* Tokens and epochs stay below some number. *)
BeatsBelow(s, n) ==
    \A i \in 1..Len(s) : s[i].k = "beat" => s[i].token <= n /\ s[i].epoch <= n

Bounded ==
    \E n \in Nat \ {0} :
        /\ BeatsBelow(log, n)
        /\ \A r \in Reader : BeatsBelow(view[r], n)
        /\ \A p \in Pod : ringEpoch[p] <= n /\ probe[p].epoch <= n

-----------------------------------------------------------------------------
(* Greatest and least numbers, sequences of commits.                       *)

LEMMA Smallest ==
    ASSUME NEW S, S \subseteq Nat, S # {}
    PROVE  Min(S) \in S /\ \A x \in S : Min(S) <= x
<1>1. PICK i \in S : \A j \in S : ~(<<j, i>> \in OpToRel(<, Nat))
  BY NatLessThanWellFounded, WFMin
<1>2. \A j, k \in Nat : j < k => <<j, k>> \in OpToRel(<, Nat)
  BY DEF OpToRel
<1>3. \A j \in S : i <= j
  <2>1. SUFFICES ASSUME NEW j \in S PROVE i <= j
    OBVIOUS
  <2>2. ~(j < i)
    BY <1>1, <1>2
  <2>3. QED
    BY <2>2
<1>4. QED
  BY <1>3 DEF Min

LEMMA Greatest ==
    ASSUME NEW S, S \subseteq Nat, S # {}, NEW n \in Nat, \A x \in S : x <= n
    PROVE  Max(S) \in S /\ (\A x \in S : x <= Max(S)) /\ Max(S) <= n
<1> DEFINE U == {u \in Nat : \A x \in S : x <= u}
           m == Min(U)
<1>1. m \in U /\ \A u \in U : m <= u
  BY Smallest
<1> HIDE DEF m
<1>2. m \in S
  <2>1. SUFFICES ASSUME m \notin S PROVE FALSE
    OBVIOUS
  <2>2. PICK y \in S : TRUE
    OBVIOUS
  <2>3. \A x \in S : x < m
    BY <1>1, <2>1
  <2>4. m - 1 \in Nat /\ \A x \in S : x <= m - 1
    BY <1>1, <2>2, <2>3
  <2>5. QED
    BY <1>1, <2>4
<1>3. \E x \in S : \A y \in S : x >= y
  BY <1>1, <1>2
<1>4. Max(S) \in S /\ \A y \in S : Max(S) >= y
  BY <1>3 DEF Max
<1>5. QED
  BY <1>4

(* The token and the epoch a snapshot shows are the greatest of its beats. *)
LEMMA Shown ==
    ASSUME NEW s \in Seq(Commits), NEW n \in Nat \ {0}, BeatsBelow(s, n)
    PROVE  /\ Token(s) \in Nat /\ Epoch(s) \in Nat /\ Token(s) <= n /\ Epoch(s) <= n
           /\ 1 <= Epoch(s)
           /\ \A i \in 1..Len(s) :
                 s[i].k = "beat" => s[i].token <= Token(s) /\ s[i].epoch <= Epoch(s)
           /\ Epoch(s) = 1 \/ \E i \in 1..Len(s) : s[i].k = "beat" /\ s[i].epoch = Epoch(s)
           /\ 0 < Token(s) =>
                 \E i \in 1..Len(s) : s[i].k = "beat" /\ s[i].token = Token(s)
<1>1. \A c \in Beats(s) : \E i \in 1..Len(s) : c = s[i] /\ s[i].k = "beat"
  BY DEF Beats, Range
<1>2. \A i \in 1..Len(s) : s[i].k = "beat" => s[i] \in Beats(s)
  BY DEF Beats, Range
<1>3. \A i \in 1..Len(s) : s[i].k = "beat" =>
         s[i].token \in Nat /\ s[i].epoch \in Nat /\ s[i].token <= n /\ s[i].epoch <= n
  BY DEF BeatsBelow, Commits
<1> DEFINE T == {0} \cup {c.token : c \in Beats(s)}
           E == {1} \cup {c.epoch : c \in Beats(s)}
<1>4. /\ T \subseteq Nat /\ T # {} /\ \A x \in T : x <= n
      /\ E \subseteq Nat /\ E # {} /\ \A x \in E : x <= n
  BY <1>1, <1>3
<1>5. /\ Token(s) \in T /\ (\A x \in T : x <= Token(s)) /\ Token(s) <= n
      /\ Epoch(s) \in E /\ (\A x \in E : x <= Epoch(s)) /\ Epoch(s) <= n
  <2> HIDE DEF T, E
  <2>1. /\ Max(T) \in T /\ (\A x \in T : x <= Max(T)) /\ Max(T) <= n
        /\ Max(E) \in E /\ (\A x \in E : x <= Max(E)) /\ Max(E) <= n
    BY <1>4, Greatest
  <2>2. Token(s) = Max(T) /\ Epoch(s) = Max(E)
    BY DEF Token, Epoch, T, E
  <2>3. QED
    BY <2>1, <2>2
<1>6. 1 \in E /\ \A i \in 1..Len(s) : s[i].k = "beat" => s[i].token \in T /\ s[i].epoch \in E
  BY <1>2
<1>7. /\ 0 < Token(s) => \E c \in Beats(s) : Token(s) = c.token
      /\ Epoch(s) = 1 \/ \E c \in Beats(s) : Epoch(s) = c.epoch
  BY <1>5
<1> HIDE DEF T, E
<1>8. Token(s) \in Nat /\ Epoch(s) \in Nat /\ Token(s) <= n /\ Epoch(s) <= n /\ 1 <= Epoch(s)
  BY <1>4, <1>5, <1>6
<1>9. \A i \in 1..Len(s) :
         s[i].k = "beat" => s[i].token <= Token(s) /\ s[i].epoch <= Epoch(s)
  BY <1>5, <1>6
<1>10. Epoch(s) = 1 \/ \E i \in 1..Len(s) : s[i].k = "beat" /\ s[i].epoch = Epoch(s)
  BY <1>1, <1>7
<1>11. 0 < Token(s) => \E i \in 1..Len(s) : s[i].k = "beat" /\ s[i].token = Token(s)
  BY <1>1, <1>7
<1>12. QED
  BY <1>8, <1>9, <1>10, <1>11

LEMMA BelowMore ==
    ASSUME NEW s \in Seq(Commits), NEW n \in Nat, NEW m \in Nat, n <= m, BeatsBelow(s, n)
    PROVE  BeatsBelow(s, m)
<1>1. \A i \in 1..Len(s) : s[i].k = "beat" => s[i].token \in Nat /\ s[i].epoch \in Nat
  BY DEF Commits
<1>2. QED
  BY <1>1 DEF BeatsBelow

LEMMA Appended ==
    ASSUME NEW s \in Seq(Commits), NEW c \in Commits
    PROVE  /\ Append(s, c) \in Seq(Commits) /\ Len(Append(s, c)) = Len(s) + 1
           /\ \A i \in 1..Len(s) : Append(s, c)[i] = s[i]
           /\ Append(s, c)[Len(s) + 1] = c
OBVIOUS

LEMMA Cut ==
    ASSUME NEW s \in Seq(Commits), NEW n \in 0..Len(s)
    PROVE  /\ SubSeq(s, 1, n) \in Seq(Commits) /\ Len(SubSeq(s, 1, n)) = n
           /\ \A i \in 1..n : SubSeq(s, 1, n)[i] = s[i]
OBVIOUS

-----------------------------------------------------------------------------
(* Types.                                                                  *)

Below(n) ==
    /\ BeatsBelow(log, n)
    /\ \A r \in Reader : BeatsBelow(view[r], n)
    /\ \A p \in Pod : ringEpoch[p] <= n /\ probe[p].epoch <= n

LEMMA FreshIsNew ==
    ASSUME TypeOK, NEW n \in Nat \ {0}, Below(n)
    PROVE  /\ FreshEpoch \in Nat /\ FreshEpoch <= n + 1 /\ 1 < FreshEpoch
           /\ Epoch(log) < FreshEpoch /\ \A r \in Reader : Epoch(view[r]) < FreshEpoch
<1> DEFINE S == {Epoch(log)} \cup {ringEpoch[p] : p \in Pod} \cup {Epoch(view[r]) : r \in Reader}
<1>1. /\ Epoch(log) \in Nat /\ Epoch(log) <= n /\ 1 <= Epoch(log)
      /\ \A r \in Reader : Epoch(view[r]) \in Nat /\ Epoch(view[r]) <= n
      /\ \A p \in Pod : ringEpoch[p] \in Nat /\ ringEpoch[p] <= n
  BY Shown DEF TypeOK, Below
<1>2. /\ S \subseteq Nat /\ S # {} /\ Epoch(log) \in S /\ \A x \in S : x <= n
      /\ \A r \in Reader : Epoch(view[r]) \in S
  BY <1>1
<1> HIDE DEF S
<1>3. /\ Max(S) \in Nat /\ Max(S) <= n /\ Epoch(log) <= Max(S)
      /\ \A r \in Reader : Epoch(view[r]) <= Max(S)
  BY <1>2, Greatest
<1>4. FreshEpoch = 1 + Max(S)
  BY DEF FreshEpoch, S
<1>5. QED
  BY <1>1, <1>3, <1>4

LEMMA SoundInit == Init => TypeOK /\ Bounded
<1> SUFFICES ASSUME Init PROVE TypeOK /\ Bounded
  OBVIOUS
<1>1. Quiet \in Transactions /\ Resting \in Probings
  BY DEF Quiet, Transactions, Resting, Probings, NoEpoch
<1>2. /\ now = 0 /\ log = <<>> /\ tx \in [Tx -> Transactions] /\ probe \in [Pod -> Probings]
      /\ ring \in [Pod -> Seq(Entries)] /\ \A p \in Pod : ring[p] = <<>>
      /\ ringEpoch \in [Pod -> Nat] /\ view \in [Reader -> Seq(Commits)]
      /\ written = 0 /\ failures = 0 /\ rewinds = 0 /\ restore = "none"
  BY <1>1 DEF Init, NoEpoch
<1>3. TypeOK
  BY <1>2, FenceAssumption DEF TypeOK
<1>4. /\ \A p \in Pod : ringEpoch[p] = 0 /\ probe[p].epoch = 0
      /\ log = <<>> /\ \A r \in Reader : view[r] = <<>>
  BY DEF Init, Resting, NoEpoch
<1>5. Below(1)
  BY <1>4 DEF Below, BeatsBelow
<1>6. QED
  BY <1>3, <1>5 DEF Bounded, Below

(* What a writing session does to itself. *)
LEMMA WriterTypes ==
    ASSUME TypeOK, NEW t \in Tx
    PROVE  /\ (\E stamp \in 0..now : TxBegin(t, stamp)) =>
                 \E x \in Transactions :
                    /\ tx' = [tx EXCEPT ![t] = x] /\ x.pc = "open"
                    /\ x.start = now /\ x.guard <= now
                    /\ UNCHANGED <<now, log, probe, ring, ringEpoch, view, restore, rewinds>>
                    /\ written' \in Nat /\ failures' \in Nat
           /\ (\E next \in {"committing", "preparing"} : TxGuard(t, next)) =>
                 \E x \in Transactions :
                    /\ tx' = [tx EXCEPT ![t] = x] /\ x.pc \in {"committing", "preparing"}
                    /\ x.start = tx[t].start /\ x.guard = now /\ now - Floor <= x.stamp
                    /\ UNCHANGED <<now, log, probe, ring, ringEpoch, view, restore, rewinds>>
                    /\ written' \in Nat /\ failures' \in Nat
           /\ TxAborts(t) =>
                    /\ tx' = [tx EXCEPT ![t] = Quiet]
                    /\ UNCHANGED <<now, log, probe, ring, ringEpoch, view, restore, rewinds>>
                    /\ written' \in Nat /\ failures' \in Nat
           /\ TxPrepare(t) =>
                 \E x \in Transactions :
                    /\ tx' = [tx EXCEPT ![t] = x] /\ x.pc = "prepared" /\ tx[t].pc = "preparing"
                    /\ x.start = now /\ x.guard = tx[t].guard /\ x.stamp = tx[t].stamp
                    /\ UNCHANGED <<now, log, probe, ring, ringEpoch, view, restore, rewinds>>
                    /\ written' \in Nat /\ failures' \in Nat
           /\ TxCommit(t) =>
                 \E c \in Commits :
                    /\ tx' = [tx EXCEPT ![t] = Quiet] /\ tx[t].pc \in {"committing", "prepared"}
                    /\ log' = Append(log, c)
                    /\ c.k = "row" /\ c.stamp = tx[t].stamp /\ c.at = now
                    /\ UNCHANGED <<now, probe, ring, ringEpoch, view, restore, rewinds>>
                    /\ written' \in Nat /\ failures' \in Nat
<1> USE DEF fenceVars, budgetVars
<1>t. /\ tx \in [Tx -> Transactions] /\ tx[t] \in Transactions /\ now \in Nat
      /\ written \in Nat /\ failures \in Nat /\ rewinds \in Nat
  BY DEF TypeOK
<1>1. ASSUME NEW stamp \in 0..now, TxBegin(t, stamp)
      PROVE  \E x \in Transactions :
                /\ tx' = [tx EXCEPT ![t] = x] /\ x.pc = "open"
                /\ x.start = now /\ x.guard <= now
                /\ UNCHANGED <<now, log, probe, ring, ringEpoch, view, restore, rewinds>>
                /\ written' \in Nat /\ failures' \in Nat
  <2> DEFINE x == [Quiet EXCEPT !.pc = "open", !.start = now, !.stamp = stamp]
  <2>1. Quiet \in Transactions /\ Quiet.guard = 0
    BY DEF Quiet, Transactions
  <2>a. stamp \in Nat
    BY <1>t
  <2>b. x \in Transactions /\ x.pc = "open" /\ x.start = now /\ x.guard = Quiet.guard
    BY <1>t, <2>1, <2>a DEF Transactions
  <2>2. x \in Transactions /\ x.pc = "open" /\ x.start = now /\ x.guard <= now
    BY <1>t, <2>1, <2>b
  <2>3. /\ tx' = [tx EXCEPT ![t] = x]
        /\ UNCHANGED <<now, log, probe, ring, ringEpoch, view, restore, rewinds>>
        /\ written' \in Nat /\ failures' \in Nat
    BY <1>1, <1>t DEF TxBegin
  <2> HIDE DEF x
  <2>4. QED
    BY <2>2, <2>3
<1>2. ASSUME NEW next \in {"committing", "preparing"}, TxGuard(t, next)
      PROVE  \E x \in Transactions :
                /\ tx' = [tx EXCEPT ![t] = x] /\ x.pc \in {"committing", "preparing"}
                /\ x.start = tx[t].start /\ x.guard = now /\ now - Floor <= x.stamp
                /\ UNCHANGED <<now, log, probe, ring, ringEpoch, view, restore, rewinds>>
                /\ written' \in Nat /\ failures' \in Nat
  <2> DEFINE x == [tx[t] EXCEPT !.pc = next, !.guard = now]
  <2>1. /\ x \in Transactions /\ x.pc = next /\ x.start = tx[t].start /\ x.guard = now
        /\ x.stamp = tx[t].stamp
    BY <1>t DEF Transactions
  <2>2. /\ tx' = [tx EXCEPT ![t] = x] /\ tx[t].stamp >= now - Floor
        /\ UNCHANGED <<now, log, probe, ring, ringEpoch, view, restore, rewinds>>
        /\ written' \in Nat /\ failures' \in Nat
    BY <1>2, <1>t DEF TxGuard
  <2>3. now - Floor <= tx[t].stamp
    BY <1>t, <2>2, FenceAssumption DEF Transactions
  <2> HIDE DEF x
  <2>4. QED
    BY <2>1, <2>2, <2>3
<1>3. ASSUME TxPrepare(t)
      PROVE  \E x \in Transactions :
                /\ tx' = [tx EXCEPT ![t] = x] /\ x.pc = "prepared" /\ tx[t].pc = "preparing"
                /\ x.start = now /\ x.guard = tx[t].guard /\ x.stamp = tx[t].stamp
                /\ UNCHANGED <<now, log, probe, ring, ringEpoch, view, restore, rewinds>>
                /\ written' \in Nat /\ failures' \in Nat
  <2> DEFINE x == [tx[t] EXCEPT !.pc = "prepared", !.start = now]
  <2>1. /\ x \in Transactions /\ x.pc = "prepared" /\ x.start = now /\ x.guard = tx[t].guard
        /\ x.stamp = tx[t].stamp
    BY <1>t DEF Transactions
  <2>2. /\ tx' = [tx EXCEPT ![t] = x] /\ tx[t].pc = "preparing"
        /\ UNCHANGED <<now, log, probe, ring, ringEpoch, view, restore, rewinds>>
        /\ written' \in Nat /\ failures' \in Nat
    BY <1>3, <1>t DEF TxPrepare
  <2> HIDE DEF x
  <2>3. QED
    BY <2>1, <2>2
<1>4. ASSUME TxCommit(t)
      PROVE  \E c \in Commits :
                /\ tx' = [tx EXCEPT ![t] = Quiet] /\ tx[t].pc \in {"committing", "prepared"}
                /\ log' = Append(log, c)
                /\ c.k = "row" /\ c.stamp = tx[t].stamp /\ c.at = now
                /\ UNCHANGED <<now, probe, ring, ringEpoch, view, restore, rewinds>>
                /\ written' \in Nat /\ failures' \in Nat
  <2> DEFINE c == Row(tx[t].stamp)
  <2>1. c \in Commits /\ c.k = "row" /\ c.stamp = tx[t].stamp /\ c.at = now
    BY <1>t DEF Row, Commits, Transactions
  <2>2. /\ tx' = [tx EXCEPT ![t] = Quiet] /\ tx[t].pc \in {"committing", "prepared"}
        /\ log' = Append(log, c)
        /\ UNCHANGED <<now, probe, ring, ringEpoch, view, restore, rewinds>>
        /\ written' \in Nat /\ failures' \in Nat
    BY <1>4, <1>t DEF TxCommit
  <2> HIDE DEF c
  <2>3. QED
    BY <2>1, <2>2
<1>5. TxAborts(t) =>
         /\ tx' = [tx EXCEPT ![t] = Quiet]
         /\ UNCHANGED <<now, log, probe, ring, ringEpoch, view, restore, rewinds>>
         /\ written' \in Nat /\ failures' \in Nat
  BY <1>t DEF TxAborts
<1>6. QED
  BY <1>1, <1>2, <1>3, <1>4, <1>5

(* What a step of a probe does: to the probe alone, with a token added to   *)
(* the log, or with an entry added to the ring.                             *)
Scans(p, x) ==
    /\ probe' = [probe EXCEPT ![p] = x] /\ x.epoch = probe[p].epoch
    /\ UNCHANGED <<now, log, tx, ring, ringEpoch, view, restore, rewinds>>
    /\ \/ probe[p].pc = "idle" /\ x.pc = "sampled" /\ x.lower = now
       \/ /\ probe[p].pc = "sampled" /\ x.pc = "scanned" /\ x.lower <= probe[p].lower
          /\ \A t \in Open : x.lower <= tx[t].start
       \/ /\ probe[p].pc = "scanned" /\ x.pc = "swept" /\ x.lower <= probe[p].lower
          /\ \A t \in Prepared : x.lower <= tx[t].start
          /\ x.at = now

SendsToken(p, x, c) ==
    /\ probe' = [probe EXCEPT ![p] = x]
    /\ \/ probe[p].pc = "swept" /\ x.pc = "beaten" /\ c.epoch = Epoch(log)
       \/ probe[p].pc = "regressed" /\ x.pc = "rotated" /\ c.epoch = FreshEpoch
    /\ x.lower = probe[p].lower /\ x.at = probe[p].at
    /\ x.token = Token(log) + 1 /\ x.epoch = c.epoch
    /\ c.k = "beat" /\ c.token = Token(log) + 1
    /\ log' = Append(log, c)
    /\ restore' \in {"none", "unseen", "missed"} /\ (restore = "missed" => restore' = "missed")
    /\ restore' = "none" => restore = "none" \/ x.pc = "rotated"
    /\ x.pc = "beaten" /\ restore = "unseen" => restore' = "missed" \/ Remembers(p, log)
    /\ UNCHANGED <<now, tx, ring, ringEpoch, view, rewinds>>

Records(p) ==
    /\ probe[p].pc \in {"beaten", "rotated"} /\ ~Regressed(p)
    /\ probe' = [probe EXCEPT ![p] = Resting]
    /\ ring' = [ring EXCEPT ![p] = Pushed(IF NewEpoch(p) THEN <<>> ELSE ring[p], Entry(p))]
    /\ ringEpoch' = [ringEpoch EXCEPT ![p] = probe[p].epoch]
    /\ UNCHANGED <<now, log, tx, view, restore, rewinds>>

Empties(p, x) ==
    /\ probe' = [probe EXCEPT ![p] = x]
    /\ ring' = [ring EXCEPT ![p] = <<>>]
    /\ x.epoch \in {NoEpoch, probe[p].epoch}
    /\ ringEpoch' = ringEpoch \/ ringEpoch' = [ringEpoch EXCEPT ![p] = NoEpoch]
    /\ \/ x.pc = "idle"
       \/ /\ probe[p].pc = "beaten" /\ Regressed(p) /\ x.pc = "regressed"
          /\ x.lower = probe[p].lower /\ x.at = now
    /\ UNCHANGED <<now, log, tx, view, restore, rewinds>>

LEMMA LowerBound ==
    ASSUME TypeOK, NEW p \in Pod, NEW T \in SUBSET Tx
    PROVE  /\ Lower(p, T) \in Nat /\ Lower(p, T) <= probe[p].lower
           /\ \A t \in T : Lower(p, T) <= tx[t].start
<1> DEFINE S == {probe[p].lower} \cup {tx[t].start : t \in T}
<1>1. probe[p].lower \in Nat /\ \A t \in T : tx[t].start \in Nat
  BY DEF TypeOK, Probings, Transactions
<1>2. S \subseteq Nat /\ S # {}
  BY <1>1
<1>3. probe[p].lower \in S /\ \A t \in T : tx[t].start \in S
  OBVIOUS
<1> HIDE DEF S
<1>4. Min(S) \in S /\ \A x \in S : Min(S) <= x
  BY <1>2, Smallest
<1>5. Lower(p, T) = Min(S)
  BY DEF Lower, S
<1>6. QED
  BY <1>2, <1>3, <1>4, <1>5

LEMMA ProbeTypes ==
    ASSUME TypeOK, Bounded, NEW p \in Pod
    PROVE  /\ ProbeSample(p) \/ ScanActivity(p) \/ ScanPrepared(p) =>
                 \E x \in Probings : Scans(p, x) /\ UNCHANGED <<written, failures>>
           /\ CommitToken(p) \/ RotateEpoch(p) =>
                 \E x \in Probings, c \in Commits : SendsToken(p, x, c) /\ UNCHANGED <<written, failures>>
           /\ Record(p) => Records(p) /\ UNCHANGED <<written, failures>>
           /\ NoticeRegression(p) \/ ProbeFails(p) \/ PodRestarts(p) =>
                 \E x \in Probings : Empties(p, x) /\ written' = written /\ failures' \in Nat
<1> USE DEF fenceVars, budgetVars
<1>t. /\ probe \in [Pod -> Probings] /\ probe[p] \in Probings /\ now \in Nat /\ failures \in Nat
      /\ rewinds \in Nat
  BY DEF TypeOK
<1>1. ASSUME ProbeSample(p)
      PROVE  \E x \in Probings : Scans(p, x) /\ UNCHANGED <<written, failures>>
  <2> DEFINE x == [probe[p] EXCEPT !.pc = "sampled", !.lower = now]
  <2>1. x \in Probings /\ x.pc = "sampled" /\ x.lower = now /\ x.epoch = probe[p].epoch
    BY <1>t DEF Probings
  <2>2. /\ probe' = [probe EXCEPT ![p] = x] /\ probe[p].pc = "idle"
        /\ UNCHANGED <<now, log, tx, ring, ringEpoch, view, written, failures, restore, rewinds>>
    BY <1>1, <1>t DEF ProbeSample
  <2> HIDE DEF x
  <2>3. QED
    BY <2>1, <2>2 DEF Scans
<1>2. ASSUME ScanActivity(p)
      PROVE  \E x \in Probings : Scans(p, x) /\ UNCHANGED <<written, failures>>
  <2> DEFINE l == Lower(p, Open)
             x == [probe[p] EXCEPT !.pc = "scanned", !.lower = l]
  <2>1. Open \in SUBSET Tx
    BY DEF Open
  <2>2. l \in Nat /\ l <= probe[p].lower /\ \A t \in Open : l <= tx[t].start
    BY <2>1, LowerBound
  <2>3. /\ probe' = [probe EXCEPT ![p] = x] /\ probe[p].pc = "sampled"
        /\ UNCHANGED <<now, log, tx, ring, ringEpoch, view, written, failures, restore, rewinds>>
    BY <1>2, <1>t DEF ScanActivity
  <2> HIDE DEF l
  <2>4. x \in Probings /\ x.pc = "scanned" /\ x.lower = l /\ x.epoch = probe[p].epoch
    BY <1>t, <2>2 DEF Probings
  <2> HIDE DEF x
  <2>5. QED
    BY <2>2, <2>3, <2>4 DEF Scans
<1>3. ASSUME ScanPrepared(p)
      PROVE  \E x \in Probings : Scans(p, x) /\ UNCHANGED <<written, failures>>
  <2> DEFINE l == Lower(p, Prepared)
             x == [probe[p] EXCEPT !.pc = "swept", !.lower = l, !.at = now]
  <2>1. Prepared \in SUBSET Tx
    BY DEF Prepared
  <2>2. l \in Nat /\ l <= probe[p].lower /\ \A t \in Prepared : l <= tx[t].start
    BY <2>1, LowerBound
  <2>3. /\ probe' = [probe EXCEPT ![p] = x] /\ probe[p].pc = "scanned"
        /\ UNCHANGED <<now, log, tx, ring, ringEpoch, view, written, failures, restore, rewinds>>
    BY <1>3, <1>t DEF ScanPrepared
  <2> HIDE DEF l
  <2>4. x \in Probings /\ x.pc = "swept" /\ x.lower = l /\ x.at = now /\ x.epoch = probe[p].epoch
    BY <1>t, <2>2 DEF Probings
  <2> HIDE DEF x
  <2>5. QED
    BY <2>2, <2>3, <2>4 DEF Scans
<1>4. PICK n \in Nat \ {0} : Below(n)
  BY DEF Bounded, Below
<1>5. Token(log) + 1 \in Nat /\ Epoch(log) \in Nat /\ FreshEpoch \in Nat
  <2>1. log \in Seq(Commits) /\ BeatsBelow(log, n)
    BY <1>4 DEF TypeOK, Below
  <2>2. Token(log) \in Nat /\ Epoch(log) \in Nat
    BY <2>1, Shown
  <2>3. FreshEpoch \in Nat
    BY <1>4, FreshIsNew
  <2>4. QED
    BY <2>2, <2>3
<1>s. restore \in {"none", "unseen", "missed"}
  BY DEF TypeOK
<1>a. ASSUME NEW g \in {Epoch(log), FreshEpoch}, NEW pc \in {"beaten", "rotated"},
             \/ probe[p].pc = "swept" /\ pc = "beaten" /\ g = Epoch(log)
             \/ probe[p].pc = "regressed" /\ pc = "rotated" /\ g = FreshEpoch,
             log' = Append(log, Beat(Token(log) + 1, g)),
             probe' = [probe EXCEPT ![p] =
                          [probe[p] EXCEPT !.pc = pc, !.token = Token(log) + 1, !.epoch = g]],
             restore' \in {"none", "unseen", "missed"}, restore = "missed" => restore' = "missed",
             restore' = "none" => restore = "none" \/ pc = "rotated",
             pc = "beaten" /\ restore = "unseen" => restore' = "missed" \/ Remembers(p, log),
             UNCHANGED <<now, tx, ring, ringEpoch, view, written, failures, rewinds>>
      PROVE  \E x \in Probings, c \in Commits : SendsToken(p, x, c) /\ UNCHANGED <<written, failures>>
  <2> DEFINE k == Token(log) + 1
             c == Beat(k, g)
             x == [probe[p] EXCEPT !.pc = pc, !.token = k, !.epoch = g]
  <2>3. k \in Nat /\ k = Token(log) + 1 /\ g \in Nat
    BY <1>5
  <2>4. log' = Append(log, c) /\ probe' = [probe EXCEPT ![p] = x]
    BY <1>a
  <2> HIDE DEF k
  <2>5. c \in Commits /\ c.k = "beat" /\ c.token = k /\ c.epoch = g
    BY <1>t, <2>3 DEF Beat, Commits
  <2>6. /\ x \in Probings /\ x.pc = pc /\ x.lower = probe[p].lower /\ x.at = probe[p].at
        /\ x.token = k /\ x.epoch = g
    BY <1>t, <2>3 DEF Probings
  <2> HIDE DEF c, x
  <2>7. SendsToken(p, x, c)
    BY <1>a, <2>3, <2>4, <2>5, <2>6 DEF SendsToken
  <2>8. QED
    BY <1>a, <2>5, <2>6, <2>7
<1>6. ASSUME CommitToken(p) \/ RotateEpoch(p)
      PROVE  \E x \in Probings, c \in Commits : SendsToken(p, x, c) /\ UNCHANGED <<written, failures>>
  <2>1. CASE CommitToken(p)
    <3>1. /\ probe[p].pc = "swept"
          /\ log' = Append(log, Beat(Token(log) + 1, Epoch(log)))
          /\ probe' = [probe EXCEPT ![p] = [probe[p] EXCEPT !.pc = "beaten",
                          !.token = Token(log) + 1, !.epoch = Epoch(log)]]
          /\ restore' = IF restore = "unseen" /\ ~Remembers(p, log) THEN "missed" ELSE restore
          /\ UNCHANGED <<now, tx, ring, ringEpoch, view, written, failures, rewinds>>
      BY <2>1, <1>t DEF CommitToken
    <3>2. QED
      BY <1>a, <1>s, <3>1
  <2>2. CASE RotateEpoch(p)
    <3>1. /\ probe[p].pc = "regressed"
          /\ log' = Append(log, Beat(Token(log) + 1, FreshEpoch))
          /\ probe' = [probe EXCEPT ![p] = [probe[p] EXCEPT !.pc = "rotated",
                          !.token = Token(log) + 1, !.epoch = FreshEpoch]]
          /\ restore' = IF restore = "unseen" THEN "none" ELSE restore
          /\ UNCHANGED <<now, tx, ring, ringEpoch, view, written, failures, rewinds>>
      BY <2>2, <1>t DEF RotateEpoch
    <3>2. QED
      BY <1>a, <1>s, <3>1
  <2>3. QED
    BY <1>6, <2>1, <2>2
<1>7. Record(p) => Records(p) /\ UNCHANGED <<written, failures>>
  BY <1>t DEF Record, Records, TypeOK
<1>8. ASSUME NoticeRegression(p)
      PROVE  \E x \in Probings : Empties(p, x) /\ written' = written /\ failures' \in Nat
  <2> DEFINE x == [probe[p] EXCEPT !.pc = "regressed", !.at = now]
  <2>1. /\ x \in Probings /\ x.pc = "regressed" /\ x.at = now /\ x.lower = probe[p].lower
        /\ x.epoch = probe[p].epoch
    BY <1>t DEF Probings
  <2>2. /\ probe' = [probe EXCEPT ![p] = x] /\ probe[p].pc = "beaten" /\ Regressed(p)
        /\ ring' = [ring EXCEPT ![p] = <<>>]
        /\ UNCHANGED <<now, log, tx, ringEpoch, view, written, failures, restore, rewinds>>
    BY <1>8, <1>t DEF NoticeRegression
  <2> HIDE DEF x
  <2>3. QED
    BY <1>t, <2>1, <2>2 DEF Empties
<1>9. ASSUME ProbeFails(p) \/ PodRestarts(p)
      PROVE  \E x \in Probings : Empties(p, x) /\ written' = written /\ failures' \in Nat
  <2>1. Resting \in Probings /\ Resting.pc = "idle" /\ Resting.epoch = NoEpoch
    BY DEF Resting, Probings, NoEpoch
  <2>2. /\ probe' = [probe EXCEPT ![p] = Resting] /\ ring' = [ring EXCEPT ![p] = <<>>]
        /\ ringEpoch' = ringEpoch \/ ringEpoch' = [ringEpoch EXCEPT ![p] = NoEpoch]
        /\ UNCHANGED <<now, log, tx, view, restore, written, rewinds>> /\ failures' \in Nat
    BY <1>9, <1>t DEF ProbeFails, PodRestarts, MayFail
  <2>3. QED
    BY <2>1, <2>2 DEF Empties
<1>10. QED
  BY <1>1, <1>2, <1>3, <1>6, <1>7, <1>8, <1>9

(* Steps of the writing sessions. *)
Begins(t, x) ==
    /\ tx' = [tx EXCEPT ![t] = x] /\ x.start <= now /\ x.guard <= now
    /\ \/ x.pc = "open"
       \/ x.pc = "idle"
       \/ /\ x.pc \in {"committing", "preparing"} /\ x.start <= now /\ x.guard = now
          /\ now - Floor <= x.stamp
       \/ /\ tx[t].pc = "preparing" /\ x.pc = "prepared" /\ x.start = now
          /\ x.guard = tx[t].guard /\ x.stamp = tx[t].stamp
    /\ UNCHANGED <<now, log, probe, ring, ringEpoch, view, restore, rewinds>>

Writes(t, c) ==
    /\ tx' = [tx EXCEPT ![t] = Quiet] /\ tx[t].pc \in Deciding
    /\ c.k = "row" /\ c.stamp = tx[t].stamp /\ c.at = now
    /\ log' = Append(log, c)
    /\ UNCHANGED <<now, probe, ring, ringEpoch, view, restore, rewinds>>

(* Replicas follow the log, or what it is cut to. *)
Replicates ==
    /\ \A r \in Reader : view'[r] = view[r] \/ \E n \in 0..Len(log) : view'[r] = SubSeq(log, 1, n)
    /\ UNCHANGED <<now, log, tx, probe, ring, ringEpoch, restore, rewinds>>

Cuts(n) ==
    /\ log' = SubSeq(log, 1, n)
    /\ rewinds < MaxRewinds /\ rewinds' = rewinds + 1
    /\ restore' = IF restore = "missed" THEN restore ELSE "unseen"
    /\ \A t \in Tx : tx'[t] = Quiet
    /\ \A p \in Pod : probe'[p] = Resting
    /\ ring' = [p \in Pod |-> IF probe[p].pc = "idle" THEN ring[p] ELSE <<>>]
    /\ UNCHANGED <<now, ringEpoch, view>>

Ticks ==
    /\ now' = now + 1
    /\ \A t \in Tx : tx[t].pc = "preparing" => now + 1 < tx[t].guard + Margin
    /\ UNCHANGED <<log, tx, probe, ring, ringEpoch, view, restore, rewinds>>

Effect ==
    \/ Ticks
    \/ \E t \in Tx, x \in Transactions : Begins(t, x)
    \/ \E t \in Tx, c \in Commits : Writes(t, c)
    \/ \E p \in Pod, x \in Probings : Scans(p, x)
    \/ \E p \in Pod, x \in Probings, c \in Commits : SendsToken(p, x, c)
    \/ \E p \in Pod : Records(p)
    \/ \E p \in Pod, x \in Probings : Empties(p, x)
    \/ Replicates
    \/ \E n \in 0..Len(log) : Cuts(n)

Typed ==
    /\ view' \in [Reader -> Seq(Commits)] /\ tx' \in [Tx -> Transactions]
    /\ probe' \in [Pod -> Probings] /\ log' \in Seq(Commits)
    /\ ringEpoch' \in [Pod -> Nat] /\ now' \in Nat
    /\ {written', failures', rewinds'} \subseteq Nat /\ restore' \in {"none", "unseen", "missed"}

LEMMA StepEffect ==
    ASSUME TypeOK, Bounded, Guarded, [Next]_vars
    PROVE  Effect /\ Typed
<1> USE DEF fenceVars, budgetVars
<1>t. /\ tx \in [Tx -> Transactions] /\ probe \in [Pod -> Probings] /\ now \in Nat
      /\ log \in Seq(Commits) /\ view \in [Reader -> Seq(Commits)] /\ ringEpoch \in [Pod -> Nat]
      /\ written \in Nat /\ failures \in Nat /\ rewinds \in Nat
      /\ restore \in {"none", "unseen", "missed"}
      /\ Quiet \in Transactions /\ Resting \in Probings /\ NoEpoch \in Nat
  BY DEF TypeOK, Quiet, Transactions, Resting, Probings, NoEpoch
<1>q. Quiet.pc = "idle" /\ Quiet.start = 0 /\ Quiet.guard = 0
  BY DEF Quiet
<1>1. CASE TimePasses
  <2>1. /\ now' = now + 1 /\ \A t \in Tx : tx[t].pc = "preparing" => now + 1 < tx[t].guard + Margin
        /\ UNCHANGED <<log, tx, probe, ring, ringEpoch, view, written, failures, restore, rewinds>>
    BY <1>1 DEF TimePasses
  <2>2. QED
    BY <1>t, <2>1 DEF Effect, Ticks, Typed
<1>2. ASSUME NEW t \in Tx, NEW x \in Transactions, Begins(t, x), written' \in Nat, failures' \in Nat
      PROVE  Effect /\ Typed
  <2>1. tx' \in [Tx -> Transactions]
    BY <1>2, <1>t DEF Begins
  <2>2. UNCHANGED <<now, log, probe, ring, ringEpoch, view, restore, rewinds>>
    BY <1>2 DEF Begins
  <2>3. QED
    BY <1>2, <1>t, <2>1, <2>2 DEF Effect, Typed
<1>3. CASE Writers
  <2>1. PICK t \in Tx : \/ \E stamp \in 0..now : TxBegin(t, stamp)
                        \/ \E next \in {"committing", "preparing"} : TxGuard(t, next)
                        \/ TxAborts(t) \/ TxCommit(t) \/ TxPrepare(t)
    BY <1>3 DEF Writers
  <2>g. tx[t].start <= now /\ tx[t].guard <= now
    BY DEF Guarded
  <2>2. CASE \E stamp \in 0..now : TxBegin(t, stamp)
    <3>1. PICK x \in Transactions :
             /\ tx' = [tx EXCEPT ![t] = x] /\ x.pc = "open" /\ x.start = now /\ x.guard <= now
             /\ UNCHANGED <<now, log, probe, ring, ringEpoch, view, restore, rewinds>>
             /\ written' \in Nat /\ failures' \in Nat
      BY <2>2, WriterTypes
    <3>2. Begins(t, x)
      BY <1>t, <3>1 DEF Begins
    <3>3. QED
      BY <1>2, <3>1, <3>2
  <2>3. CASE \E next \in {"committing", "preparing"} : TxGuard(t, next)
    <3>1. PICK x \in Transactions :
             /\ tx' = [tx EXCEPT ![t] = x] /\ x.pc \in {"committing", "preparing"}
             /\ x.start = tx[t].start /\ x.guard = now /\ now - Floor <= x.stamp
             /\ UNCHANGED <<now, log, probe, ring, ringEpoch, view, restore, rewinds>>
             /\ written' \in Nat /\ failures' \in Nat
      BY <2>3, WriterTypes
    <3>2. Begins(t, x)
      BY <1>t, <2>g, <3>1 DEF Begins
    <3>3. QED
      BY <1>2, <3>1, <3>2
  <2>4. CASE TxAborts(t)
    <3>1. /\ tx' = [tx EXCEPT ![t] = Quiet]
          /\ UNCHANGED <<now, log, probe, ring, ringEpoch, view, restore, rewinds>>
          /\ written' \in Nat /\ failures' \in Nat
      BY <2>4, WriterTypes
    <3>2. Begins(t, Quiet)
      BY <1>t, <1>q, <3>1 DEF Begins
    <3>3. QED
      BY <1>2, <1>t, <3>1, <3>2
  <2>5. CASE TxPrepare(t)
    <3>1. PICK x \in Transactions :
             /\ tx' = [tx EXCEPT ![t] = x] /\ x.pc = "prepared" /\ tx[t].pc = "preparing"
             /\ x.start = now /\ x.guard = tx[t].guard /\ x.stamp = tx[t].stamp
             /\ UNCHANGED <<now, log, probe, ring, ringEpoch, view, restore, rewinds>>
             /\ written' \in Nat /\ failures' \in Nat
      BY <2>5, WriterTypes
    <3>2. Begins(t, x)
      BY <1>t, <2>g, <3>1 DEF Begins
    <3>3. QED
      BY <1>2, <3>1, <3>2
  <2>6. CASE TxCommit(t)
    <3>1. PICK c \in Commits :
             /\ tx' = [tx EXCEPT ![t] = Quiet] /\ tx[t].pc \in {"committing", "prepared"}
             /\ log' = Append(log, c) /\ c.k = "row" /\ c.stamp = tx[t].stamp /\ c.at = now
             /\ UNCHANGED <<now, probe, ring, ringEpoch, view, restore, rewinds>>
             /\ written' \in Nat /\ failures' \in Nat
      BY <2>6, WriterTypes
    <3>2. Writes(t, c)
      BY <3>1 DEF Writes, Deciding
    <3>3. log' \in Seq(Commits) /\ tx' \in [Tx -> Transactions]
      BY <1>t, <3>1, Appended
    <3>4. QED
      BY <1>t, <3>1, <3>2, <3>3 DEF Effect, Typed
  <2>7. QED
    BY <2>1, <2>2, <2>3, <2>4, <2>5, <2>6
<1>4. CASE Probes
  <2>1. PICK p \in Pod : \/ ProbeSample(p) \/ ScanActivity(p) \/ ScanPrepared(p) \/ CommitToken(p)
                         \/ Record(p) \/ NoticeRegression(p) \/ RotateEpoch(p)
                         \/ ProbeFails(p) \/ PodRestarts(p)
    BY <1>4 DEF Probes
  <2>2. CASE ProbeSample(p) \/ ScanActivity(p) \/ ScanPrepared(p)
    <3>1. PICK x \in Probings : Scans(p, x) /\ UNCHANGED <<written, failures>>
      BY <2>2, ProbeTypes
    <3>2. /\ probe' \in [Pod -> Probings]
          /\ UNCHANGED <<now, log, tx, ring, ringEpoch, view, restore, rewinds>>
      BY <1>t, <3>1 DEF Scans
    <3>3. QED
      BY <1>t, <3>1, <3>2 DEF Effect, Typed
  <2>3. CASE CommitToken(p) \/ RotateEpoch(p)
    <3>1. PICK x \in Probings, c \in Commits : SendsToken(p, x, c) /\ UNCHANGED <<written, failures>>
      BY <2>3, ProbeTypes
    <3>2. /\ probe' \in [Pod -> Probings] /\ log' \in Seq(Commits)
          /\ restore' \in {"none", "unseen", "missed"}
          /\ UNCHANGED <<now, tx, ring, ringEpoch, view, rewinds>>
      BY <1>t, <3>1, Appended DEF SendsToken
    <3>3. QED
      BY <1>t, <3>1, <3>2 DEF Effect, Typed
  <2>4. CASE Record(p)
    <3>1. Records(p) /\ UNCHANGED <<written, failures>>
      BY <2>4, ProbeTypes
    <3>2. probe[p].epoch \in Nat
      BY <1>t DEF Probings
    <3>3. /\ probe' \in [Pod -> Probings] /\ ringEpoch' \in [Pod -> Nat]
          /\ UNCHANGED <<now, log, tx, view, restore, rewinds>>
      BY <1>t, <3>1, <3>2 DEF Records
    <3>4. QED
      BY <1>t, <3>1, <3>3 DEF Effect, Typed
  <2>5. CASE NoticeRegression(p) \/ ProbeFails(p) \/ PodRestarts(p)
    <3>1. PICK x \in Probings : Empties(p, x) /\ written' = written /\ failures' \in Nat
      BY <2>5, ProbeTypes
    <3>2. /\ probe' \in [Pod -> Probings] /\ ringEpoch' \in [Pod -> Nat]
          /\ UNCHANGED <<now, log, tx, view, restore, rewinds>>
      BY <1>t, <3>1 DEF Empties
    <3>3. QED
      BY <1>t, <3>1, <3>2 DEF Effect, Typed
  <2>6. QED
    BY <2>1, <2>2, <2>3, <2>4, <2>5
<1>5. ASSUME NEW r \in Reader, Replay(r) \/ Rebuild(r) PROVE Effect /\ Typed
  <2>0. log \in Seq(Commits) /\ Len(log) \in Nat /\ log = SubSeq(log, 1, Len(log))
    BY <1>t
  <2>1. PICK n \in 0..Len(log) : view' = [view EXCEPT ![r] = SubSeq(log, 1, n)]
    <3>1. CASE Replay(r)
      <4>1. Len(view[r]) <= Len(log) /\ SubSeq(view[r], 1, Len(view[r])) = SubSeq(log, 1, Len(view[r]))
            /\ view[r] # log /\ view' = [view EXCEPT ![r] = SubSeq(log, 1, Len(view[r]) + 1)]
        BY <3>1, <1>t DEF Replay, IsStrictPrefix, IsPrefix
      <4>2. view[r] \in Seq(Commits) /\ Len(view[r]) \in Nat
        BY <1>t
      <4>3. view[r] = SubSeq(view[r], 1, Len(view[r]))
        BY <4>2
      <4>4. Len(view[r]) # Len(log)
        BY <2>0, <4>1, <4>3
      <4>5. Len(view[r]) + 1 \in 0..Len(log)
        BY <2>0, <4>1, <4>2, <4>4
      <4>6. QED
        BY <4>1, <4>5
    <3>2. CASE Rebuild(r)
      <4>1. view' = [view EXCEPT ![r] = log]
        BY <3>2 DEF Rebuild
      <4>2. Len(log) \in 0..Len(log)
        BY <2>0
      <4>3. QED
        BY <2>0, <4>1, <4>2
    <3>3. QED
      BY <1>5, <3>1, <3>2
  <2>2. UNCHANGED <<now, log, tx, probe, ring, ringEpoch, written, failures, restore, rewinds>>
    BY <1>5 DEF Replay, Rebuild
  <2>3. SubSeq(log, 1, n) \in Seq(Commits)
    BY <1>t, Cut
  <2>4. /\ view' \in [Reader -> Seq(Commits)]
        /\ \A x \in Reader : view'[x] = view[x] \/ view'[x] = SubSeq(log, 1, n)
    BY <1>t, <2>1, <2>3
  <2>5. Replicates
    BY <2>2, <2>4 DEF Replicates
  <2>6. QED
    BY <1>t, <2>2, <2>4, <2>5 DEF Effect, Typed
<1>6. ASSUME NEW n \in 0..Len(log), Rewind(n) PROVE Effect /\ Typed
  <2>1. /\ log' = SubSeq(log, 1, n) /\ tx' = [t \in Tx |-> Quiet] /\ probe' = [p \in Pod |-> Resting]
        /\ ring' = [p \in Pod |-> IF probe[p].pc = "idle" THEN ring[p] ELSE <<>>]
        /\ rewinds' = rewinds + 1 /\ rewinds < MaxRewinds
        /\ restore' = IF restore = "missed" THEN restore ELSE "unseen"
        /\ UNCHANGED <<now, ringEpoch, view, written, failures>>
    BY <1>6 DEF Rewind
  <2>2. log' \in Seq(Commits) /\ tx' \in [Tx -> Transactions] /\ probe' \in [Pod -> Probings]
    BY <1>t, <2>1, Cut
  <2>3. Cuts(n)
    BY <2>1 DEF Cuts
  <2>4. QED
    BY <1>t, <2>1, <2>2, <2>3 DEF Effect, Typed
<1>7. CASE UNCHANGED vars
  BY <1>7, <1>t DEF vars, Effect, Replicates, Typed
<1>8. QED
  BY <1>1, <1>3, <1>4, <1>5, <1>6, <1>7 DEF Next, Replication

-----------------------------------------------------------------------------
(* The rings.                                                              *)

LEMMA PushedEntries ==
    ASSUME NEW s \in Seq(Entries), NEW e \in Entries, Len(s) <= RingCapacity
    PROVE  /\ Pushed(s, e) \in Seq(Entries) /\ Len(Pushed(s, e)) <= RingCapacity
           /\ \A i \in 1..Len(Pushed(s, e)) :
                 Pushed(s, e)[i] = e \/ \E j \in 1..Len(s) : Pushed(s, e)[i] = s[j]
<1>c. RingCapacity \in Nat /\ RingCapacity # 0
  BY FenceAssumption
<1>1. CASE Len(s) = RingCapacity
  <2>1. s # <<>> /\ Len(s) \in Nat
    BY <1>1, <1>c
  <2>2. /\ Tail(s) \in Seq(Entries) /\ Len(Tail(s)) = Len(s) - 1
        /\ \A i \in 1..Len(Tail(s)) : Tail(s)[i] = s[i + 1] /\ i + 1 \in 1..Len(s)
    BY <2>1
  <2> DEFINE u == Tail(s)
  <2>3. Pushed(s, e) = Append(u, e)
    BY <1>1 DEF Pushed
  <2>4. u \in Seq(Entries) /\ Len(u) = Len(s) - 1
        /\ \A i \in 1..Len(u) : u[i] = s[i + 1] /\ i + 1 \in 1..Len(s)
    BY <2>2
  <2> HIDE DEF u
  <2>5. /\ Append(u, e) \in Seq(Entries) /\ Len(Append(u, e)) = Len(u) + 1
        /\ \A i \in 1..Len(u) : Append(u, e)[i] = u[i]
        /\ Append(u, e)[Len(u) + 1] = e
    BY <2>4
  <2>6. \A i \in 1..Len(Append(u, e)) : i \in 1..Len(u) \/ i = Len(u) + 1
    BY <2>1, <2>4, <2>5
  <2>7. \A i \in 1..Len(Append(u, e)) : Append(u, e)[i] = e \/ \E j \in 1..Len(s) : Append(u, e)[i] = s[j]
    BY <2>4, <2>5, <2>6
  <2>8. Len(Append(u, e)) <= RingCapacity
    BY <1>1, <1>c, <2>1, <2>4, <2>5
  <2>9. QED
    BY <2>3, <2>5, <2>7, <2>8
<1>2. CASE Len(s) # RingCapacity
  <2>1. Pushed(s, e) = Append(s, e)
    BY <1>2 DEF Pushed
  <2>2. /\ Append(s, e) \in Seq(Entries) /\ Len(Append(s, e)) = Len(s) + 1 /\ Len(s) \in Nat
        /\ \A i \in 1..Len(s) : Append(s, e)[i] = s[i]
        /\ Append(s, e)[Len(s) + 1] = e
    OBVIOUS
  <2>3. \A i \in 1..Len(Append(s, e)) : i \in 1..Len(s) \/ i = Len(s) + 1
    BY <2>2
  <2>4. Len(Append(s, e)) <= RingCapacity
    BY <1>2, <1>c, <2>2
  <2>5. QED
    BY <2>1, <2>2, <2>3, <2>4
<1>3. QED
  BY <1>1, <1>2

(* What a step leaves in the rings: entries that were there, and the one of *)
(* a token that is back.                                                    *)
LEMMA RingStep ==
    ASSUME TypeOK, Effect
    PROVE  /\ ring' \in [Pod -> Seq(Entries)] /\ \A p \in Pod : Len(ring'[p]) <= RingCapacity
           /\ \A p \in Pod : \A i \in 1..Len(ring'[p]) :
                 \/ \E j \in 1..Len(ring[p]) : ring'[p][i] = ring[p][j]
                 \/ probe[p].pc \in {"beaten", "rotated"} /\ ring'[p][i] = Entry(p)
<1>t. /\ ring \in [Pod -> Seq(Entries)] /\ \A p \in Pod : Len(ring[p]) <= RingCapacity
      /\ probe \in [Pod -> Probings] /\ RingCapacity \in Nat
  BY FenceAssumption DEF TypeOK
<1>1. CASE ring' = ring
  BY <1>1, <1>t
<1>2. ASSUME NEW p \in Pod, Records(p)
      PROVE  /\ ring' \in [Pod -> Seq(Entries)] /\ \A q \in Pod : Len(ring'[q]) <= RingCapacity
             /\ \A q \in Pod : \A i \in 1..Len(ring'[q]) :
                   \/ \E j \in 1..Len(ring[q]) : ring'[q][i] = ring[q][j]
                   \/ probe[q].pc \in {"beaten", "rotated"} /\ ring'[q][i] = Entry(q)
  <2> DEFINE s == IF NewEpoch(p) THEN <<>> ELSE ring[p]
             u == Pushed(s, Entry(p))
  <2>1. /\ s \in Seq(Entries) /\ Len(s) <= RingCapacity
        /\ \A j \in 1..Len(s) : j \in 1..Len(ring[p]) /\ s[j] = ring[p][j]
    BY <1>t
  <2>2. Entry(p) \in Entries
    BY <1>t, FenceAssumption DEF Entry, Entries, Wall, Probings
  <2>3. ring' = [ring EXCEPT ![p] = u] /\ probe[p].pc \in {"beaten", "rotated"}
    BY <1>2 DEF Records
  <2> HIDE DEF s
  <2>4. /\ u \in Seq(Entries) /\ Len(u) <= RingCapacity
        /\ \A i \in 1..Len(u) : u[i] = Entry(p) \/ \E j \in 1..Len(s) : u[i] = s[j]
    BY <2>1, <2>2, PushedEntries
  <2> HIDE DEF u
  <2>5. ring' \in [Pod -> Seq(Entries)] /\ ring'[p] = u /\ \A q \in Pod : q # p => ring'[q] = ring[q]
    BY <1>t, <2>3, <2>4
  <2>6. ASSUME NEW q \in Pod
        PROVE  /\ Len(ring'[q]) <= RingCapacity
               /\ \A i \in 1..Len(ring'[q]) :
                     \/ \E j \in 1..Len(ring[q]) : ring'[q][i] = ring[q][j]
                     \/ probe[q].pc \in {"beaten", "rotated"} /\ ring'[q][i] = Entry(q)
    <3>1. CASE q = p
      BY <2>1, <2>3, <2>4, <2>5, <3>1
    <3>2. CASE q # p
      BY <1>t, <2>5, <3>2
    <3>3. QED
      BY <3>1, <3>2
  <2>7. QED
    BY <2>5, <2>6
<1>3. ASSUME NEW p \in Pod, ring' = [ring EXCEPT ![p] = <<>>]
      PROVE  /\ ring' \in [Pod -> Seq(Entries)] /\ \A q \in Pod : Len(ring'[q]) <= RingCapacity
             /\ \A q \in Pod : \A i \in 1..Len(ring'[q]) : \E j \in 1..Len(ring[q]) : ring'[q][i] = ring[q][j]
  BY <1>3, <1>t
<1>4. ASSUME ring' = [p \in Pod |-> IF probe[p].pc = "idle" THEN ring[p] ELSE <<>>]
      PROVE  /\ ring' \in [Pod -> Seq(Entries)] /\ \A q \in Pod : Len(ring'[q]) <= RingCapacity
             /\ \A q \in Pod : \A i \in 1..Len(ring'[q]) : \E j \in 1..Len(ring[q]) : ring'[q][i] = ring[q][j]
  BY <1>4, <1>t
<1>5. \/ ring' = ring
      \/ \E p \in Pod : Records(p)
      \/ \E p \in Pod : ring' = [ring EXCEPT ![p] = <<>>]
      \/ ring' = [p \in Pod |-> IF probe[p].pc = "idle" THEN ring[p] ELSE <<>>]
  BY DEF Effect, Ticks, Begins, Writes, Scans, SendsToken, Empties, Replicates, Cuts
<1>6. QED
  BY <1>1, <1>2, <1>3, <1>4, <1>5

LEMMA TypesKept == TypeOK /\ Effect /\ Typed => TypeOK'
  BY RingStep DEF Typed, TypeOK

-----------------------------------------------------------------------------
(* The writing sessions, and what is settled.                              *)

LEMMA GuardedKept == TypeOK /\ Guarded /\ Effect /\ Typed => Guarded'
<1> SUFFICES ASSUME TypeOK, Guarded, Effect, Typed, NEW t \in Tx
             PROVE  /\ tx'[t].start <= now' /\ tx'[t].guard <= now'
                    /\ tx'[t].pc \in Deciding => tx'[t].guard - Floor <= tx'[t].stamp
                    /\ tx'[t].pc \in {"committing", "preparing"} => tx'[t].start <= tx'[t].guard
                    /\ tx'[t].pc = "preparing" => now' < tx'[t].guard + Margin
                    /\ tx'[t].pc = "prepared" => tx'[t].start < tx'[t].guard + Margin
  BY DEF Guarded
<1>t. /\ now \in Nat /\ tx \in [Tx -> Transactions] /\ tx[t] \in Transactions
      /\ tx[t].start \in Nat /\ tx[t].guard \in Nat /\ tx[t].stamp \in Nat
      /\ Floor \in Nat /\ Margin \in Nat /\ Margin # 0
  BY FenceAssumption DEF TypeOK, Transactions
<1>g. /\ tx[t].start <= now /\ tx[t].guard <= now
      /\ tx[t].pc \in Deciding => tx[t].guard - Floor <= tx[t].stamp
      /\ tx[t].pc \in {"committing", "preparing"} => tx[t].start <= tx[t].guard
      /\ tx[t].pc = "preparing" => now < tx[t].guard + Margin
      /\ tx[t].pc = "prepared" => tx[t].start < tx[t].guard + Margin
  BY DEF Guarded
<1>q. Quiet.pc = "idle" /\ Quiet.start = 0 /\ Quiet.guard = 0
  BY DEF Quiet
<1>1. CASE Ticks
  <2>1. now' = now + 1 /\ tx' = tx /\ (tx[t].pc = "preparing" => now + 1 < tx[t].guard + Margin)
    BY <1>1 DEF Ticks
  <2>2. QED
    BY <1>t, <1>g, <2>1
<1>2. ASSUME NEW u \in Tx, NEW x \in Transactions, Begins(u, x)
      PROVE  /\ tx'[t].start <= now' /\ tx'[t].guard <= now'
             /\ tx'[t].pc \in Deciding => tx'[t].guard - Floor <= tx'[t].stamp
             /\ tx'[t].pc \in {"committing", "preparing"} => tx'[t].start <= tx'[t].guard
             /\ tx'[t].pc = "preparing" => now' < tx'[t].guard + Margin
             /\ tx'[t].pc = "prepared" => tx'[t].start < tx'[t].guard + Margin
  <2>1. now' = now
    BY <1>2 DEF Begins
  <2>2. CASE t # u
    <3>1. tx'[t] = tx[t]
      BY <1>2, <1>t, <2>2 DEF Begins
    <3>2. QED
      BY <1>g, <2>1, <3>1
  <2>3. CASE t = u
    <3>1. tx'[t] = x /\ x.start \in Nat /\ x.guard \in Nat /\ x.stamp \in Nat
      BY <1>2, <1>t, <2>3 DEF Begins, Transactions
    <3>2. /\ x.start <= now /\ x.guard <= now
          /\ \/ x.pc = "open"
             \/ x.pc = "idle"
             \/ x.pc \in {"committing", "preparing"} /\ x.guard = now /\ now - Floor <= x.stamp
             \/ /\ tx[t].pc = "preparing" /\ x.pc = "prepared" /\ x.start = now
                /\ x.guard = tx[t].guard /\ x.stamp = tx[t].stamp
      BY <1>2, <2>3 DEF Begins
    <3>3. /\ x.start <= now /\ x.guard <= now
          /\ x.pc \in Deciding => x.guard - Floor <= x.stamp
          /\ x.pc \in {"committing", "preparing"} => x.start <= x.guard
          /\ x.pc = "preparing" => now < x.guard + Margin
          /\ x.pc = "prepared" => x.start < x.guard + Margin
      BY <1>t, <1>g, <3>1, <3>2 DEF Deciding
    <3>4. QED
      BY <2>1, <3>1, <3>3
  <2>4. QED
    BY <2>2, <2>3
<1>3. CASE tx'[t] = Quiet /\ now' = now
  BY <1>3, <1>q, <1>t DEF Deciding
<1>4. CASE tx'[t] = tx[t] /\ now' = now
  BY <1>4, <1>g
<1>5. \/ Ticks
      \/ \E u \in Tx, x \in Transactions : Begins(u, x)
      \/ tx'[t] = Quiet /\ now' = now
      \/ tx'[t] = tx[t] /\ now' = now
  <2>1. ASSUME NEW u \in Tx, NEW c \in Commits, Writes(u, c)
        PROVE  now' = now /\ (tx'[t] = Quiet \/ tx'[t] = tx[t])
    BY <2>1, <1>t DEF Writes
  <2>2. QED
    BY <2>1 DEF Effect, Scans, SendsToken, Records, Empties, Replicates, Cuts
<1>6. QED
  BY <1>1, <1>2, <1>3, <1>4, <1>5


(* No transaction that looks to be under way in pg_stat_activity will write *)
(* at or below the wall w.                                                  *)
HalfAbove(w) ==
    \A t \in Tx : tx[t].pc \in {"committing", "preparing"} => w < tx[t].stamp

(* The same, after a step. *)
AboveAfter(w) == \A t \in Tx : tx'[t].pc \in Deciding => w < tx'[t].stamp

HalfAboveAfter(w) ==
    \A t \in Tx : tx'[t].pc \in {"committing", "preparing"} => w < tx'[t].stamp

SettledAfter(k, w, a) ==
    /\ w + Floor + Margin <= now' /\ a <= now'
    /\ \A i, j \in 1..Len(log') :
          /\ i < j /\ log'[i].k = "beat" /\ k <= log'[i].token /\ log'[j].k = "row"
          => w < log'[j].stamp /\ a <= log'[j].at
    /\ AboveAfter(w)

(* How a step changes one transaction. *)
LEMMA TxStep ==
    ASSUME TypeOK, Guarded, Effect, Typed, NEW t \in Tx
    PROVE  /\ now \in Nat /\ now' \in Nat /\ now <= now'
           /\ \/ tx'[t] = tx[t]
              \/ tx'[t].pc \notin Deciding
              \/ tx'[t].pc \in {"committing", "preparing"} /\ now - Floor <= tx'[t].stamp
              \/ /\ tx[t].pc = "preparing" /\ tx'[t].pc = "prepared"
                 /\ tx'[t].stamp = tx[t].stamp
           /\ tx'[t].stamp \in Nat
<1>t. now \in Nat /\ tx \in [Tx -> Transactions] /\ now' \in Nat /\ tx' \in [Tx -> Transactions]
  BY DEF TypeOK, Typed
<1>q. Quiet.pc = "idle"
  BY DEF Quiet
<1>1. tx'[t].stamp \in Nat
  BY <1>t DEF Transactions
<1>2. now <= now'
  BY <1>t DEF Effect, Ticks, Begins, Writes, Scans, SendsToken, Records, Empties, Replicates, Cuts
<1>3. ASSUME NEW u \in Tx, NEW x \in Transactions, Begins(u, x)
      PROVE  \/ tx'[t] = tx[t]
             \/ tx'[t].pc \notin Deciding
             \/ tx'[t].pc \in {"committing", "preparing"} /\ now - Floor <= tx'[t].stamp
             \/ /\ tx[t].pc = "preparing" /\ tx'[t].pc = "prepared"
                /\ tx'[t].stamp = tx[t].stamp
  <2>1. IF t = u THEN tx'[t] = x ELSE tx'[t] = tx[t]
    BY <1>3, <1>t DEF Begins
  <2>2. \/ x.pc = "open"
        \/ x.pc = "idle"
        \/ x.pc \in {"committing", "preparing"} /\ now - Floor <= x.stamp
        \/ tx[u].pc = "preparing" /\ x.pc = "prepared" /\ x.stamp = tx[u].stamp
    BY <1>3 DEF Begins
  <2>3. QED
    BY <2>1, <2>2 DEF Deciding
<1>4. ASSUME NEW u \in Tx, NEW c \in Commits, Writes(u, c)
      PROVE  tx'[t] = tx[t] \/ tx'[t].pc = "idle"
  BY <1>4, <1>t, <1>q DEF Writes
<1>5. CASE \E n \in 0..Len(log) : Cuts(n)
  BY <1>5, <1>q, <1>t, <1>1, <1>2 DEF Cuts, Deciding
<1>6. CASE tx' = tx
  BY <1>6, <1>t, <1>1, <1>2
<1>7. QED
  BY <1>t, <1>1, <1>2, <1>3, <1>4, <1>5, <1>6
  DEF Effect, Ticks, Scans, SendsToken, Records, Empties, Replicates, Deciding

(* What no transaction will write stays so once it lies a floor and a       *)
(* margin back: the guard turns new transactions away from it.              *)
LEMMA AboveKept ==
    ASSUME TypeOK, Guarded, Effect, Typed, NEW w \in Int, w + Floor + Margin <= now
    PROVE  (Above(w) => AboveAfter(w)) /\ (HalfAbove(w) => HalfAboveAfter(w))
<1>c. Floor \in Nat /\ Margin \in Nat /\ Margin # 0
  BY FenceAssumption
<1>1. ASSUME NEW t \in Tx, Above(w), tx'[t].pc \in Deciding
      PROVE  w < tx'[t].stamp
  <2>1. CASE tx'[t] = tx[t]
    BY <1>1, <2>1 DEF Above
  <2>2. CASE now - Floor <= tx'[t].stamp
    BY <1>c, <2>2, TxStep
  <2>3. CASE tx[t].pc = "preparing" /\ tx'[t].stamp = tx[t].stamp
    BY <1>1, <2>3 DEF Above, Deciding
  <2>4. QED
    BY <1>1, <2>1, <2>2, <2>3, TxStep
<1>2. ASSUME NEW t \in Tx, HalfAbove(w), tx'[t].pc \in {"committing", "preparing"}
      PROVE  w < tx'[t].stamp
  <2>1. CASE tx'[t] = tx[t]
    BY <1>2, <2>1 DEF HalfAbove
  <2>2. CASE now - Floor <= tx'[t].stamp
    BY <1>c, <2>2, TxStep
  <2>3. QED
    BY <1>2, <2>1, <2>2, TxStep DEF Deciding
<1>3. QED
  BY <1>1, <1>2 DEF AboveAfter, HalfAboveAfter

(* How a step changes the log. *)
LEMMA LogStep ==
    ASSUME TypeOK, Effect
    PROVE  \/ log' = log
           \/ \E n \in 0..Len(log) : log' = SubSeq(log, 1, n)
           \/ \E c \in Commits : log' = Append(log, c) /\ c.k = "beat"
           \/ \E t \in Tx, c \in Commits :
                 /\ log' = Append(log, c) /\ c.k = "row"
                 /\ tx[t].pc \in Deciding /\ c.stamp = tx[t].stamp /\ c.at = now
  BY DEF Effect, Ticks, Begins, Writes, Scans, SendsToken, Records, Empties, Replicates, Cuts

(* What is settled stays settled. *)
LEMMA StaysSettled ==
    ASSUME TypeOK, Guarded, Effect, Typed,
           NEW k \in Nat, NEW w \in Int, NEW a \in Nat, Settles(k, w, a)
    PROVE  SettledAfter(k, w, a)
<1>c. Floor \in Nat /\ Margin \in Nat
  BY FenceAssumption
<1>t. log \in Seq(Commits) /\ Len(log) \in Nat /\ now \in Nat
  BY DEF TypeOK
<1>s. /\ w + Floor + Margin <= now /\ a <= now /\ Above(w)
      /\ \A i, j \in 1..Len(log) :
            /\ i < j /\ log[i].k = "beat" /\ k <= log[i].token /\ log[j].k = "row"
            => w < log[j].stamp /\ a <= log[j].at
  BY DEF Settles
<1>n. now <= now' /\ now' \in Nat
  <2>1. now' \in Nat
    BY DEF Typed
  <2>2. QED
    BY <1>t, <2>1
    DEF Effect, Ticks, Begins, Writes, Scans, SendsToken, Records, Empties, Replicates, Cuts
<1>1. AboveAfter(w)
  BY <1>s, AboveKept
<1>2. w + Floor + Margin <= now' /\ a <= now'
  BY <1>c, <1>t, <1>s, <1>n
<1>3. ASSUME NEW i \in 1..Len(log'), NEW j \in 1..Len(log'),
             i < j, log'[i].k = "beat", k <= log'[i].token, log'[j].k = "row"
      PROVE  w < log'[j].stamp /\ a <= log'[j].at
  <2>1. CASE log' = log
    BY <1>3, <1>s, <2>1
  <2>2. ASSUME NEW n \in 0..Len(log), log' = SubSeq(log, 1, n)
        PROVE  w < log'[j].stamp /\ a <= log'[j].at
    <3>1. Len(log') = n /\ \A h \in 1..n : log'[h] = log[h]
      BY <1>t, <2>2, Cut
    <3>2. i \in 1..Len(log) /\ j \in 1..Len(log) /\ i \in 1..n /\ j \in 1..n
      BY <1>t, <3>1
    <3>3. QED
      BY <1>3, <1>s, <3>1, <3>2
  <2>3. ASSUME NEW c \in Commits, log' = Append(log, c),
               \/ c.k = "beat"
               \/ c.k = "row" /\ w < c.stamp /\ a <= c.at
        PROVE  w < log'[j].stamp /\ a <= log'[j].at
    <3>1. /\ Len(log') = Len(log) + 1 /\ log'[Len(log) + 1] = c
          /\ \A h \in 1..Len(log) : log'[h] = log[h]
      BY <1>t, <2>3, Appended
    <3>2. i \in 1..Len(log) /\ (j \in 1..Len(log) \/ j = Len(log) + 1)
      BY <1>t, <1>3, <3>1
    <3>3. CASE j \in 1..Len(log)
      BY <1>3, <1>s, <3>1, <3>2, <3>3
    <3>4. CASE j = Len(log) + 1
      BY <1>3, <2>3, <3>1, <3>4
    <3>5. QED
      BY <3>2, <3>3, <3>4
  <2>4. ASSUME NEW t \in Tx, NEW c \in Commits, log' = Append(log, c), c.k = "row",
               tx[t].pc \in Deciding, c.stamp = tx[t].stamp, c.at = now
        PROVE  w < log'[j].stamp /\ a <= log'[j].at
    BY <1>s, <2>3, <2>4 DEF Above
  <2>5. QED
    BY <2>1, <2>2, <2>3, <2>4, LogStep
<1>4. QED
  BY <1>1, <1>2, <1>3 DEF SettledAfter

-----------------------------------------------------------------------------
(* The probes.                                                             *)

(* What is known of the probe x of a pod, after a step. *)
ProbedAfter(x) ==
    /\ x.pc # "idle" => x.lower <= now'
    /\ x.pc = "scanned" => HalfAboveAfter(x.lower - Floor - Margin)
    /\ x.pc \in {"swept", "regressed"} => x.at <= now' /\ AboveAfter(x.lower - Floor - Margin)
    /\ x.pc \in {"beaten", "rotated"} =>
          0 < x.token /\ SettledAfter(x.token, x.lower - Floor - Margin, x.at)

LEMMA ProbingAfter == (\A p \in Pod : ProbedAfter(probe'[p])) => Probing'
  BY DEF ProbedAfter, HalfAboveAfter, AboveAfter, SettledAfter, Probing, Settles, Above, Wall

(* A probe that does not move loses nothing. *)
LEMMA ProbeRests ==
    ASSUME TypeOK, Guarded, Probing, Effect, Typed, NEW p \in Pod
    PROVE  ProbedAfter(probe[p])
<1> DEFINE w == probe[p].lower - Floor - Margin
<1>t. /\ probe[p].lower \in Nat /\ probe[p].at \in Nat /\ probe[p].token \in Nat
      /\ now \in Nat /\ now' \in Nat /\ Floor \in Nat /\ Margin \in Nat
  BY FenceAssumption DEF TypeOK, Probings, Typed
<1>n. now <= now'
  BY <1>t DEF Effect, Ticks, Begins, Writes, Scans, SendsToken, Records, Empties, Replicates, Cuts
<1>p. /\ probe[p].pc # "idle" => probe[p].lower <= now
      /\ probe[p].pc = "scanned" => HalfAbove(w)
      /\ probe[p].pc \in {"swept", "regressed"} => probe[p].at <= now /\ Above(w)
      /\ probe[p].pc \in {"beaten", "rotated"} =>
            0 < probe[p].token /\ Settles(probe[p].token, w, probe[p].at)
  BY DEF Probing, Wall, HalfAbove
<1>w. w \in Int /\ (probe[p].pc # "idle" => w + Floor + Margin <= now)
  BY <1>t, <1>p
<1> HIDE DEF w
<1>1. probe[p].pc = "scanned" => HalfAboveAfter(w)
  BY <1>p, <1>w, AboveKept
<1>2. probe[p].pc \in {"swept", "regressed"} => AboveAfter(w)
  BY <1>p, <1>w, AboveKept
<1>3. probe[p].pc \in {"beaten", "rotated"} => SettledAfter(probe[p].token, w, probe[p].at)
  BY <1>p, <1>t, <1>w, StaysSettled
<1>4. QED
  BY <1>1, <1>2, <1>3, <1>p, <1>t, <1>n DEF ProbedAfter, w


LEMMA ProbingKept ==
    ASSUME TypeOK, Bounded, Guarded, Probing, Effect, Typed
    PROVE  Probing'
<1> SUFFICES ASSUME NEW q \in Pod PROVE ProbedAfter(probe'[q])
  BY ProbingAfter
<1>t. /\ probe \in [Pod -> Probings] /\ tx \in [Tx -> Transactions] /\ log \in Seq(Commits)
      /\ now \in Nat /\ Floor \in Nat /\ Margin \in Nat /\ Margin # 0
      /\ \A t \in Tx : tx[t].start \in Nat /\ tx[t].guard \in Nat /\ tx[t].stamp \in Nat
  BY FenceAssumption DEF TypeOK, Transactions
<1>1. CASE probe'[q] = probe[q]
  BY <1>1, ProbeRests
<1>2. CASE probe'[q].pc = "idle"
  BY <1>2 DEF ProbedAfter
<1>3. ASSUME NEW x \in Probings, Scans(q, x)
      PROVE  ProbedAfter(probe'[q])
  <2>1. probe'[q] = x /\ tx' = tx /\ now' = now
    BY <1>3, <1>t DEF Scans
  <2>t. /\ x.lower \in Nat /\ x.at \in Nat /\ probe[q].lower \in Nat
    BY <1>t DEF Probings
  <2>2. CASE x.pc = "sampled" /\ x.lower = now
    BY <1>t, <2>1, <2>2 DEF ProbedAfter
  <2>3. CASE /\ probe[q].pc = "sampled" /\ x.pc = "scanned" /\ x.lower <= probe[q].lower
             /\ \A t \in Open : x.lower <= tx[t].start
    <3>1. x.lower <= now
      <4>1. probe[q].lower <= now
        BY <2>3 DEF Probing
      <4>2. QED
        BY <1>t, <2>t, <2>3, <4>1
    <3>2. ASSUME NEW t \in Tx, tx[t].pc \in {"committing", "preparing"}
          PROVE  x.lower - Floor - Margin < tx[t].stamp
      <4>1. x.lower <= tx[t].start
        BY <2>3, <3>2 DEF Open
      <4>2. tx[t].start <= tx[t].guard /\ tx[t].guard - Floor <= tx[t].stamp
        BY <3>2 DEF Guarded, Deciding
      <4>3. QED
        BY <1>t, <2>t, <4>1, <4>2
    <3>3. HalfAboveAfter(x.lower - Floor - Margin)
      BY <2>1, <3>2 DEF HalfAboveAfter
    <3>4. QED
      BY <2>1, <2>3, <3>1, <3>3 DEF ProbedAfter
  <2>4. CASE /\ probe[q].pc = "scanned" /\ x.pc = "swept" /\ x.lower <= probe[q].lower
             /\ \A t \in Prepared : x.lower <= tx[t].start
             /\ x.at = now
    <3>1. x.lower <= now
      <4>1. probe[q].lower <= now
        BY <2>4 DEF Probing
      <4>2. QED
        BY <1>t, <2>t, <2>4, <4>1
    <3>2. ASSUME NEW t \in Tx, tx[t].pc \in Deciding
          PROVE  x.lower - Floor - Margin < tx[t].stamp
      <4>1. CASE tx[t].pc \in {"committing", "preparing"}
        <5>1. probe[q].lower - Floor - Margin < tx[t].stamp
          BY <2>4, <4>1 DEF Probing, Wall
        <5>2. QED
          BY <1>t, <2>t, <2>4, <5>1
      <4>2. CASE tx[t].pc = "prepared"
        <5>1. x.lower <= tx[t].start
          BY <2>4, <4>2 DEF Prepared
        <5>2. tx[t].start < tx[t].guard + Margin /\ tx[t].guard - Floor <= tx[t].stamp
          BY <3>2, <4>2 DEF Guarded
        <5>3. QED
          BY <1>t, <2>t, <5>1, <5>2
      <4>3. QED
        BY <3>2, <4>1, <4>2 DEF Deciding
    <3>3. AboveAfter(x.lower - Floor - Margin)
      BY <2>1, <3>2 DEF AboveAfter
    <3>4. QED
      BY <1>t, <2>1, <2>4, <3>1, <3>3 DEF ProbedAfter
  <2>5. QED
    BY <1>3, <2>2, <2>3, <2>4 DEF Scans
<1>4. ASSUME NEW x \in Probings, NEW c \in Commits, SendsToken(q, x, c)
      PROVE  ProbedAfter(probe'[q])
  <2> DEFINE w == x.lower - Floor - Margin
             k == Token(log) + 1
  <2>1. /\ probe'[q] = x /\ tx' = tx /\ now' = now /\ log' = Append(log, c)
        /\ x.token = k /\ c.k = "beat" /\ x.pc \in {"beaten", "rotated"}
        /\ x.lower = probe[q].lower /\ x.at = probe[q].at /\ probe[q].pc \in {"swept", "regressed"}
    BY <1>4, <1>t DEF SendsToken
  <2>2. PICK n \in Nat \ {0} : Below(n)
    BY DEF Bounded, Below
  <2>3. Token(log) \in Nat /\ \A i \in 1..Len(log) : log[i].k = "beat" => log[i].token <= Token(log)
    BY <1>t, <2>2, Shown DEF Below
  <2>4. /\ x.lower \in Nat /\ x.lower <= now /\ x.at <= now /\ Above(w)
    <3>1. /\ probe[q].lower <= now /\ probe[q].at <= now /\ Above(Wall(q)) /\ probe[q].lower \in Nat
      BY <1>t, <2>1 DEF Probing, Probings
    <3>2. QED
      BY <2>1, <3>1 DEF Wall
  <2>5. k \in Nat /\ 0 < k
    BY <2>3
  <2>6. w + Floor + Margin <= now' /\ x.at <= now'
    BY <1>t, <2>1, <2>4
  <2>7. AboveAfter(w)
    BY <2>1, <2>4 DEF Above, AboveAfter
  <2>8. \A i, j \in 1..Len(log') : ~(i < j /\ log'[i].k = "beat" /\ k <= log'[i].token)
    <3>1. SUFFICES ASSUME NEW i \in 1..Len(log'), NEW j \in 1..Len(log'), i < j,
                          log'[i].k = "beat", k <= log'[i].token
                   PROVE  FALSE
      OBVIOUS
    <3>2. Len(log') = Len(log) + 1 /\ \A h \in 1..Len(log) : log'[h] = log[h]
      BY <1>t, <2>1, Appended
    <3>3. i \in 1..Len(log)
      BY <1>t, <3>1, <3>2
    <3>4. log[i].k = "beat" /\ log[i].token <= Token(log) /\ Token(log) + 1 <= log[i].token
      BY <2>3, <3>1, <3>2, <3>3
    <3>5. log[i].token \in Nat
      <4>1. log[i] \in Commits
        BY <1>t, <3>3
      <4>2. QED
        BY <3>4, <4>1 DEF Commits
    <3>6. QED
      BY <2>3, <3>4, <3>5
  <2> HIDE DEF k
  <2>9. SettledAfter(k, w, x.at)
    BY <2>6, <2>7, <2>8 DEF SettledAfter
  <2>10. QED
    BY <2>1, <2>4, <2>5, <2>9 DEF ProbedAfter
<1>5. ASSUME NEW x \in Probings, Empties(q, x), x.pc # "idle"
      PROVE  ProbedAfter(probe'[q])
  <2>1. /\ probe'[q] = x /\ tx' = tx /\ now' = now
        /\ probe[q].pc = "beaten" /\ x.pc = "regressed" /\ x.lower = probe[q].lower /\ x.at = now
    BY <1>5, <1>t DEF Empties
  <2>2. probe[q].lower <= now /\ Above(Wall(q))
    BY <2>1 DEF Probing, Settles
  <2>3. AboveAfter(x.lower - Floor - Margin)
    BY <2>1, <2>2 DEF Above, AboveAfter, Wall
  <2>4. QED
    BY <1>t, <2>1, <2>2, <2>3 DEF ProbedAfter
<1>6. \/ probe'[q] = probe[q]
      \/ probe'[q].pc = "idle"
      \/ \E x \in Probings : Scans(q, x)
      \/ \E x \in Probings, c \in Commits : SendsToken(q, x, c)
      \/ \E x \in Probings : Empties(q, x) /\ x.pc # "idle"
  <2>r. Resting.pc = "idle"
    BY DEF Resting
  <2>1. ASSUME NEW p \in Pod, Records(p) PROVE probe'[q] = probe[q] \/ probe'[q].pc = "idle"
    BY <2>1, <2>r, <1>t DEF Records
  <2>2. ASSUME NEW p \in Pod, NEW x \in Probings, Empties(p, x)
        PROVE  probe'[q] = probe[q] \/ probe'[q].pc = "idle" \/ (p = q /\ x.pc # "idle")
    BY <2>2, <1>t DEF Empties
  <2>3. ASSUME NEW p \in Pod, NEW x \in Probings, Scans(p, x)
        PROVE  probe'[q] = probe[q] \/ p = q
    BY <2>3, <1>t DEF Scans
  <2>4. ASSUME NEW p \in Pod, NEW x \in Probings, NEW c \in Commits, SendsToken(p, x, c)
        PROVE  probe'[q] = probe[q] \/ p = q
    BY <2>4, <1>t DEF SendsToken
  <2>5. CASE Ticks \/ (\E t \in Tx, x \in Transactions : Begins(t, x))
               \/ (\E t \in Tx, c \in Commits : Writes(t, c)) \/ Replicates
    BY <2>5 DEF Ticks, Begins, Writes, Replicates
  <2>6. CASE \E n \in 0..Len(log) : Cuts(n)
    BY <2>6, <2>r DEF Cuts
  <2>7. QED
    BY <2>1, <2>2, <2>3, <2>4, <2>5, <2>6 DEF Effect
<1>7. QED
  BY <1>1, <1>2, <1>3, <1>4, <1>5, <1>6

-----------------------------------------------------------------------------
(* The entries of the rings, and the bound on the tokens.                  *)

LEMMA ProvenKept ==
    ASSUME TypeOK, Guarded, Probing, Proven, Effect, Typed
    PROVE  Proven'
<1>1. SUFFICES ASSUME NEW p \in Pod, NEW i \in 1..Len(ring'[p])
               PROVE  /\ 0 < ring'[p][i].token
                      /\ SettledAfter(ring'[p][i].token, ring'[p][i].wall, ring'[p][i].at)
  BY DEF Proven, Settles, SettledAfter, Above, AboveAfter
<1>t. /\ ring \in [Pod -> Seq(Entries)] /\ probe \in [Pod -> Probings]
      /\ Floor \in Nat /\ Margin \in Nat
  BY FenceAssumption DEF TypeOK
<1>2. ASSUME NEW j \in 1..Len(ring[p]), ring'[p][i] = ring[p][j]
      PROVE  /\ 0 < ring'[p][i].token
             /\ SettledAfter(ring'[p][i].token, ring'[p][i].wall, ring'[p][i].at)
  <2> DEFINE e == ring[p][j]
  <2>0. ring[p] \in Seq(Entries)
    BY <1>t
  <2>1. e.token \in Nat /\ e.wall \in Int /\ e.at \in Nat
    <3>1. e \in Entries
      BY <2>0
    <3> HIDE DEF e
    <3>2. QED
      BY <3>1 DEF Entries
  <2>2. 0 < e.token /\ Settles(e.token, e.wall, e.at)
    BY DEF Proven
  <2>3. SettledAfter(e.token, e.wall, e.at)
    BY <2>1, <2>2, StaysSettled
  <2>4. QED
    BY <1>2, <2>2, <2>3
<1>3. ASSUME probe[p].pc \in {"beaten", "rotated"}, ring'[p][i] = Entry(p)
      PROVE  /\ 0 < ring'[p][i].token
             /\ SettledAfter(ring'[p][i].token, ring'[p][i].wall, ring'[p][i].at)
  <2>1. probe[p].token \in Nat /\ Wall(p) \in Int /\ probe[p].at \in Nat
    BY <1>t DEF Probings, Wall
  <2>2. 0 < probe[p].token /\ Settles(probe[p].token, Wall(p), probe[p].at)
    BY <1>3 DEF Probing
  <2>3. SettledAfter(probe[p].token, Wall(p), probe[p].at)
    BY <2>1, <2>2, StaysSettled
  <2>4. Entry(p).token = probe[p].token /\ Entry(p).wall = Wall(p) /\ Entry(p).at = probe[p].at
    BY DEF Entry
  <2>5. QED
    BY <1>3, <2>2, <2>3, <2>4
<1>4. QED
  BY <1>2, <1>3, RingStep

LEMMA BoundedKept ==
    ASSUME TypeOK, Bounded, Effect, Typed
    PROVE  Bounded'
<1>t. /\ probe \in [Pod -> Probings] /\ log \in Seq(Commits) /\ view \in [Reader -> Seq(Commits)]
      /\ ringEpoch \in [Pod -> Nat] /\ NoEpoch = 0
      /\ \A p \in Pod : probe[p].epoch \in Nat /\ ringEpoch[p] \in Nat
  BY DEF TypeOK, Probings, NoEpoch
<1>1. PICK n \in Nat \ {0} : Below(n)
  BY DEF Bounded, Below
<1>2. /\ BeatsBelow(log, n) /\ \A r \in Reader : BeatsBelow(view[r], n)
      /\ \A p \in Pod : ringEpoch[p] <= n /\ probe[p].epoch <= n
  BY <1>1 DEF Below
<1>m. n + 1 \in Nat \ {0} /\ n <= n + 1
  OBVIOUS
<1>3. /\ BeatsBelow(log, n + 1) /\ \A r \in Reader : BeatsBelow(view[r], n + 1)
      /\ \A p \in Pod : ringEpoch[p] <= n + 1 /\ probe[p].epoch <= n + 1
  BY <1>t, <1>2, <1>m, BelowMore
<1>4. BeatsBelow(log', n + 1)
  <2>1. CASE log' = log
    BY <1>3, <2>1
  <2>2. ASSUME NEW m \in 0..Len(log), log' = SubSeq(log, 1, m) PROVE BeatsBelow(log', n + 1)
    <3>1. Len(log') = m /\ \A i \in 1..m : log'[i] = log[i] /\ i \in 1..Len(log)
      BY <1>t, <2>2, Cut
    <3>2. QED
      BY <1>3, <3>1 DEF BeatsBelow
  <2>3. ASSUME NEW c \in Commits, log' = Append(log, c),
               c.k = "beat" => c.token <= n + 1 /\ c.epoch <= n + 1
        PROVE  BeatsBelow(log', n + 1)
    <3>1. /\ Len(log') = Len(log) + 1 /\ log'[Len(log) + 1] = c
          /\ \A h \in 1..Len(log) : log'[h] = log[h]
      BY <1>t, <2>3, Appended
    <3>2. \A i \in 1..Len(log') : i \in 1..Len(log) \/ i = Len(log) + 1
      BY <1>t, <3>1
    <3>3. QED
      BY <1>3, <2>3, <3>1, <3>2 DEF BeatsBelow
  <2>4. ASSUME NEW p \in Pod, NEW x \in Probings, NEW c \in Commits, SendsToken(p, x, c)
        PROVE  c.token <= n + 1 /\ c.epoch <= n + 1 /\ log' = Append(log, c)
    <3>1. c.token = Token(log) + 1 /\ c.epoch \in {Epoch(log), FreshEpoch} /\ log' = Append(log, c)
      BY <2>4 DEF SendsToken
    <3>2. Token(log) \in Nat /\ Token(log) <= n /\ Epoch(log) \in Nat /\ Epoch(log) <= n
      BY <1>t, <1>2, Shown
    <3>3. FreshEpoch \in Nat /\ FreshEpoch <= n + 1
      BY <1>1, FreshIsNew
    <3>4. QED
      BY <3>1, <3>2, <3>3
  <2>5. ASSUME NEW t \in Tx, NEW c \in Commits, Writes(t, c)
        PROVE  c.k = "row" /\ log' = Append(log, c)
    BY <2>5 DEF Writes
  <2>6. QED
    <3>1. \/ log' = log
          \/ \E m \in 0..Len(log) : log' = SubSeq(log, 1, m)
          \/ \E p \in Pod, x \in Probings, c \in Commits : SendsToken(p, x, c)
          \/ \E t \in Tx, c \in Commits : Writes(t, c)
      BY DEF Effect, Ticks, Begins, Scans, Records, Empties, Replicates, Cuts
    <3>2. QED
      BY <2>1, <2>2, <2>3, <2>4, <2>5, <3>1
<1>5. ASSUME NEW r \in Reader PROVE BeatsBelow(view'[r], n + 1)
  <2>1. view'[r] = view[r] \/ \E m \in 0..Len(log) : view'[r] = SubSeq(log, 1, m)
    BY DEF Effect, Ticks, Begins, Writes, Scans, SendsToken, Records, Empties, Replicates, Cuts
  <2>2. ASSUME NEW m \in 0..Len(log), view'[r] = SubSeq(log, 1, m) PROVE BeatsBelow(view'[r], n + 1)
    <3>1. Len(view'[r]) = m /\ \A i \in 1..m : view'[r][i] = log[i] /\ i \in 1..Len(log)
      BY <1>t, <2>2, Cut
    <3>2. QED
      BY <1>3, <3>1 DEF BeatsBelow
  <2>3. QED
    BY <1>3, <2>1, <2>2
<1>6. ASSUME NEW q \in Pod PROVE ringEpoch'[q] <= n + 1 /\ probe'[q].epoch <= n + 1
  <2>r. Resting.epoch = 0
    BY DEF Resting, NoEpoch
  <2>1. ringEpoch'[q] \in {ringEpoch[q], 0, probe[q].epoch}
    BY <1>t DEF Effect, Ticks, Begins, Writes, Scans, SendsToken, Records, Empties, Replicates, Cuts
  <2>2. ASSUME NEW p \in Pod, NEW x \in Probings, NEW c \in Commits, SendsToken(p, x, c)
        PROVE  probe'[q].epoch <= n + 1
    <3>1. /\ probe' = [probe EXCEPT ![p] = x] /\ x.epoch = c.epoch
          /\ c.epoch \in {Epoch(log), FreshEpoch}
      BY <2>2 DEF SendsToken
    <3>2. Epoch(log) \in Nat /\ Epoch(log) <= n /\ FreshEpoch \in Nat /\ FreshEpoch <= n + 1
      BY <1>t, <1>1, <1>2, Shown, FreshIsNew
    <3>3. QED
      BY <1>t, <1>3, <3>1, <3>2
  <2>3. ASSUME NEW p \in Pod, NEW x \in Probings, Scans(p, x) \/ Empties(p, x)
        PROVE  probe'[q].epoch \in {probe[q].epoch, 0}
    BY <2>3, <1>t DEF Scans, Empties
  <2>4. ASSUME NEW p \in Pod, Records(p) PROVE probe'[q].epoch \in {probe[q].epoch, 0}
    BY <2>4, <2>r, <1>t DEF Records
  <2>5. \/ \E p \in Pod, x \in Probings, c \in Commits : SendsToken(p, x, c)
        \/ \E p \in Pod, x \in Probings : Scans(p, x) \/ Empties(p, x)
        \/ \E p \in Pod : Records(p)
        \/ probe'[q].epoch \in {probe[q].epoch, 0}
    BY <2>r DEF Effect, Ticks, Begins, Writes, Replicates, Cuts
  <2>6. QED
    BY <1>m, <1>t, <1>3, <2>1, <2>2, <2>3, <2>4, <2>5
<1>7. QED
  BY <1>m, <1>4, <1>5, <1>6 DEF Bounded, BeatsBelow


-----------------------------------------------------------------------------
(* The inductive invariant.                                                *)

Sound == TypeOK /\ Bounded /\ Guarded /\ Probing /\ Proven

LEMMA SoundStart == Init => Sound
<1> SUFFICES ASSUME Init PROVE Guarded /\ Probing /\ Proven
  BY SoundInit DEF Sound
<1>1. /\ now = 0 /\ \A t \in Tx : tx[t].pc = "idle" /\ tx[t].start = 0 /\ tx[t].guard = 0
      /\ \A p \in Pod : probe[p].pc = "idle" /\ ring[p] = <<>>
  BY DEF Init, Quiet, Resting
<1>2. QED
  BY <1>1 DEF Guarded, Probing, Proven, Deciding

LEMMA SoundStep == Sound /\ [Next]_vars => Sound'
<1> SUFFICES ASSUME Sound, [Next]_vars PROVE Sound'
  OBVIOUS
<1>1. TypeOK /\ Bounded /\ Guarded /\ Probing /\ Proven
  BY DEF Sound
<1>2. Effect /\ Typed
  BY <1>1, StepEffect
<1>3. TypeOK' /\ Guarded'
  BY <1>1, <1>2, TypesKept, GuardedKept
<1>4. Bounded' /\ Probing' /\ Proven'
  BY <1>1, <1>2, BoundedKept, ProbingKept, ProvenKept
<1>5. QED
  BY <1>3, <1>4 DEF Sound

LEMMA SoundAlways == Spec => []Sound
  BY SoundStart, SoundStep, PTL DEF Spec

(* Every variable keeps its type and no ring outgrows RING_CAPACITY,        *)
(* whatever the probes, the failures and the restores.                      *)
THEOREM FenceTypes == Spec => []TypeOK
<1>1. Sound => TypeOK
  BY DEF Sound
<1>2. QED
  BY <1>1, SoundAlways, PTL

-----------------------------------------------------------------------------
(* Pages.                                                                  *)

OnLine(r) ==
    /\ Len(view[r]) <= Len(log)
    /\ \A i \in 1..Len(view[r]) : view[r][i] = log[i]

LEMMA PrefixIsOnLine ==
    ASSUME TypeOK, NEW r \in Reader, IsPrefix(view[r], log)
    PROVE  OnLine(r)
<1>1. view[r] \in Seq(Commits) /\ log \in Seq(Commits)
  BY DEF TypeOK
<1>2. Len(view[r]) <= Len(log) /\ SubSeq(view[r], 1, Len(view[r])) = SubSeq(log, 1, Len(view[r]))
  BY DEF IsPrefix
<1>3. Len(view[r]) \in 0..Len(log) /\ Len(view[r]) \in 0..Len(view[r])
  BY <1>1, <1>2
<1>4. \A i \in 1..Len(view[r]) : SubSeq(view[r], 1, Len(view[r]))[i] = view[r][i]
                               /\ SubSeq(log, 1, Len(view[r]))[i] = log[i]
  BY <1>1, <1>3, Cut
<1>5. QED
  BY <1>2, <1>4 DEF OnLine

(* A snapshot that has reached the token of an entry has every row up to    *)
(* the wall of the entry, and every row committed before its time.          *)
LEMMA Complete ==
    ASSUME Sound, NEW p \in Pod, NEW r \in Reader, OnLine(r),
           NEW e \in Range(ring[p]), e.token <= Token(view[r]),
           NEW c \in Rows(log), c.stamp <= e.wall \/ c.at < e.at
    PROVE  c \in Rows(view[r])
<1>t. /\ view[r] \in Seq(Commits) /\ log \in Seq(Commits) /\ ring[p] \in Seq(Entries)
      /\ Len(log) \in Nat /\ Len(view[r]) \in Nat
  BY DEF Sound, TypeOK
<1>1. PICK h \in 1..Len(ring[p]) : ring[p][h] = e
  BY <1>t DEF Range
<1>2. 0 < e.token /\ Settles(e.token, e.wall, e.at)
  BY <1>1 DEF Sound, Proven
<1>3. e.token \in Nat /\ e.wall \in Int /\ e.at \in Nat
  <2>1. e \in Entries
    BY <1>t, <1>1
  <2>2. QED
    BY <2>1 DEF Entries
<1>4. PICK n \in Nat \ {0} : BeatsBelow(view[r], n)
  BY DEF Sound, Bounded
<1>5. /\ Token(view[r]) \in Nat
      /\ 0 < Token(view[r]) =>
            \E i \in 1..Len(view[r]) : view[r][i].k = "beat" /\ view[r][i].token = Token(view[r])
  BY <1>t, <1>4, Shown
<1>6. PICK i \in 1..Len(view[r]) : view[r][i].k = "beat" /\ view[r][i].token = Token(view[r])
  BY <1>2, <1>3, <1>5
<1>7. PICK j \in 1..Len(log) : log[j] = c /\ c.k = "row"
  BY <1>t DEF Rows, Range
<1>8. c.stamp \in Nat /\ c.at \in Nat
  <2>1. c \in Commits
    BY <1>t, <1>7
  <2>2. QED
    BY <1>7, <2>1 DEF Commits
<1>9. CASE j <= Len(view[r])
  <2>1. j \in 1..Len(view[r]) /\ view[r][j] = c
    BY <1>t, <1>7, <1>9 DEF OnLine
  <2>2. QED
    BY <1>t, <1>7, <2>1 DEF Rows, Range
<1>10. CASE ~(j <= Len(view[r]))
  <2>1. i < j /\ i \in 1..Len(log) /\ log[i] = view[r][i]
    BY <1>t, <1>6, <1>7, <1>10 DEF OnLine
  <2>2. e.wall < log[j].stamp /\ e.at <= log[j].at
    BY <1>2, <1>6, <1>7, <2>1 DEF Settles
  <2>3. QED
    BY <1>3, <1>7, <1>8, <2>2
<1>11. QED
  BY <1>9, <1>10

(* NoHoles and BoundedStaleness for the replicas on the writer's line. *)
NoHolesOnLine ==
    \A p \in Pod, r \in Reader, upper \in Nat :
        /\ IsPrefix(view[r], log)
        /\ ServesCursor(p, r, upper) \/ ServesThread(p, r, upper)
        => \A c \in Rows(log) : c.stamp <= upper => c \in Rows(view[r])

FreshOnLine ==
    \A p \in Pod, r \in Reader :
        IsPrefix(view[r], log) /\ ServesHead(p, r)
            => \A c \in Rows(log) : c.at < now - Budget => c \in Rows(view[r])

LEMMA ServedComplete ==
    ASSUME Sound, NEW p \in Pod, NEW r \in Reader, OnLine(r), NEW c \in Rows(log)
    PROVE  /\ \A upper \in Nat :
                 (ServesCursor(p, r, upper) \/ ServesThread(p, r, upper)) /\ c.stamp <= upper
                     => c \in Rows(view[r])
           /\ ServesHead(p, r) /\ c.at < now - Budget => c \in Rows(view[r])
<1>t. /\ log \in Seq(Commits) /\ ring[p] \in Seq(Entries) /\ now \in Nat /\ Budget \in Nat
  BY FenceAssumption DEF Sound, TypeOK
<1>1. c.stamp \in Nat /\ c.at \in Nat
  <2>1. c \in Commits /\ c.k = "row"
    BY <1>t DEF Rows, Range
  <2>2. QED
    BY <2>1 DEF Commits
<1>2. ASSUME NEW e \in Proved(p, view[r])
      PROVE  /\ e \in Range(ring[p]) /\ e.token <= Token(view[r])
             /\ e.wall \in Int /\ e.at \in Nat
  <2>1. e \in Range(ring[p]) /\ e.token <= Token(view[r])
    BY <1>2 DEF Proved
  <2>2. e \in Entries
    BY <1>t, <2>1 DEF Range
  <2>3. QED
    BY <2>1, <2>2 DEF Entries
<1>3. ASSUME NEW upper \in Nat, ServesCursor(p, r, upper) \/ ServesThread(p, r, upper),
             c.stamp <= upper
      PROVE  c \in Rows(view[r])
  <2>1. PICK e \in Proved(p, view[r]) : upper <= e.wall
    BY <1>3 DEF ServesCursor, ServesThread, Covers
  <2>2. e \in Range(ring[p]) /\ e.token <= Token(view[r]) /\ e.wall \in Int
    BY <1>2
  <2>3. c.stamp <= e.wall
    BY <1>1, <1>3, <2>1, <2>2
  <2>4. QED
    BY <2>2, <2>3, Complete
<1>4. ASSUME ServesHead(p, r), c.at < now - Budget
      PROVE  c \in Rows(view[r])
  <2>1. PICK e \in Proved(p, view[r]) : now - e.at <= Budget
    BY <1>4 DEF ServesHead, Fresh
  <2>2. e \in Range(ring[p]) /\ e.token <= Token(view[r]) /\ e.at \in Nat
    BY <1>2
  <2>3. c.at < e.at
    BY <1>t, <1>1, <1>4, <2>1, <2>2
  <2>4. QED
    BY <2>2, <2>3, Complete
<1>5. QED
  BY <1>3, <1>4

(* However often the writer is restored, a page served from a replica that  *)
(* is on the writer's line has every row up to its bound.                   *)
THEOREM PagesOnLine == Spec => []NoHolesOnLine
<1>1. Sound => NoHolesOnLine
  <2> SUFFICES ASSUME Sound, NEW p \in Pod, NEW r \in Reader, NEW upper \in Nat,
                      IsPrefix(view[r], log),
                      ServesCursor(p, r, upper) \/ ServesThread(p, r, upper),
                      NEW c \in Rows(log), c.stamp <= upper
               PROVE  c \in Rows(view[r])
    BY DEF NoHolesOnLine
  <2>1. OnLine(r)
    BY PrefixIsOnLine DEF Sound
  <2>2. QED
    BY <2>1, ServedComplete
<1>2. QED
  BY <1>1, SoundAlways, PTL

(* And a head page misses only what was committed within the budget. *)
THEOREM HeadsOnLine == Spec => []FreshOnLine
<1>1. Sound => FreshOnLine
  <2> SUFFICES ASSUME Sound, NEW p \in Pod, NEW r \in Reader, IsPrefix(view[r], log),
                      ServesHead(p, r), NEW c \in Rows(log), c.at < now - Budget
               PROVE  c \in Rows(view[r])
    BY DEF FreshOnLine
  <2>1. OnLine(r)
    BY PrefixIsOnLine DEF Sound
  <2>2. QED
    BY <2>1, ServedComplete
<1>2. QED
  BY <1>1, SoundAlways, PTL


-----------------------------------------------------------------------------
(* Restores: an abandoned replica is one the entries of a pod prove nothing *)
(* wrong of.                                                                *)

(* How a step moves the replicas. *)
LEMMA LineStep ==
    ASSUME TypeOK, Effect, NEW r \in Reader
    PROVE  /\ OnLine(r) => OnLine(r)' \/ \E n \in 0..Len(log) : Cuts(n)
           /\ OnLine(r)' \/ view'[r] = view[r]
<1>t. view[r] \in Seq(Commits) /\ log \in Seq(Commits) /\ Len(log) \in Nat /\ Len(view[r]) \in Nat
  BY DEF TypeOK
<1>1. CASE Replicates
  <2>1. log' = log /\ (view'[r] = view[r] \/ \E n \in 0..Len(log) : view'[r] = SubSeq(log, 1, n))
    BY <1>1 DEF Replicates
  <2>2. ASSUME NEW n \in 0..Len(log), view'[r] = SubSeq(log, 1, n) PROVE OnLine(r)'
    <3>1. Len(view'[r]) = n /\ \A i \in 1..n : view'[r][i] = log[i]
      BY <1>t, <2>2, Cut
    <3>2. n <= Len(log)
      BY <1>t
    <3>3. QED
      BY <2>1, <3>1, <3>2 DEF OnLine
  <2>3. QED
    BY <2>1, <2>2 DEF OnLine
<1>2. CASE \E n \in 0..Len(log) : Cuts(n)
  BY <1>2 DEF Cuts
<1>3. ASSUME view' = view, log' = log PROVE (OnLine(r) => OnLine(r)') /\ view'[r] = view[r]
  BY <1>3 DEF OnLine
<1>4. ASSUME NEW c \in Commits, view' = view, log' = Append(log, c)
      PROVE (OnLine(r) => OnLine(r)') /\ view'[r] = view[r]
  <2>1. /\ Len(log') = Len(log) + 1 /\ \A i \in 1..Len(log) : log'[i] = log[i]
    BY <1>t, <1>4, Appended
  <2>2. OnLine(r) => Len(view[r]) <= Len(log') /\ \A i \in 1..Len(view[r]) : view[r][i] = log'[i]
    BY <1>t, <2>1 DEF OnLine
  <2>3. QED
    BY <1>4, <2>2 DEF OnLine
<1>5. QED
  BY <1>1, <1>2, <1>3, <1>4
  DEF Effect, Ticks, Begins, Writes, Scans, SendsToken, Records, Empties

(* What the entries of p prove of replica r, it has. *)
Covered(p, r) ==
    \A i \in 1..Len(ring[p]) :
        ringEpoch[p] = Epoch(view[r]) /\ ring[p][i].token <= Token(view[r]) =>
            \A c \in Rows(log) :
                c.stamp <= ring[p][i].wall \/ c.at < ring[p][i].at => c \in Rows(view[r])

(* And p keeps no token that would prove more. *)
Harmless(p, r) ==
    /\ Covered(p, r)
    /\ probe[p].pc \in {"beaten", "rotated"} /\ probe[p].epoch = Epoch(view[r]) => Regressed(p)

(* Once a restore has been noticed the abandoned replicas show an epoch of  *)
(* the past.                                                                *)
Parted(r) == OnLine(r) \/ Epoch(view[r]) # Epoch(log)

Noticed ==
    /\ restore = "none" => \A r \in Reader : Parted(r)
    /\ \A r \in Reader, p \in Pod : OnLine(r) \/ Harmless(p, r)

(* The epoch a snapshot shows after one more commit. *)
LEMMA EpochAppended ==
    ASSUME NEW s \in Seq(Commits), NEW n \in Nat \ {0}, BeatsBelow(s, n), NEW c \in Commits
    PROVE  /\ c.k = "row" => Epoch(Append(s, c)) = Epoch(s)
           /\ c.k = "beat" /\ Epoch(s) <= c.epoch => Epoch(Append(s, c)) = c.epoch
<1> DEFINE z == Append(s, c)
<1>1. /\ z \in Seq(Commits) /\ Len(z) = Len(s) + 1 /\ z[Len(s) + 1] = c
      /\ \A i \in 1..Len(s) : z[i] = s[i]
  BY Appended
<1> HIDE DEF z
<1>2. Len(s) \in Nat /\ \A i \in 1..Len(z) : i \in 1..Len(s) \/ i = Len(s) + 1
  BY <1>1
<1>i. Len(s) + 1 \in 1..Len(z) /\ \A i \in 1..Len(s) : i \in 1..Len(z)
  BY <1>1, <1>2
<1>c. c.k = "beat" => c.token \in Nat /\ c.epoch \in Nat
  BY DEF Commits
<1>3. PICK m \in Nat \ {0} : BeatsBelow(z, m)
  <2>1. CASE c.k = "beat"
    <3> DEFINE m == n + c.token + c.epoch
    <3>1. m \in Nat \ {0} /\ n <= m /\ c.token <= m /\ c.epoch <= m
      BY <2>1, <1>c
    <3> HIDE DEF m
    <3>2. BeatsBelow(s, m)
      BY <3>1, BelowMore
    <3>3. BeatsBelow(z, m)
      BY <1>1, <1>2, <3>1, <3>2 DEF BeatsBelow
    <3>4. QED
      BY <3>1, <3>3
  <2>2. CASE c.k # "beat"
    BY <1>1, <1>2, <2>2 DEF BeatsBelow
  <2>3. QED
    BY <2>1, <2>2
<1>4. /\ Epoch(s) \in Nat /\ 1 <= Epoch(s)
      /\ \A i \in 1..Len(s) : s[i].k = "beat" => s[i].epoch <= Epoch(s)
      /\ Epoch(s) = 1 \/ \E i \in 1..Len(s) : s[i].k = "beat" /\ s[i].epoch = Epoch(s)
  BY Shown
<1>5. /\ Epoch(z) \in Nat /\ 1 <= Epoch(z)
      /\ \A i \in 1..Len(z) : z[i].k = "beat" => z[i].epoch <= Epoch(z)
      /\ Epoch(z) = 1 \/ \E i \in 1..Len(z) : z[i].k = "beat" /\ z[i].epoch = Epoch(z)
  BY <1>1, <1>3, Shown
<1>6. Epoch(s) <= Epoch(z)
  BY <1>1, <1>i, <1>4, <1>5
<1>7. Epoch(z) <= Epoch(s) \/ (c.k = "beat" /\ c.epoch = Epoch(z))
  BY <1>1, <1>2, <1>4, <1>5
<1>8. c.k = "row" => Epoch(z) = Epoch(s)
  BY <1>4, <1>5, <1>6, <1>7
<1>9. c.k = "beat" /\ Epoch(s) <= c.epoch => Epoch(z) = c.epoch
  BY <1>c, <1>1, <1>i, <1>4, <1>5, <1>6, <1>7
<1>10. QED
  BY <1>8, <1>9 DEF z

(* A step that restores nothing keeps the writer's epoch or starts one that *)
(* nobody has.                                                              *)
LEMMA EpochStep ==
    ASSUME Sound, Effect, \A n \in 0..Len(log) : ~Cuts(n)
    PROVE  /\ log' \in Seq(Commits) /\ Epoch(log) \in Nat
           /\ \A r \in Reader : Epoch(view[r]) \in Nat /\ Epoch(view[r]) < FreshEpoch
           /\ FreshEpoch \in Nat
           /\ \/ Epoch(log') = FreshEpoch
              \/ /\ Epoch(log') = Epoch(log)
                 /\ \A p \in Pod, x \in Probings, c \in Commits :
                       SendsToken(p, x, c) => x.pc = "beaten"
<1>t. TypeOK /\ log \in Seq(Commits) /\ view \in [Reader -> Seq(Commits)]
  BY DEF Sound, TypeOK
<1>1. PICK n \in Nat \ {0} : Below(n)
  BY DEF Sound, Bounded, Below
<1>2. BeatsBelow(log, n) /\ \A r \in Reader : BeatsBelow(view[r], n)
  BY <1>1 DEF Below
<1>3. Epoch(log) \in Nat /\ \A r \in Reader : Epoch(view[r]) \in Nat
  BY <1>t, <1>2, Shown
<1>4. /\ FreshEpoch \in Nat /\ Epoch(log) < FreshEpoch
      /\ \A r \in Reader : Epoch(view[r]) < FreshEpoch
  BY <1>t, <1>1, FreshIsNew
<1>5. ASSUME NEW p \in Pod, NEW x \in Probings, NEW c \in Commits, SendsToken(p, x, c)
      PROVE  /\ log' = Append(log, c) /\ log' \in Seq(Commits)
             /\ x.pc = "beaten" => Epoch(log') = Epoch(log)
             /\ x.pc # "beaten" => Epoch(log') = FreshEpoch
  <2>1. /\ log' = Append(log, c) /\ c.k = "beat"
        /\ \/ x.pc = "beaten" /\ c.epoch = Epoch(log)
           \/ x.pc = "rotated" /\ c.epoch = FreshEpoch
    BY <1>5 DEF SendsToken
  <2>2. Epoch(log) <= c.epoch
    BY <1>3, <1>4, <2>1
  <2>3. Epoch(Append(log, c)) = c.epoch /\ Append(log, c) \in Seq(Commits)
    BY <1>t, <1>2, <2>1, <2>2, EpochAppended, Appended
  <2>4. QED
    BY <2>1, <2>3
<1>6. ASSUME NEW t \in Tx, NEW c \in Commits, Writes(t, c)
      PROVE  log' \in Seq(Commits) /\ Epoch(log') = Epoch(log)
  <2>1. log' = Append(log, c) /\ c.k = "row"
    BY <1>6 DEF Writes
  <2>2. Epoch(Append(log, c)) = Epoch(log) /\ Append(log, c) \in Seq(Commits)
    BY <1>t, <1>2, <2>1, EpochAppended, Appended
  <2>3. QED
    BY <2>1, <2>2
<1>7. CASE \E p \in Pod, x \in Probings, c \in Commits : SendsToken(p, x, c)
  <2>1. PICK p \in Pod, x \in Probings, c \in Commits : SendsToken(p, x, c)
    BY <1>7
  <2>2. CASE x.pc # "beaten"
    BY <1>3, <1>4, <1>5, <2>1, <2>2
  <2>3. CASE x.pc = "beaten"
    <3>1. Epoch(log') = Epoch(log) /\ Epoch(log') # FreshEpoch
      BY <1>3, <1>4, <1>5, <2>1, <2>3
    <3>2. QED
      BY <1>3, <1>4, <1>5, <2>1, <3>1
  <2>4. QED
    BY <2>2, <2>3
<1>8. CASE ~ \E p \in Pod, x \in Probings, c \in Commits : SendsToken(p, x, c)
  <2>1. log' = log \/ \E t \in Tx, c \in Commits : Writes(t, c)
    BY <1>8 DEF Effect, Ticks, Begins, Scans, Records, Empties, Replicates
  <2>2. log' \in Seq(Commits) /\ Epoch(log') = Epoch(log)
    BY <1>t, <1>6, <2>1
  <2>3. QED
    BY <1>3, <1>4, <1>8, <2>2
<1>9. QED
  BY <1>7, <1>8

(* How a step changes the fence and the probe of a pod. *)
LEMMA PodStep ==
    ASSUME TypeOK, Effect, NEW q \in Pod, \A n \in 0..Len(log) : ~Cuts(n)
    PROVE  \/ UNCHANGED <<probe[q], ring[q], ringEpoch[q]>>
           \/ /\ UNCHANGED <<ring[q], ringEpoch[q]>>
              /\ probe'[q].pc \in {"sampled", "scanned", "swept"}
              /\ probe[q].pc \in {"idle", "sampled", "scanned"}
           \/ /\ UNCHANGED <<ring[q], ringEpoch[q]>>
              /\ \E x \in Probings, c \in Commits : SendsToken(q, x, c) /\ probe'[q] = x
           \/ /\ Records(q) /\ probe'[q].pc = "idle" /\ ringEpoch'[q] = probe[q].epoch
           \/ /\ ring'[q] = <<>>
              /\ \/ probe'[q].pc = "idle"
                 \/ /\ probe[q].pc = "beaten" /\ Regressed(q) /\ probe'[q].pc = "regressed"
<1>t. probe \in [Pod -> Probings] /\ ring \in [Pod -> Seq(Entries)] /\ ringEpoch \in [Pod -> Nat]
  BY DEF TypeOK
<1>r. Resting.pc = "idle"
  BY DEF Resting
<1>1. ASSUME NEW p \in Pod, NEW x \in Probings, Scans(p, x)
      PROVE  \/ UNCHANGED <<probe[q], ring[q], ringEpoch[q]>>
             \/ /\ UNCHANGED <<ring[q], ringEpoch[q]>>
                /\ probe'[q].pc \in {"sampled", "scanned", "swept"}
                /\ probe[q].pc \in {"idle", "sampled", "scanned"}
  BY <1>1, <1>t DEF Scans
<1>2. ASSUME NEW p \in Pod, NEW x \in Probings, NEW c \in Commits, SendsToken(p, x, c)
      PROVE  \/ UNCHANGED <<probe[q], ring[q], ringEpoch[q]>>
             \/ UNCHANGED <<ring[q], ringEpoch[q]>> /\ probe'[q] = x /\ p = q
  BY <1>2, <1>t DEF SendsToken
<1>3. ASSUME NEW p \in Pod, Records(p)
      PROVE  \/ UNCHANGED <<probe[q], ring[q], ringEpoch[q]>>
             \/ p = q /\ probe'[q].pc = "idle" /\ ringEpoch'[q] = probe[q].epoch
  BY <1>3, <1>t, <1>r DEF Records
<1>4. ASSUME NEW p \in Pod, NEW x \in Probings, Empties(p, x)
      PROVE  \/ UNCHANGED <<probe[q], ring[q], ringEpoch[q]>>
             \/ /\ ring'[q] = <<>>
                /\ \/ probe'[q].pc = "idle"
                   \/ /\ probe[q].pc = "beaten" /\ Regressed(q) /\ probe'[q].pc = "regressed"
  BY <1>4, <1>t DEF Empties
<1>5. CASE Ticks \/ (\E t \in Tx, x \in Transactions : Begins(t, x))
              \/ (\E t \in Tx, c \in Commits : Writes(t, c)) \/ Replicates
  BY <1>5 DEF Ticks, Begins, Writes, Replicates
<1>6. QED
  BY <1>1, <1>2, <1>3, <1>4, <1>5 DEF Effect

(* A row that a step adds lies above every wall, and is not older than any  *)
(* entry.                                                                   *)
LEMMA NewRows ==
    ASSUME Sound, Effect, NEW p \in Pod, NEW j \in 1..Len(ring[p]),
           NEW c \in Rows(log'), c.stamp <= ring[p][j].wall \/ c.at < ring[p][j].at
    PROVE  c \in Rows(log)
<1>t. /\ TypeOK /\ log \in Seq(Commits) /\ Len(log) \in Nat
      /\ ring \in [Pod -> Seq(Entries)]
  BY DEF Sound, TypeOK
<1>1. SUFFICES ASSUME c \notin Rows(log) PROVE FALSE
  OBVIOUS
<1>2. PICK h \in 1..Len(log') : log'[h] = c /\ c.k = "row"
  <2>0. \/ log' = log
        \/ \E d \in Commits : log' = Append(log, d)
        \/ \E n \in 0..Len(log) : log' = SubSeq(log, 1, n)
    BY <1>t, LogStep
  <2>1. log' \in Seq(Commits)
    BY <1>t, <2>0, Appended, Cut
  <2>2. QED
    BY <2>1 DEF Rows, Range
<1>3. \A g \in 1..Len(log) : log[g] # c
  BY <1>t, <1>1, <1>2 DEF Rows, Range
<1>4. PICK t \in Tx : tx[t].pc \in Deciding /\ c.stamp = tx[t].stamp /\ c.at = now
  <2>1. CASE log' = log
    BY <1>2, <1>3, <2>1
  <2>2. ASSUME NEW n \in 0..Len(log), log' = SubSeq(log, 1, n) PROVE FALSE
    <3>1. Len(log') = n /\ \A g \in 1..n : log'[g] = log[g] /\ g \in 1..Len(log)
      BY <1>t, <2>2, Cut
    <3>2. QED
      BY <1>2, <1>3, <3>1
  <2>3. ASSUME NEW d \in Commits, log' = Append(log, d) PROVE c = d
    <3>1. /\ Len(log') = Len(log) + 1 /\ log'[Len(log) + 1] = d
          /\ \A g \in 1..Len(log) : log'[g] = log[g]
      BY <1>t, <2>3, Appended
    <3>2. h \in 1..Len(log) \/ h = Len(log) + 1
      BY <1>t, <3>1
    <3>3. QED
      BY <1>2, <1>3, <3>1, <3>2
  <2>4. QED
    BY <1>t, <1>2, <2>1, <2>2, <2>3, LogStep
<1>5. Settles(ring[p][j].token, ring[p][j].wall, ring[p][j].at)
  BY DEF Sound, Proven
<1>6. ring[p][j].wall < tx[t].stamp /\ ring[p][j].at <= now
  BY <1>4, <1>5 DEF Settles, Above
<1>7. /\ tx[t].stamp \in Nat /\ now \in Nat
  BY <1>t DEF TypeOK, Transactions
<1>8. ring[p][j].wall \in Int /\ ring[p][j].at \in Nat
  <2>1. ring[p] \in Seq(Entries)
    BY <1>t
  <2>2. ring[p][j] \in Entries
    BY <2>1
  <2>3. QED
    BY <2>2 DEF Entries
<1>9. QED
  BY <1>4, <1>6, <1>7, <1>8

LEMMA NoticedStart == Init => Noticed
<1> SUFFICES ASSUME Init, NEW r \in Reader PROVE OnLine(r)
  BY DEF Noticed, Parted
<1>1. view[r] = <<>> /\ log = <<>>
  BY DEF Init
<1>2. QED
  BY <1>1 DEF OnLine

(* A restore: what a replica has been proved to have, it has. *)
LEMMA NoticedCut ==
    ASSUME Sound, Noticed, NEW n \in 0..Len(log), Cuts(n), restore' # "missed"
    PROVE  Noticed'
<1>t. /\ TypeOK /\ log \in Seq(Commits) /\ ring \in [Pod -> Seq(Entries)]
  BY DEF Sound, TypeOK
<1>1. /\ log' = SubSeq(log, 1, n) /\ restore' = "unseen" /\ view' = view /\ ringEpoch' = ringEpoch
      /\ \A p \in Pod : ring'[p] \in {ring[p], <<>>} /\ probe'[p].pc = "idle"
  BY <1>t DEF Cuts, Resting
<1>2. \A c \in Rows(log') : c \in Rows(log)
  <2>1. Len(log') = n /\ log' \in Seq(Commits) /\ \A i \in 1..n : log'[i] = log[i] /\ i \in 1..Len(log)
    BY <1>t, <1>1, Cut
  <2>2. QED
    BY <1>t, <2>1 DEF Rows, Range
<1>3. ASSUME NEW r \in Reader, NEW p \in Pod PROVE Harmless(p, r)'
  <2>1. ASSUME NEW i \in 1..Len(ring[p]), ringEpoch[p] = Epoch(view[r]),
               ring[p][i].token <= Token(view[r]), NEW c \in Rows(log'),
               c.stamp <= ring[p][i].wall \/ c.at < ring[p][i].at
        PROVE  c \in Rows(view[r])
    <3>1. c \in Rows(log)
      BY <1>2
    <3>2. CASE OnLine(r)
      <4>1. ring[p][i] \in Range(ring[p])
        BY <1>t DEF Range
      <4>2. QED
        BY <2>1, <3>1, <3>2, <4>1, Complete
    <3>3. CASE ~OnLine(r)
      BY <2>1, <3>1, <3>3 DEF Noticed, Harmless, Covered
    <3>4. QED
      BY <3>2, <3>3
  <2>2. Covered(p, r)'
    <3>1. CASE ring'[p] = <<>>
      BY <3>1 DEF Covered
    <3>2. CASE ring'[p] = ring[p]
      BY <1>1, <2>1, <3>2 DEF Covered, Rows, Token, Epoch, Beats
    <3>3. QED
      BY <1>1, <3>1, <3>2
  <2>3. QED
    BY <1>1, <2>2 DEF Harmless
<1>4. QED
  BY <1>1, <1>3 DEF Noticed

(* Any other step: the token of a pod that remembers goes backwards, and    *)
(* once one has noticed, tokens are of an epoch no abandoned replica shows. *)
LEMMA NoticedGoesOn ==
    ASSUME Sound, Noticed, Effect, restore # "missed", restore' # "missed",
           \A n \in 0..Len(log) : ~Cuts(n)
    PROVE  Noticed'
<1>t. /\ TypeOK /\ log \in Seq(Commits) /\ Len(log) \in Nat
      /\ ring \in [Pod -> Seq(Entries)] /\ probe \in [Pod -> Probings]
      /\ restore \in {"none", "unseen", "missed"}
  BY DEF Sound, TypeOK
<1>r. \A r \in Reader : (OnLine(r) => OnLine(r)') /\ (OnLine(r)' \/ view'[r] = view[r])
  BY <1>t, LineStep
<1>e. /\ Epoch(log) \in Nat /\ FreshEpoch \in Nat
      /\ \A r \in Reader : Epoch(view[r]) \in Nat /\ Epoch(view[r]) < FreshEpoch
      /\ \/ Epoch(log') = FreshEpoch
         \/ /\ Epoch(log') = Epoch(log)
            /\ \A p \in Pod, x \in Probings, c \in Commits :
                  SendsToken(p, x, c) => x.pc = "beaten"
  BY EpochStep
<1>s. restore' = "none" => restore = "none" \/ Epoch(log') = FreshEpoch
  <2>1. ASSUME restore' = "none", restore # "none"
        PROVE  \E p \in Pod, x \in Probings, c \in Commits : SendsToken(p, x, c) /\ x.pc = "rotated"
    BY <2>1, <1>t DEF Effect, Ticks, Begins, Writes, Scans, SendsToken, Records, Empties, Replicates
  <2>2. QED
    BY <1>e, <2>1
<1>1. ASSUME restore' = "none", NEW r \in Reader, ~OnLine(r)'
      PROVE  Epoch(view'[r]) # Epoch(log')
  <2>1. view'[r] = view[r] /\ ~OnLine(r)
    BY <1>1, <1>r
  <2>2. CASE Epoch(log') = FreshEpoch
    BY <1>e, <2>1, <2>2
  <2>3. CASE Epoch(log') # FreshEpoch
    <3>1. restore = "none" /\ Epoch(log') = Epoch(log)
      BY <1>1, <1>e, <1>s, <2>3
    <3>2. Epoch(view[r]) # Epoch(log)
      BY <2>1, <3>1 DEF Noticed, Parted
    <3>3. QED
      BY <2>1, <3>1, <3>2
  <2>4. QED
    BY <2>2, <2>3
<1>2. ASSUME NEW r \in Reader, ~OnLine(r)', NEW p \in Pod PROVE Harmless(p, r)'
  <2>0. view'[r] = view[r] /\ ~OnLine(r)
    BY <1>2, <1>r
  <2>h. /\ Covered(p, r)
        /\ probe[p].pc \in {"beaten", "rotated"} /\ probe[p].epoch = Epoch(view[r]) => Regressed(p)
    BY <2>0 DEF Noticed, Harmless
  <2>c. ASSUME ring'[p] = ring[p], ringEpoch'[p] = ringEpoch[p] PROVE Covered(p, r)'
    <3>1. ASSUME NEW i \in 1..Len(ring[p]), ringEpoch[p] = Epoch(view[r]),
                 ring[p][i].token <= Token(view[r]), NEW c \in Rows(log'),
                 c.stamp <= ring[p][i].wall \/ c.at < ring[p][i].at
          PROVE  c \in Rows(view[r])
      <4>1. c \in Rows(log)
        BY <3>1, NewRows
      <4>2. QED
        BY <2>h, <3>1, <4>1 DEF Covered
    <3>2. QED
      BY <2>0, <2>c, <3>1 DEF Covered, Rows, Token, Epoch, Beats
  <2>1. CASE UNCHANGED <<probe[p], ring[p], ringEpoch[p]>>
    BY <2>0, <2>h, <2>c, <2>1 DEF Harmless, Regressed, NewEpoch, Epoch, Beats
  <2>2. CASE UNCHANGED <<ring[p], ringEpoch[p]>> /\ probe'[p].pc \in {"sampled", "scanned", "swept"}
    BY <2>c, <2>2 DEF Harmless
  <2>3. ASSUME UNCHANGED <<ring[p], ringEpoch[p]>>,
               NEW x \in Probings, NEW c \in Commits, SendsToken(p, x, c), probe'[p] = x
        PROVE  Harmless(p, r)'
    <3>1. /\ x.token = Token(log) + 1
          /\ \/ x.pc = "beaten" /\ x.epoch = Epoch(log)
             \/ x.pc = "rotated" /\ x.epoch = FreshEpoch
      BY <2>3 DEF SendsToken
    <3>2. ASSUME x.epoch = Epoch(view[r])
          PROVE  /\ ringEpoch[p] = x.epoch /\ ring[p] # <<>>
                 /\ x.token <= Last(ring[p]).token
      <4>1. x.pc = "beaten" /\ x.epoch = Epoch(log)
        BY <1>e, <3>1, <3>2
      <4>2. restore = "unseen"
        BY <1>t, <2>0, <3>2, <4>1 DEF Noticed, Parted
      <4>3. Remembers(p, log)
        BY <2>3, <4>1, <4>2 DEF SendsToken
      <4>4. ring[p] # <<>> /\ ringEpoch[p] = Epoch(log) /\ Last(ring[p]).token > Token(log)
        BY <4>3 DEF Remembers
      <4>5. Last(ring[p]).token \in Nat
        <5>0. ring[p] \in Seq(Entries)
          BY <1>t
        <5>1. Last(ring[p]) \in Entries
          BY <5>0, <4>4 DEF Last
        <5>2. QED
          BY <5>1 DEF Entries
      <4>6. Token(log) \in Nat
        <5>1. PICK n \in Nat \ {0} : BeatsBelow(log, n)
          BY DEF Sound, Bounded
        <5>2. QED
          BY <1>t, <5>1, Shown
      <4>7. QED
        BY <3>1, <4>1, <4>4, <4>5, <4>6
    <3>3. x.epoch = Epoch(view[r]) => Regressed(p)'
      BY <2>3, <3>2 DEF Regressed, NewEpoch
    <3>4. QED
      BY <2>0, <2>3, <2>c, <3>3 DEF Harmless, Epoch, Beats
  <2>4. CASE Records(p) /\ probe'[p].pc = "idle" /\ ringEpoch'[p] = probe[p].epoch
    <3>1. probe[p].pc \in {"beaten", "rotated"} /\ ~Regressed(p)
      BY <2>4 DEF Records
    <3>2. ringEpoch'[p] # Epoch(view[r])
      BY <2>h, <2>4, <3>1
    <3>3. QED
      BY <2>0, <2>4, <3>2 DEF Harmless, Covered, Epoch, Beats
  <2>5. CASE ring'[p] = <<>> /\ probe'[p].pc \in {"idle", "regressed"}
    BY <2>5 DEF Harmless, Covered
  <2>6. QED
    BY <1>t, <2>1, <2>2, <2>3, <2>4, <2>5, PodStep
<1>3. QED
  BY <1>1, <1>2 DEF Noticed, Parted, Epoch, Beats

(* Once the tokens that could have told are gone, they stay gone. *)
LEMMA MissedForGood ==
    ASSUME Effect, restore = "missed"
    PROVE  restore' = "missed"
  BY DEF Effect, Ticks, Begins, Writes, Scans, SendsToken, Records, Empties, Replicates, Cuts

LEMMA NoticedAlways == Spec => [](Sound /\ (restore = "missed" \/ Noticed))
<1>1. Init => Sound /\ Noticed
  BY SoundStart, NoticedStart
<1>2. Sound /\ (restore = "missed" \/ Noticed) /\ [Next]_vars
         => Sound' /\ (restore = "missed" \/ Noticed)'
  <2> SUFFICES ASSUME Sound, restore = "missed" \/ Noticed, [Next]_vars, restore' # "missed"
               PROVE  Sound' /\ Noticed'
    BY SoundStep
  <2>1. Effect
    BY StepEffect DEF Sound
  <2>2. restore # "missed" /\ Noticed
    BY <2>1, MissedForGood
  <2>3. Noticed'
    BY <2>1, <2>2, NoticedCut, NoticedGoesOn
  <2>4. QED
    BY <2>3, SoundStep
<1>3. QED
  BY <1>1, <1>2, PTL DEF Spec

(* What an abandoned replica is proved to have, it has. *)
LEMMA NoticedServes ==
    ASSUME Sound, Noticed, NEW p \in Pod, NEW r \in Reader, ~OnLine(r), NEW c \in Rows(log)
    PROVE  /\ \A upper \in Nat :
                 (ServesCursor(p, r, upper) \/ ServesThread(p, r, upper)) /\ c.stamp <= upper
                     => c \in Rows(view[r])
           /\ ServesHead(p, r) /\ c.at < now - Budget => c \in Rows(view[r])
<1>t. /\ log \in Seq(Commits) /\ ring[p] \in Seq(Entries) /\ now \in Nat /\ Budget \in Nat
  BY FenceAssumption DEF Sound, TypeOK
<1>1. c.stamp \in Nat /\ c.at \in Nat
  <2>1. c \in Commits /\ c.k = "row"
    BY <1>t DEF Rows, Range
  <2>2. QED
    BY <2>1 DEF Commits
<1>2. ASSUME NEW e \in Proved(p, view[r])
      PROVE  /\ e.wall \in Int /\ e.at \in Nat
             /\ c.stamp <= e.wall \/ c.at < e.at => c \in Rows(view[r])
  <2>1. PICK i \in 1..Len(ring[p]) : ring[p][i] = e /\ e.token <= Token(view[r])
    BY <1>t, <1>2 DEF Proved, Range
  <2>2. e \in Entries
    BY <1>t, <2>1
  <2>3. Covered(p, r) /\ ringEpoch[p] = Epoch(view[r])
    BY <1>2 DEF Noticed, Harmless, Proved
  <2>4. QED
    BY <2>1, <2>2, <2>3 DEF Covered, Entries
<1>3. ASSUME NEW upper \in Nat, ServesCursor(p, r, upper) \/ ServesThread(p, r, upper),
             c.stamp <= upper
      PROVE  c \in Rows(view[r])
  <2>1. PICK e \in Proved(p, view[r]) : upper <= e.wall
    BY <1>3 DEF ServesCursor, ServesThread, Covers
  <2>2. e.wall \in Int
    BY <1>2
  <2>3. c.stamp <= e.wall
    BY <1>1, <1>3, <2>1, <2>2
  <2>4. QED
    BY <1>2, <2>3
<1>4. ASSUME ServesHead(p, r), c.at < now - Budget PROVE c \in Rows(view[r])
  <2>1. PICK e \in Proved(p, view[r]) : now - e.at <= Budget
    BY <1>4 DEF ServesHead, Fresh
  <2>2. e.at \in Nat
    BY <1>2
  <2>3. c.at < e.at
    BY <1>t, <1>1, <1>4, <2>1, <2>2
  <2>4. QED
    BY <1>2, <2>3
<1>5. QED
  BY <1>3, <1>4

LEMMA ServedPages ==
    ASSUME Sound, restore = "missed" \/ Noticed
    PROVE  NoHoles /\ BoundedStaleness
<1>t. TypeOK /\ Trusted \subseteq Reader
  BY DEF Sound, Trusted
<1>1. ASSUME NEW p \in Pod, NEW r \in Trusted, NEW c \in Rows(log)
      PROVE  /\ \A upper \in Nat :
                   (ServesCursor(p, r, upper) \/ ServesThread(p, r, upper)) /\ c.stamp <= upper
                       => c \in Rows(view[r])
             /\ ServesHead(p, r) /\ c.at < now - Budget => c \in Rows(view[r])
  <2>0. r \in Reader
    BY <1>t
  <2>1. CASE OnLine(r)
    BY <2>0, <2>1, ServedComplete
  <2>2. CASE ~OnLine(r)
    <3>1. restore # "missed"
      BY <1>t, <2>0, <2>2, PrefixIsOnLine DEF Trusted
    <3>2. QED
      BY <2>0, <2>2, <3>1, NoticedServes
  <2>3. QED
    BY <2>1, <2>2
<1>2. NoHoles
  <2>1. \A upper \in 0..MaxTime : upper \in Nat
    BY FenceAssumption
  <2>2. QED
    BY <1>1, <2>1 DEF NoHoles
<1>3. BoundedStaleness
  BY <1>1 DEF BoundedStaleness
<1>4. QED
  BY <1>2, <1>3

(* A page has no holes, for any number of pods and of restores, probes      *)
(* failing and pods restarting as they may, but for the abandoned replicas  *)
(* after a pod has taken a token of a restored writer without noticing: the *)
(* wall of a probe lies below everything that a transaction it did not see  *)
(* can still write, and a token a pod notices by goes backwards.            *)
THEOREM PagesComplete == Spec => []NoHoles
<1>1. Sound /\ (restore = "missed" \/ Noticed) => NoHoles
  BY ServedPages
<1>2. QED
  BY <1>1, NoticedAlways, PTL

(* And a head page misses only what was committed within the budget, with   *)
(* the same exception.                                                      *)
THEOREM HeadsFresh == Spec => []BoundedStaleness
<1>1. Sound /\ (restore = "missed" \/ Noticed) => BoundedStaleness
  BY ServedPages
<1>2. QED
  BY <1>1, NoticedAlways, PTL

=============================================================================
