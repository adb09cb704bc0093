---------------------------- MODULE ReplicaFence ----------------------------
(***************************************************************************)
(* Reading channel history from a replica (buzz-db/src/replica_fence.rs    *)
(* and the routing of buzz-db/src/lib.rs).  A page of history may be read  *)
(* from a replica only when every row it could contain has been replayed   *)
(* there.  Nobody asks the replica how far it is: every pod probes the     *)
(* writer (clock, open transactions, prepared transactions, and last a     *)
(* heartbeat token) and keeps, for the tokens it committed, the time up to *)
(* which the rows are settled (its wall).  A reader session that sees a    *)
(* token in its own snapshot has replayed everything committed before it.  *)
(*                                                                         *)
(* The writer's database is the sequence of its commits; a replica, and a  *)
(* snapshot of it, is a prefix of one.  A restore cuts the sequence, and   *)
(* replicas may stay on the line of history it abandoned.  Time is that of *)
(* the writer's host.                                                      *)
(***************************************************************************)
EXTENDS Integers, Sequences, FiniteSets, FiniteSetsExt, SequencesExt

CONSTANTS
    Tx,             \* database sessions that write events
    Pod,            \* relay processes
    Reader,         \* replicas
    Floor,          \* CREATED_AT_FLOOR_SECS
    Margin,         \* FENCE_CLOCK_MARGIN_SECS
    Budget,         \* replica_read_max_age
    Staleness,      \* FENCE_STALENESS
    RingCapacity,   \* RING_CAPACITY
    MaxTime,        \* bound on time
    MaxRows,        \* bound on the rows written
    MaxBeats,       \* bound on the heartbeats of all pods
    MaxFailures,    \* bound on failed probes and restarted pods
    MaxRewinds      \* bound on restores of the writer

ASSUME FenceAssumption ==
    /\ {Floor, Budget, Staleness} \subseteq Nat
    /\ {Margin, RingCapacity} \subseteq Nat \ {0}
    /\ {MaxTime, MaxRows, MaxBeats, MaxFailures, MaxRewinds} \subseteq Nat

VARIABLES
    now,        \* the time
    log,        \* the commits of the writer
    tx,         \* the writing transactions
    probe,      \* the probe of each pod
    ring,       \* the retained entries of each pod
    ringEpoch,  \* the epoch they belong to
    view,       \* what each replica has replayed
    restore,    \* history: whether the pods have noticed the writer's restores
    written, failures, rewinds      \* how much of the bounds is used

vars == <<now, log, tx, probe, ring, ringEpoch, view, restore, written, failures,
          rewinds>>

fenceVars == <<ring, ringEpoch>>
budgetVars == <<restore, written, failures, rewinds>>

NoEpoch == 0

(* A commit is on a line of history; that of a row has a time. *)
Row(stamp) == [k |-> "row", stamp |-> stamp, at |-> now, line |-> rewinds]
Beat(token, epoch) == [k |-> "beat", token |-> token, epoch |-> epoch, line |-> rewinds]

Rows(s) == {c \in Range(s) : c.k = "row"}
Beats(s) == {c \in Range(s) : c.k = "beat"}

(* The heartbeat row as a snapshot shows it: tokens only grow on a line. *)
Token(s) == Max({0} \cup {c.token : c \in Beats(s)})
Epoch(s) == Max({1} \cup {c.epoch : c \in Beats(s)})

(* gen_random_uuid: an epoch nobody has. *)
FreshEpoch == 1 + Max({Epoch(log)} \cup {ringEpoch[p] : p \in Pod}
                        \cup {Epoch(view[r]) : r \in Reader})

Quiet == [pc |-> "idle", start |-> 0, stamp |-> 0, guard |-> 0]
Resting == [pc |-> "idle", lower |-> 0, at |-> 0, token |-> 0, epoch |-> NoEpoch]

Init ==
    /\ now = 0
    /\ log = <<>>
    /\ tx = [t \in Tx |-> Quiet]
    /\ probe = [p \in Pod |-> Resting]
    /\ ring = [p \in Pod |-> <<>>]
    /\ ringEpoch = [p \in Pod |-> NoEpoch]
    /\ view = [r \in Reader |-> <<>>]
    /\ restore = "none"
    /\ written = 0 /\ failures = 0 /\ rewinds = 0

(* Time.  PREPARE stamps a transaction less than Margin after its guard ran *)
(* (the scheduling noise the margin is there for).                          *)
TimePasses ==
    /\ now < MaxTime
    /\ \A t \in Tx : tx[t].pc = "preparing" => now + 1 < tx[t].guard + Margin
    /\ now' = now + 1
    /\ UNCHANGED <<log, tx, probe, fenceVars, view, budgetVars>>

-----------------------------------------------------------------------------
(* Transactions that write a channel event, and migration 0021's guard.     *)

TxBegin(t, stamp) ==
    /\ tx[t].pc = "idle"
    /\ written < MaxRows
    /\ written' = written + 1
    /\ tx' = [tx EXCEPT ![t] = [Quiet EXCEPT !.pc = "open", !.start = now,
                                             !.stamp = stamp]]
    /\ UNCHANGED <<now, log, probe, fenceVars, view, restore, failures, rewinds>>

TxGuard(t, next) ==
    /\ tx[t].pc = "open"
    /\ tx[t].stamp >= now - Floor
    /\ tx' = [tx EXCEPT ![t].pc = next, ![t].guard = now]
    /\ UNCHANGED <<now, log, probe, fenceVars, view, budgetVars>>

(* The guard raises, the client gives up, or the session is lost. *)
TxAborts(t) ==
    /\ tx[t].pc # "idle"
    /\ tx' = [tx EXCEPT ![t] = Quiet]
    /\ UNCHANGED <<now, log, probe, fenceVars, view, budgetVars>>

TxCommit(t) ==
    /\ tx[t].pc \in {"committing", "prepared"}
    /\ log' = Append(log, Row(tx[t].stamp))
    /\ tx' = [tx EXCEPT ![t] = Quiet]
    /\ UNCHANGED <<now, probe, fenceVars, view, budgetVars>>

(* PREPARE TRANSACTION: from pg_stat_activity to pg_prepared_xacts, which   *)
(* shows when it was prepared.                                              *)
TxPrepare(t) ==
    /\ tx[t].pc = "preparing"
    /\ tx' = [tx EXCEPT ![t].pc = "prepared", ![t].start = now]
    /\ UNCHANGED <<now, log, probe, fenceVars, view, budgetVars>>

Writers ==
    \E t \in Tx :
        \/ \E stamp \in 0..now : TxBegin(t, stamp)
        \/ \E next \in {"committing", "preparing"} : TxGuard(t, next)
        \/ TxAborts(t)
        \/ TxCommit(t)
        \/ TxPrepare(t)

-----------------------------------------------------------------------------
(* The probe of a pod: sample_writer, one statement after the other.        *)

Open == {t \in Tx : tx[t].pc \in {"open", "committing", "preparing"}}
Prepared == {t \in Tx : tx[t].pc = "prepared"}

Goto(p, pc) == probe' = [probe EXCEPT ![p].pc = pc]

(* S first. *)
ProbeSample(p) ==
    /\ probe[p].pc = "idle"
    /\ Cardinality(Beats(log)) < MaxBeats
    /\ probe' = [probe EXCEPT ![p].pc = "sampled", ![p].lower = now]
    /\ UNCHANGED <<now, log, tx, fenceVars, view, budgetVars>>

Lower(p, ts) == Min({probe[p].lower} \cup {tx[t].start : t \in ts})

(* Mutant: transactions in the middle of their COMMIT are not looked at. *)
ScanUnfinished(p) ==
    /\ probe[p].pc = "sampled"
    /\ probe' = [probe EXCEPT ![p].pc = "scanned",
                              ![p].lower = Lower(p, {t \in Tx : tx[t].pc = "open"})]
    /\ UNCHANGED <<now, log, tx, fenceVars, view, budgetVars>>

(* The first subquery of the scan: min(xact_start) of pg_stat_activity. *)
ScanActivity(p) ==
    /\ probe[p].pc = "sampled"
    /\ probe' = [probe EXCEPT ![p].pc = "scanned", ![p].lower = Lower(p, Open)]
    /\ UNCHANGED <<now, log, tx, fenceVars, view, budgetVars>>

(* The second: min(prepared) of pg_prepared_xacts.  committed_at is taken   *)
(* at once, before the token is sent.                                       *)
ScanPrepared(p) ==
    /\ probe[p].pc = "scanned"
    /\ probe' = [probe EXCEPT ![p].pc = "swept", ![p].lower = Lower(p, Prepared),
                              ![p].at = now]
    /\ UNCHANGED <<now, log, tx, fenceVars, view, budgetVars>>

(* By its ring p can tell that a writer with the tokens of s was restored. *)
Remembers(p, s) ==
    ring[p] # <<>> /\ ringEpoch[p] = Epoch(s) /\ Last(ring[p]).token > Token(s)

(* The token last.  One row serializes the pods.  A restore that the ring   *)
(* of p does not tell of (it is empty, of another epoch, or the others have *)
(* taken tokens beyond it) passes p unnoticed.                              *)
CommitToken(p) ==
    /\ probe[p].pc = "swept"
    /\ log' = Append(log, Beat(Token(log) + 1, Epoch(log)))
    /\ probe' = [probe EXCEPT ![p].pc = "beaten", ![p].token = Token(log) + 1,
                              ![p].epoch = Epoch(log)]
    /\ restore' = IF restore = "unseen" /\ ~Remembers(p, log) THEN "missed" ELSE restore
    /\ UNCHANGED <<now, tx, fenceVars, view, written, failures, rewinds>>

(* fence_wall. *)
Wall(p) == probe[p].lower - Floor - Margin

(* Mutant: the entry is dated when it is recorded. *)
EntryDated(p) == [token |-> probe[p].token, at |-> now, wall |-> Wall(p)]

Entry(p) == [token |-> probe[p].token, at |-> probe[p].at, wall |-> Wall(p)]

(* Retain one more entry; the oldest makes room. *)
Pushed(entries, e) ==
    Append(IF Len(entries) = RingCapacity THEN Tail(entries) ELSE entries, e)

NewEpoch(p) == ringEpoch[p] # probe[p].epoch

(* Mutant: a token that went backwards is recorded like any other. *)
RegressedNever(p) == FALSE

(* ReplicaFence::record on a token that went backwards within its epoch. *)
Regressed(p) ==
    ~NewEpoch(p) /\ ring[p] # <<>> /\ probe[p].token <= Last(ring[p]).token

(* probe_once: the token is back, and becomes an entry of the ring. *)
Record(p) ==
    /\ probe[p].pc \in {"beaten", "rotated"}
    /\ ~Regressed(p)
    /\ ring' = [ring EXCEPT ![p] = Pushed(IF NewEpoch(p) THEN <<>> ELSE @, Entry(p))]
    /\ ringEpoch' = [ringEpoch EXCEPT ![p] = probe[p].epoch]
    /\ probe' = [probe EXCEPT ![p] = Resting]
    /\ UNCHANGED <<now, log, tx, view, budgetVars>>

(* The writer was restored: forget everything, and take committed_at anew. *)
NoticeRegression(p) ==
    /\ probe[p].pc = "beaten"
    /\ Regressed(p)
    /\ ring' = [ring EXCEPT ![p] = <<>>]
    /\ probe' = [probe EXCEPT ![p].pc = "regressed", ![p].at = now]
    /\ UNCHANGED <<now, log, tx, ringEpoch, view, budgetVars>>

RotateEpoch(p) ==
    /\ probe[p].pc = "regressed"
    /\ log' = Append(log, Beat(Token(log) + 1, FreshEpoch))
    /\ probe' = [probe EXCEPT ![p].pc = "rotated", ![p].token = Token(log) + 1,
                              ![p].epoch = FreshEpoch]
    /\ restore' = IF restore = "unseen" THEN "none" ELSE restore
    /\ UNCHANGED <<now, tx, fenceVars, view, written, failures, rewinds>>

MayFail == failures < MaxFailures /\ failures' = failures + 1

(* run_probe closes the fence on any error, also of a statement that the    *)
(* writer has executed.  With its entries the pod forgets what it could     *)
(* notice a restore by; the epoch it keeps.                                 *)
ProbeFails(p) ==
    /\ probe[p].pc # "idle"
    /\ MayFail
    /\ ring' = [ring EXCEPT ![p] = <<>>]
    /\ probe' = [probe EXCEPT ![p] = Resting]
    /\ UNCHANGED <<now, log, tx, ringEpoch, view, restore, written, rewinds>>

(* A pod is started again, with an empty fence. *)
PodRestarts(p) ==
    /\ MayFail
    /\ ring' = [ring EXCEPT ![p] = <<>>]
    /\ ringEpoch' = [ringEpoch EXCEPT ![p] = NoEpoch]
    /\ probe' = [probe EXCEPT ![p] = Resting]
    /\ UNCHANGED <<now, log, tx, view, restore, written, rewinds>>

Probes ==
    \E p \in Pod :
        \/ ProbeSample(p) \/ ScanActivity(p) \/ ScanPrepared(p) \/ CommitToken(p)
        \/ Record(p) \/ NoticeRegression(p) \/ RotateEpoch(p)
        \/ ProbeFails(p) \/ PodRestarts(p)

-----------------------------------------------------------------------------
(* Replication and restores.                                                *)

Replay(r) ==
    /\ IsStrictPrefix(view[r], log)
    /\ view' = [view EXCEPT ![r] = SubSeq(log, 1, Len(@) + 1)]
    /\ UNCHANGED <<now, log, tx, probe, fenceVars, budgetVars>>

(* The writer is restored to an earlier moment, its epoch with it.  Its     *)
(* connections break, so a probe under way fails and closes the fence.      *)
Rewind(n) ==
    LET kept == SubSeq(log, 1, n)
    IN  /\ rewinds < MaxRewinds /\ rewinds' = rewinds + 1
        /\ restore' = IF restore = "missed" THEN restore ELSE "unseen"
        /\ log' = kept
        /\ tx' = [t \in Tx |-> Quiet]
        /\ probe' = [p \in Pod |-> Resting]
        /\ ring' = [p \in Pod |-> IF probe[p].pc = "idle" THEN ring[p] ELSE <<>>]
        /\ UNCHANGED <<now, ringEpoch, view, written, failures>>

(* A replica on an abandoned line is rebuilt from the writer. *)
Rebuild(r) ==
    /\ ~IsPrefix(view[r], log)
    /\ view' = [view EXCEPT ![r] = log]
    /\ UNCHANGED <<now, log, tx, probe, fenceVars, budgetVars>>

Replication ==
    \/ \E r \in Reader : Replay(r) \/ Rebuild(r)
    \/ \E n \in 0..Len(log) : Rewind(n)

-----------------------------------------------------------------------------
(* Routing one read (route_read), which changes nothing: the page is read   *)
(* in one transaction whose first statement observes the heartbeat, so a    *)
(* page that takes its time is a page of a replica that lags behind.        *)

(* ReplicaFence::resolve: the entry with the greatest token the snapshot    *)
(* has reached, on the ring's own epoch.                                    *)
Proved(p, s) ==
    {e \in Range(ring[p]) : /\ Epoch(s) = ringEpoch[p]
                            /\ e.token <= Token(s)
                            /\ \A f \in Range(ring[p]) :
                                  f.token <= Token(s) => f.token <= e.token}

(* A page below a cursor needs a wall above the cursor. *)
Covers(e, upper) == upper <= e.wall

(* A head page is as fresh as the entry it is proved by. *)
Fresh(e) == now - e.at <= Budget

(* ReplicaFence::newest: the fence is open. *)
IsOpen(p) == ring[p] # <<>> /\ now - Last(ring[p]).at <= Staleness

(* A page of channel history below a cursor is served by replica r. *)
ServesCursor(p, r, upper) ==
    /\ IsOpen(p) /\ Covers(Last(ring[p]), upper)
    /\ \E e \in Proved(p, view[r]) : Covers(e, upper)

(* get_thread_replies: a page of a thread is read first, and kept if it is  *)
(* full and its last row lies below the wall.                               *)
ServesThread(p, r, last) ==
    /\ IsOpen(p)
    /\ \E c \in Rows(view[r]) : c.stamp = last
    /\ \E e \in Proved(p, view[r]) : last <= e.wall

(* The newest page of a channel is served by replica r. *)
ServesHead(p, r) ==
    /\ IsOpen(p) /\ Fresh(Last(ring[p]))
    /\ \E e \in Proved(p, view[r]) : Fresh(e)

Next == TimePasses \/ Writers \/ Probes \/ Replication

Spec == Init /\ [][Next]_vars

-----------------------------------------------------------------------------
(* Properties.                                                              *)

Commits ==
    [k: {"row"}, stamp: Nat, at: Nat, line: Nat]
        \cup [k: {"beat"}, token: Nat, epoch: Nat, line: Nat]

Transactions ==
    [pc: {"idle", "open", "committing", "preparing", "prepared"},
     start: Nat, stamp: Nat, guard: Nat]

Probings ==
    [pc: {"idle", "sampled", "scanned", "swept", "beaten", "regressed", "rotated"},
     lower: Nat, at: Nat, token: Nat, epoch: Nat]

Entries == [token: Nat, at: Nat, wall: Int]

(* Every variable keeps its type, and no ring outgrows its capacity. *)
TypeOK ==
    /\ now \in Nat
    /\ log \in Seq(Commits)
    /\ tx \in [Tx -> Transactions]
    /\ probe \in [Pod -> Probings]
    /\ ring \in [Pod -> Seq(Entries)]
    /\ \A p \in Pod : Len(ring[p]) <= RingCapacity
    /\ ringEpoch \in [Pod -> Nat]
    /\ view \in [Reader -> Seq(Commits)]
    /\ restore \in {"none", "unseen", "missed"}
    /\ {written, failures, rewinds} \subseteq Nat

(* All replicas, but the ones on an abandoned line after a pod has taken a  *)
(* token of a restored writer without noticing.                             *)
Trusted == {r \in Reader : restore # "missed" \/ IsPrefix(view[r], log)}

(* A page served from a replica has every row the writer has up to its      *)
(* bound, at whatever moment the writer committed it: a transaction that    *)
(* the probe did not see cannot write below the wall, and a restored writer *)
(* is noticed before an abandoned replica proves anything new.              *)
NoHoles ==
    \A p \in Pod, r \in Trusted, upper \in 0..MaxTime :
        ServesCursor(p, r, upper) \/ ServesThread(p, r, upper)
            => \A c \in Rows(log) : c.stamp <= upper => c \in Rows(view[r])

(* A head page served from a replica misses only what was committed within  *)
(* the budget.                                                              *)
BoundedStaleness ==
    \A p \in Pod, r \in Trusted :
        ServesHead(p, r)
            => \A c \in Rows(log) : c.at < now - Budget => c \in Rows(view[r])
=============================================================================
