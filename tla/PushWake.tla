------------------------------ MODULE PushWake ------------------------------
(***************************************************************************)
(* Waking a sleeping device when a message is stored (buzz-db/src/push.rs, *)
(* migration 0023, buzz-relay/src/push_runtime.rs and the delivery path of *)
(* buzz-push-gateway).  A trigger queues a match job with the event, if    *)
(* the community has a lease; matchers turn jobs into wakes of the outbox; *)
(* couriers send wakes to the gateway, which asks APNs to ring the device. *)
(* Matchers and couriers hold what they claimed for a limited time, calls  *)
(* fail and answers are lost, and the lease is renewed, revoked or expires *)
(* at any moment.                                                          *)
(*                                                                         *)
(* One installation of one community; every event matches its lease and is *)
(* recent enough for the backfill.  The row of the outbox for an endpoint  *)
(* and an event also stands for the request id.                            *)
(***************************************************************************)
EXTENDS Naturals, FiniteSets

CONSTANTS
    Event, Endpoint, Matcher, Courier,
    Nobody,             \* no claim
    MaxGeneration,      \* bound on the generations of the lease
    MaxMatchAttempts,   \* MAX_MATCH_ATTEMPTS
    MaxAttempts,        \* MAX_ATTEMPTS
    MaxFaults           \* bound on failed calls, lost answers and crashes

ASSUME PushAssumption ==
    /\ {MaxGeneration, MaxFaults} \subseteq Nat
    /\ {MaxMatchAttempts, MaxAttempts} \subseteq Nat \ {0}
    /\ Nobody \notin Matcher \cup Courier

VARIABLES
    lease,      \* the effective lease of the installation
    event,      \* the events
    job,        \* push_match_queue
    wake,       \* push_wake_outbox
    matcher,    \* run_matcher of each relay
    courier,    \* run_delivery_worker of each relay
    wire,       \* delivery requests on their way to the gateway
    fence,      \* push_gateway_delivery_request_replays
    permits,    \* requests the gateway is sending to APNs
    answers,    \* its answers that a courier is waiting for
    woken,      \* how often APNs has accepted each wake
    unheard,    \* how often APNs has accepted it, the gateway did not hear
                \* of that and released the request id
    excused,    \* events that were given up for a reason of their own
    overdue,    \* events whose wake was failed because its claim ran out
                \* before the courier came to it
    faults      \* how much of MaxFaults is used

relayVars == <<lease, event, job, wake>>
gatewayVars == <<wire, fence, permits, answers, woken, unheard>>
ledger == <<excused, overdue>>
vars == <<relayVars, matcher, courier, gatewayVars, ledger, faults>>

Wake == Endpoint \X Event


NoJob == [st |-> "none", by |-> Nobody, lapsed |-> FALSE, attempts |-> 0]
NewJob == [NoJob EXCEPT !.st = "pending"]
NoWake == [st |-> "none", by |-> Nobody, lapsed |-> FALSE, attempts |-> 0,
           generation |-> 0]

Idle == [pc |-> "idle", batch |-> {}, generation |-> 0]
Off == [pc |-> "idle", batch |-> {}, wake |-> <<>>, attempt |-> 0]

Init ==
    /\ lease = [generation |-> 0, on |-> FALSE, endpoint |-> Nobody]
    /\ event = [e \in Event |-> [st |-> "none", queued |-> FALSE, generation |-> 0]]
    /\ job = [e \in Event |-> NoJob]
    /\ wake = [w \in Wake |-> NoWake]
    /\ matcher = [m \in Matcher |-> Idle]
    /\ courier = [c \in Courier |-> Off]
    /\ wire = {} /\ fence = {} /\ permits = {} /\ answers = {}
    /\ woken = [w \in Wake |-> 0]
    /\ unheard = [w \in Wake |-> 0]
    /\ excused = {}
    /\ overdue = {}
    /\ faults = 0

Fault == faults < MaxFaults /\ faults' = faults + 1

(* What a claim may take: what waits, and what somebody kept too long. *)
Claimable(row) == row.st = "pending" \/ (row.st \in {"matching", "sending"} /\ row.lapsed)

Claimed(row, st, by) ==
    [row EXCEPT !.st = st, !.by = by, !.lapsed = FALSE, !.attempts = @ + 1]
Released(row, st) == [row EXCEPT !.st = st, !.by = Nobody, !.lapsed = FALSE]

-----------------------------------------------------------------------------
(* Events and the lease.  Both sides of the gate lock are held to the end   *)
(* of their transactions: no activation commits while an insert is open.    *)

(* The trigger enqueue_push_match_job. *)
InsertEvent(e) ==
    /\ event[e].st = "none"
    /\ event' = [event EXCEPT ![e].st = "inserting", ![e].queued = lease.on]
    /\ UNCHANGED <<lease, job, wake, matcher, courier, gatewayVars, ledger, faults>>

CommitEvent(e) ==
    /\ event[e].st = "inserting"
    /\ event' = [event EXCEPT ![e].st = "stored",
                              ![e].generation = IF lease.on THEN lease.generation ELSE 0]
    /\ job' = IF event[e].queued THEN [job EXCEPT ![e] = NewJob] ELSE job
    /\ UNCHANGED <<lease, wake, matcher, courier, gatewayVars, ledger, faults>>

DeleteEvent(e) ==
    /\ event[e].st = "stored"
    /\ event' = [event EXCEPT ![e].st = "deleted"]
    /\ UNCHANGED <<lease, job, wake, matcher, courier, gatewayVars, ledger, faults>>

(* backfill_push_match_jobs. *)
Backfilled ==
    [e \in Event |-> IF event[e].st = "stored" /\ job[e].st = "none" THEN NewJob ELSE job[e]]

(* Mutant: the activation does not take the gate lock. *)
ActivateUnlocked(n) ==
    /\ lease.generation < MaxGeneration
    /\ lease' = [generation |-> lease.generation + 1, on |-> TRUE, endpoint |-> n]
    /\ job' = Backfilled
    /\ UNCHANGED <<event, wake, matcher, courier, gatewayVars, ledger, faults>>

(* accept_lease_event, replace_lease: a first lease or a renewal. *)
Activate(n) ==
    /\ lease.generation < MaxGeneration
    /\ \A e \in Event : event[e].st # "inserting"
    /\ lease' = [generation |-> lease.generation + 1, on |-> TRUE, endpoint |-> n]
    /\ job' = Backfilled
    /\ UNCHANGED <<event, wake, matcher, courier, gatewayVars, ledger, faults>>

Revoke ==
    /\ lease.on
    /\ lease.generation < MaxGeneration
    /\ lease' = [lease EXCEPT !.generation = @ + 1, !.on = FALSE]
    /\ UNCHANGED <<event, job, wake, matcher, courier, gatewayVars, ledger, faults>>

(* expires_at passes, which also ends the wakes of this generation. *)
LeaseExpires ==
    /\ lease.on
    /\ lease' = [lease EXCEPT !.on = FALSE]
    /\ UNCHANGED <<event, job, wake, matcher, courier, gatewayVars, ledger, faults>>

Clients ==
    \/ \E e \in Event : InsertEvent(e) \/ DeleteEvent(e)
    \/ \E n \in Endpoint : Activate(n)
    \/ Revoke
    \/ LeaseExpires

-----------------------------------------------------------------------------
(* Matchers.                                                                *)

HoldsJob(m, e) == e \in matcher[m].batch /\ job[e].st = "matching" /\ job[e].by = m

ClaimMatches(m, batch) ==
    /\ matcher[m].pc = "idle"
    /\ batch # {}
    /\ \A e \in batch : Claimable(job[e]) /\ job[e].attempts < MaxMatchAttempts
    /\ job' = [e \in Event |-> IF e \in batch THEN Claimed(job[e], "matching", m) ELSE job[e]]
    /\ matcher' = [matcher EXCEPT ![m] = [pc |-> "load", batch |-> batch, generation |-> 0]]
    /\ UNCHANGED <<lease, event, wake, courier, gatewayVars, ledger, faults>>

(* Jobs of deleted events end here. *)
LoadEvents(m) ==
    LET gone == {e \in matcher[m].batch : event[e].st # "stored"}
        kept == matcher[m].batch \ gone
    IN  /\ matcher[m].pc = "load"
        /\ job' = [e \in Event |-> IF e \in gone /\ HoldsJob(m, e) THEN NoJob ELSE job[e]]
        /\ matcher' = [matcher EXCEPT ![m] = IF kept = {} THEN Idle
                                             ELSE [@ EXCEPT !.pc = "context", !.batch = kept]]
        /\ UNCHANGED <<lease, event, wake, courier, gatewayVars, ledger, faults>>

(* load_match_context. *)
LoadContext(m) ==
    /\ matcher[m].pc = "context"
    /\ matcher' = [matcher EXCEPT ![m].pc = "enqueue",
                       ![m].generation = IF lease.on THEN lease.generation ELSE 0]
    /\ UNCHANGED <<relayVars, courier, gatewayVars, ledger, faults>>

ContextFails(m) ==
    /\ matcher[m].pc = "context"
    /\ Fault
    /\ matcher' = [matcher EXCEPT ![m].pc = "retry"]
    /\ UNCHANGED <<relayVars, courier, gatewayVars, ledger>>

(* enqueue_wakes: the lease is read again under its row lock, and an        *)
(* endpoint has one row for an event.                                       *)
Enqueued(m) ==
    [w \in Wake |->
        IF /\ w[1] = lease.endpoint /\ w[2] \in matcher[m].batch
           /\ lease.on /\ lease.generation = matcher[m].generation
           /\ wake[w].st = "none"
        THEN [NoWake EXCEPT !.st = "pending", !.generation = lease.generation]
        ELSE wake[w]]

Enqueue(m) ==
    /\ matcher[m].pc = "enqueue"
    /\ wake' = Enqueued(m)
    /\ matcher' = [matcher EXCEPT ![m].pc = "complete"]
    /\ UNCHANGED <<lease, event, job, courier, gatewayVars, ledger, faults>>

(* The transaction fails, or commits and its answer is lost. *)
EnqueueFails(m) ==
    /\ matcher[m].pc = "enqueue"
    /\ Fault
    /\ wake' \in {wake, Enqueued(m)}
    /\ matcher' = [matcher EXCEPT ![m].pc = "settle"]
    /\ UNCHANGED <<lease, event, job, courier, gatewayVars, ledger>>

(* complete_match_batch, retry_match_batch: only what is still claimed. *)
CompleteMatches(m) ==
    /\ matcher[m].pc = "complete"
    /\ job' = [e \in Event |-> IF HoldsJob(m, e) THEN NoJob ELSE job[e]]
    /\ matcher' = [matcher EXCEPT ![m] = Idle]
    /\ UNCHANGED <<lease, event, wake, courier, gatewayVars, ledger, faults>>

RetryMatches(m) ==
    /\ matcher[m].pc = "retry"
    /\ job' = [e \in Event |-> IF HoldsJob(m, e) THEN Released(job[e], "pending") ELSE job[e]]
    /\ matcher' = [matcher EXCEPT ![m] = Idle]
    /\ UNCHANGED <<lease, event, wake, courier, gatewayVars, ledger, faults>>

(* After a failed enqueue the last attempt gives up. *)
SettleMatches(m) ==
    LET last == {e \in Event : HoldsJob(m, e) /\ job[e].attempts >= MaxMatchAttempts}
    IN  /\ matcher[m].pc = "settle"
        /\ job' = [e \in Event |-> IF e \in last THEN NoJob
                                   ELSE IF HoldsJob(m, e) THEN Released(job[e], "pending")
                                   ELSE job[e]]
        /\ matcher' = [matcher EXCEPT ![m] = Idle]
        /\ excused' = excused \cup last
        /\ UNCHANGED <<lease, event, wake, courier, gatewayVars, overdue, faults>>

(* The relay dies, or the statement that loads or ends the batch fails. *)
MatcherStops(m) ==
    /\ matcher[m].pc # "idle"
    /\ Fault
    /\ matcher' = [matcher EXCEPT ![m] = Idle]
    /\ UNCHANGED <<relayVars, courier, gatewayVars, ledger>>

(* lease_until passes; a fault where the claimant is still at work. *)
JobLapses(e) ==
    /\ job[e].st = "matching" /\ ~job[e].lapsed
    /\ job' = [job EXCEPT ![e].lapsed = TRUE]
    /\ IF e \in matcher[job[e].by].batch THEN Fault ELSE UNCHANGED faults
    /\ UNCHANGED <<lease, event, wake, matcher, courier, gatewayVars, ledger>>

(* Mutant: a job whose last claimant died is not looked at. *)
ReapPending ==
    LET dead == {e \in Event : job[e].attempts >= MaxMatchAttempts /\ job[e].st = "pending"}
    IN  /\ dead # {}
        /\ job' = [e \in Event |-> IF e \in dead THEN NoJob ELSE job[e]]
        /\ excused' = excused \cup dead
        /\ UNCHANGED <<lease, event, wake, matcher, courier, gatewayVars, overdue, faults>>

(* reap_exhausted_matches. *)
Reap ==
    LET dead == {e \in Event : job[e].attempts >= MaxMatchAttempts /\ Claimable(job[e])}
    IN  /\ dead # {}
        /\ job' = [e \in Event |-> IF e \in dead THEN NoJob ELSE job[e]]
        /\ excused' = excused \cup dead
        /\ UNCHANGED <<lease, event, wake, matcher, courier, gatewayVars, overdue, faults>>

MatcherRuns(m) ==
    \/ \E batch \in SUBSET Event : ClaimMatches(m, batch)
    \/ LoadEvents(m) \/ LoadContext(m) \/ Enqueue(m)
    \/ CompleteMatches(m) \/ RetryMatches(m) \/ SettleMatches(m)

MatcherFails(m) == ContextFails(m) \/ EnqueueFails(m) \/ MatcherStops(m)

-----------------------------------------------------------------------------
(* Couriers: deliver_one for each wake of a batch.                          *)

Holds(c, w) == wake[w].st = "sending" /\ wake[w].by = c

(* The join of the outbox with the lease and the event. *)
Current(w) ==
    /\ lease.on /\ wake[w].generation = lease.generation /\ w[1] = lease.endpoint
    /\ event[w[2]].st = "stored"

ClaimWakes(c, batch) ==
    /\ courier[c].pc = "idle"
    /\ batch # {}
    /\ \A w \in batch : Claimable(wake[w]) /\ Current(w)
    /\ wake' = [w \in Wake |-> IF w \in batch THEN Claimed(wake[w], "sending", c) ELSE wake[w]]
    /\ courier' = [courier EXCEPT ![c] = [Off EXCEPT !.pc = "ready", !.batch = batch]]
    /\ UNCHANGED <<lease, event, job, matcher, gatewayVars, ledger, faults>>

(* revalidate_wake_for_send. *)
Deliverable(c, w) == Holds(c, w) /\ ~wake[w].lapsed /\ Current(w)

Revalidate(c, w) ==
    /\ courier[c].pc = "ready"
    /\ w \in courier[c].batch
    /\ courier' = [courier EXCEPT ![c] =
            [pc |-> IF Deliverable(c, w) THEN "member" ELSE "suppressed",
             batch |-> @.batch \ {w}, wake |-> w, attempt |-> 0]]
    /\ UNCHANGED <<relayVars, matcher, gatewayVars, ledger, faults>>

Goto(c, pc) == courier' = [courier EXCEPT ![c].pc = pc]

IsMember(c) ==
    /\ courier[c].pc = "member"
    /\ Goto(c, "final")
    /\ UNCHANGED <<relayVars, matcher, gatewayVars, ledger, faults>>

(* The owner has left the channel, or nobody can tell. *)
IsNoMember(c) ==
    /\ courier[c].pc = "member"
    /\ Fault
    /\ Goto(c, "refused") \/ Goto(c, "retry")
    /\ UNCHANGED <<relayVars, matcher, gatewayVars, ledger>>

FinalCheck(c) ==
    LET w == courier[c].wake
    IN  /\ courier[c].pc = "final"
        /\ courier' = [courier EXCEPT ![c].pc = IF Deliverable(c, w) THEN "send" ELSE "suppressed",
                                      ![c].attempt = wake[w].attempts]
        /\ UNCHANGED <<relayVars, matcher, gatewayVars, ledger, faults>>

(* The community is being deleted. *)
Fenced(c) ==
    /\ courier[c].pc = "send"
    /\ Fault
    /\ Goto(c, "refused")
    /\ UNCHANGED <<relayVars, matcher, gatewayVars, ledger>>

Request(c) == <<courier[c].wake, courier[c].attempt>>

Send(c) ==
    /\ courier[c].pc = "send"
    /\ Goto(c, "waiting")
    /\ wire' = wire \cup {Request(c)}
    /\ UNCHANGED <<relayVars, matcher, fence, permits, answers, woken, unheard, ledger, faults>>

(* What each answer of the gateway means; 404 is also its answer to a       *)
(* request id it has burnt.                                                 *)
Verdict(status, attempt) ==
    CASE status = "accepted" -> "complete"
      [] status = "invalid" -> "disable"
      [] status = "busy" -> "again"
      [] status = "unknown" -> IF attempt > 1 THEN "complete" ELSE "refused"
      [] OTHER -> "refused"

Receive(c) ==
    /\ courier[c].pc = "waiting"
    /\ \E a \in answers :
        /\ a.request = Request(c)
        /\ Goto(c, Verdict(a.status, courier[c].attempt))
        /\ answers' = answers \ {a}
    /\ UNCHANGED <<relayVars, matcher, wire, fence, permits, woken, unheard, ledger, faults>>

Outstanding(r) == r \in wire \cup permits \cup {a.request : a \in answers}

(* The request times out or the connection breaks; the request may still be *)
(* on its way.  Whatever is neither a timeout nor a refused connection, an  *)
(* answer that cannot be read too, fails the wake.                          *)
TimesOut(c, lost) ==
    /\ courier[c].pc = "waiting"
    /\ IF Outstanding(Request(c)) THEN Fault ELSE UNCHANGED faults
    /\ Goto(c, "again") \/ Goto(c, "refused")
    /\ wire' = IF lost THEN wire \ {Request(c)} ELSE wire
    /\ answers' = {a \in answers : a.request # Request(c)}
    /\ UNCHANGED <<relayVars, matcher, fence, permits, woken, unheard, ledger>>

(* disable_endpoint_generation, before the wake is failed. *)
DisableEndpoint(c) ==
    /\ courier[c].pc = "disable"
    /\ lease' = [lease EXCEPT !.on = @ /\ lease.generation # wake[courier[c].wake].generation]
    /\ Goto(c, "refused")
    /\ UNCHANGED <<event, job, wake, matcher, gatewayVars, ledger, faults>>

Onward(c) ==
    courier' = [courier EXCEPT ![c] =
        IF courier[c].batch = {} THEN Off
        ELSE [Off EXCEPT !.pc = "ready", !.batch = courier[c].batch]]

Exhausted(c) == courier[c].pc = "again" /\ courier[c].attempt >= MaxAttempts

(* complete_wake, retry_wake or fail_wake, which check the claim. *)
Outcome(c) ==
    IF courier[c].pc = "complete" THEN "delivered"
    ELSE IF courier[c].pc \in {"suppressed", "refused"} \/ Exhausted(c) THEN "failed"
    ELSE "pending"

Finish(c) ==
    LET w == courier[c].wake
    IN  /\ courier[c].pc \in {"complete", "again", "retry", "suppressed", "refused"}
        /\ wake' = IF Holds(c, w) THEN [wake EXCEPT ![w] = Released(@, Outcome(c))] ELSE wake
        /\ excused' = IF Holds(c, w) /\ (courier[c].pc = "refused" \/ Exhausted(c))
                      THEN excused \cup {w[2]} ELSE excused
        /\ overdue' = IF Holds(c, w) /\ courier[c].pc = "suppressed" /\ wake[w].lapsed
                      THEN overdue \cup {w[2]} ELSE overdue
        /\ Onward(c)
        /\ UNCHANGED <<lease, event, job, matcher, gatewayVars, faults>>

(* A statement fails or the serving lease is lost: on to the next wake. *)
Abandons(c) ==
    /\ courier[c].pc \notin {"idle", "ready"}
    /\ Fault
    /\ Onward(c)
    /\ answers' = {a \in answers : a.request # Request(c)}
    /\ UNCHANGED <<relayVars, matcher, wire, fence, permits, woken, unheard, ledger>>

CourierStops(c) ==
    /\ courier[c].pc # "idle"
    /\ Fault
    /\ courier' = [courier EXCEPT ![c] = Off]
    /\ answers' = {a \in answers : a.request # Request(c)}
    /\ UNCHANGED <<relayVars, matcher, wire, fence, permits, woken, unheard, ledger>>

(* The courier that claimed the wake has it in its hands, or has yet to. *)
AtWork(c, w) == Holds(c, w) /\ (w \in courier[c].batch \/ courier[c].wake = w)

(* The claim of a whole batch runs while its wakes are sent one by one. *)
WakeLapses(w) ==
    /\ wake[w].st = "sending" /\ ~wake[w].lapsed
    /\ wake' = [wake EXCEPT ![w].lapsed = TRUE]
    /\ IF \E c \in Courier : AtWork(c, w) THEN Fault ELSE UNCHANGED faults
    /\ UNCHANGED <<lease, event, job, matcher, courier, gatewayVars, ledger>>

CourierRuns(c) ==
    \/ \E batch \in SUBSET Wake : ClaimWakes(c, batch)
    \/ \E w \in Wake : Revalidate(c, w)
    \/ IsMember(c) \/ FinalCheck(c) \/ Send(c) \/ Receive(c)
    \/ DisableEndpoint(c) \/ Finish(c)

CourierFails(c) == IsNoMember(c) \/ Fenced(c) \/ Abandons(c) \/ CourierStops(c)

-----------------------------------------------------------------------------
(* The gateway: deliver, authorize_delivery and finish_delivery.            *)

(* The answer reaches the courier if it still waits. *)
Reply(r, status) ==
    answers' = IF \E c \in Courier : courier[c].pc = "waiting" /\ Request(c) = r
               THEN answers \cup {[request |-> r, status |-> status]}
               ELSE answers

(* The request id is burnt before APNs is asked. *)
Admits(r) ==
    /\ r \in wire /\ r[1] \notin fence
    /\ wire' = wire \ {r}
    /\ fence' = fence \cup {r[1]}
    /\ permits' = permits \cup {r}
    /\ UNCHANGED <<relayVars, matcher, courier, answers, woken, unheard, ledger, faults>>

Replayed(r) ==
    /\ r \in wire /\ r[1] \in fence
    /\ wire' = wire \ {r}
    /\ Reply(r, "unknown")
    /\ UNCHANGED <<relayVars, matcher, courier, fence, permits, woken, unheard, ledger, faults>>

(* The grant is no longer good, the quota is used up, or the store is down. *)
Rejects(r) ==
    /\ r \in wire
    /\ Fault
    /\ wire' = wire \ {r}
    /\ \E status \in {"unknown", "busy"} : Reply(r, status)
    /\ UNCHANGED <<relayVars, matcher, courier, fence, permits, woken, unheard, ledger>>

(* Mutant: every finished delivery releases its id. *)
ApnsAcceptsReleases(r) ==
    /\ r \in permits
    /\ permits' = permits \ {r}
    /\ fence' = fence \ {r[1]}
    /\ woken' = [woken EXCEPT ![r[1]] = @ + 1]
    /\ Reply(r, "accepted")
    /\ UNCHANGED <<relayVars, matcher, courier, wire, unheard, ledger, faults>>

(* Accepted: the id stays burnt. *)
ApnsAccepts(r) ==
    /\ r \in permits
    /\ permits' = permits \ {r}
    /\ woken' = [woken EXCEPT ![r[1]] = @ + 1]
    /\ Reply(r, "accepted")
    /\ UNCHANGED <<relayVars, matcher, courier, wire, fence, unheard, ledger, faults>>

(* The endpoint is invalid, or the request: the id stays burnt. *)
ApnsRefuses(r) ==
    /\ r \in permits
    /\ Fault
    /\ permits' = permits \ {r}
    /\ \E status \in {"invalid", "bad"} : Reply(r, status)
    /\ UNCHANGED <<relayVars, matcher, courier, wire, fence, woken, unheard, ledger>>

(* APNs did not take it, or took it and its answer was lost: any failure to *)
(* send is a Retry.  The id is released, if the store can.                  *)
ApnsBusy(r) ==
    /\ r \in permits
    /\ Fault
    /\ permits' = permits \ {r}
    /\ \E rang, released \in BOOLEAN :
        /\ woken' = IF rang THEN [woken EXCEPT ![r[1]] = @ + 1] ELSE woken
        /\ fence' = IF released THEN fence \ {r[1]} ELSE fence
        /\ unheard' = IF rang /\ released THEN [unheard EXCEPT ![r[1]] = @ + 1] ELSE unheard
    /\ Reply(r, "busy")
    /\ UNCHANGED <<relayVars, matcher, courier, wire, ledger>>

(* The gateway dies, whatever APNs did. *)
GatewayStops(r) ==
    /\ r \in permits
    /\ Fault
    /\ permits' = permits \ {r}
    /\ woken' \in {woken, [woken EXCEPT ![r[1]] = @ + 1]}
    /\ UNCHANGED <<relayVars, matcher, courier, wire, fence, answers, unheard, ledger>>

GatewayRuns(r) == Admits(r) \/ Replayed(r) \/ ApnsAccepts(r)
GatewayFails(r) == Rejects(r) \/ ApnsRefuses(r) \/ ApnsBusy(r) \/ GatewayStops(r)

Requests == wire \cup permits

Next ==
    \/ Clients
    \/ \E e \in Event : CommitEvent(e) \/ JobLapses(e)
    \/ Reap
    \/ \E m \in Matcher : MatcherRuns(m) \/ MatcherFails(m)
    \/ \E w \in Wake : WakeLapses(w)
    \/ \E c \in Courier : CourierRuns(c) \/ CourierFails(c)
    \/ \E c \in Courier, lost \in BOOLEAN : TimesOut(c, lost)
    \/ \E r \in Requests : GatewayRuns(r) \/ GatewayFails(r)

Spec == Init /\ [][Next]_vars

(* The loops of every relay run, claims run out, requests are answered or   *)
(* time out.                                                                *)
Fairness ==
    /\ \A e \in Event : WF_vars(CommitEvent(e)) /\ WF_vars(JobLapses(e))
    /\ WF_vars(Reap)
    /\ \A m \in Matcher : WF_vars(MatcherRuns(m))
    /\ \A w \in Wake : WF_vars(WakeLapses(w))
    /\ \A c \in Courier : WF_vars(CourierRuns(c)) /\ WF_vars(TimesOut(c, FALSE))
    /\ WF_vars(\E r \in Requests : GatewayRuns(r))

FairSpec == Spec /\ Fairness

-----------------------------------------------------------------------------
(* Properties.                                                              *)

Claimants == Matcher \cup Courier \cup {Nobody}

Jobs == [st: {"none", "pending", "matching"}, by: Claimants, lapsed: BOOLEAN, attempts: Nat]

Wakes == [st: {"none", "pending", "sending", "delivered", "failed"}, by: Claimants,
          lapsed: BOOLEAN, attempts: Nat, generation: Nat]

Matchers == [pc: {"idle", "load", "context", "enqueue", "complete", "settle", "retry"},
             batch: SUBSET Event, generation: Nat]

(* A courier past its batch has a wake at hand. *)
Couriers ==
    {c \in [pc: {"idle", "ready", "member", "final", "send", "waiting", "complete", "disable",
                 "again", "retry", "suppressed", "refused"},
            batch: SUBSET Wake, wake: Wake \cup {<<>>}, attempt: Nat] :
        c.pc \notin {"idle", "ready"} => c.wake \in Wake}

(* The types of the variables.                                              *)
TypeOK ==
    /\ lease \in [generation: Nat, on: BOOLEAN, endpoint: Endpoint \cup {Nobody}]
    /\ event \in [Event -> [st: {"none", "inserting", "stored", "deleted"}, queued: BOOLEAN,
                            generation: Nat]]
    /\ job \in [Event -> Jobs]
    /\ wake \in [Wake -> Wakes]
    /\ matcher \in [Matcher -> Matchers]
    /\ courier \in [Courier -> Couriers]
    /\ wire \subseteq Wake \X Nat /\ permits \subseteq Wake \X Nat /\ fence \subseteq Wake
    /\ \A a \in answers : a.request \in Wake \X Nat
    /\ woken \in [Wake -> Nat] /\ unheard \in [Wake -> Nat]
    /\ excused \subseteq Event /\ overdue \subseteq Event
    /\ faults \in Nat

(* The event was stored under the lease that is still in force, and nobody  *)
(* had a reason to give it up.                                              *)
Owed(e) ==
    /\ event[e].st = "stored" /\ e \notin excused
    /\ lease.on /\ event[e].generation = lease.generation

OnItsWay(w) ==
    \/ wake[w].st = "delivered"
    \/ wake[w].st \in {"pending", "sending"} /\ wake[w].generation = lease.generation

(* A wake that is owed is a job to match, or a wake that a courier can      *)
(* claim or has handed to the gateway: an insert never misses a lease that  *)
(* commits beside it, and a claim that runs out takes no wake with it but   *)
(* one that its courier came to only afterwards and failed unsent.          *)
NoWakeLost ==
    \A e \in Event \ overdue :
        Owed(e) => job[e].st # "none" \/ OnItsWay(<<lease.endpoint, e>>)

(* A device is rung once for one event, whoever claims the wake again and   *)
(* whichever answer was lost, and once more for each answer of APNs that    *)
(* never reached the gateway, which then takes back the request id.         *)
NeverRungTwice == \A w \in Wake : woken[w] <= 1 + unheard[w]

(* A job leaves the queue and a wake that is owed is delivered or given up. *)
EverySettles ==
    \A e \in Event :
        /\ job[e].st # "none" ~> job[e].st = "none"
        /\ Owed(e) ~> (~Owed(e) \/ wake[<<lease.endpoint, e>>].st \in {"delivered", "failed"})
=============================================================================
