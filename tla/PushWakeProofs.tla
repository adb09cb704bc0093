--------------------------- MODULE PushWakeProofs ---------------------------
(***************************************************************************)
(* Proofs about push wakes for any number of events, endpoints, relays and *)
(* gateway requests, and any bounds on attempts and faults.                *)
(***************************************************************************)
EXTENDS PushWake, TLAPS

LEMMA RowTypes ==
    /\ NoJob \in Jobs /\ NewJob \in Jobs
    /\ \A row \in Jobs, m \in Matcher :
          Claimed(row, "matching", m) \in Jobs /\ Released(row, "pending") \in Jobs
    /\ \A row \in Wakes, c \in Courier :
          /\ Claimed(row, "sending", c) \in Wakes
          /\ \A st \in {"pending", "delivered", "failed"} : Released(row, st) \in Wakes
    /\ Idle \in Matchers /\ Off \in Couriers
<1>1. NoJob \in Jobs /\ NewJob \in Jobs
  BY DEF NoJob, NewJob, Jobs, Claimants
<1>2. ASSUME NEW row \in Jobs, NEW m \in Matcher
      PROVE  Claimed(row, "matching", m) \in Jobs /\ Released(row, "pending") \in Jobs
  <2>1. /\ row.attempts + 1 \in Nat /\ FALSE \in BOOLEAN
        /\ m \in Claimants /\ Nobody \in Claimants
    BY DEF Jobs, Claimants
  <2>2. Claimed(row, "matching", m) \in Jobs
    BY <2>1 DEF Jobs, Claimed
  <2>3. Released(row, "pending") \in Jobs
    BY <2>1 DEF Jobs, Released
  <2>4. QED
    BY <2>2, <2>3
<1>3. ASSUME NEW row \in Wakes, NEW c \in Courier
      PROVE  /\ Claimed(row, "sending", c) \in Wakes
             /\ \A st \in {"pending", "delivered", "failed"} : Released(row, st) \in Wakes
  <2>1. /\ row.attempts + 1 \in Nat /\ FALSE \in BOOLEAN
        /\ c \in Claimants /\ Nobody \in Claimants
    BY DEF Wakes, Claimants
  <2>2. Claimed(row, "sending", c) \in Wakes
    BY <2>1 DEF Wakes, Claimed
  <2>3. ASSUME NEW st \in {"pending", "delivered", "failed"} PROVE Released(row, st) \in Wakes
    BY <2>1 DEF Wakes, Released
  <2>4. QED
    BY <2>2, <2>3
<1>4. Idle \in Matchers /\ Off \in Couriers
  BY DEF Idle, Off, Matchers, Couriers
<1>5. QED
  BY <1>1, <1>2, <1>3, <1>4

LEMMA TypeInit == Init => TypeOK
<1> SUFFICES ASSUME Init PROVE TypeOK
  OBVIOUS
<1>1. NoWake \in Wakes
  BY DEF NoWake, Wakes, Claimants
<1>2. QED
  BY <1>1, RowTypes DEF Init, TypeOK

LEMMA ClientTypes == TypeOK /\ (Clients \/ Reap \/ \E e \in Event : CommitEvent(e) \/ JobLapses(e)) => TypeOK'
<1> SUFFICES ASSUME TypeOK PROVE
      Clients \/ Reap \/ (\E e \in Event : CommitEvent(e) \/ JobLapses(e)) => TypeOK'
  OBVIOUS
<1> USE DEF relayVars, gatewayVars, ledger
<1>1. ASSUME NEW e \in Event, InsertEvent(e) \/ DeleteEvent(e) PROVE TypeOK'
  BY <1>1 DEF TypeOK, InsertEvent, DeleteEvent
<1>2. ASSUME NEW n \in Endpoint, Activate(n) PROVE TypeOK'
  BY <1>2, RowTypes DEF TypeOK, Activate, Backfilled
<1>3. CASE Revoke \/ LeaseExpires
  <2>t. lease \in [generation: Nat, on: BOOLEAN, endpoint: Endpoint \cup {Nobody}]
    BY DEF TypeOK
  <2>1. lease' \in [generation: Nat, on: BOOLEAN, endpoint: Endpoint \cup {Nobody}]
    <3>1. CASE Revoke
      <4>1. lease.generation + 1 \in Nat
        BY <2>t
      <4>2. QED
        BY <2>t, <3>1, <4>1 DEF Revoke
    <3>2. CASE LeaseExpires
      BY <2>t, <3>2 DEF LeaseExpires
    <3>3. QED
      BY <1>3, <3>1, <3>2
  <2>2. QED
    BY <1>3, <2>1 DEF TypeOK, Revoke, LeaseExpires
<1>4. CASE Reap
  BY <1>4, RowTypes DEF TypeOK, Reap
<1>5. ASSUME NEW e \in Event, CommitEvent(e) PROVE TypeOK'
  BY <1>5, RowTypes DEF TypeOK, CommitEvent
<1>6. ASSUME NEW e \in Event, JobLapses(e) PROVE TypeOK'
  <2>1. [job[e] EXCEPT !.lapsed = TRUE] \in Jobs
    BY DEF TypeOK, Jobs
  <2>2. faults' \in Nat
    BY <1>6 DEF TypeOK, JobLapses, Fault
  <2>3. QED
    BY <1>6, <2>1, <2>2 DEF TypeOK, JobLapses
<1>7. QED
  BY <1>1, <1>2, <1>3, <1>4, <1>5, <1>6 DEF Clients

LEMMA MatcherTypes ==
    ASSUME TypeOK, NEW m \in Matcher, MatcherRuns(m) \/ MatcherFails(m)
    PROVE  TypeOK'
<1> USE DEF relayVars, gatewayVars, ledger
<1>t. /\ job \in [Event -> Jobs] /\ matcher \in [Matcher -> Matchers] /\ matcher[m] \in Matchers
      /\ wake \in [Wake -> Wakes] /\ faults \in Nat
      /\ lease \in [generation: Nat, on: BOOLEAN, endpoint: Endpoint \cup {Nobody}]
  BY DEF TypeOK
<1>0. Fault => faults' \in Nat
  BY <1>t DEF Fault
<1>1. ASSUME NEW batch \in SUBSET Event, ClaimMatches(m, batch) PROVE TypeOK'
  <2>1. [pc |-> "load", batch |-> batch, generation |-> 0] \in Matchers
    BY DEF Matchers
  <2>2. job' \in [Event -> Jobs]
    BY <1>t, <1>1, RowTypes DEF ClaimMatches
  <2>3. QED
    BY <1>1, <2>1, <2>2 DEF TypeOK, ClaimMatches
<1>2. CASE LoadEvents(m)
  <2>1. \A kept \in SUBSET Event : [matcher[m] EXCEPT !.pc = "context", !.batch = kept] \in Matchers
    BY <1>t DEF Matchers
  <2>2. matcher' \in [Matcher -> Matchers]
    <3>1. matcher[m].batch \subseteq Event
      BY <1>t DEF Matchers
    <3>2. QED
      BY <1>2, <1>t, <2>1, <3>1, RowTypes DEF LoadEvents
  <2>3. job' \in [Event -> Jobs]
    BY <1>2, <1>t, RowTypes DEF LoadEvents
  <2>4. QED
    BY <1>2, <2>2, <2>3 DEF TypeOK, LoadEvents
<1>3. CASE LoadContext(m)
  <2>1. \A n \in Nat : [matcher[m] EXCEPT !.pc = "enqueue", !.generation = n] \in Matchers
    BY <1>t DEF Matchers
  <2>2. (IF lease.on THEN lease.generation ELSE 0) \in Nat
    BY <1>t
  <2>3. matcher' \in [Matcher -> Matchers]
    BY <1>3, <1>t, <2>1, <2>2 DEF LoadContext
  <2>4. QED
    BY <1>3, <2>3 DEF TypeOK, LoadContext
<1>4. ASSUME NEW pc \in {"retry", "complete", "settle"}
      PROVE  [matcher[m] EXCEPT !.pc = pc] \in Matchers
  BY <1>t DEF Matchers
<1>5. Enqueued(m) \in [Wake -> Wakes]
  BY <1>t DEF Enqueued, NoWake, Wakes, Claimants
<1>6. CASE Enqueue(m)
  BY <1>6, <1>4, <1>5 DEF TypeOK, Enqueue
<1>7. CASE EnqueueFails(m)
  BY <1>0, <1>7, <1>4, <1>5 DEF TypeOK, EnqueueFails
<1>8. CASE ContextFails(m)
  BY <1>0, <1>8, <1>4 DEF TypeOK, ContextFails
<1>9. CASE CompleteMatches(m) \/ RetryMatches(m)
  <2>1. job' \in [Event -> Jobs]
    BY <1>9, <1>t, RowTypes DEF CompleteMatches, RetryMatches
  <2>2. QED
    BY <1>9, <2>1, RowTypes DEF TypeOK, CompleteMatches, RetryMatches
<1>10. CASE SettleMatches(m)
  <2>1. job' \in [Event -> Jobs] /\ excused' \subseteq Event
    BY <1>10, <1>t, RowTypes DEF SettleMatches, TypeOK
  <2>2. QED
    BY <1>10, <2>1, RowTypes DEF TypeOK, SettleMatches
<1>11. CASE MatcherStops(m)
  BY <1>0, <1>11, RowTypes DEF TypeOK, MatcherStops
<1>12. QED
  BY <1>1, <1>2, <1>3, <1>6, <1>7, <1>8, <1>9, <1>10, <1>11 DEF MatcherRuns, MatcherFails

LEMMA CourierTypes ==
    ASSUME TypeOK, NEW c \in Courier,
           CourierRuns(c) \/ CourierFails(c) \/ \E lost \in BOOLEAN : TimesOut(c, lost)
    PROVE  TypeOK'
<1> USE DEF relayVars, gatewayVars, ledger
<1>t. /\ courier \in [Courier -> Couriers] /\ courier[c] \in Couriers
      /\ wake \in [Wake -> Wakes] /\ faults \in Nat
      /\ lease \in [generation: Nat, on: BOOLEAN, endpoint: Endpoint \cup {Nobody}]
  BY DEF TypeOK
<1>0. Fault => faults' \in Nat
  BY <1>t DEF Fault
<1>1. ASSUME courier[c].pc \notin {"idle", "ready"},
             NEW pc \in {"final", "send", "waiting", "complete", "disable", "again", "retry",
                         "suppressed", "refused"},
             Goto(c, pc)
      PROVE  courier' \in [Courier -> Couriers]
  <2>1. [courier[c] EXCEPT !.pc = pc] \in Couriers
    BY <1>1, <1>t DEF Couriers
  <2>2. QED
    BY <1>1, <1>t, <2>1 DEF Goto
<1>2. Onward(c) => courier' \in [Courier -> Couriers]
  <2>1. [Off EXCEPT !.pc = "ready", !.batch = courier[c].batch] \in Couriers
    BY <1>t DEF Off, Couriers
  <2>2. QED
    BY <1>t, <2>1, RowTypes DEF Onward
<1>3. ASSUME NEW batch \in SUBSET Wake, ClaimWakes(c, batch) PROVE TypeOK'
  <2>1. [Off EXCEPT !.pc = "ready", !.batch = batch] \in Couriers
    BY DEF Off, Couriers
  <2>2. wake' \in [Wake -> Wakes]
    BY <1>t, <1>3, RowTypes DEF ClaimWakes
  <2>3. QED
    BY <1>3, <2>1, <2>2 DEF TypeOK, ClaimWakes
<1>4. ASSUME NEW w \in Wake, Revalidate(c, w) PROVE TypeOK'
  <2>1. \A pc \in {"member", "suppressed"} :
           [pc |-> pc, batch |-> courier[c].batch \ {w}, wake |-> w, attempt |-> 0] \in Couriers
    BY <1>t DEF Couriers
  <2>2. courier' \in [Courier -> Couriers]
    BY <1>4, <1>t, <2>1 DEF Revalidate
  <2>3. QED
    BY <1>4, <2>2 DEF TypeOK, Revalidate
<1>5. CASE IsMember(c) \/ IsNoMember(c) \/ Fenced(c)
  <2>1. courier' \in [Courier -> Couriers]
    BY <1>1, <1>5 DEF IsMember, IsNoMember, Fenced
  <2>2. QED
    BY <1>0, <1>5, <2>1 DEF TypeOK, IsMember, IsNoMember, Fenced
<1>6. CASE FinalCheck(c)
  <2>1. courier[c].wake \in Wake
    BY <1>6, <1>t DEF FinalCheck, Couriers
  <2>2. wake[courier[c].wake].attempts \in Nat
    BY <1>t, <2>1 DEF Wakes
  <2>3. \A pc \in {"send", "suppressed"}, n \in Nat :
           [courier[c] EXCEPT !.pc = pc, !.attempt = n] \in Couriers
    BY <1>t, <2>1 DEF Couriers
  <2>4. courier' \in [Courier -> Couriers]
    BY <1>6, <1>t, <2>2, <2>3 DEF FinalCheck
  <2>5. QED
    BY <1>6, <2>4 DEF TypeOK, FinalCheck
<1>7. CASE Send(c)
  <2>1. Request(c) \in Wake \X Nat
    BY <1>7, <1>t DEF Send, Request, Couriers
  <2>2. courier' \in [Courier -> Couriers]
    BY <1>1, <1>7 DEF Send
  <2>3. QED
    BY <1>7, <2>1, <2>2 DEF TypeOK, Send
<1>8. CASE Receive(c)
  <2>1. \A status, attempt : Verdict(status, attempt) \in {"complete", "disable", "again", "refused"}
    BY DEF Verdict
  <2>2. courier' \in [Courier -> Couriers]
    BY <1>1, <1>8, <2>1 DEF Receive
  <2>3. QED
    BY <1>8, <2>2 DEF TypeOK, Receive
<1>9. ASSUME NEW lost \in BOOLEAN, TimesOut(c, lost) PROVE TypeOK'
  <2>1. courier' \in [Courier -> Couriers]
    BY <1>1, <1>9 DEF TimesOut
  <2>2. wire' \subseteq wire /\ answers' \subseteq answers /\ faults' \in Nat
    BY <1>0, <1>9, <1>t DEF TimesOut
  <2>3. QED
    BY <1>9, <2>1, <2>2 DEF TypeOK, TimesOut
<1>10. CASE DisableEndpoint(c)
  <2>1. courier' \in [Courier -> Couriers]
    BY <1>1, <1>10 DEF DisableEndpoint
  <2>2. lease' \in [generation: Nat, on: BOOLEAN, endpoint: Endpoint \cup {Nobody}]
    BY <1>10, <1>t DEF DisableEndpoint
  <2>3. QED
    BY <1>10, <2>1, <2>2 DEF TypeOK, DisableEndpoint
<1>11. CASE Finish(c)
  <2>1. courier[c].wake \in Wake
    BY <1>11, <1>t DEF Finish, Couriers
  <2>2. Outcome(c) \in {"delivered", "failed", "pending"}
    BY DEF Outcome
  <2>3. wake' \in [Wake -> Wakes]
    BY <1>11, <1>t, <2>1, <2>2, RowTypes DEF Finish
  <2>4. excused' \subseteq Event /\ overdue' \subseteq Event
    BY <1>11, <2>1 DEF Finish, TypeOK, Wake
  <2>5. QED
    BY <1>2, <1>11, <2>3, <2>4 DEF TypeOK, Finish
<1>12. CASE Abandons(c)
  BY <1>0, <1>2, <1>12 DEF TypeOK, Abandons
<1>13. CASE CourierStops(c)
  BY <1>0, <1>13, RowTypes DEF TypeOK, CourierStops
<1>14. QED
  BY <1>3, <1>4, <1>5, <1>6, <1>7, <1>8, <1>9, <1>10, <1>11, <1>12, <1>13
     DEF CourierRuns, CourierFails

LEMMA GatewayTypes ==
    ASSUME TypeOK, NEW r \in Requests, GatewayRuns(r) \/ GatewayFails(r)
    PROVE  TypeOK'
<1> USE DEF relayVars, gatewayVars, ledger
<1>t. /\ r \in Wake \X Nat /\ r[1] \in Wake
      /\ woken \in [Wake -> Nat] /\ unheard \in [Wake -> Nat]
  BY DEF TypeOK, Requests
<1>0. /\ Fault => faults' \in Nat
      /\ \A status : Reply(r, status) => \A a \in answers' : a.request \in Wake \X Nat
  BY <1>t DEF TypeOK, Fault, Reply
<1>1. CASE Admits(r)
  BY <1>1, <1>t DEF TypeOK, Admits
<1>2. CASE Replayed(r) \/ Rejects(r)
  BY <1>0, <1>2 DEF TypeOK, Replayed, Rejects
<1>3. CASE ApnsAccepts(r) \/ GatewayStops(r)
  BY <1>0, <1>3, <1>t DEF TypeOK, ApnsAccepts, GatewayStops
<1>4. CASE ApnsRefuses(r)
  BY <1>0, <1>4 DEF TypeOK, ApnsRefuses
<1>5. CASE ApnsBusy(r)
  <2>1. woken' \in [Wake -> Nat] /\ unheard' \in [Wake -> Nat]
    BY <1>5, <1>t DEF ApnsBusy
  <2>2. permits' \subseteq permits /\ fence' \subseteq fence
    BY <1>5 DEF ApnsBusy
  <2>3. QED
    BY <1>0, <1>5, <2>1, <2>2 DEF TypeOK, ApnsBusy
<1>6. QED
  BY <1>1, <1>2, <1>3, <1>4, <1>5 DEF GatewayRuns, GatewayFails

LEMMA TypeStep == TypeOK /\ [Next]_vars => TypeOK'
<1> SUFFICES ASSUME TypeOK, [Next]_vars PROVE TypeOK'
  OBVIOUS
<1>1. ASSUME NEW w \in Wake, WakeLapses(w) PROVE TypeOK'
  <2>1. [wake[w] EXCEPT !.lapsed = TRUE] \in Wakes
    <3>1. wake[w] \in Wakes
      BY DEF TypeOK
    <3>2. QED
      BY <3>1 DEF Wakes
  <2>2. faults' \in Nat
    BY <1>1 DEF TypeOK, WakeLapses, Fault
  <2>3. QED
    BY <1>1, <2>1, <2>2 DEF TypeOK, WakeLapses, gatewayVars, ledger
<1>2. CASE UNCHANGED vars
  BY <1>2 DEF TypeOK, vars, relayVars, gatewayVars, ledger
<1>3. QED
  BY <1>1, <1>2, ClientTypes, MatcherTypes, CourierTypes, GatewayTypes DEF Next

(* The rows, the batches and the requests keep their types. *)
THEOREM PushTypes == Spec => []TypeOK
BY TypeInit, TypeStep, PTL DEF Spec

-----------------------------------------------------------------------------
(* A device rings once.                                                    *)

(* What the gateway's fence keeps: a request it is sending has burnt its    *)
(* id, an id is being sent once at a time, and an id that rang a device     *)
(* stays burnt and is not being sent, but where the gateway did not hear.   *)
Burnt ==
    /\ \A r \in permits : r[1] \in fence
    /\ \A r, s \in permits : r[1] = s[1] => r = s
    /\ \A w \in Wake : woken[w] # unheard[w] => w \in fence /\ \A r \in permits : r[1] # w

(* Steps outside the gateway. *)
LEMMA GatewayIdle ==
    ASSUME [Next]_vars
    PROVE  \/ UNCHANGED <<fence, permits, woken, unheard>>
           \/ \E r \in Requests : GatewayRuns(r) \/ GatewayFails(r)
<1> USE DEF relayVars, gatewayVars, ledger
<1>1. ASSUME NEW m \in Matcher, MatcherRuns(m) \/ MatcherFails(m)
      PROVE  UNCHANGED <<fence, permits, woken, unheard>>
  BY <1>1 DEF MatcherRuns, MatcherFails, ClaimMatches, LoadEvents, LoadContext, Enqueue,
              CompleteMatches, RetryMatches, SettleMatches, ContextFails, EnqueueFails,
              MatcherStops
<1>2. ASSUME NEW c \in Courier,
             CourierRuns(c) \/ CourierFails(c) \/ \E lost \in BOOLEAN : TimesOut(c, lost)
      PROVE  UNCHANGED <<fence, permits, woken, unheard>>
  BY <1>2 DEF CourierRuns, CourierFails, TimesOut, ClaimWakes, Revalidate, IsMember,
              FinalCheck, Send, Receive, DisableEndpoint, Finish, IsNoMember, Fenced,
              Abandons, CourierStops
<1>3. CASE \/ Clients \/ Reap \/ \E e \in Event : CommitEvent(e) \/ JobLapses(e)
           \/ \E w \in Wake : WakeLapses(w)
  BY <1>3 DEF Clients, Reap, CommitEvent, JobLapses, WakeLapses, InsertEvent, DeleteEvent,
              Activate, Revoke, LeaseExpires
<1>4. CASE UNCHANGED vars
  BY <1>4 DEF vars
<1>5. QED
  BY <1>1, <1>2, <1>3, <1>4 DEF Next

LEMMA BurntStep ==
    TypeOK /\ Burnt /\ NeverRungTwice /\ [Next]_vars => Burnt' /\ NeverRungTwice'
<1> SUFFICES ASSUME TypeOK, Burnt, NeverRungTwice, [Next]_vars
             PROVE  Burnt' /\ NeverRungTwice'
  OBVIOUS
<1>1. CASE UNCHANGED <<fence, permits, woken, unheard>>
  BY <1>1 DEF Burnt, NeverRungTwice
<1>2. ASSUME NEW r \in Requests, GatewayRuns(r) \/ GatewayFails(r)
      PROVE  Burnt' /\ NeverRungTwice'
  <2>t. /\ woken \in [Wake -> Nat] /\ unheard \in [Wake -> Nat]
        /\ permits \subseteq Wake \X Nat
    BY DEF TypeOK
  <2>1. CASE Admits(r)
    BY <2>1 DEF Admits, Burnt, NeverRungTwice
  <2>2. CASE Replayed(r) \/ Rejects(r)
    BY <2>2 DEF Replayed, Rejects, Burnt, NeverRungTwice
  <2>3. ASSUME r \in permits, permits' = permits \ {r}, fence' = fence, unheard' = unheard,
               woken' \in {woken, [woken EXCEPT ![r[1]] = @ + 1]}
        PROVE  Burnt' /\ NeverRungTwice'
    <3>1. woken[r[1]] = unheard[r[1]] /\ r[1] \in fence /\ r[1] \in Wake
      BY <2>3, <2>t DEF Burnt
    <3>2. \A w \in Wake : \/ woken'[w] = woken[w]
                          \/ w = r[1] /\ woken'[w] = 1 + unheard[w]
      BY <2>3, <2>t, <3>1
    <3>3. Burnt'
      BY <2>3, <3>1, <3>2 DEF Burnt
    <3>4. QED
      BY <2>3, <3>2, <3>3, <2>t DEF NeverRungTwice
  <2>4. CASE ApnsAccepts(r) \/ ApnsRefuses(r) \/ GatewayStops(r)
    BY <2>3, <2>4 DEF ApnsAccepts, ApnsRefuses, GatewayStops
  <2>5. CASE ApnsBusy(r)
    <3>1. /\ woken[r[1]] = unheard[r[1]] /\ r \in permits /\ r[1] \in Wake
          /\ permits' = permits \ {r}
      BY <2>5, <2>t DEF Burnt, ApnsBusy
    <3>2. PICK rang \in BOOLEAN, released \in BOOLEAN :
             /\ woken' = IF rang THEN [woken EXCEPT ![r[1]] = @ + 1] ELSE woken
             /\ fence' = IF released THEN fence \ {r[1]} ELSE fence
             /\ unheard' = IF rang /\ released THEN [unheard EXCEPT ![r[1]] = @ + 1] ELSE unheard
      BY <2>5 DEF ApnsBusy
    <3>3. CASE ~released
      BY <2>3, <3>1, <3>2, <3>3
    <3>4. CASE released
      <4>1. \A w \in Wake : \/ woken'[w] = woken[w] /\ unheard'[w] = unheard[w]
                            \/ w = r[1] /\ woken'[w] = unheard'[w] /\ unheard'[w] \in Nat
        BY <2>t, <3>1, <3>2, <3>4
      <4>2. \A w \in Wake : w # r[1] => (w \in fence' <=> w \in fence)
        BY <3>2
      <4>3. \A s \in permits' : s \in permits /\ s[1] # r[1]
        BY <3>1 DEF Burnt
      <4>4. woken'[r[1]] = unheard'[r[1]]
        BY <3>1, <4>1
      <4>5. Burnt'
        <5>1. \A q \in permits' : q[1] \in fence'
          BY <3>2, <4>3 DEF Burnt
        <5>2. \A q, s \in permits' : q[1] = s[1] => q = s
          BY <4>3 DEF Burnt
        <5>3. ASSUME NEW w \in Wake, woken'[w] # unheard'[w]
              PROVE  w \in fence' /\ \A q \in permits' : q[1] # w
          BY <4>1, <4>2, <4>3, <4>4, <5>3 DEF Burnt
        <5>4. QED
          BY <5>1, <5>2, <5>3 DEF Burnt
      <4>6. NeverRungTwice'
        BY <2>t, <4>1 DEF NeverRungTwice
      <4>7. QED
        BY <4>5, <4>6
    <3>5. QED
      BY <3>3, <3>4
  <2>6. QED
    BY <1>2, <2>1, <2>2, <2>4, <2>5 DEF GatewayRuns, GatewayFails
<1>3. QED
  BY <1>1, <1>2, GatewayIdle

(* A device is rung once for one event, and once more for each answer of    *)
(* APNs that the gateway did not get: the request id is burnt before APNs   *)
(* is asked, and released only when APNs seemed not to take it.             *)
THEOREM RungOnce == Spec => []NeverRungTwice
<1>1. Init => Burnt /\ NeverRungTwice
  BY DEF Init, Burnt, NeverRungTwice
<1>2. QED
  BY <1>1, TypeInit, TypeStep, BurntStep, PTL DEF Spec

-----------------------------------------------------------------------------
(* No wake is lost.                                                        *)

(* What no courier came too late for. *)
Due(e) == Owed(e) /\ e \notin overdue

(* The lease's generation only grows: an event was stored, and its wake     *)
(* queued, under this one or an earlier one, the wake after the event.  An  *)
(* insert that is open beside a lease has its job queued.                   *)
Ages ==
    /\ lease.on => lease.generation > 0 /\ lease.endpoint \in Endpoint
    /\ \A e \in Event :
          /\ event[e].generation <= lease.generation
          /\ event[e].st = "inserting" /\ lease.on => event[e].queued
    /\ \A w \in Wake : wake[w].st # "none" =>
          /\ event[w[2]].st \in {"stored", "deleted"}
          /\ wake[w].generation >= event[w[2]].generation
          /\ wake[w].generation <= lease.generation

(* A batch past its loading holds stored events; what it is owed it is      *)
(* about to queue, or has queued.                                           *)
Matching ==
    \A m \in Matcher : \A e \in matcher[m].batch :
        /\ matcher[m].pc \in {"context", "enqueue", "complete"} =>
              event[e].st \in {"stored", "deleted"}
        /\ matcher[m].pc = "enqueue" /\ Due(e) => matcher[m].generation = lease.generation
        /\ matcher[m].pc = "complete" /\ Due(e) => OnItsWay(<<lease.endpoint, e>>)

(* A courier turns down no wake that is current and still claimed. *)
Carrying ==
    \A c \in Courier, w \in Wake :
        courier[c].pc = "suppressed" /\ courier[c].wake = w /\ Holds(c, w) =>
            wake[w].lapsed \/ ~Current(w)

(* A wake that was queued and is owed has not failed. *)
OwedWakes ==
    \A e \in Event : Due(e) /\ wake[<<lease.endpoint, e>>].st # "none" =>
        OnItsWay(<<lease.endpoint, e>>)

(* What every step does to the rows: nothing becomes owed, or current,      *)
(* after it was stored, and what is on its way stays on its way.            *)
Steady ==
    /\ \A e \in Event : event[e].st \in {"stored", "deleted"} =>
          /\ event'[e].st \in {"stored", "deleted"}
          /\ Due(e)' => Due(e) /\ lease'.endpoint = lease.endpoint
                                 /\ lease'.generation = lease.generation
          /\ Due(e)' /\ OnItsWay(<<lease.endpoint, e>>) => OnItsWay(<<lease.endpoint, e>>)'
    /\ \A w \in Wake : wake[w].st # "none" /\ Current(w)' => Current(w)

(* Steps that leave the rows alone. *)
RowsKept ==
    /\ UNCHANGED <<lease, event, wake>>
    /\ excused \subseteq excused' /\ overdue \subseteq overdue'

LEMMA RowSteps ==
    ASSUME [Next]_vars
    PROVE  \/ RowsKept
           \/ (\E n \in Endpoint : Activate(n)) \/ Revoke \/ LeaseExpires
           \/ \E c \in Courier : DisableEndpoint(c) \/ Finish(c)
                                 \/ \E batch \in SUBSET Wake : ClaimWakes(c, batch)
           \/ \E e \in Event : InsertEvent(e) \/ CommitEvent(e) \/ DeleteEvent(e)
           \/ \E m \in Matcher : Enqueue(m) \/ EnqueueFails(m)
           \/ \E w \in Wake : WakeLapses(w)
<1> USE DEF relayVars, gatewayVars, ledger
<1>1. ASSUME NEW m \in Matcher, MatcherRuns(m) \/ MatcherFails(m),
             ~Enqueue(m), ~EnqueueFails(m)
      PROVE  RowsKept
  BY <1>1 DEF RowsKept, MatcherRuns, MatcherFails, ClaimMatches, LoadEvents, LoadContext,
              CompleteMatches, RetryMatches, SettleMatches, ContextFails, MatcherStops
<1>2. ASSUME NEW c \in Courier,
             CourierRuns(c) \/ CourierFails(c) \/ \E lost \in BOOLEAN : TimesOut(c, lost),
             ~DisableEndpoint(c), ~Finish(c), \A batch \in SUBSET Wake : ~ClaimWakes(c, batch)
      PROVE  RowsKept
  BY <1>2 DEF RowsKept, CourierRuns, CourierFails, TimesOut, Revalidate, IsMember,
              FinalCheck, Send, Receive, IsNoMember, Fenced, Abandons, CourierStops
<1>3. ASSUME NEW r \in Requests, GatewayRuns(r) \/ GatewayFails(r) PROVE RowsKept
  BY <1>3 DEF RowsKept, GatewayRuns, GatewayFails, Admits, Replayed, ApnsAccepts, Rejects,
              ApnsRefuses, ApnsBusy, GatewayStops
<1>4. CASE Reap \/ \E e \in Event : JobLapses(e)
  BY <1>4 DEF RowsKept, Reap, JobLapses
<1>5. CASE UNCHANGED vars
  BY <1>5 DEF RowsKept, vars
<1>6. QED
  BY <1>1, <1>2, <1>3, <1>4, <1>5 DEF Next, Clients

LEMMA SteadyStep ==
    ASSUME TypeOK, Ages, Carrying, Matching, OwedWakes, [Next]_vars
    PROVE  Steady /\ Ages' /\ OwedWakes'
<1> USE DEF ledger
<1>t. /\ lease \in [generation: Nat, on: BOOLEAN, endpoint: Endpoint \cup {Nobody}]
      /\ event \in [Event -> [st: {"none", "inserting", "stored", "deleted"}, queued: BOOLEAN,
                              generation: Nat]]
      /\ wake \in [Wake -> Wakes]
  BY DEF TypeOK
<1>0. CASE RowsKept
  BY <1>0 DEF RowsKept, Steady, Ages, OwedWakes, Due, Owed, OnItsWay, Current
<1>w. /\ \A w \in Wake : w[2] \in Event /\ wake[w] \in Wakes
      /\ \A e \in Event : Due(e) =>
            /\ <<lease.endpoint, e>> \in Wake
            /\ wake[<<lease.endpoint, e>>].st # "none" => Current(<<lease.endpoint, e>>)
  BY <1>t DEF Wake, Wakes, Ages, Due, Owed, Current
<1>1. ASSUME UNCHANGED <<event, wake, excused, overdue>>,
             lease' \in [generation: Nat, on: BOOLEAN, endpoint: Endpoint \cup {Nobody}],
             lease'.generation >= lease.generation,
             lease'.on => \/ lease' = lease
                          \/ /\ lease'.generation = lease.generation + 1
                             /\ lease'.endpoint \in Endpoint
                             /\ \A e \in Event : event[e].st # "inserting"
      PROVE  Steady /\ Ages' /\ OwedWakes'
  <2>1. Ages'
    BY <1>1, <1>t, <1>w DEF Ages, Wakes
  <2>2. \A e \in Event : Due(e)' => Due(e) /\ lease' = lease
    BY <1>1, <1>t DEF Due, Owed, Ages
  <2>3. \A w \in Wake : wake[w].st # "none" /\ Current(w)' => Current(w)
    BY <1>1, <1>t, <1>w DEF Current, Ages, Wakes
  <2>4. QED
    BY <1>1, <2>1, <2>2, <2>3 DEF Steady, OwedWakes, OnItsWay, Due, Owed
<1>2. CASE (\E n \in Endpoint : Activate(n)) \/ Revoke \/ LeaseExpires
           \/ \E c \in Courier : DisableEndpoint(c)
  <2>1. lease' \in [generation: Nat, on: BOOLEAN, endpoint: Endpoint \cup {Nobody}]
    BY TypeStep DEF TypeOK
  <2>2. UNCHANGED <<event, wake, excused, overdue>>
    BY <1>2 DEF Activate, Revoke, LeaseExpires, DisableEndpoint
  <2>3. ASSUME NEW n \in Endpoint, Activate(n) PROVE Steady /\ Ages' /\ OwedWakes'
    BY <1>1, <1>t, <2>1, <2>2, <2>3 DEF Activate
  <2>4. CASE Revoke \/ LeaseExpires
    <3>1. lease'.generation >= lease.generation /\ ~lease'.on
      <4>1. CASE Revoke
        <5>1. lease.generation + 1 \in Nat
          BY <1>t
        <5>2. lease'.generation = lease.generation + 1 /\ lease'.on = FALSE
          BY <1>t, <4>1 DEF Revoke
        <5>3. QED
          BY <1>t, <5>2
      <4>2. CASE LeaseExpires
        <5>1. lease'.generation = lease.generation /\ lease'.on = FALSE
          BY <1>t, <4>2 DEF LeaseExpires
        <5>2. QED
          BY <1>t, <5>1
      <4>3. QED
        BY <2>4, <4>1, <4>2
    <3>2. QED
      BY <1>1, <2>1, <2>2, <3>1
  <2>5. ASSUME NEW c \in Courier, DisableEndpoint(c) PROVE Steady /\ Ages' /\ OwedWakes'
    <3>1. /\ lease'.generation = lease.generation /\ lease'.endpoint = lease.endpoint
          /\ lease'.on => lease.on
      BY <1>t, <2>5 DEF DisableEndpoint
    <3>2. lease'.on => lease' = lease
      BY <1>t, <2>1, <3>1
    <3>3. QED
      BY <1>1, <1>t, <2>1, <2>2, <3>1, <3>2
  <2>6. QED
    BY <1>2, <2>3, <2>4, <2>5
<1>3. ASSUME NEW e \in Event, InsertEvent(e) \/ CommitEvent(e) PROVE Steady /\ Ages' /\ OwedWakes'
  <2>1. /\ UNCHANGED <<lease, wake, excused, overdue>>
        /\ event[e].st \in {"none", "inserting"}
        /\ event'[e].st = "inserting" => event'[e].queued = lease.on
        /\ event'[e].generation <= lease.generation
        /\ \A x \in Event : x # e => event'[x] = event[x]
    BY <1>3, <1>t DEF InsertEvent, CommitEvent, Ages
  <2>2. \A w \in Wake : wake[w].st # "none" => w[2] # e
    BY <2>1 DEF Ages
  <2>3. QED
    BY <1>w, <2>1, <2>2 DEF Steady, Ages, OwedWakes, Due, Owed, OnItsWay, Current, Wake
<1>4. ASSUME NEW e \in Event, DeleteEvent(e) PROVE Steady /\ Ages' /\ OwedWakes'
  <2>1. /\ UNCHANGED <<lease, wake, excused, overdue>>
        /\ event'[e].st = "deleted" /\ event'[e].generation = event[e].generation
        /\ \A x \in Event : x # e => event'[x] = event[x]
    BY <1>4, <1>t DEF DeleteEvent
  <2>2. QED
    BY <1>w, <2>1 DEF Steady, Ages, OwedWakes, Due, Owed, OnItsWay, Current
<1>5. ASSUME NEW m \in Matcher, Enqueue(m) \/ EnqueueFails(m) PROVE Steady /\ Ages' /\ OwedWakes'
  <2>1. /\ UNCHANGED <<lease, event, excused, overdue>>
        /\ \A x \in matcher[m].batch : event[x].st \in {"stored", "deleted"}
    BY <1>5 DEF Enqueue, EnqueueFails, Matching
  <2>2. ASSUME NEW w \in Wake
        PROVE  \/ wake'[w] = wake[w]
               \/ /\ wake[w].st = "none" /\ wake'[w].st = "pending"
                  /\ wake'[w].generation = lease.generation
                  /\ w[2] \in matcher[m].batch
    BY <1>5 DEF Enqueue, EnqueueFails, Enqueued, NoWake
  <2>3. QED
    BY <1>t, <1>w, <2>1, <2>2 DEF Steady, Ages, OwedWakes, Due, Owed, OnItsWay, Current
<1>6. ASSUME UNCHANGED <<lease, event>>, excused \subseteq excused', overdue \subseteq overdue',
             \A w \in Wake :
                /\ wake'[w].generation = wake[w].generation
                /\ wake'[w].st = "none" <=> wake[w].st = "none"
                /\ wake[w].st = "delivered" => wake'[w].st = "delivered"
                /\ wake[w].st \in {"pending", "sending"} =>
                      \/ wake'[w].st \in {"pending", "sending", "delivered"}
                      \/ w[2] \in excused' \cup overdue' \/ ~Current(w)
      PROVE  Steady /\ Ages' /\ OwedWakes'
  <2>1. Ages'
    BY <1>6 DEF Ages
  <2>2. \A e \in Event : Due(e)' => Due(e)
    BY <1>6 DEF Due, Owed
  <2>3. \A w \in Wake : Current(w)' => Current(w)
    BY <1>6 DEF Current
  <2>4. ASSUME NEW e \in Event, Due(e)', OnItsWay(<<lease.endpoint, e>>)
        PROVE  OnItsWay(<<lease.endpoint, e>>)'
    <3> DEFINE w == <<lease.endpoint, e>>
    <3>1. w \in Wake /\ w[2] = e /\ wake[w].st # "none" /\ e \notin excused' \cup overdue'
      BY <1>w, <2>2, <2>4 DEF OnItsWay, Due, Owed
    <3>2. Current(w)
      BY <1>w, <2>2, <2>4, <3>1
    <3>3. QED
      BY <1>6, <2>4, <3>1, <3>2 DEF OnItsWay
  <2>5. QED
    BY <1>6, <1>w, <2>1, <2>2, <2>3, <2>4 DEF Steady, OwedWakes
<1>7. ASSUME NEW c \in Courier, NEW batch \in SUBSET Wake, ClaimWakes(c, batch)
      PROVE  Steady /\ Ages' /\ OwedWakes'
  <2>1. \A w \in Wake : \/ wake'[w] = wake[w]
                        \/ /\ wake[w].st \in {"pending", "sending"} /\ wake'[w].st = "sending"
                           /\ wake'[w].generation = wake[w].generation
    BY <1>7, <1>w DEF ClaimWakes, Claimable, Claimed, Wakes
  <2>2. QED
    BY <1>6, <1>7, <2>1 DEF ClaimWakes
<1>8. ASSUME NEW w \in Wake, WakeLapses(w) PROVE Steady /\ Ages' /\ OwedWakes'
  <2>1. \A x \in Wake : wake'[x].st = wake[x].st /\ wake'[x].generation = wake[x].generation
    BY <1>8, <1>t, <1>w DEF WakeLapses, Wakes
  <2>2. QED
    BY <1>6, <1>8, <2>1 DEF WakeLapses
<1>9. ASSUME NEW c \in Courier, Finish(c) PROVE Steady /\ Ages' /\ OwedWakes'
  <2> DEFINE w == courier[c].wake
  <2>1. w \in Wake
    BY <1>9 DEF Finish, TypeOK, Couriers
  <2>2. CASE ~Holds(c, w)
    BY <1>0, <1>9, <2>2 DEF Finish, RowsKept
  <2>3. CASE Holds(c, w)
    <3>1. /\ \A x \in Wake \ {w} : wake'[x] = wake[x]
          /\ wake'[w].st = Outcome(c) /\ wake'[w].generation = wake[w].generation
          /\ wake[w].st = "sending"
      BY <1>9, <1>t, <1>w, <2>1, <2>3 DEF Finish, Released, Holds, Wakes
    <3>2. \/ Outcome(c) \in {"pending", "delivered"}
          \/ w[2] \in excused' \cup overdue' \/ ~Current(w)
      BY <1>9, <2>1, <2>3 DEF Outcome, Finish, Carrying
    <3>3. Outcome(c) \in {"pending", "delivered", "failed"}
      BY DEF Outcome
    <3>4. UNCHANGED <<lease, event>> /\ excused \subseteq excused' /\ overdue \subseteq overdue'
      BY <1>9 DEF Finish
    <3>5. QED
      BY <1>6, <3>1, <3>2, <3>3, <3>4
  <2>4. QED
    BY <2>2, <2>3
<1>10. QED
  BY <1>0, <1>2, <1>3, <1>4, <1>5, <1>7, <1>8, <1>9, RowSteps

LEMMA MatchingStep ==
    ASSUME TypeOK, Ages, Matching, OwedWakes, Steady, [Next]_vars
    PROVE  Matching'
<1> USE DEF relayVars, gatewayVars, ledger
<1>t. /\ matcher \in [Matcher -> Matchers]
      /\ event \in [Event -> [st: {"none", "inserting", "stored", "deleted"}, queued: BOOLEAN,
                              generation: Nat]]
  BY DEF TypeOK
<1>b. \A m \in Matcher : matcher[m] \in Matchers /\ matcher[m].batch \subseteq Event
  BY <1>t DEF Matchers
(* A matcher that does not move keeps its promise. *)
<1>0. ASSUME NEW q \in Matcher, matcher'[q] = matcher[q] \/ matcher'[q].batch = {}
      PROVE  \A e \in matcher'[q].batch :
                /\ matcher'[q].pc \in {"context", "enqueue", "complete"} =>
                      event'[e].st \in {"stored", "deleted"}
                /\ matcher'[q].pc = "enqueue" /\ Due(e)' =>
                      matcher'[q].generation = lease'.generation
                /\ matcher'[q].pc = "complete" /\ Due(e)' => OnItsWay(<<lease.endpoint, e>>)'
  BY <1>0, <1>b DEF Matching, Steady
<1>1. ASSUME NEW m \in Matcher, NEW l, matcher' = [matcher EXCEPT ![m] = l],
             l.batch = {} \/ l.pc \notin {"context", "enqueue", "complete"}
      PROVE  Matching'
  <2>1. \A q \in Matcher : q # m => matcher'[q] = matcher[q]
    BY <1>1, <1>t
  <2>2. matcher'[m] = l
    BY <1>1, <1>t
  <2>3. QED
    BY <1>0, <1>1, <2>1, <2>2 DEF Matching
<1>2. ASSUME NEW m \in Matcher, LoadEvents(m) PROVE Matching'
  <2> DEFINE kept == matcher[m].batch \ {e \in matcher[m].batch : event[e].st # "stored"}
             l == [matcher[m] EXCEPT !.pc = "context", !.batch = kept]
  <2>1. CASE kept = {}
    <3>1. matcher' = [matcher EXCEPT ![m] = Idle] /\ Idle.batch = {}
      BY <1>2, <2>1 DEF LoadEvents, Idle
    <3>2. QED
      BY <1>1, <3>1
  <2>2. CASE kept # {}
    <3>1. matcher' = [matcher EXCEPT ![m] = l] /\ UNCHANGED event
      BY <1>2, <1>t, <2>2 DEF LoadEvents
    <3>2. l.pc = "context" /\ l.batch = kept
      BY <1>b DEF Matchers
    <3>3. matcher'[m].pc = "context" /\ matcher'[m].batch = kept
      BY <1>t, <3>1, <3>2
    <3>4. \A q \in Matcher : q # m => matcher'[q] = matcher[q]
      BY <1>t, <3>1
    <3>5. QED
      BY <1>0, <3>1, <3>3, <3>4 DEF Matching
  <2>3. QED
    BY <2>1, <2>2
<1>3. ASSUME NEW m \in Matcher, LoadContext(m) PROVE Matching'
  <2>1. /\ \A q \in Matcher : q # m => matcher'[q] = matcher[q]
        /\ matcher'[m].pc = "enqueue" /\ matcher'[m].batch = matcher[m].batch
        /\ lease.on => matcher'[m].generation = lease.generation
        /\ matcher[m].pc = "context"
        /\ UNCHANGED <<lease, event, excused, overdue>>
    BY <1>3, <1>t, <1>b DEF LoadContext, Matchers
  <2>2. QED
    BY <1>0, <2>1 DEF Matching, Due, Owed
<1>4. ASSUME NEW m \in Matcher, Enqueue(m) PROVE Matching'
  <2>1. /\ \A q \in Matcher : q # m => matcher'[q] = matcher[q]
        /\ matcher'[m].pc = "complete" /\ matcher'[m].batch = matcher[m].batch
        /\ matcher[m].pc = "enqueue"
        /\ UNCHANGED <<lease, event, excused, overdue>>
        /\ wake' = Enqueued(m)
    BY <1>4, <1>t, <1>b DEF Enqueue, Matchers
  <2>2. ASSUME NEW e \in matcher[m].batch, Due(e) PROVE OnItsWay(<<lease.endpoint, e>>)'
    <3> DEFINE w == <<lease.endpoint, e>>
    <3>1. /\ w \in Wake /\ w[1] = lease.endpoint /\ w[2] = e
          /\ lease.on /\ lease.generation = matcher[m].generation
      BY <1>b, <2>1, <2>2 DEF Matching, Due, Owed, Ages, Wake
    <3>2. CASE wake[w].st = "none"
      BY <2>1, <3>1, <3>2 DEF Enqueued, NoWake, OnItsWay
    <3>3. CASE wake[w].st # "none"
      <4>1. OnItsWay(w)
        BY <1>b, <2>2, <3>3 DEF OwedWakes
      <4>2. wake'[w] = wake[w]
        BY <2>1, <3>1, <3>3 DEF Enqueued
      <4>3. QED
        BY <2>1, <4>1, <4>2 DEF OnItsWay
    <3>4. QED
      BY <3>2, <3>3
  <2>3. QED
    BY <1>0, <2>1, <2>2 DEF Matching, Due, Owed
<1>5. ASSUME NEW m \in Matcher, ContextFails(m) \/ EnqueueFails(m) PROVE Matching'
  <2>1. /\ \A q \in Matcher : q # m => matcher'[q] = matcher[q]
        /\ matcher'[m].pc \in {"retry", "settle"}
    BY <1>5, <1>t, <1>b DEF ContextFails, EnqueueFails, Matchers
  <2>2. QED
    BY <1>0, <2>1 DEF Matching
<1>6. ASSUME NEW m \in Matcher,
             \/ \E batch \in SUBSET Event : ClaimMatches(m, batch)
             \/ CompleteMatches(m) \/ RetryMatches(m) \/ SettleMatches(m) \/ MatcherStops(m)
      PROVE  Matching'
  <2>1. Idle.batch = {}
    BY DEF Idle
  <2>2. QED
    BY <1>1, <1>6, <2>1 DEF ClaimMatches, CompleteMatches, RetryMatches, SettleMatches,
                            MatcherStops
<1>7. CASE UNCHANGED matcher
  BY <1>0, <1>7 DEF Matching
<1>8. ASSUME NEW c \in Courier,
             CourierRuns(c) \/ CourierFails(c) \/ \E lost \in BOOLEAN : TimesOut(c, lost)
      PROVE  UNCHANGED matcher
  BY <1>8 DEF CourierRuns, CourierFails, TimesOut, ClaimWakes, Revalidate, IsMember,
              FinalCheck, Send, Receive, DisableEndpoint, Finish, IsNoMember, Fenced,
              Abandons, CourierStops
<1>9. ASSUME NEW r \in Requests, GatewayRuns(r) \/ GatewayFails(r) PROVE UNCHANGED matcher
  BY <1>9 DEF GatewayRuns, GatewayFails, Admits, Replayed, ApnsAccepts, Rejects,
              ApnsRefuses, ApnsBusy, GatewayStops
<1>10. CASE \/ Clients \/ Reap \/ \E e \in Event : CommitEvent(e) \/ JobLapses(e)
            \/ \E w \in Wake : WakeLapses(w)
            \/ UNCHANGED vars
  <2>1. UNCHANGED matcher
    BY <1>10 DEF Clients, Reap, CommitEvent, JobLapses, WakeLapses, InsertEvent, DeleteEvent,
                 Activate, Revoke, LeaseExpires, vars
  <2>2. QED
    BY <1>7, <2>1
<1>11. QED
  BY <1>2, <1>3, <1>4, <1>5, <1>6, <1>7, <1>8, <1>9, <1>10 DEF Next, MatcherRuns, MatcherFails

LEMMA CarryingStep ==
    ASSUME TypeOK, Carrying, Steady, [Next]_vars
    PROVE  Carrying'
<1> USE DEF relayVars, gatewayVars, ledger
<1>t. courier \in [Courier -> Couriers] /\ wake \in [Wake -> Wakes]
  BY DEF TypeOK
<1>c. \A c \in Courier : courier[c] \in Couriers
  BY <1>t
<1>w. \A w \in Wake : wake[w] \in Wakes
  BY <1>t
(* A courier that does not begin to turn a wake down, and the wakes that    *)
(* stay in its hands.                                                       *)
<1>0. ASSUME \A c \in Courier, w \in Wake :
                courier'[c].pc = "suppressed" /\ courier'[c].wake = w /\ Holds(c, w)' =>
                   /\ courier[c].pc = "suppressed" /\ courier[c].wake = w
                   /\ Holds(c, w) /\ (wake[w].lapsed => wake'[w].lapsed)
      PROVE  Carrying'
  BY <1>0 DEF Carrying, Holds, Steady
<1>1. ASSUME NEW c \in Courier, NEW l, courier' = [courier EXCEPT ![c] = l], UNCHANGED wake,
             l.pc = "suppressed" =>
                ~Holds(c, l.wake) \/ wake[l.wake].lapsed \/ ~Current(l.wake)
      PROVE  Carrying'
  <2>1. courier'[c] = l /\ \A q \in Courier : q # c => courier'[q] = courier[q]
    BY <1>1, <1>t
  <2>2. QED
    BY <1>1, <2>1 DEF Carrying, Holds, Steady
<1>2. ASSUME NEW c \in Courier, NEW pc, Goto(c, pc), UNCHANGED wake, pc # "suppressed"
      PROVE  Carrying'
  <2>1. courier'[c].pc = pc /\ \A q \in Courier : q # c => courier'[q] = courier[q]
    BY <1>2, <1>t, <1>c DEF Goto, Couriers
  <2>2. QED
    BY <1>0, <1>2, <2>1 DEF Holds
<1>3. ASSUME NEW c \in Courier, NEW w \in Wake, Revalidate(c, w) PROVE Carrying'
  <2> DEFINE l == [pc |-> IF Deliverable(c, w) THEN "member" ELSE "suppressed",
                   batch |-> courier[c].batch \ {w}, wake |-> w, attempt |-> 0]
  <2>1. courier' = [courier EXCEPT ![c] = l] /\ UNCHANGED wake
    BY <1>3, <1>t DEF Revalidate
  <2>2. l.wake = w /\ (l.pc = "suppressed" => ~Deliverable(c, w))
    OBVIOUS
  <2> HIDE DEF l
  <2>3. QED
    BY <1>1, <2>1, <2>2 DEF Deliverable
<1>4. ASSUME NEW c \in Courier, FinalCheck(c) PROVE Carrying'
  <2> DEFINE w == courier[c].wake
             l == [courier[c] EXCEPT !.pc = IF Deliverable(c, w) THEN "send" ELSE "suppressed",
                                     !.attempt = wake[w].attempts]
  <2>1. courier' = [courier EXCEPT ![c] = l] /\ UNCHANGED wake
    BY <1>4, <1>t DEF FinalCheck
  <2>2. l.wake = w /\ (l.pc = "suppressed" => ~Deliverable(c, w))
    BY <1>c DEF Couriers
  <2> HIDE DEF l
  <2>3. QED
    BY <1>1, <2>1, <2>2 DEF Deliverable
<1>5. ASSUME NEW c \in Courier, IsMember(c) \/ IsNoMember(c) \/ Fenced(c) \/ Send(c)
                                \/ DisableEndpoint(c) \/ \E lost \in BOOLEAN : TimesOut(c, lost)
      PROVE  Carrying'
  BY <1>2, <1>5 DEF IsMember, IsNoMember, Fenced, Send, DisableEndpoint, TimesOut
<1>6. ASSUME NEW c \in Courier, Receive(c) PROVE Carrying'
  <2>1. \A status, attempt : Verdict(status, attempt) \in {"complete", "disable", "again", "refused"}
    BY DEF Verdict
  <2>2. QED
    BY <1>2, <1>6, <2>1 DEF Receive
<1>7. ASSUME NEW c \in Courier, Onward(c) \/ courier' = [courier EXCEPT ![c] = Off]
      PROVE  /\ courier'[c].pc \in {"idle", "ready"}
             /\ \A q \in Courier : q # c => courier'[q] = courier[q]
  <2> DEFINE l == [Off EXCEPT !.pc = "ready", !.batch = courier[c].batch]
  <2>1. l.pc = "ready" /\ Off.pc = "idle"
    BY DEF Off
  <2>2. \/ courier' = [courier EXCEPT ![c] = l]
        \/ courier' = [courier EXCEPT ![c] = Off]
    BY <1>7 DEF Onward
  <2> HIDE DEF l
  <2>3. QED
    BY <1>t, <2>1, <2>2
<1>8. ASSUME NEW c \in Courier, Abandons(c) \/ CourierStops(c) PROVE Carrying'
  BY <1>0, <1>7, <1>8 DEF Abandons, CourierStops, Holds
<1>9. ASSUME NEW c \in Courier, NEW batch \in SUBSET Wake, ClaimWakes(c, batch) PROVE Carrying'
  <2>1. \A w \in Wake : wake'[w].by = c \/ wake'[w] = wake[w]
    BY <1>9, <1>w DEF ClaimWakes, Claimed, Wakes
  <2>2. /\ courier'[c].pc = "ready"
        /\ \A q \in Courier : q # c => courier'[q] = courier[q]
    BY <1>9, <1>t DEF ClaimWakes, Off
  <2>3. QED
    BY <1>0, <2>1, <2>2 DEF Holds
<1>10. ASSUME NEW c \in Courier, Finish(c) PROVE Carrying'
  <2> DEFINE w == courier[c].wake
  <2>1. w \in Wake
    BY <1>10, <1>c DEF Finish, Couriers
  <2>2. /\ courier'[c].pc \in {"idle", "ready"}
        /\ \A q \in Courier : q # c => courier'[q] = courier[q]
    BY <1>7, <1>10 DEF Finish
  <2>3. \A x \in Wake : wake'[x] = wake[x] \/ wake'[x].st # "sending"
    <3>1. Outcome(c) \in {"delivered", "failed", "pending"}
      BY DEF Outcome
    <3>2. QED
      BY <1>10, <1>t, <1>w, <2>1, <3>1 DEF Finish, Released, Wakes
  <2>4. QED
    BY <1>0, <2>2, <2>3 DEF Holds
<1>11. ASSUME NEW w \in Wake, WakeLapses(w) PROVE Carrying'
  <2>1. /\ UNCHANGED courier
        /\ \A x \in Wake : /\ wake'[x].st = wake[x].st /\ wake'[x].by = wake[x].by
                           /\ wake[x].lapsed => wake'[x].lapsed
    BY <1>11, <1>t, <1>w DEF WakeLapses, Wakes
  <2>2. QED
    BY <1>0, <2>1 DEF Holds
<1>12. ASSUME NEW m \in Matcher, Enqueue(m) \/ EnqueueFails(m) PROVE Carrying'
  <2>1. UNCHANGED courier /\ \A w \in Wake : wake'[w] = wake[w] \/ wake'[w].st = "pending"
    BY <1>12 DEF Enqueue, EnqueueFails, Enqueued, NoWake
  <2>2. QED
    BY <1>0, <2>1 DEF Holds
<1>13. CASE UNCHANGED <<courier, wake>>
  BY <1>0, <1>13 DEF Holds
<1>14. ASSUME NEW m \in Matcher, MatcherRuns(m) \/ MatcherFails(m),
              ~Enqueue(m), ~EnqueueFails(m)
       PROVE  UNCHANGED <<courier, wake>>
  BY <1>14 DEF MatcherRuns, MatcherFails, ClaimMatches, LoadEvents, LoadContext,
               CompleteMatches, RetryMatches, SettleMatches, ContextFails, MatcherStops
<1>15. ASSUME NEW r \in Requests, GatewayRuns(r) \/ GatewayFails(r)
       PROVE  UNCHANGED <<courier, wake>>
  BY <1>15 DEF GatewayRuns, GatewayFails, Admits, Replayed, ApnsAccepts, Rejects,
               ApnsRefuses, ApnsBusy, GatewayStops
<1>16. CASE \/ Clients \/ Reap \/ \E e \in Event : CommitEvent(e) \/ JobLapses(e)
            \/ UNCHANGED vars
  <2>1. UNCHANGED <<courier, wake>>
    BY <1>16 DEF Clients, Reap, CommitEvent, JobLapses, InsertEvent, DeleteEvent, Activate,
                 Revoke, LeaseExpires, vars
  <2>2. QED
    BY <1>13, <2>1
<1>17. QED
  BY <1>3, <1>4, <1>5, <1>6, <1>8, <1>9, <1>10, <1>11, <1>12, <1>13, <1>14, <1>15, <1>16
     DEF Next, CourierRuns, CourierFails

LEMMA LostStep ==
    ASSUME TypeOK, Ages, Matching, NoWakeLost, Steady, [Next]_vars
    PROVE  NoWakeLost'
<1> USE DEF relayVars, gatewayVars, ledger
<1>t. /\ job \in [Event -> Jobs]
      /\ event \in [Event -> [st: {"none", "inserting", "stored", "deleted"}, queued: BOOLEAN,
                              generation: Nat]]
  BY DEF TypeOK
(* Nothing changes for an event whose job stays, or that was given up. *)
<1>0. ASSUME NEW e \in Event, event[e].st \in {"stored", "deleted"},
             job[e].st = "none" \/ job'[e].st # "none" \/ e \in excused'
      PROVE  Due(e)' => job'[e].st # "none" \/ OnItsWay(<<lease.endpoint, e>>)'
  BY <1>0 DEF Steady, NoWakeLost, Due, Owed
<1>1. ASSUME NEW e \in Event, event[e].st \notin {"stored", "deleted"}, event'[e] = event[e]
      PROVE  ~Due(e)'
  BY <1>1 DEF Due, Owed
<1>2. ASSUME \A e \in Event : \/ job[e].st = "none" \/ job'[e].st # "none" \/ e \in excused',
             event' = event
      PROVE  NoWakeLost'
  BY <1>0, <1>1, <1>2 DEF NoWakeLost, Due
<1>3. ASSUME NEW e \in Event, CommitEvent(e) PROVE NoWakeLost'
  <2>1. /\ UNCHANGED lease
        /\ \A x \in Event : x # e => event'[x] = event[x] /\ job'[x] = job[x]
        /\ event[e].queued => job'[e] = NewJob
        /\ event[e].st = "inserting"
        /\ event'[e].st = "stored"
    BY <1>3, <1>t DEF CommitEvent
  <2>2. NewJob.st # "none"
    BY DEF NewJob, NoJob
  <2>3. Due(e)' => job'[e].st # "none"
    BY <2>1, <2>2 DEF Due, Owed, Ages
  <2>4. QED
    BY <1>0, <1>1, <2>1, <2>3 DEF NoWakeLost, Due
<1>4. ASSUME NEW e \in Event, InsertEvent(e) \/ DeleteEvent(e) PROVE NoWakeLost'
  <2>1. /\ UNCHANGED job
        /\ \A x \in Event : x # e => event'[x] = event[x]
        /\ event'[e].st # "stored"
    BY <1>4, <1>t DEF InsertEvent, DeleteEvent
  <2>2. ~Due(e)'
    BY <2>1 DEF Due, Owed
  <2>3. QED
    BY <1>0, <1>1, <2>1, <2>2 DEF NoWakeLost, Due
<1>5. ASSUME NEW n \in Endpoint, Activate(n) PROVE NoWakeLost'
  <2>1. UNCHANGED event /\ \A e \in Event : job[e].st = "none" \/ job'[e].st # "none"
    BY <1>5 DEF Activate, Backfilled
  <2>2. QED
    BY <1>2, <2>1
<1>6. CASE Reap
  <2>1. /\ UNCHANGED event
        /\ \A e \in Event : job'[e] = job[e] \/ e \in excused'
    BY <1>6 DEF Reap
  <2>2. QED
    BY <1>2, <2>1
<1>7. ASSUME NEW e \in Event, JobLapses(e) PROVE NoWakeLost'
  <2>1. UNCHANGED event /\ \A x \in Event : job'[x].st = job[x].st
    BY <1>7, <1>t DEF JobLapses, Jobs
  <2>2. QED
    BY <1>2, <2>1
<1>8. ASSUME NEW m \in Matcher, NEW batch \in SUBSET Event, ClaimMatches(m, batch)
      PROVE  NoWakeLost'
  <2>1. \A row \in Jobs : Claimed(row, "matching", m).st = "matching"
    BY DEF Claimed, Jobs
  <2>2. UNCHANGED event /\ \A e \in Event : job'[e] = job[e] \/ job'[e].st # "none"
    BY <1>8, <1>t, <2>1 DEF ClaimMatches
  <2>3. QED
    BY <1>2, <2>2
<1>9. ASSUME NEW m \in Matcher, RetryMatches(m) \/ SettleMatches(m) PROVE NoWakeLost'
  <2>1. \A row \in Jobs : Released(row, "pending").st = "pending"
    BY DEF Released, Jobs
  <2>2. /\ UNCHANGED event
        /\ \A e \in Event : job'[e] = job[e] \/ job'[e].st # "none" \/ e \in excused'
    BY <1>9, <1>t, <2>1 DEF RetryMatches, SettleMatches
  <2>3. QED
    BY <1>2, <2>2
<1>10. ASSUME NEW m \in Matcher, LoadEvents(m) PROVE NoWakeLost'
  <2>1. /\ UNCHANGED event
        /\ \A e \in Event : job'[e] = job[e] \/ event[e].st # "stored"
    BY <1>10 DEF LoadEvents
  <2>2. \A e \in Event : event[e].st # "stored" => ~Due(e)'
    BY <2>1 DEF Due, Owed
  <2>3. QED
    BY <1>0, <2>1, <2>2 DEF NoWakeLost, Due
<1>11. ASSUME NEW m \in Matcher, CompleteMatches(m) PROVE NoWakeLost'
  <2>1. /\ UNCHANGED <<lease, event, wake, excused, overdue>>
        /\ \A e \in Event : job'[e] = job[e] \/ e \in matcher[m].batch
        /\ matcher[m].pc = "complete"
    BY <1>11 DEF CompleteMatches, HoldsJob
  <2>2. \A e \in Event : /\ Due(e)' = Due(e)
                         /\ OnItsWay(<<lease.endpoint, e>>)' = OnItsWay(<<lease.endpoint, e>>)
    BY <2>1 DEF Due, Owed, OnItsWay
  <2>3. QED
    BY <2>1, <2>2 DEF NoWakeLost, Due, Matching
<1>12. CASE UNCHANGED <<job, event>>
  BY <1>2, <1>12
<1>13. ASSUME NEW m \in Matcher,
              \/ LoadContext(m) \/ Enqueue(m) \/ MatcherFails(m)
       PROVE  UNCHANGED <<job, event>>
  BY <1>13 DEF MatcherFails, LoadContext, Enqueue, ContextFails, EnqueueFails, MatcherStops
<1>14. ASSUME NEW c \in Courier,
              CourierRuns(c) \/ CourierFails(c) \/ \E lost \in BOOLEAN : TimesOut(c, lost)
       PROVE  UNCHANGED <<job, event>>
  BY <1>14 DEF CourierRuns, CourierFails, TimesOut, ClaimWakes, Revalidate, IsMember,
               FinalCheck, Send, Receive, DisableEndpoint, Finish, IsNoMember, Fenced,
               Abandons, CourierStops
<1>15. ASSUME NEW r \in Requests, GatewayRuns(r) \/ GatewayFails(r)
       PROVE  UNCHANGED <<job, event>>
  BY <1>15 DEF GatewayRuns, GatewayFails, Admits, Replayed, ApnsAccepts, Rejects,
               ApnsRefuses, ApnsBusy, GatewayStops
<1>16. CASE Revoke \/ LeaseExpires \/ (\E w \in Wake : WakeLapses(w)) \/ UNCHANGED vars
  <2>1. UNCHANGED <<job, event>>
    BY <1>16 DEF WakeLapses, Revoke, LeaseExpires, vars
  <2>2. QED
    BY <1>12, <2>1
<1>17. QED
  BY <1>3, <1>4, <1>5, <1>6, <1>7, <1>8, <1>9, <1>10, <1>11, <1>12, <1>13, <1>14, <1>15,
     <1>16 DEF Next, Clients, MatcherRuns

(* A wake that is owed has its job or is on its way, whatever claims run    *)
(* out, fail or commit beside each other, unless a courier came to it only  *)
(* after its claim had run out and failed it: the trigger, the gate lock    *)
(* and the backfill leave no gap, and neither do the jobs and wakes that    *)
(* are claimed again.                                                       *)
THEOREM WakesKept == Spec => []NoWakeLost
<1> DEFINE IInv == /\ TypeOK /\ Ages /\ Matching /\ Carrying /\ OwedWakes
                   /\ NoWakeLost
<1>1. Init => IInv
  <2> SUFFICES ASSUME Init PROVE IInv
    OBVIOUS
  <2>1. Ages /\ Matching /\ Carrying /\ OwedWakes /\ NoWakeLost
    BY DEF Init, Ages, Matching, Carrying, OwedWakes, NoWakeLost, Due, Owed, Idle, Off,
           Holds, NoWake, Wake
  <2>2. QED
    BY <2>1, TypeInit
<1>2. IInv /\ [Next]_vars => IInv'
  BY TypeStep, SteadyStep, MatchingStep, CarryingStep, LostStep
<1>3. QED
  BY <1>1, <1>2, PTL DEF Spec
=============================================================================
