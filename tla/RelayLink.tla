----------------------------- MODULE RelayLink -----------------------------
(***************************************************************************)
(* The connection between an agent harness and its relay.                  *)
(*                                                                         *)
(* Client side (buzz-acp/src/relay.rs): the background task that owns the  *)
(* WebSocket.  It executes the harness's subscribe commands, records and   *)
(* forwards events into a bounded channel, remembers per channel how far   *)
(* it has read, parks subscriptions the relay refuses, and reconnects,     *)
(* asking again for everything `since` what it remembers.                  *)
(*                                                                         *)
(* Relay side (buzz-relay/src/handlers/req.rs, close.rs, connection.rs):   *)
(* one connection's subscriptions.  A REQ is handled by a task of its own, *)
(* which registers the subscription and then sends the stored events the   *)
(* filter asks for, newest first; a CLOSE is handled at once.              *)
(*                                                                         *)
(* An event carries the time its author gave it.  There is no clock: the   *)
(* present is the newest such time, and authors' clocks disagree by at     *)
(* most Drift.                                                             *)
(***************************************************************************)
EXTENDS Integers, Sequences, FiniteSets, FiniteSetsExt

CONSTANTS
    Channel,            \* the channels
    MaxEvents,          \* how many events are published
    MaxStamp,           \* the latest created_at an event is given
    Skew,               \* SINCE_SKEW_SECS
    Drift,              \* how far the authors' clocks disagree
    InboxCap,           \* capacity of the event channel to the harness
    SeenLimit,          \* SEEN_ID_LIMIT
    MaxFaults,          \* bound on stalls, losses, refusals, revocations, and
                        \* events dropped because the channel is full
    MaxAsks             \* bound on the harness's subscribe/unsubscribe commands

ASSUME LinkAssumption ==
    /\ Channel # {}
    /\ MaxEvents \in Nat
    /\ MaxStamp \in Nat \ {0} /\ Skew \in Nat /\ Drift \in 0..Skew
    /\ InboxCap \in Nat \ {0} /\ SeenLimit \in Nat
    /\ MaxFaults \in Nat /\ MaxAsks \in Nat

VARIABLES
    (* the relay *)
    stamp,      \* created_at of each stored event, 0 before it is published
    home,       \* the channel of each stored event
    live,       \* per channel: the `since` of the registered subscription, or -1
    jobs,       \* REQ handlers under way on this connection
    (* the connection *)
    sock,       \* "up", "stuck" (writes fail), "dead" (the peer is gone), "down"
    up,         \* frames on their way to the relay
    down,       \* frames on their way to the client
    (* the background task *)
    phase,      \* where the task is: "loop", "resub", "drain", "postdrain", "offline"
    fresh,      \* is the resubscription running on a new socket?
    todo,       \* channels the running resubscription has still to ask for
    active,     \* active_subscriptions (and active_filters)
    lastSeen,   \* last_seen, 0 when absent
    dropped,    \* channel_dropped_since, 0 when absent
    floor,      \* subscribe_since, 0 when absent
    seen,       \* seen_ids: the two generations
    resubNeeded,\* proactive_resubscribe_needed
    gate,       \* is rate_limit_gate armed?
    parked,     \* rate_limited_pending
    retry,      \* resubscribe_retry
    swallowed,  \* channels drain_post_reconnect failed to ask for on this socket
    (* the harness *)
    inbox,      \* the event channel: events, and the end-of-stream sentinel
    got,        \* how often each event reached the harness
    cmds,       \* the command channel
    subscribed, \* subscribed_channel_ids of the main loop
    faults, asks,    \* how much of the bounds is used
    spoilt      \* history: has a step left the task with the wrong window?

relayVars == <<stamp, home, live, jobs>>
wireVars == <<sock, up, down>>
taskVars == <<phase, fresh, todo, swallowed>>
markVars == <<lastSeen, dropped, floor>>
parkVars == <<gate, parked, retry>>
harnessVars == <<inbox, got, cmds, subscribed>>
budgetVars == <<faults, asks>>

vars == <<stamp, home, live, jobs, sock, up, down, phase, fresh, todo, active,
          lastSeen, dropped, floor, seen, resubNeeded, gate, parked, retry,
          swallowed, inbox, got, cmds, subscribed, faults, asks,
          spoilt>>

Event == 1..MaxEvents      \* in the order of their publication

Unsubscribed == -1
Sentinel == 0

Earlier(s, t) == IF s < t THEN s ELSE t
Later(s, t) == IF s > t THEN s ELSE t

Published == {e \in Event : stamp[e] > 0}

(* The present: the newest time any author has written, from 1. *)
Now == Max({1} \cup {stamp[e] : e \in Published})

Init ==
    /\ stamp = [e \in Event |-> 0]
    /\ home = [e \in Event |-> CHOOSE c \in Channel : TRUE]
    /\ live = [c \in Channel |-> Unsubscribed]
    /\ jobs = {}
    /\ sock = "up" /\ up = <<>> /\ down = <<>>
    /\ phase = "loop" /\ fresh = FALSE /\ todo = {} /\ swallowed = {}
    /\ active = {}
    /\ lastSeen = [c \in Channel |-> 0]
    /\ dropped = [c \in Channel |-> 0]
    /\ floor = [c \in Channel |-> 0]
    /\ seen = [current |-> {}, previous |-> {}]
    /\ resubNeeded = FALSE
    /\ gate = FALSE /\ parked = {} /\ retry = {}
    /\ inbox = <<>> /\ got = [e \in Event |-> 0]
    /\ cmds = <<>> /\ subscribed = {}
    /\ faults = 0 /\ asks = 0 /\ spoilt = FALSE

-----------------------------------------------------------------------------
(* What the task remembers.                                                *)

(* Mutant: rotating forgets both generations. *)
RememberRecent(e) ==
    LET current == seen.current \cup {e}
    IN  IF Cardinality(current) >= SeenLimit \div 2
          THEN [current |-> {}, previous |-> {}]
          ELSE [seen EXCEPT !.current = current]

(* TwoGenDedup::insert: a full generation becomes the previous one. *)
Remember(e) ==
    LET current == seen.current \cup {e}
    IN  IF Cardinality(current) >= SeenLimit \div 2
          THEN [current |-> {}, previous |-> current]
          ELSE [seen EXCEPT !.current = current]

Known(e) == e \in seen.current \cup seen.previous

(* Mutant: a dropped event stays in the dedup set. *)
ForgetNothing(s, e) == s

(* TwoGenDedup::remove. *)
Forget(s, e) == [current |-> s.current \ {e}, previous |-> s.previous \ {e}]

(* The filter's `since` for a remembered time: the skew is subtracted. *)
Since(t) == IF t > Skew THEN t - Skew ELSE 0

(* Mutant: the dropped events' floor is ignored. *)
ChannelSinceLast(c) == IF lastSeen[c] > 0 THEN lastSeen[c] ELSE floor[c]

(* BgState::channel_since. *)
ChannelSince(c) ==
    CASE lastSeen[c] > 0 /\ dropped[c] > 0 -> Earlier(lastSeen[c], dropped[c])
      [] lastSeen[c] > 0 /\ dropped[c] = 0 -> lastSeen[c]
      [] lastSeen[c] = 0 /\ dropped[c] > 0 -> dropped[c]
      [] OTHER -> floor[c]

(* A write succeeds on a working socket; on one whose peer is gone it may   *)
(* succeed too, into nothing, or fail.                                      *)
Writable == sock \in {"up", "dead"}
Unwritable == sock # "up"

Write(frame) == up' = IF sock = "up" THEN Append(up, frame) ELSE up

(* A REQ; `owes` marks one that also asks for events the task dropped. *)
Req(c, since) == [k |-> "req", c |-> c, since |-> Since(since), owes |-> dropped[c] > 0]

(* clear_channel_state, with the removal from active_subscriptions. *)
ForgetChannel(c) ==
    /\ active' = active \ {c}
    /\ lastSeen' = [lastSeen EXCEPT ![c] = 0]
    /\ floor' = [floor EXCEPT ![c] = 0]
    /\ dropped' = [dropped EXCEPT ![c] = 0]
    /\ parked' = parked \ {c}
    /\ retry' = retry \ {c}

Denied(c) == \E i \in 1..Len(down) :
                down[i].k = "closed" /\ down[i].c = c /\ down[i].why = "denied"

(* Is a replay under way: asked for, being read from the store, sent, or    *)
(* denied?                                                                  *)
ReplayUnderWay ==
    \/ \E i \in 1..Len(up) : up[i].k = "req"
    \/ jobs # {}
    \/ \E i \in 1..Len(down) : down[i].k = "event" /\ down[i].replayed
    \/ \E c \in Channel : Denied(c)

MayFail == faults < MaxFaults /\ faults' = faults + 1

(* Nothing of the channel is left: neither in the task's books, nor at the  *)
(* relay, nor on the lines between them, nor among the commands.            *)
Untouched(c) ==
    /\ c \notin active
    /\ lastSeen[c] = 0
    /\ live[c] = Unsubscribed
    /\ \A i \in 1..Len(up) : up[i].c # c
    /\ \A j \in jobs : j.c # c
    /\ \A i \in 1..Len(down) : down[i].k = "event" => home[down[i].e] # c
    /\ \A i \in 1..Len(cmds) : ~(cmds[i].k = "sub" /\ cmds[i].c = c)

(* The steps after which the task may no longer ask for all it misses.      *)
Spoils(cause) == spoilt' = (spoilt \/ cause)

(* The channel is asked for since what the task remembers; once the write   *)
(* returns, the mark of what it dropped is taken for served.                *)
AsksAgain(c) ==
    /\ Writable
    /\ Write(Req(c, ChannelSince(c)))
    /\ dropped' = [dropped EXCEPT ![c] = 0]
    /\ swallowed' = swallowed \ {c}
    /\ Spoils(sock = "dead" /\ dropped[c] > 0)

-----------------------------------------------------------------------------
(* The relay.                                                              *)

(* An event is stored and fanned out to the subscription, if its filter     *)
(* accepts the time.                                                        *)
RelayPublish(c, t) ==
    LET e == Cardinality(Published) + 1 IN
    /\ e \in Event /\ t >= Now - Drift
    /\ stamp' = [stamp EXCEPT ![e] = t]
    /\ home' = [home EXCEPT ![e] = c]
    /\ down' = IF live[c] # Unsubscribed /\ live[c] <= t
                 THEN Append(down, [k |-> "event", e |-> e, replayed |-> FALSE])
                 ELSE down
    /\ UNCHANGED <<live, jobs, sock, up, taskVars, active, markVars, seen,
                   resubNeeded, parkVars, harnessVars, budgetVars, spoilt>>

(* A REQ passes admission and gets a task. *)
RelayAdmits ==
    /\ up # <<>> /\ Head(up).k = "req"
    /\ up' = Tail(up)
    /\ jobs' = jobs \cup {[c |-> Head(up).c, since |-> Head(up).since,
                           registered |-> FALSE]}
    /\ UNCHANGED <<stamp, home, live, sock, down, taskVars, active, markVars, seen,
                   resubNeeded, parkVars, harnessVars, budgetVars, spoilt>>

(* A REQ is refused: over quota, or for a fault such as a database error.   *)
(* A subscription registered earlier under the same id is left alone.  The  *)
(* task asks again, but no longer for what it dropped.                      *)
RelayRefuses(why) ==
    /\ up # <<>> /\ Head(up).k = "req"
    /\ MayFail
    /\ up' = Tail(up)
    /\ down' = Append(down, [k |-> "closed", c |-> Head(up).c, why |-> why])
    /\ Spoils(Head(up).owes)
    /\ UNCHANGED <<relayVars, sock, taskVars, active, markVars, seen,
                   resubNeeded, parkVars, harnessVars, asks>>

(* The task registers the subscription before it reads the store. *)
RelayRegisters(j) ==
    /\ ~j.registered
    /\ live' = [live EXCEPT ![j.c] = j.since]
    /\ jobs' = (jobs \ {j}) \cup {[j EXCEPT !.registered = TRUE]}
    /\ UNCHANGED <<stamp, home, wireVars, taskVars, active, markVars, seen,
                   resubNeeded, parkVars, harnessVars, budgetVars, spoilt>>

NewestFirst(es) ==
    CHOOSE s \in [1..Cardinality(es) -> es] :
        /\ \A i, j \in 1..Cardinality(es) : i # j => s[i] # s[j]
        /\ \A i, j \in 1..Cardinality(es) : i < j => stamp[s[i]] >= stamp[s[j]]

(* It reads the store and sends what it finds, newest first. *)
RelayReplays(j) ==
    /\ j.registered
    /\ jobs' = jobs \ {j}
    /\ LET found == NewestFirst({e \in Published : home[e] = j.c /\ stamp[e] >= j.since})
       IN  down' = down \o [i \in DOMAIN found |->
                               [k |-> "event", e |-> found[i], replayed |-> TRUE]]
    /\ UNCHANGED <<stamp, home, live, sock, up, taskVars, active, markVars, seen,
                   resubNeeded, parkVars, harnessVars, budgetVars, spoilt>>

(* The agent is not a member of the channel any more: a REQ under way is    *)
(* denied, or the registered subscription is evicted.                       *)
RelayDenies(j) ==
    /\ ~j.registered
    /\ MayFail
    /\ jobs' = jobs \ {j}
    /\ down' = Append(down, [k |-> "closed", c |-> j.c, why |-> "denied"])
    /\ UNCHANGED <<stamp, home, live, sock, up, taskVars, active, markVars, seen,
                   resubNeeded, parkVars, harnessVars, asks, spoilt>>

RelayRevokes(c) ==
    /\ live[c] # Unsubscribed
    /\ MayFail
    /\ live' = [live EXCEPT ![c] = Unsubscribed]
    /\ down' = Append(down, [k |-> "closed", c |-> c, why |-> "denied"])
    /\ UNCHANGED <<stamp, home, jobs, sock, up, taskVars, active, markVars, seen,
                   resubNeeded, parkVars, harnessVars, asks, spoilt>>

(* handle_close runs in the reader itself and is acknowledged. *)
RelayCloses ==
    /\ up # <<>> /\ Head(up).k = "close"
    /\ up' = Tail(up)
    /\ live' = [live EXCEPT ![Head(up).c] = Unsubscribed]
    /\ down' = Append(down, [k |-> "closed", c |-> Head(up).c, why |-> "other"])
    /\ UNCHANGED <<stamp, home, jobs, sock, taskVars, active, markVars, seen,
                   resubNeeded, parkVars, harnessVars, budgetVars, spoilt>>

-----------------------------------------------------------------------------
(* The connection.                                                         *)

(* Writes time out and nothing arrives; the socket may recover. *)
LinkStalls ==
    /\ sock = "up"
    /\ MayFail
    /\ sock' = "stuck"
    /\ UNCHANGED <<relayVars, up, down, taskVars, active, markVars, seen,
                   resubNeeded, parkVars, harnessVars, asks, spoilt>>

LinkRecovers ==
    /\ sock = "stuck"
    /\ sock' = "up"
    /\ Spoils(swallowed # {})
    /\ UNCHANGED <<relayVars, up, down, taskVars, active, markVars, seen,
                   resubNeeded, parkVars, harnessVars, budgetVars>>

(* All that was on its way is gone.  A replay comes newest first: cut short *)
(* it has raised the watermark past what it still had to bring.             *)
RelayForgetsConnection ==
    /\ up' = <<>> /\ down' = <<>> /\ jobs' = {}
    /\ live' = [c \in Channel |-> Unsubscribed]
    /\ Spoils(ReplayUnderWay)

(* The peer is gone, and the client has not noticed. *)
LinkDies ==
    /\ sock \in {"up", "stuck"}
    /\ MayFail
    /\ sock' = "dead"
    /\ RelayForgetsConnection
    /\ UNCHANGED <<stamp, home, taskVars, active, markVars, seen,
                   resubNeeded, parkVars, harnessVars, asks>>

-----------------------------------------------------------------------------
(* The background task.                                                    *)

(* The select! arms run only when no proactive resubscription is due. *)
Looping == phase = "loop" /\ ~resubNeeded

(* Leaving for try_autonomous_reconnect or wait_for_reconnect: the socket   *)
(* is given up.                                                             *)
GoOffline ==
    /\ phase' = "offline" /\ sock' = "down" /\ swallowed' = {} /\ fresh' = FALSE
    /\ RelayForgetsConnection
    /\ UNCHANGED todo

(* event_tx.try_send(None): the end-of-stream sentinel, if there is room. *)
SignalTo(q) == IF Len(q) < InboxCap THEN Append(q, Sentinel) ELSE q

(* handle_ws_message, EVENT on a channel subscription: forwarded whether or *)
(* not the channel is still subscribed.                                     *)
ClientReadsEvent ==
    /\ Looping /\ sock = "up" /\ down # <<>> /\ Head(down).k = "event"
    /\ down' = Tail(down)
    /\ LET e == Head(down).e
           c == home[e]
       IN  IF Known(e)
             THEN UNCHANGED <<seen, lastSeen, dropped, resubNeeded, inbox, faults>>
             ELSE /\ lastSeen' = [lastSeen EXCEPT ![c] = Later(@, stamp[e])]
                  /\ IF Len(inbox) < InboxCap
                       THEN /\ seen' = Remember(e)
                            /\ inbox' = Append(inbox, e)
                            /\ UNCHANGED <<dropped, resubNeeded, faults>>
                       ELSE /\ MayFail
                            /\ seen' = Forget(Remember(e), e)
                            /\ dropped' = [dropped EXCEPT ![c] =
                                             IF @ = 0 THEN stamp[e] ELSE Earlier(@, stamp[e])]
                            /\ resubNeeded' = TRUE
                            /\ UNCHANGED inbox
    /\ UNCHANGED <<relayVars, sock, up, taskVars, active, floor, parkVars,
                   got, cmds, subscribed, asks, spoilt>>

(* CLOSED, access denied: the channel is dropped and the socket kept. *)
ClientReadsDenial ==
    /\ Looping /\ sock = "up" /\ down # <<>>
    /\ Head(down).k = "closed" /\ Head(down).why = "denied"
    /\ down' = Tail(down)
    /\ ForgetChannel(Head(down).c)
    /\ UNCHANGED <<relayVars, sock, up, taskVars, seen, resubNeeded, gate,
                   harnessVars, budgetVars, spoilt>>

(* CLOSED, rate-limited: the gate is armed and the channel parked, whether  *)
(* or not it is still subscribed.                                           *)
ClientReadsRateLimit ==
    /\ Looping /\ sock = "up" /\ down # <<>>
    /\ Head(down).k = "closed" /\ Head(down).why = "rate"
    /\ down' = Tail(down)
    /\ gate' = TRUE
    /\ parked' = parked \cup {Head(down).c}
    /\ UNCHANGED <<relayVars, sock, up, taskVars, active, markVars, seen,
                   resubNeeded, retry, harnessVars, budgetVars, spoilt>>

(* CLOSED for any other reason: a channel still active is asked for again. *)
ClientReadsClosed ==
    /\ Looping /\ sock = "up" /\ down # <<>>
    /\ Head(down).k = "closed" /\ Head(down).why = "other"
    /\ down' = Tail(down)
    /\ LET c == Head(down).c
       IN  IF c \in active THEN AsksAgain(c)
                           ELSE UNCHANGED <<up, dropped, swallowed, spoilt>>
    /\ UNCHANGED <<relayVars, sock, phase, fresh, todo, active, lastSeen, floor, seen,
                   resubNeeded, parkVars, harnessVars, budgetVars>>

(* A read error, a write error or a missing pong: the harness is told and   *)
(* the task reconnects by itself.                                           *)
ClientNotices ==
    /\ Looping /\ sock \in {"stuck", "dead"}
    /\ inbox' = SignalTo(inbox)
    /\ GoOffline
    /\ UNCHANGED <<stamp, home, active, markVars, seen, resubNeeded, parkVars,
                   got, cmds, subscribed, budgetVars>>

(* A command's intent, recorded without a socket: apply_command_to_state.   *)
Intent(st, cmd) ==
    CASE cmd.k = "sub" ->
            [st EXCEPT !.active = @ \cup {cmd.c},
                       !.floor[cmd.c] = IF @ = 0 THEN cmd.floor ELSE @]
      [] cmd.k = "unsub" ->
            [active |-> st.active \ {cmd.c},
             lastSeen |-> [st.lastSeen EXCEPT ![cmd.c] = 0],
             floor |-> [st.floor EXCEPT ![cmd.c] = 0],
             dropped |-> [st.dropped EXCEPT ![cmd.c] = 0],
             parked |-> st.parked \ {cmd.c},
             retry |-> st.retry \ {cmd.c}]
      [] OTHER -> st

Intents == [active |-> active, lastSeen |-> lastSeen, floor |-> floor,
            dropped |-> dropped, parked |-> parked, retry |-> retry]

BecomesIntents(st) ==
    /\ active' = st.active /\ lastSeen' = st.lastSeen /\ floor' = st.floor
    /\ dropped' = st.dropped /\ parked' = st.parked /\ retry' = st.retry

(* All the commands of a queue, in order. *)
AllIntents(q) ==
    LET after[i \in 0..Len(q)] ==
            IF i = 0 THEN Intents ELSE Intent(after[i - 1], q[i])
    IN  after[Len(q)]

(* execute_connected_command for a subscription, when the gate is armed,    *)
(* and when the REQ is written.  The time asked for is the last one seen,   *)
(* or else the subscription's floor.                                        *)
SubscribeGated(cmd) ==
    LET st == Intent(Intents, cmd)
    IN  /\ gate
        /\ BecomesIntents([st EXCEPT !.parked = @ \cup {cmd.c}])
        /\ UNCHANGED up

SubscribeSent(cmd) ==
    LET st == Intent(Intents, cmd)
        since == IF lastSeen[cmd.c] > 0 THEN lastSeen[cmd.c] ELSE st.floor[cmd.c]
    IN  /\ ~gate /\ Writable
        /\ Write(Req(cmd.c, since))
        /\ BecomesIntents([st EXCEPT !.parked = @ \ {cmd.c}, !.retry = @ \ {cmd.c}])

(* For an unsubscription: the CLOSE is best effort. *)
UnsubscribeSent(cmd) ==
    /\ IF cmd.c \in active /\ Writable
         THEN Write([k |-> "close", c |-> cmd.c])
         ELSE UNCHANGED up
    /\ ForgetChannel(cmd.c)

Fails(cmd) == cmd.k = "sub" /\ ~gate /\ Unwritable

(* The head of the command queue is executed on the socket. *)
Executes(cmd) ==
    /\ cmds' = Tail(cmds)
    /\ \/ cmd.k = "sub" /\ (SubscribeGated(cmd) \/ SubscribeSent(cmd))
       \/ cmd.k = "unsub" /\ UnsubscribeSent(cmd)
    /\ swallowed' = swallowed \ {cmd.c}
    /\ UNCHANGED <<relayVars, sock, down, phase, fresh, todo, seen, resubNeeded, gate,
                   inbox, got, subscribed, budgetVars, spoilt>>

(* The command arm of the main loop. *)
ClientExecutes ==
    /\ Looping /\ cmds # <<>> /\ Head(cmds).k # "reconnect"
    /\ Executes(Head(cmds))

(* A subscription whose REQ cannot be written is remembered; the socket is  *)
(* given up.                                                                *)
ClientFailsToExecute ==
    /\ Looping /\ cmds # <<>> /\ Fails(Head(cmds))
    /\ BecomesIntents(Intent(Intents, Head(cmds)))
    /\ cmds' = Tail(cmds)
    /\ inbox' = SignalTo(inbox)
    /\ GoOffline
    /\ UNCHANGED <<stamp, home, seen, resubNeeded, gate, got, subscribed, budgetVars>>

(* The harness asked for a reconnection: the socket is given up, whatever   *)
(* its condition.                                                           *)
ClientReconnects ==
    /\ Looping /\ cmds # <<>> /\ Head(cmds).k = "reconnect"
    /\ cmds' = Tail(cmds)
    /\ GoOffline
    /\ UNCHANGED <<stamp, home, active, markVars, seen, resubNeeded, parkVars,
                   inbox, got, subscribed, budgetVars>>

(* Backoff: commands are recorded while there is no socket. *)
ClientAppliesOffline ==
    /\ phase = "offline" /\ cmds # <<>>
    /\ BecomesIntents(Intent(Intents, Head(cmds)))
    /\ cmds' = Tail(cmds)
    /\ UNCHANGED <<relayVars, wireVars, taskVars, seen, resubNeeded, gate,
                   inbox, got, subscribed, budgetVars, spoilt>>

(* do_connect succeeds.  The parking places are rebuilt; the gate stays. *)
ClientConnects ==
    /\ phase = "offline"
    /\ sock' = "up"
    /\ phase' = "resub" /\ fresh' = TRUE /\ todo' = active
    /\ parked' = {} /\ retry' = {}
    /\ UNCHANGED <<relayVars, up, down, swallowed, active, markVars, seen,
                   resubNeeded, gate, harnessVars, budgetVars, spoilt>>

(* The proactive resubscription, on the socket there is. *)
ClientResubscribes ==
    /\ phase = "loop" /\ resubNeeded
    /\ resubNeeded' = FALSE
    /\ phase' = "resub" /\ fresh' = FALSE /\ todo' = active /\ swallowed' = {}
    /\ UNCHANGED <<relayVars, wireVars, active, markVars, seen, parkVars,
                   harnessVars, budgetVars, spoilt>>

(* Mutant: a channel behind the gate is passed over and not parked. *)
SkipsGated(c) ==
    /\ phase = "resub"
    /\ todo' = todo \ {c}
    /\ IF gate THEN UNCHANGED <<up, dropped, swallowed, spoilt>> ELSE AsksAgain(c)
    /\ UNCHANGED <<relayVars, sock, down, phase, fresh, active, lastSeen,
                   floor, seen, resubNeeded, parkVars, harnessVars, budgetVars>>

(* One channel of resubscribe_after_reconnect: parked behind the gate,      *)
(* asked for, or left for a retry.                                          *)
ResubscribesOne(c) ==
    /\ phase = "resub"
    /\ todo' = todo \ {c}
    /\ \/ /\ gate
          /\ parked' = parked \cup {c}
          /\ UNCHANGED <<up, dropped, swallowed, spoilt, retry>>
       \/ /\ ~gate /\ AsksAgain(c)
          /\ UNCHANGED <<parked, retry>>
       \/ /\ ~gate /\ Unwritable
          /\ retry' = retry \cup {c}
          /\ UNCHANGED <<up, dropped, swallowed, spoilt, parked>>
    /\ UNCHANGED <<relayVars, sock, down, phase, fresh, active, lastSeen,
                   floor, seen, resubNeeded, gate, harnessVars, budgetVars>>

(* Then the commands that came in meanwhile: drain_commands. *)
ResubscribedAll ==
    /\ phase = "resub" /\ todo = {}
    /\ phase' = "drain"
    /\ UNCHANGED <<relayVars, wireVars, fresh, todo, swallowed, active, markVars,
                   seen, resubNeeded, parkVars, harnessVars, budgetVars, spoilt>>

Draining == phase \in {"drain", "postdrain"}

DrainExecutes ==
    /\ Draining /\ cmds # <<>> /\ Head(cmds).k # "reconnect"
    /\ Executes(Head(cmds))

(* A stale Reconnect is discarded. *)
DrainSkipsReconnect ==
    /\ Draining /\ cmds # <<>> /\ Head(cmds).k = "reconnect"
    /\ cmds' = Tail(cmds)
    /\ UNCHANGED <<relayVars, wireVars, taskVars, active, markVars, seen, resubNeeded,
                   parkVars, inbox, got, subscribed, budgetVars, spoilt>>

(* A failed write: the rest of the queue is recorded as intent.  Within the *)
(* resubscription the connection is retried; after it, nobody looks at the  *)
(* result and the loop goes on with the same socket.                        *)
DrainFails ==
    /\ Draining /\ cmds # <<>> /\ Fails(Head(cmds))
    /\ BecomesIntents(AllIntents(cmds))
    /\ cmds' = <<>>
    /\ IF phase = "drain"
         THEN /\ GoOffline
              /\ inbox' = IF fresh THEN inbox ELSE SignalTo(inbox)
         ELSE /\ phase' = "loop" /\ fresh' = FALSE
              /\ swallowed' = swallowed \cup
                               {cmds[i].c : i \in {n \in 1..Len(cmds) : cmds[n].k = "sub"}}
              /\ UNCHANGED <<todo, sock, up, down, jobs, live, inbox, spoilt>>
    /\ UNCHANGED <<stamp, home, seen, resubNeeded, gate, got, subscribed, budgetVars>>

Drained ==
    /\ Draining /\ cmds = <<>>
    /\ phase' = IF phase = "drain" /\ fresh THEN "postdrain" ELSE "loop"
    /\ fresh' = (phase = "drain" /\ fresh)
    /\ UNCHANGED <<relayVars, wireVars, todo, swallowed, active, markVars,
                   seen, resubNeeded, parkVars, harnessVars, budgetVars, spoilt>>

(* The main loop's paced drain of the parked channels, once the gate is     *)
(* open: one without a filter is dropped, a failed one stays.               *)
DrainParked(c) ==
    /\ Looping /\ c \in parked /\ ~gate
    /\ \/ /\ c \notin active
          /\ parked' = parked \ {c}
          /\ UNCHANGED <<up, dropped, swallowed, spoilt>>
       \/ /\ c \in active /\ AsksAgain(c)
          /\ parked' = parked \ {c}
    /\ UNCHANGED <<relayVars, sock, down, phase, fresh, todo, active, lastSeen, floor,
                   seen, resubNeeded, gate, retry, harnessVars, budgetVars>>

(* The drain of the failed resubscriptions, when no parked one was sent. *)
DrainRetry(c) ==
    /\ Looping /\ c \in retry
    /\ gate \/ parked = {}
    /\ \/ /\ gate
          /\ parked' = parked \cup {c}
          /\ retry' = retry \ {c}
          /\ UNCHANGED <<up, dropped, swallowed, spoilt>>
       \/ /\ ~gate /\ AsksAgain(c)
          /\ retry' = retry \ {c}
          /\ UNCHANGED parked
    /\ UNCHANGED <<relayVars, sock, down, phase, fresh, todo, active, lastSeen, floor,
                   seen, resubNeeded, gate, harnessVars, budgetVars>>

GateOpens ==
    /\ gate
    /\ gate' = FALSE
    /\ UNCHANGED <<relayVars, wireVars, taskVars, active, markVars, seen, resubNeeded,
                   parked, retry, harnessVars, budgetVars, spoilt>>

-----------------------------------------------------------------------------
(* The harness.                                                            *)

(* The main loop takes the next event; the sentinel makes it ask for a      *)
(* reconnection.                                                            *)
HarnessTakes ==
    /\ inbox # <<>>
    /\ inbox' = Tail(inbox)
    /\ IF Head(inbox) = Sentinel
         THEN cmds' = Append(cmds, [k |-> "reconnect"]) /\ UNCHANGED got
         ELSE got' = [got EXCEPT ![Head(inbox)] = @ + 1] /\ UNCHANGED cmds
    /\ UNCHANGED <<relayVars, wireVars, taskVars, active, markVars, seen, resubNeeded,
                   parkVars, subscribed, budgetVars, spoilt>>

(* The agent is added to, or removed from, a channel.  Added again while    *)
(* something of the earlier subscription is left, it finds the marks of     *)
(* the wrong one.                                                           *)
HarnessSubscribes(c) ==
    /\ c \notin subscribed /\ asks < MaxAsks
    /\ subscribed' = subscribed \cup {c}
    /\ cmds' = Append(cmds, [k |-> "sub", c |-> c, floor |-> Now])
    /\ asks' = asks + 1
    /\ Spoils(~Untouched(c))
    /\ UNCHANGED <<relayVars, wireVars, taskVars, active, markVars, seen, resubNeeded,
                   parkVars, inbox, got, faults>>

HarnessUnsubscribes(c) ==
    /\ asks < MaxAsks
    /\ subscribed' = subscribed \ {c}
    /\ cmds' = Append(cmds, [k |-> "unsub", c |-> c])
    /\ asks' = asks + 1
    /\ UNCHANGED <<relayVars, wireVars, taskVars, active, markVars, seen, resubNeeded,
                   parkVars, inbox, got, faults, spoilt>>

-----------------------------------------------------------------------------
Relay ==
    \/ RelayAdmits
    \/ RelayCloses
    \/ \E j \in jobs : RelayRegisters(j) \/ RelayReplays(j)

Task ==
    \/ ClientReadsEvent \/ ClientReadsDenial \/ ClientReadsRateLimit \/ ClientReadsClosed
    \/ ClientNotices \/ ClientExecutes \/ ClientFailsToExecute \/ ClientReconnects
    \/ ClientAppliesOffline \/ ClientConnects \/ ClientResubscribes
    \/ \E c \in todo : ResubscribesOne(c)
    \/ ResubscribedAll \/ DrainExecutes \/ DrainSkipsReconnect \/ DrainFails \/ Drained
    \/ \E c \in parked : DrainParked(c)
    \/ \E c \in retry : DrainRetry(c)

Faults ==
    \/ \E why \in {"rate", "other"} : RelayRefuses(why)
    \/ \E j \in jobs : RelayDenies(j)
    \/ \E c \in Channel : RelayRevokes(c)
    \/ LinkStalls \/ LinkRecovers \/ LinkDies

Asks == \E c \in Channel : HarnessSubscribes(c) \/ HarnessUnsubscribes(c)

Next ==
    \/ \E c \in Channel, t \in 1..MaxStamp : RelayPublish(c, t)
    \/ Relay
    \/ Faults
    \/ Task
    \/ GateOpens
    \/ HarnessTakes
    \/ Asks

Spec == Init /\ [][Next]_vars

(* The relay's tasks and the background task's loop are scheduled, the gate *)
(* has a deadline, a stalled socket does not stay stalled for ever, and the *)
(* harness keeps taking events.                                             *)
FairSpec ==
    /\ Spec
    /\ WF_vars(Relay) /\ WF_vars(Task) /\ WF_vars(GateOpens)
    /\ WF_vars(LinkRecovers) /\ WF_vars(HarnessTakes)

-----------------------------------------------------------------------------
(* Frames to the relay and to the client, and commands of the harness. *)
Question ==
    [k : {"req"}, c : Channel, since : 0..MaxStamp, owes : BOOLEAN]
        \cup [k : {"close"}, c : Channel]

Response ==
    [k : {"event"}, e : Event, replayed : BOOLEAN]
        \cup [k : {"closed"}, c : Channel, why : {"rate", "other", "denied"}]

Command ==
    [k : {"sub"}, c : Channel, floor : 0..MaxStamp]
        \cup [k : {"unsub"}, c : Channel] \cup [k : {"reconnect"}]

(* The types of the variables; the event channel never holds more than its *)
(* capacity, and the task is offline exactly when it has no socket.         *)
TypeOK ==
    /\ stamp \in [Event -> 0..MaxStamp]
    /\ home \in [Event -> Channel]
    /\ live \in [Channel -> -1..MaxStamp]
    /\ jobs \subseteq [c : Channel, since : 0..MaxStamp, registered : BOOLEAN]
    /\ sock \in {"up", "stuck", "dead", "down"}
    /\ phase \in {"loop", "resub", "drain", "postdrain", "offline"}
    /\ (phase = "offline") = (sock = "down")
    /\ up \in Seq(Question) /\ down \in Seq(Response)
    /\ todo \subseteq Channel /\ active \subseteq Channel
    /\ parked \subseteq Channel /\ retry \subseteq Channel
    /\ lastSeen \in [Channel -> 0..MaxStamp]
    /\ dropped \in [Channel -> 0..MaxStamp]
    /\ floor \in [Channel -> 0..MaxStamp]
    /\ swallowed \subseteq Channel
    /\ {fresh, resubNeeded, gate, spoilt} \subseteq BOOLEAN
    /\ seen \in [current : SUBSET Event, previous : SUBSET Event]
    /\ inbox \in Seq(Event \cup {Sentinel}) /\ Len(inbox) <= InboxCap
    /\ got \in [Event -> Nat]
    /\ cmds \in Seq(Command) /\ subscribed \subseteq Channel
    /\ faults \in 0..MaxFaults /\ asks \in 0..MaxAsks

(* An event the harness is owed: in a subscribed channel the relay has not  *)
(* just denied it, and not before the subscription.                         *)
Owed == {e \in Published : /\ home[e] \in active /\ ~Denied(home[e])
                           /\ stamp[e] >= Since(floor[home[e]])}

InInbox(e) == \E i \in 1..Len(inbox) : inbox[i] = e

Coming(e) ==
    /\ sock \in {"up", "stuck"}
    /\ \/ \E i \in 1..Len(down) : down[i].k = "event" /\ down[i].e = e
       \/ \E j \in jobs : j.c = home[e] /\ j.since <= stamp[e]
       \/ \E i \in 1..Len(up) :
             up[i].k = "req" /\ up[i].c = home[e] /\ up[i].since <= stamp[e]

Closing(c) == \E i \in 1..Len(down) : down[i].k = "closed" /\ down[i].c = c

(* Will the task ask for the channel again? *)
WillAsk(c) ==
    \/ sock # "up"
    \/ resubNeeded
    \/ phase = "resub" /\ c \in todo
    \/ c \in parked \cup retry
    \/ Closing(c)

(* No event is lost: one the harness is owed has reached it or its channel, *)
(* is on its way, or lies in the window of a request still to be made.      *)
NothingLost ==
    \A e \in Owed :
        \/ got[e] > 0 \/ InInbox(e)
        \/ Coming(e)
        \/ WillAsk(home[e]) /\ Since(ChannelSince(home[e])) <= stamp[e]

(* That is so until the connection is lost under a replay, a request that   *)
(* asks for dropped events is refused or written into a dead socket, the    *)
(* harness subscribes again beside what is left of an earlier subscription, *)
(* or a socket recovers on which drain_post_reconnect had failed.           *)
NoEventLost == spoilt \/ NothingLost

(* No event reaches the harness twice while the dedup window holds it. *)
NeverTwice ==
    \A e \in Event : got[e] + Cardinality({i \in 1..Len(inbox) : inbox[i] = e}) <= 1

(* No subscription is silently dead: while the loop runs on a working       *)
(* socket, every active channel is registered at the relay, being asked     *)
(* for, or parked where the loop will find it.  Only the channels that      *)
(* drain_post_reconnect failed to ask for may be none of these.             *)
NoSilentSubscription ==
    (phase = "loop" /\ sock = "up") =>
        \A c \in active \ swallowed :
            \/ live[c] # Unsubscribed
            \/ \E j \in jobs : j.c = c
            \/ \E i \in 1..Len(up) : up[i].k = "req" /\ up[i].c = c
            \/ c \in parked \cup retry
            \/ Closing(c)
            \/ resubNeeded

(* Every event the harness is owed reaches it in the end, or its channel is *)
(* given up, or the window is spoilt.                                       *)
EveryEventArrives ==
    \A e \in Event : (e \in Owed) ~> (got[e] > 0 \/ e \notin Owed \/ spoilt)
=============================================================================
