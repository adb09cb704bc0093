-------------------------- MODULE WorkflowTriggers --------------------------
(***************************************************************************)
(* How workflows are started (buzz-workflow/src/lib.rs over                *)
(* buzz-db/src/workflow.rs).  Every pod of the relay runs the same cron    *)
(* loop: it sleeps, lists the enabled schedules, decides which are due by  *)
(* its own clock, checks the owner's authority, claims the instant in the  *)
(* database, and creates a run.  Channel events start workflows too, from  *)
(* a cached list.  Nothing but the claim's primary key keeps the pods      *)
(* apart, and a pod's memory of what it fired is lost when it restarts.    *)
(*                                                                         *)
(* Time is discrete and every database call is a step of its own.  A pod   *)
(* sleeps for Window and then passes over the list, which takes at most    *)
(* MaxLag.  What runs do once they are created is not modelled.            *)
(***************************************************************************)
EXTENDS Integers, FiniteSets, FiniteSetsExt

CONSTANTS
    Pod,            \* relay processes
    Workflow,       \* the workflows of one channel
    Skew,           \* [Pod -> Nat]: how far a pod's clock is ahead
    Window,         \* the loop's sleep and the width of the cron window (60 s)
    Period,         \* of the cron expressions
    Interval,       \* of the interval triggers
    MaxLag,         \* the longest a pass over the list takes
    MaxTime,        \* bound on time
    MaxEvents,      \* bound on the events that trigger workflows
    MaxUpsets       \* bound on crashes, database errors and departures

ASSUME ScheduleAssumption ==
    /\ IsFiniteSet(Pod) /\ Pod # {}
    /\ Skew \in [Pod -> Nat]
    /\ Window \in Nat \ {0} /\ MaxLag \in Nat
    /\ Period \in Nat /\ Period >= Window
    /\ Interval \in Nat /\ Interval >= Window + MaxLag
    /\ {MaxTime, MaxEvents, MaxUpsets} \subseteq Nat

VARIABLES
    now,        \* the time
    kind,       \* the trigger of each workflow: "cron", "interval" or "event"
    enabled,    \* the workflows that are enabled
    member,     \* the workflows whose owner is a member of the channel
    claims,     \* scheduled_workflow_fires
    runs,       \* workflow_runs: the workflow and what started it
    loop,       \* the cron loop of each pod
    react,      \* the event handler of each pod
    cache,      \* workflow_cache of each pod: the workflows listed, or Uncached
    allowed,    \* history: whose owners were members at some moment since
                \* the pod's pass, or its event, began
    lost,       \* history: claims whose run a crash or an error prevented
    steady,     \* history: when the workflow or the database last failed it
    upsets, events      \* how much of the bounds is used

vars == <<now, kind, enabled, member, claims, runs, loop, react, cache, allowed,
          lost, steady, upsets, events>>

rowVars == <<kind, enabled, member>>
eventVars == <<react, cache, events>>

Cron == {w \in Workflow : kind[w] = "cron"}
Every == {w \in Workflow : kind[w] = "interval"}
Reacting == {w \in Workflow : kind[w] = "event"}

Never == -1
Uncached == {Never}

NothingFired == [w \in Workflow |-> Never]

(* A pod that sleeps until a time; `last` is last_fired, `since` when the   *)
(* process was started.                                                     *)
Asleep(until, last, since) ==
    [pc |-> "sleep", wake |-> until, tick |-> Never, todo |-> {}, w |-> Never,
     at |-> Never, last |-> last, since |-> since]

NoEvent == [pc |-> "idle", todo |-> {}, w |-> Never]

Init ==
    /\ now = 0
    /\ kind \in [Workflow -> {"cron", "interval", "event"}]
    /\ enabled = Workflow /\ member = Workflow
    /\ allowed = [p \in Pod |-> [pass |-> {}, event |-> {}]]
    /\ claims = {} /\ runs = {} /\ lost = {}
    /\ loop = [p \in Pod |-> Asleep(Window, NothingFired, 0)]
    /\ react = [p \in Pod |-> NoEvent]
    /\ cache = [p \in Pod |-> Uncached]
    /\ steady = [w \in Workflow |-> 0]
    /\ upsets = 0 /\ events = 0

Upset == upsets < MaxUpsets /\ upsets' = upsets + 1

(* A database call fails, and with it what it was made for. *)
DatabaseError == Upset /\ steady' = [w \in Workflow |-> now]

(* Time passes, but not while a pod oversleeps or takes too long. *)
TimePasses ==
    /\ now < MaxTime
    /\ \A p \in Pod : /\ loop[p].pc = "sleep" => now < loop[p].wake
                      /\ loop[p].pc \notin {"sleep", "down"} => now < loop[p].tick + MaxLag
    /\ now' = now + 1
    /\ UNCHANGED <<rowVars, claims, runs, loop, eventVars, allowed, lost, steady, upsets>>

-----------------------------------------------------------------------------
(* What is due at a time of the pod's clock.                               *)

(* cron_fire_instant: the first instant after the start of the window, if   *)
(* it is not in the future.                                                 *)
CronInstant(t) ==
    LET next == ((t - Window) \div Period) * Period + Period
    IN  IF next <= t THEN next ELSE Never

(* Mutant: the instant is the pod's own time. *)
IntervalInstantNow(t) == t

(* interval_fire_instant: the boundary of the interval's bucket. *)
IntervalInstant(t) == (t \div Interval) * Interval

(* latest_scheduled_workflow_fire. *)
Latest(w) == Max({Never} \cup {c.at : c \in {d \in claims : d.w = w}})

(* interval_should_fire: without an anchor the interval starts now. *)
IntervalElapsed(last, t) ==
    last # Never /\ (IF last < t THEN t - last ELSE last - t) >= Interval

(* The pod's time in this pass, read once when it woke up. *)
Tick(p) == loop[p].tick + Skew[p]

(* Mutant: a cold start does not begin to count. *)
SuppressedUnseeded(p, w, last) == [loop[p] EXCEPT !.todo = @ \ {w}]

(* interval_prefilter_should_fire when it suppresses the tick: a cold start *)
(* begins to count now.                                                     *)
Suppressed(p, w, last) ==
    [loop[p] EXCEPT !.todo = @ \ {w}, !.last[w] = IF last = Never THEN Tick(p) ELSE @]

NotDue(p, w) == [loop[p] EXCEPT !.todo = @ \ {w}]
Due(p, w, instant) == [loop[p] EXCEPT !.pc = "check", !.w = w, !.at = instant]

(* The pass goes on with the next workflow. *)
Skipped(p) == [loop[p] EXCEPT !.pc = "scan", !.todo = @ \ {loop[p].w}, !.w = Never, !.at = Never]

(* As Skipped; an interval starts again at this pass. *)
Anchored(p) ==
    IF loop[p].w \in Every THEN [Skipped(p) EXCEPT !.last[loop[p].w] = Tick(p)]
                           ELSE Skipped(p)

-----------------------------------------------------------------------------
(* The cron loop.                                                          *)

(* list_all_enabled_workflows; what the loop remembers of workflows that    *)
(* are not listed goes at the end of the pass, unused.                      *)
Wake(p) ==
    /\ loop[p].pc = "sleep" /\ now >= loop[p].wake
    /\ loop' = [loop EXCEPT
          ![p].pc = "scan", ![p].tick = now,
          ![p].todo = enabled \cap (Cron \cup Every),
          ![p].last = [w \in Workflow |-> IF w \in enabled THEN @[w] ELSE Never]]
    /\ allowed' = [allowed EXCEPT ![p].pass = member]
    /\ UNCHANGED <<now, rowVars, claims, runs, eventVars, lost, steady, upsets>>

WakeFails(p) ==
    /\ loop[p].pc = "sleep" /\ now >= loop[p].wake
    /\ DatabaseError
    /\ loop' = [loop EXCEPT ![p].wake = now + Window]
    /\ UNCHANGED <<now, rowVars, claims, runs, eventVars, allowed, lost>>

ConsiderCron(p, w) ==
    /\ loop[p].pc = "scan" /\ w \in loop[p].todo \cap Cron
    /\ LET instant == CronInstant(Tick(p))
       IN  loop' = [loop EXCEPT ![p] = IF instant = Never THEN NotDue(p, w)
                                                                 ELSE Due(p, w, instant)]
    /\ UNCHANGED <<now, rowVars, claims, runs, eventVars, allowed, lost, steady, upsets>>

(* The anchor is the pod's own, or after a restart the latest claim. *)
ConsiderInterval(p, w) ==
    /\ loop[p].pc = "scan" /\ w \in loop[p].todo \cap Every
    /\ LET last == IF loop[p].last[w] # Never THEN loop[p].last[w] ELSE Latest(w)
       IN  loop' = [loop EXCEPT ![p] = IF IntervalElapsed(last, Tick(p))
                                         THEN Due(p, w, IntervalInstant(Tick(p)))
                                         ELSE Suppressed(p, w, last)]
    /\ UNCHANGED <<now, rowVars, claims, runs, eventVars, allowed, lost, steady, upsets>>

(* An anchor that cannot be read counts as none. *)
AnchorUnreadable(p, w) ==
    /\ loop[p].pc = "scan" /\ w \in loop[p].todo \cap Every
    /\ loop[p].last[w] = Never
    /\ DatabaseError
    /\ loop' = [loop EXCEPT ![p] = Suppressed(p, w, Never)]
    /\ UNCHANGED <<now, rowVars, claims, runs, eventVars, allowed, lost>>

(* Mutant: the owner's authority is not checked. *)
CheckNothing(p) ==
    /\ loop[p].pc = "check"
    /\ loop' = [loop EXCEPT ![p].pc = "claim"]
    /\ UNCHANGED <<now, rowVars, claims, runs, eventVars, allowed, lost, steady, upsets>>

(* check_owner_authority, before the claim. *)
CheckOwner(p) ==
    /\ loop[p].pc = "check"
    /\ loop' = [loop EXCEPT ![p] = IF loop[p].w \in member THEN [@ EXCEPT !.pc = "claim"]
                                                       ELSE Skipped(p)]
    /\ UNCHANGED <<now, rowVars, claims, runs, eventVars, allowed, lost, steady, upsets>>

(* Mutant: the conflict on the primary key is not looked at. *)
ClaimAnyway(p) ==
    /\ loop[p].pc = "claim"
    /\ claims' = claims \cup {[w |-> loop[p].w, at |-> loop[p].at]}
    /\ loop' = [loop EXCEPT ![p].pc = "create"]
    /\ UNCHANGED <<now, rowVars, runs, eventVars, allowed, lost, steady, upsets>>

(* Mutant: the claim is made, and then the owner's authority is checked. *)
ClaimThenCheck(p) ==
    /\ loop[p].pc = "claim"
    /\ \A c \in claims : ~(c.w = loop[p].w /\ c.at = loop[p].at)
    /\ claims' = claims \cup {[w |-> loop[p].w, at |-> loop[p].at]}
    /\ loop' = [loop EXCEPT ![p] = IF loop[p].w \in member THEN [@ EXCEPT !.pc = "create"]
                                                       ELSE Skipped(p)]
    /\ UNCHANGED <<now, rowVars, runs, eventVars, allowed, lost, steady, upsets>>

(* claim_scheduled_workflow_fire: an insert that does nothing on conflict.  *)
(* The loser starts its interval anew as well.                              *)
Claim(p) ==
    /\ loop[p].pc = "claim"
    /\ IF \E c \in claims : c.w = loop[p].w /\ c.at = loop[p].at
         THEN /\ loop' = [loop EXCEPT ![p] = Anchored(p)]
              /\ UNCHANGED claims
         ELSE /\ claims' = claims \cup {[w |-> loop[p].w, at |-> loop[p].at]}
              /\ loop' = [loop EXCEPT ![p].pc = "create"]
    /\ UNCHANGED <<now, rowVars, runs, eventVars, allowed, lost, steady, upsets>>

(* Runs are told apart by their number among those with the same cause. *)
NewRun(w, cause) ==
    [w |-> w, cause |-> cause,
     n |-> Cardinality({r \in runs : r.w = w /\ r.cause = cause}) + 1]

(* create_workflow_run; the run is then spawned. *)
CreateRun(p) ==
    /\ loop[p].pc = "create"
    /\ runs' = runs \cup {NewRun(loop[p].w, loop[p].at)}
    /\ loop' = [loop EXCEPT ![p] = Anchored(p)]
    /\ UNCHANGED <<now, rowVars, claims, eventVars, allowed, lost, steady, upsets>>

Unfinished(p) == IF loop[p].pc = "create" THEN {[w |-> loop[p].w, at |-> loop[p].at]} ELSE {}

(* The check, the claim or the insert fails; a claim that was made stays. *)
StepFails(p) ==
    /\ loop[p].pc \in {"check", "claim", "create"}
    /\ DatabaseError
    /\ lost' = lost \cup Unfinished(p)
    /\ loop' = [loop EXCEPT ![p] = Skipped(p)]
    /\ UNCHANGED <<now, rowVars, claims, runs, eventVars, allowed>>

EndPass(p) ==
    /\ loop[p].pc = "scan" /\ loop[p].todo = {}
    /\ loop' = [loop EXCEPT ![p] = Asleep(now + Window, @.last, @.since)]
    /\ allowed' = [allowed EXCEPT ![p].pass = {}]
    /\ UNCHANGED <<now, rowVars, claims, runs, eventVars, lost, steady, upsets>>

Crash(p) ==
    /\ loop[p].pc # "down"
    /\ Upset
    /\ lost' = lost \cup Unfinished(p)
    /\ loop' = [loop EXCEPT ![p] = [Asleep(Never, NothingFired, Never) EXCEPT !.pc = "down"]]
    /\ react' = [react EXCEPT ![p] = NoEvent]
    /\ cache' = [cache EXCEPT ![p] = Uncached]
    /\ allowed' = [allowed EXCEPT ![p] = [pass |-> {}, event |-> {}]]
    /\ UNCHANGED <<now, rowVars, claims, runs, steady, events>>

Restart(p) ==
    /\ loop[p].pc = "down"
    /\ loop' = [loop EXCEPT ![p] = Asleep(now + Window, NothingFired, now)]
    /\ UNCHANGED <<now, rowVars, claims, runs, eventVars, allowed, lost, steady, upsets>>

-----------------------------------------------------------------------------
(* Events: on_event.                                                       *)

(* The list comes from the cache, or from the database. *)
EventArrives(p) ==
    /\ loop[p].pc # "down" /\ react[p].pc = "idle"
    /\ Reacting # {} /\ events < MaxEvents
    /\ events' = events + 1
    /\ react' = [react EXCEPT ![p] =
          IF cache[p] = Uncached
            THEN [pc |-> "fill", todo |-> enabled \cap Reacting, w |-> Never]
            ELSE [pc |-> "check", todo |-> cache[p], w |-> Never]]
    /\ allowed' = [allowed EXCEPT ![p].event = member]
    /\ UNCHANGED <<now, rowVars, claims, runs, loop, cache, lost, steady, upsets>>

(* What was read goes into the cache, although it may have been invalidated *)
(* since.                                                                   *)
FillCache(p) ==
    /\ react[p].pc = "fill"
    /\ cache' = [cache EXCEPT ![p] = react[p].todo]
    /\ react' = [react EXCEPT ![p].pc = "check"]
    /\ UNCHANGED <<now, rowVars, claims, runs, loop, allowed, lost, steady, upsets, events>>

ReactCheck(p, w) ==
    /\ react[p].pc = "check" /\ w \in react[p].todo
    /\ react' = [react EXCEPT
          ![p].todo = @ \ {w},
          ![p].pc = IF w \in member THEN "create" ELSE @,
          ![p].w = IF w \in member THEN w ELSE @]
    /\ UNCHANGED <<now, rowVars, claims, runs, loop, cache, allowed, lost, steady, upsets, events>>

ReactCreate(p) ==
    /\ react[p].pc = "create"
    /\ runs' = runs \cup {NewRun(react[p].w, Never)}
    /\ react' = [react EXCEPT ![p].pc = "check", ![p].w = Never]
    /\ UNCHANGED <<now, rowVars, claims, loop, cache, allowed, lost, steady, upsets, events>>

(* The check or the insert fails: the event does not start this workflow. *)
ReactFails(p) ==
    /\ Upset
    /\ \/ /\ react[p].pc = "check"
          /\ \E w \in react[p].todo : react' = [react EXCEPT ![p].todo = @ \ {w}]
       \/ /\ react[p].pc = "create"
          /\ react' = [react EXCEPT ![p].pc = "check", ![p].w = Never]
    /\ UNCHANGED <<now, rowVars, claims, runs, loop, cache, allowed, lost, steady, events>>

ReactDone(p) ==
    /\ react[p].pc = "check" /\ react[p].todo = {}
    /\ react' = [react EXCEPT ![p] = NoEvent]
    /\ allowed' = [allowed EXCEPT ![p].event = {}]
    /\ UNCHANGED <<now, rowVars, claims, runs, loop, cache, lost, steady, upsets, events>>

(* The entry's time to live is over. *)
CacheExpires(p) ==
    /\ cache[p] # Uncached
    /\ cache' = [cache EXCEPT ![p] = Uncached]
    /\ UNCHANGED <<now, rowVars, claims, runs, loop, react, allowed, lost, steady, upsets, events>>

-----------------------------------------------------------------------------
(* Owners.                                                                 *)

(* The owner leaves the channel or is removed. *)
Depart(w) ==
    /\ w \in member
    /\ Upset
    /\ member' = member \ {w}
    /\ UNCHANGED <<now, kind, enabled, claims, runs, loop, eventVars, allowed, lost, steady>>

(* disable_departed_member_workflows, on the pod that handled the removal. *)
DisableDeparted(p, w) ==
    /\ w \in enabled \ member /\ loop[p].pc # "down"
    /\ enabled' = enabled \ {w}
    /\ cache' = [cache EXCEPT ![p] = Uncached]
    /\ UNCHANGED <<now, kind, member, claims, runs, loop, react, allowed, lost, steady,
                   upsets, events>>

(* The owner is a member again; what was disabled stays disabled. *)
Rejoin(w) ==
    /\ w \notin member
    /\ member' = member \cup {w}
    /\ allowed' = [p \in Pod |->
          [pass |-> IF loop[p].pc \in {"sleep", "down"} THEN {} ELSE allowed[p].pass \cup {w},
           event |-> IF react[p].pc = "idle" THEN {} ELSE allowed[p].event \cup {w}]]
    /\ steady' = [steady EXCEPT ![w] = now]
    /\ UNCHANGED <<now, kind, enabled, claims, runs, loop, eventVars, lost, upsets>>

-----------------------------------------------------------------------------
Next ==
    \/ TimePasses
    \/ \E p \in Pod :
          \/ Wake(p) \/ WakeFails(p) \/ CheckOwner(p) \/ Claim(p) \/ CreateRun(p)
          \/ StepFails(p) \/ EndPass(p) \/ Crash(p) \/ Restart(p)
          \/ \E w \in Cron : ConsiderCron(p, w)
          \/ \E w \in Every : ConsiderInterval(p, w) \/ AnchorUnreadable(p, w)
          \/ EventArrives(p) \/ FillCache(p) \/ ReactCreate(p) \/ ReactFails(p)
          \/ ReactDone(p) \/ CacheExpires(p)
          \/ \E w \in Reacting : ReactCheck(p, w)
          \/ \E w \in Workflow : DisableDeparted(p, w)
    \/ \E w \in Workflow : Depart(w) \/ Rejoin(w)

Spec == Init /\ [][Next]_vars

-----------------------------------------------------------------------------
(* A pod between finding a workflow due and being done with it has that     *)
(* workflow at hand.                                                        *)
Loops ==
    {l \in [pc: {"sleep", "scan", "check", "claim", "create", "down"}, wake: Int,
            tick: Int, todo: SUBSET Workflow, w: Workflow \cup {Never}, at: Int,
            last: [Workflow -> Int], since: Int] :
        l.pc \in {"check", "claim", "create"} => l.w \in Workflow}

Handlers ==
    {h \in [pc: {"idle", "fill", "check", "create"}, todo: SUBSET Workflow,
            w: Workflow \cup {Never}] :
        h.pc = "create" => h.w \in Workflow}

(* The types of the variables.                                              *)
TypeOK ==
    /\ now \in Nat
    /\ kind \in [Workflow -> {"cron", "interval", "event"}]
    /\ enabled \subseteq Workflow /\ member \subseteq Workflow
    /\ claims \subseteq [w: Workflow, at: Int] /\ IsFiniteSet(claims)
    /\ lost \subseteq [w: Workflow, at: Int]
    /\ runs \subseteq [w: Workflow, cause: Int, n: Nat] /\ IsFiniteSet(runs)
    /\ loop \in [Pod -> Loops]
    /\ react \in [Pod -> Handlers]
    /\ cache \in [Pod -> {Uncached} \cup SUBSET Workflow]
    /\ allowed \in [Pod -> [pass: SUBSET Workflow, event: SUBSET Workflow]]
    /\ steady \in [Workflow -> Nat]
    /\ upsets \in Nat /\ events \in Nat

(* An instant of a schedule starts at most one run, whichever pods see it   *)
(* and however often they restart.                                          *)
OneRunPerInstant ==
    \A r \in runs : r.cause # Never => r.n = 1

(* A claimed instant has its run, or will, unless a crash or a database     *)
(* error came between: revoking an owner never uses up an instant.          *)
ClaimsAreKept ==
    \A c \in claims :
        \/ \E r \in runs : r.w = c.w /\ r.cause = c.at
        \/ c \in lost
        \/ \E p \in Pod : loop[p].pc = "create" /\ loop[p].w = c.w /\ loop[p].at = c.at

(* Pods, restarts and clocks do not multiply a schedule: an interval        *)
(* workflow is never claimed more often than intervals have gone by on the  *)
(* fastest clock, although every pod counts them from a time of its own.    *)
RateBounded ==
    \A w \in Every :
        Cardinality({c \in claims : c.w = w})
            <= (now + Max({Skew[p] : p \in Pod})) \div Interval

Claimed(w, t) == \E c \in claims : c.w = w /\ c.at = t

(* No interval schedule stalls: while a pod has been up and nothing has     *)
(* failed the workflow, of two intervals in a row at least one is claimed.  *)
NeverSkipsTwo ==
    \A p \in Pod, w \in Every \cap enabled \cap member : loop[p].pc # "down" =>
        \A t \in {Interval * k : k \in 0..MaxTime} :
            /\ t >= Max({loop[p].since, steady[w]}) + Skew[p] + Window + MaxLag
            /\ t + 2 * Interval + MaxLag <= now + Skew[p]
            => Claimed(w, t) \/ Claimed(w, t + Interval)

(* An owner who left before a pass or an event began, and has not come      *)
(* back, starts nothing, whatever the lists and caches say.                 *)
DepartedStartNothing ==
    [][\A p \in Pod : /\ CreateRun(p) => loop[p].w \in allowed[p].pass
                      /\ ReactCreate(p) => react[p].w \in allowed[p].event]_vars
=============================================================================
