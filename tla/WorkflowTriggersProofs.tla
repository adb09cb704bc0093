----------------------- MODULE WorkflowTriggersProofs -----------------------
(***************************************************************************)
(* Proofs about the start of workflows for any number of pods and          *)
(* workflows, any skews of their clocks and any windows and intervals that *)
(* ScheduleAssumption admits.                                              *)
(***************************************************************************)
EXTENDS WorkflowTriggers, FiniteSetTheorems, WellFoundedInduction, TLAPS

LEMMA NeverType == Never \in Int
BY DEF Never

LEMMA TickType ==
    ASSUME TypeOK, NEW p \in Pod
    PROVE  Tick(p) \in Int
BY ScheduleAssumption DEF TypeOK, Loops, Tick

LEMMA InstantType ==
    ASSUME NEW t \in Int
    PROVE  CronInstant(t) \in Int /\ IntervalInstant(t) \in Int
<1>1. Period \in Nat \ {0} /\ Interval \in Nat \ {0} /\ Window \in Nat
  BY ScheduleAssumption
<1> DEFINE a == (t - Window) \div Period
           b == t \div Interval
<1>2. a \in Int /\ b \in Int
  BY <1>1
<1>3. a * Period + Period \in Int /\ b * Interval \in Int
  BY <1>1, <1>2
<1>4. QED
  BY <1>3, NeverType DEF CronInstant, IntervalInstant

(* Runs are numbered from one among those with the same cause. *)
LEMMA NewRunType ==
    ASSUME TypeOK, NEW w \in Workflow, NEW cause \in Int
    PROVE  /\ NewRun(w, cause) \in [w: Workflow, cause: Int, n: Nat]
           /\ IsFiniteSet(runs \cup {NewRun(w, cause)})
<1> DEFINE same == {r \in runs : r.w = w /\ r.cause = cause}
<1>1. IsFiniteSet(runs)
  BY DEF TypeOK
<1>2. Cardinality(same) \in Nat
  BY <1>1, FS_Subset, FS_CardinalityType
<1>3. Cardinality(same) + 1 \in Nat
  BY <1>2
<1>4. NewRun(w, cause) \in [w: Workflow, cause: Int, n: Nat]
  BY <1>3 DEF NewRun
<1>5. QED
  BY <1>1, <1>4, FS_AddElement

LEMMA TypeInit == Init => TypeOK
<1> SUFFICES ASSUME Init PROVE TypeOK
  OBVIOUS
<1>1. IsFiniteSet(claims) /\ IsFiniteSet(runs)
  BY FS_EmptySet DEF Init
<1>2. QED
  BY <1>1, NeverType, ScheduleAssumption
     DEF Init, TypeOK, Loops, Handlers, Asleep, NothingFired, NoEvent, Uncached

(* The records a pod's loop is set to. *)
LEMMA LoopTypes ==
    ASSUME TypeOK, NEW p \in Pod
    PROVE  /\ Skipped(p) \in Loops
           /\ Anchored(p) \in Loops
           /\ loop[p].pc \notin {"check", "claim", "create"} =>
                 \A w : \A last : Suppressed(p, w, last) \in Loops
           /\ \A w \in Workflow, at \in Int : Due(p, w, at) \in Loops
           /\ \A until \in Int, since \in Int :
                 /\ Asleep(until, NothingFired, since) \in Loops
                 /\ Asleep(until, loop[p].last, since) \in Loops
<1>1. loop[p] \in Loops /\ Tick(p) \in Int
  BY TickType DEF TypeOK
<1>2. Skipped(p) \in Loops
  BY <1>1, NeverType DEF Skipped, Loops
<1>3. Anchored(p) \in Loops
  BY <1>1, <1>2 DEF Anchored, Loops
<1>4. ASSUME loop[p].pc \notin {"check", "claim", "create"}, NEW w, NEW last
      PROVE  Suppressed(p, w, last) \in Loops
  BY <1>1, <1>4 DEF Suppressed, Loops
<1>5. ASSUME NEW w \in Workflow, NEW at \in Int
      PROVE  Due(p, w, at) \in Loops
  BY <1>1 DEF Due, Loops
<1>6. ASSUME NEW until \in Int, NEW since \in Int
      PROVE  /\ Asleep(until, NothingFired, since) \in Loops
             /\ Asleep(until, loop[p].last, since) \in Loops
  BY <1>1, NeverType DEF Asleep, NothingFired, Loops
<1>7. QED
  BY <1>2, <1>3, <1>4, <1>5, <1>6

(* What an action makes of the loop of a pod. *)
LEMMA LoopSteps ==
    ASSUME TypeOK, NEW p \in Pod
    PROVE  /\ Wake(p) \/ WakeFails(p) \/ CheckOwner(p) \/ Claim(p) \/ CreateRun(p)
              \/ StepFails(p) \/ EndPass(p) \/ Crash(p) \/ Restart(p)
              \/ (\E w \in Cron : ConsiderCron(p, w))
              \/ (\E w \in Every : ConsiderInterval(p, w) \/ AnchorUnreadable(p, w))
              => loop' \in [Pod -> Loops]
<1>t. /\ loop \in [Pod -> Loops] /\ loop[p] \in Loops
      /\ now \in Int /\ now + Window \in Int
      /\ enabled \subseteq Workflow
  BY ScheduleAssumption DEF TypeOK
<1>0. ASSUME NEW l \in Loops, loop' = [loop EXCEPT ![p] = l]
      PROVE  loop' \in [Pod -> Loops]
  BY <1>0, <1>t
<1>1. CASE Wake(p)
  <2> DEFINE l == [loop[p] EXCEPT
          !.pc = "scan", !.tick = now, !.todo = enabled \cap (Cron \cup Every),
          !.last = [w \in Workflow |-> IF w \in enabled THEN @[w] ELSE Never]]
  <2>1. l \in Loops
    BY <1>t, NeverType DEF Loops, Cron, Every
  <2>2. QED
    BY <1>0, <1>1, <2>1 DEF Wake
<1>2. CASE WakeFails(p)
  <2>1. [loop[p] EXCEPT !.wake = now + Window] \in Loops
    BY <1>t DEF Loops
  <2>2. QED
    BY <1>0, <1>2, <2>1 DEF WakeFails
<1>3. CASE CheckOwner(p)
  <2>1. [loop[p] EXCEPT !.pc = "claim"] \in Loops
    BY <1>3, <1>t DEF CheckOwner, Loops
  <2>2. QED
    BY <1>0, <1>3, <2>1, LoopTypes DEF CheckOwner
<1>4. CASE Claim(p)
  <2>1. [loop[p] EXCEPT !.pc = "create"] \in Loops
    BY <1>4, <1>t DEF Claim, Loops
  <2>2. QED
    BY <1>0, <1>4, <2>1, LoopTypes DEF Claim
<1>5. CASE CreateRun(p) \/ StepFails(p)
  BY <1>0, <1>5, LoopTypes DEF CreateRun, StepFails
<1>6. CASE EndPass(p)
  <2>1. Asleep(now + Window, loop[p].last, loop[p].since) \in Loops
    <3>1. loop[p].since \in Int
      BY <1>t DEF Loops
    <3>2. QED
      BY <1>t, <3>1, LoopTypes
  <2>2. QED
    BY <1>0, <1>6, <2>1 DEF EndPass
<1>7. CASE Crash(p)
  <2>1. [Asleep(Never, NothingFired, Never) EXCEPT !.pc = "down"] \in Loops
    BY NeverType DEF Asleep, NothingFired, Loops
  <2>2. QED
    BY <1>0, <1>7, <2>1 DEF Crash
<1>8. CASE Restart(p)
  <2>1. Asleep(now + Window, NothingFired, now) \in Loops
    BY <1>t, LoopTypes
  <2>2. QED
    BY <1>0, <1>8, <2>1 DEF Restart
<1>9. ASSUME NEW w \in Cron, ConsiderCron(p, w) PROVE loop' \in [Pod -> Loops]
  <2> DEFINE instant == CronInstant(Tick(p))
  <2>1. NotDue(p, w) \in Loops
    BY <1>9, <1>t DEF ConsiderCron, NotDue, Loops
  <2>2. Due(p, w, instant) \in Loops
    BY LoopTypes, TickType, InstantType DEF Cron
  <2>3. QED
    BY <1>0, <1>9, <2>1, <2>2 DEF ConsiderCron
<1>10. ASSUME NEW w \in Every, ConsiderInterval(p, w) PROVE loop' \in [Pod -> Loops]
  <2>1. Due(p, w, IntervalInstant(Tick(p))) \in Loops
    BY LoopTypes, TickType, InstantType DEF Every
  <2>2. \A last : Suppressed(p, w, last) \in Loops
    BY <1>10, LoopTypes DEF ConsiderInterval
  <2>3. QED
    BY <1>0, <1>10, <2>1, <2>2 DEF ConsiderInterval
<1>11. ASSUME NEW w \in Every, AnchorUnreadable(p, w) PROVE loop' \in [Pod -> Loops]
  BY <1>0, <1>11, LoopTypes DEF AnchorUnreadable
<1>12. QED
  BY <1>1, <1>2, <1>3, <1>4, <1>5, <1>6, <1>7, <1>8, <1>9, <1>10, <1>11

LEMMA TypeStep == TypeOK /\ [Next]_vars => TypeOK'
<1> SUFFICES ASSUME TypeOK, [Next]_vars PROVE TypeOK'
  OBVIOUS
<1> USE DEF rowVars, eventVars
<1>0. /\ Upset => upsets' \in Nat
      /\ DatabaseError => upsets' \in Nat /\ steady' \in [Workflow -> Nat]
  BY DEF TypeOK, DatabaseError, Upset
<1>1. CASE TimePasses
  BY <1>1 DEF TypeOK, TimePasses
<1>2. ASSUME NEW p \in Pod, Wake(p) PROVE TypeOK'
  <2>1. loop' \in [Pod -> Loops]
    BY <1>2, LoopSteps
  <2>2. allowed' \in [Pod -> [pass: SUBSET Workflow, event: SUBSET Workflow]]
    BY <1>2 DEF TypeOK, Wake
  <2>3. UNCHANGED <<now, rowVars, claims, runs, eventVars, lost, steady, upsets>>
    BY <1>2 DEF Wake
  <2>4. QED
    BY <2>1, <2>2, <2>3 DEF TypeOK
<1>3. ASSUME NEW p \in Pod, WakeFails(p) PROVE TypeOK'
  BY <1>0, <1>3, LoopSteps DEF TypeOK, WakeFails
<1>4. ASSUME NEW p \in Pod, CheckOwner(p) PROVE TypeOK'
  BY <1>4, LoopSteps DEF TypeOK, CheckOwner
<1>5. ASSUME NEW p \in Pod, Claim(p) PROVE TypeOK'
  <2>1. loop[p].w \in Workflow /\ loop[p].at \in Int
    BY <1>5 DEF TypeOK, Loops, Claim
  <2>2. claims' \subseteq [w: Workflow, at: Int] /\ IsFiniteSet(claims')
    <3> DEFINE c == [w |-> loop[p].w, at |-> loop[p].at]
    <3>1. claims' = claims \/ claims' = claims \cup {c}
      BY <1>5 DEF Claim
    <3>2. IsFiniteSet(claims) /\ claims \subseteq [w: Workflow, at: Int]
      BY DEF TypeOK
    <3>3. IsFiniteSet(claims \cup {c})
      BY <3>2, FS_AddElement
    <3>4. c \in [w: Workflow, at: Int]
      BY <2>1
    <3>5. QED
      BY <3>1, <3>2, <3>3, <3>4
  <2>3. QED
    BY <1>5, <2>2, LoopSteps DEF TypeOK, Claim
<1>6. ASSUME NEW p \in Pod, CreateRun(p) PROVE TypeOK'
  <2>1. loop[p].w \in Workflow /\ loop[p].at \in Int
    BY <1>6 DEF TypeOK, Loops, CreateRun
  <2>2. runs' \subseteq [w: Workflow, cause: Int, n: Nat] /\ IsFiniteSet(runs')
    BY <1>6, <2>1, NewRunType DEF TypeOK, CreateRun
  <2>3. QED
    BY <1>6, <2>2, LoopSteps DEF TypeOK, CreateRun
<1>7. ASSUME NEW p \in Pod, StepFails(p) PROVE TypeOK'
  <2>1. Unfinished(p) \subseteq [w: Workflow, at: Int]
    BY DEF TypeOK, Loops, Unfinished
  <2>2. QED
    BY <1>0, <1>7, <2>1, LoopSteps DEF TypeOK, StepFails
<1>8. ASSUME NEW p \in Pod, EndPass(p) PROVE TypeOK'
  BY <1>8, LoopSteps DEF TypeOK, EndPass
<1>9. ASSUME NEW p \in Pod, Crash(p) PROVE TypeOK'
  <2>1. Unfinished(p) \subseteq [w: Workflow, at: Int]
    BY DEF TypeOK, Loops, Unfinished
  <2>2. NoEvent \in Handlers
    BY DEF NoEvent, Handlers
  <2>3. QED
    BY <1>0, <1>9, <2>1, <2>2, LoopSteps DEF TypeOK, Crash
<1>10. ASSUME NEW p \in Pod, Restart(p) PROVE TypeOK'
  BY <1>10, LoopSteps DEF TypeOK, Restart
<1>11. ASSUME NEW p \in Pod, NEW w \in Cron, ConsiderCron(p, w) PROVE TypeOK'
  BY <1>11, LoopSteps DEF TypeOK, ConsiderCron
<1>12. ASSUME NEW p \in Pod, NEW w \in Every, ConsiderInterval(p, w) PROVE TypeOK'
  BY <1>12, LoopSteps DEF TypeOK, ConsiderInterval
<1>13. ASSUME NEW p \in Pod, NEW w \in Every, AnchorUnreadable(p, w) PROVE TypeOK'
  BY <1>0, <1>13, LoopSteps DEF TypeOK, AnchorUnreadable
<1>14. ASSUME NEW p \in Pod, EventArrives(p) PROVE TypeOK'
  <2>1. react'[p] \in Handlers
    BY <1>14 DEF TypeOK, EventArrives, Handlers, Reacting
  <2>2. QED
    BY <1>14, <2>1 DEF TypeOK, EventArrives
<1>15. ASSUME NEW p \in Pod, FillCache(p) PROVE TypeOK'
  <2>1. react'[p] \in Handlers /\ react[p].todo \subseteq Workflow
    BY <1>15 DEF TypeOK, FillCache, Handlers
  <2>2. QED
    BY <1>15, <2>1 DEF TypeOK, FillCache
<1>16. ASSUME NEW p \in Pod, ReactCreate(p) PROVE TypeOK'
  <2>0. react[p] \in Handlers
    BY DEF TypeOK
  <2>1. react'[p] \in Handlers /\ react[p].w \in Workflow
    BY <1>16, <2>0 DEF TypeOK, ReactCreate, Handlers
  <2>2. runs' \subseteq [w: Workflow, cause: Int, n: Nat] /\ IsFiniteSet(runs')
    BY <1>16, <2>1, NewRunType, NeverType DEF TypeOK, ReactCreate
  <2>3. QED
    BY <1>16, <2>1, <2>2 DEF TypeOK, ReactCreate
<1>17. ASSUME NEW p \in Pod, ReactFails(p) PROVE TypeOK'
  <2>1. react'[p] \in Handlers
    BY <1>17 DEF TypeOK, ReactFails, Handlers
  <2>2. QED
    BY <1>17, <2>1 DEF TypeOK, ReactFails, Upset
<1>18. ASSUME NEW p \in Pod, ReactDone(p) PROVE TypeOK'
  BY <1>18 DEF TypeOK, ReactDone, Handlers, NoEvent
<1>19. ASSUME NEW p \in Pod, CacheExpires(p) PROVE TypeOK'
  BY <1>19 DEF TypeOK, CacheExpires
<1>20. ASSUME NEW p \in Pod, NEW w \in Reacting, ReactCheck(p, w) PROVE TypeOK'
  <2>1. react'[p] \in Handlers
    <3>1. react[p] \in Handlers /\ w \in Workflow
      BY DEF TypeOK, Reacting
    <3>2. QED
      BY <1>20, <3>1 DEF TypeOK, ReactCheck, Handlers
  <2>2. QED
    BY <1>20, <2>1 DEF TypeOK, ReactCheck
<1>21. ASSUME NEW p \in Pod, NEW w \in Workflow, DisableDeparted(p, w) PROVE TypeOK'
  BY <1>21 DEF TypeOK, DisableDeparted
<1>22. ASSUME NEW w \in Workflow, Depart(w) PROVE TypeOK'
  BY <1>22 DEF TypeOK, Depart, Upset
<1>23. ASSUME NEW w \in Workflow, Rejoin(w) PROVE TypeOK'
  BY <1>23 DEF TypeOK, Rejoin
<1>24. CASE UNCHANGED vars
  BY <1>24 DEF TypeOK, vars
<1>25. QED
  BY <1>1, <1>2, <1>3, <1>4, <1>5, <1>6, <1>7, <1>8, <1>9, <1>10, <1>11, <1>12, <1>13,
     <1>14, <1>15, <1>16, <1>17, <1>18, <1>19, <1>20, <1>21, <1>22, <1>23, <1>24 DEF Next

(* The variables keep their types (workflow_runs, the loops' memory and the *)
(* handlers), for every set of pods and workflows.                          *)
THEOREM TriggerTypes == Spec => []TypeOK
BY TypeInit, TypeStep, PTL DEF Spec

-----------------------------------------------------------------------------
(* One run for one instant.                                                *)

(* A run of a schedule has its claim; a pod between its claim and its run   *)
(* is the only one there, and the run is still to come.                     *)
Fires ==
    /\ \A r \in runs : r.cause # Never => Claimed(r.w, r.cause)
    /\ \A p \in Pod : loop[p].pc = "create" =>
          /\ Claimed(loop[p].w, loop[p].at)
          /\ \A r \in runs : r.w = loop[p].w /\ r.cause = loop[p].at => r.cause = Never
          /\ \A q \in Pod : /\ loop[q].pc = "create"
                            /\ loop[q].w = loop[p].w /\ loop[q].at = loop[p].at
                            => q = p

(* What steps do that neither claim nor create: a pod at its run stays      *)
(* there, or its claim is lost.                                             *)
QuietLoops ==
    /\ UNCHANGED <<claims, runs>>
    /\ lost \subseteq lost'
    /\ \A q \in Pod :
          /\ loop'[q].pc = "create" => loop'[q] = loop[q]
          /\ loop[q].pc = "create" => loop'[q] = loop[q] \/ Unfinished(q) \subseteq lost'

LEMMA QuietSteps ==
    ASSUME TypeOK, [Next]_vars
    PROVE  \/ \E p \in Pod : Claim(p) \/ CreateRun(p) \/ ReactCreate(p)
           \/ QuietLoops
<1> USE DEF rowVars, eventVars
<1>t. loop \in [Pod -> Loops]
  BY DEF TypeOK
<1>0. ASSUME UNCHANGED <<claims, runs, loop, lost>> PROVE QuietLoops
  BY <1>0 DEF QuietLoops
<1>1. ASSUME NEW p \in Pod, NEW l, loop' = [loop EXCEPT ![p] = l], l.pc # "create",
             UNCHANGED <<claims, runs>>, lost \subseteq lost',
             loop[p].pc = "create" => Unfinished(p) \subseteq lost'
      PROVE  QuietLoops
  BY <1>1, <1>t DEF QuietLoops
<1>2. ASSUME NEW p \in Pod, Wake(p) \/ WakeFails(p) PROVE QuietLoops
  BY <1>t, <1>2 DEF QuietLoops, Wake, WakeFails, Loops
<1>3. ASSUME NEW p \in Pod, CheckOwner(p) PROVE QuietLoops
  <2>1. Skipped(p).pc # "create" /\ [loop[p] EXCEPT !.pc = "claim"].pc # "create"
    BY <1>t DEF Skipped, Loops
  <2>2. QED
    BY <1>1, <1>3, <2>1 DEF CheckOwner
<1>4. ASSUME NEW p \in Pod, StepFails(p) PROVE QuietLoops
  <2>1. Skipped(p).pc # "create"
    BY <1>t DEF Skipped, Loops
  <2>2. QED
    BY <1>1, <1>4, <2>1 DEF StepFails
<1>5. ASSUME NEW p \in Pod, EndPass(p) \/ Crash(p) \/ Restart(p) PROVE QuietLoops
  <2>1. \A until, last, since :
           /\ Asleep(until, last, since).pc # "create"
           /\ [Asleep(until, last, since) EXCEPT !.pc = "down"].pc # "create"
    BY DEF Asleep
  <2>2. CASE EndPass(p)
    <3> DEFINE l == Asleep(now + Window, loop[p].last, loop[p].since)
    <3>1. loop' = [loop EXCEPT ![p] = l]
      BY <1>t, <2>2 DEF EndPass
    <3>2. l.pc # "create"
      BY <2>1
    <3>3. loop[p].pc = "scan" /\ UNCHANGED <<claims, runs, lost>>
      BY <2>2 DEF EndPass
    <3> HIDE DEF l
    <3>4. QED
      BY <1>1, <3>1, <3>2, <3>3
  <2>3. CASE Crash(p)
    BY <1>1, <2>1, <2>3 DEF Crash
  <2>4. CASE Restart(p)
    BY <1>1, <2>1, <2>4 DEF Restart
  <2>5. QED
    BY <1>5, <2>2, <2>3, <2>4
<1>6. ASSUME NEW p \in Pod, NEW w \in Cron, ConsiderCron(p, w) PROVE QuietLoops
  <2>1. NotDue(p, w).pc # "create" /\ \A at : Due(p, w, at).pc # "create"
    BY <1>t, <1>6 DEF NotDue, Due, ConsiderCron, Loops
  <2>2. QED
    BY <1>1, <1>6, <2>1 DEF ConsiderCron
<1>7. ASSUME NEW p \in Pod, NEW w \in Every,
             ConsiderInterval(p, w) \/ AnchorUnreadable(p, w)
      PROVE  QuietLoops
  <2>1. /\ \A last : Suppressed(p, w, last).pc # "create"
        /\ \A at : Due(p, w, at).pc # "create"
    BY <1>t, <1>7 DEF Suppressed, Due, ConsiderInterval, AnchorUnreadable, Loops
  <2>2. QED
    BY <1>1, <1>7, <2>1 DEF ConsiderInterval, AnchorUnreadable
<1>8. CASE TimePasses \/ UNCHANGED vars
  BY <1>0, <1>8 DEF TimePasses, vars
<1>9. ASSUME NEW p \in Pod,
             \/ EventArrives(p) \/ FillCache(p) \/ ReactFails(p) \/ ReactDone(p)
             \/ CacheExpires(p) \/ \E w \in Reacting : ReactCheck(p, w)
             \/ \E w \in Workflow : DisableDeparted(p, w)
      PROVE  QuietLoops
  BY <1>0, <1>9 DEF EventArrives, FillCache, ReactFails, ReactDone, CacheExpires,
                    ReactCheck, DisableDeparted
<1>10. ASSUME NEW w \in Workflow, Depart(w) \/ Rejoin(w) PROVE QuietLoops
  BY <1>0, <1>10 DEF Depart, Rejoin
<1>11. QED
  BY <1>2, <1>3, <1>4, <1>5, <1>6, <1>7, <1>8, <1>9, <1>10 DEF Next

LEMMA FiresStep == TypeOK /\ Fires /\ [Next]_vars => Fires'
<1> SUFFICES ASSUME TypeOK, Fires, [Next]_vars PROVE Fires'
  OBVIOUS
<1>t. loop \in [Pod -> Loops]
  BY DEF TypeOK
<1>1. CASE QuietLoops
  BY <1>1 DEF QuietLoops, Fires, Claimed
<1>2. ASSUME NEW p \in Pod, Claim(p) PROVE Fires'
  <2>1. CASE Claimed(loop[p].w, loop[p].at)
    <3>1. loop' = [loop EXCEPT ![p] = Anchored(p)] /\ UNCHANGED <<claims, runs>>
      BY <1>2, <2>1 DEF Claim, Claimed
    <3>2. Anchored(p).pc = "scan"
      BY <1>t DEF Anchored, Skipped, Loops
    <3>3. \A q \in Pod : loop'[q].pc = "create" => loop'[q] = loop[q]
      BY <1>t, <3>1, <3>2
    <3>4. QED
      BY <3>1, <3>3 DEF Fires, Claimed
  <2>2. CASE ~Claimed(loop[p].w, loop[p].at)
    <3>1. /\ claims' = claims \cup {[w |-> loop[p].w, at |-> loop[p].at]}
          /\ loop' = [loop EXCEPT ![p].pc = "create"]
          /\ runs' = runs
      BY <1>2, <2>2 DEF Claim, Claimed
    <3>2. \A w, t : Claimed(w, t) => Claimed(w, t)'
      BY <3>1 DEF Claimed
    <3>3. Claimed(loop[p].w, loop[p].at)'
      <4>1. loop'[p].w = loop[p].w /\ loop'[p].at = loop[p].at
        BY <1>t, <3>1 DEF Loops
      <4> DEFINE c == [w |-> loop[p].w, at |-> loop[p].at]
      <4>2. c \in claims' /\ c.w = loop'[p].w /\ c.at = loop'[p].at
        BY <3>1, <4>1
      <4>3. QED
        BY <4>2 DEF Claimed
    <3>4. /\ \A q \in Pod : loop'[q].w = loop[q].w /\ loop'[q].at = loop[q].at
          /\ \A q \in Pod : loop'[q].pc = "create" => q = p \/ loop[q].pc = "create"
      BY <1>t, <3>1 DEF Loops
    <3>5. \A r \in runs : r.w = loop[p].w /\ r.cause = loop[p].at => r.cause = Never
      BY <2>2 DEF Fires
    <3>6. \A q \in Pod : loop[q].pc = "create" =>
             ~(loop[q].w = loop[p].w /\ loop[q].at = loop[p].at)
      BY <2>2 DEF Fires
    <3>7. QED
      BY <3>1, <3>2, <3>3, <3>4, <3>5, <3>6 DEF Fires
  <2>3. QED
    BY <2>1, <2>2
<1>3. ASSUME NEW p \in Pod, CreateRun(p) PROVE Fires'
  <2>1. /\ loop' = [loop EXCEPT ![p] = Anchored(p)]
        /\ claims' = claims
        /\ runs' = runs \cup {NewRun(loop[p].w, loop[p].at)}
        /\ loop[p].pc = "create"
    BY <1>3 DEF CreateRun
  <2>2. Anchored(p).pc = "scan"
    BY <1>t DEF Anchored, Skipped, Loops
  <2>3. \A q \in Pod : loop'[q].pc = "create" => q # p /\ loop'[q] = loop[q]
    BY <1>t, <2>1, <2>2
  <2>4. /\ NewRun(loop[p].w, loop[p].at).w = loop[p].w
        /\ NewRun(loop[p].w, loop[p].at).cause = loop[p].at
    BY DEF NewRun
  <2>5. QED
    BY <2>1, <2>3, <2>4 DEF Fires, Claimed
<1>4. ASSUME NEW p \in Pod, ReactCreate(p) PROVE Fires'
  <2>1. NewRun(react[p].w, Never).cause = Never
    BY DEF NewRun
  <2>2. QED
    BY <1>4, <2>1 DEF ReactCreate, Fires, Claimed
<1>5. QED
  BY <1>1, <1>2, <1>3, <1>4, QuietSteps

LEMMA OneRunStep ==
    TypeOK /\ Fires /\ OneRunPerInstant /\ [Next]_vars => OneRunPerInstant'
<1> SUFFICES ASSUME TypeOK, Fires, OneRunPerInstant, [Next]_vars PROVE OneRunPerInstant'
  OBVIOUS
<1>1. CASE QuietLoops
  BY <1>1 DEF QuietLoops, OneRunPerInstant
<1>2. ASSUME NEW p \in Pod, Claim(p) PROVE OneRunPerInstant'
  BY <1>2 DEF Claim, OneRunPerInstant
<1>3. ASSUME NEW p \in Pod, CreateRun(p) PROVE OneRunPerInstant'
  <2> DEFINE new == NewRun(loop[p].w, loop[p].at)
  <2>1. new.cause = Never \/ new.n = 1
    <3>1. CASE loop[p].at = Never
      BY <3>1 DEF NewRun
    <3>2. CASE loop[p].at # Never
      <4>1. {r \in runs : r.w = loop[p].w /\ r.cause = loop[p].at} = {}
        BY <1>3, <3>2 DEF CreateRun, Fires
      <4>2. QED
        BY <4>1, FS_EmptySet DEF NewRun
    <3>3. QED
      BY <3>1, <3>2
  <2>2. QED
    BY <1>3, <2>1 DEF CreateRun, OneRunPerInstant
<1>4. ASSUME NEW p \in Pod, ReactCreate(p) PROVE OneRunPerInstant'
  <2>1. NewRun(react[p].w, Never).cause = Never
    BY DEF NewRun
  <2>2. QED
    BY <1>4, <2>1 DEF ReactCreate, OneRunPerInstant
<1>5. QED
  BY <1>1, <1>2, <1>3, <1>4, QuietSteps

(* claim_scheduled_workflow_fire is the only thing the pods share, and it   *)
(* is enough: no instant starts two runs.                                   *)
THEOREM OneRunEach == Spec => []OneRunPerInstant
<1>1. Init => Fires /\ OneRunPerInstant
  BY DEF Init, Fires, OneRunPerInstant, Asleep
<1>2. QED
  BY <1>1, TypeInit, TypeStep, FiresStep, OneRunStep, PTL DEF Spec

-----------------------------------------------------------------------------
(* Claims are kept.                                                        *)

LEMMA KeptStep == TypeOK /\ ClaimsAreKept /\ [Next]_vars => ClaimsAreKept'
<1> SUFFICES ASSUME TypeOK, ClaimsAreKept, [Next]_vars PROVE ClaimsAreKept'
  OBVIOUS
<1>t. loop \in [Pod -> Loops] /\ claims \subseteq [w: Workflow, at: Int]
  BY DEF TypeOK
<1>1. CASE QuietLoops
  <2> SUFFICES ASSUME NEW c \in claims
               PROVE  \/ \E r \in runs : r.w = c.w /\ r.cause = c.at
                      \/ c \in lost'
                      \/ \E p \in Pod : /\ loop'[p].pc = "create"
                                        /\ loop'[p].w = c.w /\ loop'[p].at = c.at
    BY <1>1 DEF QuietLoops, ClaimsAreKept
  <2>1. ASSUME NEW p \in Pod, loop[p].pc = "create", loop[p].w = c.w, loop[p].at = c.at
        PROVE  Unfinished(p) = {c}
    <3>1. c = [w |-> c.w, at |-> c.at]
      BY <1>t
    <3>2. QED
      BY <2>1, <3>1 DEF Unfinished
  <2>2. QED
    BY <1>1, <2>1 DEF QuietLoops, ClaimsAreKept
<1>2. ASSUME NEW p \in Pod, Claim(p) PROVE ClaimsAreKept'
  <2>1. CASE Claimed(loop[p].w, loop[p].at)
    <3>1. loop' = [loop EXCEPT ![p] = Anchored(p)] /\ UNCHANGED <<claims, runs, lost>>
      BY <1>2, <2>1 DEF Claim, Claimed
    <3>2. \A q \in Pod : loop[q].pc = "create" => loop'[q] = loop[q]
      BY <1>2, <1>t, <3>1 DEF Claim
    <3>3. QED
      BY <3>1, <3>2 DEF ClaimsAreKept
  <2>2. CASE ~Claimed(loop[p].w, loop[p].at)
    <3>1. /\ claims' = claims \cup {[w |-> loop[p].w, at |-> loop[p].at]}
          /\ loop' = [loop EXCEPT ![p].pc = "create"]
          /\ UNCHANGED <<runs, lost>>
      BY <1>2, <2>2 DEF Claim, Claimed
    <3>2. /\ loop'[p].pc = "create"
          /\ \A q \in Pod : loop'[q].w = loop[q].w /\ loop'[q].at = loop[q].at
          /\ \A q \in Pod : loop[q].pc = "create" => loop'[q].pc = "create"
      BY <1>t, <3>1 DEF Loops
    <3>3. QED
      BY <3>1, <3>2 DEF ClaimsAreKept
  <2>3. QED
    BY <2>1, <2>2
<1>3. ASSUME NEW p \in Pod, CreateRun(p) PROVE ClaimsAreKept'
  <2>1. /\ NewRun(loop[p].w, loop[p].at).w = loop[p].w
        /\ NewRun(loop[p].w, loop[p].at).cause = loop[p].at
    BY DEF NewRun
  <2>2. \A q \in Pod : q # p => loop'[q] = loop[q]
    BY <1>3, <1>t DEF CreateRun
  <2>3. UNCHANGED <<claims, lost>> /\ runs' = runs \cup {NewRun(loop[p].w, loop[p].at)}
    BY <1>3 DEF CreateRun
  <2>4. QED
    BY <2>1, <2>2, <2>3 DEF ClaimsAreKept
<1>4. ASSUME NEW p \in Pod, ReactCreate(p) PROVE ClaimsAreKept'
  BY <1>4 DEF ReactCreate, ClaimsAreKept
<1>5. QED
  BY <1>1, <1>2, <1>3, <1>4, QuietSteps

(* A claimed instant has its run, or a pod about to create it, or it was    *)
(* lost to a crash or an error: the checks come before the claim.           *)
THEOREM ClaimsKept == Spec => []ClaimsAreKept
<1>1. Init => ClaimsAreKept
  BY DEF Init, ClaimsAreKept
<1>2. QED
  BY <1>1, TypeInit, TypeStep, KeptStep, PTL DEF Spec

-----------------------------------------------------------------------------
(* Owners who have left.                                                   *)

(* The members are among those allowed since a pass or an event began, and  *)
(* so is whoever was checked.                                               *)
Allowing ==
    \A p \in Pod :
        /\ loop[p].pc \notin {"sleep", "down"} => member \subseteq allowed[p].pass
        /\ loop[p].pc \in {"claim", "create"} => loop[p].w \in allowed[p].pass
        /\ react[p].pc # "idle" => member \subseteq allowed[p].event
        /\ react[p].pc = "create" => react[p].w \in allowed[p].event

LEMMA AllowingStep == TypeOK /\ Allowing /\ [Next]_vars => Allowing'
<1> SUFFICES ASSUME TypeOK, Allowing, [Next]_vars PROVE Allowing'
  OBVIOUS
<1> USE DEF rowVars, eventVars
<1>t. /\ loop \in [Pod -> Loops] /\ react \in [Pod -> Handlers]
      /\ allowed \in [Pod -> [pass: SUBSET Workflow, event: SUBSET Workflow]]
  BY DEF TypeOK
<1>0. CASE UNCHANGED <<member, loop, react, allowed>>
  BY <1>0 DEF Allowing
<1>1. ASSUME NEW p \in Pod, NEW l, loop' = [loop EXCEPT ![p] = l],
             UNCHANGED <<member, react, allowed>>,
             \/ l.pc \in {"sleep", "down"}
             \/ loop[p].pc \notin {"sleep", "down"} /\ l.pc \in {"scan", "check"}
             \/ loop[p].pc \in {"claim", "create"} /\ l.w = loop[p].w
             \/ loop[p].pc \notin {"sleep", "down"} /\ l.w \in member
      PROVE  Allowing'
  BY <1>1, <1>t DEF Allowing
<1>2. ASSUME NEW p \in Pod, Wake(p) PROVE Allowing'
  <2>1. \A q \in Pod : /\ q # p => loop'[q] = loop[q] /\ allowed'[q] = allowed[q]
                      /\ loop'[p].pc = "scan"
                      /\ allowed'[p].pass = member
                      /\ allowed'[p].event = allowed[p].event
    BY <1>2, <1>t DEF Wake, Loops
  <2>2. UNCHANGED <<member, react>>
    BY <1>2 DEF Wake
  <2>3. QED
    BY <2>1, <2>2 DEF Allowing
<1>3. ASSUME NEW p \in Pod, WakeFails(p) PROVE Allowing'
  <2>1. [loop[p] EXCEPT !.wake = now + Window].pc = "sleep"
    BY <1>3, <1>t DEF WakeFails, Loops
  <2>2. QED
    BY <1>1, <1>3, <2>1 DEF WakeFails
<1>4. ASSUME NEW p \in Pod, CheckOwner(p) PROVE Allowing'
  <2> DEFINE l == [loop[p] EXCEPT !.pc = "claim"]
  <2>1. /\ l.w = loop[p].w
        /\ Skipped(p).pc = "scan"
    BY <1>t DEF Skipped, Loops
  <2>2. \/ loop' = [loop EXCEPT ![p] = l] /\ loop[p].w \in member
        \/ loop' = [loop EXCEPT ![p] = Skipped(p)]
    BY <1>4, <1>t DEF CheckOwner
  <2>3. loop[p].pc = "check" /\ UNCHANGED <<member, react, allowed>>
    BY <1>4 DEF CheckOwner
  <2> HIDE DEF l
  <2>4. QED
    BY <1>1, <2>1, <2>2, <2>3
<1>5. ASSUME NEW p \in Pod, Claim(p) \/ CreateRun(p) \/ StepFails(p) PROVE Allowing'
  <2> DEFINE l == [loop[p] EXCEPT !.pc = "create"]
  <2>1. /\ l.w = loop[p].w
        /\ Skipped(p).pc = "scan" /\ Anchored(p).pc = "scan"
    BY <1>t DEF Skipped, Anchored, Loops
  <2>2. \/ loop' = [loop EXCEPT ![p] = l] /\ loop[p].pc = "claim"
        \/ loop' = [loop EXCEPT ![p] = Skipped(p)]
        \/ loop' = [loop EXCEPT ![p] = Anchored(p)]
    BY <1>5, <1>t DEF Claim, CreateRun, StepFails
  <2>3. /\ loop[p].pc \in {"check", "claim", "create"}
        /\ UNCHANGED <<member, react, allowed>>
    BY <1>5 DEF Claim, CreateRun, StepFails
  <2> HIDE DEF l
  <2>4. QED
    BY <1>1, <2>1, <2>2, <2>3
<1>6. ASSUME NEW p \in Pod, EndPass(p) PROVE Allowing'
  <2>1. \A q \in Pod : /\ q # p => loop'[q] = loop[q] /\ allowed'[q] = allowed[q]
                      /\ loop'[p].pc = "sleep"
                      /\ allowed'[p].event = allowed[p].event
    BY <1>6, <1>t DEF EndPass, Asleep
  <2>2. UNCHANGED <<member, react>>
    BY <1>6 DEF EndPass
  <2>3. QED
    BY <2>1, <2>2 DEF Allowing
<1>7. ASSUME NEW p \in Pod, Crash(p) PROVE Allowing'
  <2>1. \A q \in Pod : /\ q # p => /\ loop'[q] = loop[q] /\ react'[q] = react[q]
                                  /\ allowed'[q] = allowed[q]
                      /\ loop'[p].pc = "down" /\ react'[p].pc = "idle"
    BY <1>7, <1>t DEF Crash, Asleep, NoEvent
  <2>2. member' = member
    BY <1>7 DEF Crash
  <2>3. QED
    BY <2>1, <2>2 DEF Allowing
<1>8. ASSUME NEW p \in Pod, Restart(p) PROVE Allowing'
  <2>1. Asleep(now + Window, NothingFired, now).pc = "sleep"
    BY DEF Asleep
  <2>2. QED
    BY <1>1, <1>8, <2>1 DEF Restart
<1>9. ASSUME NEW p \in Pod, NEW w,
             ConsiderCron(p, w) \/ ConsiderInterval(p, w) \/ AnchorUnreadable(p, w)
      PROVE  Allowing'
  <2>1. loop[p].pc = "scan" /\ UNCHANGED <<member, react, allowed>>
    BY <1>9 DEF ConsiderCron, ConsiderInterval, AnchorUnreadable
  <2>2. /\ NotDue(p, w).pc = "scan"
        /\ \A last : Suppressed(p, w, last).pc = "scan"
        /\ \A at : Due(p, w, at).pc = "check"
    BY <1>t, <2>1 DEF NotDue, Suppressed, Due, Loops
  <2>3. \E l : loop' = [loop EXCEPT ![p] = l] /\ l.pc \in {"scan", "check"}
    BY <1>9, <2>2 DEF ConsiderCron, ConsiderInterval, AnchorUnreadable
  <2>4. QED
    BY <1>1, <2>1, <2>3
<1>10. ASSUME NEW p \in Pod, EventArrives(p) PROVE Allowing'
  <2>1. \A q \in Pod : /\ q # p => react'[q] = react[q] /\ allowed'[q] = allowed[q]
                      /\ react'[p].pc # "create"
                      /\ allowed'[p].event = member
                      /\ allowed'[p].pass = allowed[p].pass
    BY <1>10, <1>t DEF EventArrives
  <2>2. UNCHANGED <<member, loop>>
    BY <1>10 DEF EventArrives
  <2>3. QED
    BY <2>1, <2>2 DEF Allowing
<1>11. ASSUME NEW p \in Pod, FillCache(p) \/ ReactCreate(p) \/ ReactFails(p) PROVE Allowing'
  <2>1. /\ react[p].pc # "idle"
        /\ react'[p].pc = "create" => react[p].pc = "create" /\ react'[p].w = react[p].w
        /\ \A q \in Pod : q # p => react'[q] = react[q]
    BY <1>11, <1>t DEF FillCache, ReactCreate, ReactFails, Handlers
  <2>2. UNCHANGED <<member, loop, allowed>>
    BY <1>11 DEF FillCache, ReactCreate, ReactFails
  <2>3. QED
    BY <2>1, <2>2 DEF Allowing
<1>12. ASSUME NEW p \in Pod, NEW w \in Reacting, ReactCheck(p, w) PROVE Allowing'
  <2>1. /\ react[p].pc = "check"
        /\ react'[p].pc = "create" => react'[p].w = w /\ w \in member
        /\ \A q \in Pod : q # p => react'[q] = react[q]
    BY <1>12, <1>t DEF ReactCheck, Handlers
  <2>2. UNCHANGED <<member, loop, allowed>>
    BY <1>12 DEF ReactCheck
  <2>3. QED
    BY <2>1, <2>2 DEF Allowing
<1>13. ASSUME NEW p \in Pod, ReactDone(p) PROVE Allowing'
  <2>1. \A q \in Pod : /\ q # p => react'[q] = react[q] /\ allowed'[q] = allowed[q]
                      /\ react'[p].pc = "idle"
                      /\ allowed'[p].pass = allowed[p].pass
    BY <1>13, <1>t DEF ReactDone, NoEvent
  <2>2. UNCHANGED <<member, loop>>
    BY <1>13 DEF ReactDone
  <2>3. QED
    BY <2>1, <2>2 DEF Allowing
<1>14. ASSUME NEW w, Depart(w) PROVE Allowing'
  BY <1>14 DEF Depart, Allowing
<1>15. ASSUME NEW w, Rejoin(w) PROVE Allowing'
  BY <1>15, <1>t DEF Rejoin, Allowing
<1>16. CASE TimePasses \/ UNCHANGED vars
  BY <1>0, <1>16 DEF TimePasses, vars
<1>17. ASSUME NEW p \in Pod, CacheExpires(p) \/ \E w \in Workflow : DisableDeparted(p, w)
       PROVE  Allowing'
  BY <1>0, <1>17 DEF CacheExpires, DisableDeparted
<1>18. QED
  BY <1>2, <1>3, <1>4, <1>5, <1>6, <1>7, <1>8, <1>9, <1>10, <1>11, <1>12, <1>13, <1>14,
     <1>15, <1>16, <1>17 DEF Next

(* check_owner_authority holds whatever the list or the cache said: no run  *)
(* is created for an owner who had left before the pass or the event began. *)
THEOREM DepartedAreRefused == Spec => DepartedStartNothing
<1>1. Init => Allowing
  BY DEF Init, Allowing, Asleep, NoEvent
<1>2. Allowing /\ [Next]_vars =>
         [\A p \in Pod : /\ CreateRun(p) => loop[p].w \in allowed[p].pass
                         /\ ReactCreate(p) => react[p].w \in allowed[p].event]_vars
  BY DEF Allowing, CreateRun, ReactCreate
<1>3. QED
  BY <1>1, <1>2, TypeInit, TypeStep, AllowingStep, PTL DEF Spec, DepartedStartNothing

-----------------------------------------------------------------------------
(* Buckets of time, greatest numbers, the latest claim.                    *)

(* The bucket of a time: how many intervals it holds. *)
LEMMA Buckets ==
    ASSUME NEW m \in Nat
    PROVE  /\ m \div Interval \in Nat
           /\ (m \div Interval) * Interval <= m
           /\ m < (m \div Interval) * Interval + Interval
           /\ \A b \in Nat : b * Interval <= m => b <= m \div Interval
           /\ m >= Interval => m \div Interval >= 1
<1> DEFINE q == m \div Interval
           r == m % Interval
<1>1. Interval \in Nat /\ Interval > 0
  BY ScheduleAssumption
<1>2. q \in Int /\ r \in Int /\ m = Interval * q + r /\ 0 <= r /\ r < Interval
  BY <1>1
<1> HIDE DEF q, r
<1>3. q >= 0
  <2>1. CASE q <= -1
    <3>1. Interval * q <= Interval * (-1)
      BY <1>1, <1>2, <2>1
    <3>2. QED
      BY <1>1, <1>2, <3>1
  <2>2. QED
    BY <1>2, <2>1
<1>4. q * Interval <= m /\ m < q * Interval + Interval
  BY <1>1, <1>2
<1>5. ASSUME NEW b \in Nat, b * Interval <= m PROVE b <= q
  <2>1. CASE b >= q + 1
    <3>1. b * Interval >= (q + 1) * Interval
      BY <1>1, <1>2, <2>1
    <3>2. (q + 1) * Interval = Interval * q + Interval
      BY <1>1, <1>2
    <3>3. QED
      BY <1>1, <1>2, <1>5, <3>1, <3>2
  <2>2. QED
    BY <1>2, <2>1
<1>6. m >= Interval => q >= 1
  <2>1. 1 * Interval = Interval
    BY <1>1
  <2>2. QED
    BY <1>1, <1>5, <2>1
<1>7. QED
  BY <1>2, <1>3, <1>4, <1>5, <1>6 DEF q

(* A finite set of integers has a greatest one. *)
LEMMA GreatestOf ==
    ASSUME NEW S, IsFiniteSet(S), S \subseteq Int, S # {}
    PROVE  Max(S) \in S /\ \A x \in S : x <= Max(S)
<1> DEFINE Topped(T) == \E x \in T : \A y \in T : y <= x
           Bad == {T \in SUBSET S : T # {} /\ ~Topped(T)}
           N == {Cardinality(T) : T \in Bad}
<1>1. \A T \in SUBSET S : IsFiniteSet(T) /\ Cardinality(T) \in Nat
  BY FS_Subset, FS_CardinalityType
<1>2. Bad = {}
  <2> SUFFICES ASSUME Bad # {} PROVE FALSE
    OBVIOUS
  <2>1. N \subseteq Nat /\ N # {}
    BY <1>1
  <2> HIDE DEF N
  <2>2. PICK n \in N : \A k \in N : ~(<<k, n>> \in OpToRel(<, Nat))
    BY <2>1, NatLessThanWellFounded, WFMin
  <2>3. \A k \in N : ~(k < n)
    BY <2>1, <2>2 DEF OpToRel
  <2>4. PICK T \in Bad : n = Cardinality(T)
    BY DEF N
  <2>5. PICK x \in T : TRUE
    BY <2>4
  <2>6. /\ T \ {x} \in SUBSET S /\ T \in SUBSET S /\ T \subseteq Int
        /\ Cardinality(T \ {x}) = Cardinality(T) - 1
    BY <1>1, <2>4, <2>5, FS_RemoveElement
  <2>7. T \ {x} \notin Bad
    <3>1. Cardinality(T \ {x}) < n
      BY <1>1, <2>4, <2>6
    <3>2. QED
      BY <2>3, <3>1 DEF N
  <2>8. CASE T \ {x} = {}
    <3>1. \A y \in T : y <= x
      BY <2>5, <2>6, <2>8
    <3>2. QED
      BY <2>4, <2>5, <3>1
  <2>9. CASE T \ {x} # {}
    <3>1. PICK z \in T \ {x} : \A y \in T \ {x} : y <= z
      BY <2>6, <2>7, <2>9
    <3>2. CASE x <= z
      <4>1. \A y \in T : y <= z
        BY <3>1, <3>2
      <4>2. QED
        BY <2>4, <3>1, <4>1
    <3>3. CASE ~(x <= z)
      <4>1. \A y \in T : y <= x
        BY <2>5, <2>6, <3>1, <3>3
      <4>2. QED
        BY <2>4, <2>5, <4>1
    <3>4. QED
      BY <3>2, <3>3
  <2>10. QED
    BY <2>8, <2>9
<1>3. Topped(S)
  BY <1>2
<1>4. PICK x \in S : \A y \in S : x >= y
  BY <1>3
<1>5. Max(S) \in S /\ \A y \in S : Max(S) >= y
  BY <1>4 DEF Max
<1>6. QED
  BY <1>5

(* The fastest clock. *)
Ahead == Max({Skew[p] : p \in Pod})

LEMMA FastestClock == Ahead \in Nat /\ \A p \in Pod : Skew[p] <= Ahead
<1> DEFINE S == {Skew[p] : p \in Pod}
<1>1. IsFiniteSet(Pod) /\ Pod # {} /\ Skew \in [Pod -> Nat]
  BY ScheduleAssumption
<1>2. Skew \in Surjection(Pod, S)
  BY <1>1 DEF Surjection
<1>3. IsFiniteSet(S) /\ S # {} /\ S \subseteq Nat
  BY <1>1, <1>2, FS_Surjection
<1>4. S \subseteq Int
  BY <1>3
<1> HIDE DEF S
<1>5. Max(S) \in S /\ \A x \in S : x <= Max(S)
  BY <1>3, <1>4, GreatestOf
<1>6. Ahead = Max(S) /\ \A p \in Pod : Skew[p] \in S
  BY DEF Ahead, S
<1>7. QED
  BY <1>3, <1>5, <1>6

(* The latest claim of a workflow is one of its claims, and none is later. *)
LEMMA LatestClaimed ==
    ASSUME TypeOK, NEW w \in Workflow
    PROVE  /\ Latest(w) \in Int
           /\ \A c \in claims : c.w = w => c.at <= Latest(w)
           /\ Latest(w) # Never => \E c \in claims : c.w = w /\ c.at = Latest(w)
<1> DEFINE D == {d \in claims : d.w = w}
           A == {c.at : c \in D}
           f == [c \in D |-> c.at]
<1>1. IsFiniteSet(D) /\ \A c \in D : c.at \in Int
  BY FS_Subset DEF TypeOK
<1>2. f \in Surjection(D, A)
  BY DEF Surjection
<1>3. IsFiniteSet(A) /\ A \subseteq Int
  BY <1>1, <1>2, FS_Surjection
<1>4. IsFiniteSet(A \cup {Never}) /\ A \cup {Never} = {Never} \cup A
  BY <1>3, FS_AddElement
<1> HIDE DEF A
<1>5. /\ Max({Never} \cup A) \in {Never} \cup A
      /\ \A x \in {Never} \cup A : x <= Max({Never} \cup A)
  BY <1>3, <1>4, NeverType, GreatestOf
<1>6. Latest(w) = Max({Never} \cup A)
  BY DEF Latest, A
<1>7. \A c \in claims : c.w = w => c.at \in A
  BY DEF A
<1>8. QED
  BY <1>3, <1>5, <1>6, <1>7, NeverType DEF A

-----------------------------------------------------------------------------
(* The rate of interval schedules.                                         *)

(* A boundary of intervals. *)
Boundary(n) == \E b \in Nat : n = b * Interval

(* A pod wakes up in time and takes no longer than MaxLag, from the second  *)
(* window on, and its anchors are ticks it has had.  An interval workflow   *)
(* it found due is at the boundary before its tick, and the first of all    *)
(* intervals is past if passes are short.                                   *)
InTime(p, l, n) ==
    /\ l.pc = "sleep" => n <= l.wake /\ Window <= l.wake /\ l.wake <= n + Window
    /\ l.pc \notin {"sleep", "down"} =>
          Window <= l.tick /\ l.tick <= n /\ n <= l.tick + MaxLag
    /\ \A w \in Workflow : l.last[w] # Never =>
          /\ Window + Skew[p] <= l.last[w] /\ l.last[w] <= n + Skew[p]
          /\ l.pc \notin {"sleep", "down"} => l.last[w] <= l.tick + Skew[p]
    /\ l.pc \in {"check", "claim", "create"} => l.w \in l.todo
    /\ l.pc \in {"check", "claim", "create"} /\ l.w \in Every =>
          /\ Boundary(l.at) /\ l.at <= l.tick + Skew[p] /\ l.tick + Skew[p] < l.at + Interval
          /\ MaxLag <= Window => Interval <= l.at /\ Window + Interval <= n

Paced ==
    /\ \A p \in Pod : InTime(p, loop[p], now)
    /\ \A c \in claims : c.w \in Every =>
          /\ Boundary(c.at) /\ c.at <= now + Ahead
          /\ MaxLag <= Window => Interval <= c.at /\ Window + Interval <= now

LEMMA PacedInit == Init => Paced
<1> SUFFICES ASSUME Init PROVE Paced
  OBVIOUS
<1>1. now = 0 /\ claims = {} /\ \A p \in Pod : loop[p] = Asleep(Window, NothingFired, 0)
  BY DEF Init
<1>2. \A p \in Pod : InTime(p, Asleep(Window, NothingFired, 0), 0)
  BY ScheduleAssumption DEF InTime, Asleep, NothingFired
<1>3. QED
  BY <1>1, <1>2 DEF Paced

(* An interval that has run out on a pod's clock. *)
LEMMA FoundDue ==
    ASSUME TypeOK, Paced, NEW p \in Pod, NEW w \in Every,
           loop[p].pc = "scan",
           NEW last \in Int,
           \/ last = loop[p].last[w]
           \/ last = Latest(w),
           IntervalElapsed(last, Tick(p))
    PROVE  /\ Boundary(IntervalInstant(Tick(p)))
           /\ IntervalInstant(Tick(p)) <= Tick(p)
           /\ Tick(p) < IntervalInstant(Tick(p)) + Interval
           /\ MaxLag <= Window =>
                 Interval <= IntervalInstant(Tick(p)) /\ Window + Interval <= now
<1>1. /\ Window \in Nat /\ MaxLag \in Nat /\ Interval \in Nat /\ Skew[p] \in Nat
      /\ now \in Nat /\ loop[p].tick \in Int /\ w \in Workflow
  BY ScheduleAssumption DEF TypeOK, Loops, Every
<1>2. /\ Window <= loop[p].tick /\ loop[p].tick <= now /\ now <= loop[p].tick + MaxLag
      /\ loop[p].last[w] # Never =>
            Window + Skew[p] <= loop[p].last[w] /\ loop[p].last[w] <= loop[p].tick + Skew[p]
  BY <1>1 DEF Paced, InTime
<1>3. Tick(p) = loop[p].tick + Skew[p] /\ last # Never
  BY DEF Tick, IntervalElapsed
<1>4. MaxLag <= Window => Tick(p) >= Interval /\ Window + Interval <= now
  <2>1. CASE last = loop[p].last[w]
    <3>1. Tick(p) - last >= Interval
      BY <1>1, <1>2, <1>3, <2>1 DEF IntervalElapsed
    <3>2. QED
      BY <1>1, <1>2, <1>3, <2>1, <3>1
  <2>2. CASE last = Latest(w)
    <3>1. MaxLag <= Window => Window + Interval <= now
      BY <1>1, <1>3, <2>2, LatestClaimed DEF Paced
    <3>2. QED
      BY <1>1, <1>2, <1>3, <3>1
  <2>3. QED
    BY <2>1, <2>2
<1>5. Tick(p) \in Nat
  BY <1>1, <1>2, <1>3
<1> DEFINE b == Tick(p) \div Interval
<1>6. b \in Nat /\ b * Interval <= Tick(p) /\ Tick(p) < b * Interval + Interval
  BY <1>5, Buckets
<1>7. Tick(p) >= Interval => Interval <= b * Interval
  <2>1. Tick(p) >= Interval => b >= 1
    BY <1>5, Buckets
  <2> HIDE DEF b
  <2>2. b >= 1 => 1 * Interval <= b * Interval
    BY <1>1, <1>6
  <2>3. 1 * Interval = Interval
    BY <1>1
  <2>4. QED
    BY <2>1, <2>2, <2>3
<1>8. IntervalInstant(Tick(p)) = b * Interval
  BY DEF IntervalInstant
<1> HIDE DEF b
<1>9. QED
  BY <1>4, <1>6, <1>7, <1>8 DEF Boundary

(* What the records of a pass keep. *)
LEMMA RecordsInTime ==
    ASSUME TypeOK, NEW p \in Pod, InTime(p, loop[p], now),
           loop[p].pc \notin {"sleep", "down"}
    PROVE  /\ InTime(p, Skipped(p), now)
           /\ InTime(p, Anchored(p), now)
           /\ loop[p].pc = "scan" =>
                 \A w \in Workflow : /\ InTime(p, NotDue(p, w), now)
                                     /\ \A last : InTime(p, Suppressed(p, w, last), now)
<1>1. loop[p] \in Loops /\ Skew[p] \in Nat /\ Tick(p) \in Int /\ now \in Nat
  BY TickType, ScheduleAssumption DEF TypeOK
<1>2. /\ Window <= loop[p].tick /\ loop[p].tick <= now /\ now <= loop[p].tick + MaxLag
      /\ Tick(p) = loop[p].tick + Skew[p] /\ loop[p].tick \in Int
  BY <1>1 DEF InTime, Tick, Loops
<1>3. Window + Skew[p] <= Tick(p) /\ Tick(p) <= now + Skew[p] /\ Tick(p) <= loop[p].tick + Skew[p]
  BY <1>1, <1>2, ScheduleAssumption
<1>4. InTime(p, Skipped(p), now)
  BY <1>1 DEF InTime, Skipped, Loops
<1>5. InTime(p, Anchored(p), now)
  <2>1. CASE loop[p].w \notin Every
    BY <1>4, <2>1 DEF Anchored
  <2>2. CASE loop[p].w \in Every
    <3> DEFINE l == Anchored(p)
    <3>1. /\ l.pc = "scan" /\ l.tick = loop[p].tick
          /\ \A w \in Workflow : l.last[w] = loop[p].last[w] \/ l.last[w] = Tick(p)
      BY <1>1, <2>2 DEF Anchored, Skipped, Loops
    <3> HIDE DEF l
    <3>2. QED
      BY <1>2, <1>3, <3>1 DEF InTime, l
  <2>3. QED
    BY <2>1, <2>2
<1>6. ASSUME loop[p].pc = "scan", NEW w \in Workflow
      PROVE  InTime(p, NotDue(p, w), now)
  BY <1>1, <1>6 DEF InTime, NotDue, Loops
<1>7. ASSUME loop[p].pc = "scan", NEW w \in Workflow, NEW last
      PROVE  InTime(p, Suppressed(p, w, last), now)
  <2> DEFINE l == Suppressed(p, w, last)
  <2>1. /\ l.pc = "scan" /\ l.tick = loop[p].tick
        /\ \A v \in Workflow : l.last[v] = loop[p].last[v] \/ l.last[v] = Tick(p)
    BY <1>1, <1>7 DEF Suppressed, Loops
  <2> HIDE DEF l
  <2>2. QED
    BY <1>2, <1>3, <2>1 DEF InTime, l
<1>8. QED
  BY <1>4, <1>5, <1>6, <1>7

LEMMA PacedStep == TypeOK /\ Paced /\ [Next]_vars => Paced'
<1> SUFFICES ASSUME TypeOK, Paced, [Next]_vars PROVE Paced'
  OBVIOUS
<1> USE DEF rowVars, eventVars
<1>t. /\ loop \in [Pod -> Loops] /\ now \in Nat
      /\ Window \in Nat /\ MaxLag \in Nat /\ Interval \in Nat /\ Skew \in [Pod -> Nat]
      /\ claims \subseteq [w: Workflow, at: Int]
  BY ScheduleAssumption DEF TypeOK
<1>k. ASSUME kind' = kind PROVE Every' = Every
  BY <1>k DEF Every
<1>i. ASSUME kind' = kind, NEW p, NEW l, NEW n, InTime(p, l, n) PROVE InTime(p, l, n)'
  BY <1>i, <1>k DEF InTime, Boundary
(* Steps that leave the loops, the claims and the time alone. *)
<1>0. CASE UNCHANGED <<now, kind, claims, loop>>
  <2>1. \A p \in Pod : InTime(p, loop[p], now)'
    BY <1>0, <1>k DEF Paced, InTime, Boundary
  <2>2. QED
    BY <1>0, <1>k, <2>1 DEF Paced, Boundary
(* Steps of the loop of one pod. *)
<1>1. ASSUME NEW p \in Pod, NEW l, loop' = [loop EXCEPT ![p] = l],
             UNCHANGED <<now, kind, claims>>, InTime(p, l, now)
      PROVE  Paced'
  <2>1. \A q \in Pod : loop'[q] = IF q = p THEN l ELSE loop[q]
    BY <1>1, <1>t
  <2>2. \A q \in Pod : InTime(q, loop'[q], now)
    BY <1>1, <2>1 DEF Paced
  <2>3. \A q \in Pod : InTime(q, loop[q], now)'
    BY <1>1, <1>k, <2>2 DEF InTime, Boundary
  <2>4. QED
    BY <1>1, <1>k, <2>3 DEF Paced, Boundary
<1>2. CASE TimePasses
  <2>1. /\ now' = now + 1 /\ UNCHANGED <<kind, claims, loop>>
        /\ \A p \in Pod : /\ loop[p].pc = "sleep" => now < loop[p].wake
                          /\ loop[p].pc \notin {"sleep", "down"} => now < loop[p].tick + MaxLag
    BY <1>2 DEF TimePasses
  <2>2. ASSUME NEW p \in Pod PROVE InTime(p, loop[p], now)'
    <3>1. /\ loop[p] \in Loops /\ Skew[p] \in Nat
          /\ loop[p].wake \in Int /\ loop[p].tick \in Int
          /\ \A w \in Workflow : loop[p].last[w] \in Int
      BY <1>t DEF Loops
    <3>2. InTime(p, loop[p], now)
      BY DEF Paced
    <3>3. InTime(p, loop[p], now + 1)
      BY <1>t, <2>1, <3>1, <3>2 DEF InTime
    <3>4. QED
      BY <1>k, <2>1, <3>3 DEF InTime, Boundary
  <2>3. \A c \in claims : c.w \in Every =>
           /\ Boundary(c.at) /\ c.at <= now + 1 + Ahead
           /\ MaxLag <= Window => Interval <= c.at /\ Window + Interval <= now + 1
    BY <1>t, FastestClock DEF Paced
  <2>4. QED
    BY <1>k, <2>1, <2>2, <2>3 DEF Paced, Boundary
<1>3. ASSUME NEW p \in Pod, Wake(p) PROVE Paced'
  <2> DEFINE l == [loop[p] EXCEPT
          !.pc = "scan", !.tick = now, !.todo = enabled \cap (Cron \cup Every),
          !.last = [w \in Workflow |-> IF w \in enabled THEN @[w] ELSE Never]]
  <2>1. loop' = [loop EXCEPT ![p] = l] /\ UNCHANGED <<now, kind, claims>>
    BY <1>3 DEF Wake
  <2>2. loop[p] \in Loops /\ InTime(p, loop[p], now) /\ loop[p].pc = "sleep" /\ now >= loop[p].wake
    BY <1>3, <1>t DEF Wake, Paced
  <2>3. /\ l.pc = "scan" /\ l.tick = now
        /\ \A w \in Workflow : l.last[w] = loop[p].last[w] \/ l.last[w] = Never
    BY <2>2 DEF Loops
  <2> HIDE DEF l
  <2>4. loop[p].wake \in Int /\ Window <= loop[p].wake
    BY <2>2 DEF InTime, Loops
  <2>5. InTime(p, l, now)
    BY <1>t, <2>2, <2>3, <2>4 DEF InTime
  <2>6. QED
    BY <1>1, <2>1, <2>5
<1>4. ASSUME NEW p \in Pod, WakeFails(p) PROVE Paced'
  <2> DEFINE l == [loop[p] EXCEPT !.wake = now + Window]
  <2>1. loop' = [loop EXCEPT ![p] = l] /\ UNCHANGED <<now, kind, claims>>
    BY <1>4 DEF WakeFails
  <2>2. loop[p] \in Loops /\ InTime(p, loop[p], now) /\ loop[p].pc = "sleep"
    BY <1>4, <1>t DEF WakeFails, Paced
  <2>3. InTime(p, l, now)
    BY <1>t, <2>2 DEF InTime, Loops
  <2> HIDE DEF l
  <2>4. QED
    BY <1>1, <2>1, <2>3
<1>5. ASSUME NEW p \in Pod, CheckOwner(p) PROVE Paced'
  <2> DEFINE l == [loop[p] EXCEPT !.pc = "claim"]
  <2>1. /\ loop' = [loop EXCEPT ![p] = l] \/ loop' = [loop EXCEPT ![p] = Skipped(p)]
        /\ UNCHANGED <<now, kind, claims>>
    BY <1>5 DEF CheckOwner
  <2>2. loop[p] \in Loops /\ InTime(p, loop[p], now) /\ loop[p].pc = "check"
    BY <1>5, <1>t DEF CheckOwner, Paced
  <2>3. InTime(p, l, now)
    BY <2>2 DEF InTime, Loops
  <2>4. InTime(p, Skipped(p), now)
    BY <2>2, RecordsInTime
  <2> HIDE DEF l
  <2>5. QED
    BY <1>1, <2>1, <2>3, <2>4
<1>6. ASSUME NEW p \in Pod, Claim(p) PROVE Paced'
  <2> DEFINE l == [loop[p] EXCEPT !.pc = "create"]
             c == [w |-> loop[p].w, at |-> loop[p].at]
  <2>1. \/ loop' = [loop EXCEPT ![p] = Anchored(p)] /\ UNCHANGED <<now, kind, claims>>
        \/ /\ loop' = [loop EXCEPT ![p] = l] /\ claims' = claims \cup {c}
           /\ UNCHANGED <<now, kind>>
    BY <1>6 DEF Claim
  <2>2. loop[p] \in Loops /\ InTime(p, loop[p], now) /\ loop[p].pc = "claim"
    BY <1>6, <1>t DEF Claim, Paced
  <2>3. InTime(p, l, now)
    BY <2>2 DEF InTime, Loops
  <2>4. InTime(p, Anchored(p), now)
    BY <2>2, RecordsInTime
  <2>5. c.w \in Every =>
          /\ Boundary(c.at) /\ c.at <= now + Ahead
          /\ MaxLag <= Window => Interval <= c.at /\ Window + Interval <= now
    <3>1. ASSUME loop[p].w \in Every
          PROVE  /\ Boundary(loop[p].at) /\ loop[p].at <= loop[p].tick + Skew[p]
                 /\ loop[p].tick <= now
                 /\ MaxLag <= Window => Interval <= loop[p].at /\ Window + Interval <= now
      BY <2>2, <3>1 DEF InTime
    <3>2. /\ loop[p].at \in Int /\ loop[p].tick \in Int /\ Skew[p] \in Nat
          /\ Skew[p] <= Ahead /\ Ahead \in Nat
      BY <1>t, <2>2, FastestClock DEF Loops
    <3>3. loop[p].w \in Every => loop[p].at <= now + Ahead
      BY <1>t, <3>1, <3>2
    <3>4. QED
      BY <3>1, <3>3
  <2> HIDE DEF l, c
  <2>6. CASE loop' = [loop EXCEPT ![p] = Anchored(p)] /\ UNCHANGED <<now, kind, claims>>
    BY <1>1, <2>4, <2>6
  <2>7. CASE /\ loop' = [loop EXCEPT ![p] = l] /\ claims' = claims \cup {c}
             /\ UNCHANGED <<now, kind>>
    <3>1. \A q \in Pod : loop'[q] = IF q = p THEN l ELSE loop[q]
      BY <1>t, <2>7
    <3>2. \A q \in Pod : InTime(q, loop'[q], now)
      BY <2>3, <3>1 DEF Paced
    <3>3. \A q \in Pod : InTime(q, loop[q], now)'
      BY <1>k, <2>7, <3>2 DEF InTime, Boundary
    <3>4. \A d \in claims' : d.w \in Every =>
             /\ Boundary(d.at) /\ d.at <= now + Ahead
             /\ MaxLag <= Window => Interval <= d.at /\ Window + Interval <= now
      BY <2>5, <2>7 DEF Paced
    <3>5. QED
      BY <1>k, <2>7, <3>3, <3>4 DEF Paced, Boundary
  <2>8. QED
    BY <2>1, <2>6, <2>7
<1>7. ASSUME NEW p \in Pod, CreateRun(p) \/ StepFails(p) PROVE Paced'
  <2>1. /\ \/ loop' = [loop EXCEPT ![p] = Anchored(p)]
           \/ loop' = [loop EXCEPT ![p] = Skipped(p)]
        /\ loop[p].pc \notin {"sleep", "down"} /\ UNCHANGED <<now, kind, claims>>
    BY <1>7 DEF CreateRun, StepFails
  <2>2. InTime(p, Anchored(p), now) /\ InTime(p, Skipped(p), now)
    BY <2>1, RecordsInTime DEF Paced
  <2>3. QED
    BY <1>1, <2>1, <2>2
<1>8. ASSUME NEW p \in Pod, EndPass(p) PROVE Paced'
  <2> DEFINE l == Asleep(now + Window, loop[p].last, loop[p].since)
  <2>1. loop' = [loop EXCEPT ![p] = l] /\ UNCHANGED <<now, kind, claims>>
    BY <1>8, <1>t DEF EndPass
  <2>2. InTime(p, loop[p], now)
    BY DEF Paced
  <2>3. l.pc = "sleep" /\ l.wake = now + Window /\ l.last = loop[p].last
    BY DEF Asleep
  <2> HIDE DEF l
  <2>4. InTime(p, l, now)
    BY <1>t, <2>2, <2>3 DEF InTime
  <2>5. QED
    BY <1>1, <2>1, <2>4
<1>9. ASSUME NEW p \in Pod, Crash(p) PROVE Paced'
  <2> DEFINE l == [Asleep(Never, NothingFired, Never) EXCEPT !.pc = "down"]
  <2>1. loop' = [loop EXCEPT ![p] = l] /\ UNCHANGED <<now, kind, claims>>
    BY <1>9 DEF Crash
  <2>2. InTime(p, l, now)
    BY DEF InTime, Asleep, NothingFired
  <2> HIDE DEF l
  <2>3. QED
    BY <1>1, <2>1, <2>2
<1>10. ASSUME NEW p \in Pod, Restart(p) PROVE Paced'
  <2> DEFINE l == Asleep(now + Window, NothingFired, now)
  <2>1. loop' = [loop EXCEPT ![p] = l] /\ UNCHANGED <<now, kind, claims>>
    BY <1>10 DEF Restart
  <2>2. InTime(p, l, now)
    BY <1>t DEF InTime, Asleep, NothingFired
  <2> HIDE DEF l
  <2>3. QED
    BY <1>1, <2>1, <2>2
<1>11. ASSUME NEW p \in Pod, NEW w \in Cron, ConsiderCron(p, w) PROVE Paced'
  <2> DEFINE l == Due(p, w, CronInstant(Tick(p)))
  <2>1. /\ loop' = [loop EXCEPT ![p] = l] \/ loop' = [loop EXCEPT ![p] = NotDue(p, w)]
        /\ loop[p].pc = "scan" /\ UNCHANGED <<now, kind, claims>>
    BY <1>11 DEF ConsiderCron
  <2>2. loop[p] \in Loops /\ InTime(p, loop[p], now)
    BY <1>t DEF Paced
  <2>3. InTime(p, l, now)
    <3>1. /\ l.pc = "check" /\ l.w = w /\ l.tick = loop[p].tick /\ l.last = loop[p].last
          /\ w \notin Every /\ l.w \in l.todo
      BY <1>11, <2>2 DEF ConsiderCron, Due, Loops, Cron, Every
    <3> HIDE DEF l
    <3>2. QED
      BY <2>1, <2>2, <3>1 DEF InTime
  <2>4. InTime(p, NotDue(p, w), now)
    BY <2>1, <2>2, RecordsInTime DEF Cron
  <2> HIDE DEF l
  <2>5. QED
    BY <1>1, <2>1, <2>3, <2>4
<1>12. ASSUME NEW p \in Pod, NEW w \in Every, ConsiderInterval(p, w) PROVE Paced'
  <2> DEFINE last == IF loop[p].last[w] # Never THEN loop[p].last[w] ELSE Latest(w)
             l == Due(p, w, IntervalInstant(Tick(p)))
  <2>1. /\ \/ IntervalElapsed(last, Tick(p)) /\ loop' = [loop EXCEPT ![p] = l]
           \/ loop' = [loop EXCEPT ![p] = Suppressed(p, w, last)]
        /\ loop[p].pc = "scan" /\ UNCHANGED <<now, kind, claims>>
    BY <1>12 DEF ConsiderInterval
  <2>2. loop[p] \in Loops /\ InTime(p, loop[p], now) /\ w \in Workflow
    BY <1>t DEF Paced, Every
  <2>3. InTime(p, Suppressed(p, w, last), now)
    BY <2>1, <2>2, RecordsInTime
  <2>4. last \in Int /\ (last = loop[p].last[w] \/ last = Latest(w))
    BY <2>2, LatestClaimed DEF Loops
  <2> HIDE DEF last
  <2>5. ASSUME IntervalElapsed(last, Tick(p)) PROVE InTime(p, l, now)
    <3>1. /\ Boundary(IntervalInstant(Tick(p)))
          /\ IntervalInstant(Tick(p)) <= Tick(p)
          /\ Tick(p) < IntervalInstant(Tick(p)) + Interval
          /\ MaxLag <= Window =>
                Interval <= IntervalInstant(Tick(p)) /\ Window + Interval <= now
      BY <2>1, <2>4, <2>5, FoundDue
    <3>2. /\ l.pc = "check" /\ l.w = w /\ l.tick = loop[p].tick /\ l.last = loop[p].last
          /\ l.at = IntervalInstant(Tick(p)) /\ l.w \in l.todo
      BY <1>12, <2>2 DEF ConsiderInterval, Due, Loops
    <3> HIDE DEF l
    <3>3. QED
      BY <2>1, <2>2, <3>1, <3>2 DEF InTime, Tick
  <2> HIDE DEF l
  <2>6. QED
    BY <1>1, <2>1, <2>3, <2>5
<1>13. ASSUME NEW p \in Pod, NEW w \in Every, AnchorUnreadable(p, w) PROVE Paced'
  <2>1. /\ loop' = [loop EXCEPT ![p] = Suppressed(p, w, Never)]
        /\ loop[p].pc = "scan" /\ UNCHANGED <<now, kind, claims>>
    BY <1>13 DEF AnchorUnreadable
  <2>2. InTime(p, Suppressed(p, w, Never), now)
    BY <2>1, RecordsInTime DEF Paced, Every
  <2>3. QED
    BY <1>1, <2>1, <2>2
<1>14. ASSUME NEW p \in Pod,
              \/ EventArrives(p) \/ FillCache(p) \/ ReactCreate(p) \/ ReactFails(p)
              \/ ReactDone(p) \/ CacheExpires(p)
              \/ \E w \in Reacting : ReactCheck(p, w)
              \/ \E w \in Workflow : DisableDeparted(p, w)
       PROVE  Paced'
  BY <1>0, <1>14 DEF EventArrives, FillCache, ReactCreate, ReactFails, ReactDone,
     CacheExpires, ReactCheck, DisableDeparted
<1>15. ASSUME NEW w \in Workflow, Depart(w) \/ Rejoin(w) PROVE Paced'
  BY <1>0, <1>15 DEF Depart, Rejoin
<1>16. CASE UNCHANGED vars
  BY <1>0, <1>16 DEF vars
<1>17. QED
  BY <1>2, <1>3, <1>4, <1>5, <1>6, <1>7, <1>8, <1>9, <1>10, <1>11, <1>12, <1>13, <1>14,
     <1>15, <1>16 DEF Next

(* Distinct claims of a workflow are distinct boundaries, and there are no  *)
(* more of these than intervals that have gone by.                          *)
LEMMA Counted ==
    ASSUME MaxLag <= Window, TypeOK, Paced, NEW w \in Every
    PROVE  Cardinality({c \in claims : c.w = w}) <= (now + Ahead) \div Interval
<1> DEFINE S == {c \in claims : c.w = w}
           n == (now + Ahead) \div Interval
           f == [c \in S |-> CHOOSE b \in 1..n : c.at = b * Interval]
<1>1. now + Ahead \in Nat /\ n \in Nat
  BY FastestClock, Buckets DEF TypeOK
<1>2. \A b \in Nat : b * Interval <= now + Ahead => b <= n
  BY <1>1, Buckets
<1>3. ASSUME NEW c \in S PROVE \E b \in 1..n : c.at = b * Interval
  <2>1. PICK b \in Nat : c.at = b * Interval
    BY DEF Paced, Boundary
  <2>2. c.at <= now + Ahead /\ Interval <= c.at
    BY DEF Paced
  <2> HIDE DEF n
  <2>3. b <= n
    BY <1>2, <2>1, <2>2
  <2>4. b # 0
    BY <2>1, <2>2, ScheduleAssumption
  <2>5. QED
    BY <1>1, <2>1, <2>3, <2>4
<1>4. \A c \in S : f[c] \in 1..n /\ c.at = f[c] * Interval
  BY <1>3
<1>5. f \in Injection(S, 1..n)
  <2>1. f \in [S -> 1..n]
    BY <1>3
  <2>2. ASSUME NEW c \in S, NEW d \in S, f[c] = f[d] PROVE c = d
    <3>1. c.at = d.at /\ c.w = d.w
      BY <1>4, <2>2
    <3>2. c \in [w: Workflow, at: Int] /\ d \in [w: Workflow, at: Int]
      BY DEF TypeOK
    <3>3. QED
      BY <3>1, <3>2
  <2> HIDE DEF f
  <2>3. QED
    BY <2>1, <2>2 DEF Injection, IsInjective
<1>6. IsFiniteSet(1..n) /\ Cardinality(1..n) = n
  BY <1>1, FS_Interval
<1> HIDE DEF S, n, f
<1>7. Cardinality(S) <= n
  BY <1>5, <1>6, FS_Injection
<1>8. QED
  BY <1>7 DEF S, n

(* Pods that count intervals from times of their own, restart and disagree  *)
(* about the time do not multiply a schedule, when a pass takes no longer   *)
(* than the sleep between two: interval_fire_instant gives every pod the    *)
(* same boundaries, and interval_should_fire none before the first.         *)
THEOREM SchedulesBounded ==
    ASSUME MaxLag <= Window
    PROVE  Spec => []RateBounded
<1>1. TypeOK /\ Paced => RateBounded
  BY Counted DEF RateBounded, Ahead
<1>2. QED
  BY <1>1, TypeInit, PacedInit, TypeStep, PacedStep, PTL DEF Spec
-----------------------------------------------------------------------------
(* No interval schedule stalls.                                            *)

(* From g on, up to t on a pod's clock, one of two boundaries in a row is   *)
(* among the claimed instants K.                                            *)
Pairs(K, g, t) ==
    \A x \in Nat : Boundary(x) /\ g <= x /\ x + Interval <= t =>
        x \in K \/ x + Interval \in K

(* Why a pod was content at its tick t: its anchor is less than an interval *)
(* old, and the anchor's own interval is claimed unless it is from before   *)
(* g; or it has no anchor, and a claim is less than an interval away.       *)
Rooted(K, last, g, t) ==
    \/ /\ last # Never /\ last <= t /\ t < last + Interval
       /\ last <= g \/ \E x \in K : x <= last /\ last < x + Interval
    \/ /\ last = Never
       /\ \E x \in K : x < t + Interval /\ t < x + Interval

(* The next tick comes before g, or soon enough after one at which the pod  *)
(* was content.                                                             *)
Served(K, last, next, g) ==
    \/ next <= g
    \/ \E t \in Int : /\ next <= t + Window + MaxLag
                      /\ Pairs(K, g, t) /\ Rooted(K, last, g, t)

Boundaries(K) == \A x \in K : x \in Nat /\ Boundary(x)

LEMMA BoundariesApart ==
    ASSUME NEW x \in Nat, NEW y \in Nat, Boundary(x), Boundary(y), x < y
    PROVE  x + Interval <= y
<1>1. Interval \in Nat /\ Interval > 0
  BY ScheduleAssumption
<1>2. PICK a \in Nat : x = a * Interval
  BY DEF Boundary
<1>3. PICK b \in Nat : y = b * Interval
  BY DEF Boundary
<1>4. CASE a >= b
  <2>1. a * Interval >= b * Interval
    BY <1>1, <1>4
  <2>2. QED
    BY <1>2, <1>3, <2>1
<1>5. CASE b >= a + 1
  <2>1. b * Interval >= (a + 1) * Interval
    BY <1>1, <1>5
  <2>2. (a + 1) * Interval = a * Interval + Interval
    BY <1>1
  <2>3. QED
    BY <1>1, <1>2, <1>3, <2>1, <2>2
<1>6. QED
  BY <1>4, <1>5

LEMMA NextBoundary ==
    ASSUME NEW x \in Nat, Boundary(x)
    PROVE  x + Interval \in Nat /\ Boundary(x + Interval)
<1>1. Interval \in Nat
  BY ScheduleAssumption
<1>2. PICK a \in Nat : x = a * Interval
  BY DEF Boundary
<1>3. x + Interval = (a + 1) * Interval
  BY <1>1, <1>2
<1>4. QED
  BY <1>1, <1>3 DEF Boundary

(* More claims and an earlier tick do no harm. *)
LEMMA ServedMore ==
    ASSUME NEW K, NEW M, K \subseteq M, NEW last \in Int, NEW next \in Int,
           NEW soon \in Int, NEW g \in Int, soon <= next, Served(K, last, next, g)
    PROVE  Served(M, last, soon, g)
<1>0. Window \in Nat /\ MaxLag \in Nat
  BY ScheduleAssumption
<1>1. CASE next <= g
  BY <1>1 DEF Served
<1>2. CASE ~(next <= g)
  <2>1. PICK t \in Int : /\ next <= t + Window + MaxLag
                         /\ Pairs(K, g, t) /\ Rooted(K, last, g, t)
    BY <1>2 DEF Served
  <2>2. Pairs(M, g, t)
    BY <2>1 DEF Pairs
  <2>3. Rooted(M, last, g, t)
    BY <2>1 DEF Rooted
  <2>4. soon <= t + Window + MaxLag
    BY <1>0, <2>1
  <2>5. QED
    BY <2>2, <2>3, <2>4 DEF Served
<1>3. QED
  BY <1>1, <1>2

(* A tick at T with which the pod is content, if it closes the pairs that   *)
(* end since the tick before.                                               *)
LEMMA ServedAt ==
    ASSUME NEW K, NEW last \in Int, NEW T \in Int, NEW g \in Int, NEW l \in Int,
           Served(K, last, T, g), Rooted(K, l, g, T),
           ASSUME NEW t \in Int, T <= t + Window + MaxLag, Pairs(K, g, t),
                  Rooted(K, last, g, t),
                  NEW x \in Nat, Boundary(x), g <= x, t < x + Interval, x + Interval <= T
           PROVE  x \in K \/ x + Interval \in K
    PROVE  Served(K, l, T + Window + MaxLag, g)
<1>0. Window \in Nat /\ MaxLag \in Nat /\ Interval \in Nat /\ Interval > 0
  BY ScheduleAssumption
<1>1. Pairs(K, g, T)
  <2>1. CASE T <= g
    BY <1>0, <2>1 DEF Pairs
  <2>2. CASE ~(T <= g)
    <3>1. PICK t \in Int : /\ T <= t + Window + MaxLag
                           /\ Pairs(K, g, t) /\ Rooted(K, last, g, t)
      BY <2>2 DEF Served
    <3>2. ASSUME NEW x \in Nat, Boundary(x), g <= x, x + Interval <= T
          PROVE  x \in K \/ x + Interval \in K
      <4>1. CASE x + Interval <= t
        BY <3>1, <3>2, <4>1 DEF Pairs
      <4>2. CASE t < x + Interval
        BY <3>1, <3>2, <4>2
      <4>3. QED
        BY <1>0, <4>1, <4>2
    <3>3. QED
      BY <3>2 DEF Pairs
  <2>3. QED
    BY <2>1, <2>2
<1>2. T + Window + MaxLag <= T + Window + MaxLag
  BY <1>0
<1>3. QED
  BY <1>1, <1>2 DEF Served

(* The interval of the tick is claimed, by this pod or by another. *)
LEMMA ServedFired ==
    ASSUME NEW K, Boundaries(K), NEW last \in Int, NEW T \in Nat, NEW g \in Int,
           Served(K, last, T, g),
           NEW y \in K, y <= T, T < y + Interval
    PROVE  Served(K, T, T + Window + MaxLag, g)
<1>0. /\ Window \in Nat /\ MaxLag \in Nat /\ Interval \in Nat /\ Interval > 0
      /\ Window + MaxLag <= Interval
  BY ScheduleAssumption
<1>1. Rooted(K, T, g, T)
  BY <1>0 DEF Rooted, Never
<1>2. ASSUME NEW t \in Int, T <= t + Window + MaxLag, Pairs(K, g, t),
             Rooted(K, last, g, t),
             NEW x \in Nat, Boundary(x), g <= x, t < x + Interval, x + Interval <= T
      PROVE  x \in K \/ x + Interval \in K
  <2>1. y \in Nat /\ Boundary(y)
    BY DEF Boundaries
  <2>2. x + Interval \in Nat /\ Boundary(x + Interval)
    BY <1>2, NextBoundary
  <2>3. ~(x + Interval < y)
    <3>1. x + Interval < y => x + Interval + Interval <= y
      BY <2>1, <2>2, BoundariesApart
    <3>2. QED
      BY <1>0, <1>2, <2>1, <3>1
  <2>4. ~(y < x + Interval)
    <3>1. y < x + Interval => y + Interval <= x + Interval
      BY <2>1, <2>2, BoundariesApart
    <3>2. QED
      BY <1>0, <1>2, <2>1, <3>1
  <2>5. y = x + Interval
    BY <1>0, <2>1, <2>3, <2>4
  <2>6. QED
    BY <2>5
<1>3. T \in Int
  OBVIOUS
<1>4. QED
  BY <1>1, <1>2, <1>3, ServedAt

(* The pod's own anchor is less than an interval old. *)
LEMMA ServedWaiting ==
    ASSUME NEW K, Boundaries(K), NEW last \in Int, NEW T \in Int, NEW g \in Int,
           Served(K, last, T, g), last # Never, last <= T, T < last + Interval
    PROVE  Served(K, last, T + Window + MaxLag, g)
<1>0. /\ Window \in Nat /\ MaxLag \in Nat /\ Interval \in Nat /\ Interval > 0
      /\ Window + MaxLag <= Interval
  BY ScheduleAssumption
<1>1. Rooted(K, last, g, T)
  <2>1. CASE T <= g
    BY <2>1 DEF Rooted
  <2>2. CASE ~(T <= g)
    BY <2>2 DEF Served, Rooted
  <2>3. QED
    BY <2>1, <2>2
<1>2. ASSUME NEW t \in Int, T <= t + Window + MaxLag, Pairs(K, g, t),
             Rooted(K, last, g, t),
             NEW x \in Nat, Boundary(x), g <= x, t < x + Interval, x + Interval <= T
      PROVE  x \in K \/ x + Interval \in K
  <2>1. last <= t /\ x < last
    BY <1>0, <1>2 DEF Rooted
  <2>2. PICK y \in K : y <= last /\ last < y + Interval
    BY <1>2, <2>1 DEF Rooted
  <2>3. y \in Nat /\ Boundary(y)
    BY DEF Boundaries
  <2>4. ~(x < y)
    <3>1. x < y => x + Interval <= y
      BY <1>2, <2>3, BoundariesApart
    <3>2. QED
      BY <1>0, <1>2, <2>1, <2>2, <2>3, <3>1
  <2>5. ~(y < x)
    <3>1. y < x => y + Interval <= x
      BY <1>2, <2>3, BoundariesApart
    <3>2. QED
      BY <1>0, <1>2, <2>1, <2>2, <2>3, <3>1
  <2>6. y = x
    BY <2>3, <2>4, <2>5
  <2>7. QED
    BY <2>6
<1>3. QED
  BY <1>1, <1>2, ServedAt

(* The pod has no anchor, and a claim is less than an interval away. *)
LEMMA ServedByOthers ==
    ASSUME NEW K, Boundaries(K), NEW T \in Int, NEW g \in Int,
           Served(K, Never, T, g),
           NEW z \in K, z < T + Interval, T < z + Interval
    PROVE  Served(K, Never, T + Window + MaxLag, g)
<1>0. /\ Window \in Nat /\ MaxLag \in Nat /\ Interval \in Nat /\ Interval > 0
      /\ Window + MaxLag <= Interval
  BY ScheduleAssumption
<1>1. Rooted(K, Never, g, T)
  BY DEF Rooted
<1>2. ASSUME NEW t \in Int, T <= t + Window + MaxLag, Pairs(K, g, t),
             Rooted(K, Never, g, t),
             NEW x \in Nat, Boundary(x), g <= x, t < x + Interval, x + Interval <= T
      PROVE  x \in K \/ x + Interval \in K
  <2>1. PICK y \in K : y < t + Interval /\ t < y + Interval
    BY <1>2 DEF Rooted
  <2>2. y \in Nat /\ Boundary(y)
    BY DEF Boundaries
  <2>3. x + Interval \in Nat /\ Boundary(x + Interval)
    BY <1>2, NextBoundary
  <2>4. ~(y < x)
    <3>1. y < x => y + Interval <= x
      BY <1>2, <2>2, BoundariesApart
    <3>2. QED
      BY <1>0, <1>2, <2>1, <2>2, <3>1
  <2>5. ~(x + Interval < y)
    <3>1. x + Interval < y => x + Interval + Interval <= y
      BY <2>2, <2>3, BoundariesApart
    <3>2. QED
      BY <1>0, <1>2, <2>1, <2>2, <3>1
  <2>6. ~(x < y /\ y < x + Interval)
    <3>1. x < y => x + Interval <= y
      BY <1>2, <2>2, BoundariesApart
    <3>2. QED
      BY <1>0, <1>2, <2>2, <3>1
  <2>7. y = x \/ y = x + Interval
    BY <1>0, <2>2, <2>4, <2>5, <2>6
  <2>8. QED
    BY <2>7
<1>3. QED
  BY <1>1, <1>2, NeverType, ServedAt

(* A cold start: nothing is claimed and the pod begins to count. *)
LEMMA ServedFromStart ==
    ASSUME NEW T \in Nat, NEW g \in Int, Served({}, Never, T, g)
    PROVE  Served({}, T, T + Window + MaxLag, g)
<1>0. Window \in Nat /\ MaxLag \in Nat /\ Interval \in Nat /\ Interval > 0
  BY ScheduleAssumption
<1>1. T <= g
  BY DEF Served, Rooted
<1>2. Pairs({}, g, T)
  BY <1>0, <1>1 DEF Pairs
<1>3. Rooted({}, T, g, T)
  BY <1>0, <1>1 DEF Rooted, Never
<1>4. QED
  BY <1>0, <1>2, <1>3 DEF Served

(* The instants at which a workflow is claimed. *)
Times(C, w) == {c.at : c \in {d \in C : d.w = w}}

(* The pod's time when it looks at the workflow next, at the latest. *)
NextTick(p, l, w) ==
    IF l.pc = "sleep" THEN l.wake + Skew[p]
    ELSE IF w \in l.todo THEN l.tick + Skew[p]
    ELSE l.tick + Skew[p] + Window + MaxLag

(* The pod's time from which the schedule is to be kept, when nothing has   *)
(* failed the workflow since s.                                             *)
Onset(p, l, s) == Max({l.since, s}) + Skew[p] + Window + MaxLag

Kept(p, w, l, C, s) == Served(Times(C, w), l.last[w], NextTick(p, l, w), Onset(p, l, s))

Attended ==
    \A p \in Pod, w \in Every \cap enabled \cap member : loop[p].pc # "down" =>
        Kept(p, w, loop[p], claims, steady[w])

LEMMA LaterOf ==
    ASSUME NEW a \in Int, NEW b \in Int
    PROVE  Max({a, b}) \in Int /\ a <= Max({a, b}) /\ b <= Max({a, b})
<1>1. IsFiniteSet({a}) /\ {a, b} = {a} \cup {b}
  BY FS_Singleton
<1>2. IsFiniteSet({a, b})
  BY <1>1, FS_AddElement
<1>3. {a, b} \subseteq Int /\ {a, b} # {}
  OBVIOUS
<1>4. Max({a, b}) \in {a, b} /\ \A x \in {a, b} : x <= Max({a, b})
  BY <1>2, <1>3, GreatestOf
<1>5. QED
  BY <1>4

LEMMA TickTypes ==
    ASSUME NEW p \in Pod, NEW w \in Workflow, NEW l \in Loops, NEW s \in Nat
    PROVE  /\ NextTick(p, l, w) \in Int /\ Onset(p, l, s) \in Int /\ l.last[w] \in Int
           /\ l.since + Skew[p] + Window + MaxLag <= Onset(p, l, s)
           /\ s + Skew[p] + Window + MaxLag <= Onset(p, l, s)
<1>1. Window \in Nat /\ MaxLag \in Nat /\ Skew[p] \in Nat
  BY ScheduleAssumption
<1>2. l.wake \in Int /\ l.tick \in Int /\ l.since \in Int /\ l.last[w] \in Int
  BY DEF Loops
<1>3. NextTick(p, l, w) \in Int
  BY <1>1, <1>2 DEF NextTick
<1> DEFINE m == Max({l.since, s})
<1>4. m \in Int /\ l.since <= m /\ s <= m
  <2>1. l.since \in Int /\ s \in Int
    BY <1>2
  <2>2. QED
    BY <2>1, LaterOf
<1>5. Onset(p, l, s) = m + Skew[p] + Window + MaxLag
  BY DEF Onset
<1> HIDE DEF m
<1>6. QED
  BY <1>1, <1>2, <1>3, <1>4, <1>5

(* No tick is later than a window and a pass from now, nor, less a pass,    *)
(* before now.                                                              *)
LEMMA TickBounds ==
    ASSUME NEW p \in Pod, NEW w \in Workflow, NEW l \in Loops, NEW n \in Nat,
           l.pc = "sleep" => n <= l.wake /\ l.wake <= n + Window,
           l.pc # "sleep" => l.tick <= n /\ n <= l.tick + MaxLag
    PROVE  /\ NextTick(p, l, w) <= n + Skew[p] + Window + MaxLag
           /\ n + Skew[p] <= NextTick(p, l, w) + MaxLag
<1>1. /\ Window \in Nat /\ MaxLag \in Nat /\ Skew[p] \in Nat
      /\ l.wake \in Int /\ l.tick \in Int
  BY ScheduleAssumption DEF Loops
<1>2. QED
  BY <1>1 DEF NextTick

(* A tick within a window and a pass of s is before the onset. *)
LEMMA KeptAnew ==
    ASSUME NEW p \in Pod, NEW w \in Workflow, NEW l \in Loops, NEW C, NEW s \in Nat,
           \/ NextTick(p, l, w) <= s + Skew[p] + Window + MaxLag
           \/ NextTick(p, l, w) <= l.since + Skew[p] + Window + MaxLag
    PROVE  Kept(p, w, l, C, s)
<1>1. /\ Window \in Nat /\ MaxLag \in Nat /\ Skew[p] \in Nat /\ l.since \in Int
  BY ScheduleAssumption DEF Loops
<1>2. NextTick(p, l, w) <= Onset(p, l, s)
  BY <1>1, TickTypes
<1>3. QED
  BY <1>2 DEF Kept, Served

(* More claims and an earlier tick. *)
LEMMA KeptMore ==
    ASSUME NEW p \in Pod, NEW w \in Workflow, NEW l \in Loops, NEW k \in Loops,
           NEW C, NEW D, NEW s \in Nat, C \subseteq D, Kept(p, w, l, C, s),
           k.last[w] = l.last[w], k.since = l.since,
           NextTick(p, k, w) <= NextTick(p, l, w)
    PROVE  Kept(p, w, k, D, s)
<1>1. Times(C, w) \subseteq Times(D, w)
  BY DEF Times
<1>2. /\ NextTick(p, l, w) \in Int /\ NextTick(p, k, w) \in Int /\ Onset(p, l, s) \in Int
      /\ l.last[w] \in Int
  BY TickTypes
<1>3. Onset(p, k, s) = Onset(p, l, s)
  BY DEF Onset
<1>4. Served(Times(D, w), l.last[w], NextTick(p, k, w), Onset(p, l, s))
  BY <1>1, <1>2, ServedMore DEF Kept
<1>5. QED
  BY <1>3, <1>4 DEF Kept

LEMMA TimesBoundaries ==
    ASSUME TypeOK, Paced, NEW w \in Every
    PROVE  Boundaries(Times(claims, w))
<1>1. Interval \in Nat
  BY ScheduleAssumption
<1>2. ASSUME NEW x \in Times(claims, w) PROVE Boundary(x)
  BY DEF Times, Paced
<1>3. ASSUME NEW x, Boundary(x) PROVE x \in Nat
  BY <1>1, <1>3 DEF Boundary
<1>4. QED
  BY <1>2, <1>3 DEF Boundaries

LEMMA AttendedInit == Init => Attended
<1> SUFFICES ASSUME Init, NEW p \in Pod, NEW w \in Every
             PROVE  Kept(p, w, loop[p], claims, steady[w])
  BY DEF Attended
<1>1. /\ loop[p] = Asleep(Window, NothingFired, 0) /\ steady[w] = 0 /\ w \in Workflow
      /\ Window \in Nat /\ MaxLag \in Nat /\ Skew[p] \in Nat
  BY ScheduleAssumption DEF Init, Every
<1>2. loop[p] \in Loops
  BY TypeInit DEF TypeOK
<1>3. loop[p].pc = "sleep" /\ loop[p].wake = Window
  BY <1>1 DEF Asleep
<1>4. NextTick(p, loop[p], w) <= 0 + Skew[p] + Window + MaxLag
  BY <1>1, <1>3 DEF NextTick
<1>5. QED
  BY <1>1, <1>2, <1>4, KeptAnew

(* A pod that has claimed an interval, or found it claimed, has attended to *)
(* the workflow.                                                            *)
LEMMA KeptAnchored ==
    ASSUME TypeOK, Paced, NEW p \in Pod, NEW w \in Every, NEW s \in Nat,
           loop[p].pc \in {"claim", "create"}, loop[p].w = w, Claimed(w, loop[p].at),
           Kept(p, w, loop[p], claims, s)
    PROVE  Kept(p, w, Anchored(p), claims, s)
<1> DEFINE K == Times(claims, w)
           T == Tick(p)
           l == Anchored(p)
           g == Onset(p, loop[p], s)
<1>1. /\ loop[p] \in Loops /\ w \in Workflow /\ Skew[p] \in Nat /\ Window \in Nat
      /\ MaxLag \in Nat
  BY ScheduleAssumption DEF TypeOK, Every
<1>2. /\ w \in loop[p].todo /\ Window <= loop[p].tick
      /\ loop[p].at <= loop[p].tick + Skew[p] /\ loop[p].tick + Skew[p] < loop[p].at + Interval
  BY DEF Paced, InTime
<1>3. loop[p].tick \in Int /\ T = loop[p].tick + Skew[p]
  BY <1>1 DEF Loops, Tick
<1>4. T \in Nat
  BY <1>1, <1>2, <1>3
<1>5. NextTick(p, loop[p], w) = T
  BY <1>2, <1>3 DEF NextTick
<1>6. loop[p].at \in K /\ Boundaries(K)
  BY TimesBoundaries DEF Claimed, Times
<1>7. /\ l.pc = "scan" /\ l.tick = loop[p].tick /\ l.todo = loop[p].todo \ {w}
      /\ l.last[w] = T /\ l.since = loop[p].since
  BY <1>1 DEF Anchored, Skipped, Loops
<1>8. NextTick(p, l, w) = T + Window + MaxLag /\ Onset(p, l, s) = g
  BY <1>3, <1>7 DEF NextTick, Onset
<1>9. g \in Int /\ loop[p].last[w] \in Int
  BY <1>1, TickTypes
<1>10. Served(K, loop[p].last[w], T, g)
  BY <1>5 DEF Kept
<1> HIDE DEF K, T, l, g
<1>11. Served(K, T, T + Window + MaxLag, g)
  BY <1>2, <1>3, <1>4, <1>6, <1>9, <1>10, ServedFired
<1>12. QED
  BY <1>7, <1>8, <1>11 DEF Kept, K, l

(* A pod that finds the interval not over has attended to the workflow. *)
LEMMA KeptSuppressed ==
    ASSUME TypeOK, Paced, NEW p \in Pod, NEW w \in Every, NEW s \in Nat,
           loop[p].pc = "scan", w \in loop[p].todo,
           NEW last, last = IF loop[p].last[w] # Never THEN loop[p].last[w] ELSE Latest(w),
           ~IntervalElapsed(last, Tick(p)),
           Kept(p, w, loop[p], claims, s)
    PROVE  Kept(p, w, Suppressed(p, w, last), claims, s)
<1> DEFINE K == Times(claims, w)
           T == Tick(p)
           l == Suppressed(p, w, last)
           g == Onset(p, loop[p], s)
           own == loop[p].last[w]
<1>1. /\ loop[p] \in Loops /\ w \in Workflow /\ Skew[p] \in Nat /\ Window \in Nat
      /\ MaxLag \in Nat /\ Interval \in Nat /\ Interval > 0
  BY ScheduleAssumption DEF TypeOK, Every
<1>2. /\ Window <= loop[p].tick
      /\ own # Never => own <= loop[p].tick + Skew[p]
  BY <1>1 DEF Paced, InTime
<1>3. loop[p].tick \in Int /\ T = loop[p].tick + Skew[p]
  BY <1>1 DEF Loops, Tick
<1>4. T \in Nat
  BY <1>1, <1>2, <1>3
<1>5. NextTick(p, loop[p], w) = T
  BY <1>3 DEF NextTick
<1>6. Boundaries(K)
  BY TimesBoundaries
<1>7. /\ l.pc = "scan" /\ l.tick = loop[p].tick /\ l.todo = loop[p].todo \ {w}
      /\ l.last[w] = (IF last = Never THEN T ELSE own) /\ l.since = loop[p].since
  BY <1>1 DEF Suppressed, Loops
<1>8. NextTick(p, l, w) = T + Window + MaxLag /\ Onset(p, l, s) = g
  BY <1>3, <1>7 DEF NextTick, Onset
<1>9. g \in Int /\ own \in Int
  BY <1>1, TickTypes
<1>10. Served(K, own, T, g)
  BY <1>5 DEF Kept
<1>11. ~IntervalElapsed(last, T)
  OBVIOUS
<1>12. last = IF own # Never THEN own ELSE Latest(w)
  OBVIOUS
<1>13. /\ Latest(w) \in Int
       /\ \A x \in K : x <= Latest(w)
       /\ Latest(w) # Never => Latest(w) \in K
  BY <1>1, LatestClaimed DEF Times
<1> HIDE DEF K, T, l, g, own
<1>14. Served(K, l.last[w], T + Window + MaxLag, g)
  <2>1. CASE own # Never
    <3>1. last = own /\ l.last[w] = own /\ own <= T
      BY <1>2, <1>3, <1>7, <1>12, <2>1
    <3>2. T < own + Interval
      BY <1>1, <1>4, <1>9, <1>11, <2>1, <3>1 DEF IntervalElapsed
    <3>3. QED
      BY <1>4, <1>6, <1>9, <1>10, <2>1, <3>1, <3>2, ServedWaiting
  <2>2. CASE own = Never /\ last = Never
    <3>1. Latest(w) = Never /\ l.last[w] = T
      BY <1>7, <1>12, <2>2
    <3>2. K = {}
      BY <1>6, <1>13, <3>1 DEF Boundaries, Never
    <3>3. QED
      BY <1>4, <1>9, <1>10, <2>2, <3>1, <3>2, ServedFromStart
  <2>3. CASE own = Never /\ last # Never
    <3>1. last = Latest(w) /\ last \in K /\ l.last[w] = Never
      BY <1>7, <1>12, <1>13, <2>3
    <3>2. last \in Int /\ last < T + Interval /\ T < last + Interval
      BY <1>1, <1>4, <1>11, <1>13, <2>3, <3>1 DEF IntervalElapsed
    <3>3. QED
      BY <1>4, <1>6, <1>9, <1>10, <2>3, <3>1, <3>2, ServedByOthers
  <2>4. QED
    BY <2>1, <2>2, <2>3
<1>15. QED
  BY <1>8, <1>14 DEF Kept, K, l

(* Leaving one workflow of a pass behind does not delay the others. *)
LEMMA KeptOthers ==
    ASSUME TypeOK, NEW p \in Pod, NEW v \in Workflow, NEW w, v # w, NEW s \in Nat, NEW last,
           loop[p].pc \notin {"sleep", "down"},
           Kept(p, v, loop[p], claims, s)
    PROVE  /\ loop[p].w = w => /\ Kept(p, v, Skipped(p), claims, s)
                               /\ Kept(p, v, Anchored(p), claims, s)
           /\ loop[p].pc = "scan" => /\ Kept(p, v, NotDue(p, w), claims, s)
                                     /\ Kept(p, v, Suppressed(p, w, last), claims, s)
<1>1. loop[p] \in Loops /\ Skew[p] \in Nat /\ Window \in Nat /\ MaxLag \in Nat
  BY ScheduleAssumption DEF TypeOK
<1>2. NextTick(p, loop[p], v) \in Int
  BY <1>1, TickTypes
<1>3. ASSUME NEW l \in Loops, l.pc = "scan", l.tick = loop[p].tick,
             l.todo = loop[p].todo \ {w}, l.last[v] = loop[p].last[v], l.since = loop[p].since
      PROVE  Kept(p, v, l, claims, s)
  <2>1. NextTick(p, l, v) = NextTick(p, loop[p], v)
    BY <1>3 DEF NextTick
  <2>2. NextTick(p, l, v) <= NextTick(p, loop[p], v)
    BY <1>2, <2>1
  <2>3. QED
    BY <1>1, <1>3, <2>2, KeptMore
<1>4. ASSUME loop[p].w = w PROVE Kept(p, v, Skipped(p), claims, s)
  <2> DEFINE l == Skipped(p)
  <2>1. /\ l.pc = "scan" /\ l.tick = loop[p].tick /\ l.todo = loop[p].todo \ {w}
        /\ l.last[v] = loop[p].last[v] /\ l.since = loop[p].since
    BY <1>1, <1>4 DEF Skipped, Loops
  <2>2. l \in Loops
    BY LoopTypes
  <2> HIDE DEF l
  <2>3. Kept(p, v, l, claims, s)
    BY <1>3, <2>1, <2>2
  <2>4. QED
    BY <2>3 DEF l
<1>5. ASSUME loop[p].w = w PROVE Kept(p, v, Anchored(p), claims, s)
  <2> DEFINE l == Anchored(p)
  <2>1. /\ l.pc = "scan" /\ l.tick = loop[p].tick /\ l.todo = loop[p].todo \ {w}
        /\ l.last[v] = loop[p].last[v] /\ l.since = loop[p].since
    BY <1>1, <1>5 DEF Anchored, Skipped, Loops
  <2>2. l \in Loops
    BY LoopTypes
  <2> HIDE DEF l
  <2>3. Kept(p, v, l, claims, s)
    BY <1>3, <2>1, <2>2
  <2>4. QED
    BY <2>3 DEF l
<1>6. ASSUME loop[p].pc = "scan" PROVE Kept(p, v, NotDue(p, w), claims, s)
  <2> DEFINE l == NotDue(p, w)
  <2>1. /\ l.pc = "scan" /\ l.tick = loop[p].tick /\ l.todo = loop[p].todo \ {w}
        /\ l.last[v] = loop[p].last[v] /\ l.since = loop[p].since
    BY <1>1, <1>6 DEF NotDue, Loops
  <2>2. l \in Loops
    BY <1>1, <1>6 DEF NotDue, Loops
  <2> HIDE DEF l
  <2>3. Kept(p, v, l, claims, s)
    BY <1>3, <2>1, <2>2
  <2>4. QED
    BY <2>3 DEF l
<1>7. ASSUME loop[p].pc = "scan" PROVE Kept(p, v, Suppressed(p, w, last), claims, s)
  <2> DEFINE l == Suppressed(p, w, last)
  <2>1. /\ l.pc = "scan" /\ l.tick = loop[p].tick /\ l.todo = loop[p].todo \ {w}
        /\ l.last[v] = loop[p].last[v] /\ l.since = loop[p].since
    BY <1>1, <1>7 DEF Suppressed, Loops
  <2>2. l \in Loops
    BY <1>7, LoopTypes
  <2> HIDE DEF l
  <2>3. Kept(p, v, l, claims, s)
    BY <1>3, <2>1, <2>2
  <2>4. QED
    BY <2>3 DEF l
<1>8. QED
  BY <1>4, <1>5, <1>6, <1>7

LEMMA AttendedStep ==
    TypeOK /\ TypeOK' /\ Paced /\ Paced' /\ Fires /\ Attended /\ [Next]_vars => Attended'
<1> SUFFICES ASSUME TypeOK, TypeOK', Paced, Paced', Fires, Attended, [Next]_vars
             PROVE  Attended'
  OBVIOUS
<1> USE DEF rowVars, eventVars
<1>t. /\ loop \in [Pod -> Loops] /\ loop' \in [Pod -> Loops] /\ now \in Nat /\ now' \in Nat
      /\ Window \in Nat /\ MaxLag \in Nat /\ Interval \in Nat /\ Skew \in [Pod -> Nat]
      /\ Every \subseteq Workflow /\ steady \in [Workflow -> Nat]
  BY ScheduleAssumption DEF TypeOK, Every
<1>k. ASSUME kind' = kind PROVE Every' = Every
  BY <1>k DEF Every
<1>a. ASSUME NEW p \in Pod, NEW w \in Every \cap enabled \cap member, loop[p].pc # "down"
      PROVE  Kept(p, w, loop[p], claims, steady[w])
  BY <1>a DEF Attended
(* After a failure of the database, or the owner's return, every tick is    *)
(* before the onset.                                                        *)
<1>u. ASSUME NEW p \in Pod, NEW w \in Workflow, loop'[p].pc # "down",
             steady'[w] = now, now' = now
      PROVE  Kept(p, w, loop'[p], claims', steady'[w])
  <2>1. /\ loop'[p].pc = "sleep" => now <= loop'[p].wake /\ loop'[p].wake <= now + Window
        /\ loop'[p].pc # "sleep" => loop'[p].tick <= now /\ now <= loop'[p].tick + MaxLag
    BY <1>u DEF Paced, InTime
  <2>2. loop'[p] \in Loops
    BY <1>t
  <2>3. NextTick(p, loop'[p], w) <= now + Skew[p] + Window + MaxLag
    BY <1>t, <1>u, <2>1, <2>2, TickBounds
  <2>4. QED
    BY <1>t, <1>u, <2>2, <2>3, KeptAnew
<1>d. ASSUME DatabaseError, now' = now, kind' = kind PROVE Attended'
  <2>1. \A w \in Workflow : steady'[w] = now
    BY <1>d DEF DatabaseError
  <2>2. ASSUME NEW p \in Pod, NEW w \in Every', loop'[p].pc # "down"
        PROVE  Kept(p, w, loop'[p], claims', steady'[w])
    BY <1>d, <1>k, <1>t, <1>u, <2>1, <2>2
  <2>3. QED
    BY <2>2 DEF Attended
(* Steps that leave the loops and the claims alone. *)
<1>0. ASSUME UNCHANGED <<kind, claims, loop, steady>>,
             enabled' \subseteq enabled, member' \subseteq member
      PROVE  Attended'
  BY <1>0, <1>k, <1>a DEF Attended
(* Steps of the loop of one pod. *)
<1>1. ASSUME NEW p \in Pod, NEW l, loop' = [loop EXCEPT ![p] = l],
             UNCHANGED <<kind, steady, enabled, member>>, claims \subseteq claims',
             \A w \in Every \cap enabled \cap member :
                l.pc # "down" => Kept(p, w, l, claims, steady[w])
      PROVE  Attended'
  <2>1. ASSUME NEW q \in Pod, NEW w \in Every \cap enabled \cap member, loop'[q].pc # "down"
        PROVE  Kept(q, w, loop'[q], claims', steady[w])
    <3>1. Kept(q, w, loop'[q], claims, steady[w])
      <4>1. loop'[q] = IF q = p THEN l ELSE loop[q]
        BY <1>1, <1>t
      <4>2. CASE q = p
        BY <1>1, <2>1, <4>1, <4>2
      <4>3. CASE q # p
        BY <1>a, <2>1, <4>1, <4>3
      <4>4. QED
        BY <4>2, <4>3
    <3>2. loop'[q] \in Loops /\ w \in Workflow /\ steady[w] \in Nat
      BY <1>t
    <3>3. NextTick(q, loop'[q], w) <= NextTick(q, loop'[q], w)
      BY <3>2, TickTypes
    <3>4. QED
      BY <1>1, <3>1, <3>2, <3>3, KeptMore
  <2>2. QED
    BY <1>1, <1>k, <2>1 DEF Attended
(* Steps that keep the anchors and do not put off the next tick. *)
<1>q. ASSUME NEW p \in Pod, NEW l \in Loops, NEW w \in Every \cap enabled \cap member,
             loop[p].pc # "down", l.last[w] = loop[p].last[w], l.since = loop[p].since,
             NextTick(p, l, w) <= NextTick(p, loop[p], w)
      PROVE  Kept(p, w, l, claims, steady[w])
  BY <1>a, <1>q, <1>t, KeptMore
<1>e. ASSUME NEW p \in Pod, NEW w \in Workflow
      PROVE  NextTick(p, loop[p], w) <= NextTick(p, loop[p], w)
  BY <1>t, TickTypes
<1>2. CASE TimePasses
  BY <1>0, <1>2 DEF TimePasses
<1>3. ASSUME NEW p \in Pod, Wake(p) PROVE Attended'
  <2> DEFINE l == [loop[p] EXCEPT
          !.pc = "scan", !.tick = now, !.todo = enabled \cap (Cron \cup Every),
          !.last = [w \in Workflow |-> IF w \in enabled THEN @[w] ELSE Never]]
  <2>1. /\ loop' = [loop EXCEPT ![p] = l] /\ UNCHANGED <<kind, steady, enabled, member, claims>>
        /\ loop[p].pc = "sleep"
    BY <1>3 DEF Wake
  <2>2. loop[p] \in Loops /\ loop[p].wake \in Int /\ now <= loop[p].wake
    BY <1>t, <2>1 DEF Loops, Paced, InTime
  <2>3. l \in Loops
    BY <1>t, <2>1
  <2>4. /\ l.pc = "scan" /\ l.tick = now /\ l.since = loop[p].since
        /\ l.todo = enabled \cap (Cron \cup Every)
        /\ \A w \in Every \cap enabled : l.last[w] = loop[p].last[w]
    BY <1>t, <2>2 DEF Loops
  <2> HIDE DEF l
  <2>5. ASSUME NEW w \in Every \cap enabled \cap member
        PROVE  Kept(p, w, l, claims, steady[w])
    <3>1. NextTick(p, l, w) = now + Skew[p] /\ NextTick(p, loop[p], w) = loop[p].wake + Skew[p]
      BY <2>1, <2>4 DEF NextTick
    <3>2. NextTick(p, l, w) <= NextTick(p, loop[p], w)
      BY <1>t, <2>2, <3>1
    <3>3. QED
      BY <1>q, <2>1, <2>3, <2>4, <3>2
  <2>6. QED
    BY <1>1, <2>1, <2>5
<1>4. ASSUME NEW p \in Pod,
             WakeFails(p) \/ StepFails(p) \/ \E w \in Every : AnchorUnreadable(p, w)
      PROVE  Attended'
  BY <1>4, <1>d DEF WakeFails, StepFails, AnchorUnreadable
<1>5. ASSUME NEW p \in Pod, CheckOwner(p) PROVE Attended'
  <2> DEFINE l == [loop[p] EXCEPT !.pc = "claim"]
  <2>1. /\ \/ loop' = [loop EXCEPT ![p] = l]
           \/ loop' = [loop EXCEPT ![p] = Skipped(p)] /\ loop[p].w \notin member
        /\ UNCHANGED <<kind, steady, enabled, member, claims>>
        /\ loop[p].pc = "check"
    BY <1>5 DEF CheckOwner
  <2>2. loop[p] \in Loops
    BY <1>t
  <2>3. /\ l \in Loops /\ l.pc = "claim" /\ l.last = loop[p].last /\ l.since = loop[p].since
        /\ l.todo = loop[p].todo /\ l.tick = loop[p].tick
    BY <2>1, <2>2 DEF Loops
  <2> HIDE DEF l
  <2>4. ASSUME NEW w \in Every \cap enabled \cap member
        PROVE  Kept(p, w, l, claims, steady[w])
    <3>1. NextTick(p, l, w) = NextTick(p, loop[p], w)
      BY <2>1, <2>3 DEF NextTick
    <3>2. QED
      BY <1>e, <1>q, <1>t, <2>1, <2>3, <3>1
  <2>5. ASSUME loop[p].w \notin member, NEW w \in Every \cap enabled \cap member
        PROVE  Kept(p, w, Skipped(p), claims, steady[w])
    BY <1>a, <1>t, <2>1, <2>5, KeptOthers
  <2>6. CASE loop' = [loop EXCEPT ![p] = l]
    BY <1>1, <2>1, <2>4, <2>6
  <2>7. CASE loop' = [loop EXCEPT ![p] = Skipped(p)] /\ loop[p].w \notin member
    BY <1>1, <2>1, <2>5, <2>7
  <2>8. QED
    BY <2>1, <2>6, <2>7
<1>c. ASSUME NEW p \in Pod, loop[p].pc \in {"claim", "create"}, Claimed(loop[p].w, loop[p].at),
             NEW w \in Every \cap enabled \cap member
      PROVE  Kept(p, w, Anchored(p), claims, steady[w])
  <2>1. Kept(p, w, loop[p], claims, steady[w]) /\ steady[w] \in Nat /\ w \in Workflow
    BY <1>a, <1>c, <1>t
  <2>2. CASE loop[p].w = w
    BY <1>c, <2>1, <2>2, KeptAnchored
  <2>3. CASE loop[p].w # w
    BY <1>c, <2>1, <2>3, KeptOthers
  <2>4. QED
    BY <2>2, <2>3
<1>6. ASSUME NEW p \in Pod, Claim(p) PROVE Attended'
  <2> DEFINE l == [loop[p] EXCEPT !.pc = "create"]
  <2>1. /\ \/ /\ loop' = [loop EXCEPT ![p] = Anchored(p)] /\ UNCHANGED claims
              /\ Claimed(loop[p].w, loop[p].at)
           \/ loop' = [loop EXCEPT ![p] = l] /\ claims \subseteq claims'
        /\ UNCHANGED <<kind, steady, enabled, member>>
        /\ loop[p].pc = "claim"
    BY <1>6 DEF Claim, Claimed
  <2>2. loop[p] \in Loops
    BY <1>t
  <2>3. /\ l \in Loops /\ l.pc = "create" /\ l.last = loop[p].last /\ l.since = loop[p].since
        /\ l.todo = loop[p].todo /\ l.tick = loop[p].tick
    BY <2>1, <2>2 DEF Loops
  <2> HIDE DEF l
  <2>4. ASSUME NEW w \in Every \cap enabled \cap member
        PROVE  Kept(p, w, l, claims, steady[w])
    <3>1. NextTick(p, l, w) = NextTick(p, loop[p], w)
      BY <2>1, <2>3 DEF NextTick
    <3>2. QED
      BY <1>e, <1>q, <1>t, <2>1, <2>3, <3>1
  <2>5. CASE loop' = [loop EXCEPT ![p] = l] /\ claims \subseteq claims'
    BY <1>1, <2>1, <2>4, <2>5
  <2>6. CASE /\ loop' = [loop EXCEPT ![p] = Anchored(p)] /\ UNCHANGED claims
             /\ Claimed(loop[p].w, loop[p].at)
    <3>1. \A w \in Every \cap enabled \cap member : Kept(p, w, Anchored(p), claims, steady[w])
      BY <1>c, <2>1, <2>6
    <3>2. QED
      BY <1>1, <2>1, <2>6, <3>1
  <2>7. QED
    BY <2>1, <2>5, <2>6
<1>7. ASSUME NEW p \in Pod, CreateRun(p) PROVE Attended'
  <2>1. /\ loop' = [loop EXCEPT ![p] = Anchored(p)] /\ loop[p].pc = "create"
        /\ UNCHANGED <<kind, steady, enabled, member, claims>>
    BY <1>7 DEF CreateRun
  <2>2. Claimed(loop[p].w, loop[p].at)
    BY <2>1 DEF Fires
  <2>3. \A w \in Every \cap enabled \cap member : Kept(p, w, Anchored(p), claims, steady[w])
    BY <1>c, <2>1, <2>2
  <2>4. QED
    BY <1>1, <2>1, <2>3
<1>8. ASSUME NEW p \in Pod, EndPass(p) PROVE Attended'
  <2> DEFINE l == Asleep(now + Window, loop[p].last, loop[p].since)
  <2>1. /\ loop' = [loop EXCEPT ![p] = l] /\ loop[p].pc = "scan" /\ loop[p].todo = {}
        /\ UNCHANGED <<kind, steady, enabled, member, claims>>
    BY <1>8, <1>t DEF EndPass
  <2>2. loop[p].tick \in Int /\ now <= loop[p].tick + MaxLag
    BY <1>t, <2>1 DEF Loops, Paced, InTime
  <2>3. l \in Loops
    BY <1>t, <2>1
  <2>4. l.pc = "sleep" /\ l.wake = now + Window /\ l.last = loop[p].last /\ l.since = loop[p].since
    BY DEF Asleep
  <2> HIDE DEF l
  <2>5. ASSUME NEW w \in Every \cap enabled \cap member
        PROVE  Kept(p, w, l, claims, steady[w])
    <3>1. /\ NextTick(p, l, w) = now + Window + Skew[p]
          /\ NextTick(p, loop[p], w) = loop[p].tick + Skew[p] + Window + MaxLag
      BY <2>1, <2>4 DEF NextTick
    <3>2. NextTick(p, l, w) <= NextTick(p, loop[p], w)
      BY <1>t, <2>2, <3>1
    <3>3. QED
      BY <1>q, <2>1, <2>3, <2>4, <3>2
  <2>6. QED
    BY <1>1, <2>1, <2>5
<1>9. ASSUME NEW p \in Pod, Crash(p) PROVE Attended'
  <2> DEFINE l == [Asleep(Never, NothingFired, Never) EXCEPT !.pc = "down"]
  <2>1. loop' = [loop EXCEPT ![p] = l] /\ UNCHANGED <<kind, steady, enabled, member, claims>>
    BY <1>9 DEF Crash
  <2>2. l.pc = "down"
    BY DEF Asleep
  <2> HIDE DEF l
  <2>3. QED
    BY <1>1, <2>1, <2>2
<1>10. ASSUME NEW p \in Pod, Restart(p) PROVE Attended'
  <2> DEFINE l == Asleep(now + Window, NothingFired, now)
  <2>1. loop' = [loop EXCEPT ![p] = l] /\ UNCHANGED <<kind, steady, enabled, member, claims>>
    BY <1>10 DEF Restart
  <2>2. l \in Loops
    BY <1>t, <2>1
  <2>3. l.pc = "sleep" /\ l.wake = now + Window /\ l.since = now
    BY DEF Asleep
  <2> HIDE DEF l
  <2>4. ASSUME NEW w \in Every \cap enabled \cap member
        PROVE  Kept(p, w, l, claims, steady[w])
    <3>1. NextTick(p, l, w) <= l.since + Skew[p] + Window + MaxLag
      BY <1>t, <2>3 DEF NextTick
    <3>2. QED
      BY <1>t, <2>2, <3>1, KeptAnew
  <2>5. QED
    BY <1>1, <2>1, <2>4
<1>w. ASSUME NEW p \in Pod, NEW v \in Workflow, NEW at, loop[p].pc = "scan",
             loop' = [loop EXCEPT ![p] = Due(p, v, at)],
             UNCHANGED <<kind, steady, enabled, member, claims>>
      PROVE  Attended'
  <2> DEFINE l == Due(p, v, at)
  <2>1. loop[p] \in Loops /\ l \in Loops
    BY <1>t, <1>w
  <2>2. /\ l.pc = "check" /\ l.last = loop[p].last /\ l.since = loop[p].since
        /\ l.todo = loop[p].todo /\ l.tick = loop[p].tick
    BY <2>1 DEF Due, Loops
  <2>3. loop' = [loop EXCEPT ![p] = l]
    BY <1>w
  <2> HIDE DEF l
  <2>4. ASSUME NEW w \in Every \cap enabled \cap member
        PROVE  Kept(p, w, l, claims, steady[w])
    <3>1. NextTick(p, l, w) = NextTick(p, loop[p], w)
      BY <1>w, <2>2 DEF NextTick
    <3>2. QED
      BY <1>e, <1>q, <1>t, <1>w, <2>1, <2>2, <3>1
  <2>5. QED
    BY <1>1, <1>w, <2>3, <2>4
<1>11. ASSUME NEW p \in Pod, NEW w \in Cron, ConsiderCron(p, w) PROVE Attended'
  <2>1. /\ \/ loop' = [loop EXCEPT ![p] = NotDue(p, w)]
           \/ loop' = [loop EXCEPT ![p] = Due(p, w, CronInstant(Tick(p)))]
        /\ loop[p].pc = "scan" /\ UNCHANGED <<kind, steady, enabled, member, claims>>
    BY <1>11 DEF ConsiderCron
  <2>2. ASSUME NEW v \in Every \cap enabled \cap member
        PROVE  Kept(p, v, NotDue(p, w), claims, steady[v])
    <3>1. v # w /\ v \in Workflow /\ steady[v] \in Nat
      BY <1>t DEF Cron, Every
    <3>2. QED
      BY <1>a, <2>1, <3>1, KeptOthers
  <2>3. CASE loop' = [loop EXCEPT ![p] = NotDue(p, w)]
    BY <1>1, <2>1, <2>2, <2>3
  <2>4. CASE loop' = [loop EXCEPT ![p] = Due(p, w, CronInstant(Tick(p)))]
    BY <1>w, <2>1, <2>4 DEF Cron
  <2>5. QED
    BY <2>1, <2>3, <2>4
<1>12. ASSUME NEW p \in Pod, NEW w \in Every, ConsiderInterval(p, w) PROVE Attended'
  <2> DEFINE last == IF loop[p].last[w] # Never THEN loop[p].last[w] ELSE Latest(w)
  <2>1. /\ \/ ~IntervalElapsed(last, Tick(p)) /\ loop' = [loop EXCEPT ![p] = Suppressed(p, w, last)]
           \/ loop' = [loop EXCEPT ![p] = Due(p, w, IntervalInstant(Tick(p)))]
        /\ loop[p].pc = "scan" /\ UNCHANGED <<kind, steady, enabled, member, claims>>
        /\ w \in loop[p].todo
    BY <1>12 DEF ConsiderInterval
  <2>2. ASSUME NEW v \in Every \cap enabled \cap member, ~IntervalElapsed(last, Tick(p))
        PROVE  Kept(p, v, Suppressed(p, w, last), claims, steady[v])
    <3>1. Kept(p, v, loop[p], claims, steady[v]) /\ v \in Workflow /\ steady[v] \in Nat
      BY <1>a, <1>t, <2>1
    <3>2. CASE v = w
      BY <2>1, <2>2, <3>1, <3>2, KeptSuppressed
    <3>3. CASE v # w
      BY <2>1, <3>1, <3>3, KeptOthers
    <3>4. QED
      BY <3>2, <3>3
  <2> HIDE DEF last
  <2>3. CASE ~IntervalElapsed(last, Tick(p)) /\ loop' = [loop EXCEPT ![p] = Suppressed(p, w, last)]
    BY <1>1, <2>1, <2>2, <2>3
  <2>4. CASE loop' = [loop EXCEPT ![p] = Due(p, w, IntervalInstant(Tick(p)))]
    BY <1>t, <1>w, <2>1, <2>4
  <2>5. QED
    BY <2>1, <2>3, <2>4
<1>13. ASSUME NEW p \in Pod,
              \/ EventArrives(p) \/ FillCache(p) \/ ReactCreate(p) \/ ReactFails(p)
              \/ ReactDone(p) \/ CacheExpires(p)
              \/ \E w \in Reacting : ReactCheck(p, w)
              \/ \E w \in Workflow : DisableDeparted(p, w)
       PROVE  Attended'
  BY <1>0, <1>13 DEF EventArrives, FillCache, ReactCreate, ReactFails, ReactDone,
     CacheExpires, ReactCheck, DisableDeparted
<1>14. ASSUME NEW w \in Workflow, Depart(w) PROVE Attended'
  BY <1>0, <1>14 DEF Depart
<1>15. ASSUME NEW w \in Workflow, Rejoin(w) PROVE Attended'
  <2>1. /\ UNCHANGED <<kind, enabled, claims, loop, now>> /\ member' = member \cup {w}
        /\ steady' = [steady EXCEPT ![w] = now]
    BY <1>15 DEF Rejoin
  <2>2. ASSUME NEW p \in Pod, NEW v \in Every \cap enabled \cap member', loop'[p].pc # "down"
        PROVE  Kept(p, v, loop'[p], claims', steady'[v])
    <3>1. CASE v = w
      <4>1. steady'[v] = now /\ v \in Workflow
        BY <1>t, <2>1, <3>1
      <4>2. QED
        BY <1>u, <2>1, <2>2, <4>1
    <3>2. CASE v # w
      <4>1. steady'[v] = steady[v] /\ v \in member /\ loop'[p] = loop[p] /\ claims' = claims
        BY <1>t, <2>1, <3>2
      <4>2. QED
        BY <1>a, <2>2, <4>1
    <3>3. QED
      BY <3>1, <3>2
  <2>3. QED
    BY <1>k, <2>1, <2>2 DEF Attended
<1>16. CASE UNCHANGED vars
  BY <1>0, <1>16 DEF vars
<1>17. QED
  BY <1>2, <1>3, <1>4, <1>5, <1>6, <1>7, <1>8, <1>9, <1>10, <1>11, <1>12, <1>13, <1>14,
     <1>15, <1>16 DEF Next

LEMMA AttendedNeverSkips == TypeOK /\ Paced /\ Attended => NeverSkipsTwo
<1> SUFFICES ASSUME TypeOK, Paced, Attended,
                    NEW p \in Pod, NEW w \in Every \cap enabled \cap member,
                    loop[p].pc # "down",
                    NEW k \in 0..MaxTime,
                    Interval * k >= Max({loop[p].since, steady[w]}) + Skew[p] + Window + MaxLag,
                    Interval * k + 2 * Interval + MaxLag <= now + Skew[p]
             PROVE  Claimed(w, Interval * k) \/ Claimed(w, Interval * k + Interval)
  BY DEF NeverSkipsTwo
<1> DEFINE x == Interval * k
           K == Times(claims, w)
           n == NextTick(p, loop[p], w)
           g == Onset(p, loop[p], steady[w])
<1>1. /\ Interval \in Nat /\ Interval > 0 /\ Window \in Nat /\ MaxLag \in Nat
      /\ Window + MaxLag <= Interval /\ MaxTime \in Nat /\ Skew[p] \in Nat /\ now \in Nat
      /\ loop[p] \in Loops /\ w \in Workflow /\ steady[w] \in Nat
  BY ScheduleAssumption DEF TypeOK, Every
<1>2. k \in Nat
  BY <1>1
<1>3. x \in Nat /\ Boundary(x)
  <2>1. x = k * Interval /\ x \in Nat
    BY <1>1, <1>2
  <2>2. QED
    BY <1>2, <2>1 DEF Boundary
<1>4. n \in Int /\ g \in Int
  BY <1>1, TickTypes
<1>5. now + Skew[p] <= n + MaxLag
  <2>1. /\ loop[p].pc = "sleep" => now <= loop[p].wake /\ loop[p].wake <= now + Window
        /\ loop[p].pc # "sleep" => loop[p].tick <= now /\ now <= loop[p].tick + MaxLag
    BY DEF Paced, InTime
  <2>2. QED
    BY <1>1, <2>1, TickBounds
<1>6. g <= x
  BY DEF Onset
<1>7. Served(K, loop[p].last[w], n, g)
  BY DEF Attended, Kept
<1>8. x + 2 * Interval + MaxLag <= now + Skew[p]
  OBVIOUS
<1>9. /\ x \in K => Claimed(w, x)
      /\ x + Interval \in K => Claimed(w, x + Interval)
  BY DEF Times, Claimed
<1> HIDE DEF x, K, n, g
<1>10. x + 2 * Interval <= n
  BY <1>1, <1>3, <1>4, <1>5, <1>8
<1>11. ~(n <= g)
  BY <1>1, <1>3, <1>4, <1>6, <1>10
<1>12. PICK t \in Int : n <= t + Window + MaxLag /\ Pairs(K, g, t)
  BY <1>7, <1>11 DEF Served
<1>13. x + Interval <= t
  BY <1>1, <1>3, <1>4, <1>10, <1>12
<1>14. x \in K \/ x + Interval \in K
  BY <1>3, <1>6, <1>12, <1>13 DEF Pairs
<1>15. QED
  BY <1>9, <1>14 DEF x

(* Every pod that is up keeps every interval schedule: the anchors it      *)
(* remembers, the claims it reads after a restart and the claims it loses   *)
(* to others never let two boundaries in a row go by unclaimed.  What makes *)
(* it so is that the sleep and the pass together are no longer than the     *)
(* interval (run_cron_loop, interval_prefilter_should_fire).                *)
THEOREM SchedulesKept == Spec => []NeverSkipsTwo
<1>1. Init => TypeOK /\ Paced /\ Fires /\ Attended
  BY TypeInit, PacedInit, AttendedInit DEF Init, Fires, Asleep
<1>2. TypeOK /\ Paced /\ Fires /\ Attended /\ [Next]_vars =>
         TypeOK' /\ Paced' /\ Fires' /\ Attended'
  BY TypeStep, PacedStep, FiresStep, AttendedStep
<1>3. QED
  BY <1>1, <1>2, AttendedNeverSkips, PTL DEF Spec

=============================================================================
