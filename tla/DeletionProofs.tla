--------------------------- MODULE DeletionProofs ---------------------------
(***************************************************************************)
(* Proofs about the deletion of a community for any number of requests,    *)
(* executors, serving writes and keys, and any number of upsets.           *)
(***************************************************************************)
EXTENDS Deletion, TLAPS

(* The tenant's keys in the store, but those that strayed behind the fence. *)
Ours == objects \ strays

USE DEF Ours

Fencing == {"fenced", "drained", "bindings_removed"}
Purging == {"postgres_purged", "cache_purged", "logically_verified", "retention_pending"}

(* A request that has used up its retries is blocked. *)
Exhausted == \A r \in Request : req[r].retries = MaxRetries => req[r].blocked

(* One request is open, and the community's row follows its stage. *)
Lifecycle ==
    /\ \A r, s \in Request :
          {req[r].stage, req[s].stage} \cap {"none", "aborted"} = {} => r = s
    /\ \A r \in Request :
          /\ req[r].stage \in {"submitted", "inventoried"} => com.state = "active"
          /\ req[r].stage = "approved" => com.state \in {"active", "quiescing"}
          /\ req[r].stage \in Fencing => com.state = "fenced" /\ req[r].fence = com.gen
          /\ req[r].stage \in Purging => com.state = "tombstone" /\ req[r].fence = com.gen
    /\ com.state # "active" =>
          \E r \in Request : req[r].stage \in Runnable \cup {"retention_pending"}

(* Quiescing recorded how the owner left the archive flag. *)
Archiving ==
    /\ com.state = "active" => com.archived = kept
    /\ \A r \in Request :
          /\ req[r].stage \in {"none", "submitted", "inventoried"} => ~req[r].quiesced
          /\ req[r].stage \in Runnable \cup {"retention_pending"} =>
                IF req[r].quiesced THEN com.state # "active" /\ req[r].archivedBefore = kept
                                   ELSE com.state = "active"

(* Nobody serves behind the fence. *)
Quiet == com.state \in {"fenced", "tombstone"} => LockFree /\ ServingLeases = {}

(* What an executor saw of its request stays true: there is no way back     *)
(* behind the drain, and a frozen manifest stays frozen.                    *)
Seen ==
    \A e \in Executor : ex[e].pc # "idle" =>
        /\ ex[e].r \in Request
        /\ ex[e].stage \in Erasing \cup Certified => req[ex[e].r].stage \in Erasing \cup Certified
        /\ ex[e].frozen \/ ex[e].pc = "mark" => req[ex[e].r].frozen

(* Stamps come after the drain, and the drain after the freeze. *)
Stamping ==
    /\ \A r \in Request :
          IF req[r].stage \in Erasing \cup Certified THEN req[r].frozen ELSE stamped[r] = {}
    /\ \A e \in Executor : /\ ex[e].pc = "deleted" => ex[e].stage = "drained" /\ ex[e].key \notin Ours
                           /\ ex[e].pc = "deleting" => ex[e].stage = "drained"

(* What is verified absent stays absent. *)
Absent ==
    /\ \A e \in Executor :
          /\ ex[e].pc \in {"absence", "verified"} => ex[e].stage = "cache_purged" /\ rows = {}
          /\ ex[e].pc = "verified" => Ours = {}
    /\ \A r \in Request : req[r].stage \in Certified => rows = {} /\ Ours = {}

(* What a request's row keeps while only its lease, its block and its       *)
(* retries change.                                                          *)
SameSaga(q, p) ==
    /\ p.stage = q.stage /\ p.fence = q.fence /\ p.frozen = q.frozen
    /\ p.manifest = q.manifest
    /\ p.quiesced = q.quiesced /\ p.archivedBefore = q.archivedBefore

Pcs == {"idle", "run", "loop", "fence", "clear", "clearing", "list", "append",
        "inserting", "mark", "deleting", "deleted", "absence", "verified"}

-----------------------------------------------------------------------------
(* Types.                                                                  *)

LEMMA RowTypes ==
    ASSUME NEW q \in RequestRow
    PROVE  /\ Unleased(q) \in RequestRow /\ SameSaga(q, Unleased(q))
           /\ Unleased(q).retries = q.retries /\ Unleased(q).blocked = q.blocked
           /\ \A b \in BOOLEAN :
                 /\ [Unleased(q) EXCEPT !.blocked = b] \in RequestRow
                 /\ SameSaga(q, [Unleased(q) EXCEPT !.blocked = b])
                 /\ [Unleased(q) EXCEPT !.blocked = b].retries = q.retries
                 /\ [Unleased(q) EXCEPT !.blocked = b].blocked = b
<1>1. /\ Unleased(q) \in RequestRow /\ SameSaga(q, Unleased(q))
      /\ Unleased(q).retries = q.retries /\ Unleased(q).blocked = q.blocked
  BY DEF Unleased, RequestRow, SameSaga
<1>2. QED
  BY <1>1 DEF RequestRow, SameSaga

LEMMA RetriedTypes ==
    ASSUME NEW q \in RequestRow, NEW stage \in Stages, q.retries = MaxRetries => q.blocked,
           ~q.blocked
    PROVE  /\ Retried(q, stage) \in RequestRow
           /\ SameSaga(q, Retried(q, stage))
           /\ Retried(q, stage).retries = MaxRetries => Retried(q, stage).blocked
<1> DEFINE n == IF q.retryStage = stage THEN q.retries + 1 ELSE 1
           u == Unleased(q)
           b == n >= MaxRetries
<1>0. MaxRetries \in Nat \ {0} /\ q.retries \in 0..MaxRetries
  BY DeletionAssumption DEF RequestRow
<1>1. n \in 0..MaxRetries
  BY <1>0
<1>2. b \in BOOLEAN
  OBVIOUS
<1>3. u \in RequestRow /\ SameSaga(q, u)
  BY RowTypes
<1>4. Retried(q, stage) = [u EXCEPT !.retries = n, !.retryStage = stage, !.blocked = b]
  BY DEF Retried
<1> HIDE DEF n, u, b
<1>5. /\ Retried(q, stage) \in RequestRow
      /\ SameSaga(u, Retried(q, stage))
      /\ Retried(q, stage).retries = n /\ Retried(q, stage).blocked = b
  BY <1>1, <1>2, <1>3, <1>4 DEF RequestRow, SameSaga
<1>6. n = MaxRetries => b
  BY <1>0, <1>1 DEF b
<1>7. QED
  BY <1>3, <1>5, <1>6 DEF SameSaga

LEMMA TypeInit == Init => TypeOK
<1> SUFFICES ASSUME Init PROVE TypeOK
  OBVIOUS
<1>1. NewRequest \in RequestRow
  BY DeletionAssumption DEF NewRequest, RequestRow, Stages
<1>2. Idle \in Claims /\ NoWrite \in ServingWrites
  BY DEF Idle, Claims, NoWrite, ServingWrites, Stages
<1>3. QED
  BY <1>1, <1>2 DEF Init, TypeOK

LEMMA ServingTypes == TypeOK /\ Serving => TypeOK'
<1> SUFFICES ASSUME TypeOK, Serving PROVE TypeOK'
  OBVIOUS
<1> USE DEF requestVars, dataVars, storeVars
<1>t. /\ wr \in [Writer -> ServingWrites] /\ NoWrite \in ServingWrites
      /\ \A w \in Writer : wr[w] \in ServingWrites
  BY DEF TypeOK, NoWrite, ServingWrites
<1>0. ASSUME NEW w \in Writer, NEW l \in ServingWrites, wr' = [wr EXCEPT ![w] = l],
             UNCHANGED <<com, requestVars, ex, dataVars, kept>>, upsets' \in Nat
      PROVE  TypeOK'
  BY <1>0 DEF TypeOK
<1>u. upsets \in Nat /\ (Upset => upsets' \in Nat)
  BY DEF TypeOK, Upset
<1>k. ASSUME NEW k \in Key, NEW b \in BOOLEAN, Puts(k, b)
      PROVE  objects' \subseteq Key /\ strays' \subseteq Key
  BY <1>k DEF Puts, TypeOK
<1>a. ASSUME NEW w \in Writer, Abandons(w), NEW l \in ServingWrites, wr' = [wr EXCEPT ![w] = l],
             UNCHANGED <<com, requestVars, ex, kept>>, upsets' \in Nat
      PROVE  TypeOK'
  <2>1. wr[w].pc = "effect" => wr[w].key \in Key
    BY <1>t DEF ServingWrites
  <2>2. late' \subseteq Key /\ UNCHANGED <<objects, strays, rows>>
    BY <1>a, <2>1 DEF Abandons, TypeOK
  <2>3. QED
    BY <1>a, <2>2 DEF TypeOK
<1>1. ASSUME NEW w \in Writer, NEW k \in Key, BeginWrite(w, k) PROVE TypeOK'
  <2>1. [wr[w] EXCEPT !.pc = "tx", !.key = k] \in ServingWrites
    BY <1>t DEF ServingWrites
  <2>2. QED
    BY <1>0, <1>1, <1>t, <1>u, <2>1 DEF BeginWrite
<1>2. ASSUME NEW w \in Writer, NEW k \in Key, Acquire(w, k) PROVE TypeOK'
  <2>1. [pc |-> "admitted", key |-> k, lease |-> "live", fence |-> com.gen] \in ServingWrites
    BY DEF ServingWrites, TypeOK
  <2>2. QED
    BY <1>0, <1>2, <1>u, <2>1 DEF Acquire
<1>3. ASSUME NEW w \in Writer, wr[w].pc \notin {"idle", "dead"},
             NEW pc \in {"end", "finish", "effect", "final", "landed", "finaltx"}
      PROVE  [wr[w] EXCEPT !.pc = pc] \in ServingWrites
  BY <1>3, <1>t DEF ServingWrites
<1>4. ASSUME NEW w \in Writer, CommitWrite(w) PROVE TypeOK'
  <2>1. wr' \in [Writer -> ServingWrites]
    BY <1>3, <1>4, <1>t DEF CommitWrite
  <2>2. rows' \subseteq Key
    BY <1>4, <1>t DEF CommitWrite, TypeOK, ServingWrites
  <2>3. QED
    BY <1>4, <2>1, <2>2 DEF TypeOK, CommitWrite
<1>5. ASSUME NEW w \in Writer, EffectLands(w) PROVE TypeOK'
  <2>1. wr' \in [Writer -> ServingWrites]
    BY <1>3, <1>5, <1>t DEF EffectLands
  <2>2. wr[w].key \in Key
    BY <1>5, <1>t DEF EffectLands, ServingWrites
  <2>3. objects' \subseteq Key /\ strays' \subseteq Key
    BY <1>5, <1>k, <2>2 DEF EffectLands
  <2>4. QED
    BY <1>5, <2>1, <2>3 DEF TypeOK, EffectLands
<1>6. ASSUME NEW w \in Writer, Verify(w) PROVE TypeOK'
  <2>1. \E pc \in {"end", "finish", "effect", "final", "landed", "finaltx"} :
           wr' = [wr EXCEPT ![w] = [wr[w] EXCEPT !.pc = pc]]
    BY <1>6, <1>t DEF Verify
  <2>2. QED
    BY <1>0, <1>3, <1>6, <1>u, <2>1 DEF Verify
<1>7. ASSUME NEW w \in Writer, LeaseLost(w) \/ BeginFinal(w) \/ GuardDropped(w) PROVE TypeOK'
  <2>1. CASE BeginFinal(w)
    BY <1>0, <1>3, <1>u, <1>t, <2>1 DEF BeginFinal
  <2>2. CASE LeaseLost(w)
    BY <1>a, <1>3, <1>u, <1>t, <2>2 DEF LeaseLost
  <2>3. CASE GuardDropped(w)
    BY <1>a, <1>3, <1>u, <1>t, <2>3 DEF GuardDropped
  <2>4. QED
    BY <1>7, <2>1, <2>2, <2>3
<1>8. ASSUME NEW w \in Writer, Release(w) \/ Reap(w) PROVE TypeOK'
  BY <1>0, <1>8, <1>u, <1>t DEF Release, Reap
<1>9. ASSUME NEW w \in Writer, WriterCrash(w) PROVE TypeOK'
  <2>1. [wr[w] EXCEPT !.pc = "dead", !.key = NoKey] \in ServingWrites
    BY <1>t DEF ServingWrites
  <2>2. QED
    BY <1>a, <1>9, <1>u, <1>t, <2>1 DEF WriterCrash
<1>10. ASSUME NEW w \in Writer, LeaseExpires(w) PROVE TypeOK'
  <2>1. [wr[w] EXCEPT !.lease = "expired"] \in ServingWrites
    BY <1>t DEF ServingWrites
  <2>2. QED
    BY <1>0, <1>10, <1>u, <1>t, <2>1 DEF LeaseExpires
<1>11. CASE OwnerArchives
  <2>1. kept' \in BOOLEAN
    BY <1>11 DEF OwnerArchives
  <2>2. com' \in [state: {"active", "quiescing", "fenced", "tombstone"}, gen: Nat,
                   archived: BOOLEAN]
    BY <1>11 DEF OwnerArchives, TypeOK
  <2>3. QED
    BY <1>11, <2>1, <2>2 DEF TypeOK, OwnerArchives
<1>12. ASSUME NEW k \in Key, LandsLate(k) PROVE TypeOK'
  <2>1. objects' \subseteq Key /\ strays' \subseteq Key /\ late' \subseteq Key
    BY <1>12, <1>k DEF LandsLate, TypeOK
  <2>2. QED
    BY <1>12, <2>1 DEF LandsLate, TypeOK
<1>13. QED
  BY <1>1, <1>2, <1>4, <1>5, <1>6, <1>7, <1>8, <1>9, <1>10, <1>11, <1>12 DEF Serving

(* What the statements make of a row. *)
SameButStage(q, p) ==
    /\ p.fence = q.fence /\ p.frozen = q.frozen /\ p.manifest = q.manifest
    /\ p.quiesced = q.quiesced /\ p.archivedBefore = q.archivedBefore

LEMMA StageTypes ==
    ASSUME NEW q \in RequestRow, NEW stage \in Stages
    PROVE  /\ [q EXCEPT !.stage = stage] \in RequestRow
           /\ [q EXCEPT !.stage = stage].stage = stage
           /\ SameButStage(q, [q EXCEPT !.stage = stage])
           /\ [q EXCEPT !.stage = stage].retries = q.retries
           /\ [q EXCEPT !.stage = stage].blocked = q.blocked
BY DEF RequestRow, SameButStage

LEMMA AbortedTypes ==
    ASSUME NEW q \in RequestRow, NEW g \in Nat
    PROVE  /\ Aborted(q, g) \in RequestRow
           /\ Aborted(q, g).stage = "aborted" /\ Aborted(q, g).retries = 0
<1> DEFINE u == Unleased(q)
<1>1. u \in RequestRow
  BY RowTypes
<1>2. 0 \in 0..MaxRetries /\ "none" \in Stages /\ "aborted" \in Stages
  BY DeletionAssumption DEF Stages
<1>3. Aborted(q, g) = [u EXCEPT !.stage = "aborted", !.gen = @ + 1, !.fence = g,
                          !.blocked = FALSE, !.retries = 0, !.retryStage = "none"]
  BY DEF Aborted
<1> HIDE DEF u
<1>4. u.gen + 1 \in Nat
  BY <1>1 DEF RequestRow
<1>5. QED
  BY <1>1, <1>2, <1>3, <1>4 DEF RequestRow

(* A step that writes one row. *)
LEMMA OneRow ==
    ASSUME TypeOK, Exhausted, NEW r \in Request, NEW q \in RequestRow,
           q.retries = MaxRetries => q.blocked, req' = [req EXCEPT ![r] = q]
    PROVE  /\ req' \in [Request -> RequestRow] /\ Exhausted'
           /\ req'[r] = q /\ \A s \in Request : s # r => req'[s] = req[s]
BY DEF TypeOK, Exhausted

LEMMA OperatorTypes ==
    ASSUME TypeOK, Exhausted, Operators
    PROVE  TypeOK' /\ Exhausted'
<1> USE DEF requestVars, dataVars, storeVars
<1>t. req \in [Request -> RequestRow] /\ \A r \in Request : req[r] \in RequestRow
  BY DEF TypeOK
<1>z. 0 # MaxRetries
  BY DeletionAssumption
<1>1. ASSUME NEW r \in Request, NEW q \in RequestRow, q.retries = MaxRetries => q.blocked,
             req' = [req EXCEPT ![r] = q],
             com' \in [state: {"active", "quiescing", "fenced", "tombstone"}, gen: Nat,
                       archived: BOOLEAN],
             upsets' \in Nat, UNCHANGED <<chunks, stamped, ex, wr, dataVars, kept>>
      PROVE  TypeOK' /\ Exhausted'
  BY <1>1, OneRow DEF TypeOK
<1>u. /\ upsets \in Nat /\ (Upset => upsets' \in Nat)
      /\ com \in [state: {"active", "quiescing", "fenced", "tombstone"}, gen: Nat,
                   archived: BOOLEAN]
  BY DEF TypeOK, Upset
<1>2. ASSUME NEW r \in Request, Submit(r) \/ FreezeInventory(r) \/ Approve(r)
      PROVE  TypeOK' /\ Exhausted'
  <2>1. PICK stage \in Stages : req' = [req EXCEPT ![r] = [req[r] EXCEPT !.stage = stage]]
    BY <1>2, <1>t DEF Submit, FreezeInventory, Approve, Stages
  <2>2. UNCHANGED <<com, chunks, stamped, ex, wr, dataVars, kept, upsets>>
    BY <1>2 DEF Submit, FreezeInventory, Approve
  <2> DEFINE q == [req[r] EXCEPT !.stage = stage]
  <2>3. q \in RequestRow /\ (q.retries = MaxRetries => q.blocked)
    BY <1>t, StageTypes DEF Exhausted
  <2> HIDE DEF q
  <2>4. QED
    BY <1>1, <1>u, <2>1, <2>2, <2>3 DEF q
<1>3. ASSUME NEW r \in Request, Abort(r) PROVE TypeOK' /\ Exhausted'
  <2>1. com.gen + 1 \in Nat
    BY <1>u
  <2>2. /\ Aborted(req[r], com.gen + 1) \in RequestRow
        /\ Aborted(req[r], com.gen + 1).retries # MaxRetries
    BY <1>t, <1>z, <2>1, AbortedTypes
  <2>3. Restored(req[r]) \in [state: {"active", "quiescing", "fenced", "tombstone"}, gen: Nat,
                              archived: BOOLEAN]
    BY <1>t, <1>u, <2>1 DEF Restored, RequestRow
  <2>4. /\ req' = [req EXCEPT ![r] = Aborted(req[r], com.gen + 1)]
        /\ com' = Restored(req[r])
        /\ UNCHANGED <<chunks, stamped, ex, wr, dataVars, kept, upsets>>
    BY <1>3, <1>t DEF Abort
  <2>5. QED
    BY <1>1, <1>u, <2>2, <2>3, <2>4
<1>4. ASSUME NEW r \in Request, BlockPreclaim(r) PROVE TypeOK' /\ Exhausted'
  <2>1. /\ [req[r] EXCEPT !.blocked = TRUE] \in RequestRow
        /\ [req[r] EXCEPT !.blocked = TRUE].blocked
    BY <1>t DEF RequestRow
  <2>2. req' = [req EXCEPT ![r] = [req[r] EXCEPT !.blocked = TRUE]]
    BY <1>4, <1>t DEF BlockPreclaim
  <2>3. QED
    BY <1>1, <1>4, <1>u, <2>1, <2>2 DEF BlockPreclaim
<1>5. ASSUME NEW r \in Request, Unblock(r) PROVE TypeOK' /\ Exhausted'
  <2> DEFINE u == Unleased(req[r])
             q == [u EXCEPT !.blocked = FALSE, !.retries = 0, !.retryStage = "none"]
  <2>1. u \in RequestRow
    BY <1>t, RowTypes
  <2>2. 0 \in 0..MaxRetries /\ "none" \in Stages
    BY DeletionAssumption DEF Stages
  <2>3. req' = [req EXCEPT ![r] = q]
    BY <1>5, <1>t DEF Unblock
  <2> HIDE DEF u
  <2>4. q \in RequestRow /\ q.retries = 0
    BY <2>1, <2>2 DEF RequestRow
  <2> HIDE DEF q
  <2>5. QED
    BY <1>1, <1>5, <1>u, <1>z, <2>3, <2>4 DEF Unblock
<1>6. QED
  BY <1>2, <1>3, <1>4, <1>5 DEF Operators

(* Steps of the executors that change no more than a lease, and leave an    *)
(* executor idle or at the start of a turn.                                 *)
Clerical ==
    /\ UNCHANGED <<com, chunks, stamped, wr, objects, late, strays, rows, kept>>
    /\ \A r \in Request : SameSaga(req[r], req'[r])

GivesUp == Clerical /\ \A e \in Executor : ex'[e] = ex[e] \/ ex'[e] = Idle

Turns(e) ==
    /\ Clerical
    /\ \A x \in Executor : x # e => ex'[x] = ex[x]
    /\ \E r \in Request : ex'[e] = AtTurn(e, r, req'[r])

LEMMA SameSelf == \A q : SameSaga(q, q)
BY DEF SameSaga

LEMMA OwnerTypes ==
    ASSUME TypeOK, NEW e \in Executor, NEW stage, OwnsLease(e, stage)
    PROVE  /\ ex[e].r \in Request /\ req[ex[e].r] \in RequestRow
           /\ req[ex[e].r].stage = stage /\ ~req[ex[e].r].blocked
<1>1. ex[e] \in Claims /\ req \in [Request -> RequestRow]
  BY DEF TypeOK
<1>2. ex[e].r \in Request
  BY <1>1 DEF OwnsLease, Claims
<1>3. QED
  BY <1>1, <1>2 DEF OwnsLease

LEMMA FailedTypes ==
    ASSUME TypeOK, Exhausted, NEW e \in Executor, NEW permanent \in BOOLEAN,
           Failed(e, permanent), upsets' \in Nat
    PROVE  TypeOK' /\ Exhausted' /\ GivesUp
<1> USE DEF dataVars, storeVars
<1>t. ex \in [Executor -> Claims] /\ req \in [Request -> RequestRow] /\ ex[e] \in Claims
  BY DEF TypeOK
<1>1. /\ ex' = [ex EXCEPT ![e] = Idle]
      /\ UNCHANGED <<com, chunks, stamped, wr, objects, late, strays, rows, kept>>
  BY DEF Failed
<1>2. Idle \in Claims
  BY DEF Idle, Claims, Stages
<1>3. ex' \in [Executor -> Claims] /\ \A x \in Executor : ex'[x] = ex[x] \/ ex'[x] = Idle
  BY <1>t, <1>1, <1>2
<1>4. /\ req' \in [Request -> RequestRow] /\ Exhausted'
      /\ \A r \in Request : SameSaga(req[r], req'[r])
  <2>1. CASE ~OwnsLease(e, ex[e].stage)
    BY <1>t, <2>1, SameSelf DEF Failed, Exhausted
  <2>2. CASE OwnsLease(e, ex[e].stage)
    <3> DEFINE r == ex[e].r
               q == IF permanent THEN [Unleased(req[r]) EXCEPT !.blocked = TRUE]
                    ELSE Retried(req[r], ex[e].stage)
    <3>1. r \in Request /\ req[r] \in RequestRow /\ ~req[r].blocked
      BY <2>2, OwnerTypes
    <3>2. req' = [req EXCEPT ![r] = q]
      BY <1>t, <2>2, <3>1 DEF Failed
    <3>3. ex[e].stage \in Stages
      BY <1>t DEF Claims
    <3>4. q \in RequestRow /\ (q.retries = MaxRetries => q.blocked) /\ SameSaga(req[r], q)
      <4>1. CASE permanent
        BY <3>1, <4>1, RowTypes
      <4>2. CASE ~permanent
        BY <3>1, <3>3, <4>2, RetriedTypes DEF Exhausted
      <4>3. QED
        BY <4>1, <4>2
    <3> HIDE DEF q, r
    <3>5. QED
      BY <3>1, <3>2, <3>4, OneRow, SameSelf
  <2>3. QED
    BY <2>1, <2>2
<1>5. QED
  BY <1>1, <1>3, <1>4 DEF TypeOK, GivesUp, Clerical

(* The leases of the executors, and the stages they fail. *)
LEMMA LeaseSteps ==
    ASSUME TypeOK, Exhausted, NEW e \in Executor, NEW r \in Request,
           \/ Claim(e, r) \/ ClaimBlocks(e, r) \/ NextTurn(e) \/ ClaimExpires(r)
           \/ ExecutorCrash(e) \/ Shutdown(e) \/ StageFails(e) \/ Stale(e) \/ NotDrained(e)
    PROVE  TypeOK' /\ Exhausted' /\ (GivesUp \/ Turns(e))
<1> USE DEF requestVars, dataVars, storeVars
<1>t. /\ ex \in [Executor -> Claims] /\ req \in [Request -> RequestRow] /\ ex[e] \in Claims
      /\ \A s \in Request : req[s] \in RequestRow
  BY DEF TypeOK
<1>u. upsets \in Nat /\ (Upset => upsets' \in Nat)
  BY DEF TypeOK, Upset
<1>i. Idle \in Claims
  BY DEF Idle, Claims, Stages
<1>a. \A s \in Request, q \in RequestRow : AtTurn(e, s, q) \in Claims
  BY DEF AtTurn, Claims, RequestRow
<1>1. CASE Claim(e, r)
  <2> DEFINE q == [req[r] EXCEPT !.owner = e, !.gen = @ + 1, !.live = TRUE]
  <2>1. req' = [req EXCEPT ![r] = q]
    BY <1>1, <1>t DEF Claim
  <2>2. req[r].gen + 1 \in Nat
    BY <1>t DEF RequestRow
  <2>3. q \in RequestRow /\ SameSaga(req[r], q) /\ q.retries = req[r].retries
        /\ q.blocked = req[r].blocked
    BY <1>t, <2>2 DEF RequestRow, SameSaga
  <2> HIDE DEF q
  <2>4. /\ req' \in [Request -> RequestRow] /\ Exhausted' /\ req'[r] = q
        /\ \A s \in Request : SameSaga(req[s], req'[s])
    BY <2>1, <2>3, OneRow, SameSelf DEF Exhausted
  <2>5. AtTurn(e, r, req'[r]) \in Claims
    BY <1>a, <2>3, <2>4
  <2>6. /\ ex' = [ex EXCEPT ![e] = AtTurn(e, r, req'[r])]
        /\ UNCHANGED <<com, chunks, stamped, wr, objects, late, strays, rows, kept, upsets>>
    BY <1>1 DEF Claim
  <2>7. ex' \in [Executor -> Claims] /\ ex'[e] = AtTurn(e, r, req'[r])
        /\ \A x \in Executor : x # e => ex'[x] = ex[x]
    BY <1>t, <2>5, <2>6
  <2>8. QED
    BY <2>4, <2>6, <2>7 DEF TypeOK, Turns, Clerical
<1>2. CASE ClaimBlocks(e, r)
  <2> DEFINE q == [Unleased(req[r]) EXCEPT !.blocked = TRUE]
  <2>1. req' = [req EXCEPT ![r] = q]
    BY <1>2, <1>t DEF ClaimBlocks
  <2>2. q \in RequestRow /\ SameSaga(req[r], q) /\ q.blocked
    BY <1>t, RowTypes
  <2> HIDE DEF q
  <2>3. /\ req' \in [Request -> RequestRow] /\ Exhausted'
        /\ \A s \in Request : SameSaga(req[s], req'[s])
    BY <2>1, <2>2, OneRow, SameSelf
  <2>4. UNCHANGED <<com, chunks, stamped, ex, wr, objects, late, strays, rows, kept>> /\ upsets' \in Nat
    BY <1>2, <1>u DEF ClaimBlocks
  <2>5. QED
    BY <2>3, <2>4 DEF TypeOK, GivesUp, Clerical
<1>3. CASE NextTurn(e)
  <2>1. ex[e].r \in Request /\ req[ex[e].r] \in RequestRow
    BY <1>3, <1>t DEF NextTurn, Claims
  <2>2. UNCHANGED <<com, req, chunks, stamped, wr, objects, late, strays, rows, kept, upsets>>
    BY <1>3 DEF NextTurn
  <2>3. \/ ex' = [ex EXCEPT ![e] = Idle]
        \/ ex' = [ex EXCEPT ![e] = AtTurn(e, ex[e].r, req[ex[e].r])]
    BY <1>3 DEF NextTurn
  <2>4. Clerical
    BY <2>2, SameSelf DEF Clerical
  <2>5. CASE ex' = [ex EXCEPT ![e] = Idle]
    BY <1>i, <1>t, <2>2, <2>4, <2>5 DEF TypeOK, Exhausted, GivesUp
  <2>6. CASE ex' = [ex EXCEPT ![e] = AtTurn(e, ex[e].r, req[ex[e].r])]
    <3>1. AtTurn(e, ex[e].r, req[ex[e].r]) \in Claims
      BY <1>a, <2>1
    <3>2. /\ ex' \in [Executor -> Claims]
          /\ ex'[e] = AtTurn(e, ex[e].r, req'[ex[e].r])
          /\ \A x \in Executor : x # e => ex'[x] = ex[x]
      BY <1>t, <2>2, <2>6, <3>1
    <3>3. QED
      BY <2>1, <2>2, <2>4, <3>2 DEF TypeOK, Exhausted, Turns
  <2>7. QED
    BY <2>3, <2>5, <2>6
<1>4. CASE ClaimExpires(r)
  <2> DEFINE q == [req[r] EXCEPT !.live = FALSE]
  <2>1. req' = [req EXCEPT ![r] = q]
    BY <1>4, <1>t DEF ClaimExpires
  <2>2. q \in RequestRow /\ SameSaga(req[r], q) /\ q.retries = req[r].retries
        /\ q.blocked = req[r].blocked
    BY <1>t DEF RequestRow, SameSaga
  <2> HIDE DEF q
  <2>3. /\ req' \in [Request -> RequestRow] /\ Exhausted'
        /\ \A s \in Request : SameSaga(req[s], req'[s])
    BY <2>1, <2>2, OneRow, SameSelf DEF Exhausted
  <2>4. UNCHANGED <<com, chunks, stamped, ex, wr, objects, late, strays, rows, kept>> /\ upsets' \in Nat
    BY <1>4, <1>u DEF ClaimExpires
  <2>5. QED
    BY <2>3, <2>4 DEF TypeOK, GivesUp, Clerical
<1>5. CASE ExecutorCrash(e)
  <2>1. Clerical /\ ex' = [ex EXCEPT ![e] = Idle] /\ req' = req /\ upsets' \in Nat
    BY <1>5, <1>u, SameSelf DEF ExecutorCrash, Clerical
  <2>2. QED
    BY <1>i, <1>t, <2>1 DEF TypeOK, Exhausted, GivesUp, Clerical
<1>6. CASE Shutdown(e)
  <2>1. ex[e].r \in Request
    BY <1>6, <1>t DEF Shutdown, Claims
  <2> DEFINE q == IF req[ex[e].r].owner = e /\ req[ex[e].r].gen = ex[e].gen
                  THEN Unleased(req[ex[e].r]) ELSE req[ex[e].r]
  <2>2. req' = [req EXCEPT ![ex[e].r] = q]
    BY <1>6, <1>t, <2>1 DEF Shutdown
  <2>3. q \in RequestRow /\ SameSaga(req[ex[e].r], q) /\ q.retries = req[ex[e].r].retries
        /\ q.blocked = req[ex[e].r].blocked
    BY <1>t, <2>1, RowTypes, SameSelf
  <2> HIDE DEF q
  <2>4. /\ req' \in [Request -> RequestRow] /\ Exhausted'
        /\ \A s \in Request : SameSaga(req[s], req'[s])
    BY <2>1, <2>2, <2>3, OneRow, SameSelf DEF Exhausted
  <2>5. /\ ex' = [ex EXCEPT ![e] = Idle] /\ upsets' \in Nat
        /\ UNCHANGED <<com, chunks, stamped, wr, objects, late, strays, rows, kept>>
    BY <1>6, <1>u DEF Shutdown
  <2>6. QED
    BY <1>i, <1>t, <2>4, <2>5 DEF TypeOK, GivesUp, Clerical
<1>7. CASE StageFails(e) \/ Stale(e) \/ NotDrained(e)
  <2>1. upsets' \in Nat /\ \E permanent \in BOOLEAN : Failed(e, permanent)
    BY <1>7, <1>u DEF StageFails, Stale, NotDrained
  <2>2. QED
    BY <2>1, FailedTypes
<1>8. QED
  BY <1>1, <1>2, <1>3, <1>4, <1>5, <1>6, <1>7

(* An executor at work on its turn goes to another place in it. *)
Moves(e, pcs) ==
    /\ ex[e].pc # "idle"
    /\ UNCHANGED <<com, req, wr, rows, kept>>
    /\ \A x \in Executor : x # e => ex'[x] = ex[x]
    /\ ex'[e].pc \in pcs
    /\ ex'[e].r = ex[e].r /\ ex'[e].stage = ex[e].stage /\ ex'[e].frozen = ex[e].frozen

(* ... or it takes its request to another stage. *)
Advances(e, from, to) ==
    LET r == ex[e].r IN
    /\ r \in Request /\ ex[e].pc # "idle"
    /\ req[r].stage = from /\ req'[r].stage = to
    /\ req'[r].frozen = req[r].frozen /\ req'[r].manifest = req[r].manifest
    /\ req'[r].quiesced = req[r].quiesced /\ req'[r].archivedBefore = req[r].archivedBefore
    /\ \A s \in Request : s # r => req'[s] = req[s]
    /\ \A x \in Executor : x # e => ex'[x] = ex[x]
    /\ ex'[e].pc \in {"loop", "idle"}
    /\ ex'[e].pc = "loop" => /\ ex'[e].r = r /\ ex'[e].stage = ex[e].stage
                             /\ ex'[e].frozen = ex[e].frozen

LEMMA GotoTypes ==
    ASSUME TypeOK, NEW e \in Executor, NEW pc \in Pcs \ {"idle"}, Goto(e, pc), ex[e].pc # "idle",
           pc \in {"inserting", "deleting", "deleted"} =>
              ex[e].pc \in {"inserting", "deleting", "deleted"}
    PROVE  /\ ex' \in [Executor -> Claims]
           /\ \A x \in Executor : x # e => ex'[x] = ex[x]
           /\ ex'[e].pc = pc /\ ex'[e].r = ex[e].r /\ ex'[e].stage = ex[e].stage
           /\ ex'[e].frozen = ex[e].frozen /\ ex'[e].key = ex[e].key
<1>t. ex \in [Executor -> Claims] /\ ex[e] \in Claims
  BY DEF TypeOK
<1> DEFINE l == [ex[e] EXCEPT !.pc = pc]
<1>1. l \in Claims
  BY <1>t DEF Claims, Pcs
<1>2. /\ l.pc = pc /\ l.r = ex[e].r /\ l.stage = ex[e].stage
      /\ l.frozen = ex[e].frozen /\ l.key = ex[e].key
  BY <1>t DEF Claims
<1>3. ex' = [ex EXCEPT ![e] = l]
  BY <1>t DEF Goto
<1> HIDE DEF l
<1>4. QED
  BY <1>t, <1>1, <1>2, <1>3

LEMMA AdvanceSteps ==
    ASSUME TypeOK, Exhausted, NEW e \in Executor, NEW from, NEW to \in Stages, ex[e].pc # "idle",
           OwnsLease(e, from), Advance(e, to)
    PROVE  /\ req' \in [Request -> RequestRow] /\ ex' \in [Executor -> Claims] /\ Exhausted'
           /\ Advances(e, from, to) /\ req'[ex[e].r].fence = req[ex[e].r].fence
<1> DEFINE r == ex[e].r
           q == [req[r] EXCEPT !.stage = to, !.retries = 0, !.retryStage = "none"]
<1>1. r \in Request /\ req[r] \in RequestRow /\ req[r].stage = from
  BY OwnerTypes
<1>2. req' = [req EXCEPT ![r] = q] /\ Goto(e, "loop")
  BY <1>1 DEF Advance, TypeOK
<1>3. q \in RequestRow /\ q.stage = to /\ SameButStage(req[r], q) /\ q.retries # MaxRetries
  <2>1. q \in RequestRow /\ q.stage = to /\ SameButStage(req[r], q) /\ q.retries = 0
    <3>1. 0 \in 0..MaxRetries /\ "none" \in Stages
      BY DeletionAssumption DEF Stages
    <3>2. QED
      BY <1>1, <3>1 DEF RequestRow, SameButStage
  <2>2. 0 # MaxRetries
    BY DeletionAssumption
  <2>3. QED
    BY <2>1, <2>2
<1> HIDE DEF q
<1>4. /\ req' \in [Request -> RequestRow] /\ Exhausted'
      /\ req'[r] = q /\ \A s \in Request : s # r => req'[s] = req[s]
  BY <1>1, <1>2, <1>3, OneRow
<1>5. /\ ex' \in [Executor -> Claims]
      /\ \A x \in Executor : x # e => ex'[x] = ex[x]
      /\ ex'[e].pc = "loop" /\ ex'[e].r = ex[e].r /\ ex'[e].stage = ex[e].stage
      /\ ex'[e].frozen = ex[e].frozen
  BY <1>2, GotoTypes DEF Pcs
<1>6. QED
  BY <1>1, <1>3, <1>4, <1>5 DEF Advances, SameButStage

(* approved. *)
LEMMA QuiescingStep ==
    ASSUME TypeOK, Exhausted, NEW e \in Executor, BeginQuiescing(e)
    PROVE  /\ TypeOK' /\ Exhausted'
           /\ LockFree /\ com.state \in {"active", "quiescing"}
           /\ com'.state = "quiescing" /\ com'.gen = com.gen
           /\ UNCHANGED <<chunks, stamped, wr, objects, late, strays, rows, kept>>
           /\ \A x \in Executor : x # e => ex'[x] = ex[x]
           /\ ex'[e].pc = "fence" /\ ex'[e].r = ex[e].r /\ ex'[e].stage = "approved"
           /\ ex'[e].frozen = ex[e].frozen
           /\ ex[e].pc # "idle" /\ ex[e].r \in Request /\ req[ex[e].r].stage = "approved"
           /\ req'[ex[e].r].stage = "approved" /\ req'[ex[e].r].fence = req[ex[e].r].fence
           /\ req'[ex[e].r].frozen = req[ex[e].r].frozen
           /\ req'[ex[e].r].manifest = req[ex[e].r].manifest
           /\ req'[ex[e].r].quiesced
           /\ req'[ex[e].r].archivedBefore =
                  IF req[ex[e].r].quiesced THEN req[ex[e].r].archivedBefore ELSE com.archived
           /\ \A s \in Request : s # ex[e].r => req'[s] = req[s]
<1> USE DEF dataVars, storeVars
<1>t. /\ com \in [state: {"active", "quiescing", "fenced", "tombstone"}, gen: Nat,
                   archived: BOOLEAN]
      /\ req \in [Request -> RequestRow]
  BY DEF TypeOK
<1> DEFINE r == ex[e].r
           q == IF req[r].quiesced THEN req[r]
                ELSE [req[r] EXCEPT !.quiesced = TRUE, !.archivedBefore = com.archived]
<1>1. r \in Request /\ req[r] \in RequestRow /\ req[r].stage = "approved"
  BY OwnerTypes DEF BeginQuiescing
<1>2. req' = [req EXCEPT ![r] = q]
  BY <1>1, <1>t DEF BeginQuiescing
<1>3. /\ q \in RequestRow /\ q.retries = req[r].retries /\ q.blocked = req[r].blocked
      /\ q.stage = req[r].stage /\ q.fence = req[r].fence /\ q.frozen = req[r].frozen
      /\ q.manifest = req[r].manifest /\ q.quiesced
      /\ q.archivedBefore = IF req[r].quiesced THEN req[r].archivedBefore ELSE com.archived
  BY <1>1, <1>t DEF RequestRow
<1> HIDE DEF q
<1>4. /\ req' \in [Request -> RequestRow] /\ Exhausted'
      /\ req'[r] = q /\ \A s \in Request : s # r => req'[s] = req[s]
  BY <1>1, <1>2, <1>3, OneRow DEF Exhausted
<1>5. /\ com' = [com EXCEPT !.state = "quiescing", !.archived = TRUE]
      /\ Goto(e, "fence") /\ ex[e].pc = "run" /\ ex[e].stage = "approved"
      /\ LockFree /\ com.state \in {"active", "quiescing"}
      /\ UNCHANGED <<chunks, stamped, wr, objects, late, strays, rows, kept, upsets>>
  BY DEF BeginQuiescing, Step
<1>6. /\ com' \in [state: {"active", "quiescing", "fenced", "tombstone"}, gen: Nat,
                    archived: BOOLEAN]
      /\ com'.state = "quiescing" /\ com'.gen = com.gen
  BY <1>5, <1>t
<1>7. /\ ex' \in [Executor -> Claims]
      /\ \A x \in Executor : x # e => ex'[x] = ex[x]
      /\ ex'[e].pc = "fence" /\ ex'[e].r = ex[e].r /\ ex'[e].stage = ex[e].stage
      /\ ex'[e].frozen = ex[e].frozen
  BY <1>5, GotoTypes DEF Pcs
<1>8. QED
  BY <1>1, <1>3, <1>4, <1>5, <1>6, <1>7 DEF TypeOK

LEMMA FenceStep ==
    ASSUME TypeOK, Exhausted, NEW e \in Executor, Fence(e)
    PROVE  /\ TypeOK' /\ Exhausted'
           /\ LockFree /\ ServingLeases = {} /\ com.state = "quiescing"
           /\ com'.state = "fenced" /\ com'.gen = com.gen + 1
           /\ UNCHANGED <<chunks, stamped, wr, objects, late, strays, rows, kept>>
           /\ Advances(e, "approved", "fenced") /\ req'[ex[e].r].fence = com.gen + 1
           /\ ex[e].stage = "approved"
<1> USE DEF dataVars, storeVars
<1>t. /\ com \in [state: {"active", "quiescing", "fenced", "tombstone"}, gen: Nat,
                   archived: BOOLEAN]
      /\ req \in [Request -> RequestRow] /\ com.gen + 1 \in Nat
  BY DEF TypeOK
<1> DEFINE r == ex[e].r
           q == [req[r] EXCEPT !.stage = "fenced", !.fence = com.gen + 1,
                               !.retries = 0, !.retryStage = "none"]
<1>1. r \in Request /\ req[r] \in RequestRow /\ req[r].stage = "approved"
  BY OwnerTypes DEF Fence
<1>2. req' = [req EXCEPT ![r] = q]
  BY <1>1, <1>t DEF Fence
<1>3. /\ 0 \in 0..MaxRetries /\ 0 # MaxRetries /\ "none" \in Stages /\ "fenced" \in Stages
  BY DeletionAssumption DEF Stages
<1>4. /\ q \in RequestRow /\ q.retries = 0
      /\ q.stage = "fenced" /\ q.fence = com.gen + 1 /\ q.frozen = req[r].frozen
      /\ q.manifest = req[r].manifest /\ q.quiesced = req[r].quiesced
      /\ q.archivedBefore = req[r].archivedBefore
  BY <1>1, <1>t, <1>3 DEF RequestRow
<1> HIDE DEF q
<1>5. /\ req' \in [Request -> RequestRow] /\ Exhausted'
      /\ req'[r] = q /\ \A s \in Request : s # r => req'[s] = req[s]
  BY <1>1, <1>2, <1>3, <1>4, OneRow
<1>6. /\ com' = [com EXCEPT !.state = "fenced", !.gen = @ + 1]
      /\ Goto(e, "loop") /\ ex[e].pc = "fence" /\ ex[e].stage = "approved"
      /\ LockFree /\ ServingLeases = {} /\ com.state = "quiescing"
      /\ UNCHANGED <<chunks, stamped, wr, objects, late, strays, rows, kept, upsets>>
  BY DEF Fence, Step
<1>7. /\ com' \in [state: {"active", "quiescing", "fenced", "tombstone"}, gen: Nat,
                    archived: BOOLEAN]
      /\ com'.state = "fenced" /\ com'.gen = com.gen + 1
  BY <1>6, <1>t
<1>8. /\ ex' \in [Executor -> Claims]
      /\ \A x \in Executor : x # e => ex'[x] = ex[x]
      /\ ex'[e].pc = "loop" /\ ex'[e].r = ex[e].r /\ ex'[e].stage = ex[e].stage
      /\ ex'[e].frozen = ex[e].frozen
  BY <1>6, GotoTypes DEF Pcs
<1>9. QED
  BY <1>1, <1>4, <1>5, <1>6, <1>7, <1>8 DEF TypeOK, Advances

(* fenced: nothing is taken from a frozen manifest, or added to it. *)
Prepares(e) ==
    /\ Moves(e, {"clear", "clearing", "list", "append", "inserting", "mark"})
    /\ ex[e].stage = "fenced"
    /\ UNCHANGED <<objects, late, strays>>
    /\ \A r \in Request :
          /\ stamped'[r] = stamped[r] \/ stamped'[r] = {}
          /\ req[r].frozen /\ req[r].stage \notin Certified => chunks'[r] = chunks[r]
    /\ ex'[e].pc = "mark" => ex[e].frozen

Freezes(e) ==
    LET r == ex[e].r IN
    /\ r \in Request /\ req[r].stage = "fenced" /\ req'[r].stage = "fenced"
    /\ ex[e].pc # "idle" /\ ex[e].stage = "fenced"
    /\ req'[r].frozen /\ req'[r].manifest = chunks[r]
    /\ req'[r].fence = req[r].fence
    /\ req'[r].quiesced = req[r].quiesced /\ req'[r].archivedBefore = req[r].archivedBefore
    /\ \A s \in Request : s # r => req'[s] = req[s]
    /\ \A x \in Executor : x # e => ex'[x] = ex[x]
    /\ ex'[e].pc = "mark" /\ ex'[e].r = r /\ ex'[e].stage = ex[e].stage
    /\ UNCHANGED <<com, chunks, stamped, wr, objects, late, strays, rows, kept>>

LEMMA PrepareSteps ==
    ASSUME TypeOK, Exhausted, NEW e \in Executor,
           \/ CheckDrained(e) \/ ClearVerified(e) \/ Clear(e) \/ List(e) \/ Append(e)
           \/ \E k \in Key : AppendVerified(e, k)
    PROVE  TypeOK' /\ Exhausted' /\ (GivesUp \/ Prepares(e))
<1> USE DEF requestVars, dataVars, storeVars
<1>t. /\ ex \in [Executor -> Claims] /\ ex[e] \in Claims
      /\ chunks \in [Request -> SUBSET Key] /\ stamped \in [Request -> SUBSET Key]
      /\ objects \subseteq Key /\ upsets \in Nat
  BY DEF TypeOK
<1>f. \A b \in BOOLEAN : Failed(e, b) /\ UNCHANGED upsets => TypeOK' /\ Exhausted' /\ GivesUp
  BY <1>t, FailedTypes
<1>1. CASE CheckDrained(e)
  <2>1. CASE ServingLeases = {}
    <3>1. PICK pc \in {"mark", "clear"} : Goto(e, pc) /\ (pc = "mark" => ex[e].frozen)
      BY <1>1, <2>1 DEF CheckDrained
    <3>2. /\ ex[e].pc = "run" /\ ex[e].stage = "fenced"
          /\ UNCHANGED <<com, req, chunks, stamped, wr, objects, late, strays, rows, kept, upsets>>
      BY <1>1, <2>1 DEF CheckDrained, Step
    <3>3. /\ ex' \in [Executor -> Claims]
          /\ \A x \in Executor : x # e => ex'[x] = ex[x]
          /\ ex'[e].pc = pc /\ ex'[e].r = ex[e].r /\ ex'[e].stage = ex[e].stage
          /\ ex'[e].frozen = ex[e].frozen
      BY <3>1, <3>2, GotoTypes DEF Pcs
    <3>4. QED
      BY <3>1, <3>2, <3>3 DEF TypeOK, Exhausted, Prepares, Moves
  <2>2. CASE ServingLeases # {}
    BY <1>1, <1>f, <2>2 DEF CheckDrained
  <2>3. QED
    BY <2>1, <2>2
<1>2. CASE ClearVerified(e)
  <2>1. /\ ex[e].pc = "clear" /\ ex[e].stage = "fenced" /\ Goto(e, "clearing")
        /\ UNCHANGED <<com, req, chunks, stamped, wr, objects, late, strays, rows, kept, upsets>>
    BY <1>2 DEF ClearVerified, Step
  <2>2. /\ ex' \in [Executor -> Claims]
        /\ \A x \in Executor : x # e => ex'[x] = ex[x]
        /\ ex'[e].pc = "clearing" /\ ex'[e].r = ex[e].r /\ ex'[e].stage = ex[e].stage
        /\ ex'[e].frozen = ex[e].frozen
    BY <2>1, GotoTypes DEF Pcs
  <2>3. QED
    BY <2>1, <2>2 DEF TypeOK, Exhausted, Prepares, Moves
<1>3. CASE Clear(e)
  <2>1. ex[e].pc = "clearing" /\ ex[e].stage = "fenced" /\ UNCHANGED upsets
    BY <1>3 DEF Clear, Step
  <2>2. CASE Removable(ex[e].r) \/ chunks[ex[e].r] = {}
    <3>1. /\ chunks' = [chunks EXCEPT ![ex[e].r] = {}]
          /\ stamped' = [stamped EXCEPT ![ex[e].r] = {}]
          /\ Goto(e, "list") /\ UNCHANGED <<com, req, wr, objects, late, strays, rows, kept>>
      BY <1>3, <2>2 DEF Clear
    <3>2. /\ ex' \in [Executor -> Claims]
          /\ \A x \in Executor : x # e => ex'[x] = ex[x]
          /\ ex'[e].pc = "list" /\ ex'[e].r = ex[e].r /\ ex'[e].stage = ex[e].stage
          /\ ex'[e].frozen = ex[e].frozen
      BY <2>1, <3>1, GotoTypes DEF Pcs
    <3>3. chunks' \in [Request -> SUBSET Key] /\ stamped' \in [Request -> SUBSET Key]
      BY <1>t, <3>1
    <3>4. \A r \in Request :
             /\ stamped'[r] = stamped[r] \/ stamped'[r] = {}
             /\ req[r].frozen /\ req[r].stage \notin Certified => chunks'[r] = chunks[r]
      BY <1>t, <2>2, <3>1 DEF Removable
    <3>5. QED
      BY <2>1, <3>1, <3>2, <3>3, <3>4 DEF TypeOK, Exhausted, Prepares, Moves
  <2>3. CASE ~(Removable(ex[e].r) \/ chunks[ex[e].r] = {})
    BY <1>3, <1>f, <2>1, <2>3 DEF Clear
  <2>4. QED
    BY <2>2, <2>3
<1>4. CASE List(e)
  <2> DEFINE l == [ex[e] EXCEPT !.listing = objects, !.todo = objects, !.pc = "append"]
  <2>1. /\ ex[e].pc = "list" /\ ex[e].stage = "fenced" /\ ex' = [ex EXCEPT ![e] = l]
        /\ UNCHANGED <<com, req, chunks, stamped, wr, objects, late, strays, rows, kept, upsets>>
    BY <1>4, <1>t DEF List, Step
  <2>2. /\ l \in Claims /\ l.pc = "append" /\ l.r = ex[e].r /\ l.stage = ex[e].stage
        /\ l.frozen = ex[e].frozen
    BY <1>t, <2>1 DEF Claims
  <2> HIDE DEF l
  <2>3. /\ ex' \in [Executor -> Claims] /\ ex'[e] = l
        /\ \A x \in Executor : x # e => ex'[x] = ex[x]
    BY <1>t, <2>1, <2>2
  <2>4. QED
    BY <2>1, <2>2, <2>3 DEF TypeOK, Exhausted, Prepares, Moves
<1>5. ASSUME NEW k \in Key, AppendVerified(e, k)
      PROVE  TypeOK' /\ Exhausted' /\ (GivesUp \/ Prepares(e))
  <2> DEFINE l == [ex[e] EXCEPT !.pc = "inserting", !.key = k]
  <2>1. /\ ex[e].pc = "append" /\ ex[e].stage = "fenced" /\ ex' = [ex EXCEPT ![e] = l]
        /\ UNCHANGED <<com, req, chunks, stamped, wr, objects, late, strays, rows, kept, upsets>>
    BY <1>5, <1>t DEF AppendVerified, Step
  <2>2. /\ l \in Claims /\ l.pc = "inserting" /\ l.r = ex[e].r /\ l.stage = ex[e].stage
        /\ l.frozen = ex[e].frozen
    BY <1>t, <2>1 DEF Claims
  <2> HIDE DEF l
  <2>3. /\ ex' \in [Executor -> Claims] /\ ex'[e] = l
        /\ \A x \in Executor : x # e => ex'[x] = ex[x]
    BY <1>t, <2>1, <2>2
  <2>4. QED
    BY <2>1, <2>2, <2>3 DEF TypeOK, Exhausted, Prepares, Moves
<1>6. CASE Append(e)
  <2>1. ex[e].pc = "inserting" /\ ex[e].stage = "fenced" /\ UNCHANGED upsets
    BY <1>6 DEF Append, Step
  <2>2. CASE Insertable(ex[e].r) /\ ex[e].key \notin chunks[ex[e].r]
    <3> DEFINE l == [ex[e] EXCEPT !.pc = "append", !.todo = @ \ {ex[e].key}, !.key = NoKey]
    <3>1. /\ chunks' = [chunks EXCEPT ![ex[e].r] = @ \cup {ex[e].key}]
          /\ ex' = [ex EXCEPT ![e] = l]
          /\ UNCHANGED <<com, req, stamped, wr, objects, late, strays, rows, kept>>
      BY <1>6, <1>t, <2>2 DEF Append
    <3>2. /\ l \in Claims /\ l.pc = "append" /\ l.r = ex[e].r /\ l.stage = ex[e].stage
          /\ l.frozen = ex[e].frozen
      BY <1>t, <2>1 DEF Claims
    <3>3. ex[e].key \in Key
      BY <1>t, <2>1 DEF Claims
    <3> HIDE DEF l
    <3>4. /\ ex' \in [Executor -> Claims] /\ ex'[e] = l
          /\ \A x \in Executor : x # e => ex'[x] = ex[x]
      BY <1>t, <3>1, <3>2
    <3>5. chunks' \in [Request -> SUBSET Key]
      BY <1>t, <3>1, <3>3
    <3>6. \A r \in Request : req[r].frozen => chunks'[r] = chunks[r]
      BY <1>t, <2>2, <3>1 DEF Insertable
    <3>7. QED
      BY <2>1, <3>1, <3>2, <3>4, <3>5, <3>6 DEF TypeOK, Exhausted, Prepares, Moves
  <2>3. CASE ~(Insertable(ex[e].r) /\ ex[e].key \notin chunks[ex[e].r])
    BY <1>6, <1>f, <2>1, <2>3 DEF Append
  <2>4. QED
    BY <2>2, <2>3
<1>7. QED
  BY <1>1, <1>2, <1>3, <1>4, <1>5, <1>6

LEMMA FreezeStep ==
    ASSUME TypeOK, Exhausted, NEW e \in Executor, Freeze(e)
    PROVE  TypeOK' /\ Exhausted' /\ (GivesUp \/ Freezes(e))
<1> USE DEF requestVars, dataVars, storeVars
<1>t. /\ ex \in [Executor -> Claims] /\ ex[e] \in Claims
      /\ req \in [Request -> RequestRow] /\ upsets \in Nat
  BY DEF TypeOK
<1> DEFINE r == ex[e].r
           q == [req[r] EXCEPT !.frozen = TRUE, !.manifest = ex[e].listing]
<1>1. /\ r \in Request /\ req[r] \in RequestRow /\ req[r].stage = "fenced"
      /\ ex[e].pc = "append" /\ ex[e].stage = "fenced" /\ UNCHANGED upsets
  BY OwnerTypes DEF Freeze, Step, OwnsFence
<1>2. CASE /\ chunks[r] = ex[e].listing
           /\ req[r].frozen => req[r].manifest = ex[e].listing
  <2>1. /\ req' = [req EXCEPT ![r] = q] /\ Goto(e, "mark")
        /\ UNCHANGED <<com, chunks, stamped, wr, objects, late, strays, rows, kept>>
    BY <1>1, <1>2, <1>t DEF Freeze
  <2>2. ex[e].listing \subseteq Key
    BY <1>t DEF Claims
  <2>3. /\ q \in RequestRow /\ q.retries = req[r].retries /\ q.blocked = req[r].blocked
        /\ q.stage = req[r].stage /\ q.fence = req[r].fence /\ q.frozen
        /\ q.manifest = ex[e].listing /\ q.quiesced = req[r].quiesced
        /\ q.archivedBefore = req[r].archivedBefore
    BY <1>1, <2>2 DEF RequestRow
  <2> HIDE DEF q
  <2>4. /\ req' \in [Request -> RequestRow] /\ Exhausted'
        /\ req'[r] = q /\ \A s \in Request : s # r => req'[s] = req[s]
    BY <1>1, <2>1, <2>3, OneRow DEF Exhausted
  <2>5. /\ ex' \in [Executor -> Claims]
        /\ \A x \in Executor : x # e => ex'[x] = ex[x]
        /\ ex'[e].pc = "mark" /\ ex'[e].r = ex[e].r /\ ex'[e].stage = ex[e].stage
        /\ ex'[e].frozen = ex[e].frozen
    BY <1>1, <2>1, GotoTypes DEF Pcs
  <2>6. QED
    BY <1>1, <1>2, <2>1, <2>3, <2>4, <2>5 DEF TypeOK, Freezes
<1>3. CASE ~(/\ chunks[r] = ex[e].listing
             /\ req[r].frozen => req[r].manifest = ex[e].listing)
  <2>1. Failed(e, TRUE) /\ UNCHANGED upsets
    BY <1>1, <1>3 DEF Freeze
  <2>2. QED
    BY <1>t, <2>1, FailedTypes
<1>4. QED
  BY <1>2, <1>3

(* drained and later. *)
LEMMA EraseSteps ==
    ASSUME TypeOK, Exhausted, NEW e \in Executor
    PROVE  /\ MarkDrained(e) =>
                /\ TypeOK' /\ Exhausted'
                /\ \/ GivesUp
                   \/ /\ Advances(e, "fenced", "drained") /\ ex[e].pc = "mark"
                      /\ req'[ex[e].r].fence = req[ex[e].r].fence
                      /\ UNCHANGED <<com, chunks, stamped, wr, objects, late, strays, rows, kept>>
           /\ MarkBindingsRemoved(e) =>
                /\ TypeOK' /\ Exhausted'
                /\ Advances(e, "drained", "bindings_removed")
                /\ req'[ex[e].r].fence = req[ex[e].r].fence
                /\ UNCHANGED <<com, chunks, stamped, wr, objects, late, strays, rows, kept>>
           /\ PurgePostgres(e) =>
                /\ TypeOK' /\ Exhausted'
                /\ Advances(e, "bindings_removed", "postgres_purged")
                /\ req'[ex[e].r].fence = req[ex[e].r].fence
                /\ com'.state = "tombstone" /\ com'.gen = com.gen /\ rows' = {}
                /\ UNCHANGED <<chunks, stamped, wr, objects, late, strays, kept>>
           /\ PurgeCache(e) =>
                /\ TypeOK' /\ Exhausted'
                /\ Advances(e, "postgres_purged", "cache_purged")
                /\ req'[ex[e].r].fence = req[ex[e].r].fence
                /\ UNCHANGED <<com, chunks, stamped, wr, objects, late, strays, rows, kept>>
           /\ MarkVerified(e) =>
                /\ TypeOK' /\ Exhausted'
                /\ Advances(e, "cache_purged", "logically_verified") /\ ex[e].pc = "verified"
                /\ req'[ex[e].r].fence = req[ex[e].r].fence
                /\ UNCHANGED <<com, wr, objects, late, strays, rows, kept>>
                /\ \A s \in Request : s # ex[e].r => chunks'[s] = chunks[s] /\ stamped'[s] = stamped[s]
           /\ MarkRetention(e) =>
                /\ TypeOK' /\ Exhausted'
                /\ Advances(e, "logically_verified", "retention_pending")
                /\ req'[ex[e].r].fence = req[ex[e].r].fence
                /\ UNCHANGED <<com, chunks, stamped, wr, objects, late, strays, rows, kept>>
<1> USE DEF requestVars, dataVars, storeVars
<1>t. /\ ex \in [Executor -> Claims] /\ ex[e] \in Claims
      /\ req \in [Request -> RequestRow] /\ upsets \in Nat
      /\ chunks \in [Request -> SUBSET Key] /\ stamped \in [Request -> SUBSET Key]
      /\ com \in [state: {"active", "quiescing", "fenced", "tombstone"}, gen: Nat,
                   archived: BOOLEAN]
  BY DEF TypeOK
<1>s. /\ "drained" \in Stages /\ "bindings_removed" \in Stages /\ "postgres_purged" \in Stages
      /\ "cache_purged" \in Stages /\ "logically_verified" \in Stages
      /\ "retention_pending" \in Stages /\ "none" \in Stages
  BY DEF Stages
<1>1. ASSUME NEW from, NEW to \in Stages, ex[e].pc # "idle", OwnsFence(e, from), Advance(e, to)
      PROVE  /\ req' \in [Request -> RequestRow] /\ ex' \in [Executor -> Claims] /\ Exhausted'
             /\ Advances(e, from, to) /\ req'[ex[e].r].fence = req[ex[e].r].fence
  BY <1>1, AdvanceSteps DEF OwnsFence
<1>2. ASSUME MarkDrained(e)
      PROVE  /\ TypeOK' /\ Exhausted'
             /\ \/ GivesUp
                \/ /\ Advances(e, "fenced", "drained") /\ ex[e].pc = "mark"
                   /\ req'[ex[e].r].fence = req[ex[e].r].fence
                   /\ UNCHANGED <<com, chunks, stamped, wr, objects, late, strays, rows, kept>>
  <2>1. CASE ServingLeases = {}
    <3>1. /\ ex[e].pc = "mark" /\ OwnsFence(e, "fenced") /\ Advance(e, "drained")
          /\ UNCHANGED <<com, chunks, stamped, wr, objects, late, strays, rows, kept, upsets>>
      BY <1>2, <2>1 DEF MarkDrained, Step
    <3>2. QED
      BY <1>1, <1>s, <3>1 DEF TypeOK
  <2>2. CASE ServingLeases # {}
    BY <1>2, <1>t, <2>2, FailedTypes DEF MarkDrained
  <2>3. QED
    BY <2>1, <2>2
<1>3. ASSUME MarkBindingsRemoved(e)
      PROVE  /\ TypeOK' /\ Exhausted'
             /\ Advances(e, "drained", "bindings_removed")
             /\ req'[ex[e].r].fence = req[ex[e].r].fence
             /\ UNCHANGED <<com, chunks, stamped, wr, objects, late, strays, rows, kept>>
  <2>1. /\ ex[e].pc = "run" /\ OwnsFence(e, "drained") /\ Advance(e, "bindings_removed")
        /\ UNCHANGED <<com, chunks, stamped, wr, objects, late, strays, rows, kept, upsets>>
    BY <1>3 DEF MarkBindingsRemoved, Step
  <2>2. QED
    BY <1>1, <1>s, <2>1 DEF TypeOK
<1>4. ASSUME PurgePostgres(e)
      PROVE  /\ TypeOK' /\ Exhausted'
             /\ Advances(e, "bindings_removed", "postgres_purged")
             /\ req'[ex[e].r].fence = req[ex[e].r].fence
             /\ com'.state = "tombstone" /\ com'.gen = com.gen /\ rows' = {}
             /\ UNCHANGED <<chunks, stamped, wr, objects, late, strays, kept>>
  <2>1. /\ ex[e].pc = "run" /\ OwnsFence(e, "bindings_removed") /\ Advance(e, "postgres_purged")
        /\ rows' = {} /\ com' = [com EXCEPT !.state = "tombstone", !.archived = TRUE]
        /\ UNCHANGED <<chunks, stamped, wr, objects, late, strays, kept, upsets>>
    BY <1>4 DEF PurgePostgres, Step
  <2>2. /\ com' \in [state: {"active", "quiescing", "fenced", "tombstone"}, gen: Nat,
                      archived: BOOLEAN]
        /\ com'.state = "tombstone" /\ com'.gen = com.gen
    BY <1>t, <2>1
  <2>3. QED
    BY <1>1, <1>s, <2>1, <2>2 DEF TypeOK
<1>5. ASSUME PurgeCache(e)
      PROVE  /\ TypeOK' /\ Exhausted'
             /\ Advances(e, "postgres_purged", "cache_purged")
             /\ req'[ex[e].r].fence = req[ex[e].r].fence
             /\ UNCHANGED <<com, chunks, stamped, wr, objects, late, strays, rows, kept>>
  <2>1. /\ ex[e].pc = "run" /\ OwnsFence(e, "postgres_purged") /\ Advance(e, "cache_purged")
        /\ UNCHANGED <<com, chunks, stamped, wr, objects, late, strays, rows, kept, upsets>>
    BY <1>5 DEF PurgeCache, Step
  <2>2. QED
    BY <1>1, <1>s, <2>1 DEF TypeOK
<1>6. ASSUME MarkVerified(e)
      PROVE  /\ TypeOK' /\ Exhausted'
             /\ Advances(e, "cache_purged", "logically_verified") /\ ex[e].pc = "verified"
             /\ req'[ex[e].r].fence = req[ex[e].r].fence
             /\ UNCHANGED <<com, wr, objects, late, strays, rows, kept>>
             /\ \A s \in Request : s # ex[e].r => chunks'[s] = chunks[s] /\ stamped'[s] = stamped[s]
  <2>1. /\ ex[e].pc = "verified" /\ OwnsFence(e, "cache_purged")
        /\ Advance(e, "logically_verified")
        /\ chunks' = [chunks EXCEPT ![ex[e].r] = {}]
        /\ stamped' = [stamped EXCEPT ![ex[e].r] = {}]
        /\ UNCHANGED <<com, wr, objects, late, strays, rows, kept, upsets>>
    BY <1>6 DEF MarkVerified, Step
  <2>2. /\ chunks' \in [Request -> SUBSET Key] /\ stamped' \in [Request -> SUBSET Key]
        /\ \A s \in Request : s # ex[e].r => chunks'[s] = chunks[s] /\ stamped'[s] = stamped[s]
    BY <1>t, <2>1
  <2>3. QED
    BY <1>1, <1>s, <2>1, <2>2 DEF TypeOK
<1>7. ASSUME MarkRetention(e)
      PROVE  /\ TypeOK' /\ Exhausted'
             /\ Advances(e, "logically_verified", "retention_pending")
             /\ req'[ex[e].r].fence = req[ex[e].r].fence
             /\ UNCHANGED <<com, chunks, stamped, wr, objects, late, strays, rows, kept>>
  <2> DEFINE r == ex[e].r
             u == Unleased(req[r])
             q == [u EXCEPT !.stage = "retention_pending", !.retries = 0, !.retryStage = "none"]
  <2>1. /\ r \in Request /\ req[r] \in RequestRow /\ req[r].stage = "logically_verified"
        /\ ex[e].pc = "run"
    BY <1>7, OwnerTypes DEF MarkRetention, Step, OwnsFence
  <2>2. /\ req' = [req EXCEPT ![r] = q] /\ ex' = [ex EXCEPT ![e] = Idle]
        /\ UNCHANGED <<com, chunks, stamped, wr, objects, late, strays, rows, kept, upsets>>
    BY <1>7, <1>t, <2>1 DEF MarkRetention
  <2>3. u \in RequestRow /\ SameSaga(req[r], u)
    BY <2>1, RowTypes
  <2>4. 0 \in 0..MaxRetries /\ 0 # MaxRetries
    BY DeletionAssumption
  <2> HIDE DEF u
  <2>5. /\ q \in RequestRow /\ q.retries = 0 /\ q.stage = "retention_pending"
        /\ SameButStage(u, q)
    BY <1>s, <2>3, <2>4 DEF RequestRow, SameButStage
  <2> HIDE DEF q
  <2>6. /\ req' \in [Request -> RequestRow] /\ Exhausted'
        /\ req'[r] = q /\ \A s \in Request : s # r => req'[s] = req[s]
    BY <2>1, <2>2, <2>4, <2>5, OneRow
  <2>7. Idle \in Claims /\ Idle.pc = "idle"
    BY DEF Idle, Claims, Stages
  <2>8. /\ ex' \in [Executor -> Claims] /\ ex'[e] = Idle
        /\ \A x \in Executor : x # e => ex'[x] = ex[x]
    BY <1>t, <2>2, <2>7
  <2>9. Advances(e, "logically_verified", "retention_pending")
        /\ req'[r].fence = req[r].fence
    BY <2>1, <2>3, <2>5, <2>6, <2>7, <2>8 DEF Advances, SameSaga, SameButStage
  <2>10. QED
    BY <2>2, <2>6, <2>8, <2>9 DEF TypeOK
<1>8. QED
  BY <1>2, <1>3, <1>4, <1>5, <1>6, <1>7

(* The steps that look at the store or delete from it. *)
LEMMA StoreSteps ==
    ASSUME TypeOK, Exhausted, NEW e \in Executor
    PROVE  /\ (\E k \in Key : NextChunk(e, k)) =>
                /\ TypeOK' /\ Exhausted' /\ Moves(e, {"deleting"}) /\ ex[e].stage = "drained"
                /\ UNCHANGED <<chunks, stamped, objects, late, strays>>
           /\ DeleteLands(e) =>
                /\ TypeOK' /\ Exhausted' /\ Moves(e, {"deleted"}) /\ ex[e].stage = "drained"
                /\ Ours' = Ours \ {ex[e].key} /\ ex'[e].key = ex[e].key
                /\ UNCHANGED <<chunks, stamped>>
           /\ Stamp(e) =>
                /\ TypeOK' /\ Exhausted'
                /\ \/ GivesUp
                   \/ /\ Moves(e, {"run"}) /\ ex[e].pc = "deleted" /\ ex[e].r \in Request
                      /\ req[ex[e].r].stage = "drained"
                      /\ stamped' = [stamped EXCEPT ![ex[e].r] = @ \cup {ex[e].key}]
                      /\ UNCHANGED <<chunks, objects, late, strays>>
           /\ VerifyPostgres(e) =>
                /\ TypeOK' /\ Exhausted'
                /\ \/ GivesUp
                   \/ /\ Moves(e, {"absence"}) /\ ex[e].stage = "cache_purged" /\ rows = {}
                      /\ UNCHANGED <<chunks, stamped, objects, late, strays>>
           /\ VerifyStorage(e) =>
                /\ TypeOK' /\ Exhausted'
                /\ \/ GivesUp
                   \/ /\ Moves(e, {"verified"}) /\ ex[e].stage = "cache_purged"
                      /\ ex[e].pc = "absence" /\ Ours = {}
                      /\ UNCHANGED <<chunks, stamped, objects, late, strays>>
<1> USE DEF requestVars, dataVars, storeVars
<1>t. /\ ex \in [Executor -> Claims] /\ ex[e] \in Claims /\ upsets \in Nat
      /\ objects \subseteq Key /\ stamped \in [Request -> SUBSET Key]
  BY DEF TypeOK
<1>f. \A b \in BOOLEAN : Failed(e, b) /\ UNCHANGED upsets => TypeOK' /\ Exhausted' /\ GivesUp
  BY <1>t, FailedTypes
<1>0. ASSUME NEW l \in Claims, ex' = [ex EXCEPT ![e] = l], ex[e].pc # "idle",
             UNCHANGED <<com, req, wr, rows, kept>>,
             l.r = ex[e].r, l.stage = ex[e].stage, l.frozen = ex[e].frozen
      PROVE  Moves(e, {l.pc}) /\ ex' \in [Executor -> Claims] /\ ex'[e] = l
  BY <1>0, <1>t DEF Moves
<1>1. ASSUME NEW k \in Key, NextChunk(e, k)
      PROVE  /\ TypeOK' /\ Exhausted' /\ Moves(e, {"deleting"}) /\ ex[e].stage = "drained"
             /\ UNCHANGED <<chunks, stamped, objects, late, strays>>
  <2> DEFINE l == [ex[e] EXCEPT !.pc = "deleting", !.key = k]
  <2>1. /\ ex[e].pc = "run" /\ ex[e].stage = "drained" /\ ex' = [ex EXCEPT ![e] = l]
        /\ UNCHANGED <<com, req, chunks, stamped, wr, objects, late, strays, rows, kept, upsets>>
    BY <1>1, <1>t DEF NextChunk, Step
  <2>2. /\ l \in Claims /\ l.pc = "deleting" /\ l.r = ex[e].r /\ l.stage = ex[e].stage
        /\ l.frozen = ex[e].frozen
    BY <1>t, <2>1 DEF Claims
  <2> HIDE DEF l
  <2>3. Moves(e, {"deleting"}) /\ ex' \in [Executor -> Claims]
    BY <1>0, <2>1, <2>2
  <2>4. QED
    BY <2>1, <2>3 DEF TypeOK, Exhausted
<1>2. ASSUME DeleteLands(e)
      PROVE  /\ TypeOK' /\ Exhausted' /\ Moves(e, {"deleted"}) /\ ex[e].stage = "drained"
             /\ Ours' = Ours \ {ex[e].key} /\ ex'[e].key = ex[e].key
             /\ UNCHANGED <<chunks, stamped>>
  <2>1. /\ ex[e].pc = "deleting" /\ ex[e].stage = "drained" /\ Goto(e, "deleted")
        /\ objects' = objects \ {ex[e].key} /\ strays' = strays \ {ex[e].key}
        /\ UNCHANGED <<com, req, chunks, stamped, wr, late, rows, kept, upsets>>
    BY <1>2 DEF DeleteLands, Step
  <2>2. /\ ex' \in [Executor -> Claims]
        /\ \A x \in Executor : x # e => ex'[x] = ex[x]
        /\ ex'[e].pc = "deleted" /\ ex'[e].r = ex[e].r /\ ex'[e].stage = ex[e].stage
        /\ ex'[e].frozen = ex[e].frozen /\ ex'[e].key = ex[e].key
    BY <2>1, GotoTypes DEF Pcs
  <2>3. QED
    BY <2>1, <2>2 DEF TypeOK, Exhausted, Moves
<1>3. ASSUME Stamp(e)
      PROVE  /\ TypeOK' /\ Exhausted'
             /\ \/ GivesUp
                \/ /\ Moves(e, {"run"}) /\ ex[e].pc = "deleted" /\ ex[e].r \in Request
                   /\ req[ex[e].r].stage = "drained"
                   /\ stamped' = [stamped EXCEPT ![ex[e].r] = @ \cup {ex[e].key}]
                   /\ UNCHANGED <<chunks, objects, late, strays>>
  <2>1. CASE ex[e].key \in Pending(ex[e].r)
    <3> DEFINE l == [ex[e] EXCEPT !.pc = "run", !.key = NoKey]
    <3>1. /\ ex[e].pc = "deleted" /\ ex' = [ex EXCEPT ![e] = l] /\ OwnsFence(e, "drained")
          /\ stamped' = [stamped EXCEPT ![ex[e].r] = @ \cup {ex[e].key}]
          /\ UNCHANGED <<com, req, chunks, wr, objects, late, strays, rows, kept, upsets>>
      BY <1>3, <1>t, <2>1 DEF Stamp, Step
    <3>2. /\ l \in Claims /\ l.pc = "run" /\ l.r = ex[e].r /\ l.stage = ex[e].stage
          /\ l.frozen = ex[e].frozen
      BY <1>t, <3>1 DEF Claims
    <3> HIDE DEF l
    <3>3. Moves(e, {"run"}) /\ ex' \in [Executor -> Claims]
      BY <1>0, <3>1, <3>2
    <3>4. ex[e].r \in Request /\ req[ex[e].r].stage = "drained"
      BY <3>1, OwnerTypes DEF OwnsFence
    <3>5. ex[e].key \in Key
      BY <1>t, <3>1 DEF Claims
    <3>6. stamped' \in [Request -> SUBSET Key]
      BY <1>t, <3>1, <3>5
    <3>7. QED
      BY <3>1, <3>3, <3>4, <3>6 DEF TypeOK, Exhausted
  <2>2. CASE ex[e].key \notin Pending(ex[e].r)
    BY <1>3, <1>f, <2>2 DEF Stamp
  <2>3. QED
    BY <2>1, <2>2
<1>4. ASSUME VerifyPostgres(e)
      PROVE  /\ TypeOK' /\ Exhausted'
             /\ \/ GivesUp
                \/ /\ Moves(e, {"absence"}) /\ ex[e].stage = "cache_purged" /\ rows = {}
                   /\ UNCHANGED <<chunks, stamped, objects, late, strays>>
  <2>1. CASE com.state = "tombstone" /\ rows = {}
    <3>1. /\ ex[e].pc = "run" /\ ex[e].stage = "cache_purged" /\ Goto(e, "absence")
          /\ UNCHANGED <<com, req, chunks, stamped, wr, objects, late, strays, rows, kept, upsets>>
      BY <1>4, <2>1 DEF VerifyPostgres, Step
    <3>2. /\ ex' \in [Executor -> Claims]
          /\ \A x \in Executor : x # e => ex'[x] = ex[x]
          /\ ex'[e].pc = "absence" /\ ex'[e].r = ex[e].r /\ ex'[e].stage = ex[e].stage
          /\ ex'[e].frozen = ex[e].frozen
      BY <3>1, GotoTypes DEF Pcs
    <3>3. QED
      BY <2>1, <3>1, <3>2 DEF TypeOK, Exhausted, Moves
  <2>2. CASE ~(com.state = "tombstone" /\ rows = {})
    BY <1>4, <1>f, <2>2 DEF VerifyPostgres
  <2>3. QED
    BY <2>1, <2>2
<1>5. ASSUME VerifyStorage(e)
      PROVE  /\ TypeOK' /\ Exhausted'
             /\ \/ GivesUp
                \/ /\ Moves(e, {"verified"}) /\ ex[e].stage = "cache_purged"
                   /\ ex[e].pc = "absence" /\ Ours = {}
                   /\ UNCHANGED <<chunks, stamped, objects, late, strays>>
  <2>1. CASE objects = {}
    <3>1. /\ ex[e].pc = "absence" /\ ex[e].stage = "cache_purged" /\ Goto(e, "verified")
          /\ UNCHANGED <<com, req, chunks, stamped, wr, objects, late, strays, rows, kept, upsets>>
      BY <1>5, <2>1 DEF VerifyStorage, Step
    <3>2. /\ ex' \in [Executor -> Claims]
          /\ \A x \in Executor : x # e => ex'[x] = ex[x]
          /\ ex'[e].pc = "verified" /\ ex'[e].r = ex[e].r /\ ex'[e].stage = ex[e].stage
          /\ ex'[e].frozen = ex[e].frozen
      BY <3>1, GotoTypes DEF Pcs
    <3>3. QED
      BY <2>1, <3>1, <3>2 DEF TypeOK, Exhausted, Moves
  <2>2. CASE objects # {}
    BY <1>5, <1>f, <2>2 DEF VerifyStorage
  <2>3. QED
    BY <2>1, <2>2
<1>6. QED
  BY <1>1, <1>2, <1>3, <1>4, <1>5

LEMMA TypeStep == TypeOK /\ Exhausted /\ [Next]_vars => TypeOK' /\ Exhausted'
<1> SUFFICES ASSUME TypeOK, Exhausted, [Next]_vars PROVE TypeOK' /\ Exhausted'
  OBVIOUS
<1>1. CASE Serving
  <2>1. req' = req
    BY <1>1 DEF Serving, BeginWrite, Acquire, CommitWrite, Verify, EffectLands, LeaseLost,
                LandsLate, GuardDropped, BeginFinal, Release, WriterCrash, LeaseExpires, Reap, OwnerArchives, requestVars
  <2>2. QED
    BY <1>1, <2>1, ServingTypes DEF Exhausted
<1>2. CASE Operators
  BY <1>2, OperatorTypes
<1>3. CASE Executors
  <2>1. ASSUME NEW e \in Executor, Progress(e) PROVE TypeOK' /\ Exhausted'
    <3>1. CASE \E r \in Request : Claim(e, r)
      BY <3>1, LeaseSteps
    <3>2. CASE NextTurn(e) \/ Stale(e) \/ NotDrained(e)
      <4>1. Request # {}
        BY <3>2 DEF NextTurn, Stale, NotDrained, Step, TypeOK, Claims
      <4>2. QED
        BY <3>2, <4>1, LeaseSteps
    <3>3. QED
      BY <2>1, <3>1, <3>2, QuiescingStep, FenceStep, PrepareSteps, FreezeStep, EraseSteps,
         StoreSteps DEF Progress
  <2>2. ASSUME NEW e \in Executor, ExecutorCrash(e) \/ Shutdown(e) \/ StageFails(e)
        PROVE  TypeOK' /\ Exhausted'
    <3>1. Request # {}
      BY <2>2 DEF ExecutorCrash, Shutdown, StageFails, TypeOK, Claims
    <3>2. QED
      BY <2>2, <3>1, LeaseSteps
  <2>3. ASSUME NEW r \in Request, ClaimExpires(r) PROVE TypeOK' /\ Exhausted'
    <3>1. req' = [req EXCEPT ![r].live = FALSE]
          /\ UNCHANGED <<com, chunks, stamped, ex, wr, objects, late, strays, rows, kept>>
      BY <2>3 DEF ClaimExpires, dataVars
    <3>2. upsets' \in Nat
      BY <2>3 DEF ClaimExpires, Upset, TypeOK
    <3>3. req[r] \in RequestRow
      BY DEF TypeOK
    <3>4. /\ [req[r] EXCEPT !.live = FALSE] \in RequestRow
          /\ [req[r] EXCEPT !.live = FALSE].retries = req[r].retries
          /\ [req[r] EXCEPT !.live = FALSE].blocked = req[r].blocked
      BY <3>3 DEF RequestRow
    <3>5. req' = [req EXCEPT ![r] = [req[r] EXCEPT !.live = FALSE]]
      BY <3>1 DEF TypeOK
    <3>6. req' \in [Request -> RequestRow] /\ Exhausted'
      BY <3>4, <3>5, OneRow DEF Exhausted
    <3>7. QED
      BY <3>1, <3>2, <3>6 DEF TypeOK
  <2>4. QED
    BY <1>3, <2>1, <2>2, <2>3, LeaseSteps DEF Executors
<1>4. CASE UNCHANGED vars
  BY <1>4 DEF TypeOK, Exhausted, vars
<1>5. QED
  BY <1>1, <1>2, <1>3, <1>4 DEF Next

-----------------------------------------------------------------------------
(* What a step of the system amounts to.                                   *)

(* A serving write: it adds what its lock or its lease admits, and behind   *)
(* the fence it can get neither.                                            *)
Served ==
    /\ UNCHANGED <<com, req, chunks, stamped, ex, kept>>
    /\ Ours \subseteq Ours' /\ (Ours' # Ours => Open \/ ServingLeases # {})
    /\ rows \subseteq rows' /\ (rows' # rows => ~LockFree)
    /\ com.state \in {"fenced", "tombstone"} /\ LockFree /\ ServingLeases = {}
          => LockFree' /\ ServingLeases' = {}

Archives ==
    /\ com.state = "active" /\ com'.state = "active" /\ com'.gen = com.gen
    /\ com'.archived = kept'
    /\ UNCHANGED <<req, chunks, stamped, ex, wr, objects, late, strays, rows>>

Files(r) ==
    /\ \/ /\ req[r].stage = "none" /\ req'[r].stage = "submitted" /\ com.state = "active"
          /\ \A s \in Request : req[s].stage \in {"none", "aborted"}
       \/ req[r].stage = "submitted" /\ req'[r].stage = "inventoried"
       \/ req[r].stage = "inventoried" /\ req'[r].stage = "approved"
    /\ SameButStage(req[r], req'[r])
    /\ \A s \in Request : s # r => req'[s] = req[s]
    /\ UNCHANGED <<com, chunks, stamped, ex, wr, objects, late, strays, rows, kept>>

Aborts(r) ==
    /\ req[r].stage \in {"approved", "fenced"} /\ req'[r].stage = "aborted"
    /\ LockFree /\ ServingLeases = {}
    /\ req'[r].frozen = req[r].frozen
    /\ \A s \in Request : s # r => req'[s] = req[s]
    /\ com'.state = "active"
    /\ com'.archived = IF req[r].quiesced THEN req[r].archivedBefore ELSE com.archived
    /\ UNCHANGED <<chunks, stamped, ex, wr, objects, late, strays, rows, kept>>

Quiesces(e) ==
    LET r == ex[e].r IN
    /\ com.state \in {"active", "quiescing"} /\ com'.state = "quiescing" /\ com'.gen = com.gen
    /\ UNCHANGED <<chunks, stamped, wr, objects, late, strays, rows, kept>>
    /\ \A x \in Executor : x # e => ex'[x] = ex[x]
    /\ ex'[e].pc = "fence" /\ ex'[e].r = r /\ ex'[e].stage = "approved"
    /\ ex'[e].frozen = ex[e].frozen
    /\ ex[e].pc # "idle" /\ r \in Request
    /\ req[r].stage = "approved" /\ req'[r].stage = "approved"
    /\ req'[r].fence = req[r].fence /\ req'[r].frozen = req[r].frozen
    /\ req'[r].manifest = req[r].manifest
    /\ req'[r].quiesced
    /\ req'[r].archivedBefore = IF req[r].quiesced THEN req[r].archivedBefore ELSE com.archived
    /\ \A s \in Request : s # r => req'[s] = req[s]

Fences(e) ==
    /\ LockFree /\ ServingLeases = {} /\ com.state = "quiescing"
    /\ com'.state = "fenced" /\ com'.gen = com.gen + 1
    /\ UNCHANGED <<chunks, stamped, wr, objects, late, strays, rows, kept>>
    /\ Advances(e, "approved", "fenced") /\ req'[ex[e].r].fence = com.gen + 1
    /\ ex[e].stage = "approved"

Drains(e) ==
    /\ Advances(e, "fenced", "drained") /\ ex[e].pc = "mark"
    /\ req'[ex[e].r].fence = req[ex[e].r].fence
    /\ UNCHANGED <<com, chunks, stamped, wr, objects, late, strays, rows, kept>>

(* The steps after the drain that erase nothing. *)
Passes(e) ==
    /\ \/ Advances(e, "drained", "bindings_removed")
       \/ Advances(e, "postgres_purged", "cache_purged")
       \/ Advances(e, "logically_verified", "retention_pending")
    /\ req'[ex[e].r].fence = req[ex[e].r].fence
    /\ UNCHANGED <<com, chunks, stamped, wr, objects, late, strays, rows, kept>>

Purges(e) ==
    /\ Advances(e, "bindings_removed", "postgres_purged")
    /\ req'[ex[e].r].fence = req[ex[e].r].fence
    /\ com'.state = "tombstone" /\ com'.gen = com.gen /\ rows' = {}
    /\ UNCHANGED <<chunks, stamped, wr, objects, late, strays, kept>>

Certifies(e) ==
    /\ Advances(e, "cache_purged", "logically_verified") /\ ex[e].pc = "verified"
    /\ req'[ex[e].r].fence = req[ex[e].r].fence
    /\ UNCHANGED <<com, wr, objects, late, strays, rows, kept>>
    /\ \A s \in Request : s # ex[e].r => chunks'[s] = chunks[s] /\ stamped'[s] = stamped[s]

Picks(e) ==
    /\ Moves(e, {"deleting"}) /\ ex[e].stage = "drained"
    /\ UNCHANGED <<chunks, stamped, objects, late, strays>>

Deletes(e) ==
    /\ Moves(e, {"deleted"}) /\ ex[e].stage = "drained"
    /\ Ours' = Ours \ {ex[e].key} /\ ex'[e].key = ex[e].key
    /\ UNCHANGED <<chunks, stamped>>

Stamps(e) ==
    /\ Moves(e, {"run"}) /\ ex[e].pc = "deleted" /\ ex[e].r \in Request
    /\ req[ex[e].r].stage = "drained"
    /\ stamped' = [stamped EXCEPT ![ex[e].r] = @ \cup {ex[e].key}]
    /\ UNCHANGED <<chunks, objects, late, strays>>

Looks(e) ==
    /\ \/ Moves(e, {"absence"}) /\ rows = {}
       \/ Moves(e, {"verified"}) /\ ex[e].pc = "absence" /\ Ours = {}
    /\ ex[e].stage = "cache_purged"
    /\ UNCHANGED <<chunks, stamped, objects, late, strays>>

ByExecutor(e) ==
    \/ Turns(e) \/ Quiesces(e) \/ Fences(e) \/ Prepares(e) \/ Freezes(e)
    \/ Drains(e) \/ Passes(e) \/ Purges(e) \/ Certifies(e)
    \/ Picks(e) \/ Deletes(e) \/ Stamps(e) \/ Looks(e)

Effect ==
    \/ GivesUp \/ Served \/ Archives
    \/ \E r \in Request : Files(r) \/ Aborts(r)
    \/ \E e \in Executor : ByExecutor(e)

LEMMA ServingEffect ==
    ASSUME TypeOK, Serving
    PROVE  Served \/ Archives
<1> USE DEF requestVars, dataVars, storeVars
<1>t. /\ wr \in [Writer -> ServingWrites]
      /\ \A w \in Writer : wr[w] \in ServingWrites
  BY DEF TypeOK
<1>0. ASSUME NEW w \in Writer, NEW l, wr' = [wr EXCEPT ![w] = l],
             UNCHANGED <<com, requestVars, ex, kept>>,
             Ours \subseteq Ours', Ours' # Ours => Open \/ ServingLeases # {},
             rows \subseteq rows', rows' # rows => ~LockFree,
             com.state \in {"fenced", "tombstone"} =>
                /\ l.pc \in {"tx", "finaltx"} => ~LockFree
                /\ l.lease = "live" => wr[w].lease = "live"
      PROVE  Served
  <2>1. \A x \in Writer : wr'[x] = IF x = w THEN l ELSE wr[x]
    BY <1>0, <1>t
  <2>2. ASSUME com.state \in {"fenced", "tombstone"}, LockFree, ServingLeases = {}
        PROVE  LockFree' /\ ServingLeases' = {}
    <3>1. ~(l.pc \in {"tx", "finaltx"}) /\ l.lease # "live"
      BY <1>0, <2>2 DEF ServingLeases
    <3>2. \A x \in Writer : wr'[x].pc \notin {"tx", "finaltx"} /\ wr'[x].lease # "live"
      BY <2>1, <2>2, <3>1 DEF LockFree, LockHolders, ServingLeases
    <3>3. QED
      BY <3>2 DEF LockFree, LockHolders, ServingLeases
  <2>3. QED
    BY <1>0, <2>2 DEF Served
<1>p. ASSUME NEW k \in Key, NEW b \in BOOLEAN, Puts(k, b), b => ServingLeases # {}
      PROVE  Ours \subseteq Ours' /\ (Ours' # Ours => Open \/ ServingLeases # {})
  BY <1>p DEF Puts
<1>1. ASSUME NEW w \in Writer, NEW k \in Key, BeginWrite(w, k) \/ Acquire(w, k)
      PROVE  Served
  <2>1. PICK l : wr' = [wr EXCEPT ![w] = l]
    BY <1>1, <1>t DEF BeginWrite, Acquire
  <2>2. com.state = "active" /\ UNCHANGED <<com, requestVars, ex, dataVars, kept>>
    BY <1>1 DEF BeginWrite, Acquire
  <2>3. QED
    BY <1>0, <2>1, <2>2
<1>2. ASSUME NEW w \in Writer, CommitWrite(w) PROVE Served
  <2> DEFINE l == [wr[w] EXCEPT !.pc = IF wr[w].pc = "tx" THEN "end" ELSE "finish"]
  <2>1. /\ wr' = [wr EXCEPT ![w] = l] /\ ~LockFree /\ rows \subseteq rows'
        /\ UNCHANGED <<com, requestVars, ex, objects, late, strays, kept>>
    BY <1>2, <1>t DEF CommitWrite, LockFree, LockHolders
  <2>2. l.pc \in {"end", "finish"} /\ l.lease = wr[w].lease
    BY <1>t DEF ServingWrites
  <2> HIDE DEF l
  <2>3. QED
    BY <1>0, <2>1, <2>2
<1>3. ASSUME NEW w \in Writer, EffectLands(w) PROVE Served
  <2> DEFINE l == [wr[w] EXCEPT !.pc = "landed"]
  <2>1. /\ wr' = [wr EXCEPT ![w] = l] /\ wr[w].key \in Key
        /\ Puts(wr[w].key, wr[w].lease = "live")
        /\ UNCHANGED <<com, requestVars, ex, rows, kept>>
    BY <1>3, <1>t DEF EffectLands, ServingWrites
  <2>2. l.pc = "landed" /\ l.lease = wr[w].lease
    BY <1>t DEF ServingWrites
  <2> HIDE DEF l
  <2>3. Ours \subseteq Ours' /\ (Ours' # Ours => Open \/ ServingLeases # {})
    BY <1>p, <2>1 DEF ServingLeases
  <2>4. QED
    BY <1>0, <2>1, <2>2, <2>3
<1>4. ASSUME NEW w \in Writer, Verify(w) \/ LeaseLost(w) \/ BeginFinal(w) \/ GuardDropped(w)
      PROVE  Served
  <2>1. PICK pc \in {"effect", "final", "finish", "finaltx"} :
           /\ wr' = [wr EXCEPT ![w] = [wr[w] EXCEPT !.pc = pc]]
           /\ pc = "finaltx" => LeaseValid(w)
    BY <1>4, <1>t DEF Verify, LeaseLost, BeginFinal, GuardDropped
  <2> DEFINE l == [wr[w] EXCEPT !.pc = pc]
  <2>2. l.pc = pc /\ l.lease = wr[w].lease
    BY <1>t DEF ServingWrites
  <2>3. pc = "finaltx" => com.state \in {"active", "quiescing"}
    BY <2>1 DEF LeaseValid, Open
  <2>4. /\ UNCHANGED <<com, requestVars, ex, objects, strays, rows, kept>>
        /\ wr' = [wr EXCEPT ![w] = l]
    BY <1>4, <2>1 DEF Verify, LeaseLost, BeginFinal, GuardDropped, Abandons
  <2> HIDE DEF l
  <2>5. QED
    BY <1>0, <2>2, <2>3, <2>4
<1>5. ASSUME NEW w \in Writer, Release(w) \/ Reap(w) PROVE Served
  <2>1. NoWrite.pc = "idle" /\ NoWrite.lease = "none"
    BY DEF NoWrite
  <2>2. UNCHANGED <<com, requestVars, ex, dataVars, kept>> /\ wr' = [wr EXCEPT ![w] = NoWrite]
    BY <1>5 DEF Release, Reap
  <2>3. QED
    BY <1>0, <2>1, <2>2
<1>6. ASSUME NEW w \in Writer, WriterCrash(w) PROVE Served
  <2> DEFINE l == [wr[w] EXCEPT !.pc = "dead", !.key = NoKey]
  <2>1. l.pc = "dead" /\ l.lease = wr[w].lease
    BY <1>t DEF ServingWrites
  <2>2. /\ UNCHANGED <<com, requestVars, ex, objects, strays, rows, kept>>
        /\ wr' = [wr EXCEPT ![w] = l]
    BY <1>6, <1>t DEF WriterCrash, Abandons
  <2> HIDE DEF l
  <2>3. QED
    BY <1>0, <2>1, <2>2
<1>7. ASSUME NEW w \in Writer, LeaseExpires(w) PROVE Served
  <2> DEFINE l == [wr[w] EXCEPT !.lease = "expired"]
  <2>1. l.pc = wr[w].pc /\ l.lease = "expired"
    BY <1>t DEF ServingWrites
  <2>2. UNCHANGED <<com, requestVars, ex, dataVars, kept>> /\ wr' = [wr EXCEPT ![w] = l]
    BY <1>7, <1>t DEF LeaseExpires
  <2>3. wr[w].pc \in {"tx", "finaltx"} => ~LockFree
    BY DEF LockFree, LockHolders
  <2> HIDE DEF l
  <2>4. QED
    BY <1>0, <2>1, <2>2, <2>3
<1>8. ASSUME OwnerArchives PROVE Archives
  BY <1>8 DEF OwnerArchives, Archives, TypeOK
<1>9. ASSUME NEW k \in Key, LandsLate(k) PROVE Served
  <2>1. UNCHANGED <<com, requestVars, ex, wr, rows, kept>> /\ Puts(k, FALSE)
    BY <1>9 DEF LandsLate
  <2>2. Ours \subseteq Ours' /\ (Ours' # Ours => Open \/ ServingLeases # {})
    BY <1>p, <2>1
  <2>3. LockFree' = LockFree /\ ServingLeases' = ServingLeases
    BY <2>1 DEF LockFree, LockHolders, ServingLeases
  <2>4. QED
    BY <2>1, <2>2, <2>3 DEF Served
<1>10. QED
  BY <1>1, <1>2, <1>3, <1>4, <1>5, <1>6, <1>7, <1>8, <1>9 DEF Serving

LEMMA OperatorEffect ==
    ASSUME TypeOK, Operators
    PROVE  GivesUp \/ \E r \in Request : Files(r) \/ Aborts(r)
<1> USE DEF requestVars, dataVars, storeVars
<1>t. req \in [Request -> RequestRow] /\ \A r \in Request : req[r] \in RequestRow
  BY DEF TypeOK
<1>0. ASSUME NEW r \in Request, NEW q, req' = [req EXCEPT ![r] = q]
      PROVE  \A s \in Request : req'[s] = IF s = r THEN q ELSE req[s]
  BY <1>0, <1>t
<1>1. ASSUME NEW r \in Request, Submit(r) \/ FreezeInventory(r) \/ Approve(r)
      PROVE  Files(r)
  <2>1. PICK stage \in Stages :
           /\ req' = [req EXCEPT ![r] = [req[r] EXCEPT !.stage = stage]]
           /\ \/ /\ req[r].stage = "none" /\ stage = "submitted" /\ com.state = "active"
                 /\ \A s \in Request : req[s].stage \in {"none", "aborted"}
              \/ req[r].stage = "submitted" /\ stage = "inventoried"
              \/ req[r].stage = "inventoried" /\ stage = "approved"
    BY <1>1, <1>t DEF Submit, FreezeInventory, Approve, Stages
  <2>2. UNCHANGED <<com, chunks, stamped, ex, wr, objects, late, strays, rows, kept>>
    BY <1>1 DEF Submit, FreezeInventory, Approve
  <2> DEFINE q == [req[r] EXCEPT !.stage = stage]
  <2>3. q.stage = stage /\ SameButStage(req[r], q)
    BY <1>t, StageTypes
  <2>4. req' = [req EXCEPT ![r] = q]
    BY <2>1
  <2> HIDE DEF q
  <2>5. QED
    BY <1>0, <2>1, <2>2, <2>3, <2>4 DEF Files
<1>2. ASSUME NEW r \in Request, Abort(r) PROVE Aborts(r)
  <2> DEFINE q == Aborted(req[r], com.gen + 1)
             u == Unleased(req[r])
  <2>1. /\ req[r].stage \in {"approved", "fenced"} /\ LockFree /\ ServingLeases = {}
        /\ req' = [req EXCEPT ![r] = q] /\ com' = Restored(req[r])
        /\ UNCHANGED <<chunks, stamped, ex, wr, objects, late, strays, rows, kept>>
    BY <1>2, <1>t DEF Abort
  <2>2. u \in RequestRow /\ u.frozen = req[r].frozen
    BY <1>t, RowTypes DEF SameSaga
  <2>3. q = [u EXCEPT !.stage = "aborted", !.gen = @ + 1, !.fence = com.gen + 1,
                      !.blocked = FALSE, !.retries = 0, !.retryStage = "none"]
    BY DEF Aborted
  <2> HIDE DEF u
  <2>4. q.stage = "aborted" /\ q.frozen = u.frozen
    BY <2>2, <2>3 DEF RequestRow
  <2> HIDE DEF q
  <2>5. /\ com'.state = "active"
        /\ com'.archived = IF req[r].quiesced THEN req[r].archivedBefore ELSE com.archived
    BY <2>1 DEF Restored
  <2>6. \A s \in Request : req'[s] = IF s = r THEN q ELSE req[s]
    BY <1>0, <2>1
  <2>7. req'[r].stage = "aborted" /\ req'[r].frozen = req[r].frozen
    BY <2>2, <2>4, <2>6
  <2>8. \A s \in Request : s # r => req'[s] = req[s]
    BY <2>6
  <2>9. QED
    BY <2>1, <2>5, <2>7, <2>8 DEF Aborts
<1>3. ASSUME NEW r \in Request, BlockPreclaim(r) PROVE GivesUp
  <2> DEFINE q == [req[r] EXCEPT !.blocked = TRUE]
  <2>1. SameSaga(req[r], q)
    BY <1>t DEF SameSaga, RequestRow
  <2>2. req' = [req EXCEPT ![r] = q] /\ UNCHANGED <<com, chunks, stamped, ex, wr, objects, late, strays, rows, kept>>
    BY <1>3, <1>t DEF BlockPreclaim
  <2> HIDE DEF q
  <2>3. QED
    BY <1>0, <2>1, <2>2, SameSelf DEF GivesUp, Clerical
<1>4. ASSUME NEW r \in Request, Unblock(r) PROVE GivesUp
  <2> DEFINE u == Unleased(req[r])
             q == [u EXCEPT !.blocked = FALSE, !.retries = 0, !.retryStage = "none"]
  <2>1. u \in RequestRow /\ SameSaga(req[r], u)
    BY <1>t, RowTypes
  <2>2. req' = [req EXCEPT ![r] = q] /\ UNCHANGED <<com, chunks, stamped, ex, wr, objects, late, strays, rows, kept>>
    BY <1>4, <1>t DEF Unblock
  <2> HIDE DEF u
  <2>3. SameSaga(req[r], q)
    BY <2>1 DEF RequestRow, SameSaga
  <2> HIDE DEF q
  <2>4. QED
    BY <1>0, <2>2, <2>3, SameSelf DEF GivesUp, Clerical
<1>5. QED
  BY <1>1, <1>2, <1>3, <1>4 DEF Operators

LEMMA ExecutorEffect ==
    ASSUME TypeOK, Exhausted, NEW e \in Executor, Progress(e)
    PROVE  GivesUp \/ ByExecutor(e)
<1>1. CASE \E r \in Request : Claim(e, r)
  BY <1>1, LeaseSteps DEF ByExecutor
<1>2. CASE NextTurn(e) \/ Stale(e) \/ NotDrained(e)
  <2>1. Request # {}
    BY <1>2 DEF NextTurn, Stale, NotDrained, Step, TypeOK, Claims
  <2>2. QED
    BY <1>2, <2>1, LeaseSteps DEF ByExecutor
<1>3. BeginQuiescing(e) => Quiesces(e)
  BY QuiescingStep DEF Quiesces
<1>4. Fence(e) => Fences(e)
  BY FenceStep DEF Fences
<1>5. CheckDrained(e) \/ ClearVerified(e) \/ Clear(e) \/ List(e) \/ Append(e)
         \/ (\E k \in Key : AppendVerified(e, k)) => GivesUp \/ Prepares(e)
  BY PrepareSteps
<1>6. Freeze(e) => GivesUp \/ Freezes(e)
  BY FreezeStep
<1>7. /\ MarkDrained(e) => GivesUp \/ Drains(e)
      /\ MarkBindingsRemoved(e) \/ PurgeCache(e) \/ MarkRetention(e) => Passes(e)
      /\ PurgePostgres(e) => Purges(e)
      /\ MarkVerified(e) => Certifies(e)
  BY EraseSteps DEF Drains, Passes, Purges, Certifies
<1>8. /\ (\E k \in Key : NextChunk(e, k)) => Picks(e)
      /\ DeleteLands(e) => Deletes(e)
      /\ Stamp(e) => GivesUp \/ Stamps(e)
      /\ VerifyPostgres(e) \/ VerifyStorage(e) => GivesUp \/ Looks(e)
  BY StoreSteps DEF Picks, Deletes, Stamps, Looks
<1>9. QED
  BY <1>1, <1>2, <1>3, <1>4, <1>5, <1>6, <1>7, <1>8 DEF Progress, ByExecutor

LEMMA StepEffect == TypeOK /\ Exhausted /\ [Next]_vars => Effect
<1> SUFFICES ASSUME TypeOK, Exhausted, [Next]_vars PROVE Effect
  OBVIOUS
<1>1. CASE Serving
  BY <1>1, ServingEffect DEF Effect
<1>2. CASE Operators
  BY <1>2, OperatorEffect DEF Effect
<1>3. CASE Executors
  <2>1. ASSUME NEW e \in Executor, Progress(e) PROVE Effect
    BY <2>1, ExecutorEffect DEF Effect
  <2>2. ASSUME NEW e \in Executor,
               ExecutorCrash(e) \/ Shutdown(e) \/ StageFails(e)
        PROVE  Effect
    <3>1. Request # {}
      BY <2>2 DEF ExecutorCrash, Shutdown, StageFails, TypeOK, Claims
    <3>2. QED
      BY <2>2, <3>1, LeaseSteps DEF Effect, ByExecutor
  <2>3. ASSUME NEW e \in Executor, NEW r \in Request, ClaimBlocks(e, r) PROVE Effect
    BY <2>3, LeaseSteps DEF Effect, ByExecutor
  <2>4. ASSUME NEW r \in Request, ClaimExpires(r) PROVE Effect
    <3>1. /\ req' = [req EXCEPT ![r] = [req[r] EXCEPT !.live = FALSE]]
          /\ UNCHANGED <<com, chunks, stamped, ex, wr, objects, late, strays, rows, kept>>
      BY <2>4 DEF ClaimExpires, dataVars, TypeOK
    <3>2. req \in [Request -> RequestRow] /\ req[r] \in RequestRow
      BY DEF TypeOK
    <3>3. SameSaga(req[r], [req[r] EXCEPT !.live = FALSE])
      BY <3>2 DEF SameSaga, RequestRow
    <3>4. \A s \in Request : SameSaga(req[s], req'[s])
      BY <3>1, <3>2, <3>3, SameSelf
    <3>5. QED
      BY <3>1, <3>4 DEF GivesUp, Clerical, Effect
  <2>5. QED
    BY <1>3, <2>1, <2>2, <2>3, <2>4 DEF Executors
<1>4. CASE UNCHANGED vars
  BY <1>4, SameSelf DEF vars, Effect, GivesUp, Clerical
<1>5. QED
  BY <1>1, <1>2, <1>3, <1>4 DEF Next

-----------------------------------------------------------------------------
(* The lifecycle of the community and of its request.                      *)

Still ==
    /\ com'.state = com.state /\ com'.gen = com.gen
    /\ \A r \in Request : req'[r].stage = req[r].stage /\ req'[r].fence = req[r].fence

Resting(e) ==
    GivesUp \/ Served \/ Archives \/ Turns(e) \/ Prepares(e) \/ Freezes(e)
        \/ Picks(e) \/ Deletes(e) \/ Stamps(e) \/ Looks(e)

LEMMA RestingStill ==
    ASSUME NEW e \in Executor, Resting(e)
    PROVE  Still
BY DEF Resting, Still, GivesUp, Clerical, SameSaga, Served, Archives, Turns, Prepares, Moves,
       Freezes, Picks, Deletes, Stamps, Looks

LEMMA Alone ==
    ASSUME Lifecycle, NEW r \in Request, req[r].stage \notin {"none", "aborted"}
    PROVE  \A s \in Request : s # r => req[s].stage \in {"none", "aborted"}
<1>1. SUFFICES ASSUME NEW s \in Request, req[s].stage \notin {"none", "aborted"} PROVE s = r
  OBVIOUS
<1>2. {req[r].stage, req[s].stage} \cap {"none", "aborted"} = {}
  BY <1>1
<1>3. QED
  BY <1>2 DEF Lifecycle

(* The other requests are never submitted or aborted: a step of the only    *)
(* open one keeps the lifecycle when it keeps the row in step with it.      *)
LEMMA OnlyOpen ==
    ASSUME NEW r \in Request,
           \A s \in Request : s # r => req'[s] = req[s] /\ req[s].stage \in {"none", "aborted"},
           LET q == req'[r] IN
           /\ q.stage \in {"submitted", "inventoried"} => com'.state = "active"
           /\ q.stage = "approved" => com'.state \in {"active", "quiescing"}
           /\ q.stage \in Fencing => com'.state = "fenced" /\ q.fence = com'.gen
           /\ q.stage \in Purging => com'.state = "tombstone" /\ q.fence = com'.gen
           /\ com'.state # "active" => q.stage \in Runnable \cup {"retention_pending"}
    PROVE  Lifecycle'
<1>1. \A s \in Request : s # r => req'[s].stage \in {"none", "aborted"}
  OBVIOUS
<1>2. ASSUME NEW s \in Request, NEW t \in Request,
             {req'[s].stage, req'[t].stage} \cap {"none", "aborted"} = {}
      PROVE  s = t
  <2>1. req'[s].stage \notin {"none", "aborted"} /\ req'[t].stage \notin {"none", "aborted"}
    BY <1>2
  <2>2. QED
    BY <1>1, <2>1
<1>3. ASSUME NEW s \in Request
      PROVE  /\ req'[s].stage \in {"submitted", "inventoried"} => com'.state = "active"
             /\ req'[s].stage = "approved" => com'.state \in {"active", "quiescing"}
             /\ req'[s].stage \in Fencing => com'.state = "fenced" /\ req'[s].fence = com'.gen
             /\ req'[s].stage \in Purging => com'.state = "tombstone" /\ req'[s].fence = com'.gen
  <2>1. CASE s = r
    BY <2>1
  <2>2. CASE s # r
    BY <1>1, <2>2 DEF Fencing, Purging
  <2>3. QED
    BY <2>1, <2>2
<1>4. com'.state # "active" =>
         \E s \in Request : req'[s].stage \in Runnable \cup {"retention_pending"}
  OBVIOUS
<1>5. QED
  BY <1>2, <1>3, <1>4 DEF Lifecycle

LEMMA LifecycleInit == Init => Lifecycle
<1> SUFFICES ASSUME Init PROVE Lifecycle
  OBVIOUS
<1>1. com.state = "active" /\ \A r \in Request : req[r].stage = "none"
  BY DEF Init, NewRequest
<1>2. \A r, s \in Request : {req[r].stage, req[s].stage} \cap {"none", "aborted"} # {}
  BY <1>1
<1>3. QED
  BY <1>1, <1>2 DEF Lifecycle, Fencing, Purging

LEMMA LifecycleStep ==
    ASSUME Lifecycle, Effect
    PROVE  Lifecycle'
<1>l. \A r \in Request :
         /\ req[r].stage \in {"submitted", "inventoried"} => com.state = "active"
         /\ req[r].stage = "approved" => com.state \in {"active", "quiescing"}
         /\ req[r].stage \in Fencing => com.state = "fenced" /\ req[r].fence = com.gen
         /\ req[r].stage \in Purging => com.state = "tombstone" /\ req[r].fence = com.gen
  BY DEF Lifecycle
<1>1. CASE Still
  BY <1>1 DEF Still, Lifecycle
<1>2. ASSUME NEW r \in Request, Files(r) PROVE Lifecycle'
  <2>1. \A s \in Request : s # r => req'[s] = req[s] /\ req[s].stage \in {"none", "aborted"}
    BY <1>2, Alone DEF Files
  <2>2. com.state = "active" /\ com' = com
    BY <1>2, <1>l DEF Files
  <2>3. req'[r].stage \in {"submitted", "inventoried", "approved"}
    BY <1>2 DEF Files
  <2>4. QED
    BY <2>1, <2>2, <2>3, OnlyOpen DEF Fencing, Purging
<1>3. ASSUME NEW r \in Request, Aborts(r) PROVE Lifecycle'
  <2>1. \A s \in Request : s # r => req'[s] = req[s] /\ req[s].stage \in {"none", "aborted"}
    BY <1>3, Alone DEF Aborts
  <2>2. com'.state = "active" /\ req'[r].stage = "aborted"
    BY <1>3 DEF Aborts
  <2>3. QED
    BY <2>1, <2>2, OnlyOpen DEF Fencing, Purging
<1>4. ASSUME NEW e \in Executor, Quiesces(e) PROVE Lifecycle'
  <2> DEFINE r == ex[e].r
  <2>1. /\ r \in Request /\ req[r].stage = "approved" /\ req'[r].stage = "approved"
        /\ com'.state = "quiescing" /\ \A s \in Request : s # r => req'[s] = req[s]
    BY <1>4 DEF Quiesces
  <2> HIDE DEF r
  <2>2. \A s \in Request : s # r => req'[s] = req[s] /\ req[s].stage \in {"none", "aborted"}
    BY <2>1, Alone
  <2>3. QED
    BY <2>1, <2>2, OnlyOpen DEF Fencing, Purging, Runnable
<1>5. ASSUME NEW e \in Executor, NEW from, NEW to, Advances(e, from, to),
             from \notin {"none", "aborted"}, to \in Fencing \cup Purging,
             req'[ex[e].r].fence = com'.gen,
             com'.state = IF to \in Fencing THEN "fenced" ELSE "tombstone"
      PROVE  Lifecycle'
  <2> DEFINE r == ex[e].r
  <2>1. /\ r \in Request /\ req[r].stage = from /\ req'[r].stage = to
        /\ req'[r].fence = com'.gen
        /\ \A s \in Request : s # r => req'[s] = req[s]
    BY <1>5 DEF Advances
  <2> HIDE DEF r
  <2>2. \A s \in Request : s # r => req'[s] = req[s] /\ req[s].stage \in {"none", "aborted"}
    BY <1>5, <2>1, Alone
  <2>3. QED
    BY <1>5, <2>1, <2>2, OnlyOpen DEF Fencing, Purging, Runnable
<1>6. ASSUME NEW e \in Executor, Fences(e) PROVE Lifecycle'
  BY <1>5, <1>6 DEF Fences, Fencing
<1>7. ASSUME NEW e \in Executor, Drains(e) \/ Passes(e) \/ Certifies(e) PROVE Lifecycle'
  <2>1. PICK from, to :
           /\ Advances(e, from, to)
           /\ \/ from = "fenced" /\ to = "drained"
              \/ from = "drained" /\ to = "bindings_removed"
              \/ from = "postgres_purged" /\ to = "cache_purged"
              \/ from = "logically_verified" /\ to = "retention_pending"
              \/ from = "cache_purged" /\ to = "logically_verified"
    BY <1>7 DEF Drains, Passes, Certifies
  <2>2. com' = com /\ req'[ex[e].r].fence = req[ex[e].r].fence
    BY <1>7 DEF Drains, Passes, Certifies
  <2>3. ex[e].r \in Request /\ req[ex[e].r].stage = from
    BY <2>1 DEF Advances
  <2>4. /\ com.state = IF to \in Fencing THEN "fenced" ELSE "tombstone"
        /\ req[ex[e].r].fence = com.gen
    BY <1>l, <2>1, <2>3 DEF Fencing, Purging
  <2>5. QED
    BY <1>5, <2>1, <2>2, <2>4 DEF Fencing, Purging
<1>8. ASSUME NEW e \in Executor, Purges(e) PROVE Lifecycle'
  <2>1. ex[e].r \in Request /\ req[ex[e].r].stage = "bindings_removed"
    BY <1>8 DEF Purges, Advances
  <2>2. req[ex[e].r].fence = com.gen
    BY <1>l, <2>1 DEF Fencing
  <2>3. QED
    BY <1>5, <1>8, <2>2 DEF Purges, Fencing, Purging
<1>9. GivesUp \/ Served \/ Archives => Still
  BY DEF Still, GivesUp, Clerical, SameSaga, Served, Archives
<1>10. QED
  BY <1>1, <1>2, <1>3, <1>4, <1>6, <1>7, <1>8, <1>9, RestingStill DEF Effect, ByExecutor, Resting

LEMMA FenceBackedFollows == Lifecycle => FenceBacked
BY DEF Lifecycle, FenceBacked, Fencing, Purging, Erasing, Certified

-----------------------------------------------------------------------------
(* The archive flag.                                                       *)

LEMMA ArchivingInit == Init => Archiving
<1> SUFFICES ASSUME Init PROVE Archiving
  OBVIOUS
<1>1. com.archived = kept /\ \A r \in Request : req[r].stage = "none" /\ ~req[r].quiesced
  BY DEF Init, NewRequest
<1>2. "none" \notin Runnable \cup {"retention_pending"}
  BY DEF Runnable
<1>3. QED
  BY <1>1, <1>2 DEF Archiving

LEMMA ArchivingStep ==
    ASSUME Lifecycle, Archiving, Effect
    PROVE  Archiving'
<1> DEFINE OpenStages == Runnable \cup {"retention_pending"}
           Kept(r) ==
             /\ req'[r].stage \in {"none", "submitted", "inventoried"} => ~req'[r].quiesced
             /\ req'[r].stage \in OpenStages =>
                   IF req'[r].quiesced THEN com'.state # "active" /\ req'[r].archivedBefore = kept'
                                       ELSE com'.state = "active"
<1>l. \A r \in Request :
         /\ req[r].stage \in {"submitted", "inventoried"} => com.state = "active"
         /\ req[r].stage = "approved" => com.state \in {"active", "quiescing"}
         /\ req[r].stage \in Fencing => com.state = "fenced"
         /\ req[r].stage \in Purging => com.state = "tombstone"
  BY DEF Lifecycle
<1>a. /\ com.state = "active" => com.archived = kept
      /\ \A r \in Request :
          /\ req[r].stage \in {"none", "submitted", "inventoried"} => ~req[r].quiesced
          /\ req[r].stage \in OpenStages =>
                IF req[r].quiesced THEN com.state # "active" /\ req[r].archivedBefore = kept
                                   ELSE com.state = "active"
  BY DEF Archiving
<1>0. SUFFICES ASSUME TRUE
               PROVE  (com'.state = "active" => com'.archived = kept') /\ \A r \in Request : Kept(r)
  BY DEF Archiving
<1>1. ASSUME UNCHANGED <<com, kept>>,
             \A r \in Request : /\ req'[r].stage = req[r].stage /\ req'[r].quiesced = req[r].quiesced
                                /\ req'[r].archivedBefore = req[r].archivedBefore
      PROVE  (com'.state = "active" => com'.archived = kept') /\ \A r \in Request : Kept(r)
  BY <1>1, <1>a
<1>2. CASE GivesUp \/ Served
  BY <1>1, <1>2 DEF GivesUp, Clerical, SameSaga, Served
<1>3. ASSUME NEW e \in Executor,
             Turns(e) \/ Prepares(e) \/ Freezes(e) \/ Picks(e) \/ Deletes(e) \/ Stamps(e) \/ Looks(e)
      PROVE  (com'.state = "active" => com'.archived = kept') /\ \A r \in Request : Kept(r)
  <2>1. UNCHANGED <<com, kept>>
    BY <1>3 DEF Turns, Clerical, Prepares, Moves, Freezes, Picks, Deletes, Stamps, Looks
  <2>2. \A r \in Request : /\ req'[r].stage = req[r].stage /\ req'[r].quiesced = req[r].quiesced
                           /\ req'[r].archivedBefore = req[r].archivedBefore
    BY <1>3 DEF Turns, Clerical, SameSaga, Prepares, Moves, Freezes, Picks, Deletes, Stamps, Looks
  <2>3. QED
    BY <1>1, <2>1, <2>2
<1>4. CASE Archives
  BY <1>4, <1>a DEF Archives
<1>5. ASSUME NEW r \in Request, Files(r)
      PROVE  (com'.state = "active" => com'.archived = kept') /\ \A s \in Request : Kept(s)
  <2>1. com.state = "active" /\ UNCHANGED <<com, kept>>
    BY <1>5, <1>l DEF Files
  <2>2. Kept(r)
    BY <1>5, <1>a, <2>1 DEF Files, SameButStage
  <2>3. \A s \in Request : s # r => Kept(s)
    BY <1>5, <1>a, <2>1 DEF Files
  <2>4. QED
    BY <1>a, <2>1, <2>2, <2>3
<1>6. ASSUME NEW r \in Request, \A s \in Request : s # r => req'[s] = req[s],
             req[r].stage \notin {"none", "aborted"}
      PROVE  \A s \in Request : s # r => Kept(s)
  <2>1. \A s \in Request : s # r => req'[s] = req[s] /\ req[s].stage \in {"none", "aborted"}
    BY <1>6, Alone
  <2>2. QED
    BY <1>a, <2>1 DEF Runnable
<1>7. ASSUME NEW r \in Request, Aborts(r)
      PROVE  (com'.state = "active" => com'.archived = kept') /\ \A s \in Request : Kept(s)
  <2>1. \A s \in Request : s # r => Kept(s)
    BY <1>6, <1>7 DEF Aborts
  <2>2. com'.archived = kept'
    BY <1>7, <1>a DEF Aborts, Runnable
  <2>3. Kept(r)
    BY <1>7 DEF Aborts, Runnable
  <2>4. QED
    BY <2>1, <2>2, <2>3
<1>8. ASSUME NEW e \in Executor, Quiesces(e)
      PROVE  (com'.state = "active" => com'.archived = kept') /\ \A s \in Request : Kept(s)
  <2>1. \A s \in Request : s # ex[e].r => Kept(s)
    BY <1>6, <1>8 DEF Quiesces
  <2>2. Kept(ex[e].r)
    BY <1>8, <1>a DEF Quiesces, Runnable
  <2>3. com'.state # "active"
    BY <1>8 DEF Quiesces
  <2>4. QED
    BY <2>1, <2>2, <2>3
<1>9. ASSUME NEW e \in Executor, NEW from \in OpenStages, NEW to \in OpenStages, Advances(e, from, to),
             com.state # "active", com'.state # "active", kept' = kept
      PROVE  (com'.state = "active" => com'.archived = kept') /\ \A s \in Request : Kept(s)
  <2>1. from \notin {"none", "aborted"} /\ to \notin {"none", "submitted", "inventoried"}
    BY DEF Runnable
  <2>2. \A s \in Request : s # ex[e].r => Kept(s)
    BY <1>6, <1>9, <2>1 DEF Advances
  <2>3. Kept(ex[e].r)
    BY <1>9, <1>a, <2>1 DEF Advances
  <2>4. QED
    BY <1>9, <2>2, <2>3
<1>10. ASSUME NEW e \in Executor,
              Fences(e) \/ Drains(e) \/ Passes(e) \/ Purges(e) \/ Certifies(e)
       PROVE  (com'.state = "active" => com'.archived = kept') /\ \A s \in Request : Kept(s)
  <2>1. PICK from \in OpenStages, to \in OpenStages :
           Advances(e, from, to) /\ (from = "approved" => com.state = "quiescing")
    BY <1>10 DEF Fences, Drains, Passes, Purges, Certifies, Runnable
  <2>2. com.state # "active"
    <3>1. ex[e].r \in Request /\ req[ex[e].r].stage = from
      BY <2>1 DEF Advances
    <3>2. QED
      BY <1>l, <2>1, <3>1 DEF Runnable, Fencing, Purging
  <2>3. com'.state # "active" /\ kept' = kept
    BY <1>10, <2>2 DEF Fences, Drains, Passes, Purges, Certifies
  <2>4. QED
    BY <1>9, <2>1, <2>2, <2>3
<1>11. QED
  BY <1>2, <1>3, <1>4, <1>5, <1>7, <1>8, <1>10 DEF Effect, ByExecutor

-----------------------------------------------------------------------------
(* Behind the fence.                                                       *)

LEMMA QuietInit == Init => Quiet
BY DEF Init, Quiet

LEMMA SameServing == wr' = wr => LockFree' = LockFree /\ ServingLeases' = ServingLeases
BY DEF LockFree, LockHolders, ServingLeases

LEMMA QuietStep ==
    ASSUME Quiet, Effect, Lifecycle
    PROVE  Quiet'
<1>1. CASE Served
  BY <1>1 DEF Served, Quiet
<1>2. ASSUME wr' = wr, com'.state \in {"fenced", "tombstone"} =>
                           com.state \in {"fenced", "tombstone"} \/ (LockFree /\ ServingLeases = {})
      PROVE  Quiet'
  BY <1>2, SameServing DEF Quiet
<1>3. CASE GivesUp \/ Archives \/ \E r \in Request : Files(r) \/ Aborts(r)
  <2>1. wr' = wr /\ (com'.state = com.state \/ com'.state = "active")
    BY <1>3 DEF GivesUp, Clerical, Archives, Files, Aborts
  <2>2. QED
    BY <1>2, <2>1
<1>4. ASSUME NEW e \in Executor, ByExecutor(e) PROVE Quiet'
  <2>1. CASE Fences(e)
    BY <1>2, <2>1 DEF Fences
  <2>2. CASE Purges(e)
    <3>1. com.state = "fenced" /\ wr' = wr
      BY <2>2 DEF Purges, Advances, Lifecycle, Fencing
    <3>2. QED
      BY <1>2, <3>1
  <2>3. CASE Quiesces(e)
    BY <1>2, <2>3 DEF Quiesces
  <2>4. CASE ~Fences(e) /\ ~Purges(e) /\ ~Quiesces(e)
    <3>1. wr' = wr /\ com' = com
      BY <1>4, <2>4 DEF ByExecutor, Turns, Clerical, Prepares, Moves, Freezes, Drains, Passes,
                        Certifies, Picks, Deletes, Stamps, Looks
    <3>2. QED
      BY <1>2, <3>1
  <2>5. QED
    BY <2>1, <2>2, <2>3, <2>4
<1>5. QED
  BY <1>1, <1>3, <1>4 DEF Effect

-----------------------------------------------------------------------------
(* What an executor saw.                                                   *)

Late == Erasing \cup Certified

LEMMA NoWayBack ==
    ASSUME Effect
    PROVE  \A r \in Request : /\ req[r].stage \in Late => req'[r].stage \in Late
                              /\ req[r].stage \in Certified => req'[r].stage \in Certified
                              /\ req[r].stage = "aborted" => req'[r].stage = "aborted"
                              /\ req[r].frozen => req'[r].frozen
<1> DEFINE Forward(r) ==
             /\ req[r].stage \in Late => req'[r].stage \in Late
             /\ req[r].stage \in Certified => req'[r].stage \in Certified
             /\ req[r].stage = "aborted" => req'[r].stage = "aborted"
             /\ req[r].frozen => req'[r].frozen
<1> SUFFICES ASSUME NEW r \in Request PROVE Forward(r)
  OBVIOUS
<1>1. CASE GivesUp \/ Served \/ Archives
  BY <1>1 DEF GivesUp, Clerical, SameSaga, Served, Archives
<1>2. ASSUME NEW s \in Request, Files(s) \/ Aborts(s) PROVE Forward(r)
  BY <1>2 DEF Files, Aborts, SameButStage, Late, Erasing, Certified
<1>3. ASSUME NEW e \in Executor, ByExecutor(e) PROVE Forward(r)
  <2>1. CASE Turns(e) \/ Prepares(e) \/ Picks(e) \/ Deletes(e) \/ Stamps(e) \/ Looks(e)
    BY <2>1 DEF Turns, Clerical, SameSaga, Prepares, Moves, Picks, Deletes, Stamps, Looks
  <2>2. CASE Quiesces(e) \/ Freezes(e)
    BY <2>2 DEF Quiesces, Freezes, Late, Erasing, Certified
  <2>3. CASE Fences(e) \/ Drains(e) \/ Passes(e) \/ Purges(e) \/ Certifies(e)
    <3>1. PICK from, to : /\ Advances(e, from, to) /\ (from \in Late => to \in Late)
                          /\ from \in Certified => to \in Certified
                          /\ from # "aborted"
      BY <2>3 DEF Fences, Drains, Passes, Purges, Certifies, Late, Erasing, Certified
    <3>2. QED
      BY <3>1 DEF Advances
  <2>4. QED
    BY <1>3, <2>1, <2>2, <2>3 DEF ByExecutor
<1>4. QED
  BY <1>1, <1>2, <1>3 DEF Effect

LEMMA SeenInit == Init => Seen
BY DEF Init, Seen, Idle

LEMMA SeenStep ==
    ASSUME Seen, Effect
    PROVE  Seen'
<1> DEFINE Sees(x) ==
             ex'[x].pc # "idle" =>
                 /\ ex'[x].r \in Request
                 /\ ex'[x].stage \in Late => req'[ex'[x].r].stage \in Late
                 /\ ex'[x].frozen \/ ex'[x].pc = "mark" => req'[ex'[x].r].frozen
<1>s. \A x \in Executor : ex[x].pc # "idle" =>
         /\ ex[x].r \in Request
         /\ ex[x].stage \in Late => req[ex[x].r].stage \in Late
         /\ ex[x].frozen \/ ex[x].pc = "mark" => req[ex[x].r].frozen
  BY DEF Seen, Late
<1>0. SUFFICES ASSUME NEW x \in Executor PROVE Sees(x)
  BY DEF Seen, Late
<1>1. ASSUME ex'[x] = ex[x] \/ ex'[x].pc = "idle" PROVE Sees(x)
  BY <1>1, <1>s, NoWayBack
<1>2. ASSUME ex[x].pc # "idle", ex'[x].r = ex[x].r,
             ex'[x].stage = ex[x].stage \/ ex'[x].stage \notin Late,
             ex'[x].frozen = ex[x].frozen, ex'[x].pc = "mark" => req'[ex[x].r].frozen
      PROVE  Sees(x)
  BY <1>2, <1>s, NoWayBack
<1>3. CASE GivesUp
  <2>1. Idle.pc = "idle"
    BY DEF Idle
  <2>2. QED
    BY <1>1, <1>3, <2>1 DEF GivesUp
<1>4. CASE Served \/ Archives \/ \E r \in Request : Files(r) \/ Aborts(r)
  BY <1>1, <1>4 DEF Served, Archives, Files, Aborts
<1>5. ASSUME NEW e \in Executor, ByExecutor(e) PROVE Sees(x)
  <2>1. CASE x # e
    BY <1>1, <1>5, <2>1 DEF ByExecutor, Turns, Quiesces, Fences, Advances, Prepares, Moves, Freezes,
                            Drains, Passes, Purges, Certifies, Picks, Deletes, Stamps, Looks
  <2>2. CASE x = e /\ Turns(e)
    BY <2>2 DEF Turns, AtTurn
  <2>3. CASE x = e /\ Quiesces(e)
    BY <1>2, <2>3 DEF Quiesces, Late, Erasing, Certified
  <2>4. CASE x = e /\ (Picks(e) \/ Deletes(e) \/ Stamps(e) \/ Looks(e))
    BY <1>2, <2>4 DEF Moves, Picks, Deletes, Stamps, Looks
  <2>5. CASE x = e /\ Prepares(e)
    <3>1. ex[x].frozen => req'[ex[x].r].frozen
      BY <1>s, <2>5 DEF Prepares, Moves
    <3>2. QED
      BY <1>2, <2>5, <3>1 DEF Moves, Prepares
  <2>6. CASE x = e /\ Freezes(e)
    BY <2>6 DEF Freezes, Late, Erasing, Certified
  <2>7. CASE x = e /\ (Fences(e) \/ Drains(e) \/ Passes(e) \/ Purges(e) \/ Certifies(e))
    <3>1. PICK from, to : Advances(e, from, to)
      BY <2>7 DEF Fences, Drains, Passes, Purges, Certifies
    <3>2. CASE ex'[e].pc = "idle"
      BY <1>1, <2>7, <3>2
    <3>3. CASE ex'[e].pc = "loop"
      BY <1>2, <2>7, <3>1, <3>3 DEF Advances
    <3>4. QED
      BY <3>1, <3>2, <3>3 DEF Advances
  <2>8. QED
    BY <1>5, <2>1, <2>2, <2>3, <2>4, <2>5, <2>6, <2>7 DEF ByExecutor
<1>6. QED
  BY <1>3, <1>4, <1>5 DEF Effect

-----------------------------------------------------------------------------
(* The manifest, the stamps and the absence.                               *)

(* Once the fence is up nothing is added. *)
LEMMA NothingAdded ==
    ASSUME Lifecycle, Quiet, Effect, NEW r \in Request, req[r].stage \in Late
    PROVE  Ours' \subseteq Ours /\ rows' \subseteq rows
<1>1. com.state \in {"fenced", "tombstone"}
  BY DEF Lifecycle, Late, Erasing, Certified, Fencing, Purging
<1>2. CASE Served
  BY <1>1, <1>2 DEF Served, Quiet, Open
<1>3. CASE GivesUp \/ Archives \/ \E s \in Request : Files(s) \/ Aborts(s)
  BY <1>3 DEF GivesUp, Clerical, Archives, Files, Aborts
<1>4. ASSUME NEW e \in Executor, ByExecutor(e) PROVE Ours' \subseteq Ours /\ rows' \subseteq rows
  BY <1>4 DEF ByExecutor, Turns, Clerical, Quiesces, Fences, Prepares, Moves, Freezes,
              Drains, Passes, Purges, Certifies, Picks, Deletes, Stamps, Looks
<1>5. QED
  BY <1>2, <1>3, <1>4 DEF Effect

(* The stages a request enters, and what it takes. *)
LEMMA Entering ==
    ASSUME Effect, NEW r \in Request
    PROVE  /\ req'[r].stage \in Late /\ req[r].stage \notin Late =>
                \E e \in Executor : Drains(e) /\ ex[e].r = r /\ req[r].stage = "fenced"
           /\ req'[r].stage \in Certified /\ req[r].stage \notin Certified =>
                \E e \in Executor : Certifies(e) /\ ex[e].r = r
<1> DEFINE Enters ==
             /\ req'[r].stage \in Late /\ req[r].stage \notin Late =>
                  \E e \in Executor : Drains(e) /\ ex[e].r = r /\ req[r].stage = "fenced"
             /\ req'[r].stage \in Certified /\ req[r].stage \notin Certified =>
                  \E e \in Executor : Certifies(e) /\ ex[e].r = r
<1>1. CASE req'[r].stage = req[r].stage
  BY <1>1
<1>2. CASE GivesUp \/ Served \/ Archives
  BY <1>1, <1>2 DEF GivesUp, Clerical, SameSaga, Served, Archives
<1>3. ASSUME NEW s \in Request, Files(s) \/ Aborts(s) PROVE Enters
  BY <1>3, <1>1 DEF Files, Aborts, Late, Erasing, Certified
<1>4. ASSUME NEW e \in Executor, ByExecutor(e) PROVE Enters
  <2>1. CASE Turns(e) \/ Prepares(e) \/ Picks(e) \/ Deletes(e) \/ Stamps(e) \/ Looks(e)
               \/ Quiesces(e) \/ Freezes(e)
    BY <2>1, <1>1 DEF Turns, Clerical, SameSaga, Prepares, Moves, Picks, Deletes, Stamps, Looks,
                      Quiesces, Freezes
  <2>2. CASE Drains(e)
    BY <2>2 DEF Drains, Advances, Certified
  <2>3. CASE Certifies(e)
    BY <2>3 DEF Certifies, Advances, Late, Erasing
  <2>4. CASE Fences(e) \/ Passes(e) \/ Purges(e)
    BY <2>4 DEF Fences, Passes, Purges, Advances, Late, Erasing, Certified
  <2>5. QED
    BY <1>4, <2>1, <2>2, <2>3, <2>4 DEF ByExecutor
<1>5. QED
  BY <1>2, <1>3, <1>4 DEF Effect

(* Who stamps, and what. *)
LEMMA StampsGrow ==
    ASSUME TypeOK, Effect, NEW r \in Request
    PROVE  \/ stamped'[r] \subseteq stamped[r]
           \/ req'[r].stage \in Certified
           \/ \E e \in Executor : /\ ex[e].pc = "deleted" /\ req[r].stage = "drained"
                                  /\ stamped'[r] \subseteq stamped[r] \cup {ex[e].key}
<1> DEFINE Grows ==
             \/ stamped'[r] \subseteq stamped[r]
             \/ req'[r].stage \in Certified
             \/ \E e \in Executor : /\ ex[e].pc = "deleted" /\ req[r].stage = "drained"
                                    /\ stamped'[r] \subseteq stamped[r] \cup {ex[e].key}
<1>1. CASE GivesUp \/ Served \/ Archives \/ \E s \in Request : Files(s) \/ Aborts(s)
  BY <1>1 DEF GivesUp, Clerical, Served, Archives, Files, Aborts
<1>2. ASSUME NEW e \in Executor, ByExecutor(e) PROVE Grows
  <2>1. CASE Stamps(e)
    <3>1. /\ ex[e].pc = "deleted" /\ req[ex[e].r].stage = "drained"
          /\ stamped' = [stamped EXCEPT ![ex[e].r] = @ \cup {ex[e].key}]
      BY <2>1 DEF Stamps
    <3>2. stamped \in [Request -> SUBSET Key]
      BY DEF TypeOK
    <3>3. stamped'[r] = IF r = ex[e].r THEN stamped[r] \cup {ex[e].key} ELSE stamped[r]
      BY <3>1, <3>2
    <3>4. QED
      BY <3>1, <3>3
  <2>2. CASE Certifies(e)
    BY <2>2 DEF Certifies, Advances, Certified
  <2>3. CASE Prepares(e)
    BY <2>3 DEF Prepares
  <2>4. CASE ~Stamps(e) /\ ~Certifies(e) /\ ~Prepares(e)
    BY <1>2, <2>4 DEF ByExecutor, Turns, Clerical, Quiesces, Fences, Freezes, Drains, Passes,
                      Purges, Picks, Deletes, Looks
  <2>5. QED
    BY <2>1, <2>2, <2>3, <2>4
<1>3. QED
  BY <1>1, <1>2 DEF Effect

LEMMA StampingInit == Init => Stamping
<1> SUFFICES ASSUME Init PROVE Stamping
  OBVIOUS
<1>1. /\ \A r \in Request : stamped[r] = {} /\ req[r].stage = "none"
      /\ \A e \in Executor : ex[e].pc = "idle"
  BY DEF Init, NewRequest, Idle
<1>2. QED
  BY <1>1 DEF Stamping, Erasing, Certified

LEMMA StampingStep ==
    ASSUME TypeOK, Lifecycle, Quiet, Seen, Stamping, Effect
    PROVE  Stamping'
<1>1. ASSUME NEW r \in Request
      PROVE  IF req'[r].stage \in Late THEN req'[r].frozen ELSE stamped'[r] = {}
  <2>s. IF req[r].stage \in Late THEN req[r].frozen ELSE stamped[r] = {}
    BY DEF Stamping, Late
  <2>1. CASE req'[r].stage \in Late /\ req[r].stage \in Late
    BY <2>1, <2>s, NoWayBack
  <2>2. CASE req'[r].stage \in Late /\ req[r].stage \notin Late
    <3>1. PICK e \in Executor : Drains(e) /\ ex[e].r = r
      BY <2>2, Entering
    <3>2. req[r].frozen
      BY <3>1 DEF Drains, Seen
    <3>3. QED
      BY <2>2, <3>2, NoWayBack
  <2>3. CASE req'[r].stage \notin Late
    <3>1. req[r].stage \notin Late /\ stamped[r] = {}
      BY <2>3, <2>s, NoWayBack
    <3>2. req'[r].stage \notin Certified /\ req[r].stage # "drained"
      BY <2>3, <3>1 DEF Late, Erasing
    <3>3. QED
      BY <2>3, <3>1, <3>2, StampsGrow
  <2>4. QED
    BY <2>1, <2>2, <2>3
<1> DEFINE Deleted(x) ==
             /\ ex'[x].pc = "deleted" => ex'[x].stage = "drained" /\ ex'[x].key \notin Ours'
             /\ ex'[x].pc = "deleting" => ex'[x].stage = "drained"
<1>2. ASSUME NEW x \in Executor, ex'[x] = ex[x] PROVE Deleted(x)
  <2>1. /\ ex[x].pc = "deleted" => ex[x].stage = "drained" /\ ex[x].key \notin Ours
        /\ ex[x].pc = "deleting" => ex[x].stage = "drained"
    BY DEF Stamping
  <2>2. ASSUME ex[x].pc = "deleted" PROVE ex[x].key \notin Ours'
    <3>1. ex[x].r \in Request /\ req[ex[x].r].stage \in Late
      BY <2>1, <2>2 DEF Seen, Late, Erasing
    <3>2. QED
      BY <2>1, <2>2, <3>1, NothingAdded
  <2>3. QED
    BY <1>2, <2>1, <2>2
<1>3. ASSUME NEW x \in Executor PROVE Deleted(x)
  <2>1. CASE GivesUp
    <3>1. Idle.pc = "idle"
      BY DEF Idle
    <3>2. QED
      BY <1>2, <2>1, <3>1 DEF GivesUp
  <2>2. CASE Served \/ Archives \/ \E r \in Request : Files(r) \/ Aborts(r)
    BY <1>2, <2>2 DEF Served, Archives, Files, Aborts
  <2>3. ASSUME NEW e \in Executor, ByExecutor(e) PROVE Deleted(x)
    <3>1. CASE x # e
      BY <1>2, <2>3, <3>1 DEF ByExecutor, Turns, Quiesces, Fences, Advances, Prepares, Moves,
                Freezes, Drains, Passes, Purges, Certifies, Picks, Deletes, Stamps, Looks
    <3>2. CASE x = e /\ Deletes(e)
      BY <3>2 DEF Deletes, Moves
    <3>3. CASE x = e /\ Picks(e)
      BY <3>3 DEF Picks, Moves
    <3>4. CASE x = e /\ Turns(e)
      <4>1. ex'[e].pc = "run"
        BY <3>4 DEF Turns, AtTurn
      <4>2. QED
        BY <3>4, <4>1
    <3>5. CASE x = e /\ ~Deletes(e) /\ ~Picks(e) /\ ~Turns(e)
      <4>1. ex'[e].pc \notin {"deleting", "deleted"}
        BY <2>3, <3>5 DEF ByExecutor, Quiesces, Fences, Advances, Prepares, Moves,
                Freezes, Drains, Passes, Purges, Certifies, Stamps, Looks
      <4>2. QED
        BY <3>5, <4>1
    <3>6. QED
      BY <3>1, <3>2, <3>3, <3>4, <3>5
  <2>4. QED
    BY <2>1, <2>2, <2>3 DEF Effect
<1>4. QED
  BY <1>1, <1>3 DEF Stamping, Late

(* A frozen list is changed by nobody until the request is certified. *)
LEMMA ListKept ==
    ASSUME Effect, NEW r \in Request, req'[r].frozen, req'[r].stage \notin Certified \cup {"aborted"}
    PROVE  \/ req'[r].manifest = chunks'[r]
           \/ req[r].frozen /\ req'[r].manifest = req[r].manifest /\ chunks'[r] = chunks[r]
<1> DEFINE Kept == \/ req'[r].manifest = chunks'[r]
                   \/ req[r].frozen /\ req'[r].manifest = req[r].manifest /\ chunks'[r] = chunks[r]
<1>0. req[r].stage \notin Certified
  BY NoWayBack
<1>1. CASE GivesUp \/ Served \/ Archives
  BY <1>1 DEF GivesUp, Clerical, SameSaga, Served, Archives
<1>2. ASSUME NEW s \in Request, Files(s) \/ Aborts(s) PROVE Kept
  BY <1>2 DEF Files, Aborts, SameButStage
<1>3. ASSUME NEW e \in Executor, ByExecutor(e) PROVE Kept
  <2>1. CASE Turns(e) \/ Picks(e) \/ Deletes(e) \/ Stamps(e) \/ Looks(e)
    BY <2>1 DEF Turns, Clerical, SameSaga, Moves, Picks, Deletes, Stamps, Looks
  <2>2. CASE Prepares(e)
    BY <1>0, <2>2 DEF Prepares, Moves
  <2>3. CASE Quiesces(e) \/ Freezes(e)
    BY <2>3 DEF Quiesces, Freezes
  <2>4. CASE Fences(e) \/ Drains(e) \/ Passes(e) \/ Purges(e)
    BY <2>4 DEF Fences, Drains, Passes, Purges, Advances
  <2>5. CASE Certifies(e)
    BY <2>5 DEF Certifies, Advances, Certified
  <2>6. QED
    BY <1>3, <2>1, <2>2, <2>3, <2>4, <2>5 DEF ByExecutor
<1>4. QED
  BY <1>1, <1>2, <1>3 DEF Effect

LEMMA ManifestStep ==
    ASSUME TypeOK, Lifecycle, Quiet, Stamping, ManifestExact, Effect, Stamping'
    PROVE  ManifestExact'
<1> SUFFICES ASSUME NEW r \in Request, req'[r].frozen,
                    req'[r].stage \notin Certified \cup {"aborted"}
             PROVE  chunks'[r] = req'[r].manifest /\ stamped'[r] \cap Ours' = {}
  BY DEF ManifestExact
<1>0. req[r].stage \notin Certified \cup {"aborted"}
  BY NoWayBack
<1>m. req[r].frozen => chunks[r] = req[r].manifest /\ stamped[r] \cap Ours = {}
  BY <1>0 DEF ManifestExact
<1>1. chunks'[r] = req'[r].manifest
  BY <1>m, ListKept
<1>2. CASE req'[r].stage \notin Late
  <2>1. stamped'[r] = {}
    BY <1>2 DEF Stamping, Late
  <2>2. QED
    BY <1>1, <2>1
<1>3. CASE req[r].stage \in Late
  <2>1. Ours' \subseteq Ours
    BY <1>3, NothingAdded
  <2>2. req[r].frozen
    BY <1>3 DEF Stamping, Late
  <2>3. \A e \in Executor : ex[e].pc = "deleted" => ex[e].key \notin Ours
    BY DEF Stamping
  <2>4. QED
    BY <1>1, <1>m, <2>1, <2>2, <2>3, StampsGrow
<1>4. CASE req'[r].stage \in Late /\ req[r].stage \notin Late
  <2>1. stamped[r] = {}
    BY <1>4 DEF Stamping, Late
  <2>2. stamped' = stamped
    BY <1>4, Entering DEF Drains
  <2>3. QED
    BY <1>1, <2>1, <2>2
<1>5. QED
  BY <1>2, <1>3, <1>4

LEMMA AbsentInit == Init => Absent
<1> SUFFICES ASSUME Init PROVE Absent
  OBVIOUS
<1>1. rows = {} /\ Ours = {} /\ \A e \in Executor : ex[e].pc = "idle"
  BY DEF Init, Idle
<1>2. QED
  BY <1>1 DEF Absent

LEMMA AbsentStep ==
    ASSUME Lifecycle, Quiet, Seen, Absent, Effect
    PROVE  Absent'
<1>1. ASSUME NEW r \in Request, req'[r].stage \in Certified
      PROVE  rows' = {} /\ Ours' = {}
  <2>1. CASE req[r].stage \in Certified
    <3>1. rows = {} /\ Ours = {} /\ req[r].stage \in Late
      BY <2>1 DEF Absent, Late
    <3>2. QED
      BY <3>1, NothingAdded
  <2>2. CASE req[r].stage \notin Certified
    <3>1. PICK e \in Executor : Certifies(e)
      BY <1>1, <2>2, Entering
    <3>2. QED
      BY <3>1 DEF Certifies, Absent
  <2>3. QED
    BY <2>1, <2>2
<1> DEFINE Saw(x) ==
             /\ ex'[x].pc \in {"absence", "verified"} => ex'[x].stage = "cache_purged" /\ rows' = {}
             /\ ex'[x].pc = "verified" => Ours' = {}
<1>2. ASSUME NEW x \in Executor, ex'[x] = ex[x] PROVE Saw(x)
  <2>1. ASSUME ex[x].pc \in {"absence", "verified"} PROVE Saw(x)
    <3>1. ex[x].stage = "cache_purged" /\ rows = {} /\ (ex[x].pc = "verified" => Ours = {})
      BY <2>1 DEF Absent
    <3>2. ex[x].r \in Request /\ req[ex[x].r].stage \in Late
      BY <2>1, <3>1 DEF Seen, Late, Erasing
    <3>3. QED
      BY <1>2, <3>1, <3>2, NothingAdded
  <2>2. QED
    BY <1>2, <2>1
<1>3. ASSUME NEW x \in Executor PROVE Saw(x)
  <2>1. CASE GivesUp
    <3>1. Idle.pc = "idle"
      BY DEF Idle
    <3>2. QED
      BY <1>2, <2>1, <3>1 DEF GivesUp
  <2>2. CASE Served \/ Archives \/ \E r \in Request : Files(r) \/ Aborts(r)
    BY <1>2, <2>2 DEF Served, Archives, Files, Aborts
  <2>3. ASSUME NEW e \in Executor, ByExecutor(e) PROVE Saw(x)
    <3>1. CASE x # e
      BY <1>2, <2>3, <3>1 DEF ByExecutor, Turns, Quiesces, Fences, Advances, Prepares, Moves,
                Freezes, Drains, Passes, Purges, Certifies, Picks, Deletes, Stamps, Looks
    <3>2. CASE x = e /\ Looks(e)
      <4>1. ex[e].pc = "absence" => rows = {}
        BY DEF Absent
      <4>2. QED
        BY <3>2, <4>1 DEF Looks, Moves
    <3>3. CASE x = e /\ Turns(e)
      <4>1. ex'[e].pc = "run"
        BY <3>3 DEF Turns, AtTurn
      <4>2. QED
        BY <3>3, <4>1
    <3>4. CASE x = e /\ ~Looks(e) /\ ~Turns(e)
      <4>1. ex'[e].pc \notin {"absence", "verified"}
        BY <2>3, <3>4 DEF ByExecutor, Quiesces, Fences, Advances, Prepares, Moves,
                Freezes, Drains, Passes, Purges, Certifies, Picks, Deletes, Stamps
      <4>2. QED
        BY <3>4, <4>1
    <3>5. QED
      BY <3>1, <3>2, <3>3, <3>4
  <2>4. QED
    BY <2>1, <2>2, <2>3 DEF Effect
<1>4. QED
  BY <1>1, <1>3 DEF Absent

-----------------------------------------------------------------------------
(* The theorems.                                                           *)

Inductive ==
    /\ TypeOK /\ Exhausted
    /\ Lifecycle /\ Archiving /\ Quiet /\ Seen
    /\ Stamping /\ ManifestExact /\ Absent

LEMMA InductiveInit == Init => Inductive
<1> SUFFICES ASSUME Init PROVE Inductive
  OBVIOUS
<1>1. /\ \A r \in Request : req[r].retries = 0 /\ ~req[r].frozen
      /\ 0 # MaxRetries
  BY DeletionAssumption DEF Init, NewRequest
<1>2. Exhausted /\ ManifestExact
  BY <1>1 DEF Exhausted, ManifestExact
<1>3. QED
  BY <1>2, TypeInit, LifecycleInit, ArchivingInit, QuietInit, SeenInit, StampingInit, AbsentInit
     DEF Inductive

LEMMA InductiveStep == Inductive /\ [Next]_vars => Inductive'
<1> SUFFICES ASSUME Inductive, [Next]_vars PROVE Inductive'
  OBVIOUS
<1> USE DEF Inductive
<1>1. TypeOK' /\ Exhausted'
  BY TypeStep
<1>2. Effect
  BY StepEffect
<1>3. Lifecycle' /\ Archiving' /\ Quiet' /\ Seen'
  BY <1>2, LifecycleStep, ArchivingStep, QuietStep, SeenStep
<1>4. Stamping'
  BY <1>2, StampingStep
<1>5. ManifestExact' /\ Absent'
  BY <1>2, <1>4, ManifestStep, AbsentStep
<1>6. QED
  BY <1>1, <1>3, <1>4, <1>5

LEMMA InductiveAlways == Spec => []Inductive
<1>1. QED
  BY InductiveInit, InductiveStep, PTL DEF Spec

(* Every variable of the saga keeps its type, and the failures of a stage   *)
(* are counted no further than the number that blocks the request           *)
(* (record_retry), for any number of requests, executors and keys.          *)
THEOREM DeletionTypes == Spec => []TypeOK
<1>1. Inductive => TypeOK
  BY DEF Inductive
<1>2. QED
  BY <1>1, InductiveAlways, PTL

(* The community's row and the request agree on the lifecycle: a request    *)
(* past the fence carries the community's fence generation, and a community *)
(* is closed only on behalf of a request that has not been aborted, however *)
(* claims are lost and taken over (fence, abort, purge_postgres).           *)
THEOREM RowsAgree == Spec => []FenceBacked
<1>1. Inductive => FenceBacked
  BY FenceBackedFollows DEF Inductive
<1>2. QED
  BY <1>1, InductiveAlways, PTL

(* An active community is archived exactly when its owner archived it: an   *)
(* abort gives back the flag that begin_quiescing recorded, however often   *)
(* quiescing was repeated.                                                  *)
THEOREM OwnerFlagSurvives == Spec => []ArchiveRestored
<1>1. Inductive => ArchiveRestored
  BY DEF Inductive, Archiving, ArchiveRestored
<1>2. QED
  BY <1>1, InductiveAlways, PTL

(* From the freeze of the manifest to logical verification, the key chunks  *)
(* are the manifest and no stamped key is in the object store but through a *)
(* late PUT, although clear_manifest_key_chunks and                         *)
(* append_manifest_key_chunk write without holding what they verified.      *)
THEOREM ManifestHolds == Spec => []ManifestExact
<1>1. Inductive => ManifestExact
  BY DEF Inductive
<1>2. QED
  BY <1>1, InductiveAlways, PTL

-----------------------------------------------------------------------------
(* The saga implements TenantErasure.                                      *)

PhaseFrom(stage, state) ==
    IF stage \in Certified THEN "erased"
    ELSE IF stage \in Erasing THEN "erasing"
    ELSE IF state = "fenced" THEN "closed"
    ELSE "serving"

LEMMA PhaseNow ==
    ASSUME NEW r \in Request, Lifecycle, req[r].stage \notin {"none", "aborted"}
    PROVE  Phase = PhaseFrom(req[r].stage, com.state)
<1>1. \A s \in Request : s # r => req[s].stage \in {"none", "aborted"}
  BY Alone
<1>2. \A s \in Request : s # r => req[s].stage \notin Certified /\ req[s].stage \notin Erasing
  BY <1>1 DEF Certified, Erasing
<1>3. QED
  BY <1>2 DEF Phase, PhaseFrom

LEMMA PhaseNext ==
    ASSUME NEW r \in Request, Lifecycle, req[r].stage \notin {"none", "aborted"},
           \A s \in Request : s # r => req'[s] = req[s]
    PROVE  Phase' = PhaseFrom(req'[r].stage, com'.state)
<1>1. \A s \in Request : s # r => req[s].stage \in {"none", "aborted"}
  BY Alone
<1>2. \A s \in Request : s # r => req'[s].stage \notin Certified /\ req'[s].stage \notin Erasing
  BY <1>1 DEF Certified, Erasing
<1>3. QED
  BY <1>2 DEF Phase, PhaseFrom

LEMMA PhaseStill == Still => Phase' = Phase
BY DEF Still, Phase

LEMMA ServingPhase ==
    ASSUME Lifecycle, com.state \notin {"fenced", "tombstone"}
    PROVE  Phase = "serving"
<1>1. \A r \in Request : req[r].stage \notin Certified /\ req[r].stage \notin Erasing
  BY DEF Lifecycle, Fencing, Purging, Certified, Erasing
<1>2. QED
  BY <1>1 DEF Phase

LEMMA ErasureInit == Init => Tenant!TenantInit
<1> SUFFICES ASSUME Init PROVE Tenant!TenantInit
  OBVIOUS
<1>1. com.state = "active"
  BY DEF Init
<1>2. Phase = "serving"
  BY <1>1, LifecycleInit, ServingPhase
<1>3. QED
  BY <1>2 DEF Init, Tenant!TenantInit

LEMMA ErasureStep == Inductive /\ [Next]_vars => [Tenant!TenantNext]_(Tenant!tenantVars)
<1> SUFFICES ASSUME Inductive, [Next]_vars
             PROVE  Tenant!TenantNext \/ UNCHANGED <<Phase, Ours, rows>>
  BY DEF Tenant!tenantVars
<1> DEFINE Goal == Tenant!TenantNext \/ UNCHANGED <<Phase, Ours, rows>>
<1>i. /\ Lifecycle /\ Quiet /\ Seen /\ Absent
      /\ Effect
  BY StepEffect DEF Inductive
<1>1. CASE Served
  <2>1. Phase' = Phase
    BY <1>1, PhaseStill DEF Served, Still
  <2>2. CASE com.state \in {"fenced", "tombstone"}
    BY <1>1, <1>i, <2>1, <2>2 DEF Served, Quiet, Open
  <2>3. CASE com.state \notin {"fenced", "tombstone"}
    <3>1. Phase = "serving"
      BY <1>i, <2>3, ServingPhase
    <3>2. QED
      BY <1>1, <2>1, <3>1 DEF Served, Tenant!TenantNext, Tenant!Serve
  <2>4. QED
    BY <2>2, <2>3
<1>2. CASE GivesUp \/ Archives
  <2>1. Still
    BY <1>2 DEF Still, GivesUp, Clerical, SameSaga, Archives
  <2>2. UNCHANGED <<Ours, rows>>
    BY <1>2 DEF GivesUp, Clerical, Archives
  <2>3. QED
    BY <2>1, <2>2, PhaseStill
<1>3. ASSUME NEW r \in Request, Files(r) PROVE Goal
  <2>1. com.state = "active" /\ UNCHANGED <<com, Ours, rows>>
    BY <1>3, <1>i DEF Files, Lifecycle
  <2>2. Phase = "serving"
    BY <1>i, <2>1, ServingPhase
  <2>3. \A s \in Request : req[s].stage \notin Certified /\ req[s].stage \notin Erasing
    BY <1>i, <2>1 DEF Lifecycle, Fencing, Purging, Certified, Erasing
  <2>4. \A s \in Request : req'[s].stage \notin Certified /\ req'[s].stage \notin Erasing
    BY <1>3, <2>3 DEF Files, Certified, Erasing
  <2>5. Phase' = "serving"
    BY <2>1, <2>4 DEF Phase
  <2>6. QED
    BY <2>1, <2>2, <2>5
<1>4. ASSUME NEW r \in Request, Aborts(r) PROVE Goal
  <2>1. /\ Phase = PhaseFrom(req[r].stage, com.state)
        /\ Phase' = PhaseFrom(req'[r].stage, com'.state)
    BY <1>4, <1>i, PhaseNow, PhaseNext DEF Aborts
  <2>2. Phase \in {"serving", "closed"} /\ Phase' = "serving"
    BY <1>4, <2>1 DEF Aborts, PhaseFrom, Certified, Erasing
  <2>3. UNCHANGED <<Ours, rows>>
    BY <1>4 DEF Aborts
  <2>4. QED
    BY <2>2, <2>3 DEF Tenant!TenantNext, Tenant!Reopen
<1>5. ASSUME NEW e \in Executor, Quiesces(e) PROVE Goal
  <2>1. /\ Phase = PhaseFrom(req[ex[e].r].stage, com.state)
        /\ Phase' = PhaseFrom(req'[ex[e].r].stage, com'.state)
    BY <1>5, <1>i, PhaseNow, PhaseNext DEF Quiesces
  <2>2. Phase = "serving" /\ Phase' = "serving"
    BY <1>5, <2>1 DEF Quiesces, PhaseFrom, Certified, Erasing
  <2>3. QED
    BY <1>5, <2>2 DEF Quiesces
<1>6. ASSUME NEW e \in Executor, NEW from, NEW to, Advances(e, from, to),
             from \notin {"none", "aborted"}
      PROVE  Phase = PhaseFrom(from, com.state) /\ Phase' = PhaseFrom(to, com'.state)
  BY <1>6, <1>i, PhaseNow, PhaseNext DEF Advances
<1>7. ASSUME NEW e \in Executor, Fences(e) PROVE Goal
  <2>1. Phase = "serving" /\ Phase' = "closed"
    BY <1>6, <1>7 DEF Fences, PhaseFrom, Certified, Erasing
  <2>2. QED
    BY <1>7, <2>1 DEF Fences, Tenant!TenantNext, Tenant!Close
<1>8. ASSUME NEW e \in Executor, Drains(e) PROVE Goal
  <2>1. com.state = "fenced"
    BY <1>8, <1>i DEF Drains, Advances, Lifecycle, Fencing
  <2>2. Phase = "closed" /\ Phase' = "erasing"
    BY <1>6, <1>8, <2>1 DEF Drains, PhaseFrom, Certified, Erasing
  <2>3. QED
    BY <1>8, <2>2 DEF Drains, Tenant!TenantNext, Tenant!BeginErasure
<1>9. ASSUME NEW e \in Executor, Passes(e) PROVE Goal
  <2>1. Phase' = Phase
    BY <1>6, <1>9 DEF Passes, PhaseFrom, Certified, Erasing
  <2>2. QED
    BY <1>9, <2>1 DEF Passes
<1>10. ASSUME NEW e \in Executor, Purges(e) PROVE Goal
  <2>1. Phase = "erasing" /\ Phase' = "erasing"
    BY <1>6, <1>10 DEF Purges, PhaseFrom, Certified, Erasing
  <2>2. QED
    BY <1>10, <2>1 DEF Purges, Tenant!TenantNext, Tenant!Erase
<1>11. ASSUME NEW e \in Executor, Certifies(e) PROVE Goal
  <2>1. Phase = "erasing" /\ Phase' = "erased"
    BY <1>6, <1>11 DEF Certifies, PhaseFrom, Certified, Erasing
  <2>2. rows = {} /\ Ours = {}
    BY <1>11, <1>i DEF Certifies, Absent
  <2>3. QED
    BY <1>11, <2>1, <2>2 DEF Certifies, Tenant!TenantNext, Tenant!Certify
<1>12. ASSUME NEW e \in Executor, Deletes(e) PROVE Goal
  <2> DEFINE r == ex[e].r
  <2>1. r \in Request /\ req[r].stage \in Late
    BY <1>12, <1>i DEF Deletes, Moves, Seen, Late, Erasing
  <2>2. Phase = PhaseFrom(req[r].stage, com.state)
    BY <1>i, <2>1, PhaseNow DEF Late, Erasing, Certified
  <2>3. Phase' = Phase
    BY <1>12, PhaseStill, RestingStill DEF Resting
  <2>4. CASE req[r].stage \in Certified
    BY <1>12, <1>i, <2>1, <2>3, <2>4 DEF Absent, Deletes, Moves
  <2>5. CASE req[r].stage \notin Certified
    <3>1. Phase = "erasing"
      BY <2>1, <2>2, <2>5 DEF PhaseFrom, Late
    <3>2. QED
      BY <1>12, <2>3, <3>1 DEF Deletes, Moves, Tenant!TenantNext, Tenant!Erase
  <2>6. QED
    BY <2>4, <2>5
<1>13. ASSUME NEW e \in Executor,
              Turns(e) \/ Prepares(e) \/ Freezes(e) \/ Picks(e) \/ Stamps(e) \/ Looks(e)
       PROVE  Goal
  <2>1. Phase' = Phase
    BY <1>13, PhaseStill, RestingStill DEF Resting
  <2>2. UNCHANGED <<Ours, rows>>
    BY <1>13 DEF Turns, Clerical, Prepares, Moves, Freezes, Picks, Stamps, Looks
  <2>3. QED
    BY <2>1, <2>2
<1>14. QED
  BY <1>i, <1>1, <1>2, <1>3, <1>4, <1>5, <1>7, <1>8, <1>9, <1>10, <1>11, <1>12, <1>13
     DEF Effect, ByExecutor

(* Deletion keeps the promise of TenantErasure, step by step: nothing is    *)
(* written behind the fence or destroyed before the drain, an abort reopens *)
(* the tenant with all it had, and mark_logically_verified is reached only  *)
(* when object store and database hold nothing of the tenant, but for the   *)
(* PUTs the store applies after their sender lost or gave back its lease.   *)
THEOREM ErasureRefinement == Spec => Erasure
<1>1. QED
  BY InductiveAlways, ErasureInit, ErasureStep, PTL DEF Spec, Erasure, Tenant!TenantSpec

=============================================================================
