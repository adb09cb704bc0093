------------------------------ MODULE Deletion ------------------------------
(***************************************************************************)
(* Deleting a whole community (buzz-deletion/src/lib.rs over               *)
(* buzz-db/src/deletion.rs and the triggers of migrations 0029 and 0030):  *)
(* a request that operators submit, approve, abort and unblock; executors  *)
(* that claim it under an expiring lease and carry it through its stages;  *)
(* and the serving path, whose external effects hold a durable lease of    *)
(* their own and whose database writes hold the community's advisory lock. *)
(*                                                                         *)
(* One community is modelled: every statement is scoped by its id.  A      *)
(* transaction is one action, unless it reads under no lock what it later  *)
(* relies on (the manifest chunks), or holds the advisory lock while       *)
(* others run (the serving writes).  Time only passes: a lease that is not *)
(* renewed expires, and next_attempt_at is reached.  A manifest chunk      *)
(* holds one key.                                                          *)
(***************************************************************************)
EXTENDS Naturals, FiniteSets

CONSTANTS
    Request,      \* deletion requests, in the order they may be submitted
    Executor,     \* processes that run deletions
    Writer,       \* requests being served, each with at most one lease
    Key,          \* what the tenant stores: an object and a row per key
    NoExecutor, NoRequest, NoKey,
    MaxRetries,   \* failures of one stage in a row that block a request
    MaxUpsets     \* crashes, stalls, failures and operator interventions

ASSUME DeletionAssumption ==
    /\ NoExecutor \notin Executor
    /\ NoRequest \notin Request
    /\ NoKey \notin Key
    /\ MaxRetries \in Nat \ {0}
    /\ MaxUpsets \in Nat

VARIABLES
    com,      \* the community row
    req,      \* the request rows
    chunks,   \* community_deletion_manifest_keys: the keys listed
    stamped,  \* ... and those stamped deleted_at
    ex,       \* the executors: the claim each holds and where it is
    wr,       \* the serving writes and their lease rows
    objects,  \* the tenant's keys in the object store
    late,     \* keys whose PUT is on its way though its sender gave up
    strays,   \* history: keys a PUT without a lease put behind the fence
    rows,     \* the tenant's rows in the database
    kept,     \* whether the owner keeps the community archived
    upsets    \* how many upsets have happened

vars == <<com, req, chunks, stamped, ex, wr, objects, late, strays, rows, kept, upsets>>

requestVars == <<req, chunks, stamped>>
storeVars == <<objects, late, strays>>
dataVars == <<objects, late, strays, rows>>

Stages == {"none", "submitted", "inventoried", "approved", "fenced", "drained",
           "bindings_removed", "postgres_purged", "cache_purged",
           "logically_verified", "retention_pending", "aborted"}

Runnable == {"approved", "fenced", "drained", "bindings_removed",
             "postgres_purged", "cache_purged", "logically_verified"}

Erasing == {"drained", "bindings_removed", "postgres_purged", "cache_purged"}

Certified == {"logically_verified", "retention_pending"}

NewRequest ==
    [stage |-> "none", owner |-> NoExecutor, gen |-> 0, live |-> FALSE,
     blocked |-> FALSE, retries |-> 0, retryStage |-> "none", fence |-> 0,
     quiesced |-> FALSE, archivedBefore |-> FALSE, frozen |-> FALSE,
     manifest |-> {}]

Idle ==
    [pc |-> "idle", r |-> NoRequest, gen |-> 0, stage |-> "none", fence |-> 0,
     frozen |-> FALSE, listing |-> {}, todo |-> {}, key |-> NoKey]

NoWrite == [pc |-> "idle", key |-> NoKey, lease |-> "none", fence |-> 0]

Init ==
    /\ com = [state |-> "active", gen |-> 0, archived |-> FALSE]
    /\ req = [r \in Request |-> NewRequest]
    /\ chunks = [r \in Request |-> {}]
    /\ stamped = [r \in Request |-> {}]
    /\ ex = [e \in Executor |-> Idle]
    /\ wr = [w \in Writer |-> NoWrite]
    /\ objects = {} /\ late = {} /\ strays = {}
    /\ rows = {}
    /\ kept = FALSE
    /\ upsets = 0

Upset == upsets < MaxUpsets /\ upsets' = upsets + 1

-----------------------------------------------------------------------------
(* The serving path: database writes and leased external effects.          *)

(* Serving transactions that hold the community's advisory lock, shared.    *)
LockHolders == {w \in Writer : wr[w].pc \in {"tx", "finaltx"}}

LockFree == LockHolders = {}

(* Leases that fence, mark_drained and abort count: not expired.            *)
ServingLeases == {w \in Writer : wr[w].lease = "live"}

Open == com.state \in {"active", "quiescing"}

(* verify_serving_write_lease, and the same test in every guarded write.    *)
LeaseValid(w) ==
    /\ wr[w].lease = "live"
    /\ wr[w].fence = com.gen
    /\ Open

(* A write outside any lease: the trigger takes the shared lock and admits  *)
(* the row while the community is active.                                   *)
BeginWrite(w, k) ==
    /\ wr[w] = NoWrite
    /\ com.state = "active"
    /\ wr' = [wr EXCEPT ![w].pc = "tx", ![w].key = k]
    /\ UNCHANGED <<com, requestVars, ex, dataVars, kept, upsets>>

CommitWrite(w) ==
    /\ wr[w].pc \in {"tx", "finaltx"}
    /\ rows' = rows \cup {wr[w].key}
    /\ wr' = [wr EXCEPT ![w].pc = IF @ = "tx" THEN "end" ELSE "finish"]
    /\ UNCHANGED <<com, requestVars, ex, storeVars, kept, upsets>>

(* acquire_serving_write: admission and the lease row are one transaction.  *)
Acquire(w, k) ==
    /\ wr[w] = NoWrite
    /\ com.state = "active"
    /\ wr' = [wr EXCEPT ![w] =
                 [pc |-> "admitted", key |-> k, lease |-> "live", fence |-> com.gen]]
    /\ UNCHANGED <<com, requestVars, ex, dataVars, kept, upsets>>

(* ServingWriteGuard::verify, before the effect and again after it; a lease *)
(* that is gone drops the guard.                                            *)
Verify(w) ==
    /\ wr[w].pc \in {"admitted", "landed"}
    /\ \E next \in IF wr[w].pc = "admitted" THEN {"effect"} ELSE {"final", "finish"} :
          wr' = [wr EXCEPT ![w].pc = IF LeaseValid(w) THEN next ELSE "finish"]
    /\ UNCHANGED <<com, requestVars, ex, dataVars, kept, upsets>>

(* The store applies a PUT, whatever has become of its sender and its lease. *)
Puts(k, leased) ==
    /\ objects' = objects \cup {k}
    /\ strays' = IF leased \/ Open THEN strays \ {k} ELSE strays \cup ({k} \ objects)

(* The external effect: nothing but the lease stands between it and a fence. *)
EffectLands(w) ==
    /\ wr[w].pc = "effect"
    /\ Puts(wr[w].key, wr[w].lease = "live")
    /\ wr' = [wr EXCEPT ![w].pc = "landed"]
    /\ UNCHANGED <<com, requestVars, ex, late, rows, kept, upsets>>

(* A sender that gives up its effect has sent it all the same. *)
Abandons(w) ==
    /\ late' = IF wr[w].pc = "effect" THEN late \cup {wr[w].key} ELSE late
    /\ UNCHANGED <<objects, strays, rows>>

LandsLate(k) ==
    /\ k \in late
    /\ late' = late \ {k}
    /\ Puts(k, FALSE)
    /\ UNCHANGED <<com, requestVars, ex, wr, rows, kept, upsets>>

(* protect: the heartbeat found the lease gone, the operation is dropped.   *)
LeaseLost(w) ==
    /\ wr[w].pc = "effect"
    /\ ~LeaseValid(w)
    /\ Abandons(w)
    /\ wr' = [wr EXCEPT ![w].pc = "finish"]
    /\ UNCHANGED <<com, requestVars, ex, kept, upsets>>

(* The request is dropped with its guard, which releases the lease row      *)
(* (ServingWriteGuard::drop).                                               *)
GuardDropped(w) ==
    /\ Upset
    /\ wr[w].pc \in {"admitted", "effect", "landed", "final"}
    /\ Abandons(w)
    /\ wr' = [wr EXCEPT ![w].pc = "finish"]
    /\ UNCHANGED <<com, requestVars, ex, kept>>

(* guard_transaction_with_serving_lease: lock, then the lease.              *)
BeginFinal(w) ==
    /\ wr[w].pc = "final"
    /\ wr' = [wr EXCEPT ![w].pc = IF LeaseValid(w) THEN "finaltx" ELSE "finish"]
    /\ UNCHANGED <<com, requestVars, ex, dataVars, kept, upsets>>

(* finish, and the release a dropped guard spawns.                          *)
Release(w) ==
    /\ wr[w].pc \in {"finish", "end"}
    /\ wr' = [wr EXCEPT ![w] = NoWrite]
    /\ UNCHANGED <<com, requestVars, ex, dataVars, kept, upsets>>

(* The serving process dies: an open transaction is rolled back, an effect  *)
(* under way may still land, and the lease row stays until it expires.      *)
WriterCrash(w) ==
    /\ Upset
    /\ wr[w].pc \notin {"idle", "dead"}
    /\ Abandons(w)
    /\ wr' = [wr EXCEPT ![w].pc = "dead", ![w].key = NoKey]
    /\ UNCHANGED <<com, requestVars, ex, kept>>

(* Renewal stopped (a dead process), or stalled for the lease's duration.   *)
LeaseExpires(w) ==
    /\ wr[w].lease = "live"
    /\ IF wr[w].pc = "dead" THEN UNCHANGED upsets ELSE Upset
    /\ wr' = [wr EXCEPT ![w].lease = "expired"]
    /\ UNCHANGED <<com, requestVars, ex, dataVars, kept>>

(* reap_expired_serving_write_leases, and a dead process replaced.          *)
Reap(w) ==
    /\ wr[w].pc = "dead"
    /\ wr[w].lease # "live"
    /\ wr' = [wr EXCEPT ![w] = NoWrite]
    /\ UNCHANGED <<com, requestVars, ex, dataVars, kept, upsets>>

(* archive_community_owned_by, unarchive_community_owned_by.                *)
OwnerArchives ==
    /\ com.state = "active"
    /\ kept' = ~com.archived
    /\ com' = [com EXCEPT !.archived = ~@]
    /\ UNCHANGED <<requestVars, ex, wr, dataVars, upsets>>

Serving ==
    \/ \E w \in Writer, k \in Key : BeginWrite(w, k) \/ Acquire(w, k)
    \/ \E w \in Writer :
          \/ CommitWrite(w) \/ Verify(w) \/ EffectLands(w) \/ LeaseLost(w)
          \/ BeginFinal(w) \/ Release(w) \/ WriterCrash(w) \/ LeaseExpires(w)
          \/ Reap(w) \/ GuardDropped(w)
    \/ \E k \in Key : LandsLate(k)
    \/ OwnerArchives

-----------------------------------------------------------------------------
(* Operators.                                                               *)

(* One request that is not aborted per community, and only while it is      *)
(* active; asking again returns the request there is.                       *)
Submit(r) ==
    /\ req[r].stage = "none"
    /\ com.state = "active"
    /\ \A s \in Request : req[s].stage \in {"none", "aborted"}
    /\ req' = [req EXCEPT ![r].stage = "submitted"]
    /\ UNCHANGED <<com, chunks, stamped, ex, wr, dataVars, kept, upsets>>

FreezeInventory(r) ==
    /\ req[r].stage = "submitted"
    /\ ~req[r].blocked
    /\ req' = [req EXCEPT ![r].stage = "inventoried"]
    /\ UNCHANGED <<com, chunks, stamped, ex, wr, dataVars, kept, upsets>>

Approve(r) ==
    /\ req[r].stage = "inventoried"
    /\ ~req[r].blocked
    /\ req' = [req EXCEPT ![r].stage = "approved"]
    /\ UNCHANGED <<com, chunks, stamped, ex, wr, dataVars, kept, upsets>>

Unleased(q) == [q EXCEPT !.owner = NoExecutor, !.live = FALSE]

Aborted(q, gen) ==
    [Unleased(q) EXCEPT !.stage = "aborted", !.gen = @ + 1, !.fence = gen,
                        !.blocked = FALSE, !.retries = 0, !.retryStage = "none"]

Restored(q) ==
    [state |-> "active", gen |-> com.gen + 1,
     archived |-> IF q.quiesced THEN q.archivedBefore ELSE com.archived]

(* abort: under the exclusive community lock, before objects are deleted    *)
(* and while no serving lease is live.  Both generations move on.           *)
Abort(r) ==
    /\ req[r].stage \in {"approved", "fenced"}
    /\ LockFree
    /\ ServingLeases = {}
    /\ com' = Restored(req[r])
    /\ req' = [req EXCEPT ![r] = Aborted(@, com.gen + 1)]
    /\ UNCHANGED <<chunks, stamped, ex, wr, dataVars, kept, upsets>>

(* block_preclaim_setup: an operator's run could not reach its services.    *)
BlockPreclaim(r) ==
    /\ Upset
    /\ req[r].stage \notin {"none", "retention_pending", "aborted"}
    /\ ~req[r].live
    /\ req' = [req EXCEPT ![r].blocked = TRUE]
    /\ UNCHANGED <<com, chunks, stamped, ex, wr, dataVars, kept>>

Unblock(r) ==
    /\ Upset
    /\ req[r].blocked
    /\ ~req[r].live
    /\ req' = [req EXCEPT ![r] =
                  [Unleased(@) EXCEPT !.blocked = FALSE, !.retries = 0,
                                      !.retryStage = "none"]]
    /\ UNCHANGED <<com, chunks, stamped, ex, wr, dataVars, kept>>

Operators ==
    \E r \in Request :
        \/ Submit(r) \/ FreezeInventory(r) \/ Approve(r) \/ Abort(r)
        \/ BlockPreclaim(r) \/ Unblock(r)

-----------------------------------------------------------------------------
(* The executors' leases.                                                   *)

(* verify_lease: stage, owner, generation, expiry and block.                *)
OwnsLease(e, stage) ==
    LET q == req[ex[e].r] IN
    /\ ex[e].r # NoRequest
    /\ q.stage = stage
    /\ q.owner = e
    /\ q.gen = ex[e].gen
    /\ q.live
    /\ ~q.blocked

(* verify_lease_and_fence: the fence generation as well, in both rows.      *)
OwnsFence(e, stage) ==
    /\ OwnsLease(e, stage)
    /\ req[ex[e].r].fence = ex[e].fence
    /\ com.state \in {"fenced", "tombstone"}
    /\ com.gen = ex[e].fence

(* What a claim, and each turn of execute_claim's loop, read of the row.    *)
AtTurn(e, r, q) ==
    [pc |-> "run", r |-> r, gen |-> q.gen, stage |-> q.stage, fence |-> q.fence,
     frozen |-> q.frozen, listing |-> {}, todo |-> {}, key |-> NoKey]

(* Mutant: a claim whose lease expired is not up for reclaiming. *)
ClaimReleased(e, r) ==
    /\ ex[e].pc = "idle"
    /\ req[r].stage \in Runnable
    /\ ~req[r].blocked
    /\ req[r].owner = NoExecutor
    /\ req' = [req EXCEPT ![r].owner = e, ![r].gen = @ + 1, ![r].live = TRUE]
    /\ ex' = [ex EXCEPT ![e] = AtTurn(e, r, req'[r])]
    /\ UNCHANGED <<com, chunks, stamped, wr, dataVars, kept, upsets>>

(* claim, with the heartbeat that opens execute_claim's loop.               *)
Claim(e, r) ==
    /\ ex[e].pc = "idle"
    /\ req[r].stage \in Runnable
    /\ ~req[r].blocked
    /\ ~req[r].live
    /\ req' = [req EXCEPT ![r].owner = e, ![r].gen = @ + 1, ![r].live = TRUE]
    /\ ex' = [ex EXCEPT ![e] = AtTurn(e, r, req'[r])]
    /\ UNCHANGED <<com, chunks, stamped, wr, dataVars, kept, upsets>>

(* A claim that finds the catalog changed blocks the request.               *)
ClaimBlocks(e, r) ==
    /\ Upset
    /\ ex[e].pc = "idle"
    /\ req[r].stage \in Runnable
    /\ ~req[r].blocked
    /\ ~req[r].live
    /\ req' = [req EXCEPT ![r] = [Unleased(@) EXCEPT !.blocked = TRUE]]
    /\ UNCHANGED <<com, chunks, stamped, ex, wr, dataVars, kept>>

(* The next turn of the loop, with its heartbeat: the executor goes on only *)
(* while the lease is still its own and the stage can run.                  *)
NextTurn(e) ==
    /\ ex[e].pc = "loop"
    /\ ex' = [ex EXCEPT ![e] =
                 LET q == req[ex[e].r] IN
                 IF q.stage \in Runnable /\ OwnsLease(e, q.stage)
                 THEN AtTurn(e, ex[e].r, q)
                 ELSE Idle]
    /\ UNCHANGED <<com, requestVars, wr, dataVars, kept, upsets>>

(* The heartbeats stopped, or stalled for the lease's duration.             *)
ClaimExpires(r) ==
    /\ req[r].live
    /\ LET held == \E e \in Executor :
                      ex[e].pc # "idle" /\ ex[e].r = r /\ ex[e].gen = req[r].gen
       IN IF held THEN Upset ELSE UNCHANGED upsets
    /\ req' = [req EXCEPT ![r].live = FALSE]
    /\ UNCHANGED <<com, chunks, stamped, ex, wr, dataVars, kept>>

ExecutorCrash(e) ==
    /\ Upset
    /\ ex[e].pc # "idle"
    /\ ex' = [ex EXCEPT ![e] = Idle]
    /\ UNCHANGED <<com, requestVars, wr, dataVars, kept>>

(* Shutdown, between steps or in one: stop_executor releases a claim that   *)
(* is still this executor's.                                                *)
Shutdown(e) ==
    /\ Upset
    /\ ex[e].pc # "idle"
    /\ req' = [req EXCEPT ![ex[e].r] =
                  IF @.owner = e /\ @.gen = ex[e].gen THEN Unleased(@) ELSE @]
    /\ ex' = [ex EXCEPT ![e] = Idle]
    /\ UNCHANGED <<com, chunks, stamped, wr, dataVars, kept>>

-----------------------------------------------------------------------------
(* A stage that fails.                                                      *)

(* record_retry: the failures of one stage in a row, up to a block.         *)
Retried(q, stage) ==
    LET n == IF q.retryStage = stage THEN q.retries + 1 ELSE 1 IN
    [Unleased(q) EXCEPT !.retries = n, !.retryStage = stage,
                        !.blocked = n >= MaxRetries]

(* record_stage_failure: durable only while the lease is still ours; a      *)
(* successor owns the request otherwise.                                    *)
Failed(e, permanent) ==
    /\ req' = IF OwnsLease(e, ex[e].stage)
              THEN [req EXCEPT ![ex[e].r] =
                       IF permanent THEN [Unleased(@) EXCEPT !.blocked = TRUE]
                       ELSE Retried(@, ex[e].stage)]
              ELSE req
    /\ ex' = [ex EXCEPT ![e] = Idle]
    /\ UNCHANGED <<com, chunks, stamped, wr, dataVars, kept>>

(* The object store, the cache, the catalog or a validation fails a stage.  *)
StageFails(e) ==
    /\ Upset
    /\ ex[e].pc \notin {"idle", "loop"}
    /\ \E permanent \in BOOLEAN : Failed(e, permanent)

(* A step, or the heartbeat beside it, finds the lease or the fence gone.   *)
Stale(e) ==
    /\ ex[e].pc \notin {"idle", "loop"}
    /\ IF ex[e].stage = "approved" THEN ~OwnsLease(e, "approved")
       ELSE ~OwnsFence(e, ex[e].stage)
    /\ Failed(e, FALSE)
    /\ UNCHANGED upsets

-----------------------------------------------------------------------------
(* The stages of execute_stage.                                             *)

Step(e, pc, stage) == ex[e].pc = pc /\ ex[e].stage = stage

Goto(e, pc) == ex' = [ex EXCEPT ![e].pc = pc]

(* advance_request_tx: the stage, and a clean record for the next one.      *)
Advance(e, stage) ==
    /\ req' = [req EXCEPT ![ex[e].r] =
                  [@ EXCEPT !.stage = stage, !.retries = 0, !.retryStage = "none"]]
    /\ Goto(e, "loop")

(* Mutant: quiescing again records the community as archived before. *)
QuiesceAgain(e) ==
    /\ Step(e, "run", "approved")
    /\ LockFree
    /\ OwnsLease(e, "approved")
    /\ com.state \in {"active", "quiescing"}
    /\ req' = [req EXCEPT ![ex[e].r] =
                  [@ EXCEPT !.quiesced = TRUE, !.archivedBefore = com.archived]]
    /\ com' = [com EXCEPT !.state = "quiescing", !.archived = TRUE]
    /\ Goto(e, "fence")
    /\ UNCHANGED <<chunks, stamped, wr, dataVars, kept, upsets>>

(* Mutant: the lease is not verified again once the lock is granted. *)
QuiesceUnverified(e) ==
    /\ Step(e, "run", "approved")
    /\ LockFree
    /\ com.state \in {"active", "quiescing"}
    /\ req' = [req EXCEPT ![ex[e].r] =
                  IF @.quiesced THEN @
                  ELSE [@ EXCEPT !.quiesced = TRUE, !.archivedBefore = com.archived]]
    /\ com' = [com EXCEPT !.state = "quiescing", !.archived = TRUE]
    /\ Goto(e, "fence")
    /\ UNCHANGED <<chunks, stamped, wr, dataVars, kept, upsets>>

(* approved: begin_quiescing, under the exclusive lock, closes admission.   *)
BeginQuiescing(e) ==
    /\ Step(e, "run", "approved")
    /\ LockFree
    /\ OwnsLease(e, "approved")
    /\ com.state \in {"active", "quiescing"}
    /\ req' = [req EXCEPT ![ex[e].r] =
                  IF @.quiesced THEN @
                  ELSE [@ EXCEPT !.quiesced = TRUE, !.archivedBefore = com.archived]]
    /\ com' = [com EXCEPT !.state = "quiescing", !.archived = TRUE]
    /\ Goto(e, "fence")
    /\ UNCHANGED <<chunks, stamped, wr, dataVars, kept, upsets>>

(* Mutant: the fence goes up beside the serving leases that are live. *)
FenceUndrained(e) ==
    /\ Step(e, "fence", "approved")
    /\ LockFree
    /\ OwnsLease(e, "approved")
    /\ com.state = "quiescing"
    /\ com' = [com EXCEPT !.state = "fenced", !.gen = @ + 1]
    /\ req' = [req EXCEPT ![ex[e].r] =
                  [@ EXCEPT !.stage = "fenced", !.fence = com.gen + 1,
                            !.retries = 0, !.retryStage = "none"]]
    /\ Goto(e, "loop")
    /\ UNCHANGED <<chunks, stamped, wr, dataVars, kept, upsets>>

(* fence: the lock again, no serving lease live, and a new generation.      *)
Fence(e) ==
    /\ Step(e, "fence", "approved")
    /\ LockFree
    /\ OwnsLease(e, "approved")
    /\ ServingLeases = {}
    /\ com.state = "quiescing"
    /\ com' = [com EXCEPT !.state = "fenced", !.gen = @ + 1]
    /\ req' = [req EXCEPT ![ex[e].r] =
                  [@ EXCEPT !.stage = "fenced", !.fence = com.gen + 1,
                            !.retries = 0, !.retryStage = "none"]]
    /\ Goto(e, "loop")
    /\ UNCHANGED <<chunks, stamped, wr, dataVars, kept, upsets>>

NotDrained(e) ==
    /\ Step(e, "fence", "approved")
    /\ LockFree
    /\ OwnsLease(e, "approved")
    /\ ServingLeases # {}
    /\ Failed(e, FALSE)
    /\ UNCHANGED upsets

(* fenced: disconnect the community, check the drain, and freeze the list   *)
(* of keys to delete unless an earlier attempt already did.                 *)
CheckDrained(e) ==
    /\ Step(e, "run", "fenced")
    /\ OwnsFence(e, "fenced")
    /\ IF ServingLeases = {}
       THEN /\ Goto(e, IF ex[e].frozen THEN "mark" ELSE "clear")
            /\ UNCHANGED <<com, requestVars, wr, dataVars, kept>>
       ELSE Failed(e, FALSE)
    /\ UNCHANGED upsets

(* clear_manifest_key_chunks verifies the lease, then deletes: the trigger  *)
(* alone protects chunks a successor has frozen in between.                 *)
ClearVerified(e) ==
    /\ Step(e, "clear", "fenced")
    /\ OwnsFence(e, "fenced")
    /\ Goto(e, "clearing")
    /\ UNCHANGED <<com, requestVars, wr, dataVars, kept, upsets>>

Removable(r) == ~req[r].frozen \/ req[r].stage \in Certified

Clear(e) ==
    /\ Step(e, "clearing", "fenced")
    /\ IF Removable(ex[e].r) \/ chunks[ex[e].r] = {}
       THEN /\ chunks' = [chunks EXCEPT ![ex[e].r] = {}]
            /\ stamped' = [stamped EXCEPT ![ex[e].r] = {}]
            /\ Goto(e, "list")
            /\ UNCHANGED <<com, req, wr, dataVars, kept>>
       ELSE Failed(e, FALSE)
    /\ UNCHANGED upsets

(* enumerate_tenant_prefixes.                                               *)
List(e) ==
    /\ Step(e, "list", "fenced")
    /\ ex' = [ex EXCEPT ![e].listing = objects, ![e].todo = objects,
                        ![e].pc = "append"]
    /\ UNCHANGED <<com, requestVars, wr, dataVars, kept, upsets>>

(* append_manifest_key_chunk, as clear: verified, then inserted.            *)
AppendVerified(e, k) ==
    /\ Step(e, "append", "fenced")
    /\ k \in ex[e].todo
    /\ OwnsFence(e, "fenced")
    /\ ex' = [ex EXCEPT ![e].pc = "inserting", ![e].key = k]
    /\ UNCHANGED <<com, requestVars, wr, dataVars, kept, upsets>>

Insertable(r) == ~req[r].frozen /\ req[r].stage = "fenced"

Append(e) ==
    /\ Step(e, "inserting", "fenced")
    /\ IF Insertable(ex[e].r) /\ ex[e].key \notin chunks[ex[e].r]
       THEN /\ chunks' = [chunks EXCEPT ![ex[e].r] = @ \cup {ex[e].key}]
            /\ ex' = [ex EXCEPT ![e].pc = "append", ![e].todo = @ \ {ex[e].key},
                                ![e].key = NoKey]
            /\ UNCHANGED <<com, req, stamped, wr, dataVars, kept>>
       ELSE Failed(e, FALSE)
    /\ UNCHANGED upsets

(* Mutant: the chunks are not compared with the manifest at the freeze. *)
FreezeUnchecked(e) ==
    /\ Step(e, "append", "fenced")
    /\ ex[e].todo = {}
    /\ OwnsFence(e, "fenced")
    /\ req' = [req EXCEPT ![ex[e].r] =
                  [@ EXCEPT !.frozen = TRUE, !.manifest = ex[e].listing]]
    /\ Goto(e, "mark")
    /\ UNCHANGED <<com, chunks, stamped, wr, dataVars, kept, upsets>>

(* freeze_destructive_storage_manifest, under the request row's lock: the   *)
(* chunks must hash to the manifest.                                        *)
Freeze(e) ==
    /\ Step(e, "append", "fenced")
    /\ ex[e].todo = {}
    /\ OwnsFence(e, "fenced")
    /\ IF /\ chunks[ex[e].r] = ex[e].listing
          /\ req[ex[e].r].frozen => req[ex[e].r].manifest = ex[e].listing
       THEN /\ req' = [req EXCEPT ![ex[e].r] =
                          [@ EXCEPT !.frozen = TRUE, !.manifest = ex[e].listing]]
            /\ Goto(e, "mark")
            /\ UNCHANGED <<com, chunks, stamped, wr, dataVars, kept>>
       ELSE Failed(e, TRUE)
    /\ UNCHANGED upsets

MarkDrained(e) ==
    /\ Step(e, "mark", "fenced")
    /\ OwnsFence(e, "fenced")
    /\ IF ServingLeases = {}
       THEN Advance(e, "drained") /\ UNCHANGED <<com, chunks, stamped, wr, dataVars, kept>>
       ELSE Failed(e, TRUE)
    /\ UNCHANGED upsets

Pending(r) == chunks[r] \ stamped[r]

(* drained: each pending chunk is deleted from the object store, then       *)
(* stamped.  Only the lease checks around it bind the deletion in time.     *)
NextChunk(e, k) ==
    /\ Step(e, "run", "drained")
    /\ k \in Pending(ex[e].r)
    /\ OwnsFence(e, "drained")
    /\ ex' = [ex EXCEPT ![e].pc = "deleting", ![e].key = k]
    /\ UNCHANGED <<com, requestVars, wr, dataVars, kept, upsets>>

DeleteLands(e) ==
    /\ Step(e, "deleting", "drained")
    /\ objects' = objects \ {ex[e].key}
    /\ strays' = strays \ {ex[e].key}
    /\ Goto(e, "deleted")
    /\ UNCHANGED <<com, requestVars, wr, late, rows, kept, upsets>>

Stamp(e) ==
    /\ Step(e, "deleted", "drained")
    /\ OwnsFence(e, "drained")
    /\ IF ex[e].key \in Pending(ex[e].r)
       THEN /\ stamped' = [stamped EXCEPT ![ex[e].r] = @ \cup {ex[e].key}]
            /\ ex' = [ex EXCEPT ![e].pc = "run", ![e].key = NoKey]
            /\ UNCHANGED <<com, req, chunks, wr, dataVars, kept>>
       ELSE Failed(e, TRUE)
    /\ UNCHANGED upsets

MarkBindingsRemoved(e) ==
    /\ Step(e, "run", "drained")
    /\ Pending(ex[e].r) = {}
    /\ OwnsFence(e, "drained")
    /\ Advance(e, "bindings_removed")
    /\ UNCHANGED <<com, chunks, stamped, wr, dataVars, kept, upsets>>

(* bindings_removed: the rows go and the tombstone stays, in one commit.    *)
PurgePostgres(e) ==
    /\ Step(e, "run", "bindings_removed")
    /\ OwnsFence(e, "bindings_removed")
    /\ com.state = "fenced"
    /\ rows' = {}
    /\ com' = [com EXCEPT !.state = "tombstone", !.archived = TRUE]
    /\ Advance(e, "postgres_purged")
    /\ UNCHANGED <<chunks, stamped, wr, storeVars, kept, upsets>>

(* postgres_purged: the tenant's keys in Redis are unlinked.                *)
PurgeCache(e) ==
    /\ Step(e, "run", "postgres_purged")
    /\ OwnsFence(e, "postgres_purged")
    /\ Advance(e, "cache_purged")
    /\ UNCHANGED <<com, chunks, stamped, wr, dataVars, kept, upsets>>

(* cache_purged: absence is verified store by store, then committed.        *)
VerifyPostgres(e) ==
    /\ Step(e, "run", "cache_purged")
    /\ OwnsFence(e, "cache_purged")
    /\ IF com.state = "tombstone" /\ rows = {}
       THEN /\ Goto(e, "absence")
            /\ UNCHANGED <<com, requestVars, wr, dataVars, kept>>
       ELSE Failed(e, TRUE)
    /\ UNCHANGED upsets

VerifyStorage(e) ==
    /\ Step(e, "absence", "cache_purged")
    /\ IF objects = {}
       THEN /\ Goto(e, "verified")
            /\ UNCHANGED <<com, requestVars, wr, dataVars, kept>>
       ELSE Failed(e, FALSE)
    /\ UNCHANGED upsets

MarkVerified(e) ==
    /\ Step(e, "verified", "cache_purged")
    /\ OwnsFence(e, "cache_purged")
    /\ Advance(e, "logically_verified")
    /\ chunks' = [chunks EXCEPT ![ex[e].r] = {}]
    /\ stamped' = [stamped EXCEPT ![ex[e].r] = {}]
    /\ UNCHANGED <<com, wr, dataVars, kept, upsets>>

MarkRetention(e) ==
    /\ Step(e, "run", "logically_verified")
    /\ OwnsFence(e, "logically_verified")
    /\ req' = [req EXCEPT ![ex[e].r] =
                  [Unleased(@) EXCEPT !.stage = "retention_pending", !.retries = 0,
                                      !.retryStage = "none"]]
    /\ ex' = [ex EXCEPT ![e] = Idle]
    /\ UNCHANGED <<com, chunks, stamped, wr, dataVars, kept, upsets>>

(* What an executor does while nothing goes wrong.                          *)
Progress(e) ==
    \/ \E r \in Request : Claim(e, r)
    \/ NextTurn(e) \/ Stale(e)
    \/ BeginQuiescing(e) \/ Fence(e) \/ NotDrained(e)
    \/ CheckDrained(e) \/ ClearVerified(e) \/ Clear(e) \/ List(e)
    \/ \E k \in Key : AppendVerified(e, k) \/ NextChunk(e, k)
    \/ Append(e) \/ Freeze(e) \/ MarkDrained(e)
    \/ DeleteLands(e) \/ Stamp(e) \/ MarkBindingsRemoved(e)
    \/ PurgePostgres(e) \/ PurgeCache(e)
    \/ VerifyPostgres(e) \/ VerifyStorage(e) \/ MarkVerified(e) \/ MarkRetention(e)

Executors ==
    \/ \E e \in Executor :
          \/ Progress(e) \/ ExecutorCrash(e) \/ Shutdown(e) \/ StageFails(e)
          \/ \E r \in Request : ClaimBlocks(e, r)
    \/ \E r \in Request : ClaimExpires(r)

Next == Serving \/ Operators \/ Executors

Spec == Init /\ [][Next]_vars

(* A write that was admitted goes on, a lease that is not renewed expires,  *)
(* and some executor is run again while a request can be claimed.           *)
Fairness ==
    /\ \A w \in Writer :
          /\ WF_vars(CommitWrite(w) \/ Verify(w) \/ EffectLands(w) \/ LeaseLost(w)
                        \/ BeginFinal(w) \/ Release(w))
          /\ WF_vars(LeaseExpires(w) /\ wr[w].pc = "dead")
    /\ \A r \in Request : WF_vars(ClaimExpires(r) /\ UNCHANGED upsets)
    /\ \A e \in Executor : SF_vars(Progress(e))

FairSpec == Spec /\ Fairness

-----------------------------------------------------------------------------
(* Properties.                                                              *)

RequestRow ==
    [stage: Stages, owner: Executor \cup {NoExecutor}, gen: Nat, live: BOOLEAN,
     blocked: BOOLEAN, retries: 0..MaxRetries, retryStage: Stages, fence: Nat,
     quiesced: BOOLEAN, archivedBefore: BOOLEAN, frozen: BOOLEAN,
     manifest: SUBSET Key]

(* An executor at work has a request, and a key where it handles one. *)
Claims ==
    {c \in [pc: {"idle", "run", "loop", "fence", "clear", "clearing", "list", "append",
                 "inserting", "mark", "deleting", "deleted", "absence", "verified"},
            r: Request \cup {NoRequest}, gen: Nat, stage: Stages, fence: Nat,
            frozen: BOOLEAN, listing: SUBSET Key, todo: SUBSET Key, key: Key \cup {NoKey}] :
        /\ c.pc # "idle" => c.r \in Request
        /\ c.pc \in {"inserting", "deleting", "deleted"} => c.key \in Key}

ServingWrites ==
    {w \in [pc: {"idle", "tx", "finaltx", "end", "admitted", "effect", "landed", "final",
                 "finish", "dead"},
            key: Key \cup {NoKey}, lease: {"none", "live", "expired"}, fence: Nat] :
        w.pc \notin {"idle", "dead"} => w.key \in Key}

(* Every variable keeps its type; a request never counts more failures of a *)
(* stage than block it (record_retry).                                      *)
TypeOK ==
    /\ com \in [state: {"active", "quiescing", "fenced", "tombstone"}, gen: Nat,
                archived: BOOLEAN]
    /\ req \in [Request -> RequestRow]
    /\ chunks \in [Request -> SUBSET Key]
    /\ stamped \in [Request -> SUBSET Key]
    /\ ex \in [Executor -> Claims]
    /\ wr \in [Writer -> ServingWrites]
    /\ {objects, late, strays} \subseteq SUBSET Key
    /\ rows \subseteq Key
    /\ kept \in BOOLEAN
    /\ upsets \in Nat

Phase ==
    IF \E r \in Request : req[r].stage \in Certified THEN "erased"
    ELSE IF \E r \in Request : req[r].stage \in Erasing THEN "erasing"
    ELSE IF com.state = "fenced" THEN "closed"
    ELSE "serving"

Tenant == INSTANCE TenantErasure WITH phase <- Phase, objects <- objects \ strays

(* Deletion keeps the promise of TenantErasure: nothing is written behind   *)
(* the fence or destroyed before it, an abort gives back everything, and    *)
(* logical verification certifies real absence, whatever executors, serving *)
(* writes and operators do at the same time.  Only a PUT that the store     *)
(* applies after its sender lost or gave back the lease (strays) gets past  *)
(* the fence.                                                               *)
Erasure == Tenant!TenantSpec

(* An active community is archived exactly when its owner archived it: the  *)
(* archive flag that quiescing sets never outlives an abort, however often  *)
(* the quiescing was retried.                                               *)
ArchiveRestored == com.state = "active" => com.archived = kept

(* From the freeze to logical verification the chunks are the frozen        *)
(* manifest, although a stalled executor may write chunks without a lease,  *)
(* and what is stamped deleted is gone, unless a late PUT brought it back.  *)
ManifestExact ==
    \A r \in Request :
        req[r].frozen /\ req[r].stage \notin Certified \cup {"aborted"}
            => /\ chunks[r] = req[r].manifest
               /\ stamped[r] \cap objects \subseteq strays

(* "The post-drain listing is the final storage state, so no tenant key can *)
(* appear after the freeze" (execute_stage, stage fenced).                  *)
NothingAfterFreeze ==
    \A r \in Request :
        req[r].frozen /\ req[r].stage # "aborted" => objects \subseteq req[r].manifest

(* The row and the request agree on the lifecycle: a request past the fence *)
(* has the community's fence generation, and a community is closed only for *)
(* a request that has not been aborted.                                     *)
FenceBacked ==
    /\ \A r \in Request :
          req[r].stage \in Erasing \cup {"fenced"} \cup Certified
              => /\ com.state \in {"fenced", "tombstone"}
                 /\ req[r].fence = com.gen
    /\ com.state # "active"
          => \E r \in Request : req[r].stage \in Runnable \cup {"retention_pending"}

(* Every approved request is settled: deleted, aborted or blocked for an    *)
(* operator (run_loop, the executors' leases, quiescing).                   *)
EveryRequestSettles ==
    \A r \in Request :
        req[r].stage = "approved"
            ~> req[r].stage \in {"retention_pending", "aborted"} \/ req[r].blocked
=============================================================================
