----------------------------- MODULE GitPublish -----------------------------
(***************************************************************************)
(* A `git push' to a repository the relay keeps in object storage, from    *)
(* the advertisement the client saw to the HTTP status it is given         *)
(* (api/git/transport.rs, hydrate.rs, cas_publish.rs).  Any number of      *)
(* pushes run at once, on any relay process, with no lock between them:    *)
(*                                                                         *)
(*   Advertise    GET info/refs; the client decides on its ref updates     *)
(*   LoadPointer  hydrate_for_write reads the pointer once                 *)
(*   Materialize  ... then the manifest it names, then its packs           *)
(*   ReceivePack  git receive-pack in the private workspace                *)
(*   Acquire      the serving-write lease that the deletion fence drains   *)
(*   Capture*     the new pack (or a compacted pack set) and m_after       *)
(*   PutPack, PutManifest, SendCas, Recv*   the writes, in this order      *)
(*   Announce     the relay-signed kind:30618 ref-state event              *)
(*   Release      the lease goes back; only now is the status built        *)
(*                                                                         *)
(* Each Pusher is one push request.  Byte counts are counts of commits     *)
(* plus one for a pack's header.                                           *)
(***************************************************************************)
EXTENDS GitStore

CONSTANTS
    Pushers,        \* push requests
    BranchPref,     \* branches, in the order resolve_published_head tries them
    SafeRefs,       \* names is_safe_refname accepts
    Reach,          \* Reach[c]: what is reachable from commit c
    CompactAt,      \* PACK_COMPACTION_THRESHOLD
    MaxPacks,       \* MAX_MANIFEST_PACKS
    MaxPackBytes,   \* git_max_pack_bytes
    MaxRepoBytes    \* git_max_repo_bytes

ASSUME PushersAssumption == Pushers \subseteq Writers

ASSUME CommitsAssumption == IsFiniteSet(Commits)

ASSUME ReachAssumption ==
    /\ Reach \in [Commits -> SUBSET Commits]
    /\ \A c \in Commits : c \in Reach[c]

ASSUME BranchPrefAssumption ==
    /\ BranchPref \in Seq(Refs)
    /\ BranchPref # <<>>
    /\ BranchPref[1] \in SafeRefs

ASSUME LimitsAssumption ==
    /\ CompactAt \in Nat
    /\ MaxPacks \in Nat
    /\ MaxPackBytes \in Nat
    /\ MaxRepoBytes \in Nat

VARIABLES
    pc,      \* where each push is
    cmds,    \* the ref updates it asks for: the values seen, the values wanted
    base,    \* ParentState: the digest (and ETag) its workspace came from
    ws,      \* the refs in its workspace
    made,    \* m_after, once composed
    todo,    \* captured packs still to be uploaded
    reply,   \* the status the client was given
    events   \* refs carried by the kind:30618 events, in the order stored

pushVars == <<pc, cmds, base, ws, made, todo, reply>>

vars == <<storeVars, pushVars, events>>

Replies == {"none", "ok", "rejected", "refused", "conflict", "error", "fenced",
            "unannounced"}

Stages == {"idle", "posted", "loaded", "work", "declined", "received", "leased",
           "compacting", "upload", "stored", "waiting", "committed",
           "announced", "unannounced", "done"}

(* The stages run under the lease, by serving_write.protect and after it.   *)
Protected == {"leased", "compacting", "upload", "stored", "waiting", "committed"}

Update == [old: RefMaps, new: RefMaps]

NoUpdate == [old |-> NoRefs, new |-> NoRefs]

-----------------------------------------------------------------------------
(* Manifests. *)

Branches == {BranchPref[i] : i \in DOMAIN BranchPref}

Existing(refs) == {r \in Refs : refs[r] # NoCommit}

Closure(refs) == UNION {Reach[refs[r]] : r \in Existing(refs)}

(* The empty manifest: what announcing a repository seeds, and what the     *)
(* first push to a repository without a pointer starts from.                *)
EmptyManifest ==
    [head |-> BranchPref[1], refs |-> NoRefs, packs |-> {}, parent |-> 0]

ManifestAt(d) == IF d = 0 THEN EmptyManifest ELSE manifests[d]

Parent(p) == ManifestAt(base[p])

(* Mutant: a HEAD whose branch is gone is published as no HEAD at all. *)
HeadOrNothing(refs, observed) ==
    IF observed \in Existing(refs) THEN observed ELSE NoCommit

resolve_published_head(refs, observed) ==
    LET live == {i \in DOMAIN BranchPref : BranchPref[i] \in Existing(refs)}
    IN  IF observed \in Branches \cap Existing(refs) \/ live = {}
        THEN observed
        ELSE BranchPref[CHOOSE i \in live : \A j \in live : i <= j]

PackBytes(k) == Cardinality(k) + 1

(* The sum over the packs: a unit for each commit of a pack and one, named  *)
(* NoCommit, for its header.                                                *)
TotalBytes(P) ==
    Cardinality({x \in P \X (Commits \cup {NoCommit}) : x[2] \in x[1] \cup {NoCommit}})

Validate(m) ==
    /\ Cardinality(m.packs) <= MaxPacks
    /\ m.head \in SafeRefs
    /\ Existing(m.refs) \subseteq SafeRefs

(* What hydrating a manifest needs: it validates, all its packs are there   *)
(* and they fit the relay's limits.                                         *)
Materializable(m) ==
    /\ Validate(m)
    /\ m.packs \subseteq packs
    /\ \A k \in m.packs : PackBytes(k) <= MaxPackBytes
    /\ TotalBytes(m.packs) <= MaxRepoBytes

-----------------------------------------------------------------------------
(* The end of a request: the status is built and the workspace dropped.     *)

Answer(p, r) ==
    /\ pc' = [pc EXCEPT ![p] = "done"]
    /\ reply' = [reply EXCEPT ![p] = r]
    /\ base' = [base EXCEPT ![p] = 0]
    /\ ws' = [ws EXCEPT ![p] = NoRefs]
    /\ made' = [made EXCEPT ![p] = EmptyManifest]
    /\ todo' = [todo EXCEPT ![p] = {}]
    /\ UNCHANGED cmds

Goto(p, stage) == pc' = [pc EXCEPT ![p] = stage]

(* GET info/refs, and the updates the client then asks for: any set of      *)
(* creations, moves (forced ones too) and deletions, each with the value    *)
(* the advertisement had.  Without a pointer info/refs is a 404; a client   *)
(* may still post (the handler does not ask), and expects no ref to exist.  *)
Advertise(p) ==
    /\ pc[p] = "idle"
    /\ \E new \in RefMaps \ {PublishedRefs} :
          cmds' = [cmds EXCEPT ![p] = [old |-> PublishedRefs, new |-> new]]
    /\ Goto(p, "posted")
    /\ UNCHANGED <<storeVars, base, ws, made, todo, reply, events>>

(* One GET gives the ETag and the digest together.                          *)
LoadPointer(p) ==
    /\ pc[p] = "posted"
    /\ base' = [base EXCEPT ![p] = pointer]
    /\ Goto(p, "loaded")
    /\ UNCHANGED <<storeVars, cmds, ws, made, todo, reply, events>>

(* The manifest and its packs are read later than the pointer.              *)
Materialize(p) ==
    /\ pc[p] = "loaded"
    /\ Materializable(Parent(p))
    /\ ws' = [ws EXCEPT ![p] = Parent(p).refs]
    /\ Goto(p, "work")
    /\ UNCHANGED <<storeVars, cmds, base, made, todo, reply, events>>

Touched(p) == {r \in Refs : cmds[p].new[r] # cmds[p].old[r]}

Stale(p) == {r \in Touched(p) : ws[p][r] # cmds[p].old[r]}

(* Mutant: the report is not scanned, git's exit code is taken for success. *)
ReceivePackUnscanned(p) ==
    /\ pc[p] = "work"
    /\ ws' = [ws EXCEPT ![p] = [r \in Refs |-> IF r \in Touched(p) \ Stale(p)
                                               THEN cmds[p].new[r] ELSE @[r]]]
    /\ Goto(p, "received")
    /\ UNCHANGED <<storeVars, cmds, base, made, todo, reply, events>>

(* git receive-pack applies each update on its own: one whose expected old  *)
(* value is not the workspace's is reported `ng', the others are made.      *)
(* PackOutput.ok is false when any `ng' is reported.                        *)
ReceivePack(p) ==
    /\ pc[p] = "work"
    /\ ws' = [ws EXCEPT ![p] = [r \in Refs |-> IF r \in Touched(p) \ Stale(p)
                                               THEN cmds[p].new[r] ELSE @[r]]]
    /\ Goto(p, IF Stale(p) = {} THEN "received" ELSE "declined")
    /\ UNCHANGED <<storeVars, cmds, base, made, todo, reply, events>>

(* The pre-receive hook turns the whole push down.                          *)
HookDeclines(p) ==
    /\ pc[p] = "work"
    /\ Goto(p, "declined")
    /\ UNCHANGED <<storeVars, cmds, base, ws, made, todo, reply, events>>

(* finalize_push, part 0: a push that is not ok publishes nothing; the      *)
(* client is sent git's own report.                                         *)
SkipPublish(p) ==
    /\ pc[p] = "declined"
    /\ Answer(p, "rejected")
    /\ UNCHANGED <<storeVars, events>>

Acquire(p) ==
    /\ pc[p] = "received"
    /\ Goto(p, "leased")
    /\ UNCHANGED <<storeVars, cmds, base, ws, made, todo, reply, events>>

(* The fence refuses the lease, or the heartbeat loses it: while the        *)
(* publication runs its future is dropped, and when it has finished its     *)
(* result is discarded by protect's second verify.  A PUT already sent      *)
(* stays on the wire.                                                       *)
LeaseLost(p) ==
    /\ pc[p] \in Protected \cup {"received"}
    /\ Answer(p, "fenced")
    /\ UNCHANGED <<storeVars, events>>

-----------------------------------------------------------------------------
(* cas_publish. *)

should_compact(p) == Cardinality(Parent(p).packs) >= CompactAt

(* The pack sets `pack-objects --max-pack-size' may split a closure into.   *)
Splits(S) ==
    {P \in SUBSET ((SUBSET S) \ {{}}) :
        /\ UNION P = S
        /\ \A j, k \in P : j # k => j \cap k = {}
        /\ \A k \in P : PackBytes(k) <= MaxPackBytes}

compacted_pack_set_is_usable(before, after) ==
    \/ after < before
    \/ before >= MaxPacks /\ after <= MaxPacks

compose_compacted_after(p, P) ==
    [head   |-> resolve_published_head(ws[p], Parent(p).head),
     refs   |-> ws[p],
     packs  |-> P,
     parent |-> base[p]]

(* Mutant: compaction leaves out what the parent's refs reach. *)
CaptureCompactedDelta(p) ==
    /\ pc[p] = "leased"
    /\ should_compact(p)
    /\ \E P \in Splits(Closure(ws[p]) \ Closure(Parent(p).refs)) :
          /\ compacted_pack_set_is_usable(Cardinality(Parent(p).packs), Cardinality(P))
          /\ TotalBytes(P) <= MaxRepoBytes
          /\ made' = [made EXCEPT ![p] = compose_compacted_after(p, P)]
          /\ todo' = [todo EXCEPT ![p] = P]
    /\ Goto(p, "compacting")
    /\ UNCHANGED <<storeVars, cmds, base, ws, reply, events>>

(* Compaction captures everything the refs reach, with no parent to lean    *)
(* on, and its packs replace the parent's.                                  *)
CaptureCompacted(p) ==
    /\ pc[p] = "leased"
    /\ should_compact(p)
    /\ \E P \in Splits(Closure(ws[p])) :
          /\ compacted_pack_set_is_usable(Cardinality(Parent(p).packs), Cardinality(P))
          /\ TotalBytes(P) <= MaxRepoBytes
          /\ made' = [made EXCEPT ![p] = compose_compacted_after(p, P)]
          /\ todo' = [todo EXCEPT ![p] = P]
    /\ Goto(p, "compacting")
    /\ UNCHANGED <<storeVars, cmds, base, ws, reply, events>>

(* `pack-objects --revs' with the new tips and, negated, the parent's: no   *)
(* pack when there is no ref left, otherwise one, even for no commits (git  *)
(* then writes a pack of zero objects).                                     *)
capture_pack(p) ==
    IF Existing(ws[p]) = {} THEN {}
    ELSE {Closure(ws[p]) \ Closure(Parent(p).refs)}

compose_after(p, new) ==
    [head   |-> resolve_published_head(ws[p], Parent(p).head),
     refs   |-> ws[p],
     packs  |-> Parent(p).packs \cup new,
     parent |-> base[p]]

(* Mutant: the parent's packs are not counted. *)
DeltaFitsAlone(p) ==
    \A k \in capture_pack(p) :
        /\ Cardinality(Parent(p).packs) < MaxPacks
        /\ PackBytes(k) <= MaxPackBytes
        /\ PackBytes(k) <= MaxRepoBytes

(* The resource limits of a delta publication.                              *)
DeltaFits(p) ==
    \A k \in capture_pack(p) :
        /\ Cardinality(Parent(p).packs) < MaxPacks
        /\ PackBytes(k) <= MaxPackBytes
        /\ TotalBytes(Parent(p).packs) + PackBytes(k) <= MaxRepoBytes

(* The normal way, and the fall-back when compaction fails, times out or    *)
(* gets no permit, at whatever point it does.                               *)
CaptureDelta(p) ==
    /\ pc[p] \in {"leased", "compacting"}
    /\ DeltaFits(p)
    /\ made' = [made EXCEPT ![p] = compose_after(p, capture_pack(p))]
    /\ todo' = [todo EXCEPT ![p] = capture_pack(p)]
    /\ Goto(p, "upload")
    /\ UNCHANGED <<storeVars, cmds, base, ws, reply, events>>

OverLimit(p) ==
    /\ pc[p] \in {"leased", "compacting"}
    /\ ~DeltaFits(p)
    /\ Answer(p, "refused")
    /\ UNCHANGED <<storeVars, events>>

PutPack(p) ==
    /\ pc[p] \in {"compacting", "upload"}
    /\ \E k \in todo[p] :
          /\ put_pack(k)
          /\ todo' = [todo EXCEPT ![p] = @ \ {k}]
    /\ UNCHANGED <<pointer, manifests, wire, answer, history,
                   pc, cmds, base, ws, made, reply, events>>

PutManifest(p) ==
    /\ pc[p] \in {"compacting", "upload"}
    /\ todo[p] = {}
    /\ Validate(made[p])
    /\ put_manifest(made[p])
    /\ Goto(p, "stored")
    /\ UNCHANGED <<pointer, packs, wire, answer, history,
                   cmds, base, ws, made, todo, reply, events>>

(* m_after fails validation (an unsafe ref name): 400, nothing written.     *)
ManifestInvalid(p) ==
    /\ pc[p] \in {"compacting", "upload"}
    /\ todo[p] = {}
    /\ ~Validate(made[p])
    /\ Answer(p, "refused")
    /\ UNCHANGED <<storeVars, events>>

(* Mutant: the pointer is read again for the ETag of the CAS. *)
SendCasRereads(p) ==
    /\ pc[p] = "stored"
    /\ put_pointer(p, pointer, DigestOf(made[p]))
    /\ Goto(p, "waiting")
    /\ UNCHANGED <<pointer, manifests, packs, answer, history,
                   cmds, base, ws, made, todo, reply, events>>

SendCas(p) ==
    /\ pc[p] = "stored"
    /\ put_pointer(p, base[p], DigestOf(made[p]))
    /\ Goto(p, "waiting")
    /\ UNCHANGED <<pointer, manifests, packs, answer, history,
                   cmds, base, ws, made, todo, reply, events>>

RecvWon(p) ==
    /\ pc[p] = "waiting"
    /\ answer[p] = "won"
    /\ Goto(p, "committed")
    /\ UNCHANGED <<storeVars, cmds, base, ws, made, todo, reply, events>>

(* 412: the winner is read back for the log, and the client gets 409.       *)
RecvLost(p) ==
    /\ pc[p] = "waiting"
    /\ answer[p] = "lost"
    /\ pointer # 0
    /\ Answer(p, "conflict")
    /\ UNCHANGED <<storeVars, events>>

(* A store, git or filesystem error anywhere before the CAS is answered,    *)
(* or the CAS's own request or answer lost: 500.                            *)
Fail(p) ==
    /\ pc[p] \in {"posted", "loaded", "work", "leased", "compacting", "upload",
                  "stored", "waiting"}
    /\ Answer(p, "error")
    /\ UNCHANGED <<storeVars, events>>

-----------------------------------------------------------------------------
(* After the commit. *)

(* m_after names its parent, so its digest is never the parent's and the    *)
(* event is built and inserted after every commit.                          *)
Announce(p) ==
    /\ pc[p] = "committed"
    /\ events' = Append(events, made[p].refs)
    /\ Goto(p, "announced")
    /\ UNCHANGED <<storeVars, cmds, base, ws, made, todo, reply>>

AnnounceFails(p) ==
    /\ pc[p] = "committed"
    /\ Goto(p, "unannounced")
    /\ UNCHANGED <<storeVars, cmds, base, ws, made, todo, reply, events>>

(* Mutant: the result of the event's insertion is ignored. *)
ReleaseAnyway(p) ==
    /\ pc[p] \in {"announced", "unannounced"}
    /\ Answer(p, "ok") \/ Answer(p, "fenced")
    /\ UNCHANGED <<storeVars, events>>

(* finish releases the lease; its failure is reported before the event's,   *)
(* which has a 500 of its own ("push committed but ...").                   *)
Release(p) ==
    /\ \/ pc[p] = "announced" /\ Answer(p, "ok")
       \/ pc[p] = "unannounced" /\ Answer(p, "unannounced")
       \/ pc[p] \in {"announced", "unannounced"} /\ Answer(p, "fenced")
    /\ UNCHANGED <<storeVars, events>>

(* The relay process dies: the workspace is gone and no status is sent.     *)
Crash(p) ==
    /\ pc[p] \notin {"idle", "done"}
    /\ Answer(p, "none")
    /\ UNCHANGED <<storeVars, events>>

-----------------------------------------------------------------------------
PushInit ==
    /\ pc = [p \in Pushers |-> "idle"]
    /\ cmds = [p \in Pushers |-> NoUpdate]
    /\ base = [p \in Pushers |-> 0]
    /\ ws = [p \in Pushers |-> NoRefs]
    /\ made = [p \in Pushers |-> EmptyManifest]
    /\ todo = [p \in Pushers |-> {}]
    /\ reply = [p \in Pushers |-> "none"]
    /\ events = <<>>

(* Every repository's empty manifest has the same digest, so it is in the   *)
(* store already.                                                           *)
StoreInit ==
    /\ manifests = <<EmptyManifest>>
    /\ packs = {}
    /\ wire = {}
    /\ answer = [w \in Writers |-> "none"]
    /\ history = <<>>

(* An announced repository, or one whose pointer was never seeded.          *)
Init == PushInit /\ StoreInit /\ pointer \in {0, 1}

PushStep(p) ==
    \/ Advertise(p) \/ LoadPointer(p) \/ Materialize(p)
    \/ ReceivePack(p) \/ HookDeclines(p) \/ SkipPublish(p)
    \/ Acquire(p) \/ LeaseLost(p)
    \/ CaptureCompacted(p) \/ CaptureDelta(p) \/ OverLimit(p)
    \/ PutPack(p) \/ PutManifest(p) \/ ManifestInvalid(p)
    \/ SendCas(p) \/ RecvWon(p) \/ RecvLost(p) \/ Fail(p)
    \/ Announce(p) \/ AnnounceFails(p) \/ Release(p) \/ Crash(p)

StoreStep ==
    \E req \in wire : StoreApply(req) /\ UNCHANGED <<pushVars, events>>

(* Every request has been answered and the wire is empty.                   *)
Terminating ==
    /\ \A p \in Pushers : pc[p] = "done"
    /\ wire = {}
    /\ UNCHANGED vars

Next == (\E p \in Pushers : PushStep(p)) \/ StoreStep \/ Terminating

Spec == Init /\ [][Next]_vars
-----------------------------------------------------------------------------
(* Properties. *)

(* Every variable keeps its type. *)
TypeOK ==
    /\ StoreTypeOK
    /\ pc \in [Pushers -> Stages]
    /\ cmds \in [Pushers -> Update]
    /\ base \in [Pushers -> Nat]
    /\ ws \in [Pushers -> RefMaps]
    /\ made \in [Pushers -> Manifest]
    /\ todo \in [Pushers -> SUBSET SUBSET Commits]
    /\ reply \in [Pushers -> Replies]
    /\ events \in Seq(RefMaps)

(* One line of history: every pointer write replaces exactly the manifest   *)
(* its own manifest names as parent, the one its workspace was hydrated     *)
(* from, and no digest is ever published twice.  The second half is what    *)
(* lets an ETag derived from the pointer's body stand for a version: a      *)
(* pointer that came back to an earlier body would let a push hydrated      *)
(* long ago win its CAS.                                                    *)
LinearHistory ==
    /\ \A i \in DOMAIN history :
          /\ ManifestAt(history[i].digest).parent = history[i].from
          /\ i > 1 => history[i].from = history[i - 1].digest
    /\ \A i, j \in DOMAIN history :
          i < j => history[i].digest # history[j].digest

(* The digests somebody may hold: a clone that read the pointer and is      *)
(* still fetching packs, a push whose workspace is being hydrated.          *)
HeldDigests ==
    {pointer} \cup {history[i].digest : i \in DOMAIN history}
              \cup {base[p] : p \in Pushers}

(* Whoever holds a digest that was ever published finds a manifest that     *)
(* validates, with all its packs in the store, whose packs hold all that    *)
(* its refs reach and whose HEAD is a branch if it has one: neither a delta *)
(* against a parent that lost the race, nor compaction, nor a dead or       *)
(* refused push leaves a repository that cannot be cloned.                  *)
AlwaysClonable ==
    \A d \in HeldDigests :
        LET m == ManifestAt(d)
        IN  /\ Validate(m)
            /\ m.packs \subseteq packs
            /\ Closure(m.refs) \subseteq UNION m.packs
            /\ Branches \cap Existing(m.refs) # {} => m.head \in Existing(m.refs)

(* ... and its packs are within the limits that hydration enforces: what a  *)
(* relay lets in it can also serve.                                         *)
HydratesWithinLimits == \A d \in HeldDigests : Materializable(ManifestAt(d))

(* A push that is told 2xx has its refs in a stored ref-state event.        *)
SuccessIsAnnounced ==
    \A p \in Pushers : reply[p] = "ok" =>
        \E i \in DOMAIN history, e \in DOMAIN events :
            /\ history[i].who = p
            /\ events[e] = manifests[history[i].digest].refs

(* The refs of the published manifest as a register. *)
Register == INSTANCE RefRegister WITH
    refs    <- PublishedRefs,
    asked   <- cmds,
    applied <- {p \in Pushers : Published(p)}

(* Pushes implement an atomic register of refs: each takes effect at most   *)
(* once, all of it, on refs that still have the values its client saw; a    *)
(* 2xx or "push committed" means it did, a rejection, refusal or conflict   *)
(* that it never will.  Announcements beside them do not show in it.        *)
AtomicRefs == Register!RegisterSpec
=============================================================================
