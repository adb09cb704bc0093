-------------------------- MODULE GitPublishProofs --------------------------
(***************************************************************************)
(* Proofs about pushes, alone and beside announcements of the repository,  *)
(* for any number of pushers, announcers, refs and commits, any history    *)
(* graph and any limits.                                                   *)
(***************************************************************************)
EXTENDS GitHosting, FiniteSetTheorems, SequenceTheorems, WellFoundedInduction,
        TLAPS

(* The stages after m_after was put in the store. *)
AfterPut == {"stored", "waiting", "committed", "announced", "unannounced"}

(* Every digest in use names a stored manifest. *)
Bounded ==
    /\ pointer <= Len(manifests)
    /\ \A p \in Pushers : base[p] <= Len(manifests)
    /\ \A req \in wire : req.body \in 1..Len(manifests)
    /\ \A i \in 1..Len(history) : history[i].digest \in 1..Len(manifests)
    /\ \A p \in Pushers : pc[p] \in AfterPut =>
          \E d \in 1..Len(manifests) : manifests[d] = made[p]

Typed == TypeOK /\ Bounded

-----------------------------------------------------------------------------
(* Manifests *)

LEMMA NoRefsType == NoRefs \in RefMaps
BY DEF NoRefs, RefMaps

LEMMA EmptyManifestType == EmptyManifest \in Manifest
<1>1. BranchPref[1] \in Refs
  BY BranchPrefAssumption, ElementOfSeq, EmptySeq
<1>2. QED
  BY <1>1, NoRefsType DEF EmptyManifest, Manifest

LEMMA ParentType ==
    ASSUME Typed, NEW p \in Pushers
    PROVE  /\ Parent(p) \in Manifest
           /\ Parent(p).head \in Refs
           /\ Parent(p).refs \in RefMaps
           /\ Parent(p).packs \subseteq SUBSET Commits
<1>1. Parent(p) \in Manifest
  BY EmptyManifestType
     DEF Typed, TypeOK, StoreTypeOK, Bounded, Parent, ManifestAt
<1>2. QED
  BY <1>1 DEF Manifest

(* A non-empty set of indices has a least one. *)
LEMMA Least ==
    ASSUME NEW S, S \subseteq Nat, S # {}
    PROVE  \E i \in S : \A j \in S : i <= j
<1>1. PICK i \in S : \A j \in S : ~(<<j, i>> \in OpToRel(<, Nat))
  BY NatLessThanWellFounded, WFMin
<1>2. ASSUME NEW j \in Nat, NEW k \in Nat, j < k
      PROVE  <<j, k>> \in OpToRel(<, Nat)
  BY <1>2 DEF OpToRel
<1>3. ASSUME NEW j \in S PROVE i <= j
  <2>1. ~(j < i)
    BY <1>1, <1>2
  <2>2. QED
    BY <2>1
<1>4. QED
  BY <1>3

(* The published HEAD is a ref name, and names a branch if there is one. *)
LEMMA PublishedHead ==
    ASSUME NEW refs \in RefMaps, NEW observed \in Refs
    PROVE  /\ resolve_published_head(refs, observed) \in Refs
           /\ Branches \cap Existing(refs) # {} =>
                 resolve_published_head(refs, observed) \in Existing(refs)
<1> DEFINE live == {i \in DOMAIN BranchPref : BranchPref[i] \in Existing(refs)}
           least == CHOOSE i \in live : \A j \in live : i <= j
<1>1. CASE observed \in Branches \cap Existing(refs)
  BY <1>1 DEF resolve_published_head
<1>2. CASE live = {}
  <2>1. Branches \cap Existing(refs) = {}
    BY <1>2 DEF Branches
  <2>2. QED
    BY <1>2, <2>1 DEF resolve_published_head
<1>3. CASE observed \notin Branches \cap Existing(refs) /\ live # {}
  <2>1. live \subseteq Nat
    BY BranchPrefAssumption
  <2>2. least \in live
    BY <1>3, <2>1, Least
  <2>3. resolve_published_head(refs, observed) = BranchPref[least]
    BY <1>3 DEF resolve_published_head
  <2>4. QED
    BY <2>2, <2>3 DEF Existing
<1>4. QED
  BY <1>1, <1>2, <1>3

LEMMA ClosureType ==
    ASSUME NEW refs \in RefMaps
    PROVE  Closure(refs) \subseteq Commits
BY ReachAssumption DEF Closure, Existing, RefMaps

(* What putting a manifest does to the store. *)
LEMMA PutManifestGrows ==
    ASSUME manifests \in Seq(Manifest), NEW m \in Manifest, put_manifest(m)
    PROVE  /\ manifests' \in Seq(Manifest)
           /\ Len(manifests) <= Len(manifests')
           /\ \A d \in 1..Len(manifests) : manifests'[d] = manifests[d]
           /\ \E d \in 1..Len(manifests') : manifests'[d] = m
           /\ \A d \in 1..Len(manifests') :
                 d \in 1..Len(manifests) \/ (manifests'[d] = m /\ d > Len(manifests))
<1>0. DOMAIN manifests = 1..Len(manifests) /\ Len(manifests) \in Nat
  BY LenProperties
<1>1. CASE Stored(m)
  <2>1. manifests' = manifests
    BY <1>1 DEF put_manifest
  <2>2. \E d \in 1..Len(manifests) : manifests[d] = m
    BY <1>0, <1>1 DEF Stored
  <2>3. QED
    BY <1>0, <2>1, <2>2
<1>2. CASE ~Stored(m)
  <2>1. manifests' = Append(manifests, m)
    BY <1>2 DEF put_manifest
  <2>2. Len(manifests') = Len(manifests) + 1
    BY <2>1
  <2>3. manifests'[Len(manifests) + 1] = m
    BY <2>1
  <2>4. \A d \in 1..Len(manifests) : manifests'[d] = manifests[d]
    BY <2>1
  <2>5. manifests' \in Seq(Manifest)
    BY <2>1
  <2>6. QED
    BY <1>0, <2>2, <2>3, <2>4, <2>5
<1>3. QED
  BY <1>1, <1>2

(* Both ways of composing m_after. *)
LEMMA ComposedType ==
    ASSUME Typed, NEW p \in Pushers, NEW P \in SUBSET SUBSET Commits
    PROVE  /\ compose_after(p, P) \in Manifest
           /\ compose_compacted_after(p, P) \in Manifest
<1>1. resolve_published_head(ws[p], Parent(p).head) \in Refs
  BY ParentType, PublishedHead DEF Typed, TypeOK
<1>2. QED
  BY <1>1, ParentType
     DEF Typed, TypeOK, compose_after, compose_compacted_after, Manifest

LEMMA CaptureType ==
    ASSUME Typed, NEW p \in Pushers
    PROVE  capture_pack(p) \in SUBSET SUBSET Commits
BY ClosureType DEF Typed, TypeOK, capture_pack

-----------------------------------------------------------------------------
(* Types *)

LEMMA TypedInit == Init => Typed
<1> SUFFICES ASSUME Init PROVE Typed
  OBVIOUS
<1> USE DEF Init, PushInit, StoreInit
<1>1. manifests \in Seq(Manifest) /\ Len(manifests) = 1
  BY EmptyManifestType
<1>2. history = <<>> /\ events = <<>>
  OBVIOUS
<1>3. StoreTypeOK
  BY <1>1, <1>2 DEF StoreTypeOK
<1>4. /\ cmds \in [Pushers -> Update]
      /\ ws \in [Pushers -> RefMaps]
      /\ made \in [Pushers -> Manifest]
  BY NoRefsType, EmptyManifestType DEF NoUpdate, Update
<1>5. /\ pc \in [Pushers -> Stages]
      /\ base \in [Pushers -> Nat]
      /\ todo \in [Pushers -> SUBSET SUBSET Commits]
      /\ reply \in [Pushers -> Replies]
  BY DEF Stages, Replies
<1>6. events \in Seq(RefMaps)
  BY <1>2
<1>7. Bounded
  BY <1>1, <1>2 DEF Bounded, AfterPut
<1>8. QED
  BY <1>3, <1>4, <1>5, <1>6, <1>7 DEF Typed, TypeOK

(* The eight ways a request ends. *)
Ends(p) ==
    \/ SkipPublish(p) \/ LeaseLost(p) \/ OverLimit(p) \/ ManifestInvalid(p)
    \/ RecvLost(p) \/ Fail(p) \/ Release(p) \/ Crash(p)

LEMMA EndsAnswers ==
    ASSUME NEW p \in Pushers, Ends(p)
    PROVE  /\ \E r \in Replies : Answer(p, r)
           /\ UNCHANGED <<storeVars, events>>
BY DEF Ends, SkipPublish, LeaseLost, OverLimit, ManifestInvalid, RecvLost,
       Fail, Release, Crash, Replies

(* The steps that only move a push on. *)
Moves(p) == HookDeclines(p) \/ Acquire(p) \/ RecvWon(p) \/ AnnounceFails(p)

(* The digest of a stored manifest. *)
LEMMA DigestNames ==
    ASSUME Typed, NEW m, \E d \in 1..Len(manifests) : manifests[d] = m
    PROVE  /\ DigestOf(m) \in 1..Len(manifests)
           /\ manifests[DigestOf(m)] = m
<1>1. DOMAIN manifests = 1..Len(manifests)
  BY LenProperties DEF Typed, TypeOK, StoreTypeOK
<1>2. QED
  BY <1>1 DEF DigestOf

(* A conditional PUT that wins adds one entry to the history. *)
LEMMA StoreWins ==
    ASSUME Typed, NEW req \in wire, StoreApply(req), pointer = req.ifMatch
    PROVE  /\ pointer' = req.body
           /\ Len(history) \in Nat
           /\ Len(history') = Len(history) + 1
           /\ \A i \in 1..Len(history) : history'[i] = history[i]
           /\ history'[Len(history) + 1] =
                 [who |-> req.who, from |-> pointer, digest |-> req.body]
           /\ \A i \in 1..Len(history') : i \in 1..Len(history) \/ i = Len(history) + 1
           /\ history' \in Seq([who: Writers, from: Nat, digest: Nat])
<1>1. /\ pointer' = req.body
      /\ history' = Append(history, [who |-> req.who, from |-> pointer,
                                     digest |-> req.body])
  BY DEF StoreApply
<1>2. history \in Seq([who: Writers, from: Nat, digest: Nat])
  BY DEF Typed, TypeOK, StoreTypeOK
<1>3. [who |-> req.who, from |-> pointer, digest |-> req.body]
        \in [who: Writers, from: Nat, digest: Nat]
  BY DEF Typed, TypeOK, StoreTypeOK, Request
<1>4. QED
  BY <1>1, <1>2, <1>3

LEMMA TypedStep ==
    ASSUME Typed, [Next]_vars
    PROVE  Typed'
<1> USE DEF Typed, TypeOK, StoreTypeOK, Bounded
<1>1. ASSUME NEW p \in Pushers, Advertise(p) PROVE Typed'
  <2>1. PublishedRefs \in RefMaps
    <3>1. CASE pointer = 0
      BY <3>1, NoRefsType DEF PublishedRefs
    <3>2. CASE pointer # 0
      <4>1. manifests[pointer] \in Manifest
        BY <3>2, ElementOfSeq
      <4>2. QED
        BY <3>2, <4>1 DEF PublishedRefs, Manifest
    <3>3. QED
      BY <3>1, <3>2
  <2>2. PICK new \in RefMaps :
           cmds' = [cmds EXCEPT ![p] = [old |-> PublishedRefs, new |-> new]]
    BY <1>1 DEF Advertise
  <2>3. cmds' \in [Pushers -> Update]
    BY <2>1, <2>2 DEF Update
  <2>4. QED
    BY <1>1, <2>3 DEF Advertise, storeVars, Goto, Stages, AfterPut
<1>2. ASSUME NEW p \in Pushers, LoadPointer(p) PROVE Typed'
  BY <1>2 DEF LoadPointer, storeVars, Goto, Stages, AfterPut
<1>3. ASSUME NEW p \in Pushers, Materialize(p) PROVE Typed'
  <2>1. ws' \in [Pushers -> RefMaps]
    BY <1>3, ParentType DEF Materialize
  <2>2. QED
    BY <1>3, <2>1 DEF Materialize, storeVars, Goto, Stages, AfterPut
<1>4. ASSUME NEW p \in Pushers, ReceivePack(p) PROVE Typed'
  <2>1. [r \in Refs |-> IF r \in Touched(p) \ Stale(p) THEN cmds[p].new[r] ELSE ws[p][r]]
           \in RefMaps
    BY DEF RefMaps, Update
  <2>2. ws' \in [Pushers -> RefMaps]
    BY <1>4, <2>1 DEF ReceivePack
  <2>3. QED
    BY <1>4, <2>2 DEF ReceivePack, storeVars, Goto, Stages, AfterPut
<1>5. ASSUME NEW p \in Pushers, Moves(p) PROVE Typed'
  BY <1>5 DEF Moves, HookDeclines, Acquire, RecvWon, AnnounceFails, storeVars, Goto,
              Stages, AfterPut
<1>6. ASSUME NEW p \in Pushers, Ends(p) PROVE Typed'
  <2>1. PICK r \in Replies : Answer(p, r)
    BY <1>6, EndsAnswers
  <2>2. UNCHANGED <<storeVars, events>>
    BY <1>6, EndsAnswers
  <2>3. /\ ws' \in [Pushers -> RefMaps]
        /\ made' \in [Pushers -> Manifest]
    BY <2>1, NoRefsType, EmptyManifestType DEF Answer
  <2>4. /\ pc' = [pc EXCEPT ![p] = "done"]
        /\ made' = [made EXCEPT ![p] = EmptyManifest]
        /\ base' = [base EXCEPT ![p] = 0]
    BY <2>1 DEF Answer
  <2>5. Bounded'
    <3>1. \A q \in Pushers : pc'[q] \in AfterPut => q # p /\ pc[q] \in AfterPut
      BY <2>4 DEF AfterPut
    <3>2. \A q \in Pushers : q # p => made'[q] = made[q]
      BY <2>4
    <3>3. UNCHANGED <<pointer, manifests, wire, history>>
      BY <2>2 DEF storeVars
    <3>4. \A q \in Pushers : pc'[q] \in AfterPut =>
             \E d \in 1..Len(manifests') : manifests'[d] = made'[q]
      BY <3>1, <3>2, <3>3
    <3>5. \A q \in Pushers : base'[q] <= Len(manifests')
      BY <2>4, <3>3
    <3>6. QED
      BY <3>3, <3>4, <3>5
  <2>6. TypeOK'
    BY <2>1, <2>2, <2>3 DEF storeVars, Answer, Stages
  <2>7. QED
    BY <2>5, <2>6
<1>7. ASSUME NEW p \in Pushers, CaptureCompacted(p) PROVE Typed'
  <2>1. PICK P \in Splits(Closure(ws[p])) :
           /\ made' = [made EXCEPT ![p] = compose_compacted_after(p, P)]
           /\ todo' = [todo EXCEPT ![p] = P]
    BY <1>7 DEF CaptureCompacted
  <2>2. P \in SUBSET SUBSET Commits
    BY <2>1, ClosureType DEF Splits
  <2>3. QED
    BY <1>7, <2>1, <2>2, ComposedType
       DEF CaptureCompacted, storeVars, Goto, Stages, AfterPut
<1>8. ASSUME NEW p \in Pushers, CaptureDelta(p) PROVE Typed'
  BY <1>8, CaptureType, ComposedType
     DEF CaptureDelta, storeVars, Goto, Stages, AfterPut
<1>9. ASSUME NEW p \in Pushers, PutPack(p) PROVE Typed'
  BY <1>9 DEF PutPack, put_pack
<1>10. ASSUME NEW p \in Pushers, PutManifest(p) PROVE Typed'
  <2>1. /\ manifests' \in Seq(Manifest)
        /\ Len(manifests) <= Len(manifests')
        /\ \A d \in 1..Len(manifests) : manifests'[d] = manifests[d]
        /\ \E d \in 1..Len(manifests') : manifests'[d] = made[p]
    BY <1>10, PutManifestGrows DEF PutManifest
  <2>2. \A q \in Pushers : pc'[q] \in AfterPut =>
           \E d \in 1..Len(manifests') : manifests'[d] = made'[q]
    <3>1. made' = made /\ \A q \in Pushers : q # p => pc'[q] = pc[q]
      BY <1>10 DEF PutManifest, Goto
    <3>2. \A d \in 1..Len(manifests) : d \in 1..Len(manifests')
      BY <2>1
    <3>3. ASSUME NEW q \in Pushers, q # p, pc'[q] \in AfterPut
          PROVE  \E d \in 1..Len(manifests') : manifests'[d] = made[q]
      <4>1. PICK d \in 1..Len(manifests) : manifests[d] = made[q]
        BY <3>1, <3>3
      <4>2. QED
        BY <2>1, <3>2, <4>1
    <3>4. QED
      BY <2>1, <3>1, <3>3
  <2>3. QED
    BY <1>10, <2>1, <2>2 DEF PutManifest, Goto, Stages
<1>11. ASSUME NEW p \in Pushers, SendCas(p) PROVE Typed'
  <2>1. DigestOf(made[p]) \in 1..Len(manifests)
    BY <1>11, DigestNames DEF SendCas, AfterPut
  <2>2. QED
    BY <1>11, <2>1, PushersAssumption
       DEF SendCas, put_pointer, Request, Goto, Stages, AfterPut
<1>12. ASSUME NEW p \in Pushers, Announce(p) PROVE Typed'
  <2>1. made[p].refs \in RefMaps
    BY DEF Manifest
  <2>2. QED
    BY <1>12, <2>1 DEF Announce, storeVars, Goto, Stages, AfterPut
<1>13. ASSUME NEW req \in wire, StoreApply(req), UNCHANGED <<pushVars, events>>
       PROVE  Typed'
  <2>1. /\ wire' \subseteq wire
        /\ UNCHANGED <<manifests, packs, pc, cmds, base, ws, made, todo, reply, events>>
        /\ answer' \in [Writers -> {"none", "won", "lost"}]
    BY <1>13 DEF StoreApply, pushVars, Request
  <2>2. CASE pointer = req.ifMatch
    <3>1. req.body \in 1..Len(manifests) /\ req.body \in Nat
      BY DEF Request
    <3>2. /\ pointer' = req.body
          /\ history' \in Seq([who: Writers, from: Nat, digest: Nat])
      BY <1>13, <2>2, StoreWins
    <3>3. /\ \A i \in 1..Len(history) : history'[i] = history[i]
          /\ history'[Len(history) + 1] =
                [who |-> req.who, from |-> pointer, digest |-> req.body]
          /\ \A i \in 1..Len(history') : i \in 1..Len(history) \/ i = Len(history) + 1
      BY <1>13, <2>2, StoreWins
    <3>4. ASSUME NEW i \in 1..Len(history')
          PROVE  history'[i].digest \in 1..Len(manifests)
      <4>1. CASE i \in 1..Len(history)
        BY <3>3, <4>1
      <4>2. CASE i = Len(history) + 1
        BY <3>1, <3>3, <4>2
      <4>3. QED
        BY <3>3, <4>1, <4>2
    <3>5. TypeOK'
      BY <2>1, <3>1, <3>2
    <3>6. Bounded'
      BY <2>1, <3>1, <3>2, <3>4
    <3>7. QED
      BY <3>5, <3>6
  <2>3. CASE pointer # req.ifMatch
    <3>1. UNCHANGED <<pointer, history>>
      BY <1>13, <2>3 DEF StoreApply
    <3>2. QED
      BY <2>1, <3>1
  <2>4. QED
    BY <2>2, <2>3
<1>14. CASE UNCHANGED vars
  BY <1>14 DEF vars, storeVars, pushVars
<1>15. QED
  BY <1>1, <1>2, <1>3, <1>4, <1>5, <1>6, <1>7, <1>8, <1>9, <1>10, <1>11, <1>12,
     <1>13, <1>14
     DEF Next, PushStep, StoreStep, Terminating, Moves, Ends

(* Every variable keeps its type, and every digest in use is that of a     *)
(* manifest in the store (hydrate.rs and cas_publish.rs never meet a       *)
(* pointer, a parent or a CAS body that names nothing).                    *)
THEOREM PushTypes == Spec => []TypeOK
<1>1. Typed /\ [Next]_vars => Typed'
  BY TypedStep
<1>2. Typed => TypeOK
  BY DEF Typed
<1>3. QED
  BY TypedInit, <1>1, <1>2, PTL DEF Spec

-----------------------------------------------------------------------------
(* One line of history *)

(* The stages in which m_after is composed. *)
Composed == {"compacting", "upload"} \cup AfterPut

(* A manifest is younger than its parent: a digest can only be named once   *)
(* it exists.                                                               *)
Older == \A d \in 1..Len(manifests) : manifests[d].parent < d

(* m_after and the precondition of its CAS come from one pointer read. *)
Derived ==
    /\ \A p \in Pushers : pc[p] \in Composed => made[p].parent = base[p]
    /\ \A req \in wire : manifests[req.body].parent = req.ifMatch

(* The writes that took effect, oldest first, have growing digests. *)
Rising ==
    /\ \A i \in 1..Len(history) :
          /\ manifests[history[i].digest].parent = history[i].from
          /\ i > 1 => history[i].from = history[i - 1].digest
          /\ history[i].digest <= pointer
    /\ \A i, j \in 1..Len(history) :
          i < j => history[i].digest < history[j].digest
    /\ Len(history) > 0 => pointer = history[Len(history)].digest

Line == Older /\ Derived /\ Rising

LEMMA LineInit == Init => Line
<1> SUFFICES ASSUME Init PROVE Line
  OBVIOUS
<1>1. manifests = <<EmptyManifest>> /\ history = <<>> /\ wire = {}
  BY DEF Init, StoreInit
<1>2. Older
  BY <1>1 DEF Older, EmptyManifest
<1>3. Derived
  BY <1>1 DEF Derived, Init, PushInit, Composed, AfterPut
<1>4. Rising
  BY <1>1 DEF Rising
<1>5. QED
  BY <1>2, <1>3, <1>4 DEF Line

LEMMA LineStep ==
    ASSUME Typed, Line, [Next]_vars
    PROVE  Line'
<1> USE DEF Typed, TypeOK, StoreTypeOK
(* Most steps leave the store's history alone. *)
<1>0. ASSUME UNCHANGED <<pointer, manifests, wire, history>>,
             \A p \in Pushers : pc'[p] \in Composed => made'[p].parent = base'[p]
      PROVE  Line'
  BY <1>0 DEF Line, Older, Derived, Rising
<1>1. ASSUME NEW p \in Pushers,
             \/ Advertise(p) \/ LoadPointer(p) \/ Materialize(p) \/ ReceivePack(p)
      PROVE  Line'
  BY <1>0, <1>1
     DEF Advertise, LoadPointer, Materialize, ReceivePack, storeVars, Goto,
         Line, Derived, Composed, AfterPut
<1>2. ASSUME NEW p \in Pushers, Moves(p) \/ Announce(p) PROVE Line'
  BY <1>0, <1>2
     DEF Moves, HookDeclines, Acquire, RecvWon, AnnounceFails, Announce, storeVars,
         Goto, Line, Derived, Composed, AfterPut
<1>3. ASSUME NEW p \in Pushers, Ends(p) PROVE Line'
  <2>1. PICK r \in Replies : Answer(p, r)
    BY <1>3, EndsAnswers
  <2>2. UNCHANGED storeVars
    BY <1>3, EndsAnswers
  <2>3. QED
    BY <1>0, <2>1, <2>2 DEF storeVars, Answer, Line, Derived, Composed, AfterPut
<1>4. ASSUME NEW p \in Pushers, CaptureCompacted(p) PROVE Line'
  <2>1. PICK P : made' = [made EXCEPT ![p] = compose_compacted_after(p, P)]
    BY <1>4 DEF CaptureCompacted
  <2>2. compose_compacted_after(p, P).parent = base[p]
    BY DEF compose_compacted_after
  <2>3. QED
    BY <1>0, <1>4, <2>1, <2>2
       DEF CaptureCompacted, storeVars, Goto, Line, Derived
<1>5. ASSUME NEW p \in Pushers, CaptureDelta(p) PROVE Line'
  <2>1. compose_after(p, capture_pack(p)).parent = base[p]
    BY DEF compose_after
  <2>2. QED
    BY <1>0, <1>5, <2>1 DEF CaptureDelta, storeVars, Goto, Line, Derived
<1>6. ASSUME NEW p \in Pushers, PutPack(p) PROVE Line'
  BY <1>0, <1>6 DEF PutPack, Line, Derived
<1>7. ASSUME NEW p \in Pushers, PutManifest(p) PROVE Line'
  <2>1. /\ \A d \in 1..Len(manifests) : manifests'[d] = manifests[d]
        /\ \A d \in 1..Len(manifests') :
              d \in 1..Len(manifests) \/ (manifests'[d] = made[p] /\ d > Len(manifests))
        /\ Len(manifests') \in Nat
    BY <1>7, PutManifestGrows, LenProperties DEF PutManifest
  <2>2. made[p].parent = base[p] /\ base[p] <= Len(manifests)
    BY <1>7 DEF PutManifest, Line, Derived, Composed, Bounded
  <2>3. ASSUME NEW d \in 1..Len(manifests') PROVE manifests'[d].parent < d
    <3>1. CASE d \in 1..Len(manifests)
      BY <2>1, <3>1 DEF Line, Older
    <3>2. CASE manifests'[d] = made[p] /\ d > Len(manifests)
      <4>1. Len(manifests) \in Nat /\ d \in Nat /\ base[p] \in Nat
        BY <2>1, LenProperties
      <4>2. QED
        BY <2>2, <3>2, <4>1
    <3>3. QED
      BY <2>1, <3>1, <3>2
  <2>4. Derived'
    BY <1>7, <2>1 DEF PutManifest, Goto, Line, Derived, Composed, AfterPut, Bounded
  <2>5. Rising'
    BY <1>7, <2>1 DEF PutManifest, Line, Rising, Bounded
  <2>6. QED
    BY <2>3, <2>4, <2>5 DEF Line, Older
<1>8. ASSUME NEW p \in Pushers, SendCas(p) PROVE Line'
  <2>1. made[p].parent = base[p]
    BY <1>8 DEF SendCas, Line, Derived, Composed, AfterPut
  <2>2. manifests[DigestOf(made[p])] = made[p]
    BY <1>8, DigestNames DEF SendCas, Bounded, AfterPut
  <2>3. Derived'
    BY <1>8, <2>1, <2>2 DEF SendCas, put_pointer, Goto, Line, Derived, Composed, AfterPut
  <2>4. QED
    BY <1>8, <2>3 DEF SendCas, Line, Older, Rising
<1>9. ASSUME NEW req \in wire, StoreApply(req), UNCHANGED <<pushVars, events>>
      PROVE  Line'
  <2>1. wire' \subseteq wire /\ UNCHANGED <<manifests, pc, made, base>>
    BY <1>9 DEF StoreApply, pushVars
  <2>2. Older' /\ Derived'
    BY <2>1 DEF Line, Older, Derived
  <2>3. CASE pointer = req.ifMatch
    <3>0. /\ pointer' = req.body
          /\ Len(history) \in Nat
          /\ Len(history') = Len(history) + 1
          /\ \A i \in 1..Len(history) : history'[i] = history[i]
          /\ history'[Len(history) + 1] =
                [who |-> req.who, from |-> pointer, digest |-> req.body]
          /\ \A i \in 1..Len(history') : i \in 1..Len(history) \/ i = Len(history) + 1
      BY <1>9, <2>3, StoreWins
    <3>1. pointer < req.body /\ req.body \in 1..Len(manifests)
      BY <2>3 DEF Line, Older, Derived, Bounded
    <3>2. ASSUME NEW i \in 1..Len(history')
          PROVE  /\ manifests[history'[i].digest].parent = history'[i].from
                 /\ i > 1 => history'[i].from = history'[i - 1].digest
                 /\ history'[i].digest <= pointer'
      <4>1. CASE i \in 1..Len(history)
        <5>1. i > 1 => i - 1 \in 1..Len(history)
          BY <4>1, <3>0
        <5>2. history[i].digest \in Nat /\ history[i].digest <= pointer
          BY <4>1 DEF Line, Rising, Bounded
        <5>3. history'[i].digest <= pointer'
          BY <3>0, <3>1, <4>1, <5>2
        <5>4. history'[i] = history[i] /\ (i > 1 => history'[i - 1] = history[i - 1])
          BY <3>0, <4>1, <5>1
        <5>5. /\ manifests[history[i].digest].parent = history[i].from
              /\ i > 1 => history[i].from = history[i - 1].digest
          BY <4>1 DEF Line, Rising
        <5>6. QED
          BY <5>3, <5>4, <5>5
      <4>2. CASE i = Len(history) + 1
        <5>1. i > 1 => pointer = history[i - 1].digest /\ i - 1 \in 1..Len(history)
          BY <3>0, <4>2 DEF Line, Rising
        <5>2. manifests[req.body].parent = pointer
          BY <2>3 DEF Line, Derived
        <5>3. QED
          BY <3>0, <3>1, <4>2, <5>1, <5>2
      <4>3. QED
        BY <3>0, <4>1, <4>2
    <3>3. ASSUME NEW i \in 1..Len(history'), NEW j \in 1..Len(history'), i < j
          PROVE  history'[i].digest < history'[j].digest
      <4>1. i \in 1..Len(history)
        BY <3>0, <3>3
      <4>2. CASE j \in 1..Len(history)
        BY <3>0, <3>3, <4>1, <4>2 DEF Line, Rising
      <4>3. CASE j = Len(history) + 1
        <5>1. history[i].digest \in Nat /\ history[i].digest <= pointer
          BY <4>1 DEF Line, Rising, Bounded
        <5>2. QED
          BY <3>0, <3>1, <4>1, <4>3, <5>1
      <4>4. QED
        BY <3>0, <4>2, <4>3
    <3>4. pointer' = history'[Len(history')].digest
      BY <3>0
    <3>5. Rising'
      BY <2>1, <3>2, <3>3, <3>4 DEF Rising
    <3>6. QED
      BY <2>2, <3>5 DEF Line
  <2>4. CASE pointer # req.ifMatch
    BY <1>9, <2>1, <2>2, <2>4 DEF StoreApply, Line, Rising
  <2>5. QED
    BY <2>3, <2>4
<1>10. CASE UNCHANGED vars
  BY <1>0, <1>10 DEF vars, storeVars, pushVars, Line, Derived
<1>11. QED
  BY <1>1, <1>2, <1>3, <1>4, <1>5, <1>6, <1>7, <1>8, <1>9, <1>10
     DEF Next, PushStep, StoreStep, Terminating, Moves, Ends

LEMMA LineIsLinear == Typed /\ Line => LinearHistory
<1> SUFFICES ASSUME Typed, Line PROVE LinearHistory
  OBVIOUS
<1>1. DOMAIN history = 1..Len(history)
  BY LenProperties DEF Typed, TypeOK, StoreTypeOK
<1>2. \A i \in 1..Len(history) : history[i].digest \in Nat \ {0}
  BY DEF Typed, TypeOK, StoreTypeOK, Bounded
<1>3. \A i \in 1..Len(history) :
         ManifestAt(history[i].digest) = manifests[history[i].digest]
  BY <1>2 DEF ManifestAt
<1>4. \A i, j \in 1..Len(history) :
         i < j => history[i].digest # history[j].digest
  BY <1>2 DEF Line, Rising
<1>5. QED
  BY <1>1, <1>3, <1>4 DEF LinearHistory, Line, Rising

(* Every pointer write replaces exactly the manifest its own manifest      *)
(* names as parent, and no digest is published twice, however many pushes  *)
(* run, die, time out or land late (the If-Match of put_pointer is enough  *)
(* although an ETag stands for a body and not for a version).              *)
THEOREM OneLine == Spec => []LinearHistory
<1>1. Typed /\ Line /\ [Next]_vars => Typed' /\ Line'
  BY TypedStep, LineStep
<1>2. Typed /\ Line => LinearHistory
  BY LineIsLinear
<1>3. QED
  BY TypedInit, LineInit, <1>1, <1>2, PTL DEF Spec

-----------------------------------------------------------------------------
(* What is published can be cloned *)

(* The packs of m hold what its refs reach, and HEAD is a branch if m has   *)
(* one.                                                                     *)
Whole(m) ==
    /\ Closure(m.refs) \subseteq UNION m.packs
    /\ Branches \cap Existing(m.refs) # {} => m.head \in Existing(m.refs)

(* So it is for every manifest in the store, published or not ...           *)
Sound ==
    \A d \in 1..Len(manifests) :
        /\ Validate(manifests[d])
        /\ manifests[d].packs \subseteq packs
        /\ Whole(manifests[d])

(* ... and for every m_after on its way there, its packs being uploaded.    *)
Pending ==
    \A p \in Pushers : pc[p] \in {"compacting", "upload"} =>
        /\ Whole(made[p])
        /\ made[p].packs \subseteq packs \cup todo[p]

LEMMA EmptySound == Validate(EmptyManifest) /\ Whole(EmptyManifest)
<1>1. Existing(NoRefs) = {}
  BY DEF Existing, NoRefs
<1>2. Closure(NoRefs) = {}
  BY <1>1 DEF Closure
<1>3. Cardinality({}) = 0
  BY FS_EmptySet
<1>4. QED
  BY <1>1, <1>2, <1>3, BranchPrefAssumption, LimitsAssumption
     DEF Validate, Whole, EmptyManifest

LEMMA ParentSound ==
    ASSUME Typed, Sound, NEW p \in Pushers
    PROVE  Parent(p).packs \subseteq packs /\ Whole(Parent(p))
<1>1. CASE base[p] = 0
  BY <1>1, EmptySound DEF Parent, ManifestAt, EmptyManifest
<1>2. CASE base[p] # 0
  <2>1. base[p] \in 1..Len(manifests)
    BY <1>2, LenProperties DEF Typed, TypeOK, StoreTypeOK, Bounded
  <2>2. Parent(p) = manifests[base[p]]
    BY <1>2 DEF Parent, ManifestAt
  <2>3. QED
    BY <2>1, <2>2 DEF Sound
<1>3. QED
  BY <1>1, <1>2

(* A compacted pack set holds everything by itself. *)
LEMMA CompactedWhole ==
    ASSUME Typed, NEW p \in Pushers, NEW P \in Splits(Closure(ws[p]))
    PROVE  /\ Whole(compose_compacted_after(p, P))
           /\ compose_compacted_after(p, P).packs = P
<1> DEFINE m == compose_compacted_after(p, P)
<1>1. /\ m.refs = ws[p] /\ m.packs = P
      /\ m.head = resolve_published_head(ws[p], Parent(p).head)
  BY DEF compose_compacted_after
<1>2. UNION P = Closure(ws[p])
  BY DEF Splits
<1>3. Branches \cap Existing(ws[p]) # {} =>
         resolve_published_head(ws[p], Parent(p).head) \in Existing(ws[p])
  BY ParentType, PublishedHead DEF Typed, TypeOK
<1> HIDE DEF m
<1>4. Whole(m)
  BY <1>1, <1>2, <1>3 DEF Whole
<1>5. QED
  BY <1>1, <1>4 DEF m

(* A delta leans on packs its parent has. *)
LEMMA DeltaWhole ==
    ASSUME Typed, Sound, NEW p \in Pushers
    PROVE  /\ Whole(compose_after(p, capture_pack(p)))
           /\ compose_after(p, capture_pack(p)).packs
                 \subseteq packs \cup capture_pack(p)
<1> DEFINE m == compose_after(p, capture_pack(p))
<1>1. /\ m.refs = ws[p] /\ m.packs = Parent(p).packs \cup capture_pack(p)
      /\ m.head = resolve_published_head(ws[p], Parent(p).head)
  BY DEF compose_after
<1>2. /\ Parent(p).packs \subseteq packs
      /\ Closure(Parent(p).refs) \subseteq UNION Parent(p).packs
  BY ParentSound DEF Whole
<1>3. Closure(ws[p]) \subseteq UNION (Parent(p).packs \cup capture_pack(p))
  <2>1. CASE Existing(ws[p]) = {}
    BY <2>1 DEF Closure
  <2>2. CASE Existing(ws[p]) # {}
    <3>1. capture_pack(p) = {Closure(ws[p]) \ Closure(Parent(p).refs)}
      BY <2>2 DEF capture_pack
    <3>2. QED
      BY <1>2, <3>1
  <2>3. QED
    BY <2>1, <2>2
<1>4. Branches \cap Existing(ws[p]) # {} =>
         resolve_published_head(ws[p], Parent(p).head) \in Existing(ws[p])
  BY ParentType, PublishedHead DEF Typed, TypeOK
<1> HIDE DEF m
<1>5. Whole(m)
  BY <1>1, <1>3, <1>4 DEF Whole
<1>6. QED
  BY <1>1, <1>2, <1>5 DEF m

LEMMA SoundInit == Init => Sound /\ Pending
<1> SUFFICES ASSUME Init PROVE Sound /\ Pending
  OBVIOUS
<1>1. manifests = <<EmptyManifest>>
  BY DEF Init, StoreInit
<1>2. Sound
  BY <1>1, EmptySound DEF Sound, EmptyManifest
<1>3. Pending
  BY DEF Pending, Init, PushInit
<1>4. QED
  BY <1>2, <1>3

LEMMA SoundStep ==
    ASSUME Typed, Sound, Pending, [Next]_vars
    PROVE  Sound' /\ Pending'
<1> USE DEF Typed, TypeOK, StoreTypeOK
(* Steps that write neither a pack nor a manifest. *)
<1>0. ASSUME UNCHANGED <<manifests, packs>>,
             \A p \in Pushers : pc'[p] \in {"compacting", "upload"} =>
                /\ Whole(made'[p])
                /\ made'[p].packs \subseteq packs \cup todo'[p]
      PROVE  Sound' /\ Pending'
  <2>1. Sound'
    BY <1>0 DEF Sound, Whole, Validate
  <2>2. Pending'
    BY <1>0 DEF Pending, Whole
  <2>3. QED
    BY <2>1, <2>2
<1>1. ASSUME NEW p \in Pushers,
             \/ Advertise(p) \/ LoadPointer(p) \/ Materialize(p) \/ ReceivePack(p)
      PROVE  Sound' /\ Pending'
  BY <1>0, <1>1
     DEF Advertise, LoadPointer, Materialize, ReceivePack, storeVars, Goto, Pending
<1>2. ASSUME NEW p \in Pushers, Moves(p) \/ Announce(p) PROVE Sound' /\ Pending'
  BY <1>0, <1>2
     DEF Moves, HookDeclines, Acquire, RecvWon, AnnounceFails, Announce, storeVars,
         Goto, Pending
<1>3. ASSUME NEW p \in Pushers, Ends(p) PROVE Sound' /\ Pending'
  <2>1. PICK r \in Replies : Answer(p, r)
    BY <1>3, EndsAnswers
  <2>2. UNCHANGED storeVars
    BY <1>3, EndsAnswers
  <2>3. QED
    BY <1>0, <2>1, <2>2 DEF storeVars, Answer, Pending
<1>4. ASSUME NEW p \in Pushers, CaptureCompacted(p) PROVE Sound' /\ Pending'
  <2>1. PICK P \in Splits(Closure(ws[p])) :
           /\ made' = [made EXCEPT ![p] = compose_compacted_after(p, P)]
           /\ todo' = [todo EXCEPT ![p] = P]
    BY <1>4 DEF CaptureCompacted
  <2>2. Whole(made'[p]) /\ made'[p].packs \subseteq packs \cup todo'[p]
    BY <2>1, CompactedWhole
  <2>3. QED
    BY <1>0, <1>4, <2>1, <2>2 DEF CaptureCompacted, storeVars, Goto, Pending
<1>5. ASSUME NEW p \in Pushers, CaptureDelta(p) PROVE Sound' /\ Pending'
  <2>1. /\ made' = [made EXCEPT ![p] = compose_after(p, capture_pack(p))]
        /\ todo' = [todo EXCEPT ![p] = capture_pack(p)]
    BY <1>5 DEF CaptureDelta
  <2>2. Whole(made'[p]) /\ made'[p].packs \subseteq packs \cup todo'[p]
    BY <2>1, DeltaWhole
  <2>3. QED
    BY <1>0, <1>5, <2>1, <2>2 DEF CaptureDelta, storeVars, Goto, Pending
<1>6. ASSUME NEW p \in Pushers, PutPack(p) PROVE Sound' /\ Pending'
  <2>1. PICK k \in todo[p] : /\ packs' = packs \cup {k}
                             /\ todo' = [todo EXCEPT ![p] = @ \ {k}]
    BY <1>6 DEF PutPack, put_pack
  <2>2. UNCHANGED <<manifests, pc, made>>
    BY <1>6 DEF PutPack
  <2>3. Sound'
    BY <2>1, <2>2 DEF Sound, Whole, Validate
  <2>4. Pending'
    BY <2>1, <2>2 DEF Pending, Whole
  <2>5. QED
    BY <2>3, <2>4
<1>7. ASSUME NEW p \in Pushers, PutManifest(p) PROVE Sound' /\ Pending'
  <2>1. /\ \A d \in 1..Len(manifests) : manifests'[d] = manifests[d]
        /\ \A d \in 1..Len(manifests') :
              d \in 1..Len(manifests) \/ (manifests'[d] = made[p] /\ d > Len(manifests))
    BY <1>7, PutManifestGrows DEF PutManifest
  <2>2. Validate(made[p]) /\ made[p].packs \subseteq packs /\ Whole(made[p])
    BY <1>7 DEF PutManifest, Pending
  <2>3. packs' = packs
    BY <1>7 DEF PutManifest
  <2>4. Sound'
    BY <2>1, <2>2, <2>3 DEF Sound, Validate, Whole
  <2>5. Pending'
    BY <1>7 DEF PutManifest, Goto, Pending, Whole
  <2>6. QED
    BY <2>4, <2>5
<1>8. ASSUME NEW p \in Pushers, SendCas(p) PROVE Sound' /\ Pending'
  BY <1>0, <1>8 DEF SendCas, Goto, Pending
<1>9. ASSUME NEW req \in wire, StoreApply(req), UNCHANGED <<pushVars, events>>
      PROVE  Sound' /\ Pending'
  BY <1>0, <1>9 DEF StoreApply, pushVars, Pending
<1>10. CASE UNCHANGED vars
  BY <1>0, <1>10 DEF vars, storeVars, pushVars, Pending
<1>11. QED
  BY <1>1, <1>2, <1>3, <1>4, <1>5, <1>6, <1>7, <1>8, <1>9, <1>10
     DEF Next, PushStep, StoreStep, Terminating, Moves, Ends

LEMMA SoundIsClonable == Typed /\ Sound => AlwaysClonable
<1> SUFFICES ASSUME Typed, Sound, NEW d \in HeldDigests
             PROVE  /\ Validate(ManifestAt(d))
                    /\ ManifestAt(d).packs \subseteq packs
                    /\ Whole(ManifestAt(d))
  BY DEF AlwaysClonable, Whole
<1>1. d = 0 \/ d \in 1..Len(manifests)
  BY LenProperties DEF HeldDigests, Typed, TypeOK, StoreTypeOK, Bounded
<1>2. CASE d = 0
  BY <1>2, EmptySound DEF ManifestAt, EmptyManifest
<1>3. CASE d # 0
  BY <1>1, <1>3 DEF ManifestAt, Sound
<1>4. QED
  BY <1>2, <1>3

(* Whatever digest a clone or a push holds, its manifest validates, its    *)
(* packs are stored and hold all its refs reach, and its HEAD is a branch: *)
(* capture_pack's negated tips and compaction lose nothing.                *)
THEOREM Clonable == Spec => []AlwaysClonable
<1>1. Typed /\ Sound /\ Pending /\ [Next]_vars => Typed' /\ Sound' /\ Pending'
  BY TypedStep, SoundStep
<1>2. Typed /\ Sound => AlwaysClonable
  BY SoundIsClonable
<1>3. QED
  BY TypedInit, SoundInit, <1>1, <1>2, PTL DEF Spec

-----------------------------------------------------------------------------
(* What is published can be hydrated *)

(* The units that the packs P are made of. *)
Units(P) == {x \in P \X (Commits \cup {NoCommit}) : x[2] \in x[1] \cup {NoCommit}}

LEMMA FinitelyMany ==
    ASSUME NEW P \in SUBSET SUBSET Commits
    PROVE  IsFiniteSet(P) /\ IsFiniteSet(Units(P)) /\ Cardinality(Units(P)) \in Nat
<1>1. IsFiniteSet(P)
  BY CommitsAssumption, FS_SUBSET, FS_Subset
<1>2. IsFiniteSet(P \X (Commits \cup {NoCommit}))
  BY <1>1, CommitsAssumption, FS_AddElement, FS_Product
<1>3. Units(P) \subseteq P \X (Commits \cup {NoCommit})
  BY DEF Units
<1>4. QED
  BY <1>1, <1>2, <1>3, FS_Subset, FS_CardinalityType

(* A pack on its own counts its commits and its header. *)
LEMMA OnePack ==
    ASSUME NEW k \in SUBSET Commits
    PROVE  /\ Cardinality(Units({k})) = PackBytes(k)
           /\ IsFiniteSet(k) /\ PackBytes(k) \in Nat
<1>1. IsFiniteSet(k) /\ Cardinality(k) \in Nat
  BY CommitsAssumption, FS_Subset, FS_CardinalityType
<1>2. NoCommit \notin k
  BY NoCommitAssumption
<1>3. /\ IsFiniteSet(k \cup {NoCommit})
      /\ Cardinality(k \cup {NoCommit}) = Cardinality(k) + 1
  BY <1>1, <1>2, FS_AddElement
<1>4. Units({k}) = {k} \X (k \cup {NoCommit})
  BY DEF Units
<1>5. IsFiniteSet({k}) /\ Cardinality({k}) = 1
  BY FS_Singleton
<1>6. Cardinality(Units({k})) = Cardinality({k}) * Cardinality(k \cup {NoCommit})
  BY <1>3, <1>4, <1>5, FS_Product
<1>7. \A n \in Nat : 1 * (n + 1) = n + 1
  OBVIOUS
<1>8. Cardinality(Units({k})) = Cardinality(k) + 1
  BY <1>1, <1>3, <1>5, <1>6, <1>7
<1>9. QED
  BY <1>1, <1>8 DEF PackBytes

(* Another pack adds at most its own size. *)
LEMMA BytesAdd ==
    ASSUME NEW P \in SUBSET SUBSET Commits, NEW k \in SUBSET Commits
    PROVE  /\ TotalBytes(P) \in Nat /\ TotalBytes(P \cup {k}) \in Nat
           /\ TotalBytes(P \cup {k}) <= TotalBytes(P) + PackBytes(k)
<1>1. Units(P \cup {k}) = Units(P) \cup Units({k})
  BY DEF Units
<1>2. /\ IsFiniteSet(Units(P)) /\ Cardinality(Units(P)) \in Nat
      /\ IsFiniteSet(Units({k})) /\ Cardinality(Units({k})) \in Nat
      /\ Cardinality(Units(P \cup {k})) \in Nat
  BY FinitelyMany
<1>3. /\ IsFiniteSet(Units(P) \cap Units({k}))
      /\ Cardinality(Units(P) \cap Units({k})) \in Nat
  BY <1>2, FS_Intersection, FS_CardinalityType
<1>4. Cardinality(Units(P) \cup Units({k})) =
        Cardinality(Units(P)) + Cardinality(Units({k})) - Cardinality(Units(P) \cap Units({k}))
  BY <1>2, FS_Union
<1>5. /\ TotalBytes(P) = Cardinality(Units(P))
      /\ TotalBytes(P \cup {k}) = Cardinality(Units(P \cup {k}))
  BY DEF TotalBytes, Units
<1>6. Cardinality(Units({k})) = PackBytes(k)
  BY OnePack
<1>7. Cardinality(Units(P \cup {k})) =
        Cardinality(Units(P)) + PackBytes(k) - Cardinality(Units(P) \cap Units({k}))
  BY <1>1, <1>4, <1>6, Zenon
<1>8. \A t, a, b, c \in Nat : t = a + b - c => t <= a + b
  OBVIOUS
<1>9. PackBytes(k) \in Nat
  BY OnePack
<1>10. Cardinality(Units(P \cup {k})) <= Cardinality(Units(P)) + PackBytes(k)
  BY <1>2, <1>3, <1>7, <1>8, <1>9, Zenon
<1>11. QED
  BY <1>2, <1>5, <1>10, Zenon

(* The limits on bytes that hydration enforces. *)
Light(m) ==
    /\ \A k \in m.packs : PackBytes(k) <= MaxPackBytes
    /\ TotalBytes(m.packs) <= MaxRepoBytes

(* They hold of every manifest in the store, and of every m_after on its    *)
(* way there.                                                               *)
Limited ==
    /\ \A d \in 1..Len(manifests) : Light(manifests[d])
    /\ \A p \in Pushers : pc[p] \in {"compacting", "upload"} => Light(made[p])

LEMMA EmptyLight == Light(EmptyManifest)
<1>1. EmptyManifest.packs = {}
  BY DEF EmptyManifest
<1>2. TotalBytes({}) = 0
  <2>1. {x \in {} \X (Commits \cup {NoCommit}) : x[2] \in x[1] \cup {NoCommit}} = {}
    OBVIOUS
  <2>2. QED
    BY <2>1, FS_EmptySet DEF TotalBytes
<1>3. QED
  BY <1>1, <1>2, LimitsAssumption DEF Light

LEMMA LimitedInit == Init => Limited
<1> SUFFICES ASSUME Init PROVE Limited
  OBVIOUS
<1>1. manifests = <<EmptyManifest>> /\ pc = [p \in Pushers |-> "idle"]
  BY DEF Init, StoreInit, PushInit
<1>2. \A d \in 1..Len(manifests) : manifests[d] = EmptyManifest
  BY <1>1
<1>3. QED
  BY <1>1, <1>2, EmptyLight DEF Limited

LEMMA ParentLight ==
    ASSUME Typed, Limited, NEW p \in Pushers
    PROVE  Light(Parent(p)) /\ Parent(p).packs \in SUBSET SUBSET Commits
<1>1. CASE base[p] = 0
  BY <1>1, EmptyLight DEF Parent, ManifestAt, EmptyManifest
<1>2. CASE base[p] # 0
  <2>1. base[p] \in 1..Len(manifests)
    BY <1>2, LenProperties DEF Typed, TypeOK, StoreTypeOK, Bounded
  <2>2. Parent(p) = manifests[base[p]]
    BY <1>2 DEF Parent, ManifestAt
  <2>3. manifests[base[p]] \in Manifest
    BY <2>1 DEF Typed, TypeOK, StoreTypeOK
  <2>4. QED
    BY <2>1, <2>2, <2>3 DEF Limited, Manifest
<1>3. QED
  BY <1>1, <1>2

(* A delta publication that fits leaves the repository within the limits. *)
LEMMA DeltaLight ==
    ASSUME Typed, Limited, NEW p \in Pushers, DeltaFits(p)
    PROVE  Light(compose_after(p, capture_pack(p)))
<1>1. /\ Light(Parent(p)) /\ Parent(p).packs \in SUBSET SUBSET Commits
      /\ compose_after(p, capture_pack(p)).packs = Parent(p).packs \cup capture_pack(p)
  BY ParentLight DEF compose_after
<1>2. CASE capture_pack(p) = {}
  BY <1>1, <1>2 DEF Light
<1>3. CASE capture_pack(p) # {}
  <2> DEFINE k == Closure(ws[p]) \ Closure(Parent(p).refs)
  <2>1. capture_pack(p) = {k}
    BY <1>3 DEF capture_pack
  <2>2. k \in SUBSET Commits
    BY ReachAssumption DEF Closure, Existing, Typed, TypeOK, RefMaps
  <2> HIDE DEF k
  <2>3. /\ PackBytes(k) <= MaxPackBytes
        /\ TotalBytes(Parent(p).packs) + PackBytes(k) <= MaxRepoBytes
    BY <2>1 DEF DeltaFits
  <2>4. /\ TotalBytes(Parent(p).packs) \in Nat
        /\ TotalBytes(Parent(p).packs \cup {k}) \in Nat
        /\ TotalBytes(Parent(p).packs \cup {k}) <= TotalBytes(Parent(p).packs) + PackBytes(k)
        /\ PackBytes(k) \in Nat
    BY <1>1, <2>2, BytesAdd, OnePack
  <2>5. TotalBytes(Parent(p).packs \cup {k}) <= MaxRepoBytes
    BY <2>3, <2>4, LimitsAssumption
  <2>6. QED
    BY <1>1, <2>1, <2>3, <2>5 DEF Light
<1>4. QED
  BY <1>2, <1>3

LEMMA LimitedStep == Typed /\ Limited /\ [Next]_vars => Limited'
<1> SUFFICES ASSUME Typed, Limited, [Next]_vars PROVE Limited'
  OBVIOUS
<1> USE DEF Typed, TypeOK, StoreTypeOK
(* Steps that store no manifest. *)
<1>0. ASSUME UNCHANGED manifests,
             \A p \in Pushers : pc'[p] \in {"compacting", "upload"} => Light(made'[p])
      PROVE  Limited'
  BY <1>0 DEF Limited, Light, TotalBytes, PackBytes
<1>1. ASSUME NEW p \in Pushers,
             \/ Advertise(p) \/ LoadPointer(p) \/ Materialize(p) \/ ReceivePack(p)
      PROVE  Limited'
  BY <1>0, <1>1
     DEF Advertise, LoadPointer, Materialize, ReceivePack, storeVars, Goto, Limited
<1>2. ASSUME NEW p \in Pushers, Moves(p) \/ Announce(p) PROVE Limited'
  BY <1>0, <1>2
     DEF Moves, HookDeclines, Acquire, RecvWon, AnnounceFails, Announce, storeVars,
         Goto, Limited
<1>3. ASSUME NEW p \in Pushers, Ends(p) PROVE Limited'
  <2>1. PICK r \in Replies : Answer(p, r)
    BY <1>3, EndsAnswers
  <2>2. UNCHANGED storeVars
    BY <1>3, EndsAnswers
  <2>3. QED
    BY <1>0, <2>1, <2>2 DEF storeVars, Answer, Limited
<1>4. ASSUME NEW p \in Pushers, CaptureCompacted(p) PROVE Limited'
  <2>1. PICK P \in Splits(Closure(ws[p])) :
           /\ TotalBytes(P) <= MaxRepoBytes
           /\ made' = [made EXCEPT ![p] = compose_compacted_after(p, P)]
    BY <1>4 DEF CaptureCompacted
  <2>2. \A k \in P : PackBytes(k) <= MaxPackBytes
    BY DEF Splits
  <2>3. made'[p].packs = P
    BY <2>1 DEF compose_compacted_after
  <2>4. Light(made'[p])
    BY <2>1, <2>2, <2>3 DEF Light
  <2>5. QED
    BY <1>0, <1>4, <2>1, <2>4 DEF CaptureCompacted, storeVars, Goto, Limited
<1>5. ASSUME NEW p \in Pushers, CaptureDelta(p) PROVE Limited'
  <2>1. /\ DeltaFits(p) /\ pc' = [pc EXCEPT ![p] = "upload"] /\ UNCHANGED manifests
        /\ made' = [made EXCEPT ![p] = compose_after(p, capture_pack(p))]
    BY <1>5 DEF CaptureDelta, Goto, storeVars
  <2>2. Light(made'[p])
    BY <2>1, DeltaLight
  <2>3. QED
    BY <1>0, <2>1, <2>2 DEF Limited
<1>6. ASSUME NEW p \in Pushers, PutPack(p) PROVE Limited'
  BY <1>0, <1>6 DEF PutPack, Limited
<1>7. ASSUME NEW p \in Pushers, PutManifest(p) PROVE Limited'
  <2>1. /\ \A d \in 1..Len(manifests) : manifests'[d] = manifests[d]
        /\ \A d \in 1..Len(manifests') :
              d \in 1..Len(manifests) \/ (manifests'[d] = made[p] /\ d > Len(manifests))
    BY <1>7, PutManifestGrows DEF PutManifest
  <2>2. Light(made[p]) /\ pc' = [pc EXCEPT ![p] = "stored"] /\ made' = made
    BY <1>7 DEF PutManifest, Goto, Limited
  <2>3. \A d \in 1..Len(manifests') : Light(manifests'[d])
    BY <2>1, <2>2 DEF Limited
  <2>4. \A q \in Pushers : pc'[q] \in {"compacting", "upload"} => Light(made'[q])
    BY <2>2 DEF Limited
  <2>5. QED
    BY <2>3, <2>4 DEF Limited, Light, TotalBytes, PackBytes
<1>8. ASSUME NEW p \in Pushers, SendCas(p) PROVE Limited'
  BY <1>0, <1>8 DEF SendCas, Goto, Limited
<1>9. ASSUME NEW req \in wire, StoreApply(req), UNCHANGED <<pushVars, events>>
      PROVE  Limited'
  BY <1>0, <1>9 DEF StoreApply, pushVars, Limited
<1>10. CASE UNCHANGED vars
  BY <1>0, <1>10 DEF vars, storeVars, pushVars, Limited
<1>11. QED
  BY <1>1, <1>2, <1>3, <1>4, <1>5, <1>6, <1>7, <1>8, <1>9, <1>10
     DEF Next, PushStep, StoreStep, Terminating, Moves, Ends

LEMMA LightHydrates == Typed /\ Sound /\ Limited => HydratesWithinLimits
<1> SUFFICES ASSUME Typed, Sound, Limited, NEW d \in HeldDigests
             PROVE  Materializable(ManifestAt(d))
  BY DEF HydratesWithinLimits
<1>1. d = 0 \/ d \in 1..Len(manifests)
  BY LenProperties DEF HeldDigests, Typed, TypeOK, StoreTypeOK, Bounded
<1>2. CASE d = 0
  <2>1. ManifestAt(d) = EmptyManifest /\ EmptyManifest.packs = {}
    BY <1>2 DEF ManifestAt, EmptyManifest
  <2>2. QED
    BY <2>1, EmptySound, EmptyLight DEF Materializable, Light
<1>3. CASE d # 0
  BY <1>1, <1>3 DEF ManifestAt, Sound, Limited, Materializable, Light
<1>4. QED
  BY <1>2, <1>3

(* What a relay lets in it can also serve: whatever digest a clone or a     *)
(* push holds, its packs are in the store, at most MAX_MANIFEST_PACKS, each *)
(* within git_max_pack_bytes and together within git_max_repo_bytes,        *)
(* however deltas, compactions and failed compactions follow each other.    *)
THEOREM Hydrates == Spec => []HydratesWithinLimits
<1>1. Typed /\ Sound /\ Limited => HydratesWithinLimits
  BY LightHydrates
<1>2. QED
  BY TypedInit, SoundInit, LimitedInit, TypedStep, SoundStep, LimitedStep, <1>1, PTL
     DEF Spec

-----------------------------------------------------------------------------
(* Pushes implement RefRegister: a push takes effect where the store        *)
(* applies its conditional PUT, and every other step leaves the register    *)
(* alone or answers.                                                        *)

(* The stages in which the CAS has left, and those in which it has won. *)
Sent == {"waiting", "committed", "announced", "unannounced", "done"}

Won == {"committed", "announced", "unannounced"}

(* The stages in which the workspace holds the push. *)
Merged == {"received", "leased"} \cup Composed

(* A request has its updates once it was posted, and no status until it     *)
(* ends.                                                                    *)
Asked ==
    \A p \in Pushers :
        /\ pc[p] = "idle" => cmds[p] = NoUpdate
        /\ pc[p] # "idle" => cmds[p].new # cmds[p].old
        /\ pc[p] # "done" => reply[p] = "none"

(* A push has one CAS: on the wire, or answered.  A status that denies the  *)
(* push is given when there is none on the wire and none that won.          *)
Once ==
    /\ \A req \in wire : req.who \in Pushers =>
          /\ pc[req.who] \in {"waiting", "done"}
          /\ answer[req.who] = "none"
          /\ reply[req.who] \notin Register!NotApplied
    /\ \A a, b \in wire : a.who \in Pushers /\ a.who = b.who => a = b
    /\ \A i \in 1..Len(history) : history[i].who \in Pushers =>
          answer[history[i].who] = "won"
    /\ \A p \in Pushers :
          /\ pc[p] \notin Sent => answer[p] = "none"
          /\ pc[p] \in Won => answer[p] = "won"
          /\ reply[p] \in Register!Done => answer[p] = "won"
          /\ reply[p] \in Register!NotApplied => answer[p] # "won"
          /\ answer[p] = "won" => \E i \in 1..Len(history) : history[i].who = p

(* Applying c turns the refs `from' into the refs `to'. *)
Effect(c, from, to) ==
    \A r \in Refs :
        /\ c.new[r] # c.old[r] => from[r] = c.old[r]
        /\ to[r] = IF c.new[r] # c.old[r] THEN c.new[r] ELSE from[r]

(* A request that is not a push's seeds an empty repository. *)
Seeding(req) == req.ifMatch = 0 /\ manifests[req.body].refs = NoRefs

(* The workspace, m_after and the CAS body are the parent's refs with the   *)
(* push applied.                                                            *)
Faithful ==
    /\ \A p \in Pushers :
          /\ pc[p] = "work" => ws[p] = Parent(p).refs
          /\ pc[p] \in Merged => Effect(cmds[p], Parent(p).refs, ws[p])
          /\ pc[p] \in Composed => made[p].refs = ws[p]
    /\ \A req \in wire :
          /\ req.ifMatch <= Len(manifests)
          /\ req.who \in Pushers =>
                Effect(cmds[req.who], ManifestAt(req.ifMatch).refs,
                       manifests[req.body].refs)
          /\ req.who \notin Pushers => Seeding(req)

-----------------------------------------------------------------------------
(* With which status a request ends, and from where. *)
LEMMA EndsSafely ==
    ASSUME NEW p \in Pushers, Ends(p)
    PROVE  \E r \in Replies :
              /\ Answer(p, r)
              /\ pc[p] \notin {"idle", "done"}
              /\ r = "ok" => pc[p] = "announced"
              /\ r \in Register!Done => pc[p] \in Won
              /\ r \in Register!NotApplied =>
                    pc[p] \notin Sent \/ (pc[p] = "waiting" /\ answer[p] = "lost")
<1> USE DEF Replies, Register!Done, Register!NotApplied, Sent, Won
<1>1. CASE SkipPublish(p)
  BY <1>1 DEF SkipPublish
<1>2. CASE LeaseLost(p)
  BY <1>2 DEF LeaseLost, Protected
<1>3. CASE OverLimit(p)
  BY <1>3 DEF OverLimit
<1>4. CASE ManifestInvalid(p)
  BY <1>4 DEF ManifestInvalid
<1>5. CASE RecvLost(p)
  BY <1>5 DEF RecvLost
<1>6. CASE Fail(p)
  BY <1>6 DEF Fail
<1>7. CASE Release(p)
  BY <1>7 DEF Release
<1>8. CASE Crash(p)
  BY <1>8 DEF Crash
<1>9. QED
  BY <1>1, <1>2, <1>3, <1>4, <1>5, <1>6, <1>7, <1>8 DEF Ends

LEMMA AskedInit == Init => Asked
BY DEF Init, PushInit, Asked, NoUpdate

LEMMA AskedStep ==
    ASSUME Typed, Asked, [Next]_vars
    PROVE  Asked'
<1> USE DEF Typed, TypeOK
<1>1. ASSUME NEW p \in Pushers, Advertise(p) PROVE Asked'
  <2>1. PICK new \in RefMaps \ {PublishedRefs} :
           cmds' = [cmds EXCEPT ![p] = [old |-> PublishedRefs, new |-> new]]
    BY <1>1 DEF Advertise
  <2>2. /\ cmds'[p].new # cmds'[p].old
        /\ \A q \in Pushers : q # p => cmds'[q] = cmds[q]
    BY <2>1
  <2>3. QED
    BY <1>1, <2>2 DEF Advertise, Goto, Asked
<1>2. ASSUME NEW p \in Pushers,
             \/ LoadPointer(p) \/ Materialize(p) \/ ReceivePack(p) \/ Moves(p)
             \/ CaptureCompacted(p) \/ CaptureDelta(p) \/ PutPack(p) \/ PutManifest(p)
             \/ SendCas(p) \/ Announce(p)
      PROVE  Asked'
  <2>1. cmds' = cmds /\ reply' = reply
    BY <1>2 DEF LoadPointer, Materialize, ReceivePack, Moves, HookDeclines, Acquire,
       RecvWon, AnnounceFails, CaptureCompacted, CaptureDelta, PutPack, PutManifest,
       SendCas, Announce
  <2>2. PICK stage \in Stages \ {"idle", "done"} : pc' = [pc EXCEPT ![p] = stage]
    BY <1>2 DEF LoadPointer, Materialize, ReceivePack, Moves, HookDeclines, Acquire,
       RecvWon, AnnounceFails, CaptureCompacted, CaptureDelta, PutPack, PutManifest,
       SendCas, Announce, Goto, Stages
  <2>3. pc[p] \notin {"idle", "done"}
    BY <1>2 DEF LoadPointer, Materialize, ReceivePack, Moves, HookDeclines, Acquire,
       RecvWon, AnnounceFails, CaptureCompacted, CaptureDelta, PutPack, PutManifest,
       SendCas, Announce
  <2>4. QED
    BY <2>1, <2>2, <2>3 DEF Asked
<1>3. ASSUME NEW p \in Pushers, Ends(p) PROVE Asked'
  <2>1. PICK r \in Replies : Answer(p, r) /\ pc[p] \notin {"idle", "done"}
    BY <1>3, EndsSafely
  <2>2. QED
    BY <2>1 DEF Answer, Asked
<1>4. CASE UNCHANGED pushVars
  BY <1>4 DEF pushVars, Asked
<1>5. QED
  BY <1>1, <1>2, <1>3, <1>4
     DEF Next, PushStep, StoreStep, Terminating, Moves, Ends, vars

LEMMA OnceInit == Init => Once
<1> SUFFICES ASSUME Init PROVE Once
  OBVIOUS
<1>1. history = <<>> /\ wire = {}
  BY DEF Init, StoreInit
<1>2. /\ \A p \in Pushers : answer[p] = "none"
      /\ \A p \in Pushers : pc[p] = "idle" /\ reply[p] = "none"
  BY PushersAssumption DEF Init, StoreInit, PushInit
<1>3. QED
  BY <1>1, <1>2 DEF Once, Won, Register!Done, Register!NotApplied

LEMMA OnceStep ==
    ASSUME Typed, Asked, Once, [Next]_vars
    PROVE  Once'
<1> USE DEF Typed, TypeOK, StoreTypeOK
<1> USE PushersAssumption DEF Register!Done, Register!NotApplied
(* Steps of one push that leave the wire alone. *)
<1>0. ASSUME NEW p \in Pushers,
             UNCHANGED <<wire, answer, history, reply>>,
             \A q \in Pushers : q # p => pc'[q] = pc[q],
             pc[p] = "waiting" => answer[p] = "won",
             pc[p] \in Sent => pc'[p] \in Sent,
             pc'[p] \in Won => pc[p] \in Won \/ answer[p] = "won",
             pc[p] # "done"
      PROVE  Once'
  <2>1. \A req \in wire : req.who \in Pushers => pc'[req.who] \in {"waiting", "done"}
    BY <1>0 DEF Once
  <2>2. \A q \in Pushers : /\ pc'[q] \notin Sent => answer[q] = "none"
                           /\ pc'[q] \in Won => answer[q] = "won"
    BY <1>0 DEF Once, Sent, Won
  <2>3. QED
    BY <1>0, <2>1, <2>2 DEF Once
<1>1. ASSUME NEW p \in Pushers,
             \/ Advertise(p) \/ LoadPointer(p) \/ Materialize(p) \/ ReceivePack(p)
             \/ CaptureCompacted(p) \/ CaptureDelta(p) \/ PutPack(p) \/ PutManifest(p)
      PROVE  Once'
  BY <1>0, <1>1
     DEF Advertise, LoadPointer, Materialize, ReceivePack, CaptureCompacted,
         CaptureDelta, PutPack, PutManifest, storeVars, Goto, Sent, Won
<1>2. ASSUME NEW p \in Pushers, Moves(p) \/ Announce(p) PROVE Once'
  BY <1>0, <1>2
     DEF Moves, HookDeclines, Acquire, RecvWon, AnnounceFails, Announce, storeVars,
         Goto, Sent, Won
<1>3. ASSUME NEW p \in Pushers, Ends(p) PROVE Once'
  <2>1. PICK r \in Replies :
           /\ Answer(p, r)
           /\ pc[p] \notin {"idle", "done"}
           /\ r \in Register!Done => pc[p] \in Won
           /\ r \in Register!NotApplied =>
                 pc[p] \notin Sent \/ (pc[p] = "waiting" /\ answer[p] = "lost")
    BY <1>3, EndsSafely
  <2>2. UNCHANGED <<wire, answer, history>>
    BY <1>3, EndsAnswers DEF storeVars
  <2>3. /\ pc' = [pc EXCEPT ![p] = "done"]
        /\ reply' = [reply EXCEPT ![p] = r]
    BY <2>1 DEF Answer
  <2>4. ASSUME NEW req \in wire, req.who \in Pushers
        PROVE  /\ pc'[req.who] \in {"waiting", "done"}
               /\ reply'[req.who] \notin Register!NotApplied
    <3>1. CASE req.who = p
      BY <2>1, <2>3, <3>1 DEF Once, Sent
    <3>2. CASE req.who # p
      BY <2>3, <2>4, <3>2 DEF Once
    <3>3. QED
      BY <3>1, <3>2
  <2>5. ASSUME NEW q \in Pushers
        PROVE  /\ pc'[q] \notin Sent => answer[q] = "none"
               /\ pc'[q] \in Won => answer[q] = "won"
               /\ reply'[q] \in Register!Done => answer[q] = "won"
               /\ reply'[q] \in Register!NotApplied => answer[q] # "won"
    <3>1. CASE q = p
      BY <2>1, <2>3, <3>1 DEF Once, Sent, Won
    <3>2. CASE q # p
      BY <2>3, <3>2 DEF Once
    <3>3. QED
      BY <3>1, <3>2
  <2>6. QED
    BY <2>2, <2>4, <2>5 DEF Once
<1>4. ASSUME NEW p \in Pushers, SendCas(p) PROVE Once'
  <2>1. /\ wire' = wire \cup {[who |-> p, ifMatch |-> base[p],
                               body |-> DigestOf(made[p])]}
        /\ pc' = [pc EXCEPT ![p] = "waiting"]
        /\ UNCHANGED <<answer, history, reply>>
        /\ pc[p] = "stored"
    BY <1>4 DEF SendCas, put_pointer, Goto
  <2>2. /\ \A req \in wire : req.who # p
        /\ answer[p] = "none" /\ reply[p] = "none"
    BY <2>1 DEF Once, Asked, Sent
  <2>3. QED
    BY <2>1, <2>2 DEF Once, Sent, Won
<1>5. ASSUME NEW req \in wire, StoreApply(req), UNCHANGED <<pushVars, events>>
      PROVE  Once'
  <2> DEFINE w == req.who
  <2>1. w \in Pushers => /\ pc[w] \in {"waiting", "done"} /\ answer[w] = "none"
                         /\ reply[w] \notin Register!NotApplied
                         /\ \A b \in wire \ {req} : b.who # w
    BY DEF Once
  <2>2. wire' = wire \ {req} /\ UNCHANGED <<pc, reply>>
    BY <1>5 DEF StoreApply, pushVars
  <2> HIDE DEF w
  <2>3. CASE pointer = req.ifMatch
    <3>1. answer' = [answer EXCEPT ![w] = "won"]
      BY <1>5, <2>3 DEF StoreApply, w
    <3>2. /\ Len(history) \in Nat
          /\ Len(history') = Len(history) + 1
          /\ \A i \in 1..Len(history) : history'[i] = history[i]
          /\ history'[Len(history) + 1].who = w
          /\ \A i \in 1..Len(history') : i \in 1..Len(history) \/ i = Len(history) + 1
      <4>1. /\ Len(history) \in Nat
            /\ Len(history') = Len(history) + 1
            /\ \A i \in 1..Len(history) : history'[i] = history[i]
            /\ history'[Len(history) + 1] =
                  [who |-> req.who, from |-> pointer, digest |-> req.body]
            /\ \A i \in 1..Len(history') : i \in 1..Len(history) \/ i = Len(history) + 1
        BY <1>5, <2>3, StoreWins
      <4>2. QED
        BY <4>1 DEF w
    <3>3. ASSUME NEW i \in 1..Len(history'), history'[i].who \in Pushers
          PROVE  answer'[history'[i].who] = "won"
      <4>1. CASE i \in 1..Len(history)
        <5>1. history'[i] = history[i]
          BY <3>2, <4>1
        <5>2. answer[history[i].who] = "won"
          BY <3>3, <4>1, <5>1 DEF Once
        <5>3. QED
          BY <3>1, <3>3, <5>1, <5>2
      <4>2. CASE i = Len(history) + 1
        BY <2>1, <3>1, <3>2, <3>3, <4>2
      <4>3. QED
        BY <3>2, <4>1, <4>2
    <3>4. ASSUME NEW p \in Pushers, answer'[p] = "won"
          PROVE  \E i \in 1..Len(history') : history'[i].who = p
      <4>1. CASE p = w
        <5>1. Len(history) + 1 \in 1..Len(history')
          BY <3>2
        <5>2. QED
          BY <3>2, <4>1, <5>1
      <4>2. CASE p # w
        <5>1. PICK i \in 1..Len(history) : history[i].who = p
          BY <3>1, <3>4, <4>2 DEF Once
        <5>2. i \in 1..Len(history')
          BY <3>2
        <5>3. QED
          BY <3>2, <5>1, <5>2
      <4>3. QED
        BY <4>1, <4>2
    <3>5. QED
      BY <2>1, <2>2, <3>1, <3>3, <3>4 DEF Once, Sent, Won
  <2>4. CASE pointer # req.ifMatch
    <3>1. answer' = [answer EXCEPT ![w] = "lost"] /\ history' = history
      BY <1>5, <2>4 DEF StoreApply, w
    <3>2. w \in Pushers => \A i \in 1..Len(history) : history[i].who # w
      BY <2>1 DEF Once
    <3>3. QED
      BY <2>1, <2>2, <3>1, <3>2 DEF Once, Sent, Won
  <2>5. QED
    BY <2>3, <2>4
<1>6. CASE UNCHANGED vars
  BY <1>6 DEF vars, storeVars, pushVars, Once
<1>7. QED
  BY <1>1, <1>2, <1>3, <1>4, <1>5, <1>6
     DEF Next, PushStep, StoreStep, Terminating, Moves, Ends

LEMMA FaithfulInit == Init => Faithful
BY DEF Init, PushInit, StoreInit, Faithful, Merged, Composed, AfterPut

(* A digest keeps its manifest when another manifest is stored. *)
LEMMA ManifestStays ==
    ASSUME Typed, NEW p \in Pushers, put_manifest(made[p]),
           NEW d \in Nat, d <= Len(manifests)
    PROVE  ManifestAt(d)' = ManifestAt(d)
<1>1. \A k \in 1..Len(manifests) : manifests'[k] = manifests[k]
  BY PutManifestGrows DEF Typed, TypeOK, StoreTypeOK
<1>2. d # 0 => d \in 1..Len(manifests)
  BY LenProperties DEF Typed, TypeOK, StoreTypeOK
<1>3. QED
  BY <1>1, <1>2 DEF ManifestAt, EmptyManifest, NoRefs

LEMMA FaithfulStep ==
    ASSUME Typed, Asked, Once, Faithful, [Next]_vars
    PROVE  Faithful'
<1> USE DEF Typed, TypeOK, StoreTypeOK
(* Steps of one push that leave the manifests and the wire alone. *)
<1>0. ASSUME NEW p \in Pushers,
             UNCHANGED <<manifests, wire>>,
             \A q \in Pushers : q # p =>
                /\ pc'[q] = pc[q] /\ cmds'[q] = cmds[q] /\ base'[q] = base[q]
                /\ ws'[q] = ws[q] /\ made'[q] = made[q],
             cmds'[p] = cmds[p] \/ pc[p] = "idle",
             pc'[p] = "work" => ws'[p] = Parent(p)'.refs,
             pc'[p] \in Merged => Effect(cmds'[p], Parent(p)'.refs, ws'[p]),
             pc'[p] \in Composed => made'[p].refs = ws'[p]
      PROVE  Faithful'
  <2>1. ASSUME NEW q \in Pushers, q # p PROVE Parent(q)' = Parent(q)
    BY <1>0, <2>1 DEF Parent, ManifestAt
  <2>2. \A req \in wire : /\ req.who \in Pushers => cmds'[req.who] = cmds[req.who]
                          /\ ManifestAt(req.ifMatch)' = ManifestAt(req.ifMatch)
                          /\ manifests'[req.body] = manifests[req.body]
    BY <1>0 DEF Once, ManifestAt
  <2>3. ASSUME NEW q \in Pushers
        PROVE  /\ pc'[q] = "work" => ws'[q] = Parent(q)'.refs
               /\ pc'[q] \in Merged => Effect(cmds'[q], Parent(q)'.refs, ws'[q])
               /\ pc'[q] \in Composed => made'[q].refs = ws'[q]
    <3>1. CASE q = p
      BY <1>0, <3>1
    <3>2. CASE q # p
      BY <1>0, <2>1, <3>2 DEF Faithful
    <3>3. QED
      BY <3>1, <3>2
  <2>4. \A req \in wire' :
           /\ req.ifMatch <= Len(manifests')
           /\ req.who \in Pushers =>
                 Effect(cmds'[req.who], ManifestAt(req.ifMatch)'.refs,
                        manifests'[req.body].refs)
           /\ req.who \notin Pushers => Seeding(req)'
    BY <1>0, <2>2 DEF Faithful, Seeding
  <2>5. QED
    BY <2>3, <2>4 DEF Faithful, Effect
<1>1. ASSUME NEW p \in Pushers, Advertise(p) \/ LoadPointer(p) PROVE Faithful'
  <2>1. pc'[p] \in {"posted", "loaded"}
    BY <1>1 DEF Advertise, LoadPointer, Goto
  <2>2. pc'[p] # "work" /\ pc'[p] \notin Merged /\ pc'[p] \notin Composed
    BY <2>1 DEF Merged, Composed, AfterPut
  <2>3. QED
    BY <1>0, <1>1, <2>2 DEF Advertise, LoadPointer, storeVars, Goto
<1>2. ASSUME NEW p \in Pushers, Materialize(p) PROVE Faithful'
  <2>1. Parent(p)' = Parent(p)
    BY <1>2 DEF Materialize, storeVars, Parent, ManifestAt
  <2>2. QED
    BY <1>0, <1>2, <2>1 DEF Materialize, storeVars, Goto, Merged, Composed, AfterPut
<1>3. ASSUME NEW p \in Pushers, ReceivePack(p) PROVE Faithful'
  <2>1. Parent(p)' = Parent(p)
    BY <1>3 DEF ReceivePack, storeVars, Parent, ManifestAt
  <2>2. /\ ws'[p] = [r \in Refs |-> IF r \in Touched(p) \ Stale(p)
                                    THEN cmds[p].new[r] ELSE ws[p][r]]
        /\ ws[p] = Parent(p).refs
        /\ \A q \in Pushers : q # p => ws'[q] = ws[q]
    BY <1>3 DEF ReceivePack, Faithful
  <2>3. Stale(p) = {} => Effect(cmds[p], Parent(p).refs, ws'[p])
    BY <2>2 DEF Stale, Touched, Effect
  <2>4. pc'[p] \in Merged => Stale(p) = {}
    BY <1>3 DEF ReceivePack, Goto, Merged, Composed, AfterPut
  <2>5. pc'[p] # "work" /\ pc'[p] \notin Composed
    BY <1>3 DEF ReceivePack, Goto, Composed, AfterPut
  <2>6. QED
    BY <1>0, <1>3, <2>1, <2>2, <2>3, <2>4, <2>5 DEF ReceivePack, storeVars, Goto
<1>4. ASSUME NEW p \in Pushers,
             Moves(p) \/ Announce(p) \/ CaptureCompacted(p) \/ CaptureDelta(p)
      PROVE  Faithful'
  <2>1. /\ UNCHANGED <<manifests, wire, cmds, base, ws>>
        /\ \A q \in Pushers : q # p => pc'[q] = pc[q] /\ made'[q] = made[q]
    BY <1>4 DEF Moves, HookDeclines, Acquire, RecvWon, AnnounceFails, Announce,
       CaptureCompacted, CaptureDelta, storeVars, Goto
  <2>2. Parent(p)' = Parent(p)
    BY <2>1 DEF Parent, ManifestAt
  <2>3. pc'[p] # "work" /\ (pc'[p] \in Merged => pc[p] \in Merged)
    BY <1>4 DEF Moves, HookDeclines, Acquire, RecvWon, AnnounceFails, Announce,
       CaptureCompacted, CaptureDelta, Goto, Merged, Composed, AfterPut
  <2>4. pc'[p] \in Composed => made'[p].refs = ws[p]
    <3>1. CASE Moves(p) \/ Announce(p)
      BY <3>1 DEF Moves, HookDeclines, Acquire, RecvWon, AnnounceFails, Announce,
         Goto, Composed, AfterPut, Faithful
    <3>2. CASE CaptureCompacted(p)
      BY <3>2 DEF CaptureCompacted, compose_compacted_after
    <3>3. CASE CaptureDelta(p)
      BY <3>3 DEF CaptureDelta, compose_after
    <3>4. QED
      BY <1>4, <3>1, <3>2, <3>3
  <2>5. pc'[p] \in Merged => Effect(cmds'[p], Parent(p)'.refs, ws'[p])
    BY <2>1, <2>2, <2>3 DEF Faithful
  <2>6. QED
    BY <1>0, <2>1, <2>2, <2>3, <2>4, <2>5
<1>5. ASSUME NEW p \in Pushers, Ends(p) PROVE Faithful'
  <2>1. PICK r \in Replies : Answer(p, r)
    BY <1>5, EndsAnswers
  <2>2. UNCHANGED storeVars
    BY <1>5, EndsAnswers
  <2>3. QED
    BY <1>0, <2>1, <2>2 DEF Answer, storeVars, Merged, Composed, AfterPut
<1>6. ASSUME NEW p \in Pushers, PutPack(p) PROVE Faithful'
  <2>1. UNCHANGED <<manifests, wire, pc, cmds, base, ws, made>>
    BY <1>6 DEF PutPack
  <2>2. QED
    BY <2>1 DEF Faithful, Parent, ManifestAt, Effect, Seeding
<1>7. ASSUME NEW p \in Pushers, PutManifest(p) PROVE Faithful'
  <2>1. /\ UNCHANGED <<wire, cmds, base, ws, made>>
        /\ pc' = [pc EXCEPT ![p] = "stored"]
        /\ pc[p] \in {"compacting", "upload"}
    BY <1>7 DEF PutManifest, Goto
  <2>2. /\ Len(manifests) <= Len(manifests')
        /\ Len(manifests) \in Nat /\ Len(manifests') \in Nat
        /\ \A d \in 1..Len(manifests) : manifests'[d] = manifests[d]
    BY <1>7, PutManifestGrows, LenProperties DEF PutManifest
  <2>3. \A q \in Pushers : Parent(q)' = Parent(q)
    BY <1>7, <2>1, ManifestStays DEF PutManifest, Bounded, Parent
  <2>4. \A req \in wire : /\ ManifestAt(req.ifMatch)' = ManifestAt(req.ifMatch)
                          /\ manifests'[req.body] = manifests[req.body]
                          /\ req.ifMatch <= Len(manifests')
    BY <1>7, <2>2, ManifestStays DEF PutManifest, Bounded, Faithful, Request
  <2>5. \A q \in Pushers : /\ pc'[q] = "work" => pc[q] = "work"
                           /\ pc'[q] \in Merged => pc[q] \in Merged
                           /\ pc'[q] \in Composed => pc[q] \in Composed
    BY <2>1 DEF Merged, Composed, AfterPut
  <2>6. ASSUME NEW q \in Pushers
        PROVE  /\ pc'[q] = "work" => ws'[q] = Parent(q)'.refs
               /\ pc'[q] \in Merged => Effect(cmds'[q], Parent(q)'.refs, ws'[q])
               /\ pc'[q] \in Composed => made'[q].refs = ws'[q]
    BY <2>1, <2>3, <2>5 DEF Faithful
  <2>7. ASSUME NEW req \in wire
        PROVE  /\ req.ifMatch <= Len(manifests')
               /\ req.who \in Pushers =>
                     Effect(cmds'[req.who], ManifestAt(req.ifMatch)'.refs,
                            manifests'[req.body].refs)
               /\ req.who \notin Pushers => Seeding(req)'
    BY <2>1, <2>4 DEF Faithful, Seeding
  <2>8. QED
    BY <2>1, <2>6, <2>7 DEF Faithful, Effect
<1>8. ASSUME NEW p \in Pushers, SendCas(p) PROVE Faithful'
  <2> DEFINE new == [who |-> p, ifMatch |-> base[p], body |-> DigestOf(made[p])]
  <2>1. /\ wire' = wire \cup {new}
        /\ UNCHANGED <<manifests, cmds, base, ws, made>>
        /\ pc' = [pc EXCEPT ![p] = "waiting"]
        /\ pc[p] = "stored"
    BY <1>8 DEF SendCas, put_pointer, Goto
  <2>2. manifests[DigestOf(made[p])] = made[p]
    BY <2>1, DigestNames DEF Bounded, AfterPut
  <2>3. /\ Effect(cmds[p], Parent(p).refs, ws[p])
        /\ made[p].refs = ws[p]
    BY <2>1 DEF Faithful, Merged, Composed, AfterPut
  <2>4. /\ base[p] <= Len(manifests)
        /\ Effect(cmds[p], ManifestAt(base[p]).refs, manifests[DigestOf(made[p])].refs)
    BY <2>2, <2>3 DEF Bounded, Parent
  <2>5. ASSUME NEW req \in wire'
        PROVE  /\ req.ifMatch <= Len(manifests)
               /\ req.who \in Pushers =>
                     Effect(cmds[req.who], ManifestAt(req.ifMatch).refs,
                            manifests[req.body].refs)
               /\ req.who \notin Pushers => Seeding(req)
    BY <2>1, <2>4, <2>5 DEF Faithful
  <2>6. \A q \in Pushers : /\ pc'[q] = "work" => pc[q] = "work"
                           /\ pc'[q] \in Merged => pc[q] \in Merged
                           /\ pc'[q] \in Composed => pc[q] \in Composed
    BY <2>1 DEF Merged, Composed, AfterPut
  <2> HIDE DEF new
  <2>7. QED
    BY <2>1, <2>5, <2>6 DEF Faithful, Effect, Parent, ManifestAt, Seeding
<1>9. ASSUME NEW req \in wire, StoreApply(req), UNCHANGED <<pushVars, events>>
      PROVE  Faithful'
  <2>1. wire' \subseteq wire /\ UNCHANGED <<manifests, pc, cmds, base, ws, made>>
    BY <1>9 DEF StoreApply, pushVars
  <2>2. QED
    BY <2>1 DEF Faithful, Effect, Parent, ManifestAt, Seeding
<1>10. CASE UNCHANGED vars
  BY <1>10 DEF vars, storeVars, pushVars, Faithful, Effect, Parent, ManifestAt, Seeding
<1>11. QED
  BY <1>1, <1>2, <1>3, <1>4, <1>5, <1>6, <1>7, <1>8, <1>9, <1>10
     DEF Next, PushStep, StoreStep, Terminating, Moves, Ends

-----------------------------------------------------------------------------
(* The refinement *)

(* A push is published when the store said so. *)
Decided == \A p \in Pushers : Published(p) <=> answer[p] = "won"

LEMMA OnceDecides == Typed /\ Once => Decided
<1> SUFFICES ASSUME Typed, Once PROVE Decided
  OBVIOUS
<1>1. DOMAIN history = 1..Len(history)
  BY LenProperties DEF Typed, TypeOK, StoreTypeOK
<1>2. QED
  BY <1>1 DEF Once, Decided, Published

(* What the store publishes are the refs of the manifest its pointer names. *)
LEMMA PublishedAt == PublishedRefs = ManifestAt(pointer).refs
BY DEF PublishedRefs, ManifestAt, EmptyManifest

LEMMA NothingAsked == NoUpdate = Register!Unchanging
BY DEF NoUpdate, NoRefs, Register!Unchanging

LEMMA RegisterInitially == Init => Register!RegisterInit
<1> SUFFICES ASSUME Init PROVE Register!RegisterInit
  OBVIOUS
<1>1. PublishedRefs = [r \in Refs |-> NoCommit]
  <2>1. manifests[1] = EmptyManifest /\ pointer \in {0, 1}
    BY DEF Init, StoreInit
  <2>2. QED
    BY <2>1 DEF PublishedRefs, EmptyManifest, NoRefs
<1>2. {p \in Pushers : Published(p)} = {}
  BY DEF Init, StoreInit, Published
<1>3. cmds = [p \in Pushers |-> Register!Unchanging]
  BY NothingAsked DEF Init, PushInit
<1>4. reply = [p \in Pushers |-> "none"]
  BY DEF Init, PushInit
<1>5. QED
  BY <1>1, <1>2, <1>3, <1>4 DEF Register!RegisterInit, Register!Unchanging

LEMMA RegisterStep ==
    ASSUME Typed, Asked, Once, Faithful, Decided, Decided', [Next]_vars
    PROVE  [Register!RegisterNext]_(Register!registerVars)
<1> USE DEF Typed, TypeOK, StoreTypeOK
<1> DEFINE Quiet == UNCHANGED Register!registerVars
(* The published refs and pushes depend on the pointer, the manifests and   *)
(* the answers only.                                                        *)
<1>1. ASSUME UNCHANGED <<pointer, manifests, history>>
      PROVE  /\ PublishedRefs' = PublishedRefs
             /\ {p \in Pushers : Published(p)}' = {p \in Pushers : Published(p)}
  BY <1>1 DEF PublishedRefs, Published, NoRefs
<1>2. ASSUME NEW p \in Pushers, Advertise(p) PROVE Register!RegisterNext
  <2>1. PICK new \in RefMaps \ {PublishedRefs} :
           cmds' = [cmds EXCEPT ![p] = [old |-> PublishedRefs, new |-> new]]
    BY <1>2 DEF Advertise
  <2>2. cmds'[p] \in [old: Register!RefValues, new: Register!RefValues]
    BY <1>2, TypedStep DEF Update, RefMaps, Register!RefValues
  <2>3. cmds'[p].new # cmds'[p].old /\ cmds' = [cmds EXCEPT ![p] = cmds'[p]]
    BY <2>1
  <2>4. cmds[p] = Register!Unchanging
    BY <1>2, NothingAsked DEF Advertise, Asked
  <2>5. UNCHANGED <<pointer, manifests, history, reply>>
    BY <1>2 DEF Advertise, storeVars
  <2>6. Register!Ask(p)
    BY <1>1, <2>2, <2>3, <2>4, <2>5 DEF Register!Ask
  <2>7. QED
    BY <2>6 DEF Register!RegisterNext
<1>3. ASSUME NEW p \in Pushers,
             \/ LoadPointer(p) \/ Materialize(p) \/ ReceivePack(p) \/ Moves(p)
             \/ CaptureCompacted(p) \/ CaptureDelta(p) \/ PutPack(p)
             \/ SendCas(p) \/ Announce(p)
      PROVE  Quiet
  <2>1. UNCHANGED <<pointer, manifests, history, cmds, reply>>
    BY <1>3 DEF LoadPointer, Materialize, ReceivePack, Moves, HookDeclines, Acquire,
       RecvWon, AnnounceFails, CaptureCompacted, CaptureDelta, PutPack, SendCas,
       Announce, storeVars
  <2>2. QED
    BY <1>1, <2>1 DEF Register!registerVars
<1>4. ASSUME NEW p \in Pushers, PutManifest(p) PROVE Quiet
  <2>1. UNCHANGED <<pointer, history, cmds, reply>>
    BY <1>4 DEF PutManifest
  <2>2. ManifestAt(pointer)' = ManifestAt(pointer)
    BY <1>4, <2>1, ManifestStays DEF PutManifest, Bounded, ManifestAt
  <2>3. PublishedRefs' = PublishedRefs
    BY <2>2 DEF PublishedRefs, ManifestAt, EmptyManifest, NoRefs
  <2>4. QED
    BY <2>1, <2>3 DEF Register!registerVars, Published
<1>5. ASSUME NEW p \in Pushers, Ends(p) PROVE Quiet \/ Register!RegisterNext
  <2>1. PICK r \in Replies :
           /\ Answer(p, r)
           /\ pc[p] \notin {"idle", "done"}
           /\ r \in Register!Done => pc[p] \in Won
           /\ r \in Register!NotApplied =>
                 pc[p] \notin Sent \/ (pc[p] = "waiting" /\ answer[p] = "lost")
    BY <1>5, EndsSafely
  <2>2. UNCHANGED <<pointer, manifests, history, cmds>>
    BY <1>5, <2>1, EndsAnswers DEF storeVars, Answer
  <2>3. reply' = [reply EXCEPT ![p] = r] /\ reply[p] = "none"
    BY <2>1 DEF Answer, Asked
  <2>4. CASE r = "none"
    BY <1>1, <2>2, <2>3, <2>4 DEF Register!registerVars
  <2>5. CASE r # "none"
    <3>1. r \in Register!Done \cup Register!NotApplied \cup Register!Unknown
      BY <2>5 DEF Replies, Register!Done, Register!NotApplied, Register!Unknown
    <3>2. /\ r \in Register!Done => Published(p)
          /\ r \in Register!NotApplied => ~Published(p)
      BY <2>1 DEF Once, Decided
    <3>3. Register!Answer(p, r)
      BY <1>1, <2>2, <2>3, <3>2 DEF Register!Answer
    <3>4. QED
      BY <3>1, <3>3 DEF Register!RegisterNext
  <2>6. QED
    BY <2>4, <2>5
<1>6. ASSUME NEW req \in wire, StoreApply(req), UNCHANGED <<pushVars, events>>
      PROVE  Quiet \/ Register!RegisterNext
  <2>1. CASE pointer # req.ifMatch
    <3>1. UNCHANGED <<pointer, manifests, history, cmds, reply>>
      BY <1>6, <2>1 DEF StoreApply, pushVars
    <3>2. QED
      BY <1>1, <3>1 DEF Register!registerVars
  <2>2. CASE pointer = req.ifMatch
    <3> DEFINE w == req.who
    <3>s. CASE w \notin Pushers
      <4>1. pointer = 0 /\ manifests[req.body].refs = NoRefs
        BY <2>2, <3>s DEF Faithful, Seeding
      <4>2. pointer' = req.body /\ UNCHANGED <<manifests, cmds, reply>>
        BY <1>6, <2>2 DEF StoreApply, pushVars
      <4>3. req.body # 0
        BY DEF Bounded
      <4>4. PublishedRefs' = PublishedRefs
        BY <4>1, <4>2, <4>3 DEF PublishedRefs, NoRefs
      <4>5. \A p \in Pushers : answer'[p] = answer[p]
        BY <1>6, <3>s, PushersAssumption DEF StoreApply
      <4>6. {p \in Pushers : Published(p)}' = {p \in Pushers : Published(p)}
        BY <4>5 DEF Decided
      <4>7. QED
        BY <4>2, <4>4, <4>6 DEF Register!registerVars
    <3>p. SUFFICES ASSUME w \in Pushers PROVE Register!RegisterNext
      BY <3>s
    <3>1. /\ w \in Pushers /\ answer[w] = "none" /\ pc[w] # "idle"
          /\ reply[w] \notin Register!NotApplied
      BY <3>p DEF Once
    <3>2. UNCHANGED <<manifests, cmds, reply>>
      BY <1>6 DEF StoreApply, pushVars
    <3>3. /\ pointer' = req.body
          /\ answer' = [answer EXCEPT ![w] = "won"]
      BY <1>6, <2>2 DEF StoreApply
    <3>4. Effect(cmds[w], PublishedRefs, manifests[req.body].refs)
      BY <2>2, <3>p, PublishedAt DEF Faithful
    <3>5. /\ PublishedRefs' = manifests[req.body].refs
          /\ manifests[req.body].refs \in RefMaps
      <4>1. req.body \in 1..Len(manifests) /\ req.body # 0
        BY DEF Bounded
      <4>2. manifests[req.body] \in Manifest
        BY <4>1, ElementOfSeq
      <4>3. QED
        BY <3>2, <3>3, <4>1, <4>2 DEF PublishedRefs, Manifest
    <3> HIDE DEF w
    <3>6. Register!Matches(cmds[w])
      BY <3>4 DEF Effect, Register!Matches
    <3>7. PublishedRefs' = Register!Updated(cmds[w])
      BY <3>4, <3>5 DEF Effect, RefMaps, Register!Updated
    <3>8. {p \in Pushers : Published(p)}' = {p \in Pushers : Published(p)} \cup {w}
      BY <3>1, <3>3, PushersAssumption DEF Decided
    <3>9. cmds[w] # Register!Unchanging /\ ~Published(w)
      BY <3>1 DEF Asked, Decided, Register!Unchanging
    <3>10. Register!Apply(w)
      BY <3>1, <3>2, <3>6, <3>7, <3>8, <3>9 DEF Register!Apply
    <3>11. QED
      BY <3>1, <3>10 DEF Register!RegisterNext
  <2>3. QED
    BY <2>1, <2>2
<1>7. CASE UNCHANGED vars
  BY <1>1, <1>7 DEF vars, storeVars, pushVars, Register!registerVars
<1>8. QED
  BY <1>2, <1>3, <1>4, <1>5, <1>6, <1>7
     DEF Next, PushStep, StoreStep, Terminating, Moves, Ends

(* Pushes implement RefRegister: each takes effect at most once, wholly, at *)
(* the moment the store applies its conditional PUT, on refs that still     *)
(* have the values its client was shown, and the status never denies a push *)
(* that took effect or will (finalize_push and cas_publish).                *)
THEOREM Linearizable == Spec => AtomicRefs
<1> DEFINE Inv == Typed /\ Asked /\ Once /\ Faithful
<1>1. Init => Inv
  BY TypedInit, AskedInit, OnceInit, FaithfulInit
<1>2. Inv /\ [Next]_vars => Inv'
  BY TypedStep, AskedStep, OnceStep, FaithfulStep
<1>3. Inv => Decided
  BY OnceDecides
<1>4. Inv /\ Decided /\ Decided' /\ [Next]_vars =>
         [Register!RegisterNext]_(Register!registerVars)
  BY RegisterStep
<1>5. QED
  BY RegisterInitially, <1>1, <1>2, <1>3, <1>4, PTL
     DEF Spec, AtomicRefs, Register!RegisterSpec

-----------------------------------------------------------------------------
(* A 2xx is announced *)

(* The stages in which the request waits for its CAS or has won it. *)
Active == {"waiting"} \cup Won

(* The refs of history[i] are in a stored event. *)
Told(i) == \E e \in 1..Len(events) : events[e] = manifests[history[i].digest].refs

(* The CAS a push waits for, or has won, carries its own m_after ... *)
OwnCas ==
    /\ \A req \in wire : req.who \in Pushers /\ pc[req.who] = "waiting" =>
          manifests[req.body] = made[req.who]
    /\ \A i \in 1..Len(history) : history[i].who \in Pushers /\ pc[history[i].who] \in Active =>
          manifests[history[i].digest] = made[history[i].who]

(* ... and its event is stored ... *)
OwnEvent ==
    \A p \in Pushers : pc[p] = "announced" =>
        \E e \in 1..Len(events) : events[e] = made[p].refs

(* ... before the status is built. *)
Said ==
    \A p \in Pushers : reply[p] = "ok" =>
        \E i \in 1..Len(history) : history[i].who = p /\ Told(i)

Own == OwnCas /\ OwnEvent /\ Said

LEMMA OwnInit == Init => Own
<1> SUFFICES ASSUME Init PROVE Own
  OBVIOUS
<1>1. history = <<>> /\ wire = {}
  BY DEF Init, StoreInit
<1>2. \A p \in Pushers : pc[p] = "idle" /\ reply[p] = "none"
  BY DEF Init, PushInit
<1>3. QED
  BY <1>1, <1>2 DEF Own, OwnCas, OwnEvent, Said

LEMMA OwnStep ==
    ASSUME Typed, Asked, Once, Own, [Next]_vars
    PROVE  Own'
<1> USE DEF Typed, TypeOK, StoreTypeOK
(* Steps that leave the wire, the history and the events alone. *)
<1>0. ASSUME UNCHANGED <<wire, history, events>>,
             \A i \in 1..Len(history) :
                manifests'[history[i].digest] = manifests[history[i].digest],
             \A req \in wire : manifests'[req.body] = manifests[req.body],
             \A q \in Pushers :
                /\ pc'[q] \in Active => pc[q] \in Active /\ made'[q] = made[q]
                /\ pc'[q] = "announced" => pc[q] = "announced"
                /\ pc'[q] = "waiting" => pc[q] = "waiting",
             \A q \in Pushers : reply'[q] = "ok" =>
                \E i \in 1..Len(history) : history[i].who = q /\ Told(i)
      PROVE  Own'
  <2>1. OwnCas'
    BY <1>0 DEF Own, OwnCas, Once, Active
  <2>2. OwnEvent'
    <3>1. ASSUME NEW q \in Pushers, pc'[q] = "announced"
          PROVE  \E e \in 1..Len(events) : events[e] = made'[q].refs
      <4>1. pc[q] = "announced" /\ made'[q] = made[q]
        BY <1>0, <3>1 DEF Active, Won
      <4>2. QED
        BY <4>1 DEF Own, OwnEvent
    <3>2. QED
      BY <1>0, <3>1 DEF OwnEvent
  <2>3. \A i \in 1..Len(history) : Told(i) => Told(i)'
    BY <1>0 DEF Told
  <2>4. Said'
    BY <1>0, <2>3 DEF Said
  <2>5. QED
    BY <2>1, <2>2, <2>4 DEF Own
<1>1. ASSUME NEW p \in Pushers,
             \/ Advertise(p) \/ LoadPointer(p) \/ Materialize(p) \/ ReceivePack(p)
             \/ CaptureCompacted(p) \/ CaptureDelta(p) \/ PutPack(p) \/ Moves(p)
      PROVE  Own'
  <2>1. UNCHANGED <<manifests, wire, history, events, reply>>
    BY <1>1
       DEF Advertise, LoadPointer, Materialize, ReceivePack, CaptureCompacted,
           CaptureDelta, PutPack, Moves, HookDeclines, Acquire, RecvWon,
           AnnounceFails, storeVars
  <2>2. \A q \in Pushers :
           /\ pc'[q] \in Active => pc[q] \in Active /\ made'[q] = made[q]
           /\ pc'[q] = "announced" => pc[q] = "announced"
           /\ pc'[q] = "waiting" => pc[q] = "waiting"
    BY <1>1
       DEF Advertise, LoadPointer, Materialize, ReceivePack, CaptureCompacted,
           CaptureDelta, PutPack, Moves, HookDeclines, Acquire, RecvWon,
           AnnounceFails, Goto, Active, Won
  <2>3. QED
    BY <1>0, <2>1, <2>2 DEF Own, Said
<1>2. ASSUME NEW p \in Pushers, Announce(p) PROVE Own'
  <2>1. /\ UNCHANGED <<manifests, wire, history, reply, made>>
        /\ events' = Append(events, made[p].refs)
        /\ pc' = [pc EXCEPT ![p] = "announced"]
        /\ pc[p] = "committed"
    BY <1>2 DEF Announce, storeVars, Goto
  <2>2. made[p].refs \in RefMaps
    BY DEF Manifest
  <2>3. /\ Len(events) \in Nat
        /\ Len(events') = Len(events) + 1
        /\ \A e \in 1..Len(events) : events'[e] = events[e]
        /\ events'[Len(events) + 1] = made[p].refs
    BY <2>1, <2>2
  <2>4. \A e \in 1..Len(events) : e \in 1..Len(events')
    BY <2>3
  <2>5. Len(events) + 1 \in 1..Len(events')
    BY <2>3
  <2>6. \A i \in 1..Len(history) : Told(i) => Told(i)'
    BY <2>1, <2>3, <2>4 DEF Told
  <2>7. \A q \in Pushers : pc'[q] = "announced" =>
           \E e \in 1..Len(events') : events'[e] = made[q].refs
    BY <2>1, <2>3, <2>4, <2>5 DEF Own, OwnEvent
  <2>8. \A q \in Pushers : /\ pc'[q] \in Active => pc[q] \in Active
                           /\ pc'[q] = "waiting" => pc[q] = "waiting"
    BY <2>1 DEF Active, Won
  <2>9. \A q \in Pushers : reply'[q] = "ok" =>
           \E i \in 1..Len(history') : history'[i].who = q /\ Told(i)'
    BY <2>1, <2>6 DEF Own, Said
  <2>10. OwnCas'
    BY <2>1, <2>8 DEF Own, OwnCas, Once
  <2>11. QED
    BY <2>1, <2>7, <2>9, <2>10 DEF Own, OwnEvent, Said
<1>3. ASSUME NEW p \in Pushers, Ends(p) PROVE Own'
  <2>1. PICK r \in Replies : /\ Answer(p, r)
                             /\ r = "ok" => pc[p] = "announced"
    BY <1>3, EndsSafely
  <2>2. UNCHANGED <<manifests, wire, history, events>>
    BY <1>3, EndsAnswers DEF storeVars
  <2>3. /\ pc' = [pc EXCEPT ![p] = "done"]
        /\ reply' = [reply EXCEPT ![p] = r]
        /\ \A q \in Pushers : q # p => made'[q] = made[q]
    BY <2>1 DEF Answer
  <2>4. r = "ok" => \E i \in 1..Len(history) : history[i].who = p /\ Told(i)
    <3>1. SUFFICES ASSUME r = "ok"
                   PROVE  \E i \in 1..Len(history) : history[i].who = p /\ Told(i)
      OBVIOUS
    <3>2. pc[p] = "announced"
      BY <2>1, <3>1
    <3>3. PICK i \in 1..Len(history) : history[i].who = p
      BY <3>2 DEF Once, Won
    <3>4. manifests[history[i].digest] = made[p]
      BY <3>2, <3>3 DEF Own, OwnCas, Active, Won
    <3>5. Told(i)
      BY <3>2, <3>4 DEF Own, OwnEvent, Told
    <3>6. QED
      BY <3>3, <3>5
  <2>5. \A q \in Pushers : reply'[q] = "ok" =>
           \E i \in 1..Len(history) : history[i].who = q /\ Told(i)
    BY <2>3, <2>4 DEF Own, Said
  <2>6. \A q \in Pushers :
           /\ pc'[q] \in Active => pc[q] \in Active /\ made'[q] = made[q]
           /\ pc'[q] = "announced" => pc[q] = "announced"
           /\ pc'[q] = "waiting" => pc[q] = "waiting"
    BY <2>3 DEF Active, Won
  <2>7. QED
    BY <1>0, <2>2, <2>5, <2>6
<1>4. ASSUME NEW p \in Pushers, PutManifest(p) PROVE Own'
  <2>1. /\ UNCHANGED <<wire, history, events, reply, made>>
        /\ pc' = [pc EXCEPT ![p] = "stored"]
    BY <1>4 DEF PutManifest, Goto
  <2>2. \A d \in 1..Len(manifests) : manifests'[d] = manifests[d]
    BY <1>4, PutManifestGrows DEF PutManifest
  <2>3. /\ \A i \in 1..Len(history) :
              manifests'[history[i].digest] = manifests[history[i].digest]
        /\ \A req \in wire : manifests'[req.body] = manifests[req.body]
    BY <2>2 DEF Bounded
  <2>4. \A q \in Pushers : /\ pc'[q] \in Active => pc[q] \in Active
                           /\ pc'[q] = "announced" => pc[q] = "announced"
                           /\ pc'[q] = "waiting" => pc[q] = "waiting"
    BY <2>1 DEF Active, Won
  <2>5. QED
    BY <1>0, <2>1, <2>3, <2>4 DEF Own, Said
<1>5. ASSUME NEW p \in Pushers, SendCas(p) PROVE Own'
  <2>1. /\ wire' = wire \cup {[who |-> p, ifMatch |-> base[p],
                               body |-> DigestOf(made[p])]}
        /\ UNCHANGED <<manifests, history, events, reply, made>>
        /\ pc' = [pc EXCEPT ![p] = "waiting"]
        /\ pc[p] = "stored"
    BY <1>5 DEF SendCas, put_pointer, Goto
  <2>2. manifests[DigestOf(made[p])] = made[p]
    BY <2>1, DigestNames DEF Bounded, AfterPut
  <2>3. \A i \in 1..Len(history) : history[i].who # p
    BY <2>1 DEF Once, Sent
  <2>4. \A req \in wire : req.who # p
    BY <2>1 DEF Once
  <2>5. ASSUME NEW req \in wire', req.who \in Pushers, pc'[req.who] = "waiting"
        PROVE  manifests[req.body] = made[req.who]
    BY <2>1, <2>2, <2>4, <2>5 DEF Own, OwnCas, Once
  <2>6. OwnCas'
    BY <2>1, <2>3, <2>5 DEF Own, OwnCas, Once
  <2>7. OwnEvent'
    BY <2>1 DEF Own, OwnEvent
  <2>8. Said'
    BY <2>1 DEF Own, Said, Told
  <2>9. QED
    BY <2>6, <2>7, <2>8 DEF Own
<1>6. ASSUME NEW req \in wire, StoreApply(req), UNCHANGED <<pushVars, events>>
      PROVE  Own'
  <2>1. /\ wire' \subseteq wire
        /\ UNCHANGED <<manifests, pc, made, reply, events>>
    BY <1>6 DEF StoreApply, pushVars
  <2>2. CASE pointer = req.ifMatch
    <3>1. /\ Len(history) \in Nat
          /\ Len(history') = Len(history) + 1
          /\ \A i \in 1..Len(history) : history'[i] = history[i]
          /\ history'[Len(history) + 1] =
                [who |-> req.who, from |-> pointer, digest |-> req.body]
          /\ \A i \in 1..Len(history') : i \in 1..Len(history) \/ i = Len(history) + 1
      BY <1>6, <2>2, StoreWins
    <3>2. ASSUME NEW i \in 1..Len(history'), history'[i].who \in Pushers,
                 pc[history'[i].who] \in Active
          PROVE  manifests[history'[i].digest] = made[history'[i].who]
      <4>1. CASE i \in 1..Len(history)
        <5>1. history'[i] = history[i]
          BY <3>1, <4>1
        <5>2. QED
          BY <3>2, <4>1, <5>1 DEF Own, OwnCas
      <4>2. CASE i = Len(history) + 1
        <5>1. history'[i].who = req.who /\ history'[i].digest = req.body
          BY <3>1, <4>2
        <5>2. pc[req.who] = "waiting"
          BY <3>2, <5>1 DEF Once, Active, Won
        <5>3. QED
          BY <3>2, <5>1, <5>2 DEF Own, OwnCas
      <4>3. QED
        BY <3>1, <4>1, <4>2
    <3>3. ASSUME NEW i \in 1..Len(history)
          PROVE  i \in 1..Len(history') /\ (Told(i) => Told(i)')
      <4>1. i \in 1..Len(history') /\ history'[i] = history[i]
        BY <3>1
      <4>2. QED
        BY <2>1, <4>1 DEF Told
    <3>4. ASSUME NEW q \in Pushers, reply[q] = "ok"
          PROVE  \E i \in 1..Len(history') : history'[i].who = q /\ Told(i)'
      <4>1. PICK i \in 1..Len(history) : history[i].who = q /\ Told(i)
        BY <3>4 DEF Own, Said
      <4>2. history'[i].who = q
        BY <3>1, <4>1
      <4>3. QED
        BY <3>3, <4>1, <4>2
    <3>5. OwnCas'
      BY <2>1, <3>2 DEF Own, OwnCas
    <3>6. OwnEvent'
      BY <2>1 DEF Own, OwnEvent
    <3>7. QED
      BY <2>1, <3>4, <3>5, <3>6 DEF Own, Said
  <2>3. CASE pointer # req.ifMatch
    <3>1. history' = history
      BY <1>6, <2>3 DEF StoreApply
    <3>2. OwnCas'
      BY <2>1, <3>1 DEF Own, OwnCas
    <3>3. OwnEvent' /\ Said'
      BY <2>1, <3>1 DEF Own, OwnEvent, Said, Told
    <3>4. QED
      BY <3>2, <3>3 DEF Own
  <2>4. QED
    BY <2>2, <2>3
<1>7. CASE UNCHANGED vars
  BY <1>0, <1>7 DEF vars, storeVars, pushVars, Own, Said
<1>8. QED
  BY <1>1, <1>2, <1>3, <1>4, <1>5, <1>6, <1>7
     DEF Next, PushStep, StoreStep, Terminating, Moves, Ends

LEMMA OwnIsAnnounced == Typed /\ Own => SuccessIsAnnounced
<1> SUFFICES ASSUME Typed, Own, NEW p \in Pushers, reply[p] = "ok"
             PROVE  \E i \in DOMAIN history, e \in DOMAIN events :
                       /\ history[i].who = p
                       /\ events[e] = manifests[history[i].digest].refs
  BY DEF SuccessIsAnnounced
<1>1. DOMAIN history = 1..Len(history) /\ DOMAIN events = 1..Len(events)
  BY LenProperties DEF Typed, TypeOK, StoreTypeOK
<1>2. PICK i \in 1..Len(history) : history[i].who = p /\ Told(i)
  BY DEF Own, Said
<1>3. QED
  BY <1>1, <1>2 DEF Told

(* A push that is told 2xx has taken effect and its refs are in a stored    *)
(* kind:30618 event (finalize_push builds the status after the event is     *)
(* inserted).                                                               *)
THEOREM Announced == Spec => []SuccessIsAnnounced
<1> DEFINE Inv == Typed /\ Asked /\ Once /\ Own
<1>1. Init => Inv
  BY TypedInit, AskedInit, OnceInit, OwnInit
<1>2. Inv /\ [Next]_vars => Inv'
  BY TypedStep, AskedStep, OnceStep, OwnStep
<1>3. Typed /\ Own => SuccessIsAnnounced
  BY OwnIsAnnounced
<1>4. QED
  BY <1>1, <1>2, <1>3, PTL DEF Spec

-----------------------------------------------------------------------------
(* Announcements beside pushes.  To the store and to the pushes an         *)
(* announcement is a writer that may put one more conditional PUT on the   *)
(* wire, of the empty manifest and for no pointer, and an event of no refs *)
(* in the stream: the push's invariant is kept by both.                    *)

(* What seed_manifest_pointer puts is in the store already. *)
EmptyStored == \E d \in 1..Len(manifests) : manifests[d] = EmptyManifest

HostInv ==
    /\ Typed /\ EmptyStored
    /\ Line
    /\ Sound /\ Pending
    /\ Limited
    /\ Asked /\ Once /\ Faithful
    /\ Own

(* Nothing but the events grows, by the refs of a new repository. *)
Emits == UNCHANGED <<storeVars, pushVars>> /\ events' = Append(events, NoRefs)

LEMMA HostMoves ==
    ASSUME [HostNext]_hostVars
    PROVE  [Next]_vars \/ (\E a \in Announcers : SendSeed(a)) \/ Emits
<1>1. ASSUME NEW a \in Announcers, AnnounceStep(a), ~SendSeed(a), ~EmitInitial(a)
      PROVE  UNCHANGED vars
  BY <1>1 DEF AnnounceStep, Peek, Insert, Reclassify, GetPointer, SeedWon, SeedLost,
              ReRead, StoreFails, ReserveFails, AnnounceDies, ReleaseName
<1>2. ASSUME NEW a \in Announcers, EmitInitial(a)
      PROVE  Emits \/ UNCHANGED vars
  BY <1>2 DEF EmitInitial, Emits, vars
<1>3. CASE \E a \in Announcers : AnnounceStep(a)
  BY <1>1, <1>2, <1>3
<1>4. CASE (\E p \in Pushers : PushStep(p)) \/ StoreStep \/ Terminating
  BY <1>4 DEF Next
<1>5. CASE UNCHANGED hostVars
  BY <1>5 DEF hostVars
<1>6. QED
  BY <1>3, <1>4, <1>5 DEF HostNext, HostDone

LEMMA EmptyStoredStep ==
    ASSUME Typed, EmptyStored, [Next]_vars
    PROVE  EmptyStored'
<1> USE DEF Typed, TypeOK, StoreTypeOK
<1>0. EmptyManifest' = EmptyManifest
  BY DEF EmptyManifest, NoRefs
<1>1. CASE UNCHANGED manifests
  BY <1>0, <1>1 DEF EmptyStored
<1>2. ASSUME NEW p \in Pushers, PutManifest(p) PROVE EmptyStored'
  <2>1. /\ manifests' \in Seq(Manifest)
        /\ Len(manifests) <= Len(manifests')
        /\ \A d \in 1..Len(manifests) : manifests'[d] = manifests[d]
    BY <1>2, PutManifestGrows DEF PutManifest
  <2>2. \A d \in 1..Len(manifests) : d \in 1..Len(manifests')
    BY <2>1
  <2>3. QED
    BY <1>0, <2>1, <2>2 DEF EmptyStored
<1>3. ASSUME NEW p \in Pushers, PushStep(p), ~PutManifest(p)
      PROVE  UNCHANGED manifests
  <2>1. CASE Ends(p)
    BY <2>1, EndsAnswers DEF storeVars
  <2>2. CASE ~Ends(p)
    BY <1>3, <2>2
       DEF PushStep, Ends, Advertise, LoadPointer, Materialize, ReceivePack,
           HookDeclines, Acquire, CaptureCompacted, CaptureDelta, PutPack, SendCas,
           RecvWon, Announce, AnnounceFails, storeVars
  <2>3. QED
    BY <2>1, <2>2
<1>4. CASE StoreStep
  BY <1>1, <1>4 DEF StoreStep, StoreApply
<1>5. CASE Terminating \/ UNCHANGED vars
  BY <1>1, <1>5 DEF Terminating, vars, storeVars
<1>6. QED
  BY <1>1, <1>2, <1>3, <1>4, <1>5 DEF Next

(* All that a seed changes. *)
LEMMA SeedEffect ==
    ASSUME Typed, EmptyStored, NEW a \in Announcers, SendSeed(a)
    PROVE  /\ a \in Writers /\ a \notin Pushers
           /\ UNCHANGED <<pointer, manifests, packs, answer, history, pushVars, events>>
           /\ \E d \in 1..Len(manifests) :
                 /\ manifests[d] = EmptyManifest
                 /\ wire' = wire \cup {[who |-> a, ifMatch |-> 0, body |-> d]}
<1>1. DOMAIN manifests = 1..Len(manifests)
  BY LenProperties DEF Typed, TypeOK, StoreTypeOK
<1>2. Stored(EmptyManifest)
  BY <1>1 DEF EmptyStored, Stored
<1>3. /\ DigestOf(EmptyManifest) \in 1..Len(manifests)
      /\ manifests[DigestOf(EmptyManifest)] = EmptyManifest
  BY DigestNames DEF EmptyStored
<1>4. QED
  BY <1>2, <1>3, AnnouncersAssumption DEF SendSeed, put_manifest, put_pointer

LEMMA SeedKeeps ==
    ASSUME HostInv, NEW a \in Announcers, SendSeed(a)
    PROVE  HostInv'
<1> USE DEF HostInv
<1>1. /\ a \in Writers /\ a \notin Pushers
      /\ UNCHANGED <<pointer, manifests, packs, answer, history, events>>
      /\ UNCHANGED <<pc, cmds, base, ws, made, todo, reply>>
  BY SeedEffect DEF pushVars
<1>2. PICK d \in 1..Len(manifests) :
         /\ manifests[d] = EmptyManifest
         /\ wire' = wire \cup {[who |-> a, ifMatch |-> 0, body |-> d]}
  BY SeedEffect
<1>3. Len(manifests) \in Nat
  BY LenProperties DEF Typed, TypeOK, StoreTypeOK
<1> DEFINE seed == [who |-> a, ifMatch |-> 0, body |-> d]
<1>4. /\ seed.who = a /\ seed.ifMatch = 0 /\ seed.body = d
      /\ seed \in Request
  BY <1>1, <1>3 DEF Request
<1>5. wire' = wire \cup {seed}
  BY <1>2
<1> HIDE DEF seed
<1>6. Typed'
  <2>1. TypeOK'
    BY <1>1, <1>4, <1>5 DEF Typed, TypeOK, StoreTypeOK
  <2>2. Bounded'
    BY <1>1, <1>4, <1>5 DEF Typed, Bounded
  <2>3. QED
    BY <2>1, <2>2 DEF Typed
<1>7. EmptyStored'
  BY <1>1, <1>2
     DEF EmptyStored, EmptyManifest, NoRefs
<1>8. Line'
  <2>1. manifests[seed.body].parent = seed.ifMatch
    BY <1>2, <1>4 DEF EmptyManifest
  <2>2. Derived'
    BY <1>1, <1>5, <2>1 DEF Line, Derived
  <2>3. QED
    BY <1>1, <2>2 DEF Line, Older, Rising
<1>9. Sound' /\ Pending'
  BY <1>1 DEF Sound, Pending, Whole, Validate
<1>10. Limited'
  BY <1>1 DEF Limited, Light, TotalBytes, PackBytes
<1>11. Asked'
  BY <1>1 DEF Asked, NoUpdate, NoRefs
<1>12. Once'
  BY <1>1, <1>4, <1>5 DEF Once
<1>13. Faithful'
  <2>1. \A p \in Pushers : Parent(p)' = Parent(p)
    BY <1>1 DEF Parent, ManifestAt, EmptyManifest, NoRefs
  <2>2. \A p \in Pushers :
           /\ pc'[p] = "work" => ws'[p] = Parent(p).refs
           /\ pc'[p] \in Merged => Effect(cmds'[p], Parent(p).refs, ws'[p])
           /\ pc'[p] \in Composed => made'[p].refs = ws'[p]
    BY <1>1 DEF Faithful
  <2>3. seed.ifMatch <= Len(manifests) /\ Seeding(seed)
    BY <1>2, <1>3, <1>4 DEF Seeding, EmptyManifest
  <2>4. \A req \in wire : ManifestAt(req.ifMatch)' = ManifestAt(req.ifMatch)
    BY <1>1 DEF ManifestAt, EmptyManifest, NoRefs
  <2>5. \A req \in wire' :
           /\ req.ifMatch <= Len(manifests)
           /\ req.who \in Pushers =>
                 Effect(cmds[req.who], ManifestAt(req.ifMatch).refs,
                        manifests[req.body].refs)
           /\ req.who \notin Pushers => Seeding(req)
    BY <1>1, <1>4, <1>5, <2>3 DEF Faithful
  <2>6. \A req \in wire' : ManifestAt(req.ifMatch)' = ManifestAt(req.ifMatch)
    BY <1>1 DEF ManifestAt, EmptyManifest, NoRefs
  <2>7. QED
    BY <1>1, <2>1, <2>2, <2>5, <2>6 DEF Faithful, Seeding, NoRefs, Effect
<1>14. Own'
  <2>1. \A i \in 1..Len(history) : Told(i) => Told(i)'
    BY <1>1 DEF Told
  <2>2. OwnCas'
    BY <1>1, <1>4, <1>5 DEF Own, OwnCas
  <2>3. QED
    BY <1>1, <2>1, <2>2 DEF Own, OwnEvent, Said
<1>15. QED
  BY <1>6, <1>7, <1>8, <1>9, <1>10, <1>11, <1>12, <1>13, <1>14

LEMMA EmitKeeps ==
    ASSUME HostInv, Emits
    PROVE  HostInv'
<1> USE DEF HostInv
<1>1. /\ UNCHANGED <<pointer, manifests, packs, wire, answer, history>>
      /\ UNCHANGED <<pc, cmds, base, ws, made, todo, reply>>
      /\ events' = Append(events, NoRefs)
  BY DEF Emits, storeVars, pushVars
<1>2. events \in Seq(RefMaps)
  BY DEF Typed, TypeOK
<1>3. /\ events' \in Seq(RefMaps)
      /\ Len(events) \in Nat
      /\ Len(events') = Len(events) + 1
      /\ \A e \in 1..Len(events) : events'[e] = events[e]
  BY <1>1, <1>2, NoRefsType
<1>4. \A e \in 1..Len(events) : e \in 1..Len(events')
  BY <1>3
<1>5. Typed'
  <2>1. TypeOK'
    BY <1>1, <1>3 DEF Typed, TypeOK, StoreTypeOK
  <2>2. Bounded'
    BY <1>1 DEF Typed, Bounded
  <2>3. QED
    BY <2>1, <2>2 DEF Typed
<1>6. EmptyStored'
  BY <1>1 DEF EmptyStored, EmptyManifest, NoRefs
<1>7. Line'
  BY <1>1 DEF Line, Older, Derived, Rising
<1>8. Sound' /\ Pending'
  BY <1>1 DEF Sound, Pending, Whole, Validate
<1>9. Limited'
  BY <1>1 DEF Limited, Light, TotalBytes, PackBytes
<1>10. Asked'
  BY <1>1 DEF Asked, NoUpdate, NoRefs
<1>11. Once'
  BY <1>1 DEF Once
<1>12. Faithful'
  BY <1>1 DEF Faithful, Seeding, Effect, Parent, ManifestAt, EmptyManifest, NoRefs
<1>13. Own'
  <2>1. OwnCas'
    BY <1>1 DEF Own, OwnCas
  <2>2. OwnEvent'
    BY <1>1, <1>3, <1>4 DEF Own, OwnEvent
  <2>3. \A i \in 1..Len(history) : Told(i) => Told(i)'
    BY <1>1, <1>3, <1>4 DEF Told
  <2>4. Said'
    BY <1>1, <2>3 DEF Own, Said
  <2>5. QED
    BY <2>1, <2>2, <2>4 DEF Own
<1>14. QED
  BY <1>5, <1>6, <1>7, <1>8, <1>9, <1>10, <1>11, <1>12, <1>13

LEMMA HostInitially == HostInit => Init /\ HostInv
<1> SUFFICES ASSUME HostInit PROVE Init /\ HostInv
  OBVIOUS
<1>1. Init
  BY DEF HostInit, Init
<1>2. EmptyStored
  BY <1>1 DEF Init, StoreInit, EmptyStored
<1>3. QED
  BY <1>1, <1>2, TypedInit, LineInit, SoundInit, LimitedInit, AskedInit, OnceInit,
     FaithfulInit, OwnInit DEF HostInv

LEMMA HostStep ==
    ASSUME HostInv, [HostNext]_hostVars
    PROVE  HostInv'
<1>1. CASE [Next]_vars
  BY <1>1, TypedStep, EmptyStoredStep, LineStep, SoundStep, LimitedStep, AskedStep,
     OnceStep, FaithfulStep, OwnStep DEF HostInv
<1>2. QED
  BY <1>1, HostMoves, SeedKeeps, EmitKeeps

(* Pushes keep their promises beside announcements of the same repository: *)
(* one line of history, of manifests that can be cloned and hydrated, and  *)
(* a 2xx only for what was announced, whether the pointer was seeded       *)
(* before, between or after the pushes, or twice (seed_manifest_pointer    *)
(* and ensure_manifest_pointer against cas_publish).                       *)
THEOREM HostSafe ==
    HostSpec => [](LinearHistory /\ AlwaysClonable /\ HydratesWithinLimits
                                 /\ SuccessIsAnnounced)
<1>1. HostInv => LinearHistory /\ AlwaysClonable /\ HydratesWithinLimits
                               /\ SuccessIsAnnounced
  BY LineIsLinear, SoundIsClonable, LightHydrates, OwnIsAnnounced DEF HostInv
<1>2. HostInit => HostInv
  BY HostInitially
<1>3. HostInv /\ [HostNext]_hostVars => HostInv'
  BY HostStep
<1>4. QED
  BY <1>1, <1>2, <1>3, PTL DEF HostSpec

(* A seed on its way and an initial event do not touch the register. *)
LEMMA HostRegisterStep ==
    ASSUME HostInv, HostInv', [HostNext]_hostVars
    PROVE  [Register!RegisterNext]_(Register!registerVars)
<1>1. CASE [Next]_vars
  <2>1. Decided
    BY OnceDecides DEF HostInv
  <2>2. Typed' /\ Once'
    BY DEF HostInv
  <2>3. Decided'
    <3>1. DOMAIN history' = 1..Len(history')
      BY <2>2, LenProperties DEF Typed, TypeOK, StoreTypeOK
    <3>2. QED
      BY <2>2, <3>1 DEF Once, Decided, Published
  <2>4. QED
    BY <1>1, <2>1, <2>3, RegisterStep DEF HostInv
<1>2. ASSUME UNCHANGED <<pointer, manifests, history, cmds, reply>>
      PROVE  UNCHANGED Register!registerVars
  BY <1>2 DEF PublishedRefs, Published, NoRefs, Register!registerVars
<1>3. ASSUME NEW a \in Announcers, SendSeed(a)
      PROVE  UNCHANGED Register!registerVars
  BY <1>2, <1>3, SeedEffect DEF HostInv, pushVars
<1>4. CASE Emits
  BY <1>2, <1>4 DEF Emits, storeVars, pushVars
<1>5. QED
  BY <1>1, <1>3, <1>4, HostMoves

(* Announcing a repository does not show in its refs: pushes beside any     *)
(* number of announcements still implement RefRegister, and a push to a     *)
(* pointer that is seeded under it is told of the conflict and loses        *)
(* nothing that was published (handle_git_repo_announcement beside          *)
(* finalize_push).                                                          *)
THEOREM HostLinearizable == HostSpec => AtomicRefs
<1>1. HostInit => HostInv /\ Register!RegisterInit
  BY HostInitially, RegisterInitially
<1>2. HostInv /\ [HostNext]_hostVars => HostInv'
  BY HostStep
<1>3. HostInv /\ HostInv' /\ [HostNext]_hostVars =>
         [Register!RegisterNext]_(Register!registerVars)
  BY HostRegisterStep
<1>4. QED
  BY <1>1, <1>2, <1>3, PTL DEF HostSpec, AtomicRefs, Register!RegisterSpec

=============================================================================
