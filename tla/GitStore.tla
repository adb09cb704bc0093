------------------------------ MODULE GitStore ------------------------------
(***************************************************************************)
(* The object store behind the relay's git hosting, for one repository:    *)
(* content-addressed packs and manifests that are written create-only and  *)
(* never deleted, and the one mutable object, the pointer, which is only   *)
(* written by a conditional PUT (api/git/store.rs).                        *)
(*                                                                         *)
(* A manifest's digest is its position in `manifests': storing a value     *)
(* that is already there returns the position it has, so equal contents    *)
(* have equal digests and a manifest can only name, as its parent, a       *)
(* digest that existed before it.  A pack is the set of commits (with      *)
(* their trees and blobs) it holds.  The pointer's body is a digest, and   *)
(* its ETag is derived from its body, so two pointer versions with the     *)
(* same body cannot be told apart by an If-Match.                          *)
(*                                                                         *)
(* A conditional PUT is a request on the wire.  The store applies it at    *)
(* any later moment, whether or not its sender still waits for an answer;  *)
(* the request or its answer may be lost.                                  *)
(***************************************************************************)
EXTENDS Naturals, Sequences, FiniteSets

CONSTANTS
    Refs,       \* ref names
    Commits,    \* commit ids
    NoCommit,   \* a ref that does not exist
    Writers     \* whoever may PUT the pointer

ASSUME NoCommitAssumption == NoCommit \notin Commits

VARIABLES
    pointer,    \* digest the pointer names, 0 when there is no pointer object
    manifests,  \* manifests stored, in the order they were first written
    packs,      \* packs stored
    wire,       \* pointer PUTs sent and not yet applied by the store
    answer,     \* the store's answer to each writer's PUT
    history     \* the pointer writes that took effect, with their writers

storeVars == <<pointer, manifests, packs, wire, answer, history>>

RefMaps == [Refs -> Commits \cup {NoCommit}]

NoRefs == [r \in Refs |-> NoCommit]

Manifest == [head: Refs, refs: RefMaps, packs: SUBSET SUBSET Commits, parent: Nat]

Request == [who: Writers, ifMatch: Nat, body: Nat]

StoreTypeOK ==
    /\ pointer \in Nat
    /\ manifests \in Seq(Manifest)
    /\ packs \subseteq SUBSET Commits
    /\ wire \subseteq Request
    /\ answer \in [Writers -> {"none", "won", "lost"}]
    /\ history \in Seq([who: Writers, from: Nat, digest: Nat])

-----------------------------------------------------------------------------
(* Create-only, content-addressed writes. *)

Stored(m) == \E d \in DOMAIN manifests : manifests[d] = m

DigestOf(m) == CHOOSE d \in DOMAIN manifests : manifests[d] = m

put_manifest(m) ==
    manifests' = IF Stored(m) THEN manifests ELSE Append(manifests, m)

put_pack(k) == packs' = packs \cup {k}

(* The conditional PUT leaves: If-Match with the ETag of the body that was  *)
(* read, If-None-Match:* when there was no pointer.                         *)
put_pointer(w, etag, digest) ==
    wire' = wire \cup {[who |-> w, ifMatch |-> etag, body |-> digest]}

(* Mutant: the precondition is not sent. *)
StoreApplyBlindly(req) ==
    /\ req \in wire
    /\ wire' = wire \ {req}
    /\ pointer' = req.body
    /\ history' = Append(history, [who |-> req.who, from |-> pointer,
                                   digest |-> req.body])
    /\ answer' = [answer EXCEPT ![req.who] = "won"]
    /\ UNCHANGED <<manifests, packs>>

(* The store takes one PUT off the wire, compares and writes atomically.    *)
StoreApply(req) ==
    /\ req \in wire
    /\ wire' = wire \ {req}
    /\ \/ /\ pointer = req.ifMatch
          /\ pointer' = req.body
          /\ history' = Append(history, [who |-> req.who, from |-> pointer,
                                         digest |-> req.body])
          /\ answer' = [answer EXCEPT ![req.who] = "won"]
       \/ /\ pointer # req.ifMatch
          /\ answer' = [answer EXCEPT ![req.who] = "lost"]
          /\ UNCHANGED <<pointer, history>>
    /\ UNCHANGED <<manifests, packs>>

PublishedRefs == IF pointer = 0 THEN NoRefs ELSE manifests[pointer].refs

Published(w) == \E i \in DOMAIN history : history[i].who = w
=============================================================================
