----------------------------- MODULE GitHosting -----------------------------
(***************************************************************************)
(* Announcing a repository (kind:30617, handlers/side_effects.rs) beside   *)
(* pushes to it.  An announcement reserves the repository's name in        *)
(* Postgres and makes sure its pointer exists; announcements of the same   *)
(* owner for the same name run at once, with each other and with pushes.   *)
(*                                                                         *)
(*   Peek         repo_name_owner: is the name ours already?               *)
(*   Insert       reserve_repo_name, INSERT ... ON CONFLICT DO NOTHING     *)
(*   Reclassify   ... and, when nothing was inserted, its SELECT           *)
(*   GetPointer   ensure_manifest_pointer, for a name already owned        *)
(*   SendSeed     seed_manifest_pointer: PUT the empty manifest's digest   *)
(*   SeedWon, SeedLost, SeedFails   what became of it                      *)
(*   ReRead       the pointer that was there instead                       *)
(*   ReserveFails, StoreFails   an error on the way                         *)
(*   ReleaseName  a failed fresh reservation is taken back                 *)
(*   EmitInitial  kind:30618 with no refs, for a fresh reservation         *)
(***************************************************************************)
EXTENDS GitPublish

CONSTANT Announcers     \* announcements, all of one owner and one name

ASSUME AnnouncersAssumption == Announcers \subseteq Writers \ Pushers

VARIABLES
    reserved,   \* whether git_repo_names has the owner's row for the name
    apc,        \* where each announcement is
    fresh,      \* announcements whose INSERT made the row
    result      \* how each ended, and why

announceVars == <<reserved, apc, fresh, result>>

hostVars == <<vars, announceVars>>

AnnounceStages == {"idle", "insert", "reclassify", "ensure", "seed", "waiting",
                   "reread", "failed", "emit", "done"}

Results == {"none", "ok", "taken", "store", "nonempty"}

AGoto(a, stage) == apc' = [apc EXCEPT ![a] = stage]

AFail(a, why) ==
    /\ result' = [result EXCEPT ![a] = why]
    /\ AGoto(a, IF a \in fresh THEN "failed" ELSE "done")

Peek(a) ==
    /\ apc[a] = "idle"
    /\ AGoto(a, IF reserved THEN "ensure" ELSE "insert")
    /\ UNCHANGED <<vars, reserved, fresh, result>>

Insert(a) ==
    /\ apc[a] = "insert"
    /\ reserved' = TRUE
    /\ fresh' = IF reserved THEN fresh ELSE fresh \cup {a}
    /\ AGoto(a, IF reserved THEN "reclassify" ELSE "seed")
    /\ UNCHANGED <<vars, result>>

(* A row that has gone between the INSERT and the SELECT counts as taken.   *)
Reclassify(a) ==
    /\ apc[a] = "reclassify"
    /\ \/ reserved /\ AGoto(a, "ensure") /\ UNCHANGED result
       \/ ~reserved /\ AFail(a, "taken")
    /\ UNCHANGED <<vars, reserved, fresh>>

(* ensure_manifest_pointer: any pointer is left as it is.                   *)
GetPointer(a) ==
    /\ apc[a] = "ensure"
    /\ \/ pointer # 0 /\ AGoto(a, "done") /\ result' = [result EXCEPT ![a] = "ok"]
       \/ pointer = 0 /\ AGoto(a, "seed") /\ UNCHANGED result
    /\ UNCHANGED <<vars, reserved, fresh>>

(* The empty manifest is put first; it is in the store already.             *)
SendSeed(a) ==
    /\ apc[a] = "seed"
    /\ put_manifest(EmptyManifest)
    /\ put_pointer(a, 0, DigestOf(EmptyManifest))
    /\ AGoto(a, "waiting")
    /\ UNCHANGED <<pointer, packs, answer, history, pushVars, events,
                   reserved, fresh, result>>

Seeded(a) ==
    /\ AGoto(a, IF a \in fresh THEN "emit" ELSE "done")
    /\ result' = [result EXCEPT ![a] = "ok"]

SeedWon(a) ==
    /\ apc[a] = "waiting"
    /\ answer[a] = "won"
    /\ Seeded(a)
    /\ UNCHANGED <<vars, reserved, fresh>>

SeedLost(a) ==
    /\ apc[a] = "waiting"
    /\ answer[a] = "lost"
    /\ AGoto(a, "reread")
    /\ UNCHANGED <<vars, reserved, fresh, result>>

(* Losing to the same empty pointer is success, to any other an error.      *)
ReRead(a) ==
    /\ apc[a] = "reread"
    /\ \/ pointer = DigestOf(EmptyManifest) /\ Seeded(a)
       \/ pointer # DigestOf(EmptyManifest) /\ AFail(a, "nonempty")
    /\ UNCHANGED <<vars, reserved, fresh>>

(* A store error, or the PUT or its answer lost.                            *)
StoreFails(a) ==
    /\ apc[a] \in {"ensure", "seed", "waiting", "reread"}
    /\ AFail(a, "store")
    /\ UNCHANGED <<vars, reserved, fresh>>

(* A database error, or the quota reached, before the reservation is known: *)
(* the INSERT may have made the row all the same.                           *)
ReserveFails(a) ==
    /\ apc[a] \in {"idle", "insert", "reclassify"}
    /\ reserved' \in IF apc[a] = "insert" THEN {reserved, TRUE} ELSE {reserved}
    /\ AFail(a, "store")
    /\ UNCHANGED <<vars, fresh>>

(* Only the attempt that made the row deletes it; a DELETE that fails is    *)
(* logged and the row stays.                                                *)
ReleaseName(a) ==
    /\ apc[a] = "failed"
    /\ reserved' \in {reserved, FALSE}
    /\ AGoto(a, "done")
    /\ UNCHANGED <<vars, fresh, result>>

(* Not fatal when it fails.                                                 *)
EmitInitial(a) ==
    /\ apc[a] = "emit"
    /\ events' \in {events, Append(events, NoRefs)}
    /\ AGoto(a, "done")
    /\ UNCHANGED <<storeVars, pushVars, reserved, fresh, result>>

(* The relay process dies before the announcement is answered.              *)
AnnounceDies(a) ==
    /\ apc[a] \notin {"idle", "done"}
    /\ AGoto(a, "done")
    /\ UNCHANGED <<vars, reserved, fresh, result>>

AnnounceStep(a) ==
    \/ Peek(a) \/ Insert(a) \/ Reclassify(a) \/ GetPointer(a)
    \/ SendSeed(a) \/ SeedWon(a) \/ SeedLost(a) \/ ReRead(a) \/ StoreFails(a)
    \/ ReserveFails(a) \/ AnnounceDies(a)
    \/ ReleaseName(a) \/ EmitInitial(a)

(* A name nobody has asked for, or a repository announced long ago.         *)
HostInit ==
    /\ PushInit
    /\ StoreInit
    /\ reserved \in BOOLEAN
    /\ pointer = IF reserved THEN 1 ELSE 0
    /\ apc = [a \in Announcers |-> "idle"]
    /\ fresh = {}
    /\ result = [a \in Announcers |-> "none"]

HostDone ==
    /\ \A a \in Announcers : apc[a] = "done"
    /\ Terminating
    /\ UNCHANGED announceVars

HostNext ==
    \/ \E a \in Announcers : AnnounceStep(a)
    \/ (\E p \in Pushers : PushStep(p)) /\ UNCHANGED announceVars
    \/ StoreStep /\ UNCHANGED announceVars
    \/ HostDone

HostSpec == HostInit /\ [][HostNext]_hostVars

=============================================================================
