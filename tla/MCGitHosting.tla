---------------------------- MODULE MCGitHosting ----------------------------
(* A first commit and one that builds on it, for TLC. *)
EXTENDS GitHosting, TLC

CONSTANTS c1, main

MCReach == [c \in Commits |-> IF c = c1 THEN {c1} ELSE {c1, c}]

MCBranchPref == <<main>>

MCSymmetry == Permutations(Pushers)

(* A bound on the clients: at most one push to a branch with an unsafe name, *)
(* and that one push asks for nothing else.                                  *)
MCOneUnsafe ==
    LET unsafe == {p \in Pushers : ~(Touched(p) \subseteq SafeRefs)}
    IN  /\ Cardinality(unsafe) <= 1
        /\ \A p \in unsafe : Touched(p) \cap SafeRefs = {}

(* Three pushes at once to a repository announced before, two where the      *)
(* announcements failed, or one beside two announcements.                    *)
MCRaces ==
    LET racing == Cardinality({p \in Pushers : pc[p] # "idle"})
    IN  /\ racing > 1 =>
              /\ \A a \in Announcers : apc[a] = "done"
              /\ fresh = {}
              /\ \/ reserved /\ \A a \in Announcers : result[a] = "ok"
                 \/ ~reserved /\ \A a \in Announcers : result[a] = "store"
        /\ racing > 2 => reserved

MCBounds == MCOneUnsafe /\ MCRaces
=============================================================================
