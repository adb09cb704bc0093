---------------------------- MODULE MCAcpHarness ----------------------------
(* Small instances of AcpHarness for TLC. *)
EXTENDS AcpHarness, TLC

(* Relay replay delivers stored events newest first.  *)
ReplayOrder == [e \in Event |-> MaxEvents - e]

(* Neither agents nor channels are ordered. *)
MCSymmetry == Permutations(Agent) \cup Permutations(Channel)
=============================================================================
