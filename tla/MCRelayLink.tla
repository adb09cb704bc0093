----------------------------- MODULE MCRelayLink -----------------------------
(* One channel and two events whose times may be further apart than the skew. *)
EXTENDS RelayLink
=============================================================================
