----------------------------- MODULE MCPushWake -----------------------------
EXTENDS PushWake, TLC

MCSymmetry ==
    Permutations(Event) \cup Permutations(Endpoint)
        \cup Permutations(Matcher) \cup Permutations(Courier)
=============================================================================
