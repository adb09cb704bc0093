----------------------------- MODULE RefRegister -----------------------------
(***************************************************************************)
(* What hosting a git repository promises a client that pushes: the        *)
(* published refs are one atomic register.  A push takes effect at most    *)
(* once, wholly, and only on refs that still have the values the client    *)
(* saw; its answer says which of the two happened, except that an error    *)
(* leaves the outcome open (and a push may even take effect after its      *)
(* error was reported).                                                    *)
(***************************************************************************)
CONSTANTS Refs, Commits, NoCommit, Pushers

VARIABLES
    refs,     \* the published refs
    asked,    \* the update each pusher asked for
    applied,  \* pushers whose update took effect
    reply     \* what each pusher was told

registerVars == <<refs, asked, applied, reply>>

RefValues == [Refs -> Commits \cup {NoCommit}]

Unchanging == [old |-> [r \in Refs |-> NoCommit], new |-> [r \in Refs |-> NoCommit]]

Done == {"ok", "unannounced"}

NotApplied == {"rejected", "refused", "conflict"}

Unknown == {"error", "fenced"}

Matches(c) == \A r \in Refs : c.new[r] # c.old[r] => refs[r] = c.old[r]

Updated(c) == [r \in Refs |-> IF c.new[r] # c.old[r] THEN c.new[r] ELSE refs[r]]

RegisterInit ==
    /\ refs = [r \in Refs |-> NoCommit]
    /\ asked = [p \in Pushers |-> Unchanging]
    /\ applied = {}
    /\ reply = [p \in Pushers |-> "none"]

Ask(p) ==
    /\ asked[p] = Unchanging
    /\ \E c \in [old: RefValues, new: RefValues] :
          /\ c.new # c.old
          /\ asked' = [asked EXCEPT ![p] = c]
    /\ UNCHANGED <<refs, applied, reply>>

Apply(p) ==
    /\ asked[p] # Unchanging
    /\ p \notin applied
    /\ reply[p] \notin NotApplied
    /\ Matches(asked[p])
    /\ refs' = Updated(asked[p])
    /\ applied' = applied \cup {p}
    /\ UNCHANGED <<asked, reply>>

Answer(p, r) ==
    /\ reply[p] = "none"
    /\ r \in Done => p \in applied
    /\ r \in NotApplied => p \notin applied
    /\ reply' = [reply EXCEPT ![p] = r]
    /\ UNCHANGED <<refs, asked, applied>>

RegisterNext ==
    \E p \in Pushers :
        \/ Ask(p)
        \/ Apply(p)
        \/ \E r \in Done \cup NotApplied \cup Unknown : Answer(p, r)

RegisterSpec == RegisterInit /\ [][RegisterNext]_registerVars
=============================================================================
