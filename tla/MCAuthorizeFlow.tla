-------------------------- MODULE MCAuthorizeFlow --------------------------
(* A small instance of AuthorizeFlow: one client, registered for two of the  *)
(* three scopes, two citizens.  bounds is chosen once: two whole requests    *)
(* with one handler at a time, so that a remembered consent is met again, or *)
(* fewer challenges, two handlers in flight and expiry, or with a logout.    *)
EXTENDS AuthorizeFlow, TLC

CONSTANTS app, email, profile, admin

VARIABLE bounds

MCAllowed == (app :> {email, profile})

Bounds == {[challenges |-> 4, stale |-> 0, logouts |-> 0, handlers |-> 1],
           [challenges |-> 3, stale |-> 1, logouts |-> 0, handlers |-> 2],
           [challenges |-> 2, stale |-> 1, logouts |-> 1, handlers |-> 2]}

Logouts == {ch \in DOMAIN challenges : challenges[ch].kind = "logout"}

WithinBounds == /\ Cardinality(DOMAIN challenges) <= bounds.challenges
                /\ Cardinality(stale) <= bounds.stale
                /\ Cardinality(DOMAIN reqs) <= bounds.handlers
                /\ Cardinality(Logouts) <= bounds.logouts

MCInit == Init /\ bounds \in Bounds
MCNext == Next /\ UNCHANGED bounds
MCSpec == MCInit /\ [][MCNext]_<<vars, bounds>>

Interchangeable == Permutations(Users) \cup Permutations(Reqs) \cup Permutations(Codes)
                     \cup Permutations(Challenges)
=============================================================================
