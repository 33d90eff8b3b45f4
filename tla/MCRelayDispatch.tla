--------------------------- MODULE MCRelayDispatch ---------------------------
(* Two services: one routed to two platforms, one to a single platform.      *)
EXTENDS RelayDispatch, TLC

CONSTANTS wide, narrow, p1, p2, p3

MCRoutes == (wide :> {p1, p2}) @@ (narrow :> {p3})

Interchangeable ==
    Permutations({p1, p2}) \cup Permutations(Handlers) \cup Permutations(Sweepers)

(* The scenarios of one run: the requests ingested, the answers the          *)
(* platforms give, how far the clocks run, and how many handlers and sweeps  *)
(* are at work at once.                                                      *)
VARIABLE bounds
Scenarios ==
    {[ingest |-> {wide}, answers |-> {"done"}, ages |-> {Early, Due},
      handlers |-> 2, sweepers |-> 1],
     [ingest |-> {narrow}, answers |-> {"rejected"}, ages |-> Ages,
      handlers |-> 1, sweepers |-> 2]}

WithinBounds ==
    /\ DOMAIN request \subseteq bounds.ingest
    /\ \A h \in DOMAIN job : At(h, "answered") => job[h].answer \in bounds.answers
    /\ \A a \in Assignments : age[a] \in bounds.ages
    /\ Cardinality(DOMAIN job \cap Handlers) <= bounds.handlers
    /\ Cardinality(DOMAIN job \cap Sweepers) <= bounds.sweepers

MCInit == Init /\ bounds \in Scenarios
MCNext == Next /\ UNCHANGED bounds
MCSpec == MCInit /\ [][MCNext]_<<vars, bounds>>
=============================================================================
