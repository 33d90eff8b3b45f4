----------------------------- MODULE MCSessions -----------------------------
(* Small instances of Sessions.  scenario is chosen once per behaviour: what *)
(* the requests in it do, and how much time, change and pairs there is.      *)
EXTENDS Sessions, TLC

VARIABLE scenario

Finding == {"miss", "fill", "wait", "check"}
Identity == {"identified"}
Refreshing == {"lookup", "rotate"}
Changing == {"verify", "write", "clear", "publish", "prolong"}

Scenarios ==
    { \* log-ins with the cache against one change
      [places |-> Finding \cup Refreshing \cup Changing, ticks |-> 1, changes |-> 1, pairs |-> 2,
       lossy |-> FALSE],
      \* refreshes against two changes that may overlap
      [places |-> Identity \cup Refreshing \cup Changing, ticks |-> 2, changes |-> 2, pairs |-> 2,
       lossy |-> FALSE],
      \* refreshes against logouts that get no further than the refresh id
      [places |-> Identity \cup Refreshing \cup {"deny"},
       ticks |-> 0, changes |-> 0, pairs |-> 3, lossy |-> TRUE],
      \* log-ins and refreshes against whole logouts and an administrator
      [places |-> Finding \cup Identity \cup Refreshing \cup {"deny", "keep", "evict"},
       ticks |-> 0, changes |-> 0, pairs |-> 2, lossy |-> TRUE] }

InScenario ==
    /\ \A r \in DOMAIN reqs : reqs[r].at \in scenario.places \cup {"store"}
    /\ now <= scenario.ticks
    /\ Cardinality(DOMAIN sessions) <= scenario.pairs
    /\ Cardinality(DOMAIN rotations) <= scenario.changes
    /\ scenario.lossy \/ live \subseteq held  \* answers arrive

MCInit == Init /\ scenario \in Scenarios
MCNext == Next /\ UNCHANGED scenario
MCSpec == MCInit /\ [][MCNext]_<<vars, scenario>>

Interchangeable == Permutations(Reqs) \cup Permutations(Sids)
=============================================================================
