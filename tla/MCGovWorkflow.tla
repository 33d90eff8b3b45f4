---------------------------- MODULE MCGovWorkflow ----------------------------
(* Government services, and the signing of documents with the phone.  They   *)
(* share no state: a behaviour is about one of them, by its scenario.        *)
(*                                                                           *)
(* A small catalogue: an extract from a registry, a permit that silence      *)
(* grants, a card that is marked automatic but needs judgement, and advice   *)
(* that has no deadline.                                                     *)
(* scenario is chosen once per behaviour: who is at work besides the first   *)
(* officer, the first handler and the first replica, what is applied for by  *)
(* whom, and how long it goes on.  A signing session has three readers.      *)
EXTENDS GovServices, TLC

CONSTANTS extract, permit, card, advice, o1, r1, w1

VARIABLES scenario

Scenarios ==
    { \* two officers decide at once; one replica sweeps
      [officers |-> Officers, handlers |-> Requests, sweepers |-> {w1},
       services |-> {permit}, role |-> "user", ticks |-> Sla + 1],
      \* two replicas sweep, and may stop, beside one officer
      [officers |-> {o1}, handlers |-> {r1}, sweepers |-> Sweepers,
       services |-> Services, role |-> "admin", ticks |-> MaxTick] }

Signs == scenario = <<>>

InScenario ==
    /\ now <= scenario.ticks
    /\ DOMAIN jobs \subseteq scenario.handlers \cup scenario.sweepers
    /\ \A r \in DOMAIN jobs \cap Requests : jobs[r].officer \in scenario.officers
    /\ \A a \in DOMAIN rows :
          /\ rows[a].assigned \in scenario.officers \cup {None}
          /\ rows[a].service \in scenario.services \cup {None}
          /\ rows[a].role = scenario.role

MCInit ==
    /\ Init /\ S!Init
    /\ scenario = <<>> \/ (scenario \in Scenarios /\ InScenario)

MCNext ==
    /\ UNCHANGED scenario
    /\ \/ ~Signs /\ Next /\ InScenario' /\ UNCHANGED signingVars
       \/ Signs /\ S!Next /\ UNCHANGED vars

(* The first replica sweeps in both scenarios of the services.               *)
MCSpec == MCInit /\ [][MCNext]_<<vars, scenario, signingVars>>
          /\ WF_vars(~Signs /\ SweepStep(w1))
=============================================================================
