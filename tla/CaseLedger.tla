----------------------------- MODULE CaseLedger -----------------------------
(* What the government portal promises of an application, whoever acts on    *)
(* it and in whatever order: it is settled once, by one author, with one     *)
(* result (domain_gov.go: the statuses, the results, govTransitions), and a  *)
(* settled application only ever gets delivered.                             *)
CONSTANTS
    Cases,      \* the applications
    Results,    \* what may come of one
    Authors,    \* who may settle one
    Open        \* no result and no author yet

VARIABLE cases  \* application |-> its result, its author, and if it is delivered

Case == [result: Results \cup {Open}, author: Authors \cup {Open}, delivered: BOOLEAN]
Pending == [result |-> Open, author |-> Open, delivered |-> FALSE]

Init == \E filed \in SUBSET Cases : cases = [c \in filed |-> Pending]

(* An application of a service that needs no decision is settled as it is    *)
(* filed.                                                                    *)
File(c) ==
    /\ c \notin DOMAIN cases
    /\ \E new \in Case :
          /\ new.result = Open <=> new.author = Open
          /\ new.delivered => new.result # Open
          /\ cases' = [x \in DOMAIN cases \cup {c} |-> IF x = c THEN new ELSE cases[x]]

Settle(c) ==
    /\ c \in DOMAIN cases /\ cases[c] = Pending
    /\ \E result \in Results, author \in Authors, delivered \in BOOLEAN :
          cases' = [cases EXCEPT ![c] = [result |-> result, author |-> author,
                                         delivered |-> delivered]]

Deliver(c) ==
    /\ c \in DOMAIN cases /\ cases[c].result # Open
    /\ cases' = [cases EXCEPT ![c].delivered = TRUE]

(* One sweep settles every application whose time has run out.               *)
SettleOverdue ==
    \E overdue \in SUBSET {c \in DOMAIN cases : cases[c] = Pending},
       result \in Results, author \in Authors :
        cases' = [c \in DOMAIN cases |->
                    IF c \in overdue
                    THEN [result |-> result, author |-> author, delivered |-> TRUE]
                    ELSE cases[c]]

Next == SettleOverdue \/ \E c \in Cases : File(c) \/ Settle(c) \/ Deliver(c)

Spec == Init /\ [][Next]_cases
=============================================================================
