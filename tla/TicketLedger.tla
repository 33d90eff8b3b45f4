---------------------------- MODULE TicketLedger ----------------------------
(* What the token endpoint promises about one authorization code: a single   *)
(* ticket, that is, one right to issue tokens.  The ticket is offered with   *)
(* the code, held by at most one request at a time, lies in at most one live *)
(* refresh token between requests, and once over is over for ever.  Access   *)
(* tokens are issued only by the request that holds the ticket.              *)
(*                                                                           *)
(* The specification says nothing of how: it has no tables, no families and  *)
(* no requests.  TokenEndpoint implements it (PROPERTY LedgerSpec there).    *)
CONSTANTS Codes, ATokens

VARIABLES
    ticket, \* code |-> where its ticket is
    usable  \* code |-> the access tokens issued under it and still active

lvars == <<ticket, usable>>

Places == {"none", "offered", "held", "live", "over"}

LedgerTypeOK ==
    /\ ticket \in [Codes -> Places]
    /\ usable \in [Codes -> SUBSET ATokens]

Init ==
    /\ ticket = [c \in Codes |-> "none"]
    /\ usable = [c \in Codes |-> {}]

(* The citizen agrees: the code exists.                                      *)
Offer(c) ==
    /\ ticket[c] = "none"
    /\ ticket' = [ticket EXCEPT ![c] = "offered"]
    /\ UNCHANGED usable

(* A request takes the ticket out of the code, or out of the refresh token.  *)
Take(c) ==
    /\ ticket[c] \in {"offered", "live"}
    /\ ticket' = [ticket EXCEPT ![c] = "held"]
    /\ UNCHANGED usable

(* The request that holds the ticket issues an access token, and puts the    *)
(* ticket into a new refresh token or lets it go.                            *)
Issue(c, a, rest) ==
    /\ ticket[c] = "held"
    /\ rest \in {"live", "over"}
    /\ ticket' = [ticket EXCEPT ![c] = rest]
    /\ usable' = [usable EXCEPT ![c] = @ \cup {a}]

(* The request that holds the ticket ends without issuing anything.          *)
Lose(c) ==
    /\ ticket[c] = "held"
    /\ ticket' = [ticket EXCEPT ![c] = "over"]
    /\ UNCHANGED usable

(* Expiry and revocation: any tickets that no request holds may end, and any *)
(* access tokens may stop being usable, at once.                             *)
Lapse ==
    /\ ticket' \in [Codes -> Places]
    /\ usable' \in [Codes -> SUBSET ATokens]
    /\ \A c \in Codes :
          /\ usable'[c] \subseteq usable[c]
          /\ \/ ticket'[c] = ticket[c]
             \/ ticket[c] \in {"offered", "live"} /\ ticket'[c] = "over"

Next ==
    \/ \E c \in Codes : Offer(c) \/ Take(c) \/ Lose(c)
    \/ \E c \in Codes, a \in ATokens, rest \in {"live", "over"} : Issue(c, a, rest)
    \/ Lapse

LedgerSpec == Init /\ [][Next]_lvars

(* A code whose ticket is over and whose access tokens have all stopped      *)
(* being usable never gives anyone a usable token again.                     *)
DeadStaysDead ==
    [][\A c \in Codes : ticket[c] = "over" /\ usable[c] = {}
                        => ticket'[c] = "over" /\ usable'[c] = {}]_lvars
=============================================================================
