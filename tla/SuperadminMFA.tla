--------------------------- MODULE SuperadminMFA ----------------------------
(* The second step of a super administrator's sign-in                        *)
(* (superadmin_onboarding/onboarding_mfa.go): a short-lived mfa_token is     *)
(* exchanged for a session against a code of the authenticator app or a      *)
(* recovery code.  Tries are counted in Redis, by calls of their own, while  *)
(* other requests with the same token run.                                   *)
(*                                                                           *)
(* One token; every sign-in has its own and nothing is shared but the        *)
(* recovery codes.                                                           *)
EXTENDS Naturals, FiniteSets

CONSTANTS
    Requests,       \* requests with the token at once
    Codes,          \* the recovery codes
    None,           \* no recovery code
    MFAMaxAttempts,
    MaxFaults       \* bound: Redis calls that fail

VARIABLES
    token,    \* the key of the token exists
    counter,  \* the counter of tries, 0 when its key does not exist; it stops past the limit
    admin,    \* the user is a super administrator with an account
    unused,   \* the recovery codes not marked as used
    requests, \* the requests under way
    guesses,  \* history: codes looked at
    failed    \* history: counts that were lost, tokens that were not deleted

vars == <<token, counter, admin, unused, requests, guesses, failed>>

Places == {"incr", "revoke", "forget", "read", "verify", "mark", "spend", "clear"}

Types ==
    /\ token \in BOOLEAN /\ admin \in BOOLEAN /\ unused \subseteq Codes
    /\ counter \in 0..(MFAMaxAttempts + 1) /\ guesses \in Nat
    /\ DOMAIN requests \subseteq Requests
    /\ \A r \in DOMAIN requests : requests[r] \in [at: Places, code: Codes \cup {None}]
    /\ failed \in [counts: 0..MaxFaults, tokens: 0..MaxFaults]

Init ==
    /\ token = TRUE /\ counter = 0 /\ admin = TRUE /\ unused = Codes
    /\ requests = <<>> /\ guesses = 0 /\ failed = [counts |-> 0, tokens |-> 0]

Put(f, k, v) == [x \in DOMAIN f \cup {k} |-> IF x = k THEN v ELSE f[x]]
Drop(f, k) == [x \in DOMAIN f \ {k} |-> f[x]]
At(r, place) == r \in DOMAIN requests /\ requests[r].at = place
Goes(r, place) == requests' = [requests EXCEPT ![r].at = place]
Ends(r) == requests' = Drop(requests, r)
MayFail == failed.counts + failed.tokens < MaxFaults

(* Get, and not GetDel: a wrong code may be tried again.                     *)
GetToken(r) ==
    /\ r \notin DOMAIN requests /\ token
    /\ requests' = Put(requests, r, [at |-> "incr", code |-> None])
    /\ UNCHANGED <<token, counter, admin, unused, guesses, failed>>

(* The count decides: too many, and the token goes before its counter.       *)
Incr(r) ==
    /\ At(r, "incr")
    /\ counter' = IF counter > MFAMaxAttempts THEN counter ELSE counter + 1
    /\ Goes(r, IF counter' > MFAMaxAttempts THEN "revoke" ELSE "read")
    /\ UNCHANGED <<token, admin, unused, guesses, failed>>

(* A counter that cannot be reached does not stop anybody.                   *)
IncrFails(r) ==
    /\ At(r, "incr") /\ MayFail
    /\ failed' = [failed EXCEPT !.counts = @ + 1]
    /\ Goes(r, "read")
    /\ UNCHANGED <<token, counter, admin, unused, guesses>>

(* The token is deleted, for too many tries or after the right code; errors  *)
(* are ignored.                                                              *)
Deleting == {"revoke", "spend"}

DelToken(r) ==
    /\ \E place \in Deleting : At(r, place)
    /\ Goes(r, IF requests[r].at = "revoke" THEN "forget" ELSE "clear")
    /\ \/ token' = FALSE /\ UNCHANGED failed
       \/ MayFail /\ failed' = [failed EXCEPT !.tokens = @ + 1] /\ UNCHANGED token
    /\ UNCHANGED <<counter, admin, unused, guesses>>

(* Then its counter; after the right code the session follows.               *)
DelCounter(r) ==
    /\ At(r, "forget") \/ At(r, "clear")
    /\ counter' = 0 /\ Ends(r)
    /\ UNCHANGED <<token, admin, unused, guesses, failed>>

(* The user and the account are read again: they may have changed since the  *)
(* token was given, and then it is deleted.                                  *)
ReadUser(r) ==
    /\ At(r, "read") /\ admin /\ Goes(r, "verify")
    /\ UNCHANGED <<token, counter, admin, unused, guesses, failed>>

Refuse(r) ==
    /\ At(r, "read") /\ ~admin /\ Ends(r)
    /\ \/ token' = FALSE /\ UNCHANGED failed
       \/ MayFail /\ failed' = [failed EXCEPT !.tokens = @ + 1] /\ UNCHANGED token
    /\ UNCHANGED <<counter, admin, unused, guesses>>

(* verifyMFACode: the app's code, else a recovery code, else nothing.  The   *)
(* sub-select of Consume picks the row from its own snapshot; the update of  *)
(* that row comes after.                                                     *)
RightCode(r) ==
    /\ At(r, "verify") /\ Goes(r, "spend")
    /\ guesses' = guesses + 1
    /\ UNCHANGED <<token, counter, admin, unused, failed>>

PickRecovery(r, c) ==
    /\ At(r, "verify") /\ c \in unused
    /\ requests' = [requests EXCEPT ![r].at = "mark", ![r].code = c]
    /\ guesses' = guesses + 1
    /\ UNCHANGED <<token, counter, admin, unused, failed>>

MarkRecovery(r) ==
    /\ At(r, "mark")
    /\ unused' = unused \ {requests[r].code}
    /\ Goes(r, "spend")
    /\ UNCHANGED <<token, counter, admin, guesses, failed>>

WrongCode(r) ==
    /\ At(r, "verify") /\ Ends(r)
    /\ guesses' = guesses + 1
    /\ UNCHANGED <<token, counter, admin, unused, failed>>

(* Any call may fail and the process may die: the request ends.              *)
Fails(r) ==
    /\ r \in DOMAIN requests /\ Ends(r)
    /\ UNCHANGED <<token, counter, admin, unused, guesses, failed>>

TokenExpires ==
    /\ token /\ token' = FALSE
    /\ UNCHANGED <<counter, admin, unused, requests, guesses, failed>>

(* The counter is kept for 15 minutes from the first try, the token for 5    *)
(* from its making: no request with the token is left by then.               *)
(* Mutant of Outlived: the counter may go first.                             *)
OutlivedAnyway == TRUE

Outlived == ~token /\ DOMAIN requests = {}

CounterExpires ==
    /\ counter > 0 /\ Outlived /\ counter' = 0
    /\ UNCHANGED <<token, admin, unused, requests, guesses, failed>>

(* Another super administrator takes the role away.                          *)
Demote ==
    /\ admin /\ admin' = FALSE
    /\ UNCHANGED <<token, counter, unused, requests, guesses, failed>>

Next ==
    \/ \E r \in Requests :
          \/ GetToken(r) \/ Incr(r) \/ IncrFails(r)
          \/ DelToken(r) \/ DelCounter(r)
          \/ ReadUser(r) \/ Refuse(r)
          \/ RightCode(r) \/ MarkRecovery(r) \/ WrongCode(r) \/ Fails(r)
          \/ \E c \in Codes : PickRecovery(r, c)
    \/ TokenExpires \/ CounterExpires \/ Demote

Spec == Init /\ [][Next]_vars

-----------------------------------------------------------------------------
(* The codes one token lets somebody try are limited, although tries are     *)
(* counted, checked and forgotten in separate calls: the limit, and one for  *)
(* every other request that had the token in hand when its counter was       *)
(* deleted; a count that Redis lost is one more, a token it failed to delete *)
(* starts over (onboarding_mfa.go, SuperadminMFA).                           *)
GuessesBounded ==
    guesses <= (MFAMaxAttempts + Cardinality(Requests) - 1) * (failed.tokens + 1)
               + failed.counts
=============================================================================
