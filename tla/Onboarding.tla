----------------------------- MODULE Onboarding -----------------------------
(* The wizard by which an invited person becomes a super administrator       *)
(* (usecases/superadmin_onboarding): a verified identity, the national eID,  *)
(* a code sent by mail, an authenticator app.  What was shown so far is one  *)
(* Redis value per token.  Every request reads it whole, waits for a remote  *)
(* service and writes it back whole, so requests of one token overwrite one  *)
(* another; accounts, recovery codes and invitations are in Postgres.        *)
(*                                                                           *)
(* An e-mail address stands for the identity it belongs to.                  *)
EXTENDS Naturals, FiniteSets

CONSTANTS
    Emails,         \* verified addresses of those who try
    Tokens,         \* onboard_token values, numbered in the order they are given
    Requests,       \* requests at work at once, numbered; the lowest free number is taken
    Civils,         \* eID identities
    Unset,          \* the empty string
    OTPMaxAttempts,
    MaxSecrets,     \* bound: TOTP secrets generated
    MaxRequests,    \* bound: requests sent
    MaxFaults       \* bound: requests cut short, keys expired, calls failed, invitations taken back

VARIABLES
    promoted, \* a super administrator exists that did not come this way
    invites,  \* superadmin_invites: "open" or "accepted", by address
    pending,  \* the pending sessions, by token
    otp,      \* the address that the request id kept for a token stands for
    attempts, \* the counter of codes tried, by token
    requests, \* the requests under way, with their copies of the session
    accounts, \* superadmin_accounts by the user's address; token is history
    codes,    \* whose recovery codes are stored
    secrets,  \* TOTP secrets generated so far
    sent,     \* requests so far
    faults,   \* failures so far
    shown     \* history: what somebody really showed

vars == <<promoted, invites, pending, otp, attempts, requests, accounts, codes, secrets, sent, faults, shown>>

Steps == {"eid", "email", "totp"}
Sessions == [email: Emails, civil: Civils \cup {Unset}, verified: BOOLEAN,
             secret: 0..MaxSecrets, step: Steps]

Kinds == {"EIDPoll", "EmailSend", "EmailVerify", "TOTPInit", "TOTPVerify"}
Places == {"poll", "send", "reset", "incr", "get", "check", "clean", "new",
           "save", "validate", "upsert", "replace", "accept", "finish"}
Request == [kind: Kinds, token: Tokens, at: Places, sess: Sessions, code: Emails \cup {Unset}]

Types ==
    /\ promoted \in BOOLEAN
    /\ DOMAIN invites \subseteq Emails
    /\ DOMAIN pending \subseteq Tokens /\ \A t \in DOMAIN pending : pending[t] \in Sessions
    /\ DOMAIN otp \subseteq Tokens /\ \A t \in DOMAIN otp : otp[t] \in Emails
    /\ attempts \in [Tokens -> 0..(OTPMaxAttempts + 1)]
    /\ DOMAIN requests \subseteq Requests
    /\ \A r \in DOMAIN requests : requests[r] \in Request
    /\ DOMAIN accounts \subseteq Emails /\ codes \subseteq Emails
    /\ secrets \in 0..MaxSecrets /\ sent \in 0..MaxRequests /\ faults \in 0..MaxFaults

Init ==
    /\ promoted \in BOOLEAN
    /\ invites = IF promoted THEN [e \in Emails |-> "open"] ELSE <<>>
    /\ pending = <<>> /\ otp = <<>>
    /\ attempts = [t \in Tokens |-> 0]
    /\ requests = <<>> /\ accounts = <<>> /\ codes = {} /\ secrets = 0 /\ sent = 0 /\ faults = 0 /\ shown = {}

Put(f, k, v) == [x \in DOMAIN f \cup {k} |-> IF x = k THEN v ELSE f[x]]
Drop(f, k) == [x \in DOMAIN f \ {k} |-> f[x]]

Fault == faults < MaxFaults /\ faults' = faults + 1

AnySuperAdminExists == promoted \/ DOMAIN accounts # {}

(* Mutant of OTPKey: one key for everybody.                                  *)
OTPKeyShared(t) == CHOOSE u \in Tokens : TRUE

OTPKey(t) == t

-----------------------------------------------------------------------------
(* Invitations are for super administrators to give and to take back.        *)
CreateInvite(e) ==
    /\ AnySuperAdminExists /\ e \notin DOMAIN invites
    /\ invites' = Put(invites, e, "open")
    /\ UNCHANGED <<promoted, pending, otp, attempts, requests, accounts, codes, secrets, sent, faults, shown>>

DeleteInvite(e) ==
    /\ AnySuperAdminExists /\ e \in DOMAIN invites /\ Fault
    /\ invites' = Drop(invites, e)
    /\ UNCHANGED <<promoted, pending, otp, attempts, requests, accounts, codes, secrets, sent, shown>>

(* beginFromIdentity: by an invitation not used yet, or as the first of all. *)
Admitted(e) ==
    IF e \in DOMAIN invites THEN invites[e] = "open" ELSE ~AnySuperAdminExists

StartPending(t, e) ==
    /\ t = Cardinality({x \in shown : x[1] = "begun"}) + 1
    /\ Admitted(e)
    /\ pending' = Put(pending, t, [email |-> e, civil |-> Unset, verified |-> FALSE,
                                   secret |-> 0, step |-> "eid"])
    /\ shown' = shown \cup {<<"begun", t, e>>}
    /\ UNCHANGED <<promoted, invites, otp, attempts, requests, accounts, codes, secrets, sent, faults>>

-----------------------------------------------------------------------------
At(r, place) == r \in DOMAIN requests /\ requests[r].at = place
Goes(r, place) == requests' = [requests EXCEPT ![r].at = place]
Ends(r) == requests' = Drop(requests, r)
Mine(r) == requests[r].token

(* loadPending and requireStep: a copy is read, once, at the start.          *)
StepOf(kind) ==
    CASE kind = "EIDPoll" -> "eid"
      [] kind \in {"EmailSend", "EmailVerify"} -> "email"
      [] OTHER -> "totp"

First(kind) ==
    CASE kind = "EIDPoll" -> "poll"
      [] kind = "EmailSend" -> "send"
      [] kind = "EmailVerify" -> "incr"
      [] kind = "TOTPInit" -> "new"
      [] OTHER -> "validate"

RequireStep(sess, kind) == sess.step = StepOf(kind)

LoadPending(r, kind, t) ==
    /\ r \notin DOMAIN requests /\ 1..(r - 1) \subseteq DOMAIN requests
    /\ t \in DOMAIN pending
    /\ RequireStep(pending[t], kind)
    /\ sent < MaxRequests /\ sent' = sent + 1
    /\ requests' = Put(requests, r, [kind |-> kind, token |-> t, at |-> First(kind),
                                     sess |-> pending[t], code |-> Unset])
    /\ UNCHANGED <<promoted, invites, pending, otp, attempts, accounts, codes, secrets, faults, shown>>

(* EIDPoll: the long poll ends with an identity.                             *)
EIDComplete(r, c) ==
    /\ At(r, "poll")
    /\ requests' = [requests EXCEPT ![r].at = "save", ![r].sess.civil = c,
                                    ![r].sess.step = "email"]
    /\ shown' = shown \cup {<<"eid", Mine(r), c>>}
    /\ UNCHANGED <<promoted, invites, pending, otp, attempts, accounts, codes, secrets, sent, faults>>

(* EmailSend: a code goes to the address, its request id is kept; then the   *)
(* counter is reset.                                                         *)
EmailSend(r) ==
    /\ At(r, "send")
    /\ otp' = Put(otp, OTPKey(Mine(r)), requests[r].sess.email)
    /\ Goes(r, "reset")
    /\ UNCHANGED <<promoted, invites, pending, attempts, accounts, codes, secrets, sent, faults, shown>>

ResetAttempts(r) ==
    /\ At(r, "reset")
    /\ attempts' = [attempts EXCEPT ![Mine(r)] = 0]
    /\ Ends(r)
    /\ UNCHANGED <<promoted, invites, pending, otp, accounts, codes, secrets, sent, faults, shown>>

(* EmailVerify: count, fetch the request id, check, save, clean up.  Beyond  *)
(* the limit it refuses; a counter that fails lets it pass.                  *)
Incr(r) ==
    /\ At(r, "incr")
    /\ LET n == attempts[Mine(r)] + 1 IN
       /\ attempts' = [attempts EXCEPT ![Mine(r)] = IF n > OTPMaxAttempts THEN OTPMaxAttempts + 1 ELSE n]
       /\ IF n > OTPMaxAttempts THEN Ends(r) ELSE Goes(r, "get")
    /\ UNCHANGED <<promoted, invites, pending, otp, accounts, codes, secrets, sent, faults, shown>>

IncrFails(r) ==
    /\ Fault
    /\ At(r, "incr") /\ Goes(r, "get")
    /\ UNCHANGED <<promoted, invites, pending, otp, attempts, accounts, codes, secrets, sent, shown>>

GetRequestID(r) ==
    /\ At(r, "get") /\ OTPKey(Mine(r)) \in DOMAIN otp
    /\ requests' = [requests EXCEPT ![r].at = "check", ![r].code = otp[OTPKey(Mine(r))]]
    /\ UNCHANGED <<promoted, invites, pending, otp, attempts, accounts, codes, secrets, sent, faults, shown>>

Approved(r) ==
    /\ At(r, "check")
    /\ requests' = [requests EXCEPT ![r].at = "save", ![r].sess.verified = TRUE,
                                    ![r].sess.step = "totp"]
    /\ shown' = shown \cup {<<"mail", requests[r].code>>}
    /\ UNCHANGED <<promoted, invites, pending, otp, attempts, accounts, codes, secrets, sent, faults>>

CleanUp(r) ==
    /\ At(r, "clean")
    /\ otp' = Drop(otp, OTPKey(Mine(r)))
    /\ attempts' = [attempts EXCEPT ![Mine(r)] = 0]
    /\ Ends(r)
    /\ UNCHANGED <<promoted, invites, pending, accounts, codes, secrets, sent, faults, shown>>

(* TOTPInit: a new secret each time.                                         *)
TOTPInit(r) ==
    /\ At(r, "new") /\ secrets < MaxSecrets
    /\ secrets' = secrets + 1
    /\ requests' = [requests EXCEPT ![r].at = "save", ![r].sess.secret = secrets + 1]
    /\ UNCHANGED <<promoted, invites, pending, otp, attempts, accounts, codes, sent, faults, shown>>

(* savePending: whatever is there now is overwritten, or made again.         *)
SavePending(r) ==
    /\ At(r, "save")
    /\ pending' = Put(pending, Mine(r), requests[r].sess)
    /\ IF requests[r].kind = "EmailVerify" THEN Goes(r, "clean") ELSE Ends(r)
    /\ UNCHANGED <<promoted, invites, otp, attempts, accounts, codes, secrets, sent, faults, shown>>

(* TOTPVerify: the evidence, then the code of the app for the secret.        *)
Complete(sess) == sess.secret # 0 /\ sess.verified /\ sess.civil # Unset

Validate(r) ==
    /\ At(r, "validate") /\ Complete(requests[r].sess)
    /\ shown' = shown \cup {<<"totp", Mine(r), requests[r].sess.secret>>}
    /\ Goes(r, "upsert")
    /\ UNCHANGED <<promoted, invites, pending, otp, attempts, accounts, codes, secrets, sent, faults>>

(* UpsertSuperAdmin: the user and the account, in one transaction.           *)
UpsertSuperAdmin(r) ==
    /\ At(r, "upsert")
    /\ LET s == requests[r].sess IN
       accounts' = Put(accounts, s.email, [token |-> Mine(r), civil |-> s.civil, secret |-> s.secret])
    /\ Goes(r, "replace")
    /\ UNCHANGED <<promoted, invites, pending, otp, attempts, codes, secrets, sent, faults, shown>>

(* Then the recovery codes, the invitation and the pending session, each in  *)
(* a call of its own.                                                        *)
ReplaceCodes(r) ==
    /\ At(r, "replace")
    /\ codes' = codes \cup {requests[r].sess.email}
    /\ Goes(r, "accept")
    /\ UNCHANGED <<promoted, invites, pending, otp, attempts, accounts, secrets, sent, faults, shown>>

(* Best effort: a failure, or an invitation that is gone, is only logged.    *)
MarkAccepted(r) ==
    /\ At(r, "accept")
    /\ LET e == requests[r].sess.email IN
       invites' = IF e \in DOMAIN invites THEN Put(invites, e, "accepted") ELSE invites
    /\ Goes(r, "finish")
    /\ UNCHANGED <<promoted, pending, otp, attempts, accounts, codes, secrets, sent, faults, shown>>

MarkFails(r) ==
    /\ At(r, "accept") /\ Fault
    /\ Goes(r, "finish")
    /\ UNCHANGED <<promoted, invites, pending, otp, attempts, accounts, codes, secrets, sent, shown>>

Finish(r) ==
    /\ At(r, "finish")
    /\ pending' = Drop(pending, Mine(r))
    /\ Ends(r)
    /\ UNCHANGED <<promoted, invites, otp, attempts, accounts, codes, secrets, sent, faults, shown>>

(* A refusal, an error or a crash ends a request anywhere; keys expire.      *)
Fails(r) ==
    /\ Fault
    /\ r \in DOMAIN requests /\ Ends(r)
    /\ UNCHANGED <<promoted, invites, pending, otp, attempts, accounts, codes, secrets, sent, shown>>

Expire(t) ==
    /\ Fault
    /\ \/ pending' = Drop(pending, t) /\ UNCHANGED <<otp, attempts>>
       \/ otp' = Drop(otp, OTPKey(t)) /\ UNCHANGED <<pending, attempts>>
       \/ attempts' = [attempts EXCEPT ![t] = 0] /\ UNCHANGED <<pending, otp>>
    /\ UNCHANGED <<promoted, invites, requests, accounts, codes, secrets, sent, shown>>

Next ==
    \/ \E e \in Emails : CreateInvite(e) \/ DeleteInvite(e)
    \/ \E t \in Tokens, e \in Emails : StartPending(t, e)
    \/ \E r \in Requests, t \in Tokens, kind \in Kinds : LoadPending(r, kind, t)
    \/ \E r \in Requests, c \in Civils : EIDComplete(r, c)
    \/ \E r \in Requests :
          \/ EmailSend(r) \/ ResetAttempts(r)
          \/ Incr(r) \/ IncrFails(r) \/ GetRequestID(r) \/ Approved(r) \/ CleanUp(r)
          \/ TOTPInit(r) \/ SavePending(r)
          \/ Validate(r) \/ UpsertSuperAdmin(r) \/ ReplaceCodes(r) \/ MarkAccepted(r) \/ MarkFails(r)
          \/ Finish(r) \/ Fails(r)
    \/ \E t \in Tokens : Expire(t)

Spec == Init /\ [][Next]_vars

-----------------------------------------------------------------------------
(* Although requests overwrite one another's session, nobody skips a step:   *)
(* behind every account is one token that was begun for its address, under   *)
(* which its eID was shown and its secret proved, and a code sent to that    *)
(* very address was entered.  An invitation is spent only on an account      *)
(* that also has its recovery codes (onboarding_impl.go, requireStep;        *)
(* onboarding_totp.go, TOTPVerify).                                          *)
AccountWasEarned ==
    /\ \A e \in DOMAIN accounts :
          LET a == accounts[e] IN
          {<<"begun", a.token, e>>, <<"eid", a.token, a.civil>>,
           <<"mail", e>>, <<"totp", a.token, a.secret>>} \subseteq shown
    /\ \A e \in DOMAIN invites : invites[e] = "accepted" => e \in DOMAIN accounts \cap codes
=============================================================================
