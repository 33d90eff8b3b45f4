---------------------------- MODULE AuthorizeFlow ----------------------------
(* The front half of the OpenID provider: from /oauth2/auth through the      *)
(* login and consent pages to an authorization code, and RP-initiated logout *)
(* (core/business/usecases/oidc/authorize.go, provider/provider.go).         *)
(*                                                                           *)
(* As in TokenEndpoint every repository call is a transaction of its own: a  *)
(* handler reads its challenge, decides it, and then writes what follows     *)
(* from the decision, and any other request may run in between.  The pages   *)
(* may be opened twice, answered by two people, or answered and refused at   *)
(* the same time.                                                            *)
(*                                                                           *)
(* A row's `origin` field and the variable agreed are history: the login     *)
(* challenge a row descends from, and the consents ever saved.  No guard     *)
(* reads them.                                                               *)
EXTENDS Naturals, FiniteSets

CONSTANTS
    Clients, Users, Scopes, \* registered apps, citizens, scope names
    Allowed,                \* client |-> the scopes it is registered for
    Challenges,             \* challenge strings (randomToken)
    Codes,                  \* code hashes
    Reqs,                   \* handlers that may be in flight at once
    None                    \* SQL NULL

Kinds == {"login", "consent", "logout"}

ASSUME AllowedAssumption == Allowed \in [Clients -> SUBSET Scopes]
ASSUME NoneAssumption == None \notin Users \cup Clients \cup Challenges

VARIABLES
    challenges, \* oauth_challenges: challenge |-> row
    stale,      \* the challenges whose expires_at has passed
    consents,   \* oauth_consents, unexpired rows: <<user, client>> |-> scopes
    codes,      \* oauth_auth_codes: code hash |-> row
    reqs,       \* handler in flight |-> what it holds between two steps
    agreed      \* history: every <<user, client, scopes>> ever saved

vars == <<challenges, stale, consents, codes, reqs, agreed>>

Challenge == [kind: Kinds, client: Clients \cup {None}, subject: Users \cup {None},
              requested: SUBSET Scopes, granted: SUBSET Scopes, skip: BOOLEAN,
              decided: BOOLEAN, origin: Challenges]
CodeRow == [client: Clients, subject: Users, scopes: SUBSET Scopes, origin: Challenges]

(* A handler that has read its challenge; login and consent handlers go on   *)
(* with the row they read.                                                   *)
Job == [at: {"decideLogin", "recall", "decideConsent", "saveConsent", "createCode"},
        user: Users, challenge: Challenges, granted: SUBSET Scopes]
       \cup [at: {"createConsent"}, user: Users, challenge: Challenges, skip: BOOLEAN]
       \cup [at: {"refuse"}, challenge: Challenges]

Put(t, k, v) == [x \in DOMAIN t \cup {k} |-> IF x = k THEN v ELSE t[x]]
Drop(t, k) == [x \in DOMAIN t \ {k} |-> t[x]]

(* The columns of the tables, and what handlers hold.                        *)
Typed ==
    /\ DOMAIN challenges \subseteq Challenges
    /\ \A ch \in DOMAIN challenges : challenges[ch] \in Challenge
    /\ stale \subseteq DOMAIN challenges
    /\ DOMAIN consents \subseteq Users \X Clients
    /\ \A k \in DOMAIN consents : consents[k] \in SUBSET Scopes
    /\ DOMAIN codes \subseteq Codes /\ \A c \in DOMAIN codes : codes[c] \in CodeRow
    /\ DOMAIN reqs \subseteq Reqs /\ \A r \in DOMAIN reqs : reqs[r] \in Job
    /\ agreed \subseteq Users \X Clients \X SUBSET Scopes

(* Both columns may be NULL, but the pages need them: a login or consent     *)
(* challenge names its client, and a consent challenge its citizen.          *)
Filled ==
    \A ch \in DOMAIN challenges :
        /\ challenges[ch].kind # "logout" => challenges[ch].client \in Clients
        /\ challenges[ch].kind = "consent" => challenges[ch].subject \in Users

(* The type invariant (domain_oauth.go; oauth_challenges, oauth_auth_codes). *)
TypeOK == Typed /\ Filled

(* Challenge: the row is read only while undecided and unexpired.            *)
Open(ch, kind) ==
    /\ ch \in DOMAIN challenges \ stale
    /\ challenges[ch].kind = kind /\ ~challenges[ch].decided

Idle(r) == r \in Reqs \ DOMAIN reqs
At(r, place) == r \in DOMAIN reqs /\ reqs[r].at = place

NewChallenge(kind, cl, u, requested, skip, origin) ==
    [kind |-> kind, client |-> cl, subject |-> u, requested |-> requested,
     granted |-> {}, skip |-> skip, decided |-> FALSE, origin |-> origin]

-----------------------------------------------------------------------------
Init ==
    /\ challenges = <<>> /\ stale = {} /\ consents = <<>> /\ codes = <<>>
    /\ reqs = <<>> /\ agreed = {}

(* /oauth2/auth: what is asked is cut down to what the client is registered  *)
(* for; nothing left is invalid_scope.  Requests refused for the client, the *)
(* redirect_uri, the response type or PKCE leave no trace.                   *)
Authorize(ch, cl, asked) ==
    /\ ch \notin DOMAIN challenges
    /\ asked \cap Allowed[cl] # {}
    /\ challenges' = Put(challenges, ch,
                         NewChallenge("login", cl, None, asked \cap Allowed[cl], FALSE, ch))
    /\ UNCHANGED <<stale, consents, codes, reqs, agreed>>

(* AcceptLogin, first read: the session's citizen answers the login page.    *)
ReadLogin(r, u, ch) ==
    /\ Idle(r) /\ Open(ch, "login")
    /\ reqs' = Put(reqs, r, [at |-> "decideLogin", user |-> u, challenge |-> ch,
                             granted |-> challenges[ch].requested])
    /\ UNCHANGED <<challenges, stale, consents, codes, agreed>>

(* Mutant of Decide: the UPDATE does not ask whether the row is undecided.   *)
DecideBlindly(r, next) ==
    LET job == reqs[r]
    IN  /\ challenges' = [challenges EXCEPT ![job.challenge].decided = TRUE,
                                            ![job.challenge].subject = job.user,
                                            ![job.challenge].granted = job.granted]
        /\ reqs' = Put(reqs, r, [job EXCEPT !.at = next])

(* DecideChallenge: one UPDATE that finds the row undecided and unexpired,   *)
(* or not found.                                                             *)
Decide(r, next) ==
    LET job == reqs[r]
        ch == job.challenge
    IN  IF challenges[ch].decided \/ ch \in stale
        THEN reqs' = Drop(reqs, r) /\ UNCHANGED challenges
        ELSE /\ challenges' = [challenges EXCEPT ![ch].decided = TRUE,
                                                 ![ch].subject = job.user,
                                                 ![ch].granted = job.granted]
             /\ reqs' = Put(reqs, r, [job EXCEPT !.at = next])

DecideLogin(r) ==
    /\ At(r, "decideLogin")
    /\ Decide(r, "recall")
    /\ UNCHANGED <<stale, consents, codes, agreed>>

(* Mutant of CoversAll: one remembered scope is enough.                      *)
CoversSome(requested, remembered) == requested \cap remembered # {}

CoversAll(requested, remembered) == requested \subseteq remembered

(* Consent and coversAll: the page may be skipped when a remembered consent  *)
(* covers everything requested.  The answer is kept in the challenge.        *)
RecallConsent(r) ==
    /\ At(r, "recall")
    /\ LET job == reqs[r]
           row == challenges[job.challenge]
           k == <<job.user, row.client>>
       IN  reqs' = Put(reqs, r, [at |-> "createConsent", user |-> job.user,
                                 challenge |-> job.challenge,
                                 skip |-> /\ k \in DOMAIN consents
                                          /\ CoversAll(row.requested, consents[k])])
    /\ UNCHANGED <<challenges, stale, consents, codes, agreed>>

(* Mutant of CreateConsent: the citizen is that of the login challenge as    *)
(* AcceptLogin read it, before the decision wrote one.                       *)
CreateConsentAsRead(r, ch) ==
    /\ At(r, "createConsent") /\ ch \notin DOMAIN challenges
    /\ LET row == challenges[reqs[r].challenge]
       IN  challenges' = Put(challenges, ch,
                             NewChallenge("consent", row.client, None, row.requested,
                                          reqs[r].skip, row.origin))
    /\ reqs' = Drop(reqs, r)
    /\ UNCHANGED <<stale, consents, codes, agreed>>

(* AcceptLogin, last step: the consent challenge, for the same request and   *)
(* the citizen who logged in.                                                *)
CreateConsent(r, ch) ==
    /\ At(r, "createConsent") /\ ch \notin DOMAIN challenges
    /\ LET job == reqs[r]
           row == challenges[job.challenge]
       IN  challenges' = Put(challenges, ch,
                             NewChallenge("consent", row.client, job.user, row.requested,
                                          job.skip, row.origin))
    /\ reqs' = Drop(reqs, r)
    /\ UNCHANGED <<stale, consents, codes, agreed>>

(* Mutant of GrantedOf: the boxes ticked are not compared with the request.  *)
GrantedAsTicked(requested, ticked) == IF ticked = {} THEN requested ELSE ticked

GrantedOf(requested, ticked) ==
    IF ticked = {} THEN requested ELSE requested \cap ticked

(* AcceptConsent, first read.  Someone else's challenge is refused; the      *)
(* scopes ticked are cut down to those requested, none ticked means all.     *)
ReadConsent(r, u, ch, ticked) ==
    /\ Idle(r) /\ Open(ch, "consent")
    /\ challenges[ch].subject = u
    /\ LET granted == GrantedOf(challenges[ch].requested, ticked)
       IN  /\ granted # {}
           /\ reqs' = Put(reqs, r, [at |-> "decideConsent", user |-> u,
                                    challenge |-> ch, granted |-> granted])
    /\ UNCHANGED <<challenges, stale, consents, codes, agreed>>

(* Mutant of DecideConsent: the code is created without SaveConsent.         *)
DecideUnsaved(r) ==
    /\ At(r, "decideConsent")
    /\ Decide(r, "createCode")
    /\ UNCHANGED <<stale, consents, codes, agreed>>

DecideConsent(r) ==
    /\ At(r, "decideConsent")
    /\ Decide(r, "saveConsent")
    /\ UNCHANGED <<stale, consents, codes, agreed>>

(* SaveConsent: the newest answer replaces the remembered one.               *)
SaveConsent(r) ==
    /\ At(r, "saveConsent")
    /\ LET job == reqs[r]
           cl == challenges[job.challenge].client
       IN  /\ consents' = Put(consents, <<job.user, cl>>, job.granted)
           /\ agreed' = agreed \cup {<<job.user, cl, job.granted>>}
           /\ reqs' = Put(reqs, r, [job EXCEPT !.at = "createCode"])
    /\ UNCHANGED <<challenges, stale, codes>>

(* CreateCode: the end of AcceptConsent and the start of TokenEndpoint.      *)
CreateCode(r, c) ==
    /\ At(r, "createCode") /\ c \notin DOMAIN codes
    /\ LET job == reqs[r]
           row == challenges[job.challenge]
       IN  codes' = Put(codes, c, [client |-> row.client, subject |-> job.user,
                                   scopes |-> job.granted, origin |-> row.origin])
    /\ reqs' = Drop(reqs, r)
    /\ UNCHANGED <<challenges, stale, consents, agreed>>

(* Reject of a login or consent page, and AcceptLogout: read, then decide    *)
(* with the row's own subject and no scope.  Whoever holds the challenge may *)
(* refuse it.                                                                *)
ReadRefusal(r, ch) ==
    /\ Idle(r) /\ \E kind \in Kinds : Open(ch, kind)
    /\ reqs' = Put(reqs, r, [at |-> "refuse", challenge |-> ch])
    /\ UNCHANGED <<challenges, stale, consents, codes, agreed>>

DecideRefusal(r) ==
    /\ At(r, "refuse")
    /\ LET ch == reqs[r].challenge
       IN  challenges' = IF challenges[ch].decided \/ ch \in stale THEN challenges
                         ELSE [challenges EXCEPT ![ch].decided = TRUE, ![ch].granted = {}]
    /\ reqs' = Drop(reqs, r)
    /\ UNCHANGED <<stale, consents, codes, agreed>>

(* StartLogout: a challenge that carries no scopes, and a client and a       *)
(* citizen only when a verified id_token_hint named them.                    *)
StartLogout(ch, cl, u) ==
    /\ ch \notin DOMAIN challenges
    /\ u # None => cl # None
    /\ challenges' = Put(challenges, ch, NewChallenge("logout", cl, u, {}, FALSE, ch))
    /\ UNCHANGED <<stale, consents, codes, reqs, agreed>>

(* A handler ends early: the next database call fails, the browser leaves,   *)
(* the process stops.  The decision already written stays.                   *)
Abandon(r) ==
    /\ r \in DOMAIN reqs
    /\ reqs' = Drop(reqs, r)
    /\ UNCHANGED <<challenges, stale, consents, codes, agreed>>

(* expires_at passes, of a challenge and of a remembered consent.            *)
ChallengeExpires(ch) ==
    /\ ch \in DOMAIN challenges \ stale
    /\ stale' = stale \cup {ch}
    /\ UNCHANGED <<challenges, consents, codes, reqs, agreed>>

ConsentExpires(k) ==
    /\ k \in DOMAIN consents
    /\ consents' = Drop(consents, k)
    /\ UNCHANGED <<challenges, stale, codes, reqs, agreed>>

Next ==
    \/ \E ch \in Challenges, cl \in Clients, asked \in SUBSET Scopes : Authorize(ch, cl, asked)
    \/ \E ch \in Challenges, cl \in Clients \cup {None}, u \in Users \cup {None} :
           StartLogout(ch, cl, u)
    \/ \E r \in Reqs, u \in Users, ch \in Challenges :
           \/ ReadLogin(r, u, ch)
           \/ \E ticked \in SUBSET Scopes : ReadConsent(r, u, ch, ticked)
    \/ \E r \in Reqs, ch \in Challenges : ReadRefusal(r, ch) \/ CreateConsent(r, ch)
    \/ \E r \in Reqs : \/ DecideLogin(r) \/ RecallConsent(r) \/ DecideConsent(r)
                       \/ SaveConsent(r) \/ DecideRefusal(r) \/ Abandon(r)
    \/ \E r \in Reqs, c \in Codes : CreateCode(r, c)
    \/ \E ch \in Challenges : ChallengeExpires(ch)
    \/ \E k \in Users \X Clients : ConsentExpires(k)

Spec == Init /\ [][Next]_vars

-----------------------------------------------------------------------------
(* Properties.                                                               *)

Of(o, kind) == {ch \in DOMAIN challenges : challenges[ch].origin = o /\ challenges[ch].kind = kind}
Refused(ch) == challenges[ch].decided /\ challenges[ch].granted = {}
Holds(r, o) == /\ r \in DOMAIN reqs
               /\ reqs[r].at \in {"recall", "createConsent", "saveConsent", "createCode"}
               /\ challenges[reqs[r].challenge].origin = o

(* One authorization request has one outcome.  However often its pages are   *)
(* opened, answered and refused at once, it leads to at most one consent     *)
(* page and at most one code, only one handler is ever past its decision,    *)
(* and a request refused on any page yields no code (DecideChallenge         *)
(* 119-136, AcceptLogin 219-255, AcceptConsent 262-304).                     *)
OneOutcome ==
    \A o \in Challenges :
        LET minted == {c \in DOMAIN codes : codes[c].origin = o}
            pages == Of(o, "login") \cup Of(o, "consent")
            past == {r \in Reqs : Holds(r, o)}
        IN  /\ Cardinality(minted) + Cardinality(past) <= 1
            /\ Cardinality(Of(o, "consent")) <= 1
            /\ minted # {} => \A ch \in pages : challenges[ch].decided /\ ~Refused(ch)

(* The citizen in a code is the one who answered both pages of its request,  *)
(* and its scopes are ones the client asked for at the start: no page        *)
(* answered by another session or with extra boxes ticked changes that.      *)
CodeMatchesPages ==
    \A c \in DOMAIN codes :
        LET row == codes[c]
            login == challenges[row.origin]
        IN  /\ login.kind = "login" /\ login.subject = row.subject
            /\ login.client = row.client
            /\ row.scopes # {} /\ row.scopes \subseteq login.requested
            /\ row.scopes \subseteq Allowed[row.client]
            /\ \E ch \in Of(row.origin, "consent") :
                  challenges[ch].subject = row.subject /\ challenges[ch].granted = row.scopes

(* The consent page is skipped only for scopes the same citizen did once     *)
(* grant the same client, in one answer (coversAll 371-385).                 *)
SkipWasEarned ==
    \A ch \in DOMAIN challenges : challenges[ch].skip =>
        \E s \in SUBSET Scopes :
            /\ challenges[ch].requested \subseteq s
            /\ <<challenges[ch].subject, challenges[ch].client, s>> \in agreed

(* A code is only ever minted after its consent was saved: nothing the       *)
(* client can redeem is missing from what the citizen is asked to remember.  *)
CodeWasAgreed ==
    \A c \in DOMAIN codes : <<codes[c].subject, codes[c].client, codes[c].scopes>> \in agreed
=============================================================================
