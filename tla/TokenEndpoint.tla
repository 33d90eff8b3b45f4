--------------------------- MODULE TokenEndpoint ---------------------------
(* The token endpoint of the OpenID provider: /oauth2/token, /oauth2/revoke  *)
(* (core/business/usecases/oidc/token.go, introspect.go) over the three      *)
(* tables of oauth_flow_postgres.go.                                         *)
(*                                                                           *)
(* Every call of the flow repository is a database transaction of its own,   *)
(* so a request is a sequence of atomic steps that interleave with those of  *)
(* every other request and of every other replica of the server.  Between    *)
(* two steps a request holds only what it read: a record of reqs.            *)
(*                                                                           *)
(* A row's `code` field is history: it names the authorization code the row  *)
(* descends from.  The program keeps no such link (oauth_flow_postgres.go,   *)
(* RevokeForSubjectClient) and no action's guard reads it.                   *)
EXTENDS FiniteSets

CONSTANTS
    Clients, Subjects, Scopes, \* registered clients, citizens, scope names
    Offline,                   \* the scope offline_access
    Grants,                    \* client |-> the grant types it may use
    Allowed,                   \* client |-> the scopes it is registered for
    Public,                    \* the clients that hold no secret
    Codes, RTokens, ATokens,   \* hashes of codes, refresh and access tokens
    Families,                  \* rotation family ids (uuid.NewString)
    Reqs,                      \* requests that may be in flight at once
    Mortal,                    \* bound: the rows whose expires_at may pass in a run
    Switchable,                \* bound: the clients an administrator switches in a run
    None                       \* SQL NULL, the empty string

GrantTypes == {"authorization_code", "refresh_token", "client_credentials"}

ASSUME ClientAssumption ==
    /\ Grants \in [Clients -> SUBSET GrantTypes]
    /\ Allowed \in [Clients -> SUBSET Scopes]
    /\ Public \subseteq Clients
ASSUME KeyAssumption ==
    /\ Codes \cap RTokens = {} /\ Codes \cap ATokens = {} /\ RTokens \cap ATokens = {}
    /\ None \notin Codes \cup RTokens \cup ATokens \cup Families \cup Subjects

VARIABLES
    codes,    \* oauth_auth_codes: code hash |-> row
    refresh,  \* oauth_refresh_tokens: token hash |-> row
    access,   \* oauth_access_tokens: token hash |-> row
    expired,  \* the rows whose expires_at has passed
    enabled,  \* oauth_clients.enabled: the clients switched on
    held,     \* the tokens a client has received in a response
    reqs      \* request in flight |-> what it holds between two steps

vars == <<codes, refresh, access, expired, enabled, held, reqs>>

-----------------------------------------------------------------------------
(* Rows, and the records of requests in flight.                              *)

CodeRow == [client: Clients, subject: Subjects, scopes: SUBSET Scopes,
            used: BOOLEAN, swept: BOOLEAN]
RefreshRow == [family: Families, client: Clients, subject: Subjects,
               scopes: SUBSET Scopes, consumed: BOOLEAN, revoked: BOOLEAN,
               code: Codes]
AccessRow == [family: Families \cup {None}, client: Clients,
              subject: Subjects \cup {None}, scopes: SUBSET Scopes,
              revoked: BOOLEAN, code: Codes \cup {None}]

Authed == [at: {"authed"}, client: Clients, input: Codes \cup RTokens \cup {None}]
Storing ==
    [at: {"store"}, client: Clients, subject: Subjects, scopes: SUBSET Scopes,
     code: Codes, family: Families \cup {None}]
    \cup [at: {"store"}, client: Clients, subject: {None}, scopes: SUBSET Scopes,
          code: {None}, family: {None}]
Sweeping == [at: {"sweep"}, client: Clients, subject: Subjects, code: Codes]
Closing == [at: {"close"}, family: Families]
Replying == [at: {"reply"}, tokens: SUBSET (ATokens \cup RTokens)]
Job == Authed \cup Storing \cup Sweeping \cup Closing \cup Replying

(* A table is a function from the keys present to their rows.                *)
IsTable(t, K, V) == DOMAIN t \subseteq K /\ t \in [DOMAIN t -> V]
Put(t, k, v) == [x \in DOMAIN t \cup {k} |-> IF x = k THEN v ELSE t[x]]
Drop(t, k) == [x \in DOMAIN t \ {k} |-> t[x]]

(* The rows a request in flight names exist: no row is ever deleted.         *)
RowsExist(job) ==
    /\ job.at = "authed" => job.input \in DOMAIN codes \cup DOMAIN refresh \cup {None}
    /\ job.at = "sweep" => job.code \in DOMAIN codes
    /\ job.at = "reply" => job.tokens \subseteq DOMAIN refresh \cup DOMAIN access

(* The type invariant: every table holds rows of its columns' types, and     *)
(* only rows that exist expire, were handed out or are named by a request    *)
(* (the tables of oauth_flow_postgres.go, the locals of token.go).           *)
TypeOK ==
    /\ IsTable(codes, Codes, CodeRow)
    /\ IsTable(refresh, RTokens, RefreshRow)
    /\ IsTable(access, ATokens, AccessRow)
    /\ expired \subseteq DOMAIN codes \cup DOMAIN refresh \cup DOMAIN access
    /\ enabled \subseteq Clients
    /\ held \subseteq DOMAIN refresh \cup DOMAIN access
    /\ IsTable(reqs, Reqs, Job)
    /\ \A r \in DOMAIN reqs : RowsExist(reqs[r])

At(r, place) == r \in DOMAIN reqs /\ reqs[r].at = place

(* Introspect's verdict: neither revoked nor past expires_at.  It does not   *)
(* look at the client, so a disabled client's tokens stay active.            *)
Active(a) == a \in DOMAIN access /\ ~access[a].revoked /\ a \notin expired

(* A refresh token that ConsumeRefreshToken would still rotate.              *)
Live(t) == t \in DOMAIN refresh /\ ~refresh[t].consumed /\ ~refresh[t].revoked

(* Mutant of Revoke: the rows are deleted.                                   *)
RevokeByDelete(table, hit) == [x \in DOMAIN table \ hit |-> table[x]]

(* Rows of a table with those in hit marked revoked.                         *)
Revoke(table, hit) == [x \in DOMAIN table |->
                         IF x \in hit THEN [table[x] EXCEPT !.revoked = TRUE]
                                      ELSE table[x]]
OfFamily(table, f) == {x \in DOMAIN table : table[x].family = f}
OfOwner(table, s, cl) ==
    {x \in DOMAIN table : table[x].subject = s /\ table[x].client = cl}

(* RevokeFamily, and the second half of RevokeRefreshToken.                  *)
RevokeFamily(f) ==
    /\ refresh' = Revoke(refresh, OfFamily(refresh, f))
    /\ access' = Revoke(access, OfFamily(access, f))

(* Family ids in use: uuid.NewString never returns one of them.              *)
UsedFamilies ==
    {refresh[t].family : t \in DOMAIN refresh}
        \cup {access[a].family : a \in DOMAIN access}
        \cup {reqs[r].family : r \in {q \in DOMAIN reqs : At(q, "store") \/ At(q, "close")}}

-----------------------------------------------------------------------------
(* Requests: client authentication, and the first step of the three grants.  *)

Init ==
    /\ codes = <<>> /\ refresh = <<>> /\ access = <<>>
    /\ expired = {} /\ enabled = Clients /\ held = {} /\ reqs = <<>>

(* The last step of AcceptConsent, seen from here: a code for the scopes the *)
(* citizen granted, out of those the client is registered for.               *)
CreateCode(c, cl, s, granted) ==
    /\ c \notin DOMAIN codes
    /\ "authorization_code" \in Grants[cl]
    /\ granted # {} /\ granted \subseteq Allowed[cl]
    /\ codes' = Put(codes, c, [client |-> cl, subject |-> s, scopes |-> granted,
                               used |-> FALSE, swept |-> FALSE])
    /\ UNCHANGED <<refresh, access, expired, enabled, held, reqs>>

GrantOf(input) == IF input \in Codes THEN "authorization_code"
                  ELSE IF input \in RTokens THEN "refresh_token"
                  ELSE "client_credentials"

(* Token and AuthenticateClient: the client row is read once, here; a client *)
(* disabled later goes on with the request.  A request that fails a check    *)
(* before its first write (a wrong secret, a grant type the client may not   *)
(* use) changes nothing and is not represented.                              *)
AuthenticateClient(r, cl, input) ==
    /\ r \notin DOMAIN reqs
    /\ cl \in enabled
    /\ input \in DOMAIN codes \cup (held \cap RTokens) \cup {None}
    /\ GrantOf(input) \in Grants[cl]
    /\ input = None => cl \notin Public
    /\ reqs' = Put(reqs, r, [at |-> "authed", client |-> cl, input |-> input])
    /\ UNCHANGED <<codes, refresh, access, expired, enabled, held>>

(* Mutants of Fresh: `used`, or expires_at, is not looked at.                *)
FreshUnlessExpired(c) == c \notin expired
FreshUnlessUsed(c) == ~codes[c].used

Fresh(c) == ~codes[c].used /\ c \notin expired

(* ConsumeCode on a fresh code, then the checks that need no table.  The     *)
(* code is spent before they run: a request that fails them burns it.        *)
(* `proof` says whether redirect_uri and the PKCE verifier match.            *)
ExchangeCode(r, proof) ==
    /\ At(r, "authed") /\ reqs[r].input \in Codes
    /\ LET c == reqs[r].input
           cl == reqs[r].client
       IN  /\ Fresh(c)
           /\ codes' = [codes EXCEPT ![c].used = TRUE]
           /\ reqs' = IF proof /\ codes[c].client = cl
                      THEN Put(reqs, r, [at |-> "store", client |-> cl,
                                         subject |-> codes[c].subject,
                                         scopes |-> codes[c].scopes,
                                         code |-> c, family |-> None])
                      ELSE Drop(reqs, r)
    /\ UNCHANGED <<refresh, access, expired, enabled, held>>

(* ConsumeCode on a code already used: the tokens of its citizen at its      *)
(* client are to be revoked, whichever client presented it.  `used` is       *)
(* looked at before expires_at.                                              *)
ReplayCode(r) ==
    /\ At(r, "authed") /\ reqs[r].input \in Codes
    /\ LET c == reqs[r].input
       IN  /\ codes[c].used
           /\ reqs' = Put(reqs, r, [at |-> "sweep", client |-> codes[c].client,
                                    subject |-> codes[c].subject, code |-> c])
    /\ UNCHANGED <<codes, refresh, access, expired, enabled, held>>

(* The same, for a refresh token: consumed or revoked means reuse.           *)
ReuseRefresh(r) ==
    /\ At(r, "authed") /\ reqs[r].input \in RTokens
    /\ LET t == reqs[r].input
       IN  /\ ~Live(t)
           /\ reqs' = Put(reqs, r, [at |-> "close", family |-> refresh[t].family])
    /\ UNCHANGED <<codes, refresh, access, expired, enabled, held>>

(* ConsumeCode and ConsumeRefreshToken on an expired row: invalid_grant.     *)
RefuseExpired(r) ==
    /\ At(r, "authed") /\ reqs[r].input \in expired
    /\ reqs[r].input \in Codes => ~codes[reqs[r].input].used
    /\ reqs[r].input \in RTokens => Live(reqs[r].input)
    /\ reqs' = Drop(reqs, r)
    /\ UNCHANGED <<codes, refresh, access, expired, enabled, held>>

(* Mutant of Narrow: the scopes asked for are taken as granted.              *)
TakeAsked(granted, asked) == IF asked = {} THEN granted ELSE asked

(* The scope parameter: absent means everything granted (RFC 6749, 6).       *)
Narrow(granted, asked) == IF asked = {} THEN granted ELSE granted \cap asked

(* Mutant of Rotatable: consumed_at and revoked_at are not looked at.        *)
RotatableUnlessExpired(t) == t \notin expired

Rotatable(t) == Live(t) /\ t \notin expired

(* ConsumeRefreshToken on a live token.  It is consumed before the owner and *)
(* the scope are checked: another client's request closes the family, a      *)
(* scope outside the grant ends the session with invalid_scope.              *)
RotateRefresh(r, asked) ==
    /\ At(r, "authed") /\ reqs[r].input \in RTokens
    /\ LET t == reqs[r].input
           cl == reqs[r].client
           s == Narrow(refresh[t].scopes, asked)
       IN  /\ Rotatable(t)
           /\ refresh' = [refresh EXCEPT ![t].consumed = TRUE]
           /\ reqs' = IF refresh[t].client # cl
                        THEN Put(reqs, r, [at |-> "close", family |-> refresh[t].family])
                      ELSE IF s = {} THEN Drop(reqs, r)
                      ELSE Put(reqs, r, [at |-> "store", client |-> cl,
                                         subject |-> refresh[t].subject, scopes |-> s,
                                         code |-> refresh[t].code,
                                         family |-> refresh[t].family])
    /\ UNCHANGED <<codes, access, expired, enabled, held>>

(* clientCredentials: no citizen, no family, never a refresh token.          *)
ClientCredentials(r, asked) ==
    /\ At(r, "authed") /\ reqs[r].input = None
    /\ LET s == Narrow(Allowed[reqs[r].client], asked)
       IN  /\ asked # {} => s # {}
           /\ reqs' = Put(reqs, r, [at |-> "store", client |-> reqs[r].client,
                                    subject |-> None, scopes |-> s,
                                    code |-> None, family |-> None])
    /\ UNCHANGED <<codes, refresh, access, expired, enabled, held>>

-----------------------------------------------------------------------------
(* Requests: the second transaction, and the response.                       *)

WantRefresh(job) == /\ job.code # None
                    /\ "refresh_token" \in Grants[job.client]
                    /\ Offline \in job.scopes

(* Mutant of FamilyFor: every refresh token starts a family.                 *)
FamilyAnew(job, f) == IF WantRefresh(job) THEN f \in Families \ UsedFamilies ELSE f = None

(* issue: a family is started with the first refresh token.                  *)
FamilyFor(job, f) ==
    IF job.family # None THEN f = job.family
    ELSE IF WantRefresh(job) THEN f \in Families \ UsedFamilies
    ELSE f = None

(* issue, StoreTokens: the pair is written in one transaction, whatever the  *)
(* request holds; neither the family nor the code is looked at again.        *)
StoreTokens(r, a, t, f) ==
    /\ At(r, "store") /\ a \notin DOMAIN access
    /\ LET job == reqs[r]
       IN  /\ FamilyFor(job, f)
           /\ access' = Put(access, a, [family |-> f, client |-> job.client,
                                        subject |-> job.subject, scopes |-> job.scopes,
                                        revoked |-> FALSE, code |-> job.code])
           /\ IF WantRefresh(job)
              THEN /\ t \in RTokens \ DOMAIN refresh
                   /\ refresh' = Put(refresh, t,
                                     [family |-> f, client |-> job.client,
                                      subject |-> job.subject, scopes |-> job.scopes,
                                      consumed |-> FALSE, revoked |-> FALSE,
                                      code |-> job.code])
              ELSE t = None /\ refresh' = refresh
           /\ reqs' = Put(reqs, r, [at |-> "reply", tokens |-> {a, t} \ {None}])
    /\ UNCHANGED <<codes, expired, enabled, held>>

(* The response reaches the client: only now does anyone hold the tokens.    *)
Reply(r) ==
    /\ At(r, "reply")
    /\ held' = held \cup reqs[r].tokens
    /\ reqs' = Drop(reqs, r)
    /\ UNCHANGED <<codes, refresh, access, expired, enabled>>

(* RevokeForSubjectClient after a replay.                                    *)
SweepTokens(r) ==
    /\ At(r, "sweep")
    /\ LET job == reqs[r]
       IN  /\ refresh' = Revoke(refresh, OfOwner(refresh, job.subject, job.client))
           /\ access' = Revoke(access, OfOwner(access, job.subject, job.client))
           /\ codes' = [codes EXCEPT ![job.code].swept = TRUE]
    /\ reqs' = Drop(reqs, r)
    /\ UNCHANGED <<expired, enabled, held>>

(* RevokeFamily after a reuse or another client's token.                     *)
CloseFamily(r) ==
    /\ At(r, "close")
    /\ RevokeFamily(reqs[r].family)
    /\ reqs' = Drop(reqs, r)
    /\ UNCHANGED <<codes, expired, enabled, held>>

(* A request ends without its next step: the database call fails (the error  *)
(* of a revocation is ignored, that of StoreTokens returned), the id_token   *)
(* cannot be minted, the response is lost, the process stops.  What earlier  *)
(* steps wrote stays.                                                        *)
Abandon(r) ==
    /\ r \in DOMAIN reqs
    /\ reqs' = Drop(reqs, r)
    /\ UNCHANGED <<codes, refresh, access, expired, enabled, held>>

-----------------------------------------------------------------------------
(* Revocation requests, time, and the registry of clients.                   *)

(* /oauth2/revoke on an access token: only the owner, and only a client that *)
(* has a secret.                                                             *)
RevokeAccessToken(cl, a) ==
    /\ cl \in enabled \ Public
    /\ a \in held \cap ATokens /\ access[a].client = cl /\ ~access[a].revoked
    /\ access' = Revoke(access, {a})
    /\ UNCHANGED <<codes, refresh, expired, enabled, held, reqs>>

(* /oauth2/revoke on a refresh token: the whole family goes, in the same     *)
(* transaction, whatever the state of the token presented.                   *)
RevokeRefreshToken(cl, t) ==
    /\ cl \in enabled \ Public
    /\ t \in held \cap RTokens /\ refresh[t].client = cl
    /\ RevokeFamily(refresh[t].family)
    /\ UNCHANGED <<codes, expired, enabled, held, reqs>>

(* expires_at passes.                                                        *)
Expire(x) ==
    /\ x \in Mortal \cap (DOMAIN codes \cup DOMAIN refresh \cup DOMAIN access)
    /\ x \notin expired
    /\ expired' = expired \cup {x}
    /\ UNCHANGED <<codes, refresh, access, enabled, held, reqs>>

(* An administrator switches a client off or on; no token is touched.        *)
SwitchClient(cl) ==
    /\ cl \in Switchable
    /\ enabled' = IF cl \in enabled THEN enabled \ {cl} ELSE enabled \cup {cl}
    /\ UNCHANGED <<codes, refresh, access, expired, held, reqs>>

-----------------------------------------------------------------------------
RequestStep(r) ==
    \/ \E cl \in Clients, input \in Codes \cup RTokens \cup {None} :
           AuthenticateClient(r, cl, input)
    \/ \E proof \in BOOLEAN : ExchangeCode(r, proof)
    \/ ReplayCode(r) \/ ReuseRefresh(r) \/ RefuseExpired(r)
    \/ \E asked \in SUBSET Scopes : RotateRefresh(r, asked)
    \/ \E asked \in SUBSET Scopes : ClientCredentials(r, asked)
    \/ \E a \in ATokens, t \in RTokens \cup {None}, f \in Families \cup {None} :
           StoreTokens(r, a, t, f)
    \/ Reply(r) \/ SweepTokens(r) \/ CloseFamily(r) \/ Abandon(r)

Next ==
    \/ \E c \in Codes, cl \in Clients, s \in Subjects, g \in SUBSET Scopes :
           CreateCode(c, cl, s, g)
    \/ \E r \in Reqs : RequestStep(r)
    \/ \E cl \in Clients, a \in ATokens : RevokeAccessToken(cl, a)
    \/ \E cl \in Clients, t \in RTokens : RevokeRefreshToken(cl, t)
    \/ \E x \in Codes \cup RTokens \cup ATokens : Expire(x)
    \/ \E cl \in Clients : SwitchClient(cl)

Spec == Init /\ [][Next]_vars

-----------------------------------------------------------------------------
(* Properties.                                                               *)

Held(c) == {r \in DOMAIN reqs : At(r, "store") /\ reqs[r].code = c}
LiveUnder(c) == {t \in DOMAIN refresh : refresh[t].code = c /\ Live(t)}

(* A code is a single right to issue tokens, whatever the interleaving of    *)
(* its exchange, its replays and the rotations of its refresh tokens: at any *)
(* time the right is in the unused code, or in one request between consuming *)
(* and StoreTokens, or in one live refresh token (ConsumeCode 213-249 and    *)
(* ConsumeRefreshToken 339-371 are the only takers).                         *)
OneTicket ==
    /\ \A r \in DOMAIN reqs : At(r, "store") /\ reqs[r].code # None =>
          /\ reqs[r].code \in DOMAIN codes /\ codes[reqs[r].code].used
          /\ \A q \in DOMAIN reqs :
                At(q, "store") /\ reqs[q].code = reqs[r].code => q = r
          /\ \A t \in DOMAIN refresh : refresh[t].code = reqs[r].code => ~Live(t)
    /\ \A t \in DOMAIN refresh :
          /\ refresh[t].code \in DOMAIN codes /\ codes[refresh[t].code].used
          /\ \A u \in DOMAIN refresh :
                Live(t) /\ Live(u) /\ refresh[u].code = refresh[t].code => u = t

(* What a row or a request carries goes back to the consent it descends      *)
(* from: the code's client and citizen, and no scope outside it, however     *)
(* many rotations and narrowings lie between (issue 274-331, refresh         *)
(* 190-232).                                                                 *)
Descends(row) ==
    /\ row.client = codes[row.code].client
    /\ row.subject = codes[row.code].subject
    /\ row.scopes \subseteq codes[row.code].scopes

BoundToConsent ==
    /\ \A t \in DOMAIN refresh : refresh[t].code \in DOMAIN codes /\ Descends(refresh[t])
    /\ \A a \in DOMAIN access : access[a].code # None =>
          access[a].code \in DOMAIN codes /\ Descends(access[a])
    /\ \A r \in DOMAIN reqs : At(r, "store") /\ reqs[r].code # None =>
          reqs[r].code \in DOMAIN codes /\ Descends(reqs[r])

(* RevokeFamily reaches exactly one code's tokens, and all the refresh tokens *)
(* of it: two refresh tokens are of one family exactly when they descend     *)
(* from one code, and an access token issued beside one is of its family.    *)
FamilyIsCode ==
    /\ \A t, u \in DOMAIN refresh :
          (refresh[t].family = refresh[u].family) <=> (refresh[t].code = refresh[u].code)
    /\ \A t \in DOMAIN refresh, a \in DOMAIN access :
          (refresh[t].family = access[a].family) <=> (refresh[t].code = access[a].code)

(* Where code c's ticket is, read off the tables (the refinement mapping).   *)
TicketOf(c) ==
    IF c \notin DOMAIN codes THEN "none"
    ELSE IF ~codes[c].used THEN IF c \in expired THEN "over" ELSE "offered"
    ELSE IF Held(c) # {} THEN "held"
    ELSE IF LiveUnder(c) \ expired # {} THEN "live"
    ELSE "over"
UsableOf(c) == {a \in DOMAIN access : access[a].code = c /\ Active(a)}

Ledger == INSTANCE TicketLedger WITH
              ticket <- [c \in Codes |-> TicketOf(c)],
              usable <- [c \in Codes |-> UsableOf(c)]

(* The token endpoint implements the ledger of single tickets.               *)
LedgerSpec == Ledger!LedgerSpec

(* Once nothing of a code is live, held or active, no retry, no late step    *)
(* and no rotation brings any of it back.                                    *)
DeadStaysDead == Ledger!DeadStaysDead

(* Statements of the code's comments that the interleavings refute.          *)

(* token.go:162-164, "all tokens issued with [the replayed code] are         *)
(* revoked": after the replay was answered none of them is usable.           *)
ReplayKillsTokens ==
    \A c \in DOMAIN codes : codes[c].swept => LiveUnder(c) = {} /\ UsableOf(c) = {}

(* oauth_flow_postgres.go:373-374, "revokes ALL refresh and access tokens of *)
(* one rotation family": a family with a revoked refresh token has no live   *)
(* one.                                                                      *)
RevokedFamilyIsDead ==
    \A t, u \in DOMAIN refresh :
        refresh[t].family = refresh[u].family /\ refresh[t].revoked => ~Live(u)
=============================================================================
