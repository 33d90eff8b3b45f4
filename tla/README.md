# Verification of open-gerege-core

TLA+ models of the parts of open-gerege-core in which several processes touch the
same state, TLC runs that check them on small instances, and TLAPS proofs of the
properties that matter most for every instance. Paths are relative to the
repository's root; `P/` stands for `core/datasources/repositories/postgres/` and
`U/` for `core/business/usecases/`.

The server is a Go process of which any number of replicas run against one
PostgreSQL and one Redis. Almost nothing is shared in memory: a handler calls a
use case, the use case calls repositories, and each repository call is a statement
or a transaction of its own. A request is thus a sequence of atomic steps, between
which any step of any other request on any replica may happen, and after any of
which the process may stop. The models are built around exactly that: **one action
per transaction, and a record for what the request holds between two of them.**

## 1. The system

| component | state | operations | what makes it correct |
|---|---|---|---|
| OIDC authorize / login / consent / logout (`U/oidc/authorize.go`, `U/provider`) | `oauth_challenges`, `oauth_consents` | open a request, answer or refuse its pages, remember the answer, mint a code | one request, one outcome; the code says what the pages agreed |
| OIDC token endpoint (`U/oidc/token.go`, `introspect.go`) | `oauth_auth_codes`, `oauth_refresh_tokens`, `oauth_access_tokens` | exchange, rotate, client credentials, replay and reuse handling, revoke, introspect | a code is a single right to issue tokens; nothing outgrows its consent; what is dead stays dead |
| OIDC signing keys (`U/oidc/keys.go`) | `oauth_signing_keys`, a key cached per process | ensure, rotate, sign | one active key; whatever is signed can be verified |
| Applications / clients (`U/applications`, `core/provider`) | `oauth_clients` | CRUD, rotate the secret | the flows read a consistent row |
| Relay (`U/relay`, `P/relay`) | `relay_requests`, `relay_assignments` | ingest, dispatch, answer, SLA sweep on every replica | fulfilled only when all answered; each notice once; an outcome is final |
| Module registry (`kernel/module`, `U/platform`) | the registry in memory, `platform_modules` | boot, switch a module, save, restart | no module without its dependencies; a boot settles whatever the order |
| Sessions (`U/auth`, `U/users`, `middleware_auth.go`) | refresh ids, the cut-off, the deny list, lockout counters and reset requests in Redis; `users`, and a copy of its rows in each process | log in, refresh, log out, change and reset a password | a session ends when it should; a code or token works once |
| Super admin onboarding, MFA, recovery (`U/superadmin_onboarding`, `P/recovery`) | the wizard's entry in Redis, accounts, recovery codes | the steps of the wizard, MFA, recovery | no step skipped; a recovery code works once |
| Government services (`U/gov`, `P/gov`) | applications, references, notifications, timeline | apply, cancel, take, ask, answer, decide, deliver, SLA sweep | one outcome, recorded in full; the office answers for its own time; silence grants |
| Document signing (`U/sign`) | a session record in Redis | start, poll, download | a completed signature stays completed |
| Audit log (`P/audit`, `pkg/audit`) | a hash chain | append, verify | one chain, whatever the writers |
| Platform updater (`cmd/platformd`, `kernel/update`, `deploy/platformd`) | the version file, the checkout, the containers | check, apply, probe, record, roll back | only what comes up is recorded |
| Migration runner (`cmd/migration`, `kernel/data/migrate`, `core/datasources/migration`) | one ledger table per module | up, adopt, down | each file once, in order |
| Organizations (`U/org`, `P/org`) | `organizations`, `organization_memberships` | create, add, change the role of and remove a member | an owner stays an owner |
| Roles and permissions (`U/rbac`, `P/rbac`) | `roles`, `role_permissions`, a cache per process | resolve, create, update, delete | what was withdrawn is over within the time to live |
| Registry of services, users, site, theme, language, assets, integrations, AI, gateway console | rows | CRUD, external calls | per-row rules |

They interact through the database (authorize hands the token endpoint a code;
clients are switched under both), through calls (the platform use case switches
the registry that the route gate reads on every request) and through the worker
ticker of `cmd/api/server/server.go:604-624`, which runs each module's sweep on
every replica. Hard behaviour is where one of these crosses another: two requests
for one code, a revocation and a rotation, two sweeps, a sweep and an answer, a
restart over rows that an older version wrote. `PROJECT.json` lists these hazards
line by line, with the property that watches each.

## 2. Modules

| module | models | role |
|---|---|---|
| `TokenEndpoint` | token endpoint | detailed specification |
| `TicketLedger` | what it promises about one code | abstract specification, implemented by `TokenEndpoint` |
| `TokenEndpointProofs` | | theorems about `TokenEndpoint` |
| `AuthorizeFlow` | authorize, login, consent, logout | detailed specification |
| `RelayDispatch` | relay | detailed specification |
| `ModuleRegistry` | module registry, boot, switches | detailed specification |
| `ModuleRegistryProofs` | | theorems about `ModuleRegistry` |
| `Sessions` | sessions: log in, refresh, log out, password change | detailed specification |
| `GovWorkflow` | applications for government services | detailed specification |
| `CaseLedger` | what it promises about one application | abstract specification, implemented by `GovWorkflow` |
| `Signing` | the session of a signature | detailed specification |
| `Onboarding` | the super administrator's wizard, invitations | detailed specification |
| `SuperadminMFA` | his second factor, recovery codes | detailed specification |
| `Organizations` | the members of an organization | detailed specification |
| `RolePermissions` | roles, permissions and the cache of each replica | detailed specification |
| `AuditLog` | the hash chain of the audit log | detailed specification |
| `Migrations` | migration runs of a deployment | detailed specification |
| `Updater` | platformd and its scripts | detailed specification |
| `GovServices` | `GovWorkflow` and `Signing` beside each other | composition |
| `Platform` | `ModuleRegistry`, `Updater`, `Migrations`, `AuditLog`, `Onboarding`, `SuperadminMFA`, `Organizations` and `RolePermissions` beside each other | composition |
| `AuthorizeFlowProofs`, `RelayDispatchProofs`, `SessionsProofs`, `GovWorkflowProofs` | | theorems about the module they are named after |
| `GovServicesProofs`, `PlatformProofs` | | theorems about the parts of the composition they are named after |
| `MCTokenEndpoint`, `MCAuthorizeFlow`, `MCRelayDispatch`, `MCSessions` | | instances for TLC |
| `MCPlatform`, `MCGovWorkflow` | | instances of `Platform` and `GovServices` for TLC |

The parts that `Platform` and `GovServices` put beside each other share no table,
key or file: each is an INSTANCE with constants and variables of its own, and the
assumptions about its constants stand in the composition. In the runs
(`MCPlatform`, `MCGovWorkflow`) a behaviour is about one of the parts, chosen in its
first state (`part`, `scenario`), since nothing is gained by interleaving them; the
theorems are about the specification of each part alone, for all its behaviours.

Each specification carries a few operators commented *Mutant of ...*: the form a
plausible bug would give to the definition they follow. No action uses them; they
document which bug each property would catch (`PROJECT.json`, "mutants").

### TokenEndpoint

The three token tables are functions from hashes to rows, so a row that was never
inserted is outside the domain and nothing is ever deleted (`DeleteExpired` has no
caller). `expires_at` is abstracted to membership of `expired`. A request is an
entry of `reqs`, at one of five places:

| place | between | next |
|---|---|---|
| `authed` | `AuthenticateClient` (88-140) and the first transaction | `ExchangeCode`, `ReplayCode`, `RotateRefresh`, `ReuseRefresh`, `RefuseExpired`, `ClientCredentials` |
| `store` | consuming and `StoreTokens` | `StoreTokens` |
| `sweep`, `close` | a detected replay or reuse and its revocation | `SweepTokens`, `CloseFamily` |
| `reply` | `StoreTokens` and the client's receipt | `Reply` |

and `Abandon` ends it anywhere: a failed database call, an `id_token` that cannot
be minted (the pair is then stored and never delivered), a stop. The order of the
code is kept where it matters: the code or the refresh token is spent *before* the
client, the redirect URI, PKCE and the scope are checked, and `used` is looked at
before `expires_at`. A request refused before its first write changes nothing and
is not represented. A row's `code` field and `swept` are history that the program
does not keep; no guard reads them. `CreateCode` is where `AuthorizeFlow` ends.

`TicketLedger` says what this amounts to: per code a ticket that is offered, held
by one request, live in one refresh token, or over, and access tokens issued only
by whoever holds it. `LedgerSpec` is the refinement, with the mapping `TicketOf`,
`UsableOf` read off the tables.

### AuthorizeFlow

Challenges, remembered consents and codes, and the handlers between their reads
and writes. `AcceptLogin` is five steps (read the challenge, decide it, recall the
consent, create the consent challenge) and `AcceptConsent` four (read, decide,
save the consent, create the code); `Reject` and `AcceptLogout` are a read and a
decision. `DecideChallenge` is one conditional UPDATE, and `Decide` models it,
including the citizen and scopes it writes. The first-party list of
`provider.go:200-207`, by which the page is skipped for the platform's own
clients, is a configuration of the page and is not part of `skip`.

### RelayDispatch

Requests and assignments with an abstract clock per assignment (`Early` < 75 % <
90 % < `Due` < `PastGrace`). Each statement is an action. `RespondAssignment` is
three, `Answer`, `CountPending`, `CommitAnswer`: under PostgreSQL's default READ
COMMITTED its count sees only what others have committed, and the row it updated
stays locked (`Locked`) until it commits. The sweep is modelled statement by
statement, with the list it read (`Snapshot`) and the `now` it took at the start;
every statement may fail (`ok = FALSE`), which the code logs or ignores, and a
sweep or handler may stop anywhere (`Crash`, also the 20 s step timeout). A row of
a list that is already `overdue` is not marked again; whatever the status has
become since, the other marks overwrite it, as the code does.

### ModuleRegistry

Each replica's registry, its boot (`Boot`, the list from the environment, then
the rows of the table, one `Disable` at a time in any order), the switches of
concurrent administrators (the registry first, the upsert later or never), stop
and restart. The table starts with any rows, and rows may name ids that nothing
answers to. Replicas share nothing but that table, so one replica over arbitrary
rows shows what any number does to each of them.

### Sessions

One user: the row, its copy in process memory (`cache`, `flight`), the three kinds
of Redis key that decide whether a token is good (`live`, `denied`, `cutoff`), the
signed pairs, and the requests in flight. A request's place (`at`) names the step
it comes to next:

| request | steps |
|---|---|
| `Login` | `LoginHit`, or `LoginMiss`, `ReadRow` or `JoinRead`, `FillCache`; then `LoginMint`, `Store` |
| eID, SSO, Google sign-in | `Identify`, `IdentityMint`, `Store` |
| `Refresh` | `RefreshTake` (GETDEL), `RefreshLookup`, `RefreshMint`, `Store` |
| `Logout` | `LogoutDelete` (DEL), `LogoutDeny` (SET), `LogoutKeep` (EXPIRE) |
| `ChangePassword` | `ChangeLoad`, `ChangeHash`, `ChangeWrite`, `ChangeClear`, `ChangePublish` (SET), `ChangeProlong` (EXPIRE) |
| `SetActive` | `SetActive`, `SetActiveEvict` |

`Refused` ends a request at a check or a failed call, `Crash` ends all of them and
empties the memory, `Expire` lets a cache entry, a refresh id or an entry with the
default time to live reach its end. A tick is half a second, so that two changes can
share the second a token keeps. `rotations`, `published`, `out` and the field `known`
of a session are history; no guard reads them, but for the bound on changes.

The deny list and the cut-off are written in two calls: `Set`, with the cache's
default time to live (`cache_redis.go:115`), and then `Expire`, with one that outlives
the tokens the entry refuses (24 h for the cut-off, at least as long as an access
token may be configured to live). Each may fail, applied or not, and neither failure
fails the request. An entry is therefore `"default"`, and may vanish at any moment,
or `"own"`, and stays: access tokens do not expire in the model, so what is said of
one is said of the time before its expiry. A second `Set` of the same key makes an
entry `"default"` again.

One process is modelled: Ristretto applies `Set` and `Del` of one process in the order
they were made (`Set` is asynchronous, so an entry may appear a moment later; such a
moment is a log-in that comes before the fill), and a replica whose cache nobody
cleared behaves like a `Login` that hits an old entry.

No property says that a logout ends the access token: `auth_logout.go:77-79` makes
that best effort, and in the code and in the model a logout succeeds without it. What
a logout promises is that its refresh id is gone for good (`RefreshOnce`, no pair
descends from it, and `GoneStaysGone`).

At this commit the routes mount eID, Google and SSO sign-in, refresh and logout
(`core/http/routes/route_auth.go`); `Login`, `ChangePassword` and `ResetPassword`
are use cases with tests and no route. The model is of the use cases.

### GovWorkflow and CaseLedger

A row of `gov_applications` with the columns that decide something, how many
references and notices of each kind belong to it, and which types of entry its
timeline has. Each transaction of `gov_postgres.go` is one step with everything it
writes: `ApplyAuto` (application, reference, notice), `ApplyManual`, `Cancel`,
`ProvideInfo`, `Assign`, `RequestInfo`, `Complete`. `Decide` is two steps,
`ReadForDecision` with the use case's check of `govTransitions` and `Decide` with
the UPDATE's own WHERE. A sweep (`SLASweep`) is `MarkSLABreached`, a `Tell` for each
row of the list it returned, `TacitApprovals`, a `Tell` for each of those,
`EndSweep`; a statement may fail, as the code logs and goes on, and a replica may
stop anywhere. A row has a deadline when its service has one (`Clocked`: `sla_hours`
above 0, `gov_impl.go:160`); rows from before the workflow have neither service nor
deadline. `ProvideInfo` runs under the
role of the citizen, and whether that role may write the timeline (`MayLog`) is the
policy of migration 44. `worked` and `answered` are history.

`CaseLedger` says what this amounts to: a case is filed, settled once by one author
with one result, and then at most delivered. `CaseSpec` is the refinement, with the
mapping `Settled`.

### Signing

`stored` is the session in Redis, `remote` what the eID says, and a request under
way holds the state it read. `Poll`, `VerifiedDigest` and `Download` read the whole
value, ask, write it back whole and answer; a write may fail and is then answered
all the same, values expire. What a request answered is `told`.

### Onboarding and SuperadminMFA

The wizard's value per token (`pending`), the request id of the mail code (`otp`)
and its counter are separate Redis keys; every request copies the value at its
start, may wait, and saves the copy (`SavePending`). The last request validates the
code of the app and then writes account, recovery codes and invitation and deletes
the session in calls of their own (`UpsertSuperAdmin`, `ReplaceCodes`,
`MarkAccepted`, `Finish`). An address stands for the verified identity.
`SuperadminMFA` has one token, its counter, the tries under way and the recovery
codes, whose choice and mark are two steps (`PickRecovery`, `MarkRecovery`) because
the sub-select of `recovery_postgres.go` is evaluated before its row is locked.

### Organizations, RolePermissions

A request on members reads the caller's row, then the member's, then writes, three
transactions; the write looks at nothing again. `overtaken` is history: requests
whose member became an owner after they looked. `RolePermissions` has the rows, a
cache per replica with its expiry, look-ups (`Miss`, `GetRole`,
`GetRolePermissions`, `Fill`) and changes, whose last step clears the cache of the
replica that made them and no other. `Hold` bounds the time between the end of the
read and the fill, which in the code is one sort.

### AuditLog, Migrations, Updater

An append takes the advisory lock, reads the newest hash, draws an id and inserts;
it may be rolled back anywhere. A hash is the pair of what it is computed from, and
times lose their nanoseconds in the hash and in the column. Metadata is part of the
recorded action: every caller records strings, booleans or one small count in a flat
map, whose JSON is the same after JSONB and `json.Unmarshal`; a nested struct or an
integer above 2^53 would not be, and the theorem does not speak of one. A migration run does
the platform's files, asks whether to adopt, and then does each module's files
behind that module's lock; runs stop anywhere, and a newer release brings files.
`Updater` is the loop of platformd with the steps of `update.sh` and `rollback.sh`:
what is checked out, what is saved in `.platformd-prev`, what runs, and the version
file. A script that cannot be started, or cannot open `.platformd-prev`
(`ScriptNotStarted`), leaves there what an earlier update wrote, and the rollback goes
to that; it counts as a fault, after which `RunsProven` speaks only of the file.

## 3. Runs

| run | question | states | result |
|---|---|---|---|
| `TokenClients` | are all rows within their consent, and is a family one code's tokens? | 712 000 | holds |
| `TokenLedger` | is a code one ticket, with two codes beside each other? | 149 000 | holds |
| `AuthorizeFlow` | one outcome per request, and the one its pages agreed? | 120 000 | holds |
| `RelaySweeps` | notices at most once, outcomes final, in spite of crossing sweeps and answers? | 610 000 | holds |
| `Sessions` | does a token open one session, and does a change end the sessions, access tokens and password before it? | 1 200 000 | holds |
| `Platform` | do boots settle and end, runs and files agree, chain, accounts, guesses, owners and permissions hold up? | 642 000 | holds |
| `GovServices` | one outcome, recorded and true; a fair clock; silence grants; signatures agree? | 532 000 | holds |
| `ReplayRace` | `token.go:162-163`: a replay revokes all the code's tokens | | violated |
| `RelayLostFulfil` | `relay_postgres.go:246-247`: all terminal means fulfilled | | violated |
| `RelayOverwrite` | `relay_postgres.go:246`: an answer is terminal | | violated |
| `LostAnswer` | `gov_postgres.go:697-698`: an answer starts the clock again | | violated |
| `HalfMigrated` | `adopt.go:37-38`: no half-migrated database | | violated |

Bounds and why they suffice:

- *Token runs*: two requests in flight, because every race of the endpoint is
  between two (a third only repeats one of them); two refresh and two access
  tokens, so that a rotation and a second issue exist; one citizen, since no
  action reads rows of two, with two clients for what `RevokeForSubjectClient`
  keys on. `TokenLedger` has two codes at different clients, one that always gets
  a refresh token and one that never does, so that revocations by owner meet a
  bystander; `Mortal` bounds which rows expire and `Switchable` which clients an
  administrator touches.
- *AuthorizeFlow*: `bounds` is picked once per behaviour: four challenges and one
  handler at a time (two full requests, so that a remembered consent is met), or
  three challenges, two handlers and one expiry (every race of two answers), or a
  request beside a logout.
- *RelaySweeps*: `bounds` picks a request to two platforms with two handlers and
  one sweep, or a request to one platform with two sweeps through all clock
  values. Two handlers reach the crossing answers, two sweeps every crossing of
  stale lists.
- *Platform, registry*: the corner `auth <- sign <- relay` and `gov` of
  `kernel/module/builtin.go`, which has a core module, a chain and a module with no
  dependents, and one unknown id; four values of `MODULES_DISABLED`, among them
  one that must fail.
- *Session runs*: two requests at a time, and a `scenario` picked once per behaviour:
  log-ins through the cache beside one change (the stale fill needs one reader and one
  writer), and refreshes beside two changes, which is what an overlap takes, both with
  answers that arrive; refreshes beside logouts up to the deletion of the refresh id
  with three pairs, so that a session is refreshed twice; log-ins and refreshes beside
  whole logouts and an administrator with two pairs. Ticks 0 to 2 give a token before,
  in and after the second of a change.
- *Platform, the other parts*: three releases, of which one does not come up and one
  is a major one, and two failures (an update, a rollback and a stop between); three
  modules, two releases, two runners, three runs (two cross, one comes after a
  stop); two audit writers and four ids (two crossing appends, one of them rolled
  back, and a successor); two people who are the first, with seven requests and no
  failure, or one person with six and one failure (every pair of the wizard's
  requests that can overwrite each other, and a repeated last step); two tries with
  one MFA token, limit two, one failed call; three members and two requests at a
  time (a caller, a member, another manager); a role changed through the replica
  that looks it up or through another, a time to live of two ticks and one of hold,
  three ticks.
- *GovServices*: one application, since no action reads rows of two; four services:
  one without an officer, one that silence grants, one that needs judgement, one
  without a deadline; two
  officers with two handlers and one sweep, or one officer with two sweeps; an SLA
  of one tick and three ticks, so that the deadline is moved and passes again; one
  fault. One signing session with three readers: two that cross and one who was told
  before.

Deadlock is not checked: every one of these systems may rightly stop, with all
keys of the finite instance used up.

Symmetry is used only in runs of invariants and action properties, over sets the
specifications treat alike. `Platform` and `GovServices`, which check liveness, use
none.

**Fairness.** `BootEnds` needs weak fairness of `BootStep`: a boot is straight-line
code in one goroutine, reads the database with a background context and waits for
nothing else, so it goes on unless the process stops. `SilenceGrants` needs weak
fairness of the steps of one replica's sweep: the worker of `modules/gov/module.go`
calls it every minute for as long as the process runs, and a failed call is followed
by the next (the run bounds failures, so the sweep is in the end not disturbed). No
fairness is assumed of requests, answers, citizens, officers or administrators.

What the five violated runs show, each in a handful of steps:

- *ReplayRace*: exchange consumes; replay sees `used`, revokes nothing; exchange
  stores. The pair stays active.
- *RelayLostFulfil*: two answers in two open transactions, each counts one
  pending; both commit. All assignments are done, the request stays in progress.
- *RelayOverwrite*: a sweep lists an assignment, the platform answers, the sweep
  marks it overdue; or the platform answers before `MarkDispatched`.
- *LostAnswer*: an officer asks, the citizen (role `user`) answers: the timeline
  entry in the same transaction is refused by `WITH CHECK (false)`, so the answer
  is rolled back and the application stays `info_required`, its clock stopped.
- *HalfMigrated*: a first run creates `users` and stops; the next run finds the
  table and records the remaining files of every module without running them.

Two more statements are refuted by the same models, in runs that are made by
replacing the properties of a configuration:

- `RevokedFamilyIsDead` (`oauth_flow_postgres.go:373-374`: all tokens of a family are
  revoked) with `ReplayRace.cfg`: a rotation consumes; the family is revoked; the
  rotation stores the next pair of the revoked family. `OneTicket` still holds, so
  this is one surviving session, never two, and using the old token again closes it.
- `OldPasswordDies` without its exception (`users_update_password.go:73-74`: the next
  log-in does not read the old hash) with `Sessions.cfg`: a log-in misses the cache and
  reads the row; a change writes the row, deletes the entry, publishes its cut-off and
  returns; the log-in fills the cache with what it read, for five minutes. The run
  checks, and the proof says, that this crossed read is the only way: `crossed` records
  it. No route mounts the password use cases at this commit.

Observations on the code that are not runs, all reachable in the models unless said:

- The wizard looks whether a super administrator exists only at its start
  (`onboarding_identity.go:55-62`), so two first people may both finish; so may two
  sessions of one invitation; an invitation that is deleted does not end a wizard
  under way; a `TOTPInit` saved late makes a finished session again.
- `Consume` picks a recovery code in a sub-select; under READ COMMITTED two
  concurrent tries may both pass with it (`recovery_postgres.go:126-129` says one).
- A request that read a member before he became an owner may still demote or remove
  him (`org_impl.go:173-177`, `203-204`); `OwnersStay` says that only such a request
  may, and never the creator.
- A poll that was told "completed" and whose write failed leaves `Download` refusing
  until the next poll.
- `rbac_impl.go:22-24` says that the time to live is for rare races, since a write
  invalidates at once; the caches of other replicas are only ever ended by it.
- Silence grants without issuing a reference (`domain_gov.go:31`), `AssignApplication`
  takes `submitted` to `in_review`, which `govTransitions` does not list, and the
  overview counts only `submitted` and `in_review`.


## 4. Proofs

Every invariant that a passing run checks is a theorem, and so is every action
property and both refinements: the runs show them on the instances above, the
proofs for every value of the constants. Each proof has the same plan: an inductive
invariant (`IInv`, or `...Inv` in a composition), one lemma per action that it is
kept, one lemma for the initial states, and the property as a consequence of it.
What the invariant adds to the property is what a request, between two of its
steps, may rely on although everybody else goes on; each was checked by TLC on the
instances before it was proved. An action property comes from what the same step
lemmas say of a step, so it also uses the invariant.

The assumptions on constants are the named ASSUMEs of the modules, which TLC
evaluates in the runs. They say that bounds are numbers, that what is counted is
finite (`Sweepers`, `MFARequests`), that `None` is none of the values it stands
beside, and a few facts about a deployment, each from the code: dependencies of
manifests have no cycle, the first release brings the file that creates `users`,
the roles that have the whole catalogue are system roles (the migrations of
`modules/rbac` insert them so).

`TokenEndpointProofs` (`ClientAssumption`, `KeyAssumption`: the hash spaces are
disjoint, the registry is well-typed):

- `Typing`: `TypeOK` is inductive as it stands because it includes that requests in
  flight name rows that exist.
- `SingleTicket` (`OneTicket`): a request at `store` excludes both another one and a
  live refresh token of its code, and every refresh token's code is used; then the
  only two steps that move a request to `store` start from the one place the ticket
  is in.
- `TokensBoundToConsent` (`BoundToConsent`): the clause about requests in flight
  carries it, which copies of a code's scopes pass through.
- `OneFamilyPerCode` (`FamilyIsCode`) needs `Lineage`: a request at `store` without
  a family is of a code that has no refresh token yet, and one with a family has it
  from a refresh token of its own code. That is why a fresh id is fresh for the code
  too, in spite of rotations that issue no refresh token.
- `KeepsTheLedger` (`LedgerSpec`): a step simulation. Each action moves the ticket of
  at most one code, as `TicketLedger` allows, or revokes; the lemmas say which parts
  of the tables the mapping `TicketOf`, `UsableOf` of a code reads.
- `OverIsForEver` (`DeadStaysDead`): from the same invariant, no step writes a
  spent or revoked row back.

`AuthorizeFlowProofs`: `OneOutcomePerRequest`, `CodesMatchTheirPages`,
`SkippedPagesWereEarned`, `SavedBeforeMinted`, `TypeInvariant`. `Exclusive` is the
heart: of one request there is at most one consent page and one handler past a
decision, and where there is a handler past a decision there is no code yet; the
one UPDATE that finds a page undecided makes it so. `RowOK` and `JobOK` tie pages to
the login they come from and a handler to the page it has read. `RowOK` is also why
`TypeInvariant` includes `Filled`: a consent page names its citizen although the column
may be NULL.

`SessionsProofs`: `TokensRefreshOnce`, `ChangesCloseSessions`,
`CutoffsRefuseAccess`, `ReplacedPasswordsDie`, `GoneForGood`, `TypeInvariant`.
`Distinct` says that no two requests are about to do the same once-only thing (fill
from one flight, rotate one token, store one session, carry one change); `ChangesOK`
ties the row to the changes that were really written; `CutoffOK` says that what Redis
has is the cut-off of the last change that published one, and that it is there, with
its own time to live, when that change could prolong it, which is what
`CutoffsRefuseAccess` follows from; `CopiesOK` says that a replaced password is not in
the row and, once its change cleared the cache, in a copy only when a read was crossed;
and `Covers` says what a refresh that has passed its check knows: every change it has
seen is beaten by the stamp it read, or was overwritten by one with an older stamp.

`RelayDispatchProofs`: `BreachIsToldOnce`, `NoticesAreBounded`,
`FulfilledIsAnswered`, `OutcomesStick`, `TypeInvariant`. `CountsOK` carries the
bounds, by counting: the reminders sent of an assignment, and the replicas whose
list still owes it one or two more, together stay below two per replica; a sweep
that reads its list joins the count only with what the row says is owed. `BreachOK`
says that whoever flipped the flag is the only one to tell. `FulfilledIsAnswered`
rests on `responded`, which no late write of a status takes back.

`ModuleRegistryProofs`:

- `Typing`, `NoBrokenDependency` (`DependenciesEnabled`), `BootIsDeterminate`
  (`BootSettles`) and `EnvObeyed` (`EnvIsObeyed`).
- `BootInv` relates a boot's registry to its lists: what is off was listed, and what
  is listed, installed and still on is still pending, with only the table's rows
  pending in the second phase. Lemma `FixedPoint` is the heart: when nothing pending
  can be disabled and the dependency graph has no cycle, what is on is exactly
  `Settled(listed)`, since an element of the largest removable set that were still
  on would have a dependent still on in the same set, and acyclicity gives one
  without. This is why the order does not matter.

`PlatformProofs`, the other parts of `Platform`:

- `RecordedReleasesWork` (`RunsProven`): what is written to the file was probed, and,
  undisturbed, checkout, containers and file move together.
- `LogVerifies` (`ChainVerifies`): the lock's holder is the only one between reading
  and committing, so what it read is still the newest hash (`ReadIsFresh`) and its id
  is above every committed one (`IdIsNewest`).
- `FilesRunOnce` (`MigrationsRunOnce`): a run that applies files holds the lock of
  the module, its list is what the books miss, and files that ran without being
  booked are of a database that every run adopts.
- `OwnersAreSafe` (`OwnersStay`): a request about to unseat somebody is not about the
  creator, and if its member is an owner it was overtaken.
- `GuessesAreBounded` (`GuessesBounded`) is a budget. While the token is there
  (`Open`), the codes looked at, the tries let pass, those the counter has left and
  those that a request about to forget the counter will open again stay, with the
  other requests at once, within the limit for every deletion lost and one for every
  count lost. When it is gone (`Closed`) only requests under way can still try, and a
  request past the limit is needed to begin the counter anew.
- `TakenAwayIsOver` (`PermissionsLapse`): an answer in hand was true when it was read
  and has not been held longer than `Hold` (`LookupsFresh`), so what is kept expires
  within the time to live and the hold of when the role last had it
  (`AnswersExpire`). System roles keep their rows, which is why the roles with the
  whole catalogue need no row to look at.
- `AccountsAreEarned` (`AccountWasEarned`): every copy of a session, stored or in a
  request's hands, says only what was shown under its own token (`Proven`,
  `Honest`), so it does not matter whose copy overwrites whose; a token is begun once
  and for one address (`TokensCounted`), so the code kept for it was sent to the
  address of every copy.
- `PlatformTyping` (`KernelTypes`): the types of all eight parts.

`GovWorkflowProofs` (also that `None` is none of the results, statuses and authors,
`Names`):

- `GovTyping`, `OfficeTimeOnly` (`ClockIsFair`), `TracesTogether` (`OutcomeRecorded`)
  and `KeepsThePromise` (`CaseSpec`, the refinement).
- The invariant adds to `TypeOK`: what is not filed has no history (`Absent`); a row
  has a result exactly when it is closed, and then an author (`RowsOK`); the deadline
  is the filing plus the SLA plus the time the citizen had, which ties `due` to
  `worked` (`ClocksOK`, where `ClockIsFair` comes from: overdue means worked for more
  than the SLA); traces of decisions (`Traced`); what a handler carries is a
  consistent verdict (`Deciding`); and what a sweep has still to tell nobody else
  tells and is true (`Sweeping`, which needs that a marked row is never marked again
  and a settled row never settled again). The refinement is a step simulation: each
  action settles at most the rows it may, `TacitApprovals` being `SettleOverdue`.

`GovServicesProofs`: `SignedMeansSigned` (`AnswersAgree`), because a decision is
never taken back and every copy of an end, in Redis, in a reader's hands or told, was
made from it; `ServicesTyping` (`AllTypes`).

Model-checked only: `BootEnds` and `SilenceGrants`, which are liveness under
fairness and out of the prover's reach; and the five statements that are refuted,
by counterexample.

## 5. What is not modelled

Expiry times, hashes, PKCE, JWTs, redirect URIs and JSON are data; the models keep
their outcome. Row-level security is taken as given where it decides visibility.
`RevokeFamily`, `RevokeRefreshToken` and `StoreTokens` are single transactions of two
statements and are modelled as one step each.

- *OIDC signing keys*: only `EnsureKey` at boot (`server.go:428`) has a caller. Two
  first boots may both insert a key; a partial unique index lets one of them fail and
  start again. Rotation has no caller.
- *Password log-in counters, OTP, forgot and reset*: no route mounts them; the last
  steps of a reset are those of `ChangePassword` in `Sessions`.
- *Google linking, eID and SSO sign-in*: protocols with external services. One-time
  state is taken by GETDEL. What they do to row and session is `Identify` and
  `IdentityMint`; that a sign-in's profile refresh may link an account again that was
  unlinked meanwhile is not modelled.
- *Government services*: payments, appointments and references requested directly are
  single statements; acknowledgements and timeline entries that follow a commit and
  whose failure is only logged are left out.
- *Migrations*: `down`, a manual command on one file.
- *Applications, service registry, content modules, security events, gateway console
  and AI*: rows of their own changed by single statements or transactions, and calls
  to external services; no interleaving to check. The HTTP layer and the packages
  below it keep no shared state beyond what the models have.

## 6. Plan

Done so far: the OIDC provider's two halves, the relay, the module registry, the
sessions, government services and signing, the wizard and the second factor,
organizations, roles, audit log, migrations, updater; every safety property, action
property and refinement that the runs check is proved.

1. `OidcProvider`: `AuthorizeFlow` and `TokenEndpoint` together, `CreateCode` being
   the shared step, so that a token is traced back to the pages that agreed to it.
2. Theorems that go beyond the runs: where the refuted statements do hold (one
   handler at a time for `AllAnsweredFulfils`, no stop for `RecordedHasRun`).
3. `Attempts`, the counters and one-time codes of the password use cases, once a
   route mounts them.
