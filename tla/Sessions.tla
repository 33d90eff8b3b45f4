------------------------------ MODULE Sessions ------------------------------
(* Sessions of one user: logging in, refreshing, logging out and changing    *)
(* the password (core/business/usecases/auth, .../users, and the middleware  *)
(* core/http/middlewares/middleware_auth.go).                                *)
(*                                                                           *)
(* A session is a pair of signed tokens.  The server keeps the refresh       *)
(* token's id in Redis while it may be used, and the ids of access tokens    *)
(* that were logged out.  A password change stamps the user's row and        *)
(* publishes the stamp in Redis: tokens issued before it are refused.        *)
(* Either entry is written with the cache's default time to live and only    *)
(* then, by a second call, given one of its own that outlives the tokens.    *)
(* The users use case keeps a copy of the row in process memory, filled      *)
(* through a singleflight group and deleted by whoever writes the row.       *)
(*                                                                           *)
(* Each Redis call, row access and cache call is a step of its own.  Time    *)
(* is counted in ticks of half a second: a change is stamped with the tick,  *)
(* a token with the second, which is what a JWT keeps.  A password is the    *)
(* number of the change that set it, 0 being the one before all of them.     *)
(* A local user has an e-mail and a password, and may have a Google account; *)
(* the others come from eID or the SSO and have neither.                     *)
(*                                                                           *)
(* Access tokens do not expire here: what is said of one is said of the time *)
(* before its expiry.                                                        *)
(*                                                                           *)
(* rotations, published, out and the field known of a session are history:   *)
(* no action's guard reads them, but for the bound on changes.               *)
EXTENDS Integers, FiniteSets, Sequences

CONSTANTS
    Sids,        \* the ids (jti) of the pairs that may be minted
    Reqs,        \* requests that may be in flight at once
    None,        \* no user, no parent
    MaxTick,     \* bound: the clock stops here
    MaxChanges   \* bound: password changes that get as far as a new hash

ASSUME BoundAssumption == MaxTick \in Nat /\ MaxChanges \in Nat

VARIABLES
    row,        \* the user's row in Postgres
    cache,      \* its copy in process memory under user/<email>
    flight,     \* the row a singleflight read has fetched and not yet handed on
    live,       \* Redis refresh:<jti>: refresh tokens that may still be used
    denied,     \* Redis access_deny:<jti> |-> the time to live it has
    cutoff,     \* Redis pwd_cutoff:<user>: its second and its time to live
    now,        \* the clock, in ticks
    sessions,   \* jti |-> what the signed pair says, and where it came from
    held,       \* the pairs a client has received
    reqs,       \* request in flight |-> what it holds between two steps
    rotations,  \* change |-> its stamp and how far it has got
    published,  \* the changes whose stamp got into Redis, in that order
    out         \* the pairs whose refresh id a logout deleted

vars == <<row, cache, flight, live, denied, cutoff, now, sessions, held, reqs,
          rotations, published, out>>
redis == <<live, denied, cutoff>>
issued == <<sessions, held>>
history == <<rotations, published, out>>

-----------------------------------------------------------------------------
Never == -1                       \* no password change yet, no cutoff in Redis
Ticks == 0..MaxTick
SecondOf(t) == IF t = Never THEN Never ELSE t \div 2
Passwords == 0..MaxChanges

User == [local: BOOLEAN, password: Passwords, changedAt: Ticks \cup {Never},
         active: BOOLEAN]
ASSUME NoneAssumption == None \notin Sids \cup User

Session == [iat: 0..SecondOf(MaxTick), parent: Sids \cup {None},
            password: Passwords \cup {None}, known: SUBSET (1..MaxChanges)]

(* How long an entry written by Set lives: the cache's default, which may    *)
(* end before the tokens the entry refuses, or, once an Expire was applied,  *)
(* as long as they do.                                                       *)
TTL == {"default", "own"}
Cutoff == [second: (0..SecondOf(MaxTick)) \cup {Never}, ttl: TTL]
NoCutoff == [second |-> Never, ttl |-> "default"]

(* over is the password a change replaced; kept says that the Expire after   *)
(* its cutoff was applied; crossed, that a read which had fetched the old    *)
(* row was under way when the change dropped the cached copy.                *)
Rotation == [at: Ticks, stage: {"hashed", "written", "cleared", "done"},
             over: Passwords \cup {None}, kept: BOOLEAN, crossed: BOOLEAN]
Written == {"written", "cleared", "done"}

(* What a request holds between two steps, by the step it comes to next.     *)
Job ==
    [at: {"miss", "fill", "wait"}, password: Passwords, known: SUBSET (1..MaxChanges)]
    \cup [at: {"check"}, password: Passwords, user: User, known: SUBSET (1..MaxChanges)]
    \cup [at: {"identified", "deny", "evict"}]
    \cup [at: {"lookup"}, token: Sids]
    \cup [at: {"rotate"}, token: Sids, user: User, known: SUBSET (1..MaxChanges)]
    \cup [at: {"store", "keep"}, sid: Sids]
    \cup [at: {"verify"}, password: Passwords, user: User]
    \cup [at: {"write", "clear", "publish", "prolong"}, change: 1..MaxChanges]

Put(f, k, v) == [x \in DOMAIN f \cup {k} |-> IF x = k THEN v ELSE f[x]]
Drop(f, k) == [x \in DOMAIN f \ {k} |-> f[x]]

(* The type invariant: the row and its copies, Redis, the signed pairs and   *)
(* the requests in flight hold values of their types, and Redis and the      *)
(* clients only know pairs that were minted (domain_users.go, auth_impl.go). *)
TypeOK ==
    /\ row \in User /\ cache \in User \cup {None} /\ flight \in User \cup {None}
    /\ now \in Ticks /\ cutoff \in Cutoff
    /\ DOMAIN sessions \subseteq Sids /\ sessions \in [DOMAIN sessions -> Session]
    /\ denied \in [DOMAIN denied -> TTL]
    /\ live \cup DOMAIN denied \cup held \cup out \subseteq DOMAIN sessions
    /\ DOMAIN reqs \subseteq Reqs /\ reqs \in [DOMAIN reqs -> Job]
    /\ DOMAIN rotations \subseteq 1..MaxChanges
    /\ rotations \in [DOMAIN rotations -> Rotation]
    /\ published \in Seq(DOMAIN rotations)

Init ==
    /\ \E local \in BOOLEAN :
          row = [local |-> local, password |-> 0, changedAt |-> Never, active |-> TRUE]
    /\ cache = None /\ flight = None
    /\ live = {} /\ denied = <<>> /\ cutoff = NoCutoff /\ now = 0
    /\ sessions = <<>> /\ held = {} /\ reqs = <<>>
    /\ rotations = <<>> /\ published = <<>> /\ out = {}

Free(r) == r \in Reqs \ DOMAIN reqs
At(r, place) == r \in DOMAIN reqs /\ reqs[r].at = place
Goto(r, job) == reqs' = Put(reqs, r, job)
Leave(r) == reqs' = Drop(reqs, r)
Reached(stages) == {n \in DOMAIN rotations : rotations[n].stage \in stages}

-----------------------------------------------------------------------------
(* GenerateTokenPair and rememberRefresh, which every way in ends with.      *)

Mint(r, parent, password, known) ==
    \E s \in Sids \ DOMAIN sessions :
        /\ sessions' = Put(sessions, s, [iat |-> SecondOf(now), parent |-> parent,
                                         password |-> password, known |-> known])
        /\ Goto(r, [at |-> "store", sid |-> s])

(* Mutant of Remember: the pair's parent stays usable, for a client that     *)
(* lost the answer.                                                          *)
RememberWithGrace(s) == live \cup {s} \cup ({sessions[s].parent} \ {None})

Remember(s) == live \cup {s}

(* The client has the pair, unless the answer is lost or setting the id's    *)
(* time to live fails after the id is stored.                                *)
Store(r) ==
    /\ At(r, "store")
    /\ live' = Remember(reqs[r].sid)
    /\ held' \in {held, held \cup {reqs[r].sid}}
    /\ Leave(r)
    /\ UNCHANGED <<row, cache, flight, denied, cutoff, now, sessions, history>>

-----------------------------------------------------------------------------
(* Login with a password.  GetByEmail answers from the cache, or one request *)
(* reads the row and the others that asked meanwhile share what it read.     *)

LoginHit(r, password) ==
    /\ Free(r) /\ cache # None
    /\ Goto(r, [at |-> "check", password |-> password, user |-> cache,
                known |-> Reached({"done"})])
    /\ UNCHANGED <<row, cache, flight, redis, now, issued, history>>

LoginMiss(r, password) ==
    /\ Free(r) /\ cache = None /\ row.local
    /\ Goto(r, [at |-> "miss", password |-> password, known |-> Reached({"done"})])
    /\ UNCHANGED <<row, cache, flight, redis, now, issued, history>>

ReadRow(r) ==
    /\ At(r, "miss") /\ flight = None
    /\ flight' = row
    /\ Goto(r, [reqs[r] EXCEPT !.at = "fill"])
    /\ UNCHANGED <<row, cache, redis, now, issued, history>>

JoinRead(r) ==
    /\ At(r, "miss") /\ flight # None
    /\ Goto(r, [reqs[r] EXCEPT !.at = "wait"])
    /\ UNCHANGED <<row, cache, flight, redis, now, issued, history>>

(* The reader fills the cache; it and all that joined get the same user.     *)
FillCache(r) ==
    /\ At(r, "fill")
    /\ cache' = flight
    /\ flight' = None
    /\ reqs' = [q \in DOMAIN reqs |->
                  IF q = r \/ At(q, "wait")
                    THEN [at |-> "check", password |-> reqs[q].password,
                          user |-> flight, known |-> reqs[q].known]
                    ELSE reqs[q]]
    /\ UNCHANGED <<row, redis, now, issued, history>>

LoginMint(r) ==
    /\ At(r, "check")
    /\ reqs[r].user.active /\ reqs[r].user.password = reqs[r].password
    /\ Mint(r, None, reqs[r].password, reqs[r].known)
    /\ UNCHANGED <<row, cache, flight, redis, now, held, history>>

(* Login by an identity: eID and the SSO write their row and make it active; *)
(* Google writes nothing of this and does not look at active.                *)
Identify(r) ==
    /\ Free(r)
    /\ \/ ~row.local /\ row' = [row EXCEPT !.active = TRUE]
       \/ row' = row
    /\ Goto(r, [at |-> "identified"])
    /\ UNCHANGED <<cache, flight, redis, now, issued, history>>

IdentityMint(r) ==
    /\ At(r, "identified")
    /\ Mint(r, None, None, {})
    /\ UNCHANGED <<row, cache, flight, redis, now, held, history>>

-----------------------------------------------------------------------------
(* Refresh: the token's id is taken out of Redis first, by GETDEL.           *)

(* Mutant of Taken: a plain GET, with the id deleted only by Logout.         *)
PeekedOnly(token) == live

Taken(token) == live \ {token}

RefreshTake(r, token) ==
    /\ Free(r) /\ token \in held \cap live
    /\ live' = Taken(token)
    /\ Goto(r, [at |-> "lookup", token |-> token])
    /\ UNCHANGED <<row, cache, flight, denied, cutoff, now, issued, history>>

(* Mutants of FreshUser: the user is taken from the cache, the second time   *)
(* without looking whether it is there.                                      *)
CachedUser(token) == IF cache # None THEN cache ELSE row
UncheckedUser(token) == cache

FreshUser(token) == row

RefreshLookup(r) ==
    /\ At(r, "lookup")
    /\ Goto(r, [at |-> "rotate", token |-> reqs[r].token,
                user |-> FreshUser(reqs[r].token),
                known |-> Reached(Written)])
    /\ UNCHANGED <<row, cache, flight, redis, now, issued, history>>

(* IssuedAt is a whole second; After compares it with the precise stamp.     *)
IssuedAfter(token, user) == 2 * sessions[token].iat > user.changedAt

RefreshMint(r) ==
    LET token == reqs[r].token
        user == reqs[r].user
    IN  /\ At(r, "rotate")
        /\ user.active /\ IssuedAfter(token, user)
        /\ Mint(r, token, user.password, reqs[r].known)
        /\ UNCHANGED <<row, cache, flight, redis, now, held, history>>

-----------------------------------------------------------------------------
(* Logout.  Deleting an id that is not there is no error: the access token   *)
(* the client sent along, of whichever pair, is denied all the same.         *)

LogoutDelete(r, s) ==
    /\ Free(r) /\ s \in held
    /\ live' = live \ {s}
    /\ out' = out \cup ({s} \cap live)
    /\ Goto(r, [at |-> "deny"])
    /\ UNCHANGED <<row, cache, flight, denied, cutoff, now, issued, rotations, published>>

(* denyAccessToken: an entry with the default time to live, which Set also   *)
(* gives to an entry that is there, and then the token's own.  Neither call  *)
(* need happen: without a token, or with one that does not parse, and after  *)
(* a failed Set, Logout skips the rest and succeeds (Refused covers it).     *)
LogoutDeny(r) ==
    /\ At(r, "deny")
    /\ \E a \in held :
          /\ denied' = Put(denied, a, "default")
          /\ Goto(r, [at |-> "keep", sid |-> a])
    /\ UNCHANGED <<row, cache, flight, live, cutoff, now, issued, history>>

LogoutKeep(r) ==
    /\ At(r, "keep")
    /\ denied' = [a \in DOMAIN denied |-> IF a = reqs[r].sid THEN "own" ELSE denied[a]]
    /\ Leave(r)
    /\ UNCHANGED <<row, cache, flight, live, cutoff, now, issued, history>>

(* Mutant of Accepted: a token of the change's own second is let in.         *)
AcceptedSameSecond(s) == s \in held \ DOMAIN denied /\ sessions[s].iat >= cutoff.second

(* AuthMiddleware lets the access token of s in.                             *)
Accepted(s) == s \in held \ DOMAIN denied /\ sessions[s].iat > cutoff.second

-----------------------------------------------------------------------------
(* ChangePassword.                                                           *)

ChangeLoad(r, password) ==
    /\ Free(r) /\ row.local /\ Cardinality(DOMAIN rotations) < MaxChanges
    /\ Goto(r, [at |-> "verify", password |-> password, user |-> row])
    /\ UNCHANGED <<row, cache, flight, redis, now, issued, history>>

(* The current password is right: hash the new one and take the stamp.       *)
ChangeHash(r) ==
    LET n == Cardinality(DOMAIN rotations) + 1
    IN  /\ At(r, "verify") /\ n <= MaxChanges
        /\ reqs[r].user.password = reqs[r].password
        /\ rotations' = Put(rotations, n, [at |-> now, stage |-> "hashed", over |-> None,
                                           kept |-> FALSE, crossed |-> FALSE])
        /\ Goto(r, [at |-> "write", change |-> n])
        /\ UNCHANGED <<row, cache, flight, redis, now, issued, published, out>>

ChangeWrite(r) ==
    LET n == reqs[r].change
    IN  /\ At(r, "write")
        /\ row' = [row EXCEPT !.password = n, !.changedAt = rotations[n].at]
        /\ rotations' = [rotations EXCEPT ![n].stage = "written",
                                          ![n].over = row.password]
        /\ Goto(r, [at |-> "clear", change |-> n])
        /\ UNCHANGED <<cache, flight, redis, now, issued, published, out>>

(* Mutant of Cleared: the entry that is deleted is another one.              *)
NotCleared == cache

Cleared == None

ChangeClear(r) ==
    LET n == reqs[r].change
    IN  /\ At(r, "clear")
        /\ cache' = Cleared
        /\ rotations' = [rotations EXCEPT
              ![n].stage = "cleared",
              ![n].crossed = flight # None /\ flight.password = rotations[n].over]
        /\ Goto(r, [at |-> "publish", change |-> n])
        /\ UNCHANGED <<row, flight, redis, now, issued, published, out>>

(* recordTokenCutoff: an entry with the default time to live, and then its   *)
(* own.  The change succeeds whatever becomes of it: Set may fail, with the  *)
(* entry written or not, and then nothing more is tried; so may Expire.      *)
ChangePublish(r) ==
    LET n == reqs[r].change
        finished == [rotations EXCEPT ![n].stage = "done"]
        set == /\ cutoff' = [second |-> SecondOf(rotations[n].at), ttl |-> "default"]
               /\ published' = Append(published, n)
    IN  /\ At(r, "publish")
        /\ \/ set /\ Goto(r, [at |-> "prolong", change |-> n]) /\ rotations' = rotations
           \/ set /\ Leave(r) /\ rotations' = finished
           \/ UNCHANGED <<cutoff, published>> /\ Leave(r) /\ rotations' = finished
        /\ UNCHANGED <<row, cache, flight, live, denied, now, issued, out>>

(* Expire acts on the entry that is there, whichever change wrote it.        *)
ChangeProlong(r) ==
    LET n == reqs[r].change
    IN  /\ At(r, "prolong")
        /\ \E applied \in IF cutoff = NoCutoff THEN {FALSE} ELSE BOOLEAN :
              /\ cutoff' = IF applied THEN [cutoff EXCEPT !.ttl = "own"] ELSE cutoff
              /\ rotations' = [rotations EXCEPT ![n].stage = "done", ![n].kept = applied]
        /\ Leave(r)
        /\ UNCHANGED <<row, cache, flight, live, denied, now, issued, published, out>>

-----------------------------------------------------------------------------
(* An administrator switches the account on or off.                          *)

SetActive(r, active) ==
    /\ Free(r)
    /\ row' = [row EXCEPT !.active = active]
    /\ Goto(r, [at |-> "evict"])
    /\ UNCHANGED <<cache, flight, redis, now, issued, history>>

SetActiveEvict(r) ==
    /\ At(r, "evict")
    /\ cache' = None
    /\ Leave(r)
    /\ UNCHANGED <<row, flight, redis, now, issued, history>>

-----------------------------------------------------------------------------
(* A request is refused, or fails at its next call to Redis or Postgres, and *)
(* returns.  A cache call cannot fail, and the reader of a singleflight      *)
(* hands on what it has read.  Also what Logout skips when it cannot deny    *)
(* the access token.                                                         *)
Refused(r) ==
    /\ \E place \in {"miss", "check", "identified", "lookup", "rotate", "store",
                     "deny", "keep", "verify", "write"} : At(r, place)
    /\ Leave(r)
    /\ UNCHANGED <<row, cache, flight, redis, now, issued, history>>

(* The server stops: what was in memory is gone.                             *)
Crash ==
    /\ reqs # <<>>
    /\ reqs' = <<>> /\ cache' = None /\ flight' = None
    /\ UNCHANGED <<row, redis, now, issued, history>>

(* The cache's entry, a refresh id, or an entry that was left with the       *)
(* default time to live reaches its end.                                     *)
Forget ==
    \/ /\ cache # None /\ cache' = None
       /\ UNCHANGED redis
    \/ /\ \E s \in live : live' = live \ {s}
       /\ UNCHANGED <<cache, denied, cutoff>>
    \/ /\ \E a \in DOMAIN denied : denied[a] = "default" /\ denied' = Drop(denied, a)
       /\ UNCHANGED <<cache, live, cutoff>>
    \/ /\ cutoff.ttl = "default" /\ cutoff' = NoCutoff
       /\ UNCHANGED <<cache, live, denied>>
Expire == Forget /\ UNCHANGED <<row, flight, now, issued, reqs, history>>

Tick ==
    /\ now < MaxTick
    /\ now' = now + 1
    /\ UNCHANGED <<row, cache, flight, redis, issued, reqs, history>>

Next ==
    \/ \E r \in Reqs :
         \/ \E password \in DOMAIN rotations \cup {0} :
               LoginHit(r, password) \/ LoginMiss(r, password) \/ ChangeLoad(r, password)
         \/ ReadRow(r) \/ JoinRead(r) \/ FillCache(r) \/ LoginMint(r)
         \/ Identify(r) \/ IdentityMint(r)
         \/ RefreshLookup(r) \/ RefreshMint(r) \/ Store(r)
         \/ \E s \in Sids : RefreshTake(r, s) \/ LogoutDelete(r, s)
         \/ LogoutDeny(r) \/ LogoutKeep(r)
         \/ ChangeHash(r) \/ ChangeWrite(r) \/ ChangeClear(r)
         \/ ChangePublish(r) \/ ChangeProlong(r)
         \/ \E active \in BOOLEAN : SetActive(r, active)
         \/ SetActiveEvict(r) \/ Refused(r)
    \/ Crash \/ Expire \/ Tick

Spec == Init /\ [][Next]_vars

-----------------------------------------------------------------------------
(* Properties.                                                               *)

(* A refresh token opens one session, or is logged out: whatever requests    *)
(* send it at the same time, or again later, no two pairs descend from it,   *)
(* and none does when a logout found its id (auth_refresh.go, GetDel before  *)
(* anything else, against the Del of auth_logout.go).                        *)
RefreshOnce ==
    /\ \A s, t \in DOMAIN sessions :
          sessions[s].parent = sessions[t].parent /\ sessions[s].parent # None => s = t
    /\ \A s \in DOMAIN sessions : sessions[s].parent \notin out

(* A refresh id that has left Redis, by rotation, logout or expiry, never    *)
(* comes back, so a client cannot use it again (rememberRefresh).            *)
GoneStaysGone ==
    [][\A s \in held : s \notin live => s \notin live']_vars

(* A password change closes the sessions before it, except for a refresh in  *)
(* flight: when a refresh read the user after a change was written, the      *)
(* token it was given is younger than the change, unless an overlapping      *)
(* change with an older stamp was written over it (the cutoff check of       *)
(* Refresh against the stamps of ChangePassword).                            *)
OldSessionsClose ==
    \A s \in DOMAIN sessions : \A n \in sessions[s].known :
        sessions[s].parent # None =>
            \/ 2 * sessions[sessions[s].parent].iat > rotations[n].at
            \/ LET m == sessions[s].password
               IN  m \in DOMAIN rotations \ {n} /\ rotations[m].at < rotations[n].at

(* Once a change's cutoff is in Redis with its own time to live, access      *)
(* tokens of its second and before are refused until they expire, unless a   *)
(* later Set put an older stamp in its place, or one that was then left with *)
(* the default time to live (recordTokenCutoff and AuthMiddleware).          *)
OldAccessRefused ==
    \A s \in DOMAIN sessions : \A i \in DOMAIN published :
        LET change == rotations[published[i]]
        IN  Accepted(s) /\ change.kept =>
                \/ sessions[s].iat > SecondOf(change.at)
                \/ \E j \in DOMAIN published :
                      /\ i < j
                      /\ \/ rotations[published[j]].at < change.at
                         \/ ~rotations[published[j]].kept

(* The password a completed change replaced opens no session asked for       *)
(* afterwards, unless a read that had fetched the old row was under way when *)
(* the cached copy was dropped (users_update_password.go:73-74: the cached   *)
(* user is dropped so that the next Login does not read the old hash).       *)
OldPasswordDies ==
    \A s \in DOMAIN sessions :
        sessions[s].parent = None =>
            \A n \in sessions[s].known :
                sessions[s].password = rotations[n].over => rotations[n].crossed
=============================================================================
