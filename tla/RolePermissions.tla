--------------------------- MODULE RolePermissions ---------------------------
(* Roles and what they permit (usecases/rbac, postgres/rbac).  The rows are  *)
(* in Postgres; every replica keeps what it resolved for a while and forgets *)
(* a role that was changed through it.  The other replicas are not told, and *)
(* a resolution under way may bring the old answer back.                     *)
(*                                                                           *)
(* A transaction of the repository is one step, and so is an access to the   *)
(* cache under its mutex.                                                    *)
EXTENDS Integers, FiniteSets

CONSTANTS
    Roles,    \* role ids; an id is given once
    Auto,     \* admin and superadmin: the whole catalogue
    System,   \* roles that cannot be deleted
    Perms,    \* the catalogue of permissions
    Replicas,
    Resolves, \* requests that look permissions up, at work at once
    Changes,  \* requests that change roles, at work at once
    None,     \* no list of permissions in the request
    CacheTTL, \* ticks an answer is kept
    Hold,     \* bound: ticks between reading the rows and keeping the answer
    MaxClock  \* bound: the clock stops here

VARIABLES
    clock,
    perms,      \* the roles there are, and role_permissions
    gone,       \* ids of deleted roles
    held,       \* roles of live users
    referenced, \* roles of all rows of users, the deleted ones too
    cache,      \* by replica and role: the answer and when it expires
    resolving,  \* the look-ups under way
    changing,   \* the changes under way
    last        \* history: when a role last had a permission

vars == <<clock, perms, gone, held, referenced, cache, resolving, changing, last>>
rows == <<perms, gone, last>>
userRows == <<held, referenced>>

Entry == [keys: SUBSET Perms, exp: Nat]
Resolve == [replica: Replicas, role: Roles, at: {"role", "keys", "fill"},
            keys: SUBSET Perms, read: Nat]
Change == [replica: Replicas, role: Roles, at: {"set", "delete", "invalidate"},
           keys: (SUBSET Perms) \cup {None}]

Types ==
    /\ clock \in 0..MaxClock
    /\ DOMAIN perms \subseteq Roles /\ perms \in [DOMAIN perms -> SUBSET Perms]
    /\ gone \subseteq Roles \ (DOMAIN perms \cup System)
    /\ held \subseteq referenced /\ referenced \subseteq Roles
    /\ DOMAIN cache = Replicas
    /\ \A n \in Replicas : /\ DOMAIN cache[n] \subseteq Roles
                           /\ cache[n] \in [DOMAIN cache[n] -> Entry]
    /\ DOMAIN resolving \subseteq Resolves /\ \A q \in DOMAIN resolving : resolving[q] \in Resolve
    /\ DOMAIN changing \subseteq Changes /\ \A c \in DOMAIN changing : changing[c] \in Change
    /\ DOMAIN last \subseteq Roles \X Perms

Put(f, k, v) == [x \in DOMAIN f \cup {k} |-> IF x = k THEN v ELSE f[x]]
Drop(f, k) == [x \in DOMAIN f \ {k} |-> f[x]]
Forget(f, n) == [x \in {y \in DOMAIN f : f[y].replica # n} |-> f[x]]

(* What GetRolePermissions or, for an admin, ListPermissions returns.        *)
Granted(r) ==
    IF r \in Auto THEN Perms ELSE IF r \in DOMAIN perms THEN perms[r] ELSE {}

(* The system roles are there from the start.                                *)
Init ==
    /\ clock = 0
    /\ perms \in [System -> SUBSET Perms]
    /\ gone = {}
    /\ held \in SUBSET System /\ referenced = held
    /\ cache = [n \in Replicas |-> <<>>]
    /\ resolving = <<>> /\ changing = <<>>
    /\ last = [p \in {x \in System \X Perms : x[2] \in Granted(x[1])} |-> 0]

-----------------------------------------------------------------------------
(* Mutant of Valid: an answer is kept until somebody changes the role.       *)
ValidUntilChanged(entry) == TRUE

Valid(entry) == clock < entry.exp

(* Resolve: an answer that is still valid is given at once; otherwise the    *)
(* role is read, then its permissions, then the answer is kept.              *)
Miss(q, n, r) ==
    /\ q \in Resolves \ DOMAIN resolving
    /\ r \in DOMAIN cache[n] => ~Valid(cache[n][r])
    /\ resolving' = Put(resolving, q, [replica |-> n, role |-> r, at |-> "role",
                                       keys |-> {}, read |-> clock])
    /\ UNCHANGED <<clock, rows, userRows, cache, changing>>

GetRole(q) ==
    /\ q \in DOMAIN resolving /\ resolving[q].at = "role"
    /\ resolving[q].role \in DOMAIN perms
    /\ resolving' = [resolving EXCEPT ![q].at = "keys"]
    /\ UNCHANGED <<clock, rows, userRows, cache, changing>>

GetRolePermissions(q) ==
    /\ q \in DOMAIN resolving /\ resolving[q].at = "keys"
    /\ resolving' = [resolving EXCEPT ![q].at = "fill", ![q].read = clock,
                                      ![q].keys = Granted(resolving[q].role)]
    /\ UNCHANGED <<clock, rows, userRows, cache, changing>>

Fill(q) ==
    /\ q \in DOMAIN resolving /\ resolving[q].at = "fill"
    /\ LET j == resolving[q] IN
       cache' = [cache EXCEPT ![j.replica] =
                   Put(@, j.role, [keys |-> j.keys, exp |-> clock + CacheTTL])]
    /\ resolving' = Drop(resolving, q)
    /\ UNCHANGED <<clock, rows, userRows, changing>>

-----------------------------------------------------------------------------
(* The permissions of a role are replaced, in one transaction.               *)
Replaced(r, keys) ==
    LET given == {r} \X (IF r \in Auto THEN Perms ELSE keys) IN
    /\ perms' = [perms EXCEPT ![r] = keys]
    /\ last' = [p \in DOMAIN last \cup given |-> IF p \in given THEN clock ELSE last[p]]

Begins(c, n, r, place, keys) ==
    /\ c \in Changes \ DOMAIN changing
    /\ changing' = Put(changing, c, [replica |-> n, role |-> r, at |-> place, keys |-> keys])

Then(keys) == IF keys = None THEN "invalidate" ELSE "set"

CreateRole(c, n, r, keys) ==
    /\ r \notin DOMAIN perms \cup gone
    /\ Begins(c, n, r, Then(keys), keys)
    /\ perms' = Put(perms, r, {})
    /\ UNCHANGED <<clock, gone, last, userRows, cache, resolving>>

(* UpdateRole writes the name first; SetRolePermissions looks first if there *)
(* is such a role.                                                           *)
UpdateRole(c, n, r, keys) ==
    /\ r \in DOMAIN perms
    /\ Begins(c, n, r, Then(keys), keys)
    /\ UNCHANGED <<clock, rows, userRows, cache, resolving>>

SetRolePermissions(c) ==
    /\ c \in DOMAIN changing /\ changing[c].at = "set"
    /\ LET j == changing[c] IN
       \/ j.role \in DOMAIN perms /\ Replaced(j.role, j.keys)
       \/ j.role \notin DOMAIN perms /\ j.keys = {} /\ UNCHANGED <<perms, last>>
    /\ \/ changing' = [changing EXCEPT ![c].at = "invalidate"]
       \/ changing' = Drop(changing, c) \* committed, but the answer is lost
    /\ UNCHANGED <<clock, gone, userRows, cache, resolving>>

(* DeleteRole: nobody may have the role; counted in a transaction of its own.*)
CountUsersWithRole(c, n, r) ==
    /\ r \notin held
    /\ Begins(c, n, r, "delete", None)
    /\ UNCHANGED <<clock, rows, userRows, cache, resolving>>

(* The foreign key of users.                                                 *)
Deletable(r) == r \in DOMAIN perms \ (System \cup referenced)

DeleteRole(c) ==
    /\ c \in DOMAIN changing /\ changing[c].at = "delete"
    /\ LET r == changing[c].role IN
       Deletable(r) /\ perms' = Drop(perms, r) /\ gone' = gone \cup {r}
    /\ \/ changing' = [changing EXCEPT ![c].at = "invalidate"]
       \/ changing' = Drop(changing, c)
    /\ UNCHANGED <<clock, last, userRows, cache, resolving>>

Invalidate(c) ==
    /\ c \in DOMAIN changing /\ changing[c].at = "invalidate"
    /\ LET j == changing[c] IN cache' = [cache EXCEPT ![j.replica] = Drop(@, j.role)]
    /\ changing' = Drop(changing, c)
    /\ UNCHANGED <<clock, rows, userRows, resolving>>

-----------------------------------------------------------------------------
(* A user is given a role, the last user of a role is given another one or   *)
(* deleted; a deleted user's row keeps its role.                             *)
UserHas(r) ==
    /\ r \in DOMAIN perms
    /\ held' = held \cup {r} /\ referenced' = referenced \cup {r}
    /\ UNCHANGED <<clock, rows, cache, resolving, changing>>

NobodyHas(r) ==
    /\ r \in held /\ held' = held \ {r}
    /\ referenced' \in {referenced, referenced \ {r}}
    /\ UNCHANGED <<clock, rows, cache, resolving, changing>>

(* A refusal or a failed call ends a request.                                *)
Fails ==
    /\ \/ \E q \in DOMAIN resolving : resolving' = Drop(resolving, q) /\ UNCHANGED changing
       \/ \E c \in DOMAIN changing : changing' = Drop(changing, c) /\ UNCHANGED resolving
    /\ UNCHANGED <<clock, rows, userRows, cache>>

Restart(n) ==
    /\ cache' = [cache EXCEPT ![n] = <<>>]
    /\ resolving' = Forget(resolving, n) /\ changing' = Forget(changing, n)
    /\ UNCHANGED <<clock, rows, userRows>>

(* Time passes; no look-up holds what it read for longer than Hold.          *)
Tick ==
    /\ clock < MaxClock
    /\ \A q \in DOMAIN resolving :
          resolving[q].at = "fill" => clock - resolving[q].read < Hold
    /\ clock' = clock + 1
    /\ last' = [p \in DOMAIN last |->
                  IF p[1] \in DOMAIN perms /\ p[2] \in Granted(p[1]) THEN clock' ELSE last[p]]
    /\ UNCHANGED <<perms, gone, userRows, cache, resolving, changing>>

Next ==
    \/ Tick \/ Fails
    \/ \E n \in Replicas : Restart(n)
    \/ \E n \in Replicas, r \in Roles :
          \/ \E q \in Resolves : Miss(q, n, r)
          \/ \E c \in Changes :
                \/ CountUsersWithRole(c, n, r)
                \/ \E keys \in (SUBSET Perms) \cup {None} :
                      CreateRole(c, n, r, keys) \/ UpdateRole(c, n, r, keys)
    \/ \E q \in Resolves : GetRole(q) \/ GetRolePermissions(q) \/ Fill(q)
    \/ \E c \in Changes : SetRolePermissions(c) \/ DeleteRole(c) \/ Invalidate(c)
    \/ \E r \in Roles : UserHas(r) \/ NobodyHas(r)

Spec == Init /\ [][Next]_vars

-----------------------------------------------------------------------------
(* rbac_impl.go, cacheTTL: whatever was missed, on whatever replica, a       *)
(* permission that was taken away, with its role or without, is over when    *)
(* the time to live is; and however a deletion crosses an assignment, nobody *)
(* is left with a role that is gone.                                         *)
PermissionsLapse ==
    /\ \A n \in Replicas : \A r \in DOMAIN cache[n] :
          Valid(cache[n][r]) =>
             \A k \in cache[n][r].keys :
                <<r, k>> \in DOMAIN last /\ clock - last[<<r, k>>] < CacheTTL + Hold
    /\ held \subseteq DOMAIN perms
=============================================================================
