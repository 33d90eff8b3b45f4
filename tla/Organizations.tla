---------------------------- MODULE Organizations ----------------------------
(* The members of an organization (usecases/org, postgres/org).  A request   *)
(* reads the caller's row, then the row of the member it is about, and then  *)
(* writes: three transactions, and the write looks at nothing again.         *)
EXTENDS FiniteSets

CONSTANTS
    Users,    \* who may be a member
    Requests, \* requests at work at once
    None      \* no role, nobody

VARIABLES
    creator,  \* who made the organization, None before
    members,  \* organization_memberships: the role of everyone
    calls,    \* the requests under way
    overtaken \* history: those whose member was made an owner since they looked

vars == <<creator, members, calls, overtaken>>

MemberRoles == {"owner", "admin", "member"}
CanManageMembers(role) == role \in {"owner", "admin"}

Call ==
    [op: {"add", "role"}, caller: Users, user: Users, role: MemberRoles, at: {"target", "write"}]
    \cup [op: {"remove"}, caller: Users, user: Users, role: {None}, at: {"target", "write"}]

Types ==
    /\ creator \in Users \cup {None}
    /\ members \in [Users -> MemberRoles \cup {None}]
    /\ DOMAIN calls \subseteq Requests /\ \A r \in DOMAIN calls : calls[r] \in Call
    /\ overtaken \subseteq DOMAIN calls

Init ==
    /\ creator = None /\ members = [u \in Users |-> None]
    /\ calls = <<>> /\ overtaken = {}

Put(f, k, v) == [x \in DOMAIN f \cup {k} |-> IF x = k THEN v ELSE f[x]]
Drop(f, k) == [x \in DOMAIN f \ {k} |-> f[x]]
At(r, op, place) == r \in DOMAIN calls /\ calls[r].op = op /\ calls[r].at = place

(* The organization and its first owner are one transaction.                 *)
CreateOrganization(u) ==
    /\ creator = None
    /\ creator' = u /\ members' = [members EXCEPT ![u] = "owner"]
    /\ UNCHANGED <<calls, overtaken>>

(* requireManager, and the rule that only an owner makes an owner.           *)
RequireManager(r, op, caller, user, role) ==
    /\ r \in Requests \ DOMAIN calls
    /\ CanManageMembers(members[caller])
    /\ role = "owner" => members[caller] = "owner"
    /\ calls' = Put(calls, r,
           [op |-> op, caller |-> caller, user |-> user, role |-> role,
            at |-> IF op = "add" THEN "write" ELSE "target"])
    /\ UNCHANGED <<creator, members, overtaken>>

(* The member the request is about: there is one, and he is no owner.        *)
(* Mutant of Touchable: whoever is a member may be demoted or removed.       *)
TouchableAnyone(role) == role # None

Touchable(role) == role \in {"admin", "member"}

ReadTarget(r) ==
    /\ r \in DOMAIN calls /\ calls[r].at = "target" /\ Touchable(members[calls[r].user])
    /\ calls' = [calls EXCEPT ![r].at = "write"]
    /\ UNCHANGED <<creator, members, overtaken>>

(* The request is over; an owner it made overtakes those that looked before. *)
Writes(r, role) ==
    LET u == calls[r].user IN
    /\ members' = [members EXCEPT ![u] = role]
    /\ calls' = Drop(calls, r)
    /\ overtaken' = (overtaken \cup {q \in DOMAIN calls :
                       role = "owner" /\ calls[q].user = u /\ calls[q].at = "write"}) \ {r}
    /\ UNCHANGED creator

(* The INSERT refuses a second row; UPDATE and DELETE need one.              *)
AddMember(r) ==
    /\ At(r, "add", "write") /\ members[calls[r].user] = None
    /\ Writes(r, calls[r].role)

UpdateMemberRole(r) ==
    /\ At(r, "role", "write") /\ members[calls[r].user] # None
    /\ Writes(r, calls[r].role)

RemoveMember(r) ==
    /\ At(r, "remove", "write") /\ members[calls[r].user] # None
    /\ Writes(r, None)

(* A rule refuses, the row is not as it must be, or a statement fails.       *)
Fails(r) ==
    /\ r \in DOMAIN calls
    /\ calls' = Drop(calls, r) /\ overtaken' = overtaken \ {r}
    /\ UNCHANGED <<creator, members>>

Next ==
    \/ \E u \in Users : CreateOrganization(u)
    \/ \E r \in Requests, caller \in Users, user \in Users :
          \/ \E op \in {"add", "role"}, role \in MemberRoles : RequireManager(r, op, caller, user, role)
          \/ RequireManager(r, "remove", caller, user, None)
    \/ \E r \in Requests :
          ReadTarget(r) \/ AddMember(r) \/ UpdateMemberRole(r) \/ RemoveMember(r) \/ Fails(r)

Spec == Init /\ [][Next]_vars

-----------------------------------------------------------------------------
(* org_impl.go: the rules are checked on rows read in other transactions     *)
(* than the one that writes.  Even so the organization keeps an owner, the   *)
(* one who made it, and another owner loses his role only to a request that  *)
(* looked at him before he was one.                                          *)
OwnersStay ==
    [][\A u \in Users : members[u] = "owner" /\ members'[u] # "owner" =>
          u # creator /\ \E r \in overtaken : calls[r].user = u /\ r \notin DOMAIN calls']_vars
=============================================================================
