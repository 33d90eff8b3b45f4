------------------------------ MODULE Platform ------------------------------
(* What keeps a deployment going: the module registry that every replica     *)
(* boots from, the updater beside it, the migrations of a release, the audit *)
(* log, the wizard that makes a super administrator, the second step of his  *)
(* sign-in, the members of an organization, and what roles permit.           *)
(*                                                                           *)
(* The parts share no state: each is a module of its own, with constants and *)
(* variables of its own, brought together here under one name each.          *)
EXTENDS ModuleRegistry, Naturals, Sequences, FiniteSets

CONSTANTS
    None,
    Versions, Working, Major, MaxFaults,                       \* the updater
    Order, UsersSource, Releases, Ships, Runners, MaxRuns,     \* the migrations
    Writers, Actions, Clock, Nanos, MaxId,                     \* the audit log
    Emails, Tokens, WizardRequests, Civils, OTPMaxAttempts,    \* the wizard
    MaxSecrets, MaxRequests, MaxFailures,
    MFARequests, Codes, MFAMaxAttempts, MaxLosses,             \* the second step
    Users, OrgRequests,                                        \* an organization
    Roles, AutoRoles, System, Perms, Nodes, Resolves, Changes, \* the roles
    CacheTTL, Hold, MaxClock

VARIABLES
    config, channel, file, head, prev, running, at, target, faults,
    executed, recorded, holders, runs, newest, started,
    log, holder, appends, nextId,
    promoted, invites, wizards, otp, attempts, requests, accounts, codes,
    secrets, sent, failures, shown,
    token, counter, superadmin, unused, tries, guesses, failed,
    creator, members, demands, overtaken,
    clock, perms, gone, held, referenced, cache, resolving, changing, last

U == INSTANCE Updater
M == INSTANCE Migrations WITH Users <- UsersSource, lock <- holders
A == INSTANCE AuditLog WITH lock <- holder
O == INSTANCE Onboarding WITH
        Requests <- WizardRequests, Unset <- None, MaxFaults <- MaxFailures,
        faults <- failures, pending <- wizards
F == INSTANCE SuperadminMFA WITH
        Requests <- MFARequests, MaxFaults <- MaxLosses,
        admin <- superadmin, requests <- tries
G == INSTANCE Organizations WITH Requests <- OrgRequests, calls <- demands
R == INSTANCE RolePermissions WITH Auto <- AutoRoles, Replicas <- Nodes

(* Releases are numbered from 1; some of them come up.                       *)
ASSUME UpdaterAssumption ==
    Versions \subseteq Nat \ {U!Zero} /\ Working \subseteq Versions /\ MaxFaults \in Nat

(* A deployment has modules, the one with the users table among them, and    *)
(* the first release brings the file that creates it.                        *)
ASSUME MigrationsAssumption ==
    /\ Order \in Seq(M!Sources) /\ Order # <<>> /\ UsersSource \in M!Sources
    /\ Releases \subseteq Nat /\ 1 \in Releases
    /\ Ships \in [Releases -> [M!Sources -> Nat]] /\ Ships[1][UsersSource] > 0
    /\ None \notin Runners /\ MaxRuns \in Nat

ASSUME AuditAssumption == MaxId \in Nat /\ None \notin Writers
ASSUME OrgAssumption == None \notin Users \cup G!MemberRoles

ASSUME WizardAssumption == {OTPMaxAttempts, MaxSecrets, MaxRequests, MaxFailures} \subseteq Nat

(* Somebody signs in.                                                        *)
ASSUME MFAAssumption ==
    MFAMaxAttempts \in Nat /\ MaxLosses \in Nat /\ IsFiniteSet(MFARequests) /\ MFARequests # {}

(* Those that have the whole catalogue are system roles.                     *)
ASSUME RolesAssumption ==
    AutoRoles \subseteq System /\ System \subseteq Roles /\ {CacheTTL, Hold, MaxClock} \subseteq Nat

updaterVars == <<config, channel, file, head, prev, running, at, target, faults>>
migrationVars == <<executed, recorded, holders, runs, newest, started>>
auditVars == <<log, holder, appends, nextId>>
wizardVars == <<promoted, invites, wizards, otp, attempts, requests, accounts, codes,
                secrets, sent, failures, shown>>
mfaVars == <<token, counter, superadmin, unused, tries, guesses, failed>>
orgVars == <<creator, members, demands, overtaken>>
roleVars == <<clock, perms, gone, held, referenced, cache, resolving, changing, last>>

(* The types of every part.                                                  *)
KernelTypes == TypeOK /\ U!TypeOK /\ M!TypeOK /\ A!Types /\ O!Types /\ F!Types /\ G!Types /\ R!Types

(* The properties of the same names, of Updater, Migrations, AuditLog,       *)
(* Onboarding, SuperadminMFA, Organizations and RolePermissions.             *)
RunsProven == U!RunsProven
MigrationsRunOnce == M!MigrationsRunOnce
ChainVerifies == A!ChainVerifies
AccountWasEarned == O!AccountWasEarned
GuessesBounded == F!GuessesBounded
OwnersStay == G!OwnersStay
PermissionsLapse == R!PermissionsLapse

(* The property of the same name, of Migrations (adopt.go:37).               *)
RecordedHasRun == M!RecordedHasRun
=============================================================================
