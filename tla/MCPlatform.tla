----------------------------- MODULE MCPlatform -----------------------------
(* Platform on a small deployment.  Its parts share no state, so each        *)
(* behaviour, by its choice of part, has one of them at work while the       *)
(* others rest.                                                              *)
(*                                                                           *)
(* The manifests are one corner of kernel/module/builtin.go: relay needs     *)
(* sign, and both need core modules.                                         *)
EXTENDS Platform, TLC

CONSTANTS auth, sign, relay, gov, ghost, platform, users, site, ann, bat, chief, clerk, near

MCDependsOn == (auth :> {}) @@ (sign :> {auth}) @@ (relay :> {sign}) @@ (gov :> {auth})

MCEnvLists == {{}, {sign}, {sign, relay}, {gov, ghost}}

(* Three releases: the second does not come up, the third is a major one.    *)
MCMajor == (0 :> 0) @@ (1 :> 1) @@ (2 :> 1) @@ (3 :> 2)

(* Two releases: the second brings a file of each module.                    *)
MCOrder == <<platform, users, site>>
MCShips == <<(platform :> 1) @@ (users :> 1) @@ (site :> 1),
             (platform :> 1) @@ (users :> 2) @@ (site :> 2)>>

VARIABLES part, people

MCInit ==
    /\ Init /\ U!Init /\ M!Init /\ A!Init /\ O!Init /\ F!Init /\ G!Init /\ R!Init
    /\ part \in {"registry", "updater", "migrations", "audit", "wizard", "mfa", "org", "roles"}
    /\ part # "registry" => off = {}
    /\ part # "updater" => ~config.allowMajor /\ ~config.probes /\ running = 1 /\ file = 1
    /\ part # "migrations" => recorded = {}
    /\ part # "wizard" => ~promoted
    /\ part # "roles" => held = {} /\ perms[chief] = {}
    /\ people \in IF part = "wizard" THEN {{ann}, {ann, bat}}
                  ELSE IF part = "roles" THEN {{clerk}, {chief}} ELSE {{}}
    /\ people = {clerk} => held = {}
    /\ people = {ann, bat} => ~promoted

(* The bounds of the wizard.                                                 *)
InScenario ==
    /\ \A t \in DOMAIN wizards : wizards[t].email \in people
    /\ people = {ann, bat} => failures = 0
    /\ people = {ann} => sent < 7

(* The bounds of the roles: people is the role that changes and is looked    *)
(* up; two changes cross only at first, and while nothing is looked up.      *)
OneRole ==
    /\ DOMAIN perms \cup referenced \subseteq people \cup {chief}
    /\ referenced \subseteq people
    /\ \A q \in DOMAIN resolving : resolving[q].replica = near /\ resolving[q].role \in people
    /\ \A c \in DOMAIN changing : changing[c].role \in people
    /\ DOMAIN changing = 1..2 => clock = 0 /\ resolving = <<>>

MCNext ==
    /\ UNCHANGED <<part, people>>
    /\ \/ part = "registry" /\ Next
          /\ UNCHANGED <<updaterVars, migrationVars, auditVars, wizardVars, mfaVars, orgVars,
                         roleVars>>
       \/ part = "updater" /\ U!Next
          /\ UNCHANGED <<vars, migrationVars, auditVars, wizardVars, mfaVars, orgVars, roleVars>>
       \/ part = "migrations" /\ M!Next
          /\ UNCHANGED <<vars, updaterVars, auditVars, wizardVars, mfaVars, orgVars, roleVars>>
       \/ part = "audit" /\ A!Next
          /\ UNCHANGED <<vars, updaterVars, migrationVars, wizardVars, mfaVars, orgVars, roleVars>>
       \/ part = "wizard" /\ O!Next /\ InScenario'
          /\ UNCHANGED <<vars, updaterVars, migrationVars, auditVars, mfaVars, orgVars, roleVars>>
       \/ part = "mfa" /\ F!Next
          /\ UNCHANGED <<vars, updaterVars, migrationVars, auditVars, wizardVars, orgVars, roleVars>>
       \/ part = "org" /\ G!Next /\ creator' = ann
          /\ UNCHANGED <<vars, updaterVars, migrationVars, auditVars, wizardVars, mfaVars, roleVars>>
       \/ part = "roles" /\ R!Next /\ OneRole'
          /\ UNCHANGED <<vars, updaterVars, migrationVars, auditVars, wizardVars, mfaVars, orgVars>>

MCVars == <<vars, part, people, updaterVars, migrationVars, auditVars, wizardVars, mfaVars,
            orgVars, roleVars>>

(* The fairness is the registry's.                                           *)
MCSpec == MCInit /\ [][MCNext]_MCVars
          /\ \A n \in Replicas : WF_vars(part = "registry" /\ BootStep(n))

(* Migrations of a database that was empty when the first of them started.   *)
FreshSpec == MCInit /\ part = "migrations" /\ M!Ran = {} /\ [][MCNext]_MCVars
=============================================================================
