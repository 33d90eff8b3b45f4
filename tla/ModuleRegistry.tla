---------------------------- MODULE ModuleRegistry ----------------------------
(* The life of the platform's modules: every process keeps a registry of the *)
(* installed modules in memory (kernel/module/registry.go), fills it at boot *)
(* from MODULES_DISABLED and from the platform_modules table                 *)
(* (cmd/api/server/server.go), and changes both, first the registry and then *)
(* the table, when an administrator switches a module                        *)
(* (core/business/usecases/platform/platform_usecase.go).                    *)
EXTENDS FiniteSets

CONSTANTS
    Modules, Core,   \* the manifests, and those of KindCore
    DependsOn,       \* module |-> the modules its manifest names
    Ids,             \* what a list may name: modules, and ids nothing answers to
    EnvLists,        \* values MODULES_DISABLED may have
    Replicas, Admins \* processes, admin requests in flight at once

ASSUME ModuleAssumption == Core \subseteq Modules /\ Modules \subseteq Ids
ASSUME DependencyAssumption == DependsOn \in [Modules -> SUBSET Modules]
ASSUME EnvAssumption == EnvLists \subseteq SUBSET Ids

(* New refuses manifests whose dependencies form a cycle: among any modules  *)
(* there is one that no other of them needs.                                 *)
ASSUME AcyclicAssumption ==
    \A T \in SUBSET Modules : T # {} => \E m \in T : \A x \in T : m \notin DependsOn[x]

VARIABLES
    phase,   \* replica |-> down, booting (reading env, then db), serving
    on,      \* replica |-> Registry.enabled
    env,     \* replica |-> its MODULES_DISABLED
    listed,  \* replica |-> the ids its boot was told to switch off
    pending, \* replica |-> those of them the fixed-point loop still holds
    off,     \* platform_modules: the ids with enabled = false
    call     \* admin request |-> the switch it has made and not yet saved

vars == <<phase, on, env, listed, pending, off, call>>

TypeOK ==
    /\ phase \in [Replicas -> {"down", "env", "db", "serving"}]
    /\ on \in [Replicas -> SUBSET Modules]
    /\ env \in [Replicas -> SUBSET Ids]
    /\ listed \in [Replicas -> SUBSET Ids]
    /\ pending \in [Replicas -> SUBSET Ids]
    /\ off \in SUBSET Ids
    /\ DOMAIN call \subseteq Admins
    /\ \A c \in DOMAIN call :
          call[c] \in [node: Replicas, id: Modules, enable: BOOLEAN]

Put(t, k, v) == [x \in DOMAIN t \cup {k} |-> IF x = k THEN v ELSE t[x]]
Without(t, S) == [x \in DOMAIN t \ S |-> t[x]]

(* Registry.Disable: an error for an unknown id, a core module or one that   *)
(* an enabled module needs; nothing to do for one that is off already.       *)
Needed(up, id) == \E m \in up \ {id} : id \in DependsOn[m]
DisableOK(up, id) == id \in Modules \ Core /\ (id \in up => ~Needed(up, id))

(* Mutant of EnableOK: dependencies are not looked at.                       *)
EnableAnyway(up, id) == id \in Modules

(* Registry.Enable: its dependencies come first.                             *)
EnableOK(up, id) == id \in Modules /\ DependsOn[id] \subseteq up

-----------------------------------------------------------------------------
(* The rows that a boot may find: those of an earlier version may name       *)
(* modules that are gone, or core by now.                                    *)
Init ==
    /\ phase = [n \in Replicas |-> "down"]
    /\ on = [n \in Replicas |-> {}]
    /\ env = [n \in Replicas |-> {}]
    /\ listed = [n \in Replicas |-> {}]
    /\ pending = [n \in Replicas |-> {}]
    /\ off \in SUBSET Ids
    /\ call = <<>>

(* Mutant of Installed: whatever has a name is enabled.                      *)
AnyNamed == Ids

(* New: every manifest starts enabled.                                       *)
Installed == Modules

(* The start of a process: New, and ApplyDisabledList begins.                *)
Boot(n) ==
    /\ phase[n] = "down"
    /\ \E list \in EnvLists :
          /\ env' = [env EXCEPT ![n] = list]
          /\ listed' = [listed EXCEPT ![n] = list]
          /\ pending' = [pending EXCEPT ![n] = list]
    /\ phase' = [phase EXCEPT ![n] = "env"]
    /\ on' = [on EXCEPT ![n] = Installed]
    /\ UNCHANGED <<off, call>>

Booting(n) == phase[n] \in {"env", "db"}

(* Mutant of Stuck: the first refusal ends the loop.                         *)
StuckOnce(n) == pending[n] = {} \/ \E id \in pending[n] : ~DisableOK(on[n], id)

Stuck(n) == \A id \in pending[n] : ~DisableOK(on[n], id)

(* Mutant of Retried: nothing is taken off the list of the next pass.        *)
RetriedAll(n, id) == pending[n]

Retried(n, id) == pending[n] \ {id}

(* One turn of the inner loop of ApplyDisabledList or RestoreDisabled.  The  *)
(* ids come in the order of the list, which may be any; those Disable        *)
(* refuses are tried again.                                                  *)
DisableListed(n) ==
    /\ Booting(n)
    /\ \E id \in pending[n] :
          /\ DisableOK(on[n], id)
          /\ on' = [on EXCEPT ![n] = @ \ {id}]
          /\ pending' = [pending EXCEPT ![n] = Retried(n, id)]
    /\ UNCHANGED <<phase, env, listed, off, call>>

(* A pass over MODULES_DISABLED without progress: the boot fails.            *)
RefuseBoot(n) ==
    /\ phase[n] = "env" /\ pending[n] # {} /\ Stuck(n)
    /\ phase' = [phase EXCEPT ![n] = "down"]
    /\ UNCHANGED <<on, env, listed, pending, off, call>>

(* Mutant of EnvDone: what MODULES_DISABLED names may stay on.               *)
EnvTried(n) == Stuck(n)

EnvDone(n) == pending[n] = {}

(* ListDisabled; a database that cannot be read leaves the modules enabled.  *)
ReadSaved(n, ok) ==
    /\ phase[n] = "env" /\ EnvDone(n)
    /\ LET rows == IF ok THEN off ELSE {}
       IN  /\ listed' = [listed EXCEPT ![n] = @ \cup rows]
           /\ pending' = [pending EXCEPT ![n] = rows]
    /\ phase' = [phase EXCEPT ![n] = "db"]
    /\ UNCHANGED <<on, env, off, call>>

(* RestoreDisabled is through: the rows it could not apply are logged.       *)
Serve(n) ==
    /\ phase[n] = "db" /\ Stuck(n)
    /\ phase' = [phase EXCEPT ![n] = "serving"]
    /\ UNCHANGED <<on, env, listed, pending, off, call>>

(* SetEnabled, the registry: Disable and Enable under its lock.              *)
SwitchOff(c, n, id) ==
    /\ c \notin DOMAIN call /\ phase[n] = "serving" /\ DisableOK(on[n], id)
    /\ on' = [on EXCEPT ![n] = @ \ {id}]
    /\ call' = Put(call, c, [node |-> n, id |-> id, enable |-> FALSE])
    /\ UNCHANGED <<phase, env, listed, pending, off>>

SwitchOn(c, n, id) ==
    /\ c \notin DOMAIN call /\ phase[n] = "serving" /\ EnableOK(on[n], id)
    /\ on' = [on EXCEPT ![n] = @ \cup {id}]
    /\ call' = Put(call, c, [node |-> n, id |-> id, enable |-> TRUE])
    /\ UNCHANGED <<phase, env, listed, pending, off>>

(* SetEnabled, the upsert.  When it fails the administrator gets an error    *)
(* and the registry stays switched.                                          *)
Save(c, ok) ==
    /\ c \in DOMAIN call
    /\ off' = IF ~ok THEN off
              ELSE IF call[c].enable THEN off \ {call[c].id} ELSE off \cup {call[c].id}
    /\ call' = Without(call, {c})
    /\ UNCHANGED <<phase, on, env, listed, pending>>

(* The process ends, and with it the requests it was serving.                *)
Stop(n) ==
    /\ phase[n] # "down"
    /\ phase' = [phase EXCEPT ![n] = "down"]
    /\ call' = Without(call, {c \in DOMAIN call : call[c].node = n})
    /\ UNCHANGED <<on, env, listed, pending, off>>

BootStep(n) ==
    \/ DisableListed(n) \/ RefuseBoot(n) \/ Serve(n)
    \/ \E ok \in BOOLEAN : ReadSaved(n, ok)

Next ==
    \/ \E n \in Replicas : Boot(n) \/ BootStep(n) \/ Stop(n)
    \/ \E c \in Admins, n \in Replicas, id \in Modules :
          SwitchOff(c, n, id) \/ SwitchOn(c, n, id)
    \/ \E c \in Admins, ok \in BOOLEAN : Save(c, ok)

(* A boot is sequential code with nothing to wait for but the database.      *)
Spec == Init /\ [][Next]_vars /\ \A n \in Replicas : WF_vars(BootStep(n))

-----------------------------------------------------------------------------
(* Properties.                                                               *)

(* In no registry, at any moment of a boot or of concurrent switches, is a   *)
(* module enabled without what it depends on, or a core module disabled      *)
(* (registry.go:138-183).                                                    *)
DependenciesEnabled ==
    \A n \in Replicas : phase[n] # "down" =>
        /\ Core \subseteq on[n]
        /\ \A m \in on[n] : DependsOn[m] \subseteq on[n]

(* What is left enabled when as much of a list as the rules allow is off.    *)
Removable(ids) ==
    {S \in SUBSET ((ids \cap Modules) \ Core) : \A m \in Modules \ S : DependsOn[m] \cap S = {}}
Settled(ids) == Modules \ UNION Removable(ids)

(* The fixed-point loops end with everything off that the two lists name and *)
(* the rules let go, in whatever order the ids come, and nothing else        *)
(* (registry.go:189-241).                                                    *)
BootSettles ==
    [][\A n \in Replicas : phase[n] # "serving" /\ phase'[n] = "serving"
                              => on'[n] = Settled(listed[n])]_vars

(* Every loop over a list ends, whatever the list names (registry.go:189-241)*)
BootEnds == \A n \in Replicas : Booting(n) ~> ~Booting(n)

(* A module that MODULES_DISABLED names is off when the process begins to    *)
(* serve, whatever the table says (server.go:237, 363-368).                  *)
EnvIsObeyed ==
    [][\A n \in Replicas : phase[n] # "serving" /\ phase'[n] = "serving"
                              => on'[n] \cap env[n] = {}]_vars
=============================================================================
