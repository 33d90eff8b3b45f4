------------------------- MODULE ModuleRegistryProofs -------------------------
(* Proofs about ModuleRegistry, for every set of modules, every acyclic      *)
(* dependency relation, every list and any number of processes.              *)
EXTENDS ModuleRegistry, TLAPS

(* What a boot knows: pending are the listed modules that are still enabled, *)
(* among ids it tried; nothing outside the lists went off; MODULES_DISABLED  *)
(* is dealt with before the table.                                           *)
BootInv ==
    \A n \in Replicas : Booting(n) =>
        /\ pending[n] \subseteq listed[n]
        /\ Modules \ on[n] \subseteq listed[n]
        /\ listed[n] \cap on[n] \subseteq pending[n]
        /\ env[n] \subseteq listed[n]
        /\ phase[n] = "db" => env[n] \cap on[n] = {}

IInv == TypeOK /\ DependenciesEnabled /\ BootInv

(* A registry in which the rules hold.                                       *)
Sound(up) == Core \subseteq up /\ \A m \in up : DependsOn[m] \subseteq up

USE ModuleAssumption, DependencyAssumption, EnvAssumption

-----------------------------------------------------------------------------
(* Facts about the operators.                                                *)

(* Disable keeps a registry sound (registry.go:141-166).                     *)
LEMMA DisableSound ==
    ASSUME NEW up \in SUBSET Modules, NEW id, Sound(up), DisableOK(up, id)
    PROVE  Sound(up \ {id})
BY DEF Sound, DisableOK, Needed

(* Enable keeps a registry sound (registry.go:169-183).                      *)
LEMMA EnableSound ==
    ASSUME NEW up \in SUBSET Modules, NEW id, Sound(up), EnableOK(up, id)
    PROVE  Sound(up \cup {id})
BY DEF Sound, EnableOK

(* A loop that can switch off nothing more has reached the one result there  *)
(* is: the largest removable part of the list is off.  The rest of a         *)
(* removable set would have a member nothing enabled needs, and that one     *)
(* could still be switched off.                                              *)
LEMMA FixedPoint ==
    ASSUME NEW up \in SUBSET Modules, NEW L, Sound(up), Modules \ up \subseteq L,
           \A id \in L \cap up : ~DisableOK(up, id)
    PROVE  up = Settled(L)
<1>1. Modules \ up \in Removable(L)
  BY DEF Removable, Sound
<1>2. ASSUME NEW S \in Removable(L) PROVE up \cap S = {}
  <2>1. S \subseteq L /\ S \subseteq Modules \ Core
    BY DEF Removable
  <2>2. \A x \in Modules \ S : DependsOn[x] \cap S = {}
    BY DEF Removable
  <2>3. SUFFICES ASSUME up \cap S # {} PROVE FALSE
    OBVIOUS
  <2>4. PICK m \in up \cap S : \A x \in up \cap S : m \notin DependsOn[x]
    BY <2>1, <2>3, AcyclicAssumption
  <2>5. Needed(up, m)
    BY <2>1 DEF DisableOK
  <2>6. PICK x \in up : m \in DependsOn[x]
    BY <2>5 DEF Needed
  <2> QED
    BY <2>2, <2>4, <2>6
<1> QED
  BY <1>1, <1>2 DEF Settled

(* An admin request that starts, or several that end, leave call well typed. *)
LEMMA CallTyped ==
    ASSUME TypeOK, NEW c \in Admins,
           NEW v \in [node: Replicas, id: Modules, enable: BOOLEAN], call' = Put(call, c, v)
    PROVE  /\ DOMAIN call' \subseteq Admins
           /\ \A d \in DOMAIN call' : call'[d] \in [node: Replicas, id: Modules, enable: BOOLEAN]
BY DEF TypeOK, Put

LEMMA CallDropped ==
    ASSUME TypeOK, NEW S, call' = Without(call, S)
    PROVE  /\ DOMAIN call' \subseteq Admins
           /\ \A d \in DOMAIN call' : call'[d] \in [node: Replicas, id: Modules, enable: BOOLEAN]
BY DEF TypeOK, Without

-----------------------------------------------------------------------------
LEMMA InitInv == Init => IInv
BY DEF Init, IInv, TypeOK, DependenciesEnabled, BootInv, Booting

(* A registry that a step leaves alone, or replaces by a sound one.          *)
LEMMA StepInv == IInv /\ [Next]_vars => IInv'
<1> SUFFICES ASSUME TypeOK, DependenciesEnabled, BootInv, [Next]_vars
             PROVE  IInv'
  BY DEF IInv
<1>0. \A n \in Replicas : phase[n] # "down" => on[n] \in SUBSET Modules /\ Sound(on[n])
  BY DEF TypeOK, DependenciesEnabled, Sound
<1>1. ASSUME NEW n \in Replicas, Boot(n) PROVE IInv'
  <2>1. TypeOK'
    BY <1>1 DEF Boot, Installed, TypeOK
  <2>2. DependenciesEnabled'
    BY <1>1 DEF Boot, Installed, TypeOK, DependenciesEnabled
  <2>3. BootInv'
    BY <1>1 DEF Boot, Installed, TypeOK, BootInv, Booting
  <2> QED
    BY <2>1, <2>2, <2>3 DEF IInv
<1>2. ASSUME NEW n \in Replicas, DisableListed(n) PROVE IInv'
  <2>1. PICK id \in pending[n] : /\ DisableOK(on[n], id)
                                 /\ on' = [on EXCEPT ![n] = @ \ {id}]
                                 /\ pending' = [pending EXCEPT ![n] = @ \ {id}]
    BY <1>2 DEF DisableListed, Retried
  <2>2. Booting(n) /\ UNCHANGED <<phase, env, listed, off, call>>
    BY <1>2 DEF DisableListed
  <2>3. Sound(on[n] \ {id})
    BY <1>0, <2>1, <2>2, DisableSound DEF Booting
  <2>4. TypeOK'
    BY <2>1, <2>2 DEF TypeOK
  <2>5. DependenciesEnabled'
    BY <2>1, <2>2, <2>3 DEF TypeOK, DependenciesEnabled, Sound
  <2>6. BootInv'
    BY <2>1, <2>2 DEF TypeOK, BootInv, Booting
  <2> QED
    BY <2>4, <2>5, <2>6 DEF IInv
<1>3. ASSUME NEW n \in Replicas, RefuseBoot(n) \/ Serve(n) PROVE IInv'
  <2>1. phase[n] # "down" /\ UNCHANGED <<on, env, listed, pending, off, call>>
    BY <1>3 DEF RefuseBoot, Serve
  <2>2. phase' = [phase EXCEPT ![n] = "down"] \/ phase' = [phase EXCEPT ![n] = "serving"]
    BY <1>3 DEF RefuseBoot, Serve
  <2>3. TypeOK'
    BY <2>1, <2>2 DEF TypeOK
  <2>4. DependenciesEnabled'
    BY <2>1, <2>2 DEF TypeOK, DependenciesEnabled
  <2>5. BootInv'
    BY <2>1, <2>2 DEF TypeOK, BootInv, Booting
  <2> QED
    BY <2>3, <2>4, <2>5 DEF IInv
<1>4. ASSUME NEW n \in Replicas, NEW ok \in BOOLEAN, ReadSaved(n, ok) PROVE IInv'
  <2> DEFINE rows == IF ok THEN off ELSE {}
  <2>1. /\ phase[n] = "env" /\ pending[n] = {}
        /\ listed' = [listed EXCEPT ![n] = @ \cup rows]
        /\ pending' = [pending EXCEPT ![n] = rows]
        /\ phase' = [phase EXCEPT ![n] = "db"]
        /\ UNCHANGED <<on, env, off, call>>
    BY <1>4 DEF ReadSaved, EnvDone
  <2>2. rows \in SUBSET Ids
    BY DEF TypeOK
  <2> HIDE DEF rows
  <2>3. TypeOK'
    BY <2>1, <2>2 DEF TypeOK
  <2>4. DependenciesEnabled'
    BY <2>1 DEF TypeOK, DependenciesEnabled
  <2>5. env[n] \cap on[n] = {}
    BY <2>1 DEF BootInv, Booting
  <2>6. BootInv'
    <3> SUFFICES ASSUME NEW p \in Replicas, Booting(p)'
                 PROVE  /\ pending'[p] \subseteq listed'[p]
                        /\ Modules \ on'[p] \subseteq listed'[p]
                        /\ listed'[p] \cap on'[p] \subseteq pending'[p]
                        /\ env'[p] \subseteq listed'[p]
                        /\ phase'[p] = "db" => env'[p] \cap on'[p] = {}
      BY DEF BootInv
    <3>1. CASE p = n
      BY <2>1, <2>2, <2>5, <3>1 DEF TypeOK, BootInv, Booting
    <3>2. CASE p # n
      BY <2>1, <3>2 DEF TypeOK, BootInv, Booting
    <3> QED
      BY <3>1, <3>2
  <2> QED
    BY <2>3, <2>4, <2>6 DEF IInv
<1>5. ASSUME NEW n \in Replicas, Stop(n) PROVE IInv'
  <2>1. TypeOK'
    BY <1>5, CallDropped DEF Stop, TypeOK
  <2>2. DependenciesEnabled'
    BY <1>5 DEF Stop, TypeOK, DependenciesEnabled
  <2>3. BootInv'
    BY <1>5 DEF Stop, TypeOK, BootInv, Booting
  <2> QED
    BY <2>1, <2>2, <2>3 DEF IInv
<1>6. ASSUME NEW c \in Admins, NEW n \in Replicas, NEW id \in Modules,
             SwitchOff(c, n, id) \/ SwitchOn(c, n, id)
      PROVE  IInv'
  <2>1. phase[n] = "serving" /\ UNCHANGED <<phase, env, listed, pending, off>>
    BY <1>6 DEF SwitchOff, SwitchOn
  <2>2. PICK up : on' = [on EXCEPT ![n] = up] /\ up \in SUBSET Modules /\ Sound(up)
    <3>1. CASE SwitchOff(c, n, id)
      BY <1>0, <2>1, <3>1, DisableSound DEF SwitchOff
    <3>2. CASE SwitchOn(c, n, id)
      <4>1. on[n] \in SUBSET Modules /\ Sound(on[n])
        BY <1>0, <2>1
      <4>2. on[n] \cup {id} \in SUBSET Modules /\ Sound(on[n] \cup {id})
        BY <3>2, <4>1, EnableSound DEF SwitchOn
      <4> QED
        BY <3>2, <4>2 DEF SwitchOn
    <3> QED
      BY <1>6, <3>1, <3>2
  <2>3. PICK v \in [node: Replicas, id: Modules, enable: BOOLEAN] : call' = Put(call, c, v)
    BY <1>6 DEF SwitchOff, SwitchOn
  <2>4. TypeOK'
    BY <2>1, <2>2, <2>3, CallTyped DEF TypeOK
  <2>5. DependenciesEnabled'
    BY <2>1, <2>2 DEF TypeOK, DependenciesEnabled, Sound
  <2>6. BootInv'
    BY <2>1, <2>2 DEF TypeOK, BootInv, Booting
  <2> QED
    BY <2>4, <2>5, <2>6 DEF IInv
<1>7. ASSUME NEW c \in Admins, NEW ok \in BOOLEAN, Save(c, ok) PROVE IInv'
  <2>1. c \in DOMAIN call /\ call' = Without(call, {c})
        /\ UNCHANGED <<phase, on, env, listed, pending>>
    BY <1>7 DEF Save
  <2>2. off' \in SUBSET Ids
    BY <1>7 DEF Save, TypeOK
  <2>3. TypeOK'
    BY <2>1, <2>2, CallDropped DEF TypeOK
  <2>4. DependenciesEnabled' /\ BootInv'
    BY <2>1 DEF DependenciesEnabled, BootInv, Booting
  <2> QED
    BY <2>3, <2>4 DEF IInv
<1>8. CASE UNCHANGED vars
  BY <1>8 DEF vars, IInv, TypeOK, DependenciesEnabled, BootInv, Booting
<1> QED
  BY <1>1, <1>2, <1>3, <1>4, <1>5, <1>6, <1>7, <1>8 DEF Next, BootStep

LEMMA Invariance == Spec => []IInv
BY InitInv, StepInv, PTL DEF Spec

-----------------------------------------------------------------------------
(* Every registry, switch and boot keeps its shape.                          *)
THEOREM Typing == Spec => []TypeOK
BY Invariance, PTL DEF IInv

(* No module is ever enabled without its dependencies, and no core module    *)
(* disabled, whatever boots, lists and switches do (registry.go:138-241).    *)
THEOREM NoBrokenDependency == Spec => []DependenciesEnabled
BY Invariance, PTL DEF IInv

(* Only Serve takes a process to serving.                                    *)
LEMMA OnlyServe ==
    ASSUME TypeOK, [Next]_vars, NEW n \in Replicas,
           phase[n] # "serving", phase'[n] = "serving"
    PROVE  Serve(n)
<1>1. \A p \in Replicas : Serve(p) => p = n
  BY DEF Serve, TypeOK
<1> QED
  BY <1>1 DEF Next, vars, TypeOK, Boot, BootStep, DisableListed, RefuseBoot, ReadSaved, Stop,
     SwitchOff, SwitchOn, Save

(* Whatever order the ids of the lists come in, both fixed-point loops end   *)
(* with the same modules on (registry.go:189-241).                           *)
THEOREM BootIsDeterminate == Spec => BootSettles
<1>1. IInv /\ [Next]_vars =>
        \A n \in Replicas : phase[n] # "serving" /\ phase'[n] = "serving"
                              => on'[n] = Settled(listed[n])
  <2> SUFFICES ASSUME TypeOK, DependenciesEnabled, BootInv, [Next]_vars, NEW n \in Replicas,
                      phase[n] # "serving", phase'[n] = "serving"
               PROVE  on'[n] = Settled(listed[n])
    BY DEF IInv
  <2>1. phase[n] = "db" /\ Stuck(n) /\ on' = on
    BY OnlyServe DEF Serve
  <2>2. on[n] \in SUBSET Modules /\ Sound(on[n])
    BY <2>1 DEF TypeOK, DependenciesEnabled, Sound
  <2>3. /\ Modules \ on[n] \subseteq listed[n]
        /\ \A id \in listed[n] \cap on[n] : ~DisableOK(on[n], id)
    BY <2>1 DEF BootInv, Booting, Stuck
  <2> QED
    BY <2>1, <2>2, <2>3, FixedPoint
<1> QED
  BY <1>1, Invariance, PTL DEF Spec, BootSettles

(* A process serves no module its MODULES_DISABLED names, when its boot ends *)
(* (server.go:237).                                                          *)
THEOREM EnvObeyed == Spec => EnvIsObeyed
<1>1. IInv /\ [Next]_vars =>
        \A n \in Replicas : phase[n] # "serving" /\ phase'[n] = "serving"
                              => on'[n] \cap env[n] = {}
  BY OnlyServe DEF IInv, Serve, BootInv, Booting
<1> QED
  BY <1>1, Invariance, PTL DEF Spec, EnvIsObeyed
=============================================================================
