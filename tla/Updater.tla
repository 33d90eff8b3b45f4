------------------------------ MODULE Updater -------------------------------
(* platformd (cmd/platformd, kernel/update) with the two scripts it runs     *)
(* (deploy/platformd): it follows a release channel, moves the checkout and  *)
(* the containers to the release, waits until the API answers and only then  *)
(* records the version; otherwise it goes back to the checkout it came from. *)
(*                                                                           *)
(* A version is its place in the order of Compare, 0 being the v0.0.0 of a   *)
(* missing or unreadable file.  The maintenance window only delays a check.  *)
EXTENDS Naturals

CONSTANTS
    Versions,  \* the published releases
    Working,   \* those whose API comes up
    Major,     \* the major number of a version, 0 included
    MaxFaults  \* bound: signals, crashes and failures outside the running apply script

Zero == 0

VARIABLES
    config,   \* what the operator allows, and whether there is a health URL
    channel,  \* the version the manifest names
    file,     \* the version file: Zero when missing, empty or torn
    head,     \* the checkout
    prev,     \* .platformd-prev: Zero when missing or empty
    running,  \* the version in the containers
    at,       \* what platformd is doing, "down" when it does not run
    target,   \* the version of the decision being applied
    faults

vars == <<config, channel, file, head, prev, running, at, target, faults>>
host == <<head, prev, running>>

Places == {"idle", "save", "checkout", "up", "probe", "write", "record",
           "back", "backup", "down"}

TypeOK ==
    /\ config \in [allowMajor: BOOLEAN, probes: BOOLEAN]
    /\ {channel, head, running} \subseteq Versions
    /\ {file, prev, target} \subseteq Versions \cup {Zero}
    /\ at \in Places /\ faults \in 0..MaxFaults

Init ==
    /\ config \in [allowMajor: BOOLEAN, probes: BOOLEAN]
    /\ running \in Working /\ head = running /\ channel = running
    /\ file \in {running, Zero}
    /\ prev = Zero /\ target = Zero /\ at = "idle" /\ faults = 0

(* The release pipeline moves the channel; it may also move it back.         *)
Publish ==
    /\ at = "idle"
    /\ channel' \in Versions \ {channel}
    /\ UNCHANGED <<config, file, host, at, target, faults>>

Wanted == channel > file
Permitted == Major[channel] <= Major[file] \/ config.allowMajor

(* CheckOnce decides and Apply starts the script.                            *)
CheckOnce ==
    /\ at = "idle" /\ Wanted /\ Permitted
    /\ at' = "save" /\ target' = channel
    /\ UNCHANGED <<config, channel, file, host, faults>>

(* update.sh: remember the checkout, move it, bring the containers up.       *)
SavePrev ==
    /\ at = "save" /\ prev' = head /\ at' = "checkout"
    /\ UNCHANGED <<config, channel, file, head, running, target, faults>>

Checkout ==
    /\ at = "checkout" /\ head' = target /\ at' = "up"
    /\ UNCHANGED <<config, channel, file, prev, running, target, faults>>

AfterScript == IF config.probes THEN "probe" ELSE "write"

ComposeUp ==
    /\ at = "up" /\ running' = head /\ at' = AfterScript
    /\ UNCHANGED <<config, channel, file, head, prev, target, faults>>

(* Mutant of AfterFailure: the error is only returned.                       *)
NoRollback == "idle"

(* Apply rolls back after any failure.                                       *)
AfterFailure == "back"

(* set -e: any command of update.sh may fail.  The redirection has emptied   *)
(* .platformd-prev before rev-parse runs, and compose may have replaced some *)
(* containers before it fails.                                               *)
ScriptFails ==
    /\ at \in {"save", "checkout", "up"}
    /\ prev' = IF at = "save" THEN Zero ELSE prev
    /\ running' \in IF at = "up" THEN {running, head} ELSE {running}
    /\ at' = AfterFailure
    /\ UNCHANGED <<config, channel, file, head, target, faults>>

(* The script cannot be started, or cannot open .platformd-prev: the file    *)
(* still names the checkout before some earlier update, and the rollback     *)
(* goes there.  Nothing makes up for it, so it counts as a fault.            *)
ScriptNotStarted ==
    /\ at = "save" /\ at' = AfterFailure
    /\ faults < MaxFaults /\ faults' = faults + 1
    /\ UNCHANGED <<config, channel, file, host, target>>

(* waitHealthy: an answer in time, or not.                                   *)
Healthy ==
    /\ at = "probe" /\ running \in Working /\ at' = "write"
    /\ UNCHANGED <<config, channel, file, host, target, faults>>

Unhealthy ==
    /\ at = "probe" /\ at' = AfterFailure
    /\ UNCHANGED <<config, channel, file, host, target, faults>>

(* os.WriteFile empties the file, then writes it.                            *)
Truncate ==
    /\ at = "write" /\ file' = Zero /\ at' = "record"
    /\ UNCHANGED <<config, channel, host, target, faults>>

Record ==
    /\ at = "record" /\ file' = target /\ at' = "idle" /\ target' = Zero
    /\ UNCHANGED <<config, channel, host, faults>>

(* rollback.sh: without a saved checkout it stops, for an operator.          *)
RollbackCheckout ==
    /\ at = "back" /\ prev # Zero
    /\ head' = prev /\ at' = "backup"
    /\ UNCHANGED <<config, channel, file, prev, running, target, faults>>

RollbackRefused ==
    /\ at = "back" /\ prev = Zero
    /\ at' = "idle" /\ target' = Zero
    /\ UNCHANGED <<config, channel, file, host, faults>>

RollbackUp ==
    /\ at = "backup" /\ running' = head
    /\ at' = "idle" /\ target' = Zero
    /\ UNCHANGED <<config, channel, file, head, prev, faults>>

(* What nothing makes up for: the write of the file fails (Apply returns the *)
(* error and does not roll back), or a command of rollback.sh fails.         *)
Gone(place) == at' = place /\ target' = Zero /\ faults < MaxFaults /\ faults' = faults + 1

Fails ==
    /\ at \in {"write", "record", "back", "backup"} /\ Gone("idle")
    /\ UNCHANGED <<config, channel, file, host>>

(* The process dies.  A signal is the same: the script is killed with the    *)
(* cancelled context, the rollback is given that context and is not started, *)
(* and Run returns.                                                          *)
Stop ==
    /\ at # "down" /\ Gone("down")
    /\ running' \in IF at \in {"up", "backup"} THEN {running, head} ELSE {running}
    /\ UNCHANGED <<config, channel, file, head, prev>>

Restart ==
    /\ at = "down" /\ at' = "idle"
    /\ UNCHANGED <<config, channel, file, host, target, faults>>

Next ==
    \/ Publish \/ CheckOnce
    \/ SavePrev \/ Checkout \/ ComposeUp \/ ScriptFails \/ ScriptNotStarted
    \/ Healthy \/ Unhealthy \/ Truncate \/ Record
    \/ RollbackCheckout \/ RollbackRefused \/ RollbackUp
    \/ Fails \/ Stop \/ Restart

Spec == Init /\ [][Next]_vars

-----------------------------------------------------------------------------
(* main.go: a release whose API does not answer is taken back, and the file  *)
(* is written on success.  With a health URL the file never names a release  *)
(* that did not come up, whatever is interrupted; and between updates, when  *)
(* nothing was interrupted, what runs works and the file says so, unless the *)
(* file was missing from the start (updater.go, Apply and rollback).         *)
RunsProven ==
    config.probes =>
        /\ file \in Working \cup {Zero}
        /\ at = "idle" /\ faults = 0 =>
               running \in Working /\ file \in {running, Zero} /\ head = running
=============================================================================
