---------------------------- MODULE GovServices ----------------------------
(* The services of the state that a citizen meets: his applications, and the *)
(* documents he signs with the phone.  The two share no state.               *)
EXTENDS GovWorkflow

CONSTANTS Sessions, Readers, MaxLost \* of Signing

VARIABLES stored, remote, started, reads, told, lost

S == INSTANCE Signing WITH MaxFaults <- MaxLost, faults <- lost

ASSUME SigningAssumption == MaxLost \in Nat

signingVars == <<stored, remote, started, reads, told, lost>>

(* The types of both.                                                        *)
AllTypes == TypeOK /\ S!Types

(* The property of the same name, of Signing.                                *)
AnswersAgree == S!AnswersAgree
=============================================================================
