------------------------- MODULE GovServicesProofs -------------------------
(* That every answer about a signing session is the citizen's decision, for  *)
(* any number of sessions, readers and failures.  The argument: what was     *)
(* decided is never taken back, and every copy of an end, be it in Redis, in *)
(* the hands of a reader or told already, was made from the decision.        *)
EXTENDS GovServices, GovWorkflowProofs

(* A state is right when it is no end, or the end that was decided.          *)
Right(s, state) ==
    state \in S!Terminal => remote[s] # "RUNNING" /\ state = S!StateOf(remote[s])

(* The inductive invariant.                                                  *)
SigningInv ==
    /\ S!Types
    /\ \A s \in DOMAIN stored : Right(s, stored[s])
    /\ \A r \in DOMAIN reads : Right(reads[r].session, reads[r].state)
    /\ S!AnswersAgree

-----------------------------------------------------------------------------
(* A decision gives an end, and no end is "running".                         *)
LEMMA StateOfType ==
    /\ \A end : S!StateOf(end) \in S!Terminal
    /\ "running" \notin S!Terminal /\ S!Terminal \subseteq S!States /\ "running" \in S!States
BY DEF S!StateOf, S!Terminal, S!States

(* The empty function of Init.                                               *)
LEMMA EmptyDomain == DOMAIN <<>> = {}
OBVIOUS

(* Types and copies hold before anything was signed.                         *)
LEMMA SigningInit ==
    ASSUME S!Init
    PROVE  SigningInv
BY EmptyDomain, SigningAssumption DEF S!Init, SigningInv, S!Types, S!AnswersAgree

(* A step that leaves the decisions alone keeps every copy right as long as  *)
(* each new value, reader or answer is right.                                *)
LEMMA SigningStep ==
    ASSUME SigningInv, [S!Next]_(S!vars)
    PROVE  SigningInv'
<1> USE DEF SigningInv
<1>1. ASSUME NEW s \in Sessions, S!InitSession(s)
      PROVE  SigningInv'
  <2>1. S!Types'
    BY <1>1, StateOfType DEF S!Types, S!InitSession, S!Put
  <2>2. \A t \in DOMAIN stored' : Right(t, stored[t])'
    BY <1>1, StateOfType DEF S!InitSession, S!Put, Right
  <2> QED
    BY <1>1, <2>1, <2>2 DEF S!InitSession, Right, S!AnswersAgree
<1>2. ASSUME NEW s \in Sessions, S!CitizenDecides(s)
      PROVE  SigningInv'
  <2>1. PICK end \in S!EndResults : remote' = [remote EXCEPT ![s] = end]
    BY <1>2 DEF S!CitizenDecides
  <2>2. S!Types'
    BY <1>2, <2>1 DEF S!Types, S!CitizenDecides
  <2>3. \A t \in Sessions, state \in S!Terminal : Right(t, state) => Right(t, state)'
    BY <1>2, <2>1 DEF S!CitizenDecides, Right, S!Types
  <2>4. \A t \in Sessions, state \in S!States : Right(t, state) => Right(t, state)'
    BY <2>3 DEF Right
  <2>5. \A t \in DOMAIN stored' : Right(t, stored[t])'
    BY <1>2, <2>4 DEF S!CitizenDecides, S!Types, Right
  <2>6. \A r \in DOMAIN reads' : Right(reads[r].session, reads[r].state)'
    BY <1>2, <2>4 DEF S!CitizenDecides, S!Types, S!Read, Right
  <2>7. S!AnswersAgree'
    BY <1>2, <2>3 DEF S!CitizenDecides, S!AnswersAgree, Right
  <2> QED
    BY <2>2, <2>5, <2>6, <2>7
<1>3. ASSUME NEW s \in Sessions, S!Expire(s)
      PROVE  SigningInv'
  BY <1>3, SigningAssumption DEF S!Expire, S!Drop, S!Fault, S!Types, Right, S!AnswersAgree
<1>4. ASSUME NEW r \in Readers, NEW s \in Sessions, NEW kind \in S!Kinds,
             S!LoadState(r, kind, s)
      PROVE  SigningInv'
  <2>1. S!Types'
    BY <1>4 DEF S!Types, S!Read, S!LoadState, S!Put
  <2>2. \A q \in DOMAIN reads' : Right(reads[q].session, reads[q].state)'
    BY <1>4 DEF S!LoadState, S!Put, Right
  <2> QED
    BY <1>4, <2>1, <2>2 DEF S!LoadState, Right, S!AnswersAgree
<1>5. ASSUME NEW r \in Readers, S!Poll(r)
      PROVE  SigningInv'
  <2>1. S!Types'
    BY <1>5, StateOfType DEF S!Types, S!Read, S!Poll, S!At, S!Mine
  <2>2. \A q \in DOMAIN reads' : Right(reads[q].session, reads[q].state)'
    BY <1>5 DEF S!Types, S!Read, S!Poll, S!At, S!Mine, Right
  <2> QED
    BY <1>5, <2>1, <2>2 DEF S!Poll, Right, S!AnswersAgree
<1>6. ASSUME NEW r \in Readers, S!NoAnswer(r)
      PROVE  SigningInv'
  BY <1>6 DEF S!NoAnswer, S!Unanswered, S!At, S!Types, S!Read, Right, S!AnswersAgree
<1>7. ASSUME NEW r \in Readers, S!SaveState(r)
      PROVE  SigningInv'
  <2>1. S!Types'
    BY <1>7 DEF S!Types, S!Read, S!SaveState, S!At, S!AfterSave, S!Put, S!Mine
  <2>2. \A t \in DOMAIN stored' : Right(t, stored[t])'
    BY <1>7 DEF S!SaveState, S!At, S!Put, S!Mine, Right
  <2>3. \A q \in DOMAIN reads' : Right(reads[q].session, reads[q].state)'
    BY <1>7 DEF S!Types, S!Read, S!SaveState, S!At, Right
  <2> QED
    BY <1>7, <2>1, <2>2, <2>3 DEF S!SaveState, S!AnswersAgree
<1>8. ASSUME NEW r \in Readers, S!SaveFails(r)
      PROVE  SigningInv'
  BY <1>8, SigningAssumption DEF S!SaveFails, S!At, S!AfterSave, S!Fault, S!Types, S!Read, Right, S!AnswersAgree
<1>9. ASSUME NEW r \in Readers, S!LoadAgain(r)
      PROVE  SigningInv'
  <2>1. S!Types'
    BY <1>9 DEF S!Types, S!Read, S!LoadAgain, S!At, S!Mine
  <2>2. \A q \in DOMAIN reads' : Right(reads[q].session, reads[q].state)'
    BY <1>9 DEF S!Types, S!Read, S!LoadAgain, S!At, S!Mine, Right
  <2> QED
    BY <1>9, <2>1, <2>2 DEF S!LoadAgain, Right, S!AnswersAgree
<1>10. ASSUME NEW r \in Readers, S!Answer(r)
       PROVE  SigningInv'
  <2>1. S!Types'
    BY <1>10 DEF S!Types, S!Answer, S!At, S!Mine, S!Drop
  <2>2. S!AnswersAgree'
    BY <1>10 DEF S!Answer, S!At, S!Mine, Right, S!AnswersAgree
  <2>3. \A q \in DOMAIN reads' : Right(reads[q].session, reads[q].state)'
    BY <1>10 DEF S!Answer, S!Drop, Right
  <2> QED
    BY <1>10, <2>1, <2>2, <2>3 DEF S!Answer, Right
<1>11. ASSUME NEW r \in Readers, S!Fails(r)
       PROVE  SigningInv'
  BY <1>11 DEF S!Fails, S!Drop, S!Types, Right, S!AnswersAgree
<1>12. CASE UNCHANGED S!vars
  BY <1>12 DEF S!vars, S!Types, Right, S!AnswersAgree
<1> QED
  BY <1>1, <1>2, <1>3, <1>4, <1>5, <1>6, <1>7, <1>8, <1>9, <1>10, <1>11, <1>12 DEF S!Next

(* The strengthened invariant, at every moment.                              *)
THEOREM SigningInvariant == S!Spec => []SigningInv
<1>1. S!Init => SigningInv
  BY SigningInit
<1>2. SigningInv /\ [S!Next]_(S!vars) => SigningInv'
  BY SigningStep
<1> QED
  BY <1>1, <1>2, PTL DEF S!Spec

(* Whoever is told of an end of a signing is told what the citizen decided:  *)
(* Poll, VerifiedDigest and Download of sign_usecase.go and sign_digest.go.  *)
THEOREM SignedMeansSigned == S!Spec => []AnswersAgree
<1>1. SigningInv => AnswersAgree
  BY DEF SigningInv, AnswersAgree
<1> QED
  BY <1>1, SigningInvariant, PTL

(* Applications and signing sessions, and all that is under way, keep their  *)
(* types (domain_gov.go, sign_usecase.go).                                   *)
THEOREM ServicesTyping == Spec /\ S!Spec => []AllTypes
<1>1. SigningInv => S!Types
  BY DEF SigningInv
<1>2. TypeOK /\ S!Types => AllTypes
  BY DEF AllTypes
<1> QED
  BY <1>1, <1>2, GovTyping, SigningInvariant, PTL
=============================================================================
