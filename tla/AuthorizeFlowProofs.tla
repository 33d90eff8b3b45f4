------------------------- MODULE AuthorizeFlowProofs -------------------------
(* Machine-checked theorems about AuthorizeFlow, for every number of         *)
(* clients, citizens, scopes, challenges, codes and handlers at work.        *)
(*                                                                           *)
(* The argument: a page is decided by one UPDATE that finds it undecided, so *)
(* whoever is past that UPDATE is the only one of the request that is, and   *)
(* what it still has to write, the consent page or the code, is not there.   *)
EXTENDS AuthorizeFlow, FiniteSetTheorems, TLAPS

(* The citizen once granted the client all that is asked, in one answer.     *)
Earned(u, cl, asked) ==
    \E s \in SUBSET Scopes : asked \subseteq s /\ <<u, cl, s>> \in agreed

(* A page: where it comes from, and what its decision says.  A refused page  *)
(* is one that is decided and grants nothing.                                *)
RowOK(ch) ==
    LET row == challenges[ch]
        o == row.origin
    IN  /\ o \in DOMAIN challenges /\ challenges[o].kind # "consent"
        /\ row.kind # "consent" => o = ch
        /\ ~row.decided => row.granted = {}
        /\ row.skip => row.kind = "consent" /\ Earned(row.subject, row.client, row.requested)
        /\ row.kind = "login" =>
              /\ row.client \in Clients
              /\ row.requested # {} /\ row.requested \subseteq Allowed[row.client]
              /\ row.granted # {} => row.granted = row.requested /\ row.subject \in Users
        /\ row.kind = "consent" =>
              /\ challenges[o].kind = "login" /\ challenges[o].granted # {}
              /\ row.client = challenges[o].client /\ row.subject = challenges[o].subject
              /\ row.requested = challenges[o].requested /\ row.granted \subseteq row.requested

(* A handler: what of its page it relies on.                                 *)
JobOK(r) ==
    LET job == reqs[r]
        row == challenges[job.challenge]
    IN  /\ job.challenge \in DOMAIN challenges
        /\ job.at = "decideLogin" => row.kind = "login" /\ job.granted = row.requested
        /\ job.at \in {"recall", "createConsent"} =>
              /\ row.kind = "login" /\ row.granted # {} /\ row.subject = job.user
              /\ \A ch \in DOMAIN challenges :
                    challenges[ch].kind = "consent" => challenges[ch].origin # row.origin
        /\ job.at = "createConsent" /\ job.skip => Earned(job.user, row.client, row.requested)
        /\ job.at \in {"decideConsent", "saveConsent", "createCode"} =>
              /\ row.kind = "consent" /\ row.subject = job.user
              /\ job.granted # {} /\ job.granted \subseteq row.requested
        /\ job.at \in {"saveConsent", "createCode"} => row.granted = job.granted
        /\ job.at = "createCode" => <<job.user, row.client, job.granted>> \in agreed

(* A code: the pages it comes from.                                          *)
CodeOK(c) ==
    /\ <<codes[c].subject, codes[c].client, codes[c].scopes>> \in agreed
    /\ codes[c].scopes # {}
    /\ \E ch \in DOMAIN challenges :
          /\ challenges[ch].kind = "consent" /\ challenges[ch].origin = codes[c].origin
          /\ challenges[ch].subject = codes[c].subject /\ challenges[ch].client = codes[c].client
          /\ challenges[ch].granted = codes[c].scopes

Past(r) == reqs[r].at \in {"recall", "createConsent", "saveConsent", "createCode"}
Origin(r) == challenges[reqs[r].challenge].origin

(* Of one request: one consent page, one handler past a decision, one code.  *)
Exclusive ==
    /\ \A c, d \in DOMAIN challenges :
          challenges[c].kind = "consent" /\ challenges[d].kind = "consent"
             /\ challenges[c].origin = challenges[d].origin => c = d
    /\ \A q, r \in DOMAIN reqs : Past(q) /\ Past(r) /\ Origin(q) = Origin(r) => q = r
    /\ \A c, d \in DOMAIN codes : codes[c].origin = codes[d].origin => c = d
    /\ \A r \in DOMAIN reqs, c \in DOMAIN codes : Past(r) => Origin(r) # codes[c].origin

ConsentsAgreed == \A k \in DOMAIN consents : <<k[1], k[2], consents[k]>> \in agreed

(* The inductive invariant.                                                  *)
IInv ==
    /\ Typed /\ ConsentsAgreed /\ Exclusive
    /\ \A ch \in DOMAIN challenges : RowOK(ch)
    /\ \A r \in DOMAIN reqs : JobOK(r)
    /\ \A c \in DOMAIN codes : CodeOK(c)

-----------------------------------------------------------------------------
LEMMA EarnedStays ==
    ASSUME agreed \subseteq agreed', NEW u, NEW cl, NEW asked, Earned(u, cl, asked)
    PROVE  Earned(u, cl, asked)'
  BY DEF Earned

(* Pages say the same after a step that leaves them.                         *)
LEMMA RowsKept ==
    ASSUME IInv, UNCHANGED challenges, agreed \subseteq agreed'
    PROVE  \A ch \in DOMAIN challenges' : RowOK(ch)'
<1> SUFFICES ASSUME NEW ch \in DOMAIN challenges
             PROVE  RowOK(ch)'
  OBVIOUS
<1>1. RowOK(ch)
  BY DEF IInv
<1>2. challenges[ch].skip =>
         Earned(challenges[ch].subject, challenges[ch].client, challenges[ch].requested)'
  BY <1>1, EarnedStays DEF RowOK
<1> QED
  BY <1>1, <1>2 DEF RowOK, Earned

LEMMA CodesKept ==
    ASSUME IInv, UNCHANGED <<challenges, codes>>, agreed \subseteq agreed'
    PROVE  \A c \in DOMAIN codes' : CodeOK(c)'
  BY DEF IInv, CodeOK

(* A step of one handler that leaves pages and codes.                        *)
LEMMA HandlerStep ==
    ASSUME IInv, UNCHANGED <<challenges, codes>>,
           stale' \subseteq DOMAIN challenges,
           DOMAIN consents' \subseteq Users \X Clients,
           \A k \in DOMAIN consents' : consents'[k] \in SUBSET Scopes,
           agreed \subseteq agreed', agreed' \subseteq Users \X Clients \X SUBSET Scopes,
           ConsentsAgreed',
           NEW r \in Reqs,
           DOMAIN reqs' \subseteq DOMAIN reqs \cup {r},
           \A q \in DOMAIN reqs' : q # r => reqs'[q] = reqs[q],
           r \in DOMAIN reqs' =>
              /\ reqs'[r] \in Job /\ JobOK(r)'
              /\ Past(r)' => r \in DOMAIN reqs /\ Past(r) /\ Origin(r)' = Origin(r)
    PROVE  IInv'
<1>1. Typed'
  BY DEF IInv, Typed
<1>2. ASSUME NEW q \in DOMAIN reqs' PROVE JobOK(q)'
  <2>1. CASE q = r
    BY <1>2, <2>1
  <2>2. CASE q # r
    <3>1. q \in DOMAIN reqs /\ reqs'[q] = reqs[q] /\ JobOK(q)
      BY <1>2, <2>2 DEF IInv
    <3>2. reqs[q].at = "createConsent" /\ reqs[q].skip =>
             Earned(reqs[q].user, challenges[reqs[q].challenge].client,
                    challenges[reqs[q].challenge].requested)'
      BY <3>1, EarnedStays DEF JobOK
    <3> QED
      BY <3>1, <3>2 DEF JobOK, Earned
  <2> QED
    BY <2>1, <2>2
<1>3. Exclusive'
  <2>1. \A q \in DOMAIN reqs' : Past(q)' => q \in DOMAIN reqs /\ Past(q) /\ Origin(q)' = Origin(q)
    BY DEF Past, Origin
  <2> QED
    BY <2>1 DEF IInv, Exclusive
<1> QED
  BY <1>1, <1>2, <1>3, RowsKept, CodesKept DEF IInv

(* The same, when nothing but the handler changes.                           *)
LEMMA HandlerOnly ==
    ASSUME IInv, UNCHANGED <<challenges, stale, consents, codes, agreed>>,
           NEW r \in Reqs,
           \/ reqs' = Drop(reqs, r)
           \/ \E job \in Job : reqs' = Put(reqs, r, job),
           r \in DOMAIN reqs' =>
              /\ JobOK(r)'
              /\ Past(r)' => r \in DOMAIN reqs /\ Past(r) /\ Origin(r)' = Origin(r)
    PROVE  IInv'
<1>1. /\ DOMAIN reqs' \subseteq DOMAIN reqs \cup {r}
      /\ \A q \in DOMAIN reqs' : q # r => reqs'[q] = reqs[q]
      /\ r \in DOMAIN reqs' => reqs'[r] \in Job
  BY DEF Drop, Put
<1>2. ConsentsAgreed'
  BY DEF IInv, ConsentsAgreed
<1> QED
  BY <1>1, <1>2, HandlerStep DEF IInv, Typed

LEMMA HandlerEnds ==
    ASSUME IInv, UNCHANGED <<challenges, stale, consents, codes, agreed>>,
           NEW r \in Reqs, reqs' = Drop(reqs, r)
    PROVE  IInv'
<1>1. r \notin DOMAIN reqs'
  BY DEF Drop
<1> QED
  BY <1>1, HandlerOnly

LEMMA JobType ==
    ASSUME IInv, NEW r \in DOMAIN reqs
    PROVE  /\ r \in Reqs /\ reqs[r] \in Job /\ JobOK(r)
           /\ reqs[r].challenge \in DOMAIN challenges
           /\ challenges[reqs[r].challenge] \in Challenge
           /\ RowOK(reqs[r].challenge)
  BY DEF IInv, Typed, JobOK

-----------------------------------------------------------------------------
(* Reading a page.                                                           *)

LEMMA ReadLoginKeeps ==
    ASSUME IInv, NEW r \in Reqs, NEW u \in Users, NEW ch \in Challenges, ReadLogin(r, u, ch)
    PROVE  IInv'
<1> DEFINE job == [at |-> "decideLogin", user |-> u, challenge |-> ch,
                   granted |-> challenges[ch].requested]
<1>1. /\ UNCHANGED <<challenges, stale, consents, codes, agreed>>
      /\ ch \in DOMAIN challenges /\ challenges[ch].kind = "login"
      /\ reqs' = Put(reqs, r, job)
  BY DEF ReadLogin, Open
<1>2. challenges[ch] \in Challenge
  BY <1>1 DEF IInv, Typed
<1>3. job \in Job
  BY <1>2 DEF Job, Challenge
<1>4. reqs'[r] = job
  BY <1>1 DEF Put
<1>5. JobOK(r)' /\ ~Past(r)'
  BY <1>1, <1>4 DEF JobOK, Past
<1> QED
  BY <1>1, <1>3, <1>5, HandlerOnly

LEMMA ReadConsentKeeps ==
    ASSUME IInv, NEW r \in Reqs, NEW u \in Users, NEW ch \in Challenges,
           NEW ticked \in SUBSET Scopes, ReadConsent(r, u, ch, ticked)
    PROVE  IInv'
<1> DEFINE job == [at |-> "decideConsent", user |-> u, challenge |-> ch,
                   granted |-> GrantedOf(challenges[ch].requested, ticked)]
<1>1. /\ UNCHANGED <<challenges, stale, consents, codes, agreed>>
      /\ ch \in DOMAIN challenges /\ challenges[ch].kind = "consent"
      /\ challenges[ch].subject = u /\ job.granted # {}
      /\ reqs' = Put(reqs, r, job)
  BY DEF ReadConsent, Open
<1>2. challenges[ch] \in Challenge
  BY <1>1 DEF IInv, Typed
<1>3. job.granted \subseteq challenges[ch].requested
  BY DEF GrantedOf
<1>4. job \in Job
  BY <1>2, <1>3 DEF Job, Challenge
<1>5. reqs'[r] = job
  BY <1>1 DEF Put
<1>6. JobOK(r)' /\ ~Past(r)'
  BY <1>1, <1>3, <1>5 DEF JobOK, Past
<1> QED
  BY <1>1, <1>4, <1>6, HandlerOnly

LEMMA ReadRefusalKeeps ==
    ASSUME IInv, NEW r \in Reqs, NEW ch \in Challenges, ReadRefusal(r, ch)
    PROVE  IInv'
<1> DEFINE job == [at |-> "refuse", challenge |-> ch]
<1>1. /\ UNCHANGED <<challenges, stale, consents, codes, agreed>>
      /\ ch \in DOMAIN challenges /\ reqs' = Put(reqs, r, job)
  BY DEF ReadRefusal, Open
<1>2. job \in Job /\ reqs'[r] = job
  BY <1>1 DEF Job, Put
<1>3. JobOK(r)' /\ ~Past(r)'
  BY <1>1, <1>2 DEF JobOK, Past
<1> QED
  BY <1>1, <1>2, <1>3, HandlerOnly

-----------------------------------------------------------------------------
(* Between the decision and what follows from it.                            *)

LEMMA RecallKeeps ==
    ASSUME IInv, NEW r, RecallConsent(r)
    PROVE  IInv'
<1> PICK ch, u, cl, asked :
       /\ ch = reqs[r].challenge /\ u = reqs[r].user
       /\ cl = challenges[ch].client /\ asked = challenges[ch].requested
  OBVIOUS
<1> PICK skip \in BOOLEAN :
       skip = (<<u, cl>> \in DOMAIN consents /\ CoversAll(asked, consents[<<u, cl>>]))
  OBVIOUS
<1> DEFINE job == [at |-> "createConsent", user |-> u, challenge |-> ch, skip |-> skip]
<1>1. /\ r \in DOMAIN reqs /\ reqs[r].at = "recall"
      /\ UNCHANGED <<challenges, stale, consents, codes, agreed>>
      /\ reqs' = Put(reqs, r, job)
  BY DEF RecallConsent, At
<1>2. /\ r \in Reqs /\ reqs[r] \in Job /\ JobOK(r) /\ ch \in DOMAIN challenges /\ RowOK(ch)
  BY <1>1, JobType
<1>3. u \in Users /\ ch \in Challenges
  BY <1>1, <1>2 DEF Job
<1>4. job \in Job /\ reqs'[r] = job
  BY <1>1, <1>3 DEF Job, Put
<1>5. skip => \E s \in SUBSET Scopes : asked \subseteq s /\ <<u, cl, s>> \in agreed
  <2> SUFFICES ASSUME skip
               PROVE  \E s \in SUBSET Scopes : asked \subseteq s /\ <<u, cl, s>> \in agreed
    OBVIOUS
  <2>1. consents[<<u, cl>>] \in SUBSET Scopes /\ <<u, cl, consents[<<u, cl>>]>> \in agreed
    BY DEF IInv, Typed, ConsentsAgreed
  <2> QED
    BY <2>1 DEF CoversAll
<1>6. /\ reqs'[r].at = "createConsent" /\ reqs'[r].challenge = ch /\ reqs'[r].user = u
      /\ reqs'[r].skip = skip
  BY <1>4
<1>7. JobOK(r)'
  <2>1. /\ challenges[ch].kind = "login" /\ challenges[ch].granted # {}
        /\ challenges[ch].subject = u
        /\ \A c \in DOMAIN challenges :
              challenges[c].kind = "consent" => challenges[c].origin # challenges[ch].origin
    BY <1>1, <1>2 DEF JobOK
  <2>2. /\ challenges' = challenges /\ agreed' = agreed
        /\ reqs'[r].at = "createConsent" /\ reqs'[r].challenge = ch /\ reqs'[r].user = u
    BY <1>1, <1>6
  <2>3. ch \in DOMAIN challenges
    BY <1>2
  <2>4. reqs'[r].skip => \E s \in SUBSET Scopes :
           challenges'[reqs'[r].challenge].requested \subseteq s
              /\ <<reqs'[r].user, challenges'[reqs'[r].challenge].client, s>> \in agreed'
    BY <1>5, <1>6, <2>2
  <2> QED
    BY <2>1, <2>2, <2>3, <2>4 DEF JobOK, Earned
<1>8. Past(r) /\ Origin(r)' = Origin(r)
  BY <1>1, <1>6 DEF Past, Origin
<1> QED
  BY <1>1, <1>2, <1>4, <1>7, <1>8, HandlerOnly

LEMMA SaveConsentKeeps ==
    ASSUME IInv, NEW r, SaveConsent(r)
    PROVE  IInv'
<1> PICK ch, u, g : ch = reqs[r].challenge /\ u = reqs[r].user /\ g = reqs[r].granted
  OBVIOUS
<1> PICK cl : cl = challenges[ch].client
  OBVIOUS
<1>1. /\ r \in DOMAIN reqs /\ reqs[r].at = "saveConsent"
      /\ UNCHANGED <<challenges, stale, codes>>
      /\ consents' = Put(consents, <<u, cl>>, g)
      /\ agreed' = agreed \cup {<<u, cl, g>>}
      /\ reqs' = Put(reqs, r, [reqs[r] EXCEPT !.at = "createCode"])
  BY DEF SaveConsent, At
<1>2. /\ r \in Reqs /\ reqs[r] \in Job /\ JobOK(r) /\ ch \in DOMAIN challenges /\ RowOK(ch)
      /\ challenges[ch] \in Challenge
  BY <1>1, JobType
<1>3. u \in Users /\ g \in SUBSET Scopes
  BY <1>1, <1>2 DEF Job
<1>4. cl \in Clients
  BY <1>1, <1>2 DEF JobOK, RowOK, IInv
<1>5. /\ reqs'[r] \in Job /\ reqs'[r].at = "createCode" /\ reqs'[r].challenge = ch
      /\ reqs'[r].user = u /\ reqs'[r].granted = g
      /\ DOMAIN reqs' \subseteq DOMAIN reqs \cup {r}
      /\ \A q \in DOMAIN reqs' : q # r => reqs'[q] = reqs[q]
  BY <1>1, <1>2 DEF Job, Put
<1>6. JobOK(r)'
  BY <1>1, <1>2, <1>5 DEF JobOK
<1>7. Past(r) /\ Origin(r)' = Origin(r)
  BY <1>1, <1>5 DEF Past, Origin
<1>8. /\ DOMAIN consents' \subseteq Users \X Clients
      /\ \A k \in DOMAIN consents' : consents'[k] \in SUBSET Scopes
      /\ agreed \subseteq agreed' /\ agreed' \subseteq Users \X Clients \X SUBSET Scopes
  BY <1>1, <1>3, <1>4 DEF IInv, Typed, Put
<1>9. ConsentsAgreed'
  BY <1>1 DEF IInv, ConsentsAgreed, Put
<1> QED
  BY <1>1, <1>2, <1>5, <1>6, <1>7, <1>8, <1>9, HandlerStep DEF IInv, Typed

-----------------------------------------------------------------------------
(* The one UPDATE.  While a page is undecided nothing that follows from its  *)
(* decision exists: no consent page of a login page, nobody past a decision, *)
(* no code.                                                                  *)

LEMMA NothingYet ==
    ASSUME IInv, NEW ch \in DOMAIN challenges, ~challenges[ch].decided,
           challenges[ch].kind \in {"login", "consent"}
    PROVE  /\ challenges[ch].granted = {}
           /\ \A r \in DOMAIN reqs : Past(r) => Origin(r) # challenges[ch].origin
           /\ \A c \in DOMAIN codes : codes[c].origin # challenges[ch].origin
           /\ challenges[ch].kind = "login" =>
                 \A c \in DOMAIN challenges :
                    challenges[c].kind = "consent" => challenges[c].origin # ch
<1>1. challenges[ch].granted = {}
  BY DEF IInv, RowOK
<1>2. CASE challenges[ch].kind = "login"
  <2>1. challenges[ch].origin = ch
    BY <1>2 DEF IInv, RowOK
  <2>2. \A c \in DOMAIN challenges : challenges[c].kind = "consent" => challenges[c].origin # ch
    BY <1>1 DEF IInv, RowOK
  <2>3. ASSUME NEW r \in DOMAIN reqs, Past(r), Origin(r) = ch PROVE FALSE
    <3>1. JobOK(r) /\ RowOK(reqs[r].challenge) /\ reqs[r].challenge \in DOMAIN challenges
      BY JobType
    <3>2. CASE reqs[r].at \in {"recall", "createConsent"}
      BY <1>1, <2>3, <3>1, <3>2 DEF JobOK, RowOK, Origin
    <3>3. CASE reqs[r].at \in {"saveConsent", "createCode"}
      BY <2>2, <2>3, <3>1, <3>3 DEF JobOK, Origin
    <3> QED
      BY <2>3, <3>2, <3>3 DEF Past
  <2>4. ASSUME NEW c \in DOMAIN codes, codes[c].origin = ch PROVE FALSE
    BY <2>2, <2>4 DEF IInv, CodeOK
  <2> QED
    BY <1>1, <2>1, <2>2, <2>3, <2>4
<1>3. CASE challenges[ch].kind = "consent"
  <2>1. \A c \in DOMAIN challenges :
           challenges[c].kind = "consent" /\ challenges[c].origin = challenges[ch].origin => c = ch
    BY <1>3 DEF IInv, Exclusive
  <2>2. ASSUME NEW r \in DOMAIN reqs, Past(r), Origin(r) = challenges[ch].origin PROVE FALSE
    <3>1. JobOK(r) /\ reqs[r].challenge \in DOMAIN challenges
      BY JobType
    <3>2. CASE reqs[r].at \in {"recall", "createConsent"}
      BY <1>3, <2>2, <3>1, <3>2 DEF JobOK, Origin
    <3>3. CASE reqs[r].at \in {"saveConsent", "createCode"}
      <4>1. reqs[r].challenge = ch
        BY <2>1, <2>2, <3>1, <3>3 DEF JobOK, Origin
      <4> QED
        BY <1>1, <3>1, <3>3, <4>1 DEF JobOK
    <3> QED
      BY <2>2, <3>2, <3>3 DEF Past
  <2>3. ASSUME NEW c \in DOMAIN codes, codes[c].origin = challenges[ch].origin PROVE FALSE
    BY <1>1, <2>1, <2>3 DEF IInv, CodeOK
  <2> QED
    BY <1>1, <1>3, <2>2, <2>3
<1> QED
  BY <1>2, <1>3

(* A page decided in a citizen's name.                                       *)
Decided(ch, u, g) ==
    challenges' = [challenges EXCEPT ![ch].decided = TRUE, ![ch].subject = u, ![ch].granted = g]

LEMMA DecisionKeeps ==
    ASSUME IInv, NEW r \in DOMAIN reqs, NEW next \in {"recall", "saveConsent"},
           NEW ch, NEW u, NEW g,
           ch = reqs[r].challenge, u = reqs[r].user, g = reqs[r].granted,
           reqs[r].at = IF next = "recall" THEN "decideLogin" ELSE "decideConsent",
           ~challenges[ch].decided,
           Decided(ch, u, g), reqs' = Put(reqs, r, [reqs[r] EXCEPT !.at = next]),
           UNCHANGED <<stale, consents, codes, agreed>>
    PROVE  IInv'
<1>1. /\ r \in Reqs /\ reqs[r] \in Job /\ JobOK(r)
      /\ ch \in DOMAIN challenges /\ challenges[ch] \in Challenge /\ RowOK(ch)
  BY JobType
<1>2. u \in Users /\ g \in SUBSET Scopes
  BY <1>1 DEF Job
<1>3. /\ challenges[ch].kind = IF next = "recall" THEN "login" ELSE "consent"
      /\ next = "recall" => g = challenges[ch].requested /\ challenges[ch].origin = ch
      /\ next = "saveConsent" => g \subseteq challenges[ch].requested /\ challenges[ch].subject = u
      /\ g # {}
  BY <1>1 DEF JobOK, RowOK
<1>4. /\ DOMAIN challenges' = DOMAIN challenges
      /\ \A c \in DOMAIN challenges : c # ch => challenges'[c] = challenges[c]
      /\ challenges'[ch].kind = challenges[ch].kind
      /\ challenges'[ch].client = challenges[ch].client
      /\ challenges'[ch].requested = challenges[ch].requested
      /\ challenges'[ch].skip = challenges[ch].skip
      /\ challenges'[ch].origin = challenges[ch].origin
      /\ challenges'[ch].decided = TRUE
      /\ challenges'[ch].subject = u /\ challenges'[ch].granted = g
  BY <1>1 DEF Decided, Challenge
<1>5. \A c \in DOMAIN challenges : /\ challenges'[c].kind = challenges[c].kind
                                   /\ challenges'[c].client = challenges[c].client
                                   /\ challenges'[c].requested = challenges[c].requested
                                   /\ challenges'[c].origin = challenges[c].origin
  BY <1>4
<1>6. challenges'[ch] \in Challenge
  BY <1>1, <1>2 DEF Decided, Challenge
<1>7. /\ DOMAIN reqs' = DOMAIN reqs /\ reqs'[r].at = next /\ reqs'[r] \in Job
      /\ reqs'[r].challenge = ch /\ reqs'[r].user = u /\ reqs'[r].granted = g
      /\ \A q \in DOMAIN reqs : q # r => reqs'[q] = reqs[q]
  BY <1>1 DEF Put, Job
<1>8. /\ challenges[ch].granted = {}
      /\ \A q \in DOMAIN reqs : Past(q) => Origin(q) # challenges[ch].origin
      /\ \A c \in DOMAIN codes : codes[c].origin # challenges[ch].origin
      /\ next = "recall" => \A c \in DOMAIN challenges :
            challenges[c].kind = "consent" => challenges[c].origin # challenges[ch].origin
  BY <1>1, <1>3, NothingYet
<1>9. Typed'
  BY <1>4, <1>6, <1>7 DEF IInv, Typed
<1>10. ConsentsAgreed'
  BY DEF IInv, ConsentsAgreed
<1>11. ASSUME NEW c \in DOMAIN challenges' PROVE RowOK(c)'
  <2>1. c \in DOMAIN challenges /\ RowOK(c)
    BY <1>4, <1>11 DEF IInv
  <2>2. CASE c = ch
    <3>1. /\ challenges[ch].origin \in DOMAIN challenges
          /\ challenges[challenges[ch].origin].kind # "consent"
          /\ challenges[ch].kind # "consent" => challenges[ch].origin = ch
      BY <1>1 DEF RowOK
    <3>2. challenges'[ch].skip =>
             /\ challenges'[ch].kind = "consent"
             /\ Earned(challenges[ch].subject, challenges[ch].client, challenges[ch].requested)'
      BY <1>1, <1>3, <1>4, EarnedStays DEF RowOK, Earned
    <3>3. challenges'[ch].kind = "login" =>
             /\ challenges'[ch].client \in Clients
             /\ challenges'[ch].requested # {}
             /\ challenges'[ch].requested \subseteq Allowed[challenges'[ch].client]
             /\ challenges'[ch].granted # {} =>
                   challenges'[ch].granted = challenges'[ch].requested /\ challenges'[ch].subject \in Users
      BY <1>1, <1>2, <1>3, <1>4 DEF RowOK
    <3>4. challenges'[ch].kind = "consent" =>
             LET o == challenges'[ch].origin
             IN  /\ challenges'[o].kind = "login" /\ challenges'[o].granted # {}
                 /\ challenges'[ch].client = challenges'[o].client
                 /\ challenges'[ch].subject = challenges'[o].subject
                 /\ challenges'[ch].requested = challenges'[o].requested
                 /\ challenges'[ch].granted \subseteq challenges'[ch].requested
      BY <1>1, <1>3, <1>4, <3>1 DEF RowOK
    <3> QED
      BY <1>4, <1>5, <2>2, <3>1, <3>2, <3>3, <3>4 DEF RowOK, Earned
  <2>3. CASE c # ch
    <3>1. challenges[c].origin \in DOMAIN challenges /\ challenges'[c] = challenges[c]
      BY <1>4, <2>1, <2>3 DEF RowOK
    <3>2. challenges[c].kind = "consent" => challenges[c].origin # ch
      <4>1. CASE next = "recall"
        BY <1>3, <1>8, <2>1, <4>1
      <4>2. CASE next = "saveConsent"
        BY <1>3, <2>1, <4>2 DEF RowOK
      <4> QED
        BY <4>1, <4>2
    <3>3. challenges[c].kind = "consent" =>
             challenges'[challenges[c].origin] = challenges[challenges[c].origin]
      BY <1>4, <3>1, <3>2
    <3>4. challenges[c].skip =>
             Earned(challenges[c].subject, challenges[c].client, challenges[c].requested)
      BY <2>1 DEF RowOK
    <3> QED
      BY <1>4, <1>5, <2>1, <3>1, <3>3, <3>4 DEF RowOK, Earned
  <2> QED
    BY <2>2, <2>3
<1>12. \A q \in DOMAIN reqs' : q # r => Origin(q)' = Origin(q) /\ Past(q)' = Past(q)
  <2> SUFFICES ASSUME NEW q \in DOMAIN reqs, q # r PROVE Origin(q)' = Origin(q) /\ Past(q)' = Past(q)
    BY <1>7
  <2>1. reqs[q].challenge \in DOMAIN challenges
    BY JobType
  <2> QED
    BY <1>5, <1>7, <2>1 DEF Origin, Past
<1>13. Origin(r)' = challenges[ch].origin
  BY <1>4, <1>7 DEF Origin
<1>14. ASSUME NEW q \in DOMAIN reqs' PROVE JobOK(q)'
  <2>1. CASE q = r
    <3>1. next = "recall" => \A c \in DOMAIN challenges' :
             challenges'[c].kind = "consent" => challenges'[c].origin # challenges'[ch].origin
      BY <1>4, <1>5, <1>8
    <3> QED
      BY <1>1, <1>3, <1>4, <1>7, <2>1, <3>1 DEF JobOK
  <2>2. CASE q # r
    <3> PICK x : x = reqs[q].challenge
      OBVIOUS
    <3>1. /\ q \in DOMAIN reqs /\ reqs'[q] = reqs[q] /\ JobOK(q) /\ x \in DOMAIN challenges
      BY <1>7, <1>14, <2>2, JobType
    <3>2. Past(q) => x # ch
      BY <1>8, <3>1 DEF Origin
    <3>3. x # ch => challenges'[x] = challenges[x]
      BY <1>4, <3>1
    <3>4. reqs[q].at = "createConsent" /\ reqs[q].skip =>
             Earned(reqs[q].user, challenges[x].client, challenges[x].requested)
      BY <3>1 DEF JobOK
    <3>5. reqs[q].at \in {"recall", "createConsent"} =>
             \A c \in DOMAIN challenges' :
                challenges'[c].kind = "consent" => challenges'[c].origin # challenges'[x].origin
      BY <1>4, <1>5, <3>1 DEF JobOK
    <3>6. x = ch /\ reqs[q].at = "decideConsent" => challenges'[x].subject = challenges[x].subject
      BY <1>3, <1>4, <3>1 DEF JobOK
    <3>7. challenges'[x].kind = challenges[x].kind /\ challenges'[x].client = challenges[x].client
          /\ challenges'[x].requested = challenges[x].requested
      BY <1>5, <3>1
    <3>8. reqs[q].at \in {"recall", "createConsent", "saveConsent", "createCode"} => x # ch
      BY <3>2 DEF Past
    <3> QED
      BY <1>4, <3>1, <3>3, <3>4, <3>5, <3>6, <3>7, <3>8 DEF JobOK, Earned
  <2> QED
    BY <2>1, <2>2
<1>15. ASSUME NEW c \in DOMAIN codes' PROVE CodeOK(c)'
  <2>1. CodeOK(c) /\ codes[c].origin # challenges[ch].origin
    BY <1>8, <1>15 DEF IInv
  <2>2. PICK x \in DOMAIN challenges :
           /\ challenges[x].kind = "consent" /\ challenges[x].origin = codes[c].origin
           /\ challenges[x].subject = codes[c].subject /\ challenges[x].client = codes[c].client
           /\ challenges[x].granted = codes[c].scopes
    BY <2>1 DEF CodeOK
  <2>3. challenges'[x] = challenges[x]
    BY <1>4, <2>1, <2>2
  <2> QED
    BY <1>4, <2>1, <2>2, <2>3 DEF CodeOK
<1>16. Exclusive'
  <2>1. \A c, d \in DOMAIN challenges' :
           challenges'[c].kind = "consent" /\ challenges'[d].kind = "consent"
              /\ challenges'[c].origin = challenges'[d].origin => c = d
    BY <1>4, <1>5 DEF IInv, Exclusive
  <2>2. ASSUME NEW p \in DOMAIN reqs', NEW q \in DOMAIN reqs',
               Past(p)', Past(q)', Origin(p)' = Origin(q)'
        PROVE  p = q
    BY <1>7, <1>8, <1>12, <1>13, <2>2 DEF IInv, Exclusive
  <2>3. ASSUME NEW q \in DOMAIN reqs', NEW c \in DOMAIN codes', Past(q)'
        PROVE  Origin(q)' # codes'[c].origin
    BY <1>7, <1>8, <1>12, <1>13, <2>3 DEF IInv, Exclusive
  <2>4. \A c, d \in DOMAIN codes' : codes'[c].origin = codes'[d].origin => c = d
    BY DEF IInv, Exclusive
  <2> QED
    BY <2>1, <2>2, <2>3, <2>4 DEF Exclusive
<1> QED
  BY <1>9, <1>10, <1>11, <1>14, <1>15, <1>16 DEF IInv

LEMMA DecideLoginKeeps ==
    ASSUME IInv, NEW r, DecideLogin(r)
    PROVE  IInv'
<1>1. /\ r \in DOMAIN reqs /\ reqs[r].at = "decideLogin"
      /\ UNCHANGED <<stale, consents, codes, agreed>>
  BY DEF DecideLogin, At
<1>2. CASE challenges[reqs[r].challenge].decided \/ reqs[r].challenge \in stale
  BY <1>1, <1>2, JobType, HandlerEnds DEF DecideLogin, Decide
<1>3. CASE ~(challenges[reqs[r].challenge].decided \/ reqs[r].challenge \in stale)
  BY <1>1, <1>3, DecisionKeeps DEF DecideLogin, Decide, Decided
<1> QED
  BY <1>2, <1>3

LEMMA DecideConsentKeeps ==
    ASSUME IInv, NEW r, DecideConsent(r)
    PROVE  IInv'
<1>1. /\ r \in DOMAIN reqs /\ reqs[r].at = "decideConsent"
      /\ UNCHANGED <<stale, consents, codes, agreed>>
  BY DEF DecideConsent, At
<1>2. CASE challenges[reqs[r].challenge].decided \/ reqs[r].challenge \in stale
  BY <1>1, <1>2, JobType, HandlerEnds DEF DecideConsent, Decide
<1>3. CASE ~(challenges[reqs[r].challenge].decided \/ reqs[r].challenge \in stale)
  BY <1>1, <1>3, DecisionKeeps DEF DecideConsent, Decide, Decided
<1> QED
  BY <1>2, <1>3

(* A refusal: the page had granted nothing, and goes on granting nothing.    *)
LEMMA DecideRefusalKeeps ==
    ASSUME IInv, NEW r, DecideRefusal(r)
    PROVE  IInv'
<1> PICK ch : ch = reqs[r].challenge
  OBVIOUS
<1>1. /\ r \in DOMAIN reqs /\ reqs' = Drop(reqs, r)
      /\ UNCHANGED <<stale, consents, codes, agreed>>
  BY DEF DecideRefusal, At
<1>2. /\ r \in Reqs /\ ch \in DOMAIN challenges /\ challenges[ch] \in Challenge /\ RowOK(ch)
  BY <1>1, JobType
<1>3. CASE challenges[ch].decided \/ ch \in stale
  BY <1>1, <1>2, <1>3, HandlerEnds DEF DecideRefusal
<1>4. CASE ~(challenges[ch].decided \/ ch \in stale)
  <2>1. challenges' = [challenges EXCEPT ![ch].decided = TRUE, ![ch].granted = {}]
    BY <1>4 DEF DecideRefusal
  <2>2. challenges[ch].granted = {}
    BY <1>2, <1>4 DEF RowOK
  <2>3. /\ DOMAIN challenges' = DOMAIN challenges
        /\ \A c \in DOMAIN challenges : c # ch => challenges'[c] = challenges[c]
        /\ challenges'[ch] \in Challenge
    BY <1>2, <2>1 DEF Challenge
  <2>4. \A c \in DOMAIN challenges : /\ challenges'[c].kind = challenges[c].kind
                                     /\ challenges'[c].client = challenges[c].client
                                     /\ challenges'[c].subject = challenges[c].subject
                                     /\ challenges'[c].requested = challenges[c].requested
                                     /\ challenges'[c].skip = challenges[c].skip
                                     /\ challenges'[c].granted = challenges[c].granted
                                     /\ challenges'[c].origin = challenges[c].origin
    BY <1>2, <2>1, <2>2 DEF Challenge
  <2>5. \A c \in DOMAIN challenges : ~challenges'[c].decided => challenges'[c].granted = {}
    <3>1. \A c \in DOMAIN challenges : ~challenges[c].decided => challenges[c].granted = {}
      BY DEF IInv, RowOK
    <3> QED
      BY <2>2, <2>3, <2>4, <3>1
  <2>6. /\ DOMAIN reqs' \subseteq DOMAIN reqs
        /\ \A q \in DOMAIN reqs' : reqs'[q] = reqs[q]
    BY <1>1 DEF Drop
  <2>7. Typed' /\ ConsentsAgreed'
    BY <1>1, <2>3, <2>6 DEF IInv, Typed, ConsentsAgreed
  <2>8. ASSUME NEW c \in DOMAIN challenges' PROVE RowOK(c)'
    <3>1. c \in DOMAIN challenges /\ RowOK(c) /\ challenges[c].origin \in DOMAIN challenges
      BY <2>3, <2>8 DEF IInv, RowOK
    <3>2. challenges[c].skip =>
             Earned(challenges[c].subject, challenges[c].client, challenges[c].requested)
      BY <3>1 DEF RowOK
    <3> QED
      BY <1>1, <2>3, <2>4, <2>5, <3>1, <3>2 DEF RowOK, Earned
  <2>9. ASSUME NEW q \in DOMAIN reqs' PROVE JobOK(q)'
    <3>1. /\ q \in DOMAIN reqs /\ reqs'[q] = reqs[q] /\ JobOK(q)
          /\ reqs[q].challenge \in DOMAIN challenges
      BY <2>6, <2>9, JobType
    <3>2. reqs[q].at = "createConsent" /\ reqs[q].skip =>
             Earned(reqs[q].user, challenges[reqs[q].challenge].client,
                    challenges[reqs[q].challenge].requested)
      BY <3>1 DEF JobOK
    <3> QED
      BY <1>1, <2>3, <2>4, <3>1, <3>2 DEF JobOK, Earned
  <2>10. \A c \in DOMAIN codes' : CodeOK(c)'
    BY <1>1, <2>3, <2>4 DEF IInv, CodeOK
  <2>11. \A q \in DOMAIN reqs' : q \in DOMAIN reqs /\ Past(q)' = Past(q) /\ Origin(q)' = Origin(q)
    BY <2>4, <2>6, JobType DEF Past, Origin
  <2>12. Exclusive'
    BY <1>1, <2>3, <2>4, <2>11 DEF IInv, Exclusive
  <2> QED
    BY <2>7, <2>8, <2>9, <2>10, <2>12 DEF IInv
<1> QED
  BY <1>3, <1>4

-----------------------------------------------------------------------------
(* New pages.                                                                *)

LEMMA NewPageKeeps ==
    ASSUME IInv, NEW ch \in Challenges, ch \notin DOMAIN challenges, NEW row \in Challenge,
           challenges' = Put(challenges, ch, row), RowOK(ch)',
           DOMAIN reqs' \subseteq DOMAIN reqs, \A q \in DOMAIN reqs' : reqs'[q] = reqs[q],
           row.kind = "consent" =>
              /\ \A c \in DOMAIN challenges :
                    challenges[c].kind = "consent" => challenges[c].origin # row.origin
              /\ \A q \in DOMAIN reqs' : Past(q) => Origin(q) # row.origin,
           UNCHANGED <<stale, consents, codes, agreed>>
    PROVE  IInv'
<1>1. /\ DOMAIN challenges' = DOMAIN challenges \cup {ch} /\ challenges'[ch] = row
      /\ \A c \in DOMAIN challenges : challenges'[c] = challenges[c]
  BY DEF Put
<1>2. Typed' /\ ConsentsAgreed'
  BY <1>1 DEF IInv, Typed, ConsentsAgreed
<1>3. ASSUME NEW c \in DOMAIN challenges' PROVE RowOK(c)'
  <2>1. CASE c = ch
    BY <2>1
  <2>2. CASE c # ch
    <3>1. c \in DOMAIN challenges /\ RowOK(c) /\ challenges[c].origin \in DOMAIN challenges
      BY <1>1, <1>3, <2>2 DEF IInv, RowOK
    <3>2. /\ challenges'[c] = challenges[c] /\ challenges[c].origin \in DOMAIN challenges'
          /\ challenges'[challenges[c].origin] = challenges[challenges[c].origin]
      BY <1>1, <3>1
    <3>3. challenges[c].skip => \E s \in SUBSET Scopes :
             /\ challenges[c].requested \subseteq s
             /\ <<challenges[c].subject, challenges[c].client, s>> \in agreed'
      BY <3>1 DEF RowOK, Earned
    <3> QED
      BY <3>1, <3>2, <3>3 DEF RowOK, Earned
  <2> QED
    BY <2>1, <2>2
<1>4. ASSUME NEW q \in DOMAIN reqs' PROVE JobOK(q)'
  <2> PICK x : x = reqs[q].challenge
    OBVIOUS
  <2>1. q \in DOMAIN reqs /\ reqs'[q] = reqs[q] /\ JobOK(q) /\ x \in DOMAIN challenges
    BY <1>4, JobType
  <2>2. challenges'[x] = challenges[x] /\ x \in DOMAIN challenges'
    BY <1>1, <2>1
  <2>3. reqs[q].at \in {"recall", "createConsent"} =>
           \A c \in DOMAIN challenges' :
              challenges'[c].kind = "consent" => challenges'[c].origin # challenges'[x].origin
    BY <1>1, <2>1, <2>2, <1>4 DEF JobOK, Past, Origin
  <2> QED
    BY <2>1, <2>2, <2>3 DEF JobOK, Earned
<1>5. \A c \in DOMAIN codes' : CodeOK(c)'
  BY <1>1 DEF IInv, CodeOK
<1>6. \A q \in DOMAIN reqs' : q \in DOMAIN reqs /\ Past(q)' = Past(q) /\ Origin(q)' = Origin(q)
  BY <1>1, JobType DEF Past, Origin
<1>7. Exclusive'
  BY <1>1, <1>6 DEF IInv, Exclusive
<1> QED
  BY <1>2, <1>3, <1>4, <1>5, <1>7 DEF IInv

LEMMA AuthorizeKeeps ==
    ASSUME IInv, NEW ch \in Challenges, NEW cl \in Clients, NEW asked \in SUBSET Scopes,
           Authorize(ch, cl, asked)
    PROVE  IInv'
<1> PICK row : row = NewChallenge("login", cl, None, asked \cap Allowed[cl], FALSE, ch)
  OBVIOUS
<1>1. /\ row.kind = "login" /\ row.client = cl /\ row.requested = asked \cap Allowed[cl]
      /\ row.granted = {} /\ row.skip = FALSE /\ row.origin = ch
      /\ row \in Challenge
  BY AllowedAssumption DEF NewChallenge, Challenge, Kinds
<1>2. /\ ch \notin DOMAIN challenges /\ challenges' = Put(challenges, ch, row)
      /\ asked \cap Allowed[cl] # {}
      /\ UNCHANGED <<stale, consents, codes, reqs, agreed>>
  BY DEF Authorize
<1>3. challenges'[ch] = row /\ ch \in DOMAIN challenges'
  BY <1>2 DEF Put
<1>4. RowOK(ch)'
  BY <1>1, <1>2, <1>3 DEF RowOK
<1> QED
  BY <1>1, <1>2, <1>4, NewPageKeeps

LEMMA StartLogoutKeeps ==
    ASSUME IInv, NEW ch \in Challenges, NEW cl \in Clients \cup {None}, NEW u \in Users \cup {None},
           StartLogout(ch, cl, u)
    PROVE  IInv'
<1> PICK row : row = NewChallenge("logout", cl, u, {}, FALSE, ch)
  OBVIOUS
<1>1. /\ row.kind = "logout" /\ row.granted = {} /\ row.skip = FALSE /\ row.origin = ch
      /\ row \in Challenge
  BY DEF NewChallenge, Challenge, Kinds
<1>2. /\ ch \notin DOMAIN challenges /\ challenges' = Put(challenges, ch, row)
      /\ UNCHANGED <<stale, consents, codes, reqs, agreed>>
  BY DEF StartLogout
<1>3. challenges'[ch] = row /\ ch \in DOMAIN challenges'
  BY <1>2 DEF Put
<1>4. RowOK(ch)'
  BY <1>1, <1>3 DEF RowOK
<1> QED
  BY <1>1, <1>2, <1>4, NewPageKeeps

LEMMA CreateConsentKeeps ==
    ASSUME IInv, NEW r, NEW ch \in Challenges, CreateConsent(r, ch)
    PROVE  IInv'
<1> PICK x, u, login :
       x = reqs[r].challenge /\ u = reqs[r].user /\ login = challenges[x]
  OBVIOUS
<1>0. reqs[r].skip \in BOOLEAN
  BY JobType DEF CreateConsent, At, Job
<1> PICK skip \in BOOLEAN : skip = reqs[r].skip
  BY <1>0
<1> PICK row : row = NewChallenge("consent", login.client, u, login.requested, skip, login.origin)
  OBVIOUS
<1>1. /\ r \in DOMAIN reqs /\ reqs[r].at = "createConsent" /\ ch \notin DOMAIN challenges
      /\ challenges' = Put(challenges, ch, row)
      /\ reqs' = Drop(reqs, r)
      /\ UNCHANGED <<stale, consents, codes, agreed>>
  BY DEF CreateConsent, At
<1>2. /\ r \in Reqs /\ reqs[r] \in Job /\ JobOK(r)
      /\ x \in DOMAIN challenges /\ login \in Challenge /\ RowOK(x)
  BY <1>1, JobType
<1>3. u \in Users
  BY <1>1, <1>2 DEF Job
<1>4. /\ login.kind = "login" /\ login.granted # {} /\ login.subject = u /\ login.origin = x
      /\ login.granted = login.requested
      /\ \A c \in DOMAIN challenges :
            challenges[c].kind = "consent" => challenges[c].origin # login.origin
  BY <1>1, <1>2 DEF JobOK, RowOK
<1>5. skip => Earned(u, login.client, login.requested)
  BY <1>1, <1>2 DEF JobOK
<1>6. /\ row.kind = "consent" /\ row.client = login.client /\ row.subject = u
      /\ row.requested = login.requested /\ row.granted = {} /\ row.skip = skip
      /\ row.origin = x /\ row \in Challenge
  BY <1>2, <1>3, <1>4 DEF NewChallenge, Challenge, Kinds
<1>7. /\ challenges'[ch] = row /\ x \in DOMAIN challenges' /\ challenges'[x] = login
  BY <1>1, <1>2 DEF Put
<1>8. RowOK(ch)'
  <2>1. challenges'[ch].skip => \E s \in SUBSET Scopes :
           /\ challenges'[ch].requested \subseteq s
           /\ <<challenges'[ch].subject, challenges'[ch].client, s>> \in agreed'
    <3>1. /\ challenges'[ch].skip = skip /\ challenges'[ch].requested = login.requested
          /\ challenges'[ch].subject = u /\ challenges'[ch].client = login.client
          /\ agreed' = agreed
      BY <1>1, <1>6, <1>7
    <3> QED
      BY <1>5, <3>1 DEF Earned
  <2> QED
    BY <1>4, <1>6, <1>7, <2>1 DEF RowOK, Earned
<1>9. /\ DOMAIN reqs' = DOMAIN reqs \ {r}
      /\ \A q \in DOMAIN reqs' : reqs'[q] = reqs[q]
  BY <1>1 DEF Drop
<1>10. \A q \in DOMAIN reqs' : Past(q) => Origin(q) # row.origin
  BY <1>1, <1>4, <1>6, <1>9 DEF IInv, Exclusive, Past, Origin
<1>11. /\ \A c \in DOMAIN challenges :
              challenges[c].kind = "consent" => challenges[c].origin # row.origin
       /\ DOMAIN reqs' \subseteq DOMAIN reqs
  <2>1. row.origin = login.origin
    BY <1>4, <1>6
  <2> QED
    BY <1>4, <1>9, <2>1
<1>12. row \in Challenge
  BY <1>6
<1> QED
  BY <1>1, <1>8, <1>9, <1>10, <1>11, <1>12, NewPageKeeps

-----------------------------------------------------------------------------
(* A code, and time passing.                                                 *)

LEMMA CreateCodeKeeps ==
    ASSUME IInv, NEW r, NEW c \in Codes, CreateCode(r, c)
    PROVE  IInv'
<1> PICK x, u, g, page :
       /\ x = reqs[r].challenge /\ u = reqs[r].user /\ g = reqs[r].granted
       /\ page = challenges[x]
  OBVIOUS
<1> PICK row : row = [client |-> page.client, subject |-> u, scopes |-> g, origin |-> page.origin]
  OBVIOUS
<1>1. /\ r \in DOMAIN reqs /\ reqs[r].at = "createCode" /\ c \notin DOMAIN codes
      /\ codes' = Put(codes, c, row) /\ reqs' = Drop(reqs, r)
      /\ UNCHANGED <<challenges, stale, consents, agreed>>
  BY DEF CreateCode, At
<1>2. /\ r \in Reqs /\ reqs[r] \in Job /\ JobOK(r)
      /\ x \in DOMAIN challenges /\ page \in Challenge /\ RowOK(x)
  BY <1>1, JobType
<1>3. /\ page.kind = "consent" /\ page.subject = u /\ page.granted = g /\ g # {}
      /\ <<u, page.client, g>> \in agreed
  BY <1>1, <1>2 DEF JobOK
<1>4. page.client \in Clients /\ u \in Users /\ g \in SUBSET Scopes
  BY <1>1, <1>2, <1>3 DEF Job, IInv, RowOK
<1>5. row \in CodeRow
  BY <1>2, <1>4 DEF CodeRow, Challenge
<1>6. /\ DOMAIN codes' = DOMAIN codes \cup {c} /\ codes'[c] = row
      /\ \A d \in DOMAIN codes : codes'[d] = codes[d]
      /\ DOMAIN reqs' = DOMAIN reqs \ {r}
      /\ \A q \in DOMAIN reqs' : reqs'[q] = reqs[q]
  BY <1>1 DEF Put, Drop
<1>7. Typed' /\ ConsentsAgreed'
  BY <1>1, <1>5, <1>6 DEF IInv, Typed, ConsentsAgreed
<1>8. \A ch \in DOMAIN challenges' : RowOK(ch)'
  BY <1>1, RowsKept
<1>9. ASSUME NEW q \in DOMAIN reqs' PROVE JobOK(q)'
  <2>1. q \in DOMAIN reqs /\ reqs'[q] = reqs[q]
    BY <1>6, <1>9
  <2>2. JobOK(q)
    BY <2>1 DEF IInv
  <2>3. challenges' = challenges /\ agreed' = agreed
    BY <1>1
  <2> QED
    BY <2>1, <2>2, <2>3 DEF JobOK, Earned
<1>10. ASSUME NEW d \in DOMAIN codes' PROVE CodeOK(d)'
  <2>1. CASE d = c
    BY <1>1, <1>2, <1>3, <1>6, <2>1 DEF CodeOK
  <2>2. CASE d # c
    BY <1>1, <1>6, <1>10, <2>2 DEF IInv, CodeOK
  <2> QED
    BY <2>1, <2>2
<1>11. Past(r) /\ Origin(r) = row.origin
  BY <1>1 DEF Past, Origin
<1>12. \A q \in DOMAIN reqs' : q \in DOMAIN reqs /\ Past(q)' = Past(q) /\ Origin(q)' = Origin(q)
  BY <1>1, <1>6 DEF Past, Origin
<1>13. Exclusive'
  BY <1>1, <1>6, <1>11, <1>12 DEF IInv, Exclusive
<1> QED
  BY <1>7, <1>8, <1>9, <1>10, <1>13 DEF IInv

LEMMA ExpiryKeeps ==
    ASSUME IInv, UNCHANGED <<challenges, codes, reqs, agreed>>,
           stale' \subseteq DOMAIN challenges,
           DOMAIN consents' \subseteq DOMAIN consents,
           \A k \in DOMAIN consents' : consents'[k] = consents[k]
    PROVE  IInv'
<1>1. Typed' /\ ConsentsAgreed'
  BY DEF IInv, Typed, ConsentsAgreed
<1>2. \A r \in DOMAIN reqs' : JobOK(r)'
  BY DEF IInv, JobOK, Earned
<1>3. Exclusive'
  BY DEF IInv, Exclusive, Past, Origin
<1> QED
  BY <1>1, <1>2, <1>3, RowsKept, CodesKept DEF IInv

-----------------------------------------------------------------------------
LEMMA InitIInv == Init => IInv
  BY DEF Init, IInv, Typed, ConsentsAgreed, Exclusive

LEMMA NextIInv == IInv /\ [Next]_vars => IInv'
<1> SUFFICES ASSUME IInv, [Next]_vars PROVE IInv'
  OBVIOUS
<1>1. ASSUME NEW ch \in Challenges, NEW cl \in Clients, NEW asked \in SUBSET Scopes,
             Authorize(ch, cl, asked)
      PROVE  IInv'
  BY <1>1, AuthorizeKeeps
<1>2. ASSUME NEW ch \in Challenges, NEW cl \in Clients \cup {None}, NEW u \in Users \cup {None},
             StartLogout(ch, cl, u)
      PROVE  IInv'
  BY <1>2, StartLogoutKeeps
<1>3. ASSUME NEW r \in Reqs, NEW u \in Users, NEW ch \in Challenges,
             \/ ReadLogin(r, u, ch)
             \/ \E ticked \in SUBSET Scopes : ReadConsent(r, u, ch, ticked)
      PROVE  IInv'
  BY <1>3, ReadLoginKeeps, ReadConsentKeeps
<1>4. ASSUME NEW r \in Reqs, NEW ch \in Challenges, ReadRefusal(r, ch) \/ CreateConsent(r, ch)
      PROVE  IInv'
  BY <1>4, ReadRefusalKeeps, CreateConsentKeeps
<1>5. ASSUME NEW r \in Reqs,
             \/ DecideLogin(r) \/ RecallConsent(r) \/ DecideConsent(r)
             \/ SaveConsent(r) \/ DecideRefusal(r) \/ Abandon(r)
      PROVE  IInv'
  <2>1. CASE Abandon(r)
    BY <1>5, <2>1, HandlerEnds DEF Abandon
  <2> QED
    BY <1>5, <2>1, DecideLoginKeeps, RecallKeeps, DecideConsentKeeps, SaveConsentKeeps,
       DecideRefusalKeeps
<1>6. ASSUME NEW r \in Reqs, NEW c \in Codes, CreateCode(r, c)
      PROVE  IInv'
  BY <1>6, CreateCodeKeeps
<1>7. ASSUME NEW ch \in Challenges, ChallengeExpires(ch)
      PROVE  IInv'
  BY <1>7, ExpiryKeeps DEF ChallengeExpires, IInv, Typed
<1>8. ASSUME NEW k \in Users \X Clients, ConsentExpires(k)
      PROVE  IInv'
  <2>1. /\ DOMAIN consents' \subseteq DOMAIN consents
        /\ \A l \in DOMAIN consents' : consents'[l] = consents[l]
        /\ UNCHANGED <<challenges, stale, codes, reqs, agreed>>
    BY <1>8 DEF ConsentExpires, Drop
  <2> QED
    BY <2>1, ExpiryKeeps DEF IInv, Typed
<1>9. CASE UNCHANGED vars
  BY <1>9, ExpiryKeeps DEF vars, IInv, Typed
<1> QED
  BY <1>1, <1>2, <1>3, <1>4, <1>5, <1>6, <1>7, <1>8, <1>9 DEF Next

LEMMA Inductive == Spec => []IInv
  BY InitIInv, NextIInv, PTL DEF Spec

-----------------------------------------------------------------------------
(* The theorems.                                                             *)

LEMMA AtMostOne ==
    ASSUME NEW S, \A x, y \in S : x = y
    PROVE  Cardinality(S) \in {0, 1} /\ (Cardinality(S) = 1 => S # {})
<1>1. CASE S = {}
  BY <1>1, FS_EmptySet
<1>2. CASE S # {}
  <2>1. PICK x : x \in S
    BY <1>2
  <2>2. S = {x}
    BY <2>1
  <2> QED
    BY <2>2, <1>2, FS_Singleton
<1> QED
  BY <1>1, <1>2

(* What a code says of the pages it comes from.                              *)
LEMMA BehindACode ==
    ASSUME IInv, NEW c \in DOMAIN codes
    PROVE  LET o == codes[c].origin
           IN  /\ codes[c] \in CodeRow
               /\ o \in DOMAIN challenges /\ challenges[o].kind = "login"
               /\ challenges[o].granted # {} /\ challenges[o].decided
               /\ challenges[o].subject = codes[c].subject
               /\ challenges[o].client = codes[c].client
               /\ codes[c].scopes # {} /\ codes[c].scopes \subseteq challenges[o].requested
               /\ challenges[o].requested \subseteq Allowed[challenges[o].client]
               /\ \E x \in Of(o, "consent") :
                     /\ challenges[x].subject = codes[c].subject
                     /\ challenges[x].granted = codes[c].scopes /\ challenges[x].decided
<1> PICK o : o = codes[c].origin
  OBVIOUS
<1>1. PICK x \in DOMAIN challenges :
         /\ challenges[x].kind = "consent" /\ challenges[x].origin = o
         /\ challenges[x].subject = codes[c].subject /\ challenges[x].client = codes[c].client
         /\ challenges[x].granted = codes[c].scopes
  BY DEF IInv, CodeOK
<1>2. codes[c].scopes # {} /\ codes[c] \in CodeRow
  BY DEF IInv, CodeOK, Typed
<1>3. RowOK(x)
  BY DEF IInv
<1>4. o \in DOMAIN challenges /\ RowOK(o)
  BY <1>1, <1>3 DEF IInv, RowOK
<1>5. challenges[x].decided
  BY <1>1, <1>2, <1>3 DEF RowOK
<1>6. /\ challenges[o].kind = "login" /\ challenges[o].granted # {}
      /\ challenges[x].client = challenges[o].client
      /\ challenges[x].subject = challenges[o].subject
      /\ challenges[x].requested = challenges[o].requested
      /\ challenges[x].granted \subseteq challenges[x].requested
  BY <1>1, <1>3 DEF RowOK
<1>7. challenges[o].decided /\ challenges[o].requested \subseteq Allowed[challenges[o].client]
  BY <1>4, <1>6 DEF RowOK
<1>8. x \in Of(o, "consent")
  BY <1>1 DEF Of
<1> QED
  BY <1>1, <1>2, <1>4, <1>5, <1>6, <1>7, <1>8

(* Types: of every row, handler and remembered consent.                      *)
THEOREM TypeInvariant == Spec => []TypeOK
<1>1. IInv => TypeOK
  <2> SUFFICES ASSUME IInv PROVE Typed /\ Filled
    BY DEF TypeOK
  <2>1. Typed
    BY DEF IInv
  <2>2. ASSUME NEW ch \in DOMAIN challenges
        PROVE  /\ challenges[ch].kind # "logout" => challenges[ch].client \in Clients
               /\ challenges[ch].kind = "consent" => challenges[ch].subject \in Users
    <3> PICK o : o = challenges[ch].origin
      OBVIOUS
    <3>1. RowOK(ch) /\ challenges[ch] \in Challenge
      BY DEF IInv, Typed
    <3>2. o \in DOMAIN challenges
      BY <3>1 DEF RowOK
    <3>3. RowOK(o)
      BY <3>2 DEF IInv
    <3>4. CASE challenges[ch].kind = "consent"
      <4>1. /\ challenges[o].kind = "login" /\ challenges[o].granted # {}
            /\ challenges[ch].client = challenges[o].client
            /\ challenges[ch].subject = challenges[o].subject
        BY <3>1, <3>4 DEF RowOK
      <4> QED
        BY <3>3, <3>4, <4>1 DEF RowOK
    <3>5. CASE challenges[ch].kind # "consent"
      BY <3>1, <3>5 DEF RowOK, Challenge, Kinds
    <3> QED
      BY <3>4, <3>5
  <2> QED
    BY <2>1, <2>2 DEF Filled
<1> QED
  BY <1>1, Inductive, PTL

LEMMA OneOutcomeHolds == IInv => OneOutcome
<1> SUFFICES ASSUME IInv, NEW o \in Challenges
             PROVE  LET minted == {c \in DOMAIN codes : codes[c].origin = o}
                        pages == Of(o, "login") \cup Of(o, "consent")
                        past == {r \in Reqs : Holds(r, o)}
                    IN  /\ Cardinality(minted) + Cardinality(past) <= 1
                        /\ Cardinality(Of(o, "consent")) <= 1
                        /\ minted # {} =>
                              \A ch \in pages : challenges[ch].decided /\ ~Refused(ch)
  BY DEF OneOutcome
<1> DEFINE minted == {c \in DOMAIN codes : codes[c].origin = o}
           pages == Of(o, "login") \cup Of(o, "consent")
           past == {r \in Reqs : Holds(r, o)}
<1>1. \A c, d \in minted : c = d
  BY DEF IInv, Exclusive
<1>2. \A q, r \in past : q = r
  BY DEF IInv, Exclusive, Holds, Past, Origin
<1>3. \A c \in minted, r \in past : FALSE
  BY DEF IInv, Exclusive, Holds, Past, Origin
<1>4. \A c, d \in Of(o, "consent") : c = d
  BY DEF IInv, Exclusive, Of
<1>5. ASSUME NEW c \in minted, NEW ch \in pages
      PROVE  challenges[ch].decided /\ ~Refused(ch)
  <2>1. c \in DOMAIN codes /\ codes[c].origin = o
    OBVIOUS
  <2>2. CASE ch \in Of(o, "login")
    <3>1. ch = o
      BY <2>2 DEF Of, IInv, RowOK
    <3> QED
      BY <2>1, <3>1, BehindACode DEF Refused
  <2>3. CASE ch \in Of(o, "consent")
    <3>1. PICK x \in Of(o, "consent") :
             challenges[x].granted = codes[c].scopes /\ challenges[x].decided
      BY <2>1, BehindACode
    <3>2. codes[c].scopes # {} /\ ch = x
      BY <1>4, <2>1, <2>3, BehindACode
    <3> QED
      BY <3>1, <3>2 DEF Refused
  <2> QED
    BY <2>2, <2>3
<1>6. Cardinality(Of(o, "consent")) \in {0, 1}
  BY <1>4, AtMostOne
<1>7. Cardinality(minted) + Cardinality(past) <= 1
  <2>1. /\ Cardinality(minted) \in {0, 1} /\ (Cardinality(minted) = 1 => minted # {})
        /\ Cardinality(past) \in {0, 1} /\ (Cardinality(past) = 1 => past # {})
    <3> HIDE DEF minted, past
    <3> QED
      BY <1>1, <1>2, AtMostOne
  <2>2. minted = {} \/ past = {}
    BY <1>3
  <2> HIDE DEF minted, past
  <2> QED
    BY <2>1, <2>2
<1> QED
  BY <1>5, <1>6, <1>7

(* However often the pages of a request are opened, answered and refused at  *)
(* once, it leads to one consent page and one code at most, and to none once *)
(* a page was refused: DecideChallenge is the only arbiter needed.           *)
THEOREM OneOutcomePerRequest == Spec => []OneOutcome
  BY OneOutcomeHolds, Inductive, PTL

LEMMA CodeMatchesHolds == IInv => CodeMatchesPages
<1> SUFFICES ASSUME IInv, NEW c \in DOMAIN codes
             PROVE  LET row == codes[c]
                        login == challenges[row.origin]
                    IN  /\ login.kind = "login" /\ login.subject = row.subject
                        /\ login.client = row.client
                        /\ row.scopes # {} /\ row.scopes \subseteq login.requested
                        /\ row.scopes \subseteq Allowed[row.client]
                        /\ \E ch \in Of(row.origin, "consent") :
                              /\ challenges[ch].subject = row.subject
                              /\ challenges[ch].granted = row.scopes
  BY DEF CodeMatchesPages
<1> QED
  BY BehindACode

(* The citizen in a code answered both of its pages, and its scopes were     *)
(* asked for at the start.                                                   *)
THEOREM CodesMatchTheirPages == Spec => []CodeMatchesPages
  BY CodeMatchesHolds, Inductive, PTL

(* A consent page is skipped only for what the citizen once granted.         *)
THEOREM SkippedPagesWereEarned == Spec => []SkipWasEarned
<1>1. IInv => SkipWasEarned
  BY DEF IInv, RowOK, Earned, SkipWasEarned
<1> QED
  BY <1>1, Inductive, PTL

(* No code is minted before its consent was saved.                           *)
THEOREM SavedBeforeMinted == Spec => []CodeWasAgreed
<1>1. IInv => CodeWasAgreed
  BY DEF IInv, CodeOK, CodeWasAgreed
<1> QED
  BY <1>1, Inductive, PTL

=============================================================================
