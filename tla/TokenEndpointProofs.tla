------------------------- MODULE TokenEndpointProofs -------------------------
(* Machine-checked theorems about TokenEndpoint, for every number of codes,  *)
(* tokens, families, clients, citizens and requests in flight.               *)
EXTENDS TokenEndpoint, TLAPS

-----------------------------------------------------------------------------
(* Tables.                                                                   *)

LEMMA PutType ==
    ASSUME NEW K, NEW V, NEW t, IsTable(t, K, V), NEW k \in K, NEW v \in V
    PROVE  IsTable(Put(t, k, v), K, V)
  BY DEF IsTable, Put

LEMMA DropType ==
    ASSUME NEW K, NEW V, NEW t, IsTable(t, K, V), NEW k
    PROVE  IsTable(Drop(t, k), K, V)
  BY DEF IsTable, Drop

LEMMA RevokeRefreshType ==
    ASSUME IsTable(refresh, RTokens, RefreshRow), NEW hit
    PROVE  /\ IsTable(Revoke(refresh, hit), RTokens, RefreshRow)
           /\ DOMAIN Revoke(refresh, hit) = DOMAIN refresh
  BY DEF IsTable, Revoke, RefreshRow

LEMMA RevokeAccessType ==
    ASSUME IsTable(access, ATokens, AccessRow), NEW hit
    PROVE  /\ IsTable(Revoke(access, hit), ATokens, AccessRow)
           /\ DOMAIN Revoke(access, hit) = DOMAIN access
  BY DEF IsTable, Revoke, AccessRow

-----------------------------------------------------------------------------
(* The type invariant.                                                       *)

LEMMA TypeInit == Init => TypeOK
  BY DEF Init, TypeOK, IsTable

LEMMA StoringJob ==
    ASSUME TypeOK, NEW r, At(r, "store")
    PROVE  reqs[r] \in Storing
  BY DEF TypeOK, IsTable, At, Job, Authed, Storing, Sweeping, Closing, Replying

LEMMA AuthedJob ==
    ASSUME TypeOK, NEW r, At(r, "authed")
    PROVE  reqs[r] \in Authed
  BY DEF TypeOK, IsTable, At, Job, Authed, Storing, Sweeping, Closing, Replying

LEMMA OtherJobs ==
    ASSUME TypeOK, NEW r
    PROVE  /\ At(r, "sweep") => reqs[r] \in Sweeping
           /\ At(r, "close") => reqs[r] \in Closing
           /\ At(r, "reply") => reqs[r] \in Replying
  BY DEF TypeOK, IsTable, At, Job, Authed, Storing, Sweeping, Closing, Replying

(* What it takes for a step to preserve the types: tables keep their columns *)
(* and never shrink, and a request it moves on names rows that exist.        *)
LEMMA TypeStep ==
    ASSUME TypeOK,
           IsTable(codes', Codes, CodeRow), DOMAIN codes \subseteq DOMAIN codes',
           IsTable(refresh', RTokens, RefreshRow), DOMAIN refresh \subseteq DOMAIN refresh',
           IsTable(access', ATokens, AccessRow), DOMAIN access \subseteq DOMAIN access',
           expired' \subseteq DOMAIN codes' \cup DOMAIN refresh' \cup DOMAIN access',
           enabled' \subseteq Clients,
           held' \subseteq DOMAIN refresh' \cup DOMAIN access',
           \/ reqs' = reqs
           \/ \E r \in Reqs : reqs' = Drop(reqs, r)
           \/ \E r \in Reqs, job \in Job : RowsExist(job)' /\ reqs' = Put(reqs, r, job)
    PROVE  TypeOK'
<1>1. IsTable(reqs', Reqs, Job)
  BY PutType, DropType DEF TypeOK
<1>2. ASSUME NEW q \in DOMAIN reqs' PROVE RowsExist(reqs[q])'
  <2>1. CASE q \in DOMAIN reqs /\ reqs'[q] = reqs[q]
    <3>1. RowsExist(reqs[q])
      BY <2>1 DEF TypeOK
    <3> QED
      BY <2>1, <3>1 DEF RowsExist
  <2>2. ASSUME NEW job \in Job, RowsExist(job)', reqs' = Put(reqs, q, job)
        PROVE  RowsExist(reqs[q])'
    <3>1. reqs'[q] = job
      BY <2>2 DEF Put
    <3> QED
      BY <3>1, <2>2 DEF RowsExist
  <2>3. CASE reqs' = reqs
    BY <2>1, <2>3
  <2>4. CASE \E r \in Reqs : reqs' = Drop(reqs, r)
    BY <2>1, <2>4 DEF Drop
  <2>5. CASE \E r \in Reqs, job \in Job : RowsExist(job)' /\ reqs' = Put(reqs, r, job)
    BY <2>1, <2>2, <2>5 DEF Put
  <2> QED
    BY <2>3, <2>4, <2>5
<1> QED
  BY <1>1, <1>2 DEF TypeOK

(* One lemma per action.                                                     *)

LEMMA TypeCreateCode ==
    ASSUME TypeOK, NEW c \in Codes, NEW cl \in Clients, NEW s \in Subjects,
           NEW g \in SUBSET Scopes, CreateCode(c, cl, s, g)
    PROVE  TypeOK'
<1>1. [client |-> cl, subject |-> s, scopes |-> g, used |-> FALSE, swept |-> FALSE] \in CodeRow
  BY DEF CodeRow
<1>2. IsTable(codes', Codes, CodeRow)
  BY <1>1, PutType DEF TypeOK, CreateCode
<1>3. DOMAIN codes \subseteq DOMAIN codes'
  BY DEF CreateCode, Put
<1> QED
  BY <1>2, <1>3, TypeStep DEF TypeOK, CreateCode

(* A step that moves request r on, or ends it, and writes no table.          *)
LEMMA TypeJobOnly ==
    ASSUME TypeOK, NEW r \in Reqs,
           UNCHANGED <<codes, refresh, access, expired, enabled, held>>,
           \/ reqs' = Drop(reqs, r)
           \/ \E job \in Job : RowsExist(job) /\ reqs' = Put(reqs, r, job)
    PROVE  TypeOK'
<1>1. ASSUME NEW job, RowsExist(job) PROVE RowsExist(job)'
  BY <1>1 DEF RowsExist
<1> QED
  BY <1>1, TypeStep DEF TypeOK

LEMMA TypeAuthenticateClient ==
    ASSUME TypeOK, NEW r \in Reqs, NEW cl \in Clients,
           NEW input \in Codes \cup RTokens \cup {None}, AuthenticateClient(r, cl, input)
    PROVE  TypeOK'
<1> DEFINE job == [at |-> "authed", client |-> cl, input |-> input]
<1>1. job \in Job
  BY DEF Job, Authed
<1>2. RowsExist(job)
  BY KeyAssumption DEF RowsExist, AuthenticateClient, TypeOK, IsTable
<1> QED
  BY <1>1, <1>2, TypeJobOnly DEF AuthenticateClient

(* The code an authenticated request presents is a row of the table, and so  *)
(* is its refresh token.                                                     *)
LEMMA InputRow ==
    ASSUME TypeOK, NEW r, At(r, "authed")
    PROVE  /\ r \in Reqs /\ reqs[r].client \in Clients
           /\ reqs[r].input \in Codes =>
                reqs[r].input \in DOMAIN codes /\ codes[reqs[r].input] \in CodeRow
           /\ reqs[r].input \in RTokens =>
                reqs[r].input \in DOMAIN refresh /\ refresh[reqs[r].input] \in RefreshRow
<1>1. reqs[r] \in Authed /\ RowsExist(reqs[r]) /\ r \in DOMAIN reqs
  BY AuthedJob DEF At, TypeOK
<1> QED
  BY <1>1, KeyAssumption DEF TypeOK, IsTable, RowsExist, Authed

LEMMA TypeExchangeCode ==
    ASSUME TypeOK, NEW r \in Reqs, NEW proof \in BOOLEAN, ExchangeCode(r, proof)
    PROVE  TypeOK'
<1> DEFINE c == reqs[r].input
           job == [at |-> "store", client |-> reqs[r].client, subject |-> codes[c].subject,
                   scopes |-> codes[c].scopes, code |-> c, family |-> None]
<1>1. /\ c \in Codes /\ c \in DOMAIN codes /\ codes[c] \in CodeRow
      /\ reqs[r].client \in Clients
      /\ codes' = [codes EXCEPT ![c].used = TRUE]
  BY InputRow DEF ExchangeCode, Fresh
<1>2. IsTable(codes', Codes, CodeRow) /\ DOMAIN codes' = DOMAIN codes
  BY <1>1 DEF TypeOK, IsTable, CodeRow
<1>3. job \in Job /\ \A j : j = job => RowsExist(j)'
  BY <1>1 DEF Job, Storing, CodeRow, RowsExist
<1>4. \/ reqs' = Drop(reqs, r)
      \/ reqs' = Put(reqs, r, job)
  BY DEF ExchangeCode, Fresh
<1> HIDE DEF job
<1> QED
  BY <1>2, <1>3, <1>4, TypeStep DEF TypeOK, ExchangeCode, Fresh

LEMMA TypeReplayCode ==
    ASSUME TypeOK, NEW r \in Reqs, ReplayCode(r)
    PROVE  TypeOK'
<1> DEFINE c == reqs[r].input
           job == [at |-> "sweep", client |-> codes[c].client,
                   subject |-> codes[c].subject, code |-> c]
<1>1. c \in Codes /\ c \in DOMAIN codes /\ codes[c] \in CodeRow
  BY InputRow DEF ReplayCode
<1>2. job \in Job /\ RowsExist(job)
  BY <1>1 DEF Job, Sweeping, CodeRow, RowsExist
<1> QED
  BY <1>2, TypeJobOnly DEF ReplayCode

LEMMA TypeReuseRefresh ==
    ASSUME TypeOK, NEW r \in Reqs, ReuseRefresh(r)
    PROVE  TypeOK'
<1> DEFINE job == [at |-> "close", family |-> refresh[reqs[r].input].family]
<1>1. refresh[reqs[r].input] \in RefreshRow
  BY InputRow DEF ReuseRefresh
<1>2. job \in Job /\ RowsExist(job)
  BY <1>1 DEF Job, Closing, RefreshRow, RowsExist
<1> QED
  BY <1>2, TypeJobOnly DEF ReuseRefresh

LEMMA TypeRotateRefresh ==
    ASSUME TypeOK, NEW r \in Reqs, NEW asked \in SUBSET Scopes, RotateRefresh(r, asked)
    PROVE  TypeOK'
<1> DEFINE t == reqs[r].input
           closing == [at |-> "close", family |-> refresh[t].family]
           job == [at |-> "store", client |-> reqs[r].client,
                   subject |-> refresh[t].subject,
                   scopes |-> Narrow(refresh[t].scopes, asked),
                   code |-> refresh[t].code, family |-> refresh[t].family]
<1>1. /\ t \in RTokens /\ t \in DOMAIN refresh /\ refresh[t] \in RefreshRow
      /\ reqs[r].client \in Clients
      /\ refresh' = [refresh EXCEPT ![t].consumed = TRUE]
  BY InputRow DEF RotateRefresh, Rotatable
<1>2. IsTable(refresh', RTokens, RefreshRow) /\ DOMAIN refresh' = DOMAIN refresh
  BY <1>1 DEF TypeOK, IsTable, RefreshRow
<1>3. closing \in Job /\ \A j : j = closing => RowsExist(j)'
  BY <1>1 DEF Job, Closing, RefreshRow, RowsExist
<1>4. job \in Job /\ \A j : j = job => RowsExist(j)'
  <2>1. Narrow(refresh[t].scopes, asked) \in SUBSET Scopes
    BY <1>1 DEF Narrow, RefreshRow
  <2> QED
    BY <1>1, <2>1 DEF Job, Storing, RefreshRow, RowsExist
<1>5. \/ reqs' = Drop(reqs, r)
      \/ reqs' = Put(reqs, r, closing)
      \/ reqs' = Put(reqs, r, job)
  BY DEF RotateRefresh, Rotatable
<1> HIDE DEF job, closing
<1> QED
  BY <1>2, <1>3, <1>4, <1>5, TypeStep DEF TypeOK, RotateRefresh, Rotatable

LEMMA TypeClientCredentials ==
    ASSUME TypeOK, NEW r \in Reqs, NEW asked \in SUBSET Scopes, ClientCredentials(r, asked)
    PROVE  TypeOK'
<1> DEFINE s == Narrow(Allowed[reqs[r].client], asked)
           job == [at |-> "store", client |-> reqs[r].client, subject |-> None,
                   scopes |-> s, code |-> None, family |-> None]
<1>1. reqs[r].client \in Clients
  BY InputRow DEF ClientCredentials
<1>2. s \in SUBSET Scopes
  BY <1>1, ClientAssumption DEF Narrow
<1>3. job \in Job /\ RowsExist(job)
  BY <1>1, <1>2 DEF Job, Storing, RowsExist
<1> QED
  BY <1>3, TypeJobOnly DEF ClientCredentials

LEMMA TypeStoreTokens ==
    ASSUME TypeOK, NEW r \in Reqs, NEW a \in ATokens, NEW t \in RTokens \cup {None},
           NEW f \in Families \cup {None}, StoreTokens(r, a, t, f)
    PROVE  TypeOK'
<1> DEFINE job == reqs[r]
           arow == [family |-> f, client |-> job.client, subject |-> job.subject,
                    scopes |-> job.scopes, revoked |-> FALSE, code |-> job.code]
           rrow == [family |-> f, client |-> job.client, subject |-> job.subject,
                    scopes |-> job.scopes, consumed |-> FALSE, revoked |-> FALSE,
                    code |-> job.code]
           next == [at |-> "reply", tokens |-> {a, t} \ {None}]
<1>1. job \in Storing
  BY StoringJob DEF StoreTokens, FamilyFor
<1>2. IsTable(access', ATokens, AccessRow) /\ DOMAIN access' = DOMAIN access \cup {a}
  <2>1. arow \in AccessRow
    BY <1>1 DEF Storing, AccessRow
  <2>2. access' = Put(access, a, arow)
    BY DEF StoreTokens, FamilyFor
  <2> HIDE DEF arow
  <2>3. IsTable(Put(access, a, arow), ATokens, AccessRow)
    BY <2>1, PutType DEF TypeOK
  <2> QED
    BY <2>2, <2>3 DEF Put
<1>3. IsTable(refresh', RTokens, RefreshRow) /\ DOMAIN refresh \subseteq DOMAIN refresh'
  <2>1. CASE WantRefresh(job)
    <3>1. t \in RTokens /\ refresh' = Put(refresh, t, rrow)
      BY <2>1 DEF StoreTokens, FamilyFor
    <3>2. job.code \in Codes /\ job.subject \in Subjects
          /\ job.family \in Families \cup {None}
      BY <1>1, <2>1 DEF Storing, WantRefresh
    <3>4. f \in Families
      BY <2>1, <3>2 DEF StoreTokens, FamilyFor
    <3>3. rrow \in RefreshRow
      BY <1>1, <3>2, <3>4 DEF Storing, RefreshRow
    <3> HIDE DEF rrow
    <3>5. IsTable(Put(refresh, t, rrow), RTokens, RefreshRow)
      BY <3>1, <3>3, PutType DEF TypeOK
    <3> QED
      BY <3>1, <3>5 DEF Put
  <2>2. CASE ~WantRefresh(job)
    BY <2>2 DEF StoreTokens, FamilyFor, TypeOK
  <2> QED
    BY <2>1, <2>2
<1>4. next \in Job /\ \A j : j = next => RowsExist(j)'
  <2>1. next.tokens \subseteq ATokens \cup RTokens
    OBVIOUS
  <2>2. t # None => t \in DOMAIN refresh'
    BY DEF StoreTokens, FamilyFor, Put
  <2>3. next \in Replying
    BY <2>1 DEF Replying
  <2>4. next.tokens \subseteq DOMAIN refresh' \cup DOMAIN access'
    BY <1>2, <2>2
  <2>5. \A j : j = next => RowsExist(j)'
    BY <2>4 DEF RowsExist
  <2> QED
    BY <2>3, <2>5 DEF Job
<1>5. reqs' = Put(reqs, r, next)
  BY DEF StoreTokens, FamilyFor
<1> HIDE DEF next
<1> QED
  BY <1>2, <1>3, <1>4, <1>5, TypeStep DEF TypeOK, StoreTokens, FamilyFor

LEMMA TypeReply ==
    ASSUME TypeOK, NEW r \in Reqs, Reply(r)
    PROVE  TypeOK'
<1>1. reqs[r].tokens \subseteq DOMAIN refresh \cup DOMAIN access
  BY DEF Reply, At, TypeOK, RowsExist
<1> QED
  BY <1>1, TypeStep DEF TypeOK, Reply

LEMMA TypeSweepTokens ==
    ASSUME TypeOK, NEW r \in Reqs, SweepTokens(r)
    PROVE  TypeOK'
<1> DEFINE c == reqs[r].code
<1>1. c \in DOMAIN codes /\ c \in Codes /\ codes[c] \in CodeRow
  BY DEF SweepTokens, At, TypeOK, IsTable, RowsExist
<1>2. codes' = [codes EXCEPT ![c].swept = TRUE]
  BY DEF SweepTokens
<1>3. IsTable(codes', Codes, CodeRow) /\ DOMAIN codes' = DOMAIN codes
  BY <1>1, <1>2 DEF TypeOK, IsTable, CodeRow
<1> QED
  BY <1>3, RevokeRefreshType, RevokeAccessType, TypeStep DEF TypeOK, SweepTokens

LEMMA TypeRevokeFamily ==
    ASSUME TypeOK, NEW f, RevokeFamily(f),
           UNCHANGED <<codes, expired, enabled, held>>,
           reqs' = reqs \/ \E r \in Reqs : reqs' = Drop(reqs, r)
    PROVE  TypeOK'
  BY RevokeRefreshType, RevokeAccessType, TypeStep DEF TypeOK, RevokeFamily

LEMMA TypeRevokeAccessToken ==
    ASSUME TypeOK, NEW cl \in Clients, NEW a \in ATokens, RevokeAccessToken(cl, a)
    PROVE  TypeOK'
  BY RevokeAccessType, TypeStep DEF TypeOK, RevokeAccessToken

LEMMA TypeExpire ==
    ASSUME TypeOK, NEW x, Expire(x)
    PROVE  TypeOK'
  BY TypeStep DEF TypeOK, Expire

LEMMA TypeSwitchClient ==
    ASSUME TypeOK, NEW cl \in Clients, SwitchClient(cl)
    PROVE  TypeOK'
  BY TypeStep DEF TypeOK, SwitchClient

LEMMA TypeRequestStep ==
    ASSUME TypeOK, NEW r \in Reqs, RequestStep(r)
    PROVE  TypeOK'
<1>1. ASSUME RefuseExpired(r) \/ Abandon(r) PROVE TypeOK'
  BY <1>1, TypeJobOnly DEF RefuseExpired, Abandon
<1>2. ASSUME CloseFamily(r) PROVE TypeOK'
  BY <1>2, TypeRevokeFamily DEF CloseFamily
<1> QED
  BY <1>1, <1>2, TypeAuthenticateClient, TypeExchangeCode, TypeReplayCode,
     TypeReuseRefresh, TypeRotateRefresh, TypeClientCredentials, TypeStoreTokens,
     TypeReply, TypeSweepTokens DEF RequestStep

LEMMA TypeNext == TypeOK /\ [Next]_vars => TypeOK'
<1> SUFFICES ASSUME TypeOK, [Next]_vars PROVE TypeOK'
  OBVIOUS
<1>1. CASE Next
  <2>1. ASSUME NEW cl \in Clients, NEW t \in RTokens, RevokeRefreshToken(cl, t)
        PROVE  TypeOK'
    BY <2>1, TypeRevokeFamily DEF RevokeRefreshToken
  <2> QED
    BY <1>1, <2>1, TypeCreateCode, TypeRequestStep, TypeRevokeAccessToken, TypeExpire,
       TypeSwitchClient DEF Next
<1>2. CASE UNCHANGED vars
  BY <1>2, TypeStep DEF vars, TypeOK
<1> QED
  BY <1>1, <1>2

(* Every reachable state is well typed: rows keep their columns, and every   *)
(* request in flight names rows that exist.                                  *)
THEOREM Typing == Spec => []TypeOK
  BY TypeInit, TypeNext, PTL DEF Spec

-----------------------------------------------------------------------------
(* One ticket per code.  TypeOK /\ OneTicket is inductive: the last conjuncts *)
(* of OneTicket (a ticket in a request or a row means a used code) are what  *)
(* makes the exchange of a fresh code safe.                                  *)

IInv == TypeOK /\ OneTicket

(* Steps that spend, revoke, expire or end something, and hand nobody the    *)
(* right to issue.                                                           *)
LEMMA TicketFrame ==
    ASSUME OneTicket,
           \A c \in DOMAIN codes : c \in DOMAIN codes' /\ (codes[c].used => codes'[c].used),
           DOMAIN refresh' = DOMAIN refresh,
           \A t \in DOMAIN refresh : refresh'[t].code = refresh[t].code /\ (Live(t)' => Live(t)),
           \A q \in DOMAIN reqs' : At(q, "store")' /\ reqs'[q].code # None =>
               At(q, "store") /\ reqs'[q] = reqs[q]
    PROVE  OneTicket'
<1>1. ASSUME NEW r \in DOMAIN reqs', At(r, "store")', reqs'[r].code # None
      PROVE  /\ reqs'[r].code \in DOMAIN codes' /\ codes'[reqs'[r].code].used
             /\ \A q \in DOMAIN reqs' :
                   At(q, "store")' /\ reqs'[q].code = reqs'[r].code => q = r
             /\ \A t \in DOMAIN refresh' : refresh'[t].code = reqs'[r].code => ~Live(t)'
  <2>1. r \in DOMAIN reqs /\ At(r, "store") /\ reqs'[r] = reqs[r]
    BY <1>1 DEF At
  <2>2. ASSUME NEW q \in DOMAIN reqs', At(q, "store")', reqs'[q].code = reqs'[r].code
        PROVE  q = r
    <3>1. q \in DOMAIN reqs /\ At(q, "store") /\ reqs'[q] = reqs[q]
      BY <1>1, <2>2 DEF At
    <3> QED
      BY <1>1, <2>1, <2>2, <3>1 DEF OneTicket
  <2> QED
    BY <1>1, <2>1, <2>2 DEF OneTicket
<1>2. ASSUME NEW t \in DOMAIN refresh'
      PROVE  /\ refresh'[t].code \in DOMAIN codes' /\ codes'[refresh'[t].code].used
             /\ \A u \in DOMAIN refresh' :
                   Live(t)' /\ Live(u)' /\ refresh'[u].code = refresh'[t].code => u = t
  BY DEF OneTicket
<1> QED
  BY <1>1, <1>2 DEF OneTicket

LEMMA TicketJobOnly ==
    ASSUME IInv, UNCHANGED <<codes, refresh>>, NEW r,
           \/ reqs' = reqs
           \/ reqs' = Drop(reqs, r)
           \/ \E job : (job.at # "store" \/ job.code = None) /\ reqs' = Put(reqs, r, job)
    PROVE  OneTicket'
<1>1. \A q \in DOMAIN reqs' : At(q, "store")' /\ reqs'[q].code # None =>
          At(q, "store") /\ reqs'[q] = reqs[q]
  BY DEF At, Put, Drop
<1>2. \A t : Live(t)' = Live(t)
  BY DEF Live
<1> QED
  BY <1>1, <1>2, TicketFrame DEF IInv

LEMMA TicketRevoke ==
    ASSUME IInv, NEW hit, refresh' = Revoke(refresh, hit),
           DOMAIN codes' = DOMAIN codes,
           \A c \in DOMAIN codes : codes'[c].used = codes[c].used,
           reqs' = reqs \/ \E r \in Reqs : reqs' = Drop(reqs, r)
    PROVE  OneTicket'
<1>1. DOMAIN refresh' = DOMAIN refresh
  BY DEF Revoke
<1>2. ASSUME NEW t \in DOMAIN refresh
      PROVE  refresh'[t].code = refresh[t].code /\ (Live(t)' => Live(t))
  <2>1. refresh[t] \in RefreshRow
    BY DEF IInv, TypeOK, IsTable
  <2>2. refresh'[t] = refresh[t] \/ refresh'[t] = [refresh[t] EXCEPT !.revoked = TRUE]
    BY DEF Revoke
  <2> QED
    BY <2>1, <2>2 DEF RefreshRow, Live
<1>3. \A q \in DOMAIN reqs' : At(q, "store")' /\ reqs'[q].code # None =>
          At(q, "store") /\ reqs'[q] = reqs[q]
  BY DEF At, Drop
<1> QED
  BY <1>1, <1>2, <1>3, TicketFrame DEF IInv

(* The exchange: nothing can descend from a code that was still unused.      *)
LEMMA TicketExchangeCode ==
    ASSUME IInv, NEW r \in Reqs, NEW proof \in BOOLEAN, ExchangeCode(r, proof)
    PROVE  OneTicket'
<1> DEFINE c == reqs[r].input
<1>1. /\ c \in Codes /\ c \in DOMAIN codes /\ codes[c] \in CodeRow /\ ~codes[c].used
      /\ codes' = [codes EXCEPT ![c].used = TRUE]
      /\ refresh' = refresh
  BY InputRow DEF ExchangeCode, Fresh, IInv
<1>2. /\ DOMAIN codes' = DOMAIN codes /\ codes'[c].used
      /\ \A d \in DOMAIN codes : codes[d].used => codes'[d].used
  BY <1>1 DEF CodeRow, IInv, TypeOK, IsTable
<1>3. \A t : Live(t)' = Live(t)
  BY <1>1 DEF Live
<1>4. \A q \in DOMAIN reqs : At(q, "store") => reqs[q].code # c
  BY <1>1, KeyAssumption DEF IInv, OneTicket
<1>5. \A t \in DOMAIN refresh : refresh[t].code # c
  BY <1>1 DEF IInv, OneTicket
<1>6. \A q \in DOMAIN reqs' : At(q, "store")' =>
          \/ At(q, "store") /\ reqs'[q] = reqs[q]
          \/ q = r /\ reqs'[q].code = c
  BY DEF ExchangeCode, Fresh, At, Put, Drop
<1>7. ASSUME NEW p \in DOMAIN reqs', At(p, "store")', reqs'[p].code # None
      PROVE  /\ reqs'[p].code \in DOMAIN codes' /\ codes'[reqs'[p].code].used
             /\ \A q \in DOMAIN reqs' :
                   At(q, "store")' /\ reqs'[q].code = reqs'[p].code => q = p
             /\ \A t \in DOMAIN refresh' : refresh'[t].code = reqs'[p].code => ~Live(t)'
  <2>1. CASE At(p, "store") /\ reqs'[p] = reqs[p]
    BY <1>1, <1>2, <1>3, <1>4, <1>6, <1>7, <2>1 DEF IInv, OneTicket, At
  <2>2. CASE p = r /\ reqs'[p].code = c
    BY <1>1, <1>2, <1>4, <1>5, <1>6, <2>2 DEF At
  <2> QED
    BY <1>6, <1>7, <2>1, <2>2
<1>8. ASSUME NEW t \in DOMAIN refresh'
      PROVE  /\ refresh'[t].code \in DOMAIN codes' /\ codes'[refresh'[t].code].used
             /\ \A u \in DOMAIN refresh' :
                   Live(t)' /\ Live(u)' /\ refresh'[u].code = refresh'[t].code => u = t
  BY <1>1, <1>2, <1>3 DEF IInv, OneTicket
<1> QED
  BY <1>7, <1>8 DEF OneTicket

(* The rotation: the ticket moves from the live token t to request r.        *)
LEMMA TicketRotateRefresh ==
    ASSUME IInv, NEW r \in Reqs, NEW asked \in SUBSET Scopes, RotateRefresh(r, asked)
    PROVE  OneTicket'
<1> DEFINE t == reqs[r].input
           c == refresh[t].code
<1>1. /\ t \in DOMAIN refresh /\ refresh[t] \in RefreshRow /\ Live(t)
      /\ refresh' = [refresh EXCEPT ![t].consumed = TRUE]
      /\ codes' = codes
  BY InputRow DEF RotateRefresh, Rotatable, IInv
<1>2. /\ DOMAIN refresh' = DOMAIN refresh
      /\ \A u \in DOMAIN refresh : refresh'[u].code = refresh[u].code
      /\ \A u \in DOMAIN refresh : Live(u)' <=> Live(u) /\ u # t
  <2>1. \A u \in DOMAIN refresh : refresh[u] \in RefreshRow
    BY DEF IInv, TypeOK, IsTable
  <2> QED
    BY <1>1, <2>1 DEF RefreshRow, Live
<1>3. c \in DOMAIN codes /\ codes[c].used
  BY <1>1 DEF IInv, OneTicket
<1>4. \A q \in DOMAIN reqs : At(q, "store") /\ reqs[q].code # None => reqs[q].code # c
  BY <1>1 DEF IInv, OneTicket
<1>5. \A u \in DOMAIN refresh : refresh[u].code = c /\ Live(u) => u = t
  BY <1>1 DEF IInv, OneTicket
<1>6. \A q \in DOMAIN reqs' : At(q, "store")' =>
          \/ At(q, "store") /\ reqs'[q] = reqs[q]
          \/ q = r /\ reqs'[q].code = c
  BY DEF RotateRefresh, Rotatable, At, Put, Drop
<1>7. ASSUME NEW p \in DOMAIN reqs', At(p, "store")', reqs'[p].code # None
      PROVE  /\ reqs'[p].code \in DOMAIN codes' /\ codes'[reqs'[p].code].used
             /\ \A q \in DOMAIN reqs' :
                   At(q, "store")' /\ reqs'[q].code = reqs'[p].code => q = p
             /\ \A u \in DOMAIN refresh' : refresh'[u].code = reqs'[p].code => ~Live(u)'
  <2>1. CASE At(p, "store") /\ reqs'[p] = reqs[p]
    BY <1>1, <1>2, <1>4, <1>6, <1>7, <2>1 DEF IInv, OneTicket, At
  <2>2. CASE p = r /\ reqs'[p].code = c
    BY <1>1, <1>2, <1>3, <1>4, <1>5, <1>6, <1>7, <2>2 DEF At
  <2> QED
    BY <1>6, <1>7, <2>1, <2>2
<1>8. ASSUME NEW u \in DOMAIN refresh'
      PROVE  /\ refresh'[u].code \in DOMAIN codes' /\ codes'[refresh'[u].code].used
             /\ \A v \in DOMAIN refresh' :
                   Live(u)' /\ Live(v)' /\ refresh'[v].code = refresh'[u].code => v = u
  BY <1>1, <1>2 DEF IInv, OneTicket
<1> QED
  BY <1>7, <1>8 DEF OneTicket

(* StoreTokens: the ticket moves from request r to the new refresh token t,  *)
(* or is gone.                                                               *)
LEMMA TicketStoreTokens ==
    ASSUME IInv, NEW r \in Reqs, NEW a \in ATokens, NEW t \in RTokens \cup {None},
           NEW f \in Families \cup {None}, StoreTokens(r, a, t, f)
    PROVE  OneTicket'
<1> DEFINE c == reqs[r].code
<1>1. codes' = codes /\ At(r, "store")
  BY DEF StoreTokens, FamilyFor
<1>2. \A q \in DOMAIN reqs' : At(q, "store")' =>
          q # r /\ At(q, "store") /\ reqs'[q] = reqs[q]
  BY DEF StoreTokens, FamilyFor, At, Put
<1>3. CASE ~WantRefresh(reqs[r])
  <2>1. refresh' = refresh
    BY <1>3 DEF StoreTokens, FamilyFor
  <2>2. \A u : Live(u)' = Live(u)
    BY <2>1 DEF Live
  <2> QED
    BY <1>1, <1>2, <2>1, <2>2, TicketFrame DEF IInv
<1>4. CASE WantRefresh(reqs[r])
  <2>1. c # None /\ c \in DOMAIN codes /\ codes[c].used
    BY <1>1, <1>4 DEF WantRefresh, IInv, OneTicket, At
  <2>2. /\ t \notin DOMAIN refresh /\ DOMAIN refresh' = DOMAIN refresh \cup {t}
        /\ refresh'[t].code = c
        /\ \A u \in DOMAIN refresh : refresh'[u] = refresh[u]
    BY <1>4 DEF StoreTokens, FamilyFor, Put
  <2>3. \A u \in DOMAIN refresh : Live(u)' = Live(u)
    BY <2>2 DEF Live
  <2>4. \A u \in DOMAIN refresh : refresh[u].code = c => ~Live(u)
    BY <1>1, <2>1 DEF IInv, OneTicket, At
  <2>5. \A q \in DOMAIN reqs' : At(q, "store")' => reqs'[q].code # c
    BY <1>1, <1>2, <2>1 DEF IInv, OneTicket, At
  <2>6. ASSUME NEW p \in DOMAIN reqs', At(p, "store")', reqs'[p].code # None
        PROVE  /\ reqs'[p].code \in DOMAIN codes' /\ codes'[reqs'[p].code].used
               /\ \A q \in DOMAIN reqs' :
                     At(q, "store")' /\ reqs'[q].code = reqs'[p].code => q = p
               /\ \A u \in DOMAIN refresh' : refresh'[u].code = reqs'[p].code => ~Live(u)'
    BY <1>1, <1>2, <2>2, <2>3, <2>5, <2>6 DEF IInv, OneTicket, At
  <2>7. ASSUME NEW u \in DOMAIN refresh'
        PROVE  /\ refresh'[u].code \in DOMAIN codes' /\ codes'[refresh'[u].code].used
               /\ \A v \in DOMAIN refresh' :
                     Live(u)' /\ Live(v)' /\ refresh'[v].code = refresh'[u].code => v = u
    BY <1>1, <2>1, <2>2, <2>3, <2>4 DEF IInv, OneTicket
  <2> QED
    BY <2>6, <2>7 DEF OneTicket
<1> QED
  BY <1>3, <1>4

LEMMA TicketCreateCode ==
    ASSUME IInv, NEW c \in Codes, NEW cl \in Clients, NEW s \in Subjects,
           NEW g \in SUBSET Scopes, CreateCode(c, cl, s, g)
    PROVE  OneTicket'
<1>1. \A d \in DOMAIN codes : d \in DOMAIN codes' /\ (codes[d].used => codes'[d].used)
  BY DEF CreateCode, Put
<1>2. UNCHANGED <<refresh, reqs>>
  BY DEF CreateCode
<1>3. (\A t : Live(t)' = Live(t)) /\ (\A q : At(q, "store")' = At(q, "store"))
  BY <1>2 DEF Live, At
<1> QED
  BY <1>1, <1>2, <1>3, TicketFrame DEF IInv

LEMMA TicketRequestStep ==
    ASSUME IInv, NEW r \in Reqs, RequestStep(r)
    PROVE  OneTicket'
<1>1. ASSUME NEW cl \in Clients, NEW input \in Codes \cup RTokens \cup {None},
             AuthenticateClient(r, cl, input)
      PROVE  OneTicket'
  BY <1>1, TicketJobOnly DEF AuthenticateClient
<1>2. ASSUME ReplayCode(r) \/ ReuseRefresh(r) \/ RefuseExpired(r) \/ Reply(r) \/ Abandon(r)
      PROVE  OneTicket'
  BY <1>2, TicketJobOnly DEF ReplayCode, ReuseRefresh, RefuseExpired, Reply, Abandon
<1>3. ASSUME NEW asked \in SUBSET Scopes, ClientCredentials(r, asked)
      PROVE  OneTicket'
  BY <1>3, TicketJobOnly DEF ClientCredentials
<1>4. ASSUME SweepTokens(r)
      PROVE  OneTicket'
  <2>1. reqs[r].code \in DOMAIN codes
    BY <1>4 DEF SweepTokens, At, IInv, TypeOK, RowsExist
  <2>2. codes' = [codes EXCEPT ![reqs[r].code].swept = TRUE]
    BY <1>4 DEF SweepTokens
  <2>3. /\ DOMAIN codes' = DOMAIN codes
        /\ \A c \in DOMAIN codes : codes'[c].used = codes[c].used
    <3>1. \A c \in DOMAIN codes : codes[c] \in CodeRow
      BY DEF IInv, TypeOK, IsTable
    <3> QED
      BY <2>1, <2>2, <3>1 DEF CodeRow
  <2> QED
    BY <1>4, <2>3, TicketRevoke DEF SweepTokens
<1>5. ASSUME CloseFamily(r)
      PROVE  OneTicket'
  BY <1>5, TicketRevoke DEF CloseFamily, RevokeFamily
<1> QED
  BY <1>1, <1>2, <1>3, <1>4, <1>5, TicketExchangeCode, TicketRotateRefresh,
     TicketStoreTokens DEF RequestStep

LEMMA TicketNext == IInv /\ [Next]_vars => OneTicket'
<1> SUFFICES ASSUME IInv, [Next]_vars PROVE OneTicket'
  OBVIOUS
<1>1. CASE Next
  <2>1. ASSUME NEW cl \in Clients, NEW a \in ATokens, RevokeAccessToken(cl, a)
        PROVE  OneTicket'
    BY <2>1, TicketJobOnly DEF RevokeAccessToken
  <2>2. ASSUME NEW cl \in Clients, NEW t \in RTokens, RevokeRefreshToken(cl, t)
        PROVE  OneTicket'
    BY <2>2, TicketRevoke DEF RevokeRefreshToken, RevokeFamily
  <2>3. ASSUME NEW x, Expire(x)
        PROVE  OneTicket'
    BY <2>3, TicketJobOnly DEF Expire
  <2>4. ASSUME NEW cl \in Clients, SwitchClient(cl)
        PROVE  OneTicket'
    BY <2>4, TicketJobOnly DEF SwitchClient
  <2> QED
    BY <1>1, <2>1, <2>2, <2>3, <2>4, TicketCreateCode, TicketRequestStep DEF Next
<1>2. CASE UNCHANGED vars
  BY <1>2, TicketJobOnly DEF vars
<1> QED
  BY <1>1, <1>2

(* However requests, replays, rotations, revocations and crashes interleave, *)
(* a code is one right to issue tokens, in one place at a time.              *)
THEOREM SingleTicket == Spec => []OneTicket
<1>1. Init => IInv
  BY TypeInit DEF Init, IInv, OneTicket, At, Live
<1>2. IInv /\ [Next]_vars => IInv'
  BY TypeNext, TicketNext DEF IInv
<1>3. IInv => OneTicket
  BY DEF IInv
<1> QED
  BY <1>1, <1>2, <1>3, PTL DEF Spec

-----------------------------------------------------------------------------
(* Tokens keep to the consent they descend from.                             *)

(* What a carrier of the ticket says, against the codes before the step.     *)
Consented(row) == row.code \in DOMAIN codes /\ Descends(row)

(* It is enough that every row and request after the step agrees with the    *)
(* codes before it: codes never change what was consented to.                *)
LEMMA ConsentStep ==
    ASSUME \A c \in DOMAIN codes :
               /\ c \in DOMAIN codes'
               /\ codes'[c].client = codes[c].client
               /\ codes'[c].subject = codes[c].subject
               /\ codes'[c].scopes = codes[c].scopes,
           \A t \in DOMAIN refresh' : Consented(refresh'[t]),
           \A a \in DOMAIN access' : access'[a].code # None => Consented(access'[a]),
           \A q \in DOMAIN reqs' : At(q, "store")' /\ reqs'[q].code # None =>
               Consented(reqs'[q])
    PROVE  BoundToConsent'
  BY DEF BoundToConsent, Consented, Descends

(* A step that writes no code and no row, and gives nobody a ticket.         *)
LEMMA ConsentJobOnly ==
    ASSUME BoundToConsent, UNCHANGED <<codes, refresh, access>>, NEW r,
           \/ reqs' = reqs
           \/ reqs' = Drop(reqs, r)
           \/ \E job : (job.at # "store" \/ job.code = None) /\ reqs' = Put(reqs, r, job)
    PROVE  BoundToConsent'
<1>1. \A q \in DOMAIN reqs' : At(q, "store")' /\ reqs'[q].code # None =>
          At(q, "store") /\ reqs'[q] = reqs[q] /\ q \in DOMAIN reqs
  BY DEF At, Put, Drop
<1> QED
  BY <1>1, ConsentStep DEF BoundToConsent, Consented

LEMMA ConsentRevoke ==
    ASSUME TypeOK, BoundToConsent, NEW hitR, NEW hitA,
           refresh' = Revoke(refresh, hitR), access' = Revoke(access, hitA),
           DOMAIN codes' = DOMAIN codes,
           \A c \in DOMAIN codes : /\ codes'[c].client = codes[c].client
                                   /\ codes'[c].subject = codes[c].subject
                                   /\ codes'[c].scopes = codes[c].scopes,
           reqs' = reqs \/ \E r \in Reqs : reqs' = Drop(reqs, r)
    PROVE  BoundToConsent'
<1>1. ASSUME NEW t \in DOMAIN refresh' PROVE Consented(refresh'[t])
  <2>1. t \in DOMAIN refresh /\ refresh[t] \in RefreshRow
    BY DEF Revoke, TypeOK, IsTable
  <2>2. refresh'[t] = refresh[t] \/ refresh'[t] = [refresh[t] EXCEPT !.revoked = TRUE]
    BY <2>1 DEF Revoke
  <2> QED
    BY <2>1, <2>2 DEF RefreshRow, BoundToConsent, Consented, Descends
<1>2. ASSUME NEW a \in DOMAIN access', access'[a].code # None PROVE Consented(access'[a])
  <2>1. a \in DOMAIN access /\ access[a] \in AccessRow
    BY DEF Revoke, TypeOK, IsTable
  <2>2. access'[a] = access[a] \/ access'[a] = [access[a] EXCEPT !.revoked = TRUE]
    BY <2>1 DEF Revoke
  <2> QED
    BY <1>2, <2>1, <2>2 DEF AccessRow, BoundToConsent, Consented, Descends
<1>3. \A q \in DOMAIN reqs' : At(q, "store")' /\ reqs'[q].code # None =>
          At(q, "store") /\ reqs'[q] = reqs[q] /\ q \in DOMAIN reqs
  BY DEF At, Drop
<1> QED
  BY <1>1, <1>2, <1>3, ConsentStep DEF BoundToConsent, Consented

LEMMA ConsentExchangeCode ==
    ASSUME TypeOK, BoundToConsent, NEW r \in Reqs, NEW proof \in BOOLEAN,
           ExchangeCode(r, proof)
    PROVE  BoundToConsent'
<1> DEFINE c == reqs[r].input
<1>1. /\ c \in DOMAIN codes /\ codes' = [codes EXCEPT ![c].used = TRUE]
      /\ refresh' = refresh /\ access' = access
  BY InputRow DEF ExchangeCode, Fresh
<1>2. \A d \in DOMAIN codes :
          /\ d \in DOMAIN codes' /\ codes'[d].client = codes[d].client
          /\ codes'[d].subject = codes[d].subject /\ codes'[d].scopes = codes[d].scopes
  <2>1. \A d \in DOMAIN codes : codes[d] \in CodeRow
    BY DEF TypeOK, IsTable
  <2> QED
    BY <1>1, <2>1 DEF CodeRow
<1>3. ASSUME NEW q \in DOMAIN reqs', At(q, "store")', reqs'[q].code # None
      PROVE  Consented(reqs'[q])
  <2>1. CASE At(q, "store") /\ reqs'[q] = reqs[q]
    BY <1>3, <2>1 DEF BoundToConsent, Consented, At
  <2>2. CASE /\ q = r /\ codes[c].client = reqs[r].client
             /\ reqs'[q] = [at |-> "store", client |-> reqs[r].client,
                            subject |-> codes[c].subject, scopes |-> codes[c].scopes,
                            code |-> c, family |-> None]
    BY <1>1, <2>2 DEF Consented, Descends
  <2> QED
    BY <1>3, <2>1, <2>2 DEF ExchangeCode, Fresh, At, Put, Drop
<1> QED
  BY <1>1, <1>2, <1>3, ConsentStep DEF BoundToConsent, Consented

(* The rotation checks the presenting client and never widens the scopes.    *)
LEMMA ConsentRotateRefresh ==
    ASSUME TypeOK, BoundToConsent, NEW r \in Reqs, NEW asked \in SUBSET Scopes,
           RotateRefresh(r, asked)
    PROVE  BoundToConsent'
<1> DEFINE t == reqs[r].input
           s == Narrow(refresh[t].scopes, asked)
<1>1. /\ t \in DOMAIN refresh /\ refresh' = [refresh EXCEPT ![t].consumed = TRUE]
      /\ codes' = codes /\ access' = access
  BY InputRow DEF RotateRefresh, Rotatable
<1>2. ASSUME NEW u \in DOMAIN refresh' PROVE Consented(refresh'[u])
  <2>1. u \in DOMAIN refresh /\ refresh[u] \in RefreshRow
    BY <1>1 DEF TypeOK, IsTable
  <2>2. refresh'[u] = refresh[u] \/ refresh'[u] = [refresh[u] EXCEPT !.consumed = TRUE]
    BY <1>1, <2>1
  <2> QED
    BY <2>1, <2>2 DEF RefreshRow, BoundToConsent, Consented, Descends
<1>3. ASSUME NEW q \in DOMAIN reqs', At(q, "store")', reqs'[q].code # None
      PROVE  Consented(reqs'[q])
  <2>1. CASE At(q, "store") /\ reqs'[q] = reqs[q]
    BY <1>3, <2>1 DEF BoundToConsent, Consented, At
  <2>2. CASE /\ q = r /\ refresh[t].client = reqs[r].client
             /\ reqs'[q] = [at |-> "store", client |-> reqs[r].client,
                            subject |-> refresh[t].subject, scopes |-> s,
                            code |-> refresh[t].code, family |-> refresh[t].family]
    <3>1. s \subseteq refresh[t].scopes
      BY DEF Narrow
    <3> HIDE DEF s
    <3> QED
      BY <1>1, <2>2, <3>1 DEF BoundToConsent, Consented, Descends
  <2> QED
    BY <1>3, <2>1, <2>2 DEF RotateRefresh, Rotatable, At, Put, Drop
<1>4. \A b \in DOMAIN access' : access'[b].code # None => Consented(access'[b])
  BY <1>1 DEF BoundToConsent, Consented
<1> QED
  BY <1>1, <1>2, <1>3, <1>4, ConsentStep

LEMMA ConsentStoreTokens ==
    ASSUME TypeOK, BoundToConsent, NEW r \in Reqs, NEW a \in ATokens,
           NEW t \in RTokens \cup {None}, NEW f \in Families \cup {None},
           StoreTokens(r, a, t, f)
    PROVE  BoundToConsent'
<1>1. r \in DOMAIN reqs /\ (reqs[r].code # None => Consented(reqs[r]))
  BY DEF StoreTokens, FamilyFor, At, BoundToConsent, Consented
<1>2. ASSUME NEW u \in DOMAIN refresh' PROVE Consented(refresh'[u])
  <2>1. CASE u \in DOMAIN refresh /\ refresh'[u] = refresh[u]
    BY <2>1 DEF BoundToConsent, Consented
  <2>2. CASE /\ reqs[r].code # None /\ refresh'[u].code = reqs[r].code
             /\ refresh'[u].client = reqs[r].client
             /\ refresh'[u].subject = reqs[r].subject
             /\ refresh'[u].scopes = reqs[r].scopes
    BY <1>1, <2>2 DEF Consented, Descends
  <2> QED
    BY <2>1, <2>2 DEF StoreTokens, FamilyFor, Put, WantRefresh
<1>3. ASSUME NEW b \in DOMAIN access', access'[b].code # None PROVE Consented(access'[b])
  <2>1. CASE b \in DOMAIN access /\ access'[b] = access[b]
    BY <1>3, <2>1 DEF BoundToConsent, Consented
  <2>2. CASE /\ access'[b].code = reqs[r].code /\ access'[b].client = reqs[r].client
             /\ access'[b].subject = reqs[r].subject
             /\ access'[b].scopes = reqs[r].scopes
    BY <1>1, <1>3, <2>2 DEF Consented, Descends
  <2> QED
    BY <2>1, <2>2 DEF StoreTokens, FamilyFor, Put
<1>4. \A q \in DOMAIN reqs' : At(q, "store")' =>
          At(q, "store") /\ reqs'[q] = reqs[q] /\ q \in DOMAIN reqs
  BY DEF StoreTokens, FamilyFor, At, Put
<1>5. codes' = codes
  BY DEF StoreTokens, FamilyFor
<1> QED
  BY <1>2, <1>3, <1>4, <1>5, ConsentStep DEF BoundToConsent, Consented

LEMMA ConsentCreateCode ==
    ASSUME BoundToConsent, NEW c \in Codes, NEW cl \in Clients, NEW s \in Subjects,
           NEW g \in SUBSET Scopes, CreateCode(c, cl, s, g)
    PROVE  BoundToConsent'
<1>1. \A d \in DOMAIN codes : d \in DOMAIN codes' /\ codes'[d] = codes[d]
  BY DEF CreateCode, Put
<1>2. UNCHANGED <<refresh, access, reqs>>
  BY DEF CreateCode
<1> QED
  BY <1>1, <1>2, ConsentStep DEF BoundToConsent, Consented, At

LEMMA ConsentRequestStep ==
    ASSUME TypeOK, BoundToConsent, NEW r \in Reqs, RequestStep(r)
    PROVE  BoundToConsent'
<1>1. ASSUME NEW cl \in Clients, NEW input \in Codes \cup RTokens \cup {None},
             AuthenticateClient(r, cl, input)
      PROVE  BoundToConsent'
  BY <1>1, ConsentJobOnly DEF AuthenticateClient
<1>2. ASSUME ReplayCode(r) \/ ReuseRefresh(r) \/ RefuseExpired(r) \/ Reply(r) \/ Abandon(r)
      PROVE  BoundToConsent'
  BY <1>2, ConsentJobOnly DEF ReplayCode, ReuseRefresh, RefuseExpired, Reply, Abandon
<1>3. ASSUME NEW asked \in SUBSET Scopes, ClientCredentials(r, asked)
      PROVE  BoundToConsent'
  BY <1>3, ConsentJobOnly DEF ClientCredentials
<1>4. ASSUME SweepTokens(r)
      PROVE  BoundToConsent'
  <2>1. codes' = [codes EXCEPT ![reqs[r].code].swept = TRUE]
    BY <1>4 DEF SweepTokens
  <2>2. \A d \in DOMAIN codes : codes[d] \in CodeRow
    BY DEF TypeOK, IsTable
  <2>3. /\ DOMAIN codes' = DOMAIN codes
        /\ \A d \in DOMAIN codes : /\ codes'[d].client = codes[d].client
                                  /\ codes'[d].subject = codes[d].subject
                                  /\ codes'[d].scopes = codes[d].scopes
    BY <2>1, <2>2 DEF CodeRow
  <2> QED
    BY <1>4, <2>3, ConsentRevoke DEF SweepTokens
<1>5. ASSUME CloseFamily(r)
      PROVE  BoundToConsent'
  BY <1>5, ConsentRevoke DEF CloseFamily, RevokeFamily
<1> QED
  BY <1>1, <1>2, <1>3, <1>4, <1>5, ConsentExchangeCode, ConsentRotateRefresh,
     ConsentStoreTokens DEF RequestStep

LEMMA ConsentNext == TypeOK /\ BoundToConsent /\ [Next]_vars => BoundToConsent'
<1> SUFFICES ASSUME TypeOK, BoundToConsent, [Next]_vars PROVE BoundToConsent'
  OBVIOUS
<1>1. CASE Next
  <2>1. ASSUME NEW cl \in Clients, NEW a \in ATokens, RevokeAccessToken(cl, a)
        PROVE  BoundToConsent'
    <3>1. refresh' = Revoke(refresh, {})
      BY <2>1 DEF RevokeAccessToken, Revoke, TypeOK, IsTable
    <3> QED
      BY <2>1, <3>1, ConsentRevoke DEF RevokeAccessToken
  <2>2. ASSUME NEW cl \in Clients, NEW t \in RTokens, RevokeRefreshToken(cl, t)
        PROVE  BoundToConsent'
    BY <2>2, ConsentRevoke DEF RevokeRefreshToken, RevokeFamily
  <2>3. ASSUME NEW x, Expire(x)
        PROVE  BoundToConsent'
    BY <2>3, ConsentJobOnly DEF Expire
  <2>4. ASSUME NEW cl \in Clients, SwitchClient(cl)
        PROVE  BoundToConsent'
    BY <2>4, ConsentJobOnly DEF SwitchClient
  <2> QED
    BY <1>1, <2>1, <2>2, <2>3, <2>4, ConsentCreateCode, ConsentRequestStep DEF Next
<1>2. CASE UNCHANGED vars
  BY <1>2, ConsentJobOnly DEF vars
<1> QED
  BY <1>1, <1>2

(* No token, however many rotations and narrowings after the consent, is of  *)
(* another client or citizen, or carries a scope the citizen did not grant.  *)
THEOREM TokensBoundToConsent == Spec => []BoundToConsent
<1>1. Init => TypeOK /\ BoundToConsent
  BY TypeInit DEF Init, BoundToConsent, At
<1>2. TypeOK /\ BoundToConsent /\ [Next]_vars => TypeOK' /\ BoundToConsent'
  BY TypeNext, ConsentNext
<1> QED
  BY <1>1, <1>2, PTL DEF Spec
-----------------------------------------------------------------------------
(* Families are codes.                                                       *)

(* What a request holds, or an access token was given, of a family agrees    *)
(* with the refresh tokens there are: a family begins with the first refresh *)
(* token of its code.  Without it FamilyIsCode is not inductive: a stored    *)
(* token could continue a family of another code, or begin a second one.     *)
NoneUnder(c) == \A t \in DOMAIN refresh : refresh[t].code # c
SomeOf(f, c) == \E t \in DOMAIN refresh : refresh[t].family = f /\ refresh[t].code = c

Lineage ==
    /\ \A q \in DOMAIN reqs : At(q, "store") /\ reqs[q].code # None =>
          IF reqs[q].family = None THEN NoneUnder(reqs[q].code)
                                   ELSE SomeOf(reqs[q].family, reqs[q].code)
    /\ \A a \in DOMAIN access : access[a].family # None => SomeOf(access[a].family, access[a].code)
    /\ \A a \in DOMAIN access : access[a].code # None =>
          /\ access[a].code \in DOMAIN codes /\ codes[access[a].code].used
          /\ access[a].family = None =>
                /\ NoneUnder(access[a].code)
                /\ \A q \in DOMAIN reqs : At(q, "store") => reqs[q].code # access[a].code

FamilyInv == IInv /\ FamilyIsCode /\ Lineage

(* Steps that add no row and hand nobody a ticket: rows keep their family    *)
(* and their code.                                                           *)
LEMMA FamilyFrame ==
    ASSUME FamilyInv,
           \A c \in DOMAIN codes : c \in DOMAIN codes' /\ (codes[c].used => codes'[c].used),
           DOMAIN refresh' = DOMAIN refresh,
           \A t \in DOMAIN refresh :
               refresh'[t].code = refresh[t].code /\ refresh'[t].family = refresh[t].family,
           DOMAIN access' = DOMAIN access,
           \A a \in DOMAIN access :
               access'[a].code = access[a].code /\ access'[a].family = access[a].family,
           \A q \in DOMAIN reqs' : At(q, "store")' /\ reqs'[q].code # None =>
               At(q, "store") /\ reqs'[q] = reqs[q]
    PROVE  FamilyIsCode' /\ Lineage'
<1>1. FamilyIsCode'
  BY DEF FamilyInv, FamilyIsCode
<1>2. \A c : NoneUnder(c)' <=> NoneUnder(c)
  BY DEF NoneUnder
<1>3. \A f, c : SomeOf(f, c)' <=> SomeOf(f, c)
  BY DEF SomeOf
<1>4. ASSUME NEW q \in DOMAIN reqs', At(q, "store")', reqs'[q].code # None
      PROVE  IF reqs'[q].family = None THEN NoneUnder(reqs[q].code)'
                                       ELSE SomeOf(reqs[q].family, reqs[q].code)'
  BY <1>2, <1>3, <1>4 DEF FamilyInv, Lineage, At
<1>5. ASSUME NEW a \in DOMAIN access', access'[a].family # None
      PROVE  SomeOf(access[a].family, access[a].code)'
  BY <1>3, <1>5 DEF FamilyInv, Lineage
<1>6. ASSUME NEW a \in DOMAIN access', access'[a].code # None
      PROVE  /\ access'[a].code \in DOMAIN codes' /\ codes'[access'[a].code].used
             /\ access'[a].family = None =>
                   /\ NoneUnder(access[a].code)'
                   /\ \A q \in DOMAIN reqs' : At(q, "store")' => reqs'[q].code # access'[a].code
  BY <1>2, <1>6 DEF FamilyInv, Lineage, At
<1> QED
  BY <1>1, <1>4, <1>5, <1>6 DEF Lineage

LEMMA FamilyJobOnly ==
    ASSUME FamilyInv, UNCHANGED <<codes, refresh, access>>, NEW r,
           \/ reqs' = reqs
           \/ reqs' = Drop(reqs, r)
           \/ \E job : (job.at # "store" \/ job.code = None) /\ reqs' = Put(reqs, r, job)
    PROVE  FamilyIsCode' /\ Lineage'
<1>1. \A q \in DOMAIN reqs' : At(q, "store")' /\ reqs'[q].code # None =>
          At(q, "store") /\ reqs'[q] = reqs[q]
  BY DEF At, Put, Drop
<1> QED
  BY <1>1, FamilyFrame

LEMMA RevokeKeeps ==
    ASSUME TypeOK, NEW hit
    PROVE  /\ \A t \in DOMAIN refresh :
                 /\ Revoke(refresh, hit)[t].code = refresh[t].code
                 /\ Revoke(refresh, hit)[t].family = refresh[t].family
           /\ \A a \in DOMAIN access :
                 /\ Revoke(access, hit)[a].code = access[a].code
                 /\ Revoke(access, hit)[a].family = access[a].family
<1>1. ASSUME NEW t \in DOMAIN refresh
      PROVE  /\ Revoke(refresh, hit)[t].code = refresh[t].code
             /\ Revoke(refresh, hit)[t].family = refresh[t].family
  <2>1. refresh[t] \in RefreshRow
    BY DEF TypeOK, IsTable
  <2>2. \/ Revoke(refresh, hit)[t] = refresh[t]
        \/ Revoke(refresh, hit)[t] = [refresh[t] EXCEPT !.revoked = TRUE]
    BY DEF Revoke
  <2> QED
    BY <2>1, <2>2 DEF RefreshRow
<1>2. ASSUME NEW a \in DOMAIN access
      PROVE  /\ Revoke(access, hit)[a].code = access[a].code
             /\ Revoke(access, hit)[a].family = access[a].family
  <2>1. access[a] \in AccessRow
    BY DEF TypeOK, IsTable
  <2>2. \/ Revoke(access, hit)[a] = access[a]
        \/ Revoke(access, hit)[a] = [access[a] EXCEPT !.revoked = TRUE]
    BY DEF Revoke
  <2> QED
    BY <2>1, <2>2 DEF AccessRow
<1> QED
  BY <1>1, <1>2

LEMMA FamilyRevoke ==
    ASSUME FamilyInv, NEW hitR, NEW hitA,
           refresh' = Revoke(refresh, hitR), access' = Revoke(access, hitA),
           DOMAIN codes' = DOMAIN codes,
           \A c \in DOMAIN codes : codes'[c].used = codes[c].used,
           reqs' = reqs \/ \E r \in Reqs : reqs' = Drop(reqs, r)
    PROVE  FamilyIsCode' /\ Lineage'
<1>1. DOMAIN refresh' = DOMAIN refresh /\ DOMAIN access' = DOMAIN access
  BY DEF Revoke
<1>2. /\ \A t \in DOMAIN refresh :
            refresh'[t].code = refresh[t].code /\ refresh'[t].family = refresh[t].family
      /\ \A a \in DOMAIN access :
            access'[a].code = access[a].code /\ access'[a].family = access[a].family
  BY RevokeKeeps DEF FamilyInv, IInv
<1>3. \A q \in DOMAIN reqs' : At(q, "store")' /\ reqs'[q].code # None =>
          At(q, "store") /\ reqs'[q] = reqs[q]
  BY DEF At, Drop
<1> QED
  BY <1>1, <1>2, <1>3, FamilyFrame

(* The exchange: no row descends from the code, so the request holds no      *)
(* family.                                                                   *)
LEMMA FamilyExchangeCode ==
    ASSUME FamilyInv, NEW r \in Reqs, NEW proof \in BOOLEAN, ExchangeCode(r, proof)
    PROVE  FamilyIsCode' /\ Lineage'
<1> DEFINE c == reqs[r].input
<1>1. /\ c \in Codes /\ c \in DOMAIN codes /\ codes[c] \in CodeRow /\ ~codes[c].used
      /\ codes' = [codes EXCEPT ![c].used = TRUE]
      /\ refresh' = refresh /\ access' = access
  BY InputRow DEF ExchangeCode, Fresh, FamilyInv, IInv
<1>2. /\ DOMAIN codes' = DOMAIN codes
      /\ \A d \in DOMAIN codes : codes[d].used => codes'[d].used
  BY <1>1 DEF CodeRow, FamilyInv, IInv, TypeOK, IsTable
<1>3. NoneUnder(c) /\ \A a \in DOMAIN access : access[a].code # c
  BY <1>1, KeyAssumption DEF FamilyInv, IInv, OneTicket, Lineage, NoneUnder
<1>4. /\ \A d : NoneUnder(d)' <=> NoneUnder(d)
      /\ \A f, d : SomeOf(f, d)' <=> SomeOf(f, d)
  BY <1>1 DEF NoneUnder, SomeOf
<1>5. \A q \in DOMAIN reqs' : At(q, "store")' =>
          \/ At(q, "store") /\ reqs'[q] = reqs[q]
          \/ q = r /\ reqs'[q].code = c /\ reqs'[q].family = None
  BY DEF ExchangeCode, Fresh, At, Put, Drop
<1>6. FamilyIsCode'
  BY <1>1 DEF FamilyInv, FamilyIsCode
<1>7. ASSUME NEW q \in DOMAIN reqs', At(q, "store")', reqs'[q].code # None
      PROVE  IF reqs'[q].family = None THEN NoneUnder(reqs[q].code)'
                                       ELSE SomeOf(reqs[q].family, reqs[q].code)'
  BY <1>3, <1>4, <1>5, <1>7 DEF FamilyInv, Lineage, At
<1>8. ASSUME NEW a \in DOMAIN access', access'[a].family # None
      PROVE  SomeOf(access[a].family, access[a].code)'
  BY <1>1, <1>4, <1>8 DEF FamilyInv, Lineage
<1>9. ASSUME NEW a \in DOMAIN access', access'[a].code # None
      PROVE  /\ access'[a].code \in DOMAIN codes' /\ codes'[access'[a].code].used
             /\ access'[a].family = None =>
                   /\ NoneUnder(access[a].code)'
                   /\ \A q \in DOMAIN reqs' : At(q, "store")' => reqs'[q].code # access'[a].code
  BY <1>1, <1>2, <1>3, <1>4, <1>5, <1>9 DEF FamilyInv, Lineage, At
<1> QED
  BY <1>6, <1>7, <1>8, <1>9 DEF Lineage

(* The rotation: the request holds the family of the token it spent.         *)
LEMMA FamilyRotateRefresh ==
    ASSUME FamilyInv, NEW r \in Reqs, NEW asked \in SUBSET Scopes, RotateRefresh(r, asked)
    PROVE  FamilyIsCode' /\ Lineage'
<1> DEFINE t == reqs[r].input
           c == refresh[t].code
<1>1. /\ t \in DOMAIN refresh /\ refresh[t] \in RefreshRow
      /\ refresh' = [refresh EXCEPT ![t].consumed = TRUE]
      /\ codes' = codes /\ access' = access
  BY InputRow DEF RotateRefresh, Rotatable, FamilyInv, IInv
<1>2. /\ DOMAIN refresh' = DOMAIN refresh
      /\ \A u \in DOMAIN refresh :
            refresh'[u].code = refresh[u].code /\ refresh'[u].family = refresh[u].family
  <2>1. \A u \in DOMAIN refresh : refresh[u] \in RefreshRow
    BY DEF FamilyInv, IInv, TypeOK, IsTable
  <2> QED
    BY <1>1, <2>1 DEF RefreshRow
<1>3. refresh[t].family # None /\ SomeOf(refresh[t].family, c)
  BY <1>1, KeyAssumption DEF RefreshRow, SomeOf
<1>4. /\ \A d : NoneUnder(d)' <=> NoneUnder(d)
      /\ \A f, d : SomeOf(f, d)' <=> SomeOf(f, d)
  BY <1>2 DEF NoneUnder, SomeOf
<1>5. \A q \in DOMAIN reqs' : At(q, "store")' =>
          \/ At(q, "store") /\ reqs'[q] = reqs[q]
          \/ q = r /\ reqs'[q].code = c /\ reqs'[q].family = refresh[t].family
  BY DEF RotateRefresh, Rotatable, At, Put, Drop
<1>6. FamilyIsCode'
  BY <1>1, <1>2 DEF FamilyInv, FamilyIsCode
<1>7. ASSUME NEW q \in DOMAIN reqs', At(q, "store")', reqs'[q].code # None
      PROVE  IF reqs'[q].family = None THEN NoneUnder(reqs[q].code)'
                                       ELSE SomeOf(reqs[q].family, reqs[q].code)'
  BY <1>3, <1>4, <1>5, <1>7 DEF FamilyInv, Lineage, At
<1>8. ASSUME NEW a \in DOMAIN access', access'[a].family # None
      PROVE  SomeOf(access[a].family, access[a].code)'
  BY <1>1, <1>4, <1>8 DEF FamilyInv, Lineage
<1>9. ASSUME NEW a \in DOMAIN access', access'[a].code # None
      PROVE  /\ access'[a].code \in DOMAIN codes' /\ codes'[access'[a].code].used
             /\ access'[a].family = None =>
                   /\ NoneUnder(access[a].code)'
                   /\ \A q \in DOMAIN reqs' : At(q, "store")' => reqs'[q].code # access'[a].code
  BY <1>1, <1>4, <1>5, <1>9 DEF FamilyInv, Lineage, NoneUnder, At
<1> QED
  BY <1>6, <1>7, <1>8, <1>9 DEF Lineage

(* StoreTokens: a new family begins with the first refresh token of a code,  *)
(* and goes on with the later ones.                                          *)
LEMMA FamilyStoreTokens ==
    ASSUME FamilyInv, NEW r \in Reqs, NEW a \in ATokens, NEW t \in RTokens \cup {None},
           NEW f \in Families \cup {None}, StoreTokens(r, a, t, f)
    PROVE  FamilyIsCode' /\ Lineage'
<1> DEFINE c == reqs[r].code
           h == reqs[r].family
           News == {u \in {t} : WantRefresh(reqs[r])}
<1>1. /\ codes' = codes /\ r \in DOMAIN reqs /\ At(r, "store") /\ reqs[r] \in Storing
      /\ a \notin DOMAIN access /\ FamilyFor(reqs[r], f)
  BY StoringJob DEF StoreTokens, At, FamilyInv, IInv
<1>2. /\ DOMAIN access' = DOMAIN access \cup {a}
      /\ access'[a].family = f /\ access'[a].code = c
      /\ \A b \in DOMAIN access : access'[b] = access[b]
  BY <1>1 DEF StoreTokens, Put
<1>3. /\ News \cap DOMAIN refresh = {}
      /\ DOMAIN refresh' = DOMAIN refresh \cup News
      /\ \A u \in News : refresh'[u].family = f /\ refresh'[u].code = c
      /\ \A u \in DOMAIN refresh : refresh'[u] = refresh[u]
  BY DEF StoreTokens, Put
<1>4. \A q \in DOMAIN reqs' : At(q, "store")' =>
          q # r /\ q \in DOMAIN reqs /\ At(q, "store") /\ reqs'[q] = reqs[q]
  BY DEF StoreTokens, At, Put
<1>5. c # None => c \in DOMAIN codes /\ codes[c].used
  BY <1>1 DEF FamilyInv, IInv, OneTicket
<1>6. c = None => News = {} /\ h = None /\ f = None
  BY <1>1, KeyAssumption DEF WantRefresh, FamilyFor, Storing
<1>7. c # None /\ h = None => NoneUnder(c)
  BY <1>1 DEF FamilyInv, Lineage
<1>8. c # None /\ h # None => SomeOf(h, c) /\ f = h
  BY <1>1 DEF FamilyInv, Lineage, FamilyFor
<1>9. h = None /\ News # {} =>
          /\ f # None
          /\ \A u \in DOMAIN refresh : refresh[u].family # f
          /\ \A b \in DOMAIN access : access[b].family # f
  BY <1>1, KeyAssumption DEF FamilyFor, UsedFamilies
<1>10. h = None /\ News = {} => f = None
  BY <1>1 DEF FamilyFor
(* What the new tokens say of their family, against the tokens there were.   *)
<1>11. ASSUME c # None
       PROVE  /\ News # {} => /\ \A u \in DOMAIN refresh :
                                    (refresh[u].family = f) <=> (refresh[u].code = c)
                              /\ \A b \in DOMAIN access :
                                    (access[b].family = f) <=> (access[b].code = c)
              /\ \A u \in DOMAIN refresh : (refresh[u].family = f) <=> (refresh[u].code = c)
  <2>1. CASE h # None
    <3>1. PICK u \in DOMAIN refresh : refresh[u].family = f /\ refresh[u].code = c
      BY <1>8, <1>11, <2>1 DEF SomeOf
    <3> QED
      BY <3>1 DEF FamilyInv, FamilyIsCode
  <2>2. CASE h = None
    <3>1. NoneUnder(c)
      BY <1>7, <1>11, <2>2
    <3>2. \A b \in DOMAIN access : access[b].code = c =>
              access[b].family # None /\ SomeOf(access[b].family, c)
      BY <1>1, <1>11 DEF FamilyInv, Lineage
    <3>3. \A b \in DOMAIN access : access[b].code # c
      BY <3>1, <3>2 DEF NoneUnder, SomeOf
    <3>4. \A u \in DOMAIN refresh : refresh[u].family # f
      <4>1. \A u \in DOMAIN refresh : refresh[u].family # None
        BY KeyAssumption DEF FamilyInv, IInv, TypeOK, IsTable, RefreshRow
      <4> QED
        BY <1>9, <1>10, <2>2, <4>1
    <3> QED
      BY <1>9, <2>2, <3>1, <3>3, <3>4 DEF NoneUnder
  <2> QED
    BY <2>1, <2>2
<1>12. FamilyIsCode'
  <2>1. ASSUME NEW u \in DOMAIN refresh', NEW v \in DOMAIN refresh'
        PROVE  (refresh'[u].family = refresh'[v].family) <=> (refresh'[u].code = refresh'[v].code)
    BY <1>3, <1>6, <1>11 DEF FamilyInv, FamilyIsCode
  <2>2. ASSUME NEW u \in DOMAIN refresh', NEW b \in DOMAIN access'
        PROVE  (refresh'[u].family = access'[b].family) <=> (refresh'[u].code = access'[b].code)
    <3>1. CASE c # None
      BY <1>2, <1>3, <1>11, <3>1 DEF FamilyInv, FamilyIsCode
    <3>2. CASE c = None
      <4>1. \A v \in DOMAIN refresh : refresh[v].family # None /\ refresh[v].code # None
        BY KeyAssumption DEF FamilyInv, IInv, TypeOK, IsTable, RefreshRow
      <4> QED
        BY <1>2, <1>3, <1>6, <3>2, <4>1 DEF FamilyInv, FamilyIsCode
    <3> QED
      BY <3>1, <3>2
  <2> QED
    BY <2>1, <2>2 DEF FamilyIsCode
<1>13. \A g, d : SomeOf(g, d) => SomeOf(g, d)'
  BY <1>3 DEF SomeOf
<1>14. \A d : d # c /\ NoneUnder(d) => NoneUnder(d)'
  BY <1>3 DEF NoneUnder
<1>15. c # None => \A q \in DOMAIN reqs' : At(q, "store")' => reqs'[q].code # c
  BY <1>1, <1>4 DEF FamilyInv, IInv, OneTicket
<1>16. ASSUME NEW q \in DOMAIN reqs', At(q, "store")', reqs'[q].code # None
       PROVE  IF reqs'[q].family = None THEN NoneUnder(reqs[q].code)'
                                        ELSE SomeOf(reqs[q].family, reqs[q].code)'
  <2>1. /\ q \in DOMAIN reqs /\ At(q, "store") /\ reqs'[q] = reqs[q] /\ reqs[q].code # c
    BY <1>4, <1>6, <1>15, <1>16
  <2> QED
    BY <1>13, <1>14, <1>16, <2>1 DEF FamilyInv, Lineage
<1>17. ASSUME NEW b \in DOMAIN access', access'[b].family # None
       PROVE  SomeOf(access[b].family, access[b].code)'
  <2>1. CASE b \in DOMAIN access
    BY <1>2, <1>13, <1>17, <2>1 DEF FamilyInv, Lineage
  <2>2. CASE b = a /\ News # {}
    BY <1>2, <1>3, <2>2 DEF SomeOf
  <2>3. CASE b = a /\ News = {}
    <3>1. c # None /\ h # None
      BY <1>2, <1>6, <1>10, <1>17, <2>3
    <3> QED
      BY <1>2, <1>8, <1>13, <2>3, <3>1
  <2> QED
    BY <1>2, <2>1, <2>2, <2>3
<1>18. ASSUME NEW b \in DOMAIN access', access'[b].code # None
       PROVE  /\ access'[b].code \in DOMAIN codes' /\ codes'[access'[b].code].used
              /\ access'[b].family = None =>
                    /\ NoneUnder(access[b].code)'
                    /\ \A q \in DOMAIN reqs' : At(q, "store")' => reqs'[q].code # access'[b].code
  <2>1. CASE b \in DOMAIN access
    <3>1. access'[b].family = None => access[b].code # c
      BY <1>1, <1>2, <1>18, <2>1 DEF FamilyInv, Lineage
    <3> QED
      BY <1>1, <1>2, <1>4, <1>14, <1>18, <2>1, <3>1 DEF FamilyInv, Lineage
  <2>2. CASE b = a
    <3>1. c # None /\ access'[b].code = c /\ access'[b].family = f
      BY <1>2, <1>18, <2>2
    <3>2. f = None => h = None /\ News = {}
      BY <1>8, <1>9, <3>1
    <3>3. f = None => \A d : d = c => NoneUnder(d)'
      BY <1>3, <1>7, <3>1, <3>2 DEF NoneUnder
    <3>4. f = None => NoneUnder(access[b].code)'
      BY <3>1, <3>3 DEF NoneUnder
    <3> QED
      BY <1>1, <1>5, <1>15, <3>1, <3>4
  <2> QED
    BY <1>2, <2>1, <2>2
<1> QED
  BY <1>12, <1>16, <1>17, <1>18 DEF Lineage

LEMMA FamilyRequestStep ==
    ASSUME FamilyInv, NEW r \in Reqs, RequestStep(r)
    PROVE  FamilyIsCode' /\ Lineage'
<1>1. ASSUME NEW cl \in Clients, NEW input \in Codes \cup RTokens \cup {None},
             AuthenticateClient(r, cl, input)
      PROVE  FamilyIsCode' /\ Lineage'
  BY <1>1, FamilyJobOnly DEF AuthenticateClient
<1>2. ASSUME ReplayCode(r) \/ ReuseRefresh(r) \/ RefuseExpired(r) \/ Reply(r) \/ Abandon(r)
      PROVE  FamilyIsCode' /\ Lineage'
  BY <1>2, FamilyJobOnly DEF ReplayCode, ReuseRefresh, RefuseExpired, Reply, Abandon
<1>3. ASSUME NEW asked \in SUBSET Scopes, ClientCredentials(r, asked)
      PROVE  FamilyIsCode' /\ Lineage'
  BY <1>3, FamilyJobOnly DEF ClientCredentials
<1>4. ASSUME SweepTokens(r)
      PROVE  FamilyIsCode' /\ Lineage'
  <2>1. codes' = [codes EXCEPT ![reqs[r].code].swept = TRUE]
    BY <1>4 DEF SweepTokens
  <2>2. \A c \in DOMAIN codes : codes[c] \in CodeRow
    BY DEF FamilyInv, IInv, TypeOK, IsTable
  <2>3. /\ DOMAIN codes' = DOMAIN codes
        /\ \A c \in DOMAIN codes : codes'[c].used = codes[c].used
    BY <2>1, <2>2 DEF CodeRow
  <2> QED
    BY <1>4, <2>3, FamilyRevoke DEF SweepTokens
<1>5. ASSUME CloseFamily(r)
      PROVE  FamilyIsCode' /\ Lineage'
  BY <1>5, FamilyRevoke DEF CloseFamily, RevokeFamily
<1> QED
  BY <1>1, <1>2, <1>3, <1>4, <1>5, FamilyExchangeCode, FamilyRotateRefresh,
     FamilyStoreTokens DEF RequestStep

LEMMA FamilyNext == FamilyInv /\ [Next]_vars => FamilyIsCode' /\ Lineage'
<1> SUFFICES ASSUME FamilyInv, [Next]_vars PROVE FamilyIsCode' /\ Lineage'
  OBVIOUS
<1>1. CASE Next
  <2>1. ASSUME NEW cl \in Clients, NEW a \in ATokens, RevokeAccessToken(cl, a)
        PROVE  FamilyIsCode' /\ Lineage'
    <3>1. refresh' = Revoke(refresh, {})
      BY <2>1 DEF RevokeAccessToken, Revoke, FamilyInv, IInv, TypeOK, IsTable
    <3> QED
      BY <2>1, <3>1, FamilyRevoke DEF RevokeAccessToken
  <2>2. ASSUME NEW cl \in Clients, NEW t \in RTokens, RevokeRefreshToken(cl, t)
        PROVE  FamilyIsCode' /\ Lineage'
    BY <2>2, FamilyRevoke DEF RevokeRefreshToken, RevokeFamily
  <2>3. ASSUME NEW x, Expire(x)
        PROVE  FamilyIsCode' /\ Lineage'
    BY <2>3, FamilyJobOnly DEF Expire
  <2>4. ASSUME NEW cl \in Clients, SwitchClient(cl)
        PROVE  FamilyIsCode' /\ Lineage'
    BY <2>4, FamilyJobOnly DEF SwitchClient
  <2>5. ASSUME NEW c \in Codes, NEW cl \in Clients, NEW s \in Subjects,
               NEW g \in SUBSET Scopes, CreateCode(c, cl, s, g)
        PROVE  FamilyIsCode' /\ Lineage'
    <3>1. /\ UNCHANGED <<refresh, access, reqs>>
          /\ \A d \in DOMAIN codes : d \in DOMAIN codes' /\ codes'[d] = codes[d]
      BY <2>5 DEF CreateCode, Put
    <3>2. \A q : At(q, "store")' = At(q, "store")
      BY <3>1 DEF At
    <3> QED
      BY <3>1, <3>2, FamilyFrame
  <2> QED
    BY <1>1, <2>1, <2>2, <2>3, <2>4, <2>5, FamilyRequestStep DEF Next
<1>2. CASE UNCHANGED vars
  BY <1>2, FamilyJobOnly DEF vars
<1> QED
  BY <1>1, <1>2

(* RevokeFamily reaches the tokens of one code and all its refresh tokens:   *)
(* no family is shared by two codes, and no code has two.                    *)
THEOREM OneFamilyPerCode == Spec => []FamilyIsCode
<1>1. Init => FamilyInv
  BY TypeInit DEF Init, FamilyInv, IInv, OneTicket, FamilyIsCode, Lineage, At, Live
<1>2. FamilyInv /\ [Next]_vars => FamilyInv'
  BY TypeNext, TicketNext, FamilyNext DEF FamilyInv, IInv
<1>3. FamilyInv => FamilyIsCode
  BY DEF FamilyInv
<1> QED
  BY <1>1, <1>2, <1>3, PTL DEF Spec

-----------------------------------------------------------------------------
(* The refinement of TicketLedger: where a code's ticket is, and how a step  *)
(* moves it.                                                                 *)

HeldNow(c) == \E q \in DOMAIN reqs : At(q, "store") /\ reqs[q].code = c
LiveNow(c) == \E t \in DOMAIN refresh : refresh[t].code = c /\ Live(t) /\ t \notin expired

WhereAll ==
    \A c : TicketOf(c) = IF c \notin DOMAIN codes THEN "none"
                         ELSE IF ~codes[c].used THEN IF c \in expired THEN "over" ELSE "offered"
                         ELSE IF HeldNow(c) THEN "held"
                         ELSE IF LiveNow(c) THEN "live" ELSE "over"
UsableAll ==
    \A c, a : a \in UsableOf(c) <=>
                 /\ a \in DOMAIN access /\ access[a].code = c
                 /\ ~access[a].revoked /\ a \notin expired

LEMMA WhereTicketIs == WhereAll
<1> SUFFICES ASSUME NEW c
             PROVE  TicketOf(c) =
                      IF c \notin DOMAIN codes THEN "none"
                      ELSE IF ~codes[c].used THEN IF c \in expired THEN "over" ELSE "offered"
                      ELSE IF HeldNow(c) THEN "held"
                      ELSE IF LiveNow(c) THEN "live" ELSE "over"
  BY DEF WhereAll
<1>1. Held(c) # {} <=> HeldNow(c)
  BY DEF Held, HeldNow
<1>2. LiveUnder(c) \ expired # {} <=> LiveNow(c)
  BY DEF LiveUnder, LiveNow
<1> QED
  BY <1>1, <1>2 DEF TicketOf

LEMMA UsableIs == UsableAll
  BY DEF UsableAll, UsableOf, Active

(* The same of the state after a step.                                       *)
LEMMA WhereTicketIsNext == WhereAll'
  BY WhereTicketIs, PTL

LEMMA UsableIsNext == UsableAll'
  BY UsableIs, PTL

LedgerTyped ==
    \A c \in Codes : TicketOf(c) \in Ledger!Places /\ UsableOf(c) \in SUBSET ATokens

LEMMA LedgerTypes == TypeOK => LedgerTyped
<1> SUFFICES ASSUME TypeOK, NEW c \in Codes
             PROVE  TicketOf(c) \in Ledger!Places /\ UsableOf(c) \in SUBSET ATokens
  BY DEF LedgerTyped
<1>1. TicketOf(c) \in Ledger!Places
  BY WhereTicketIs DEF WhereAll, Ledger!Places
<1>2. UsableOf(c) \in SUBSET ATokens
  BY DEF UsableOf, TypeOK, IsTable
<1> QED
  BY <1>1, <1>2

LEMMA LedgerTypesNext == TypeOK' => LedgerTyped'
  BY LedgerTypes, PTL

(* A step that moves the ticket of one code at most.                         *)
LEMMA LedgerMove ==
    ASSUME NEW c \in Codes,
           \A d \in Codes \ {c} : TicketOf(d)' = TicketOf(d),
           \A d \in Codes : UsableOf(d)' = UsableOf(d)
    PROVE  /\ TicketOf(c) = "none" /\ TicketOf(c)' = "offered" => Ledger!Offer(c)
           /\ TicketOf(c) \in {"offered", "live"} /\ TicketOf(c)' = "held" => Ledger!Take(c)
           /\ TicketOf(c) = "held" /\ TicketOf(c)' = "over" => Ledger!Lose(c)
<1> DEFINE T == [d \in Codes |-> TicketOf(d)]
           U == [d \in Codes |-> UsableOf(d)]
<1>1. U' = U
  OBVIOUS
<1>2. ASSUME NEW p, TicketOf(c)' = p PROVE T' = [T EXCEPT ![c] = p]
  BY <1>2
<1>3. T[c] = TicketOf(c)
  OBVIOUS
<1> QED
  BY <1>1, <1>2, <1>3 DEF Ledger!Offer, Ledger!Take, Ledger!Lose

(* A step that only ends tickets no request holds, and tokens.               *)
LEMMA LedgerLapse ==
    ASSUME TypeOK, TypeOK',
           \A c \in Codes : /\ UsableOf(c)' \subseteq UsableOf(c)
                            /\ \/ TicketOf(c)' = TicketOf(c)
                               \/ TicketOf(c) \in {"offered", "live"} /\ TicketOf(c)' = "over"
    PROVE  Ledger!Lapse
<1> DEFINE T == [d \in Codes |-> TicketOf(d)]
           U == [d \in Codes |-> UsableOf(d)]
<1>1. \A c \in Codes : TicketOf(c)' \in Ledger!Places /\ UsableOf(c)' \in SUBSET ATokens
  BY LedgerTypesNext DEF LedgerTyped
<1>2. T' \in [Codes -> Ledger!Places] /\ U' \in [Codes -> SUBSET ATokens]
  BY <1>1
<1>3. \A c \in Codes : T[c] = TicketOf(c) /\ T'[c] = TicketOf(c)'
                       /\ U[c] = UsableOf(c) /\ U'[c] = UsableOf(c)'
  OBVIOUS
<1> HIDE DEF T, U
<1> QED
  BY <1>2, <1>3 DEF Ledger!Lapse, T, U

(* What of the state a ticket depends on.                                    *)
LEMMA TicketKept ==
    ASSUME NEW c,
           c \in DOMAIN codes' <=> c \in DOMAIN codes,
           c \in DOMAIN codes => codes'[c].used = codes[c].used,
           c \in expired' <=> c \in expired,
           HeldNow(c)' <=> HeldNow(c), LiveNow(c)' <=> LiveNow(c)
    PROVE  TicketOf(c)' = TicketOf(c)
<1>1. TicketOf(c)' =
        (IF c \notin DOMAIN codes' THEN "none"
         ELSE IF ~codes'[c].used THEN IF c \in expired' THEN "over" ELSE "offered"
         ELSE IF HeldNow(c)' THEN "held"
         ELSE IF LiveNow(c)' THEN "live" ELSE "over")
  BY WhereTicketIsNext DEF WhereAll
<1> QED
  BY <1>1, WhereTicketIs DEF WhereAll

(* Steps that spend, revoke and expire only.                                 *)
LEMMA OnlyLapses ==
    ASSUME TypeOK, TypeOK',
           DOMAIN codes' = DOMAIN codes,
           \A c \in DOMAIN codes : codes'[c].used = codes[c].used,
           expired \subseteq expired',
           DOMAIN refresh' = DOMAIN refresh,
           \A t \in DOMAIN refresh : refresh'[t].code = refresh[t].code /\ (Live(t)' => Live(t)),
           DOMAIN access' = DOMAIN access,
           \A a \in DOMAIN access : /\ access'[a].code = access[a].code
                                    /\ access[a].revoked => access'[a].revoked,
           \A c \in Codes : HeldNow(c)' <=> HeldNow(c)
    PROVE  Ledger!Lapse
<1>1. ASSUME NEW c \in Codes
      PROVE  /\ UsableOf(c)' \subseteq UsableOf(c)
             /\ \/ TicketOf(c)' = TicketOf(c)
                \/ TicketOf(c) \in {"offered", "live"} /\ TicketOf(c)' = "over"
  <2>1. ASSUME NEW a, a \in UsableOf(c)' PROVE a \in UsableOf(c)
    <3>1. a \in DOMAIN access' /\ access'[a].code = c /\ ~access'[a].revoked /\ a \notin expired'
      BY <2>1, UsableIsNext DEF UsableAll
    <3> QED
      BY <3>1, UsableIs DEF UsableAll
  <2>2. LiveNow(c)' => LiveNow(c)
    BY DEF LiveNow
  <2> QED
    BY <2>1, <2>2, WhereTicketIs, WhereTicketIsNext DEF WhereAll
<1> QED
  BY <1>1, LedgerLapse

LEMMA HeldByJobs ==
    ASSUME NEW r,
           \/ reqs' = reqs
           \/ reqs' = Drop(reqs, r) /\ (~At(r, "store") \/ reqs[r].code \notin Codes)
           \/ \E job : /\ (job.at # "store" \/ job.code \notin Codes)
                       /\ (~At(r, "store") \/ reqs[r].code \notin Codes)
                       /\ reqs' = Put(reqs, r, job)
    PROVE  \A c \in Codes : HeldNow(c)' <=> HeldNow(c)
<1>1. ASSUME NEW c \in Codes, NEW q
      PROVE  At(q, "store")' /\ reqs'[q].code = c <=> At(q, "store") /\ reqs[q].code = c
  BY DEF At, Put, Drop
<1> QED
  BY <1>1 DEF HeldNow, At

(* A step that leaves the tables and moves r on, without a ticket.           *)
LEMMA JobOnlyLapses ==
    ASSUME TypeOK, TypeOK', UNCHANGED <<codes, refresh, access>>, expired \subseteq expired',
           NEW r,
           \/ reqs' = reqs
           \/ reqs' = Drop(reqs, r) /\ (~At(r, "store") \/ reqs[r].code \notin Codes)
           \/ \E job : /\ (job.at # "store" \/ job.code \notin Codes)
                       /\ (~At(r, "store") \/ reqs[r].code \notin Codes)
                       /\ reqs' = Put(reqs, r, job)
    PROVE  Ledger!Lapse
<1>1. \A t : Live(t)' => Live(t)
  BY DEF Live
<1>2. \A c \in Codes : HeldNow(c)' <=> HeldNow(c)
  BY HeldByJobs
<1> QED
  BY <1>1, <1>2, OnlyLapses

LEMMA RevokeLapses ==
    ASSUME TypeOK, TypeOK', NEW hitR, NEW hitA,
           refresh' = Revoke(refresh, hitR), access' = Revoke(access, hitA),
           DOMAIN codes' = DOMAIN codes,
           \A c \in DOMAIN codes : codes'[c].used = codes[c].used,
           UNCHANGED expired,
           reqs' = reqs \/ \E r \in Reqs : ~At(r, "store") /\ reqs' = Drop(reqs, r)
    PROVE  Ledger!Lapse
<1>1. DOMAIN refresh' = DOMAIN refresh /\ DOMAIN access' = DOMAIN access
  BY DEF Revoke
<1>2. ASSUME NEW t \in DOMAIN refresh
      PROVE  refresh'[t].code = refresh[t].code /\ (Live(t)' => Live(t))
  <2>1. refresh[t] \in RefreshRow
    BY DEF TypeOK, IsTable
  <2>2. refresh'[t] = refresh[t] \/ refresh'[t] = [refresh[t] EXCEPT !.revoked = TRUE]
    BY DEF Revoke
  <2> QED
    BY <2>1, <2>2 DEF RefreshRow, Live
<1>3. ASSUME NEW a \in DOMAIN access
      PROVE  /\ access'[a].code = access[a].code
             /\ access[a].revoked => access'[a].revoked
  <2>1. access[a] \in AccessRow
    BY DEF TypeOK, IsTable
  <2>2. access'[a] = access[a] \/ access'[a] = [access[a] EXCEPT !.revoked = TRUE]
    BY DEF Revoke
  <2> QED
    BY <2>1, <2>2 DEF AccessRow
<1>4. \A c \in Codes : HeldNow(c)' <=> HeldNow(c)
  BY HeldByJobs
<1> QED
  BY <1>1, <1>2, <1>3, <1>4, OnlyLapses

LEMMA UsableKept ==
    ASSUME UNCHANGED <<access, expired>>
    PROVE  \A c : UsableOf(c)' = UsableOf(c)
  BY DEF UsableOf, Active

LEMMA CreateOffers ==
    ASSUME IInv, NEW c \in Codes, NEW cl \in Clients, NEW s \in Subjects,
           NEW g \in SUBSET Scopes, CreateCode(c, cl, s, g)
    PROVE  Ledger!Offer(c)
<1>1. /\ UNCHANGED <<refresh, access, expired, reqs>>
      /\ c \notin DOMAIN codes /\ DOMAIN codes' = DOMAIN codes \cup {c}
      /\ codes'[c].used = FALSE
      /\ \A d \in DOMAIN codes : codes'[d] = codes[d]
  BY DEF CreateCode, Put
<1>2. c \notin expired
  BY <1>1, KeyAssumption DEF IInv, TypeOK, IsTable
<1>3. \A d : (HeldNow(d)' <=> HeldNow(d)) /\ (LiveNow(d)' <=> LiveNow(d))
  BY <1>1 DEF HeldNow, LiveNow, At, Live
<1>4. \A d \in Codes \ {c} : TicketOf(d)' = TicketOf(d)
  BY <1>1, <1>3, TicketKept
<1>5. TicketOf(c) = "none" /\ TicketOf(c)' = "offered"
  BY <1>1, <1>2, WhereTicketIs, WhereTicketIsNext DEF WhereAll
<1> QED
  BY <1>1, <1>4, <1>5, UsableKept, LedgerMove

(* A request that takes the ticket of c holds it from now on.               *)
LEMMA TakerHolds ==
    ASSUME NEW r, NEW c, At(r, "authed"), NEW job, job.at = "store", job.code = c,
           reqs' = Put(reqs, r, job)
    PROVE  /\ HeldNow(c)'
           /\ \A d : d # c => (HeldNow(d)' <=> HeldNow(d))
<1>1. \A q : q # r => /\ q \in DOMAIN reqs' <=> q \in DOMAIN reqs
                      /\ q \in DOMAIN reqs => reqs'[q] = reqs[q]
  BY DEF Put
<1>2. r \in DOMAIN reqs' /\ reqs'[r] = job /\ reqs[r].at # "store"
  BY DEF Put, At
<1>3. HeldNow(c)'
  BY <1>2 DEF HeldNow, At
<1>4. ASSUME NEW d, d # c PROVE HeldNow(d)' <=> HeldNow(d)
  BY <1>1, <1>2, <1>4 DEF HeldNow, At
<1> QED
  BY <1>3, <1>4

LEMMA ExchangeTakes ==
    ASSUME IInv, TypeOK', NEW r \in Reqs, NEW proof \in BOOLEAN, ExchangeCode(r, proof)
    PROVE  Ledger!Next
<1>0. PICK c : c = reqs[r].input
  OBVIOUS
<1> DEFINE job == [at |-> "store", client |-> reqs[r].client, subject |-> codes[c].subject,
                   scopes |-> codes[c].scopes, code |-> c, family |-> None]
<1>1. /\ UNCHANGED <<refresh, access, expired>>
      /\ At(r, "authed") /\ c \in Codes /\ ~codes[c].used /\ c \notin expired
      /\ reqs' = Put(reqs, r, job) \/ reqs' = Drop(reqs, r)
  BY <1>0 DEF ExchangeCode, Fresh
<1>2. c \in DOMAIN codes /\ codes[c] \in CodeRow
  BY <1>0, <1>1, InputRow DEF IInv, TypeOK, IsTable
<1>3. /\ DOMAIN codes' = DOMAIN codes /\ codes'[c].used = TRUE
      /\ \A d : d # c /\ d \in DOMAIN codes => codes'[d] = codes[d]
  BY <1>0, <1>2 DEF ExchangeCode, CodeRow
<1>4. \A d : LiveNow(d)' <=> LiveNow(d)
  BY <1>1 DEF LiveNow, Live
<1>5. TicketOf(c) = "offered"
  BY <1>1, <1>2, WhereTicketIs DEF WhereAll
<1>6. ~LiveNow(c)
  BY <1>1 DEF LiveNow, IInv, OneTicket
<1>7. ~HeldNow(c)
  BY <1>1, KeyAssumption DEF HeldNow, IInv, OneTicket
<1>8. CASE reqs' = Put(reqs, r, job)
  <2>1. HeldNow(c)' /\ \A d : d # c => (HeldNow(d)' <=> HeldNow(d))
    BY <1>1, <1>8, TakerHolds
  <2>2. \A d \in Codes \ {c} : TicketOf(d)' = TicketOf(d)
    BY <1>1, <1>3, <1>4, <2>1, TicketKept
  <2>3. TicketOf(c)' = "held"
    BY <1>2, <1>3, <2>1, WhereTicketIsNext DEF WhereAll
  <2>4. Ledger!Take(c)
    BY <1>1, <1>5, <2>2, <2>3, UsableKept, LedgerMove
  <2> QED
    BY <1>1, <2>4 DEF Ledger!Next
<1>9. CASE reqs' = Drop(reqs, r)
  <2>1. \A d \in Codes : HeldNow(d)' <=> HeldNow(d)
    BY <1>1, <1>9, HeldByJobs DEF At
  <2>2. \A d \in Codes \ {c} : TicketOf(d)' = TicketOf(d)
    BY <1>1, <1>3, <1>4, <2>1, TicketKept
  <2>3. TicketOf(c)' = "over"
    BY <1>1, <1>2, <1>3, <1>4, <1>6, <1>7, <2>1, WhereTicketIsNext DEF WhereAll
  <2>4. Ledger!Lapse
    BY <1>1, <1>5, <2>2, <2>3, UsableKept, LedgerLapse DEF IInv
  <2> QED
    BY <2>4 DEF Ledger!Next
<1> QED
  BY <1>1, <1>8, <1>9

LEMMA RotateTakes ==
    ASSUME IInv, TypeOK', NEW r \in Reqs, NEW asked \in SUBSET Scopes, RotateRefresh(r, asked)
    PROVE  Ledger!Next
<1>0. PICK t, c : t = reqs[r].input /\ c = refresh[t].code
  OBVIOUS
<1> DEFINE job == [at |-> "store", client |-> reqs[r].client, subject |-> refresh[t].subject,
                   scopes |-> Narrow(refresh[t].scopes, asked),
                   code |-> c, family |-> refresh[t].family]
           closing == [at |-> "close", family |-> refresh[t].family]
<1>1. /\ UNCHANGED <<codes, access, expired>>
      /\ At(r, "authed") /\ t \in DOMAIN refresh /\ Live(t) /\ t \notin expired
      /\ \/ reqs' = Put(reqs, r, job)
         \/ reqs' = Put(reqs, r, closing) \/ reqs' = Drop(reqs, r)
  BY <1>0 DEF RotateRefresh, Rotatable, Live
<1>2. refresh[t] \in RefreshRow
  BY <1>1 DEF IInv, TypeOK, IsTable
<1>3. /\ DOMAIN refresh' = DOMAIN refresh
      /\ refresh'[t].code = c /\ ~Live(t)'
      /\ \A u : u # t /\ u \in DOMAIN refresh => refresh'[u] = refresh[u]
  BY <1>0, <1>1, <1>2 DEF RotateRefresh, RefreshRow, Live
<1>4. c \in Codes /\ c \in DOMAIN codes /\ codes[c].used
  BY <1>0, <1>1, <1>2 DEF IInv, OneTicket, RefreshRow
<1>5. \A d : d # c => (LiveNow(d)' <=> LiveNow(d))
  BY <1>0, <1>1, <1>3 DEF LiveNow, Live
<1>6. ~LiveNow(c)'
  <2>1. \A u \in DOMAIN refresh : u # t /\ refresh[u].code = c => ~Live(u)
    BY <1>0, <1>1 DEF IInv, OneTicket
  <2> QED
    BY <1>1, <1>3, <2>1 DEF LiveNow, Live
<1>7. LiveNow(c)
  BY <1>0, <1>1 DEF LiveNow
<1>8. ~HeldNow(c)
  BY <1>0, <1>1, <1>4, KeyAssumption DEF HeldNow, IInv, OneTicket
<1>9. TicketOf(c) = "live"
  BY <1>4, <1>7, <1>8, WhereTicketIs DEF WhereAll
<1>10. CASE reqs' = Put(reqs, r, job)
  <2>1. HeldNow(c)' /\ \A d : d # c => (HeldNow(d)' <=> HeldNow(d))
    BY <1>1, <1>10, TakerHolds
  <2>2. \A d \in Codes \ {c} : TicketOf(d)' = TicketOf(d)
    BY <1>1, <1>5, <2>1, TicketKept
  <2>3. TicketOf(c)' = "held"
    BY <1>1, <1>4, <2>1, WhereTicketIsNext DEF WhereAll
  <2>4. Ledger!Take(c)
    BY <1>1, <1>4, <1>9, <2>2, <2>3, UsableKept, LedgerMove
  <2> QED
    BY <1>4, <2>4 DEF Ledger!Next
<1>11. CASE reqs' = Put(reqs, r, closing) \/ reqs' = Drop(reqs, r)
  <2>1. \A d \in Codes : HeldNow(d)' <=> HeldNow(d)
    BY <1>1, <1>11, HeldByJobs DEF At
  <2>2. \A d \in Codes \ {c} : TicketOf(d)' = TicketOf(d)
    BY <1>1, <1>5, <2>1, TicketKept
  <2>3. TicketOf(c)' = "over"
    BY <1>1, <1>4, <1>6, <1>8, <2>1, WhereTicketIsNext DEF WhereAll
  <2>4. Ledger!Lapse
    BY <1>1, <1>9, <2>2, <2>3, UsableKept, LedgerLapse DEF IInv
  <2> QED
    BY <2>4 DEF Ledger!Next
<1> QED
  BY <1>1, <1>10, <1>11

(* issue: the request that holds the ticket puts it into a refresh token, or *)
(* lets it go, and one more access token is usable.                          *)
LEMMA StoreIssues ==
    ASSUME IInv, TypeOK', NEW r \in Reqs, NEW a \in ATokens, NEW t \in RTokens \cup {None},
           NEW f \in Families \cup {None}, StoreTokens(r, a, t, f)
    PROVE  Ledger!Next
<1>0. PICK c : c = reqs[r].code
  OBVIOUS
<1> DEFINE job == [at |-> "reply", tokens |-> {a, t} \ {None}]
<1>1. /\ UNCHANGED <<codes, expired>>
      /\ At(r, "store") /\ reqs[r] \in Storing
      /\ a \notin DOMAIN access /\ DOMAIN access' = DOMAIN access \cup {a}
      /\ access'[a].code = c /\ ~access'[a].revoked
      /\ \A b \in DOMAIN access : access'[b] = access[b]
      /\ reqs' = Put(reqs, r, job)
  BY <1>0, StoringJob DEF StoreTokens, Put, IInv
<1>2. \/ WantRefresh(reqs[r]) /\ t \in RTokens /\ t \notin DOMAIN refresh
         /\ DOMAIN refresh' = DOMAIN refresh \cup {t}
         /\ refresh'[t].code = c /\ Live(t)'
         /\ \A u \in DOMAIN refresh : refresh'[u] = refresh[u]
      \/ ~WantRefresh(reqs[r]) /\ refresh' = refresh
  BY <1>0 DEF StoreTokens, Put, Live
<1>3. a \notin expired /\ (t \in RTokens /\ t \notin DOMAIN refresh => t \notin expired)
  BY <1>1, KeyAssumption DEF IInv, TypeOK, IsTable
<1>4. \A d : d # c => (HeldNow(d)' <=> HeldNow(d))
  <2>1. ASSUME NEW d, d # c, NEW q
        PROVE  At(q, "store")' /\ reqs'[q].code = d <=> At(q, "store") /\ reqs[q].code = d
    BY <1>0, <1>1, <2>1 DEF At, Put
  <2> QED
    BY <2>1 DEF HeldNow, At
<1>5. \A d : d # c => (LiveNow(d)' <=> LiveNow(d))
  <2>1. ASSUME NEW d, d # c, NEW u
        PROVE  u \in DOMAIN refresh' /\ refresh'[u].code = d /\ Live(u)'
                 <=> u \in DOMAIN refresh /\ refresh[u].code = d /\ Live(u)
    BY <1>2, <2>1 DEF Live
  <2> QED
    BY <1>1, <2>1 DEF LiveNow
<1>6. \A d \in Codes \ {c} : TicketOf(d)' = TicketOf(d)
  BY <1>1, <1>4, <1>5, TicketKept
<1>7. \A d \in Codes \ {c} : UsableOf(d)' = UsableOf(d)
  <2>1. \A d \in Codes \ {c} : \A b : b \in UsableOf(d)' <=> b \in UsableOf(d)
    BY <1>1, UsableIs, UsableIsNext DEF UsableAll
  <2> QED
    BY <2>1
<1>8. CASE c \in Codes
  <2>1. c \in DOMAIN codes /\ codes[c].used /\ HeldNow(c)
    BY <1>0, <1>1, <1>8, KeyAssumption DEF IInv, OneTicket, HeldNow, At
  <2>2. ~HeldNow(c)'
    <3>1. \A q \in DOMAIN reqs : At(q, "store") /\ reqs[q].code = c => q = r
      BY <1>0, <1>1, <1>8, KeyAssumption DEF IInv, OneTicket, At
    <3> QED
      BY <1>1, <3>1 DEF HeldNow, At, Put
  <2>3. TicketOf(c) = "held"
    BY <2>1, WhereTicketIs DEF WhereAll
  <2>4. TicketOf(c)' \in {"live", "over"}
    BY <1>1, <2>1, <2>2, WhereTicketIsNext DEF WhereAll
  <2>5. UsableOf(c)' = UsableOf(c) \cup {a}
    BY <1>1, <1>3, UsableIs, UsableIsNext DEF UsableAll
  <2>6. PICK rest \in {"live", "over"} : TicketOf(c)' = rest
    BY <2>4
  <2> DEFINE T == [d \in Codes |-> TicketOf(d)]
             U == [d \in Codes |-> UsableOf(d)]
  <2>7. T' = [T EXCEPT ![c] = rest] /\ T[c] = "held"
    BY <1>6, <1>8, <2>3, <2>6
  <2>8. U' = [U EXCEPT ![c] = @ \cup {a}]
    BY <1>7, <1>8, <2>5
  <2>9. Ledger!Issue(c, a, rest)
    BY <2>7, <2>8 DEF Ledger!Issue
  <2> QED
    BY <1>8, <2>9 DEF Ledger!Next
<1>9. CASE c \notin Codes
  <2>1. \A d \in Codes : TicketOf(d)' = TicketOf(d) /\ UsableOf(d)' = UsableOf(d)
    BY <1>6, <1>7, <1>9
  <2> QED
    BY <2>1, LedgerLapse DEF IInv, Ledger!Next
<1> QED
  BY <1>8, <1>9

(* A request ends: the ticket it held, if any, is lost.                      *)
LEMMA AbandonLoses ==
    ASSUME IInv, TypeOK', NEW r \in Reqs, Abandon(r)
    PROVE  Ledger!Next
<1>0. PICK c : c = reqs[r].code
  OBVIOUS
<1>1. UNCHANGED <<codes, refresh, access, expired>> /\ reqs' = Drop(reqs, r)
  BY DEF Abandon
<1>2. CASE At(r, "store") /\ c \in Codes
  <2>1. \A d : d # c => (HeldNow(d)' <=> HeldNow(d))
    BY <1>0, <1>1 DEF HeldNow, At, Drop
  <2>2. ~HeldNow(c)'
    <3>1. \A q \in DOMAIN reqs : At(q, "store") /\ reqs[q].code = c => q = r
      BY <1>0, <1>2, KeyAssumption DEF IInv, OneTicket, At
    <3> QED
      BY <1>1, <3>1 DEF HeldNow, At, Drop
  <2>3. /\ c \in DOMAIN codes /\ codes[c].used /\ HeldNow(c)
        /\ \A t \in DOMAIN refresh : refresh[t].code = c => ~Live(t)
    BY <1>0, <1>2, KeyAssumption DEF IInv, OneTicket, HeldNow, At
  <2>4. \A d : LiveNow(d)' <=> LiveNow(d)
    BY <1>1 DEF LiveNow, Live
  <2>5. ~LiveNow(c)
    BY <2>3 DEF LiveNow
  <2>6. TicketOf(c) = "held" /\ TicketOf(c)' = "over"
    BY <1>1, <2>2, <2>3, <2>4, <2>5, WhereTicketIs, WhereTicketIsNext DEF WhereAll
  <2>7. \A d \in Codes \ {c} : TicketOf(d)' = TicketOf(d)
    BY <1>1, <2>1, <2>4, TicketKept
  <2>8. Ledger!Lose(c)
    BY <1>1, <1>2, <2>6, <2>7, UsableKept, LedgerMove
  <2> QED
    BY <1>2, <2>8 DEF Ledger!Next
<1>3. CASE ~(At(r, "store") /\ c \in Codes)
  BY <1>0, <1>1, <1>3, JobOnlyLapses DEF IInv, Ledger!Next
<1> QED
  BY <1>2, <1>3

LEMMA RequestStepKeeps ==
    ASSUME IInv, TypeOK', NEW r \in Reqs, RequestStep(r)
    PROVE  Ledger!Next
<1>1. ASSUME NEW cl \in Clients, NEW input \in Codes \cup RTokens \cup {None},
             AuthenticateClient(r, cl, input)
      PROVE  Ledger!Lapse
  BY <1>1, JobOnlyLapses DEF AuthenticateClient, At, IInv
<1>2. ASSUME ReplayCode(r) \/ ReuseRefresh(r) \/ RefuseExpired(r) \/ Reply(r)
      PROVE  Ledger!Lapse
  BY <1>2, JobOnlyLapses DEF ReplayCode, ReuseRefresh, RefuseExpired, Reply, At, IInv
<1>3. ASSUME NEW asked \in SUBSET Scopes, ClientCredentials(r, asked)
      PROVE  Ledger!Lapse
  BY <1>3, JobOnlyLapses, KeyAssumption DEF ClientCredentials, At, IInv
<1>4. ASSUME SweepTokens(r)
      PROVE  Ledger!Lapse
  <2>1. codes' = [codes EXCEPT ![reqs[r].code].swept = TRUE]
    BY <1>4 DEF SweepTokens
  <2>2. \A c \in DOMAIN codes : codes[c] \in CodeRow
    BY DEF IInv, TypeOK, IsTable
  <2>3. /\ DOMAIN codes' = DOMAIN codes
        /\ \A c \in DOMAIN codes : codes'[c].used = codes[c].used
    BY <2>1, <2>2 DEF CodeRow
  <2> QED
    BY <1>4, <2>3, RevokeLapses DEF SweepTokens, At, IInv
<1>5. ASSUME CloseFamily(r)
      PROVE  Ledger!Lapse
  BY <1>5, RevokeLapses DEF CloseFamily, RevokeFamily, At, IInv
<1> QED
  BY <1>1, <1>2, <1>3, <1>4, <1>5, ExchangeTakes, RotateTakes, StoreIssues, AbandonLoses
     DEF RequestStep, Ledger!Next

LEMMA StepKeeps ==
    ASSUME IInv, TypeOK', [Next]_vars
    PROVE  Ledger!Next
<1>1. ASSUME NEW c \in Codes, NEW cl \in Clients, NEW s \in Subjects,
             NEW g \in SUBSET Scopes, CreateCode(c, cl, s, g)
      PROVE  Ledger!Next
  BY <1>1, CreateOffers DEF Ledger!Next
<1>2. ASSUME NEW cl \in Clients, NEW a \in ATokens, RevokeAccessToken(cl, a)
      PROVE  Ledger!Lapse
  <2>1. refresh' = Revoke(refresh, {})
    BY <1>2 DEF RevokeAccessToken, Revoke, IInv, TypeOK, IsTable
  <2> QED
    BY <1>2, <2>1, RevokeLapses DEF RevokeAccessToken, IInv
<1>3. ASSUME NEW cl \in Clients, NEW t \in RTokens, RevokeRefreshToken(cl, t)
      PROVE  Ledger!Lapse
  BY <1>3, RevokeLapses DEF RevokeRefreshToken, RevokeFamily, IInv
<1>4. ASSUME NEW x, Expire(x)
      PROVE  Ledger!Lapse
  BY <1>4, JobOnlyLapses DEF Expire, IInv
<1>5. ASSUME NEW cl \in Clients, SwitchClient(cl)
      PROVE  Ledger!Lapse
  BY <1>5, JobOnlyLapses DEF SwitchClient, IInv
<1>6. CASE UNCHANGED vars
  <2>1. Ledger!Lapse
    BY <1>6, JobOnlyLapses DEF vars, IInv
  <2> QED
    BY <2>1 DEF Ledger!Next
<1>7. ASSUME NEW r \in Reqs, RequestStep(r)
      PROVE  Ledger!Next
  BY <1>7, RequestStepKeeps
<1> QED
  BY <1>1, <1>2, <1>3, <1>4, <1>5, <1>6, <1>7 DEF Next, Ledger!Next

LEMMA InitKeeps == Init => Ledger!Init
<1> SUFFICES ASSUME Init PROVE Ledger!Init
  OBVIOUS
<1>1. \A c \in Codes : TicketOf(c) = "none"
  BY WhereTicketIs DEF WhereAll, Init
<1>2. \A c \in Codes : UsableOf(c) = {}
  BY DEF UsableOf, Init
<1> QED
  BY <1>1, <1>2 DEF Ledger!Init

(* The token endpoint keeps the ledger of TicketLedger: whatever the         *)
(* interleaving of exchanges, replays, rotations, revocations and failures,  *)
(* a code is one right to issue tokens, in one place at a time.              *)
THEOREM KeepsTheLedger == Spec => LedgerSpec
<1>1. Init => Ledger!Init
  BY InitKeeps
<1>2. IInv /\ TypeOK' /\ [Next]_vars => [Ledger!Next]_(Ledger!lvars)
  BY StepKeeps
<1>3. Spec => []IInv
  BY Typing, SingleTicket, PTL DEF IInv
<1>4. []IInv => []TypeOK
  BY PTL DEF IInv
<1> QED
  BY <1>1, <1>2, <1>3, <1>4, PTL DEF Spec, LedgerSpec, Ledger!LedgerSpec

(* No step of the ledger gives a dead code anything back.                    *)
LEMMA LedgerKeepsDead ==
    ASSUME Ledger!Next,
           NEW c \in Codes, TicketOf(c) = "over", UsableOf(c) = {}
    PROVE  TicketOf(c)' = "over" /\ UsableOf(c)' = {}
<1> DEFINE T == [d \in Codes |-> TicketOf(d)]
           U == [d \in Codes |-> UsableOf(d)]
<1>1. T[c] = "over" /\ U[c] = {} /\ DOMAIN T = Codes /\ DOMAIN U = Codes
  OBVIOUS
<1>2. T'[c] = TicketOf(c)' /\ U'[c] = UsableOf(c)'
  OBVIOUS
<1>3. \/ \E d \in Codes : Ledger!Offer(d) \/ Ledger!Take(d) \/ Ledger!Lose(d)
      \/ \E d \in Codes, a \in ATokens, rest \in {"live", "over"} : Ledger!Issue(d, a, rest)
      \/ Ledger!Lapse
  BY DEF Ledger!Next
<1>4. \/ U' = U /\ \E d \in Codes : \E p : T[d] # "over" /\ T' = [T EXCEPT ![d] = p]
      \/ \E d \in Codes : \E p, s :
           T[d] # "over" /\ T' = [T EXCEPT ![d] = p] /\ U' = [U EXCEPT ![d] = s]
      \/ U'[c] \subseteq U[c] /\ (T'[c] = T[c] \/ T'[c] = "over")
  <2>1. ASSUME NEW d \in Codes, Ledger!Offer(d) \/ Ledger!Take(d) \/ Ledger!Lose(d)
        PROVE  U' = U /\ \E p : T[d] # "over" /\ T' = [T EXCEPT ![d] = p]
    BY <2>1 DEF Ledger!Offer, Ledger!Take, Ledger!Lose
  <2>2. ASSUME NEW d \in Codes, NEW a \in ATokens, NEW rest \in {"live", "over"},
               Ledger!Issue(d, a, rest)
        PROVE  \E p, s : T[d] # "over" /\ T' = [T EXCEPT ![d] = p] /\ U' = [U EXCEPT ![d] = s]
    BY <2>2 DEF Ledger!Issue
  <2>3. ASSUME Ledger!Lapse
        PROVE  U'[c] \subseteq U[c] /\ (T'[c] = T[c] \/ T'[c] = "over")
    BY <2>3 DEF Ledger!Lapse
  <2> QED
    BY <1>3, <2>1, <2>2, <2>3
<1> HIDE DEF T, U
<1> QED
  BY <1>1, <1>2, <1>4

(* What the ledger never gives back, the endpoint never gives back: once a   *)
(* code's ticket is over and none of its access tokens is usable, no retry,  *)
(* no late step of a request and no rotation issues under it again.          *)
THEOREM OverIsForEver == Spec => DeadStaysDead
<1> DEFINE T == [c \in Codes |-> TicketOf(c)]
           U == [c \in Codes |-> UsableOf(c)]
           Dead == \A c \in Codes : T[c] = "over" /\ U[c] = {} => T'[c] = "over" /\ U'[c] = {}
<1>1. Ledger!Next => Dead
  BY LedgerKeepsDead
<1>2. IInv /\ TypeOK' /\ [Next]_vars => [Dead]_(Ledger!lvars)
  BY <1>1, StepKeeps
<1>3. Spec => []IInv
  BY Typing, SingleTicket, PTL DEF IInv
<1>4. []IInv => []TypeOK
  BY PTL DEF IInv
<1> QED
  BY <1>2, <1>3, <1>4, PTL DEF Spec, DeadStaysDead, Ledger!DeadStaysDead
=============================================================================
