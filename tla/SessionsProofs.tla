--------------------------- MODULE SessionsProofs ---------------------------
(* Machine-checked theorems about Sessions, for every number of requests,    *)
(* pairs, ticks and password changes.                                        *)
(*                                                                           *)
(* The argument: a refresh token is used by whoever takes its id out of      *)
(* Redis, a logout or one refresh, and an id is put there only before a      *)
(* client knows it.  A change of the password is carried through by one      *)
(* request, so that the row, the cutoff and what a refresh has read of them  *)
(* all name a change that was really written.  A copy of the row with a      *)
(* password that was replaced is older than the change's deletion of the     *)
(* cached copy, or comes of a read that the deletion crossed.                *)
EXTENDS Sessions, FiniteSetTheorems, TLAPS

Finding == {"miss", "fill", "wait", "check"}
Refreshing == {"lookup", "rotate"}
Changing == {"write", "clear", "publish", "prolong"}

(* Every change in `known` is beaten by a stamp, or was written over by a    *)
(* change with an older one.                                                 *)
Covers(known, stamp, password) ==
    \A n \in known :
        \/ stamp >= rotations[n].at
        \/ password \in DOMAIN rotations \ {n} /\ rotations[password].at < rotations[n].at

(* None of the changes in `known` replaced the password, but for those that  *)
(* a read crossed.                                                           *)
Fresh(known, password) ==
    \A n \in known : password = rotations[n].over => rotations[n].crossed

(* How far a change is while a request carries it through.                   *)
StageOf(place) ==
    CASE place = "write" -> "hashed"
      [] place = "clear" -> "written"
      [] place \in {"publish", "prolong"} -> "cleared"

(* What a request relies on between two steps.                               *)
JobOK(job) ==
    /\ job.at \in Finding => job.known \subseteq Reached({"done"})
    /\ job.at = "fill" => flight # None
    /\ job.at = "check" => Fresh(job.known, job.user.password)
    /\ job.at \in Refreshing =>
          /\ job.token \in (held \ live) \ out
          /\ \A s \in DOMAIN sessions : sessions[s].parent # job.token
    /\ job.at = "rotate" =>
          /\ job.known \subseteq DOMAIN rotations
          /\ Covers(job.known, job.user.changedAt, job.user.password)
    /\ job.at = "store" => job.sid \in DOMAIN sessions \ held
    /\ job.at \in Changing =>
          /\ job.change \in DOMAIN rotations
          /\ ~rotations[job.change].kept
          /\ rotations[job.change].stage = StageOf(job.at)

(* Two requests that would do the same thing twice.                          *)
Clash(j, k) ==
    \/ j.at = "fill" /\ k.at = "fill"
    \/ j.at \in Refreshing /\ k.at \in Refreshing /\ j.token = k.token
    \/ j.at = "store" /\ k.at = "store" /\ j.sid = k.sid
    \/ j.at \in Changing /\ k.at \in Changing /\ j.change = k.change

Distinct == \A q, r \in DOMAIN reqs : Clash(reqs[q], reqs[r]) => q = r

(* A refreshed pair: its parent is spent, and had to beat the changes known. *)
(* A pair that was logged in to: its password was not one they replaced.     *)
SessionOK(s) ==
    /\ sessions[s].parent # None =>
          /\ sessions[s].parent \in held \ live
          /\ sessions[s].known \subseteq DOMAIN rotations
          /\ \A n \in sessions[s].known :
                \/ 2 * sessions[sessions[s].parent].iat > rotations[n].at
                \/ /\ sessions[s].password \in DOMAIN rotations \ {n}
                   /\ rotations[sessions[s].password].at < rotations[n].at
    /\ sessions[s].parent = None =>
          /\ sessions[s].known \subseteq Reached({"done"})
          /\ Fresh(sessions[s].known, sessions[s].password)

(* Changes are numbered in turn, and the row is what the last one written    *)
(* left.                                                                     *)
ChangesOK ==
    /\ \E k \in 0..MaxChanges : DOMAIN rotations = 1..k
    /\ IF Reached(Written) = {} THEN row.password = 0 ELSE row.password \in Reached(Written)
    /\ row.password \in DOMAIN rotations => row.changedAt = rotations[row.password].at

(* The cutoff in Redis is that of the last change that published one, and    *)
(* stays when that change was able to prolong it.                            *)
Latest == rotations[published[Len(published)]]
CutoffOK ==
    /\ cutoff # NoCutoff => published # <<>> /\ cutoff.second = SecondOf(Latest.at)
    /\ published # <<>> /\ Latest.kept =>
          cutoff = [second |-> SecondOf(Latest.at), ttl |-> "own"]

(* A password that was replaced is not in the row, and in a copy of the row  *)
(* only until its change clears the cache, or when a read was crossed.       *)
CopyOK(copy) == copy # None => Fresh(Reached({"cleared", "done"}), copy.password)
CopiesOK ==
    /\ \A n \in Reached(Written) : /\ rotations[n].over \in {0} \cup Reached(Written)
                                   /\ rotations[n].over # row.password
    /\ CopyOK(cache) /\ CopyOK(flight)

(* The inductive invariant.                                                  *)
IInv ==
    /\ TypeOK /\ Distinct /\ ChangesOK /\ CutoffOK /\ CopiesOK
    /\ RefreshOnce
    /\ out \subseteq held \ live
    /\ \A s \in DOMAIN sessions : SessionOK(s)
    /\ \A r \in DOMAIN reqs : JobOK(reqs[r])

-----------------------------------------------------------------------------
(* Seconds.                                                                  *)

LEMMA SecondIsMonotone ==
    ASSUME NEW t \in Ticks \cup {Never}, NEW u \in Ticks \cup {Never}, t <= u
    PROVE  SecondOf(t) <= SecondOf(u) /\ SecondOf(t) \in Int
  BY BoundAssumption DEF SecondOf, Ticks, Never

LEMMA SecondType ==
    ASSUME NEW t \in Ticks
    PROVE  SecondOf(t) \in 0..SecondOf(MaxTick)
  BY BoundAssumption DEF SecondOf, Ticks, Never

-----------------------------------------------------------------------------
(* What the parts of the invariant do not depend on.                         *)

(* Changes keep their stamps, and what they did once they are done.          *)
Growing ==
    \A n \in DOMAIN rotations :
        /\ n \in DOMAIN rotations' /\ rotations'[n].at = rotations[n].at
        /\ rotations[n].stage = "done" => rotations'[n] = rotations[n]

LEMMA KnownKept ==
    ASSUME Growing, NEW known, known \subseteq Reached({"done"})
    PROVE  /\ known \subseteq Reached({"done"})'
           /\ \A password : Fresh(known, password) => Fresh(known, password)'
  BY DEF Growing, Reached, Fresh

LEMMA CoversKept ==
    ASSUME Growing, NEW known, known \subseteq DOMAIN rotations,
           NEW stamp, NEW password, Covers(known, stamp, password)
    PROVE  Covers(known, stamp, password)'
  BY DEF Growing, Covers

LEMMA SessionsKept ==
    ASSUME IInv, UNCHANGED sessions, live' \cap held \subseteq live, held \subseteq held',
           out' \subseteq out \cup live, Growing
    PROVE  (\A s \in DOMAIN sessions : SessionOK(s))' /\ RefreshOnce'
<1>1. ASSUME NEW s \in DOMAIN sessions PROVE SessionOK(s)'
  <2>1. SessionOK(s)
    BY DEF IInv
  <2>2. CASE sessions[s].parent # None
    BY <2>1, <2>2 DEF SessionOK, Growing
  <2>3. CASE sessions[s].parent = None
    BY <2>1, <2>3, KnownKept DEF SessionOK
  <2> QED
    BY <2>2, <2>3
<1>2. ASSUME NEW s \in DOMAIN sessions PROVE sessions[s].parent \notin out'
  <2>1. SessionOK(s) /\ sessions[s].parent \notin out
    BY DEF IInv, RefreshOnce
  <2>2. None \notin live
    BY NoneAssumption DEF IInv, TypeOK
  <2> QED
    BY <2>1, <2>2 DEF SessionOK
<1> QED
  BY <1>1, <1>2 DEF IInv, RefreshOnce

LEMMA ChangesKept ==
    ASSUME IInv, row'.password = row.password, row'.changedAt = row.changedAt, UNCHANGED rotations
    PROVE  ChangesOK'
  BY DEF IInv, ChangesOK, Reached

LEMMA CutoffKept ==
    ASSUME IInv, UNCHANGED <<rotations, published>>,
           \/ cutoff' = cutoff
           \/ cutoff.ttl = "default" /\ cutoff' = NoCutoff
    PROVE  CutoffOK'
<1>1. CASE cutoff' = cutoff
  BY <1>1 DEF IInv, CutoffOK, Latest, SecondOf
<1>2. CASE cutoff.ttl = "default" /\ cutoff' = NoCutoff
  <2>1. ~(published # <<>> /\ Latest.kept)
    BY <1>2 DEF IInv, CutoffOK
  <2> QED
    BY <1>2, <2>1 DEF CutoffOK, Latest
<1> QED
  BY <1>1, <1>2

LEMMA CopiesKept ==
    ASSUME IInv, UNCHANGED rotations, row'.password = row.password,
           cache' \in {cache, flight, None}, flight' \in {flight, row, None}
    PROVE  CopiesOK'
<1>1. CopyOK(cache) /\ CopyOK(flight) /\ CopyOK(None) /\ CopyOK(row)
  BY DEF IInv, CopiesOK, CopyOK, Fresh, Reached, Written
<1>2. \A copy : CopyOK(copy) => CopyOK(copy)'
  BY DEF CopyOK, Fresh, Reached
<1>3. CopyOK(cache') /\ CopyOK(flight')
  BY <1>1
<1>4. CopyOK(cache)' /\ CopyOK(flight)'
  BY <1>3 DEF CopyOK, Fresh, Reached
<1> QED
  BY <1>4 DEF IInv, CopiesOK, Reached

LEMMA JobKept ==
    ASSUME NEW job, JobOK(job), job.at = "fill" => flight' # None,
           UNCHANGED <<sessions, held, rotations>>, live' \cap held \subseteq live,
           out' \subseteq out \cup live
    PROVE  JobOK(job)'
<1>1. (job.at \in Changing => rotations[job.change].stage = StageOf(job.at)) =>
         (job.at \in Changing => rotations[job.change].stage = StageOf(job.at))'
  BY DEF StageOf
<1> QED
  BY <1>1 DEF JobOK, Covers, Fresh, Reached

LEMMA JobType ==
    ASSUME IInv, NEW r \in DOMAIN reqs
    PROVE  r \in Reqs /\ reqs[r] \in Job /\ JobOK(reqs[r])
  BY DEF IInv, TypeOK

(* A step that mints no pair, hands none over, and moves no change on: an    *)
(* administrator or an identity may touch the row, a read may fetch it, and  *)
(* entries leave the cache and Redis.                                        *)
Quiet ==
    /\ UNCHANGED <<sessions, held, rotations, published>>
    /\ row' \in User /\ row'.password = row.password /\ row'.changedAt = row.changedAt
    /\ cache' \in {cache, None} /\ flight' \in {flight, row} /\ now' \in Ticks
    /\ live' \subseteq live
    /\ out' \subseteq held /\ out' \subseteq out \cup (live \ live')
    /\ denied' \in [DOMAIN denied' -> TTL] /\ DOMAIN denied' \subseteq DOMAIN sessions
    /\ cutoff' \in Cutoff
    /\ \/ cutoff' = cutoff
       \/ cutoff.ttl = "default" /\ cutoff' = NoCutoff

(* A quiet step of one request.                                              *)
LEMMA RequestStep ==
    ASSUME IInv, NEW r, Quiet,
           DOMAIN reqs' \subseteq Reqs, reqs' \in [DOMAIN reqs' -> Job],
           \A q \in DOMAIN reqs' : q # r => q \in DOMAIN reqs /\ reqs'[q] = reqs[q],
           \A q \in DOMAIN reqs' : q # r /\ reqs[q].at = "fill" => flight' # None,
           r \in DOMAIN reqs' =>
              /\ JobOK(reqs[r])'
              /\ \A q \in DOMAIN reqs : q # r => ~Clash(reqs[q], reqs'[r])
    PROVE  IInv'
<1>1. TypeOK'
  BY DEF IInv, TypeOK, Quiet
<1>2. (\A s \in DOMAIN sessions : SessionOK(s))' /\ RefreshOnce'
  BY SessionsKept DEF Growing, Quiet
<1>3. ChangesOK' /\ CutoffOK' /\ CopiesOK'
  BY ChangesKept, CutoffKept, CopiesKept DEF Quiet
<1>4. ASSUME NEW q \in DOMAIN reqs' PROVE JobOK(reqs[q])'
  <2>1. CASE q = r
    BY <1>4, <2>1
  <2>2. CASE q # r
    <3>1. q \in DOMAIN reqs /\ reqs'[q] = reqs[q] /\ JobOK(reqs[q])
      BY <1>4, <2>2 DEF IInv
    <3>2. PICK job : job = reqs[q]
      OBVIOUS
    <3>3. JobOK(job)'
      BY <1>4, <2>2, <3>1, <3>2, JobKept DEF Quiet
    <3> QED
      BY <3>1, <3>2, <3>3
  <2> QED
    BY <2>1, <2>2
<1>5. Distinct'
  <2>1. \A p, q \in DOMAIN reqs' : p # r /\ q # r /\ Clash(reqs'[p], reqs'[q]) => p = q
    BY DEF IInv, Distinct
  <2>2. \A q \in DOMAIN reqs' : q # r /\ r \in DOMAIN reqs' =>
           ~Clash(reqs'[q], reqs'[r]) /\ ~Clash(reqs'[r], reqs'[q])
    BY DEF Clash
  <2> QED
    BY <2>1, <2>2 DEF Distinct
<1>6. out' \subseteq held' \ live'
  BY DEF IInv, Quiet
<1> QED
  BY <1>1, <1>2, <1>3, <1>4, <1>5, <1>6 DEF IInv

(* The same, when the request comes to a job of its own or leaves.           *)
LEMMA Moves ==
    ASSUME IInv, NEW r, Quiet,
           flight # None => flight' # None,
           \/ Leave(r)
           \/ \E job \in Job :
                 /\ r \in Reqs /\ Goto(r, job) /\ JobOK(job)'
                 /\ \A q \in DOMAIN reqs : q # r => ~Clash(reqs[q], job)
    PROVE  IInv'
<1>1. CASE Leave(r)
  <2>1. r \notin DOMAIN reqs' /\ \A q \in DOMAIN reqs' : q \in DOMAIN reqs /\ reqs'[q] = reqs[q]
    BY <1>1 DEF Leave, Drop
  <2>2. \A q \in DOMAIN reqs' : reqs[q].at = "fill" => flight' # None
    BY <2>1 DEF IInv, JobOK
  <2>3. DOMAIN reqs' \subseteq Reqs /\ reqs' \in [DOMAIN reqs' -> Job]
    BY <1>1 DEF Leave, Drop, IInv, TypeOK
  <2> QED
    BY <2>1, <2>2, <2>3, RequestStep
<1>2. ASSUME NEW job \in Job, r \in Reqs, Goto(r, job), JobOK(job)',
             \A q \in DOMAIN reqs : q # r => ~Clash(reqs[q], job)
      PROVE  IInv'
  <2>1. /\ reqs'[r] = job
        /\ \A q \in DOMAIN reqs' : q # r => q \in DOMAIN reqs /\ reqs'[q] = reqs[q]
    BY <1>2 DEF Goto, Put
  <2>2. \A q \in DOMAIN reqs' : q # r /\ reqs[q].at = "fill" => flight' # None
    BY <2>1 DEF IInv, JobOK
  <2>3. JobOK(reqs[r])'
    BY <1>2, <2>1
  <2>4. DOMAIN reqs' \subseteq Reqs /\ reqs' \in [DOMAIN reqs' -> Job]
    BY <1>2 DEF Goto, Put, IInv, TypeOK
  <2> QED
    BY <1>2, <2>1, <2>2, <2>3, <2>4, RequestStep
<1> QED
  BY <1>1, <1>2

(* A step that leaves all but the requests as it is.                         *)
LEMMA QuietReads ==
    ASSUME IInv, UNCHANGED <<row, cache, flight, live, denied, cutoff, now, sessions, held,
                             rotations, published, out>>
    PROVE  Quiet
  BY DEF IInv, TypeOK, Quiet

-----------------------------------------------------------------------------
(* Steps that read, or that touch one shared thing.                          *)

LEMMA ReachedType ==
    ASSUME IInv, NEW stages
    PROVE  Reached(stages) \in SUBSET (1..MaxChanges) /\ Reached(stages) \subseteq DOMAIN rotations
  BY DEF IInv, TypeOK, Reached

LEMMA LoginHitKeeps ==
    ASSUME IInv, NEW r, NEW password \in Passwords, LoginHit(r, password)
    PROVE  IInv'
<1> PICK job : job = [at |-> "check", password |-> password, user |-> cache,
                      known |-> Reached({"done"})]
  OBVIOUS
<1>1. /\ r \in Reqs /\ cache # None /\ Goto(r, job)
      /\ UNCHANGED <<row, cache, flight, live, denied, cutoff, now, sessions, held,
                     rotations, published, out>>
  BY DEF LoginHit, Free, redis, issued, history
<1>2. job \in Job
  BY <1>1, ReachedType DEF Job, IInv, TypeOK
<1>3. \A j : ~Clash(j, job)
  BY DEF Clash, Refreshing, Changing
<1>4. JobOK(job)
  <2>1. Fresh(job.known, cache.password)
    BY <1>1 DEF IInv, CopiesOK, CopyOK, Fresh, Reached
  <2> QED
    BY <1>1, <2>1 DEF JobOK, Refreshing, Changing
<1>5. JobOK(job)'
  BY <1>1, <1>4, JobKept
<1> QED
  BY <1>1, <1>2, <1>3, <1>5, QuietReads, Moves

LEMMA LoginMissKeeps ==
    ASSUME IInv, NEW r, NEW password \in Passwords, LoginMiss(r, password)
    PROVE  IInv'
<1> PICK job : job = [at |-> "miss", password |-> password, known |-> Reached({"done"})]
  OBVIOUS
<1>1. /\ r \in Reqs /\ Goto(r, job)
      /\ UNCHANGED <<row, cache, flight, live, denied, cutoff, now, sessions, held,
                     rotations, published, out>>
  BY DEF LoginMiss, Free, redis, issued, history
<1>2. job \in Job
  BY ReachedType DEF Job
<1>3. JobOK(job)' /\ \A j : ~Clash(j, job)
  BY <1>1 DEF JobOK, Reached, Clash, Refreshing, Changing
<1> QED
  BY <1>1, <1>2, <1>3, QuietReads, Moves

LEMMA ReadRowKeeps ==
    ASSUME IInv, NEW r, ReadRow(r)
    PROVE  IInv'
<1> PICK job : job = [reqs[r] EXCEPT !.at = "fill"]
  OBVIOUS
<1>1. /\ r \in DOMAIN reqs /\ reqs[r].at = "miss" /\ flight = None /\ flight' = row /\ Goto(r, job)
      /\ UNCHANGED <<row, cache, live, denied, cutoff, now, sessions, held,
                     rotations, published, out>>
  BY DEF ReadRow, At, redis, issued, history
<1>2. r \in Reqs /\ reqs[r] \in Job
  BY <1>1, JobType
<1>3. job \in Job /\ job.at = "fill"
  BY <1>1, <1>2 DEF Job
<1>4. flight' # None /\ flight' \in User
  BY <1>1, NoneAssumption DEF IInv, TypeOK
<1>5. JobOK(job)'
  <2>1. job.known = reqs[r].known /\ reqs[r].known \subseteq Reached({"done"})
    BY <1>1, <1>2, JobType DEF Job, JobOK, Finding
  <2> QED
    BY <1>1, <1>3, <1>4, <2>1 DEF JobOK, Refreshing, Changing, Reached
<1>6. \A q \in DOMAIN reqs : q # r => ~Clash(reqs[q], job)
  <2>1. \A q \in DOMAIN reqs : reqs[q].at # "fill"
    BY <1>1 DEF IInv, JobOK
  <2> QED
    BY <1>3, <2>1 DEF Clash, Refreshing, Changing
<1> QED
  BY <1>1, <1>2, <1>3, <1>4, <1>5, <1>6, Moves DEF IInv, TypeOK, Quiet

LEMMA JoinReadKeeps ==
    ASSUME IInv, NEW r, JoinRead(r)
    PROVE  IInv'
<1> PICK job : job = [reqs[r] EXCEPT !.at = "wait"]
  OBVIOUS
<1>1. /\ r \in DOMAIN reqs /\ reqs[r].at = "miss" /\ Goto(r, job)
      /\ UNCHANGED <<row, cache, flight, live, denied, cutoff, now, sessions, held,
                     rotations, published, out>>
  BY DEF JoinRead, At, redis, issued, history
<1>2. r \in Reqs /\ reqs[r] \in Job
  BY <1>1, JobType
<1>3. job \in Job /\ job.at = "wait"
  BY <1>1, <1>2 DEF Job
<1>4. JobOK(job)' /\ \A j : ~Clash(j, job)
  <2>1. job.known = reqs[r].known /\ reqs[r].known \subseteq Reached({"done"})
    BY <1>1, <1>2, JobType DEF Job, JobOK, Finding
  <2> QED
    BY <1>1, <1>3, <2>1 DEF JobOK, Clash, Refreshing, Changing, Reached
<1> QED
  BY <1>1, <1>2, <1>3, <1>4, QuietReads, Moves

LEMMA IdentifyKeeps ==
    ASSUME IInv, NEW r, Identify(r)
    PROVE  IInv'
<1> PICK job : job = [at |-> "identified"]
  OBVIOUS
<1>1. /\ r \in Reqs /\ Goto(r, job)
      /\ row' \in {row, [row EXCEPT !.active = TRUE]}
      /\ UNCHANGED <<cache, flight, live, denied, cutoff, now, sessions, held,
                     rotations, published, out>>
  BY DEF Identify, Free, redis, issued, history
<1>2. row' \in User /\ row'.password = row.password /\ row'.changedAt = row.changedAt
  BY <1>1 DEF IInv, TypeOK, User
<1>3. job \in Job /\ JobOK(job)' /\ \A j : ~Clash(j, job)
  BY DEF Job, JobOK, Clash, Finding, Refreshing, Changing
<1> QED
  BY <1>1, <1>2, <1>3, Moves DEF IInv, TypeOK, Quiet

LEMMA SetActiveKeeps ==
    ASSUME IInv, NEW r, NEW active \in BOOLEAN, SetActive(r, active)
    PROVE  IInv'
<1> PICK job : job = [at |-> "evict"]
  OBVIOUS
<1>1. /\ r \in Reqs /\ Goto(r, job) /\ row' = [row EXCEPT !.active = active]
      /\ UNCHANGED <<cache, flight, live, denied, cutoff, now, sessions, held,
                     rotations, published, out>>
  BY DEF SetActive, Free, redis, issued, history
<1>2. row' \in User /\ row'.password = row.password /\ row'.changedAt = row.changedAt
  BY <1>1 DEF IInv, TypeOK, User
<1>3. job \in Job /\ JobOK(job)' /\ \A j : ~Clash(j, job)
  BY DEF Job, JobOK, Clash, Finding, Refreshing, Changing
<1> QED
  BY <1>1, <1>2, <1>3, Moves DEF IInv, TypeOK, Quiet

LEMMA SetActiveEvictKeeps ==
    ASSUME IInv, NEW r, SetActiveEvict(r)
    PROVE  IInv'
  BY Moves DEF SetActiveEvict, redis, issued, history, IInv, TypeOK, Quiet

LEMMA RefusedKeeps ==
    ASSUME IInv, NEW r, Refused(r)
    PROVE  IInv'
  BY Moves DEF Refused, redis, issued, history, IInv, TypeOK, Quiet

(* The id of a refresh token goes from Redis to one request.                 *)
LEMMA RefreshTakeKeeps ==
    ASSUME IInv, NEW r, NEW token \in Sids, RefreshTake(r, token)
    PROVE  IInv'
<1> PICK job : job = [at |-> "lookup", token |-> token]
  OBVIOUS
<1>1. /\ r \in Reqs /\ token \in held \cap live /\ live' = live \ {token} /\ Goto(r, job)
      /\ UNCHANGED <<row, cache, flight, denied, cutoff, now, sessions, held,
                     rotations, published, out>>
  BY DEF RefreshTake, Free, Taken, issued, history
<1>2. job \in Job
  BY DEF Job
<1>3. \A s \in DOMAIN sessions : sessions[s].parent # token
  BY <1>1, NoneAssumption DEF IInv, SessionOK
<1>4. JobOK(job)'
  BY <1>1, <1>3 DEF IInv, JobOK, Finding, Refreshing, Changing
<1>5. \A q \in DOMAIN reqs : q # r => ~Clash(reqs[q], job)
  <2>1. \A q \in DOMAIN reqs : reqs[q].at \in Refreshing => reqs[q].token # token
    BY <1>1 DEF IInv, JobOK
  <2> QED
    BY <2>1 DEF Clash, Refreshing, Changing
<1> QED
  BY <1>1, <1>2, <1>4, <1>5, Moves DEF IInv, TypeOK, Quiet

(* The row a refresh reads is that of the last change written.               *)
LEMMA RefreshLookupKeeps ==
    ASSUME IInv, NEW r, RefreshLookup(r)
    PROVE  IInv'
<1> PICK token, known :
       token = reqs[r].token /\ known = Reached(Written)
  OBVIOUS
<1> PICK user : user = row
  OBVIOUS
<1> PICK job : job = [at |-> "rotate", token |-> token, user |-> user, known |-> known]
  OBVIOUS
<1>1. /\ r \in DOMAIN reqs /\ reqs[r].at = "lookup" /\ Goto(r, job)
      /\ UNCHANGED <<row, cache, flight, live, denied, cutoff, now, sessions, held,
                     rotations, published, out>>
  BY DEF RefreshLookup, FreshUser, At, redis, issued, history
<1>2. r \in Reqs /\ reqs[r] \in Job /\ JobOK(reqs[r])
  BY <1>1, JobType
<1>3. token \in Sids
  BY <1>1, <1>2 DEF Job
<1>4. job \in Job
  BY <1>3, ReachedType DEF Job, IInv, TypeOK
<1>5. Covers(known, user.changedAt, user.password)
  <2> SUFFICES ASSUME NEW n \in known
               PROVE  \/ user.changedAt >= rotations[n].at
                      \/ /\ user.password \in DOMAIN rotations \ {n}
                         /\ rotations[user.password].at < rotations[n].at
    BY DEF Covers
  <2>1. user.password \in DOMAIN rotations /\ user.changedAt = rotations[user.password].at
    BY ReachedType DEF IInv, ChangesOK
  <2>2. rotations[n].at \in Ticks /\ rotations[user.password].at \in Ticks
    BY <2>1, ReachedType DEF IInv, TypeOK, Rotation
  <2> QED
    BY <2>1, <2>2, BoundAssumption DEF Ticks
<1>6. JobOK(job)'
  <2>1. JobOK(job)
    BY <1>1, <1>2, <1>5, ReachedType DEF JobOK, Finding, Refreshing, Changing
  <2>2. job.at # "fill"
    OBVIOUS
  <2> QED
    BY <1>1, <2>1, <2>2, JobKept
<1>7. \A q \in DOMAIN reqs : q # r => ~Clash(reqs[q], job)
  BY <1>1 DEF IInv, Distinct, Clash, Refreshing, Changing
<1> QED
  BY <1>1, <1>2, <1>4, <1>6, <1>7, QuietReads, Moves

LEMMA LogoutDeleteKeeps ==
    ASSUME IInv, NEW r, NEW s \in Sids, LogoutDelete(r, s)
    PROVE  IInv'
<1> PICK job : job = [at |-> "deny"]
  OBVIOUS
<1>1. /\ r \in Reqs /\ s \in held /\ Goto(r, job)
      /\ live' = live \ {s} /\ out' = out \cup ({s} \cap live)
      /\ UNCHANGED <<row, cache, flight, denied, cutoff, now, sessions, held, rotations, published>>
  BY DEF LogoutDelete, Free, issued
<1>2. job \in Job /\ JobOK(job)' /\ \A j : ~Clash(j, job)
  BY DEF Job, JobOK, Clash, Finding, Refreshing, Changing
<1>3. Quiet
  BY <1>1 DEF IInv, TypeOK, Quiet
<1> QED
  BY <1>1, <1>2, <1>3, Moves

LEMMA LogoutDenyKeeps ==
    ASSUME IInv, NEW r, LogoutDeny(r)
    PROVE  IInv'
<1>1. PICK a \in held :
         denied' = Put(denied, a, "default") /\ Goto(r, [at |-> "keep", sid |-> a])
  BY DEF LogoutDeny
<1> PICK job : job = [at |-> "keep", sid |-> a]
  OBVIOUS
<1>2. /\ r \in DOMAIN reqs /\ Goto(r, job)
      /\ UNCHANGED <<row, cache, flight, live, cutoff, now, sessions, held, rotations, published, out>>
  BY <1>1 DEF LogoutDeny, At, issued, history
<1>3. denied' \in [DOMAIN denied' -> TTL] /\ DOMAIN denied' \subseteq DOMAIN sessions
  BY <1>1 DEF Put, TTL, IInv, TypeOK
<1>4. r \in Reqs /\ job \in Job /\ JobOK(job)' /\ \A j : ~Clash(j, job)
  <2>1. r \in Reqs /\ a \in Sids
    BY <1>2, JobType DEF IInv, TypeOK
  <2> QED
    BY <2>1 DEF Job, JobOK, Clash, Finding, Refreshing, Changing
<1>5. Quiet
  BY <1>2, <1>3 DEF IInv, TypeOK, Quiet
<1> QED
  BY <1>2, <1>4, <1>5, Moves

LEMMA LogoutKeepKeeps ==
    ASSUME IInv, NEW r, LogoutKeep(r)
    PROVE  IInv'
<1>1. /\ Leave(r)
      /\ denied' = [a \in DOMAIN denied |-> IF a = reqs[r].sid THEN "own" ELSE denied[a]]
      /\ UNCHANGED <<row, cache, flight, live, cutoff, now, sessions, held, rotations, published, out>>
  BY DEF LogoutKeep, issued, history
<1>2. Quiet
  BY <1>1 DEF IInv, TypeOK, TTL, Quiet
<1> QED
  BY <1>1, <1>2, Moves

LEMMA ChangeLoadKeeps ==
    ASSUME IInv, NEW r, NEW password \in Passwords, ChangeLoad(r, password)
    PROVE  IInv'
<1> PICK job : job = [at |-> "verify", password |-> password, user |-> row]
  OBVIOUS
<1>1. /\ r \in Reqs /\ Goto(r, job)
      /\ UNCHANGED <<row, cache, flight, live, denied, cutoff, now, sessions, held,
                     rotations, published, out>>
  BY DEF ChangeLoad, Free, redis, issued, history
<1>2. job \in Job
  BY DEF Job, IInv, TypeOK
<1>3. JobOK(job)' /\ \A j : ~Clash(j, job)
  BY DEF JobOK, Clash, Finding, Refreshing, Changing
<1> QED
  BY <1>1, <1>2, <1>3, QuietReads, Moves

LEMMA ClockAndExpiryKeep ==
    ASSUME IInv, Quiet, UNCHANGED <<flight, reqs>>
    PROVE  IInv'
<1> PICK r : r \notin DOMAIN reqs'
  BY NoSetContainsEverything
<1>1. \A q \in DOMAIN reqs' : reqs[q].at = "fill" => flight' # None
  BY DEF IInv, JobOK
<1> QED
  BY <1>1, RequestStep DEF IInv, TypeOK

-----------------------------------------------------------------------------
(* Steps that hand on, mint or change.                                       *)

LEMMA FillCacheKeeps ==
    ASSUME IInv, NEW r, FillCache(r)
    PROVE  IInv'
<1> PICK user : user = flight
  OBVIOUS
<1>1. /\ r \in DOMAIN reqs /\ reqs[r].at = "fill" /\ cache' = user /\ flight' = None
      /\ reqs' = [q \in DOMAIN reqs |->
                    IF q = r \/ At(q, "wait")
                      THEN [at |-> "check", password |-> reqs[q].password,
                            user |-> user, known |-> reqs[q].known]
                      ELSE reqs[q]]
      /\ UNCHANGED <<row, live, denied, cutoff, now, sessions, held, rotations, published, out>>
  BY DEF FillCache, At, redis, issued, history
<1>2. user \in User /\ Fresh(Reached({"done"}), user.password)
  <2>1. user \in User /\ user # None
    BY <1>1 DEF IInv, TypeOK, JobOK
  <2> QED
    BY <2>1 DEF IInv, CopiesOK, CopyOK, Fresh, Reached
<1>3. ASSUME NEW q \in DOMAIN reqs
      PROVE  /\ reqs'[q] \in Job /\ reqs'[q].at # "fill" /\ JobOK(reqs[q])'
             /\ reqs'[q].at = "check" \/ reqs'[q] = reqs[q]
  <2>1. reqs[q] \in Job /\ JobOK(reqs[q])
    BY JobType
  <2>2. CASE q = r \/ At(q, "wait")
    <3>1. reqs[q].at \in {"fill", "wait"}
      BY <1>1, <2>2 DEF At
    <3>2. /\ reqs[q].password \in Passwords /\ reqs[q].known \in SUBSET (1..MaxChanges)
          /\ reqs[q].known \subseteq Reached({"done"})
      BY <2>1, <3>1 DEF Job, JobOK, Finding
    <3>3. reqs'[q] = [at |-> "check", password |-> reqs[q].password,
                      user |-> user, known |-> reqs[q].known]
      BY <1>1, <2>2
    <3>4. reqs'[q] \in Job /\ reqs'[q].at = "check"
      BY <1>2, <3>2, <3>3 DEF Job
    <3> PICK job : job = reqs'[q]
      OBVIOUS
    <3>5. job.at = "check" /\ job.user = user /\ job.known = reqs[q].known
      BY <3>3
    <3>6. Reached({"done"})' = Reached({"done"})
      BY <1>1 DEF Reached
    <3>7. JobOK(job)'
      BY <1>1, <1>2, <3>2, <3>5, <3>6 DEF JobOK, Fresh, Refreshing, Changing
    <3> QED
      BY <3>4, <3>7
  <2>3. CASE ~(q = r \/ At(q, "wait"))
    <3>1. reqs'[q] = reqs[q]
      BY <1>1, <2>3
    <3>2. reqs[q].at # "fill"
      BY <1>1, <2>3 DEF IInv, Distinct, Clash
    <3>3. PICK job : job = reqs[q]
      OBVIOUS
    <3>4. JobOK(job)'
      BY <1>1, <2>1, <3>2, <3>3, JobKept
    <3> QED
      BY <2>1, <3>1, <3>2, <3>3, <3>4
  <2> QED
    BY <2>2, <2>3
<1>4. DOMAIN reqs' = DOMAIN reqs
  BY <1>1
<1>5. TypeOK'
  <2>1. reqs' \in [DOMAIN reqs' -> Job]
    BY <1>1, <1>3
  <2> QED
    BY <1>1, <1>2, <1>4, <2>1 DEF IInv, TypeOK
<1>6. Distinct'
  BY <1>3, <1>4 DEF IInv, Distinct, Clash, Refreshing, Changing
<1>7. ChangesOK' /\ CutoffOK' /\ CopiesOK'
  BY <1>1, ChangesKept, CutoffKept, CopiesKept
<1>8. (\A s \in DOMAIN sessions : SessionOK(s))' /\ RefreshOnce'
  BY <1>1, SessionsKept DEF Growing
<1> QED
  BY <1>1, <1>3, <1>4, <1>5, <1>6, <1>7, <1>8 DEF IInv

LEMMA CrashKeeps ==
    ASSUME IInv, Crash
    PROVE  IInv'
<1>1. /\ reqs' = <<>> /\ cache' = None /\ flight' = None
      /\ UNCHANGED <<row, live, denied, cutoff, now, sessions, held, rotations, published, out>>
  BY DEF Crash, redis, issued, history
<1>2. DOMAIN reqs' = {} /\ reqs' \in [DOMAIN reqs' -> Job]
  BY <1>1
<1>3. TypeOK' /\ Distinct'
  BY <1>1, <1>2 DEF IInv, TypeOK, Distinct
<1>4. ChangesOK' /\ CutoffOK' /\ CopiesOK'
  BY <1>1, ChangesKept, CutoffKept, CopiesKept
<1>5. (\A s \in DOMAIN sessions : SessionOK(s))' /\ RefreshOnce'
  BY <1>1, SessionsKept DEF Growing
<1> QED
  BY <1>1, <1>2, <1>3, <1>4, <1>5 DEF IInv

(* A new pair: its parent, if any, was the request's and nobody else's.      *)
LEMMA MintKeeps ==
    ASSUME IInv, NEW r \in DOMAIN reqs, NEW parent, NEW password \in Passwords \cup {None},
           NEW known \in SUBSET (1..MaxChanges),
           Mint(r, parent, password, known),
           UNCHANGED <<row, cache, flight, live, denied, cutoff, now, held, rotations,
                       published, out>>,
           parent = None => known \subseteq Reached({"done"}) /\ Fresh(known, password),
           parent # None =>
              /\ reqs[r].at \in Refreshing /\ parent = reqs[r].token
              /\ known \subseteq DOMAIN rotations
              /\ \A n \in known :
                    \/ 2 * sessions[parent].iat > rotations[n].at
                    \/ /\ password \in DOMAIN rotations \ {n}
                       /\ rotations[password].at < rotations[n].at
    PROVE  IInv'
<1>1. PICK s \in Sids \ DOMAIN sessions :
         /\ sessions' = Put(sessions, s, [iat |-> SecondOf(now), parent |-> parent,
                                          password |-> password, known |-> known])
         /\ Goto(r, [at |-> "store", sid |-> s])
  BY DEF Mint
<1> PICK job : job = [at |-> "store", sid |-> s]
  OBVIOUS
<1>2. /\ DOMAIN sessions' = DOMAIN sessions \cup {s}
      /\ sessions'[s].parent = parent /\ sessions'[s].password = password
      /\ sessions'[s].known = known
      /\ \A t \in DOMAIN sessions : sessions'[t] = sessions[t]
  BY <1>1 DEF Put
<1>3. r \in Reqs /\ reqs[r] \in Job /\ JobOK(reqs[r])
  BY JobType
<1>4. parent # None => /\ parent \in (held \ live) \ out /\ parent \in Sids
                       /\ \A t \in DOMAIN sessions : sessions[t].parent # parent
  BY <1>3 DEF JobOK, IInv, TypeOK
<1>5. held \subseteq DOMAIN sessions /\ s \notin held
  BY DEF IInv, TypeOK
<1>6. /\ job \in Job /\ DOMAIN reqs' = DOMAIN reqs /\ reqs'[r] = job
      /\ \A q \in DOMAIN reqs : q # r => reqs'[q] = reqs[q]
      /\ reqs' \in [DOMAIN reqs' -> Job]
  BY <1>1 DEF Job, Goto, Put, IInv, TypeOK
<1>7. TypeOK'
  <2>1. SecondOf(now) \in 0..SecondOf(MaxTick)
    BY SecondType DEF IInv, TypeOK
  <2>2. [iat |-> SecondOf(now), parent |-> parent, password |-> password, known |-> known]
           \in Session
    BY <1>4, <2>1 DEF Session
  <2>3. DOMAIN sessions' \subseteq Sids /\ sessions' \in [DOMAIN sessions' -> Session]
    BY <1>1, <1>2, <2>2 DEF Put, IInv, TypeOK
  <2> QED
    BY <1>2, <1>6, <2>3 DEF IInv, TypeOK
<1>8. RefreshOnce'
  <2>1. parent \notin out
    BY <1>4, NoneAssumption DEF IInv, TypeOK
  <2> QED
    BY <1>2, <1>4, <2>1 DEF IInv, RefreshOnce
<1>9. ASSUME NEW t \in DOMAIN sessions' PROVE SessionOK(t)'
  <2>1. CASE t = s
    BY <1>2, <1>4, <1>5, <2>1 DEF SessionOK, Fresh, Reached
  <2>2. CASE t # s
    <3>1. t \in DOMAIN sessions /\ SessionOK(t) /\ sessions'[t] = sessions[t]
      BY <1>2, <1>9, <2>2 DEF IInv
    <3>2. sessions[t].parent # None => sessions'[sessions[t].parent] = sessions[sessions[t].parent]
      BY <1>2, <1>5, <3>1 DEF SessionOK
    <3> QED
      BY <3>1, <3>2 DEF SessionOK, Fresh, Reached
  <2> QED
    BY <2>1, <2>2
<1>10. ASSUME NEW q \in DOMAIN reqs' PROVE JobOK(reqs[q])'
  <2>1. CASE q = r
    BY <1>2, <1>5, <1>6, <2>1 DEF JobOK, Finding, Refreshing, Changing
  <2>2. CASE q # r
    <3> PICK j : j = reqs[q]
      OBVIOUS
    <3>1. j \in Job /\ JobOK(j) /\ reqs'[q] = j /\ q \in DOMAIN reqs
      BY <1>6, <1>10, <2>2, JobType
    <3>2. j.at \in Refreshing => j.token # parent
      <4>1. CASE parent = None
        BY <3>1, <4>1, NoneAssumption DEF IInv, TypeOK, JobOK
      <4>2. CASE parent # None
        BY <2>2, <3>1, <4>2 DEF IInv, Distinct, Clash
      <4> QED
        BY <4>1, <4>2
    <3>3. j.at \in Changing => StageOf(j.at)' = StageOf(j.at)
      BY DEF StageOf
    <3>4. JobOK(j)'
      BY <1>2, <3>1, <3>2, <3>3 DEF JobOK, Covers, Fresh, Reached
    <3> QED
      BY <3>1, <3>4
  <2> QED
    BY <2>1, <2>2
<1>11. Distinct'
  <2>1. \A p, q \in DOMAIN reqs' : p # r /\ q # r /\ Clash(reqs'[p], reqs'[q]) => p = q
    BY <1>6 DEF IInv, Distinct
  <2>2. \A q \in DOMAIN reqs : reqs[q].at = "store" => reqs[q].sid # s
    BY <1>1 DEF IInv, JobOK
  <2>3. \A q \in DOMAIN reqs' : q # r => ~Clash(reqs'[q], reqs'[r]) /\ ~Clash(reqs'[r], reqs'[q])
    BY <1>6, <2>2 DEF Clash, Refreshing, Changing
  <2> QED
    BY <2>1, <2>3 DEF Distinct
<1>12. ChangesOK' /\ CutoffOK' /\ CopiesOK'
  BY ChangesKept, CutoffKept, CopiesKept
<1> QED
  BY <1>7, <1>8, <1>9, <1>10, <1>11, <1>12 DEF IInv

LEMMA LoginMintKeeps ==
    ASSUME IInv, NEW r, LoginMint(r)
    PROVE  IInv'
<1>1. /\ r \in DOMAIN reqs /\ reqs[r].at = "check"
      /\ reqs[r].user.password = reqs[r].password
      /\ Mint(r, None, reqs[r].password, reqs[r].known)
      /\ UNCHANGED <<row, cache, flight, live, denied, cutoff, now, held, rotations, published, out>>
  BY DEF LoginMint, At, redis, history
<1>2. reqs[r].password \in Passwords /\ reqs[r].known \in SUBSET (1..MaxChanges)
  BY <1>1, JobType DEF Job
<1>3. reqs[r].known \subseteq Reached({"done"}) /\ Fresh(reqs[r].known, reqs[r].password)
  BY <1>1, JobType DEF JobOK, Finding
<1> QED
  BY <1>1, <1>2, <1>3, MintKeeps

LEMMA IdentityMintKeeps ==
    ASSUME IInv, NEW r, IdentityMint(r)
    PROVE  IInv'
  BY MintKeeps DEF IdentityMint, At, redis, history, Fresh

LEMMA RefreshMintKeeps ==
    ASSUME IInv, NEW r, RefreshMint(r)
    PROVE  IInv'
<1> PICK token, user, known :
       token = reqs[r].token /\ user = reqs[r].user /\ known = reqs[r].known
  OBVIOUS
<1>1. /\ r \in DOMAIN reqs /\ reqs[r].at = "rotate"
      /\ 2 * sessions[token].iat > user.changedAt
      /\ Mint(r, token, user.password, known)
      /\ UNCHANGED <<row, cache, flight, live, denied, cutoff, now, held, rotations, published, out>>
  BY DEF RefreshMint, IssuedAfter, At, redis, history
<1>2. reqs[r] \in Job /\ JobOK(reqs[r])
  BY <1>1, JobType
<1>3. token \in Sids /\ user \in User /\ known \in SUBSET (1..MaxChanges)
  BY <1>1, <1>2 DEF Job
<1>4. token \in held /\ token # None /\ known \subseteq DOMAIN rotations
      /\ Covers(known, user.changedAt, user.password)
  BY <1>1, <1>2, <1>3, NoneAssumption DEF JobOK, Refreshing
<1>5. user.password \in Passwords /\ user.changedAt \in Int
  BY <1>3, BoundAssumption DEF User, Ticks, Never
<1>6. sessions[token].iat \in Int
  BY <1>4 DEF IInv, TypeOK, Session
<1>7. ASSUME NEW n \in known
      PROVE  \/ 2 * sessions[token].iat > rotations[n].at
             \/ /\ user.password \in DOMAIN rotations \ {n}
                /\ rotations[user.password].at < rotations[n].at
  <2>1. rotations[n].at \in Int
    BY <1>4, BoundAssumption DEF IInv, TypeOK, Rotation, Ticks
  <2> QED
    BY <1>1, <1>4, <1>5, <1>6, <2>1 DEF Covers
<1> QED
  BY <1>1, <1>3, <1>4, <1>5, <1>7, MintKeeps DEF Refreshing

(* The id is stored before anybody knows the pair.                           *)
LEMMA StoreKeeps ==
    ASSUME IInv, NEW r, Store(r)
    PROVE  IInv'
<1> PICK s : s = reqs[r].sid
  OBVIOUS
<1>1. /\ r \in DOMAIN reqs /\ reqs[r].at = "store" /\ live' = live \cup {s}
      /\ held \subseteq held' /\ held' \subseteq held \cup {s} /\ Leave(r)
      /\ UNCHANGED <<row, cache, flight, denied, cutoff, now, sessions, rotations, published, out>>
  BY DEF Store, Remember, At, history
<1>2. s \in DOMAIN sessions \ held
  BY <1>1, JobType DEF JobOK
<1>3. /\ DOMAIN reqs' = DOMAIN reqs \ {r} /\ \A q \in DOMAIN reqs' : reqs'[q] = reqs[q]
      /\ reqs' \in [DOMAIN reqs' -> Job]
  BY <1>1 DEF Leave, Drop, IInv, TypeOK
<1>4. TypeOK'
  BY <1>1, <1>2, <1>3 DEF IInv, TypeOK
<1>5. (\A t \in DOMAIN sessions : SessionOK(t))' /\ RefreshOnce'
  BY <1>1, <1>2, SessionsKept DEF Growing
<1>6. ASSUME NEW q \in DOMAIN reqs' PROVE JobOK(reqs[q])'
  <2> PICK j : j = reqs[q]
    OBVIOUS
  <2>1. q \in DOMAIN reqs /\ q # r /\ reqs'[q] = j /\ JobOK(j)
    BY <1>3, <1>6, JobType
  <2>2. j.at = "store" => j.sid # s
    BY <1>1, <2>1 DEF IInv, Distinct, Clash
  <2>3. j.at \in Changing => StageOf(j.at)' = StageOf(j.at)
    BY DEF StageOf
  <2>4. JobOK(j)'
    BY <1>1, <1>2, <2>1, <2>2, <2>3 DEF JobOK, Covers, Fresh, Reached
  <2> QED
    BY <2>1, <2>4
<1>7. Distinct'
  BY <1>3 DEF IInv, Distinct
<1>8. ChangesOK' /\ CutoffOK' /\ CopiesOK'
  BY <1>1, ChangesKept, CutoffKept, CopiesKept
<1>9. out' \subseteq held' \ live'
  BY <1>1, <1>2 DEF IInv
<1> QED
  BY <1>4, <1>5, <1>6, <1>7, <1>8, <1>9 DEF IInv

-----------------------------------------------------------------------------
(* A change of the password, from its stamp to its cutoff.                   *)

LEMMA LatestType ==
    ASSUME IInv, published # <<>>
    PROVE  /\ Len(published) \in 1..Len(published)
           /\ published[Len(published)] \in DOMAIN rotations
  BY DEF IInv, TypeOK

LEMMA ChangeType ==
    ASSUME IInv, NEW r \in DOMAIN reqs, reqs[r].at \in Changing
    PROVE  /\ r \in Reqs
           /\ reqs[r].change \in DOMAIN rotations /\ reqs[r].change \in 1..MaxChanges
           /\ rotations[reqs[r].change] \in Rotation
           /\ ~rotations[reqs[r].change].kept
           /\ rotations[reqs[r].change].stage = StageOf(reqs[r].at)
  BY JobType DEF JobOK, IInv, TypeOK

LEMMA ChangeIsMine ==
    ASSUME IInv, NEW r \in DOMAIN reqs, reqs[r].at \in Changing
    PROVE  \A q \in DOMAIN reqs :
              q # r /\ reqs[q].at \in Changing => reqs[q].change # reqs[r].change
  BY DEF IInv, Distinct, Clash

(* One request moves change n on, or starts it; nobody else's moves.         *)
Advances(r, n) ==
    /\ \A m \in DOMAIN rotations : m # n => rotations'[m] = rotations[m]
    /\ \A q \in DOMAIN reqs : q # r /\ reqs[q].at \in Changing => reqs[q].change # n
    /\ \/ Leave(r)
       \/ \E job \in Job : /\ job.at \in Changing /\ job.change = n
                           /\ Goto(r, job) /\ JobOK(job)'

LEMMA ChangeStep ==
    ASSUME IInv, NEW r \in DOMAIN reqs, NEW n, Advances(r, n), Growing,
           UNCHANGED <<flight, live, denied, now, sessions, held, out>>,
           row' \in User, cache' \in {cache, None}, cutoff' \in Cutoff,
           DOMAIN rotations' \subseteq 1..MaxChanges,
           rotations' \in [DOMAIN rotations' -> Rotation],
           published' \in Seq(DOMAIN rotations'),
           ChangesOK', CutoffOK', CopiesOK'
    PROVE  IInv'
<1> DEFINE Moved ==
      /\ DOMAIN reqs' \subseteq DOMAIN reqs
      /\ \A q \in DOMAIN reqs' : q # r => reqs'[q] = reqs[q]
      /\ r \in DOMAIN reqs' => /\ reqs'[r].at \in Changing /\ reqs'[r].change = n
                               /\ JobOK(reqs[r])'
      /\ reqs' \in [DOMAIN reqs' -> Job]
<1>1. Moved
  <2>1. CASE Leave(r)
    BY <2>1 DEF Leave, Drop, IInv, TypeOK
  <2>2. ASSUME NEW job \in Job, job.at \in Changing, job.change = n, Goto(r, job), JobOK(job)'
        PROVE  Moved
    <3>1. reqs'[r] = job
      BY <2>2 DEF Goto, Put
    <3> QED
      BY <2>2, <3>1 DEF Goto, Put, IInv, TypeOK
  <2> QED
    BY <2>1, <2>2 DEF Advances
<1>2. TypeOK'
  BY <1>1 DEF IInv, TypeOK
<1>3. (\A s \in DOMAIN sessions : SessionOK(s))' /\ RefreshOnce'
  BY SessionsKept
<1>4. ASSUME NEW q \in DOMAIN reqs', q # r PROVE JobOK(reqs[q])'
  <2> PICK j : j = reqs[q]
    OBVIOUS
  <2>1. q \in DOMAIN reqs /\ reqs'[q] = j /\ JobOK(j)
    BY <1>1, <1>4, JobType
  <2>2. j.at \in Changing => j.change \in DOMAIN rotations' /\ rotations'[j.change] = rotations[j.change]
    BY <1>4, <2>1 DEF Advances, JobOK, Growing
  <2>3. j.at \in Changing => StageOf(j.at)' = StageOf(j.at)
    BY DEF StageOf
  <2>4. j.at \in Finding => j.known \subseteq Reached({"done"})'
    BY <2>1, KnownKept DEF JobOK
  <2>5. j.at = "check" => Fresh(j.known, j.user.password)'
    BY <2>1, KnownKept DEF JobOK, Finding
  <2>6. j.at = "rotate" => Covers(j.known, j.user.changedAt, j.user.password)'
    BY <2>1, CoversKept DEF JobOK
  <2>7. j.at = "rotate" => j.known \subseteq DOMAIN rotations'
    BY <2>1 DEF JobOK, Growing
  <2>8. JobOK(j)'
    BY <2>1, <2>2, <2>3, <2>4, <2>5, <2>6, <2>7 DEF JobOK
  <2> QED
    BY <2>1, <2>8
<1>5. Distinct'
  <2>1. \A p, q \in DOMAIN reqs' : p # r /\ q # r /\ Clash(reqs'[p], reqs'[q]) => p = q
    BY <1>1 DEF IInv, Distinct
  <2>2. \A q \in DOMAIN reqs' : q # r /\ r \in DOMAIN reqs' =>
           ~Clash(reqs'[q], reqs'[r]) /\ ~Clash(reqs'[r], reqs'[q])
    BY <1>1 DEF Advances, Clash, Refreshing, Changing
  <2> QED
    BY <2>1, <2>2 DEF Distinct
<1>6. out' \subseteq held' \ live'
  BY DEF IInv
<1> QED
  BY <1>1, <1>2, <1>3, <1>4, <1>5, <1>6 DEF IInv

(* A change that the cutoff is not about leaves it alone.                    *)
LEMMA CutoffStays ==
    ASSUME IInv, UNCHANGED <<cutoff, published>>,
           \A m \in DOMAIN rotations :
              rotations'[m].at = rotations[m].at /\ rotations'[m].kept = rotations[m].kept
    PROVE  CutoffOK'
<1>1. published # <<>> => Latest'.at = Latest.at /\ Latest'.kept = Latest.kept
  BY LatestType DEF Latest
<1> QED
  BY <1>1 DEF IInv, CutoffOK, SecondOf

LEMMA ChangeHashKeeps ==
    ASSUME IInv, NEW r, ChangeHash(r)
    PROVE  IInv'
<1> PICK n : n = Cardinality(DOMAIN rotations) + 1
  OBVIOUS
<1> PICK new : new = [at |-> now, stage |-> "hashed", over |-> None,
                      kept |-> FALSE, crossed |-> FALSE]
  OBVIOUS
<1> PICK job : job = [at |-> "write", change |-> n]
  OBVIOUS
<1>1. /\ r \in DOMAIN reqs /\ n <= MaxChanges
      /\ rotations' = Put(rotations, n, new) /\ Goto(r, job)
      /\ UNCHANGED <<row, cache, flight, live, denied, cutoff, now, sessions, held, published, out>>
  BY DEF ChangeHash, At, redis, issued
<1>2. PICK k \in 0..MaxChanges : DOMAIN rotations = 1..k
  BY DEF IInv, ChangesOK
<1>3. n = k + 1
  <2>1. Cardinality(1..k) = k
    BY <1>2, FS_Interval, BoundAssumption
  <2> QED
    BY <1>2, <2>1
<1>4. n \in 1..MaxChanges /\ n \notin DOMAIN rotations /\ k \in Nat
  BY <1>1, <1>2, <1>3, BoundAssumption
<1>5. /\ DOMAIN rotations' = DOMAIN rotations \cup {n} /\ rotations'[n] = new
      /\ \A m \in DOMAIN rotations : rotations'[m] = rotations[m]
  BY <1>1, <1>4 DEF Put
<1>6. job \in Job
  BY <1>4 DEF Job
<1>7. Growing
  BY <1>5 DEF Growing
<1>8. DOMAIN rotations' \subseteq 1..MaxChanges /\ rotations' \in [DOMAIN rotations' -> Rotation]
  <2>1. new \in Rotation
    BY DEF Rotation, IInv, TypeOK
  <2> QED
    BY <1>1, <1>4, <1>5, <2>1 DEF Put, IInv, TypeOK
<1>9. published' \in Seq(DOMAIN rotations')
  BY <1>1, <1>5 DEF IInv, TypeOK
<1>10. ASSUME NEW stages \in SUBSET Written PROVE Reached(stages)' = Reached(stages)
  <2>1. \A m : m \in Reached(stages)' <=> m \in Reached(stages)
    BY <1>4, <1>5 DEF Reached, Written
  <2> QED
    BY <2>1
<1>11. ChangesOK'
  <2>1. DOMAIN rotations' = 1..(k + 1) /\ k + 1 \in 0..MaxChanges
    <3>1. \A x : x \in 1..(k + 1) <=> x \in (1..k) \cup {k + 1}
      BY <1>4
    <3>2. 1..(k + 1) = (1..k) \cup {k + 1}
      BY <3>1
    <3> QED
      BY <1>2, <1>3, <1>4, <1>5, <3>2, BoundAssumption
  <2>2. row.password # n
    BY <1>2, <1>3, <1>4 DEF IInv, ChangesOK, Reached
  <2>3. IF Reached(Written)' = {} THEN row'.password = 0 ELSE row'.password \in Reached(Written)'
    BY <1>1, <1>10 DEF IInv, ChangesOK
  <2>4. row'.password \in DOMAIN rotations' => row'.changedAt = rotations'[row'.password].at
    BY <1>1, <1>5, <2>2 DEF IInv, ChangesOK
  <2> QED
    BY <2>1, <2>3, <2>4 DEF ChangesOK, Written
<1>12. CutoffOK'
  BY <1>1, <1>5, CutoffStays
<1>13. CopiesOK'
  <2>1. \A m \in Reached(Written) : rotations'[m] = rotations[m]
    BY <1>5 DEF Reached
  <2>2. CopyOK(cache)' /\ CopyOK(flight)'
    <3>1. Reached({"cleared", "done"})' = Reached({"cleared", "done"})
      BY <1>10 DEF Written
    <3>2. \A m \in Reached({"cleared", "done"}) : rotations'[m] = rotations[m]
      BY <1>5 DEF Reached
    <3> QED
      BY <1>1, <3>1, <3>2 DEF IInv, CopiesOK, CopyOK, Fresh
  <2>3. Reached(Written)' = Reached(Written) /\ Written' = Written
    BY <1>10 DEF Written
  <2> QED
    BY <1>1, <2>1, <2>2, <2>3 DEF IInv, CopiesOK
<1>14. JobOK(job)'
  BY <1>5 DEF JobOK, StageOf, Finding, Refreshing
<1>15. Advances(r, n)
  <2>1. \A q \in DOMAIN reqs : q # r /\ reqs[q].at \in Changing => reqs[q].change # n
    BY <1>4 DEF IInv, JobOK
  <2> QED
    BY <1>1, <1>5, <1>6, <1>14, <2>1 DEF Advances, Changing
<1>16. row' \in User /\ cutoff' \in Cutoff /\ cache' \in {cache, None}
  BY <1>1 DEF IInv, TypeOK
<1>17. r \in DOMAIN reqs /\ UNCHANGED <<flight, live, denied, now, sessions, held, out>>
  BY <1>1
<1> QED
  BY <1>7, <1>8, <1>9, <1>11, <1>12, <1>13, <1>15, <1>16, <1>17, ChangeStep

LEMMA ChangeWriteKeeps ==
    ASSUME IInv, NEW r, ChangeWrite(r)
    PROVE  IInv'
<1> PICK n : n = reqs[r].change
  OBVIOUS
<1> PICK job : job = [at |-> "clear", change |-> n]
  OBVIOUS
<1>1. /\ r \in DOMAIN reqs /\ reqs[r].at = "write"
      /\ row' = [row EXCEPT !.password = n, !.changedAt = rotations[n].at]
      /\ rotations' = [rotations EXCEPT ![n].stage = "written", ![n].over = row.password]
      /\ Goto(r, job)
      /\ UNCHANGED <<cache, flight, live, denied, cutoff, now, sessions, held, published, out>>
  BY DEF ChangeWrite, At, redis, issued
<1>2. /\ n \in DOMAIN rotations /\ n \in 1..MaxChanges /\ rotations[n] \in Rotation
      /\ ~rotations[n].kept /\ rotations[n].stage = "hashed"
      /\ \A q \in DOMAIN reqs : q # r /\ reqs[q].at \in Changing => reqs[q].change # n
  BY <1>1, ChangeType, ChangeIsMine DEF Changing, StageOf
<1>3. row \in User /\ row.password \in Passwords
  BY DEF IInv, TypeOK, User
<1>4. row' \in User /\ row'.password = n /\ row'.changedAt = rotations[n].at
  <2>1. n \in Passwords /\ rotations[n].at \in Ticks
    BY <1>2, BoundAssumption DEF Rotation, Passwords
  <2> QED
    BY <1>1, <1>3, <2>1 DEF User
<1>5. /\ DOMAIN rotations' = DOMAIN rotations
      /\ \A m \in DOMAIN rotations : m # n => rotations'[m] = rotations[m]
      /\ rotations'[n].at = rotations[n].at /\ rotations'[n].stage = "written"
      /\ rotations'[n].over = row.password /\ rotations'[n].kept = rotations[n].kept
      /\ rotations'[n] \in Rotation
  BY <1>1, <1>2, <1>3 DEF Rotation
<1>6. rotations' \in [DOMAIN rotations' -> Rotation]
  BY <1>1, <1>5 DEF IInv, TypeOK
<1>7. Growing
  BY <1>2, <1>5 DEF Growing
<1>8. Reached(Written)' = Reached(Written) \cup {n}
  <2>1. \A m : m \in Reached(Written)' <=> m \in Reached(Written) \cup {n}
    BY <1>2, <1>5 DEF Reached, Written
  <2> QED
    BY <2>1
<1>9. ChangesOK'
  <2>1. \E k \in 0..MaxChanges : DOMAIN rotations' = 1..k
    BY <1>5 DEF IInv, ChangesOK
  <2> QED
    BY <1>4, <1>5, <1>8, <2>1 DEF ChangesOK
<1>10. CutoffOK'
  BY <1>1, <1>2, <1>5, CutoffStays
<1>11. CopiesOK'
  <2>1. row.password \in {0} \cup Reached(Written) /\ n \notin Reached(Written) /\ n # 0
    BY <1>2 DEF IInv, ChangesOK, Reached, Written
  <2>2. ASSUME NEW m \in Reached(Written) \cup {n}
        PROVE  /\ rotations'[m].over \in {0} \cup Reached(Written) \cup {n}
               /\ rotations'[m].over # n
    <3>1. CASE m = n
      BY <1>5, <2>1, <3>1
    <3>2. CASE m # n
      <4>1. m \in Reached(Written) /\ rotations'[m] = rotations[m]
        BY <1>5, <2>2, <3>2 DEF Reached
      <4> QED
        BY <2>1, <4>1 DEF IInv, CopiesOK
    <3> QED
      BY <3>1, <3>2
  <2>3. \A m : m \in Reached({"cleared", "done"})' => m \in Reached({"cleared", "done"}) /\ m # n
    BY <1>5 DEF Reached
  <2>4. CopyOK(cache)' /\ CopyOK(flight)'
    <3>1. \A m \in Reached({"cleared", "done"})' : rotations'[m] = rotations[m]
      BY <1>5, <2>3 DEF Reached
    <3> QED
      BY <1>1, <2>3, <3>1 DEF IInv, CopiesOK, CopyOK, Fresh
  <2> QED
    BY <1>4, <1>8, <2>2, <2>4 DEF CopiesOK
<1>12. job \in Job /\ job.at \in Changing /\ JobOK(job)'
  BY <1>2, <1>5 DEF Job, JobOK, StageOf, Finding, Refreshing, Changing
<1>13. published' \in Seq(DOMAIN rotations') /\ DOMAIN rotations' \subseteq 1..MaxChanges
  BY <1>1, <1>5 DEF IInv, TypeOK
<1>14. cutoff' \in Cutoff /\ cache' \in {cache, None}
  BY <1>1 DEF IInv, TypeOK
<1>15. Advances(r, n)
  BY <1>1, <1>2, <1>5, <1>12 DEF Advances
<1>16. r \in DOMAIN reqs /\ UNCHANGED <<flight, live, denied, now, sessions, held, out>>
  BY <1>1
<1> QED
  BY <1>4, <1>6, <1>7, <1>9, <1>10, <1>11, <1>13, <1>14, <1>15, <1>16, ChangeStep

(* The copy that is left is the one a read has in flight.                    *)
LEMMA ChangeClearKeeps ==
    ASSUME IInv, NEW r, ChangeClear(r)
    PROVE  IInv'
<1> PICK n : n = reqs[r].change
  OBVIOUS
<1> PICK job : job = [at |-> "publish", change |-> n]
  OBVIOUS
<1>1. /\ r \in DOMAIN reqs /\ reqs[r].at = "clear" /\ Goto(r, job) /\ cache' = None
      /\ rotations' = [rotations EXCEPT
            ![n].stage = "cleared",
            ![n].crossed = flight # None /\ flight.password = rotations[n].over]
      /\ UNCHANGED <<row, flight, live, denied, cutoff, now, sessions, held, published, out>>
  BY DEF ChangeClear, Cleared, At, redis, issued
<1>2. /\ n \in DOMAIN rotations /\ n \in 1..MaxChanges /\ rotations[n] \in Rotation
      /\ ~rotations[n].kept /\ rotations[n].stage = "written"
      /\ \A q \in DOMAIN reqs : q # r /\ reqs[q].at \in Changing => reqs[q].change # n
  BY <1>1, ChangeType, ChangeIsMine DEF Changing, StageOf
<1>3. /\ DOMAIN rotations' = DOMAIN rotations
      /\ \A m \in DOMAIN rotations : m # n => rotations'[m] = rotations[m]
      /\ rotations'[n].at = rotations[n].at /\ rotations'[n].stage = "cleared"
      /\ rotations'[n].over = rotations[n].over /\ rotations'[n].kept = rotations[n].kept
      /\ rotations'[n].crossed = (flight # None /\ flight.password = rotations[n].over)
  BY <1>1, <1>2 DEF Rotation
<1>4. rotations' \in [DOMAIN rotations' -> Rotation]
  <2>1. rotations'[n] \in Rotation
    BY <1>1, <1>2 DEF Rotation
  <2> QED
    BY <1>1, <1>3, <2>1 DEF IInv, TypeOK
<1>5. Growing
  BY <1>2, <1>3 DEF Growing
<1>6. Reached(Written)' = Reached(Written)
  <2>1. \A m : m \in Reached(Written)' <=> m \in Reached(Written)
    BY <1>2, <1>3 DEF Reached, Written
  <2> QED
    BY <2>1
<1>7. ChangesOK'
  BY <1>1, <1>3, <1>6 DEF IInv, ChangesOK
<1>8. CutoffOK'
  BY <1>1, <1>2, <1>3, CutoffStays
<1>9. CopiesOK'
  <2>1. \A m \in Reached(Written) : rotations'[m].over = rotations[m].over
    BY <1>3 DEF Reached
  <2>2. CopyOK(flight)'
    <3> SUFFICES ASSUME flight # None, NEW m \in Reached({"cleared", "done"})',
                        flight.password = rotations'[m].over
                 PROVE  rotations'[m].crossed
      BY <1>1 DEF CopyOK, Fresh
    <3>1. CASE m = n
      BY <1>3, <3>1
    <3>2. CASE m # n
      <4>1. m \in Reached({"cleared", "done"}) /\ rotations'[m] = rotations[m]
        BY <1>3, <3>2 DEF Reached
      <4> QED
        BY <4>1 DEF IInv, CopiesOK, CopyOK, Fresh
    <3> QED
      BY <3>1, <3>2
  <2>3. CopyOK(cache)'
    BY <1>1 DEF CopyOK
  <2> QED
    BY <1>1, <1>6, <2>1, <2>2, <2>3 DEF IInv, CopiesOK
<1>10. job \in Job /\ job.at \in Changing /\ JobOK(job)'
  BY <1>2, <1>3 DEF Job, JobOK, StageOf, Finding, Refreshing, Changing
<1>11. published' \in Seq(DOMAIN rotations') /\ DOMAIN rotations' \subseteq 1..MaxChanges
  BY <1>1, <1>3 DEF IInv, TypeOK
<1>12. row' \in User /\ cutoff' \in Cutoff /\ cache' \in {cache, None}
  BY <1>1 DEF IInv, TypeOK
<1>13. Advances(r, n)
  BY <1>1, <1>2, <1>3, <1>10 DEF Advances
<1>14. r \in DOMAIN reqs /\ UNCHANGED <<flight, live, denied, now, sessions, held, out>>
  BY <1>1
<1> QED
  BY <1>4, <1>5, <1>7, <1>8, <1>9, <1>11, <1>12, <1>13, <1>14, ChangeStep

(* What the two calls of recordTokenCutoff have in common: the row and its   *)
(* copies are no longer their concern.                                       *)
LEMMA CutoffStep ==
    ASSUME IInv, NEW r \in DOMAIN reqs, NEW n, n = reqs[r].change,
           reqs[r].at \in {"publish", "prolong"},
           UNCHANGED <<row, cache, flight, live, denied, now, sessions, held, out>>,
           DOMAIN rotations' = DOMAIN rotations,
           Advances(r, n), rotations'[n] \in Rotation,
           rotations'[n].at = rotations[n].at, rotations'[n].over = rotations[n].over,
           rotations'[n].crossed = rotations[n].crossed,
           rotations'[n].stage \in {"cleared", "done"},
           rotations' \in [DOMAIN rotations' -> Rotation],
           cutoff' \in Cutoff, published' \in Seq(DOMAIN rotations'), CutoffOK'
    PROVE  IInv'
<1>1. /\ n \in DOMAIN rotations /\ rotations[n].stage = "cleared"
      /\ \A m \in DOMAIN rotations : m # n => rotations'[m] = rotations[m]
  BY ChangeType DEF Advances, Changing, StageOf
<1>2. Growing
  BY <1>1 DEF Growing
<1>3. ASSUME NEW stages \in {Written, {"cleared", "done"}} PROVE Reached(stages)' = Reached(stages)
  <2>1. \A m : m \in Reached(stages)' <=> m \in Reached(stages)
    BY <1>1 DEF Reached, Written
  <2> QED
    BY <2>1
<1>4. ChangesOK'
  <2>1. Reached(Written)' = Reached(Written)
    BY <1>3 DEF Written
  <2>2. \A m \in DOMAIN rotations : rotations'[m].at = rotations[m].at
    BY <1>1
  <2> QED
    BY <2>1, <2>2 DEF IInv, ChangesOK
<1>5. CopiesOK'
  <2>1. \A m \in DOMAIN rotations : /\ rotations'[m].over = rotations[m].over
                                   /\ rotations'[m].crossed = rotations[m].crossed
    BY <1>1
  <2>2. Reached(Written)' = Reached(Written) /\ Reached(Written) \subseteq DOMAIN rotations
    BY <1>3 DEF Reached, Written
  <2>3. /\ Reached({"cleared", "done"})' = Reached({"cleared", "done"})
        /\ Reached({"cleared", "done"}) \subseteq DOMAIN rotations
    BY <1>3 DEF Reached
  <2>4. CopyOK(cache)' /\ CopyOK(flight)'
    BY <2>1, <2>3 DEF IInv, CopiesOK, CopyOK, Fresh
  <2> QED
    BY <2>1, <2>2, <2>4 DEF IInv, CopiesOK
<1>6. row' \in User /\ cache' \in {cache, None} /\ DOMAIN rotations' \subseteq 1..MaxChanges
  BY DEF IInv, TypeOK
<1>7. UNCHANGED <<flight, live, denied, now, sessions, held, out>>
  OBVIOUS
<1> QED
  BY <1>2, <1>4, <1>5, <1>6, <1>7, ChangeStep

LEMMA ChangePublishKeeps ==
    ASSUME IInv, NEW r, ChangePublish(r)
    PROVE  IInv'
<1> PICK n : n = reqs[r].change
  OBVIOUS
<1> PICK job : job = [at |-> "prolong", change |-> n]
  OBVIOUS
<1> DEFINE Finished == rotations' = [rotations EXCEPT ![n].stage = "done"]
           Sets == /\ cutoff' = [second |-> SecondOf(rotations[n].at), ttl |-> "default"]
                   /\ published' = Append(published, n)
<1>1. /\ r \in DOMAIN reqs /\ reqs[r].at = "publish"
      /\ \/ Sets /\ Goto(r, job) /\ rotations' = rotations
         \/ Sets /\ Leave(r) /\ Finished
         \/ UNCHANGED <<cutoff, published>> /\ Leave(r) /\ Finished
      /\ UNCHANGED <<row, cache, flight, live, denied, now, sessions, held, out>>
  BY DEF ChangePublish, At, issued
<1>2. /\ n \in DOMAIN rotations /\ n \in 1..MaxChanges /\ rotations[n] \in Rotation
      /\ ~rotations[n].kept /\ rotations[n].stage = "cleared"
      /\ \A q \in DOMAIN reqs : q # r /\ reqs[q].at \in Changing => reqs[q].change # n
  BY <1>1, ChangeType, ChangeIsMine DEF Changing, StageOf
<1>3. /\ DOMAIN rotations' = DOMAIN rotations
      /\ \A m \in DOMAIN rotations : m # n => rotations'[m] = rotations[m]
      /\ rotations'[n].at = rotations[n].at /\ rotations'[n].over = rotations[n].over
      /\ rotations'[n].crossed = rotations[n].crossed /\ rotations'[n].kept = rotations[n].kept
      /\ rotations'[n].stage \in {"cleared", "done"}
      /\ rotations'[n] \in Rotation
  BY <1>1, <1>2 DEF Rotation
<1>4. rotations' \in [DOMAIN rotations' -> Rotation]
  BY <1>1, <1>3 DEF IInv, TypeOK
<1>5. CASE Sets
  <2>1. cutoff' \in Cutoff
    <3>1. SecondOf(rotations[n].at) \in 0..SecondOf(MaxTick)
      BY <1>2, SecondType DEF Rotation
    <3> QED
      BY <1>5, <3>1 DEF Cutoff, TTL
  <2>2. /\ published' \in Seq(DOMAIN rotations') /\ published' # <<>>
        /\ published'[Len(published')] = n
    BY <1>2, <1>3, <1>5 DEF IInv, TypeOK
  <2>3. CutoffOK'
    <3>1. Latest'.at = rotations[n].at /\ ~Latest'.kept
      BY <1>2, <1>3, <2>2 DEF Latest
    <3>2. SecondOf(rotations[n].at)' = SecondOf(rotations'[n].at)
      BY DEF SecondOf
    <3> QED
      BY <1>5, <2>2, <3>1 DEF CutoffOK, SecondOf
  <2>4. Advances(r, n)
    <3>1. rotations' = rotations => job \in Job /\ job.at \in Changing /\ JobOK(job)'
      BY <1>2 DEF Job, JobOK, StageOf, Finding, Refreshing, Changing
    <3>2. Leave(r) \/ (Goto(r, job) /\ job \in Job /\ job.at \in Changing /\ JobOK(job)')
      BY <1>1, <3>1
    <3> QED
      BY <1>2, <1>3, <3>2 DEF Advances
  <2> QED
    BY <1>1, <1>3, <1>4, <2>1, <2>2, <2>3, <2>4, CutoffStep
<1>6. CASE UNCHANGED <<cutoff, published>> /\ Leave(r)
  <2>1. cutoff' \in Cutoff /\ published' \in Seq(DOMAIN rotations')
    BY <1>3, <1>6 DEF IInv, TypeOK
  <2>2. CutoffOK'
    BY <1>3, <1>6, CutoffStays
  <2>3. Advances(r, n)
    BY <1>2, <1>3, <1>6 DEF Advances
  <2> QED
    BY <1>1, <1>3, <1>4, <2>1, <2>2, <2>3, CutoffStep
<1> QED
  BY <1>1, <1>5, <1>6

(* Whoever wrote the entry, it is the last change's; and it is there.        *)
LEMMA ChangeProlongKeeps ==
    ASSUME IInv, NEW r, ChangeProlong(r)
    PROVE  IInv'
<1> PICK n : n = reqs[r].change
  OBVIOUS
<1>1. PICK applied \in IF cutoff = NoCutoff THEN {FALSE} ELSE BOOLEAN :
         /\ cutoff' = IF applied THEN [cutoff EXCEPT !.ttl = "own"] ELSE cutoff
         /\ rotations' = [rotations EXCEPT ![n].stage = "done", ![n].kept = applied]
  BY DEF ChangeProlong
<1>2. /\ r \in DOMAIN reqs /\ reqs[r].at = "prolong" /\ Leave(r)
      /\ UNCHANGED <<row, cache, flight, live, denied, now, sessions, held, published, out>>
  BY DEF ChangeProlong, At, issued
<1>3. /\ n \in DOMAIN rotations /\ n \in 1..MaxChanges /\ rotations[n] \in Rotation
      /\ \A q \in DOMAIN reqs : q # r /\ reqs[q].at \in Changing => reqs[q].change # n
  BY <1>2, ChangeType, ChangeIsMine DEF Changing
<1>4. applied \in BOOLEAN /\ (applied => cutoff # NoCutoff)
  BY <1>1
<1>5. /\ DOMAIN rotations' = DOMAIN rotations
      /\ \A m \in DOMAIN rotations : m # n => rotations'[m] = rotations[m]
      /\ rotations'[n].at = rotations[n].at /\ rotations'[n].over = rotations[n].over
      /\ rotations'[n].crossed = rotations[n].crossed /\ rotations'[n].kept = applied
      /\ rotations'[n].stage = "done"
  BY <1>1, <1>3 DEF Rotation
<1>6. rotations'[n] \in Rotation
  BY <1>1, <1>3, <1>4 DEF Rotation
<1>7. rotations' \in [DOMAIN rotations' -> Rotation]
  BY <1>1, <1>5, <1>6 DEF IInv, TypeOK
<1>8. cutoff' \in Cutoff
  BY <1>1 DEF Cutoff, TTL, IInv, TypeOK
<1>9. published' \in Seq(DOMAIN rotations')
  BY <1>2, <1>5 DEF IInv, TypeOK
<1>10. CutoffOK'
  <2>1. published # <<>> =>
           /\ Latest'.at = Latest.at
           /\ Latest'.kept => Latest.kept \/ applied
    BY <1>2, <1>5, LatestType DEF Latest
  <2>2. CASE applied
    <3>1. cutoff # NoCutoff /\ cutoff' = [cutoff EXCEPT !.ttl = "own"] /\ cutoff \in Cutoff
      BY <1>1, <1>4, <2>2 DEF IInv, TypeOK
    <3>2. published # <<>> /\ cutoff.second = SecondOf(Latest.at)
      BY <3>1 DEF IInv, CutoffOK
    <3>3. cutoff' = [second |-> SecondOf(Latest.at), ttl |-> "own"]
      BY <3>1, <3>2 DEF Cutoff
    <3> QED
      BY <1>2, <2>1, <3>2, <3>3 DEF CutoffOK, SecondOf
  <2>3. CASE ~applied
    <3>1. cutoff' = cutoff
      BY <1>1, <2>3
    <3> QED
      BY <1>2, <2>1, <2>3, <3>1 DEF IInv, CutoffOK, SecondOf
  <2> QED
    BY <2>2, <2>3
<1>11. Advances(r, n)
  BY <1>2, <1>3, <1>5 DEF Advances
<1>12. /\ UNCHANGED <<row, cache, flight, live, denied, now, sessions, held, out>>
       /\ reqs[r].at \in {"publish", "prolong"}
  BY <1>2
<1> QED
  BY <1>2, <1>5, <1>6, <1>7, <1>8, <1>9, <1>10, <1>11, <1>12, CutoffStep

-----------------------------------------------------------------------------
LEMMA InitIInv == Init => IInv
<1> SUFFICES ASSUME Init PROVE IInv
  OBVIOUS
<1>1. row \in User /\ row.password = 0
  BY BoundAssumption DEF Init, User, Passwords
<1>2. DOMAIN rotations = {} /\ DOMAIN sessions = {} /\ DOMAIN reqs = {} /\ DOMAIN denied = {}
  BY DEF Init
<1>3. TypeOK
  <2>1. cutoff \in Cutoff
    BY DEF Init, Cutoff, NoCutoff, TTL
  <2>2. published \in Seq(DOMAIN rotations)
    BY DEF Init
  <2>3. denied \in [DOMAIN denied -> TTL]
    BY <1>2 DEF Init
  <2> QED
    BY <1>1, <1>2, <2>1, <2>2, <2>3, BoundAssumption DEF Init, TypeOK, Ticks
<1>4. ChangesOK
  <2>1. Reached(Written) = {}
    BY <1>2 DEF Reached
  <2>2. DOMAIN rotations = 1..0 /\ 0 \in 0..MaxChanges
    BY <1>2, BoundAssumption
  <2> QED
    BY <1>1, <1>2, <2>1, <2>2 DEF ChangesOK
<1>5. CutoffOK /\ CopiesOK
  BY <1>2 DEF Init, CutoffOK, CopiesOK, CopyOK, Reached
<1> QED
  BY <1>2, <1>3, <1>4, <1>5 DEF IInv, Init, Distinct, RefreshOnce

LEMMA NextIInv == IInv /\ [Next]_vars => IInv'
<1> SUFFICES ASSUME IInv, [Next]_vars PROVE IInv'
  OBVIOUS
<1>1. ASSUME NEW r \in Reqs, NEW password \in DOMAIN rotations \cup {0},
             LoginHit(r, password) \/ LoginMiss(r, password) \/ ChangeLoad(r, password)
      PROVE  IInv'
  <2>1. password \in Passwords
    BY BoundAssumption DEF IInv, TypeOK, Passwords
  <2> QED
    BY <1>1, <2>1, LoginHitKeeps, LoginMissKeeps, ChangeLoadKeeps
<1>2. ASSUME NEW r \in Reqs,
             \/ ReadRow(r) \/ JoinRead(r) \/ FillCache(r) \/ LoginMint(r)
             \/ Identify(r) \/ IdentityMint(r)
             \/ RefreshLookup(r) \/ RefreshMint(r) \/ Store(r)
      PROVE  IInv'
  BY <1>2, ReadRowKeeps, JoinReadKeeps, FillCacheKeeps, LoginMintKeeps, IdentifyKeeps,
     IdentityMintKeeps, RefreshLookupKeeps, RefreshMintKeeps, StoreKeeps
<1>3. ASSUME NEW r \in Reqs, NEW s \in Sids, RefreshTake(r, s) \/ LogoutDelete(r, s)
      PROVE  IInv'
  BY <1>3, RefreshTakeKeeps, LogoutDeleteKeeps
<1>4. ASSUME NEW r \in Reqs,
             \/ LogoutDeny(r) \/ LogoutKeep(r)
             \/ ChangeHash(r) \/ ChangeWrite(r) \/ ChangeClear(r)
             \/ ChangePublish(r) \/ ChangeProlong(r)
             \/ \E active \in BOOLEAN : SetActive(r, active)
             \/ SetActiveEvict(r) \/ Refused(r)
      PROVE  IInv'
  BY <1>4, LogoutDenyKeeps, LogoutKeepKeeps, ChangeHashKeeps, ChangeWriteKeeps, ChangeClearKeeps,
     ChangePublishKeeps, ChangeProlongKeeps, SetActiveKeeps, SetActiveEvictKeeps, RefusedKeeps
<1>5. CASE Expire
  <2>1. /\ cache' \in {cache, None} /\ live' \subseteq live
        /\ denied' = denied \/ \E a \in DOMAIN denied : denied' = Drop(denied, a)
        /\ cutoff' = cutoff \/ (cutoff.ttl = "default" /\ cutoff' = NoCutoff)
        /\ UNCHANGED <<row, flight, now, sessions, held, reqs, rotations, published, out>>
    BY <1>5 DEF Expire, Forget, redis, issued, history
  <2>2. denied' \in [DOMAIN denied' -> TTL] /\ DOMAIN denied' \subseteq DOMAIN sessions
    BY <2>1 DEF Drop, IInv, TypeOK
  <2>3. cutoff' \in Cutoff
    BY <2>1 DEF Cutoff, NoCutoff, TTL, IInv, TypeOK
  <2>4. Quiet
    BY <2>1, <2>2, <2>3 DEF Quiet, IInv, TypeOK
  <2> QED
    BY <2>1, <2>4, ClockAndExpiryKeep
<1>6. CASE Tick
  <2>1. now' \in Ticks
    BY <1>6, BoundAssumption DEF Tick, IInv, TypeOK, Ticks
  <2>2. Quiet
    BY <1>6, <2>1 DEF Tick, Quiet, redis, issued, history, IInv, TypeOK
  <2> QED
    BY <1>6, <2>2, ClockAndExpiryKeep DEF Tick
<1>7. CASE UNCHANGED vars
  <2>1. Quiet
    BY <1>7, QuietReads DEF vars
  <2> QED
    BY <1>7, <2>1, ClockAndExpiryKeep DEF vars
<1> QED
  BY <1>1, <1>2, <1>3, <1>4, <1>5, <1>6, <1>7, CrashKeeps DEF Next

LEMMA Inductive == Spec => []IInv
  BY InitIInv, NextIInv, PTL DEF Spec

-----------------------------------------------------------------------------
(* The theorems.                                                             *)

(* Types: of the row, its copies, Redis, the pairs and the requests.         *)
THEOREM TypeInvariant == Spec => []TypeOK
<1>1. IInv => TypeOK
  BY DEF IInv
<1> QED
  BY <1>1, Inductive, PTL

(* However many requests send a refresh token, one session comes of it, and  *)
(* none when a logout found its id.                                          *)
THEOREM TokensRefreshOnce == Spec => []RefreshOnce
<1>1. IInv => RefreshOnce
  BY DEF IInv
<1> QED
  BY <1>1, Inductive, PTL

(* A refresh that read the user after a password change was written opens no *)
(* session for a token older than the change.                                *)
THEOREM ChangesCloseSessions == Spec => []OldSessionsClose
<1>1. IInv => OldSessionsClose
  BY DEF IInv, SessionOK, OldSessionsClose
<1> QED
  BY <1>1, Inductive, PTL

LEMMA OldAccess == IInv => OldAccessRefused
<1> SUFFICES ASSUME IInv, NEW s \in DOMAIN sessions, NEW i \in DOMAIN published,
                    Accepted(s), rotations[published[i]].kept
             PROVE  \/ sessions[s].iat > SecondOf(rotations[published[i]].at)
                    \/ \E j \in DOMAIN published :
                          /\ i < j
                          /\ \/ rotations[published[j]].at < rotations[published[i]].at
                             \/ ~rotations[published[j]].kept
  BY DEF OldAccessRefused
<1> PICK l, change : l = Len(published) /\ change = rotations[published[i]]
  OBVIOUS
<1>1. /\ published # <<>> /\ i \in 1..l /\ l \in DOMAIN published /\ l \in Nat
      /\ published[i] \in DOMAIN rotations /\ published[l] \in DOMAIN rotations
  BY DEF IInv, TypeOK
<1>2. Latest.at \in Ticks /\ change.at \in Ticks /\ sessions[s].iat \in Int
      /\ Latest = rotations[published[l]]
  BY <1>1 DEF IInv, TypeOK, Rotation, Session, Latest
<1>3. CASE ~Latest.kept
  <2>1. i # l
    BY <1>2, <1>3
  <2> QED
    BY <1>1, <1>2, <1>3, <2>1
<1>4. CASE Latest.kept /\ Latest.at < change.at
  <2>1. i # l
    BY <1>2, <1>4 DEF Ticks
  <2> QED
    BY <1>1, <1>2, <1>4, <2>1
<1>5. CASE Latest.kept /\ ~(Latest.at < change.at)
  <2>1. sessions[s].iat > SecondOf(Latest.at)
    BY <1>1, <1>5 DEF Accepted, IInv, CutoffOK
  <2>2. change.at <= Latest.at /\ Latest.at <= Latest.at
    BY <1>2, <1>5, BoundAssumption DEF Ticks
  <2>3. SecondOf(change.at) <= SecondOf(Latest.at)
        /\ SecondOf(change.at) \in Int /\ SecondOf(Latest.at) \in Int
    BY <1>2, <2>2, SecondIsMonotone
  <2> QED
    BY <1>2, <2>1, <2>3
<1> QED
  BY <1>3, <1>4, <1>5

(* A cutoff that was published and prolonged refuses the access tokens of    *)
(* its second and before, until another one takes its place.                 *)
THEOREM CutoffsRefuseAccess == Spec => []OldAccessRefused
  BY OldAccess, Inductive, PTL

(* A password that a completed change replaced opens no session asked for    *)
(* afterwards, but through a read the change crossed.                        *)
THEOREM ReplacedPasswordsDie == Spec => []OldPasswordDies
<1>1. IInv => OldPasswordDies
  BY DEF IInv, SessionOK, OldPasswordDies, Fresh
<1> QED
  BY <1>1, Inductive, PTL

LEMMA NothingComesBack ==
    IInv /\ [Next]_vars => [\A s \in held : s \notin live => s \notin live']_vars
<1> SUFFICES ASSUME IInv, Next PROVE \A s \in held : s \notin live => s \notin live'
  OBVIOUS
<1>1. ASSUME NEW r, Store(r) PROVE live' \cap held \subseteq live
  <2>1. reqs[r].sid \notin held /\ live' = live \cup {reqs[r].sid}
    BY <1>1, JobType DEF Store, Remember, At, JobOK
  <2> QED
    BY <2>1
<1>2. (~\E r \in Reqs : Store(r)) => live' \subseteq live
  BY DEF Next, LoginHit, LoginMiss, ChangeLoad, ReadRow, JoinRead, FillCache, LoginMint, Identify,
         IdentityMint, RefreshLookup, RefreshMint, RefreshTake, Taken, LogoutDelete, LogoutDeny,
         LogoutKeep, ChangeHash, ChangeWrite, ChangeClear, ChangePublish, ChangeProlong,
         SetActive, SetActiveEvict, Refused, Crash, Expire, Forget, Tick, redis
<1> QED
  BY <1>1, <1>2

(* A refresh id that has left Redis never comes back.                        *)
THEOREM GoneForGood == Spec => GoneStaysGone
<1>1. IInv /\ [Next]_vars => [\A s \in held : s \notin live => s \notin live']_vars
  BY NothingComesBack
<1> QED
  BY <1>1, Inductive, PTL DEF Spec, GoneStaysGone

=============================================================================
