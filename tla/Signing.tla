------------------------------ MODULE Signing -------------------------------
(* A citizen signs a document, or a digest, with the key on his phone        *)
(* (usecases/sign).  The session is one Redis value beside the session of    *)
(* the national eID; whoever polls reads it, asks the eID and writes it back *)
(* whole, several at once: the page, and the app that wants the digest.      *)
EXTENDS Naturals

CONSTANTS
    Sessions,  \* session ids, never given twice
    Readers,   \* requests that read a session at once
    MaxFaults  \* bound: Redis writes that fail, values that expire

VARIABLES
    stored,  \* the state in Redis, by session
    remote,  \* what the eID says, by session
    started, \* history: the sessions the citizen was told of
    reads,   \* the requests under way
    told,    \* history: the ends somebody was told of
    faults

vars == <<stored, remote, started, reads, told, faults>>

(* COMPLETE with an end result, or still RUNNING.                            *)
EndResults == {"OK", "USER_REFUSED", "OTHER"}
Terminal == {"completed", "rejected", "failed"}
States == {"running"} \cup Terminal

StateOf(end) ==
    CASE end = "OK" -> "completed"
      [] end = "USER_REFUSED" -> "rejected"
      [] OTHER -> "failed"

Kinds == {"Poll", "VerifiedDigest", "Download"}
Read == [kind: Kinds, session: Sessions, at: {"ask", "save", "again", "answer"}, state: States]

Types ==
    /\ DOMAIN stored \subseteq Sessions /\ \A s \in DOMAIN stored : stored[s] \in States
    /\ remote \in [Sessions -> {"RUNNING"} \cup EndResults]
    /\ started \subseteq Sessions
    /\ DOMAIN reads \subseteq Readers /\ \A r \in DOMAIN reads : reads[r] \in Read
    /\ told \subseteq Sessions \X Terminal
    /\ faults \in 0..MaxFaults

Init ==
    /\ stored = <<>> /\ remote = [s \in Sessions |-> "RUNNING"]
    /\ started = {} /\ reads = <<>> /\ told = {} /\ faults = 0

Put(f, k, v) == [x \in DOMAIN f \cup {k} |-> IF x = k THEN v ELSE f[x]]
Drop(f, k) == [x \in DOMAIN f \ {k} |-> f[x]]
At(r, place) == r \in DOMAIN reads /\ reads[r].at = place
Mine(r) == reads[r].session
Fault == faults < MaxFaults /\ faults' = faults + 1

(* Init and InitDigest: the eID session first, then the value in Redis; when *)
(* that write fails the citizen is never told of the session.                *)
InitSession(s) ==
    /\ s \notin started
    /\ stored' = Put(stored, s, "running") /\ started' = started \cup {s}
    /\ UNCHANGED <<remote, reads, told, faults>>

(* On his phone, once: PIN2, a refusal, or the time is up.                   *)
CitizenDecides(s) ==
    /\ s \in started /\ remote[s] = "RUNNING"
    /\ remote' \in {[remote EXCEPT ![s] = end] : end \in EndResults}
    /\ UNCHANGED <<stored, started, reads, told, faults>>

(* loadState: Poll and VerifiedDigest ask the eID when it is still running,  *)
(* Download does not.                                                        *)
LoadState(r, kind, s) ==
    /\ r \notin DOMAIN reads /\ s \in DOMAIN stored
    /\ reads' = Put(reads, r,
           [kind |-> kind, session |-> s, state |-> stored[s],
            at |-> IF stored[s] = "running" /\ kind # "Download" THEN "ask" ELSE "answer"])
    /\ UNCHANGED <<stored, remote, started, told, faults>>

Poll(r) ==
    /\ At(r, "ask") /\ remote[Mine(r)] # "RUNNING"
    /\ reads' = [reads EXCEPT ![r].at = "save", ![r].state = StateOf(remote[Mine(r)])]
    /\ UNCHANGED <<stored, remote, started, told, faults>>

(* The poll does not reach the eID, or nothing was decided yet.              *)
(* Mutant of Unanswered: what cannot be asked has failed.                    *)
UnansweredFails(r) == reads' = [reads EXCEPT ![r].at = "save", ![r].state = "failed"]

Unanswered(r) == reads' = [reads EXCEPT ![r].at = "answer"]

NoAnswer(r) ==
    /\ At(r, "ask") /\ Unanswered(r)
    /\ UNCHANGED <<stored, remote, started, told, faults>>

(* saveState; VerifiedDigest then reads again what it has just polled.       *)
AfterSave(r) == IF reads[r].kind = "VerifiedDigest" THEN "again" ELSE "answer"

SaveState(r) ==
    /\ At(r, "save")
    /\ stored' = Put(stored, Mine(r), reads[r].state)
    /\ reads' = [reads EXCEPT ![r].at = AfterSave(r)]
    /\ UNCHANGED <<remote, started, told, faults>>

(* An error of the write is ignored: the answer is given, the value stays.   *)
SaveFails(r) ==
    /\ At(r, "save") /\ Fault
    /\ reads' = [reads EXCEPT ![r].at = AfterSave(r)]
    /\ UNCHANGED <<stored, remote, started, told>>

LoadAgain(r) ==
    /\ At(r, "again") /\ Mine(r) \in DOMAIN stored
    /\ reads' = [reads EXCEPT ![r].at = "answer", ![r].state = stored[Mine(r)]]
    /\ UNCHANGED <<stored, remote, started, told, faults>>

(* The state of a Poll; for the other two only "completed" gives the digest  *)
(* or the signed document.                                                   *)
Answer(r) ==
    /\ At(r, "answer")
    /\ told' = told \cup ({<<Mine(r), reads[r].state>>} \cap (Sessions \X Terminal))
    /\ reads' = Drop(reads, r)
    /\ UNCHANGED <<stored, remote, started, faults>>

(* The value is gone, or the request dies.                                   *)
Fails(r) ==
    /\ r \in DOMAIN reads /\ reads' = Drop(reads, r)
    /\ UNCHANGED <<stored, remote, started, told, faults>>

Expire(s) ==
    /\ s \in DOMAIN stored /\ Fault
    /\ stored' = Drop(stored, s)
    /\ UNCHANGED <<remote, started, reads, told>>

Next ==
    \/ \E s \in Sessions : InitSession(s) \/ CitizenDecides(s) \/ Expire(s)
    \/ \E r \in Readers, s \in Sessions, kind \in Kinds : LoadState(r, kind, s)
    \/ \E r \in Readers :
          \/ Poll(r) \/ NoAnswer(r) \/ SaveState(r) \/ SaveFails(r) \/ LoadAgain(r)
          \/ Answer(r) \/ Fails(r)

Spec == Init /\ [][Next]_vars

-----------------------------------------------------------------------------
(* Whoever asks, in whatever order the polls write, lose their write or      *)
(* expire, every end they are told of is the citizen's own decision: nobody  *)
(* is given a document or a digest that he did not sign, and nobody is told  *)
(* it failed when he did (sign_usecase.go, Poll; sign_digest.go).            *)
AnswersAgree ==
    \A s \in Sessions, state \in Terminal :
       <<s, state>> \in told => remote[s] # "RUNNING" /\ state = StateOf(remote[s])
=============================================================================
