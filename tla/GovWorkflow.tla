----------------------------- MODULE GovWorkflow -----------------------------
(* The government services portal (core/business/usecases/gov and its        *)
(* Postgres repository): citizens apply, cancel and answer questions,        *)
(* officers take, decide, question and deliver applications, and every       *)
(* replica runs a sweep that marks what is overdue and grants what the law   *)
(* grants by silence.                                                        *)
(*                                                                           *)
(* Each transaction of the repository is one step.  The timeline holds the   *)
(* entries that are written in the transaction of what they record; the      *)
(* entries and the acknowledgements that a handler writes after its commit,  *)
(* and whose failure it only logs, are left out, except the notices of the   *)
(* sweep.  Row-level security is the role a transaction runs under: a        *)
(* citizen's role, unless the citizen is an administrator, may read the      *)
(* timeline and not write it.                                                *)
(*                                                                           *)
(* worked and answered are history: no guard reads them.                     *)
EXTENDS Integers, FiniteSets

CONSTANTS
    Apps,       \* ids of applications
    Services,   \* the catalogue
    Automated,  \* services fulfilled from a registry, without an officer
    Discretion, \* services marked as needing an officer's judgement
    Document,   \* services whose grant issues a reference
    Tacit,      \* services granted by silence
    Clocked,    \* services with a deadline: sla_hours above 0
    Officers,
    Grants,     \* results an officer may write on an approval
    Requests,   \* handlers at work
    Sweepers,   \* replicas whose sweep is at work
    None,       \* no service, nobody, no time
    Sla,        \* ticks an officer has
    MaxTick,    \* bound: the clock stops here
    MaxFaults   \* bound: crashes and failed statements of sweeps

ASSUME BoundAssumption == Sla \in Nat /\ MaxTick \in Nat /\ MaxFaults \in Nat
ASSUME CatalogueAssumption ==
    /\ Automated \cup Discretion \cup Document \cup Tacit \cup Clocked \subseteq Services
    /\ None \notin Services /\ None \notin Officers /\ None \notin Int
    /\ Grants \subseteq {"granted", "refused", "withdrawn", "not_admissible", "processed"}
ASSUME WorkerAssumption == Requests \cap Sweepers = {}

VARIABLES
    now,        \* the clock
    rows,       \* gov_applications
    references, \* gov_references issued for an application, counted
    notices,    \* gov_notifications about an application, by kind: 0, 1 or many
    timeline,   \* gov_application_events of an application, by type
    jobs,       \* what handlers and sweeps hold between two transactions
    faults,     \* how much has gone wrong with sweeps
    worked,     \* ticks an application was with the office
    answered    \* applications whose citizen has answered the last question

vars == <<now, rows, references, notices, timeline, jobs, faults, worked, answered>>
tables == <<rows, references, notices, timeline>>
history == <<worked, answered>>

-----------------------------------------------------------------------------
Statuses == {"submitted", "registered", "in_review", "info_required", "approved",
             "rejected", "completed", "cancelled", "expired"}
Results == {"granted", "refused", "withdrawn", "not_admissible", "processed"}
ASSUME NoneAssumption == None \notin Results \cup Statuses \cup {"clock", "citizen", "registry"}

(* The table of allowed transitions.                                         *)
Transitions ==
    [ submitted     |-> {"registered", "cancelled"},
      registered    |-> {"in_review", "info_required", "approved", "completed",
                         "rejected", "cancelled", "expired"},
      in_review     |-> {"info_required", "approved", "completed", "rejected",
                         "cancelled", "expired"},
      info_required |-> {"in_review", "approved", "completed", "rejected",
                         "cancelled", "expired"},
      approved      |-> {"completed"},
      rejected      |-> {}, completed |-> {}, cancelled |-> {}, expired |-> {} ]

CanTransition(from, to) == to \in Transitions[from]

Times == 0..(MaxTick + Sla)
Row ==
    [service: Services \cup {None}, role: {"user", "admin"}, status: Statuses,
     result: Results \cup {None}, assigned: Officers \cup {None},
     decidedBy: Officers \cup {None}, due: Times \cup {None},
     suspended: (0..MaxTick) \cup {None}, breached: BOOLEAN, tacit: BOOLEAN,
     output: BOOLEAN]

Kinds == {"ready", "approved", "refused", "delivered", "overdue", "silence"}
EventTypes == {"assigned", "decided", "delivered", "info_requested", "info_provided"}

Many == 2

Decision ==
    [at: {"decide"}, app: Apps, officer: Officers, target: Statuses,
     result: Results, output: BOOLEAN, kind: Kinds]
Sweep == [at: {"overdue", "silence"}, list: SUBSET Apps]

(* The type invariant: rows and jobs have their columns, and what is counted *)
(* or recorded of an application belongs to one (domain_gov.go, migration    *)
(* 44).                                                                      *)
TypeOK ==
    /\ now \in 0..MaxTick /\ faults \in 0..MaxFaults
    /\ DOMAIN rows \subseteq Apps /\ rows \in [DOMAIN rows -> Row]
    /\ references \in [Apps -> Nat]
    /\ notices \in [Apps -> [Kinds -> 0..Many]]
    /\ timeline \in [Apps -> SUBSET EventTypes]
    /\ DOMAIN jobs \subseteq Requests \cup Sweepers
    /\ \A r \in DOMAIN jobs \cap Requests : jobs[r] \in Decision
    /\ \A w \in DOMAIN jobs \cap Sweepers : jobs[w] \in Sweep
    /\ worked \in [Apps -> 0..MaxTick]
    /\ answered \subseteq Apps

-----------------------------------------------------------------------------
Put(f, k, v) == [x \in DOMAIN f \cup {k} |-> IF x = k THEN v ELSE f[x]]
Drop(f, k) == [x \in DOMAIN f \ {k} |-> f[x]]
Free(r) == r \in Requests \ DOMAIN jobs
At(w, place) == w \in DOMAIN jobs /\ jobs[w].at = place
StatusIn(a, set) == a \in DOMAIN rows /\ rows[a].status \in set

Told(a, kind) == [notices EXCEPT ![a][kind] = IF @ = Many THEN Many ELSE @ + 1]
Logged(a, event) == [timeline EXCEPT ![a] = @ \cup {event}]

(* Row-level security of the timeline: WITH CHECK (false) for a citizen.     *)
MayLog(role) == role # "user"

(* A row with no service and no deadline, as the ones from before the        *)
(* workflow are.                                                             *)
Fresh(role, status) ==
    [service |-> None, role |-> role, status |-> status, result |-> None,
     assigned |-> None, decidedBy |-> None, due |-> None, suspended |-> None,
     breached |-> FALSE, tacit |-> FALSE, output |-> FALSE]

Init ==
    /\ now = 0 /\ faults = 0
    /\ \E old \in SUBSET Apps, role \in {"user", "admin"},
          status \in {"submitted", "in_review"} :
          rows = [a \in old |-> Fresh(role, status)]
    /\ references = [a \in Apps |-> 0]
    /\ notices = [a \in Apps |-> [k \in Kinds |-> 0]]
    /\ timeline = [a \in Apps |-> {}]
    /\ jobs = <<>>
    /\ worked = [a \in Apps |-> 0]
    /\ answered = {}

-----------------------------------------------------------------------------
(* The citizen.                                                              *)

Automatic(s) == s \in Automated \ Discretion

(* applyAuto: the application, its reference and its notice in one           *)
(* transaction; only the timeline entry comes after it.                      *)
ApplyAuto(a, s, role) ==
    /\ a \notin DOMAIN rows /\ Automatic(s)
    /\ rows' = Put(rows, a, [Fresh(role, "completed") EXCEPT
                   !.service = s, !.result = "processed",
                   !.output = s \in Document])
    /\ references' = [references EXCEPT ![a] = IF s \in Document THEN @ + 1 ELSE @]
    /\ notices' = Told(a, "ready")
    /\ UNCHANGED <<now, timeline, jobs, faults, history>>

Deadline(s) == IF s \in Clocked THEN now + Sla ELSE None

(* applyManual: the deadline, if the service has one, is stamped here, once. *)
ApplyManual(a, s, role) ==
    /\ a \notin DOMAIN rows /\ ~Automatic(s)
    /\ rows' = Put(rows, a, [Fresh(role, "registered") EXCEPT
                   !.service = s, !.due = Deadline(s)])
    /\ UNCHANGED <<now, references, notices, timeline, jobs, faults, history>>

Cancel(a) ==
    /\ a \in DOMAIN rows /\ CanTransition(rows[a].status, "cancelled")
    /\ rows' = [rows EXCEPT ![a].status = "cancelled", ![a].result = "withdrawn"]
    /\ UNCHANGED <<now, references, notices, timeline, jobs, faults, history>>

(* Mutants of Resumed: the deadline stays where it was; the deadline moves   *)
(* by the whole clock.                                                       *)
ResumedOnTime(row) == [row EXCEPT !.status = "in_review", !.suspended = None]
ResumedFromNow(row) ==
    [row EXCEPT !.status = "in_review", !.suspended = None,
                !.due = IF @ # None THEN @ + now ELSE @]

(* ResumeFromInfo's UPDATE: the deadline moves by as long as the clock       *)
(* stood still.                                                              *)
Resumed(row) ==
    [row EXCEPT !.status = "in_review", !.suspended = None,
                !.due = IF @ # None /\ row.suspended # None
                        THEN @ + (now - row.suspended) ELSE @]

(* ProvideInfo: the timeline entry is part of the transaction, so the        *)
(* citizen's own role rolls all of it back.                                  *)
ProvideInfo(a) ==
    /\ StatusIn(a, {"info_required"})
    /\ answered' = answered \cup {a}
    /\ IF MayLog(rows[a].role)
       THEN /\ rows' = [rows EXCEPT ![a] = Resumed(@)]
            /\ timeline' = Logged(a, "info_provided")
       ELSE UNCHANGED <<rows, timeline>>
    /\ UNCHANGED <<now, references, notices, jobs, faults, worked>>

-----------------------------------------------------------------------------
(* The officer.                                                              *)

Assign(a, o) ==
    /\ StatusIn(a, {"submitted", "registered", "in_review"})
    /\ rows[a].assigned \in {None, o}
    /\ rows' = [rows EXCEPT ![a].status = "in_review", ![a].assigned = o]
    /\ timeline' = Logged(a, "assigned")
    /\ UNCHANGED <<now, references, notices, jobs, faults, history>>

(* Decide reads the application and then its service (a service that cannot  *)
(* be read counts as one without a reference) and checks the table of        *)
(* transitions on what it read.                                              *)
ReadForDecision(r, a, o) ==
    /\ Free(r) /\ a \in DOMAIN rows
    /\ \E approve \in BOOLEAN, found \in BOOLEAN, grant \in Grants :
        LET output == approve /\ found /\ rows[a].service \in Document
            target == IF output THEN "completed"
                      ELSE IF approve THEN "approved" ELSE "rejected"
        IN  /\ CanTransition(rows[a].status, target)
            /\ jobs' = Put(jobs, r,
                  [at |-> "decide", app |-> a, officer |-> o, target |-> target,
                   result |-> IF approve THEN grant ELSE "refused",
                   output |-> output,
                   kind |-> IF output THEN "ready"
                            ELSE IF approve THEN "approved" ELSE "refused"])
    /\ UNCHANGED <<now, tables, faults, history>>

(* Mutant of Decidable: what use-case checks have let through is written.    *)
DecidableUnguarded == Statuses

Decidable == {"registered", "in_review", "info_required"}

(* DecideApplication: the row as it is by now decides; row, reference,       *)
(* notice and timeline entry in one transaction.                             *)
Decide(r) ==
    /\ At(r, "decide")
    /\ LET j == jobs[r]
       IN  /\ rows[j.app].status \in Decidable
           /\ rows' = [rows EXCEPT ![j.app].status = j.target, ![j.app].result = j.result,
                                   ![j.app].decidedBy = j.officer, ![j.app].output = j.output]
           /\ references' = [references EXCEPT ![j.app] = IF j.output THEN @ + 1 ELSE @]
           /\ notices' = Told(j.app, j.kind)
           /\ timeline' = Logged(j.app, "decided")
    /\ jobs' = Drop(jobs, r)
    /\ UNCHANGED <<now, faults, history>>

(* Conflict, or a request that ends before its transaction.                  *)
DecideFails(r) ==
    /\ At(r, "decide")
    /\ jobs' = Drop(jobs, r)
    /\ UNCHANGED <<now, tables, faults, history>>

Complete(a) ==
    /\ StatusIn(a, {"approved"})
    /\ rows' = [rows EXCEPT ![a].status = "completed"]
    /\ notices' = Told(a, "delivered")
    /\ timeline' = Logged(a, "delivered")
    /\ UNCHANGED <<now, references, jobs, faults, history>>

RequestInfo(a) ==
    /\ StatusIn(a, {"registered", "in_review"})
    /\ rows' = [rows EXCEPT ![a].status = "info_required", ![a].suspended = now]
    /\ timeline' = Logged(a, "info_requested")
    /\ answered' = answered \ {a}
    /\ UNCHANGED <<now, references, notices, jobs, faults, worked>>

-----------------------------------------------------------------------------
(* The sweep, once a minute on every replica.                                *)

Overdue(row) == row.suspended = None /\ row.due # None /\ row.due < now

(* Mutants of ToMark and ToGrant: no latch on what is marked; marked rows    *)
(* are taken for settled.                                                    *)
ToMarkAgain == {a \in DOMAIN rows :
    rows[a].status \in {"submitted", "registered", "in_review"} /\ Overdue(rows[a])}
ToGrantUnmarked == {a \in DOMAIN rows :
    /\ rows[a].service \in Tacit /\ ~rows[a].breached
    /\ rows[a].status \in {"registered", "in_review"} /\ Overdue(rows[a])}

ToMark == {a \in DOMAIN rows :
    /\ rows[a].status \in {"submitted", "registered", "in_review"}
    /\ Overdue(rows[a]) /\ ~rows[a].breached}

ToGrant == {a \in DOMAIN rows :
    /\ rows[a].service \in Tacit
    /\ rows[a].status \in {"registered", "in_review"} /\ Overdue(rows[a])}

MarkSLABreached(w) ==
    /\ w \in Sweepers \ DOMAIN jobs
    /\ rows' = [a \in DOMAIN rows |->
                  IF a \in ToMark THEN [rows[a] EXCEPT !.breached = TRUE] ELSE rows[a]]
    /\ jobs' = Put(jobs, w, [at |-> "overdue", list |-> ToMark])
    /\ UNCHANGED <<now, references, notices, timeline, faults, history>>

(* The notice of one row of the list, which may fail.                        *)
TellRow(w) ==
    \E a \in jobs[w].list :
        /\ jobs' = [jobs EXCEPT ![w].list = @ \ {a}]
        /\ notices' \in {notices, Told(a, jobs[w].at)}
        /\ UNCHANGED <<now, rows, references, timeline, faults, history>>

Tell(w) == w \in Sweepers \cap DOMAIN jobs /\ TellRow(w)

(* Granted by silence: no reference is issued, whatever the service.         *)
TacitApprovals(w) ==
    /\ w \in Sweepers /\ At(w, "overdue") /\ jobs[w].list = {}
    /\ rows' = [a \in DOMAIN rows |->
                  IF a \in ToGrant THEN [rows[a] EXCEPT !.status = "completed",
                                           !.result = "granted", !.tacit = TRUE]
                  ELSE rows[a]]
    /\ jobs' = Put(jobs, w, [at |-> "silence", list |-> ToGrant])
    /\ UNCHANGED <<now, references, notices, timeline, faults, history>>

EndSweep(w) ==
    /\ w \in Sweepers /\ At(w, "silence") /\ jobs[w].list = {}
    /\ jobs' = Drop(jobs, w)
    /\ UNCHANGED <<now, tables, faults, history>>

(* The first statement fails and the sweep goes on with an empty list; the   *)
(* second one fails, or the replica stops, and this sweep is over.           *)
MarkFails(w) ==
    /\ w \in Sweepers \ DOMAIN jobs /\ faults < MaxFaults
    /\ jobs' = Put(jobs, w, [at |-> "overdue", list |-> {}])
    /\ faults' = faults + 1
    /\ UNCHANGED <<now, tables, history>>

SweepStops(w) ==
    /\ w \in Sweepers \cap DOMAIN jobs /\ faults < MaxFaults
    /\ jobs' = Drop(jobs, w)
    /\ faults' = faults + 1
    /\ UNCHANGED <<now, tables, history>>

Tick ==
    /\ now < MaxTick
    /\ now' = now + 1
    /\ worked' = [a \in Apps |-> IF StatusIn(a, {"registered", "in_review"})
                                 THEN worked[a] + 1 ELSE worked[a]]
    /\ UNCHANGED <<tables, jobs, faults, answered>>

Next ==
    \/ Tick
    \/ \E a \in Apps :
        \/ \E s \in Services, role \in {"user", "admin"} :
              ApplyAuto(a, s, role) \/ ApplyManual(a, s, role)
        \/ Cancel(a) \/ ProvideInfo(a) \/ RequestInfo(a) \/ Complete(a)
        \/ \E o \in Officers :
              Assign(a, o) \/ \E r \in Requests : ReadForDecision(r, a, o)
    \/ \E r \in Requests : Decide(r) \/ DecideFails(r)
    \/ \E w \in Sweepers : \/ MarkSLABreached(w) \/ MarkFails(w) \/ Tell(w)
                           \/ TacitApprovals(w) \/ EndSweep(w) \/ SweepStops(w)

Spec == Init /\ [][Next]_vars

(* The worker calls the sweep again and again on every replica that runs.    *)
SweepStep(w) == MarkSLABreached(w) \/ Tell(w) \/ TacitApprovals(w) \/ EndSweep(w)
FairSpec == Spec /\ \A w \in Sweepers : WF_vars(SweepStep(w))

-----------------------------------------------------------------------------
(* The office answers for its own time only: an application is marked        *)
(* overdue, or granted by silence, when the office itself has had it for     *)
(* longer than the SLA, however often the citizen was asked, and answered    *)
(* late (RequestMoreInfo, ResumeFromInfo, MarkSLABreached, TacitApprovals).  *)
ClockIsFair ==
    \A a \in DOMAIN rows : rows[a].breached \/ rows[a].tacit => worked[a] > Sla

(* What a notice of an outcome says of the row.                              *)
Truth(kind, row) ==
    CASE kind = "ready"     -> row.status = "completed" /\ ~row.tacit
      [] kind = "approved"  -> /\ row.status \in {"approved", "completed"}
                               /\ row.decidedBy # None /\ ~row.output /\ ~row.tacit
      [] kind = "refused"   -> row.status = "rejected"
      [] kind = "delivered" -> row.status = "completed" /\ row.decidedBy # None
      [] kind = "overdue"   -> row.breached
      [] kind = "silence"   -> row.tacit

(* Whatever fails or stops in between, a decision leaves its traces          *)
(* together: a reference exactly when the row names one, the officers' steps *)
(* in the timeline, and to the citizen every outcome once and no outcome     *)
(* that is not the row's (CreateApplicationWithOutput, DecideApplication,    *)
(* CompleteApplication, SLASweep).                                           *)
OutcomeRecorded ==
    \A a \in DOMAIN rows :
        /\ references[a] = IF rows[a].output THEN 1 ELSE 0
        /\ rows[a].assigned # None => "assigned" \in timeline[a]
        /\ rows[a].decidedBy # None =>
              /\ "decided" \in timeline[a]
              /\ \E k \in {"ready", "approved", "refused"} : notices[a][k] > 0
        /\ \A k \in Kinds :
              notices[a][k] > 0 => notices[a][k] = 1 /\ Truth(k, rows[a])

(* The portal keeps the promise of CaseLedger: officers, the citizen, the    *)
(* registry and the clock race, one of them settles the application, and     *)
(* nobody settles it again.                                                  *)
Author(row) ==
    IF row.result = None THEN None
    ELSE IF row.tacit THEN "clock"
    ELSE IF row.decidedBy # None THEN row.decidedBy
    ELSE IF row.result = "withdrawn" THEN "citizen" ELSE "registry"

Settled == [a \in DOMAIN rows |->
    [result |-> rows[a].result, author |-> Author(rows[a]),
     delivered |-> rows[a].status = "completed"]]

Ledger == INSTANCE CaseLedger WITH
    Cases <- Apps, Open <- None, cases <- Settled,
    Authors <- Officers \cup {"clock", "citizen", "registry"}

CaseSpec == Ledger!Spec

(* Silence is consent: an application of such a service that the office has  *)
(* kept too long does not stay open (TacitApprovals, the worker of           *)
(* modules/gov/module.go).                                                   *)
Unanswered(a) ==
    /\ StatusIn(a, {"registered", "in_review"})
    /\ rows[a].service \in Tacit /\ rows[a].due # None /\ rows[a].due < now
SilenceGrants == \A a \in Apps : Unanswered(a) ~> ~Unanswered(a)

(* ResumeFromInfo (gov_postgres.go:697): once the citizen has answered, the  *)
(* application is with the office again.                                     *)
AnswerResumes == \A a \in answered : ~StatusIn(a, {"info_required"})
=============================================================================
