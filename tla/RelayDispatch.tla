---------------------------- MODULE RelayDispatch ----------------------------
(* The relay: a dated request is split into one assignment per downstream    *)
(* platform, dispatched, answered, and watched by the SLA sweep that every   *)
(* replica of the server runs (core/business/usecases/relay/relay_impl.go,   *)
(* core/datasources/repositories/postgres/relay/relay_postgres.go).          *)
(*                                                                           *)
(* The handlers and the sweeps share nothing but two tables.  Each statement *)
(* is atomic; RespondAssignment alone is a transaction of several, under     *)
(* PostgreSQL's default READ COMMITTED: it sees what others have committed   *)
(* and its own writes, and keeps the row it updated locked until it commits. *)
EXTENDS Naturals, FiniteSets

CONSTANTS
    Requests, Platforms, \* requests ingested, downstream platforms
    Routes,              \* request |-> the platforms its service_code is routed to
    Handlers,            \* HTTP handlers in flight at once
    Sweepers             \* replicas that run relay-sla-sweep

ASSUME RouteAssumption == Routes \in [Requests -> SUBSET Platforms]
ASSUME SweeperAssumption == IsFiniteSet(Sweepers)

Assignments == {a \in Requests \X Platforms : a[2] \in Routes[a[1]]}
Siblings(q) == {a \in Assignments : a[1] = q}

(* How much of an assignment's SLA window has passed: 75%, 90%, due_at, and  *)
(* due_at + RelayEscalateGrace.                                              *)
Early == 0
Due == 3
PastGrace == 4
Ages == Early..PastGrace
MaxReminders == 2

(* Mutant of RemindersDue: one reminder too many.                            *)
RemindersOneMore(elapsed) == IF elapsed >= 2 THEN 3 ELSE elapsed + 1

RemindersDue(elapsed) == IF elapsed >= 2 THEN MaxReminders ELSE elapsed

AsgStatus == {"pending", "acknowledged", "done", "rejected", "overdue"}
Terminal == {"done", "rejected"}
ReqStatus == {"dispatched", "in_progress", "fulfilled", "overdue"}

VARIABLES
    request,    \* relay_requests: request |-> row, for those ingested
    assignment, \* relay_assignments: assignment |-> row
    age,        \* assignment |-> how far its SLA clock has run
    job,        \* handler or sweep at work |-> what it holds between statements
    told        \* history: the webhooks and events that cannot be taken back

vars == <<request, assignment, age, job, told>>

RequestRow == [status: ReqStatus, breachNotified: BOOLEAN]
AssignmentRow == [status: AsgStatus, dispatched: BOOLEAN, responded: BOOLEAN,
                  reminders: Nat, escalated: BOOLEAN]

(* What a sweep read of a row, and what it means to do with it: reminders to *)
(* send, or whether to escalate, by the clock it read when it began.         *)
Snapshot == [asg: Assignments, was: AsgStatus, owed: 0..MaxReminders, escalate: BOOLEAN]
Job ==
    [at: {"dispatch"}, todo: SUBSET Assignments]
    \cup [at: {"answered"}, asg: Assignments, answer: Terminal]
    \cup [at: {"counted"}, asg: Assignments, answer: Terminal, all: BOOLEAN]
    \cup [at: {"notifyFulfilled"}, req: Requests]
    \cup [at: {"remind"}, todo: SUBSET Snapshot, late: SUBSET Assignments]
    \cup [at: {"overdue"}, todo: SUBSET Snapshot, seen: SUBSET Requests]
    \cup [at: {"markRequest", "escalate", "breach", "tellBreach"}, row: Snapshot,
          todo: SUBSET Snapshot, seen: SUBSET Requests]

Put(t, k, v) == [x \in DOMAIN t \cup {k} |-> IF x = k THEN v ELSE t[x]]
Drop(t, k) == [x \in DOMAIN t \ {k} |-> t[x]]
At(p, place) == p \in DOMAIN job /\ job[p].at = place

(* The type invariant (domain_relay.go, 41_relay.up.sql).                    *)
TypeOK ==
    /\ DOMAIN request \subseteq Requests
    /\ \A q \in DOMAIN request : request[q] \in RequestRow
    /\ DOMAIN assignment = {a \in Assignments : a[1] \in DOMAIN request}
    /\ \A a \in DOMAIN assignment : assignment[a] \in AssignmentRow
    /\ age \in [Assignments -> Ages]
    /\ DOMAIN job \subseteq Handlers \cup Sweepers
    /\ \A p \in DOMAIN job : job[p] \in Job
    /\ told \in [breach: [Requests -> Nat], fulfilled: SUBSET Requests,
                 escalated: [Assignments -> Nat]]

(* The row an open RespondAssignment has updated: other UPDATEs wait for it. *)
Locked(a) == \E h \in Handlers : (At(h, "answered") \/ At(h, "counted")) /\ job[h].asg = a

SetStatus(a, s) == assignment' = [assignment EXCEPT ![a].status = s]

-----------------------------------------------------------------------------
Init ==
    /\ request = <<>> /\ assignment = <<>> /\ job = <<>>
    /\ age = [a \in Assignments |-> Early]
    /\ told = [breach |-> [q \in Requests |-> 0], fulfilled |-> {},
               escalated |-> [a \in Assignments |-> 0]]

(* Ingest: the request and one assignment per route, in one transaction; the *)
(* due date the source sent may already be past.  A service without a route  *)
(* is refused.                                                               *)
Ingest(h, q) ==
    /\ h \notin DOMAIN job /\ q \notin DOMAIN request /\ Routes[q] # {}
    /\ request' = Put(request, q, [status |-> "dispatched", breachNotified |-> FALSE])
    /\ assignment' = [a \in DOMAIN assignment \cup Siblings(q) |->
                        IF a[1] # q THEN assignment[a]
                        ELSE [status |-> "pending", dispatched |-> FALSE,
                              responded |-> FALSE, reminders |-> 0, escalated |-> FALSE]]
    /\ job' = Put(job, h, [at |-> "dispatch", todo |-> Siblings(q)])
    /\ UNCHANGED <<age, told>>

(* MarkDispatched: the guard is dispatched_at, not the status; the webhook   *)
(* that follows is best effort.  A failed UPDATE skips the assignment, which *)
(* nothing dispatches again.                                                 *)
MarkDispatched(h, a, ok) ==
    /\ At(h, "dispatch") /\ a \in job[h].todo /\ ~Locked(a)
    /\ assignment' = IF ok /\ ~assignment[a].dispatched
                     THEN [assignment EXCEPT ![a].dispatched = TRUE,
                                             ![a].status = "acknowledged"]
                     ELSE assignment
    /\ job' = IF job[h].todo = {a} THEN Drop(job, h)
              ELSE [job EXCEPT ![h].todo = @ \ {a}]
    /\ UNCHANGED <<request, age, told>>

(* RespondAssignment, UPDATE: refused once done or rejected.  The new status *)
(* is seen by this transaction only until it commits.                        *)
Answer(h, a, answer) ==
    /\ h \notin DOMAIN job /\ a \in DOMAIN assignment /\ ~Locked(a)
    /\ assignment[a].status \notin Terminal
    /\ job' = Put(job, h, [at |-> "answered", asg |-> a, answer |-> answer])
    /\ UNCHANGED <<request, assignment, age, told>>

(* Mutant of OpenSiblings: an overdue assignment counts as closed.           *)
OpenUnlessOverdue(a) ==
    {b \in Siblings(a[1]) \ {a} : assignment[b].status \notin Terminal \cup {"overdue"}}

OpenSiblings(a) == {b \in Siblings(a[1]) \ {a} : assignment[b].status \notin Terminal}

(* RespondAssignment, the count of open siblings, as others committed them.  *)
CountPending(h) ==
    /\ At(h, "answered")
    /\ LET a == job[h].asg
       IN  job' = Put(job, h, [at |-> "counted", asg |-> a, answer |-> job[h].answer,
                               all |-> OpenSiblings(a) = {}])
    /\ UNCHANGED <<request, assignment, age, told>>

(* RespondAssignment, the request's row, and COMMIT.                         *)
CommitAnswer(h) ==
    /\ At(h, "counted")
    /\ LET a == job[h].asg
           q == a[1]
       IN  /\ assignment' = [assignment EXCEPT ![a].status = job[h].answer,
                                               ![a].responded = TRUE]
           /\ IF job[h].all
              THEN /\ request' = [request EXCEPT ![q].status = "fulfilled"]
                   /\ job' = Put(job, h, [at |-> "notifyFulfilled", req |-> q])
              ELSE /\ request' = IF request[q].status = "dispatched"
                                 THEN [request EXCEPT ![q].status = "in_progress"]
                                 ELSE request
                   /\ job' = Drop(job, h)
    /\ UNCHANGED <<age, told>>

(* Respond, after the commit: the source platform is told.                   *)
NotifyFulfilled(h) ==
    /\ At(h, "notifyFulfilled")
    /\ told' = [told EXCEPT !.fulfilled = @ \cup {job[h].req}]
    /\ job' = Drop(job, h)
    /\ UNCHANGED <<request, assignment, age>>

-----------------------------------------------------------------------------
(* The SLA sweep: reminders from one list, then the overdue from another.    *)
(* The rows are worked through in the order the query returned them, which   *)
(* is any.  A statement that fails (ok = FALSE) is logged or ignored.        *)

(* Mutant of Owed: reminders_sent is not looked at.                          *)
OwedAnew(a) == RemindersDue(age[a])

Owed(a) == RemindersDue(age[a]) - assignment[a].reminders

(* DueSoonAssignments; those never dispatched are passed over.               *)
BeginSweep(s) ==
    /\ s \notin DOMAIN job
    /\ LET soon == {a \in DOMAIN assignment :
                      /\ assignment[a].status \in {"pending", "acknowledged"}
                      /\ age[a] < Due /\ assignment[a].dispatched
                      /\ Owed(a) > 0}
       IN  job' = Put(job, s,
             [at |-> "remind", late |-> {a \in DOMAIN assignment : age[a] = PastGrace},
              todo |-> {[asg |-> a, was |-> assignment[a].status, escalate |-> FALSE,
                         owed |-> Owed(a)] : a \in soon}])
    /\ UNCHANGED <<request, assignment, age, told>>

(* IncReminders: as many as were owed when the list was read; the column is  *)
(* incremented whatever it holds now.  A failure ends this row's reminders.  *)
IncReminders(s, ok) ==
    /\ At(s, "remind")
    /\ \E row \in job[s].todo :
          LET left == IF ok /\ row.owed > 1 THEN {[row EXCEPT !.owed = @ - 1]} ELSE {}
          IN  /\ ~Locked(row.asg)
              /\ assignment' = IF ok THEN [assignment EXCEPT ![row.asg].reminders = @ + 1]
                               ELSE assignment
              /\ job' = [job EXCEPT ![s].todo = (@ \ {row}) \cup left]
    /\ UNCHANGED <<request, age, told>>

ToEscalate(s, a) == ~assignment[a].escalated /\ a \in job[s].late

(* OverdueAssignments.                                                       *)
ListOverdue(s) ==
    /\ At(s, "remind") /\ job[s].todo = {}
    /\ LET overdue == {a \in DOMAIN assignment :
                         assignment[a].status \notin Terminal /\ age[a] >= Due}
       IN  job' = Put(job, s,
             [at |-> "overdue", seen |-> {},
              todo |-> {[asg |-> a, was |-> assignment[a].status, owed |-> 0,
                         escalate |-> ToEscalate(s, a)] : a \in overdue}])
    /\ UNCHANGED <<request, assignment, age, told>>

(* MarkAssignmentOverdue, unless the list already said overdue: whatever the *)
(* status is now, it is overwritten.                                         *)
MarkAssignmentOverdue(s, ok) ==
    /\ At(s, "overdue")
    /\ \E row \in job[s].todo :
          /\ IF row.was = "overdue" \/ ~ok THEN UNCHANGED assignment
             ELSE ~Locked(row.asg) /\ SetStatus(row.asg, "overdue")
          /\ job' = Put(job, s, [at |-> "markRequest", row |-> row,
                                 todo |-> job[s].todo \ {row}, seen |-> job[s].seen])
    /\ UNCHANGED <<request, age, told>>

(* Mutant of Unsettled: a fulfilled request may become overdue.              *)
UnsettledUnlessOverdue(q) == request[q].status # "overdue"

Unsettled(q) == request[q].status \notin {"fulfilled", "overdue"}

MarkRequestOverdue(s, ok) ==
    /\ At(s, "markRequest")
    /\ LET q == job[s].row.asg[1]
       IN  request' = IF ok /\ Unsettled(q) THEN [request EXCEPT ![q].status = "overdue"]
                      ELSE request
    /\ job' = [job EXCEPT ![s].at = "escalate"]
    /\ UNCHANGED <<assignment, age, told>>

(* MarkEscalated and the page to the supervisor.                             *)
MarkEscalated(s, ok) ==
    /\ At(s, "escalate")
    /\ LET a == job[s].row.asg
       IN  IF job[s].row.escalate /\ ok
           THEN /\ ~Locked(a)
                /\ assignment' = [assignment EXCEPT ![a].escalated = TRUE]
                /\ told' = [told EXCEPT !.escalated[a] = @ + 1]
           ELSE UNCHANGED <<assignment, told>>
    /\ job' = [job EXCEPT ![s].at = "breach"]
    /\ UNCHANGED <<request, age>>

NextRow(s, q) == Put(job, s, [at |-> "overdue", todo |-> job[s].todo,
                              seen |-> job[s].seen \cup {q}])

(* Mutant of FlipsBreach: the UPDATE does not ask for breach_notified = false*)
FlipsAnyway(s, q) == q \notin job[s].seen

FlipsBreach(s, q) == q \notin job[s].seen /\ ~request[q].breachNotified

(* MarkBreachNotified: once per request and sweep, and only if the UPDATE    *)
(* finds the flag unset is there something to tell.                          *)
MarkBreachNotified(s, ok) ==
    /\ At(s, "breach")
    /\ LET q == job[s].row.asg[1]
           flips == ok /\ FlipsBreach(s, q)
       IN  /\ request' = IF flips THEN [request EXCEPT ![q].breachNotified = TRUE] ELSE request
           /\ job' = IF flips THEN [job EXCEPT ![s].at = "tellBreach"] ELSE NextRow(s, q)
    /\ UNCHANGED <<assignment, age, told>>

(* The webhook to the source platform; when the request's detail cannot be   *)
(* read there is none, and no other sweep sends it.                          *)
TellBreach(s, ok) ==
    /\ At(s, "tellBreach")
    /\ LET q == job[s].row.asg[1]
       IN  /\ told' = IF ok THEN [told EXCEPT !.breach[q] = @ + 1] ELSE told
           /\ job' = NextRow(s, q)
    /\ UNCHANGED <<request, assignment, age>>

EndSweep(s) ==
    /\ At(s, "overdue") /\ job[s].todo = {}
    /\ job' = Drop(job, s)
    /\ UNCHANGED <<request, assignment, age, told>>

-----------------------------------------------------------------------------
(* A handler or a sweep stops between two statements: its connection drops,  *)
(* the process ends.  An open transaction is rolled back.                    *)
Crash(p) ==
    /\ p \in DOMAIN job
    /\ job' = Drop(job, p)
    /\ UNCHANGED <<request, assignment, age, told>>

(* Time passes.  The reminder thresholds count from the dispatch.            *)
Tick(a, now) ==
    /\ a \in DOMAIN assignment /\ now > age[a]
    /\ assignment[a].dispatched \/ now >= Due
    /\ age' = [age EXCEPT ![a] = now]
    /\ UNCHANGED <<request, assignment, job, told>>

Handle(h) ==
    \/ \E q \in Requests : Ingest(h, q)
    \/ \E a \in Assignments, ok \in BOOLEAN : MarkDispatched(h, a, ok)
    \/ \E a \in Assignments, answer \in Terminal : Answer(h, a, answer)
    \/ CountPending(h) \/ CommitAnswer(h) \/ NotifyFulfilled(h)

Sweep(s) ==
    \/ BeginSweep(s) \/ ListOverdue(s) \/ EndSweep(s)
    \/ \E ok \in BOOLEAN :
          \/ IncReminders(s, ok) \/ MarkAssignmentOverdue(s, ok) \/ MarkRequestOverdue(s, ok)
          \/ MarkEscalated(s, ok) \/ MarkBreachNotified(s, ok) \/ TellBreach(s, ok)

Next ==
    \/ \E h \in Handlers : Handle(h)
    \/ \E s \in Sweepers : Sweep(s)
    \/ \E p \in Handlers \cup Sweepers : Crash(p)
    \/ \E a \in Assignments, now \in Ages : Tick(a, now)

Spec == Init /\ [][Next]_vars

-----------------------------------------------------------------------------
(* Properties.                                                               *)

(* The source platform hears of an SLA breach once, though every replica's   *)
(* sweep finds the same overdue rows (relay_impl.go:170-171, 187-196).       *)
BreachToldOnce == \A q \in Requests : told.breach[q] <= 1

(* A platform is reminded at most once per threshold and replica, and a      *)
(* supervisor paged at most once per replica: a sweep that works from a      *)
(* stale list repeats what another replica did, never what it did itself.    *)
NoticesBounded ==
    /\ \A a \in DOMAIN assignment :
          assignment[a].reminders <= MaxReminders * Cardinality(Sweepers)
    /\ \A a \in Assignments : told.escalated[a] <= Cardinality(Sweepers)

(* A request is fulfilled, and its source told so, only when every platform  *)
(* answered, in spite of answers, dispatches and sweeps that cross: the      *)
(* aggregated result never misses one (relay_postgres.go:246-301).           *)
FulfilledMeansAnswered ==
    \A q \in DOMAIN request :
        (request[q].status = "fulfilled" \/ q \in told.fulfilled) =>
            \A a \in Siblings(q) : assignment[a].responded

(* An SLA sweep with an old list, or a late answer, never takes back a       *)
(* fulfilled request, nor a breach report that was sent                      *)
(* (relay_postgres.go:357-371).                                              *)
OutcomeSticks ==
    [][\A q \in DOMAIN request :
          /\ request[q].status = "fulfilled" => request'[q].status = "fulfilled"
          /\ request[q].breachNotified => request'[q].breachNotified]_vars

(* What the comment at relay_postgres.go:246-247 says of RespondAssignment:  *)
(* when all assignments are terminal it makes the request fulfilled.         *)
AllAnsweredFulfils ==
    \A q \in DOMAIN request :
        (\A a \in Siblings(q) : assignment[a].status \in Terminal)
            => request[q].status = "fulfilled"

(* The same comment: an answer puts the assignment into a terminal state, so *)
(* one that was answered is done or rejected.                                *)
TerminalIsFinal ==
    \A a \in DOMAIN assignment : assignment[a].responded => assignment[a].status \in Terminal
=============================================================================
