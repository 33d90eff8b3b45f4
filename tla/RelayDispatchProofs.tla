------------------------- MODULE RelayDispatchProofs -------------------------
(* Machine-checked theorems about RelayDispatch, for every number of         *)
(* requests, platforms, handlers and sweeping replicas.                      *)
(*                                                                           *)
(* The argument: a sweep may work from a list that other replicas have long  *)
(* dealt with, but what it still means to send was owed when it read the     *)
(* list, so what was sent and what is still to be sent of one assignment     *)
(* never exceed one round per replica.  An answered assignment stays         *)
(* answered, whatever a late dispatch or sweep writes over its status.       *)
EXTENDS RelayDispatch, FiniteSetTheorems, TLAPS

Working == {"overdue", "markRequest", "escalate", "breach", "tellBreach"}
WithRow == {"markRequest", "escalate", "breach", "tellBreach"}

Answered(a) == a \in DOMAIN assignment /\ assignment[a].responded
AllAnswered(q) == q \in DOMAIN request /\ \A a \in Siblings(q) : Answered(a)

(* What a handler or a sweep relies on between two statements.               *)
JobOK(j) ==
    /\ j.at = "dispatch" => j.todo \subseteq DOMAIN assignment
    /\ j.at \in {"answered", "counted"} => j.asg \in DOMAIN assignment
    /\ j.at = "counted" /\ j.all => \A b \in Siblings(j.asg[1]) \ {j.asg} : Answered(b)
    /\ j.at = "notifyFulfilled" => AllAnswered(j.req)
    /\ j.at \in {"remind"} \cup Working =>
          /\ \A x \in j.todo : x.asg \in DOMAIN assignment
          /\ \A x, y \in j.todo : x.asg = y.asg => x = y
    /\ j.at = "remind" => \A x \in j.todo : x.owed \in 1..MaxReminders
    /\ j.at \in WithRow =>
          /\ j.row.asg \in DOMAIN assignment
          /\ \A x \in j.todo : x.asg # j.row.asg
    /\ j.at = "tellBreach" => /\ request[j.row.asg[1]].breachNotified
                              /\ told.breach[j.row.asg[1]] = 0

(* A closed assignment was answered, and so were all of a fulfilled request. *)
RowsOK ==
    /\ \A a \in DOMAIN assignment :
          assignment[a].status \in Terminal => assignment[a].responded
    /\ \A q \in DOMAIN request : request[q].status = "fulfilled" => AllAnswered(q)
    /\ \A q \in told.fulfilled : AllAnswered(q)

(* Who flipped the flag is the one who tells.                                *)
Telling(q, p) == At(p, "tellBreach") /\ job[p].row.asg[1] = q
BreachOK ==
    /\ \A q \in Requests : /\ told.breach[q] \in {0, 1}
                           /\ told.breach[q] = 1 => q \in DOMAIN request /\ request[q].breachNotified
    /\ \A q \in Requests, p, r \in DOMAIN job : Telling(q, p) /\ Telling(q, r) => p = r

(* The replicas that still mean to send k or more reminders of an            *)
(* assignment, and those that still mean to page its supervisor.             *)
Owes(s, a, k) == At(s, "remind") /\ \E x \in job[s].todo : x.asg = a /\ x.owed >= k
Owing(a, k) == {s \in Sweepers : Owes(s, a, k)}
Escalates(s, a) ==
    \/ /\ s \in DOMAIN job /\ job[s].at \in Working
       /\ \E x \in job[s].todo : x.asg = a /\ x.escalate
    \/ /\ s \in DOMAIN job /\ job[s].at \in {"markRequest", "escalate"}
       /\ job[s].row.asg = a /\ job[s].row.escalate
Escalating(a) == {s \in Sweepers : Escalates(s, a)}

CountsOK ==
    /\ \A a \in DOMAIN assignment :
          assignment[a].reminders + Cardinality(Owing(a, 1)) + Cardinality(Owing(a, 2))
             <= 2 * Cardinality(Sweepers)
    /\ \A a \in Assignments :
          /\ told.escalated[a] + Cardinality(Escalating(a)) <= Cardinality(Sweepers)
          /\ told.escalated[a] # 0 => a \in DOMAIN assignment /\ assignment[a].escalated

(* The inductive invariant.                                                  *)
IInv ==
    /\ TypeOK /\ RowsOK /\ BreachOK /\ CountsOK
    /\ \A p \in DOMAIN job : JobOK(job[p])

-----------------------------------------------------------------------------
(* Counting replicas.                                                        *)

LEMMA CountType ==
    ASSUME NEW S \in SUBSET Sweepers
    PROVE  /\ IsFiniteSet(S) /\ Cardinality(S) \in Nat /\ Cardinality(Sweepers) \in Nat
           /\ Cardinality(S) <= Cardinality(Sweepers)
  BY FS_Subset, FS_CardinalityType, SweeperAssumption

LEMMA CountLess ==
    ASSUME NEW T \in SUBSET Sweepers, NEW S \in SUBSET T
    PROVE  Cardinality(S) <= Cardinality(T)
  BY FS_Subset, CountType

LEMMA CountWithout ==
    ASSUME NEW T \in SUBSET Sweepers, NEW S \in SUBSET T, NEW s \in T, s \notin S
    PROVE  Cardinality(S) + 1 <= Cardinality(T)
<1>1. S \in SUBSET (T \ {s}) /\ T \ {s} \in SUBSET Sweepers
  OBVIOUS
<1>2. Cardinality(S) <= Cardinality(T \ {s})
  BY <1>1, CountLess
<1>3. Cardinality(T \ {s}) = Cardinality(T) - 1
  BY FS_RemoveElement, CountType
<1> QED
  BY <1>1, <1>2, <1>3, CountType

LEMMA OwingType ==
    ASSUME NEW a, NEW k
    PROVE  Owing(a, k) \in SUBSET Sweepers /\ Escalating(a) \in SUBSET Sweepers
  BY DEF Owing, Escalating

-----------------------------------------------------------------------------
(* What the parts of the invariant do not depend on.                         *)

(* Nobody takes back an answer, a row or a breach flag.                      *)
Kept ==
    /\ \A a \in DOMAIN assignment : a \in DOMAIN assignment'
    /\ \A a \in DOMAIN assignment : assignment[a].responded => assignment'[a].responded
    /\ \A q \in DOMAIN request : q \in DOMAIN request'
    /\ \A q \in DOMAIN request : request[q].breachNotified => request'[q].breachNotified

LEMMA AnsweredKept ==
    ASSUME Kept
    PROVE  /\ \A a : Answered(a) => Answered(a)'
           /\ \A q : AllAnswered(q) => AllAnswered(q)'
  BY DEF Kept, Answered, AllAnswered

LEMMA JobType ==
    ASSUME IInv, NEW p \in DOMAIN job
    PROVE  /\ p \in Handlers \cup Sweepers /\ job[p] \in Job /\ JobOK(job[p])
  BY DEF IInv, TypeOK

LEMMA JobKept ==
    ASSUME IInv, Kept, NEW j \in Job, JobOK(j),
           j.at = "tellBreach" => told'.breach[j.row.asg[1]] = told.breach[j.row.asg[1]]
    PROVE  JobOK(j)'
<1>1. /\ \A a : Answered(a) => Answered(a)'
      /\ \A q : AllAnswered(q) => AllAnswered(q)'
  BY AnsweredKept
<1>2. \A a \in DOMAIN assignment : a \in DOMAIN assignment'
  BY DEF Kept
<1>3. j.at = "tellBreach" => j.row.asg[1] \in DOMAIN request
  BY DEF JobOK, WithRow, IInv, TypeOK
<1>4. j.at = "tellBreach" => /\ request'[j.row.asg[1]].breachNotified
                             /\ told'.breach[j.row.asg[1]] = 0
  BY <1>3 DEF JobOK, Kept
<1> QED
  BY <1>1, <1>2, <1>4 DEF JobOK

(* One of the processes takes a step that tells nobody of a breach.          *)
LEMMA Step ==
    ASSUME IInv, NEW p, TypeOK', RowsOK', CountsOK', Kept,
           told'.breach = told.breach,
           \A r \in DOMAIN job' : r # p => r \in DOMAIN job /\ job'[r] = job[r],
           p \in DOMAIN job' =>
              /\ JobOK(job[p])'
              /\ job'[p].at = "tellBreach" =>
                    \A r \in DOMAIN job : ~Telling(job'[p].row.asg[1], r)
    PROVE  IInv'
<1>1. ASSUME NEW r \in DOMAIN job' PROVE JobOK(job[r])'
  <2>1. CASE r = p
    BY <1>1, <2>1
  <2>2. CASE r # p
    <3> PICK j : j = job[r]
      OBVIOUS
    <3>1. job'[r] = j /\ j \in Job /\ JobOK(j)
      BY <1>1, <2>2, JobType
    <3>2. JobOK(j)'
      BY <3>1, JobKept
    <3> QED
      BY <3>1, <3>2
  <2> QED
    BY <2>1, <2>2
<1>2. BreachOK'
  <2>1. \A q \in Requests : /\ told'.breach[q] \in {0, 1}
                            /\ told'.breach[q] = 1 =>
                                  q \in DOMAIN request' /\ request'[q].breachNotified
    BY DEF IInv, BreachOK, Kept
  <2>2. ASSUME NEW q \in Requests, NEW r \in DOMAIN job', NEW t \in DOMAIN job',
               Telling(q, r)', Telling(q, t)'
        PROVE  r = t
    BY <2>2 DEF IInv, BreachOK, Telling, At
  <2> QED
    BY <2>1, <2>2 DEF BreachOK
<1> QED
  BY <1>1, <1>2 DEF IInv

(* Nothing more is owed of one assignment than before.                       *)
LEMMA RemindersBound ==
    ASSUME IInv, NEW a \in DOMAIN assignment',
           \/ assignment'[a].reminders = 0
           \/ /\ a \in DOMAIN assignment
              /\ assignment'[a].reminders = assignment[a].reminders,
           Owing(a, 1)' \subseteq Owing(a, 1), Owing(a, 2)' \subseteq Owing(a, 2)
    PROVE  assignment'[a].reminders + Cardinality(Owing(a, 1)') + Cardinality(Owing(a, 2)')
              <= 2 * Cardinality(Sweepers)
<1> PICK S1, S2 : S1 = Owing(a, 1)' /\ S2 = Owing(a, 2)'
  OBVIOUS
<1>1. /\ S1 \in SUBSET Owing(a, 1) /\ S2 \in SUBSET Owing(a, 2)
      /\ S1 \in SUBSET Sweepers /\ S2 \in SUBSET Sweepers
      /\ Owing(a, 1) \in SUBSET Sweepers /\ Owing(a, 2) \in SUBSET Sweepers
  BY OwingType
<1>2. /\ Cardinality(S1) \in Nat /\ Cardinality(S2) \in Nat /\ Cardinality(Sweepers) \in Nat
      /\ Cardinality(S1) <= Cardinality(Sweepers) /\ Cardinality(S2) <= Cardinality(Sweepers)
      /\ Cardinality(Owing(a, 1)) \in Nat /\ Cardinality(Owing(a, 2)) \in Nat
      /\ Cardinality(S1) <= Cardinality(Owing(a, 1))
      /\ Cardinality(S2) <= Cardinality(Owing(a, 2))
  BY <1>1, CountType, CountLess
<1>3. CASE assignment'[a].reminders = 0
  BY <1>2, <1>3
<1>4. CASE a \in DOMAIN assignment /\ assignment'[a].reminders = assignment[a].reminders
  <2>1. assignment[a].reminders \in Nat
    BY <1>4 DEF IInv, TypeOK, AssignmentRow
  <2>2. assignment[a].reminders + Cardinality(Owing(a, 1)) + Cardinality(Owing(a, 2))
           <= 2 * Cardinality(Sweepers)
    BY <1>4 DEF IInv, CountsOK
  <2> QED
    BY <1>2, <1>4, <2>1, <2>2
<1> QED
  BY <1>3, <1>4

LEMMA PagesBound ==
    ASSUME IInv, NEW a \in Assignments,
           a \in DOMAIN assignment =>
              /\ a \in DOMAIN assignment'
              /\ assignment[a].escalated => assignment'[a].escalated,
           told'.escalated[a] = told.escalated[a],
           Escalating(a)' \subseteq Escalating(a)
    PROVE  /\ told'.escalated[a] + Cardinality(Escalating(a)') <= Cardinality(Sweepers)
           /\ told'.escalated[a] # 0 => a \in DOMAIN assignment' /\ assignment'[a].escalated
<1> PICK S : S = Escalating(a)'
  OBVIOUS
<1>1. S \in SUBSET Escalating(a) /\ Escalating(a) \in SUBSET Sweepers
  BY OwingType
<1>2. /\ Cardinality(S) \in Nat /\ Cardinality(Escalating(a)) \in Nat
      /\ Cardinality(Sweepers) \in Nat
      /\ Cardinality(S) <= Cardinality(Escalating(a))
  BY <1>1, CountType, CountLess
<1>3. told.escalated[a] \in Nat
  BY DEF IInv, TypeOK
<1> QED
  BY <1>2, <1>3 DEF IInv, CountsOK

LEMMA NothingNewOwed ==
    ASSUME IInv,
           \A a \in DOMAIN assignment' :
              \/ assignment'[a].reminders = 0
              \/ /\ a \in DOMAIN assignment
                 /\ assignment'[a].reminders = assignment[a].reminders,
           \A a \in DOMAIN assignment :
              /\ a \in DOMAIN assignment'
              /\ assignment[a].escalated => assignment'[a].escalated,
           told'.escalated = told.escalated,
           \A a, k : Owing(a, k)' \subseteq Owing(a, k),
           \A a : Escalating(a)' \subseteq Escalating(a)
    PROVE  CountsOK'
  BY RemindersBound, PagesBound DEF CountsOK

(* A process that goes on with no more to send than before.                  *)
LEMMA NoNewNotices ==
    ASSUME NEW p,
           \A r \in DOMAIN job' : r # p => r \in DOMAIN job /\ job'[r] = job[r],
           p \in DOMAIN job' =>
              /\ job'[p].at = "remind" =>
                    p \in DOMAIN job /\ job[p].at = "remind" /\ job'[p].todo \subseteq job[p].todo
              /\ job'[p].at \in Working =>
                    p \in DOMAIN job /\ job[p].at \in Working /\ job'[p].todo \subseteq job[p].todo
              /\ job'[p].at \in {"markRequest", "escalate"} =>
                    \/ job'[p].row \in job[p].todo
                    \/ job[p].at \in {"markRequest", "escalate"} /\ job'[p].row = job[p].row
    PROVE  /\ \A a, k : Owing(a, k)' \subseteq Owing(a, k)
           /\ \A a : Escalating(a)' \subseteq Escalating(a)
<1>1. ASSUME NEW s, NEW a, NEW k, Owes(s, a, k)' PROVE Owes(s, a, k)
  BY <1>1 DEF Owes, At
<1>2. ASSUME NEW s, NEW a, Escalates(s, a)' PROVE Escalates(s, a)
  <2>1. s \in DOMAIN job' /\ job'[s].at \in Working
    BY <1>2 DEF Escalates, Working
  <2>2. CASE s # p
    BY <1>2, <2>1, <2>2 DEF Escalates
  <2>3. CASE s = p
    BY <1>2, <2>1, <2>3 DEF Escalates
  <2> QED
    BY <2>2, <2>3
<1> QED
  BY <1>1, <1>2 DEF Owing, Escalating

(* What job' is after Drop and after Put.                                    *)
LEMMA JobUpdate ==
    ASSUME IInv, NEW p \in Handlers \cup Sweepers, NEW j \in Job,
           job' = Drop(job, p) \/ job' = Put(job, p, j)
    PROVE  /\ \A r \in DOMAIN job' : r # p => r \in DOMAIN job /\ job'[r] = job[r]
           /\ p \in DOMAIN job' => job'[p] = j /\ job' = Put(job, p, j)
           /\ DOMAIN job' \subseteq Handlers \cup Sweepers
           /\ \A r \in DOMAIN job' : job'[r] \in Job
<1>1. CASE job' = Drop(job, p)
  BY <1>1 DEF Drop, IInv, TypeOK
<1>2. CASE job' = Put(job, p, j)
  BY <1>2 DEF Put, IInv, TypeOK
<1> QED
  BY <1>1, <1>2

LEMMA Edited ==
    ASSUME NEW p \in DOMAIN job, NEW j, job' = [job EXCEPT ![p] = j]
    PROVE  job' = Put(job, p, j)
<1>1. DOMAIN job \cup {p} = DOMAIN job
  OBVIOUS
<1> QED
  BY <1>1 DEF Put

(* A step that changes nothing but what the process holds.                   *)
LEMMA Moves ==
    ASSUME IInv, NEW p \in Handlers \cup Sweepers,
           UNCHANGED <<request, assignment, age, told>>,
           NEW j \in Job, job' = Drop(job, p) \/ job' = Put(job, p, j),
           job' = Put(job, p, j) => JobOK(j) /\ j.at # "tellBreach",
           CountsOK'
    PROVE  IInv'
<1>1. /\ \A r \in DOMAIN job' : r # p => r \in DOMAIN job /\ job'[r] = job[r]
      /\ p \in DOMAIN job' => job'[p] = j /\ JobOK(j) /\ j.at # "tellBreach"
      /\ DOMAIN job' \subseteq Handlers \cup Sweepers
      /\ \A r \in DOMAIN job' : job'[r] \in Job
  BY JobUpdate
<1>2. TypeOK'
  BY <1>1 DEF IInv, TypeOK
<1>3. Kept
  BY DEF Kept
<1>4. RowsOK'
  BY DEF IInv, RowsOK, AllAnswered, Answered
<1>5. p \in DOMAIN job' => JobOK(job[p])'
  <2>1. p \in DOMAIN job' => JobOK(j)'
    BY <1>1, <1>3, JobKept
  <2> QED
    BY <1>1, <2>1
<1> QED
  BY <1>1, <1>2, <1>3, <1>4, <1>5, Step

(* The same, with nothing more to send.                                      *)
LEMMA QuietMoves ==
    ASSUME IInv, NEW p \in Handlers \cup Sweepers,
           UNCHANGED <<request, assignment, age, told>>,
           NEW j \in Job, job' = Drop(job, p) \/ job' = Put(job, p, j),
           job' = Put(job, p, j) =>
              /\ JobOK(j) /\ j.at # "tellBreach"
              /\ j.at \notin {"remind"} \cup Working
    PROVE  IInv'
<1>1. /\ \A r \in DOMAIN job' : r # p => r \in DOMAIN job /\ job'[r] = job[r]
      /\ p \in DOMAIN job' => job'[p] = j /\ j.at \notin {"remind"} \cup Working
  BY JobUpdate
<1>2. /\ \A a, k : Owing(a, k)' \subseteq Owing(a, k)
      /\ \A a : Escalating(a)' \subseteq Escalating(a)
  BY <1>1, NoNewNotices DEF Working
<1>3. CountsOK'
  BY <1>2, NothingNewOwed
<1> QED
  BY <1>3, Moves

-----------------------------------------------------------------------------
(* The handlers.                                                             *)

LEMMA CrashKeeps ==
    ASSUME IInv, NEW p \in Handlers \cup Sweepers, Crash(p)
    PROVE  IInv'
<1>1. p \in DOMAIN job /\ job' = Drop(job, p) /\ UNCHANGED <<request, assignment, age, told>>
  BY DEF Crash
<1>2. p \notin DOMAIN job'
  BY <1>1 DEF Drop
<1>3. job' # Put(job, p, job[p])
  BY <1>2 DEF Put
<1> QED
  BY <1>1, <1>3, QuietMoves, JobType

LEMMA EndSweepKeeps ==
    ASSUME IInv, NEW s \in Sweepers, EndSweep(s)
    PROVE  IInv'
  BY CrashKeeps DEF EndSweep, Crash, At

LEMMA AnswerKeeps ==
    ASSUME IInv, NEW h \in Handlers, NEW a \in Assignments, NEW answer \in Terminal,
           Answer(h, a, answer)
    PROVE  IInv'
<1> PICK j : j = [at |-> "answered", asg |-> a, answer |-> answer]
  OBVIOUS
<1>1. a \in DOMAIN assignment /\ job' = Put(job, h, j) /\ UNCHANGED <<request, assignment, age, told>>
  BY DEF Answer
<1>2. j \in Job
  BY DEF Job
<1>3. JobOK(j) /\ j.at \notin {"remind"} \cup Working
  BY <1>1 DEF JobOK, Working, WithRow
<1> QED
  BY <1>1, <1>2, <1>3, QuietMoves DEF Working

(* A sibling that counts as closed was answered.                             *)
LEMMA CountPendingKeeps ==
    ASSUME IInv, NEW h \in Handlers, CountPending(h)
    PROVE  IInv'
<1> PICK a, answer : a = job[h].asg /\ answer = job[h].answer
  OBVIOUS
<1> PICK all \in BOOLEAN : all = (OpenSiblings(a) = {})
  OBVIOUS
<1> PICK j : j = [at |-> "counted", asg |-> a, answer |-> answer, all |-> all]
  OBVIOUS
<1>1. /\ h \in DOMAIN job /\ job[h].at = "answered"
      /\ job' = Put(job, h, j) /\ UNCHANGED <<request, assignment, age, told>>
  BY DEF CountPending, At
<1>2. a \in Assignments /\ answer \in Terminal /\ a \in DOMAIN assignment
  BY <1>1, JobType DEF Job, JobOK
<1>3. j \in Job
  BY <1>2 DEF Job
<1>4. all => \A b \in Siblings(a[1]) \ {a} : Answered(b)
  <2> SUFFICES ASSUME all, NEW b \in Siblings(a[1]) \ {a} PROVE Answered(b)
    OBVIOUS
  <2>1. b \in DOMAIN assignment
    BY <1>2 DEF IInv, TypeOK, Siblings
  <2>2. assignment[b].status \in Terminal
    BY DEF OpenSiblings
  <2> QED
    BY <2>1, <2>2 DEF IInv, RowsOK, Answered
<1>5. JobOK(j) /\ j.at \notin {"remind"} \cup Working
  BY <1>2, <1>4 DEF JobOK, Working, WithRow
<1> QED
  BY <1>1, <1>3, <1>5, QuietMoves DEF Working

LEMMA IngestKeeps ==
    ASSUME IInv, NEW h \in Handlers, NEW q \in Requests, Ingest(h, q)
    PROVE  IInv'
<1> PICK row, new, j :
       /\ row = [status |-> "dispatched", breachNotified |-> FALSE]
       /\ new = [status |-> "pending", dispatched |-> FALSE,
                 responded |-> FALSE, reminders |-> 0, escalated |-> FALSE]
       /\ j = [at |-> "dispatch", todo |-> Siblings(q)]
  OBVIOUS
<1>1. /\ q \notin DOMAIN request /\ request' = Put(request, q, row)
      /\ assignment' = [a \in DOMAIN assignment \cup Siblings(q) |->
                          IF a[1] # q THEN assignment[a] ELSE new]
      /\ job' = Put(job, h, j)
      /\ UNCHANGED <<age, told>>
  BY DEF Ingest
<1>2. row \in RequestRow /\ new \in AssignmentRow /\ j \in Job
  BY DEF RequestRow, ReqStatus, AssignmentRow, AsgStatus, Job, Siblings
<1>3. /\ DOMAIN request' = DOMAIN request \cup {q} /\ request'[q] = row
      /\ \A r \in DOMAIN request : request'[r] = request[r]
  BY <1>1 DEF Put
<1>4. /\ DOMAIN assignment' = DOMAIN assignment \cup Siblings(q)
      /\ \A a \in DOMAIN assignment : assignment'[a] = assignment[a]
      /\ \A a \in Siblings(q) : assignment'[a] = new /\ a \notin DOMAIN assignment
  BY <1>1 DEF IInv, TypeOK, Siblings
<1>5. /\ \A r \in DOMAIN job' : r # h => r \in DOMAIN job /\ job'[r] = job[r]
      /\ h \in DOMAIN job' => job'[h] = j
      /\ DOMAIN job' \subseteq Handlers \cup Sweepers
      /\ \A r \in DOMAIN job' : job'[r] \in Job
  BY <1>1, <1>2, JobUpdate
<1>6. TypeOK'
  <2>1. DOMAIN assignment' = {a \in Assignments : a[1] \in DOMAIN request'}
    <3>1. \A a : a \in DOMAIN assignment' <=> a \in Assignments /\ a[1] \in DOMAIN request'
      BY <1>3, <1>4 DEF IInv, TypeOK, Siblings
    <3> QED
      BY <3>1
  <2>2. \A a \in DOMAIN assignment' : assignment'[a] \in AssignmentRow
    BY <1>2, <1>4 DEF IInv, TypeOK
  <2>3. DOMAIN request' \subseteq Requests /\ \A r \in DOMAIN request' : request'[r] \in RequestRow
    BY <1>2, <1>3 DEF IInv, TypeOK
  <2> QED
    BY <1>1, <1>5, <2>1, <2>2, <2>3 DEF IInv, TypeOK
<1>7. Kept
  BY <1>3, <1>4 DEF Kept
<1>8. RowsOK'
  <2>1. \A a \in DOMAIN assignment' :
           assignment'[a].status \in Terminal => assignment'[a].responded
    BY <1>4 DEF IInv, RowsOK, Terminal
  <2>2. \A r \in DOMAIN request' : request'[r].status = "fulfilled" => AllAnswered(r)'
    BY <1>3, <1>7, AnsweredKept DEF IInv, RowsOK
  <2>3. \A r \in told'.fulfilled : AllAnswered(r)'
    BY <1>1, <1>7, AnsweredKept DEF IInv, RowsOK
  <2> QED
    BY <2>1, <2>2, <2>3 DEF RowsOK
<1>9. CountsOK'
  <2>1. /\ \A a, k : Owing(a, k)' \subseteq Owing(a, k)
        /\ \A a : Escalating(a)' \subseteq Escalating(a)
    BY <1>5, NoNewNotices DEF Working
  <2>2. \A a \in DOMAIN assignment' :
           \/ assignment'[a].reminders = 0
           \/ /\ a \in DOMAIN assignment
              /\ assignment'[a].reminders = assignment[a].reminders
    BY <1>4
  <2> QED
    BY <1>1, <1>4, <2>1, <2>2, NothingNewOwed
<1>10. h \in DOMAIN job' => JobOK(job[h])'
  BY <1>4, <1>5 DEF JobOK, Working, WithRow
<1> QED
  BY <1>1, <1>5, <1>6, <1>7, <1>8, <1>9, <1>10, Step

(* An assignment changes, and not by a reminder.                             *)
LEMMA AssignmentStep ==
    ASSUME IInv, NEW p \in Handlers \cup Sweepers, NEW a \in DOMAIN assignment,
           NEW row \in AssignmentRow,
           assignment' \in {assignment, [assignment EXCEPT ![a] = row]},
           assignment[a].responded => row.responded,
           row.status \in Terminal => row.responded,
           assignment[a].escalated => row.escalated,
           UNCHANGED <<age, request, told>>,
           DOMAIN job' \subseteq Handlers \cup Sweepers,
           \A r \in DOMAIN job' : job'[r] \in Job,
           \A r \in DOMAIN job' : r # p => r \in DOMAIN job /\ job'[r] = job[r],
           p \in DOMAIN job' => JobOK(job[p])' /\ job'[p].at # "tellBreach",
           CountsOK'
    PROVE  IInv'
<1>1. /\ DOMAIN assignment' = DOMAIN assignment
      /\ \A b \in DOMAIN assignment : assignment'[b] = assignment[b] \/ (b = a /\ assignment'[b] = row)
  OBVIOUS
<1>2. TypeOK'
  BY <1>1 DEF IInv, TypeOK
<1>3. Kept
  BY <1>1 DEF Kept
<1>4. RowsOK'
  <2>1. \A b \in DOMAIN assignment' :
           assignment'[b].status \in Terminal => assignment'[b].responded
    BY <1>1 DEF IInv, RowsOK
  <2>2. \A r \in DOMAIN request' : request'[r].status = "fulfilled" => AllAnswered(r)'
    BY <1>3, AnsweredKept DEF IInv, RowsOK
  <2>3. \A r \in told'.fulfilled : AllAnswered(r)'
    BY <1>3, AnsweredKept DEF IInv, RowsOK
  <2> QED
    BY <2>1, <2>2, <2>3 DEF RowsOK
<1> QED
  BY <1>2, <1>3, <1>4, Step

LEMMA MarkDispatchedKeeps ==
    ASSUME IInv, NEW h \in Handlers, NEW a \in Assignments, NEW ok \in BOOLEAN,
           MarkDispatched(h, a, ok)
    PROVE  IInv'
<1> PICK todo, row :
       /\ todo = job[h].todo
       /\ row = [assignment[a] EXCEPT !.dispatched = TRUE, !.status = "acknowledged"]
  OBVIOUS
<1> PICK j : j = [at |-> "dispatch", todo |-> todo \ {a}]
  OBVIOUS
<1>1. /\ h \in DOMAIN job /\ job[h].at = "dispatch" /\ a \in todo
      /\ assignment' \in {assignment, [assignment EXCEPT ![a] = row]}
      /\ job' = IF todo = {a} THEN Drop(job, h) ELSE [job EXCEPT ![h].todo = @ \ {a}]
      /\ UNCHANGED <<request, age, told>>
  BY DEF MarkDispatched, At
<1>2. job[h] \in [at : {"dispatch"}, todo : SUBSET Assignments] /\ todo \subseteq DOMAIN assignment
  BY <1>1, JobType DEF Job, JobOK
<1>3. a \in DOMAIN assignment /\ assignment[a] \in AssignmentRow
  BY <1>1, <1>2 DEF IInv, TypeOK
<1>4. /\ row \in AssignmentRow /\ row.responded = assignment[a].responded
      /\ row.escalated = assignment[a].escalated /\ row.reminders = assignment[a].reminders
      /\ row.status = "acknowledged"
  BY <1>3 DEF AssignmentRow, AsgStatus
<1>5. j \in Job /\ (job' = Drop(job, h) \/ job' = Put(job, h, j))
  <2>1. j \in Job
    BY <1>2 DEF Job
  <2>2. CASE todo # {a}
    <3>1. [job[h] EXCEPT !.todo = @ \ {a}] = j
      BY <1>2
    <3>2. job' = [job EXCEPT ![h] = j]
      BY <1>1, <2>2, <3>1
    <3>3. job' = Put(job, h, j)
      BY <1>1, <3>2, Edited
    <3> QED
      BY <2>1, <3>3
  <2> QED
    BY <1>1, <2>1, <2>2
<1>6. /\ \A r \in DOMAIN job' : r # h => r \in DOMAIN job /\ job'[r] = job[r]
      /\ h \in DOMAIN job' => job'[h] = j
      /\ DOMAIN job' \subseteq Handlers \cup Sweepers
      /\ \A r \in DOMAIN job' : job'[r] \in Job
  BY <1>5, JobUpdate
<1>7. DOMAIN assignment' = DOMAIN assignment
  BY <1>1
<1>8. h \in DOMAIN job' => JobOK(job[h])' /\ job'[h].at # "tellBreach"
  BY <1>2, <1>6, <1>7 DEF JobOK, Working, WithRow
<1>9. CountsOK'
  <2>1. /\ \A b, k : Owing(b, k)' \subseteq Owing(b, k)
        /\ \A b : Escalating(b)' \subseteq Escalating(b)
    BY <1>6, NoNewNotices DEF Working
  <2>2. \A b \in DOMAIN assignment : /\ assignment'[b].reminders = assignment[b].reminders
                                     /\ assignment'[b].escalated = assignment[b].escalated
    BY <1>1, <1>4
  <2> QED
    BY <1>1, <1>7, <2>1, <2>2, NothingNewOwed
<1>10. row.status \notin Terminal
  BY <1>4 DEF Terminal
<1>11. assignment[a].responded => row.responded
  BY <1>4
<1>12. assignment[a].escalated => row.escalated
  BY <1>4
<1>13. UNCHANGED <<age, request, told>> /\ row \in AssignmentRow
  BY <1>1, <1>4
<1>14. assignment' \in {assignment, [assignment EXCEPT ![a] = row]}
  BY <1>1
<1>15. /\ DOMAIN job' \subseteq Handlers \cup Sweepers
       /\ \A r \in DOMAIN job' : job'[r] \in Job
       /\ \A r \in DOMAIN job' : r # h => r \in DOMAIN job /\ job'[r] = job[r]
  BY <1>6
<1> QED
  BY <1>3, <1>8, <1>9, <1>10, <1>11, <1>12, <1>13, <1>14, <1>15, AssignmentStep


LEMMA CommitAnswerKeeps ==
    ASSUME IInv, NEW h \in Handlers, CommitAnswer(h)
    PROVE  IInv'
<1> PICK a, q, answer : a = job[h].asg /\ q = a[1] /\ answer = job[h].answer
  OBVIOUS
<1> PICK row : row = [assignment[a] EXCEPT !.status = answer, !.responded = TRUE]
  OBVIOUS
<1> PICK j : j = [at |-> "notifyFulfilled", req |-> q]
  OBVIOUS
<1>1. /\ h \in DOMAIN job /\ job[h].at = "counted"
      /\ assignment' = [assignment EXCEPT ![a].status = answer, ![a].responded = TRUE]
      /\ UNCHANGED <<age, told>>
      /\ \/ /\ job[h].all
            /\ request' = [request EXCEPT ![q].status = "fulfilled"]
            /\ job' = Put(job, h, j)
         \/ /\ \/ request' = [request EXCEPT ![q].status = "in_progress"]
               \/ request' = request
            /\ job' = Drop(job, h)
  BY DEF CommitAnswer, At
<1>2. /\ a \in Assignments /\ a \in DOMAIN assignment /\ answer \in Terminal
      /\ q \in DOMAIN request /\ q \in Requests
      /\ assignment[a] \in AssignmentRow /\ request[q] \in RequestRow
  BY <1>1, JobType DEF Job, JobOK, IInv, TypeOK, Assignments
<1>3. row \in AssignmentRow /\ row.responded /\ row.escalated = assignment[a].escalated
      /\ row.reminders = assignment[a].reminders
  BY <1>2 DEF AssignmentRow, AsgStatus, Terminal
<1>4. /\ DOMAIN assignment' = DOMAIN assignment /\ assignment'[a] = row
      /\ \A b \in DOMAIN assignment : b # a => assignment'[b] = assignment[b]
  BY <1>1, <1>2
<1>5. /\ DOMAIN request' = DOMAIN request
      /\ \A r \in DOMAIN request : r # q => request'[r] = request[r]
      /\ request'[q] \in RequestRow
      /\ request'[q].breachNotified = request[q].breachNotified
      /\ request'[q].status = "fulfilled" =>
            request[q].status = "fulfilled" \/ (job[h].all /\ job' = Put(job, h, j))
  BY <1>1, <1>2 DEF RequestRow, ReqStatus
<1>6. j \in Job /\ (job' = Drop(job, h) \/ job' = Put(job, h, j))
  BY <1>1, <1>2 DEF Job
<1>7. /\ \A r \in DOMAIN job' : r # h => r \in DOMAIN job /\ job'[r] = job[r]
      /\ h \in DOMAIN job' => job'[h] = j /\ job' = Put(job, h, j)
      /\ DOMAIN job' \subseteq Handlers \cup Sweepers
      /\ \A r \in DOMAIN job' : job'[r] \in Job
  BY <1>6, JobUpdate
<1>8. TypeOK'
  <2>1. \A r \in DOMAIN request' : request'[r] \in RequestRow
    BY <1>5 DEF IInv, TypeOK
  <2>2. \A b \in DOMAIN assignment' : assignment'[b] \in AssignmentRow
    BY <1>3, <1>4 DEF IInv, TypeOK
  <2>3. DOMAIN assignment' = {b \in Assignments : b[1] \in DOMAIN request'}
    BY <1>4, <1>5 DEF IInv, TypeOK
  <2> QED
    BY <1>1, <1>5, <1>7, <2>1, <2>2, <2>3 DEF IInv, TypeOK
<1>9. Kept
  BY <1>3, <1>4, <1>5 DEF Kept
<1>10. \A b : Answered(b) => Answered(b)'
  BY <1>9, AnsweredKept
<1>11. job[h].all => AllAnswered(q)'
  <2>1. Answered(a)'
    BY <1>2, <1>3, <1>4 DEF Answered
  <2>2. job[h].all => \A b \in Siblings(q) \ {a} : Answered(b)
    BY <1>1, JobType DEF JobOK
  <2> QED
    BY <1>2, <1>5, <1>10, <2>1, <2>2 DEF AllAnswered
<1>12. job' = Put(job, h, j) => job[h].all
  <2>1. h \notin DOMAIN Drop(job, h) /\ h \in DOMAIN Put(job, h, j)
    BY DEF Drop, Put
  <2> QED
    BY <1>1, <2>1
<1>13. RowsOK'
  <2>1. \A b \in DOMAIN assignment' :
           assignment'[b].status \in Terminal => assignment'[b].responded
    BY <1>3, <1>4 DEF IInv, RowsOK
  <2>2. ASSUME NEW r \in DOMAIN request', request'[r].status = "fulfilled" PROVE AllAnswered(r)'
    <3>1. CASE request[r].status = "fulfilled"
      <4>1. AllAnswered(r)
        BY <1>5, <2>2, <3>1 DEF IInv, RowsOK
      <4> QED
        BY <1>9, <4>1, AnsweredKept
    <3>2. CASE r = q /\ job[h].all
      BY <1>11, <3>2
    <3> QED
      BY <1>5, <2>2, <3>1, <3>2
  <2>3. \A r \in told'.fulfilled : AllAnswered(r)'
    BY <1>1, <1>9, AnsweredKept DEF IInv, RowsOK
  <2> QED
    BY <2>1, <2>2, <2>3 DEF RowsOK
<1>14. CountsOK'
  <2>1. /\ \A b, k : Owing(b, k)' \subseteq Owing(b, k)
        /\ \A b : Escalating(b)' \subseteq Escalating(b)
    BY <1>7, NoNewNotices DEF Working
  <2>2. \A b \in DOMAIN assignment : /\ assignment'[b].reminders = assignment[b].reminders
                                     /\ assignment'[b].escalated = assignment[b].escalated
    BY <1>3, <1>4
  <2> QED
    BY <1>1, <1>4, <2>1, <2>2, NothingNewOwed
<1>15. h \in DOMAIN job' => JobOK(job[h])'
  BY <1>7, <1>11, <1>12 DEF JobOK, Working, WithRow
<1>16. h \in DOMAIN job' => job'[h].at # "tellBreach"
  BY <1>7
<1>17. told'.breach = told.breach
  BY <1>1
<1> QED
  BY <1>7, <1>8, <1>9, <1>13, <1>14, <1>15, <1>16, <1>17, Step

LEMMA NotifyFulfilledKeeps ==
    ASSUME IInv, NEW h \in Handlers, NotifyFulfilled(h)
    PROVE  IInv'
<1> PICK q : q = job[h].req
  OBVIOUS
<1>1. /\ h \in DOMAIN job /\ job[h].at = "notifyFulfilled" /\ job' = Drop(job, h)
      /\ told' = [told EXCEPT !.fulfilled = @ \cup {q}]
      /\ UNCHANGED <<request, assignment, age>>
  BY DEF NotifyFulfilled, At
<1>2. q \in Requests /\ AllAnswered(q)
  BY <1>1, JobType DEF Job, JobOK
<1>3. /\ \A r \in DOMAIN job' : r # h => r \in DOMAIN job /\ job'[r] = job[r]
      /\ DOMAIN job' \subseteq Handlers \cup Sweepers
      /\ \A r \in DOMAIN job' : job'[r] \in Job
      /\ h \notin DOMAIN job'
  BY <1>1 DEF Drop, IInv, TypeOK
<1>4. /\ told'.breach = told.breach /\ told'.escalated = told.escalated
      /\ told'.fulfilled = told.fulfilled \cup {q}
      /\ told' \in [breach: [Requests -> Nat], fulfilled: SUBSET Requests,
                    escalated: [Assignments -> Nat]]
  BY <1>1, <1>2 DEF IInv, TypeOK
<1>5. TypeOK'
  BY <1>1, <1>3, <1>4 DEF IInv, TypeOK
<1>6. Kept
  BY <1>1 DEF Kept
<1>7. RowsOK'
  BY <1>1, <1>2, <1>4 DEF IInv, RowsOK, AllAnswered, Answered
<1>8. CountsOK'
  <2>1. /\ \A b, k : Owing(b, k)' \subseteq Owing(b, k)
        /\ \A b : Escalating(b)' \subseteq Escalating(b)
    BY <1>3, NoNewNotices
  <2> QED
    BY <1>1, <1>4, <2>1, NothingNewOwed
<1> QED
  BY <1>3, <1>4, <1>5, <1>6, <1>7, <1>8, Step

-----------------------------------------------------------------------------
(* The sweep.                                                                *)

LEMMA SweepJob ==
    ASSUME IInv, NEW s \in DOMAIN job, NEW row \in Snapshot
    PROVE  /\ job[s].at = "remind" =>
                 job[s] \in [at: {"remind"}, todo: SUBSET Snapshot, late: SUBSET Assignments]
           /\ job[s].at = "overdue" =>
                 job[s] \in [at: {"overdue"}, todo: SUBSET Snapshot, seen: SUBSET Requests]
           /\ job[s].at \in WithRow =>
                 job[s] \in [at: WithRow, row: Snapshot,
                             todo: SUBSET Snapshot, seen: SUBSET Requests]
           /\ row.asg \in Assignments /\ row.asg[1] \in Requests
           /\ row.owed \in 0..MaxReminders
  BY JobType DEF Job, WithRow, Snapshot, Assignments

(* A sweep goes on through its list of overdue assignments.                  *)
LEMMA WorkStep ==
    ASSUME IInv, NEW s \in Sweepers, s \in DOMAIN job, job[s].at \in Working,
           NEW j \in Job, job' = Put(job, s, j),
           j.at \in Working, j.todo \subseteq job[s].todo,
           j.at \in {"markRequest", "escalate"} =>
              \/ j.row \in job[s].todo
              \/ job[s].at \in {"markRequest", "escalate"} /\ j.row = job[s].row
    PROVE  /\ \A r \in DOMAIN job' : r # s => r \in DOMAIN job /\ job'[r] = job[r]
           /\ s \in DOMAIN job' /\ job'[s] = j
           /\ DOMAIN job' \subseteq Handlers \cup Sweepers
           /\ \A r \in DOMAIN job' : job'[r] \in Job
           /\ \A a, k : Owing(a, k)' \subseteq Owing(a, k)
           /\ \A a : Escalating(a)' \subseteq Escalating(a)
<1>1. /\ \A r \in DOMAIN job' : r # s => r \in DOMAIN job /\ job'[r] = job[r]
      /\ s \in DOMAIN job' => job'[s] = j
      /\ DOMAIN job' \subseteq Handlers \cup Sweepers
      /\ \A r \in DOMAIN job' : job'[r] \in Job
  BY JobUpdate
<1>2. s \in DOMAIN job'
  BY DEF Put
<1>3. j.at # "remind"
  BY DEF Working
<1>4. /\ \A a, k : Owing(a, k)' \subseteq Owing(a, k)
      /\ \A a : Escalating(a)' \subseteq Escalating(a)
  BY <1>1, <1>2, <1>3, NoNewNotices
<1> QED
  BY <1>1, <1>2, <1>4

LEMMA AtRow ==
    ASSUME IInv, NEW s \in DOMAIN job, job[s].at \in WithRow,
           NEW a, a = job[s].row.asg
    PROVE  /\ a \in DOMAIN assignment /\ a \in Assignments /\ assignment[a] \in AssignmentRow
           /\ a[1] \in DOMAIN request /\ a[1] \in Requests /\ request[a[1]] \in RequestRow
           /\ \A x \in job[s].todo : x.asg # a
<1>1. JobOK(job[s])
  BY JobType
<1>2. a \in DOMAIN assignment /\ \A x \in job[s].todo : x.asg # a
  BY <1>1 DEF JobOK
<1>3. /\ DOMAIN assignment = {b \in Assignments : b[1] \in DOMAIN request}
      /\ \A b \in DOMAIN assignment : assignment[b] \in AssignmentRow
      /\ \A q \in DOMAIN request : q \in Requests /\ request[q] \in RequestRow
  BY DEF IInv, TypeOK
<1> QED
  BY <1>2, <1>3

(* From one statement about a row to the next.                               *)
LEMMA Advance ==
    ASSUME IInv, NEW s \in DOMAIN job, job[s].at \in WithRow, NEW place \in WithRow,
           job' = [job EXCEPT ![s].at = place]
    PROVE  \E j \in Job : /\ job' = Put(job, s, j) /\ j.at = place
                          /\ j.row = job[s].row /\ j.todo = job[s].todo
<1> PICK j : j = [job[s] EXCEPT !.at = place]
  OBVIOUS
<1>1. job[s] \in [at: WithRow, row: Snapshot, todo: SUBSET Snapshot, seen: SUBSET Requests]
  BY JobType DEF Job, WithRow
<1>2. j \in [at: WithRow, row: Snapshot, todo: SUBSET Snapshot, seen: SUBSET Requests]
      /\ j.at = place /\ j.row = job[s].row /\ j.todo = job[s].todo
  BY <1>1
<1>3. j \in Job
  BY <1>2 DEF Job, WithRow
<1>4. job' = Put(job, s, j)
  BY Edited
<1> QED
  BY <1>2, <1>3, <1>4

LEMMA Onward ==
    ASSUME IInv, NEW s \in DOMAIN job, job[s].at \in WithRow, NEW q \in Requests,
           job' = NextRow(s, q)
    PROVE  \E j \in Job : /\ job' = Put(job, s, j) /\ j.at = "overdue"
                          /\ j.todo = job[s].todo
<1> PICK j : j = [at |-> "overdue", todo |-> job[s].todo, seen |-> job[s].seen \cup {q}]
  OBVIOUS
<1>1. job[s] \in [at: WithRow, row: Snapshot, todo: SUBSET Snapshot, seen: SUBSET Requests]
  BY JobType DEF Job, WithRow
<1>2. j \in Job
  BY <1>1 DEF Job
<1> QED
  BY <1>2 DEF NextRow

(* Where a sweep stands, it still relies on what it did.                     *)
LEMMA StillWorking ==
    ASSUME IInv, NEW s \in DOMAIN job, NEW j \in Job,
           job[s].at \in WithRow, j.at \in Working, j.at # "tellBreach",
           j.todo = job[s].todo, j.at \in WithRow => j.row = job[s].row
    PROVE  JobOK(j)
<1>1. JobOK(job[s])
  BY JobType
<1> QED
  BY <1>1 DEF JobOK, Working, WithRow

LEMMA MarkAssignmentOverdueKeeps ==
    ASSUME IInv, NEW s \in Sweepers, NEW ok \in BOOLEAN, MarkAssignmentOverdue(s, ok)
    PROVE  IInv'
<1>1. s \in DOMAIN job /\ job[s].at = "overdue" /\ UNCHANGED <<request, age, told>>
  BY DEF MarkAssignmentOverdue, At
<1>a. PICK row \in job[s].todo :
       /\ IF row.was = "overdue" \/ ~ok THEN UNCHANGED assignment
          ELSE SetStatus(row.asg, "overdue")
       /\ job' = Put(job, s, [at |-> "markRequest", row |-> row,
                              todo |-> job[s].todo \ {row}, seen |-> job[s].seen])
  BY DEF MarkAssignmentOverdue
<1>b. PICK a : a = row.asg
  OBVIOUS
<1>c. PICK new, j :
       /\ new = [assignment[a] EXCEPT !.status = "overdue"]
       /\ j = [at |-> "markRequest", row |-> row,
               todo |-> job[s].todo \ {row}, seen |-> job[s].seen]
  OBVIOUS
<1>2. job[s] \in [at: {"overdue"}, todo: SUBSET Snapshot, seen: SUBSET Requests]
  BY <1>1, JobType DEF Job
<1>3. /\ row \in job[s].todo /\ a = row.asg
      /\ a \in DOMAIN assignment /\ assignment[a] \in AssignmentRow
      /\ \A x \in job[s].todo : x.asg \in DOMAIN assignment
      /\ \A x, y \in job[s].todo : x.asg = y.asg => x = y
  BY <1>1, <1>a, <1>b, JobType DEF JobOK, Working, IInv, TypeOK
<1>4. /\ new \in AssignmentRow /\ new.responded = assignment[a].responded
      /\ new.escalated = assignment[a].escalated /\ new.reminders = assignment[a].reminders
      /\ new.status = "overdue"
  BY <1>3, <1>c DEF AssignmentRow, AsgStatus
<1>5. assignment' \in {assignment, [assignment EXCEPT ![a] = new]}
  BY <1>a, <1>b, <1>c DEF SetStatus
<1>6. j \in Job
  BY <1>2, <1>3, <1>c DEF Job
<1>7. /\ job' = Put(job, s, j) /\ j.at \in Working /\ j.at = "markRequest"
      /\ j.row = row /\ j.todo = job[s].todo \ {row}
      /\ j.todo \subseteq job[s].todo /\ j.row \in job[s].todo
  BY <1>3, <1>a, <1>c DEF Working
<1>8. /\ \A r \in DOMAIN job' : r # s => r \in DOMAIN job /\ job'[r] = job[r]
      /\ s \in DOMAIN job' /\ job'[s] = j
      /\ DOMAIN job' \subseteq Handlers \cup Sweepers
      /\ \A r \in DOMAIN job' : job'[r] \in Job
      /\ \A b, k : Owing(b, k)' \subseteq Owing(b, k)
      /\ \A b : Escalating(b)' \subseteq Escalating(b)
  BY <1>1, <1>6, <1>7, WorkStep DEF Working
<1>9. /\ DOMAIN assignment' = DOMAIN assignment
      /\ \A b \in DOMAIN assignment : /\ assignment'[b].reminders = assignment[b].reminders
                                      /\ assignment'[b].escalated = assignment[b].escalated
  BY <1>4, <1>5
<1>10. CountsOK'
  BY <1>1, <1>8, <1>9, NothingNewOwed
<1>11. JobOK(job[s])' /\ job'[s].at # "tellBreach"
  <2>1. JobOK(j)'
    BY <1>3, <1>7, <1>9 DEF JobOK, Working, WithRow
  <2>2. j.at # "tellBreach"
    BY <1>7
  <2> QED
    BY <1>8, <2>1, <2>2
<1>12. new.status \notin Terminal
  BY <1>4 DEF Terminal
<1>13. /\ assignment[a].responded => new.responded
       /\ assignment[a].escalated => new.escalated
       /\ new \in AssignmentRow /\ a \in DOMAIN assignment
       /\ new.status \in Terminal => new.responded
  BY <1>3, <1>4, <1>12
<1>14. /\ \A r \in DOMAIN job' : r # s => r \in DOMAIN job /\ job'[r] = job[r]
       /\ DOMAIN job' \subseteq Handlers \cup Sweepers
       /\ \A r \in DOMAIN job' : job'[r] \in Job
  BY <1>8
<1> QED
  BY <1>1, <1>5, <1>10, <1>11, <1>13, <1>14, AssignmentStep

LEMMA MarkRequestOverdueKeeps ==
    ASSUME IInv, NEW s \in Sweepers, NEW ok \in BOOLEAN, MarkRequestOverdue(s, ok)
    PROVE  IInv'
<1> PICK q : q = job[s].row.asg[1]
  OBVIOUS
<1>1. /\ s \in DOMAIN job /\ job[s].at = "markRequest"
      /\ UNCHANGED <<assignment, age, told>>
      /\ job' = [job EXCEPT ![s].at = "escalate"]
      /\ \/ request' = [request EXCEPT ![q].status = "overdue"]
         \/ request' = request
  BY DEF MarkRequestOverdue, At
<1>2. job[s].at \in WithRow /\ job[s].at \in Working
  BY <1>1 DEF WithRow, Working
<1>3. q \in DOMAIN request /\ request[q] \in RequestRow
  BY <1>1, <1>2, AtRow
<1> PICK j \in Job : /\ job' = Put(job, s, j) /\ j.at = "escalate"
                     /\ j.row = job[s].row /\ j.todo = job[s].todo
  <2>1. "escalate" \in WithRow
    BY DEF WithRow
  <2> QED
    BY <1>1, <1>2, <2>1, Advance
<1>4. /\ \A r \in DOMAIN job' : r # s => r \in DOMAIN job /\ job'[r] = job[r]
      /\ s \in DOMAIN job' /\ job'[s] = j
      /\ DOMAIN job' \subseteq Handlers \cup Sweepers
      /\ \A r \in DOMAIN job' : job'[r] \in Job
      /\ \A b, k : Owing(b, k)' \subseteq Owing(b, k)
      /\ \A b : Escalating(b)' \subseteq Escalating(b)
  <2>1. j.at \in Working
    BY DEF Working
  <2> QED
    BY <1>1, <1>2, <2>1, WorkStep
<1>5. /\ DOMAIN request' = DOMAIN request
      /\ \A r \in DOMAIN request :
            /\ request'[r] \in RequestRow
            /\ request'[r].breachNotified = request[r].breachNotified
            /\ request'[r].status = "fulfilled" => request[r].status = "fulfilled"
  BY <1>1, <1>3 DEF RequestRow, ReqStatus, IInv, TypeOK
<1>6. TypeOK'
  BY <1>1, <1>4, <1>5 DEF IInv, TypeOK
<1>7. Kept
  BY <1>1, <1>5 DEF Kept
<1>8. RowsOK'
  BY <1>1, <1>5 DEF IInv, RowsOK, AllAnswered, Answered
<1>9. CountsOK'
  BY <1>1, <1>4, NothingNewOwed
<1>10. JobOK(job[s])'
  <2>1. JobOK(j)
    BY <1>1, <1>2, StillWorking DEF Working
  <2>2. JobOK(j)'
    BY <1>7, <2>1, JobKept
  <2> QED
    BY <1>4, <2>2
<1>11. job'[s].at # "tellBreach" /\ told'.breach = told.breach
  BY <1>1, <1>4
<1> QED
  BY <1>4, <1>6, <1>7, <1>8, <1>9, <1>10, <1>11, Step

(* The one who pages is no longer among those who mean to.                   *)
LEMMA MarkEscalatedKeeps ==
    ASSUME IInv, NEW s \in Sweepers, NEW ok \in BOOLEAN, MarkEscalated(s, ok)
    PROVE  IInv'
<1> PICK a : a = job[s].row.asg
  OBVIOUS
<1> PICK row : row = [assignment[a] EXCEPT !.escalated = TRUE]
  OBVIOUS
<1>1. /\ s \in DOMAIN job /\ job[s].at = "escalate"
      /\ UNCHANGED <<request, age>>
      /\ job' = [job EXCEPT ![s].at = "breach"]
      /\ \/ /\ job[s].row.escalate
            /\ assignment' = [assignment EXCEPT ![a] = row]
            /\ told' = [told EXCEPT !.escalated[a] = @ + 1]
         \/ UNCHANGED <<assignment, told>>
  BY DEF MarkEscalated, At
<1>2. job[s].at \in WithRow /\ job[s].at \in Working
  BY <1>1 DEF WithRow, Working
<1>3. /\ a \in DOMAIN assignment /\ a \in Assignments /\ assignment[a] \in AssignmentRow
      /\ \A x \in job[s].todo : x.asg # a
  BY <1>1, <1>2, AtRow
<1> PICK j \in Job : /\ job' = Put(job, s, j) /\ j.at = "breach"
                     /\ j.row = job[s].row /\ j.todo = job[s].todo
  <2>1. "breach" \in WithRow
    BY DEF WithRow
  <2> QED
    BY <1>1, <1>2, <2>1, Advance
<1>4. /\ \A r \in DOMAIN job' : r # s => r \in DOMAIN job /\ job'[r] = job[r]
      /\ s \in DOMAIN job' /\ job'[s] = j
      /\ DOMAIN job' \subseteq Handlers \cup Sweepers
      /\ \A r \in DOMAIN job' : job'[r] \in Job
      /\ \A b, k : Owing(b, k)' \subseteq Owing(b, k)
      /\ \A b : Escalating(b)' \subseteq Escalating(b)
  <2>1. j.at \in Working
    BY DEF Working
  <2> QED
    BY <1>1, <1>2, <2>1, WorkStep
<1>5. /\ row \in AssignmentRow /\ row.responded = assignment[a].responded
      /\ row.escalated /\ row.reminders = assignment[a].reminders
      /\ row.status = assignment[a].status
  BY <1>3 DEF AssignmentRow
<1>6. /\ DOMAIN assignment' = DOMAIN assignment
      /\ \A b \in DOMAIN assignment :
            /\ assignment'[b] \in AssignmentRow
            /\ assignment'[b].reminders = assignment[b].reminders
            /\ assignment[b].escalated => assignment'[b].escalated
            /\ assignment'[b].responded = assignment[b].responded
            /\ assignment'[b].status = assignment[b].status
  BY <1>1, <1>5 DEF IInv, TypeOK
<1>7. /\ told'.breach = told.breach /\ told'.fulfilled = told.fulfilled
      /\ told' \in [breach: [Requests -> Nat], fulfilled: SUBSET Requests,
                    escalated: [Assignments -> Nat]]
      /\ \A b \in Assignments : b # a => told'.escalated[b] = told.escalated[b]
      /\ \/ told'.escalated[a] = told.escalated[a]
         \/ /\ told'.escalated[a] = told.escalated[a] + 1
            /\ assignment'[a].escalated /\ job[s].row.escalate
  <2>1. told \in [breach: [Requests -> Nat], fulfilled: SUBSET Requests,
                  escalated: [Assignments -> Nat]]
    BY DEF IInv, TypeOK
  <2>2. CASE UNCHANGED <<assignment, told>>
    BY <2>1, <2>2
  <2>3. CASE /\ job[s].row.escalate
             /\ assignment' = [assignment EXCEPT ![a] = row]
             /\ told' = [told EXCEPT !.escalated[a] = @ + 1]
    <3>1. told.escalated[a] \in Nat /\ told.escalated[a] + 1 \in Nat
      BY <1>3, <2>1
    <3>2. /\ told'.breach = told.breach /\ told'.fulfilled = told.fulfilled
          /\ told'.escalated = [told.escalated EXCEPT ![a] = @ + 1]
      BY <2>1, <2>3
    <3>3. told'.escalated \in [Assignments -> Nat]
      BY <2>1, <3>1, <3>2
    <3>4. told' \in [breach: [Requests -> Nat], fulfilled: SUBSET Requests,
                     escalated: [Assignments -> Nat]]
      BY <2>1, <2>3, <3>2, <3>3
    <3>5. assignment'[a].escalated
      BY <1>3, <1>5, <2>3
    <3>6. /\ \A b \in Assignments : b # a => told'.escalated[b] = told.escalated[b]
          /\ told'.escalated[a] = told.escalated[a] + 1
      BY <1>3, <2>1, <3>2
    <3> QED
      BY <2>3, <3>2, <3>4, <3>5, <3>6
  <2> QED
    BY <1>1, <2>2, <2>3
<1>8. TypeOK'
  BY <1>1, <1>4, <1>6, <1>7 DEF IInv, TypeOK
<1>9. Kept
  BY <1>1, <1>6 DEF Kept
<1>10. RowsOK'
  BY <1>1, <1>6, <1>7 DEF IInv, RowsOK, AllAnswered, Answered
<1>11. CountsOK'
  <2>1. ASSUME NEW b \in DOMAIN assignment'
        PROVE  assignment'[b].reminders + Cardinality(Owing(b, 1)') + Cardinality(Owing(b, 2)')
                  <= 2 * Cardinality(Sweepers)
    BY <1>4, <1>6, RemindersBound
  <2>2. ASSUME NEW b \in Assignments
        PROVE  /\ told'.escalated[b] + Cardinality(Escalating(b)') <= Cardinality(Sweepers)
               /\ told'.escalated[b] # 0 => b \in DOMAIN assignment' /\ assignment'[b].escalated
    <3>1. CASE told'.escalated[b] = told.escalated[b]
      BY <1>4, <1>6, <3>1, PagesBound
    <3>2. CASE told'.escalated[b] # told.escalated[b]
      <4>1. /\ b = a /\ told'.escalated[a] = told.escalated[a] + 1
            /\ assignment'[a].escalated /\ job[s].row.escalate
        BY <1>7, <3>2
      <4> PICK T, S : T = Escalating(a) /\ S = Escalating(a)'
        OBVIOUS
      <4>2. s \in T
        BY <1>1, <4>1 DEF Escalating, Escalates
      <4>3. s \notin S
        BY <1>3, <1>4 DEF Escalating, Escalates
      <4>4. T \in SUBSET Sweepers /\ S \in SUBSET T
        BY <1>4, OwingType
      <4>5. Cardinality(S) + 1 <= Cardinality(T)
        BY <4>2, <4>3, <4>4, CountWithout
      <4>6. Cardinality(S) \in Nat /\ Cardinality(T) \in Nat /\ Cardinality(Sweepers) \in Nat
        BY <4>4, CountType
      <4>7. told.escalated[a] \in Nat /\ told.escalated[a] + Cardinality(T) <= Cardinality(Sweepers)
        BY <1>3 DEF IInv, TypeOK, CountsOK
      <4> QED
        BY <1>3, <1>6, <4>1, <4>5, <4>6, <4>7
    <3> QED
      BY <3>1, <3>2
  <2> QED
    BY <2>1, <2>2 DEF CountsOK
<1>12. JobOK(job[s])'
  <2>1. JobOK(j)
    BY <1>1, <1>2, StillWorking DEF Working
  <2>2. JobOK(j)'
    BY <1>9, <2>1, JobKept
  <2> QED
    BY <1>4, <2>2
<1>13. job'[s].at # "tellBreach" /\ told'.breach = told.breach
  BY <1>4, <1>7
<1> QED
  BY <1>4, <1>8, <1>9, <1>10, <1>11, <1>12, <1>13, Step

(* Who flips the flag found nobody told, and nobody telling.                 *)
LEMMA MarkBreachNotifiedKeeps ==
    ASSUME IInv, NEW s \in Sweepers, NEW ok \in BOOLEAN, MarkBreachNotified(s, ok)
    PROVE  IInv'
<1> PICK a, q : a = job[s].row.asg /\ q = a[1]
  OBVIOUS
<1>1. /\ s \in DOMAIN job /\ job[s].at = "breach"
      /\ UNCHANGED <<assignment, age, told>>
      /\ \/ /\ ~request[q].breachNotified
            /\ request' = [request EXCEPT ![q].breachNotified = TRUE]
            /\ job' = [job EXCEPT ![s].at = "tellBreach"]
         \/ request' = request /\ job' = NextRow(s, q)
  BY DEF MarkBreachNotified, FlipsBreach, At
<1>2. job[s].at \in WithRow /\ job[s].at \in Working
  BY <1>1 DEF WithRow, Working
<1>3. q \in DOMAIN request /\ q \in Requests /\ request[q] \in RequestRow
  BY <1>1, <1>2, AtRow
<1> PICK j \in Job : /\ job' = Put(job, s, j) /\ j.todo = job[s].todo
                     /\ \/ /\ j.at = "tellBreach" /\ j.row = job[s].row
                           /\ ~request[q].breachNotified
                           /\ request' = [request EXCEPT ![q].breachNotified = TRUE]
                        \/ j.at = "overdue" /\ request' = request
  <2>1. "tellBreach" \in WithRow
    BY DEF WithRow
  <2>2. CASE job' = [job EXCEPT ![s].at = "tellBreach"] /\ ~request[q].breachNotified
             /\ request' = [request EXCEPT ![q].breachNotified = TRUE]
    <3>1. \E j \in Job : /\ job' = Put(job, s, j) /\ j.at = "tellBreach"
                         /\ j.row = job[s].row /\ j.todo = job[s].todo
      BY <1>1, <1>2, <2>1, <2>2, Advance
    <3> QED
      BY <2>2, <3>1
  <2>3. CASE request' = request /\ job' = NextRow(s, q)
    <3>1. \E j \in Job : /\ job' = Put(job, s, j) /\ j.at = "overdue" /\ j.todo = job[s].todo
      BY <1>1, <1>2, <1>3, <2>3, Onward
    <3> QED
      BY <2>3, <3>1
  <2> QED
    BY <1>1, <2>2, <2>3
<1>4. /\ \A r \in DOMAIN job' : r # s => r \in DOMAIN job /\ job'[r] = job[r]
      /\ s \in DOMAIN job' /\ job'[s] = j
      /\ DOMAIN job' \subseteq Handlers \cup Sweepers
      /\ \A r \in DOMAIN job' : job'[r] \in Job
      /\ \A b, k : Owing(b, k)' \subseteq Owing(b, k)
      /\ \A b : Escalating(b)' \subseteq Escalating(b)
  <2>1. j.at \in Working /\ j.at \notin {"markRequest", "escalate"}
    BY DEF Working
  <2>2. j.todo \subseteq job[s].todo
    OBVIOUS
  <2> QED
    BY <1>1, <1>2, <2>1, <2>2, WorkStep
<1>5. /\ DOMAIN request' = DOMAIN request
      /\ \A r \in DOMAIN request :
            /\ request'[r] \in RequestRow
            /\ request[r].breachNotified => request'[r].breachNotified
            /\ request'[r].status = request[r].status
      /\ j.at = "tellBreach" => request'[q].breachNotified
  <2>1. \A r \in DOMAIN request : request[r] \in RequestRow
    BY DEF IInv, TypeOK
  <2>2. CASE j.at = "overdue" /\ request' = request
    BY <2>1, <2>2
  <2>3. CASE request' = [request EXCEPT ![q].breachNotified = TRUE]
    <3> PICK new : new = [request[q] EXCEPT !.breachNotified = TRUE]
      OBVIOUS
    <3>1. new \in RequestRow /\ new.breachNotified /\ new.status = request[q].status
      BY <1>3 DEF RequestRow
    <3>2. request' = [request EXCEPT ![q] = new]
      BY <2>3
    <3> QED
      BY <1>3, <2>1, <3>1, <3>2
  <2> QED
    BY <2>2, <2>3
<1>6. TypeOK'
  BY <1>1, <1>4, <1>5 DEF IInv, TypeOK
<1>7. Kept
  BY <1>1, <1>5 DEF Kept
<1>8. RowsOK'
  BY <1>1, <1>5 DEF IInv, RowsOK, AllAnswered, Answered
<1>9. CountsOK'
  BY <1>1, <1>4, NothingNewOwed
<1>10. JobOK(job[s])'
  <2>1. CASE j.at = "overdue"
    <3>1. JobOK(j)
      BY <1>1, <1>2, <2>1, StillWorking DEF Working, WithRow
    <3>2. JobOK(j)'
      BY <1>7, <2>1, <3>1, JobKept
    <3> QED
      BY <1>4, <3>2
  <2>2. CASE j.at = "tellBreach"
    <3>1. told'.breach[q] = 0 /\ request'[q].breachNotified
      BY <1>1, <1>3, <1>5, <2>2 DEF IInv, BreachOK
    <3>2. /\ a \in DOMAIN assignment' /\ \A x \in j.todo : x.asg # a
      BY <1>1, <1>2, <2>2, AtRow
    <3>3. /\ \A x \in j.todo : x.asg \in DOMAIN assignment'
          /\ \A x, y \in j.todo : x.asg = y.asg => x = y
      BY <1>1, <1>2, JobType DEF JobOK
    <3>4. JobOK(j)'
      BY <2>2, <3>1, <3>2, <3>3 DEF JobOK, WithRow, Working
    <3> QED
      BY <1>4, <3>4
  <2> QED
    BY <2>1, <2>2
<1>11. ASSUME job'[s].at = "tellBreach", NEW r \in DOMAIN job
       PROVE  ~Telling(job'[s].row.asg[1], r)
  <2>1. job'[s].row.asg[1] = q /\ ~request[q].breachNotified
    BY <1>4, <1>11
  <2>2. Telling(q, r) => request[q].breachNotified
    BY JobType DEF Telling, At, JobOK
  <2> QED
    BY <2>1, <2>2
<1>12. told'.breach = told.breach
  BY <1>1
<1> QED
  BY <1>4, <1>6, <1>7, <1>8, <1>9, <1>10, <1>11, <1>12, Step

(* The one that tells is the only one telling, and nobody did before.        *)
LEMMA TellBreachKeeps ==
    ASSUME IInv, NEW s \in Sweepers, NEW ok \in BOOLEAN, TellBreach(s, ok)
    PROVE  IInv'
<1> PICK a, q : a = job[s].row.asg /\ q = a[1]
  OBVIOUS
<1>1. /\ s \in DOMAIN job /\ job[s].at = "tellBreach"
      /\ UNCHANGED <<request, assignment, age>>
      /\ told' = [told EXCEPT !.breach[q] = @ + 1] \/ told' = told
      /\ job' = NextRow(s, q)
  BY DEF TellBreach, At
<1>2. job[s].at \in WithRow /\ job[s].at \in Working
  BY <1>1 DEF WithRow, Working
<1>3. q \in DOMAIN request /\ q \in Requests /\ request[q].breachNotified /\ told.breach[q] = 0
  <2>1. q \in DOMAIN request /\ q \in Requests
    BY <1>1, <1>2, AtRow
  <2>2. request[q].breachNotified /\ told.breach[q] = 0
    BY <1>1, JobType DEF JobOK
  <2> QED
    BY <2>1, <2>2
<1> PICK j \in Job : job' = Put(job, s, j) /\ j.at = "overdue" /\ j.todo = job[s].todo
  BY <1>1, <1>2, <1>3, Onward
<1>4. /\ \A r \in DOMAIN job' : r # s => r \in DOMAIN job /\ job'[r] = job[r]
      /\ s \in DOMAIN job' /\ job'[s] = j
      /\ DOMAIN job' \subseteq Handlers \cup Sweepers
      /\ \A r \in DOMAIN job' : job'[r] \in Job
      /\ \A b, k : Owing(b, k)' \subseteq Owing(b, k)
      /\ \A b : Escalating(b)' \subseteq Escalating(b)
  <2>1. j.at \in Working /\ j.at \notin {"markRequest", "escalate"}
    BY DEF Working
  <2>2. j.todo \subseteq job[s].todo
    OBVIOUS
  <2> QED
    BY <1>1, <1>2, <2>1, <2>2, WorkStep
<1>5. /\ told'.fulfilled = told.fulfilled /\ told'.escalated = told.escalated
      /\ told' \in [breach: [Requests -> Nat], fulfilled: SUBSET Requests,
                    escalated: [Assignments -> Nat]]
      /\ \A r \in Requests : r # q => told'.breach[r] = told.breach[r]
      /\ told'.breach[q] \in {0, 1}
  <2>1. told \in [breach: [Requests -> Nat], fulfilled: SUBSET Requests,
                  escalated: [Assignments -> Nat]]
    BY DEF IInv, TypeOK
  <2>2. CASE told' = told
    BY <1>3, <2>1, <2>2
  <2>3. CASE told' = [told EXCEPT !.breach[q] = @ + 1]
    <3>1. /\ told'.breach = [told.breach EXCEPT ![q] = @ + 1]
          /\ told'.fulfilled = told.fulfilled /\ told'.escalated = told.escalated
      BY <2>1, <2>3
    <3>2. told.breach[q] + 1 = 1
      BY <1>3
    <3>3. /\ told'.breach \in [Requests -> Nat] /\ told'.breach[q] = 1
          /\ \A r \in Requests : r # q => told'.breach[r] = told.breach[r]
      BY <1>3, <2>1, <3>1, <3>2
    <3>4. told' \in [breach: [Requests -> Nat], fulfilled: SUBSET Requests,
                     escalated: [Assignments -> Nat]]
      BY <2>1, <2>3, <3>3, <3>1
    <3> QED
      BY <3>1, <3>3, <3>4
  <2> QED
    BY <1>1, <2>2, <2>3
<1>6. TypeOK'
  BY <1>1, <1>4, <1>5 DEF IInv, TypeOK
<1>7. Kept
  BY <1>1 DEF Kept
<1>8. RowsOK'
  BY <1>1, <1>5 DEF IInv, RowsOK, AllAnswered, Answered
<1>9. CountsOK'
  BY <1>1, <1>4, <1>5, NothingNewOwed
<1>10. ASSUME NEW r \in DOMAIN job, r # s PROVE ~Telling(q, r)
  BY <1>1, <1>3, <1>10 DEF IInv, BreachOK, Telling, At
<1>11. BreachOK'
  <2>1. ASSUME NEW r \in Requests
        PROVE  /\ told'.breach[r] \in {0, 1}
               /\ told'.breach[r] = 1 => r \in DOMAIN request' /\ request'[r].breachNotified
    BY <1>1, <1>3, <1>5 DEF IInv, BreachOK
  <2>2. ASSUME NEW c \in Requests, NEW r \in DOMAIN job', NEW t \in DOMAIN job',
               Telling(c, r)', Telling(c, t)'
        PROVE  r = t
    <3>1. r # s /\ t # s
      BY <1>4, <2>2 DEF Telling, At
    <3> QED
      BY <1>4, <2>2, <3>1 DEF IInv, BreachOK, Telling, At
  <2> QED
    BY <2>1, <2>2 DEF BreachOK
<1>12. ASSUME NEW r \in DOMAIN job' PROVE JobOK(job[r])'
  <2>1. CASE r = s
    <3>1. JobOK(j)
      BY <1>1, <1>2, StillWorking DEF Working, WithRow
    <3>2. JobOK(j)'
      BY <1>7, <3>1, JobKept
    <3> QED
      BY <1>4, <2>1, <3>2
  <2>2. CASE r # s
    <3> PICK i : i = job[r]
      OBVIOUS
    <3>1. r \in DOMAIN job /\ job'[r] = i /\ i \in Job /\ JobOK(i)
      BY <1>4, <1>12, <2>2, JobType
    <3>2. ASSUME i.at = "tellBreach"
          PROVE  told'.breach[i.row.asg[1]] = told.breach[i.row.asg[1]]
      <4>1. i.row.asg[1] # q
        BY <1>10, <2>2, <3>1, <3>2 DEF Telling, At
      <4>2. i.row.asg[1] \in Requests
        BY <3>1, <3>2, AtRow DEF WithRow
      <4> QED
        BY <1>5, <4>1, <4>2
    <3>3. JobOK(i)'
      BY <1>7, <3>1, <3>2, JobKept
    <3> QED
      BY <3>1, <3>3
  <2> QED
    BY <2>1, <2>2
<1> QED
  BY <1>6, <1>8, <1>9, <1>11, <1>12 DEF IInv

(* A reminder that is sent is one that was owed by this replica.             *)
LEMMA IncRemindersKeeps ==
    ASSUME IInv, NEW s \in Sweepers, NEW ok \in BOOLEAN, IncReminders(s, ok)
    PROVE  IInv'
<1>1. s \in DOMAIN job /\ job[s].at = "remind" /\ UNCHANGED <<request, age, told>>
  BY DEF IncReminders, At
<1>a. PICK row \in job[s].todo :
       LET left == IF ok /\ row.owed > 1 THEN {[row EXCEPT !.owed = @ - 1]} ELSE {}
       IN  /\ assignment' = IF ok THEN [assignment EXCEPT ![row.asg].reminders = @ + 1]
                            ELSE assignment
           /\ job' = [job EXCEPT ![s].todo = (@ \ {row}) \cup left]
  BY DEF IncReminders
<1>b. PICK a, k, next, left :
       /\ a = row.asg /\ k = row.owed /\ next = [row EXCEPT !.owed = @ - 1]
       /\ left = IF ok /\ k > 1 THEN {next} ELSE {}
  OBVIOUS
<1>c. PICK j, new : /\ j = [job[s] EXCEPT !.todo = (@ \ {row}) \cup left]
                    /\ new = [assignment[a] EXCEPT !.reminders = @ + 1]
  OBVIOUS
<1>2. job[s] \in [at: {"remind"}, todo: SUBSET Snapshot, late: SUBSET Assignments]
  BY <1>1, JobType DEF Job
<1>3. row \in Snapshot /\ row \in [asg: Assignments, was: AsgStatus,
                                   owed: 0..MaxReminders, escalate: BOOLEAN]
  BY <1>2, <1>a DEF Snapshot
<1>4. JobOK(job[s])
  BY <1>1, JobType
<1>5. /\ a \in DOMAIN assignment /\ k \in 1..2
      /\ row \in job[s].todo /\ row.asg = a /\ row.owed = k
      /\ \A x \in job[s].todo : x.asg \in DOMAIN assignment /\ x.owed \in 1..2
      /\ \A x \in job[s].todo : x.asg = a => x = row
  BY <1>1, <1>4, <1>a, <1>b DEF JobOK, MaxReminders
<1>6. assignment[a] \in AssignmentRow
  BY <1>5 DEF IInv, TypeOK
<1>7. /\ new \in AssignmentRow /\ new.responded = assignment[a].responded
      /\ new.escalated = assignment[a].escalated /\ new.status = assignment[a].status
      /\ new.reminders = assignment[a].reminders + 1 /\ assignment[a].reminders \in Nat
  BY <1>6, <1>c DEF AssignmentRow
<1>8. /\ k > 1 => next \in Snapshot /\ next.asg = a /\ next.owed = 1
      /\ \A x \in left : x = next /\ k > 1 /\ ok
  BY <1>3, <1>5, <1>b DEF Snapshot, MaxReminders
<1>9. /\ j.at = "remind" /\ j.todo = (job[s].todo \ {row}) \cup left
      /\ j \in [at: {"remind"}, todo: SUBSET Snapshot, late: SUBSET Assignments]
  BY <1>2, <1>8, <1>c
<1>10. j \in Job
  BY <1>9 DEF Job
<1>11. job' = Put(job, s, j)
  <2>1. job' = [job EXCEPT ![s] = j]
    BY <1>a, <1>b, <1>c
  <2> QED
    BY <1>1, <2>1, Edited
<1>12. /\ \A r \in DOMAIN job' : r # s => r \in DOMAIN job /\ job'[r] = job[r]
       /\ s \in DOMAIN job' /\ job'[s] = j
       /\ DOMAIN job' \subseteq Handlers \cup Sweepers
       /\ \A r \in DOMAIN job' : job'[r] \in Job
  <2>1. s \in DOMAIN Put(job, s, j)
    BY DEF Put
  <2> QED
    BY <1>10, <1>11, <2>1, JobUpdate
<1>13. assignment' = IF ok THEN [assignment EXCEPT ![a] = new] ELSE assignment
  BY <1>a, <1>b, <1>c
<1>14. /\ DOMAIN assignment' = DOMAIN assignment
       /\ \A b \in DOMAIN assignment : b # a => assignment'[b] = assignment[b]
       /\ assignment'[a].reminders =
             IF ok THEN assignment[a].reminders + 1 ELSE assignment[a].reminders
       /\ \A b \in DOMAIN assignment : assignment'[b].escalated = assignment[b].escalated
  BY <1>5, <1>7, <1>13
<1>15. ASSUME NEW b, NEW n, NEW t, Owes(t, b, n)'
       PROVE  \/ Owes(t, b, n)
              \/ t = s /\ b = a /\ ok /\ k = 2 /\ n <= 1
  <2>1. CASE t # s
    BY <1>12, <1>15, <2>1 DEF Owes, At
  <2>2. CASE t = s
    <3>1. PICK x \in j.todo : x.asg = b /\ x.owed >= n
      BY <1>12, <1>15, <2>2 DEF Owes, At
    <3>2. CASE x \in job[s].todo
      BY <1>1, <2>2, <3>1, <3>2 DEF Owes, At
    <3>3. CASE x \in left
      <4>1. x = next /\ k > 1 /\ x.asg = a /\ x.owed = 1 /\ ok
        BY <1>8, <3>3
      <4>2. k = 2
        BY <1>5, <4>1
      <4> QED
        BY <2>2, <3>1, <4>1, <4>2
    <3> QED
      BY <1>9, <3>1, <3>2, <3>3
  <2> QED
    BY <2>1, <2>2
<1>16. ASSUME NEW b, NEW n \in {1, 2} PROVE Owing(b, n)' \subseteq Owing(b, n)
  <2>1. ASSUME k = 2 PROVE Owes(s, a, 1)
    BY <1>1, <1>5, <2>1 DEF Owes, At
  <2> SUFFICES ASSUME NEW t \in Sweepers, Owes(t, b, n)' PROVE Owes(t, b, n)
    BY DEF Owing
  <2>2. \/ Owes(t, b, n)
        \/ t = s /\ b = a /\ k = 2 /\ n = 1
    BY <1>15
  <2> QED
    BY <2>1, <2>2
<1>17. ok => s \in Owing(a, k) /\ s \notin Owing(a, k)'
  <2>1. s \in Owing(a, k)
    BY <1>1, <1>5 DEF Owing, Owes, At
  <2>2. ASSUME ok, Owes(s, a, k)' PROVE FALSE
    <3>1. PICK x \in j.todo : x.asg = a /\ x.owed >= k
      BY <1>12, <2>2 DEF Owes, At
    <3>2. x \in left
      BY <1>5, <1>9, <3>1
    <3>3. x.owed = 1 /\ k > 1
      BY <1>8, <3>2
    <3> QED
      BY <1>5, <3>1, <3>3
  <2> QED
    BY <2>1, <2>2 DEF Owing
<1>18. \A b : Escalating(b)' \subseteq Escalating(b)
  <2>1. \A t, b : Escalates(t, b)' => Escalates(t, b)
    BY <1>9, <1>12 DEF Escalates, Working
  <2> QED
    BY <2>1 DEF Escalating
<1>19. CountsOK'
  <2>1. ASSUME NEW b \in DOMAIN assignment'
        PROVE  assignment'[b].reminders + Cardinality(Owing(b, 1)') + Cardinality(Owing(b, 2)')
                  <= 2 * Cardinality(Sweepers)
    <3>1. Owing(b, 1)' \subseteq Owing(b, 1) /\ Owing(b, 2)' \subseteq Owing(b, 2)
      BY <1>16
    <3>2. CASE b # a \/ ~ok
      <4>1. b \in DOMAIN assignment /\ assignment'[b].reminders = assignment[b].reminders
        BY <1>14, <3>2
      <4> QED
        BY <3>1, <4>1, RemindersBound
    <3>3. CASE b = a /\ ok
      <4> PICK T1, T2, S1, S2 : /\ T1 = Owing(a, 1) /\ S1 = Owing(a, 1)'
                                /\ T2 = Owing(a, 2) /\ S2 = Owing(a, 2)'
        OBVIOUS
      <4>1. /\ T1 \in SUBSET Sweepers /\ T2 \in SUBSET Sweepers
            /\ S1 \in SUBSET T1 /\ S2 \in SUBSET T2
            /\ S1 \in SUBSET Sweepers /\ S2 \in SUBSET Sweepers
        BY <3>1, <3>3, OwingType
      <4>2. /\ Cardinality(S1) \in Nat /\ Cardinality(T1) \in Nat
            /\ Cardinality(S2) \in Nat /\ Cardinality(T2) \in Nat
            /\ Cardinality(Sweepers) \in Nat
            /\ Cardinality(S1) <= Cardinality(T1) /\ Cardinality(S2) <= Cardinality(T2)
        BY <4>1, CountType, CountLess
      <4>3. assignment[a].reminders + Cardinality(T1) + Cardinality(T2) <= 2 * Cardinality(Sweepers)
        BY <1>5 DEF IInv, CountsOK
      <4>4. \/ Cardinality(S1) + 1 <= Cardinality(T1)
            \/ Cardinality(S2) + 1 <= Cardinality(T2)
        <5>1. CASE k = 1
          <6>1. s \in T1 /\ s \notin S1
            BY <1>17, <3>3, <5>1
          <6> QED
            BY <4>1, <6>1, CountWithout
        <5>2. CASE k = 2
          <6>1. s \in T2 /\ s \notin S2
            BY <1>17, <3>3, <5>2
          <6> QED
            BY <4>1, <6>1, CountWithout
        <5> QED
          BY <1>5, <5>1, <5>2
      <4>5. assignment'[a].reminders = assignment[a].reminders + 1 /\ assignment[a].reminders \in Nat
        BY <1>7, <1>14, <3>3
      <4> QED
        BY <3>3, <4>2, <4>3, <4>4, <4>5
    <3> QED
      BY <3>2, <3>3
  <2>2. ASSUME NEW b \in Assignments
        PROVE  /\ told'.escalated[b] + Cardinality(Escalating(b)') <= Cardinality(Sweepers)
               /\ told'.escalated[b] # 0 => b \in DOMAIN assignment' /\ assignment'[b].escalated
    BY <1>1, <1>14, <1>18, PagesBound
  <2> QED
    BY <2>1, <2>2 DEF CountsOK
<1>20. JobOK(job[s])' /\ job'[s].at # "tellBreach"
  <2>1. \A x \in j.todo : \/ x \in job[s].todo /\ x # row
                          \/ x = next /\ x.asg = a /\ x.owed = 1
    BY <1>8, <1>9
  <2>2. \A x \in j.todo : x.asg \in DOMAIN assignment' /\ x.owed \in 1..2
    BY <1>5, <1>14, <2>1
  <2>3. \A x, y \in j.todo : x.asg = y.asg => x = y
    <3> SUFFICES ASSUME NEW x \in j.todo, NEW y \in j.todo, x.asg = y.asg PROVE x = y
      OBVIOUS
    <3>1. CASE x.asg = a
      <4>1. x = next /\ y = next
        BY <1>5, <2>1, <3>1
      <4> QED
        BY <4>1
    <3>2. CASE x.asg # a
      BY <1>1, <1>4, <2>1, <3>2 DEF JobOK
    <3> QED
      BY <3>1, <3>2
  <2>4. JobOK(j)'
    BY <1>9, <2>2, <2>3 DEF JobOK, Working, WithRow, MaxReminders
  <2>5. j.at # "tellBreach"
    BY <1>9
  <2> QED
    BY <1>12, <2>4, <2>5
<1>21. new.status \in Terminal => new.responded
  BY <1>5, <1>7 DEF IInv, RowsOK
<1>22. /\ assignment[a].responded => new.responded
       /\ assignment[a].escalated => new.escalated
       /\ new \in AssignmentRow
  BY <1>7
<1> QED
  BY <1>1, <1>5, <1>12, <1>13, <1>19, <1>20, <1>21, <1>22, AssignmentStep

(* What a fresh list says is owed was not yet sent: two reminders only of an *)
(* assignment that had none, one only of one that had less than two.         *)
LEMMA BeginSweepKeeps ==
    ASSUME IInv, NEW s \in Sweepers, BeginSweep(s)
    PROVE  IInv'
<1> DEFINE soon == {a \in DOMAIN assignment :
                      /\ assignment[a].status \in {"pending", "acknowledged"}
                      /\ age[a] < Due /\ assignment[a].dispatched
                      /\ Owed(a) > 0}
           snap(a) == [asg |-> a, was |-> assignment[a].status, escalate |-> FALSE,
                       owed |-> Owed(a)]
<1>a. PICK j : j = [at |-> "remind",
                    late |-> {a \in DOMAIN assignment : age[a] = PastGrace},
                    todo |-> {snap(a) : a \in soon}]
  OBVIOUS
<1>1. job' = Put(job, s, j) /\ UNCHANGED <<request, assignment, age, told>>
  BY <1>a DEF BeginSweep
<1>2. /\ DOMAIN assignment \subseteq Assignments
      /\ \A a \in DOMAIN assignment : assignment[a] \in AssignmentRow /\ age[a] \in 0..4
  BY DEF IInv, TypeOK, Ages, Early, PastGrace
<1>3. ASSUME NEW a \in soon
      PROVE  /\ Owed(a) \in 1..2
             /\ Owed(a) = 1 => assignment[a].reminders <= 1
             /\ Owed(a) = 2 => assignment[a].reminders = 0
  <2>1. assignment[a].reminders \in Nat /\ age[a] \in {0, 1, 2}
    BY <1>2 DEF AssignmentRow, Due
  <2>2. RemindersDue(age[a]) \in {0, 1, 2}
    BY <2>1 DEF RemindersDue, MaxReminders
  <2>3. Owed(a) = RemindersDue(age[a]) - assignment[a].reminders /\ Owed(a) > 0
    BY DEF Owed
  <2> QED
    BY <2>1, <2>2, <2>3
<1>4. ASSUME NEW a \in soon PROVE snap(a) \in Snapshot
  BY <1>2, <1>3, <1>4 DEF Snapshot, AssignmentRow, MaxReminders
<1>5. j.at = "remind" /\ j \in Job
  BY <1>2, <1>4, <1>a DEF Job
<1>6. /\ \A r \in DOMAIN job' : r # s => r \in DOMAIN job /\ job'[r] = job[r]
      /\ s \in DOMAIN job' /\ job'[s] = j
  <2>1. s \in DOMAIN Put(job, s, j)
    BY DEF Put
  <2> QED
    BY <1>1, <1>5, <2>1, JobUpdate
<1>7. \A x \in j.todo : x.asg \in soon /\ x = snap(x.asg) /\ x.owed = Owed(x.asg)
  BY <1>a
<1>8. \A a : Escalating(a)' \subseteq Escalating(a)
  <2>1. \A t, a : Escalates(t, a)' => Escalates(t, a)
    BY <1>5, <1>6 DEF Escalates, Working
  <2> QED
    BY <2>1 DEF Escalating
<1>9. ASSUME NEW a, NEW k, NEW t, Owes(t, a, k)'
      PROVE  \/ Owes(t, a, k)
             \/ t = s /\ a \in soon /\ Owed(a) >= k
  <2>1. CASE t = s
    <3>1. PICK x \in j.todo : x.asg = a /\ x.owed >= k
      BY <1>6, <1>9, <2>1 DEF Owes, At
    <3> QED
      BY <1>7, <2>1, <3>1
  <2>2. CASE t # s
    BY <1>6, <1>9, <2>2 DEF Owes, At
  <2> QED
    BY <2>1, <2>2
<1>10. CountsOK'
  <2>1. ASSUME NEW a \in DOMAIN assignment'
        PROVE  assignment'[a].reminders + Cardinality(Owing(a, 1)') + Cardinality(Owing(a, 2)')
                  <= 2 * Cardinality(Sweepers)
    <3>1. a \in DOMAIN assignment /\ assignment'[a].reminders = assignment[a].reminders
      BY <1>1
    <3>2. CASE a \notin soon
      <4>1. Owing(a, 1)' \subseteq Owing(a, 1) /\ Owing(a, 2)' \subseteq Owing(a, 2)
        BY <1>9, <3>2 DEF Owing
      <4> QED
        BY <3>1, <4>1, RemindersBound
    <3>3. CASE a \in soon
      <4> PICK S1, S2 : S1 = Owing(a, 1)' /\ S2 = Owing(a, 2)'
        OBVIOUS
      <4>1. S1 \in SUBSET Sweepers /\ S2 \in SUBSET Sweepers
        BY DEF Owing
      <4>2. /\ Cardinality(S1) \in Nat /\ Cardinality(S2) \in Nat /\ Cardinality(Sweepers) \in Nat
            /\ Cardinality(S1) <= Cardinality(Sweepers)
            /\ Cardinality(S2) <= Cardinality(Sweepers)
        BY <4>1, CountType
      <4>3. assignment[a].reminders \in Nat
        BY <1>2, <3>1 DEF AssignmentRow
      <4>4. CASE Owed(a) = 2
        <5>1. assignment[a].reminders = 0
          BY <1>3, <3>3, <4>4
        <5> QED
          BY <3>1, <4>2, <5>1
      <4>5. CASE Owed(a) = 1
        <5>1. assignment[a].reminders <= 1
          BY <1>3, <3>3, <4>5
        <5>2. ~Owes(s, a, 2)
          BY DEF Owes, At, BeginSweep
        <5>3. ~Owes(s, a, 2)'
          BY <1>9, <4>5, <5>2
        <5>4. s \notin S2
          BY <5>3 DEF Owing
        <5>5. Cardinality(S2) + 1 <= Cardinality(Sweepers)
          BY <4>1, <5>4, CountWithout
        <5> QED
          BY <3>1, <4>2, <4>3, <5>1, <5>5
      <4> QED
        BY <1>3, <3>3, <4>4, <4>5
    <3> QED
      BY <3>2, <3>3
  <2>2. ASSUME NEW a \in Assignments
        PROVE  /\ told'.escalated[a] + Cardinality(Escalating(a)') <= Cardinality(Sweepers)
               /\ told'.escalated[a] # 0 => a \in DOMAIN assignment' /\ assignment'[a].escalated
    BY <1>1, <1>8, PagesBound
  <2> QED
    BY <2>1, <2>2 DEF CountsOK
<1>11. JobOK(j)
  <2>1. \A x \in j.todo : x.asg \in DOMAIN assignment /\ x.owed \in 1..2
    BY <1>3, <1>7
  <2>2. \A x, y \in j.todo : x.asg = y.asg => x = y
    BY <1>7
  <2> QED
    BY <1>5, <2>1, <2>2 DEF JobOK, Working, WithRow, MaxReminders
<1>12. j.at # "tellBreach"
  BY <1>5
<1> QED
  BY <1>1, <1>5, <1>10, <1>11, <1>12, Moves

(* Whoever lists an assignment to be escalated found it not escalated.       *)
LEMMA ListOverdueKeeps ==
    ASSUME IInv, NEW s \in Sweepers, ListOverdue(s)
    PROVE  IInv'
<1> DEFINE overdue == {a \in DOMAIN assignment :
                         assignment[a].status \notin Terminal /\ age[a] >= Due}
           snap(a) == [asg |-> a, was |-> assignment[a].status, owed |-> 0,
                       escalate |-> ToEscalate(s, a)]
<1>a. PICK j : j = [at |-> "overdue", seen |-> {}, todo |-> {snap(a) : a \in overdue}]
  OBVIOUS
<1>1. /\ s \in DOMAIN job /\ job[s].at = "remind"
      /\ job' = Put(job, s, j) /\ UNCHANGED <<request, assignment, age, told>>
  BY <1>a DEF ListOverdue, At
<1>2. /\ DOMAIN assignment \subseteq Assignments
      /\ \A a \in DOMAIN assignment : assignment[a] \in AssignmentRow
  BY DEF IInv, TypeOK
<1>3. ASSUME NEW a \in overdue PROVE snap(a) \in Snapshot
  <2>1. ToEscalate(s, a) \in BOOLEAN
    BY DEF ToEscalate
  <2>2. a \in Assignments /\ assignment[a].status \in AsgStatus
    BY <1>2 DEF AssignmentRow
  <2> QED
    BY <2>1, <2>2 DEF Snapshot, MaxReminders
<1>4. j.at = "overdue" /\ j \in Job
  BY <1>3, <1>a DEF Job
<1>5. /\ \A r \in DOMAIN job' : r # s => r \in DOMAIN job /\ job'[r] = job[r]
      /\ s \in DOMAIN job' /\ job'[s] = j
  <2>1. s \in DOMAIN Put(job, s, j)
    BY DEF Put
  <2> QED
    BY <1>1, <1>4, <2>1, JobUpdate
<1>6. \A x \in j.todo : x.asg \in overdue /\ x = snap(x.asg) /\ x.escalate = ToEscalate(s, x.asg)
  BY <1>a
<1>7. \A a, k : Owing(a, k)' \subseteq Owing(a, k)
  <2>1. \A t, a, k : Owes(t, a, k)' => Owes(t, a, k)
    BY <1>4, <1>5 DEF Owes, At
  <2> QED
    BY <2>1 DEF Owing
<1>8. ASSUME NEW a, NEW t, Escalates(t, a)'
      PROVE  \/ Escalates(t, a)
             \/ t = s /\ a \in overdue /\ ~assignment[a].escalated
  <2>1. CASE t = s
    <3>1. PICK x \in j.todo : x.asg = a /\ x.escalate
      BY <1>4, <1>5, <1>8, <2>1 DEF Escalates
    <3> QED
      BY <1>6, <2>1, <3>1 DEF ToEscalate
  <2>2. CASE t # s
    BY <1>5, <1>8, <2>2 DEF Escalates
  <2> QED
    BY <2>1, <2>2
<1>9. CountsOK'
  <2>1. ASSUME NEW a \in DOMAIN assignment'
        PROVE  assignment'[a].reminders + Cardinality(Owing(a, 1)') + Cardinality(Owing(a, 2)')
                  <= 2 * Cardinality(Sweepers)
    BY <1>1, <1>7, RemindersBound
  <2>2. ASSUME NEW a \in Assignments
        PROVE  /\ told'.escalated[a] + Cardinality(Escalating(a)') <= Cardinality(Sweepers)
               /\ told'.escalated[a] # 0 => a \in DOMAIN assignment' /\ assignment'[a].escalated
    <3>1. CASE Escalating(a)' \subseteq Escalating(a)
      BY <1>1, <3>1, PagesBound
    <3>2. CASE ~(Escalating(a)' \subseteq Escalating(a))
      <4>1. a \in overdue /\ ~assignment[a].escalated
        BY <1>8, <3>2 DEF Escalating
      <4>2. told'.escalated[a] = 0
        BY <1>1, <4>1 DEF IInv, CountsOK
      <4> PICK S : S = Escalating(a)'
        OBVIOUS
      <4>3. S \in SUBSET Sweepers
        BY DEF Escalating
      <4>4. Cardinality(S) \in Nat /\ Cardinality(S) <= Cardinality(Sweepers)
        BY <4>3, CountType
      <4> QED
        BY <4>2, <4>4
    <3> QED
      BY <3>1, <3>2
  <2> QED
    BY <2>1, <2>2 DEF CountsOK
<1>10. JobOK(j)
  <2>1. \A x \in j.todo : x.asg \in DOMAIN assignment
    BY <1>6
  <2>2. \A x, y \in j.todo : x.asg = y.asg => x = y
    BY <1>6
  <2> QED
    BY <1>4, <2>1, <2>2 DEF JobOK, Working, WithRow
<1>11. j.at # "tellBreach"
  BY <1>4
<1> QED
  BY <1>1, <1>4, <1>9, <1>10, <1>11, Moves

-----------------------------------------------------------------------------

(* Neither the clock nor a step of something else touches the rows.          *)
LEMMA TickKeeps ==
    ASSUME IInv, UNCHANGED <<request, assignment, job, told>>,
           age' \in [Assignments -> Ages]
    PROVE  IInv'
<1>1. TypeOK'
  BY DEF IInv, TypeOK
<1>2. RowsOK'
  BY DEF IInv, RowsOK, AllAnswered, Answered
<1>3. BreachOK'
  BY DEF IInv, BreachOK, Telling, At
<1>4. CountsOK'
  BY DEF IInv, CountsOK, Owing, Owes, Escalating, Escalates, At
<1>5. \A p \in DOMAIN job' : JobOK(job[p])'
  BY DEF IInv, JobOK, AllAnswered, Answered
<1> QED
  BY <1>1, <1>2, <1>3, <1>4, <1>5 DEF IInv

LEMMA Initially == Init => IInv
<1> SUFFICES ASSUME Init PROVE IInv
  OBVIOUS
<1>1. DOMAIN request = {} /\ DOMAIN assignment = {} /\ DOMAIN job = {}
  BY DEF Init
<1>2. /\ told.fulfilled = {}
      /\ \A q \in Requests : told.breach[q] = 0
      /\ \A a \in Assignments : told.escalated[a] = 0
      /\ told \in [breach: [Requests -> Nat], fulfilled: SUBSET Requests,
                   escalated: [Assignments -> Nat]]
  BY DEF Init
<1>3. TypeOK
  <2>1. age \in [Assignments -> Ages]
    BY DEF Init, Ages, Early, PastGrace
  <2>2. {a \in Assignments : a[1] \in DOMAIN request} = {}
    BY <1>1
  <2> QED
    BY <1>1, <1>2, <2>1, <2>2 DEF TypeOK
<1>4. RowsOK /\ BreachOK
  BY <1>1, <1>2 DEF RowsOK, BreachOK
<1>5. CountsOK
  <2>1. ASSUME NEW a \in Assignments PROVE Escalating(a) = {}
    BY <1>1 DEF Escalating, Escalates
  <2>2. Cardinality({}) = 0 /\ Cardinality(Sweepers) \in Nat
    BY FS_EmptySet, CountType
  <2>3. ASSUME NEW a \in Assignments
        PROVE  told.escalated[a] + Cardinality(Escalating(a)) <= Cardinality(Sweepers)
    <3>1. told.escalated[a] = 0 /\ Cardinality(Escalating(a)) = 0
      BY <1>2, <2>1, <2>2
    <3> QED
      BY <2>2, <3>1
  <2> QED
    BY <1>1, <1>2, <2>3 DEF CountsOK
<1> QED
  BY <1>1, <1>3, <1>4, <1>5 DEF IInv

LEMMA Stepwise == IInv /\ [Next]_vars => IInv'
<1> SUFFICES ASSUME IInv, [Next]_vars PROVE IInv'
  OBVIOUS
<1>1. ASSUME NEW h \in Handlers, Handle(h) PROVE IInv'
  BY <1>1, IngestKeeps, MarkDispatchedKeeps, AnswerKeeps, CountPendingKeeps,
     CommitAnswerKeeps, NotifyFulfilledKeeps DEF Handle
<1>2. ASSUME NEW s \in Sweepers, Sweep(s) PROVE IInv'
  BY <1>2, BeginSweepKeeps, ListOverdueKeeps, EndSweepKeeps, IncRemindersKeeps,
     MarkAssignmentOverdueKeeps, MarkRequestOverdueKeeps, MarkEscalatedKeeps,
     MarkBreachNotifiedKeeps, TellBreachKeeps DEF Sweep
<1>3. ASSUME NEW p \in Handlers \cup Sweepers, Crash(p) PROVE IInv'
  BY <1>3, CrashKeeps
<1>4. ASSUME NEW a \in Assignments, NEW now \in Ages, Tick(a, now) PROVE IInv'
  <2>1. age' \in [Assignments -> Ages] /\ UNCHANGED <<request, assignment, job, told>>
    BY <1>4 DEF Tick, IInv, TypeOK
  <2> QED
    BY <2>1, TickKeeps
<1>5. CASE UNCHANGED vars
  <2>1. UNCHANGED <<request, assignment, job, told>> /\ age' \in [Assignments -> Ages]
    BY <1>5 DEF vars, IInv, TypeOK
  <2> QED
    BY <2>1, TickKeeps
<1> QED
  BY <1>1, <1>2, <1>3, <1>4, <1>5 DEF Next

LEMMA Invariance == Spec => []IInv
  BY Initially, Stepwise, PTL DEF Spec

-----------------------------------------------------------------------------

(* The rows, the jobs of handlers and sweeps, and the notices sent stay in   *)
(* their types, whatever is answered, swept, retried or lost.                *)
THEOREM TypeInvariant == Spec => []TypeOK
<1>1. IInv => TypeOK
  BY DEF IInv
<1> QED
  BY <1>1, Invariance, PTL

(* The source platform hears of a breach at most once, however many replicas *)
(* sweep the same overdue rows and wherever one stops (relay_impl.go:170-196)*)
THEOREM BreachIsToldOnce == Spec => []BreachToldOnce
<1>1. IInv => BreachToldOnce
  BY DEF IInv, BreachOK, BreachToldOnce
<1> QED
  BY <1>1, Invariance, PTL

(* With n replicas sweeping from stale lists, a platform gets at most two    *)
(* reminders per replica and a supervisor at most n pages about one          *)
(* assignment (relay_impl.go:118-169).                                       *)
THEOREM NoticesAreBounded == Spec => []NoticesBounded
<1>1. IInv => NoticesBounded
  <2> SUFFICES ASSUME IInv PROVE NoticesBounded
    OBVIOUS
  <2>1. ASSUME NEW a \in DOMAIN assignment
        PROVE  assignment[a].reminders <= MaxReminders * Cardinality(Sweepers)
    <3> PICK S1, S2 : S1 = Owing(a, 1) /\ S2 = Owing(a, 2)
      OBVIOUS
    <3>1. S1 \in SUBSET Sweepers /\ S2 \in SUBSET Sweepers
      BY OwingType
    <3>2. Cardinality(S1) \in Nat /\ Cardinality(S2) \in Nat /\ Cardinality(Sweepers) \in Nat
      BY <3>1, CountType
    <3>3. assignment[a].reminders \in Nat
      BY DEF IInv, TypeOK, AssignmentRow
    <3>4. assignment[a].reminders + Cardinality(S1) + Cardinality(S2) <= 2 * Cardinality(Sweepers)
      BY DEF IInv, CountsOK
    <3> QED
      BY <3>2, <3>3, <3>4 DEF MaxReminders
  <2>2. ASSUME NEW a \in Assignments PROVE told.escalated[a] <= Cardinality(Sweepers)
    <3> PICK S : S = Escalating(a)
      OBVIOUS
    <3>1. Cardinality(S) \in Nat /\ Cardinality(Sweepers) \in Nat
      BY OwingType, CountType
    <3>2. told.escalated[a] \in Nat
      BY DEF IInv, TypeOK
    <3>3. told.escalated[a] + Cardinality(S) <= Cardinality(Sweepers)
      BY DEF IInv, CountsOK
    <3> QED
      BY <3>1, <3>2, <3>3
  <2> QED
    BY <2>1, <2>2 DEF NoticesBounded
<1> QED
  BY <1>1, Invariance, PTL

(* A request is fulfilled, and its source told so, only when every platform  *)
(* it went to answered, though answers, dispatches and sweeps overwrite each *)
(* other's status (relay_postgres.go:246-301).                               *)
THEOREM FulfilledIsAnswered == Spec => []FulfilledMeansAnswered
<1>1. IInv => FulfilledMeansAnswered
  BY DEF IInv, RowsOK, AllAnswered, Answered, FulfilledMeansAnswered
<1> QED
  BY <1>1, Invariance, PTL

(* A fulfilled request stays fulfilled and a breach once reported stays      *)
(* reported, whatever a late answer or an old list writes                    *)
(* (relay_postgres.go:357-371).                                              *)
THEOREM OutcomesStick == Spec => OutcomeSticks
<1>1. TypeOK /\ [Next]_vars =>
        [\A q \in DOMAIN request :
          /\ request[q].status = "fulfilled" => request'[q].status = "fulfilled"
          /\ request[q].breachNotified => request'[q].breachNotified]_vars
  <2> SUFFICES ASSUME TypeOK, Next, NEW q \in DOMAIN request
               PROVE  /\ request[q].status = "fulfilled" => request'[q].status = "fulfilled"
                      /\ request[q].breachNotified => request'[q].breachNotified
    OBVIOUS
  <2> PICK row : row = request[q]
    OBVIOUS
  <2>1. row \in RequestRow
    BY DEF TypeOK
  <2>2. CASE request' = request
    BY <2>2
  <2>3. ASSUME NEW h \in Handlers, NEW r \in Requests, Ingest(h, r)
        PROVE  request'[q] = request[q]
    BY <2>3 DEF Ingest, Put
  <2>4. ASSUME NEW r, request' \in {[request EXCEPT ![r].status = "fulfilled"],
                                    [request EXCEPT ![r].breachNotified = TRUE]}
        PROVE  /\ row.status = "fulfilled" => request'[q].status = "fulfilled"
               /\ row.breachNotified => request'[q].breachNotified
    BY <2>1, <2>4 DEF RequestRow
  <2>5. ASSUME NEW r, NEW s, request[r].status # "fulfilled",
               request' = [request EXCEPT ![r].status = s]
        PROVE  /\ row.status = "fulfilled" => request'[q].status = "fulfilled"
               /\ row.breachNotified => request'[q].breachNotified
    BY <2>1, <2>5 DEF RequestRow
  <2>6. \/ request' = request
        \/ \E h \in Handlers, r \in Requests : Ingest(h, r)
        \/ \E r : request' \in {[request EXCEPT ![r].status = "fulfilled"],
                                [request EXCEPT ![r].breachNotified = TRUE]}
        \/ \E r, s : /\ request[r].status # "fulfilled"
                     /\ request' = [request EXCEPT ![r].status = s]
    <3>1. ASSUME NEW h \in Handlers, Handle(h) PROVE <2>6
      BY <3>1 DEF Handle, MarkDispatched, Answer, CountPending, CommitAnswer, NotifyFulfilled
    <3>2. ASSUME NEW s \in Sweepers, Sweep(s) PROVE <2>6
      BY <3>2 DEF Sweep, BeginSweep, ListOverdue, EndSweep, IncReminders, MarkAssignmentOverdue,
         MarkRequestOverdue, MarkEscalated, MarkBreachNotified, TellBreach, Unsettled
    <3> QED
      BY <3>1, <3>2 DEF Next, Crash, Tick
  <2> QED
    BY <2>2, <2>3, <2>4, <2>5, <2>6
<1> QED
  BY <1>1, TypeInvariant, PTL DEF Spec, OutcomeSticks
=============================================================================
