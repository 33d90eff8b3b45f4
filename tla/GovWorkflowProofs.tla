-------------------------- MODULE GovWorkflowProofs --------------------------
(* That the portal's clock is fair, that decisions leave their traces, and   *)
(* that it keeps the promise of CaseLedger, for any catalogue, any officers, *)
(* handlers, sweeps and faults.  The argument goes row by row: an open       *)
(* application has no result and nothing was said of one; its deadline is as *)
(* far away as the office has time left; and what a sweep still has to tell  *)
(* it marked itself, so no other sweep tells it.                             *)
EXTENDS GovWorkflow, TLAPS

OpenStatuses == {"submitted", "registered", "in_review", "info_required"}
Office == {"registered", "in_review"}

(* An author is somebody.                                                    *)
Names == None \notin Results \cup Statuses \cup {"clock", "citizen", "registry"}

LEMMA NamesHold == Names
  BY NoneAssumption DEF Names

(* What is not filed has no history.                                         *)
Absent ==
    \A a \in Apps \ DOMAIN rows :
       /\ worked[a] = 0 /\ references[a] = 0
       /\ \A k \in Kinds : notices[a][k] = 0

(* A row has a result when it is closed, and then an author.                 *)
RowOK(row) ==
    /\ IF row.status \in OpenStatuses
       THEN row.result = None /\ row.decidedBy = None /\ ~row.tacit /\ ~row.output
       ELSE row.result # None
    /\ row.status = "approved" => row.decidedBy # None /\ ~row.output /\ ~row.tacit
    /\ row.status \in Office \cup {"submitted"} => row.suspended = None
    /\ row.status = "info_required" => row.suspended # None
    /\ row.status = "submitted" => row.due = None

RowsOK == \A a \in DOMAIN rows : RowOK(rows[a])

(* The deadline is as far away as the office has time left.                  *)
ClockOK(row, spent) ==
    /\ spent <= now
    /\ row.suspended # None => row.suspended <= now
    /\ row.status \in Office /\ row.due # None => row.due + spent = now + Sla
    /\ row.status = "info_required" /\ row.due # None => row.due + spent = row.suspended + Sla
    /\ row.breached \/ row.tacit => spent > Sla

ClocksOK == \A a \in DOMAIN rows : ClockOK(rows[a], worked[a])

(* What was said of an application.                                          *)
TracesOK(row, refs, said, events) ==
    /\ refs = IF row.output THEN 1 ELSE 0
    /\ row.assigned # None => "assigned" \in events
    /\ row.decidedBy # None =>
          "decided" \in events /\ \E k \in {"ready", "approved", "refused"} : said[k] > 0
    /\ \A k \in Kinds : said[k] > 0 => said[k] = 1 /\ Truth(k, row)
    /\ row.status \in OpenStatuses => \A k \in Kinds \ {"overdue"} : said[k] = 0
    /\ row.status = "approved" => said["delivered"] = 0

Traced == \A a \in DOMAIN rows : TracesOK(rows[a], references[a], notices[a], timeline[a])

(* A decision under way is one of three.                                     *)
Verdict(j) ==
    \/ j.target = "completed" /\ j.output /\ j.kind = "ready"
    \/ j.target = "approved" /\ ~j.output /\ j.kind = "approved"
    \/ j.target = "rejected" /\ ~j.output /\ j.kind = "refused"

Deciding == \A r \in DOMAIN jobs \cap Requests : jobs[r].app \in DOMAIN rows /\ Verdict(jobs[r])

(* What a sweep has still to tell nobody else tells, and it is true.         *)
Sweeping ==
    \A w \in DOMAIN jobs \cap Sweepers : \A a \in jobs[w].list :
       /\ a \in DOMAIN rows /\ notices[a][jobs[w].at] = 0 /\ Truth(jobs[w].at, rows[a])
       /\ \A v \in DOMAIN jobs \cap Sweepers :
             a \in jobs[v].list /\ jobs[v].at = jobs[w].at => v = w

(* The inductive invariant.                                                  *)
IInv ==
    /\ TypeOK
    /\ Absent /\ RowsOK /\ ClocksOK /\ Traced /\ Deciding /\ Sweeping

-----------------------------------------------------------------------------
LEMMA FreshIsARow ==
    ASSUME NEW role \in {"user", "admin"}, NEW status \in Statuses
    PROVE  Fresh(role, status) \in Row
BY DEF Fresh, Row

LEMMA InitIInv ==
    ASSUME Names, Init
    PROVE  IInv
<1>1. PICK old \in SUBSET Apps, role \in {"user", "admin"}, status \in {"submitted", "in_review"} :
         rows = [a \in old |-> Fresh(role, status)]
  BY DEF Init
<1>2. DOMAIN jobs = {}
  BY DEF Init
<1>3. rows \in [old -> Row] /\ DOMAIN rows = old
  BY <1>1, FreshIsARow DEF Statuses
<1>4. TypeOK
  BY <1>2, <1>3, BoundAssumption DEF Init, TypeOK, Many
<1>5. \A a \in DOMAIN rows : rows[a] = Fresh(role, status)
  BY <1>1
<1>6. Absent /\ RowsOK /\ ClocksOK /\ Traced
  BY <1>1, <1>5, BoundAssumption DEF Init, Absent, RowsOK, RowOK, ClocksOK, ClockOK, Traced, TracesOK,
     Fresh, OpenStatuses, Office
<1> QED
  BY <1>2, <1>4, <1>6 DEF IInv, Deciding, Sweeping

-----------------------------------------------------------------------------
(* A step of a citizen or an officer changes one row and what was said of    *)
(* that application; when the row and its traces fit again, all is well.     *)
OneRow(a) ==
    /\ DOMAIN rows' = DOMAIN rows \cup {a} /\ rows' \in [DOMAIN rows' -> Row]
    /\ \A b \in DOMAIN rows \ {a} : rows'[b] = rows[b]
    /\ references' \in [Apps -> Nat] /\ notices' \in [Apps -> [Kinds -> 0..Many]]
    /\ timeline' \in [Apps -> SUBSET EventTypes] /\ answered' \subseteq Apps
    /\ \A b \in Apps \ {a} : /\ references'[b] = references[b] /\ notices'[b] = notices[b]
                             /\ timeline'[b] = timeline[b]
    /\ DOMAIN jobs' \subseteq DOMAIN jobs /\ \A j \in DOMAIN jobs' : jobs'[j] = jobs[j]
    /\ UNCHANGED <<now, faults, worked>>

Fits(a) ==
    /\ RowOK(rows'[a]) /\ ClockOK(rows'[a], worked[a])
    /\ TracesOK(rows'[a], references'[a], notices'[a], timeline'[a])
    /\ a \in DOMAIN rows =>
          \A k \in {"overdue", "silence"} :
             /\ Truth(k, rows[a]) => Truth(k, rows'[a])
             /\ notices'[a][k] = notices[a][k]

LEMMA OneRowKeeps ==
    ASSUME IInv, NEW a \in Apps, OneRow(a), Fits(a)
    PROVE  IInv'
<1>1. TypeOK'
  BY DEF IInv, TypeOK, OneRow
<1>2. Absent'
  BY DEF IInv, Absent, OneRow
<1>3. \A b \in DOMAIN rows' : b # a => b \in DOMAIN rows /\ rows'[b] = rows[b] /\ b \in Apps
  BY DEF OneRow, IInv, TypeOK
<1>4. RowsOK'
  BY <1>3 DEF IInv, RowsOK, Fits
<1>5. ClocksOK'
  <2>1. \A row, spent : ClockOK(row, spent) => ClockOK(row, spent)'
    BY DEF ClockOK, OneRow
  <2>2. \A b \in DOMAIN rows' : ClockOK(rows'[b], worked'[b])
    BY <1>3 DEF IInv, ClocksOK, Fits, OneRow
  <2> QED
    BY <2>2 DEF ClocksOK, ClockOK, OneRow
<1>6. Traced'
  BY <1>3 DEF IInv, Traced, Fits, OneRow
<1>7. Deciding'
  BY DEF IInv, Deciding, OneRow
<1>8. Sweeping'
  <2>1. ASSUME NEW w \in DOMAIN jobs' \cap Sweepers, NEW b \in jobs'[w].list
        PROVE  /\ b \in DOMAIN rows' /\ notices'[b][jobs'[w].at] = 0 /\ Truth(jobs'[w].at, rows'[b])
               /\ \A v \in DOMAIN jobs' \cap Sweepers :
                     b \in jobs'[v].list /\ jobs'[v].at = jobs'[w].at => v = w
    <3>1. /\ w \in DOMAIN jobs \cap Sweepers /\ jobs'[w] = jobs[w] /\ jobs[w] \in Sweep
          /\ b \in jobs[w].list /\ b \in Apps
      BY <2>1 DEF OneRow, IInv, TypeOK, Sweep
    <3>2. /\ b \in DOMAIN rows /\ notices[b][jobs[w].at] = 0 /\ Truth(jobs[w].at, rows[b])
          /\ \A v \in DOMAIN jobs \cap Sweepers :
                b \in jobs[v].list /\ jobs[v].at = jobs[w].at => v = w
      BY <3>1 DEF IInv, Sweeping
    <3>3. jobs[w].at \in {"overdue", "silence"}
      BY <3>1 DEF Sweep
    <3>4. b \in DOMAIN rows' /\ notices'[b][jobs[w].at] = 0 /\ Truth(jobs[w].at, rows'[b])
      BY <3>1, <3>2, <3>3 DEF OneRow, Fits
    <3> QED
      BY <3>1, <3>2, <3>4 DEF OneRow
  <2> QED
    BY <2>1 DEF Sweeping
<1> QED
  BY <1>1, <1>2, <1>4, <1>5, <1>6, <1>7, <1>8 DEF IInv

-----------------------------------------------------------------------------
(* Told and Logged change the entry of one application.                      *)
LEMMA ToldOf ==
    ASSUME TypeOK, NEW a \in Apps, NEW kind \in Kinds
    PROVE  /\ Told(a, kind) \in [Apps -> [Kinds -> 0..Many]]
           /\ \A b \in Apps \ {a} : Told(a, kind)[b] = notices[b]
           /\ \A k \in Kinds \ {kind} : Told(a, kind)[a][k] = notices[a][k]
           /\ notices[a][kind] = 0 => Told(a, kind)[a][kind] = 1
           /\ Told(a, kind)[a][kind] > 0
BY DEF TypeOK, Told, Many

LEMMA LoggedOf ==
    ASSUME TypeOK, NEW a \in Apps, NEW event \in EventTypes
    PROVE  /\ Logged(a, event) \in [Apps -> SUBSET EventTypes]
           /\ \A b \in Apps \ {a} : Logged(a, event)[b] = timeline[b]
           /\ Logged(a, event)[a] = timeline[a] \cup {event}
BY DEF TypeOK, Logged

(* applyAuto files a closed application, with its reference and its notice.  *)
LEMMA ApplyAutoKeeps ==
    ASSUME Names, IInv, NEW a \in Apps, NEW s \in Services, NEW role \in {"user", "admin"},
           ApplyAuto(a, s, role)
    PROVE  IInv'
<1> DEFINE new == [Fresh(role, "completed") EXCEPT !.service = s, !.result = "processed",
                                                   !.output = s \in Document]
<1>1. /\ new \in Row /\ new.status = "completed" /\ new.result = "processed"
      /\ new.output = (s \in Document) /\ new.assigned = None /\ new.decidedBy = None
      /\ new.due = None /\ new.suspended = None /\ ~new.breached /\ ~new.tacit
  <2>1. PICK output \in BOOLEAN : output <=> s \in Document
    OBVIOUS
  <2>2. output = (s \in Document)
    BY <2>1
  <2>3. new = [Fresh(role, "completed") EXCEPT !.service = s, !.result = "processed",
                                               !.output = output]
    BY <2>2
  <2> QED
    BY <2>2, <2>3 DEF Fresh, Row, Statuses, Results
<1>2. /\ a \notin DOMAIN rows /\ rows' = Put(rows, a, new) /\ notices' = Told(a, "ready")
      /\ references' = [references EXCEPT ![a] = IF s \in Document THEN @ + 1 ELSE @]
      /\ UNCHANGED <<now, timeline, jobs, faults, worked, answered>>
  BY DEF ApplyAuto, history
<1>3. worked[a] = 0 /\ references[a] = 0 /\ \A k \in Kinds : notices[a][k] = 0
  BY <1>2 DEF IInv, Absent
<1> HIDE DEF new
<1>4. OneRow(a)
  <2>1. DOMAIN rows' = DOMAIN rows \cup {a} /\ \A b \in DOMAIN rows \ {a} : rows'[b] = rows[b]
    BY <1>2 DEF Put
  <2>2. rows' \in [DOMAIN rows' -> Row]
    BY <1>1, <1>2 DEF Put, IInv, TypeOK
  <2>3. /\ references' \in [Apps -> Nat]
        /\ \A b \in Apps \ {a} : references'[b] = references[b]
    BY <1>2 DEF IInv, TypeOK
  <2>4. notices' \in [Apps -> [Kinds -> 0..Many]] /\ \A b \in Apps \ {a} : notices'[b] = notices[b]
    BY <1>2, ToldOf DEF IInv, Kinds
  <2> QED
    BY <1>2, <2>1, <2>2, <2>3, <2>4 DEF OneRow, IInv, TypeOK
<1>5. rows'[a] = new /\ a \notin DOMAIN rows
  BY <1>2 DEF Put
<1>6. RowOK(new) /\ ClockOK(new, worked[a])
  BY <1>1, <1>3 DEF RowOK, ClockOK, OpenStatuses, Office, Names, Results, IInv, TypeOK
<1>7. TracesOK(new, references'[a], notices'[a], timeline'[a])
  <2>1. references'[a] = IF s \in Document THEN 1 ELSE 0
    BY <1>2, <1>3 DEF IInv, TypeOK
  <2>2. \A k \in Kinds : notices'[a][k] > 0 => k = "ready" /\ notices'[a][k] = 1
    BY <1>2, <1>3, ToldOf DEF IInv, Kinds
  <2> QED
    BY <1>1, <2>1, <2>2 DEF TracesOK, Truth, OpenStatuses
<1> QED
  BY <1>4, <1>5, <1>6, <1>7, OneRowKeeps DEF Fits

(* applyManual files an open application with its deadline.                  *)
LEMMA ApplyManualKeeps ==
    ASSUME Names, IInv, NEW a \in Apps, NEW s \in Services, NEW role \in {"user", "admin"},
           ApplyManual(a, s, role)
    PROVE  IInv'
<1> DEFINE new == [Fresh(role, "registered") EXCEPT !.service = s, !.due = Deadline(s)]
<1>1. /\ Deadline(s) \in Times \cup {None} /\ now \in Nat
      /\ Deadline(s) # None => Deadline(s) = now + Sla /\ Deadline(s) \in Times
  BY BoundAssumption, CatalogueAssumption DEF IInv, TypeOK, Times, Deadline
<1>2. /\ new \in Row /\ new.status = "registered" /\ new.result = None /\ ~new.output
      /\ new.assigned = None /\ new.decidedBy = None
      /\ new.due = Deadline(s) /\ new.suspended = None /\ ~new.breached /\ ~new.tacit
  BY <1>1 DEF Fresh, Row, Statuses
<1>3. /\ a \notin DOMAIN rows /\ rows' = Put(rows, a, new)
      /\ UNCHANGED <<now, references, notices, timeline, jobs, faults, worked, answered>>
  BY DEF ApplyManual, history
<1>4. worked[a] = 0 /\ references[a] = 0 /\ \A k \in Kinds : notices[a][k] = 0
  BY <1>3 DEF IInv, Absent
<1> HIDE DEF new
<1>5. OneRow(a)
  BY <1>2, <1>3 DEF OneRow, Put, IInv, TypeOK
<1>6. rows'[a] = new /\ a \notin DOMAIN rows
  BY <1>3 DEF Put
<1>7. RowOK(new) /\ ClockOK(new, worked[a])
  BY <1>1, <1>2, <1>4, BoundAssumption DEF RowOK, ClockOK, OpenStatuses, Office
<1>8. TracesOK(new, references'[a], notices'[a], timeline'[a])
  BY <1>2, <1>3, <1>4 DEF TracesOK
<1> QED
  BY <1>5, <1>6, <1>7, <1>8, OneRowKeeps DEF Fits

(* The citizen withdraws an open application.                                *)
LEMMA CancelKeeps ==
    ASSUME Names, IInv, NEW a \in Apps, Cancel(a)
    PROVE  IInv'
<1>1. a \in DOMAIN rows /\ rows[a] \in Row
  BY DEF Cancel, IInv, TypeOK
<1>2. rows[a].status \in OpenStatuses
  BY <1>1 DEF Cancel, CanTransition, Transitions, OpenStatuses, Row, Statuses
<1>3. rows'[a] = [rows[a] EXCEPT !.status = "cancelled", !.result = "withdrawn"]
  BY <1>1 DEF Cancel, IInv, TypeOK
<1>4. rows'[a] \in Row
  BY <1>1, <1>3 DEF Row, Statuses, Results
<1>5. OneRow(a)
  BY <1>1, <1>4 DEF Cancel, OneRow, history, IInv, TypeOK
<1>6. RowOK(rows[a]) /\ ClockOK(rows[a], worked[a])
      /\ TracesOK(rows[a], references[a], notices[a], timeline[a])
  BY <1>1 DEF IInv, RowsOK, ClocksOK, Traced
<1>7. RowOK(rows'[a]) /\ ClockOK(rows'[a], worked[a])
  BY <1>1, <1>2, <1>3, <1>6 DEF RowOK, ClockOK, Row, OpenStatuses, Office, Names, Results
<1>8. TracesOK(rows'[a], references'[a], notices'[a], timeline'[a])
  BY <1>1, <1>2, <1>3, <1>6 DEF Cancel, TracesOK, Truth, Row, RowOK, OpenStatuses, Kinds
<1>9. \A k \in {"overdue", "silence"} : Truth(k, rows[a]) => Truth(k, rows'[a])
  BY <1>1, <1>3 DEF Truth, Row
<1> QED
  BY <1>1, <1>5, <1>7, <1>8, <1>9, OneRowKeeps DEF Cancel, Fits

(* What is known of the row that a step is about.                            *)
LEMMA RowFacts ==
    ASSUME IInv, NEW a \in DOMAIN rows
    PROVE  /\ a \in Apps /\ rows[a] \in Row /\ worked[a] \in Nat /\ now \in Nat
           /\ RowOK(rows[a]) /\ ClockOK(rows[a], worked[a])
           /\ TracesOK(rows[a], references[a], notices[a], timeline[a])
BY BoundAssumption DEF IInv, TypeOK, RowsOK, ClocksOK, Traced

(* The answer: the deadline moves by as long as the clock stood still, or,   *)
(* under the citizen's own role, nothing is written.                         *)
LEMMA ProvideInfoKeeps ==
    ASSUME Names, IInv, NEW a \in Apps, ProvideInfo(a)
    PROVE  IInv'
<1>1. a \in DOMAIN rows /\ rows[a].status = "info_required" /\ answered' = answered \cup {a}
      /\ UNCHANGED <<now, references, notices, jobs, faults, worked>>
  BY DEF ProvideInfo, StatusIn
<1>2. /\ rows[a] \in Row /\ worked[a] \in Nat /\ now \in Nat
      /\ RowOK(rows[a]) /\ ClockOK(rows[a], worked[a])
      /\ TracesOK(rows[a], references[a], notices[a], timeline[a])
  BY <1>1, RowFacts
<1>3. CASE MayLog(rows[a].role)
  <2> DEFINE new == Resumed(rows[a])
  <2>1. rows' = [rows EXCEPT ![a] = new] /\ timeline' = Logged(a, "info_provided")
    BY <1>3 DEF ProvideInfo
  <2>2. /\ rows[a].suspended # None /\ rows[a].suspended \in Nat /\ rows[a].suspended <= now
        /\ rows[a].due # None => rows[a].due + worked[a] = rows[a].suspended + Sla
                                 /\ rows[a].due \in Nat
        /\ worked[a] <= now /\ now <= MaxTick
    BY <1>1, <1>2, BoundAssumption DEF RowOK, ClockOK, Row, Times, IInv, TypeOK
  <2>3. rows[a].due # None =>
           /\ rows[a].due + (now - rows[a].suspended) = now + Sla - worked[a]
           /\ rows[a].due + (now - rows[a].suspended) \in Times
    BY <1>2, <2>2, BoundAssumption DEF Times
  <2>4. /\ new \in Row /\ new.status = "in_review" /\ new.suspended = None
        /\ new.due = IF rows[a].due # None THEN rows[a].due + (now - rows[a].suspended) ELSE None
        /\ new.result = rows[a].result /\ new.assigned = rows[a].assigned
        /\ new.decidedBy = rows[a].decidedBy /\ new.breached = rows[a].breached
        /\ new.tacit = rows[a].tacit /\ new.output = rows[a].output
    BY <1>2, <2>2, <2>3 DEF Resumed, Row, Statuses
  <2> HIDE DEF new
  <2>5. rows'[a] = new
    BY <1>1, <2>1
  <2>6. OneRow(a)
    <3>1. /\ timeline' \in [Apps -> SUBSET EventTypes]
          /\ \A b \in Apps \ {a} : timeline'[b] = timeline[b]
      BY <2>1, LoggedOf DEF IInv, EventTypes
    <3> QED
      BY <1>1, <2>1, <2>4, <3>1 DEF OneRow, IInv, TypeOK
  <2>7. RowOK(new)
    BY <1>1, <1>2, <2>4 DEF RowOK, OpenStatuses, Office
  <2>8. ClockOK(new, worked[a])
    BY <1>2, <2>2, <2>3, <2>4, BoundAssumption DEF ClockOK, Office
  <2>9. timeline'[a] = timeline[a] \cup {"info_provided"} /\ notices'[a] = notices[a]
        /\ references'[a] = references[a]
    BY <1>1, <2>1, LoggedOf DEF IInv, EventTypes
  <2>10. TracesOK(new, references'[a], notices'[a], timeline'[a])
    BY <1>1, <1>2, <2>4, <2>9 DEF TracesOK, Truth, RowOK, OpenStatuses, Kinds
  <2>11. \A k \in {"overdue", "silence"} : Truth(k, rows[a]) => Truth(k, new)
    BY <2>4 DEF Truth
  <2> QED
    BY <2>5, <2>6, <2>7, <2>8, <2>9, <2>10, <2>11, OneRowKeeps DEF Fits
<1>4. CASE ~MayLog(rows[a].role)
  <2>1. UNCHANGED <<rows, timeline>>
    BY <1>4 DEF ProvideInfo
  <2>2. OneRow(a)
    BY <1>1, <2>1 DEF OneRow, IInv, TypeOK
  <2> QED
    BY <1>1, <1>2, <2>1, <2>2, OneRowKeeps DEF Fits
<1> QED
  BY <1>3, <1>4

(* An officer takes an application.                                          *)
LEMMA AssignKeeps ==
    ASSUME Names, IInv, NEW a \in Apps, NEW o \in Officers, Assign(a, o)
    PROVE  IInv'
<1> DEFINE new == [rows[a] EXCEPT !.status = "in_review", !.assigned = o]
<1>1. /\ a \in DOMAIN rows /\ rows[a].status \in {"submitted", "registered", "in_review"}
      /\ rows' = [rows EXCEPT ![a] = new] /\ timeline' = Logged(a, "assigned")
      /\ UNCHANGED <<now, references, notices, jobs, faults, worked, answered>>
  BY DEF Assign, StatusIn, history, IInv, TypeOK
<1>2. /\ rows[a] \in Row /\ RowOK(rows[a]) /\ ClockOK(rows[a], worked[a])
      /\ TracesOK(rows[a], references[a], notices[a], timeline[a])
  BY <1>1, RowFacts
<1>3. /\ new \in Row /\ new.status = "in_review" /\ new.suspended = rows[a].suspended
      /\ new.due = rows[a].due /\ new.result = rows[a].result /\ new.assigned = o
      /\ new.decidedBy = rows[a].decidedBy /\ new.breached = rows[a].breached
      /\ new.tacit = rows[a].tacit /\ new.output = rows[a].output
  BY <1>2 DEF Row, Statuses
<1> HIDE DEF new
<1>4. rows'[a] = new
  BY <1>1
<1>5. OneRow(a)
  <2>1. /\ timeline' \in [Apps -> SUBSET EventTypes]
        /\ \A b \in Apps \ {a} : timeline'[b] = timeline[b]
    BY <1>1, LoggedOf DEF IInv, EventTypes
  <2> QED
    BY <1>1, <1>3, <2>1 DEF OneRow, IInv, TypeOK
<1>6. RowOK(new) /\ ClockOK(new, worked[a])
  BY <1>1, <1>2, <1>3 DEF RowOK, ClockOK, OpenStatuses, Office
<1>7. timeline'[a] = timeline[a] \cup {"assigned"}
  BY <1>1, LoggedOf DEF IInv, EventTypes
<1>8. TracesOK(new, references'[a], notices'[a], timeline'[a])
  BY <1>1, <1>2, <1>3, <1>7 DEF TracesOK, Truth, RowOK, OpenStatuses, Kinds
<1>9. \A k \in {"overdue", "silence"} : Truth(k, rows[a]) => Truth(k, new)
  BY <1>3 DEF Truth
<1> QED
  BY <1>1, <1>4, <1>5, <1>6, <1>8, <1>9, OneRowKeeps DEF Fits

(* The clock stands still while the citizen is asked.                        *)
LEMMA RequestInfoKeeps ==
    ASSUME Names, IInv, NEW a \in Apps, RequestInfo(a)
    PROVE  IInv'
<1> DEFINE new == [rows[a] EXCEPT !.status = "info_required", !.suspended = now]
<1>1. /\ a \in DOMAIN rows /\ rows[a].status \in Office
      /\ rows' = [rows EXCEPT ![a] = new] /\ timeline' = Logged(a, "info_requested")
      /\ answered' = answered \ {a}
      /\ UNCHANGED <<now, references, notices, jobs, faults, worked>>
  BY DEF RequestInfo, StatusIn, Office, IInv, TypeOK
<1>2. /\ rows[a] \in Row /\ now \in 0..MaxTick /\ now # None
      /\ RowOK(rows[a]) /\ ClockOK(rows[a], worked[a])
      /\ TracesOK(rows[a], references[a], notices[a], timeline[a])
  BY <1>1, RowFacts, CatalogueAssumption DEF IInv, TypeOK
<1>3. /\ new \in Row /\ new.status = "info_required" /\ new.suspended = now
      /\ new.due = rows[a].due /\ new.result = rows[a].result /\ new.assigned = rows[a].assigned
      /\ new.decidedBy = rows[a].decidedBy /\ new.breached = rows[a].breached
      /\ new.tacit = rows[a].tacit /\ new.output = rows[a].output
  BY <1>2 DEF Row, Statuses
<1> HIDE DEF new
<1>4. rows'[a] = new
  BY <1>1
<1>5. OneRow(a)
  <2>1. /\ timeline' \in [Apps -> SUBSET EventTypes]
        /\ \A b \in Apps \ {a} : timeline'[b] = timeline[b]
    BY <1>1, LoggedOf DEF IInv, EventTypes
  <2> QED
    BY <1>1, <1>3, <2>1 DEF OneRow, IInv, TypeOK
<1>6. RowOK(new)
  BY <1>1, <1>2, <1>3 DEF RowOK, OpenStatuses, Office
<1>7. ClockOK(new, worked[a])
  BY <1>1, <1>2, <1>3, BoundAssumption DEF ClockOK, Office
<1>8. timeline'[a] = timeline[a] \cup {"info_requested"}
  BY <1>1, LoggedOf DEF IInv, EventTypes
<1>9. TracesOK(new, references'[a], notices'[a], timeline'[a])
  BY <1>1, <1>2, <1>3, <1>8 DEF TracesOK, Truth, RowOK, OpenStatuses, Office, Kinds
<1>10. \A k \in {"overdue", "silence"} : Truth(k, rows[a]) => Truth(k, new)
  BY <1>3 DEF Truth
<1> QED
  BY <1>1, <1>4, <1>5, <1>6, <1>7, <1>9, <1>10, OneRowKeeps DEF Fits

(* An approved application is delivered.                                     *)
LEMMA CompleteKeeps ==
    ASSUME Names, IInv, NEW a \in Apps, Complete(a)
    PROVE  IInv'
<1> DEFINE new == [rows[a] EXCEPT !.status = "completed"]
<1>1. /\ a \in DOMAIN rows /\ rows[a].status = "approved"
      /\ rows' = [rows EXCEPT ![a] = new] /\ timeline' = Logged(a, "delivered")
      /\ notices' = Told(a, "delivered")
      /\ UNCHANGED <<now, references, jobs, faults, worked, answered>>
  BY DEF Complete, StatusIn, history, IInv, TypeOK
<1>2. /\ rows[a] \in Row /\ RowOK(rows[a]) /\ ClockOK(rows[a], worked[a])
      /\ TracesOK(rows[a], references[a], notices[a], timeline[a])
  BY <1>1, RowFacts
<1>3. /\ new \in Row /\ new.status = "completed" /\ new.suspended = rows[a].suspended
      /\ new.due = rows[a].due /\ new.result = rows[a].result /\ new.assigned = rows[a].assigned
      /\ new.decidedBy = rows[a].decidedBy /\ new.breached = rows[a].breached
      /\ new.tacit = rows[a].tacit /\ new.output = rows[a].output
  BY <1>2 DEF Row, Statuses
<1> HIDE DEF new
<1>4. rows'[a] = new
  BY <1>1
<1>5. /\ notices'[a]["delivered"] = 1
      /\ \A k \in Kinds \ {"delivered"} : notices'[a][k] = notices[a][k]
      /\ timeline'[a] = timeline[a] \cup {"delivered"}
  BY <1>1, <1>2, ToldOf, LoggedOf DEF IInv, TracesOK, Kinds, EventTypes
<1>6. OneRow(a)
  <2>1. /\ notices' \in [Apps -> [Kinds -> 0..Many]]
        /\ \A b \in Apps \ {a} : notices'[b] = notices[b]
    BY <1>1, ToldOf DEF IInv, Kinds
  <2>2. /\ timeline' \in [Apps -> SUBSET EventTypes]
        /\ \A b \in Apps \ {a} : timeline'[b] = timeline[b]
    BY <1>1, LoggedOf DEF IInv, EventTypes
  <2> QED
    BY <1>1, <1>3, <2>1, <2>2 DEF OneRow, IInv, TypeOK
<1>7. RowOK(new) /\ ClockOK(new, worked[a])
  BY <1>1, <1>2, <1>3 DEF RowOK, ClockOK, OpenStatuses, Office
<1>8. TracesOK(new, references'[a], notices'[a], timeline'[a])
  BY <1>1, <1>2, <1>3, <1>5 DEF TracesOK, Truth, RowOK, OpenStatuses, Kinds
<1>9. \A k \in {"overdue", "silence"} :
         (Truth(k, rows[a]) => Truth(k, new)) /\ notices'[a][k] = notices[a][k]
  BY <1>3, <1>5 DEF Truth, Kinds
<1> QED
  BY <1>1, <1>4, <1>6, <1>7, <1>8, <1>9, OneRowKeeps DEF Fits

(* The decision is written to a row that is still open: one result, one      *)
(* reference if any, one notice.                                             *)
LEMMA VerdictKeeps ==
    ASSUME Names, IInv, NEW r \in Requests, Decide(r),
           Verdict(jobs[r]), NEW a \in Apps, a \in DOMAIN rows, a = jobs[r].app,
           NEW target \in Statuses, target = jobs[r].target,
           NEW result \in Results, result = jobs[r].result,
           NEW officer \in Officers, officer = jobs[r].officer,
           NEW output \in BOOLEAN, output = jobs[r].output,
           NEW kind \in Kinds, kind = jobs[r].kind
    PROVE  IInv'
<1> DEFINE new == [rows[a] EXCEPT !.status = target, !.result = result,
                                  !.decidedBy = officer, !.output = output]
<1>2. /\ rows[a].status \in Decidable /\ rows' = [rows EXCEPT ![a] = new]
      /\ references' = [references EXCEPT ![a] = IF output THEN @ + 1 ELSE @]
      /\ notices' = Told(a, kind) /\ timeline' = Logged(a, "decided")
      /\ jobs' = Drop(jobs, r)
      /\ UNCHANGED <<now, faults, worked, answered>>
  BY DEF Decide, history, IInv, TypeOK
<1>3. /\ rows[a] \in Row /\ RowOK(rows[a]) /\ ClockOK(rows[a], worked[a])
      /\ TracesOK(rows[a], references[a], notices[a], timeline[a])
  BY RowFacts
<1>4. /\ officer # None /\ kind \in {"ready", "approved", "refused"}
      /\ target \in {"completed", "approved", "rejected"}
      /\ \/ target = "completed" /\ output /\ kind = "ready"
         \/ target = "approved" /\ ~output /\ kind = "approved"
         \/ target = "rejected" /\ ~output /\ kind = "refused"
  BY CatalogueAssumption DEF Verdict
<1>5. /\ new \in Row /\ new.status = target /\ new.suspended = rows[a].suspended
      /\ new.due = rows[a].due /\ new.result = result /\ new.assigned = rows[a].assigned
      /\ new.decidedBy = officer /\ new.breached = rows[a].breached
      /\ new.tacit = rows[a].tacit /\ new.output = output
  BY <1>3 DEF Row
<1> HIDE DEF new
<1>6. rows'[a] = new
  BY <1>2
<1>7. ~rows[a].tacit /\ ~rows[a].output /\ \A k \in Kinds \ {"overdue"} : notices[a][k] = 0
  BY <1>2, <1>3 DEF RowOK, TracesOK, Decidable, OpenStatuses
<1>8. /\ notices'[a][kind] = 1
      /\ \A k \in Kinds \ {kind} : notices'[a][k] = notices[a][k]
      /\ timeline'[a] = timeline[a] \cup {"decided"}
      /\ references'[a] = IF output THEN 1 ELSE 0
  <2>1. notices'[a][kind] = 1 /\ \A k \in Kinds \ {kind} : notices'[a][k] = notices[a][k]
    BY <1>2, <1>3, <1>4, <1>7, ToldOf DEF IInv
  <2>2. timeline'[a] = timeline[a] \cup {"decided"}
    BY <1>2, <1>3, LoggedOf DEF IInv, EventTypes
  <2>3. references[a] = 0 /\ references'[a] = IF output THEN 1 ELSE 0
    BY <1>2, <1>3, <1>7 DEF TracesOK, IInv, TypeOK
  <2> QED
    BY <2>1, <2>2, <2>3
<1>9. OneRow(a)
  <2>1. /\ notices' \in [Apps -> [Kinds -> 0..Many]]
        /\ \A b \in Apps \ {a} : notices'[b] = notices[b]
    BY <1>2, <1>3, <1>4, ToldOf DEF IInv
  <2>2. /\ timeline' \in [Apps -> SUBSET EventTypes]
        /\ \A b \in Apps \ {a} : timeline'[b] = timeline[b]
    BY <1>2, <1>3, LoggedOf DEF IInv, EventTypes
  <2>3. /\ references' \in [Apps -> Nat]
        /\ \A b \in Apps \ {a} : references'[b] = references[b]
    BY <1>2 DEF IInv, TypeOK
  <2>4. DOMAIN jobs' \subseteq DOMAIN jobs /\ \A q \in DOMAIN jobs' : jobs'[q] = jobs[q]
    BY <1>2 DEF Drop
  <2>5. /\ DOMAIN rows' = DOMAIN rows \cup {a} /\ rows' \in [DOMAIN rows' -> Row]
        /\ \A b \in DOMAIN rows \ {a} : rows'[b] = rows[b]
    BY <1>2, <1>5 DEF IInv, TypeOK
  <2>6. answered' \subseteq Apps /\ UNCHANGED <<now, faults, worked>>
    BY <1>2 DEF IInv, TypeOK
  <2> QED
    BY <2>1, <2>2, <2>3, <2>4, <2>5, <2>6 DEF OneRow
<1>10. RowOK(new)
  BY <1>3, <1>4, <1>5, <1>7 DEF RowOK, OpenStatuses, Office, Names, Results
<1>11. ClockOK(new, worked[a])
  BY <1>3, <1>4, <1>5 DEF ClockOK, Office
<1>12. TracesOK(new, references'[a], notices'[a], timeline'[a])
  <2>1. \A k \in Kinds : notices'[a][k] > 0 => notices'[a][k] = 1 /\ Truth(k, new)
    <3>1. Truth(kind, new)
      BY <1>4, <1>5, <1>7 DEF Truth
    <3>2. notices[a]["overdue"] > 0 => notices[a]["overdue"] = 1 /\ Truth("overdue", new)
      BY <1>3, <1>5 DEF TracesOK, Truth, Kinds
    <3> QED
      BY <1>4, <1>7, <1>8, <3>1, <3>2
  <2>2. /\ new.assigned # None => "assigned" \in timeline'[a]
        /\ "decided" \in timeline'[a] /\ \E k \in {"ready", "approved", "refused"} : notices'[a][k] > 0
    BY <1>3, <1>4, <1>5, <1>8 DEF TracesOK
  <2>3. references'[a] = IF new.output THEN 1 ELSE 0
    BY <1>5, <1>8
  <2>4. new.status \notin OpenStatuses /\ notices'[a]["delivered"] = 0
    BY <1>4, <1>5, <1>7, <1>8 DEF OpenStatuses, Kinds
  <2> QED
    BY <1>4, <1>5, <2>1, <2>2, <2>3, <2>4 DEF TracesOK
<1>13. \A k \in {"overdue", "silence"} :
          (Truth(k, rows[a]) => Truth(k, new)) /\ notices'[a][k] = notices[a][k]
  <2>1. ASSUME NEW k \in {"overdue", "silence"}
        PROVE  notices'[a][k] = notices[a][k]
    BY <1>4, <1>8 DEF Kinds
  <2>2. ~rows[a].tacit /\ new.breached = rows[a].breached
    BY <1>5, <1>7
  <2> QED
    BY <2>1, <2>2 DEF Truth
<1> QED
  BY <1>3, <1>6, <1>9, <1>10, <1>11, <1>12, <1>13, OneRowKeeps DEF Fits

LEMMA DecideKeeps ==
    ASSUME Names, IInv, NEW r \in Requests, Decide(r)
    PROVE  IInv'
<1>1. r \in DOMAIN jobs /\ jobs[r] \in Decision /\ Verdict(jobs[r]) /\ jobs[r].app \in DOMAIN rows
  BY DEF Decide, At, IInv, TypeOK, Deciding
<1>2. PICK a \in Apps, target \in Statuses, result \in Results, officer \in Officers,
           output \in BOOLEAN, kind \in Kinds :
         /\ a = jobs[r].app /\ target = jobs[r].target /\ result = jobs[r].result
         /\ officer = jobs[r].officer /\ output = jobs[r].output /\ kind = jobs[r].kind
  BY <1>1 DEF Decision
<1> QED
  BY <1>1, <1>2, VerdictKeeps

-----------------------------------------------------------------------------
(* Steps that change only what handlers and sweeps hold.                     *)
TablesStay == UNCHANGED <<now, rows, references, notices, timeline, worked, answered>>

LEMMA JobsOnly ==
    ASSUME IInv, TablesStay, faults' \in 0..MaxFaults,
           DOMAIN jobs' \subseteq Requests \cup Sweepers,
           \A r \in DOMAIN jobs' \cap Requests :
              jobs'[r] \in Decision /\ jobs'[r].app \in DOMAIN rows /\ Verdict(jobs'[r]),
           \A w \in DOMAIN jobs' \cap Sweepers :
              /\ jobs'[w] \in Sweep
              /\ \/ jobs'[w].list = {}
                 \/ w \in DOMAIN jobs /\ jobs'[w] = jobs[w]
    PROVE  IInv'
<1>1. TypeOK'
  BY DEF IInv, TypeOK, TablesStay
<1>2. Absent' /\ RowsOK' /\ Traced'
  BY DEF IInv, Absent, RowsOK, Traced, TablesStay
<1>3. ClocksOK'
  BY DEF IInv, ClocksOK, ClockOK, TablesStay
<1>4. Deciding'
  BY DEF Deciding, TablesStay
<1>5. Sweeping'
  <2> SUFFICES ASSUME NEW w \in DOMAIN jobs' \cap Sweepers, NEW a \in jobs'[w].list
               PROVE  /\ a \in DOMAIN rows /\ notices[a][jobs'[w].at] = 0
                      /\ Truth(jobs'[w].at, rows[a])
                      /\ \A v \in DOMAIN jobs' \cap Sweepers :
                            a \in jobs'[v].list /\ jobs'[v].at = jobs'[w].at => v = w
    BY DEF Sweeping, TablesStay
  <2>1. w \in DOMAIN jobs /\ jobs'[w] = jobs[w]
    OBVIOUS
  <2>2. \A v \in DOMAIN jobs' \cap Sweepers :
           a \in jobs'[v].list => v \in DOMAIN jobs /\ jobs'[v] = jobs[v]
    OBVIOUS
  <2> QED
    BY <2>1, <2>2 DEF IInv, Sweeping
<1> QED
  BY <1>1, <1>2, <1>3, <1>4, <1>5 DEF IInv

LEMMA DropKeeps ==
    ASSUME IInv, TablesStay, faults' \in 0..MaxFaults, NEW x, jobs' = Drop(jobs, x)
    PROVE  IInv'
<1>1. DOMAIN jobs' \subseteq DOMAIN jobs /\ \A y \in DOMAIN jobs' : jobs'[y] = jobs[y]
  BY DEF Drop
<1> QED
  BY <1>1, JobsOnly DEF IInv, TypeOK, Deciding

LEMMA ReadForDecisionKeeps ==
    ASSUME IInv, NEW r \in Requests, NEW a \in Apps, NEW o \in Officers,
           ReadForDecision(r, a, o)
    PROVE  IInv'
<1>1. PICK j \in Decision : jobs' = Put(jobs, r, j) /\ j.app = a /\ Verdict(j)
  <2>1. PICK approve \in BOOLEAN, found \in BOOLEAN, grant \in Grants :
          LET output == approve /\ found /\ rows[a].service \in Document
              target == IF output THEN "completed"
                        ELSE IF approve THEN "approved" ELSE "rejected"
          IN  /\ CanTransition(rows[a].status, target)
              /\ jobs' = Put(jobs, r,
                    [at |-> "decide", app |-> a, officer |-> o, target |-> target,
                     result |-> IF approve THEN grant ELSE "refused",
                     output |-> output,
                     kind |-> IF output THEN "ready"
                              ELSE IF approve THEN "approved" ELSE "refused"])
    BY DEF ReadForDecision
  <2>2. PICK output \in BOOLEAN : output = (approve /\ found /\ rows[a].service \in Document)
    OBVIOUS
  <2> DEFINE j == [at |-> "decide", app |-> a, officer |-> o,
                   target |-> IF output THEN "completed"
                              ELSE IF approve THEN "approved" ELSE "rejected",
                   result |-> IF approve THEN grant ELSE "refused",
                   output |-> output,
                   kind |-> IF output THEN "ready"
                            ELSE IF approve THEN "approved" ELSE "refused"]
  <2>3. jobs' = Put(jobs, r, j)
    BY <2>1, <2>2
  <2>4. j \in Decision /\ j.app = a
    BY CatalogueAssumption DEF Decision, Statuses, Results, Kinds
  <2>5. Verdict(j)
    BY <2>2 DEF Verdict
  <2> QED
    BY <2>3, <2>4, <2>5
<1>2. a \in DOMAIN rows /\ TablesStay /\ faults' = faults
  BY DEF ReadForDecision, TablesStay, tables, history
<1>3. /\ DOMAIN jobs' = DOMAIN jobs \cup {r} /\ jobs'[r] = j
      /\ \A x \in DOMAIN jobs \ {r} : jobs'[x] = jobs[x]
  BY <1>1 DEF Put
<1>4. r \notin Sweepers
  BY WorkerAssumption
<1> QED
  BY <1>1, <1>2, <1>3, <1>4, JobsOnly DEF IInv, TypeOK, Deciding

LEMMA MarkFailsKeeps ==
    ASSUME IInv, NEW w \in Sweepers, MarkFails(w)
    PROVE  IInv'
<1>1. TablesStay /\ faults' \in 0..MaxFaults
  BY BoundAssumption DEF MarkFails, TablesStay, tables, history, IInv, TypeOK
<1>2. PICK j \in Sweep : jobs' = Put(jobs, w, j) /\ j.list = {}
  BY DEF MarkFails, Sweep
<1>3. /\ DOMAIN jobs' = DOMAIN jobs \cup {w} /\ jobs'[w] = j
      /\ \A x \in DOMAIN jobs \ {w} : jobs'[x] = jobs[x]
  BY <1>2 DEF Put
<1>4. w \notin Requests
  BY WorkerAssumption
<1>5. \A r \in DOMAIN jobs' \cap Requests :
         jobs'[r] \in Decision /\ jobs'[r].app \in DOMAIN rows /\ Verdict(jobs'[r])
  BY <1>3, <1>4 DEF IInv, TypeOK, Deciding
<1>6. \A v \in DOMAIN jobs' \cap Sweepers :
         /\ jobs'[v] \in Sweep
         /\ \/ jobs'[v].list = {}
            \/ v \in DOMAIN jobs /\ jobs'[v] = jobs[v]
  BY <1>2, <1>3 DEF IInv, TypeOK
<1>7. DOMAIN jobs' \subseteq Requests \cup Sweepers
  BY <1>3 DEF IInv, TypeOK
<1> QED
  BY <1>1, <1>5, <1>6, <1>7, JobsOnly

-----------------------------------------------------------------------------
(* The sweep.  Each of its two statements changes rows by itself and lists   *)
(* what it changed; Swept says what the rest of the argument needs of that.  *)
Swept(w, kind, list) ==
    /\ list \subseteq DOMAIN rows /\ DOMAIN rows' = DOMAIN rows /\ rows' \in [DOMAIN rows -> Row]
    /\ \A a \in DOMAIN rows \ list : rows'[a] = rows[a]
    /\ \A a \in list :
          /\ RowOK(rows'[a]) /\ ClockOK(rows'[a], worked[a])
          /\ TracesOK(rows'[a], references[a], notices[a], timeline[a])
          /\ \A k \in {"overdue", "silence"} : Truth(k, rows[a]) => Truth(k, rows'[a])
          /\ notices[a][kind] = 0 /\ Truth(kind, rows'[a]) /\ ~Truth(kind, rows[a])
    /\ jobs' = Put(jobs, w, [at |-> kind, list |-> list])
    /\ w \in DOMAIN jobs => jobs[w].list = {}
    /\ UNCHANGED <<now, references, notices, timeline, faults, worked, answered>>

LEMMA SweptKeeps ==
    ASSUME IInv, NEW w \in Sweepers, NEW kind \in {"overdue", "silence"},
           NEW list \in SUBSET Apps, Swept(w, kind, list)
    PROVE  IInv'
<1>1. /\ DOMAIN jobs' = DOMAIN jobs \cup {w} /\ jobs'[w] = [at |-> kind, list |-> list]
      /\ \A x \in DOMAIN jobs \ {w} : jobs'[x] = jobs[x]
  BY DEF Swept, Put
<1>2. w \notin Requests /\ [at |-> kind, list |-> list] \in Sweep
  BY WorkerAssumption DEF Sweep
<1>3. TypeOK'
  BY <1>1, <1>2 DEF IInv, TypeOK, Swept
<1>4. Absent' /\ RowsOK' /\ Traced'
  BY DEF IInv, Absent, RowsOK, Traced, Swept
<1>5. ClocksOK'
  <2>1. \A a \in DOMAIN rows : ClockOK(rows'[a], worked[a])
    BY DEF IInv, ClocksOK, Swept
  <2> QED
    BY <2>1 DEF ClocksOK, ClockOK, Swept
<1>6. Deciding'
  BY <1>1, <1>2 DEF IInv, Deciding, Swept
<1>7. Sweeping'
  <2>1. \A v \in DOMAIN jobs \cap Sweepers : v # w =>
           \A a \in jobs[v].list : /\ a \in DOMAIN rows /\ notices[a][jobs[v].at] = 0
                                   /\ Truth(jobs[v].at, rows[a]) /\ Truth(jobs[v].at, rows'[a])
                                   /\ jobs[v].at = kind => a \notin list
    <3> SUFFICES ASSUME NEW v \in DOMAIN jobs \cap Sweepers, v # w, NEW a \in jobs[v].list
                 PROVE  /\ a \in DOMAIN rows /\ notices[a][jobs[v].at] = 0
                        /\ Truth(jobs[v].at, rows[a]) /\ Truth(jobs[v].at, rows'[a])
                        /\ jobs[v].at = kind => a \notin list
      OBVIOUS
    <3>1. a \in DOMAIN rows /\ notices[a][jobs[v].at] = 0 /\ Truth(jobs[v].at, rows[a])
      BY DEF IInv, Sweeping
    <3>2. jobs[v].at \in {"overdue", "silence"}
      BY DEF IInv, TypeOK, Sweep
    <3>3. Truth(jobs[v].at, rows'[a])
      BY <3>1, <3>2 DEF Swept
    <3> QED
      BY <3>1, <3>3 DEF Swept
  <2>2. \A a \in list : a \in DOMAIN rows /\ notices[a][kind] = 0 /\ Truth(kind, rows'[a])
    BY DEF Swept
  <2>3. \A v \in DOMAIN jobs \cap Sweepers, u \in DOMAIN jobs \cap Sweepers :
           \A a \in jobs[v].list : a \in jobs[u].list /\ jobs[u].at = jobs[v].at => u = v
    BY DEF IInv, Sweeping
  <2> SUFFICES ASSUME NEW v \in DOMAIN jobs' \cap Sweepers, NEW a \in jobs'[v].list
               PROVE  /\ a \in DOMAIN rows' /\ notices'[a][jobs'[v].at] = 0
                      /\ Truth(jobs'[v].at, rows'[a])
                      /\ \A u \in DOMAIN jobs' \cap Sweepers :
                            a \in jobs'[u].list /\ jobs'[u].at = jobs'[v].at => u = v
    BY DEF Sweeping
  <2>4. CASE v = w
    <3>1. jobs'[v].at = kind /\ jobs'[v].list = list
      BY <1>1, <2>4
    <3>2. ASSUME NEW u \in DOMAIN jobs' \cap Sweepers, a \in jobs'[u].list, jobs'[u].at = kind, u # w
          PROVE  FALSE
      BY <1>1, <2>1, <3>1, <3>2
    <3> QED
      BY <2>2, <2>4, <3>1, <3>2 DEF Swept
  <2>5. CASE v # w
    <3>1. v \in DOMAIN jobs /\ jobs'[v] = jobs[v]
      BY <1>1, <2>5
    <3>2. a \in DOMAIN rows /\ notices[a][jobs[v].at] = 0 /\ Truth(jobs[v].at, rows'[a])
      BY <2>1, <2>5, <3>1
    <3>3. ASSUME NEW u \in DOMAIN jobs' \cap Sweepers, a \in jobs'[u].list, jobs'[u].at = jobs'[v].at
          PROVE  u = v
      <4>1. CASE u = w
        BY <1>1, <2>1, <2>5, <3>1, <3>3, <4>1
      <4>2. CASE u # w
        BY <1>1, <2>3, <3>1, <3>3, <4>2
      <4> QED
        BY <4>1, <4>2
    <3> QED
      BY <3>1, <3>2, <3>3 DEF Swept
  <2> QED
    BY <2>4, <2>5
<1> QED
  BY <1>3, <1>4, <1>5, <1>6, <1>7 DEF IInv

(* Every marked row was with the office and its deadline has passed, so the  *)
(* office has had it for longer than the SLA.                                *)
LEMMA LateRow ==
    ASSUME IInv, NEW a \in DOMAIN rows, Overdue(rows[a]),
           rows[a].status \in Office \cup {"submitted"}
    PROVE  rows[a].status \in Office /\ worked[a] > Sla
<1>1. /\ rows[a] \in Row /\ worked[a] \in Nat /\ now \in Nat
      /\ RowOK(rows[a]) /\ ClockOK(rows[a], worked[a])
  BY RowFacts
<1>2. rows[a].status \in Office /\ rows[a].due # None /\ rows[a].due < now
  BY <1>1 DEF Overdue, RowOK, Office
<1>3. rows[a].due \in Int
  BY <1>1, <1>2, BoundAssumption DEF Row, Times
<1> QED
  BY <1>1, <1>2, <1>3, BoundAssumption DEF ClockOK

LEMMA MarkSLABreachedKeeps ==
    ASSUME IInv, NEW w \in Sweepers, MarkSLABreached(w)
    PROVE  IInv'
<1>1. ToMark \subseteq DOMAIN rows /\ DOMAIN rows \subseteq Apps
  BY DEF ToMark, IInv, TypeOK
<1>2. ASSUME NEW a \in ToMark
      PROVE  /\ rows'[a] \in Row /\ RowOK(rows'[a]) /\ ClockOK(rows'[a], worked[a])
             /\ TracesOK(rows'[a], references[a], notices[a], timeline[a])
             /\ \A k \in {"overdue", "silence"} : Truth(k, rows[a]) => Truth(k, rows'[a])
             /\ notices[a]["overdue"] = 0 /\ Truth("overdue", rows'[a])
             /\ ~Truth("overdue", rows[a])
  <2> DEFINE new == [rows[a] EXCEPT !.breached = TRUE]
  <2>1. /\ a \in DOMAIN rows /\ rows'[a] = new /\ ~rows[a].breached
        /\ rows[a].status \in Office \cup {"submitted"} /\ Overdue(rows[a])
    BY <1>1 DEF MarkSLABreached, ToMark, Office
  <2>2. /\ rows[a] \in Row /\ RowOK(rows[a]) /\ ClockOK(rows[a], worked[a])
        /\ TracesOK(rows[a], references[a], notices[a], timeline[a])
    BY <2>1, RowFacts
  <2>3. /\ new \in Row /\ new.status = rows[a].status /\ new.suspended = rows[a].suspended
        /\ new.due = rows[a].due /\ new.result = rows[a].result
        /\ new.assigned = rows[a].assigned /\ new.decidedBy = rows[a].decidedBy
        /\ new.breached /\ new.tacit = rows[a].tacit /\ new.output = rows[a].output
    BY <2>2 DEF Row
  <2> HIDE DEF new
  <2>4. worked[a] > Sla
    BY <2>1, LateRow
  <2>5. RowOK(new)
    BY <2>2, <2>3 DEF RowOK
  <2>6. ClockOK(new, worked[a])
    BY <2>2, <2>3, <2>4 DEF ClockOK
  <2>7. Truth("overdue", new) /\ ~Truth("overdue", rows[a])
    BY <2>1, <2>3 DEF Truth
  <2>8. \A k \in Kinds : Truth(k, rows[a]) => Truth(k, new)
    BY <2>3 DEF Truth, Kinds
  <2>9. TracesOK(new, references[a], notices[a], timeline[a])
    BY <2>2, <2>3, <2>8 DEF TracesOK
  <2>10. notices[a]["overdue"] = 0
    <3>1. notices[a]["overdue"] \in Nat
      BY <1>1, <2>1 DEF IInv, TypeOK, Kinds, Many
    <3> QED
      BY <2>2, <2>7, <3>1 DEF TracesOK, Kinds
  <2> QED
    BY <2>1, <2>3, <2>5, <2>6, <2>7, <2>8, <2>9, <2>10 DEF Kinds
<1>3. DOMAIN rows' = DOMAIN rows /\ \A a \in DOMAIN rows \ ToMark : rows'[a] = rows[a]
  BY DEF MarkSLABreached
<1>4. rows' \in [DOMAIN rows -> Row]
  <2>1. \A a \in DOMAIN rows : rows'[a] \in Row
    BY <1>2, <1>3 DEF IInv, TypeOK
  <2>2. rows' = [a \in DOMAIN rows |-> rows'[a]]
    BY DEF MarkSLABreached
  <2> QED
    BY <2>1, <2>2
<1>5. /\ w \notin DOMAIN jobs /\ jobs' = Put(jobs, w, [at |-> "overdue", list |-> ToMark])
      /\ UNCHANGED <<now, references, notices, timeline, faults, worked, answered>>
  BY DEF MarkSLABreached, history
<1>6. Swept(w, "overdue", ToMark)
  BY <1>1, <1>2, <1>3, <1>4, <1>5 DEF Swept
<1>7. PICK list \in SUBSET Apps : list = ToMark
  BY <1>1
<1> QED
  BY <1>6, <1>7, SweptKeeps

(* Granted by silence is what was still open, and marked or not, late.       *)
LEMMA TacitApprovalsKeeps ==
    ASSUME Names, IInv, NEW w \in Sweepers, TacitApprovals(w)
    PROVE  IInv'
<1>1. ToGrant \subseteq DOMAIN rows /\ DOMAIN rows \subseteq Apps
  BY DEF ToGrant, IInv, TypeOK
<1>2. ASSUME NEW a \in ToGrant
      PROVE  /\ rows'[a] \in Row /\ RowOK(rows'[a]) /\ ClockOK(rows'[a], worked[a])
             /\ TracesOK(rows'[a], references[a], notices[a], timeline[a])
             /\ \A k \in {"overdue", "silence"} : Truth(k, rows[a]) => Truth(k, rows'[a])
             /\ notices[a]["silence"] = 0 /\ Truth("silence", rows'[a])
             /\ ~Truth("silence", rows[a])
  <2> DEFINE new == [rows[a] EXCEPT !.status = "completed", !.result = "granted", !.tacit = TRUE]
  <2>1. /\ a \in DOMAIN rows /\ rows'[a] = new
        /\ rows[a].status \in Office /\ Overdue(rows[a])
    BY <1>1 DEF TacitApprovals, ToGrant, Office
  <2>2. /\ rows[a] \in Row /\ RowOK(rows[a]) /\ ClockOK(rows[a], worked[a])
        /\ TracesOK(rows[a], references[a], notices[a], timeline[a])
    BY <2>1, RowFacts
  <2>3. /\ new \in Row /\ new.status = "completed" /\ new.suspended = rows[a].suspended
        /\ new.due = rows[a].due /\ new.result = "granted"
        /\ new.assigned = rows[a].assigned /\ new.decidedBy = rows[a].decidedBy
        /\ new.breached = rows[a].breached /\ new.tacit /\ new.output = rows[a].output
    BY <2>2 DEF Row, Statuses, Results
  <2> HIDE DEF new
  <2>4. worked[a] > Sla
    BY <2>1, LateRow DEF Office
  <2>5. RowOK(new)
    BY <2>2, <2>3 DEF RowOK, OpenStatuses, Office, Names, Results
  <2>6. ClockOK(new, worked[a])
    BY <2>2, <2>3, <2>4 DEF ClockOK, Office
  <2>7. ~rows[a].tacit /\ rows[a].decidedBy = None /\ \A k \in Kinds \ {"overdue"} : notices[a][k] = 0
    BY <2>1, <2>2 DEF RowOK, TracesOK, OpenStatuses, Office
  <2>8. Truth("silence", new) /\ ~Truth("silence", rows[a])
    BY <2>3, <2>7 DEF Truth
  <2>9. \A k \in {"overdue", "silence"} : Truth(k, rows[a]) => Truth(k, new)
    BY <2>3 DEF Truth
  <2>10. TracesOK(new, references[a], notices[a], timeline[a])
    BY <2>2, <2>3, <2>7, <2>9 DEF TracesOK, OpenStatuses
  <2> QED
    BY <2>1, <2>3, <2>5, <2>6, <2>7, <2>8, <2>9, <2>10 DEF Kinds
<1>3. DOMAIN rows' = DOMAIN rows /\ \A a \in DOMAIN rows \ ToGrant : rows'[a] = rows[a]
  BY DEF TacitApprovals
<1>4. rows' \in [DOMAIN rows -> Row]
  <2>1. \A a \in DOMAIN rows : rows'[a] \in Row
    BY <1>2, <1>3 DEF IInv, TypeOK
  <2>2. rows' = [a \in DOMAIN rows |-> rows'[a]]
    BY DEF TacitApprovals
  <2> QED
    BY <2>1, <2>2
<1>5. /\ jobs[w].list = {} /\ jobs' = Put(jobs, w, [at |-> "silence", list |-> ToGrant])
      /\ UNCHANGED <<now, references, notices, timeline, faults, worked, answered>>
  BY DEF TacitApprovals, history
<1>6. Swept(w, "silence", ToGrant)
  BY <1>1, <1>2, <1>3, <1>4, <1>5 DEF Swept
<1>7. PICK list \in SUBSET Apps : list = ToGrant
  BY <1>1
<1> QED
  BY <1>6, <1>7, SweptKeeps

(* A notice of the sweep is told once: it leaves the list as it is told.     *)
LEMMA TellKeeps ==
    ASSUME IInv, NEW w \in Sweepers, Tell(w)
    PROVE  IInv'
<1>1. PICK a \in jobs[w].list :
         /\ w \in DOMAIN jobs /\ jobs' = [jobs EXCEPT ![w].list = @ \ {a}]
         /\ notices' \in {notices, Told(a, jobs[w].at)}
         /\ UNCHANGED <<now, rows, references, timeline, faults, worked, answered>>
  BY DEF Tell, TellRow, history
<1>2. /\ a \in DOMAIN rows /\ a \in Apps /\ notices[a][jobs[w].at] = 0
      /\ Truth(jobs[w].at, rows[a]) /\ jobs[w] \in Sweep
      /\ \A v \in DOMAIN jobs \cap Sweepers :
            a \in jobs[v].list /\ jobs[v].at = jobs[w].at => v = w
  BY <1>1 DEF IInv, TypeOK, Sweeping
<1>3. PICK kind \in {"overdue", "silence"} : kind = jobs[w].at
  BY <1>2 DEF Sweep
<1>4. /\ DOMAIN jobs' = DOMAIN jobs /\ jobs'[w].at = kind /\ jobs'[w].list = jobs[w].list \ {a}
      /\ jobs'[w] \in Sweep /\ \A x \in DOMAIN jobs \ {w} : jobs'[x] = jobs[x]
  BY <1>1, <1>2, <1>3 DEF Sweep, IInv, TypeOK
<1>5. /\ notices' \in [Apps -> [Kinds -> 0..Many]]
      /\ \A b \in Apps \ {a} : notices'[b] = notices[b]
      /\ \A k \in Kinds \ {kind} : notices'[a][k] = notices[a][k]
      /\ notices'[a][kind] \in {0, 1}
  <2>1. CASE notices' = notices
    BY <1>2, <1>3, <2>1 DEF IInv, TypeOK
  <2>2. CASE notices' = Told(a, kind)
    BY <1>2, <1>3, <2>2, ToldOf DEF IInv, Kinds
  <2> QED
    BY <1>1, <1>3, <2>1, <2>2
<1>6. TypeOK'
  <2>1. w \notin Requests
    BY WorkerAssumption
  <2> QED
    BY <1>1, <1>4, <1>5, <2>1 DEF IInv, TypeOK
<1>7. Absent' /\ RowsOK'
  BY <1>1, <1>2, <1>5 DEF IInv, Absent, RowsOK
<1>8. ClocksOK'
  BY <1>1 DEF IInv, ClocksOK, ClockOK
<1>9. Traced'
  <2>1. RowOK(rows[a]) /\ TracesOK(rows[a], references[a], notices[a], timeline[a])
    BY <1>2, RowFacts
  <2>2. Truth(kind, rows[a])
    BY <1>2, <1>3
  <2>3. kind = "silence" => rows[a].status \notin OpenStatuses
    BY <2>1, <2>2 DEF Truth, RowOK
  <2>4. \A k \in Kinds : notices'[a][k] > 0 => notices'[a][k] = 1 /\ Truth(k, rows[a])
    BY <1>5, <2>1, <2>2 DEF TracesOK
  <2>5. rows[a].decidedBy # None => \E k \in {"ready", "approved", "refused"} : notices'[a][k] > 0
    BY <1>5, <2>1 DEF TracesOK, Kinds
  <2>6. rows[a].status \in OpenStatuses => \A k \in Kinds \ {"overdue"} : notices'[a][k] = 0
    BY <1>3, <1>5, <2>1, <2>3 DEF TracesOK
  <2>7. rows[a].status = "approved" => notices'[a]["delivered"] = 0
    BY <1>5, <2>1 DEF TracesOK, Kinds
  <2>8. TracesOK(rows[a], references[a], notices'[a], timeline[a])
    BY <2>1, <2>4, <2>5, <2>6, <2>7 DEF TracesOK
  <2> QED
    BY <1>1, <1>5, <2>8 DEF IInv, TypeOK, Traced
<1>10. Deciding'
  BY <1>1, <1>4, WorkerAssumption DEF IInv, Deciding
<1>11. Sweeping'
  <2> SUFFICES ASSUME NEW v \in DOMAIN jobs \cap Sweepers, NEW b \in jobs'[v].list
               PROVE  /\ b \in DOMAIN rows /\ notices'[b][jobs'[v].at] = 0
                      /\ Truth(jobs'[v].at, rows[b])
                      /\ \A u \in DOMAIN jobs \cap Sweepers :
                            b \in jobs'[u].list /\ jobs'[u].at = jobs'[v].at => u = v
    BY <1>1, <1>4 DEF Sweeping
  <2>1. \A u \in DOMAIN jobs \cap Sweepers :
           /\ jobs'[u].at = jobs[u].at /\ jobs'[u].list \subseteq jobs[u].list
           /\ jobs[u].at \in {"overdue", "silence"} /\ jobs[u].list \subseteq Apps
    BY <1>3, <1>4 DEF IInv, TypeOK, Sweep
  <2>2. /\ b \in jobs[v].list /\ b \in DOMAIN rows /\ notices[b][jobs[v].at] = 0
        /\ Truth(jobs[v].at, rows[b])
        /\ \A u \in DOMAIN jobs \cap Sweepers :
              b \in jobs[u].list /\ jobs[u].at = jobs[v].at => u = v
    BY <2>1 DEF IInv, Sweeping
  <2>3. notices'[b][jobs[v].at] = 0
    <3>1. CASE b = a /\ jobs[v].at = kind
      <4>1. v = w
        BY <1>2, <1>3, <2>2, <3>1
      <4> QED
        BY <1>4, <3>1, <4>1
    <3>2. CASE b # a \/ jobs[v].at # kind
      BY <1>5, <2>1, <2>2, <3>2 DEF Kinds
    <3> QED
      BY <3>1, <3>2
  <2> QED
    BY <2>1, <2>2, <2>3
<1> QED
  BY <1>6, <1>7, <1>8, <1>9, <1>10, <1>11 DEF IInv

(* Time passes for the office on what it has, and for nobody on what waits   *)
(* for the citizen.                                                          *)
LEMMA TickKeeps ==
    ASSUME IInv, Tick
    PROVE  IInv'
<1>1. /\ now \in Nat /\ now < MaxTick /\ now' = now + 1
      /\ UNCHANGED <<rows, references, notices, timeline, jobs, faults, answered>>
      /\ worked' = [a \in Apps |-> IF StatusIn(a, Office) THEN worked[a] + 1 ELSE worked[a]]
  BY BoundAssumption DEF Tick, tables, Office, IInv, TypeOK
<1>2. \A a \in DOMAIN rows : worked[a] \in Nat /\ worked[a] <= now
  BY <1>1, RowFacts DEF ClockOK
<1>3. \A a \in Apps \ DOMAIN rows : worked'[a] = 0
  BY <1>1 DEF IInv, Absent, StatusIn
<1>4. worked' \in [Apps -> 0..MaxTick]
  <2>1. ASSUME NEW a \in Apps
        PROVE  worked'[a] \in 0..MaxTick
    <3>1. CASE a \in DOMAIN rows
      BY <1>1, <1>2, <3>1, BoundAssumption DEF StatusIn
    <3>2. CASE a \notin DOMAIN rows
      BY <1>3, <3>2, BoundAssumption
    <3> QED
      BY <3>1, <3>2
  <2>2. worked' = [a \in Apps |-> worked'[a]]
    BY <1>1
  <2> QED
    BY <2>1, <2>2
<1>5. TypeOK'
  BY <1>1, <1>4, BoundAssumption DEF IInv, TypeOK
<1>6. Absent' /\ RowsOK' /\ Traced' /\ Deciding' /\ Sweeping'
  BY <1>1, <1>3 DEF IInv, Absent, RowsOK, Traced, Deciding, Sweeping
<1>7. ClocksOK'
  <2>1. ASSUME NEW a \in DOMAIN rows
        PROVE  ClockOK(rows[a], worked[a])'
    <3>1. /\ a \in Apps /\ rows[a] \in Row /\ worked[a] \in Nat /\ RowOK(rows[a])
          /\ ClockOK(rows[a], worked[a])
      BY RowFacts
    <3>2. /\ rows[a].due # None => rows[a].due \in Int
          /\ rows[a].suspended # None => rows[a].suspended \in Int
      BY <3>1, BoundAssumption DEF Row, Times
    <3>3. CASE rows[a].status \in Office
      <4>1. worked'[a] = worked[a] + 1
        BY <1>1, <3>1, <3>3 DEF StatusIn
      <4> QED
        BY <1>1, <3>1, <3>2, <3>3, <4>1, BoundAssumption DEF ClockOK, Office
    <3>4. CASE rows[a].status \notin Office
      <4>1. worked'[a] = worked[a]
        BY <1>1, <3>1, <3>4 DEF StatusIn
      <4> QED
        BY <1>1, <3>1, <3>2, <3>4, <4>1, BoundAssumption DEF ClockOK
    <3> QED
      BY <3>3, <3>4
  <2> QED
    BY <1>1, <2>1 DEF ClocksOK
<1> QED
  BY <1>5, <1>6, <1>7 DEF IInv

-----------------------------------------------------------------------------
LEMMA StepIInv ==
    ASSUME Names, IInv, [Next]_vars
    PROVE  IInv'
<1>1. ASSUME NEW a \in Apps, NEW s \in Services, NEW role \in {"user", "admin"},
             ApplyAuto(a, s, role) \/ ApplyManual(a, s, role)
      PROVE  IInv'
  BY <1>1, ApplyAutoKeeps, ApplyManualKeeps
<1>2. ASSUME NEW a \in Apps, Cancel(a) \/ ProvideInfo(a) \/ RequestInfo(a) \/ Complete(a)
      PROVE  IInv'
  BY <1>2, CancelKeeps, ProvideInfoKeeps, RequestInfoKeeps, CompleteKeeps
<1>3. ASSUME NEW a \in Apps, NEW o \in Officers, Assign(a, o)
      PROVE  IInv'
  BY <1>3, AssignKeeps
<1>4. ASSUME NEW a \in Apps, NEW o \in Officers, NEW r \in Requests, ReadForDecision(r, a, o)
      PROVE  IInv'
  BY <1>4, ReadForDecisionKeeps
<1>5. ASSUME NEW r \in Requests, Decide(r)
      PROVE  IInv'
  BY <1>5, DecideKeeps
<1>6. ASSUME NEW r \in Requests, DecideFails(r)
      PROVE  IInv'
  BY <1>6, DropKeeps DEF DecideFails, TablesStay, tables, history, IInv, TypeOK
<1>7. ASSUME NEW w \in Sweepers, MarkSLABreached(w) \/ MarkFails(w) \/ Tell(w) \/ TacitApprovals(w)
      PROVE  IInv'
  BY <1>7, MarkSLABreachedKeeps, MarkFailsKeeps, TellKeeps, TacitApprovalsKeeps
<1>8. ASSUME NEW w \in Sweepers, EndSweep(w)
      PROVE  IInv'
  BY <1>8, DropKeeps DEF EndSweep, TablesStay, tables, history, IInv, TypeOK
<1>9. ASSUME NEW w \in Sweepers, SweepStops(w)
      PROVE  IInv'
  BY <1>9, DropKeeps, BoundAssumption DEF SweepStops, TablesStay, tables, history, IInv, TypeOK
<1>10. CASE UNCHANGED vars
  <2>1. TablesStay /\ faults' = faults /\ jobs' = jobs
    BY <1>10 DEF vars, TablesStay
  <2> QED
    BY <2>1, JobsOnly DEF IInv, TypeOK, Deciding
<1> QED
  BY <1>1, <1>2, <1>3, <1>4, <1>5, <1>6, <1>7, <1>8, <1>9, <1>10, TickKeeps DEF Next

THEOREM GovInvariant == Spec => []IInv
<1>1. Init => IInv
  BY InitIInv, NamesHold
<1>2. IInv /\ [Next]_vars => IInv'
  BY StepIInv, NamesHold
<1> QED
  BY <1>1, <1>2, PTL DEF Spec

(* Rows, notices, timeline entries and jobs keep their types                 *)
(* (domain_gov.go, migration 44).                                            *)
THEOREM GovTyping == Spec => []TypeOK
<1>1. IInv => TypeOK
  BY DEF IInv
<1> QED
  BY <1>1, GovInvariant, PTL

(* The office answers for its own time only: what is marked overdue, or      *)
(* granted by silence, was with the office for longer than the SLA           *)
(* (MarkSLABreached, TacitApprovals, RequestMoreInfo, ResumeFromInfo).       *)
THEOREM OfficeTimeOnly == Spec => []ClockIsFair
<1>1. IInv => ClockIsFair
  BY DEF IInv, ClocksOK, ClockOK, ClockIsFair
<1> QED
  BY <1>1, GovInvariant, PTL

(* A decision leaves its traces together, and the citizen is told every      *)
(* outcome once and no outcome that is not the row's                         *)
(* (CreateApplicationWithOutput, DecideApplication, CompleteApplication,     *)
(* SLASweep).                                                                *)
THEOREM TracesTogether == Spec => []OutcomeRecorded
<1>1. IInv => OutcomeRecorded
  BY DEF IInv, Traced, TracesOK, OutcomeRecorded
<1> QED
  BY <1>1, GovInvariant, PTL

-----------------------------------------------------------------------------
(* The promise of CaseLedger.                                                *)
Of(row) == [result |-> row.result, author |-> Author(row), delivered |-> row.status = "completed"]

LEMMA SettledOf ==
    /\ Settled = [a \in DOMAIN rows |-> Of(rows[a])]
    /\ Settled' = [a \in DOMAIN rows' |-> Of(rows'[a])]
BY DEF Settled, Of

(* One row written is one case changed.                                      *)
LEMMA OneCase ==
    ASSUME NEW a \in DOMAIN rows, NEW new, rows' = [rows EXCEPT ![a] = new]
    PROVE  Settled' = [Settled EXCEPT ![a] = Of(new)]
BY SettledOf

LEMMA OpenIsPending ==
    ASSUME IInv, NEW a \in DOMAIN rows, rows[a].status \in OpenStatuses
    PROVE  Settled[a] = Ledger!Pending
<1>1. RowOK(rows[a])
  BY RowFacts
<1>2. rows[a].result = None /\ (rows[a].status = "completed") = FALSE
  BY <1>1 DEF RowOK, OpenStatuses
<1> QED
  BY <1>2, SettledOf DEF Of, Author, Ledger!Pending

(* What an officer or a citizen does to an open row without settling it.     *)
LEMMA StillOpen ==
    ASSUME IInv, NEW a \in DOMAIN rows, NEW new, rows' = [rows EXCEPT ![a] = new],
           rows[a].status \in OpenStatuses, new.status # "completed", new.result = rows[a].result
    PROVE  Settled' = Settled
<1>1. Settled[a] = Ledger!Pending /\ rows[a].result = None
  BY OpenIsPending, RowFacts DEF RowOK
<1>2. Of(new) = Ledger!Pending
  <2>1. (new.status = "completed") = FALSE
    OBVIOUS
  <2> QED
    BY <1>1, <2>1 DEF Of, Author, Ledger!Pending
<1>3. Settled' = [Settled EXCEPT ![a] = Settled[a]]
  BY <1>1, <1>2, OneCase
<1> QED
  BY <1>3, SettledOf

(* What settles it.                                                          *)
LEMMA OpenSettles ==
    ASSUME IInv, NEW a \in DOMAIN rows, NEW new, rows' = [rows EXCEPT ![a] = new],
           rows[a].status \in OpenStatuses, NEW result \in Results, new.result = result,
           NEW author \in Officers \cup {"clock", "citizen", "registry"}, Author(new) = author
    PROVE  Ledger!Settle(a)
<1>1. Settled[a] = Ledger!Pending /\ a \in DOMAIN Settled
  BY OpenIsPending, SettledOf
<1>2. PICK delivered \in BOOLEAN : delivered = (new.status = "completed")
  OBVIOUS
<1>3. Of(new) = [result |-> result, author |-> author, delivered |-> delivered]
  BY <1>2 DEF Of
<1>4. Settled' = [Settled EXCEPT ![a] = [result |-> result, author |-> author,
                                         delivered |-> delivered]]
  BY <1>3, OneCase
<1> QED
  BY <1>1, <1>4 DEF Ledger!Settle

LEMMA CancelSettles ==
    ASSUME Names, IInv, NEW a \in Apps, Cancel(a)
    PROVE  Ledger!Settle(a)
<1> DEFINE new == [rows[a] EXCEPT !.status = "cancelled", !.result = "withdrawn"]
<1>1. /\ a \in DOMAIN rows /\ rows[a] \in Row /\ RowOK(rows[a])
      /\ rows' = [rows EXCEPT ![a] = new]
  BY RowFacts DEF Cancel, IInv, TypeOK
<1>2. rows[a].status \in OpenStatuses
  BY <1>1 DEF Cancel, CanTransition, Transitions, OpenStatuses, Row, Statuses
<1>3. new.result = "withdrawn" /\ ~new.tacit /\ new.decidedBy = None
  BY <1>1, <1>2 DEF RowOK, Row
<1>4. Author(new) = "citizen"
  BY <1>3 DEF Author, Names, Results
<1> HIDE DEF new
<1> QED
  BY <1>1, <1>2, <1>3, <1>4, OpenSettles DEF Results

LEMMA DecideSettles ==
    ASSUME Names, IInv, NEW r \in Requests, Decide(r)
    PROVE  \E a \in Apps : Ledger!Settle(a)
<1>1. r \in DOMAIN jobs /\ jobs[r] \in Decision /\ Verdict(jobs[r]) /\ jobs[r].app \in DOMAIN rows
  BY DEF Decide, At, IInv, TypeOK, Deciding
<1>2. PICK a \in Apps, target \in Statuses, result \in Results, officer \in Officers,
           output \in BOOLEAN :
         /\ a = jobs[r].app /\ target = jobs[r].target /\ result = jobs[r].result
         /\ officer = jobs[r].officer /\ output = jobs[r].output
  BY <1>1 DEF Decision
<1> DEFINE new == [rows[a] EXCEPT !.status = target, !.result = result,
                                  !.decidedBy = officer, !.output = output]
<1>3. /\ a \in DOMAIN rows /\ rows[a] \in Row /\ RowOK(rows[a])
      /\ rows[a].status \in Decidable /\ rows' = [rows EXCEPT ![a] = new]
  BY <1>1, <1>2, RowFacts DEF Decide, IInv, TypeOK
<1>4. rows[a].status \in OpenStatuses /\ officer # None
  BY <1>3, CatalogueAssumption DEF Decidable, OpenStatuses
<1>5. new.result = result /\ ~new.tacit /\ new.decidedBy = officer
  BY <1>3, <1>4 DEF RowOK, Row
<1>6. Author(new) = officer
  BY <1>4, <1>5 DEF Author, Names, Results
<1> HIDE DEF new
<1> QED
  BY <1>3, <1>4, <1>5, <1>6, OpenSettles

LEMMA OneField ==
    ASSUME NEW row, NEW new, new.result = row.result, Author(new) = Author(row),
           NEW delivered, delivered = (new.status = "completed")
    PROVE  Of(new) = [Of(row) EXCEPT !.delivered = delivered]
<1>1. PICK old : old = (row.status = "completed")
  OBVIOUS
<1>2. Of(row) = [result |-> row.result, author |-> Author(row), delivered |-> old]
  BY <1>1 DEF Of
<1>3. Of(new) = [result |-> row.result, author |-> Author(row), delivered |-> delivered]
  BY DEF Of
<1> QED
  BY <1>2, <1>3

LEMMA CompleteDelivers ==
    ASSUME IInv, NEW a \in Apps, Complete(a)
    PROVE  Ledger!Deliver(a)
<1> DEFINE new == [rows[a] EXCEPT !.status = "completed"]
<1>1. /\ a \in DOMAIN rows /\ rows[a].status = "approved" /\ rows[a] \in Row /\ RowOK(rows[a])
      /\ rows' = [rows EXCEPT ![a] = new]
  BY RowFacts DEF Complete, StatusIn, IInv, TypeOK
<1>2. /\ new.status = "completed" /\ new.result = rows[a].result /\ new.tacit = rows[a].tacit
      /\ new.decidedBy = rows[a].decidedBy
  BY <1>1 DEF Row
<1> HIDE DEF new
<1>3. Of(new) = [Of(rows[a]) EXCEPT !.delivered = TRUE]
  <2>1. Author(new) = Author(rows[a]) /\ (new.status = "completed") = TRUE
    BY <1>2 DEF Author
  <2>2. PICK delivered : delivered = TRUE
    OBVIOUS
  <2>3. delivered = (new.status = "completed")
    BY <1>2, <2>2
  <2>4. Of(new) = [Of(rows[a]) EXCEPT !.delivered = delivered]
    BY <1>2, <2>1, <2>3, OneField
  <2> QED
    BY <2>2, <2>4, Zenon
<1>4. a \in DOMAIN Settled /\ Settled[a] = Of(rows[a]) /\ Settled[a].result # None
  BY <1>1, SettledOf DEF Of, RowOK, OpenStatuses
<1>5. Settled' = [Settled EXCEPT ![a] = Of(new)]
  BY <1>1, OneCase
<1>6. Settled' = [Settled EXCEPT ![a].delivered = TRUE]
  BY <1>3, <1>4, <1>5
<1> QED
  BY <1>4, <1>6 DEF Ledger!Deliver

(* A new application is a new case, settled or not.                          *)
LEMMA ApplyFiles ==
    ASSUME Names, NEW a \in Apps, NEW s \in Services, NEW role \in {"user", "admin"},
           ApplyAuto(a, s, role) \/ ApplyManual(a, s, role)
    PROVE  Ledger!File(a)
<1> SUFFICES ASSUME NEW new, NEW case \in Ledger!Case, a \notin DOMAIN rows,
                    rows' = Put(rows, a, new), Of(new) = case,
                    case.result = None <=> case.author = None,
                    case.delivered => case.result # None
             PROVE  Ledger!File(a)
  <2>1. CASE ApplyAuto(a, s, role)
    <3> DEFINE new == [Fresh(role, "completed") EXCEPT
                          !.service = s, !.result = "processed", !.output = s \in Document]
               case == [result |-> "processed", author |-> "registry", delivered |-> TRUE]
    <3>1. a \notin DOMAIN rows /\ rows' = Put(rows, a, new)
      BY <2>1 DEF ApplyAuto
    <3>2. new.result = "processed" /\ ~new.tacit /\ new.decidedBy = None /\ (new.status = "completed") = TRUE
      BY DEF Fresh
    <3>3. Of(new) = case
      <4> HIDE DEF new
      <4> QED
        BY <3>2 DEF Of, Author, Names, Results
    <3>4. /\ case \in Ledger!Case /\ case.result # None /\ case.author # None
      BY DEF Ledger!Case, Results, Names
    <3> HIDE DEF new, case
    <3> QED
      BY <3>1, <3>3, <3>4
  <2>2. CASE ApplyManual(a, s, role)
    <3> DEFINE new == [Fresh(role, "registered") EXCEPT !.service = s, !.due = Deadline(s)]
    <3>1. a \notin DOMAIN rows /\ rows' = Put(rows, a, new)
      BY <2>2 DEF ApplyManual
    <3>2. new.result = None /\ (new.status = "completed") = FALSE
      BY DEF Fresh
    <3>3. Of(new) = Ledger!Pending
      <4> HIDE DEF new
      <4> QED
        BY <3>2 DEF Of, Author, Ledger!Pending
    <3>4. /\ Ledger!Pending \in Ledger!Case
          /\ Ledger!Pending.result = None /\ Ledger!Pending.author = None
          /\ ~Ledger!Pending.delivered
      BY DEF Ledger!Case, Ledger!Pending
    <3> HIDE DEF new
    <3> QED
      BY <3>1, <3>3, <3>4
  <2> QED
    BY <2>1, <2>2
<1>1. a \notin DOMAIN Settled
  BY SettledOf
<1>2. Settled' = [x \in DOMAIN Settled \cup {a} |-> IF x = a THEN case ELSE Settled[x]]
  <2>1. DOMAIN Settled = DOMAIN rows /\ \A x \in DOMAIN rows : Settled[x] = Of(rows[x])
    BY SettledOf
  <2>2. Settled' = [x \in DOMAIN rows \cup {a} |-> Of(rows'[x])]
    BY SettledOf DEF Put
  <2>3. \A x \in DOMAIN rows \cup {a} : Of(rows'[x]) = IF x = a THEN case ELSE Settled[x]
    BY <2>1 DEF Put
  <2> QED
    BY <2>1, <2>2, <2>3
<1> QED
  BY <1>1, <1>2 DEF Ledger!File

LEMMA TacitSettlesOverdue ==
    ASSUME Names, IInv, NEW w \in Sweepers, TacitApprovals(w)
    PROVE  Ledger!SettleOverdue
<1> DEFINE granted == [result |-> "granted", author |-> "clock", delivered |-> TRUE]
<1>1. \A a \in ToGrant : a \in DOMAIN rows /\ rows[a] \in Row /\ rows[a].status \in OpenStatuses
  BY RowFacts DEF ToGrant, OpenStatuses
<1>2. \A a \in ToGrant : a \in DOMAIN Settled /\ Settled[a] = Ledger!Pending
  BY <1>1, OpenIsPending, SettledOf
<1>3. \A a \in ToGrant : Of(rows'[a]) = granted
  <2>1. TAKE a \in ToGrant
  <2>2. /\ rows'[a].status = "completed" /\ rows'[a].result = "granted" /\ rows'[a].tacit
    BY <1>1 DEF TacitApprovals, Row
  <2>3. Author(rows'[a]) = "clock" /\ (rows'[a].status = "completed") = TRUE
    BY <2>2 DEF Author, Names, Results
  <2> QED
    BY <2>2, <2>3 DEF Of
<1> HIDE DEF granted
<1>4. Settled' = [a \in DOMAIN Settled |-> IF a \in ToGrant THEN granted ELSE Settled[a]]
  <2>1. DOMAIN Settled = DOMAIN rows /\ \A a \in DOMAIN rows : Settled[a] = Of(rows[a])
    BY SettledOf
  <2>2. DOMAIN rows' = DOMAIN rows /\ \A a \in DOMAIN rows \ ToGrant : rows'[a] = rows[a]
    BY DEF TacitApprovals
  <2>3. Settled' = [a \in DOMAIN rows |-> Of(rows'[a])]
    BY <2>2, SettledOf
  <2>4. \A a \in DOMAIN rows : Of(rows'[a]) = IF a \in ToGrant THEN granted ELSE Settled[a]
    BY <1>3, <2>1, <2>2
  <2> QED
    BY <2>1, <2>3, <2>4
<1>5. ToGrant \in SUBSET {c \in DOMAIN Settled : Settled[c] = Ledger!Pending}
  BY <1>2
<1> QED
  BY <1>4, <1>5 DEF Ledger!SettleOverdue, granted, Results

(* Everything else leaves the cases as they are.                             *)
LEMMA OthersStutter ==
    ASSUME IInv, NEW a \in Apps,
           ProvideInfo(a) \/ RequestInfo(a) \/ \E o \in Officers : Assign(a, o)
    PROVE  Settled' = Settled
<1>1. a \in DOMAIN rows /\ rows[a] \in Row /\ rows[a].status \in OpenStatuses
  BY RowFacts DEF ProvideInfo, RequestInfo, Assign, StatusIn, OpenStatuses
<1>2. CASE ProvideInfo(a)
  <2>1. CASE MayLog(rows[a].role)
    <3> DEFINE new == Resumed(rows[a])
    <3>1. rows' = [rows EXCEPT ![a] = new] /\ new.status = "in_review" /\ new.result = rows[a].result
      BY <1>1, <1>2, <2>1 DEF ProvideInfo, Resumed, Row
    <3> HIDE DEF new
    <3> QED
      BY <1>1, <3>1, StillOpen
  <2>2. CASE ~MayLog(rows[a].role)
    BY <1>2, <2>2, SettledOf DEF ProvideInfo
  <2> QED
    BY <2>1, <2>2
<1>3. CASE RequestInfo(a)
  <2> DEFINE new == [rows[a] EXCEPT !.status = "info_required", !.suspended = now]
  <2>1. rows' = [rows EXCEPT ![a] = new] /\ new.status = "info_required" /\ new.result = rows[a].result
    BY <1>1, <1>3 DEF RequestInfo, Row, IInv, TypeOK
  <2> HIDE DEF new
  <2> QED
    BY <1>1, <2>1, StillOpen
<1>4. CASE \E o \in Officers : Assign(a, o)
  <2> PICK o \in Officers : Assign(a, o)
    BY <1>4
  <2> DEFINE new == [rows[a] EXCEPT !.status = "in_review", !.assigned = o]
  <2>1. rows' = [rows EXCEPT ![a] = new] /\ new.status = "in_review" /\ new.result = rows[a].result
    BY <1>1, <1>4 DEF Assign, Row, IInv, TypeOK
  <2> HIDE DEF new
  <2> QED
    BY <1>1, <2>1, StillOpen
<1> QED
  BY <1>2, <1>3, <1>4

LEMMA MarkStutters ==
    ASSUME IInv, NEW w \in Sweepers, MarkSLABreached(w)
    PROVE  Settled' = Settled
<1>1. DOMAIN rows' = DOMAIN rows
  BY DEF MarkSLABreached
<1>2. \A a \in DOMAIN rows : Of(rows'[a]) = Of(rows[a])
  <2> TAKE a \in DOMAIN rows
  <2>1. rows[a] \in Row
    BY RowFacts
  <2>2. /\ rows'[a].status = rows[a].status /\ rows'[a].result = rows[a].result
        /\ rows'[a].tacit = rows[a].tacit /\ rows'[a].decidedBy = rows[a].decidedBy
    BY <2>1 DEF MarkSLABreached, Row
  <2> QED
    BY <2>2 DEF Of, Author
<1> QED
  BY <1>1, <1>2, SettledOf

LEMMA InitSettled ==
    ASSUME Init
    PROVE  Ledger!Init
<1>1. PICK old \in SUBSET Apps, role \in {"user", "admin"}, status \in {"submitted", "in_review"} :
         rows = [a \in old |-> Fresh(role, status)]
  BY DEF Init
<1>2. Of(Fresh(role, status)) = Ledger!Pending
  <2>1. Fresh(role, status).result = None /\ (Fresh(role, status).status = "completed") = FALSE
    BY DEF Fresh
  <2> QED
    BY <2>1 DEF Of, Author, Ledger!Pending
<1>3. Settled = [a \in old |-> Ledger!Pending]
  BY <1>1, <1>2, SettledOf
<1> QED
  BY <1>3 DEF Ledger!Init

LEMMA StepSettled ==
    ASSUME Names, IInv, [Next]_vars
    PROVE  [Ledger!Next]_Settled
<1>1. ASSUME rows' = rows
      PROVE  Settled' = Settled
  BY <1>1, SettledOf
<1>2. ASSUME NEW a \in Apps, NEW s \in Services, NEW role \in {"user", "admin"},
             ApplyAuto(a, s, role) \/ ApplyManual(a, s, role)
      PROVE  [Ledger!Next]_Settled
  BY <1>2, ApplyFiles DEF Ledger!Next
<1>3. ASSUME NEW a \in Apps, Cancel(a)
      PROVE  [Ledger!Next]_Settled
  BY <1>3, CancelSettles DEF Ledger!Next
<1>4. ASSUME NEW a \in Apps, Complete(a)
      PROVE  [Ledger!Next]_Settled
  BY <1>4, CompleteDelivers DEF Ledger!Next
<1>5. ASSUME NEW a \in Apps, ProvideInfo(a) \/ RequestInfo(a)
      PROVE  Settled' = Settled
  BY <1>5, OthersStutter
<1>6. ASSUME NEW a \in Apps, NEW o \in Officers, Assign(a, o)
      PROVE  Settled' = Settled
  BY <1>6, OthersStutter
<1>7. ASSUME NEW a \in Apps, NEW o \in Officers, NEW r \in Requests, ReadForDecision(r, a, o)
      PROVE  Settled' = Settled
  BY <1>1, <1>7 DEF ReadForDecision, tables
<1>8. ASSUME NEW r \in Requests, Decide(r) \/ DecideFails(r)
      PROVE  [Ledger!Next]_Settled
  BY <1>1, <1>8, DecideSettles DEF DecideFails, tables, Ledger!Next
<1>9. ASSUME NEW w \in Sweepers, TacitApprovals(w)
      PROVE  [Ledger!Next]_Settled
  BY <1>9, TacitSettlesOverdue DEF Ledger!Next
<1>10. ASSUME NEW w \in Sweepers,
              MarkSLABreached(w) \/ MarkFails(w) \/ Tell(w) \/ EndSweep(w) \/ SweepStops(w)
       PROVE  Settled' = Settled
  BY <1>1, <1>10, MarkStutters DEF MarkFails, Tell, TellRow, EndSweep, SweepStops, tables
<1>11. CASE Tick \/ UNCHANGED vars
  BY <1>1, <1>11 DEF Tick, tables, vars
<1> QED
  BY <1>2, <1>3, <1>4, <1>5, <1>6, <1>7, <1>8, <1>9, <1>10, <1>11 DEF Next

(* The portal keeps the promise of CaseLedger: one of the officers, the      *)
(* citizen, the registry and the clock settles an application, and nobody    *)
(* settles it again (the guarded UPDATEs of gov_postgres.go).                *)
THEOREM KeepsThePromise == Spec => CaseSpec
<1>1. Init => Ledger!Init
  BY InitSettled
<1>2. IInv /\ [Next]_vars => [Ledger!Next]_Settled
  BY StepSettled, NamesHold
<1> QED
  BY <1>1, <1>2, GovInvariant, PTL DEF Spec, CaseSpec, Ledger!Spec
=============================================================================
