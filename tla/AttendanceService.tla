-------------------------- MODULE AttendanceService --------------------------
(***************************************************************************)
(* AttendanceService: marking attendance.  POST /attendance (create) marks *)
(* one student of a class schedule, POST /attendance/bulk (bulkMark) marks *)
(* the students of one time block and ticks the block off in the           *)
(* ClassLeftList of the schedule, which it loads, changes and writes back  *)
(* whole.  No unique index backs the reads before the inserts.             *)
(*                                                                         *)
(* The time blocks of the session do not change while it is taught, and    *)
(* rows are not moved between courses or sessions.                         *)
(***************************************************************************)
EXTENDS OutcomeStore

\* Attendance rows of a student in a class schedule.
RowsOf(k, s) ==
  {i \in RowId : rows[i].status # "none" /\ rows[i].schedule = k /\ rows[i].student = s}

\* The mark of the row a call inserts for student s.
Marked(r, s, t) ==
  [status |-> req[r].todo[s], schedule |-> req[r].schedule, student |-> s, time |-> t]

-----------------------------------------------------------------------------
(* POST /attendance                                                        *)

\* The row of the student in this schedule, of whatever date, is updated;
\* only when there is none a row is created.
MarkOne(r, k, s, mark) ==
  /\ Start(r, "mark")
  /\ LET call == [Fresh EXCEPT !.student = s, !.schedule = k, !.todo[s] = mark]
     IN  \/ /\ RowsOf(k, s) = {}
            /\ req' = [req EXCEPT ![r] = [call EXCEPT !.pc = "markInsert"]]
         \/ \E i \in RowsOf(k, s) :
              req' = [req EXCEPT ![r] = [call EXCEPT !.pc = "markUpdate", !.row = i]]
  /\ UNCHANGED docs

\* findByIdAndUpdate: a row removed meanwhile is not an error.
UpdateMarked(r) ==
  LET i == req[r].row IN
  /\ At(r, "markUpdate")
  /\ rows' = IF rows[i].status = "none" THEN rows
             ELSE [rows EXCEPT ![i].status = req[r].todo[req[r].student],
                               ![i].schedule = req[r].schedule]
  /\ Reply(r, "ok")
  /\ UNCHANGED <<classes, work, records, announced>>

\* The row, then the notification, which an outage may refuse.
InsertMarked(r) ==
  LET s == req[r].student IN
  /\ At(r, "markInsert")
  /\ rows' = [rows EXCEPT ![<<r, s>>] = Marked(r, s, None)]
  /\ Reply(r, "ok") \/ (Outage /\ Reply(r, "error"))
  /\ UNCHANGED <<classes, work, records, announced>>

-----------------------------------------------------------------------------
(* POST /attendance/bulk                                                   *)

\* Loads the schedule (404 when it is gone) and ticks the block off in the
\* copy; a date and time that match no block tick off nothing.
BulkMark(r, k, t, marks) ==
  /\ Start(r, "bulk")
  /\ IF ~classes[k].exists \/ \A s \in Student : marks[s] = "none"
       THEN Reply(r, "error")
       ELSE req' = [req EXCEPT ![r] =
                     [Fresh EXCEPT !.pc = "bulkLeft", !.schedule = k, !.time = t,
                                   !.todo = marks, !.left = classes[k].left \cup ({t} \cap Block)]]
  /\ UNCHANGED docs

\* Mutant: the list starts from all FALSE in every call.
WriteClassLeft_Reset(r) ==
  LET k == req[r].schedule IN
  /\ At(r, "bulkLeft")
  /\ classes' = IF classes[k].exists
                THEN [classes EXCEPT ![k].left = {req[r].time} \cap Block] ELSE classes
  /\ Goto(r, "bulkFind")
  /\ UNCHANGED <<rows, work, records, announced>>

\* The whole list is written back; a schedule removed meanwhile is ignored.
WriteClassLeft(r) ==
  LET k == req[r].schedule IN
  /\ At(r, "bulkLeft")
  /\ classes' = IF classes[k].exists
                THEN [classes EXCEPT ![k].left = req[r].left] ELSE classes
  /\ Goto(r, "bulkFind")
  /\ UNCHANGED <<rows, work, records, announced>>

\* The loop over the students: on to the next one, or, after the last, the
\* notification, which may be refused, and the mail to the teacher.
NextStudent(r, todo) ==
  IF \E s \in Student : todo[s] # "none"
    THEN req' = [req EXCEPT ![r].pc = "bulkFind", ![r].student = None, ![r].todo = todo]
    ELSE Reply(r, "ok") \/ (Outage /\ Reply(r, "error"))

AlreadyMarked(r, s) ==
  \E i \in RowsOf(req[r].schedule, s) : rows[i].time = req[r].time

\* A student marked for this block already is skipped.
FindMarked(r) ==
  /\ At(r, "bulkFind")
  /\ \E s \in Student :
       /\ req[r].todo[s] # "none"
       /\ IF AlreadyMarked(r, s)
            THEN NextStudent(r, [req[r].todo EXCEPT ![s] = "none"])
            ELSE req' = [req EXCEPT ![r].pc = "bulkCount", ![r].student = s]
  /\ UNCHANGED docs

MaxBlocksPerStudent == IF Block = {} THEN 1 ELSE Cardinality(Block)

\* Mutant: the limit itself is still let through.
CountMarked_AtLimit(r) ==
  LET s == req[r].student IN
  /\ At(r, "bulkCount")
  /\ IF Cardinality(RowsOf(req[r].schedule, s)) > MaxBlocksPerStudent
       THEN Reply(r, "error")
       ELSE Goto(r, "bulkInsert")
  /\ UNCHANGED docs

\* A student with a row for every block ends the call in the middle of the loop.
CountMarked(r) ==
  LET s == req[r].student IN
  /\ At(r, "bulkCount")
  /\ IF Cardinality(RowsOf(req[r].schedule, s)) >= MaxBlocksPerStudent
       THEN Reply(r, "error")
       ELSE Goto(r, "bulkInsert")
  /\ UNCHANGED docs

\* The row, then it is read again for the mail to the student.
InsertBulk(r) ==
  LET s == req[r].student IN
  /\ At(r, "bulkInsert")
  /\ rows' = [rows EXCEPT ![<<r, s>>] = Marked(r, s, req[r].time)]
  /\ \/ NextStudent(r, [req[r].todo EXCEPT ![s] = "none"])
     \/ Outage /\ Reply(r, "error")
  /\ UNCHANGED <<classes, work, records, announced>>

-----------------------------------------------------------------------------
(* PATCH and DELETE /attendance/:id, DELETE of the class schedule          *)

\* One findByIdAndUpdate with whatever fields the PATCH carries.
PatchRow(i) ==
  /\ "patchRow" \in Ops /\ Quiet
  /\ rows[i].status # "none"
  /\ \E mark \in {"present", "absent"}, k \in Schedule, s \in Student :
       rows' = [rows EXCEPT ![i].status = mark, ![i].schedule = k, ![i].student = s]
  /\ UNCHANGED <<classes, work, records, announced, req>>

\* Mutant: the row is only marked as removed.
RemoveRow_Marked(i) ==
  /\ "removeRow" \in Ops /\ Quiet
  /\ rows[i].status # "none"
  /\ rows' = [rows EXCEPT ![i].status = "removed"]
  /\ UNCHANGED <<classes, work, records, announced, req>>

RemoveRow(i) ==
  /\ "removeRow" \in Ops /\ Quiet
  /\ rows[i].status # "none"
  /\ rows' = [rows EXCEPT ![i] = NoRow]
  /\ UNCHANGED <<classes, work, records, announced, req>>

RemoveClass(k) ==
  /\ "removeClass" \in Ops /\ Quiet
  /\ classes[k].exists
  /\ classes' = [classes EXCEPT ![k] = [exists |-> FALSE, left |-> {}]]
  /\ UNCHANGED <<rows, work, records, announced, req>>

AttendanceNext ==
  \/ \E r \in Request, k \in Schedule, s \in Student, mark \in {"present", "absent"} :
       MarkOne(r, k, s, mark)
  \/ \E r \in Request, k \in Schedule, t \in Time, marks \in [Student -> {"none", "present", "absent"}] :
       BulkMark(r, k, t, marks)
  \/ \E r \in Request :
       \/ UpdateMarked(r) \/ InsertMarked(r)
       \/ WriteClassLeft(r) \/ FindMarked(r) \/ CountMarked(r) \/ InsertBulk(r)
  \/ \E i \in RowId : PatchRow(i) \/ RemoveRow(i)
  \/ \E k \in Schedule : RemoveClass(k)
=============================================================================
