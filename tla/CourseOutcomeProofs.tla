------------------------- MODULE CourseOutcomeProofs -------------------------
(***************************************************************************)
(* Theorems of CourseOutcome for every set of calls, students, operators,  *)
(* schedules and time blocks.                                              *)
(***************************************************************************)
EXTENDS CourseOutcome, TLAPS

-----------------------------------------------------------------------------
(* Types of the calls                                                      *)

LEMMA TodoValues ==
  /\ \A pc \in Marking : Todo(pc) = {"none", "present", "absent"}
  /\ \A pc \in Working : Todo(pc) = {"none", "full", "partial"}
  /\ \A pc \in Checking : Todo(pc) = {"none", "PASS", "FAIL"}
  /\ \A pc : "none" \in Todo(pc)
BY DEF Todo, Marking, Working, Checking

LEMMA Groups ==
  /\ \A pc \in Marking \cup Working \cup Checking : pc \in Awaits /\ pc \notin Deciding
  /\ \A pc \in Deciding : pc \in Awaits /\ pc \in ForOne /\ Todo(pc) = {"none"}
  /\ Awaits \ ForOne = {"bulkLeft", "bulkFind", "checkRows", "checkFind"}
  /\ Deciding = {"decideAnnounce", "decideMail", "decideSave"}
BY DEF Marking, Working, Checking, Deciding, Awaits, ForOne, Todo

\* A call enters its handler with what it has to write and for whom.
LEMMA CallIs ==
  ASSUME NEW call \in Locals,
         \A s \in Student : call.todo[s] \in Todo(call.pc),
         call.pc \in ForOne => call.student \in Student,
         call.pc \in Deciding => call.operator \in Operator
  PROVE  call \in Call
BY DEF Call, Fits

LEMMA CallHas ==
  ASSUME TypeOK, NEW r \in Request
  PROVE  /\ req[r] \in Locals
         /\ req \in [Request -> Call]
         /\ \A s \in Student : req[r].todo[s] \in Todo(req[r].pc)
         /\ req[r].pc \in ForOne => req[r].student \in Student
         /\ req[r].pc \in Deciding => req[r].operator \in Operator
<1>1. req \in [Request -> Call]
  BY DEF TypeOK
<1>2. \A c \in Call : c \in Locals /\ Fits(c)
  BY DEF Call
<1>3. req[r] \in Call
  BY <1>1
<1> QED BY <1>1, <1>2, <1>3 DEF Fits

LEMMA FreshType == Fresh \in Call
<1>1. Fresh \in Locals
  BY DEF Fresh, Locals, Kind, RecordDoc, NoRecord
<1> QED BY <1>1, TodoValues DEF Fresh, Call, Fits, ForOne, Awaits, Marking, Working, Checking, Deciding

LEMMA ReplyType ==
  ASSUME TypeOK, NEW r \in Request, NEW code \in Replies, Reply(r, code)
  PROVE  req' \in [Request -> Call]
<1>1. [Fresh EXCEPT !.pc = code] \in Locals
  BY DEF Fresh, Locals, Kind, RecordDoc, NoRecord
<1>2. [Fresh EXCEPT !.pc = code] \in Call
  BY <1>1, TodoValues DEF Fresh, Call, Fits, Replies, ForOne, Awaits, Marking, Working, Checking, Deciding
<1> QED BY <1>2 DEF TypeOK, Reply

LEMMA EnterType ==
  ASSUME TypeOK, NEW r \in Request, NEW call \in Call, req' = [req EXCEPT ![r] = call]
  PROVE  req' \in [Request -> Call]
BY DEF TypeOK

\* A step within one group of awaits keeps the type of todo.
LEMMA GotoType ==
  ASSUME TypeOK, NEW r \in Request, NEW pc \in Awaits, Goto(r, pc),
         Todo(pc) = Todo(req[r].pc), pc \in ForOne => req[r].student \in Student,
         pc \in Deciding => req[r].operator \in Operator
  PROVE  req' \in [Request -> Call]
<1>1. [req[r] EXCEPT !.pc = pc] \in Call
  <2> DEFINE call == [req[r] EXCEPT !.pc = pc]
  <2>1. call \in Locals /\ call.pc = pc /\ call.todo = req[r].todo
       /\ call.student = req[r].student /\ call.operator = req[r].operator
    BY CallHas DEF Locals
  <2> QED BY <2>1, CallHas, CallIs, Groups
<1>2. req' = [req EXCEPT ![r] = [req[r] EXCEPT !.pc = pc]]
  BY DEF Goto
<1> QED BY <1>1, <1>2, EnterType

\* The entry of a loop over the students.
LEMMA LoopType ==
  ASSUME TypeOK, NEW r \in Request, NEW pc \in Awaits \ ForOne,
         NEW todo \in [Student -> {"none", "present", "absent", "full", "partial", "PASS", "FAIL"}],
         \A s \in Student : todo[s] \in Todo(pc),
         NEW read \in RecordDoc,
         req' = [req EXCEPT ![r].pc = pc, ![r].student = None, ![r].todo = todo, ![r].read = read]
  PROVE  req' \in [Request -> Call]
<1> DEFINE call == [req[r] EXCEPT !.pc = pc, !.student = None, !.todo = todo, !.read = read]
<1>0. req[r] \in Locals
  BY CallHas
<1>1. call \in Locals
  BY <1>0 DEF Locals
<1>2. call.pc = pc /\ call.todo = todo
  BY <1>0 DEF Locals
<1>3. call \in Call
  BY <1>1, <1>2, CallIs, Groups
<1>4. req' = [req EXCEPT ![r] = call]
  OBVIOUS
<1> QED BY <1>3, <1>4, EnterType

-----------------------------------------------------------------------------
(* Attendance                                                              *)

LEMMA MarkOneTypes ==
  ASSUME TypeOK, NEW r \in Request, NEW k \in Schedule, NEW s \in Student,
         NEW mark \in {"present", "absent"}, MarkOne(r, k, s, mark)
  PROVE  TypeOK'
<1> DEFINE call == [Fresh EXCEPT !.student = s, !.schedule = k, !.todo[s] = mark]
<1>1. \A pc \in {"markInsert", "markUpdate"} : pc \in Marking
  BY DEF Marking
<1>2. ASSUME NEW pc \in Marking, NEW i \in (Request \cup {None}) \X (Student \cup {None})
      PROVE  [call EXCEPT !.pc = pc, !.row = i] \in Call
  <2> DEFINE c == [call EXCEPT !.pc = pc, !.row = i]
  <2>1. c \in Locals
    BY DEF Fresh, Locals, Kind, RecordDoc, NoRecord, Awaits
  <2>2. c.pc = pc /\ c.student = s /\ \A u \in Student : c.todo[u] \in {"none", mark}
    BY DEF Fresh
  <2>3. \A u \in Student : c.todo[u] \in Todo(c.pc)
    BY <2>2, TodoValues
  <2> QED BY <2>1, <2>2, <2>3, CallIs, Groups
<1>3. ASSUME NEW pc \in Marking
      PROVE  [call EXCEPT !.pc = pc] \in Call
  <2> DEFINE c == [call EXCEPT !.pc = pc]
  <2>1. c \in Locals
    BY DEF Fresh, Locals, Kind, RecordDoc, NoRecord, Awaits
  <2>2. c.pc = pc /\ c.student = s /\ \A u \in Student : c.todo[u] \in {"none", mark}
    BY DEF Fresh
  <2>3. \A u \in Student : c.todo[u] \in Todo(c.pc)
    BY <2>2, TodoValues
  <2> QED BY <2>1, <2>2, <2>3, CallIs, Groups
<1>4. \A i \in RowsOf(k, s) : i \in (Request \cup {None}) \X (Student \cup {None})
  BY DEF RowsOf, RowId
<1>5. req' \in [Request -> Call]
  <2>1. CASE req' = [req EXCEPT ![r] = [call EXCEPT !.pc = "markInsert"]]
    <3>1. [call EXCEPT !.pc = "markInsert"] \in Call
      BY <1>1, <1>3
    <3> HIDE DEF call
    <3> QED BY <2>1, <3>1, EnterType
  <2>2. ASSUME NEW i \in RowsOf(k, s),
               req' = [req EXCEPT ![r] = [call EXCEPT !.pc = "markUpdate", !.row = i]]
        PROVE  req' \in [Request -> Call]
    <3>1. [call EXCEPT !.pc = "markUpdate", !.row = i] \in Call
      BY <1>1, <1>2, <1>4
    <3> HIDE DEF call
    <3> QED BY <2>2, <3>1, EnterType
  <2> QED BY <2>1, <2>2 DEF MarkOne
<1> QED BY <1>5 DEF MarkOne, docs, TypeOK

LEMMA RowWrites ==
  ASSUME TypeOK, NEW r \in Request
  PROVE  /\ UpdateMarked(r) => TypeOK'
         /\ InsertMarked(r) => TypeOK'
<1>1. ASSUME req[r].pc \in {"markUpdate", "markInsert"}
      PROVE  /\ req[r].student \in Student
             /\ req[r].todo[req[r].student] \in {"none", "present", "absent"}
             /\ req[r].schedule \in Schedule \cup {None}
  <2>1. req[r].pc \in Marking /\ req[r].pc \in ForOne
    BY <1>1 DEF Marking, ForOne, Awaits
  <2> QED BY <2>1, CallHas, TodoValues DEF Locals
<1>2. ASSUME UpdateMarked(r)
      PROVE  TypeOK'
  <2>1. rows' \in [RowId -> RowDoc]
    BY <1>1, <1>2 DEF UpdateMarked, At, TypeOK, RowDoc
  <2> QED BY <1>2, <2>1, ReplyType DEF UpdateMarked, TypeOK, Replies
<1>3. ASSUME InsertMarked(r)
      PROVE  TypeOK'
  <2>1. Marked(r, req[r].student, None) \in RowDoc
    BY <1>1, <1>3 DEF InsertMarked, At, Marked, RowDoc
  <2>2. rows' \in [RowId -> RowDoc]
    BY <1>3, <2>1 DEF InsertMarked, TypeOK
  <2> QED BY <1>3, <2>2, ReplyType DEF InsertMarked, TypeOK, Replies
<1> QED BY <1>2, <1>3

LEMMA BulkMarkTypes ==
  ASSUME TypeOK, NEW r \in Request, NEW k \in Schedule, NEW t \in Time,
         NEW marks \in [Student -> {"none", "present", "absent"}], BulkMark(r, k, t, marks)
  PROVE  TypeOK'
<1> DEFINE call == [Fresh EXCEPT !.pc = "bulkLeft", !.schedule = k, !.time = t,
                                 !.todo = marks, !.left = classes[k].left \cup ({t} \cap Block)]
<1>1. call \in Call
  <2>1. "bulkLeft" \in Marking /\ "bulkLeft" \notin ForOne /\ "bulkLeft" \in Awaits
    BY DEF Marking, ForOne, Awaits
  <2>2. classes[k].left \cup ({t} \cap Block) \in SUBSET Block
    BY DEF TypeOK, ClassDoc
  <2>3. call \in Locals
    BY <2>1, <2>2 DEF Fresh, Locals, Kind, RecordDoc, NoRecord
  <2>4. call.pc = "bulkLeft" /\ call.todo = marks
    BY DEF Fresh
  <2>5. \A s \in Student : call.todo[s] \in Todo(call.pc)
    BY <2>1, <2>4, TodoValues
  <2> HIDE DEF call
  <2> QED BY <2>1, <2>3, <2>4, <2>5, CallIs, Groups
<1>2. Reply(r, "error") \/ req' = [req EXCEPT ![r] = call]
  BY DEF BulkMark
<1>3. req' \in [Request -> Call]
  <2> HIDE DEF call
  <2> QED BY <1>1, <1>2, ReplyType, EnterType DEF Replies
<1> QED BY <1>3 DEF BulkMark, docs, TypeOK

LEMMA NextStudentType ==
  ASSUME TypeOK, NEW r \in Request, req[r].pc \in Marking,
         NEW s \in Student, NextStudent(r, [req[r].todo EXCEPT ![s] = "none"])
  PROVE  req' \in [Request -> Call]
<1> DEFINE todo == [req[r].todo EXCEPT ![s] = "none"]
<1>1. todo \in [Student -> {"none", "present", "absent", "full", "partial", "PASS", "FAIL"}]
  BY CallHas DEF Locals
<1>2. "bulkFind" \in Awaits \ ForOne /\ "bulkFind" \in Marking
  BY DEF Awaits, ForOne, Marking
<1>3. \A u \in Student : todo[u] \in Todo("bulkFind")
  BY <1>2, CallHas, TodoValues DEF Locals
<1>4. CASE req' = [req EXCEPT ![r].pc = "bulkFind", ![r].student = None, ![r].todo = todo]
  <2>1. req' = [req EXCEPT ![r].pc = "bulkFind", ![r].student = None, ![r].todo = todo,
                           ![r].read = req[r].read]
    BY <1>4, CallHas DEF Locals
  <2>2. req[r].read \in RecordDoc
    BY CallHas DEF Locals
  <2> HIDE DEF todo
  <2> QED BY <1>1, <1>2, <1>3, <2>1, <2>2, LoopType
<1> QED BY <1>4, ReplyType DEF NextStudent, Replies

LEMMA BulkTypes ==
  ASSUME TypeOK, NEW r \in Request
  PROVE  /\ WriteClassLeft(r) => TypeOK'
         /\ FindMarked(r) => TypeOK'
         /\ CountMarked(r) => TypeOK'
         /\ InsertBulk(r) => TypeOK'
<1>0. /\ {"bulkLeft", "bulkFind", "bulkCount", "bulkInsert"} \subseteq Marking
      /\ {"bulkFind", "bulkCount", "bulkInsert"} \subseteq Awaits
      /\ {"bulkCount", "bulkInsert"} \subseteq ForOne
      /\ "bulkFind" \notin ForOne
      /\ {"ok", "error"} \subseteq Replies
  BY DEF Marking, Awaits, ForOne, Replies
<1>1. ASSUME WriteClassLeft(r)
      PROVE  TypeOK'
  <2>0. req[r].left \in SUBSET Block
    BY CallHas DEF Locals
  <2>1. classes' \in [Schedule -> ClassDoc]
    BY <1>1, <2>0 DEF WriteClassLeft, TypeOK, ClassDoc
  <2>2. Goto(r, "bulkFind") /\ req[r].pc = "bulkLeft"
    BY <1>1 DEF WriteClassLeft, At
  <2>3. req' \in [Request -> Call]
    BY <1>0, <2>2, TodoValues, GotoType, Groups
  <2> QED BY <1>1, <2>1, <2>3 DEF WriteClassLeft, TypeOK
<1>2. ASSUME FindMarked(r)
      PROVE  TypeOK'
  <2>1. PICK s \in Student :
          \/ NextStudent(r, [req[r].todo EXCEPT ![s] = "none"])
          \/ req' = [req EXCEPT ![r].pc = "bulkCount", ![r].student = s]
    BY <1>2 DEF FindMarked
  <2>2. req[r].pc = "bulkFind"
    BY <1>2 DEF FindMarked, At
  <2>3. CASE NextStudent(r, [req[r].todo EXCEPT ![s] = "none"])
    <3>1. req' \in [Request -> Call]
      BY <1>0, <2>2, <2>3, NextStudentType
    <3> QED BY <1>2, <3>1 DEF FindMarked, docs, TypeOK
  <2>4. CASE req' = [req EXCEPT ![r].pc = "bulkCount", ![r].student = s]
    <3> DEFINE call == [req[r] EXCEPT !.pc = "bulkCount", !.student = s]
    <3>0. req[r] \in Locals
      BY CallHas
    <3>1. call \in Locals /\ call.pc = "bulkCount" /\ call.student = s /\ call.todo = req[r].todo
      BY <1>0, <3>0 DEF Locals
    <3>2. \A u \in Student : call.todo[u] \in Todo(call.pc)
      BY <1>0, <2>2, <3>1, CallHas, TodoValues
    <3>3. call \in Call
      BY <1>0, <3>1, <3>2, CallIs, Groups
    <3>4. req' = [req EXCEPT ![r] = call]
      BY <2>4
    <3>5. req' \in [Request -> Call]
      BY <3>3, <3>4, EnterType
    <3> QED BY <1>2, <3>5 DEF FindMarked, docs, TypeOK
  <2> QED BY <2>1, <2>3, <2>4
<1>3. ASSUME CountMarked(r)
      PROVE  TypeOK'
  <2>1. req[r].pc = "bulkCount" /\ (Reply(r, "error") \/ Goto(r, "bulkInsert"))
    BY <1>3 DEF CountMarked, At
  <2>2. Todo("bulkInsert") = Todo(req[r].pc) /\ req[r].student \in Student
    BY <1>0, <2>1, TodoValues, CallHas
  <2>3. req' \in [Request -> Call]
    BY <1>0, <2>1, <2>2, ReplyType, GotoType, Groups
  <2> QED BY <1>3, <2>3 DEF CountMarked, docs, TypeOK
<1>4. ASSUME InsertBulk(r)
      PROVE  TypeOK'
  <2> DEFINE s == req[r].student
  <2>1. req[r].pc = "bulkInsert"
    BY <1>4 DEF InsertBulk, At
  <2>2. /\ s \in Student
        /\ req[r].todo[s] \in {"none", "present", "absent"}
        /\ req[r].schedule \in Schedule \cup {None}
        /\ req[r].time \in Time \cup {None}
    BY <1>0, <2>1, TodoValues, CallHas DEF Locals
  <2>3. Marked(r, s, req[r].time) \in RowDoc
    BY <2>2 DEF Marked, RowDoc
  <2>4. rows' \in [RowId -> RowDoc]
    BY <1>4, <2>3 DEF InsertBulk, TypeOK
  <2>5. NextStudent(r, [req[r].todo EXCEPT ![s] = "none"]) \/ Reply(r, "error")
    BY <1>4 DEF InsertBulk
  <2>6. req' \in [Request -> Call]
    BY <1>0, <2>1, <2>2, <2>5, NextStudentType, ReplyType
  <2> QED BY <1>4, <2>4, <2>6 DEF InsertBulk, TypeOK
<1> QED BY <1>1, <1>2, <1>3, <1>4

LEMMA EditTypes ==
  ASSUME TypeOK
  PROVE  /\ \A i \in RowId : PatchRow(i) \/ RemoveRow(i) => TypeOK'
         /\ \A k \in Schedule : RemoveClass(k) => TypeOK'
<1>1. ASSUME NEW i \in RowId, PatchRow(i)
      PROVE  TypeOK'
  <2>1. PICK mark \in {"present", "absent"}, k \in Schedule, s \in Student :
          rows' = [rows EXCEPT ![i].status = mark, ![i].schedule = k, ![i].student = s]
    BY <1>1 DEF PatchRow
  <2>2. rows' \in [RowId -> RowDoc]
    BY <2>1 DEF TypeOK, RowDoc
  <2> QED BY <1>1, <2>2 DEF PatchRow, TypeOK
<1>2. ASSUME NEW i \in RowId, RemoveRow(i)
      PROVE  TypeOK'
  BY <1>2 DEF RemoveRow, TypeOK, RowDoc, NoRow
<1>3. ASSUME NEW k \in Schedule, RemoveClass(k)
      PROVE  TypeOK'
  BY <1>3 DEF RemoveClass, TypeOK, ClassDoc
<1> QED BY <1>1, <1>2, <1>3

LEMMA AttendanceTypes ==
  ASSUME TypeOK, AttendanceNext
  PROVE  TypeOK'
BY MarkOneTypes, RowWrites, BulkMarkTypes, BulkTypes, EditTypes DEF AttendanceNext

-----------------------------------------------------------------------------
(* Assignments and checks                                                  *)

LEMMA CreateWorkTypes ==
  ASSUME TypeOK, NEW r \in Request, NEW k \in Schedule, NEW s \in Student,
         NEW mark \in {"full", "partial"}, CreateWork(r, k, s, mark)
  PROVE  TypeOK'
<1> DEFINE call == [Fresh EXCEPT !.student = s, !.schedule = k, !.todo[s] = mark]
           insert == [call EXCEPT !.pc = "workInsert"]
           update(i) == [call EXCEPT !.pc = "workUpdate", !.row = i]
<1>0. \A pc \in Working : pc \in Awaits
  BY DEF Awaits
<1>1. insert \in Call
  <2>1. insert \in Locals
    BY DEF Fresh, Locals, Kind, RecordDoc, NoRecord, Awaits, Working
  <2>2. /\ insert.pc = "workInsert" /\ insert.student = s
        /\ \A u \in Student : insert.todo[u] \in {"none", mark}
    BY DEF Fresh
  <2>3. \A u \in Student : insert.todo[u] \in Todo(insert.pc)
    BY <2>2, TodoValues DEF Working
  <2> QED BY <2>1, <2>2, <2>3, CallIs, Groups DEF Working
<1>2. ASSUME NEW i \in WorkOf(k, s)
      PROVE  update(i) \in Call
  <2>0. i \in (Request \cup {None}) \X (Student \cup {None})
    BY DEF WorkOf, RowId
  <2>1. update(i) \in Locals
    BY <2>0 DEF Fresh, Locals, Kind, RecordDoc, NoRecord, Awaits, Working
  <2>2. /\ update(i).pc = "workUpdate" /\ update(i).student = s
        /\ \A u \in Student : update(i).todo[u] \in {"none", mark}
    BY DEF Fresh
  <2>3. \A u \in Student : update(i).todo[u] \in Todo(update(i).pc)
    BY <2>2, TodoValues DEF Working
  <2> QED BY <2>1, <2>2, <2>3, CallIs, Groups DEF Working
<1>3. \/ req' = [req EXCEPT ![r] = insert]
      \/ \E i \in WorkOf(k, s) : req' = [req EXCEPT ![r] = update(i)]
  BY DEF CreateWork
<1>4. req' \in [Request -> Call]
  <2> HIDE DEF insert, update
  <2> QED BY <1>1, <1>2, <1>3, EnterType
<1> QED BY <1>4 DEF CreateWork, docs, TypeOK

LEMMA WorkWrites ==
  ASSUME TypeOK, NEW r \in Request
  PROVE  /\ UpdateWork(r) => TypeOK'
         /\ InsertWork(r) => TypeOK'
<1>1. ASSUME req[r].pc \in {"workUpdate", "workInsert"}
      PROVE  /\ req[r].student \in Student
             /\ req[r].todo[req[r].student] \in {"none", "full", "partial"}
             /\ req[r].schedule \in Schedule \cup {None}
  <2>1. req[r].pc \in Working /\ req[r].pc \in ForOne
    BY <1>1 DEF Working, ForOne, Awaits
  <2> QED BY <2>1, CallHas, TodoValues DEF Locals
<1>2. ASSUME UpdateWork(r)
      PROVE  TypeOK'
  <2>1. work' \in [RowId -> WorkDoc]
    BY <1>1, <1>2 DEF UpdateWork, At, TypeOK, WorkDoc
  <2> QED BY <1>2, <2>1, ReplyType DEF UpdateWork, TypeOK, Replies
<1>3. ASSUME InsertWork(r)
      PROVE  TypeOK'
  <2>1. work' \in [RowId -> WorkDoc]
    BY <1>1, <1>3 DEF InsertWork, At, TypeOK, WorkDoc
  <2> QED BY <1>3, <2>1, ReplyType DEF InsertWork, TypeOK, Replies
<1> QED BY <1>2, <1>3

LEMMA VerdictTypes ==
  \A s \in Student : AttendanceVerdict(s) \in {"PASS", "FAIL"} /\ WorkVerdict(s) \in {"PASS", "FAIL"}
BY DEF AttendanceVerdict, WorkVerdict

\* A call that starts a loop over records.
LEMMA CheckStarts ==
  ASSUME TypeOK, NEW r \in Request, NEW pc \in {"checkRows", "checkFind"}, NEW kind \in Kind,
         NEW todo \in [Student -> {"none", "PASS", "FAIL"}],
         req' = [req EXCEPT ![r] = [Fresh EXCEPT !.pc = pc, !.kind = kind, !.todo = todo]]
  PROVE  req' \in [Request -> Call]
<1> DEFINE call == [Fresh EXCEPT !.pc = pc, !.kind = kind, !.todo = todo]
<1>1. pc \in Checking /\ pc \in Awaits /\ pc \notin ForOne
  BY DEF Checking, Awaits, ForOne
<1>2. call \in Locals
  BY <1>1 DEF Fresh, Locals, Kind, RecordDoc, NoRecord
<1>3. call.pc = pc /\ call.todo = todo
  BY DEF Fresh
<1>4. \A s \in Student : call.todo[s] \in Todo(call.pc)
  BY <1>1, <1>3, TodoValues
<1>5. call \in Call
  BY <1>1, <1>2, <1>3, <1>4, CallIs, Groups
<1> HIDE DEF call
<1>6. req' = [req EXCEPT ![r] = call]
  BY DEF call
<1> QED BY <1>5, <1>6, EnterType

LEMMA CheckTypes ==
  ASSUME TypeOK, NEW r \in Request
  PROVE  /\ CheckAttendance(r) => TypeOK'
         /\ CheckAssignments(r) => TypeOK'
         /\ ReadRows(r) => TypeOK'
         /\ FindRecord(r) => TypeOK'
<1>0. /\ {"checkRows", "checkFind", "checkSave"} \subseteq Checking \cap Awaits
      /\ "checkSave" \in ForOne /\ "checkFind" \notin ForOne
      /\ {"ok", "error"} \subseteq Replies
  BY DEF Checking, Awaits, ForOne, Replies
<1>1. ASSUME CheckAttendance(r)
      PROVE  TypeOK'
  <2> DEFINE todo == [s \in Student |-> IF HasWork(s) THEN "PASS" ELSE "none"]
  <2>1. todo \in [Student -> {"none", "PASS", "FAIL"}]
    OBVIOUS
  <2>2. req' = [req EXCEPT ![r] = [Fresh EXCEPT !.pc = "checkRows", !.kind = "attendance", !.todo = todo]]
    BY <1>1 DEF CheckAttendance
  <2> HIDE DEF todo
  <2>3. req' \in [Request -> Call]
    BY <2>1, <2>2, CheckStarts DEF Kind
  <2> QED BY <1>1, <2>3 DEF CheckAttendance, docs, TypeOK
<1>2. ASSUME CheckAssignments(r)
      PROVE  TypeOK'
  <2> DEFINE todo == [s \in Student |-> IF HasWork(s) THEN WorkVerdict(s) ELSE "none"]
  <2>1. todo \in [Student -> {"none", "PASS", "FAIL"}]
    BY VerdictTypes
  <2>2. \/ Reply(r, "error")
        \/ req' = [req EXCEPT ![r] = [Fresh EXCEPT !.pc = "checkFind", !.kind = "assignment", !.todo = todo]]
    BY <1>2 DEF CheckAssignments
  <2> HIDE DEF todo
  <2>3. req' \in [Request -> Call]
    BY <1>0, <2>1, <2>2, CheckStarts, ReplyType DEF Kind
  <2> QED BY <1>2, <2>3 DEF CheckAssignments, docs, TypeOK
<1>3. ASSUME ReadRows(r)
      PROVE  TypeOK'
  <2> DEFINE todo == [s \in Student |-> IF Attends(s) THEN AttendanceVerdict(s) ELSE req[r].todo[s]]
             call == [req[r] EXCEPT !.pc = "checkFind", !.todo = todo]
  <2>1. req[r].pc = "checkRows"
    BY <1>3 DEF ReadRows, At
  <2>2. \A s \in Student : req[r].todo[s] \in {"none", "PASS", "FAIL"}
    BY <1>0, <2>1, CallHas, TodoValues
  <2>3. todo \in [Student -> {"none", "PASS", "FAIL"}]
    BY <2>2, VerdictTypes
  <2>4. Reply(r, "error") \/ req' = [req EXCEPT ![r] = call]
    BY <1>3 DEF ReadRows
  <2> HIDE DEF todo
  <2>5. req[r] \in Locals
    BY CallHas
  <2>6. call \in Locals /\ call.pc = "checkFind" /\ call.todo = todo
    BY <1>0, <2>3, <2>5 DEF Locals
  <2>7. \A s \in Student : call.todo[s] \in Todo(call.pc)
    BY <1>0, <2>3, <2>6, TodoValues
  <2>8. call \in Call
    BY <1>0, <2>6, <2>7, CallIs, Groups
  <2> HIDE DEF call
  <2>9. req' \in [Request -> Call]
    BY <1>0, <2>4, <2>8, EnterType, ReplyType
  <2> QED BY <1>3, <2>9 DEF ReadRows, docs, TypeOK
<1>4. ASSUME FindRecord(r)
      PROVE  TypeOK'
  <2>0. req[r].pc = "checkFind" /\ req[r] \in Locals
    BY <1>4, CallHas DEF FindRecord, At
  <2>1. PICK s \in Student :
          req' = [req EXCEPT ![r].pc = "checkSave", ![r].student = s,
                             ![r].read = records[<<req[r].kind, s>>]]
    BY <1>4 DEF FindRecord
  <2> DEFINE call == [req[r] EXCEPT !.pc = "checkSave", !.student = s,
                                    !.read = records[<<req[r].kind, s>>]]
  <2>2. records[<<req[r].kind, s>>] \in RecordDoc
    BY <2>0 DEF TypeOK, Locals, RecordId
  <2>3. call \in Locals /\ call.pc = "checkSave" /\ call.student = s /\ call.todo = req[r].todo
    BY <1>0, <2>0, <2>2 DEF Locals
  <2>4. \A u \in Student : call.todo[u] \in Todo(call.pc)
    BY <1>0, <2>0, <2>3, CallHas, TodoValues
  <2>5. call \in Call
    BY <1>0, <2>3, <2>4, CallIs, Groups
  <2>6. req' = [req EXCEPT ![r] = call]
    BY <2>1
  <2> HIDE DEF call
  <2>7. req' \in [Request -> Call]
    BY <2>5, <2>6, EnterType
  <2> QED BY <1>4, <2>7 DEF FindRecord, docs, TypeOK
<1> QED BY <1>1, <1>2, <1>3, <1>4

LEMMA RecheckedType ==
  ASSUME NEW now \in RecordDoc, NEW read \in RecordDoc, NEW status \in {"none", "PASS", "FAIL"}
  PROVE  Rechecked(now, read, status) \in RecordDoc
BY DEF Rechecked, RecordDoc

LEMMA DecidedType ==
  ASSUME NEW doc \in RecordDoc, NEW decision, NEW o \in Operator
  PROVE  Decided(doc, decision, o) \in RecordDoc
BY DEF Decided, RecordDoc

LEMMA NextRecordType ==
  ASSUME TypeOK, NEW r \in Request, req[r].pc \in Checking,
         NEW s \in Student, NextRecord(r, s)
  PROVE  req' \in [Request -> Call]
<1> DEFINE todo == [req[r].todo EXCEPT ![s] = "none"]
<1>1. todo \in [Student -> {"none", "present", "absent", "full", "partial", "PASS", "FAIL"}]
  BY CallHas DEF Locals
<1>2. "checkFind" \in Awaits \ ForOne /\ "checkFind" \in Checking
  BY DEF Awaits, ForOne, Checking
<1>3. \A u \in Student : todo[u] \in Todo("checkFind")
  BY <1>2, CallHas, TodoValues DEF Locals
<1>4. NoRecord \in RecordDoc
  BY DEF NoRecord, RecordDoc
<1>5. \/ req' = [req EXCEPT ![r].pc = "checkFind", ![r].student = None,
                            ![r].todo = todo, ![r].read = NoRecord]
      \/ Reply(r, "ok")
  <2>1. CASE \E u \in Student : todo[u] # "none"
    <3>1. req' = [req EXCEPT ![r].pc = "checkFind", ![r].student = None,
                             ![r].read = NoRecord, ![r].todo = todo]
      BY <2>1 DEF NextRecord
    <3> HIDE DEF todo
    <3> QED BY <3>1
  <2>2. CASE ~\E u \in Student : todo[u] # "none"
    BY <2>2 DEF NextRecord
  <2> QED BY <2>1, <2>2
<1> HIDE DEF todo
<1> QED BY <1>1, <1>2, <1>3, <1>4, <1>5, LoopType, ReplyType DEF Replies

LEMMA SaveRecordTypes ==
  ASSUME TypeOK, NEW r \in Request, SaveRecord(r)
  PROVE  TypeOK'
<1> DEFINE s == req[r].student
           i == <<req[r].kind, s>>
<1>1. req[r].pc = "checkSave" /\ req[r].pc \in Checking /\ req[r].pc \in ForOne
  BY DEF SaveRecord, At, Checking, ForOne, Awaits
<1>2. /\ s \in Student /\ i \in RecordId
      /\ req[r].todo[s] \in {"none", "PASS", "FAIL"}
      /\ req[r].read \in RecordDoc /\ records[i] \in RecordDoc
  <2>1. s \in Student /\ req[r].kind \in Kind /\ req[r].read \in RecordDoc
    BY <1>1, CallHas DEF Locals
  <2>2. req[r].todo[s] \in {"none", "PASS", "FAIL"}
    BY <1>1, <2>1, CallHas, TodoValues
  <2> QED BY <2>1, <2>2 DEF TypeOK, RecordId
<1>3. \/ records' = [records EXCEPT ![i] = Rechecked(records[i], req[r].read, req[r].todo[s])]
      \/ records' = records
      \/ records' = [records EXCEPT ![i] = [NoRecord EXCEPT !.status = req[r].todo[s]]]
  BY DEF SaveRecord
<1>4. [NoRecord EXCEPT !.status = req[r].todo[s]] \in RecordDoc
  BY <1>2 DEF NoRecord, RecordDoc
<1>5. Rechecked(records[i], req[r].read, req[r].todo[s]) \in RecordDoc
  BY <1>2, RecheckedType
<1>6. records' \in [RecordId -> RecordDoc]
  BY <1>3, <1>4, <1>5 DEF TypeOK
<1>7. NextRecord(r, s) \/ Reply(r, "error")
  BY DEF SaveRecord
<1>8. req' \in [Request -> Call]
  BY <1>1, <1>2, <1>7, NextRecordType, ReplyType DEF Replies
<1> QED BY <1>6, <1>8 DEF SaveRecord, TypeOK

-----------------------------------------------------------------------------
(* Decisions                                                               *)

\* A call that starts a decision.
LEMMA DecisionStarts ==
  ASSUME TypeOK, NEW r \in Request, NEW pc \in Deciding, NEW kind \in Kind, NEW s \in Student,
         NEW o \in Operator, NEW decision \in {"approve", "issue", "reject"}
  PROVE  [Fresh EXCEPT !.pc = pc, !.kind = kind, !.student = s, !.operator = o,
                       !.decision = decision] \in Call
<1> DEFINE call == [Fresh EXCEPT !.pc = pc, !.kind = kind, !.student = s, !.operator = o,
                                 !.decision = decision]
<1>1. pc \in Awaits
  BY DEF Awaits
<1>2. call \in Locals
  BY <1>1 DEF Fresh, Locals, Kind, RecordDoc, NoRecord
<1>3. call.student = s /\ call.operator = o /\ \A u \in Student : call.todo[u] = "none"
  BY DEF Fresh
<1>4. \A u \in Student : call.todo[u] \in Todo(call.pc)
  BY <1>3, TodoValues
<1> QED BY <1>2, <1>3, <1>4, CallIs, Groups

LEMMA DecideTypes ==
  ASSUME TypeOK, NEW r \in Request, NEW s \in Student, NEW o \in Operator, NEW approve \in BOOLEAN
  PROVE  /\ \A url \in BOOLEAN : DecideAttendance(r, s, o, approve, url) => TypeOK'
         /\ DecideAssignment(r, s, o, approve) => TypeOK'
<1>0. {"decideAnnounce", "decideMail", "decideSave"} \subseteq Deciding /\ {"ok", "error"} \subseteq Replies
  BY DEF Deciding, Replies
<1>1. ASSUME NEW url \in BOOLEAN, DecideAttendance(r, s, o, approve, url)
      PROVE  TypeOK'
  <2>1. PICK pc \in Deciding, decision \in {"approve", "issue", "reject"} :
          \/ Reply(r, "error")
          \/ req' = [req EXCEPT ![r] = [Fresh EXCEPT !.pc = pc, !.kind = "attendance", !.student = s,
                                                     !.operator = o, !.decision = decision]]
    BY <1>0, <1>1 DEF DecideAttendance
  <2>3. [Fresh EXCEPT !.pc = pc, !.kind = "attendance", !.student = s, !.operator = o,
                      !.decision = decision] \in Call
    BY DecisionStarts DEF Kind
  <2>4. req' \in [Request -> Call]
    BY <1>0, <2>1, <2>3, ReplyType, EnterType
  <2> QED BY <1>1, <2>4 DEF DecideAttendance, docs, TypeOK
<1>2. ASSUME DecideAssignment(r, s, o, approve)
      PROVE  TypeOK'
  <2> DEFINE call == [Fresh EXCEPT !.pc = "decideSave", !.kind = "assignment", !.student = s,
                                   !.operator = o, !.decision = "approve"]
  <2>1. Reply(r, "error") \/ Reply(r, "ok") \/ req' = [req EXCEPT ![r] = call]
    BY <1>2 DEF DecideAssignment
  <2>2. call \in Call
    BY <1>0, DecisionStarts DEF Kind
  <2> HIDE DEF call
  <2>3. req' \in [Request -> Call]
    BY <1>0, <2>1, <2>2, ReplyType, EnterType
  <2> QED BY <1>2, <2>3 DEF DecideAssignment, docs, TypeOK
<1> QED BY <1>1, <1>2

LEMMA DecisionTypes ==
  ASSUME TypeOK, NEW r \in Request
  PROVE  /\ AnnounceCertificate(r) => TypeOK'
         /\ MailDecision(r) => TypeOK'
         /\ SaveDecision(r) => TypeOK'
<1>0. {"ok", "error"} \subseteq Replies
  BY DEF Replies
<1>1. ASSUME AnnounceCertificate(r)
      PROVE  TypeOK'
  <2>1. req[r].pc = "decideAnnounce" /\ Goto(r, "decideMail")
    BY <1>1 DEF AnnounceCertificate, At
  <2>a. /\ "decideMail" \in Awaits /\ Todo("decideMail") = Todo(req[r].pc)
        /\ req[r].student \in Student /\ req[r].operator \in Operator
    BY <2>1, CallHas, Groups
  <2>2. req' \in [Request -> Call]
    BY <2>1, <2>a, GotoType
  <2>3. announced' \in [Student -> Nat]
    <3> DEFINE n == announced[req[r].student] + 1
    <3>1. announced[req[r].student] \in Nat /\ announced \in [Student -> Nat]
      BY <2>a DEF TypeOK
    <3>2. n \in Nat
      BY <3>1
    <3>3. announced' = [announced EXCEPT ![req[r].student] = n]
      BY <1>1 DEF AnnounceCertificate
    <3> HIDE DEF n
    <3> QED BY <3>1, <3>2, <3>3
  <2> QED BY <1>1, <2>2, <2>3 DEF AnnounceCertificate, TypeOK
<1>2. ASSUME MailDecision(r)
      PROVE  TypeOK'
  <2>1. req[r].pc = "decideMail" /\ (Goto(r, "decideSave") \/ Reply(r, "error"))
    BY <1>2 DEF MailDecision, At
  <2>2. req' \in [Request -> Call]
    BY <1>0, <2>1, CallHas, GotoType, ReplyType, Groups
  <2> QED BY <1>2, <2>2 DEF MailDecision, docs, TypeOK
<1>3. ASSUME SaveDecision(r)
      PROVE  TypeOK'
  <2> DEFINE i == <<req[r].kind, req[r].student>>
  <2>1. req[r].student \in Student /\ req[r].operator \in Operator /\ req[r].kind \in Kind
    BY <1>3, CallHas, Groups DEF SaveDecision, At, Locals
  <2>2. records[i] \in RecordDoc
    BY <2>1 DEF RecordId, TypeOK
  <2>3. Decided(records[i], req[r].decision, req[r].operator) \in RecordDoc
    BY <2>1, <2>2, DecidedType
  <2>4. records' \in [RecordId -> RecordDoc]
    BY <1>3, <2>3 DEF SaveDecision, TypeOK
  <2>5. Reply(r, "ok") \/ Reply(r, "error")
    BY <1>3 DEF SaveDecision, mapPassFailRecord
  <2>6. req' \in [Request -> Call]
    BY <1>0, <2>5, ReplyType
  <2> QED BY <1>3, <2>4, <2>6 DEF SaveDecision, TypeOK
<1> QED BY <1>1, <1>2, <1>3

\* Reading the records answers, and changes no document.
LEMMA RecordReads ==
  ASSUME NEW r \in Request,
         \/ GetPassFailRecords(r) \/ GetApprovedPassRecords(r)
         \/ \E s \in Student : GetPassFailRecordById(r, s)
  PROVE  (Reply(r, "ok") \/ Reply(r, "error")) /\ UNCHANGED docs
<1>1. PICK found : AnswerRecords(r, found)
  BY DEF GetPassFailRecords, GetApprovedPassRecords, GetPassFailRecordById
<1> QED BY <1>1 DEF AnswerRecords, mapPassFailRecord

LEMMA RecordReadTypes ==
  ASSUME TypeOK, NEW r \in Request,
         \/ GetPassFailRecords(r) \/ GetApprovedPassRecords(r)
         \/ \E s \in Student : GetPassFailRecordById(r, s)
  PROVE  TypeOK'
<1>1. req' \in [Request -> Call]
  BY RecordReads, ReplyType DEF Replies
<1> QED BY <1>1, RecordReads DEF TypeOK, docs

LEMMA RecordsTypes ==
  ASSUME TypeOK, RecordsNext
  PROVE  TypeOK'
BY CreateWorkTypes, WorkWrites, CheckTypes, SaveRecordTypes, DecideTypes, DecisionTypes,
   RecordReadTypes DEF RecordsNext

LEMMA CrashTypes ==
  ASSUME TypeOK, Crash
  PROVE  TypeOK'
<1>1. [Fresh EXCEPT !.pc = "crashed"] \in Call
  <2>1. [Fresh EXCEPT !.pc = "crashed"] \in Locals
    BY DEF Fresh, Locals, Kind, RecordDoc, NoRecord, Replies
  <2> QED BY <2>1, TodoValues DEF Fresh, Call, Fits, ForOne, Awaits, Marking, Working, Checking, Deciding
<1>2. \A r \in Request : req[r] \in Call
  BY DEF TypeOK
<1>3. req' \in [Request -> Call]
  BY <1>1, <1>2 DEF Crash
<1> QED BY <1>3 DEF Crash, TypeOK, docs

\* Every document and every call in flight keeps its declared shape: in
\* particular what a loop still has to write fits the documents it writes.
THEOREM OutcomeTypeCorrect == Spec => []TypeOK
<1>1. Init => TypeOK
  BY FreshType DEF Init, TypeOK, RowDoc, NoRow, ClassDoc, WorkDoc, RecordDoc, NoRecord
<1>2. TypeOK /\ [Next]_vars => TypeOK'
  <2>1. TypeOK /\ UNCHANGED vars => TypeOK'
    BY DEF TypeOK, vars
  <2> QED BY <2>1, AttendanceTypes, RecordsTypes, CrashTypes DEF Next
<1> QED BY <1>1, <1>2, PTL DEF Spec

-----------------------------------------------------------------------------
(* Approvals and certificates: CertificateInv under every interleaving.  A *)
(* step that takes nothing back from the records (RecordMove) only has to  *)
(* answer for the record it writes and the calls it moves.                 *)

LEMMA RecordMove ==
  ASSUME TypeOK, CertificateInv,
         \A i \in RecordId : /\ records[i].url => records'[i].url
                             /\ records[i].status # "none" => records'[i].status # "none"
                             /\ records'[i] = records[i] \/ RecordInv(records[i], i)',
         \A s \in Student : 0 < announced[s] => 0 < announced'[s],
         \A r \in Request : req'[r] = req[r] \/ CallInv(req[r])'
  PROVE  CertificateInv'
<1>1. ASSUME NEW i \in RecordId
      PROVE  RecordInv(records[i], i)'
  <2>1. i[2] \in Student
    BY DEF RecordId
  <2>2. CASE records'[i] = records[i]
    BY <2>1, <2>2 DEF CertificateInv, RecordInv
  <2> QED BY <2>2
<1>2. ASSUME NEW r \in Request, req'[r] = req[r]
      PROVE  CallInv(req[r])'
  <2> DEFINE i == <<req[r].kind, req[r].student>>
  <2>1. req[r].pc \in {"checkSave"} \cup Deciding =>
          i \in RecordId /\ req[r].student \in Student /\ i[2] = req[r].student
    <3>1. "checkSave" \in ForOne
      BY DEF ForOne, Awaits, Checking
    <3> QED BY <3>1, CallHas, Groups DEF RecordId, Locals
  <2>2. CallInv(req[r])
    BY DEF CertificateInv
  <2>3. req'[r].pc = "checkSave" => RecordInv(req[r].read, i)' /\ req'[r].todo[req'[r].student] # "none"
    BY <1>2, <2>1, <2>2 DEF CallInv, RecordInv
  <2>4. req'[r].pc \in Deciding =>
          /\ records'[i].status # "none"
          /\ req'[r].decision = "issue" => req'[r].kind = "attendance"
    BY <1>2, <2>1, <2>2 DEF CallInv
  <2>5. req'[r].pc \in {"decideMail", "decideSave"} /\ req'[r].decision = "issue" =>
          0 < announced'[req'[r].student]
    BY <1>2, <2>1, <2>2, Groups DEF CallInv
  <2> QED BY <1>2, <2>3, <2>4, <2>5 DEF CallInv
<1> QED BY <1>1, <1>2 DEF CertificateInv

\* Calls outside the writes of checks and decisions claim nothing.
Aside == (Awaits \ (Deciding \cup {"checkSave"})) \cup Replies

LEMMA AsideCall ==
  ASSUME NEW r \in Request, req'[r].pc \in Aside
  PROVE  CallInv(req[r])'
BY DEF CallInv, Aside, Deciding, Replies

LEMMA AsideMove ==
  ASSUME TypeOK, CertificateInv, UNCHANGED <<records, announced>>,
         \A r \in Request : req'[r] = req[r] \/ req'[r].pc \in Aside
  PROVE  CertificateInv'
BY AsideCall, RecordMove

LEMMA AsidePcs ==
  /\ Marking \cup Working \subseteq Aside
  /\ {"checkRows", "checkFind"} \subseteq Aside
  /\ Replies \subseteq Aside
<1>1. ASSUME NEW pc \in Marking \cup Working \cup {"checkRows", "checkFind"}
      PROVE  pc \in Aside
  <2>1. pc \in Awaits
    BY DEF Awaits, Checking
  <2>2. pc \notin Deciding /\ pc # "checkSave"
    BY DEF Marking, Working, Deciding
  <2> QED BY <2>1, <2>2 DEF Aside
<1>2. Replies \subseteq Aside
  BY DEF Aside
<1> QED BY <1>1, <1>2

\* Where a call goes when it is moved by a reply, a step or an entry.
LEMMA MovesTo ==
  ASSUME TypeOK, NEW r \in Request
  PROVE  /\ \A code : Reply(r, code) =>
              req'[r].pc = code /\ \A q \in Request \ {r} : req'[q] = req[q]
         /\ \A pc : Goto(r, pc) =>
              /\ req'[r] = [req[r] EXCEPT !.pc = pc] /\ req'[r].pc = pc
              /\ \A q \in Request \ {r} : req'[q] = req[q]
         /\ \A call : req' = [req EXCEPT ![r] = call] =>
              req'[r] = call /\ \A q \in Request \ {r} : req'[q] = req[q]
<1>0. req \in [Request -> Call] /\ req[r] \in Locals
  BY CallHas
<1>1. ASSUME NEW code, Reply(r, code)
      PROVE  req'[r].pc = code /\ \A q \in Request \ {r} : req'[q] = req[q]
  BY <1>0, <1>1 DEF Reply, Fresh
<1>2. ASSUME NEW pc, Goto(r, pc)
      PROVE  /\ req'[r] = [req[r] EXCEPT !.pc = pc] /\ req'[r].pc = pc
             /\ \A q \in Request \ {r} : req'[q] = req[q]
  BY <1>0, <1>2 DEF Goto, Locals
<1>3. ASSUME NEW call, req' = [req EXCEPT ![r] = call]
      PROVE  req'[r] = call /\ \A q \in Request \ {r} : req'[q] = req[q]
  BY <1>0, <1>3
<1> QED BY <1>1, <1>2, <1>3

LEMMA NextStudentMoves ==
  ASSUME TypeOK, NEW r \in Request, NEW todo, NextStudent(r, todo)
  PROVE  req'[r].pc \in Marking \cup Replies /\ \A q \in Request \ {r} : req'[q] = req[q]
<1>1. CASE req' = [req EXCEPT ![r].pc = "bulkFind", ![r].student = None, ![r].todo = todo]
  BY <1>1, CallHas DEF Locals, Marking
<1>2. CASE Reply(r, "ok") \/ Reply(r, "error")
  BY <1>2, MovesTo DEF Replies
<1> QED BY <1>1, <1>2 DEF NextStudent

LEMMA AttendanceMoves ==
  ASSUME TypeOK, AttendanceNext
  PROVE  /\ UNCHANGED <<records, announced>>
         /\ \A q \in Request : req'[q] = req[q] \/ req'[q].pc \in Marking \cup Replies
<1>0. /\ {"bulkLeft", "bulkFind", "bulkCount", "bulkInsert", "markUpdate", "markInsert"} \subseteq Marking
      /\ {"ok", "error"} \subseteq Replies
  BY DEF Marking, Replies
<1>1. ASSUME NEW r \in Request, NEW k \in Schedule, NEW s \in Student,
             NEW mark \in {"present", "absent"}, MarkOne(r, k, s, mark)
      PROVE  req'[r].pc \in Marking /\ \A q \in Request \ {r} : req'[q] = req[q]
  <2> DEFINE call == [Fresh EXCEPT !.student = s, !.schedule = k, !.todo[s] = mark]
             insert == [call EXCEPT !.pc = "markInsert"]
             update(i) == [call EXCEPT !.pc = "markUpdate", !.row = i]
  <2>1. insert.pc = "markInsert" /\ \A i : update(i).pc = "markUpdate"
    BY DEF Fresh
  <2>2. \/ req' = [req EXCEPT ![r] = insert]
        \/ \E i \in RowsOf(k, s) : req' = [req EXCEPT ![r] = update(i)]
    BY <1>1 DEF MarkOne
  <2> HIDE DEF insert, update
  <2>3. PICK to : req' = [req EXCEPT ![r] = to] /\ to.pc \in {"markInsert", "markUpdate"}
    BY <2>1, <2>2
  <2> QED BY <1>0, <2>3, MovesTo
<1>2. ASSUME NEW r \in Request, NEW k \in Schedule, NEW t \in Time,
             NEW marks \in [Student -> {"none", "present", "absent"}], BulkMark(r, k, t, marks)
      PROVE  req'[r].pc \in Marking \cup Replies /\ \A q \in Request \ {r} : req'[q] = req[q]
  <2> DEFINE call == [Fresh EXCEPT !.pc = "bulkLeft", !.schedule = k, !.time = t,
                                   !.todo = marks, !.left = classes[k].left \cup ({t} \cap Block)]
  <2>1. call.pc = "bulkLeft"
    BY DEF Fresh
  <2>2. Reply(r, "error") \/ req' = [req EXCEPT ![r] = call]
    BY <1>2 DEF BulkMark
  <2> HIDE DEF call
  <2> QED BY <1>0, <2>1, <2>2, MovesTo
<1>3. ASSUME NEW r \in Request, FindMarked(r)
      PROVE  req'[r].pc \in Marking \cup Replies /\ \A q \in Request \ {r} : req'[q] = req[q]
  <2>1. PICK s \in Student :
          \/ NextStudent(r, [req[r].todo EXCEPT ![s] = "none"])
          \/ req' = [req EXCEPT ![r].pc = "bulkCount", ![r].student = s]
    BY <1>3 DEF FindMarked
  <2>2. CASE req' = [req EXCEPT ![r].pc = "bulkCount", ![r].student = s]
    BY <1>0, <2>2, CallHas DEF Locals
  <2> QED BY <2>1, <2>2, NextStudentMoves
<1>4. ASSUME NEW r \in Request, InsertBulk(r)
      PROVE  req'[r].pc \in Marking \cup Replies /\ \A q \in Request \ {r} : req'[q] = req[q]
  <2>1. \/ NextStudent(r, [req[r].todo EXCEPT ![req[r].student] = "none"])
        \/ Reply(r, "error")
    BY <1>4 DEF InsertBulk
  <2> QED BY <1>0, <2>1, NextStudentMoves, MovesTo
<1>5. ASSUME NEW r \in Request, UpdateMarked(r) \/ InsertMarked(r) \/ WriteClassLeft(r) \/ CountMarked(r)
      PROVE  req'[r].pc \in Marking \cup Replies /\ \A q \in Request \ {r} : req'[q] = req[q]
  <2>1. Reply(r, "ok") \/ Reply(r, "error") \/ Goto(r, "bulkFind") \/ Goto(r, "bulkInsert")
    BY <1>5 DEF UpdateMarked, InsertMarked, WriteClassLeft, CountMarked
  <2> QED BY <1>0, <2>1, MovesTo
<1>6. ASSUME \/ \E i \in RowId : PatchRow(i) \/ RemoveRow(i)
             \/ \E k \in Schedule : RemoveClass(k)
      PROVE  UNCHANGED req
  BY <1>6 DEF PatchRow, RemoveRow, RemoveClass
<1>7. \A q \in Request : req'[q] = req[q] \/ req'[q].pc \in Marking \cup Replies
  BY <1>1, <1>2, <1>3, <1>4, <1>5, <1>6 DEF AttendanceNext
<1>8. UNCHANGED <<records, announced>>
  BY DEF AttendanceNext, MarkOne, BulkMark, UpdateMarked, InsertMarked, WriteClassLeft, FindMarked,
     CountMarked, InsertBulk, PatchRow, RemoveRow, RemoveClass, docs
<1> QED BY <1>7, <1>8

LEMMA AttendanceCertificates ==
  ASSUME TypeOK, CertificateInv, AttendanceNext
  PROVE  CertificateInv'
BY AttendanceMoves, AsidePcs, AsideMove

-----------------------------------------------------------------------------
(* Assignments and checks                                                  *)

\* Work is recorded, and checks read, without touching a record.
LEMMA ReadMoves ==
  ASSUME TypeOK, NEW r \in Request,
         \/ \E k \in Schedule, s \in Student, mark \in {"full", "partial"} : CreateWork(r, k, s, mark)
         \/ UpdateWork(r) \/ InsertWork(r)
         \/ CheckAttendance(r) \/ CheckAssignments(r) \/ ReadRows(r)
  PROVE  /\ UNCHANGED <<records, announced>>
         /\ req'[r].pc \in Aside /\ \A q \in Request \ {r} : req'[q] = req[q]
<1>0. {"workUpdate", "workInsert", "checkRows", "checkFind", "ok", "error"} \subseteq Aside
  BY AsidePcs DEF Working, Replies
<1>1. ASSUME NEW k \in Schedule, NEW s \in Student, NEW mark \in {"full", "partial"},
             CreateWork(r, k, s, mark)
      PROVE  req'[r].pc \in Aside /\ \A q \in Request \ {r} : req'[q] = req[q]
  <2> DEFINE call == [Fresh EXCEPT !.student = s, !.schedule = k, !.todo[s] = mark]
             insert == [call EXCEPT !.pc = "workInsert"]
             update(i) == [call EXCEPT !.pc = "workUpdate", !.row = i]
  <2>1. insert.pc = "workInsert" /\ \A i : update(i).pc = "workUpdate"
    BY DEF Fresh
  <2>2. \/ req' = [req EXCEPT ![r] = insert]
        \/ \E i \in WorkOf(k, s) : req' = [req EXCEPT ![r] = update(i)]
    BY <1>1 DEF CreateWork
  <2> HIDE DEF insert, update
  <2>3. PICK to : req' = [req EXCEPT ![r] = to] /\ to.pc \in {"workInsert", "workUpdate"}
    BY <2>1, <2>2
  <2>4. req'[r] = to /\ \A q \in Request \ {r} : req'[q] = req[q]
    BY <2>3, MovesTo
  <2> QED BY <1>0, <2>3, <2>4
<1>2. ASSUME UpdateWork(r) \/ InsertWork(r)
      PROVE  req'[r].pc \in Aside /\ \A q \in Request \ {r} : req'[q] = req[q]
  BY <1>0, <1>2, MovesTo DEF UpdateWork, InsertWork
<1>3. ASSUME CheckAttendance(r)
      PROVE  req'[r].pc \in Aside /\ \A q \in Request \ {r} : req'[q] = req[q]
  <2> DEFINE todo == [s \in Student |-> IF HasWork(s) THEN "PASS" ELSE "none"]
             call == [Fresh EXCEPT !.pc = "checkRows", !.kind = "attendance", !.todo = todo]
  <2>1. call.pc = "checkRows"
    BY DEF Fresh
  <2>2. req' = [req EXCEPT ![r] = call]
    BY <1>3 DEF CheckAttendance
  <2> HIDE DEF call
  <2>3. req'[r] = call /\ \A q \in Request \ {r} : req'[q] = req[q]
    BY <2>2, MovesTo
  <2> QED BY <1>0, <2>1, <2>3
<1>4. ASSUME CheckAssignments(r)
      PROVE  req'[r].pc \in Aside /\ \A q \in Request \ {r} : req'[q] = req[q]
  <2> DEFINE todo == [s \in Student |-> IF HasWork(s) THEN WorkVerdict(s) ELSE "none"]
             call == [Fresh EXCEPT !.pc = "checkFind", !.kind = "assignment", !.todo = todo]
  <2>1. call.pc = "checkFind"
    BY DEF Fresh
  <2>2. Reply(r, "error") \/ req' = [req EXCEPT ![r] = call]
    BY <1>4 DEF CheckAssignments
  <2> HIDE DEF call
  <2> QED BY <1>0, <2>1, <2>2, MovesTo
<1>5. ASSUME ReadRows(r)
      PROVE  req'[r].pc \in Aside /\ \A q \in Request \ {r} : req'[q] = req[q]
  <2>1. PICK todo : Reply(r, "error") \/ req' = [req EXCEPT ![r].pc = "checkFind", ![r].todo = todo]
    BY <1>5 DEF ReadRows
  <2>2. CASE req' = [req EXCEPT ![r].pc = "checkFind", ![r].todo = todo]
    BY <1>0, <2>2, CallHas DEF Locals
  <2> QED BY <1>0, <2>1, <2>2, MovesTo
<1>6. UNCHANGED <<records, announced>>
  BY DEF CreateWork, UpdateWork, InsertWork, CheckAttendance, CheckAssignments, ReadRows, docs
<1> QED BY <1>1, <1>2, <1>3, <1>4, <1>5, <1>6

LEMMA ReadCertificates ==
  ASSUME TypeOK, CertificateInv, NEW r \in Request,
         \/ \E k \in Schedule, s \in Student, mark \in {"full", "partial"} : CreateWork(r, k, s, mark)
         \/ UpdateWork(r) \/ InsertWork(r)
         \/ CheckAttendance(r) \/ CheckAssignments(r) \/ ReadRows(r)
  PROVE  CertificateInv'
BY ReadMoves, AsideMove

\* The copy a check takes is of a record that keeps the invariant.
LEMMA FindRecordCertificates ==
  ASSUME TypeOK, CertificateInv, NEW r \in Request, FindRecord(r)
  PROVE  CertificateInv'
<1>1. PICK s \in Student :
        /\ req[r].todo[s] # "none"
        /\ req' = [req EXCEPT ![r].pc = "checkSave", ![r].student = s,
                              ![r].read = records[<<req[r].kind, s>>]]
  BY DEF FindRecord
<1>2. UNCHANGED <<records, announced>>
  BY DEF FindRecord, docs
<1>3. PICK i \in RecordId : i = <<req[r].kind, s>>
  BY CallHas DEF Locals, RecordId
<1>4. /\ req'[r].pc = "checkSave" /\ <<req'[r].kind, req'[r].student>> = i
      /\ req'[r].todo[req'[r].student] # "none" /\ req'[r].read = records[i]
      /\ \A q \in Request \ {r} : req'[q] = req[q]
  BY <1>1, <1>3, CallHas DEF Locals
<1>5. RecordInv(records[i], i)
  BY DEF CertificateInv
<1>6. RecordInv(records[i], i)'
  BY <1>2, <1>5 DEF RecordInv
<1>7. CallInv(req[r])'
  BY <1>2, <1>4, <1>6 DEF CallInv, Deciding, RecordInv
<1> QED BY <1>2, <1>4, <1>7, RecordMove

LEMMA NextRecordMoves ==
  ASSUME TypeOK, NEW r \in Request, NEW s \in Student, NextRecord(r, s)
  PROVE  req'[r].pc \in Aside /\ \A q \in Request \ {r} : req'[q] = req[q]
<1>0. "checkFind" \in Aside /\ "ok" \in Aside
  BY AsidePcs DEF Replies
<1>1. PICK todo : \/ Reply(r, "ok")
                  \/ req' = [req EXCEPT ![r].pc = "checkFind", ![r].student = None,
                                        ![r].read = NoRecord, ![r].todo = todo]
  BY DEF NextRecord
<1>2. CASE req' = [req EXCEPT ![r].pc = "checkFind", ![r].student = None,
                              ![r].read = NoRecord, ![r].todo = todo]
  BY <1>0, <1>2, CallHas DEF Locals
<1> QED BY <1>0, <1>1, <1>2, MovesTo

\* A check writes a verdict, and flags that were true when it read them.
LEMMA SaveRecordCertificates ==
  ASSUME TypeOK, CertificateInv, NEW r \in Request, SaveRecord(r)
  PROVE  CertificateInv'
<1>1. req[r].pc = "checkSave" /\ req[r].pc \in ForOne
  BY DEF SaveRecord, At, ForOne, Awaits, Checking
<1>a. PICK s \in Student : s = req[r].student
  BY <1>1, CallHas
<1>b. PICK status : status = req[r].todo[s]
  OBVIOUS
<1>2. PICK i \in RecordId : i = <<req[r].kind, s>>
  BY CallHas DEF Locals, RecordId
<1>3. RecordInv(req[r].read, i) /\ status # "none" /\ RecordInv(records[i], i)
  BY <1>1, <1>a, <1>b, <1>2 DEF CertificateInv, CallInv
<1>4. req[r].read \in RecordDoc /\ records[i] \in RecordDoc /\ records \in [RecordId -> RecordDoc]
  BY CallHas DEF TypeOK, Locals
<1>5. /\ announced' = announced
      /\ \/ records' = [records EXCEPT ![i] = Rechecked(records[i], req[r].read, status)]
         \/ records' = records
         \/ /\ records[i].status = "none"
            /\ records' = [records EXCEPT ![i] = [NoRecord EXCEPT !.status = status]]
      /\ NextRecord(r, s) \/ Reply(r, "error")
  BY <1>a, <1>b, <1>2 DEF SaveRecord
<1>6. req'[r].pc \in Aside /\ \A q \in Request \ {r} : req'[q] = req[q]
  BY <1>2, <1>5, NextRecordMoves, MovesTo, AsidePcs DEF Replies
<1>7. ASSUME records' = [records EXCEPT ![i] = Rechecked(records[i], req[r].read, status)]
      PROVE  CertificateInv'
  <2>1. /\ records'[i] = Rechecked(records[i], req[r].read, status)
        /\ \A j \in RecordId \ {i} : records'[j] = records[j]
    BY <1>2, <1>4, <1>7
  <2>2. /\ records'[i].status = status /\ records'[i].approved = req[r].read.approved
        /\ records'[i].issued = req[r].read.issued /\ records'[i].url = records[i].url
        /\ req[r].read.approver # "unset" => records'[i].approver = req[r].read.approver
    BY <1>4, <2>1 DEF Rechecked, RecordDoc
  <2>3. RecordInv(records[i], i)'
    BY <1>2, <1>3, <1>5, <2>2, OutcomeAssumption DEF RecordInv
  <2> QED BY <1>3, <1>5, <1>6, <2>1, <2>2, <2>3, AsideCall, RecordMove
<1>8. ASSUME records[i].status = "none",
             records' = [records EXCEPT ![i] = [NoRecord EXCEPT !.status = status]]
      PROVE  CertificateInv'
  <2>1. /\ records'[i] = [NoRecord EXCEPT !.status = status]
        /\ \A j \in RecordId \ {i} : records'[j] = records[j]
    BY <1>2, <1>4, <1>8
  <2>2. /\ records'[i].status = status /\ records'[i].approved = FALSE
        /\ records'[i].issued = FALSE /\ records'[i].url = FALSE
    BY <2>1 DEF NoRecord
  <2>3. RecordInv(records[i], i)' /\ ~records[i].url
    BY <1>3, <1>8, <2>2 DEF RecordInv
  <2> QED BY <1>5, <1>6, <1>8, <2>1, <2>3, AsideCall, RecordMove
<1> QED BY <1>5, <1>6, <1>7, <1>8, AsideMove

-----------------------------------------------------------------------------
(* Decisions                                                               *)

\* A decision starts on a record that exists, and issues a certificate only
\* of an attendance record.
LEMMA DecideCertificates ==
  ASSUME TypeOK, CertificateInv, NEW r \in Request, NEW s \in Student, NEW o \in Operator,
         NEW approve \in BOOLEAN,
         \/ \E url \in BOOLEAN : DecideAttendance(r, s, o, approve, url)
         \/ DecideAssignment(r, s, o, approve)
  PROVE  CertificateInv'
<1>0. UNCHANGED <<records, announced>> /\ "ok" \in Aside /\ "error" \in Aside
  BY AsidePcs DEF DecideAttendance, DecideAssignment, docs, Replies
<1>1. ASSUME NEW kind \in Kind, records[<<kind, s>>].status # "none",
             NEW pc \in Deciding, NEW decision, decision = "issue" => kind = "attendance" /\ pc = "decideAnnounce",
             req' = [req EXCEPT ![r] = [Fresh EXCEPT !.pc = pc, !.kind = kind, !.student = s,
                                                     !.operator = o, !.decision = decision]]
      PROVE  CertificateInv'
  <2> DEFINE call == [Fresh EXCEPT !.pc = pc, !.kind = kind, !.student = s,
                                   !.operator = o, !.decision = decision]
  <2>1. call.pc = pc /\ call.kind = kind /\ call.student = s /\ call.decision = decision
    BY DEF Fresh
  <2>2. req' = [req EXCEPT ![r] = call]
    BY <1>1
  <2> HIDE DEF call
  <2>3. req'[r] = call /\ \A q \in Request \ {r} : req'[q] = req[q]
    BY <2>2, MovesTo
  <2>4. pc # "checkSave" /\ (decision = "issue" => pc \notin {"decideMail", "decideSave"})
    BY <1>1 DEF Deciding
  <2>5. CallInv(req[r])'
    BY <1>0, <1>1, <2>1, <2>3, <2>4 DEF CallInv
  <2> QED BY <1>0, <2>3, <2>5, RecordMove
<1>2. ASSUME NEW url \in BOOLEAN, DecideAttendance(r, s, o, approve, url)
      PROVE  CertificateInv'
  <2>1. CASE Reply(r, "error")
    BY <1>0, <2>1, MovesTo, AsideMove
  <2>2. CASE ~Reply(r, "error")
    <3>1. PICK pc \in Deciding, decision \in {"approve", "issue", "reject"} :
            /\ decision = "issue" => pc = "decideAnnounce"
            /\ req' = [req EXCEPT ![r] = [Fresh EXCEPT !.pc = pc, !.kind = "attendance", !.student = s,
                                                       !.operator = o, !.decision = decision]]
      BY <1>2, <2>2 DEF DecideAttendance, Deciding
    <3>2. records[<<"attendance", s>>].status # "none"
      BY <1>2, <2>2 DEF DecideAttendance
    <3> QED BY <1>1, <3>1, <3>2 DEF Kind
  <2> QED BY <2>1, <2>2
<1>3. ASSUME DecideAssignment(r, s, o, approve)
      PROVE  CertificateInv'
  <2>1. CASE Reply(r, "error") \/ Reply(r, "ok")
    BY <1>0, <2>1, MovesTo, AsideMove
  <2>2. CASE ~(Reply(r, "error") \/ Reply(r, "ok"))
    <3>1. PICK pc \in Deciding, decision \in {"approve", "reject"} :
            req' = [req EXCEPT ![r] = [Fresh EXCEPT !.pc = pc, !.kind = "assignment", !.student = s,
                                                    !.operator = o, !.decision = decision]]
      BY <1>3, <2>2 DEF DecideAssignment, Deciding
    <3>2. records[<<"assignment", s>>].status # "none" /\ "assignment" \in Kind
      BY <1>3, <2>2 DEF DecideAssignment, Kind
    <3> QED BY <1>1, <3>1, <3>2
  <2> QED BY <2>1, <2>2
<1> QED BY <1>2, <1>3

LEMMA DecisionCertificates ==
  ASSUME TypeOK, CertificateInv, NEW r \in Request
  PROVE  /\ AnnounceCertificate(r) => CertificateInv'
         /\ MailDecision(r) => CertificateInv'
         /\ SaveDecision(r) => CertificateInv'
<1>0. "ok" \in Aside /\ "error" \in Aside
  BY AsidePcs DEF Replies
<1>1. ASSUME AnnounceCertificate(r)
      PROVE  CertificateInv'
  <2>1. req[r].pc = "decideAnnounce" /\ Goto(r, "decideMail") /\ UNCHANGED records
    BY <1>1 DEF AnnounceCertificate, At
  <2>2. /\ req'[r] = [req[r] EXCEPT !.pc = "decideMail"] /\ req'[r].pc = "decideMail"
        /\ \A q \in Request \ {r} : req'[q] = req[q]
    BY <2>1, MovesTo
  <2>3. /\ req'[r].kind = req[r].kind /\ req'[r].student = req[r].student
        /\ req'[r].decision = req[r].decision
    BY <2>2, CallHas DEF Locals
  <2>4. req[r].student \in Student
    BY <2>1, CallHas, Groups
  <2>5. /\ \A s \in Student : 0 < announced[s] => 0 < announced'[s]
        /\ 0 < announced'[req[r].student]
    <3> DEFINE n == announced[req[r].student] + 1
    <3>1. announced \in [Student -> Nat]
      BY DEF TypeOK
    <3>2. 0 < n
      BY <2>4, <3>1
    <3>3. announced' = [announced EXCEPT ![req[r].student] = n]
      BY <1>1 DEF AnnounceCertificate
    <3> HIDE DEF n
    <3> QED BY <2>4, <3>1, <3>2, <3>3
  <2>6. CallInv(req[r])
    BY DEF CertificateInv
  <2>7. CallInv(req[r])'
    BY <2>1, <2>2, <2>3, <2>5, <2>6, Groups DEF CallInv
  <2> QED BY <2>1, <2>2, <2>5, <2>7, RecordMove
<1>2. ASSUME MailDecision(r)
      PROVE  CertificateInv'
  <2>1. req[r].pc = "decideMail" /\ UNCHANGED <<records, announced>>
    BY <1>2 DEF MailDecision, At, docs
  <2>2. CASE Reply(r, "error")
    BY <1>0, <2>1, <2>2, MovesTo, AsideMove
  <2>3. CASE Goto(r, "decideSave")
    <3>1. /\ req'[r] = [req[r] EXCEPT !.pc = "decideSave"] /\ req'[r].pc = "decideSave"
          /\ \A q \in Request \ {r} : req'[q] = req[q]
      BY <2>3, MovesTo
    <3>2. /\ req'[r].kind = req[r].kind /\ req'[r].student = req[r].student
          /\ req'[r].decision = req[r].decision
      BY <3>1, CallHas DEF Locals
    <3>3. CallInv(req[r])
      BY DEF CertificateInv
    <3>4. CallInv(req[r])'
      BY <2>1, <3>1, <3>2, <3>3, Groups DEF CallInv
    <3> QED BY <2>1, <3>1, <3>4, RecordMove
  <2> QED BY <1>2, <2>2, <2>3 DEF MailDecision
<1>3. ASSUME SaveDecision(r)
      PROVE  CertificateInv'
  <2>1. req[r].pc = "decideSave" /\ announced' = announced
    BY <1>3 DEF SaveDecision, At
  <2>2. PICK s \in Student : s = req[r].student
    BY <2>1, CallHas, Groups
  <2>3. PICK i \in RecordId : i = <<req[r].kind, s>>
    BY CallHas DEF Locals, RecordId
  <2>4. PICK o \in Operator : o = req[r].operator
    BY <2>1, CallHas, Groups
  <2>5. PICK decision : decision = req[r].decision
    OBVIOUS
  <2>6. /\ records[i].status # "none"
        /\ decision = "issue" => i[1] = "attendance" /\ 0 < announced[i[2]]
        /\ RecordInv(records[i], i)
    BY <2>1, <2>2, <2>3, <2>5, Groups DEF CertificateInv, CallInv
  <2>7. records[i] \in RecordDoc /\ records \in [RecordId -> RecordDoc]
    BY DEF TypeOK
  <2>8. records' = [records EXCEPT ![i] = Decided(records[i], decision, o)]
    BY <1>3, <2>2, <2>3, <2>4, <2>5 DEF SaveDecision
  <2>9. /\ records'[i] = Decided(records[i], decision, o)
        /\ \A j \in RecordId \ {i} : records'[j] = records[j]
    BY <2>7, <2>8
  <2>10. /\ records'[i].status = records[i].status
         /\ records'[i].approved => records'[i].approver = o
         /\ records'[i].issued => records[i].issued \/ decision = "issue"
         /\ (records[i].url \/ decision = "issue") => records'[i].url
    BY <2>7, <2>9 DEF Decided, RecordDoc
  <2>11. RecordInv(records[i], i)'
    BY <2>1, <2>6, <2>10 DEF RecordInv
  <2>12. req'[r].pc \in Aside /\ \A q \in Request \ {r} : req'[q] = req[q]
    BY <1>0, <1>3, MovesTo DEF SaveDecision, mapPassFailRecord
  <2> QED BY <2>1, <2>9, <2>10, <2>11, <2>12, AsideCall, RecordMove
<1> QED BY <1>1, <1>2, <1>3

-----------------------------------------------------------------------------
(* The theorems                                                            *)

LEMMA RecordReadCertificates ==
  ASSUME TypeOK, CertificateInv, NEW r \in Request,
         \/ GetPassFailRecords(r) \/ GetApprovedPassRecords(r)
         \/ \E s \in Student : GetPassFailRecordById(r, s)
  PROVE  CertificateInv'
<1>1. (Reply(r, "ok") \/ Reply(r, "error")) /\ UNCHANGED <<records, announced>>
  BY RecordReads DEF docs
<1>2. "ok" \in Aside /\ "error" \in Aside
  BY AsidePcs DEF Replies
<1> QED BY <1>1, <1>2, MovesTo, AsideMove

LEMMA NextCertificates ==
  ASSUME TypeOK, CertificateInv, Next
  PROVE  CertificateInv'
<1>1. CASE AttendanceNext
  BY <1>1, AttendanceCertificates
<1>2. CASE RecordsNext
  BY <1>2, ReadCertificates, FindRecordCertificates, SaveRecordCertificates,
     DecideCertificates, DecisionCertificates, RecordReadCertificates DEF RecordsNext
<1>3. CASE Crash
  <2>1. [Fresh EXCEPT !.pc = "crashed"].pc = "crashed" /\ "crashed" \in Aside
    BY AsidePcs DEF Fresh, Replies
  <2>2. \A r \in Request : req'[r] = req[r] \/ req'[r].pc \in Aside
    BY <1>3, <2>1 DEF Crash
  <2> QED BY <1>3, <2>2, AsideMove DEF Crash, docs
<1> QED BY <1>1, <1>2, <1>3 DEF Next

\* However checks, decisions and crashes interleave, every record, and the
\* copy of it every check holds, keeps CertificateInv.
THEOREM CertificateCorrect == Spec => []CertificateInv
<1>1. Init => CertificateInv
  BY DEF Init, CertificateInv, RecordInv, CallInv, NoRecord, Fresh, Deciding, RecordId
<1>2. TypeOK /\ CertificateInv /\ [Next]_vars => CertificateInv'
  <2>1. ASSUME TypeOK, CertificateInv, UNCHANGED vars
        PROVE  CertificateInv'
    BY <2>1, AsideMove DEF vars
  <2> QED BY <2>1, NextCertificates
<1> QED BY <1>1, <1>2, OutcomeTypeCorrect, PTL DEF Spec

\* A certificate recorded as issued has its URL and has been announced to the
\* student, whatever else was in flight.
THEOREM IssuedAnnounced == Spec => []IssuedIsAnnounced
<1>1. CertificateInv => IssuedIsAnnounced
  BY DEF CertificateInv, RecordInv, IssuedIsAnnounced, Certificate, RecordId, Kind
<1> QED BY <1>1, CertificateCorrect, PTL

\* An approved record names the operator who approved it.
THEOREM ApprovalHasApprover == Spec => []ApprovedHasApprover
<1>1. CertificateInv => ApprovedHasApprover
  BY DEF CertificateInv, RecordInv, ApprovedHasApprover
<1> QED BY <1>1, CertificateCorrect, PTL
=============================================================================
