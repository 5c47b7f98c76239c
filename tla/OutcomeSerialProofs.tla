------------------------ MODULE OutcomeSerialProofs ------------------------
(***************************************************************************)
(* What holds of CourseOutcome while calls come one after the other: the   *)
(* lists of who left follow the rows, the limit of rows is kept, a check   *)
(* saves verdicts of the rows as they are, and the records implement       *)
(* CertificateRegistry.                                                    *)
(***************************************************************************)
EXTENDS CourseOutcomeProofs, FiniteSetTheorems

-----------------------------------------------------------------------------
(* One call after the other.  Serial lets a call begin only when no other  *)
(* is in flight, so what a call has read is still so when it writes.       *)

OneAtATime == \A q, r \in Request : InFlight(q) /\ InFlight(r) => q = r

\* An entry, and either loop, moves only its own call.
LEMMA EntryKeepsOthers ==
  ASSUME TypeOK, NEW r \in Request
  PROVE  /\ \A call : req' = [req EXCEPT ![r] = call] => \A q \in Request \ {r} : req'[q] = req[q]
         /\ \A s \in Student : \A todo : NextStudent(r, todo) \/ NextRecord(r, s) =>
              \A q \in Request \ {r} : req'[q] = req[q]
BY DEF NextStudent, NextRecord, Reply, TypeOK

\* The calls that a step moves.
LEMMA WhoMoves ==
  ASSUME TypeOK, Next
  PROVE  \/ UNCHANGED req
         \/ Crash
         \/ \E r \in Request : /\ InFlight(r) \/ Quiet
                               /\ \A q \in Request \ {r} : req'[q] = req[q]
<1> DEFINE Moves(r) == /\ InFlight(r) \/ Quiet
                       /\ \A q \in Request \ {r} : req'[q] = req[q]
<1>1. ASSUME NEW r \in Request, NEW op, Start(r, op)
      PROVE  Quiet
  BY <1>1 DEF Start
<1>2. ASSUME NEW r \in Request, NEW code, Reply(r, code)
      PROVE  \A q \in Request \ {r} : req'[q] = req[q]
  BY <1>2 DEF Reply, TypeOK
<1>3. ASSUME NEW r \in Request, NEW pc, Goto(r, pc)
      PROVE  \A q \in Request \ {r} : req'[q] = req[q]
  BY <1>3 DEF Goto, TypeOK
<1>4. ASSUME NEW r \in Request, NEW pc \in Awaits, At(r, pc)
      PROVE  InFlight(r)
  BY <1>4 DEF At, InFlight
<1>5. AttendanceNext => UNCHANGED req \/ \E r \in Request : Moves(r)
  <2>1. \A r \in Request :
          UpdateMarked(r) \/ InsertMarked(r) \/ WriteClassLeft(r) \/ CountMarked(r) => Moves(r)
    BY <1>2, <1>3, <1>4 DEF UpdateMarked, InsertMarked, WriteClassLeft, CountMarked, Awaits, Marking
  <2>2. \A r \in Request : InsertBulk(r) => Moves(r)
    <3>1. \A r \in Request : InsertBulk(r) => InFlight(r)
      BY <1>4 DEF InsertBulk, Awaits, Marking
    <3>2. ASSUME NEW r \in Request, InsertBulk(r)
          PROVE  \A q \in Request \ {r} : req'[q] = req[q]
      <4>1. req[r].student \in Student
        BY <3>2, CallHas DEF InsertBulk, At, ForOne, Awaits, Marking
      <4> QED BY <1>2, <3>2, <4>1, EntryKeepsOthers DEF InsertBulk
    <3> QED BY <3>1, <3>2
  <2>3. \A r \in Request : FindMarked(r) => Moves(r)
    <3>1. \A r \in Request : FindMarked(r) => InFlight(r)
      BY <1>4 DEF FindMarked, Awaits, Marking
    <3>2. ASSUME NEW r \in Request, FindMarked(r)
          PROVE  \A q \in Request \ {r} : req'[q] = req[q]
      <4>1. PICK s \in Student :
              \/ NextStudent(r, [req[r].todo EXCEPT ![s] = "none"])
              \/ req' = [req EXCEPT ![r].pc = "bulkCount", ![r].student = s]
        BY <3>2 DEF FindMarked
      <4> QED BY <4>1, EntryKeepsOthers DEF TypeOK
    <3> QED BY <3>1, <3>2
  <2>4. \A r \in Request, k \in Schedule, s \in Student, mark \in {"present", "absent"} :
          MarkOne(r, k, s, mark) => Moves(r)
    BY <1>1 DEF MarkOne, TypeOK
  <2>5. \A r \in Request, k \in Schedule, t \in Time,
           marks \in [Student -> {"none", "present", "absent"}] :
          BulkMark(r, k, t, marks) => Moves(r)
    BY <1>1, <1>2 DEF BulkMark, TypeOK
  <2>6. /\ \A i \in RowId : PatchRow(i) \/ RemoveRow(i) => UNCHANGED req
        /\ \A k \in Schedule : RemoveClass(k) => UNCHANGED req
    BY DEF PatchRow, RemoveRow, RemoveClass
  <2> HIDE DEF Moves
  <2> QED BY <2>1, <2>2, <2>3, <2>4, <2>5, <2>6 DEF AttendanceNext
<1>6. RecordsNext => \E r \in Request : Moves(r)
  <2>1. \A r \in Request :
          (\/ UpdateWork(r) \/ InsertWork(r) \/ ReadRows(r) \/ FindRecord(r)
           \/ AnnounceCertificate(r) \/ MailDecision(r) \/ SaveDecision(r)) => InFlight(r)
    BY <1>4 DEF UpdateWork, InsertWork, ReadRows, FindRecord, AnnounceCertificate, MailDecision,
       SaveDecision, Awaits, Working, Checking, Deciding
  <2>2. \A r \in Request :
          (\/ UpdateWork(r) \/ InsertWork(r)
           \/ AnnounceCertificate(r) \/ MailDecision(r) \/ SaveDecision(r)) => Moves(r)
    BY <1>2, <1>3, <2>1 DEF UpdateWork, InsertWork, AnnounceCertificate, MailDecision, SaveDecision
  <2>3. \A r \in Request : ReadRows(r) => Moves(r)
    BY <1>2, <2>1 DEF ReadRows, TypeOK
  <2>4. \A r \in Request : FindRecord(r) => Moves(r)
    BY <2>1 DEF FindRecord, TypeOK
  <2>5. ASSUME NEW r \in Request, SaveRecord(r)
        PROVE  Moves(r)
    <3>1. req[r].student \in Student /\ InFlight(r)
      BY <1>4, <2>5, CallHas DEF SaveRecord, At, ForOne, Awaits, Checking
    <3>2. NextRecord(r, req[r].student) \/ Reply(r, "error")
      BY <2>5 DEF SaveRecord
    <3> QED BY <1>2, <3>1, <3>2, EntryKeepsOthers
  <2>6. \A r \in Request, k \in Schedule, s \in Student, mark \in {"full", "partial"} :
          CreateWork(r, k, s, mark) => Moves(r)
    BY <1>1 DEF CreateWork, TypeOK
  <2>7. \A r \in Request : CheckAttendance(r) \/ CheckAssignments(r) => Moves(r)
    BY <1>1, <1>2 DEF CheckAttendance, CheckAssignments, TypeOK
  <2>8. \A r \in Request, s \in Student, o \in Operator, approve \in BOOLEAN :
          \/ \E url \in BOOLEAN : DecideAttendance(r, s, o, approve, url)
          \/ DecideAssignment(r, s, o, approve)
          => Moves(r)
    <3>1. ASSUME NEW r \in Request, NEW s \in Student, NEW o \in Operator, NEW approve \in BOOLEAN,
                 NEW url \in BOOLEAN, DecideAttendance(r, s, o, approve, url)
          PROVE  Moves(r)
      <4>1. PICK call : Reply(r, "error") \/ req' = [req EXCEPT ![r] = call]
        BY <3>1 DEF DecideAttendance
      <4> QED BY <1>1, <1>2, <3>1, <4>1, EntryKeepsOthers DEF DecideAttendance
    <3>2. \A r \in Request, s \in Student, o \in Operator, approve \in BOOLEAN :
            DecideAssignment(r, s, o, approve) => Moves(r)
      BY <1>1, <1>2 DEF DecideAssignment, TypeOK
    <3> HIDE DEF Moves
    <3> QED BY <3>1, <3>2
  <2>9. \A r \in Request :
          \/ GetPassFailRecords(r) \/ GetApprovedPassRecords(r)
          \/ \E s \in Student : GetPassFailRecordById(r, s)
          => Moves(r)
    <3>1. \A r \in Request : \A found : AnswerRecords(r, found) => Moves(r)
      BY <1>1, <1>2 DEF AnswerRecords
    <3> HIDE DEF Moves
    <3> QED BY <3>1 DEF GetPassFailRecords, GetApprovedPassRecords, GetPassFailRecordById
  <2> HIDE DEF Moves
  <2> QED BY <2>2, <2>3, <2>4, <2>5, <2>6, <2>7, <2>8, <2>9 DEF RecordsNext
<1> QED BY <1>5, <1>6 DEF Next

LEMMA CrashEnds ==
  ASSUME Crash
  PROVE  \A r \in Request : ~InFlight(r)'
BY DEF Crash, InFlight, Awaits, Fresh, Marking, Working, Checking, Deciding

LEMMA OneAtATimeStep ==
  ASSUME Serial, TypeOK, OneAtATime, [Next]_vars
  PROVE  OneAtATime'
<1>1. UNCHANGED req => OneAtATime'
  BY DEF OneAtATime, InFlight
<1>2. Crash => OneAtATime'
  BY CrashEnds DEF OneAtATime
<1>3. ASSUME NEW r \in Request, InFlight(r) \/ Quiet,
             \A q \in Request \ {r} : req'[q] = req[q]
      PROVE  OneAtATime'
  BY <1>3 DEF OneAtATime, InFlight, Quiet
<1> QED BY <1>1, <1>2, <1>3, WhoMoves DEF vars

\* A step that is neither a crash nor idle: the call that moves is the only one
\* that may be in flight afterwards.
LEMMA OnlyMover ==
  ASSUME Serial, OneAtATime, NEW r \in Request, InFlight(r) \/ Quiet,
         \A q \in Request \ {r} : req'[q] = req[q]
  PROVE  \A q \in Request : InFlight(q)' => q = r
BY DEF OneAtATime, Quiet, InFlight

-----------------------------------------------------------------------------
(* Rows and time blocks under serial calls                                 *)

\* Where bulkMark is once it has begun.
OfBulk == {"bulkLeft", "bulkFind", "bulkCount", "bulkInsert"}

\* What a call that marks attendance still knows of the rows and of the list
\* of its class schedule.
MarkCall(call) ==
  LET k == call.schedule
      s == call.student
  IN /\ call.pc \in Marking => k \in Schedule
     /\ call.pc = "markUpdate" => call.row \in RowsOf(k, s)
     /\ call.pc = "markInsert" => RowsOf(k, s) = {}
     /\ call.pc \in OfBulk => call.time \in Time
     /\ call.pc = "bulkLeft" /\ classes[k].exists =>
          classes[k].left \cup ({call.time} \cap Block) \subseteq call.left
     /\ call.pc \in OfBulk \ {"bulkLeft"} /\ classes[k].exists =>
          {call.time} \cap Block \subseteq classes[k].left
     /\ call.pc = "bulkInsert" => Cardinality(RowsOf(k, s)) < MaxBlocksPerStudent

\* A row of a time block is of a schedule that has the block ticked off.
Ticked(row) ==
  row.status # "none" =>
    /\ row.schedule \in Schedule
    /\ row.time \in Block /\ classes[row.schedule].exists => row.time \in classes[row.schedule].left

\* No more rows than the limit; that they are finitely many is part of it.
Within(rs) == IsFiniteSet(rs) /\ Cardinality(rs) <= MaxBlocksPerStudent

\* The inductive invariant of the rows, the lists of who left and the calls that
\* mark.
MarkInv ==
  /\ \A i \in RowId : Ticked(rows[i])
  /\ \A k \in Schedule, s \in Student : Within(RowsOf(k, s))
  /\ \A r \in Request : MarkCall(req[r])

LEMMA MaxPositive == MaxBlocksPerStudent \in Nat /\ 0 < MaxBlocksPerStudent
BY OutcomeAssumption, FS_EmptySet, FS_CardinalityType DEF MaxBlocksPerStudent

\* Nothing marked, nothing known.
LEMMA Unmarking ==
  ASSUME NEW call, call.pc \notin Marking
  PROVE  MarkCall(call) /\ MarkCall(call)'
BY DEF MarkCall, Marking, OfBulk

\* Rows and lists stay, and whoever moves marks nothing.
LEMMA MarkAside ==
  ASSUME MarkInv, UNCHANGED <<rows, classes>>,
         \A q \in Request : req'[q] = req[q] \/ req'[q].pc \notin Marking
  PROVE  MarkInv'
<1>1. \A k, s : RowsOf(k, s)' = RowsOf(k, s)
  BY DEF RowsOf
<1>2. \A q \in Request : MarkCall(req[q])'
  <2>1. ASSUME NEW q \in Request, req'[q] = req[q]
        PROVE  MarkCall(req[q])'
    BY <1>1, <2>1 DEF MarkInv, MarkCall
  <2>2. ASSUME NEW q \in Request, req'[q].pc \notin Marking
        PROVE  MarkCall(req[q])'
    <3>1. PICK call : call = req'[q]
      OBVIOUS
    <3> QED BY <2>2, <3>1 DEF MarkCall, Marking, OfBulk
  <2> QED BY <2>1, <2>2
<1>3. \A i \in RowId : Ticked(rows[i])'
  BY DEF MarkInv, Ticked
<1> QED BY <1>1, <1>2, <1>3 DEF MarkInv

\* Only calls in flight know something.
LEMMA MarkMove ==
  ASSUME \A q \in Request : ~InFlight(q)' \/ MarkCall(req[q])',
         \A i \in RowId : Ticked(rows[i])',
         \A k \in Schedule, s \in Student : Within(RowsOf(k, s))'
  PROVE  MarkInv'
<1>1. ASSUME NEW q \in Request, ~InFlight(q)'
      PROVE  MarkCall(req[q])'
  <2>1. req'[q].pc \notin Marking
    BY <1>1 DEF InFlight, Awaits
  <2> QED BY <2>1 DEF MarkCall, Marking, OfBulk
<1> QED BY <1>1 DEF MarkInv

\* One row is written for student s of schedule k: only their rows grow.
LEMMA RowsGrow ==
  ASSUME MarkInv, TypeOK, NEW i \in RowId, NEW doc, rows' = [rows EXCEPT ![i] = doc],
         NEW k \in Schedule, NEW s \in Student, doc.schedule = k, doc.student = s,
         Cardinality(RowsOf(k, s)) < MaxBlocksPerStudent
  PROVE  \A l \in Schedule, u \in Student : Within(RowsOf(l, u))'
<1>1. \A l, u : RowsOf(l, u)' \subseteq RowsOf(l, u) \cup {i}
  BY DEF RowsOf, TypeOK
<1>2. ASSUME NEW l \in Schedule, NEW u \in Student
      PROVE  Within(RowsOf(l, u)')
  <2>1. Within(RowsOf(l, u))
    BY DEF MarkInv
  <2>2. Cardinality(RowsOf(l, u)) \in Nat
    BY <2>1, FS_CardinalityType DEF Within
  <2>3. CASE l = k /\ u = s
    <3>1. /\ IsFiniteSet(RowsOf(l, u) \cup {i})
          /\ Cardinality(RowsOf(l, u) \cup {i}) <= Cardinality(RowsOf(l, u)) + 1
      BY <2>1, <2>2, FS_AddElement DEF Within
    <3>2. /\ IsFiniteSet(RowsOf(l, u)')
          /\ Cardinality(RowsOf(l, u)') <= Cardinality(RowsOf(l, u) \cup {i})
      BY <1>1, <3>1, FS_Subset
    <3>3. /\ Cardinality(RowsOf(l, u)') \in Nat
          /\ Cardinality(RowsOf(l, u) \cup {i}) \in Nat
      BY <3>1, <3>2, FS_CardinalityType
    <3> QED BY <2>2, <2>3, <3>1, <3>2, <3>3, MaxPositive DEF Within
  <2>4. CASE ~(l = k /\ u = s)
    <3>1. RowsOf(l, u)' \subseteq RowsOf(l, u)
      BY <2>4 DEF RowsOf, TypeOK
    <3>2. /\ IsFiniteSet(RowsOf(l, u)')
          /\ Cardinality(RowsOf(l, u)') <= Cardinality(RowsOf(l, u))
      BY <2>1, <3>1, FS_Subset DEF Within
    <3>3. Cardinality(RowsOf(l, u)') \in Nat
      BY <3>2, FS_CardinalityType
    <3> QED BY <2>1, <2>2, <3>2, <3>3, MaxPositive DEF Within
  <2> QED BY <2>3, <2>4
<1>3. \A l, u : Within(RowsOf(l, u))' <=> Within(RowsOf(l, u)')
  BY DEF Within, MaxBlocksPerStudent
<1> QED BY <1>2, <1>3

\* Rows are removed, or written in place.
LEMMA RowsShrink ==
  ASSUME MarkInv, \A l \in Schedule, u \in Student : RowsOf(l, u)' \subseteq RowsOf(l, u)
  PROVE  \A l \in Schedule, u \in Student : Within(RowsOf(l, u))'
<1>1. ASSUME NEW l \in Schedule, NEW u \in Student
      PROVE  Within(RowsOf(l, u)')
  <2>1. Within(RowsOf(l, u))
    BY DEF MarkInv
  <2>2. /\ IsFiniteSet(RowsOf(l, u)')
        /\ Cardinality(RowsOf(l, u)') <= Cardinality(RowsOf(l, u))
    BY <2>1, FS_Subset DEF Within
  <2>3. Cardinality(RowsOf(l, u)') \in Nat /\ Cardinality(RowsOf(l, u)) \in Nat
    BY <2>1, <2>2, FS_CardinalityType DEF Within
  <2> QED BY <2>1, <2>2, <2>3, MaxPositive DEF Within
<1>2. \A l, u : Within(RowsOf(l, u))' <=> Within(RowsOf(l, u)')
  BY DEF Within, MaxBlocksPerStudent
<1> QED BY <1>1, <1>2

LEMMA MarkOneInv ==
  ASSUME Serial, TypeOK, OneAtATime, MarkInv, NEW r \in Request, NEW k \in Schedule, NEW s \in Student,
         NEW mark \in {"present", "absent"}, MarkOne(r, k, s, mark)
  PROVE  MarkInv'
<1> DEFINE call == [Fresh EXCEPT !.student = s, !.schedule = k, !.todo[s] = mark]
           insert == [call EXCEPT !.pc = "markInsert"]
           update(i) == [call EXCEPT !.pc = "markUpdate", !.row = i]
<1>1. /\ insert.pc = "markInsert" /\ insert.schedule = k /\ insert.student = s
      /\ \A i : /\ update(i).pc = "markUpdate" /\ update(i).schedule = k
                /\ update(i).student = s /\ update(i).row = i
  BY DEF Fresh
<1>2. \/ RowsOf(k, s) = {} /\ req' = [req EXCEPT ![r] = insert]
      \/ \E i \in RowsOf(k, s) : req' = [req EXCEPT ![r] = update(i)]
  BY DEF MarkOne
<1> HIDE DEF insert, update
<1>3. PICK to : /\ req' = [req EXCEPT ![r] = to]
                /\ to.pc \in {"markInsert", "markUpdate"} /\ to.schedule = k /\ to.student = s
                /\ to.pc = "markInsert" => RowsOf(k, s) = {}
                /\ to.pc = "markUpdate" => to.row \in RowsOf(k, s)
  BY <1>1, <1>2
<1>4. UNCHANGED <<rows, classes>> /\ Quiet
  BY DEF MarkOne, Start, docs
<1>5. RowsOf(k, s)' = RowsOf(k, s)
  BY <1>4 DEF RowsOf
<1>6. req'[r] = to /\ \A q \in Request \ {r} : req'[q] = req[q]
  BY <1>3 DEF TypeOK
<1>7. MarkCall(req[r])'
  BY <1>3, <1>4, <1>5, <1>6 DEF MarkCall, OfBulk
<1>8. \A q \in Request : InFlight(q)' => q = r
  BY <1>4, <1>6, OnlyMover
<1>9. \A i \in RowId : Ticked(rows[i])'
  BY <1>4 DEF MarkInv, Ticked
<1>10. \A l \in Schedule, u \in Student : Within(RowsOf(l, u))'
  BY <1>4, RowsShrink DEF RowsOf
<1> QED BY <1>7, <1>8, <1>9, <1>10, MarkMove

LEMMA UpdateMarkedInv ==
  ASSUME Serial, TypeOK, OneAtATime, MarkInv, NEW r \in Request, UpdateMarked(r)
  PROVE  MarkInv'
<1>1. PICK i, k, s, mark :
        i = req[r].row /\ k = req[r].schedule /\ s = req[r].student /\ mark = req[r].todo[s]
  OBVIOUS
<1>2. req[r].pc = "markUpdate" /\ UNCHANGED classes
  BY DEF UpdateMarked, At
<1>3. i \in RowsOf(k, s) /\ i \in RowId /\ rows[i].schedule = k /\ rows[i].status # "none" /\ k \in Schedule
  BY <1>1, <1>2 DEF MarkInv, MarkCall, RowsOf, Marking
<1>4. rows' = [rows EXCEPT ![i].status = mark, ![i].schedule = k]
  BY <1>1, <1>3 DEF UpdateMarked
<1>5. /\ rows'[i].schedule = k /\ rows'[i].time = rows[i].time /\ rows'[i].student = rows[i].student
      /\ \A j \in RowId \ {i} : rows'[j] = rows[j]
  BY <1>3, <1>4 DEF TypeOK, RowDoc
<1>6. \A j \in RowId : Ticked(rows[j])'
  BY <1>2, <1>3, <1>5 DEF MarkInv, Ticked
<1>7. \A l \in Schedule, u \in Student : Within(RowsOf(l, u))'
  BY <1>3, <1>5, RowsShrink DEF RowsOf
<1>8. \A q \in Request : ~InFlight(q)'
  <2>1. Reply(r, "ok") /\ InFlight(r)
    BY <1>2 DEF UpdateMarked, InFlight, Awaits, Marking
  <2>2. req'[r].pc = "ok" /\ \A q \in Request \ {r} : req'[q] = req[q]
    BY <2>1, MovesTo
  <2> QED BY <2>1, <2>2, OnlyMover DEF InFlight, Awaits, Marking, Working, Checking, Deciding
<1> QED BY <1>6, <1>7, <1>8, MarkMove

\* A row is inserted for somebody who has fewer than the limit, at a time that is
\* ticked off if it is a block.
LEMMA InsertRow ==
  ASSUME Serial, TypeOK, OneAtATime, MarkInv, NEW r \in Request, NEW k \in Schedule, NEW s \in Student,
         NEW t, k = req[r].schedule, s = req[r].student,
         rows' = [rows EXCEPT ![<<r, s>>] = Marked(r, s, t)], UNCHANGED classes,
         Cardinality(RowsOf(k, s)) < MaxBlocksPerStudent,
         t \in Block /\ classes[k].exists => t \in classes[k].left
  PROVE  /\ \A i \in RowId : Ticked(rows[i])'
         /\ \A l \in Schedule, u \in Student : Within(RowsOf(l, u))'
<1>1. PICK doc : doc = Marked(r, s, t)
  OBVIOUS
<1>2. doc.schedule = k /\ doc.student = s /\ doc.time = t
  BY <1>1 DEF Marked
<1>3. PICK i \in RowId : i = <<r, s>>
  BY DEF RowId
<1>4. rows' = [rows EXCEPT ![i] = doc]
  BY <1>1, <1>3
<1>5. rows'[i] = doc /\ \A j \in RowId \ {i} : rows'[j] = rows[j]
  BY <1>4 DEF TypeOK
<1>6. \A j \in RowId : Ticked(rows[j])'
  BY <1>2, <1>5 DEF MarkInv, Ticked
<1>7. \A l \in Schedule, u \in Student : Within(RowsOf(l, u))'
  BY <1>2, <1>4, RowsGrow
<1> QED BY <1>6, <1>7

LEMMA InsertMarkedInv ==
  ASSUME Serial, TypeOK, OneAtATime, MarkInv, NEW r \in Request, InsertMarked(r)
  PROVE  MarkInv'
<1>1. PICK k, s : k = req[r].schedule /\ s = req[r].student
  OBVIOUS
<1>2. req[r].pc = "markInsert" /\ req[r].pc \in Marking /\ req[r].pc \in ForOne /\ InFlight(r)
  BY DEF InsertMarked, At, Marking, ForOne, Awaits, InFlight
<1>3. k \in Schedule /\ s \in Student /\ RowsOf(k, s) = {}
  BY <1>1, <1>2, CallHas DEF MarkInv, MarkCall
<1>4. Cardinality(RowsOf(k, s)) < MaxBlocksPerStudent
  BY <1>3, MaxPositive, FS_EmptySet
<1>5. None \notin Block
  BY OutcomeAssumption
<1>6. /\ rows' = [rows EXCEPT ![<<r, s>>] = Marked(r, s, None)] /\ UNCHANGED classes
      /\ Reply(r, "ok") \/ Reply(r, "error")
  BY <1>1 DEF InsertMarked
<1>7. /\ \A i \in RowId : Ticked(rows[i])'
      /\ \A l \in Schedule, u \in Student : Within(RowsOf(l, u))'
  BY <1>1, <1>3, <1>4, <1>5, <1>6, InsertRow
<1>8. \A q \in Request : ~InFlight(q)'
  <2>1. req'[r].pc \in {"ok", "error"} /\ \A q \in Request \ {r} : req'[q] = req[q]
    BY <1>6, MovesTo
  <2> QED BY <1>2, <2>1, OnlyMover DEF InFlight, Awaits, Marking, Working, Checking, Deciding
<1> QED BY <1>7, <1>8, MarkMove

LEMMA BulkMarkInv ==
  ASSUME Serial, TypeOK, OneAtATime, MarkInv, NEW r \in Request, NEW k \in Schedule, NEW t \in Time,
         NEW marks \in [Student -> {"none", "present", "absent"}], BulkMark(r, k, t, marks)
  PROVE  MarkInv'
<1> DEFINE left == classes[k].left \cup ({t} \cap Block)
           call == [Fresh EXCEPT !.pc = "bulkLeft", !.schedule = k, !.time = t,
                                 !.todo = marks, !.left = left]
<1>1. call.pc = "bulkLeft" /\ call.schedule = k /\ call.time = t /\ call.left = left
  BY DEF Fresh
<1>2. Quiet /\ UNCHANGED <<rows, classes>>
  BY DEF BulkMark, Start, docs
<1>3. Reply(r, "error") \/ req' = [req EXCEPT ![r] = call]
  BY DEF BulkMark
<1> HIDE DEF call
<1>4. CASE Reply(r, "error")
  <2>1. req'[r].pc = "error" /\ \A q \in Request \ {r} : req'[q] = req[q]
    BY <1>4, MovesTo
  <2> QED BY <1>2, <2>1, MarkAside DEF Marking
<1>5. CASE req' = [req EXCEPT ![r] = call]
  <2>1. req'[r] = call /\ \A q \in Request \ {r} : req'[q] = req[q]
    BY <1>5 DEF TypeOK
  <2>2. MarkCall(req[r])'
    BY <1>1, <1>2, <2>1 DEF MarkCall, OfBulk
  <2>3. \A q \in Request : InFlight(q)' => q = r
    BY <1>2, <2>1, OnlyMover
  <2>4. \A i \in RowId : Ticked(rows[i])'
    BY <1>2 DEF MarkInv, Ticked
  <2>5. \A l \in Schedule, u \in Student : Within(RowsOf(l, u))'
    BY <1>2, RowsShrink DEF RowsOf
  <2> QED BY <2>2, <2>3, <2>4, <2>5, MarkMove
<1> QED BY <1>3, <1>4, <1>5

LEMMA WriteClassLeftInv ==
  ASSUME Serial, TypeOK, OneAtATime, MarkInv, NEW r \in Request, WriteClassLeft(r)
  PROVE  MarkInv'
<1>1. PICK k, t, left : k = req[r].schedule /\ t = req[r].time /\ left = req[r].left
  OBVIOUS
<1>2. req[r].pc = "bulkLeft" /\ InFlight(r) /\ UNCHANGED rows /\ Goto(r, "bulkFind")
  BY DEF WriteClassLeft, At, InFlight, Awaits, Marking
<1>3. k \in Schedule /\ t \in Time
  BY <1>1, <1>2 DEF MarkInv, MarkCall, Marking, OfBulk
<1>4. classes[k].exists => classes[k].left \cup ({t} \cap Block) \subseteq left
  BY <1>1, <1>2 DEF MarkInv, MarkCall
<1>5. classes' = IF classes[k].exists THEN [classes EXCEPT ![k].left = left] ELSE classes
  BY <1>1 DEF WriteClassLeft
<1>6. /\ \A l \in Schedule : /\ classes'[l].exists = classes[l].exists
                             /\ classes[l].exists => classes[l].left \subseteq classes'[l].left
      /\ classes[k].exists => {t} \cap Block \subseteq classes'[k].left
  BY <1>3, <1>4, <1>5 DEF TypeOK, ClassDoc
<1>7. \A i \in RowId : Ticked(rows[i])'
  BY <1>2, <1>6 DEF MarkInv, Ticked
<1>8. \A l \in Schedule, u \in Student : Within(RowsOf(l, u))'
  BY <1>2, RowsShrink DEF RowsOf
<1>9. /\ req'[r] = [req[r] EXCEPT !.pc = "bulkFind"] /\ req'[r].pc = "bulkFind"
      /\ \A q \in Request \ {r} : req'[q] = req[q]
  BY <1>2, MovesTo
<1>10. req'[r].schedule = k /\ req'[r].time = t
  BY <1>1, <1>9, CallHas DEF Locals
<1>11. MarkCall(req[r])'
  BY <1>3, <1>6, <1>9, <1>10 DEF MarkCall, OfBulk
<1>12. \A q \in Request : InFlight(q)' => q = r
  BY <1>2, <1>9, OnlyMover
<1> QED BY <1>7, <1>8, <1>11, <1>12, MarkMove

\* What the loop knows after a write that leaves the list alone.
LEMMA LoopInv ==
  ASSUME Serial, TypeOK, OneAtATime, MarkInv, NEW r \in Request, UNCHANGED classes,
         req[r].pc \in OfBulk \ {"bulkLeft"},
         \A q \in Request \ {r} : req'[q] = req[q],
         \/ req'[r].pc \in Replies
         \/ /\ req'[r].pc \in {"bulkFind", "bulkCount"}
            /\ req'[r].schedule = req[r].schedule /\ req'[r].time = req[r].time,
         \A i \in RowId : Ticked(rows[i])',
         \A l \in Schedule, u \in Student : Within(RowsOf(l, u))'
  PROVE  MarkInv'
<1>1. InFlight(r) /\ req[r].pc \in Marking
  BY DEF InFlight, OfBulk, Awaits, Marking
<1>2. \A q \in Request : InFlight(q)' => q = r
  BY <1>1, OnlyMover
<1>3. CASE req'[r].pc \in Replies
  <2>1. ~InFlight(r)'
    BY <1>3 DEF InFlight, Replies, Awaits, Marking, Working, Checking, Deciding
  <2> QED BY <1>2, <2>1, MarkMove
<1>4. CASE /\ req'[r].pc \in {"bulkFind", "bulkCount"}
           /\ req'[r].schedule = req[r].schedule /\ req'[r].time = req[r].time
  <2>1. PICK k, t : k = req[r].schedule /\ t = req[r].time
    OBVIOUS
  <2>2. k \in Schedule /\ t \in Time /\ (classes[k].exists => {t} \cap Block \subseteq classes[k].left)
    BY <1>1, <2>1 DEF MarkInv, MarkCall, OfBulk
  <2>3. MarkCall(req[r])'
    BY <1>4, <2>1, <2>2 DEF MarkCall, OfBulk
  <2> QED BY <1>2, <2>3, MarkMove
<1> QED BY <1>3, <1>4

LEMMA NextStudentKeeps ==
  ASSUME TypeOK, NEW r \in Request, NEW todo, NextStudent(r, todo)
  PROVE  /\ \/ req'[r].pc \in Replies
            \/ /\ req'[r].pc \in {"bulkFind", "bulkCount"}
               /\ req'[r].schedule = req[r].schedule /\ req'[r].time = req[r].time
         /\ \A q \in Request \ {r} : req'[q] = req[q]
<1>0. req[r] \in Locals /\ req \in [Request -> Call]
  BY CallHas
<1>1. CASE req' = [req EXCEPT ![r].pc = "bulkFind", ![r].student = None, ![r].todo = todo]
  <2>1. /\ req'[r].pc = "bulkFind" /\ req'[r].schedule = req[r].schedule
        /\ req'[r].time = req[r].time /\ \A q \in Request \ {r} : req'[q] = req[q]
    BY <1>0, <1>1 DEF Locals
  <2> QED BY <2>1
<1>2. CASE Reply(r, "ok") \/ Reply(r, "error")
  <2>1. req'[r].pc \in Replies /\ \A q \in Request \ {r} : req'[q] = req[q]
    BY <1>2, MovesTo DEF Replies
  <2> QED BY <2>1
<1> QED BY <1>1, <1>2 DEF NextStudent

LEMMA FindMarkedInv ==
  ASSUME Serial, TypeOK, OneAtATime, MarkInv, NEW r \in Request, FindMarked(r)
  PROVE  MarkInv'
<1>1. PICK s \in Student :
        \/ NextStudent(r, [req[r].todo EXCEPT ![s] = "none"])
        \/ req' = [req EXCEPT ![r].pc = "bulkCount", ![r].student = s]
  BY DEF FindMarked
<1>2. req[r].pc \in OfBulk \ {"bulkLeft"} /\ UNCHANGED <<rows, classes>>
  BY DEF FindMarked, At, OfBulk, docs
<1>3. \A i \in RowId : Ticked(rows[i])'
  BY <1>2 DEF MarkInv, Ticked
<1>4. \A l \in Schedule, u \in Student : Within(RowsOf(l, u))'
  BY <1>2, RowsShrink DEF RowsOf
<1>5. /\ \/ req'[r].pc \in Replies
         \/ /\ req'[r].pc \in {"bulkFind", "bulkCount"}
            /\ req'[r].schedule = req[r].schedule /\ req'[r].time = req[r].time
      /\ \A q \in Request \ {r} : req'[q] = req[q]
  <2>1. CASE req' = [req EXCEPT ![r].pc = "bulkCount", ![r].student = s]
    <3>1. /\ req'[r].pc = "bulkCount" /\ req'[r].schedule = req[r].schedule
          /\ req'[r].time = req[r].time /\ \A q \in Request \ {r} : req'[q] = req[q]
      BY <2>1, CallHas DEF Locals
    <3> QED BY <3>1
  <2> QED BY <1>1, <2>1, NextStudentKeeps
<1> QED BY <1>2, <1>3, <1>4, <1>5, LoopInv

LEMMA CountMarkedInv ==
  ASSUME Serial, TypeOK, OneAtATime, MarkInv, NEW r \in Request, CountMarked(r)
  PROVE  MarkInv'
<1>1. PICK k, s : k = req[r].schedule /\ s = req[r].student
  OBVIOUS
<1>2. req[r].pc = "bulkCount" /\ InFlight(r) /\ UNCHANGED <<rows, classes>>
  BY DEF CountMarked, At, InFlight, Awaits, Marking, docs
<1>3. k \in Schedule /\ s \in Student
  BY <1>1, <1>2, CallHas DEF MarkInv, MarkCall, Marking, ForOne, Awaits
<1>4. CASE Reply(r, "error")
  <2>1. req'[r].pc = "error" /\ \A q \in Request \ {r} : req'[q] = req[q]
    BY <1>4, MovesTo
  <2> QED BY <1>2, <2>1, MarkAside DEF Marking
<1>5. CASE ~(Cardinality(RowsOf(k, s)) >= MaxBlocksPerStudent) /\ Goto(r, "bulkInsert")
  <2>1. Cardinality(RowsOf(k, s)) \in Nat
    BY <1>3, FS_CardinalityType DEF MarkInv, Within
  <2>2. Cardinality(RowsOf(k, s)) < MaxBlocksPerStudent
    BY <1>5, <2>1, MaxPositive
  <2>3. /\ req'[r] = [req[r] EXCEPT !.pc = "bulkInsert"] /\ req'[r].pc = "bulkInsert"
        /\ \A q \in Request \ {r} : req'[q] = req[q]
    BY <1>5, MovesTo
  <2>4. req'[r].schedule = k /\ req'[r].student = s /\ req'[r].time = req[r].time
    BY <1>1, <2>3, CallHas DEF Locals
  <2>5. RowsOf(k, s)' = RowsOf(k, s)
    BY <1>2 DEF RowsOf
  <2>6. MarkCall(req[r])'
    <3>1. /\ req[r].time \in Time
          /\ classes'[k].exists => {req[r].time} \cap Block \subseteq classes'[k].left
      BY <1>1, <1>2 DEF MarkInv, MarkCall, OfBulk
    <3> QED BY <1>3, <2>2, <2>3, <2>4, <2>5, <3>1 DEF MarkCall, OfBulk, MaxBlocksPerStudent
  <2>7. \A q \in Request : InFlight(q)' => q = r
    BY <1>2, <2>3, OnlyMover
  <2>8. \A i \in RowId : Ticked(rows[i])'
    BY <1>2 DEF MarkInv, Ticked
  <2>9. \A l \in Schedule, u \in Student : Within(RowsOf(l, u))'
    BY <1>2, RowsShrink DEF RowsOf
  <2> QED BY <2>6, <2>7, <2>8, <2>9, MarkMove
<1> QED BY <1>1, <1>4, <1>5 DEF CountMarked

LEMMA InsertBulkInv ==
  ASSUME Serial, TypeOK, OneAtATime, MarkInv, NEW r \in Request, InsertBulk(r)
  PROVE  MarkInv'
<1>1. PICK k, s, t : k = req[r].schedule /\ s = req[r].student /\ t = req[r].time
  OBVIOUS
<1>2. req[r].pc = "bulkInsert" /\ req[r].pc \in OfBulk \ {"bulkLeft"} /\ UNCHANGED classes
  BY DEF InsertBulk, At, OfBulk
<1>3. k \in Schedule /\ s \in Student
  BY <1>1, <1>2, CallHas DEF MarkInv, MarkCall, Marking, ForOne, Awaits
<1>4. /\ Cardinality(RowsOf(k, s)) < MaxBlocksPerStudent
      /\ t \in Block /\ classes[k].exists => t \in classes[k].left
  BY <1>1, <1>2 DEF MarkInv, MarkCall
<1>5. /\ rows' = [rows EXCEPT ![<<r, s>>] = Marked(r, s, t)]
      /\ NextStudent(r, [req[r].todo EXCEPT ![s] = "none"]) \/ Reply(r, "error")
  BY <1>1 DEF InsertBulk
<1>6. /\ \A i \in RowId : Ticked(rows[i])'
      /\ \A l \in Schedule, u \in Student : Within(RowsOf(l, u))'
  BY <1>1, <1>2, <1>3, <1>4, <1>5, InsertRow
<1>7. /\ \/ req'[r].pc \in Replies
         \/ /\ req'[r].pc \in {"bulkFind", "bulkCount"}
            /\ req'[r].schedule = req[r].schedule /\ req'[r].time = req[r].time
      /\ \A q \in Request \ {r} : req'[q] = req[q]
  BY <1>5, NextStudentKeeps, MovesTo DEF Replies
<1> QED BY <1>2, <1>6, <1>7, LoopInv

LEMMA EditInv ==
  ASSUME Serial, TypeOK, OneAtATime, MarkInv, "patchRow" \notin Ops,
         \/ \E i \in RowId : PatchRow(i) \/ RemoveRow(i)
         \/ \E k \in Schedule : RemoveClass(k)
  PROVE  MarkInv'
<1>1. \A q \in Request : ~InFlight(q)'
  BY DEF PatchRow, RemoveRow, RemoveClass, Quiet, InFlight
<1>2. ASSUME NEW i \in RowId, RemoveRow(i)
      PROVE  MarkInv'
  <2>1. rows'[i].status = "none" /\ UNCHANGED classes /\ \A j \in RowId \ {i} : rows'[j] = rows[j]
    BY <1>2 DEF RemoveRow, TypeOK, NoRow
  <2>2. \A j \in RowId : Ticked(rows[j])'
    BY <2>1 DEF MarkInv, Ticked
  <2>3. \A l \in Schedule, u \in Student : Within(RowsOf(l, u))'
    BY <2>1, RowsShrink DEF RowsOf
  <2> QED BY <1>1, <2>2, <2>3, MarkMove
<1>3. ASSUME NEW k \in Schedule, RemoveClass(k)
      PROVE  MarkInv'
  <2>1. /\ UNCHANGED rows /\ ~classes'[k].exists
        /\ \A l \in Schedule \ {k} : classes'[l] = classes[l]
    BY <1>3 DEF RemoveClass, TypeOK
  <2>2. \A j \in RowId : Ticked(rows[j])'
    BY <2>1 DEF MarkInv, Ticked
  <2>3. \A l \in Schedule, u \in Student : Within(RowsOf(l, u))'
    BY <2>1, RowsShrink DEF RowsOf
  <2> QED BY <1>1, <2>2, <2>3, MarkMove
<1> QED BY <1>2, <1>3 DEF PatchRow

\* Work, checks and decisions lead to none of the awaits of attendance.
LEMMA RecordsMoves ==
  ASSUME TypeOK, RecordsNext
  PROVE  /\ UNCHANGED <<rows, classes>>
         /\ \A q \in Request : req'[q] = req[q] \/ req'[q].pc \notin Marking
<1> DEFINE Elsewhere(r) == /\ req'[r].pc \notin Marking
                           /\ \A q \in Request \ {r} : req'[q] = req[q]
<1>0. /\ Replies \cap Marking = {} /\ {"ok", "error"} \subseteq Replies
      /\ {"workUpdate", "workInsert", "checkRows", "checkFind", "checkSave",
          "decideAnnounce", "decideMail", "decideSave"} \cap Marking = {}
  BY DEF Replies, Marking
<1>1. ASSUME NEW r \in Request, Reply(r, "ok") \/ Reply(r, "error")
      PROVE  Elsewhere(r)
  BY <1>0, <1>1, MovesTo
<1>2. ASSUME NEW r \in Request, NEW call, req' = [req EXCEPT ![r] = call], call.pc \notin Marking
      PROVE  Elsewhere(r)
  BY <1>2, MovesTo
<1>3. ASSUME NEW r \in Request, NEW k \in Schedule, NEW s \in Student,
             NEW mark \in {"full", "partial"}, CreateWork(r, k, s, mark)
      PROVE  Elsewhere(r)
  <2> DEFINE call == [Fresh EXCEPT !.student = s, !.schedule = k, !.todo[s] = mark]
             insert == [call EXCEPT !.pc = "workInsert"]
             update(i) == [call EXCEPT !.pc = "workUpdate", !.row = i]
  <2>1. insert.pc = "workInsert" /\ \A i : update(i).pc = "workUpdate"
    BY DEF Fresh
  <2>2. \/ req' = [req EXCEPT ![r] = insert]
        \/ \E i \in WorkOf(k, s) : req' = [req EXCEPT ![r] = update(i)]
    BY <1>3 DEF CreateWork
  <2> HIDE DEF insert, update, Elsewhere
  <2>3. PICK to : req' = [req EXCEPT ![r] = to] /\ to.pc \in {"workInsert", "workUpdate"}
    BY <2>1, <2>2
  <2> QED BY <1>0, <1>2, <2>3
<1>4. ASSUME NEW r \in Request, CheckAttendance(r) \/ CheckAssignments(r)
      PROVE  Elsewhere(r)
  <2>1. \E pc \in {"checkRows", "checkFind"} : \E kind, todo :
          \/ Reply(r, "error")
          \/ req' = [req EXCEPT ![r] = [Fresh EXCEPT !.pc = pc, !.kind = kind, !.todo = todo]]
    <3>1. CASE CheckAttendance(r)
      BY <3>1 DEF CheckAttendance
    <3>2. CASE CheckAssignments(r)
      BY <3>2 DEF CheckAssignments
    <3> QED BY <1>4, <3>1, <3>2
  <2>2. PICK pc \in {"checkRows", "checkFind"} : \E kind, todo :
          \/ Reply(r, "error")
          \/ req' = [req EXCEPT ![r] = [Fresh EXCEPT !.pc = pc, !.kind = kind, !.todo = todo]]
    BY <2>1
  <2>3. PICK kind, todo :
          \/ Reply(r, "error")
          \/ req' = [req EXCEPT ![r] = [Fresh EXCEPT !.pc = pc, !.kind = kind, !.todo = todo]]
    BY <2>2
  <2> DEFINE call == [Fresh EXCEPT !.pc = pc, !.kind = kind, !.todo = todo]
  <2>4. call.pc = pc
    BY DEF Fresh
  <2>5. Reply(r, "error") \/ req' = [req EXCEPT ![r] = call]
    BY <2>3
  <2> HIDE DEF call, Elsewhere
  <2> QED BY <1>0, <1>1, <1>2, <2>4, <2>5
<1>5. ASSUME NEW r \in Request, UpdateWork(r) \/ InsertWork(r) \/ SaveDecision(r)
      PROVE  Elsewhere(r)
  <2>1. Reply(r, "ok") \/ Reply(r, "error")
    BY <1>5 DEF UpdateWork, InsertWork, SaveDecision, mapPassFailRecord
  <2> HIDE DEF Elsewhere
  <2> QED BY <1>1, <2>1
<1>6. ASSUME NEW r \in Request, ReadRows(r)
      PROVE  Elsewhere(r)
  <2>1. PICK todo : Reply(r, "error") \/ req' = [req EXCEPT ![r].pc = "checkFind", ![r].todo = todo]
    BY <1>6 DEF ReadRows
  <2>2. CASE req' = [req EXCEPT ![r].pc = "checkFind", ![r].todo = todo]
    BY <1>0, <2>2, CallHas DEF Locals
  <2> QED BY <1>1, <2>1, <2>2
<1>7. ASSUME NEW r \in Request, FindRecord(r)
      PROVE  Elsewhere(r)
  <2>1. PICK s, doc : req' = [req EXCEPT ![r].pc = "checkSave", ![r].student = s, ![r].read = doc]
    BY <1>7 DEF FindRecord
  <2> QED BY <1>0, <2>1, CallHas DEF Locals
<1>8. ASSUME NEW r \in Request, SaveRecord(r)
      PROVE  Elsewhere(r)
  <2>1. PICK s : NextRecord(r, s) \/ Reply(r, "error")
    BY <1>8 DEF SaveRecord
  <2>2. PICK todo : \/ Reply(r, "ok") \/ Reply(r, "error")
                    \/ req' = [req EXCEPT ![r].pc = "checkFind", ![r].student = None,
                                          ![r].read = NoRecord, ![r].todo = todo]
    BY <2>1 DEF NextRecord
  <2>3. CASE req' = [req EXCEPT ![r].pc = "checkFind", ![r].student = None,
                                ![r].read = NoRecord, ![r].todo = todo]
    BY <1>0, <2>3, CallHas DEF Locals
  <2> QED BY <1>1, <2>2, <2>3
<1>9. ASSUME NEW r \in Request, AnnounceCertificate(r) \/ MailDecision(r)
      PROVE  Elsewhere(r)
  <2>1. PICK pc \in {"decideMail", "decideSave"} : Goto(r, pc) \/ Reply(r, "error")
    BY <1>9 DEF AnnounceCertificate, MailDecision
  <2>2. CASE Goto(r, pc)
    <3>1. req'[r].pc = pc /\ \A q \in Request \ {r} : req'[q] = req[q]
      BY <2>2, MovesTo
    <3> QED BY <1>0, <3>1
  <2> QED BY <1>1, <2>1, <2>2
<1>10. ASSUME NEW r \in Request, NEW s \in Student, NEW o \in Operator, NEW approve \in BOOLEAN,
              \/ \E url \in BOOLEAN : DecideAttendance(r, s, o, approve, url)
              \/ DecideAssignment(r, s, o, approve)
       PROVE  Elsewhere(r)
  <2> DEFINE Steps == {"decideAnnounce", "decideMail", "decideSave"}
             Called(pc, kind, decision) == [Fresh EXCEPT !.pc = pc, !.kind = kind, !.student = s,
                                                         !.operator = o, !.decision = decision]
             Starts(pc, kind, decision) == \/ Reply(r, "ok") \/ Reply(r, "error")
                                           \/ req' = [req EXCEPT ![r] = Called(pc, kind, decision)]
  <2>1. \E pc \in Steps : \E kind, decision : Starts(pc, kind, decision)
    <3>1. ASSUME NEW url \in BOOLEAN, DecideAttendance(r, s, o, approve, url)
          PROVE  \E pc \in Steps : \E kind, decision : Starts(pc, kind, decision)
      <4>1. PICK issue : Reply(r, "error") \/ req' = [req EXCEPT ![r] =
                 [Fresh EXCEPT !.pc = IF issue THEN "decideAnnounce" ELSE "decideMail",
                    !.kind = "attendance", !.student = s, !.operator = o,
                    !.decision = IF ~approve THEN "reject" ELSE IF issue THEN "issue" ELSE "approve"]]
        BY <3>1 DEF DecideAttendance
      <4> DEFINE pc == IF issue THEN "decideAnnounce" ELSE "decideMail"
                 decision == IF ~approve THEN "reject" ELSE IF issue THEN "issue" ELSE "approve"
      <4>2. pc \in Steps /\ Starts(pc, "attendance", decision)
        BY <4>1
      <4> QED BY <4>2
    <3>2. CASE DecideAssignment(r, s, o, approve)
      BY <3>2 DEF DecideAssignment
    <3> QED BY <1>10, <3>1, <3>2
  <2>2. PICK pc \in Steps : \E kind, decision : Starts(pc, kind, decision)
    BY <2>1
  <2>3. PICK kind, decision : Starts(pc, kind, decision)
    BY <2>2
  <2> DEFINE call == Called(pc, kind, decision)
  <2>4. call.pc = pc
    BY DEF Fresh
  <2>5. Reply(r, "ok") \/ Reply(r, "error") \/ req' = [req EXCEPT ![r] = call]
    BY <2>3
  <2> HIDE DEF call, Elsewhere
  <2> QED BY <1>0, <1>1, <1>2, <2>4, <2>5
<1>11. ASSUME NEW r \in Request,
              \/ GetPassFailRecords(r) \/ GetApprovedPassRecords(r)
              \/ \E s \in Student : GetPassFailRecordById(r, s)
       PROVE  Elsewhere(r)
  <2> HIDE DEF Elsewhere
  <2> QED BY <1>1, <1>11, RecordReads
<1>12. \E r \in Request : Elsewhere(r)
  <2> HIDE DEF Elsewhere
  <2> QED BY <1>3, <1>4, <1>5, <1>6, <1>7, <1>8, <1>9, <1>10, <1>11 DEF RecordsNext
<1>13. UNCHANGED <<rows, classes>>
  <2>1. ASSUME NEW r \in Request,
               \/ GetPassFailRecords(r) \/ GetApprovedPassRecords(r)
               \/ \E s \in Student : GetPassFailRecordById(r, s)
        PROVE  UNCHANGED <<rows, classes>>
    BY <2>1, RecordReads DEF docs
  <2> QED BY <2>1 DEF RecordsNext, CreateWork, CheckAttendance, CheckAssignments, UpdateWork, InsertWork,
     ReadRows, FindRecord, SaveRecord, AnnounceCertificate, MailDecision, SaveDecision,
     DecideAttendance, DecideAssignment, docs
<1> QED BY <1>12, <1>13

LEMMA MarkStep ==
  ASSUME Serial, "patchRow" \notin Ops, TypeOK, OneAtATime, MarkInv, [Next]_vars
  PROVE  MarkInv'
<1>1. CASE UNCHANGED vars
  BY <1>1, MarkAside DEF vars
<1>2. CASE AttendanceNext
  BY <1>2, MarkOneInv, UpdateMarkedInv, InsertMarkedInv, BulkMarkInv, WriteClassLeftInv,
     FindMarkedInv, CountMarkedInv, InsertBulkInv, EditInv DEF AttendanceNext
<1>3. CASE RecordsNext
  BY <1>3, RecordsMoves, MarkAside
<1>4. CASE Crash
  <2>1. UNCHANGED <<rows, classes>> /\ \A q \in Request : req'[q].pc \notin Marking
    BY <1>4, CrashEnds DEF Crash, docs, InFlight, Awaits
  <2> QED BY <2>1, MarkAside
<1> QED BY <1>1, <1>2, <1>3, <1>4 DEF Next

LEMMA OneAtATimeHolds == Serial => (Spec => []OneAtATime)
<1> SUFFICES ASSUME Serial PROVE Spec => []OneAtATime
  OBVIOUS
<1>1. Init => OneAtATime
  BY DEF Init, Fresh, OneAtATime, InFlight, Awaits, Marking, Working, Checking, Deciding
<1>2. TypeOK /\ OneAtATime /\ [Next]_vars => OneAtATime'
  BY OneAtATimeStep
<1> QED BY <1>1, <1>2, OutcomeTypeCorrect, PTL DEF Spec

LEMMA MarkInvHolds == Serial /\ "patchRow" \notin Ops => (Spec => []MarkInv)
<1> SUFFICES ASSUME Serial, "patchRow" \notin Ops PROVE Spec => []MarkInv
  OBVIOUS
<1>1. Init => MarkInv
  <2> SUFFICES ASSUME Init PROVE MarkInv
    OBVIOUS
  <2>1. \A k, s : RowsOf(k, s) = {}
    BY DEF Init, RowsOf, NoRow
  <2>2. Within({})
    BY FS_EmptySet, MaxPositive DEF Within
  <2>3. \A i \in RowId : Ticked(rows[i])
    BY DEF Init, Ticked, NoRow
  <2>4. \A r \in Request : MarkCall(req[r])
    BY DEF Init, Fresh, MarkCall, Marking, OfBulk
  <2> QED BY <2>1, <2>2, <2>3, <2>4 DEF MarkInv
<1>2. TypeOK /\ OneAtATime /\ MarkInv /\ [Next]_vars => MarkInv'
  BY MarkStep
<1> QED BY <1>1, <1>2, OneAtATimeHolds, OutcomeTypeCorrect, PTL DEF Spec

\* bulkMark: when calls do not overlap and none patches a row, every time block
\* somebody was marked for is ticked off in the list of its schedule, crashes and removals included.
THEOREM SerialMarkedIsLeftHolds == Spec => []SerialMarkedIsLeft
<1>1. CASE Serial /\ "patchRow" \notin Ops
  <2>1. MarkInv => SerialMarkedIsLeft
    BY DEF MarkInv, Ticked, SerialMarkedIsLeft
  <2> QED BY <1>1, <2>1, MarkInvHolds, PTL
<1>2. CASE ~(Serial /\ "patchRow" \notin Ops)
  <2>1. SerialMarkedIsLeft
    BY <1>2 DEF SerialMarkedIsLeft
  <2> QED BY <2>1, PTL
<1> QED BY <1>1, <1>2

\* "The attendance limit for this session": when calls do not overlap and none
\* patches a row, nobody has more rows in a schedule than there are time blocks.
THEOREM SerialWithinLimitHolds == Spec => []SerialWithinLimit
<1>1. CASE Serial /\ "patchRow" \notin Ops
  <2>1. MarkInv => SerialWithinLimit
    BY DEF MarkInv, Within, SerialWithinLimit
  <2> QED BY <1>1, <2>1, MarkInvHolds, PTL
<1>2. CASE ~(Serial /\ "patchRow" \notin Ops)
  <2>1. SerialWithinLimit
    BY <1>2 DEF SerialWithinLimit
  <2> QED BY <2>1, PTL
<1> QED BY <1>1, <1>2

-----------------------------------------------------------------------------
(* Verdicts and decisions under serial calls                               *)

\* The status a check leaves the record of s with.
Owed(call, s) ==
  IF call.todo[s] = "none" THEN records[<<call.kind, s>>].status ELSE call.todo[s]

\* A check owes everybody it is about the verdict of the rows, which nobody
\* changes until it ends, and holds the record it is about to write.
CheckCall(call) ==
  /\ call.pc = "checkRows" => call.kind = "attendance"
  /\ call.pc \in {"checkFind", "checkSave"} => \A s \in Student :
       /\ call.kind = "attendance" /\ Attends(s) => Owed(call, s) = AttendanceVerdict(s)
       /\ call.kind = "assignment" /\ HasWork(s) => Owed(call, s) = WorkVerdict(s)
  /\ call.pc = "checkSave" => call.read = records[<<call.kind, call.student>>]

\* A decision to issue a certificate is about a PASS without one.
DecideCall(call) ==
  /\ call.pc \in Deciding => call.decision \in {"approve", "issue", "reject"}
  /\ call.pc = "decideAnnounce" => call.decision = "issue"
  /\ call.pc \in Deciding /\ call.decision = "issue" =>
       LET doc == records[<<call.kind, call.student>>] IN doc.status = "PASS" /\ ~doc.issued

\* The inductive invariant of the records, the checks and the decisions.
VerdictInv ==
  /\ \A i \in RecordId : records[i].status = "none" => ~records[i].approved /\ ~records[i].issued
  /\ \A r \in Request : CheckCall(req[r]) /\ DecideCall(req[r])

Unknowing == Marking \cup Working \cup Replies

\* Only the call that moves may be in flight afterwards; a call that neither
\* checks nor decides knows nothing.
LEMMA VerdictMove ==
  ASSUME NEW r \in Request, \A q \in Request : InFlight(q)' => q = r,
         \A i \in RecordId : records'[i].status = "none" => ~records'[i].approved /\ ~records'[i].issued,
         \/ req'[r].pc \in Unknowing
         \/ CheckCall(req[r])' /\ DecideCall(req[r])'
  PROVE  VerdictInv'
<1>1. ASSUME NEW q \in Request, req'[q].pc \notin Checking \cup Deciding
      PROVE  CheckCall(req[q])' /\ DecideCall(req[q])'
  <2>1. PICK call : call = req'[q]
    OBVIOUS
  <2> QED BY <1>1, <2>1 DEF CheckCall, DecideCall, Checking, Deciding
<1>2. ASSUME NEW q \in Request, q # r
      PROVE  req'[q].pc \notin Checking \cup Deciding
  BY <1>2 DEF InFlight, Awaits
<1>3. req'[r].pc \in Unknowing => req'[r].pc \notin Checking \cup Deciding
  BY DEF Unknowing, Marking, Working, Replies, Checking, Deciding
<1> QED BY <1>1, <1>2, <1>3 DEF VerdictInv

LEMMA VerdictStays ==
  ASSUME VerdictInv, UNCHANGED records
  PROVE  \A i \in RecordId : records'[i].status = "none" => ~records'[i].approved /\ ~records'[i].issued
BY DEF VerdictInv

LEMMA VerdictReply ==
  ASSUME Serial, TypeOK, OneAtATime, VerdictInv, NEW r \in Request, InFlight(r) \/ Quiet,
         Reply(r, "ok") \/ Reply(r, "error"), UNCHANGED records
  PROVE  VerdictInv'
<1>1. req'[r].pc \in Unknowing /\ \A q \in Request \ {r} : req'[q] = req[q]
  BY MovesTo DEF Unknowing, Replies
<1>2. \A q \in Request : InFlight(q)' => q = r
  BY <1>1, OnlyMover
<1> QED BY <1>1, <1>2, VerdictStays, VerdictMove

LEMMA AttendanceVerdicts ==
  ASSUME Serial, TypeOK, OneAtATime, VerdictInv, AttendanceNext
  PROVE  VerdictInv'
<1>1. Quiet \/ \E r \in Request : req[r].pc \in Marking
  BY DEF AttendanceNext, MarkOne, BulkMark, UpdateMarked, InsertMarked, WriteClassLeft, FindMarked,
     CountMarked, InsertBulk, PatchRow, RemoveRow, RemoveClass, Start, At, Marking
<1>2. \A r \in Request : InFlight(r) => req[r].pc \in Marking
  BY <1>1 DEF Quiet, OneAtATime, InFlight, Awaits
<1>3. \A r \in Request : req'[r].pc \notin Checking \cup Deciding
  <2>1. ASSUME NEW r \in Request, req'[r] = req[r]
        PROVE  req'[r].pc \notin Checking \cup Deciding
    <3>1. CASE InFlight(r)
      BY <1>2, <2>1, <3>1 DEF Marking, Checking, Deciding
    <3>2. CASE ~InFlight(r)
      BY <2>1, <3>2 DEF InFlight, Awaits
    <3> QED BY <3>1, <3>2
  <2>2. \A r \in Request : req'[r].pc \in Marking \cup Replies => req'[r].pc \notin Checking \cup Deciding
    BY DEF Marking, Replies, Checking, Deciding
  <2> QED BY <2>1, <2>2, AttendanceMoves
<1>4. \A r \in Request : CheckCall(req[r])' /\ DecideCall(req[r])'
  <2>1. ASSUME NEW r \in Request
        PROVE  CheckCall(req[r])' /\ DecideCall(req[r])'
    <3>1. PICK call : call = req'[r]
      OBVIOUS
    <3> QED BY <1>3, <3>1 DEF CheckCall, DecideCall, Checking, Deciding
  <2> QED BY <2>1
<1> QED BY <1>4, AttendanceMoves, VerdictStays DEF VerdictInv

LEMMA WorkVerdicts ==
  ASSUME Serial, TypeOK, OneAtATime, VerdictInv, NEW r \in Request,
         \/ \E k \in Schedule, s \in Student, mark \in {"full", "partial"} : CreateWork(r, k, s, mark)
         \/ UpdateWork(r) \/ InsertWork(r)
         \/ GetPassFailRecords(r) \/ GetApprovedPassRecords(r)
         \/ \E s \in Student : GetPassFailRecordById(r, s)
  PROVE  VerdictInv'
<1>1. ASSUME NEW k \in Schedule, NEW s \in Student, NEW mark \in {"full", "partial"},
             CreateWork(r, k, s, mark)
      PROVE  VerdictInv'
  <2> DEFINE call == [Fresh EXCEPT !.student = s, !.schedule = k, !.todo[s] = mark]
             insert == [call EXCEPT !.pc = "workInsert"]
             update(i) == [call EXCEPT !.pc = "workUpdate", !.row = i]
  <2>1. insert.pc = "workInsert" /\ \A i : update(i).pc = "workUpdate"
    BY DEF Fresh
  <2>2. \/ req' = [req EXCEPT ![r] = insert]
        \/ \E i \in WorkOf(k, s) : req' = [req EXCEPT ![r] = update(i)]
    BY <1>1 DEF CreateWork
  <2> HIDE DEF insert, update
  <2>3. PICK to : req' = [req EXCEPT ![r] = to] /\ to.pc \in {"workInsert", "workUpdate"}
    BY <2>1, <2>2
  <2>4. req'[r].pc \in Unknowing /\ \A q \in Request \ {r} : req'[q] = req[q]
    BY <2>3, MovesTo DEF Unknowing, Working
  <2>5. Quiet /\ UNCHANGED records
    BY <1>1 DEF CreateWork, Start, docs
  <2>6. \A q \in Request : InFlight(q)' => q = r
    BY <2>4, <2>5, OnlyMover
  <2> QED BY <2>4, <2>5, <2>6, VerdictStays, VerdictMove
<1>2. ASSUME UpdateWork(r) \/ InsertWork(r)
      PROVE  VerdictInv'
  <2>1. InFlight(r) /\ (Reply(r, "ok") \/ Reply(r, "error")) /\ UNCHANGED records
    BY <1>2 DEF UpdateWork, InsertWork, At, InFlight, Awaits, Working
  <2> QED BY <2>1, VerdictReply
<1>3. ASSUME \/ GetPassFailRecords(r) \/ GetApprovedPassRecords(r)
             \/ \E s \in Student : GetPassFailRecordById(r, s)
      PROVE  VerdictInv'
  <2>1. Quiet
    BY <1>3 DEF GetPassFailRecords, GetApprovedPassRecords, GetPassFailRecordById, AnswerRecords, Start
  <2>2. (Reply(r, "ok") \/ Reply(r, "error")) /\ UNCHANGED records
    BY <1>3, RecordReads DEF docs
  <2> QED BY <2>1, <2>2, VerdictReply
<1> QED BY <1>1, <1>2, <1>3

\* A check that starts a loop, or goes on to one, owes the verdicts it read.
LEMMA LoopVerdicts ==
  ASSUME Serial, TypeOK, OneAtATime, VerdictInv, NEW r \in Request, InFlight(r) \/ Quiet,
         \A q \in Request \ {r} : req'[q] = req[q], UNCHANGED docs,
         req'[r].pc = "checkFind",
         \A s \in Student :
           /\ req'[r].kind = "attendance" /\ Attends(s) => req'[r].todo[s] = AttendanceVerdict(s)
           /\ req'[r].kind = "assignment" /\ HasWork(s) => req'[r].todo[s] = WorkVerdict(s)
  PROVE  VerdictInv'
<1>1. /\ \A s : Attends(s)' = Attends(s) /\ HasWork(s)' = HasWork(s)
      /\ \A s : AttendanceVerdict(s)' = AttendanceVerdict(s) /\ WorkVerdict(s)' = WorkVerdict(s)
  BY DEF docs, Attends, HasWork, AttendanceVerdict, WorkVerdict
<1>2. PICK call : call = req'[r]
  OBVIOUS
<1>3. \A s \in Student :
        /\ call.kind = "attendance" /\ Attends(s) => Owed(call, s)' = AttendanceVerdict(s)
        /\ call.kind = "assignment" /\ HasWork(s) => Owed(call, s)' = WorkVerdict(s)
  BY <1>2, VerdictTypes DEF Owed
<1>4. CheckCall(call)' /\ DecideCall(call)'
  BY <1>1, <1>2, <1>3 DEF CheckCall, DecideCall, Deciding
<1>5. \A q \in Request : InFlight(q)' => q = r
  BY OnlyMover
<1> QED BY <1>2, <1>4, <1>5, VerdictStays, VerdictMove DEF docs, CheckCall, DecideCall, Owed,
        Attends, HasWork, AttendanceVerdict, WorkVerdict

LEMMA CheckAttendanceVerdicts ==
  ASSUME Serial, TypeOK, OneAtATime, VerdictInv, NEW r \in Request, CheckAttendance(r)
  PROVE  VerdictInv'
<1> DEFINE todo == [s \in Student |-> IF HasWork(s) THEN "PASS" ELSE "none"]
           call == [Fresh EXCEPT !.pc = "checkRows", !.kind = "attendance", !.todo = todo]
<1>1. call.pc = "checkRows" /\ call.kind = "attendance"
  BY DEF Fresh
<1>2. req' = [req EXCEPT ![r] = call] /\ Quiet /\ UNCHANGED records
  BY DEF CheckAttendance, Start, docs
<1> HIDE DEF call
<1>3. req'[r] = call /\ \A q \in Request \ {r} : req'[q] = req[q]
  BY <1>2, MovesTo
<1>4. CheckCall(req[r])' /\ DecideCall(req[r])'
  BY <1>1, <1>3 DEF CheckCall, DecideCall, Deciding
<1>5. \A q \in Request : InFlight(q)' => q = r
  BY <1>2, <1>3, OnlyMover
<1> QED BY <1>2, <1>4, <1>5, VerdictStays, VerdictMove

LEMMA CheckAssignmentsVerdicts ==
  ASSUME Serial, TypeOK, OneAtATime, VerdictInv, NEW r \in Request, CheckAssignments(r)
  PROVE  VerdictInv'
<1> DEFINE todo == [s \in Student |-> IF HasWork(s) THEN WorkVerdict(s) ELSE "none"]
           call == [Fresh EXCEPT !.pc = "checkFind", !.kind = "assignment", !.todo = todo]
<1>1. call.pc = "checkFind" /\ call.kind = "assignment" /\ call.todo = todo
  BY DEF Fresh
<1>2. Quiet /\ UNCHANGED docs /\ UNCHANGED records
  BY DEF CheckAssignments, Start, docs
<1>3. Reply(r, "error") \/ req' = [req EXCEPT ![r] = call]
  BY DEF CheckAssignments
<1>4. \A s \in Student : HasWork(s) => todo[s] = WorkVerdict(s)
  OBVIOUS
<1> HIDE DEF call, todo
<1>5. CASE req' = [req EXCEPT ![r] = call]
  <2>1. req'[r] = call /\ \A q \in Request \ {r} : req'[q] = req[q]
    BY <1>5, MovesTo
  <2> QED BY <1>1, <1>2, <1>4, <2>1, LoopVerdicts
<1> QED BY <1>2, <1>3, <1>5, VerdictReply

LEMMA ReadRowsVerdicts ==
  ASSUME Serial, TypeOK, OneAtATime, VerdictInv, NEW r \in Request, ReadRows(r)
  PROVE  VerdictInv'
<1> DEFINE todo == [s \in Student |-> IF Attends(s) THEN AttendanceVerdict(s) ELSE req[r].todo[s]]
<1>1. req[r].pc = "checkRows" /\ InFlight(r) /\ UNCHANGED docs /\ UNCHANGED records
  BY DEF ReadRows, At, InFlight, Awaits, Checking, docs
<1>2. req[r].kind = "attendance"
  BY <1>1 DEF VerdictInv, CheckCall
<1>3. Reply(r, "error") \/ req' = [req EXCEPT ![r].pc = "checkFind", ![r].todo = todo]
  BY DEF ReadRows
<1>4. \A s \in Student : Attends(s) => todo[s] = AttendanceVerdict(s)
  OBVIOUS
<1> HIDE DEF todo
<1>5. CASE req' = [req EXCEPT ![r].pc = "checkFind", ![r].todo = todo]
  <2>1. /\ req'[r].pc = "checkFind" /\ req'[r].kind = req[r].kind /\ req'[r].todo = todo
        /\ \A q \in Request \ {r} : req'[q] = req[q]
    BY <1>5, CallHas DEF Locals
  <2> QED BY <1>1, <1>2, <1>4, <2>1, LoopVerdicts
<1> QED BY <1>1, <1>3, <1>5, VerdictReply

LEMMA FindRecordVerdicts ==
  ASSUME Serial, TypeOK, OneAtATime, VerdictInv, NEW r \in Request, FindRecord(r)
  PROVE  VerdictInv'
<1>1. req[r].pc = "checkFind" /\ InFlight(r) /\ UNCHANGED docs
  BY DEF FindRecord, At, InFlight, Awaits, Checking
<1>2. PICK s \in Student :
        req' = [req EXCEPT ![r].pc = "checkSave", ![r].student = s, ![r].read = records[<<req[r].kind, s>>]]
  BY DEF FindRecord
<1>3. /\ req'[r].pc = "checkSave" /\ req'[r].kind = req[r].kind /\ req'[r].student = s
      /\ req'[r].todo = req[r].todo /\ req'[r].read = records[<<req[r].kind, s>>]
      /\ \A q \in Request \ {r} : req'[q] = req[q]
  BY <1>2, CallHas DEF Locals
<1>4. /\ \A u : Attends(u)' = Attends(u) /\ HasWork(u)' = HasWork(u)
      /\ \A u : AttendanceVerdict(u)' = AttendanceVerdict(u) /\ WorkVerdict(u)' = WorkVerdict(u)
  BY <1>1 DEF docs, Attends, HasWork, AttendanceVerdict, WorkVerdict
<1>5. \A u \in Student : Owed(req[r], u)' = Owed(req[r], u)
  BY <1>1, <1>3 DEF Owed, docs
<1>6. CheckCall(req[r])
  BY DEF VerdictInv
<1>7. CheckCall(req[r])' /\ DecideCall(req[r])'
  BY <1>1, <1>3, <1>4, <1>5, <1>6 DEF CheckCall, DecideCall, Deciding, docs
<1>8. \A q \in Request : InFlight(q)' => q = r
  BY <1>1, <1>3, OnlyMover
<1> QED BY <1>1, <1>7, <1>8, VerdictStays, VerdictMove DEF docs

\* What a save writes: the status owed to its student, nobody else's, and no
\* flag but those the record has.
LEMMA SaveWrites ==
  ASSUME TypeOK, CertificateInv, VerdictInv, NEW r \in Request, SaveRecord(r)
  PROVE  /\ req[r].student \in Student /\ req[r].kind \in Kind
         /\ UNCHANGED <<rows, classes, work, announced>>
         /\ \/ UNCHANGED records /\ Reply(r, "error")
            \/ /\ NextRecord(r, req[r].student)
               /\ LET i == <<req[r].kind, req[r].student>> IN
                  /\ records'[i].status = req[r].todo[req[r].student]
                  /\ records'[i].status \in {"PASS", "FAIL"}
                  /\ records'[i].approved = records[i].approved
                  /\ records'[i].issued = records[i].issued
                  /\ \A j \in RecordId \ {i} : records'[j] = records[j]
<1>1. req[r].pc = "checkSave" /\ req[r].pc \in ForOne /\ req[r].pc \in Checking
  BY DEF SaveRecord, At, ForOne, Awaits, Checking
<1>2. PICK s \in Student : s = req[r].student
  BY <1>1, CallHas
<1>a. req[r].kind \in Kind
  BY CallHas DEF Locals
<1>3. PICK i \in RecordId : i = <<req[r].kind, s>>
  BY <1>a DEF RecordId
<1>4. PICK status \in {"PASS", "FAIL"} : status = req[r].todo[s]
  <2>1. req[r].todo[s] \in {"none", "PASS", "FAIL"}
    <3>1. Todo(req[r].pc) = {"none", "PASS", "FAIL"}
      BY <1>1, TodoValues
    <3> QED BY <3>1, CallHas
  <2>2. req[r].todo[s] # "none"
    BY <1>1, <1>2 DEF CertificateInv, CallInv
  <2> QED BY <2>1, <2>2
<1>5. req[r].read = records[i]
  BY <1>1, <1>2, <1>3 DEF VerdictInv, CheckCall
<1>6. records[i] \in RecordDoc /\ records \in [RecordId -> RecordDoc]
  BY DEF TypeOK
<1>7. /\ UNCHANGED <<rows, classes, work, announced>>
      /\ \/ UNCHANGED records /\ Reply(r, "error")
         \/ /\ NextRecord(r, s)
            /\ \/ records' = [records EXCEPT ![i] = Rechecked(records[i], records[i], status)]
               \/ /\ records[i].status = "none"
                  /\ records' = [records EXCEPT ![i] = [NoRecord EXCEPT !.status = status]]
  BY <1>2, <1>3, <1>4, <1>5 DEF SaveRecord
<1>8. ASSUME records' = [records EXCEPT ![i] = Rechecked(records[i], records[i], status)]
      PROVE  /\ records'[i].status = status
             /\ records'[i].approved = records[i].approved /\ records'[i].issued = records[i].issued
             /\ \A j \in RecordId \ {i} : records'[j] = records[j]
  <2>1. /\ records'[i] = Rechecked(records[i], records[i], status)
        /\ \A j \in RecordId \ {i} : records'[j] = records[j]
    BY <1>6, <1>8
  <2> QED BY <1>6, <2>1 DEF Rechecked, RecordDoc
<1>9. ASSUME records[i].status = "none",
             records' = [records EXCEPT ![i] = [NoRecord EXCEPT !.status = status]]
      PROVE  /\ records'[i].status = status
             /\ records'[i].approved = records[i].approved /\ records'[i].issued = records[i].issued
             /\ \A j \in RecordId \ {i} : records'[j] = records[j]
  <2>1. /\ records'[i] = [NoRecord EXCEPT !.status = status]
        /\ \A j \in RecordId \ {i} : records'[j] = records[j]
    BY <1>6, <1>9
  <2>2. records'[i].status = status /\ records'[i].approved = FALSE /\ records'[i].issued = FALSE
    BY <2>1 DEF NoRecord
  <2>3. records[i].approved = FALSE /\ records[i].issued = FALSE
    BY <1>6, <1>9 DEF VerdictInv, RecordDoc
  <2> QED BY <2>1, <2>2, <2>3
<1> QED BY <1>a, <1>2, <1>3, <1>4, <1>7, <1>8, <1>9

LEMMA SaveRecordVerdicts ==
  ASSUME Serial, TypeOK, CertificateInv, OneAtATime, VerdictInv, NEW r \in Request, SaveRecord(r)
  PROVE  VerdictInv'
<1>1. PICK s \in Student, kind \in Kind, i \in RecordId :
        s = req[r].student /\ kind = req[r].kind /\ i = <<kind, s>>
  BY SaveWrites DEF RecordId
<1>2. InFlight(r) /\ req[r].pc = "checkSave"
  BY DEF SaveRecord, At, InFlight, Awaits, Checking
<1>3. CASE UNCHANGED records /\ Reply(r, "error")
  BY <1>2, <1>3, VerdictReply
<1>4. CASE /\ NextRecord(r, s)
           /\ records'[i].status = req[r].todo[s]
           /\ records'[i].status \in {"PASS", "FAIL"}
           /\ \A j \in RecordId \ {i} : records'[j] = records[j]
  <2>1. \A j \in RecordId : records'[j].status = "none" => ~records'[j].approved /\ ~records'[j].issued
    BY <1>4 DEF VerdictInv
  <2> DEFINE todo == [req[r].todo EXCEPT ![s] = "none"]
  <2>2. CASE Reply(r, "ok")
    <3>1. req'[r].pc \in Unknowing /\ \A q \in Request \ {r} : req'[q] = req[q]
      BY <2>2, MovesTo DEF Unknowing, Replies
    <3>2. \A q \in Request : InFlight(q)' => q = r
      BY <1>2, <3>1, OnlyMover
    <3> QED BY <2>1, <3>1, <3>2, VerdictMove
  <2>3. CASE req' = [req EXCEPT ![r].pc = "checkFind", ![r].student = None,
                                ![r].read = NoRecord, ![r].todo = todo]
    <3>0. /\ req[r].todo \in [Student -> {"none", "present", "absent", "full", "partial", "PASS", "FAIL"}]
          /\ todo[s] = "none" /\ \A u \in Student \ {s} : todo[u] = req[r].todo[u]
      BY CallHas DEF Locals
    <3> HIDE DEF todo
    <3>1. /\ req'[r].pc = "checkFind" /\ req'[r].kind = kind /\ req'[r].todo = todo
          /\ \A q \in Request \ {r} : req'[q] = req[q]
      BY <1>1, <2>3, CallHas DEF Locals
    <3>2. /\ \A u : Attends(u)' = Attends(u) /\ HasWork(u)' = HasWork(u)
          /\ \A u : AttendanceVerdict(u)' = AttendanceVerdict(u) /\ WorkVerdict(u)' = WorkVerdict(u)
      BY SaveWrites DEF Attends, HasWork, AttendanceVerdict, WorkVerdict
    <3>3. ASSUME NEW u \in Student
          PROVE  Owed(req[r], u)' = Owed(req[r], u)
      <4>1. CASE u = s
        BY <1>1, <1>4, <3>0, <3>1, <4>1 DEF Owed
      <4>2. CASE u # s
        <5>1. PICK j \in RecordId \ {i} : j = <<kind, u>>
          BY <1>1, <4>2 DEF RecordId
        <5>2. records'[j] = records[j]
          BY <1>4
        <5> QED BY <1>1, <3>0, <3>1, <4>2, <5>1, <5>2 DEF Owed
      <4> QED BY <4>1, <4>2
    <3>4. CheckCall(req[r])
      BY DEF VerdictInv
    <3>5. CheckCall(req[r])' /\ DecideCall(req[r])'
      BY <1>1, <1>2, <3>1, <3>2, <3>3, <3>4 DEF CheckCall, DecideCall, Deciding
    <3>6. \A q \in Request : InFlight(q)' => q = r
      BY <1>2, <3>1, OnlyMover
    <3> QED BY <2>1, <3>5, <3>6, VerdictMove
  <2> QED BY <1>4, <2>2, <2>3 DEF NextRecord
<1> QED BY <1>1, <1>3, <1>4, SaveWrites

LEMMA DecideVerdicts ==
  ASSUME Serial, TypeOK, OneAtATime, VerdictInv, NEW r \in Request, NEW s \in Student, NEW o \in Operator,
         NEW approve \in BOOLEAN,
         \/ \E url \in BOOLEAN : DecideAttendance(r, s, o, approve, url)
         \/ DecideAssignment(r, s, o, approve)
  PROVE  VerdictInv'
<1>0. UNCHANGED records /\ Quiet
  BY DEF DecideAttendance, DecideAssignment, Start, docs
<1>1. ASSUME NEW kind \in Kind, NEW pc \in Deciding, NEW decision \in {"approve", "issue", "reject"},
             pc = "decideAnnounce" => decision = "issue",
             decision = "issue" => records[<<kind, s>>].status = "PASS" /\ ~records[<<kind, s>>].issued,
             req' = [req EXCEPT ![r] = [Fresh EXCEPT !.pc = pc, !.kind = kind, !.student = s,
                                                     !.operator = o, !.decision = decision]]
      PROVE  VerdictInv'
  <2> DEFINE call == [Fresh EXCEPT !.pc = pc, !.kind = kind, !.student = s,
                                   !.operator = o, !.decision = decision]
  <2>1. call.pc = pc /\ call.kind = kind /\ call.student = s /\ call.decision = decision
    BY DEF Fresh
  <2>2. req' = [req EXCEPT ![r] = call]
    BY <1>1
  <2> HIDE DEF call
  <2>3. req'[r] = call /\ \A q \in Request \ {r} : req'[q] = req[q]
    BY <2>2, MovesTo
  <2>4. CheckCall(req[r])' /\ DecideCall(req[r])'
    BY <1>0, <1>1, <2>1, <2>3 DEF CheckCall, DecideCall, Deciding
  <2>5. \A q \in Request : InFlight(q)' => q = r
    BY <1>0, <2>3, OnlyMover
  <2> QED BY <1>0, <2>4, <2>5, VerdictStays, VerdictMove
<1>2. ASSUME NEW url \in BOOLEAN, DecideAttendance(r, s, o, approve, url)
      PROVE  VerdictInv'
  <2>1. CASE Reply(r, "error")
    BY <1>0, <2>1, VerdictReply
  <2>2. CASE ~Reply(r, "error")
    <3>1. PICK issue \in BOOLEAN :
            /\ issue => /\ approve
                        /\ records[<<"attendance", s>>].status = "PASS"
                        /\ ~records[<<"attendance", s>>].issued
            /\ req' = [req EXCEPT ![r] =
                 [Fresh EXCEPT !.pc = IF issue THEN "decideAnnounce" ELSE "decideMail",
                    !.kind = "attendance", !.student = s, !.operator = o,
                    !.decision = IF ~approve THEN "reject" ELSE IF issue THEN "issue" ELSE "approve"]]
      BY <1>2, <2>2 DEF DecideAttendance, Issues
    <3>2. PICK pc \in Deciding, decision \in {"approve", "issue", "reject"} :
            /\ pc = IF issue THEN "decideAnnounce" ELSE "decideMail"
            /\ decision = IF ~approve THEN "reject" ELSE IF issue THEN "issue" ELSE "approve"
      BY DEF Deciding
    <3>3. /\ pc = "decideAnnounce" => decision = "issue"
          /\ decision = "issue" => issue
      BY <3>1, <3>2
    <3>4. PICK kind \in Kind : kind = "attendance"
      BY DEF Kind
    <3>5. req' = [req EXCEPT ![r] = [Fresh EXCEPT !.pc = pc, !.kind = kind, !.student = s,
                                                  !.operator = o, !.decision = decision]]
      BY <3>1, <3>2, <3>4
    <3>6. decision = "issue" => records[<<kind, s>>].status = "PASS" /\ ~records[<<kind, s>>].issued
      BY <3>1, <3>3, <3>4
    <3> QED BY <1>1, <3>3, <3>5, <3>6
  <2> QED BY <2>1, <2>2
<1>3. ASSUME DecideAssignment(r, s, o, approve)
      PROVE  VerdictInv'
  <2>1. CASE Reply(r, "error") \/ Reply(r, "ok")
    BY <1>0, <2>1, VerdictReply
  <2>2. CASE req' = [req EXCEPT ![r] = [Fresh EXCEPT !.pc = "decideSave", !.kind = "assignment",
                                          !.student = s, !.operator = o, !.decision = "approve"]]
    <3>1. "decideSave" \in Deciding /\ "assignment" \in Kind
      BY DEF Deciding, Kind
    <3> QED BY <1>1, <2>2, <3>1
  <2> QED BY <1>3, <2>1, <2>2 DEF DecideAssignment
<1> QED BY <1>2, <1>3

\* A decision goes on with what it decided about a record nobody has touched.
LEMMA DecisionGoesOn ==
  ASSUME Serial, TypeOK, OneAtATime, VerdictInv, NEW r \in Request, req[r].pc \in Deciding,
         NEW pc \in {"decideMail", "decideSave"}, Goto(r, pc), UNCHANGED records
  PROVE  VerdictInv'
<1>1. /\ req'[r] = [req[r] EXCEPT !.pc = pc] /\ req'[r].pc = pc
      /\ \A q \in Request \ {r} : req'[q] = req[q]
  BY MovesTo
<1>2. /\ req'[r].kind = req[r].kind /\ req'[r].student = req[r].student
      /\ req'[r].decision = req[r].decision
  BY <1>1, CallHas DEF Locals
<1>3. DecideCall(req[r])
  BY DEF VerdictInv
<1>4. CheckCall(req[r])' /\ DecideCall(req[r])'
  BY <1>1, <1>2, <1>3 DEF CheckCall, DecideCall, Deciding
<1>5. InFlight(r)
  BY DEF InFlight, Awaits
<1>6. \A q \in Request : InFlight(q)' => q = r
  BY <1>1, <1>5, OnlyMover
<1> QED BY <1>4, <1>6, VerdictStays, VerdictMove

\* What the save of a decision writes.
LEMMA DecisionWrites ==
  ASSUME TypeOK, CertificateInv, VerdictInv, NEW r \in Request, SaveDecision(r)
  PROVE  \E i \in RecordId :
           /\ i = <<req[r].kind, req[r].student>>
           /\ req[r].decision \in {"approve", "issue", "reject"}
           /\ announced' = announced /\ records[i].status # "none"
           /\ req[r].decision = "issue" =>
                /\ records[i].status = "PASS" /\ ~records[i].issued
                /\ 0 < announced[req[r].student]
           /\ records'[i].status = records[i].status
           /\ records'[i].approved = (req[r].decision # "reject")
           /\ records'[i].issued = (records[i].issued \/ req[r].decision = "issue")
           /\ \A j \in RecordId \ {i} : records'[j] = records[j]
<1>1. req[r].pc = "decideSave" /\ req[r].pc \in Deciding /\ announced' = announced
  BY DEF SaveDecision, At, Deciding
<1>2. PICK s \in Student, o \in Operator : s = req[r].student /\ o = req[r].operator
  BY <1>1, CallHas, Groups
<1>3. PICK i \in RecordId : i = <<req[r].kind, s>>
  BY CallHas DEF Locals, RecordId
<1>4. PICK decision \in {"approve", "issue", "reject"} : decision = req[r].decision
  BY <1>1 DEF VerdictInv, DecideCall
<1>5. records[i].status # "none" /\ (decision = "issue" => 0 < announced[s])
  BY <1>1, <1>2, <1>3, <1>4 DEF CertificateInv, CallInv
<1>6. decision = "issue" => records[i].status = "PASS" /\ ~records[i].issued
  BY <1>1, <1>2, <1>3, <1>4 DEF VerdictInv, DecideCall
<1>7. records[i] \in RecordDoc /\ records \in [RecordId -> RecordDoc]
  BY DEF TypeOK
<1>8. records' = [records EXCEPT ![i] = Decided(records[i], decision, o)]
  BY <1>2, <1>3, <1>4 DEF SaveDecision
<1>9. /\ records'[i] = Decided(records[i], decision, o)
      /\ \A j \in RecordId \ {i} : records'[j] = records[j]
  BY <1>7, <1>8
<1>10. /\ records'[i].status = records[i].status
       /\ records'[i].approved = (decision # "reject")
       /\ records'[i].issued = (records[i].issued \/ decision = "issue")
  BY <1>7, <1>9 DEF Decided, RecordDoc
<1> QED BY <1>1, <1>2, <1>3, <1>4, <1>5, <1>6, <1>9, <1>10

LEMMA DecisionVerdicts ==
  ASSUME Serial, TypeOK, CertificateInv, OneAtATime, VerdictInv, NEW r \in Request,
         AnnounceCertificate(r) \/ MailDecision(r) \/ SaveDecision(r)
  PROVE  VerdictInv'
<1>0. InFlight(r) /\ req[r].pc \in Deciding
  BY DEF AnnounceCertificate, MailDecision, SaveDecision, At, InFlight, Awaits, Deciding
<1>1. CASE AnnounceCertificate(r)
  BY <1>0, <1>1, DecisionGoesOn DEF AnnounceCertificate
<1>2. CASE MailDecision(r)
  BY <1>0, <1>2, DecisionGoesOn, VerdictReply DEF MailDecision, docs
<1>3. CASE SaveDecision(r)
  <2>1. \A i \in RecordId : records'[i].status = "none" => ~records'[i].approved /\ ~records'[i].issued
    BY <1>3, DecisionWrites DEF VerdictInv
  <2>2. Reply(r, "ok") \/ Reply(r, "error")
    BY <1>3 DEF SaveDecision, mapPassFailRecord
  <2>3. req'[r].pc \in Unknowing /\ \A q \in Request \ {r} : req'[q] = req[q]
    BY <2>2, MovesTo DEF Unknowing, Replies
  <2>4. \A q \in Request : InFlight(q)' => q = r
    BY <1>0, <2>3, OnlyMover
  <2> QED BY <2>1, <2>3, <2>4, VerdictMove
<1> QED BY <1>1, <1>2, <1>3

LEMMA VerdictStep ==
  ASSUME Serial, TypeOK, CertificateInv, OneAtATime, VerdictInv, [Next]_vars
  PROVE  VerdictInv'
<1>1. CASE UNCHANGED vars
  BY <1>1 DEF vars, VerdictInv, CheckCall, DecideCall, Owed, Attends, HasWork, AttendanceVerdict,
     WorkVerdict
<1>2. CASE AttendanceNext
  BY <1>2, AttendanceVerdicts
<1>3. CASE RecordsNext
  BY <1>3, WorkVerdicts, CheckAttendanceVerdicts, CheckAssignmentsVerdicts, ReadRowsVerdicts,
     FindRecordVerdicts, SaveRecordVerdicts, DecideVerdicts, DecisionVerdicts DEF RecordsNext
<1>4. CASE Crash
  <2>1. UNCHANGED records /\ \A q \in Request : ~InFlight(q)'
    BY <1>4, CrashEnds DEF Crash, docs
  <2>2. ASSUME NEW q \in Request
        PROVE  CheckCall(req[q])' /\ DecideCall(req[q])'
    <3>1. PICK call : call = req'[q]
      OBVIOUS
    <3>2. call.pc \notin Checking \cup Deciding
      BY <2>1, <3>1 DEF InFlight, Awaits
    <3> QED BY <3>1, <3>2 DEF CheckCall, DecideCall, Checking, Deciding
  <2> QED BY <2>1, <2>2, VerdictStays DEF VerdictInv
<1> QED BY <1>1, <1>2, <1>3, <1>4 DEF Next

LEMMA VerdictInvHolds == Serial => (Spec => []VerdictInv)
<1> SUFFICES ASSUME Serial PROVE Spec => []VerdictInv
  OBVIOUS
<1>1. Init => VerdictInv
  BY DEF Init, Fresh, NoRecord, VerdictInv, CheckCall, DecideCall, Deciding
<1>2. TypeOK /\ CertificateInv /\ OneAtATime /\ VerdictInv /\ [Next]_vars => VerdictInv'
  BY VerdictStep
<1> QED BY <1>1, <1>2, OneAtATimeHolds, OutcomeTypeCorrect, CertificateCorrect, PTL DEF Spec

\* The step that answers a check is its last save.
LEMMA AnswerSaves ==
  ASSUME Serial, TypeOK, OneAtATime, [Next]_vars, NEW r \in Request,
         At(r, "checkSave"), req'[r].pc = "ok"
  PROVE  SaveRecord(r)
<1>1. InFlight(r) /\ ~Quiet
  BY DEF At, InFlight, Awaits, Checking, Quiet
<1>2. ~UNCHANGED req
  BY DEF At
<1>3. ~Crash
  <2>1. Crash => req'[r] = [Fresh EXCEPT !.pc = "crashed"]
    BY <1>1 DEF Crash
  <2>2. [Fresh EXCEPT !.pc = "crashed"].pc = "crashed"
    BY DEF Fresh
  <2> QED BY <2>1, <2>2
<1>4. \A q \in Request, pc \in Awaits : At(q, pc) => pc = "checkSave"
  BY <1>1 DEF OneAtATime, InFlight, At
<1>5. ~AttendanceNext
  BY <1>1, <1>4 DEF AttendanceNext, MarkOne, BulkMark, UpdateMarked, InsertMarked, WriteClassLeft,
     FindMarked, CountMarked, InsertBulk, PatchRow, RemoveRow, RemoveClass, Start, Awaits, Marking
<1>6. RecordsNext
  BY <1>2, <1>3, <1>5 DEF Next, vars
<1>7. PICK q \in Request : SaveRecord(q)
  BY <1>1, <1>4, <1>6 DEF RecordsNext, CreateWork, CheckAttendance, CheckAssignments, UpdateWork,
     InsertWork, ReadRows, FindRecord, AnnounceCertificate, MailDecision, SaveDecision,
     DecideAttendance, DecideAssignment, GetPassFailRecords, GetApprovedPassRecords,
     GetPassFailRecordById, AnswerRecords, Start, Awaits, Working, Checking, Deciding
<1>8. q = r
  BY <1>1, <1>7 DEF OneAtATime, SaveRecord, At, InFlight, Awaits, Checking
<1> QED BY <1>7, <1>8

LEMMA SavedIsCurrent ==
  ASSUME Serial, TypeOK, CertificateInv, OneAtATime, VerdictInv, [Next]_vars, NEW r \in Request,
         At(r, "checkSave"), req'[r].pc = "ok", NEW u \in Student
  PROVE  /\ req[r].kind = "attendance" /\ Attends(u) =>
              records'[<<"attendance", u>>].status = AttendanceVerdict(u)
         /\ req[r].kind = "assignment" /\ HasWork(u) =>
              records'[<<"assignment", u>>].status = WorkVerdict(u)
<1>1. SaveRecord(r)
  BY AnswerSaves
<1>2. PICK s \in Student, kind \in Kind, i \in RecordId :
        s = req[r].student /\ kind = req[r].kind /\ i = <<kind, s>>
  BY <1>1, SaveWrites DEF RecordId
<1>3. ~Reply(r, "error")
  BY MovesTo
<1>4. /\ NextRecord(r, s)
      /\ records'[i].status = req[r].todo[s] /\ records'[i].status \in {"PASS", "FAIL"}
      /\ \A j \in RecordId \ {i} : records'[j] = records[j]
  BY <1>1, <1>2, <1>3, SaveWrites
<1>5. u # s => req[r].todo[u] = "none"
  <2> DEFINE todo == [req[r].todo EXCEPT ![s] = "none"]
  <2>1. u # s => todo[u] = req[r].todo[u]
    BY CallHas DEF Locals
  <2>2. ~(req' = [req EXCEPT ![r].pc = "checkFind", ![r].student = None,
                             ![r].read = NoRecord, ![r].todo = todo])
    <3> HIDE DEF todo
    <3> QED BY CallHas DEF Locals
  <2>3. \A v \in Student : todo[v] = "none"
    BY <1>4, <2>2 DEF NextRecord
  <2> QED BY <2>1, <2>3
<1>6. records'[<<kind, u>>].status = Owed(req[r], u)
  <2>1. CASE u = s
    BY <1>2, <1>4, <2>1 DEF Owed
  <2>2. CASE u # s
    <3>1. PICK j \in RecordId \ {i} : j = <<kind, u>>
      BY <1>2, <2>2 DEF RecordId
    <3> QED BY <1>2, <1>4, <1>5, <2>2, <3>1 DEF Owed
  <2> QED BY <2>1, <2>2
<1>7. CheckCall(req[r])
  BY DEF VerdictInv
<1> QED BY <1>2, <1>6, <1>7 DEF CheckCall, At

\* checkPassFailStatus: when calls do not overlap, a check that answers has left
\* every student it is about with the verdict of their rows.
THEOREM SerialCheckIsCurrentHolds == Spec => SerialCheckIsCurrent
<1>1. CASE Serial
  <2>1. TypeOK /\ CertificateInv /\ OneAtATime /\ VerdictInv /\ [Next]_vars =>
          [Serial => \A r \in Request : At(r, "checkSave") /\ req'[r].pc = "ok" =>
             \A s \in Student :
               /\ req[r].kind = "attendance" /\ Attends(s) =>
                    records'[<<"attendance", s>>].status = AttendanceVerdict(s)
               /\ req[r].kind = "assignment" /\ HasWork(s) =>
                    records'[<<"assignment", s>>].status = WorkVerdict(s)]_vars
    BY <1>1, SavedIsCurrent
  <2> QED BY <1>1, <2>1, VerdictInvHolds, OneAtATimeHolds, OutcomeTypeCorrect, CertificateCorrect, PTL
          DEF Spec, SerialCheckIsCurrent
<1>2. CASE ~Serial
  <2>1. [Next]_vars =>
          [Serial => \A r \in Request : At(r, "checkSave") /\ req'[r].pc = "ok" =>
             \A s \in Student :
               /\ req[r].kind = "attendance" /\ Attends(s) =>
                    records'[<<"attendance", s>>].status = AttendanceVerdict(s)
               /\ req[r].kind = "assignment" /\ HasWork(s) =>
                    records'[<<"assignment", s>>].status = WorkVerdict(s)]_vars
    BY <1>2
  <2> QED BY <2>1, PTL DEF Spec, SerialCheckIsCurrent
<1> QED BY <1>1, <1>2

-----------------------------------------------------------------------------
(* Under serial calls the attendance records implement CertificateRegistry *)

LEMMA SameRegistry ==
  ASSUME UNCHANGED <<records, announced>>
  PROVE  UNCHANGED Registry!vars
BY DEF Registry!vars, Certificate

\* Attendance records of the other students, and of nobody for an assignment,
\* stay as they are.
LEMMA OtherCertificates ==
  ASSUME NEW kind \in Kind, NEW s \in Student, NEW i \in RecordId, i = <<kind, s>>,
         \A j \in RecordId \ {i} : records'[j] = records[j]
  PROVE  \A u \in Student : kind # "attendance" \/ u # s => Certificate(u)' = Certificate(u)
<1>1. \A u \in Student : <<"attendance", u>> \in RecordId
  BY DEF RecordId, Kind
<1>2. \A u \in Student : kind # "attendance" \/ u # s => <<"attendance", u>> # i
  OBVIOUS
<1> QED BY <1>1, <1>2 DEF Certificate

LEMMA CertificatesStay ==
  ASSUME \A u \in Student : Certificate(u)' = Certificate(u), UNCHANGED announced
  PROVE  UNCHANGED Registry!vars
BY DEF Registry!vars

LEMMA SaveRefines ==
  ASSUME TypeOK, CertificateInv, VerdictInv, NEW r \in Request, SaveRecord(r)
  PROVE  [Registry!Next]_Registry!vars
<1>1. PICK s \in Student, kind \in Kind, i \in RecordId :
        s = req[r].student /\ kind = req[r].kind /\ i = <<kind, s>>
  BY SaveWrites DEF RecordId
<1>2. UNCHANGED announced
  BY SaveWrites
<1>3. CASE UNCHANGED records
  BY <1>2, <1>3, SameRegistry
<1>4. ASSUME records'[i].status \in {"PASS", "FAIL"},
             records'[i].approved = records[i].approved, records'[i].issued = records[i].issued,
             \A j \in RecordId \ {i} : records'[j] = records[j]
      PROVE  [Registry!Next]_Registry!vars
  <2>1. CASE kind # "attendance"
    BY <1>1, <1>2, <1>4, <2>1, OtherCertificates, CertificatesStay
  <2>2. CASE kind = "attendance"
    <3>1. \A u \in Student \ {s} : Certificate(u)' = Certificate(u)
      BY <1>1, <1>4, OtherCertificates
    <3>2. PICK v \in {"PASS", "FAIL"} : v = Certificate(s)'.status
      BY <1>1, <1>4, <2>2 DEF Certificate
    <3>3. Certificate(s)'.approved = Certificate(s).approved /\ Certificate(s)'.issued = Certificate(s).issued
      BY <1>1, <1>4, <2>2 DEF Certificate
    <3>4. [u \in Student |-> Certificate(u)'.status] =
          [[u \in Student |-> Certificate(u).status] EXCEPT ![s] = v]
      BY <3>1, <3>2
    <3>5. /\ {u \in Student : Certificate(u)'.approved} = {u \in Student : Certificate(u).approved}
          /\ {u \in Student : Certificate(u)'.issued} = {u \in Student : Certificate(u).issued}
      BY <3>1, <3>3
    <3>6. Registry!Determine(s)
      BY <1>2, <3>4, <3>5 DEF Registry!Determine
    <3> QED BY <3>6 DEF Registry!Next
  <2> QED BY <2>1, <2>2
<1> QED BY <1>1, <1>3, <1>4, SaveWrites

LEMMA AnnounceRefines ==
  ASSUME TypeOK, CertificateInv, VerdictInv, NEW r \in Request, AnnounceCertificate(r)
  PROVE  Registry!Next
<1>1. req[r].pc = "decideAnnounce" /\ req[r].pc \in Deciding /\ UNCHANGED records
  BY DEF AnnounceCertificate, At, Deciding
<1>2. PICK s \in Student : s = req[r].student
  BY <1>1, CallHas, Groups
<1>3. req[r].decision = "issue" /\ req[r].kind = "attendance"
  BY <1>1 DEF VerdictInv, DecideCall, CertificateInv, CallInv
<1>4. Certificate(s).status = "PASS" /\ ~Certificate(s).issued
  BY <1>1, <1>2, <1>3 DEF VerdictInv, DecideCall, Certificate
<1>5. {u \in Student : 0 < announced'[u]} = {u \in Student : 0 < announced[u]} \cup {s}
  <2> DEFINE n == announced[s] + 1
  <2>1. announced \in [Student -> Nat] /\ 0 < n
    BY DEF TypeOK
  <2>2. announced' = [announced EXCEPT ![s] = n]
    BY <1>2 DEF AnnounceCertificate
  <2> HIDE DEF n
  <2> QED BY <2>1, <2>2
<1>6. \A u : Certificate(u)' = Certificate(u)
  BY <1>1 DEF Certificate
<1>7. Registry!Tell(s)
  BY <1>4, <1>5, <1>6 DEF Registry!Tell
<1> QED BY <1>7 DEF Registry!Next

LEMMA DecisionRefines ==
  ASSUME TypeOK, CertificateInv, VerdictInv, NEW r \in Request, SaveDecision(r)
  PROVE  [Registry!Next]_Registry!vars
<1>1. PICK s \in Student : s = req[r].student
  BY CallHas, Groups DEF SaveDecision, At
<1>2. PICK kind \in Kind : kind = req[r].kind
  BY CallHas DEF Locals
<1>3. PICK decision : decision = req[r].decision
  OBVIOUS
<1>4. PICK i \in RecordId :
        /\ i = <<kind, s>> /\ decision \in {"approve", "issue", "reject"}
        /\ announced' = announced /\ records[i].status # "none"
        /\ decision = "issue" => /\ records[i].status = "PASS" /\ ~records[i].issued
                                 /\ 0 < announced[s]
        /\ records'[i].status = records[i].status
        /\ records'[i].approved = (decision # "reject")
        /\ records'[i].issued = (records[i].issued \/ decision = "issue")
        /\ \A j \in RecordId \ {i} : records'[j] = records[j]
  BY <1>1, <1>2, <1>3, DecisionWrites
<1>5. CASE kind # "attendance"
  BY <1>4, <1>5, OtherCertificates, CertificatesStay
<1>6. CASE kind = "attendance"
  <2>1. \A u \in Student \ {s} : Certificate(u)' = Certificate(u)
    BY <1>4, OtherCertificates
  <2>2. /\ Certificate(s)'.status = Certificate(s).status /\ Certificate(s).status # "none"
        /\ Certificate(s)'.approved <=> decision # "reject"
        /\ Certificate(s)'.issued <=> Certificate(s).issued \/ decision = "issue"
        /\ decision = "issue" => /\ Certificate(s).status = "PASS" /\ ~Certificate(s).issued
                                 /\ 0 < announced[s]
    BY <1>4, <1>6 DEF Certificate
  <2>3. [u \in Student |-> Certificate(u)'.status] = [u \in Student |-> Certificate(u).status]
    BY <2>1, <2>2
  <2>a. \A u \in Student : Certificate(u)'.approved <=>
          IF u = s THEN decision # "reject" ELSE Certificate(u).approved
    BY <2>1, <2>2
  <2>b. \A u \in Student : Certificate(u)'.issued <=>
          Certificate(u).issued \/ (u = s /\ decision = "issue")
    BY <2>1, <2>2
  <2>4. /\ decision # "reject" =>
             {u \in Student : Certificate(u)'.approved} = {u \in Student : Certificate(u).approved} \cup {s}
        /\ decision = "reject" =>
             {u \in Student : Certificate(u)'.approved} = {u \in Student : Certificate(u).approved} \ {s}
    BY <2>a
  <2>5. /\ decision = "issue" =>
             {u \in Student : Certificate(u)'.issued} = {u \in Student : Certificate(u).issued} \cup {s}
        /\ decision # "issue" =>
             {u \in Student : Certificate(u)'.issued} = {u \in Student : Certificate(u).issued}
    BY <2>b
  <2>6. {u \in Student : 0 < announced'[u]} = {u \in Student : 0 < announced[u]}
    BY <1>4
  <2>7. CASE decision = "issue"
    <3>1. Registry!Issue(s)
      BY <2>2, <2>3, <2>4, <2>5, <2>6, <2>7 DEF Registry!Issue
    <3> QED BY <3>1 DEF Registry!Next
  <2>8. CASE decision = "approve"
    <3>1. Registry!Approve(s)
      BY <2>2, <2>3, <2>4, <2>5, <2>6, <2>8 DEF Registry!Approve
    <3> QED BY <3>1 DEF Registry!Next
  <2>9. CASE decision = "reject"
    <3>1. Registry!Reject(s)
      BY <2>2, <2>3, <2>4, <2>5, <2>6, <2>9 DEF Registry!Reject
    <3> QED BY <3>1 DEF Registry!Next
  <2> QED BY <1>4, <2>7, <2>8, <2>9
<1> QED BY <1>5, <1>6

LEMMA StepRefines ==
  ASSUME TypeOK, CertificateInv, VerdictInv, [Next]_vars
  PROVE  [Registry!Next]_Registry!vars
<1>1. CASE UNCHANGED vars
  BY <1>1, SameRegistry DEF vars
<1>2. CASE AttendanceNext
  BY <1>2, AttendanceMoves, SameRegistry
<1>3. CASE Crash
  BY <1>3, SameRegistry DEF Crash, docs
<1>4. CASE RecordsNext
  <2>1. ASSUME NEW r \in Request,
               \/ \E k \in Schedule, s \in Student, mark \in {"full", "partial"} : CreateWork(r, k, s, mark)
               \/ UpdateWork(r) \/ InsertWork(r)
               \/ CheckAttendance(r) \/ CheckAssignments(r) \/ ReadRows(r)
        PROVE  UNCHANGED Registry!vars
    BY <2>1, ReadMoves, SameRegistry
  <2>2. ASSUME NEW r \in Request, FindRecord(r) \/ MailDecision(r)
        PROVE  UNCHANGED Registry!vars
    BY <2>2, SameRegistry DEF FindRecord, MailDecision, docs
  <2>3. ASSUME NEW r \in Request,
               \/ GetPassFailRecords(r) \/ GetApprovedPassRecords(r)
               \/ \E s \in Student : GetPassFailRecordById(r, s)
        PROVE  UNCHANGED Registry!vars
    BY <2>3, RecordReads, SameRegistry DEF docs
  <2>4. ASSUME NEW r \in Request, NEW s \in Student, NEW o \in Operator, NEW approve \in BOOLEAN,
               \/ \E url \in BOOLEAN : DecideAttendance(r, s, o, approve, url)
               \/ DecideAssignment(r, s, o, approve)
        PROVE  UNCHANGED Registry!vars
    BY <2>4, SameRegistry DEF DecideAttendance, DecideAssignment, docs
  <2> QED BY <1>4, <2>1, <2>2, <2>3, <2>4, SaveRefines, AnnounceRefines, DecisionRefines
          DEF RecordsNext
<1> QED BY <1>1, <1>2, <1>3, <1>4 DEF Next

\* When calls do not overlap, the attendance records implement the registry of
\* certificates: every step is one of its steps, or changes nothing it shows.
THEOREM SerialRegistryHolds == Serial => (Spec => SerialRegistry)
<1> SUFFICES ASSUME Serial PROVE Spec => SerialRegistry
  OBVIOUS
<1>1. Init => Registry!Init
  <2> SUFFICES ASSUME Init PROVE Registry!Init
    OBVIOUS
  <2>1. \A s \in Student : Certificate(s) = NoRecord /\ announced[s] = 0
    BY DEF Init, Certificate, RecordId, Kind
  <2> QED BY <2>1 DEF Registry!Init, NoRecord
<1>2. TypeOK /\ CertificateInv /\ VerdictInv /\ [Next]_vars => [Registry!Next]_Registry!vars
  BY StepRefines
<1> QED BY <1>1, <1>2, VerdictInvHolds, OutcomeTypeCorrect, CertificateCorrect, PTL
        DEF Spec, SerialRegistry, Registry!Spec
=============================================================================
