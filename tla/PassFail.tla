------------------------------ MODULE PassFail ------------------------------
(***************************************************************************)
(* Pass/fail records.  checkPassFailStatus, a GET, derives the status of   *)
(* every student from the rows it reads and saves one record after the     *)
(* other; approvePassFailStatus lets an operator approve or reject a       *)
(* record and issues the certificate of a PASS.  AttendanceService and     *)
(* AssignmentService each have both, over collections of their own; where  *)
(* the code is the same the actions take the kind from the call.           *)
(*                                                                         *)
(* Counts, percentages and dates in the records are left out.  A key whose *)
(* value is undefined is dropped from an update by mongoose, null is       *)
(* written.                                                                *)
(***************************************************************************)
EXTENDS AttendanceService

\* Assignment rows of a student in a class schedule.
WorkOf(k, s) == {i \in RowId : i[2] = s /\ work[i].marks # "none" /\ work[i].schedule = k}

HasWork(s) == \E i \in RowId : i[2] = s /\ work[i].marks # "none"

Attends(s) == \E i \in RowId : rows[i].status # "none" /\ rows[i].student = s

-----------------------------------------------------------------------------
(* POST /assigment                                                         *)

CreateWork(r, k, s, mark) ==
  /\ Start(r, "work")
  /\ LET call == [Fresh EXCEPT !.student = s, !.schedule = k, !.todo[s] = mark]
     IN  \/ /\ WorkOf(k, s) = {}
            /\ req' = [req EXCEPT ![r] = [call EXCEPT !.pc = "workInsert"]]
         \/ \E i \in WorkOf(k, s) :
              req' = [req EXCEPT ![r] = [call EXCEPT !.pc = "workUpdate", !.row = i]]
  /\ UNCHANGED docs

\* Assignment rows are never deleted: the update finds its row.
UpdateWork(r) ==
  /\ At(r, "workUpdate")
  /\ work' = [work EXCEPT ![req[r].row].marks = req[r].todo[req[r].student]]
  /\ Reply(r, "ok")
  /\ UNCHANGED <<rows, classes, records, announced>>

\* The row, then the notification, which an outage may refuse.
InsertWork(r) ==
  LET s == req[r].student IN
  /\ At(r, "workInsert")
  /\ work' = [work EXCEPT ![<<r, s>>] =
                [marks |-> req[r].todo[s], schedule |-> req[r].schedule]]
  /\ Reply(r, "ok") \/ (Outage /\ Reply(r, "error"))
  /\ UNCHANGED <<rows, classes, records, announced>>

-----------------------------------------------------------------------------
(* The checks                                                              *)

\* PASS without an absence; a student with assignments only has none.
AttendanceVerdict(s) ==
  IF \E i \in RowId : rows[i].status = "absent" /\ rows[i].student = s THEN "FAIL" ELSE "PASS"

\* PASS when every assignment has full marks.
WorkVerdict(s) ==
  IF \E i \in RowId : i[2] = s /\ work[i].marks = "partial" THEN "FAIL" ELSE "PASS"

\* The attendance check reads the assignments first.
CheckAttendance(r) ==
  /\ Start(r, "check")
  /\ req' = [req EXCEPT ![r] =
              [Fresh EXCEPT !.pc = "checkRows", !.kind = "attendance",
                            !.todo = [s \in Student |-> IF HasWork(s) THEN "PASS" ELSE "none"]]]
  /\ UNCHANGED docs

\* Mutant: the status is taken from the students' presences.
ReadRows_Present(r) ==
  /\ At(r, "checkRows")
  /\ IF \E s \in Student : Attends(s)
       THEN req' = [req EXCEPT ![r].pc = "checkFind",
                               ![r].todo = [s \in Student |->
                                  IF \E i \in RowId : rows[i].status = "present" /\ rows[i].student = s
                                  THEN "PASS" ELSE IF Attends(s) THEN "FAIL" ELSE req[r].todo[s]]]
       ELSE Reply(r, "error")
  /\ UNCHANGED docs

\* Then the attendance; without any it answers 404.
ReadRows(r) ==
  /\ At(r, "checkRows")
  /\ IF \E s \in Student : Attends(s)
       THEN req' = [req EXCEPT ![r].pc = "checkFind",
                               ![r].todo = [s \in Student |-> IF Attends(s) THEN AttendanceVerdict(s)
                                                              ELSE req[r].todo[s]]]
       ELSE Reply(r, "error")
  /\ UNCHANGED docs

CheckAssignments(r) ==
  /\ Start(r, "checkWork")
  /\ IF \E s \in Student : HasWork(s)
       THEN req' = [req EXCEPT ![r] =
                     [Fresh EXCEPT !.pc = "checkFind", !.kind = "assignment",
                                   !.todo = [s \in Student |-> IF HasWork(s) THEN WorkVerdict(s)
                                                               ELSE "none"]]]
       ELSE Reply(r, "error")
  /\ UNCHANGED docs

\* The record as it stands before it is written; NoRecord when there is none.
FindRecord(r) ==
  /\ At(r, "checkFind")
  /\ \E s \in Student :
       /\ req[r].todo[s] # "none"
       /\ req' = [req EXCEPT ![r].pc = "checkSave", ![r].student = s,
                             ![r].read = records[<<req[r].kind, s>>]]
  /\ UNCHANGED docs

\* The loop over the students: on to the next one, or the answer.
NextRecord(r, s) ==
  LET todo == [req[r].todo EXCEPT ![s] = "none"] IN
  IF \E u \in Student : todo[u] # "none"
    THEN req' = [req EXCEPT ![r].pc = "checkFind", ![r].student = None,
                            ![r].read = NoRecord, ![r].todo = todo]
    ELSE Reply(r, "ok")

\* The update of an existing record: the new status, and the approval and
\* certificate fields as they were when it was read.
Rechecked(now, read, status) ==
  [now EXCEPT !.status = status, !.approved = read.approved, !.issued = read.issued,
              !.approver = IF read.approver = "unset" THEN now.approver ELSE read.approver]

\* Updated when one was found, else created, unless another check has created
\* it since: then the unique index refuses it and the error ends the loop.
SaveRecord(r) ==
  LET s == req[r].student
      i == <<req[r].kind, s>>
  IN /\ At(r, "checkSave")
     /\ IF req[r].read.status # "none"
          THEN /\ records' = [records EXCEPT ![i] = Rechecked(records[i], req[r].read, req[r].todo[s])]
               /\ NextRecord(r, s)
          ELSE IF records[i].status # "none"
            THEN /\ Reply(r, "error")
                 /\ UNCHANGED records
            ELSE /\ records' = [records EXCEPT ![i] = [NoRecord EXCEPT !.status = req[r].todo[s]]]
                 /\ NextRecord(r, s)
     /\ UNCHANGED <<rows, classes, work, announced>>

-----------------------------------------------------------------------------
(* The decisions of the operators                                          *)

\* A PASS approved with a certificate URL is issued its certificate, once.
Issues(doc, url) == doc.status = "PASS" /\ url /\ ~doc.issued

\* Mutant: also the certificate of a FAIL is issued.
DecideAttendance_AnyStatus(r, s, o, approve, url) ==
  /\ Start(r, "decide")
  /\ LET doc == records[<<"attendance", s>>] IN
     IF doc.status = "none"
       THEN Reply(r, "error")
       ELSE req' = [req EXCEPT ![r] =
              [Fresh EXCEPT !.student = s, !.operator = o,
                 !.decision = IF ~approve THEN "reject" ELSE IF url /\ ~doc.issued THEN "issue" ELSE "approve",
                 !.pc = IF approve /\ url /\ ~doc.issued THEN "decideAnnounce" ELSE "decideMail"]]
  /\ UNCHANGED docs

\* POST pass-fail-approve-certificate of the attendance, with the record found.
DecideAttendance(r, s, o, approve, url) ==
  /\ Start(r, "decide")
  /\ LET doc   == records[<<"attendance", s>>]
         issue == approve /\ Issues(doc, url)
     IN IF doc.status = "none"
          THEN Reply(r, "error")
          ELSE req' = [req EXCEPT ![r] =
                 [Fresh EXCEPT !.pc = IF issue THEN "decideAnnounce" ELSE "decideMail",
                    !.kind = "attendance", !.student = s, !.operator = o,
                    !.decision = IF ~approve THEN "reject" ELSE IF issue THEN "issue" ELSE "approve"]]
  /\ UNCHANGED docs

\* Mutant: the notification is left to the caller.
AnnounceCertificate_Silent(r) ==
  /\ At(r, "decideAnnounce")
  /\ Goto(r, "decideMail")
  /\ UNCHANGED docs

\* The student is told of the certificate before it is recorded.
AnnounceCertificate(r) ==
  /\ At(r, "decideAnnounce")
  /\ announced' = [announced EXCEPT ![req[r].student] = @ + 1]
  /\ Goto(r, "decideMail")
  /\ UNCHANGED <<rows, classes, work, records>>

\* The reads and notices for the mails of either decision; when one is refused
\* the record stays as it was.
MailDecision(r) ==
  /\ At(r, "decideMail")
  /\ Goto(r, "decideSave") \/ (Outage /\ Reply(r, "error"))
  /\ UNCHANGED docs

\* Mutant: the rejection leaves the approval in place.
Decided_KeepsApproval(doc, decision, o) ==
  [doc EXCEPT !.approved = decision # "reject" \/ doc.approved,
              !.approver = IF decision = "reject" THEN "cleared" ELSE o,
              !.issued = doc.issued \/ decision = "issue",
              !.url = doc.url \/ decision = "issue"]

\* The fields a decision writes; a certificate once issued is not touched.
Decided(doc, decision, o) ==
  [doc EXCEPT !.approved = decision # "reject",
              !.approver = IF decision = "reject" THEN "cleared" ELSE o,
              !.issued = doc.issued \/ decision = "issue",
              !.url = doc.url \/ decision = "issue"]

\* A record is turned into an answer.  That of the attendance reads sessions[0] of
\* courseId first, which throws unless courseId was populated.
mapPassFailRecord(kind) == IF kind = "attendance" THEN "error" ELSE "ok"

\* One update of whatever the record is by now, and the answer.
SaveDecision(r) ==
  LET i == <<req[r].kind, req[r].student>> IN
  /\ At(r, "decideSave")
  /\ records' = [records EXCEPT ![i] = Decided(records[i], req[r].decision, req[r].operator)]
  /\ Reply(r, mapPassFailRecord(req[r].kind))
  /\ UNCHANGED <<rows, classes, work, announced>>

\* The same POST of the assignments: a rejection writes nothing and answers
\* without an error, an approval only approves.
DecideAssignment(r, s, o, approve) ==
  /\ Start(r, "decideWork")
  /\ IF records[<<"assignment", s>>].status = "none"
       THEN Reply(r, "error")
       ELSE IF ~approve
         THEN Reply(r, "ok")
         ELSE req' = [req EXCEPT ![r] =
                [Fresh EXCEPT !.pc = "decideSave", !.kind = "assignment", !.student = s,
                              !.operator = o, !.decision = "approve"]]
  /\ UNCHANGED docs

-----------------------------------------------------------------------------
(* Reading the records of the attendance, whose courseId is not populated  *)

AnswerRecords(r, found) ==
  /\ Start(r, "records")
  /\ Reply(r, IF found = {} THEN "ok" ELSE mapPassFailRecord("attendance"))
  /\ UNCHANGED docs

\* Each filter is one value, or none.
GetPassFailRecords(r) ==
  \E status \in {{"PASS"}, {"FAIL"}, {"PASS", "FAIL"}},
    approved, issued \in {{TRUE}, {FALSE}, BOOLEAN} :
    AnswerRecords(r, {s \in Student : LET doc == records[<<"attendance", s>>] IN
      doc.status \in status /\ doc.approved \in approved /\ doc.issued \in issued})

GetApprovedPassRecords(r) ==
  AnswerRecords(r, {s \in Student : LET doc == records[<<"attendance", s>>] IN
    doc.status = "PASS" /\ doc.approved /\ ~doc.issued})

GetPassFailRecordById(r, s) ==
  AnswerRecords(r, {u \in {s} : records[<<"attendance", u>>].status # "none"})

RecordsNext ==
  \/ \E r \in Request, k \in Schedule, s \in Student, mark \in {"full", "partial"} :
       CreateWork(r, k, s, mark)
  \/ \E r \in Request :
       \/ CheckAttendance(r) \/ CheckAssignments(r)
       \/ UpdateWork(r) \/ InsertWork(r) \/ ReadRows(r) \/ FindRecord(r) \/ SaveRecord(r)
       \/ AnnounceCertificate(r) \/ MailDecision(r) \/ SaveDecision(r)
       \/ GetPassFailRecords(r) \/ GetApprovedPassRecords(r)
       \/ \E s \in Student : GetPassFailRecordById(r, s)
  \/ \E r \in Request, s \in Student, o \in Operator, approve \in BOOLEAN :
       \/ \E url \in BOOLEAN : DecideAttendance(r, s, o, approve, url)
       \/ DecideAssignment(r, s, o, approve)
=============================================================================
