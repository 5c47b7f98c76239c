---------------------------- MODULE CourseOutcome ----------------------------
(***************************************************************************)
(* The outcome of a course session: attendance, assignments, pass/fail     *)
(* records and certificates, composed over the shared collections.         *)
(***************************************************************************)
EXTENDS PassFail

Next == AttendanceNext \/ RecordsNext \/ Crash

Spec == Init /\ [][Next]_vars

-----------------------------------------------------------------------------
(* Safety under every interleaving                                         *)

Certificate(s) == records[<<"attendance", s>>]

\* However checks and decisions overlap, meet an outage or die with the
\* process, a certificate recorded as issued carries its URL and the student
\* has been notified of it: both come before or with the flag, and a check
\* that writes an old flag back writes one that was true.
IssuedIsAnnounced ==
  \A s \in Student : Certificate(s).issued => Certificate(s).url /\ 0 < announced[s]

\* Nor can an approval lose the operator who gave it: stale or not, a check
\* writes back flag and operator of one and the same state of the record.
ApprovedHasApprover ==
  \A i \in RecordId : records[i].approved => records[i].approver \in Operator

\* The invariant behind both, over a record and over the copy of it that a
\* check holds: only what exists has a URL.  A check writes a verdict, a
\* decision in flight has a record to write to, and a certificate about to be
\* recorded has been announced.
RecordInv(doc, i) ==
  /\ doc.approved => doc.approver \in Operator
  /\ doc.issued => i[1] = "attendance" /\ records[i].url /\ 0 < announced[i[2]]
  /\ doc.url => doc.status # "none"

CallInv(call) ==
  LET i == <<call.kind, call.student>> IN
  /\ call.pc = "checkSave" => RecordInv(call.read, i) /\ call.todo[call.student] # "none"
  /\ call.pc \in Deciding =>
       /\ records[i].status # "none"
       /\ call.decision = "issue" => call.kind = "attendance"
  /\ call.pc \in {"decideMail", "decideSave"} /\ call.decision = "issue" =>
       0 < announced[call.student]

CertificateInv ==
  /\ \A i \in RecordId : RecordInv(records[i], i)
  /\ \A r \in Request : CallInv(req[r])

-----------------------------------------------------------------------------
(* What the reads before the writes achieve when calls do not overlap      *)

\* A time block somebody has been marked for is ticked off in the schedule,
\* which is what feedback waits for.
SerialMarkedIsLeft ==
  Serial /\ "patchRow" \notin Ops =>
    \A i \in RowId : LET k == rows[i].schedule IN
      rows[i].status # "none" /\ rows[i].time \in Block /\ classes[k].exists =>
        rows[i].time \in classes[k].left

\* "The attendance limit for this session": no student has more rows in a
\* schedule than the session has time blocks, single marks included.
SerialWithinLimit ==
  Serial /\ "patchRow" \notin Ops =>
    \A k \in Schedule, s \in Student : Cardinality(RowsOf(k, s)) <= MaxBlocksPerStudent

\* A check that answers leaves every student it is about with the status the
\* rows of that moment give.
SerialCheckIsCurrent ==
  [][Serial => \A r \in Request : At(r, "checkSave") /\ req'[r].pc = "ok" =>
       \A s \in Student :
         /\ req[r].kind = "attendance" /\ Attends(s) =>
              records'[<<"attendance", s>>].status = AttendanceVerdict(s)
         /\ req[r].kind = "assignment" /\ HasWork(s) =>
              records'[<<"assignment", s>>].status = WorkVerdict(s)]_vars

Registry == INSTANCE CertificateRegistry WITH
              verdict  <- [s \in Student |-> Certificate(s).status],
              approved <- {s \in Student : Certificate(s).approved},
              told     <- {s \in Student : 0 < announced[s]},
              issued   <- {s \in Student : Certificate(s).issued}

\* Attendance records served one call after the other implement the registry,
\* crashes and outages included.
SerialRegistry == Registry!Spec

-----------------------------------------------------------------------------
(* What comments and error messages say                                    *)

\* checkPassFailStatus: "preserve approval status if already approved"; only
\* the save of a rejection takes an approval away.
ApprovalIsKept ==
  [][\A i \in RecordId :
       records[i].approved /\ ~records'[i].approved =>
         \E r \in Request : At(r, "decideSave") /\ req[r].decision = "reject" /\ req'[r] # req[r]]_vars
=============================================================================
