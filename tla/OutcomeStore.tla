---------------------------- MODULE OutcomeStore ----------------------------
(***************************************************************************)
(* The collections that decide how the students of one course session did: *)
(* attendance rows, the ClassLeftList of the class schedules, assignment   *)
(* marks, and the pass/fail records with their approval and certificate.   *)
(* The frame is that of the sales: an action is the code from the end of   *)
(* one await to the completion of the next, documents are named after the  *)
(* call that created them.                                                 *)
(***************************************************************************)
EXTENDS Integers, FiniteSets

CONSTANTS
  Request,     \* the HTTP calls of a behaviour, one call each
  Student,     \* user ids
  Operator,    \* user ids of operators
  Schedule,    \* class schedules of the session
  Time,        \* the (startDate, startTime) pairs callers send
  Block,       \* those that are time blocks of the session
  Ops,         \* the operations the environment uses
  Serial,      \* TRUE when a call starts only after the previous one ended
  None         \* "no value"

ASSUME OutcomeAssumption ==
  /\ Block \subseteq Time /\ IsFiniteSet(Block)
  /\ None \notin Time
  /\ Serial \in BOOLEAN
  /\ "unset" \notin Operator

VARIABLES rows, classes, work, records, announced, req

docs == <<rows, classes, work, records, announced>>
vars == <<rows, classes, work, records, announced, req>>

-----------------------------------------------------------------------------
(* Documents                                                               *)

\* A call creates at most one attendance or assignment row per student.
RowId == Request \X Student

\* An attendance row; status "none" means there is no such document, time is
\* None in the rows of POST /attendance, which stores no date.
RowDoc ==
  [status : {"none", "present", "absent"}, schedule : Schedule \cup {None},
   student : Student \cup {None}, time : Time \cup {None}]

NoRow == [status |-> "none", schedule |-> None, student |-> None, time |-> None]

\* left is the set of time blocks ClassLeftList marks TRUE, empty also for a
\* missing list and for one of the wrong length.
ClassDoc == [exists : BOOLEAN, left : SUBSET Block]

\* An assignment row: full marks (10), fewer, or no such document.
WorkDoc == [marks : {"none", "full", "partial"}, schedule : Schedule \cup {None}]

\* Attendance and assignments keep records in collections of their own, both
\* with a unique index on student, course and session.
Kind == {"attendance", "assignment"}
RecordId == Kind \X Student

\* A pass/fail record.  approver is "unset" until somebody decides and
\* "cleared" (null) after a rejection.
RecordDoc ==
  [status : {"none", "PASS", "FAIL"}, approved : BOOLEAN,
   approver : Operator \cup {"unset", "cleared"}, issued : BOOLEAN, url : BOOLEAN]

NoRecord == [status |-> "none", approved |-> FALSE, approver |-> "unset",
             issued |-> FALSE, url |-> FALSE]

-----------------------------------------------------------------------------
(* Calls in flight                                                         *)

Replies == {"ok", "error", "crashed"}

Marking == {"bulkLeft", "bulkFind", "bulkCount", "bulkInsert", "markUpdate", "markInsert"}
Working == {"workUpdate", "workInsert"}
Checking == {"checkRows", "checkFind", "checkSave"}
Deciding == {"decideAnnounce", "decideMail", "decideSave"}

Awaits == Marking \cup Working \cup Checking \cup Deciding

\* Where a handler is busy with one student.
ForOne == Awaits \ {"bulkLeft", "bulkFind", "checkRows", "checkFind"}

\* What a call still has to write for a student.
Todo(pc) ==
  CASE pc \in Marking  -> {"none", "present", "absent"}
    [] pc \in Working  -> {"none", "full", "partial"}
    [] pc \in Checking -> {"none", "PASS", "FAIL"}
    [] OTHER           -> {"none"}

\* todo holds what the call still has to write for each student; read is the
\* record it loaded.
Locals ==
  [pc : {"idle"} \cup Awaits \cup Replies, kind : Kind, student : Student \cup {None},
   schedule : Schedule \cup {None}, time : Time \cup {None}, left : SUBSET Block,
   todo : [Student -> {"none", "present", "absent", "full", "partial", "PASS", "FAIL"}],
   row : (Request \cup {None}) \X (Student \cup {None}), read : RecordDoc,
   decision : {"none", "approve", "issue", "reject"}, operator : Operator \cup {None}]

Fits(call) ==
  /\ \A s \in Student : call.todo[s] \in Todo(call.pc)
  /\ call.pc \in ForOne => call.student \in Student
  /\ call.pc \in Deciding => call.operator \in Operator

Call == {call \in Locals : Fits(call)}

Fresh ==
  [pc |-> "idle", kind |-> "attendance", student |-> None, schedule |-> None,
   time |-> None, left |-> {}, todo |-> [s \in Student |-> "none"],
   row |-> <<None, None>>, read |-> NoRecord, decision |-> "none", operator |-> None]

InFlight(r) == req[r].pc \in Awaits

\* A serialised server takes a call only when no other is being handled.
Quiet == Serial => \A q \in Request : ~InFlight(q)

Start(r, op) == op \in Ops /\ req[r].pc = "idle" /\ Quiet

At(r, pc) == req[r].pc = pc

Goto(r, pc) == req' = [req EXCEPT ![r].pc = pc]

Reply(r, code) == req' = [req EXCEPT ![r] = [Fresh EXCEPT !.pc = code]]

\* The database may refuse the reads and notices between two writes of a call,
\* which ends it with an error.  Mail cannot: MailerService logs what the mail
\* server refuses and returns.
Outage == "outage" \in Ops

\* The Node process dies: every handler in flight is lost, the database stays.
Crash ==
  /\ "crash" \in Ops
  /\ \E r \in Request : InFlight(r)
  /\ req' = [r \in Request |->
               IF InFlight(r) THEN [Fresh EXCEPT !.pc = "crashed"] ELSE req[r]]
  /\ UNCHANGED docs

Init ==
  /\ rows = [i \in RowId |-> NoRow]
  /\ classes = [k \in Schedule |-> [exists |-> TRUE, left |-> {}]]
  /\ work = [i \in RowId |-> [marks |-> "none", schedule |-> None]]
  /\ records = [i \in RecordId |-> NoRecord]
  /\ announced = [s \in Student |-> 0]
  /\ req = [r \in Request |-> Fresh]

TypeOK ==
  /\ rows \in [RowId -> RowDoc]
  /\ classes \in [Schedule -> ClassDoc]
  /\ work \in [RowId -> WorkDoc]
  /\ records \in [RecordId -> RecordDoc]
  /\ announced \in [Student -> Nat]
  /\ req \in [Request -> Call]
=============================================================================
