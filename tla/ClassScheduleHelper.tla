------------------------- MODULE ClassScheduleHelper -------------------------
(***************************************************************************)
(* ClassScheduleHelperService.addStudentToSchedule as createPayment calls  *)
(* it: the caller swallows every error and goes on to save the payment, so *)
(* each outcome leads to "paySave".  The helper finds a schedule by course *)
(* alone, whatever session was booked, and pushes the student or creates   *)
(* the first schedule of the course; the mail and notification that end it *)
(* may throw, which the caller swallows as well.                           *)
(***************************************************************************)
EXTENDS SalesStore

ScheduleOf(s, c) == schedules[s].exists /\ schedules[s].course = c

Seated(s, u) == schedules[s].seats[u] > 0

\* No schedule: the helper reads the course for its time blocks, then creates.
FindNoSchedule(r) ==
  /\ At(r, "payFindSchedule")
  /\ ~\E s \in Request : ScheduleOf(s, req[r].course)
  /\ Goto(r, "payNewSchedule")
  /\ UNCHANGED docs

\* Mutant: the student is pushed without a look at who is already there.
FindSchedule_Unchecked(r) ==
  /\ At(r, "payFindSchedule")
  /\ \E s \in Request :
       /\ ScheduleOf(s, req[r].course)
       /\ req' = [req EXCEPT ![r].pc = "payPushSchedule", ![r].target = s]
  /\ UNCHANGED docs

FindSchedule(r) ==
  /\ At(r, "payFindSchedule")
  /\ \E s \in Request :
       /\ ScheduleOf(s, req[r].course)
       /\ IF Seated(s, req[r].student)
            THEN Goto(r, "paySave")
            ELSE req' = [req EXCEPT ![r].pc = "payPushSchedule", ![r].target = s]
  /\ UNCHANGED docs

\* Mutant: students is assigned instead of pushed to.
PushSchedule_Assigned(r) ==
  /\ At(r, "payPushSchedule")
  /\ schedules' = [schedules EXCEPT ![req[r].target].seats =
                     [u \in Student |-> IF u = req[r].student THEN 1 ELSE 0]]
  /\ Goto(r, "paySave")
  /\ UNCHANGED <<payments, intents, bookings, enrolled, orders>>

\* save() of the pushed array is an atomic $push; it throws when the schedule
\* has been deleted since it was read.
PushSchedule(r) ==
  /\ At(r, "payPushSchedule")
  /\ LET s == req[r].target IN
       schedules' = IF schedules[s].exists
                      THEN [schedules EXCEPT ![s].seats[req[r].student] = @ + 1]
                      ELSE schedules
  /\ Goto(r, "paySave")
  /\ UNCHANGED <<payments, intents, bookings, enrolled, orders>>

NewSchedule(r) ==
  /\ At(r, "payNewSchedule")
  /\ schedules' = [schedules EXCEPT ![r] =
                     [exists |-> TRUE, course |-> req[r].course, session |-> req[r].session,
                      seats |-> [u \in Student |-> IF u = req[r].student THEN 1 ELSE 0]]]
  /\ Goto(r, "paySave")
  /\ UNCHANGED <<payments, intents, bookings, enrolled, orders>>

\* ClassScheduleService.remove, an administrator's DELETE.
RemoveSchedule(s) ==
  /\ "removeSchedule" \in Ops /\ Quiet
  /\ schedules[s].exists
  /\ schedules' = [schedules EXCEPT ![s] = NoSchedule]
  /\ UNCHANGED <<payments, intents, bookings, enrolled, orders, req>>

ScheduleNext ==
  \/ \E r \in Request : FindNoSchedule(r) \/ FindSchedule(r) \/ PushSchedule(r) \/ NewSchedule(r)
  \/ \E s \in Request : RemoveSchedule(s)
=============================================================================
