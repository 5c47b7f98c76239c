----------------------------- MODULE Classroom -----------------------------
(***************************************************************************)
(* Class schedules, corporate schedules and booking lists, composed.       *)
(***************************************************************************)
EXTENDS ClassScheduleService, CorporateScheduleService

ClassroomNext == ClassScheduleNext \/ CorporateNext

ClassroomSpec ==
  RosterInit /\ [][ClassroomNext \/ (CrashCalls /\ UNCHANGED rosterDocs)]_rosterVars

-----------------------------------------------------------------------------
(* Under every interleaving                                                *)

\* What a company is told went well has been done, though it is done in many
\* steps and none is undone: a payment that was asked for is stored and, if the
\* session has time blocks, every student of the body is on a roster of the
\* course; an order that was asked for is stored and the booking list waits for
\* its review.  Administrators who rewrite or delete schedules are left out.
CorporateAnswerIsKept ==
  [][\A r \in Request :
       Answered(r, "corporate", "ok")
         /\ (\A q \in Request : req'[q].op \notin {"replace", "reseat", "remove"}) =>
         LET body == req[r].body IN
         /\ body.paid # "no" /\ body.method = "stripe" =>
              /\ r \in corporatePayments'
              /\ body.session \in Blocked =>
                   \A e \in body.students : \E k \in ScheduleId : Seated(k, e)'
         /\ body.paid # "no" /\ body.method = "purchase_order" =>
              body.number \in corporateOrders' /\ bookingList'[r].status # "confirmed"]_rosterVars

\* An account is created for each student a company books, so a student is on one
\* booking list as long as nobody rewrites it.
BookedOnce ==
  (\A q \in Request : req[q].op # "relist") =>
    \A b, c \in Request :
      b # c => bookingList[b].students \cap bookingList[c].students = {}

-----------------------------------------------------------------------------
(* As long as no two calls have overlapped                                 *)

\* A student has one seat in the course, whatever creates, PUTs and companies come one
\* after the other.  Left out are the PUTs that may seat a student twice, see Reseats:
\* their students are not checked, or are named twice, or the schedule changes its
\* course; and the guest, whom checkSchedule seats at every call.
SerialSeatedOnce ==
  ~overlapped /\ (\A q \in Request : req[q].op # "reseat") =>
    \A e \in Email :
      /\ \A k \in ScheduleId : schedules[k].seats[e] <= 1
      /\ \A k, l \in ScheduleId : Seated(k, e) /\ Seated(l, e) => k = l

=============================================================================
