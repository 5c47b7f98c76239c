---------------------- MODULE CorporateScheduleService ----------------------
(***************************************************************************)
(* corporate/corporateSchedule.services.ts: accounts for the students, a   *)
(* booking list, then a payment and seats, or a purchase order, one after  *)
(* the other with no transaction; and bookinglist/bookingList.services.ts. *)
(***************************************************************************)
EXTENDS RosterStore

-----------------------------------------------------------------------------
(* create                                                                  *)

\* twice: an address occurs twice in the body.  known: the company exists.
\* paid: the payment or purchase that goes with the method is not sent, sent
\* without its amount, or sent whole.
CorporateBody ==
  [students : SUBSET Email \ {{}}, twice : BOOLEAN, known : BOOLEAN, session : Session,
   method : Method, paid : {"no", "unpriced", "yes"}, number : PoNumber]

\* No account may exist before the first is created.
CreateCorporate(r) ==
  \E body \in CorporateBody :
    /\ body.paid = "unpriced" => body.method = "stripe"
    /\ IF body.students \cap accounts # {}
         THEN Begins(r, "corporate", Answer("error"))
         ELSE Begins(r, "corporate", [Fresh EXCEPT !.pc = "corpAccounts", !.body = body,
                                        !.todo = body.students, !.read = body.twice])
    /\ UNCHANGED rosterDocs

\* Mutant: an address that is taken is booked with the others.
InsertAccount_Tolerant(r) ==
  /\ At(r, "corpAccounts")
  /\ \E e \in req[r].todo :
       LET left == req[r].todo \ {e} IN
       /\ accounts' = accounts \cup {e}
       /\ IF left # {}
            THEN Becomes(r, [req[r] EXCEPT !.todo = left])
            ELSE Becomes(r, [req[r] EXCEPT !.pc = "corpBooking", !.todo = {}, !.read = None])
  /\ UNCHANGED butAccounts

\* Promise.all: the accounts are created in any order, and those behind a refused
\* one are created all the same.  read: one was refused.
InsertAccount(r) ==
  /\ At(r, "corpAccounts")
  /\ \E e \in req[r].todo :
       LET left == req[r].todo \ {e}
           failed == req[r].read \/ e \in accounts IN
       /\ accounts' = accounts \cup {e}
       /\ IF left # {}
            THEN Becomes(r, [req[r] EXCEPT !.todo = left, !.read = failed])
          ELSE IF failed \/ ~req[r].body.known
            THEN Ends(r, "error")
            ELSE Becomes(r, [req[r] EXCEPT !.pc = "corpBooking", !.todo = {}, !.read = None])
  /\ UNCHANGED butAccounts

AfterBooking(body) ==
  CASE body.paid = "no"        -> "done"
    [] body.method = "stripe"  -> "corpPayment"
    [] OTHER                   -> "corpOrder"

CreateBookingList(r) ==
  /\ At(r, "corpBooking")
  /\ LET body == req[r].body IN
       /\ bookingList' = [bookingList EXCEPT ![r] =
            [exists |-> TRUE, students |-> body.students, method |-> body.method,
             status |-> "confirmed"]]
       /\ IF AfterBooking(body) = "done"
            THEN Ends(r, "ok")
            ELSE Becomes(r, [req[r] EXCEPT !.pc = AfterBooking(body)])
  /\ UNCHANGED butBookings

\* A payment needs an amount.  The students are seated when the session has time
\* blocks.
CreateCorporatePayment(r) ==
  /\ At(r, "corpPayment")
  /\ LET body == req[r].body IN
       IF body.paid = "unpriced"
         THEN /\ Ends(r, "error")
              /\ UNCHANGED corporatePayments
         ELSE /\ corporatePayments' = corporatePayments \cup {r}
              /\ IF body.session \in Blocked
                   THEN Becomes(r, [req[r] EXCEPT !.pc = "seatFind", !.todo = body.students])
                   ELSE Ends(r, "ok")
  /\ UNCHANGED butPayments

CreateCorporateOrder(r) ==
  /\ At(r, "corpOrder")
  /\ LET number == req[r].body.number IN
       IF number \in corporateOrders
         THEN /\ Ends(r, "error")
              /\ UNCHANGED corporateOrders
         ELSE /\ corporateOrders' = corporateOrders \cup {number}
              /\ Becomes(r, [req[r] EXCEPT !.pc = "corpPending"])
  /\ UNCHANGED butOrders

\* booking.save() writes the status, if the booking list is still there.
SavePending(r) ==
  /\ At(r, "corpPending")
  /\ IF bookingList[r].exists
       THEN /\ bookingList' = [bookingList EXCEPT ![r].status = "pending"]
            /\ Ends(r, "ok")
       ELSE /\ Ends(r, "error")
            /\ UNCHANGED bookingList
  /\ UNCHANGED butBookings

-----------------------------------------------------------------------------
(* addStudentToSchedule, for one student after the other                   *)

\* The first schedule of the course is taken, whatever its session; a student who
\* is on its roster ends the loop.
FindSeat(r) ==
  /\ At(r, "seatFind")
  /\ \E e \in req[r].todo :
       \/ /\ \A k \in ScheduleId : ~InCourse(k)
          /\ Becomes(r, [req[r] EXCEPT !.pc = "seatNew", !.read = e])
       \/ \E k \in ScheduleId :
            /\ InCourse(k)
            /\ IF Seated(k, e)
                 THEN Ends(r, "error")
                 ELSE Becomes(r, [req[r] EXCEPT !.pc = "seatPush", !.read = e, !.target = k])
  /\ UNCHANGED rosterDocs

PushSeat(r) ==
  /\ At(r, "seatPush")
  /\ LET k == req[r].target IN
       IF Exists(k)
         THEN /\ schedules' = Pushed(k, req[r].read)
              /\ Becomes(r, [req[r] EXCEPT !.pc = "seatMail", !.target = None])
         ELSE /\ Ends(r, "error")
              /\ UNCHANGED schedules
  /\ UNCHANGED butSchedules

\* Where the schedule that a call made has moved to another course meanwhile, it makes
\* one more.  Bound: no more of them than there are sessions to name them after.
NewSeat(r) ==
  /\ At(r, "seatNew")
  /\ \E s \in Session :
       /\ ~Exists(<<r, s>>)
       /\ s = req[r].body.session \/ Exists(<<r, req[r].body.session>>)
       /\ schedules' = [schedules EXCEPT ![<<r, s>>] =
                          [NoClassSchedule EXCEPT !.exists = TRUE, !.seats[req[r].read] = 1]]
  /\ Becomes(r, [req[r] EXCEPT !.pc = "seatMail"])
  /\ UNCHANGED butSchedules

\* Mutant: the caller is answered after the first student.
MailSeat_First(r) ==
  /\ At(r, "seatMail")
  /\ \/ "outage" \in Ops /\ Ends(r, "error")
     \/ Ends(r, "ok")
  /\ UNCHANGED rosterDocs

\* The mail and the notice of one student; a notice the database refuses leaves
\* the students after it without a seat.
MailSeat(r) ==
  /\ At(r, "seatMail")
  /\ LET left == req[r].todo \ {req[r].read} IN
       \/ "outage" \in Ops /\ Ends(r, "error")
       \/ left = {} /\ Ends(r, "ok")
       \/ left # {} /\ Becomes(r, [req[r] EXCEPT !.pc = "seatFind", !.todo = left, !.read = None])
  /\ UNCHANGED rosterDocs

-----------------------------------------------------------------------------
(* BookingListService: create is commented out                             *)

\* The document is written before its answer is populated with paths that the
\* schema has not, which throws: the caller is told of an error.
UpdateBookingList(r) ==
  /\ \E b \in Request, students \in SUBSET Email \ {{}},
        status \in {"pending", "confirmed", "cancelled"} :
       /\ bookingList[b].exists
       /\ bookingList' = [bookingList EXCEPT ![b].students = students, ![b].status = status]
  /\ Begins(r, "relist", Answer("error"))
  /\ UNCHANGED butBookings

RemoveBookingList(r) ==
  /\ \E b \in Request :
       /\ bookingList[b].exists
       /\ bookingList' = [bookingList EXCEPT ![b] = NoBookingList]
  /\ Begins(r, "unlist", Answer("ok"))
  /\ UNCHANGED butBookings

CorporateNext ==
  \E r \in Request :
    \/ MayBegin(r) /\ (CreateCorporate(r) \/ UpdateBookingList(r) \/ RemoveBookingList(r))
    \/ InsertAccount(r) \/ CreateBookingList(r)
    \/ CreateCorporatePayment(r) \/ CreateCorporateOrder(r) \/ SavePending(r)
    \/ FindSeat(r) \/ PushSeat(r) \/ NewSeat(r) \/ MailSeat(r)
=============================================================================
