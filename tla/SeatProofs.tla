---------------------------- MODULE SeatProofs ----------------------------
(***************************************************************************)
(* The seats of those who paid, whatever calls overlap, crash or fail, and *)
(* what holds of seats and payments while calls come one after the other.  *)
(***************************************************************************)
EXTENDS CourseSalesProofs

-----------------------------------------------------------------------------
(* The seats.  Unless bookings are edited by hand, bookings and, unless    *)
(* they are removed, schedules only grow, so what createPayment found and  *)
(* wrote on its way to SUCCEEDED is still there afterwards.                *)

NoHandEdits == {"patchBooking", "removeBooking"} \cap Ops = {}

\* A booking, confirmed as long as no purchase order is filed.
Booked(u, c) ==
  \E b \in Request :
    BookingOf(b, u, c) /\ ("createOrder" \notin Ops => bookings[b].status = "confirmed")

\* A booking, and a seat if its session is listed.
Placed(u, c) ==
  \E b \in Request :
    /\ BookingOf(b, u, c)
    /\ bookings[b].session \in Listed => \E s \in Request : ScheduleOf(s, c) /\ Seated(s, u)

Provided(u, c) ==
  /\ u \in Student
  /\ Booked(u, c)
  /\ "removeSchedule" \notin Ops => Placed(u, c)

\* createPayment after it confirmed the booking.
Confirmed == {"payFindSchedule", "payPushSchedule", "payNewSchedule", "paySave"}
Paying == Opened \cup {"payEnrolled", "payPending"}

SeatCall(r, call) ==
  /\ call.pc # "payFailedCharged"
  /\ "createOrder" \in Ops \/ call.pc \notin {"orderInsert", "orderBooking", "orderUnconfirm"}
  /\ call.pc \notin Replies => bookings[r].status = "absent"
  /\ call.pc \notin Replies \cup {"paySave"} => ~schedules[r].exists
  /\ call.pc \in Paying => call.student \in Student
  /\ call.pc \in Opened =>
       payments[r].student = call.student /\ payments[r].course = call.course
  /\ call.pc = "payConfirm" =>
       /\ call.target \in Request
       /\ BookingOf(call.target, call.student, call.course)
       /\ call.session = bookings[call.target].session
       /\ "createOrder" \notin Ops /\ call.read = "confirmed" =>
            bookings[call.target].status = "confirmed"
  /\ call.pc \in Confirmed => Booked(call.student, call.course)
  /\ call.pc = "payPushSchedule" /\ "removeSchedule" \notin Ops =>
       call.target \in Request /\ ScheduleOf(call.target, call.course)
  /\ call.pc = "paySave" => Provided(call.student, call.course)

\* The inductive invariant of the seats: whoever paid is provided for, and each
\* call in flight still finds what it read.
SeatInv ==
  /\ \A p \in Request : payments[p].intent => Provided(payments[p].student, payments[p].course)
  /\ \A r \in Request : SeatCall(r, req[r])

\* What every step does to bookings and schedules without edits by hand.
DocsGrow ==
  /\ \A b \in Request : bookings[b].status # "absent" =>
       /\ bookings'[b].status # "absent"
       /\ bookings'[b].student = bookings[b].student
       /\ bookings'[b].course = bookings[b].course
       /\ bookings'[b].session = bookings[b].session
       /\ "createOrder" \notin Ops /\ bookings[b].status = "confirmed" =>
            bookings'[b].status = "confirmed"
  /\ "removeSchedule" \notin Ops =>
       \A s \in Request : schedules[s].exists =>
         /\ schedules'[s].exists
         /\ schedules'[s].course = schedules[s].course
         /\ \A u \in Student : schedules[s].seats[u] > 0 => schedules'[s].seats[u] > 0

LEMMA GrowSame ==
  ASSUME UNCHANGED <<bookings, schedules>>
  PROVE  DocsGrow
BY DEF DocsGrow

LEMMA BookedStays ==
  ASSUME DocsGrow, NEW u, NEW c, Booked(u, c)
  PROVE  Booked(u, c)'
BY DEF Booked, BookingOf, DocsGrow

LEMMA PlacedStays ==
  ASSUME DocsGrow, "removeSchedule" \notin Ops, NEW u \in Student, NEW c, Placed(u, c)
  PROVE  Placed(u, c)'
<1>1. PICK b \in Request :
        /\ BookingOf(b, u, c)
        /\ bookings[b].session \in Listed => \E s \in Request : ScheduleOf(s, c) /\ Seated(s, u)
  BY DEF Placed
<1>2. BookingOf(b, u, c)' /\ bookings'[b].session = bookings[b].session
  BY <1>1 DEF BookingOf, DocsGrow
<1>3. ASSUME NEW s \in Request, ScheduleOf(s, c) /\ Seated(s, u)
      PROVE  ScheduleOf(s, c)' /\ Seated(s, u)'
  BY <1>3 DEF ScheduleOf, Seated, DocsGrow
<1> QED BY <1>1, <1>2, <1>3 DEF Placed

LEMMA ProvidedStays ==
  ASSUME DocsGrow, NEW u, NEW c, Provided(u, c)
  PROVE  Provided(u, c)'
BY BookedStays, PlacedStays DEF Provided

\* One call r moves; everybody else keeps what it knows while documents grow.
LEMMA SeatMove ==
  ASSUME SeatInv, NEW r \in Request, DocsGrow,
         \A q \in Request \ {r} :
           /\ req'[q] = req[q]
           /\ bookings[q].status = "absent" => bookings'[q].status = "absent"
           /\ schedules'[q].exists => schedules[q].exists
           /\ payments'[q].student = payments[q].student
           /\ payments'[q].course = payments[q].course,
         \A p \in Request : payments'[p].intent =>
           \/ /\ payments[p].intent
              /\ payments'[p].student = payments[p].student
              /\ payments'[p].course = payments[p].course
           \/ Provided(payments[p].student, payments[p].course)',
         SeatCall(r, req[r])'
  PROVE  SeatInv'
<1>1. ASSUME NEW p \in Request, payments'[p].intent
      PROVE  Provided(payments[p].student, payments[p].course)'
  <2>1. CASE payments[p].intent /\ payments'[p].student = payments[p].student
             /\ payments'[p].course = payments[p].course
    BY <2>1, ProvidedStays DEF SeatInv
  <2> QED BY <1>1, <2>1
<1>2. ASSUME NEW q \in Request \ {r}
      PROVE  SeatCall(q, req[q])'
  <2>a. PICK call : call = req[q]
    OBVIOUS
  <2>0. req'[q] = call /\ SeatCall(q, call)
    BY <2>a DEF SeatInv
  <2>1. call.pc = "payConfirm" =>
          /\ BookingOf(call.target, call.student, call.course)'
          /\ call.session = bookings'[call.target].session
          /\ "createOrder" \notin Ops /\ call.read = "confirmed" =>
               bookings'[call.target].status = "confirmed"
    BY <2>0 DEF SeatCall, DocsGrow, BookingOf
  <2>2. call.pc \in Confirmed => Booked(call.student, call.course)'
    BY <2>0, BookedStays DEF SeatCall
  <2>3. call.pc = "payPushSchedule" /\ "removeSchedule" \notin Ops =>
          ScheduleOf(call.target, call.course)'
    BY <2>0 DEF SeatCall, DocsGrow, ScheduleOf
  <2>4. call.pc = "paySave" => Provided(call.student, call.course)'
    BY <2>0, ProvidedStays DEF SeatCall
  <2> QED BY <2>0, <2>1, <2>2, <2>3, <2>4 DEF SeatCall
<1> QED BY <1>1, <1>2 DEF SeatInv

\* The calls move and no booking, schedule or payment changes.
LEMMA SeatCallMove ==
  ASSUME SeatInv, UNCHANGED <<payments, bookings, schedules>>,
         \A r \in Request : req'[r] = req[r] \/ SeatCall(r, req'[r])
  PROVE  SeatInv'
<1>1. \A r \in Request : SeatCall(r, req'[r])
  BY DEF SeatInv
<1> QED
  BY <1>1 DEF SeatInv, SeatCall, Provided, Booked, Placed, BookingOf, ScheduleOf, Seated

\* A call that answers knows nothing any more.
LEMMA AnsweredSeat ==
  ASSUME NEW r \in Request, NEW call, call.pc \in Replies
  PROVE  SeatCall(r, call)
BY DEF SeatCall, Replies, Paying, Opened, Charged, Confirmed

LEMMA ReplyIs ==
  ASSUME TypeOK, NEW r \in Request, NEW code \in Replies, Reply(r, code)
  PROVE  /\ req'[r].pc \in Replies
         /\ \A q \in Request \ {r} : req'[q] = req[q]
BY DEF Reply, Fresh, TypeOK

LEMMA ReplySeat ==
  ASSUME TypeOK, SeatInv, NEW r \in Request, NEW code \in Replies, Reply(r, code),
         UNCHANGED <<payments, bookings, schedules>>
  PROVE  SeatInv'
BY ReplyIs, AnsweredSeat, SeatCallMove

LEMMA GotoKeeps ==
  ASSUME TypeOK, NEW r \in Request, NEW pc, Goto(r, pc)
  PROVE  /\ req'[r].pc = pc
         /\ req'[r].student = req[r].student /\ req'[r].course = req[r].course
         /\ req'[r].session = req[r].session /\ req'[r].target = req[r].target
         /\ \A q \in Request \ {r} : req'[q] = req[q]
BY DEF Goto, TypeOK, Call

LEMMA BookingSeat ==
  ASSUME NoHandEdits, TypeOK, SeatInv, BookingNext
  PROVE  SeatInv'
<1>0. {"ok", "error"} \subseteq Replies
  BY DEF Replies
<1>1. ASSUME NEW r \in Request, NEW u \in Student, NEW c \in Course, NEW s \in Session,
             CreateBooking(r, u, c, s)
      PROVE  SeatInv'
  <2>1. CASE Reply(r, "error")
    BY <1>0, <1>1, <2>1, ReplySeat DEF CreateBooking, docs
  <2>2. CASE req' = [req EXCEPT ![r] = [Fresh EXCEPT !.pc = "bookBooked",
                                          !.student = u, !.course = c, !.session = s]]
    <3>1. req'[r].pc = "bookBooked" /\ \A q \in Request \ {r} : req'[q] = req[q]
      BY <2>2 DEF TypeOK, Fresh
    <3>2. SeatCall(r, req'[r])
      BY <1>1, <3>1 DEF CreateBooking, Start, SeatInv, SeatCall, Replies, Paying, Opened,
         Charged, Confirmed
    <3> QED BY <1>1, <3>1, <3>2, SeatCallMove DEF CreateBooking, docs
  <2> QED BY <1>1, <2>1, <2>2 DEF CreateBooking
<1>2. ASSUME NEW r \in Request, CheckBooked(r)
      PROVE  SeatInv'
  <2>1. CASE Reply(r, "error")
    BY <1>0, <1>2, <2>1, ReplySeat DEF CheckBooked, docs
  <2>2. CASE Goto(r, "bookInsert")
    <3>1. req'[r].pc = "bookInsert" /\ \A q \in Request \ {r} : req'[q] = req[q]
      BY <2>2, GotoKeeps
    <3>2. SeatCall(r, req'[r])
      BY <1>2, <3>1 DEF CheckBooked, At, SeatInv, SeatCall, Replies, Paying, Opened,
         Charged, Confirmed
    <3> QED BY <1>2, <3>1, <3>2, SeatCallMove DEF CheckBooked, docs
  <2> QED BY <1>2, <2>1, <2>2 DEF CheckBooked
<1>3. ASSUME NEW r \in Request, InsertBooking(r)
      PROVE  SeatInv'
  <2>1. bookings[r].status = "absent"
    BY <1>3 DEF InsertBooking, At, SeatInv, SeatCall, Replies
  <2>2. (\A b \in Request \ {r} : bookings'[b] = bookings[b]) /\ UNCHANGED <<payments, schedules>>
    BY <1>3 DEF InsertBooking, TypeOK
  <2>3. DocsGrow
    BY <2>1, <2>2 DEF DocsGrow
  <2>4. req'[r].pc \in Replies /\ \A q \in Request \ {r} : req'[q] = req[q]
    BY <1>0, <1>3, ReplyIs DEF InsertBooking
  <2>5. SeatCall(r, req[r])'
    BY <2>4 DEF SeatCall, Replies, Paying, Opened, Charged, Confirmed
  <2> QED BY <2>2, <2>3, <2>4, <2>5, SeatMove
<1>4. ASSUME NEW b \in Request, PatchBooking(b) \/ RemoveBooking(b)
      PROVE  FALSE
  BY <1>4 DEF PatchBooking, RemoveBooking, NoHandEdits
<1> QED
  BY <1>1, <1>2, <1>3, <1>4 DEF BookingNext

\* A call that has confirmed the booking, u's for c.
LEMMA ConfirmedKnows ==
  ASSUME SeatInv, NEW r \in Request, NEW u, NEW c, u = req[r].student, c = req[r].course,
         req[r].pc \in Confirmed
  PROVE  /\ u \in Student /\ Booked(u, c)
         /\ payments[r].student = u /\ payments[r].course = c
         /\ bookings[r].status = "absent"
BY DEF SeatInv, SeatCall, Confirmed, Paying, Opened, Charged, Replies

\* With a seat, the call may go on to save the payment.
LEMMA SeatedSeat ==
  ASSUME TypeOK, SeatInv, DocsGrow, UNCHANGED <<payments, bookings>>,
         NEW r \in Request, req[r].pc \in Confirmed, Goto(r, "paySave"),
         \A q \in Request \ {r} : schedules'[q].exists => schedules[q].exists,
         NEW u, NEW c, u = req[r].student, c = req[r].course,
         "removeSchedule" \notin Ops => \E s \in Request : ScheduleOf(s, c)' /\ Seated(s, u)'
  PROVE  SeatInv'
<1>1. /\ req'[r].pc = "paySave" /\ req'[r].student = u /\ req'[r].course = c
      /\ \A q \in Request \ {r} : req'[q] = req[q]
  BY GotoKeeps
<1>2. /\ u \in Student /\ Booked(u, c)
      /\ payments'[r].student = u /\ payments'[r].course = c
      /\ bookings'[r].status = "absent"
  BY ConfirmedKnows
<1>3. Booked(u, c)'
  BY <1>2, BookedStays
<1>4. "removeSchedule" \notin Ops => Placed(u, c)'
  BY <1>3 DEF Placed, Booked
<1>5. Provided(u, c)'
  BY <1>2, <1>3, <1>4 DEF Provided
<1>6. SeatCall(r, req[r])'
  BY <1>1, <1>2, <1>3, <1>5 DEF SeatCall, Replies, Paying, Opened, Charged
<1> QED BY <1>1, <1>6, SeatMove

\* The helper leaves the student seated wherever schedules are not removed, and
\* the booking was confirmed before it was called.
LEMMA ScheduleSeat ==
  ASSUME TypeOK, SeatInv, ScheduleNext
  PROVE  SeatInv'
<1>1. ASSUME NEW r \in Request, FindNoSchedule(r)
      PROVE  SeatInv'
  <2>1. /\ req'[r].pc = "payNewSchedule"
        /\ req'[r].student = req[r].student /\ req'[r].course = req[r].course
        /\ \A q \in Request \ {r} : req'[q] = req[q]
    BY <1>1, GotoKeeps DEF FindNoSchedule
  <2>2. SeatCall(r, req'[r])
    BY <1>1, <2>1 DEF FindNoSchedule, At, SeatInv, SeatCall, Replies, Paying, Opened, Charged,
       Confirmed
  <2> QED BY <1>1, <2>1, <2>2, SeatCallMove DEF FindNoSchedule, docs
<1>2. ASSUME NEW r \in Request, FindSchedule(r)
      PROVE  SeatInv'
  <2>1. PICK s \in Request :
          /\ ScheduleOf(s, req[r].course)
          /\ IF Seated(s, req[r].student)
               THEN Goto(r, "paySave")
               ELSE req' = [req EXCEPT ![r].pc = "payPushSchedule", ![r].target = s]
    BY <1>2 DEF FindSchedule
  <2>2. PICK u, c : u = req[r].student /\ c = req[r].course
    OBVIOUS
  <2>3. req[r].pc = "payFindSchedule" /\ UNCHANGED <<payments, bookings, schedules>>
    BY <1>2 DEF FindSchedule, At, docs
  <2>4. CASE Seated(s, u)
    <3>1. ScheduleOf(s, c)' /\ Seated(s, u)'
      BY <2>1, <2>2, <2>3, <2>4 DEF ScheduleOf, Seated
    <3>2. Goto(r, "paySave") /\ req[r].pc \in Confirmed
      BY <2>1, <2>2, <2>3, <2>4 DEF Confirmed
    <3> QED BY <2>2, <2>3, <3>1, <3>2, GrowSame, SeatedSeat
  <2>5. CASE ~Seated(s, u)
    <3>1. /\ req'[r].pc = "payPushSchedule" /\ req'[r].target = s
          /\ req'[r].student = u /\ req'[r].course = c
          /\ \A q \in Request \ {r} : req'[q] = req[q]
      BY <2>1, <2>2, <2>5 DEF TypeOK, Call
    <3>2. SeatCall(r, req'[r])
      BY <2>1, <2>2, <2>3, <3>1 DEF SeatInv, SeatCall, Replies, Paying, Opened, Charged,
         Confirmed
    <3> QED BY <2>3, <3>1, <3>2, SeatCallMove
  <2> QED BY <2>4, <2>5
<1>3. ASSUME NEW r \in Request, PushSchedule(r)
      PROVE  SeatInv'
  <2>1. PICK u, c, t : u = req[r].student /\ c = req[r].course /\ t = req[r].target
    OBVIOUS
  <2>2. /\ req[r].pc = "payPushSchedule" /\ req[r].pc \in Confirmed
        /\ Goto(r, "paySave") /\ UNCHANGED <<payments, bookings>>
    BY <1>3 DEF PushSchedule, At, Confirmed
  <2>3. /\ u \in Student
        /\ "removeSchedule" \notin Ops => t \in Request /\ ScheduleOf(t, c)
    BY <2>1, <2>2 DEF SeatInv, SeatCall, Paying, Opened, Charged
  <2>4. ASSUME NEW x \in Request
        PROVE  /\ schedules'[x].exists = schedules[x].exists
               /\ schedules'[x].course = schedules[x].course
               /\ \A v \in Student : schedules[x].seats[v] > 0 => schedules'[x].seats[v] > 0
               /\ schedules[t].exists /\ x = t => schedules'[x].seats[u] > 0
    <3>1. schedules' = IF schedules[t].exists
                         THEN [schedules EXCEPT ![t].seats[u] = schedules[t].seats[u] + 1]
                         ELSE schedules
      BY <1>3, <2>1 DEF PushSchedule
    <3>2. CASE x = t /\ schedules[t].exists
      <4>1. schedules[x] \in ScheduleDoc /\ schedules[x].seats \in [Student -> Nat]
        BY DEF TypeOK, ScheduleDoc
      <4>2. schedules'[x] = [schedules[x] EXCEPT !.seats[u] = schedules[x].seats[u] + 1]
        BY <3>1, <3>2 DEF TypeOK
      <4>3. /\ schedules'[x].exists = schedules[x].exists
            /\ schedules'[x].course = schedules[x].course
            /\ schedules'[x].seats = [schedules[x].seats EXCEPT ![u] = schedules[x].seats[u] + 1]
        BY <4>1, <4>2 DEF ScheduleDoc
      <4>4. ASSUME NEW v \in Student
            PROVE  /\ schedules[x].seats[v] \in Nat
                   /\ schedules'[x].seats[v] = schedules[x].seats[v] + (IF v = u THEN 1 ELSE 0)
        BY <2>3, <4>1, <4>3
      <4>5. \A v \in Student : schedules[x].seats[v] > 0 => schedules'[x].seats[v] > 0
        BY <4>4
      <4>6. schedules'[x].seats[u] > 0
        BY <2>3, <4>4
      <4> QED BY <4>3, <4>5, <4>6
    <3>3. CASE ~(x = t /\ schedules[t].exists)
      <4>1. schedules'[x] = schedules[x]
        BY <3>1, <3>3 DEF TypeOK
      <4> QED BY <3>3, <4>1
    <3> QED BY <3>2, <3>3
  <2>5. DocsGrow
    BY <2>2, <2>4 DEF DocsGrow
  <2>6. "removeSchedule" \notin Ops => ScheduleOf(t, c)' /\ Seated(t, u)'
    BY <2>3, <2>4 DEF ScheduleOf, Seated
  <2> QED BY <2>1, <2>2, <2>3, <2>4, <2>5, <2>6, SeatedSeat
<1>4. ASSUME NEW r \in Request, NewSchedule(r)
      PROVE  SeatInv'
  <2>1. PICK u, c : u = req[r].student /\ c = req[r].course
    OBVIOUS
  <2>2. /\ req[r].pc = "payNewSchedule" /\ req[r].pc \in Confirmed
        /\ Goto(r, "paySave") /\ UNCHANGED <<payments, bookings>>
    BY <1>4 DEF NewSchedule, At, Confirmed
  <2>3. u \in Student /\ ~schedules[r].exists
    BY <2>1, <2>2 DEF SeatInv, SeatCall, Paying, Opened, Charged, Replies
  <2>4. /\ schedules'[r].exists /\ schedules'[r].course = c /\ schedules'[r].seats[u] = 1
        /\ \A x \in Request \ {r} : schedules'[x] = schedules[x]
    BY <1>4, <2>1, <2>3 DEF NewSchedule, TypeOK
  <2>5. DocsGrow
    BY <2>2, <2>3, <2>4 DEF DocsGrow
  <2>6. ScheduleOf(r, c)' /\ Seated(r, u)'
    BY <2>4 DEF ScheduleOf, Seated
  <2> QED BY <2>1, <2>2, <2>4, <2>5, <2>6, SeatedSeat
<1>5. ASSUME NEW s \in Request, RemoveSchedule(s)
      PROVE  SeatInv'
  <2>1. /\ "removeSchedule" \in Ops /\ UNCHANGED <<payments, bookings, req>>
        /\ \A x \in Request : schedules'[x].exists => schedules[x].exists
    BY <1>5 DEF RemoveSchedule, TypeOK, NoSchedule
  <2>2. DocsGrow
    BY <2>1 DEF DocsGrow
  <2>3. SeatCall(s, req[s])'
    <3>1. SeatCall(s, req[s])
      BY DEF SeatInv
    <3> QED BY <2>1, <3>1 DEF SeatCall, Provided, Booked, BookingOf
  <2> QED BY <2>1, <2>2, <2>3, SeatMove
<1> QED
  BY <1>1, <1>2, <1>3, <1>4, <1>5 DEF ScheduleNext

LEMMA OrderSeat ==
  ASSUME NoHandEdits, TypeOK, SeatInv, OrderNext
  PROVE  SeatInv'
<1>0. {"ok", "error"} \subseteq Replies
  BY DEF Replies
<1>1. ASSUME NEW r \in Request, NEW u \in Student, NEW c \in Course, NEW n \in PoNumber,
             CreateOrder(r, u, c, n)
      PROVE  SeatInv'
  <2>1. CASE Reply(r, "error")
    BY <1>0, <1>1, <2>1, ReplySeat DEF CreateOrder, docs
  <2>2. CASE req' = [req EXCEPT ![r] = [Fresh EXCEPT !.pc = "orderInsert",
                                          !.student = u, !.course = c, !.number = n]]
    <3>1. req'[r].pc = "orderInsert" /\ \A q \in Request \ {r} : req'[q] = req[q]
      BY <2>2 DEF TypeOK, Fresh
    <3>2. SeatCall(r, req'[r])
      BY <1>1, <3>1 DEF CreateOrder, Start, SeatInv, SeatCall, Replies, Paying, Opened,
         Charged, Confirmed
    <3> QED BY <1>1, <3>1, <3>2, SeatCallMove DEF CreateOrder, docs
  <2> QED BY <1>1, <2>1, <2>2 DEF CreateOrder
<1>2. ASSUME NEW r \in Request, InsertOrder(r)
      PROVE  SeatInv'
  <2>1. CASE Reply(r, "error")
    BY <1>0, <1>2, <2>1, ReplySeat DEF InsertOrder
  <2>2. CASE Goto(r, "orderBooking")
    <3>1. req'[r].pc = "orderBooking" /\ \A q \in Request \ {r} : req'[q] = req[q]
      BY <2>2, GotoKeeps
    <3>2. SeatCall(r, req'[r])
      BY <1>2, <3>1 DEF InsertOrder, At, SeatInv, SeatCall, Replies, Paying, Opened,
         Charged, Confirmed
    <3> QED BY <1>2, <3>1, <3>2, SeatCallMove DEF InsertOrder
  <2> QED BY <1>2, <2>1, <2>2 DEF InsertOrder
<1>3. ASSUME NEW r \in Request, FindOrderBooking(r)
      PROVE  SeatInv'
  <2>1. CASE Reply(r, "ok") \/ Reply(r, "error")
    BY <1>0, <1>3, <2>1, ReplySeat DEF FindOrderBooking, docs
  <2>2. ASSUME NEW b \in Request,
               req' = [req EXCEPT ![r].pc = "orderUnconfirm", ![r].target = b,
                                  ![r].read = bookings[b].status]
        PROVE  SeatInv'
    <3>1. req'[r].pc = "orderUnconfirm" /\ \A q \in Request \ {r} : req'[q] = req[q]
      BY <2>2 DEF TypeOK, Call
    <3>2. SeatCall(r, req'[r])
      BY <1>3, <3>1 DEF FindOrderBooking, At, SeatInv, SeatCall, Replies, Paying, Opened,
         Charged, Confirmed
    <3> QED BY <1>3, <3>1, <3>2, SeatCallMove DEF FindOrderBooking, docs
  <2> QED BY <1>3, <2>1, <2>2 DEF FindOrderBooking
<1>4. ASSUME NEW r \in Request, UnconfirmBooking(r)
      PROVE  SeatInv'
  <2>1. "createOrder" \in Ops
    BY <1>4 DEF UnconfirmBooking, At, SeatInv, SeatCall
  <2>2. \A b \in Request :
          /\ bookings'[b].status = "absent" <=> bookings[b].status = "absent"
          /\ bookings'[b].student = bookings[b].student
          /\ bookings'[b].course = bookings[b].course
          /\ bookings'[b].session = bookings[b].session
    BY <1>4 DEF UnconfirmBooking, TypeOK, BookingDoc
  <2>3. UNCHANGED <<payments, schedules>>
    BY <1>4 DEF UnconfirmBooking
  <2>4. DocsGrow
    BY <2>1, <2>2, <2>3 DEF DocsGrow
  <2>5. req'[r].pc \in Replies /\ \A q \in Request \ {r} : req'[q] = req[q]
    BY <1>0, <1>4, ReplyIs DEF UnconfirmBooking
  <2>6. SeatCall(r, req[r])'
    BY <2>5 DEF SeatCall, Replies, Paying, Opened, Charged, Confirmed
  <2> QED BY <2>2, <2>3, <2>4, <2>5, <2>6, SeatMove
<1>5. ASSUME NEW o \in Request, UpdateOrder(o) \/ RemoveOrder(o)
      PROVE  SeatInv'
  BY <1>5, SeatCallMove DEF UpdateOrder, RemoveOrder, createPaymentFromPurchaseOrder
<1> QED
  BY <1>1, <1>2, <1>3, <1>4, <1>5 DEF OrderNext

LEMMA StripeSeat ==
  ASSUME TypeOK, SeatInv, StripeNext
  PROVE  SeatInv'
<1>1. PICK r \in Request :
        /\ Reply(r, "ok") \/ Reply(r, "error")
        /\ UNCHANGED <<payments, bookings, schedules>>
  BY DEF StripeNext, OpenIntent, OpenCheckoutSession, Opens, ReadIntent, ListIntents, KeepCard,
     HandleWebhook, CancelIntent, RefundIntent, Answers, docs
<1>2. {"ok", "error"} \subseteq Replies
  BY DEF Replies
<1> QED BY <1>1, <1>2, ReplySeat

LEMMA CrashSeat ==
  ASSUME TypeOK, SeatInv, Crash
  PROVE  SeatInv'
<1>1. ASSUME NEW r \in Request
      PROVE  req'[r] = req[r] \/ SeatCall(r, req'[r])
  <2>1. CASE InFlight(r)
    <3>1. req'[r].pc \in Replies
      BY <2>1 DEF Crash, Fresh, Replies
    <3> QED BY <3>1, AnsweredSeat
  <2>2. CASE ~InFlight(r)
    BY <2>2 DEF Crash
  <2> QED BY <2>1, <2>2
<1> QED BY <1>1, SeatCallMove DEF Crash, docs

\* createPayment up to the confirmed booking.
LEMMA PayingSeat ==
  ASSUME NoHandEdits, TypeOK, MoneyInv, SeatInv, NEW r \in Request
  PROVE  /\ \A u \in Student, c \in Course, a \in Amount : CreatePayment(r, u, c, a) => SeatInv'
         /\ CheckEnrolled(r) => SeatInv'
         /\ SavePending(r) => SeatInv'
         /\ StripeOpensIntent(r) => SeatInv'
         /\ StripeRefusesIntent(r) => SeatInv'
         /\ FindBookingToConfirm(r) => SeatInv'
<1>0. {"ok", "error"} \subseteq Replies
  BY DEF Replies
<1>i. SeatCall(r, req[r])
  BY DEF SeatInv
<1>1. ASSUME NEW u \in Student, NEW c \in Course, NEW a \in Amount, CreatePayment(r, u, c, a)
      PROVE  SeatInv'
  <2> DEFINE price == IF a # 0 THEN a ELSE Price[c]
  <2>1. CASE Reply(r, "error")
    BY <1>0, <1>1, <2>1, ReplySeat DEF CreatePayment, docs
  <2>2. CASE req' = [req EXCEPT ![r] = [Fresh EXCEPT !.pc = "payEnrolled", !.student = u,
                                          !.course = c, !.amount = price]]
    <3>1. /\ req'[r].pc = "payEnrolled" /\ req'[r].student = u
          /\ \A q \in Request \ {r} : req'[q] = req[q]
      BY <2>2 DEF TypeOK, Fresh
    <3>2. SeatCall(r, req'[r])
      BY <1>1, <1>i, <3>1 DEF CreatePayment, Start, SeatCall, Replies, Opened, Charged,
         Confirmed
    <3> QED BY <1>1, <3>1, <3>2, SeatCallMove DEF CreatePayment, docs
  <2> QED BY <1>1, <2>1, <2>2 DEF CreatePayment
<1>2. ASSUME CheckEnrolled(r)
      PROVE  SeatInv'
  <2>1. CASE Reply(r, "error")
    BY <1>0, <1>2, <2>1, ReplySeat DEF CheckEnrolled, docs
  <2>2. CASE Goto(r, "payPending")
    <3>1. /\ req'[r].pc = "payPending" /\ req'[r].student = req[r].student
          /\ \A q \in Request \ {r} : req'[q] = req[q]
      BY <2>2, GotoKeeps
    <3>2. SeatCall(r, req'[r])
      BY <1>2, <1>i, <3>1 DEF CheckEnrolled, At, SeatCall, Replies, Paying, Opened, Charged,
         Confirmed
    <3> QED BY <1>2, <3>1, <3>2, SeatCallMove DEF CheckEnrolled, docs
  <2> QED BY <1>2, <2>1, <2>2 DEF CheckEnrolled
<1>3. ASSUME SavePending(r)
      PROVE  SeatInv'
  <2>1. PICK u, c : u = req[r].student /\ c = req[r].course
    OBVIOUS
  <2>2. /\ payments'[r].student = u /\ payments'[r].course = c /\ ~payments'[r].intent
        /\ \A p \in Request \ {r} : payments'[p] = payments[p]
        /\ UNCHANGED <<bookings, schedules>>
    BY <1>3, <2>1 DEF SavePending, TypeOK
  <2>3. /\ req'[r].pc = "payStripe" /\ req'[r].student = u /\ req'[r].course = c
        /\ \A q \in Request \ {r} : req'[q] = req[q]
    BY <1>3, <2>1, GotoKeeps DEF SavePending
  <2>4. SeatCall(r, req[r])'
    BY <1>3, <1>i, <2>1, <2>2, <2>3 DEF SavePending, At, SeatCall, Replies, Paying, Opened,
       Charged, Confirmed
  <2> QED BY <2>2, <2>3, <2>4, GrowSame, SeatMove
<1>4. ASSUME StripeOpensIntent(r) \/ StripeRefusesIntent(r)
      PROVE  SeatInv'
  <2>1. /\ req[r].pc = "payStripe" /\ UNCHANGED <<payments, bookings, schedules>>
        /\ Goto(r, "payBooking") \/ Goto(r, "payFailed")
    BY <1>4 DEF StripeOpensIntent, StripeRefusesIntent, At, docs
  <2>2. /\ req'[r].pc \in {"payBooking", "payFailed"}
        /\ req'[r].student = req[r].student /\ req'[r].course = req[r].course
        /\ \A q \in Request \ {r} : req'[q] = req[q]
    BY <2>1, GotoKeeps
  <2>3. SeatCall(r, req'[r])
    BY <1>i, <2>1, <2>2 DEF SeatCall, Replies, Paying, Opened, Charged, Confirmed
  <2> QED BY <2>1, <2>2, <2>3, SeatCallMove
<1>5. ASSUME FindBookingToConfirm(r)
      PROVE  SeatInv'
  <2>1. CASE Reply(r, "error")
    BY <1>0, <1>5, <2>1, ReplySeat DEF FindBookingToConfirm, docs
  <2>2. ASSUME NEW b \in Request, BookingOf(b, req[r].student, req[r].course),
               req' = [req EXCEPT ![r].pc = "payConfirm", ![r].target = b,
                                  ![r].session = bookings[b].session,
                                  ![r].read = bookings[b].status]
        PROVE  SeatInv'
    <3>1. /\ req'[r].pc = "payConfirm" /\ req'[r].target = b
          /\ req'[r].student = req[r].student /\ req'[r].course = req[r].course
          /\ req'[r].session = bookings[b].session /\ req'[r].read = bookings[b].status
          /\ \A q \in Request \ {r} : req'[q] = req[q]
      BY <2>2 DEF TypeOK, Call
    <3>2. SeatCall(r, req'[r])
      BY <1>5, <1>i, <2>2, <3>1 DEF FindBookingToConfirm, At, SeatCall, Replies, Paying,
         Opened, Charged, Confirmed
    <3> QED BY <1>5, <3>1, <3>2, SeatCallMove DEF FindBookingToConfirm, docs
  <2> QED BY <1>5, <2>1, <2>2 DEF FindBookingToConfirm
<1> QED
  BY <1>1, <1>2, <1>3, <1>4, <1>5

\* The booking that was found is still there and becomes, or is, confirmed.
LEMMA ConfirmBookingSeat ==
  ASSUME TypeOK, SeatInv, NEW r \in Request, ConfirmBooking(r)
  PROVE  SeatInv'
<1>1. PICK u, c, b : u = req[r].student /\ c = req[r].course /\ b = req[r].target
  OBVIOUS
<1>2. /\ req[r].pc = "payConfirm" /\ u \in Student /\ b \in Request
      /\ BookingOf(b, u, c) /\ bookings[r].status = "absent" /\ ~schedules[r].exists
      /\ payments[r].student = u /\ payments[r].course = c
      /\ "createOrder" \notin Ops /\ req[r].read = "confirmed" =>
           bookings[b].status = "confirmed"
      /\ req[r].session = bookings[b].session
  BY <1>1 DEF ConfirmBooking, At, SeatInv, SeatCall, Paying, Opened, Charged, Replies
<1>3. /\ Goto(r, IF req[r].session \in Listed THEN "payFindSchedule" ELSE "paySave")
      /\ bookings' = IF req[r].read = "confirmed" THEN bookings
                     ELSE [bookings EXCEPT ![b].status = "confirmed"]
      /\ UNCHANGED <<payments, schedules>>
  BY <1>1, <1>2 DEF ConfirmBooking, BookingOf
<1>4. /\ \A x \in Request :
           /\ bookings'[x].status = "absent" <=> bookings[x].status = "absent"
           /\ bookings'[x].student = bookings[x].student
           /\ bookings'[x].course = bookings[x].course
           /\ bookings'[x].session = bookings[x].session
           /\ bookings[x].status = "confirmed" => bookings'[x].status = "confirmed"
      /\ "createOrder" \notin Ops => bookings'[b].status = "confirmed"
  BY <1>2, <1>3 DEF TypeOK, BookingDoc, BookingOf
<1>5. DocsGrow
  BY <1>3, <1>4 DEF DocsGrow
<1>6. Booked(u, c)'
  BY <1>2, <1>4 DEF Booked, BookingOf
<1>7. bookings[b].session \notin Listed => Provided(u, c)'
  BY <1>2, <1>4, <1>6 DEF Provided, Placed, BookingOf
<1>8. /\ req'[r].pc = IF bookings[b].session \in Listed THEN "payFindSchedule" ELSE "paySave"
      /\ req'[r].student = u /\ req'[r].course = c
      /\ \A q \in Request \ {r} : req'[q] = req[q]
  BY <1>1, <1>2, <1>3, GotoKeeps
<1>9. SeatCall(r, req[r])'
  BY <1>2, <1>3, <1>4, <1>6, <1>7, <1>8 DEF SeatCall, Replies, Paying, Opened, Charged, Confirmed
<1> QED BY <1>3, <1>4, <1>5, <1>8, <1>9, SeatMove

\* A step that saves payments and answers.
LEMMA SaveSeat ==
  ASSUME TypeOK, SeatInv, NEW r \in Request, NEW code \in Replies, Reply(r, code),
         UNCHANGED <<bookings, schedules>>,
         \A p \in Request :
           /\ payments'[p].student = payments[p].student
           /\ payments'[p].course = payments[p].course
           /\ payments'[p].intent =>
                payments[p].intent \/ Provided(payments[p].student, payments[p].course)
  PROVE  SeatInv'
<1>1. req'[r].pc \in Replies /\ \A q \in Request \ {r} : req'[q] = req[q]
  BY ReplyIs
<1>2. SeatCall(r, req[r])'
  BY <1>1 DEF SeatCall, Replies, Paying, Opened, Charged, Confirmed
<1>3. ASSUME NEW p \in Request, payments'[p].intent, ~payments[p].intent
      PROVE  Provided(payments[p].student, payments[p].course)'
  <2>1. PICK u, c : u = payments[p].student /\ c = payments[p].course
    OBVIOUS
  <2>2. Provided(u, c)'
    BY <1>3, <2>1, GrowSame, ProvidedStays
  <2>3. u = payments'[p].student /\ c = payments'[p].course
    BY <2>1
  <2> QED BY <2>2, <2>3
<1> QED BY <1>1, <1>2, <1>3, GrowSame, SeatMove

LEMMA PaymentSeat ==
  ASSUME NoHandEdits, TypeOK, MoneyInv, SeatInv, PaymentNext
  PROVE  SeatInv'
<1>0. {"ok", "error"} \subseteq Replies
  BY DEF Replies
<1>1. ASSUME NEW r \in Request, SaveSucceeded(r)
      PROVE  SeatInv'
  <2>1. Provided(payments[r].student, payments[r].course)
    BY <1>1 DEF SaveSucceeded, At, SeatInv, SeatCall, Opened, Charged
  <2>2. \A p \in Request :
          /\ payments'[p].student = payments[p].student
          /\ payments'[p].course = payments[p].course
          /\ p # r => payments'[p] = payments[p]
    BY <1>1 DEF SaveSucceeded, TypeOK, PaymentDoc
  <2> QED BY <1>0, <1>1, <2>1, <2>2, SaveSeat DEF SaveSucceeded
<1>2. ASSUME NEW r \in Request, SaveFailed(r)
      PROVE  SeatInv'
  <2>1. req[r].pc = "payFailed"
    BY <1>2 DEF SaveFailed, At, SeatInv, SeatCall
  <2>2. \A p \in Request :
          /\ payments'[p].student = payments[p].student
          /\ payments'[p].course = payments[p].course
          /\ payments'[p].intent => payments[p].intent
    BY <1>2, <2>1 DEF SaveFailed, At, TypeOK, PaymentDoc
  <2> QED BY <1>0, <1>2, <2>2, SaveSeat DEF SaveFailed
<1>3. ASSUME NEW r \in Request, SaveConfirmed(r) \/ SaveRefunded(r)
      PROVE  SeatInv'
  <2>1. \A p \in Request :
          /\ payments'[p].student = payments[p].student
          /\ payments'[p].course = payments[p].course
          /\ payments'[p].intent => payments[p].intent
    BY <1>3 DEF SaveConfirmed, SaveRefunded, TypeOK, PaymentDoc
  <2>2. PICK code \in Replies : Reply(r, code)
    BY <1>0, <1>3 DEF SaveConfirmed, SaveRefunded
  <2> QED BY <1>3, <2>1, <2>2, SaveSeat DEF SaveConfirmed, SaveRefunded
<1>4. ASSUME NEW r \in Request, NEW p \in Request, ConfirmPayment(r, p)
      PROVE  SeatInv'
  <2>1. req'[r].pc = "confirmSave" /\ \A q \in Request \ {r} : req'[q] = req[q]
    BY <1>4 DEF ConfirmPayment, Fresh, TypeOK
  <2>2. SeatCall(r, req'[r])
    BY <1>4, <2>1 DEF ConfirmPayment, Start, SeatInv, SeatCall, Replies, Paying, Opened,
       Charged, Confirmed
  <2> QED BY <1>4, <2>1, <2>2, SeatCallMove DEF ConfirmPayment, docs
<1>5. ASSUME NEW r \in Request, NEW p \in Request, NEW a \in Amount, RefundPayment(r, p, a)
      PROVE  SeatInv'
  <2>1. CASE Reply(r, "error")
    BY <1>0, <1>5, <2>1, ReplySeat DEF RefundPayment, docs
  <2>2. CASE ~Reply(r, "error")
    <3>1. req'[r].pc = "refundStripe" /\ \A q \in Request \ {r} : req'[q] = req[q]
      BY <1>5, <2>2 DEF RefundPayment, Fresh, TypeOK
    <3>2. SeatCall(r, req'[r])
      BY <1>5, <3>1 DEF RefundPayment, Start, SeatInv, SeatCall, Replies, Paying, Opened,
         Charged, Confirmed
    <3> QED BY <1>5, <3>1, <3>2, SeatCallMove DEF RefundPayment, docs
  <2> QED BY <2>1, <2>2
<1>6. ASSUME NEW r \in Request, StripeRefunds(r) \/ StripeRefusesRefund(r)
      PROVE  SeatInv'
  <2>1. /\ req[r].pc = "refundStripe" /\ UNCHANGED <<payments, bookings, schedules>>
        /\ Goto(r, "refundSave") \/ Reply(r, "error")
    BY <1>6 DEF StripeRefunds, StripeRefusesRefund, At, docs
  <2>2. CASE Reply(r, "error")
    BY <1>0, <2>1, <2>2, ReplySeat
  <2>3. CASE Goto(r, "refundSave")
    <3>1. req'[r].pc = "refundSave" /\ \A q \in Request \ {r} : req'[q] = req[q]
      BY <2>3, GotoKeeps
    <3>2. SeatCall(r, req'[r])
      BY <2>1, <3>1 DEF SeatInv, SeatCall, Replies, Paying, Opened, Charged, Confirmed
    <3> QED BY <2>1, <3>1, <3>2, SeatCallMove
  <2> QED BY <2>1, <2>2, <2>3
<1>7. ASSUME NEW r \in Request, CreateCheckout(r)
      PROVE  SeatInv'
  BY <1>0, <1>7, ReplySeat DEF CreateCheckout, docs
<1>8. ASSUME NEW p \in Request, CustomerPays(p)
      PROVE  SeatInv'
  BY <1>8, SeatCallMove DEF CustomerPays
<1>9. ASSUME NEW u \in Student, NEW c \in Course, Enroll(u, c) \/ Unenroll(u, c)
      PROVE  SeatInv'
  BY <1>9, SeatCallMove DEF Enroll, Unenroll
<1> QED
  BY <1>1, <1>2, <1>3, <1>4, <1>5, <1>6, <1>7, <1>8, <1>9, PayingSeat, ConfirmBookingSeat
     DEF PaymentNext

LEMMA SeatStep == NoHandEdits /\ TypeOK /\ MoneyInv /\ SeatInv /\ [Next]_vars => SeatInv'
<1>1. TypeOK /\ SeatInv /\ UNCHANGED vars => SeatInv'
  BY SeatCallMove DEF vars
<1> QED
  BY <1>1, BookingSeat, ScheduleSeat, PaymentSeat, StripeSeat, OrderSeat, CrashSeat DEF Next

LEMMA SeatInit == Init => SeatInv
BY DEF Init, StoreInit, SeatInv, SeatCall, NoPayment, NoBooking, NoSchedule, Fresh, Paying,
   Opened, Charged, Confirmed, Replies

\* Unless bookings are edited by hand, every student with a recorded payment is
\* provided for, and each createPayment in flight still finds what it found.
THEOREM SeatsHold ==
  ASSUME NoHandEdits
  PROVE  Spec => []SeatInv
BY TypeCorrect, MoneyHolds, SeatInit, SeatStep, PTL DEF Spec

\* createPayment, addStudentToSchedule and every interleaving of them: a settled
\* payment has a booking and, if its session is listed, a seat.
THEOREM PaidStudentHasSeatHolds == Spec => []PaidStudentHasSeat
<1>1. CASE {"patchBooking", "removeBooking", "removeSchedule"} \cap Ops = {}
  <2>1. NoHandEdits /\ "removeSchedule" \notin Ops
    BY <1>1 DEF NoHandEdits
  <2>2. MoneyInv /\ SeatInv => PaidStudentHasSeat
    BY <2>1 DEF MoneyInv, DocInv, SeatInv, Provided, Placed, PaidStudentHasSeat
  <2> QED BY <2>1, <2>2, SeatsHold, MoneyHolds, PTL
<1>2. CASE {"patchBooking", "removeBooking", "removeSchedule"} \cap Ops # {}
  <2>1. PaidStudentHasSeat
    BY <1>2 DEF PaidStudentHasSeat
  <2> QED BY <2>1, PTL
<1> QED BY <1>1, <1>2

\* ConfirmBooking and the services that write bookings: without edits by hand and
\* purchase orders, the booking behind a settled payment stays CONFIRMED.
THEOREM PaidBookingHolds == Spec => []PaidBookingIsConfirmed
<1>1. CASE {"patchBooking", "removeBooking", "createOrder"} \cap Ops = {}
  <2>1. NoHandEdits /\ "createOrder" \notin Ops
    BY <1>1 DEF NoHandEdits
  <2>2. MoneyInv /\ SeatInv => PaidBookingIsConfirmed
    BY <2>1 DEF MoneyInv, DocInv, SeatInv, Provided, Booked, PaidBookingIsConfirmed
  <2> QED BY <2>1, <2>2, SeatsHold, MoneyHolds, PTL
<1>2. CASE {"patchBooking", "removeBooking", "createOrder"} \cap Ops # {}
  <2>1. PaidBookingIsConfirmed
    BY <1>2 DEF PaidBookingIsConfirmed
  <2> QED BY <2>1, PTL
<1> QED BY <1>1, <1>2
-----------------------------------------------------------------------------
(* One call after the other.  Serial lets a call begin only when no other  *)
(* is in flight, so what a call has read is still so when it writes.       *)

OneAtATime == Serial => \A q, r \in Request : InFlight(q) /\ InFlight(r) => q = r

\* The calls that a step moves.
LEMMA WhoMoves ==
  ASSUME TypeOK, Next
  PROVE  \/ UNCHANGED req
         \/ Crash
         \/ \E r \in Request : /\ InFlight(r) \/ Quiet
                               /\ \A q \in Request \ {r} : req'[q] = req[q]
<1> DEFINE Moves(r) == /\ InFlight(r) \/ Quiet
                       /\ \A q \in Request \ {r} : req'[q] = req[q]
<1>1. ASSUME NEW r \in Request, NEW op, Start(r, op)
      PROVE  Quiet
  BY <1>1 DEF Start
<1>2. ASSUME NEW r \in Request, NEW code, Reply(r, code)
      PROVE  \A q \in Request \ {r} : req'[q] = req[q]
  BY <1>2 DEF Reply, TypeOK
<1>3. ASSUME NEW r \in Request, NEW pc, Goto(r, pc)
      PROVE  \A q \in Request \ {r} : req'[q] = req[q]
  BY <1>3 DEF Goto, TypeOK
<1>4. ASSUME NEW r \in Request, NEW pc \in Awaits, At(r, pc)
      PROVE  InFlight(r)
  BY <1>4 DEF At, InFlight
<1>5. BookingNext => UNCHANGED req \/ \E r \in Request : Moves(r)
  <2>1. \A r \in Request : InsertBooking(r) \/ CheckBooked(r) => Moves(r)
    BY <1>2, <1>3, <1>4 DEF InsertBooking, CheckBooked, Awaits
  <2>2. \A r \in Request, u \in Student, c \in Course, s \in Session :
          CreateBooking(r, u, c, s) => Moves(r)
    BY <1>1, <1>2 DEF CreateBooking, TypeOK
  <2> QED BY <2>1, <2>2 DEF BookingNext, PatchBooking, RemoveBooking
<1>6. ScheduleNext => UNCHANGED req \/ \E r \in Request : Moves(r)
  <2>1. \A r \in Request : FindNoSchedule(r) \/ PushSchedule(r) \/ NewSchedule(r) => Moves(r)
    BY <1>3, <1>4 DEF FindNoSchedule, PushSchedule, NewSchedule, Awaits
  <2>2. \A r \in Request : FindSchedule(r) => Moves(r)
    BY <1>3, <1>4 DEF FindSchedule, Awaits, TypeOK
  <2> QED BY <2>1, <2>2 DEF ScheduleNext, RemoveSchedule
<1>7. OrderNext => UNCHANGED req \/ \E r \in Request : Moves(r)
  <2>1. \A r \in Request : InsertOrder(r) \/ UnconfirmBooking(r) => Moves(r)
    BY <1>2, <1>3, <1>4 DEF InsertOrder, UnconfirmBooking, Awaits
  <2>2. \A r \in Request : FindOrderBooking(r) => Moves(r)
    BY <1>2, <1>4 DEF FindOrderBooking, Awaits, TypeOK
  <2>3. \A r \in Request, u \in Student, c \in Course, n \in PoNumber :
          CreateOrder(r, u, c, n) => Moves(r)
    BY <1>1, <1>2 DEF CreateOrder, TypeOK
  <2> QED BY <2>1, <2>2, <2>3 DEF OrderNext, UpdateOrder, RemoveOrder
<1>8. StripeNext => \E r \in Request : Moves(r)
  <2>1. \A r \in Request : Answers(r) => \A q \in Request \ {r} : req'[q] = req[q]
    BY <1>2 DEF Answers
  <2>2. StripeNext => \E r \in Request : Quiet /\ (Answers(r) \/ Reply(r, "error"))
    BY <1>1 DEF StripeNext, OpenIntent, OpenCheckoutSession, Opens, ReadIntent, ListIntents,
       KeepCard, HandleWebhook, CancelIntent, RefundIntent
  <2> QED BY <1>2, <2>1, <2>2
<1>9. PaymentNext => UNCHANGED req \/ \E r \in Request : Moves(r)
  <2>1. \A r \in Request :
          (\/ CheckEnrolled(r) \/ SavePending(r) \/ StripeOpensIntent(r)
           \/ StripeRefusesIntent(r) \/ ConfirmBooking(r) \/ SaveSucceeded(r)
           \/ SaveFailed(r) \/ SaveConfirmed(r) \/ StripeRefunds(r)
           \/ StripeRefusesRefund(r) \/ SaveRefunded(r)) => Moves(r)
    BY <1>2, <1>3, <1>4 DEF CheckEnrolled, SavePending, StripeOpensIntent, StripeRefusesIntent,
       ConfirmBooking, SaveSucceeded, SaveFailed, SaveConfirmed, StripeRefunds,
       StripeRefusesRefund, SaveRefunded, Awaits
  <2>2. \A r \in Request : FindBookingToConfirm(r) => Moves(r)
    BY <1>2, <1>4 DEF FindBookingToConfirm, Awaits, TypeOK
  <2>3. \A r \in Request : CreateCheckout(r) => Moves(r)
    BY <1>1, <1>2 DEF CreateCheckout
  <2>4. \A r \in Request, u \in Student, c \in Course, a \in Amount :
          CreatePayment(r, u, c, a) => Moves(r)
    BY <1>1, <1>2 DEF CreatePayment, TypeOK
  <2>5. \A r, p \in Request : ConfirmPayment(r, p) => Moves(r)
    BY <1>1 DEF ConfirmPayment, TypeOK
  <2>6. \A r, p \in Request, a \in Amount : RefundPayment(r, p, a) => Moves(r)
    BY <1>1, <1>2 DEF RefundPayment, TypeOK
  <2>7. /\ \A p \in Request : CustomerPays(p) => UNCHANGED req
        /\ \A u \in Student, c \in Course : Enroll(u, c) \/ Unenroll(u, c) => UNCHANGED req
    BY DEF CustomerPays, Enroll, Unenroll
  <2> HIDE DEF Moves
  <2> QED BY <2>1, <2>2, <2>3, <2>4, <2>5, <2>6, <2>7 DEF PaymentNext
<1> QED BY <1>5, <1>6, <1>7, <1>8, <1>9 DEF Next

LEMMA OneAtATimeStep == TypeOK /\ OneAtATime /\ [Next]_vars => OneAtATime'
<1>1. ASSUME OneAtATime, UNCHANGED req
      PROVE  OneAtATime'
  BY <1>1 DEF OneAtATime, InFlight
<1>2. ASSUME Crash
      PROVE  OneAtATime'
  <2>1. \A r \in Request : ~InFlight(r)'
    BY <1>2 DEF Crash, InFlight, Awaits, Fresh
  <2> QED BY <2>1 DEF OneAtATime
<1>3. ASSUME OneAtATime, NEW r \in Request, InFlight(r) \/ Quiet,
             \A q \in Request \ {r} : req'[q] = req[q]
      PROVE  OneAtATime'
  BY <1>3 DEF OneAtATime, InFlight, Quiet
<1> QED BY <1>1, <1>2, <1>3, WhoMoves DEF vars

LEMMA OneAtATimeHolds == Spec => []OneAtATime
<1>1. Init => OneAtATime
  BY DEF Init, StoreInit, Fresh, OneAtATime, InFlight, Awaits
<1> QED BY <1>1, OneAtATimeStep, TypeCorrect, PTL DEF Spec

\* What a helper that is about to write knows of the schedules.
Unseated(r, call) ==
  /\ call.pc = "payNewSchedule" => \A s \in Request : ~ScheduleOf(s, call.course)
  /\ call.pc = "payPushSchedule" =>
       call.target \in Request /\ ~Seated(call.target, call.student)

\* The inductive invariant of the schedules under serial calls.
SerialSeatInv ==
  /\ OneAtATime
  /\ SerialSeatedOnce
  /\ Serial => \A r \in Request : Unseated(r, req[r])

\* Only the helper writes schedules, and only it decides to.
LEMMA ScheduleEffects ==
  ASSUME TypeOK, [Next]_vars
  PROVE  \/ ScheduleNext
         \/ /\ UNCHANGED schedules
            /\ \A r \in Request : \/ req'[r] = req[r]
                                  \/ req'[r].pc \notin {"payNewSchedule", "payPushSchedule"}
<1> DEFINE Elsewhere(r) ==
             /\ UNCHANGED schedules
             /\ req'[r].pc \notin {"payNewSchedule", "payPushSchedule"}
             /\ \A q \in Request \ {r} : req'[q] = req[q]
<1>1. ASSUME NEW r \in Request, NEW code \in {"ok", "error"}, Reply(r, code),
             UNCHANGED schedules
      PROVE  Elsewhere(r)
  BY <1>1 DEF Reply, Fresh, TypeOK
<1>2. ASSUME NEW r \in Request, NEW pc, pc \notin {"payNewSchedule", "payPushSchedule"},
             Goto(r, pc), UNCHANGED schedules
      PROVE  Elsewhere(r)
  BY <1>2, GotoKeeps
<1>3. ASSUME NEW r \in Request, NEW call, req' = [req EXCEPT ![r] = call],
             call.pc \notin {"payNewSchedule", "payPushSchedule"}, UNCHANGED schedules
      PROVE  Elsewhere(r)
  BY <1>3 DEF TypeOK
<1>4. BookingNext => UNCHANGED <<schedules, req>> \/ \E r \in Request : Elsewhere(r)
  <2>1. \A r \in Request : InsertBooking(r) \/ CheckBooked(r) => Elsewhere(r)
    BY <1>1, <1>2 DEF InsertBooking, CheckBooked, docs
  <2>2. \A r \in Request, u \in Student, c \in Course, s \in Session :
          CreateBooking(r, u, c, s) => Elsewhere(r)
    BY <1>1, <1>3 DEF CreateBooking, docs, Fresh
  <2>3. \A b \in Request : PatchBooking(b) \/ RemoveBooking(b) => UNCHANGED <<schedules, req>>
    BY DEF PatchBooking, RemoveBooking
  <2> HIDE DEF Elsewhere
  <2> QED BY <2>1, <2>2, <2>3 DEF BookingNext
<1>5. OrderNext => UNCHANGED <<schedules, req>> \/ \E r \in Request : Elsewhere(r)
  <2>1. \A r \in Request : InsertOrder(r) \/ UnconfirmBooking(r) => Elsewhere(r)
    BY <1>1, <1>2 DEF InsertOrder, UnconfirmBooking
  <2>2. ASSUME NEW r \in Request, FindOrderBooking(r)
        PROVE  Elsewhere(r)
    <3>1. UNCHANGED schedules
      BY <2>2 DEF FindOrderBooking, docs
    <3>2. CASE Reply(r, "ok") \/ Reply(r, "error")
      BY <1>1, <3>1, <3>2
    <3>3. CASE ~Reply(r, "ok") /\ ~Reply(r, "error")
      <4>1. PICK b \in Request :
              req' = [req EXCEPT ![r].pc = "orderUnconfirm", ![r].target = b,
                                 ![r].read = bookings[b].status]
        BY <2>2, <3>3 DEF FindOrderBooking
      <4> QED BY <3>1, <4>1 DEF TypeOK, Call
    <3> QED BY <3>2, <3>3
  <2>3. \A r \in Request, u \in Student, c \in Course, n \in PoNumber :
          CreateOrder(r, u, c, n) => Elsewhere(r)
    BY <1>1, <1>3 DEF CreateOrder, docs, Fresh
  <2>4. \A o \in Request : UpdateOrder(o) \/ RemoveOrder(o) => UNCHANGED <<schedules, req>>
    BY DEF UpdateOrder, RemoveOrder
  <2> HIDE DEF Elsewhere
  <2> QED BY <2>1, <2>2, <2>3, <2>4 DEF OrderNext
<1>6. StripeNext => \E r \in Request : Elsewhere(r)
  <2>1. \A r \in Request : Answers(r) /\ UNCHANGED schedules => Elsewhere(r)
    BY <1>1 DEF Answers
  <2>2. StripeNext => \E r \in Request : (Answers(r) \/ Reply(r, "error")) /\ UNCHANGED schedules
    BY DEF StripeNext, OpenIntent, OpenCheckoutSession, Opens, ReadIntent, ListIntents,
       KeepCard, HandleWebhook, CancelIntent, RefundIntent, docs
  <2> QED BY <1>1, <2>1, <2>2
<1>7. PaymentNext => UNCHANGED <<schedules, req>> \/ \E r \in Request : Elsewhere(r)
  <2>1. \A r \in Request :
          (\/ CheckEnrolled(r) \/ SavePending(r) \/ StripeOpensIntent(r)
           \/ StripeRefusesIntent(r) \/ ConfirmBooking(r) \/ SaveSucceeded(r)
           \/ SaveFailed(r) \/ SaveConfirmed(r) \/ StripeRefunds(r)
           \/ StripeRefusesRefund(r) \/ SaveRefunded(r) \/ CreateCheckout(r)) => Elsewhere(r)
    BY <1>1, <1>2 DEF CheckEnrolled, SavePending, StripeOpensIntent, StripeRefusesIntent,
       ConfirmBooking, SaveSucceeded, SaveFailed, SaveConfirmed, StripeRefunds,
       StripeRefusesRefund, SaveRefunded, CreateCheckout, docs
  <2>2. ASSUME NEW r \in Request, FindBookingToConfirm(r)
        PROVE  Elsewhere(r)
    <3>1. UNCHANGED schedules
      BY <2>2 DEF FindBookingToConfirm, docs
    <3>2. CASE Reply(r, "error")
      BY <1>1, <3>1, <3>2
    <3>3. CASE ~Reply(r, "error")
      <4>1. PICK b \in Request :
              req' = [req EXCEPT ![r].pc = "payConfirm", ![r].target = b,
                                 ![r].session = bookings[b].session,
                                 ![r].read = bookings[b].status]
        BY <2>2, <3>3 DEF FindBookingToConfirm
      <4> QED BY <3>1, <4>1 DEF TypeOK, Call
    <3> QED BY <3>2, <3>3
  <2>3. \A r \in Request, u \in Student, c \in Course, a \in Amount :
          CreatePayment(r, u, c, a) => Elsewhere(r)
    BY <1>1, <1>3 DEF CreatePayment, docs, Fresh
  <2>4. \A r, p \in Request : ConfirmPayment(r, p) => Elsewhere(r)
    BY <1>3 DEF ConfirmPayment, docs, Fresh
  <2>5. \A r, p \in Request, a \in Amount : RefundPayment(r, p, a) => Elsewhere(r)
    BY <1>1, <1>3 DEF RefundPayment, docs, Fresh
  <2>6. /\ \A p \in Request : CustomerPays(p) => UNCHANGED <<schedules, req>>
        /\ \A u \in Student, c \in Course :
             Enroll(u, c) \/ Unenroll(u, c) => UNCHANGED <<schedules, req>>
    BY DEF CustomerPays, Enroll, Unenroll
  <2> HIDE DEF Elsewhere
  <2> QED BY <2>1, <2>2, <2>3, <2>4, <2>5, <2>6 DEF PaymentNext
<1>8. Crash => /\ UNCHANGED schedules
               /\ \A r \in Request : \/ req'[r] = req[r]
                                     \/ req'[r].pc \notin {"payNewSchedule", "payPushSchedule"}
  BY DEF Crash, docs, Fresh
<1> QED BY <1>4, <1>5, <1>6, <1>7, <1>8 DEF Next, vars

\* A step of the helper by r, when nobody else is in flight.
LEMMA HelperStep ==
  ASSUME TypeOK, SerialSeatInv, Serial, ScheduleNext
  PROVE  SerialSeatedOnce' /\ \A r \in Request : Unseated(r, req[r])'
<1> DEFINE Idle(q) == req'[q].pc \notin {"payNewSchedule", "payPushSchedule"}
<1>o. ASSUME NEW r \in Request, InFlight(r)
      PROVE  \A q \in Request \ {r} : req[q].pc \notin {"payNewSchedule", "payPushSchedule"}
  BY <1>o DEF SerialSeatInv, OneAtATime, InFlight, Awaits
<1>u. SerialSeatedOnce /\ \A r \in Request : Unseated(r, req[r])
  BY DEF SerialSeatInv
<1>s. UNCHANGED schedules => SerialSeatedOnce'
  BY <1>u DEF SerialSeatedOnce
<1>1. ASSUME NEW r \in Request, FindNoSchedule(r)
      PROVE  SerialSeatedOnce' /\ \A q \in Request : Unseated(q, req[q])'
  <2>1. /\ req'[r].pc = "payNewSchedule" /\ req'[r].course = req[r].course
        /\ \A q \in Request \ {r} : req'[q] = req[q]
    BY <1>1, GotoKeeps DEF FindNoSchedule
  <2>2. InFlight(r)
    BY <1>1 DEF FindNoSchedule, At, InFlight, Awaits
  <2>3. UNCHANGED schedules /\ ~\E s \in Request : ScheduleOf(s, req[r].course)
    BY <1>1 DEF FindNoSchedule, docs
  <2>4. Unseated(r, req[r])'
    BY <2>1, <2>3 DEF Unseated, ScheduleOf
  <2>5. \A q \in Request \ {r} : Unseated(q, req[q])'
    BY <1>o, <2>1, <2>2 DEF Unseated
  <2> QED BY <1>s, <2>3, <2>4, <2>5
<1>2. ASSUME NEW r \in Request, FindSchedule(r)
      PROVE  SerialSeatedOnce' /\ \A q \in Request : Unseated(q, req[q])'
  <2>1. InFlight(r) /\ UNCHANGED schedules
    BY <1>2 DEF FindSchedule, At, InFlight, Awaits, docs
  <2>2. \A q \in Request \ {r} : req'[q] = req[q]
    BY <1>2, GotoKeeps DEF FindSchedule, TypeOK
  <2>3. \A q \in Request \ {r} : Unseated(q, req[q])'
    BY <1>o, <2>1, <2>2 DEF Unseated
  <2>4. Unseated(r, req[r])'
    <3>1. CASE Goto(r, "paySave")
      BY <3>1, GotoKeeps DEF Unseated
    <3>2. CASE ~Goto(r, "paySave")
      <4>1. PICK s \in Request :
              /\ ~Seated(s, req[r].student)
              /\ req' = [req EXCEPT ![r].pc = "payPushSchedule", ![r].target = s]
        BY <1>2, <3>2 DEF FindSchedule
      <4>2. /\ req'[r].pc = "payPushSchedule" /\ req'[r].target = s
            /\ req'[r].student = req[r].student
        BY <4>1 DEF TypeOK, Call
      <4> QED BY <2>1, <4>1, <4>2 DEF Unseated, Seated
    <3> QED BY <3>1, <3>2
  <2> QED BY <1>s, <2>1, <2>3, <2>4
<1>3. ASSUME NEW r \in Request, PushSchedule(r)
      PROVE  SerialSeatedOnce' /\ \A q \in Request : Unseated(q, req[q])'
  <2>1. PICK t \in Request : t = req[r].target /\ ~Seated(t, req[r].student)
    BY <1>3, <1>u DEF PushSchedule, At, Unseated
  <2>2. PICK u : u = req[r].student
    OBVIOUS
  <2>3. ASSUME NEW x \in Request
        PROVE  /\ schedules'[x].exists = schedules[x].exists
               /\ schedules'[x].course = schedules[x].course
               /\ \A v \in Student : schedules'[x].seats[v] <= 1
    <3>1. schedules' = IF schedules[t].exists
                         THEN [schedules EXCEPT ![t].seats[u] = schedules[t].seats[u] + 1]
                         ELSE schedules
      BY <1>3, <2>1, <2>2 DEF PushSchedule
    <3>2. CASE x = t /\ schedules[t].exists
      <4>1. schedules[x] \in ScheduleDoc /\ schedules[x].seats \in [Student -> Nat]
        BY DEF TypeOK, ScheduleDoc
      <4>2. schedules'[x] = [schedules[x] EXCEPT !.seats[u] = schedules[x].seats[u] + 1]
        BY <3>1, <3>2 DEF TypeOK
      <4>3. /\ schedules'[x].exists = schedules[x].exists
            /\ schedules'[x].course = schedules[x].course
            /\ schedules'[x].seats = [schedules[x].seats EXCEPT ![u] = schedules[x].seats[u] + 1]
        BY <4>1, <4>2 DEF ScheduleDoc
      <4>4. ASSUME NEW v \in Student
            PROVE  schedules'[x].seats[v] <= 1
        <5>1. schedules[x].seats[v] \in Nat /\ schedules[x].seats[v] <= 1
          BY <1>u, <4>1 DEF SerialSeatedOnce
        <5>2. CASE v = u
          <6>1. schedules[x].seats[v] = 0
            BY <2>1, <2>2, <3>2, <5>1, <5>2 DEF Seated
          <6> QED BY <4>1, <4>3, <5>2, <6>1
        <5>3. CASE v # u
          BY <4>1, <4>3, <5>1, <5>3
        <5> QED BY <5>2, <5>3
      <4> QED BY <4>3, <4>4
    <3>3. CASE ~(x = t /\ schedules[t].exists)
      <4>1. schedules'[x] = schedules[x]
        BY <3>1, <3>3 DEF TypeOK
      <4> QED BY <1>u, <4>1 DEF SerialSeatedOnce
    <3> QED BY <3>2, <3>3
  <2>4. SerialSeatedOnce'
    BY <1>u, <2>3 DEF SerialSeatedOnce
  <2>5. InFlight(r)
    BY <1>3 DEF PushSchedule, At, InFlight, Awaits
  <2>6. req'[r].pc = "paySave" /\ \A q \in Request \ {r} : req'[q] = req[q]
    BY <1>3, GotoKeeps DEF PushSchedule
  <2>7. \A q \in Request : Unseated(q, req[q])'
    BY <1>o, <2>5, <2>6 DEF Unseated
  <2> QED BY <2>4, <2>7
<1>4. ASSUME NEW r \in Request, NewSchedule(r)
      PROVE  SerialSeatedOnce' /\ \A q \in Request : Unseated(q, req[q])'
  <2>1. \A s \in Request : schedules[s].exists => schedules[s].course # req[r].course
    BY <1>4, <1>u DEF NewSchedule, At, Unseated, ScheduleOf
  <2>2. /\ schedules'[r].exists /\ schedules'[r].course = req[r].course
        /\ \A v \in Student : schedules'[r].seats[v] <= 1
        /\ \A s \in Request \ {r} : schedules'[s] = schedules[s]
    BY <1>4 DEF NewSchedule, TypeOK
  <2>3. SerialSeatedOnce'
    BY <1>u, <2>1, <2>2 DEF SerialSeatedOnce
  <2>4. InFlight(r)
    BY <1>4 DEF NewSchedule, At, InFlight, Awaits
  <2>5. req'[r].pc = "paySave" /\ \A q \in Request \ {r} : req'[q] = req[q]
    BY <1>4, GotoKeeps DEF NewSchedule
  <2>6. \A q \in Request : Unseated(q, req[q])'
    BY <1>o, <2>4, <2>5 DEF Unseated
  <2> QED BY <2>3, <2>6
<1>5. ASSUME NEW s \in Request, RemoveSchedule(s)
      PROVE  SerialSeatedOnce' /\ \A q \in Request : Unseated(q, req[q])'
  <2>1. \A q \in Request : req[q].pc \notin {"payNewSchedule", "payPushSchedule"}
    BY <1>5 DEF RemoveSchedule, Quiet, InFlight, Awaits
  <2>2. /\ req' = req /\ ~schedules'[s].exists /\ (\A v \in Student : schedules'[s].seats[v] = 0)
        /\ \A x \in Request \ {s} : schedules'[x] = schedules[x]
    BY <1>5 DEF RemoveSchedule, NoSchedule, TypeOK
  <2>3. SerialSeatedOnce'
    BY <1>u, <2>2 DEF SerialSeatedOnce
  <2> QED BY <2>1, <2>2, <2>3 DEF Unseated
<1> QED BY <1>1, <1>2, <1>3, <1>4, <1>5 DEF ScheduleNext

LEMMA SerialSeatStep == TypeOK /\ SerialSeatInv /\ [Next]_vars => SerialSeatInv'
<1> SUFFICES ASSUME TypeOK, SerialSeatInv, [Next]_vars
             PROVE  SerialSeatInv'
  OBVIOUS
<1>1. OneAtATime'
  BY OneAtATimeStep DEF SerialSeatInv
<1>2. CASE ~Serial
  BY <1>1, <1>2 DEF SerialSeatInv, SerialSeatedOnce
<1>3. CASE Serial /\ ScheduleNext
  BY <1>1, <1>3, HelperStep DEF SerialSeatInv
<1>4. CASE Serial /\ ~ScheduleNext
  <2>1. /\ UNCHANGED schedules
        /\ \A r \in Request : \/ req'[r] = req[r]
                              \/ req'[r].pc \notin {"payNewSchedule", "payPushSchedule"}
    BY <1>4, ScheduleEffects
  <2>2. SerialSeatedOnce'
    BY <2>1 DEF SerialSeatInv, SerialSeatedOnce
  <2>3. \A r \in Request : Unseated(r, req[r])'
    BY <1>4, <2>1 DEF SerialSeatInv, Unseated, ScheduleOf, Seated
  <2> QED BY <1>1, <2>2, <2>3 DEF SerialSeatInv
<1> QED BY <1>2, <1>3, <1>4

\* addStudentToSchedule: when calls do not overlap, a course has one schedule and
\* a student one seat in it, crashes and removals included.
THEOREM SerialSeatedOnceHolds == Spec => []SerialSeatedOnce
<1>1. Init => SerialSeatInv
  BY DEF Init, StoreInit, Fresh, NoSchedule, OneAtATime, InFlight, Awaits, SerialSeatInv,
     SerialSeatedOnce, Unseated
<1>2. SerialSeatInv => SerialSeatedOnce
  BY DEF SerialSeatInv
<1> QED BY <1>1, <1>2, SerialSeatStep, TypeCorrect, PTL DEF Spec

\* What a step does to the payment r and to the call that makes it: a call begins
\* to pay only when its student has not paid for its course, it keeps both, and
\* but for confirm only the save that ends it makes a payment SUCCEEDED.
PayEffect(r) ==
  /\ req'[r].pc = "confirmSave" => req[r].pc = "confirmSave"
  /\ req'[r].pc \in Paying =>
       \/ /\ req[r].pc \in Paying
          /\ req'[r].student = req[r].student /\ req'[r].course = req[r].course
       \/ /\ UNCHANGED payments
          /\ \A p \in Request : ~PaidFor(p, req'[r].student, req'[r].course)
  /\ req'[r].pc \in Opened =>
       /\ payments'[r].student = req'[r].student
       /\ payments'[r].course = req'[r].course
  /\ payments'[r].status = "succeeded" =>
       /\ payments'[r].student = payments[r].student
       /\ payments'[r].course = payments[r].course
       /\ \/ payments[r].status = "succeeded"
          \/ req[r].pc = "paySave" /\ req'[r].pc = "ok"

\* createPayment has saved what it was called with.
OwnPayment ==
  \A r \in Request : req[r].pc \in Opened =>
    payments[r].student = req[r].student /\ payments[r].course = req[r].course

\* Without confirm there is no call to confirm.
NoConfirm == "confirm" \notin Ops => \A r \in Request : req[r].pc # "confirmSave"

\* A call that leaves the payments alone and does not pay, or keeps paying.
LEMMA LeavesPayments ==
  ASSUME OwnPayment, NEW r \in Request, UNCHANGED payments,
         req'[r].pc # "confirmSave" \/ req'[r] = req[r],
         \/ req'[r] = req[r]
         \/ req'[r].pc \notin Paying
         \/ /\ req[r].pc \in Paying /\ (req'[r].pc \in Opened => req[r].pc \in Opened)
            /\ req'[r].student = req[r].student /\ req'[r].course = req[r].course
  PROVE  PayEffect(r)
BY DEF PayEffect, OwnPayment, Paying

LEMMA ReplyPay ==
  ASSUME TypeOK, OwnPayment, NEW r \in Request, NEW code \in Replies, Reply(r, code),
         UNCHANGED payments
  PROVE  \A q \in Request : PayEffect(q)
<1>1. /\ req'[r].pc \notin Paying /\ req'[r].pc # "confirmSave"
      /\ \A q \in Request \ {r} : req'[q] = req[q]
  BY ReplyIs DEF Replies, Paying, Opened, Charged
<1> QED BY <1>1, LeavesPayments

LEMMA GotoPay ==
  ASSUME TypeOK, OwnPayment, NEW r \in Request, NEW pc, Goto(r, pc), UNCHANGED payments,
         pc # "confirmSave",
         \/ pc \notin Paying
         \/ req[r].pc \in Paying /\ (pc \in Opened => req[r].pc \in Opened)
  PROVE  \A q \in Request : PayEffect(q)
<1>1. /\ req'[r].pc = pc
      /\ req'[r].student = req[r].student /\ req'[r].course = req[r].course
      /\ \A q \in Request \ {r} : req'[q] = req[q]
  BY GotoKeeps
<1> QED BY <1>1, LeavesPayments

\* A save that answers and touches one payment.
LEMMA SavePay ==
  ASSUME TypeOK, OwnPayment, NEW r \in Request, NEW code \in Replies, Reply(r, code),
         \A p \in Request :
           /\ payments'[p].student = payments[p].student
           /\ payments'[p].course = payments[p].course
           /\ payments'[p].status = "succeeded" =>
                \/ payments[p].status = "succeeded"
                \/ p = r /\ req[r].pc = "paySave" /\ code = "ok"
  PROVE  \A q \in Request : PayEffect(q)
<1>1. /\ req'[r].pc = code /\ code \notin Paying /\ code # "confirmSave"
      /\ \A q \in Request \ {r} : req'[q] = req[q]
  BY DEF Reply, Fresh, TypeOK, Replies, Paying, Opened, Charged
<1>2. ASSUME NEW q \in Request, req'[q].pc \in Paying
      PROVE  req'[q] = req[q]
  BY <1>1, <1>2
<1> QED BY <1>1, <1>2 DEF PayEffect, OwnPayment, Paying

LEMMA AsidePay ==
  ASSUME TypeOK, OwnPayment, BookingNext \/ OrderNext \/ StripeNext \/ Crash
  PROVE  \A q \in Request : PayEffect(q)
<1>0. /\ {"ok", "error"} \subseteq Replies
      /\ Paying \cap {"bookBooked", "bookInsert", "orderInsert", "orderBooking",
                      "orderUnconfirm", "crashed"} = {}
  BY DEF Replies, Paying, Opened, Charged
<1>n. UNCHANGED <<payments, req>> => \A q \in Request : PayEffect(q)
  BY LeavesPayments
<1>1. ASSUME BookingNext
      PROVE  \A q \in Request : PayEffect(q)
  <2>1. ASSUME NEW r \in Request, InsertBooking(r) \/ CheckBooked(r)
        PROVE  \A q \in Request : PayEffect(q)
    BY <1>0, <2>1, ReplyPay, GotoPay DEF InsertBooking, CheckBooked, docs
  <2>2. ASSUME NEW r \in Request, NEW u \in Student, NEW c \in Course, NEW s \in Session,
               CreateBooking(r, u, c, s)
        PROVE  \A q \in Request : PayEffect(q)
    <3>1. CASE Reply(r, "error")
      BY <1>0, <2>2, <3>1, ReplyPay DEF CreateBooking, docs
    <3>2. CASE ~Reply(r, "error")
      <4>1. /\ req'[r].pc = "bookBooked" /\ \A q \in Request \ {r} : req'[q] = req[q]
            /\ UNCHANGED payments
        BY <2>2, <3>2 DEF CreateBooking, Fresh, TypeOK, docs
      <4> QED BY <1>0, <4>1, LeavesPayments
    <3> QED BY <3>1, <3>2
  <2>3. ASSUME NEW b \in Request, PatchBooking(b) \/ RemoveBooking(b)
        PROVE  \A q \in Request : PayEffect(q)
    BY <1>n, <2>3 DEF PatchBooking, RemoveBooking
  <2> QED BY <1>1, <2>1, <2>2, <2>3 DEF BookingNext
<1>2. ASSUME OrderNext
      PROVE  \A q \in Request : PayEffect(q)
  <2>1. ASSUME NEW r \in Request, InsertOrder(r) \/ UnconfirmBooking(r)
        PROVE  \A q \in Request : PayEffect(q)
    BY <1>0, <2>1, ReplyPay, GotoPay DEF InsertOrder, UnconfirmBooking
  <2>2. ASSUME NEW r \in Request, FindOrderBooking(r)
        PROVE  \A q \in Request : PayEffect(q)
    <3>1. UNCHANGED payments
      BY <2>2 DEF FindOrderBooking, docs
    <3>2. CASE Reply(r, "ok") \/ Reply(r, "error")
      BY <1>0, <3>1, <3>2, ReplyPay
    <3>3. CASE ~Reply(r, "ok") /\ ~Reply(r, "error")
      <4>1. PICK b \in Request :
              req' = [req EXCEPT ![r].pc = "orderUnconfirm", ![r].target = b,
                                 ![r].read = bookings[b].status]
        BY <2>2, <3>3 DEF FindOrderBooking
      <4>2. /\ req'[r].pc = "orderUnconfirm"
            /\ \A q \in Request \ {r} : req'[q] = req[q]
        BY <4>1 DEF TypeOK, Call
      <4> QED BY <1>0, <3>1, <4>2, LeavesPayments
    <3> QED BY <3>2, <3>3
  <2>3. ASSUME NEW r \in Request, NEW u \in Student, NEW c \in Course, NEW n \in PoNumber,
               CreateOrder(r, u, c, n)
        PROVE  \A q \in Request : PayEffect(q)
    <3>1. CASE Reply(r, "error")
      BY <1>0, <2>3, <3>1, ReplyPay DEF CreateOrder, docs
    <3>2. CASE ~Reply(r, "error")
      <4>1. /\ req'[r].pc = "orderInsert" /\ \A q \in Request \ {r} : req'[q] = req[q]
            /\ UNCHANGED payments
        BY <2>3, <3>2 DEF CreateOrder, Fresh, TypeOK, docs
      <4> QED BY <1>0, <4>1, LeavesPayments
    <3> QED BY <3>1, <3>2
  <2>4. ASSUME NEW o \in Request, UpdateOrder(o) \/ RemoveOrder(o)
        PROVE  \A q \in Request : PayEffect(q)
    BY <1>n, <2>4 DEF UpdateOrder, RemoveOrder, createPaymentFromPurchaseOrder
  <2> QED BY <1>2, <2>1, <2>2, <2>3, <2>4 DEF OrderNext
<1>3. ASSUME StripeNext
      PROVE  \A q \in Request : PayEffect(q)
  <2>1. PICK r \in Request : (Reply(r, "ok") \/ Reply(r, "error")) /\ UNCHANGED payments
    BY <1>3 DEF StripeNext, OpenIntent, OpenCheckoutSession, Opens, ReadIntent, ListIntents, KeepCard,
       HandleWebhook, CancelIntent, RefundIntent, Answers, docs
  <2> QED BY <1>0, <2>1, ReplyPay
<1>4. ASSUME Crash
      PROVE  \A q \in Request : PayEffect(q)
  <2>1. /\ UNCHANGED payments
        /\ \A q \in Request : \/ req'[q] = req[q]
                              \/ req'[q].pc \notin Paying /\ req'[q].pc # "confirmSave"
    BY <1>0, <1>4 DEF Crash, Fresh, docs
  <2> QED BY <2>1, LeavesPayments
<1> QED BY <1>1, <1>2, <1>3, <1>4

LEMMA HelperPay ==
  ASSUME TypeOK, OwnPayment, ScheduleNext
  PROVE  \A q \in Request : PayEffect(q)
<1>0. {"payFindSchedule", "payPushSchedule", "payNewSchedule", "paySave"} \subseteq Opened
  BY DEF Opened, Charged
<1>1. ASSUME NEW r \in Request, FindNoSchedule(r) \/ PushSchedule(r) \/ NewSchedule(r)
      PROVE  \A q \in Request : PayEffect(q)
  BY <1>0, <1>1, GotoPay DEF FindNoSchedule, PushSchedule, NewSchedule, At, docs, Paying
<1>2. ASSUME NEW r \in Request, FindSchedule(r)
      PROVE  \A q \in Request : PayEffect(q)
  <2>1. UNCHANGED payments /\ req[r].pc \in Opened
    BY <1>0, <1>2 DEF FindSchedule, At, docs
  <2>2. CASE Goto(r, "paySave")
    BY <1>0, <2>1, <2>2, GotoPay DEF Paying
  <2>3. CASE ~Goto(r, "paySave")
    <3>1. PICK s \in Request : req' = [req EXCEPT ![r].pc = "payPushSchedule", ![r].target = s]
      BY <1>2, <2>3 DEF FindSchedule
    <3>2. /\ req'[r].pc = "payPushSchedule"
          /\ req'[r].student = req[r].student /\ req'[r].course = req[r].course
          /\ \A q \in Request \ {r} : req'[q] = req[q]
      BY <3>1 DEF TypeOK, Call
    <3> QED BY <1>0, <2>1, <3>2, LeavesPayments DEF Paying
  <2> QED BY <2>2, <2>3
<1>3. ASSUME NEW s \in Request, RemoveSchedule(s)
      PROVE  \A q \in Request : PayEffect(q)
  BY <1>3, LeavesPayments DEF RemoveSchedule
<1> QED BY <1>1, <1>2, <1>3 DEF ScheduleNext

LEMMA CreatePaymentPay ==
  ASSUME TypeOK, OwnPayment, NEW r \in Request,
         \/ \E u \in Student, c \in Course, a \in Amount : CreatePayment(r, u, c, a)
         \/ CheckEnrolled(r) \/ SavePending(r) \/ StripeOpensIntent(r) \/ StripeRefusesIntent(r)
         \/ FindBookingToConfirm(r) \/ ConfirmBooking(r) \/ SaveSucceeded(r) \/ SaveFailed(r)
  PROVE  \A q \in Request : PayEffect(q)
<1>0. /\ {"ok", "error"} \subseteq Replies
      /\ {"payStripe", "payBooking", "payConfirm", "payFailed", "payFailedCharged",
          "payFindSchedule", "paySave"} \subseteq Opened
      /\ Opened \subseteq Paying /\ {"payEnrolled", "payPending"} \subseteq Paying \ Opened
  BY DEF Replies, Paying, Opened, Charged
<1>1. ASSUME NEW u \in Student, NEW c \in Course, NEW a \in Amount, CreatePayment(r, u, c, a)
      PROVE  \A q \in Request : PayEffect(q)
  <2>1. CASE Reply(r, "error")
    BY <1>0, <1>1, <2>1, ReplyPay DEF CreatePayment, docs
  <2>2. CASE ~Reply(r, "error")
    <3>1. /\ req'[r].pc = "payEnrolled" /\ req'[r].student = u /\ req'[r].course = c
          /\ \A q \in Request \ {r} : req'[q] = req[q]
          /\ UNCHANGED payments /\ \A p \in Request : ~PaidFor(p, u, c)
      BY <1>1, <2>2 DEF CreatePayment, Fresh, TypeOK, docs
    <3>2. PayEffect(r)
      BY <1>0, <3>1 DEF PayEffect
    <3> QED BY <3>1, <3>2, LeavesPayments
  <2> QED BY <2>1, <2>2
<1>2. ASSUME CheckEnrolled(r)
      PROVE  \A q \in Request : PayEffect(q)
  BY <1>0, <1>2, ReplyPay, GotoPay DEF CheckEnrolled, At, docs
<1>3. ASSUME SavePending(r)
      PROVE  \A q \in Request : PayEffect(q)
  <2>1. /\ req[r].pc = "payPending" /\ req'[r].pc = "payStripe"
        /\ req'[r].student = req[r].student /\ req'[r].course = req[r].course
        /\ \A q \in Request \ {r} : req'[q] = req[q]
    BY <1>3, GotoKeeps DEF SavePending, At
  <2>2. /\ payments'[r].status = "pending"
        /\ payments'[r].student = req[r].student /\ payments'[r].course = req[r].course
        /\ \A q \in Request \ {r} : payments'[q] = payments[q]
    BY <1>3 DEF SavePending, TypeOK
  <2>3. PayEffect(r)
    BY <1>0, <2>1, <2>2 DEF PayEffect
  <2>4. \A q \in Request \ {r} : PayEffect(q)
    BY <1>0, <2>1, <2>2 DEF PayEffect, OwnPayment
  <2> QED BY <2>3, <2>4
<1>4. ASSUME StripeOpensIntent(r) \/ StripeRefusesIntent(r) \/ ConfirmBooking(r)
      PROVE  \A q \in Request : PayEffect(q)
  BY <1>0, <1>4, GotoPay DEF StripeOpensIntent, StripeRefusesIntent, ConfirmBooking, At, docs
<1>5. ASSUME FindBookingToConfirm(r)
      PROVE  \A q \in Request : PayEffect(q)
  <2>1. UNCHANGED payments /\ req[r].pc \in Opened
    BY <1>0, <1>5 DEF FindBookingToConfirm, At, docs
  <2>2. CASE Reply(r, "error")
    BY <1>0, <2>1, <2>2, ReplyPay
  <2>3. CASE ~Reply(r, "error")
    <3>1. PICK b \in Request :
            req' = [req EXCEPT ![r].pc = "payConfirm", ![r].target = b,
                               ![r].session = bookings[b].session,
                               ![r].read = bookings[b].status]
      BY <1>5, <2>3 DEF FindBookingToConfirm
    <3>2. /\ req'[r].pc = "payConfirm"
          /\ req'[r].student = req[r].student /\ req'[r].course = req[r].course
          /\ \A q \in Request \ {r} : req'[q] = req[q]
      BY <3>1 DEF TypeOK, Call
    <3> QED BY <1>0, <2>1, <3>2, LeavesPayments
  <2> QED BY <2>2, <2>3
<1>6. ASSUME SaveSucceeded(r)
      PROVE  \A q \in Request : PayEffect(q)
  <2>1. req[r].pc = "paySave" /\ Reply(r, "ok")
    BY <1>6 DEF SaveSucceeded, At
  <2>2. \A p \in Request : /\ payments'[p].student = payments[p].student
                           /\ payments'[p].course = payments[p].course
                           /\ p # r => payments'[p] = payments[p]
    BY <1>6 DEF SaveSucceeded, TypeOK, PaymentDoc
  <2> QED BY <1>0, <2>1, <2>2, SavePay
<1>7. ASSUME SaveFailed(r)
      PROVE  \A q \in Request : PayEffect(q)
  <2>1. \A p \in Request : /\ payments'[p].student = payments[p].student
                           /\ payments'[p].course = payments[p].course
                           /\ payments'[p].status = "succeeded" =>
                                payments[p].status = "succeeded"
    BY <1>7 DEF SaveFailed, TypeOK, PaymentDoc
  <2> QED BY <1>0, <1>7, <2>1, SavePay DEF SaveFailed
<1> QED BY <1>1, <1>2, <1>3, <1>4, <1>5, <1>6, <1>7

LEMMA PaymentPay ==
  ASSUME TypeOK, OwnPayment, "confirm" \notin Ops, NoConfirm, PaymentNext
  PROVE  \A q \in Request : PayEffect(q)
<1>0. /\ {"ok", "error"} \subseteq Replies
      /\ Paying \cap {"refundStripe", "refundSave"} = {}
  BY DEF Replies, Paying, Opened, Charged
<1>n. UNCHANGED <<payments, req>> => \A q \in Request : PayEffect(q)
  BY LeavesPayments
<1>1. ASSUME NEW r \in Request, StripeRefunds(r) \/ StripeRefusesRefund(r) \/ CreateCheckout(r)
      PROVE  \A q \in Request : PayEffect(q)
  BY <1>0, <1>1, ReplyPay, GotoPay DEF StripeRefunds, StripeRefusesRefund, CreateCheckout, docs
<1>2. ASSUME NEW r \in Request, SaveRefunded(r)
      PROVE  \A q \in Request : PayEffect(q)
  <2>1. \A p \in Request : /\ payments'[p].student = payments[p].student
                           /\ payments'[p].course = payments[p].course
                           /\ payments'[p].status = "succeeded" =>
                                payments[p].status = "succeeded"
    BY <1>2 DEF SaveRefunded, TypeOK, PaymentDoc
  <2> QED BY <1>0, <1>2, <2>1, SavePay DEF SaveRefunded
<1>3. ASSUME NEW r \in Request, NEW p \in Request, NEW a \in Amount, RefundPayment(r, p, a)
      PROVE  \A q \in Request : PayEffect(q)
  <2>1. CASE Reply(r, "error")
    BY <1>0, <1>3, <2>1, ReplyPay DEF RefundPayment, docs
  <2>2. CASE ~Reply(r, "error")
    <3>1. /\ req'[r].pc = "refundStripe" /\ \A q \in Request \ {r} : req'[q] = req[q]
          /\ UNCHANGED payments
      BY <1>3, <2>2 DEF RefundPayment, Fresh, TypeOK, docs
    <3> QED BY <1>0, <3>1, LeavesPayments
  <2> QED BY <2>1, <2>2
<1>4. ASSUME NEW r \in Request, SaveConfirmed(r) \/ \E p \in Request : ConfirmPayment(r, p)
      PROVE  FALSE
  BY <1>4 DEF SaveConfirmed, At, NoConfirm, ConfirmPayment, Start
<1>5. ASSUME NEW p \in Request, CustomerPays(p)
      PROVE  \A q \in Request : PayEffect(q)
  BY <1>5, <1>n DEF CustomerPays
<1>6. ASSUME NEW u \in Student, NEW c \in Course, Enroll(u, c) \/ Unenroll(u, c)
      PROVE  \A q \in Request : PayEffect(q)
  BY <1>6, <1>n DEF Enroll, Unenroll
<1> QED BY <1>1, <1>2, <1>3, <1>4, <1>5, <1>6, CreatePaymentPay DEF PaymentNext

OncePaid ==
  \A p, q \in Request :
    /\ payments[p].status = "succeeded" /\ payments[q].status = "succeeded"
    /\ payments[p].student = payments[q].student /\ payments[p].course = payments[q].course
    => p = q

\* Who pays has not paid.
Unpaid ==
  \A r, p \in Request :
    req[r].pc \in Paying /\ payments[p].status = "succeeded" =>
      ~(payments[p].student = req[r].student /\ payments[p].course = req[r].course)

\* The inductive invariant of serial payments.
SerialPayInv ==
  /\ OneAtATime
  /\ Serial /\ "confirm" \notin Ops => NoConfirm /\ OwnPayment /\ OncePaid /\ Unpaid

LEMMA SerialPayEffect ==
  ASSUME Serial, OneAtATime, OwnPayment, OncePaid, Unpaid, NoConfirm,
         \A r \in Request : PayEffect(r)
  PROVE  NoConfirm' /\ OwnPayment' /\ OncePaid' /\ Unpaid'
<1>0. "paySave" \in Awaits /\ "paySave" \in Opened /\ Opened \subseteq Paying /\ "ok" \notin Paying
  BY DEF Awaits, Opened, Charged, Paying
<1>1. NoConfirm'
  BY DEF NoConfirm, PayEffect
<1>2. OwnPayment'
  BY DEF OwnPayment, PayEffect
\* A payment that becomes SUCCEEDED is the call's own, and no other has paid.
<1>3. ASSUME NEW p \in Request, payments'[p].status = "succeeded"
      PROVE  /\ payments'[p].student = payments[p].student
             /\ payments'[p].course = payments[p].course
             /\ payments[p].status # "succeeded" =>
                  /\ req[p].pc = "paySave" /\ req'[p].pc = "ok"
                  /\ \A q \in Request : payments[q].status = "succeeded" =>
                       ~(/\ payments[q].student = payments[p].student
                         /\ payments[q].course = payments[p].course)
  BY <1>0, <1>3 DEF PayEffect, OwnPayment, Unpaid
<1>4. OncePaid'
  <2>1. ASSUME NEW p \in Request, NEW q \in Request,
               payments'[p].status = "succeeded", payments'[q].status = "succeeded",
               payments'[p].student = payments'[q].student,
               payments'[p].course = payments'[q].course
        PROVE  p = q
    <3>1. CASE payments[p].status = "succeeded" /\ payments[q].status = "succeeded"
      BY <1>3, <2>1, <3>1 DEF OncePaid
    <3>2. CASE payments[p].status # "succeeded" /\ payments[q].status # "succeeded"
      BY <1>0, <1>3, <2>1, <3>2 DEF OneAtATime, InFlight
    <3> QED BY <1>3, <2>1, <3>1, <3>2
  <2> QED BY <2>1 DEF OncePaid
<1>5. Unpaid'
  <2>1. ASSUME NEW r \in Request, NEW p \in Request,
               req'[r].pc \in Paying, payments'[p].status = "succeeded"
        PROVE  ~(payments'[p].student = req'[r].student /\ payments'[p].course = req'[r].course)
    <3>1. CASE UNCHANGED payments /\ \A x \in Request : ~PaidFor(x, req'[r].student, req'[r].course)
      BY <2>1, <3>1 DEF PaidFor
    <3>2. CASE /\ req[r].pc \in Paying
               /\ req'[r].student = req[r].student /\ req'[r].course = req[r].course
      <4>1. CASE payments[p].status = "succeeded"
        BY <1>3, <2>1, <3>2, <4>1 DEF Unpaid
      <4>2. CASE payments[p].status # "succeeded"
        <5>1. req[p].pc = "paySave" /\ req'[p].pc = "ok"
          BY <1>3, <2>1, <4>2
        <5>2. InFlight(p) /\ InFlight(r)
          BY <1>0, <3>2, <5>1 DEF InFlight, Paying, Opened, Charged, Awaits
        <5>3. p = r
          BY <5>2 DEF OneAtATime
        <5> QED BY <1>0, <2>1, <5>1, <5>3
      <4> QED BY <4>1, <4>2
    <3> QED BY <2>1, <3>1, <3>2 DEF PayEffect
  <2> QED BY <2>1 DEF Unpaid
<1> QED BY <1>1, <1>2, <1>4, <1>5

LEMMA SerialPayStep == TypeOK /\ SerialPayInv /\ [Next]_vars => SerialPayInv'
<1> SUFFICES ASSUME TypeOK, SerialPayInv, [Next]_vars
             PROVE  SerialPayInv'
  OBVIOUS
<1>1. OneAtATime'
  BY OneAtATimeStep DEF SerialPayInv
<1>2. CASE Serial /\ "confirm" \notin Ops
  <2>1. NoConfirm /\ OwnPayment /\ OncePaid /\ Unpaid /\ OneAtATime
    BY <1>2 DEF SerialPayInv
  <2>2. CASE Next
    <3>1. \A r \in Request : PayEffect(r)
      BY <1>2, <2>1, <2>2, AsidePay, HelperPay, PaymentPay DEF Next
    <3> QED BY <1>1, <1>2, <2>1, <3>1, SerialPayEffect DEF SerialPayInv
  <2>3. CASE UNCHANGED vars
    <3>1. \A r \in Request : PayEffect(r)
      BY <2>1, <2>3, LeavesPayments DEF vars
    <3> QED BY <1>1, <1>2, <2>1, <3>1, SerialPayEffect DEF SerialPayInv
  <2> QED BY <2>2, <2>3
<1>3. CASE ~(Serial /\ "confirm" \notin Ops)
  BY <1>1, <1>3 DEF SerialPayInv
<1> QED BY <1>2, <1>3

\* createPayment: when calls do not overlap and confirm is not used, a student
\* pays for a course at most once at a time, failures and crashes included.
THEOREM SerialPaidOnceHolds == Spec => []SerialPaidOnce
<1>1. Init => SerialPayInv
  BY DEF Init, StoreInit, Fresh, NoPayment, OneAtATime, InFlight, Awaits, SerialPayInv,
     NoConfirm, OwnPayment, OncePaid, Unpaid, Opened, Charged, Paying
<1>2. SerialPayInv => SerialPaidOnce
  BY DEF SerialPayInv, SerialPaidOnce, OncePaid, PaidOnce, LivePayments
<1> QED BY <1>1, <1>2, SerialPayStep, TypeCorrect, PTL DEF Spec
=============================================================================
