------------------------ MODULE PurchaseOrderService ------------------------
(***************************************************************************)
(* PurchaseOrderService: paying by purchase order.  create() files a       *)
(* PENDING order and sets the student's booking back to PENDING, whatever  *)
(* it was.  update() records the decision of the finance team; approval is *)
(* meant to create payment and enrollment, but the payment document is     *)
(* built with the fields user and course, which PaymentSchema does not     *)
(* have, and without userId and courseId, which it requires: the save      *)
(* throws, update() logs the error and answers with the approved order.    *)
(***************************************************************************)
EXTENDS BookingService

PendingOrder(o, u, c) ==
  orders[o].status = "pending" /\ orders[o].student = u /\ orders[o].course = c

CreateOrder(r, u, c, n) ==
  /\ Start(r, "createOrder")
  /\ IF \E o \in Request : PendingOrder(o, u, c)
       THEN Reply(r, "error")
       ELSE req' = [req EXCEPT ![r] = [Fresh EXCEPT !.pc = "orderInsert",
                                         !.student = u, !.course = c, !.number = n]]
  /\ UNCHANGED docs

\* The unique index on poNumber refuses a number in use (error 11000).
InsertOrder(r) ==
  /\ At(r, "orderInsert")
  /\ IF \E o \in Request : orders[o].status # "absent" /\ orders[o].number = req[r].number
       THEN /\ Reply(r, "error")
            /\ UNCHANGED orders
       ELSE /\ orders' = [orders EXCEPT ![r] =
                            [status |-> "pending", student |-> req[r].student,
                             course |-> req[r].course, number |-> req[r].number]]
            /\ Goto(r, "orderBooking")
  /\ UNCHANGED <<payments, intents, bookings, schedules, enrolled>>

\* Mutant: the handler never answers when there is no booking.
FindOrderBooking_Hangs(r) ==
  /\ At(r, "orderBooking")
  /\ \E b \in Request :
       /\ BookingOf(b, req[r].student, req[r].course)
       /\ req' = [req EXCEPT ![r].pc = "orderUnconfirm", ![r].target = b,
                             ![r].read = bookings[b].status]
  /\ UNCHANGED docs

\* Without a booking nothing is left but the mail; the order is read again for
\* it, and an outage then is the answer.
FindOrderBooking(r) ==
  /\ At(r, "orderBooking")
  /\ \/ /\ ~\E b \in Request : BookingOf(b, req[r].student, req[r].course)
        /\ Reply(r, "ok") \/ Reply(r, "error")
     \/ \E b \in Request :
          /\ BookingOf(b, req[r].student, req[r].course)
          /\ req' = [req EXCEPT ![r].pc = "orderUnconfirm", ![r].target = b,
                                ![r].read = bookings[b].status]
  /\ UNCHANGED docs

\* booking.save() with PENDING; it throws when the booking is gone.
UnconfirmBooking(r) ==
  LET b == req[r].target IN
  /\ At(r, "orderUnconfirm")
  /\ IF bookings[b].status = "absent"
       THEN /\ Reply(r, "error")
            /\ UNCHANGED bookings
       ELSE /\ Reply(r, "ok") \/ Reply(r, "error")
            /\ bookings' = IF req[r].read = "pending" THEN bookings
                           ELSE [bookings EXCEPT ![b].status = "pending"]
  /\ UNCHANGED <<payments, intents, schedules, enrolled, orders>>

\* The payment of an approved order fails the validation of its schema, and the
\* enrollment would come after it: nothing is stored.
createPaymentFromPurchaseOrder(o, new) == UNCHANGED <<payments, enrolled>>

\* update(): one findByIdAndUpdate with whatever fields the PATCH carries, the
\* number unique; then the mails, and for an approved order the payment, whose
\* error also keeps the booking and the schedule from being written.
UpdateOrder(o) ==
  /\ "updateOrder" \in Ops /\ Quiet
  /\ orders[o].status # "absent"
  /\ \E new \in [status : OrderStatus \ {"absent"}, student : Student,
                 course : Course, number : PoNumber] :
       /\ \A q \in Request \ {o} : orders[q].status # "absent" => orders[q].number # new.number
       /\ orders' = [orders EXCEPT ![o] = new]
       /\ createPaymentFromPurchaseOrder(o, new)
  /\ UNCHANGED <<intents, bookings, schedules, req>>

RemoveOrder(o) ==
  /\ "removeOrder" \in Ops /\ Quiet
  /\ orders[o].status # "absent"
  /\ orders' = [orders EXCEPT ![o] = NoOrder]
  /\ UNCHANGED <<payments, intents, bookings, schedules, enrolled, req>>

OrderNext ==
  \/ \E r \in Request, u \in Student, c \in Course, n \in PoNumber : CreateOrder(r, u, c, n)
  \/ \E r \in Request : InsertOrder(r) \/ FindOrderBooking(r) \/ UnconfirmBooking(r)
  \/ \E o \in Request : UpdateOrder(o) \/ RemoveOrder(o)
=============================================================================
