--------------------------- MODULE PaymentService ---------------------------
(***************************************************************************)
(* PaymentService: createPayment, confirmPayment and refundPayment, with   *)
(* Stripe as an external party.  createPayment takes the money side first  *)
(* (a PENDING payment, then a PaymentIntent), then the booking, then the   *)
(* class schedule, and only then saves SUCCEEDED and the intent id, which  *)
(* until that save exist in memory only.                                   *)
(***************************************************************************)
EXTENDS BookingService, ClassScheduleHelper

\* Math.round(x * 100) on an amount held in tenths of a cent.
ToCents(a) == (a + 5) \div 10

\* Mutant: the duplicate check forgets the payments that succeeded.
PaidFor_InProgress(p, u, c) ==
  /\ payments[p].status = "processing"
  /\ payments[p].student = u /\ payments[p].course = c

PaidFor(p, u, c) ==
  /\ payments[p].status \in {"succeeded", "processing"}
  /\ payments[p].student = u /\ payments[p].course = c

-----------------------------------------------------------------------------
(* createPayment                                                           *)

CreatePayment(r, u, c, a) ==
  /\ Start(r, "createPayment")
  /\ IF \E p \in Request : PaidFor(p, u, c)
       THEN Reply(r, "error")
       ELSE req' = [req EXCEPT ![r] = [Fresh EXCEPT !.pc = "payEnrolled", !.student = u,
                      !.course = c, !.amount = IF a # 0 THEN a ELSE Price[c]]]
  /\ UNCHANGED docs

CheckEnrolled(r) ==
  /\ At(r, "payEnrolled")
  /\ IF <<req[r].student, req[r].course>> \in enrolled \/ req[r].amount = 0
       THEN Reply(r, "error")
       ELSE Goto(r, "payPending")
  /\ UNCHANGED docs

SavePending(r) ==
  /\ At(r, "payPending")
  /\ payments' = [payments EXCEPT ![r] =
                    [status |-> "pending", student |-> req[r].student,
                     course |-> req[r].course, method |-> "stripe",
                     amount |-> req[r].amount, intent |-> FALSE, refunded |-> 0]]
  /\ Goto(r, "payStripe")
  /\ UNCHANGED <<intents, bookings, schedules, enrolled, orders>>

\* Stripe opens the intent and the answer arrives, or is lost on the way back.
StripeOpensIntent(r) ==
  /\ At(r, "payStripe")
  /\ ToCents(req[r].amount) > 0
  /\ intents' = [intents EXCEPT ![r] =
                   [state |-> "open", amount |-> ToCents(req[r].amount), refunded |-> 0]]
  /\ Goto(r, "payBooking") \/ Goto(r, "payFailed")
  /\ UNCHANGED <<payments, bookings, schedules, enrolled, orders>>

StripeRefusesIntent(r) ==
  /\ At(r, "payStripe")
  /\ Goto(r, "payFailed")
  /\ UNCHANGED docs

\* No booking: the handler returns a 400 body and leaves the payment PENDING,
\* its intent id never stored.
FindBookingToConfirm(r) ==
  /\ At(r, "payBooking")
  /\ \/ /\ ~\E b \in Request : BookingOf(b, req[r].student, req[r].course)
        /\ Reply(r, "error")
     \/ \E b \in Request :
          /\ BookingOf(b, req[r].student, req[r].course)
          /\ req' = [req EXCEPT ![r].pc = "payConfirm", ![r].target = b,
                                ![r].session = bookings[b].session,
                                ![r].read = bookings[b].status]
  /\ UNCHANGED docs

\* Mutant: the booking is confirmed in memory and never saved.
ConfirmBooking_Unsaved(r) ==
  /\ At(r, "payConfirm")
  /\ Goto(r, IF req[r].session \in Listed THEN "payFindSchedule" ELSE "paySave")
  /\ UNCHANGED docs

\* booking.save() writes the status only when it was not CONFIRMED when read,
\* and throws when the booking has been deleted in between.
ConfirmBooking(r) ==
  LET b == req[r].target IN
  /\ At(r, "payConfirm")
  /\ IF bookings[b].status = "absent"
       THEN /\ Goto(r, "payFailedCharged")
            /\ UNCHANGED bookings
       ELSE /\ Goto(r, IF req[r].session \in Listed THEN "payFindSchedule" ELSE "paySave")
            /\ bookings' = IF req[r].read = "confirmed" THEN bookings
                           ELSE [bookings EXCEPT ![b].status = "confirmed"]
  /\ UNCHANGED <<payments, intents, schedules, enrolled, orders>>

\* Mutant: SUCCEEDED is saved without the intent id.
SaveSucceeded_NoIntentId(r) ==
  /\ At(r, "paySave")
  /\ payments' = [payments EXCEPT ![r].status = "succeeded"]
  /\ Reply(r, "ok")
  /\ UNCHANGED <<intents, bookings, schedules, enrolled, orders>>

\* The answer carries the client secret: from here the customer can pay.
SaveSucceeded(r) ==
  /\ At(r, "paySave")
  /\ payments' = [payments EXCEPT ![r].status = "succeeded", ![r].intent = TRUE]
  /\ Reply(r, "ok")
  /\ UNCHANGED <<intents, bookings, schedules, enrolled, orders>>

\* The catch block; the intent id is saved with FAILED when Stripe had answered.
SaveFailed(r) ==
  /\ At(r, "payFailed") \/ At(r, "payFailedCharged")
  /\ payments' = [payments EXCEPT ![r].status = "failed",
                                  ![r].intent = At(r, "payFailedCharged")]
  /\ Reply(r, "error")
  /\ UNCHANGED <<intents, bookings, schedules, enrolled, orders>>

-----------------------------------------------------------------------------
(* confirmPayment                                                          *)

\* findOne by intent id; an unknown id is a 404.
ConfirmPayment(r, p) ==
  /\ Start(r, "confirm")
  /\ payments[p].intent
  /\ req' = [req EXCEPT ![r] = [Fresh EXCEPT !.pc = "confirmSave", !.target = p,
                                  !.read = payments[p].status]]
  /\ UNCHANGED docs

\* Mutant: confirmation records PROCESSING.
SaveConfirmed_Processing(r) ==
  /\ At(r, "confirmSave")
  /\ payments' = [payments EXCEPT ![req[r].target].status = "processing"]
  /\ Reply(r, "ok")
  /\ UNCHANGED <<intents, bookings, schedules, enrolled, orders>>

\* No status is refused; a status read as SUCCEEDED is not written again.  Without
\* a frontend domain the call ends in an error after the payment was saved.
SaveConfirmed(r) ==
  /\ At(r, "confirmSave")
  /\ payments' = IF req[r].read = "succeeded" THEN payments
                 ELSE [payments EXCEPT ![req[r].target].status = "succeeded"]
  /\ Reply(r, "ok") \/ Reply(r, "error")
  /\ UNCHANGED <<intents, bookings, schedules, enrolled, orders>>

-----------------------------------------------------------------------------
(* refundPayment                                                           *)

\* An amount of 0 or none means the whole payment.
RefundAmount(p, a) == IF a # 0 THEN a ELSE payments[p].amount

Refundable(p, a) ==
  /\ payments[p].status = "succeeded"
  /\ payments[p].intent
  /\ RefundAmount(p, a) <= payments[p].amount

RefundPayment(r, p, a) ==
  /\ Start(r, "refund")
  /\ payments[p].status # "absent"
  /\ IF Refundable(p, a)
       THEN req' = [req EXCEPT ![r] = [Fresh EXCEPT !.pc = "refundStripe", !.target = p,
                                         !.amount = RefundAmount(p, a),
                                         !.was = payments[p].refunded]]
       ELSE Reply(r, "error")
  /\ UNCHANGED docs

\* createRefund leaves the amount out when it rounds to 0 cents, and Stripe
\* then refunds all that is left.
RefundedCents(p, a) ==
  IF ToCents(a) = 0 THEN intents[p].amount - intents[p].refunded ELSE ToCents(a)

StripeRefunds(r) ==
  LET p == req[r].target
      cents == RefundedCents(p, req[r].amount) IN
  /\ At(r, "refundStripe")
  /\ intents[p].state = "paid"
  /\ cents > 0 /\ intents[p].refunded + cents <= intents[p].amount
  /\ intents' = [intents EXCEPT ![p].refunded = @ + cents]
  /\ Goto(r, "refundSave") \/ Reply(r, "error")
  /\ UNCHANGED <<payments, bookings, schedules, enrolled, orders>>

\* Mutant: the error of createRefund is swallowed and the refund recorded.
StripeRefusesRefund_Swallowed(r) ==
  /\ At(r, "refundStripe")
  /\ Goto(r, "refundSave")
  /\ UNCHANGED docs

StripeRefusesRefund(r) ==
  /\ At(r, "refundStripe")
  /\ Reply(r, "error")
  /\ UNCHANGED docs

\* REFUNDED and the amount of this call; no payment is ever linked to an
\* enrollment (the two methods that link one have no live caller), so the
\* enrollment update that follows has nothing to cancel.
SaveRefunded(r) ==
  /\ At(r, "refundSave")
  /\ payments' = [payments EXCEPT ![req[r].target].status = "refunded",
                                  ![req[r].target].refunded =
                                     IF req[r].amount = req[r].was THEN @ ELSE req[r].amount]
  /\ Reply(r, "ok")
  /\ UNCHANGED <<intents, bookings, schedules, enrolled, orders>>

-----------------------------------------------------------------------------
(* Outside the server                                                      *)

\* The customer's browser completes the intent with the client secret, or pays
\* the session at its url, that an answer gave it.
CustomerPays(p) ==
  /\ req[p].pc = "ok" /\ intents[p].state = "open"
  /\ intents' = [intents EXCEPT ![p].state = "paid"]
  /\ UNCHANGED <<payments, bookings, schedules, enrolled, orders, req>>

\* EnrollmentService.create and update, called by an administrator.
Enroll(u, c) ==
  /\ "enroll" \in Ops /\ Quiet
  /\ enrolled' = enrolled \cup {<<u, c>>}
  /\ UNCHANGED <<payments, intents, bookings, schedules, orders, req>>

\* EnrollmentService.update to cancelled, or remove.
Unenroll(u, c) ==
  /\ "enroll" \in Ops /\ Quiet
  /\ enrolled' = enrolled \ {<<u, c>>}
  /\ UNCHANGED <<payments, intents, bookings, schedules, orders, req>>

-----------------------------------------------------------------------------
(* createCheckout                                                          *)

\* Its payment is built with user and course, which the schema does not have, and
\* without the userId and courseId it requires.  Whatever the checks before it
\* say, the call ends in an error before anything is stored or Stripe is asked.
CreateCheckout(r) ==
  /\ Start(r, "checkout")
  /\ Reply(r, "error")
  /\ UNCHANGED docs

PaymentNext ==
  \/ \E r \in Request, u \in Student, c \in Course, a \in Amount : CreatePayment(r, u, c, a)
  \/ \E r \in Request :
       \/ CheckEnrolled(r) \/ SavePending(r)
       \/ StripeOpensIntent(r) \/ StripeRefusesIntent(r)
       \/ FindBookingToConfirm(r) \/ ConfirmBooking(r)
       \/ SaveSucceeded(r) \/ SaveFailed(r)
       \/ SaveConfirmed(r)
       \/ StripeRefunds(r) \/ StripeRefusesRefund(r) \/ SaveRefunded(r)
       \/ CreateCheckout(r)
  \/ \E r, p \in Request : ConfirmPayment(r, p)
  \/ \E r, p \in Request, a \in Amount : RefundPayment(r, p, a)
  \/ \E p \in Request : CustomerPays(p)
  \/ \E u \in Student, c \in Course : Enroll(u, c) \/ Unenroll(u, c)
=============================================================================
