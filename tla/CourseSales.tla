---------------------------- MODULE CourseSales ----------------------------
(***************************************************************************)
(* The sale of a course: bookings, card payments, purchase orders, the     *)
(* class schedules they fill and the stripe routes behind them, composed   *)
(* over the shared collections.                                            *)
(***************************************************************************)
EXTENDS StripeController, PurchaseOrderService

Init == StoreInit

Next == BookingNext \/ ScheduleNext \/ PaymentNext \/ StripeNext \/ OrderNext \/ Crash

Spec == Init /\ [][Next]_vars

\* The steps of a call that has been accepted.
Step(r) ==
  \/ CheckBooked(r) \/ InsertBooking(r)
  \/ FindNoSchedule(r) \/ FindSchedule(r) \/ PushSchedule(r) \/ NewSchedule(r)
  \/ CheckEnrolled(r) \/ SavePending(r) \/ StripeOpensIntent(r) \/ StripeRefusesIntent(r)
  \/ FindBookingToConfirm(r) \/ ConfirmBooking(r) \/ SaveSucceeded(r) \/ SaveFailed(r)
  \/ SaveConfirmed(r) \/ StripeRefunds(r) \/ StripeRefusesRefund(r) \/ SaveRefunded(r)
  \/ InsertOrder(r) \/ FindOrderBooking(r) \/ UnconfirmBooking(r)

\* The event loop runs every continuation that is ready.
FairSpec == Spec /\ \A r \in Request : WF_vars(Step(r))

-----------------------------------------------------------------------------
(* Safety                                                                  *)

Settled(p) == payments[p].status \in {"succeeded", "refunded"}

\* A card payment recorded SUCCEEDED or REFUNDED names an intent that exists at
\* Stripe over the amount recorded, to the cent: status and intent id are
\* saved together, after Stripe and the booking, and FAILED takes them back.
\* Whether it can still be paid is not known: the stripe routes may cancel it.
\* The payment of an approved purchase order is meant to be SUCCEEDED with no
\* intent behind it, and nothing is said of it.
SettledIsBacked ==
  \A p \in Request : Settled(p) /\ payments[p].method = "stripe" =>
     /\ payments[p].intent
     /\ intents[p].state # "absent"
     /\ intents[p].amount = ToCents(payments[p].amount)

\* A payment recorded REFUNDED has given money back at Stripe, at least the
\* amount of the refund recorded last and never more than was charged.
RefundIsBacked ==
  \A p \in Request : payments[p].status = "refunded" =>
     /\ 0 < intents[p].refunded
     /\ ToCents(payments[p].refunded) <= intents[p].refunded
     /\ intents[p].refunded <= intents[p].amount

\* The stripe routes open intents that no payment knows of.
OnRecord(p) == payments[p].status # "absent"

\* No payment loses the money its customer paid: createPayment opens the intent
\* long before it stores the id and hands out the secret after, so an intent of
\* a payment that is paid belongs to one recorded as settled, crash, lost answer
\* or missing booking notwithstanding.  What is paid into an intent of the
\* stripe routes is on no record at all.
PaidIsRecorded ==
  \A p \in Request : OnRecord(p) /\ intents[p].state = "paid" => Settled(p)

\* An approved purchase order has paid for its student's course.  It does not
\* hold: the payment that update() builds fails the validation of its schema.
ApprovedIsPaid ==
  \A o \in Request : orders[o].status = "approved" =>
     \E p \in Request : /\ Settled(p) /\ payments[p].method = "purchase_order"
                        /\ payments[p].student = orders[o].student
                        /\ payments[p].course = orders[o].course

\* Unless bookings or schedules are edited by hand, a settled payment has a
\* booking, and if its session is one the course lists, the student has a
\* seat: the schedule is filled before SUCCEEDED is saved, even when
\* concurrent calls create two schedules or find the student already there.
PaidStudentHasSeat ==
  {"patchBooking", "removeBooking", "removeSchedule"} \cap Ops = {} =>
    \A p \in Request : Settled(p) =>
      \E b \in Request :
        /\ BookingOf(b, payments[p].student, payments[p].course)
        /\ bookings[b].session \in Listed =>
             \E s \in Request : /\ ScheduleOf(s, payments[p].course)
                                /\ Seated(s, payments[p].student)

\* Nor can it lose the confirmation of that booking, unless a purchase order
\* is filed for the course, which sets the booking back to PENDING.
PaidBookingIsConfirmed ==
  {"patchBooking", "removeBooking", "createOrder"} \cap Ops = {} =>
    \A p \in Request : Settled(p) =>
      \E b \in Request : /\ BookingOf(b, payments[p].student, payments[p].course)
                         /\ bookings[b].status = "confirmed"

-----------------------------------------------------------------------------
(* What the checks before the writes achieve when calls do not overlap     *)

LivePayments(u, c) ==
  {p \in Request : /\ payments[p].status = "succeeded"
                   /\ payments[p].student = u /\ payments[p].course = c}

\* A student pays for a course at most once at a time ("You have already paid
\* for this course").
PaidOnce ==
  \A u \in Student, c \in Course : \A p, q \in LivePayments(u, c) : p = q

\* With calls one after the other and no reopening of payments by confirm,
\* the check before the payment is enough, crashes included.
SerialPaidOnce == Serial /\ "confirm" \notin Ops => PaidOnce

\* One schedule per course and no student twice in it.
SerialSeatedOnce ==
  Serial =>
    /\ \A s, t \in Request :
         schedules[s].exists /\ schedules[t].exists
           /\ schedules[s].course = schedules[t].course => s = t
    /\ \A s \in Request, u \in Student : schedules[s].seats[u] <= 1

-----------------------------------------------------------------------------
(* Steps                                                                   *)

\* Once the intent id is stored it stays, and with it who paid what for which
\* course; and the status then moves only as refund and confirm move it, so
\* no failure or second call ever takes a settled payment back to PENDING or
\* FAILED.
RecordedStaysRecorded ==
  [][\A p \in Request : payments[p].intent =>
       /\ payments'[p].intent
       /\ payments'[p].student = payments[p].student
       /\ payments'[p].course = payments[p].course
       /\ payments'[p].amount = payments[p].amount
       /\ Settled(p) => payments'[p].status \in {"succeeded", "refunded"}]_vars

-----------------------------------------------------------------------------
(* The invariant behind the money properties: what each document satisfies *)
(* by itself, and what a call in flight knows of the documents it holds.   *)

\* createPayment after it saved PENDING, and after Stripe answered it.
Charged ==
  {"payBooking", "payConfirm", "payFindSchedule", "payPushSchedule", "payNewSchedule",
   "paySave", "payFailedCharged"}
Opened == Charged \cup {"payStripe", "payFailed"}

BackedBy(p) ==
  intents[p].state # "absent" /\ intents[p].amount = ToCents(payments[p].amount)

DocInv(p) ==
  /\ Settled(p) => payments[p].intent
  /\ payments[p].intent => BackedBy(p) /\ payments[p].status \notin {"absent", "pending"}
  /\ OnRecord(p) /\ intents[p].state = "paid" => Settled(p)
  /\ intents[p].state # "paid" => intents[p].refunded = 0
  /\ intents[p].refunded <= intents[p].amount
  /\ ToCents(payments[p].refunded) <= intents[p].refunded
  /\ payments[p].status = "refunded" => 0 < intents[p].refunded

CallInv(r, call) ==
  /\ call.pc \in Opened =>
       payments[r].status = "pending" /\ payments[r].amount = call.amount
  /\ call.pc \in Charged => BackedBy(r)
  /\ call.pc = "payStripe" => intents[r].state = "absent"
  /\ call.pc \notin Opened \cup Replies =>
       payments[r].status = "absent" /\ intents[r].state = "absent"
  /\ call.pc = "ok" /\ OnRecord(r) /\ intents[r].state # "absent" => Settled(r)
  /\ call.pc = "confirmSave" => call.target \in Request /\ payments[call.target].intent
  /\ call.pc \in {"refundStripe", "refundSave"} =>
       call.target \in Request /\ Settled(call.target)
  /\ call.pc = "refundSave" =>
       /\ 0 < intents[call.target].refunded
       /\ ToCents(call.amount) <= intents[call.target].refunded

\* The inductive invariant of the money: createPayment owns its payment and its
\* intent until it answers, and a refund or a confirmation in flight holds a
\* payment that stays settled or recorded under it.
MoneyInv ==
  /\ \A p \in Request : DocInv(p)
  /\ \A r \in Request : CallInv(r, req[r])

-----------------------------------------------------------------------------
(* The ledger the payments implement                                       *)

EntryOf(p) ==
  CASE payments[p].status = "absent"    -> "none"
    [] payments[p].status = "pending"   -> "open"
    [] payments[p].status = "succeeded" -> "settled"
    [] payments[p].status = "refunded"  -> "refunded"
    [] OTHER                            -> "failed"

Ledger == INSTANCE PaymentLedger WITH
            Payment  <- Request,
            entry    <- [p \in Request |-> EntryOf(p)],
            recorded <- [p \in Request |-> payments[p].intent],
            intent   <- intents

\* Whatever calls overlap, fail halfway or are lost in a crash, the payments
\* and Stripe's intents behave as the ledger: money first, records after.
LedgerSpec == Ledger!Spec

-----------------------------------------------------------------------------
(* Progress                                                                *)

\* Every accepted call is answered, or lost with the process: no handler
\* waits on another.
EveryCallEnds == \A r \in Request : InFlight(r) ~> ~InFlight(r)

=============================================================================
