-------------------------- MODULE CourseSalesProofs --------------------------
(***************************************************************************)
(* Theorems of CourseSales for every set of calls, students and courses:   *)
(* the shapes, then payments and intents.                                  *)
(***************************************************************************)
EXTENDS CourseSales, TLAPS

LEMMA FreshType == Fresh \in Call
BY DEF Fresh, Call, PaymentStatus, BookingStatus

LEMMA ReplyType ==
  ASSUME TypeOK, NEW r \in Request, NEW code \in Replies, Reply(r, code)
  PROVE  req' \in [Request -> Call]
BY FreshType DEF TypeOK, Reply, Call, Fresh, Replies

LEMMA GotoType ==
  ASSUME TypeOK, NEW r \in Request, NEW pc \in Awaits, Goto(r, pc)
  PROVE  req' \in [Request -> Call]
BY DEF TypeOK, Goto, Call

LEMMA EnterType ==
  ASSUME TypeOK, NEW r \in Request, NEW call \in Call, req' = [req EXCEPT ![r] = call]
  PROVE  req' \in [Request -> Call]
BY DEF TypeOK

LEMMA BookingTypes ==
  ASSUME TypeOK, BookingNext
  PROVE  TypeOK'
<1>1. ASSUME NEW r \in Request, NEW u \in Student, NEW c \in Course, NEW s \in Session,
             CreateBooking(r, u, c, s)
      PROVE  TypeOK'
  <2>1. [Fresh EXCEPT !.pc = "bookBooked", !.student = u, !.course = c, !.session = s] \in Call
    <3>1. "bookBooked" \in Awaits
      BY DEF Awaits
    <3> QED BY <3>1, FreshType DEF Call
  <2> QED
    BY <1>1, <2>1, ReplyType, EnterType DEF CreateBooking, TypeOK, docs, Replies
<1>2. ASSUME NEW r \in Request, CheckBooked(r)
      PROVE  TypeOK'
  BY <1>2, ReplyType, GotoType DEF CheckBooked, TypeOK, docs, Replies, Awaits
<1>3. ASSUME NEW r \in Request, InsertBooking(r)
      PROVE  TypeOK'
  BY <1>3, ReplyType DEF InsertBooking, TypeOK, Replies, BookingDoc, BookingStatus, Call
<1>4. ASSUME NEW b \in Request, PatchBooking(b)
      PROVE  TypeOK'
  BY <1>4 DEF PatchBooking, TypeOK, BookingDoc, BookingStatus
<1>5. ASSUME NEW b \in Request, RemoveBooking(b)
      PROVE  TypeOK'
  BY <1>5 DEF RemoveBooking, TypeOK, BookingDoc, BookingStatus, NoBooking
<1> QED
  BY <1>1, <1>2, <1>3, <1>4, <1>5 DEF BookingNext

LEMMA CountUpType ==
  ASSUME NEW f \in [Student -> Nat], NEW u
  PROVE  [f EXCEPT ![u] = @ + 1] \in [Student -> Nat]
<1>1. ASSUME NEW x \in Student
      PROVE  [f EXCEPT ![u] = @ + 1][x] \in Nat
  <2>1. f[x] \in Nat /\ f[x] + 1 \in Nat
    OBVIOUS
  <2>2. [f EXCEPT ![u] = @ + 1][x] = IF x = u THEN f[x] + 1 ELSE f[x]
    OBVIOUS
  <2> QED BY <2>1, <2>2
<1> QED BY <1>1

LEMMA ScheduleTypes ==
  ASSUME TypeOK, ScheduleNext
  PROVE  TypeOK'
<1>1. ASSUME NEW r \in Request, FindNoSchedule(r)
      PROVE  TypeOK'
  BY <1>1, GotoType DEF FindNoSchedule, TypeOK, docs, Awaits
<1>2. ASSUME NEW r \in Request, FindSchedule(r)
      PROVE  TypeOK'
  <2>1. CASE Goto(r, "paySave")
    BY <1>2, <2>1, GotoType DEF FindSchedule, TypeOK, docs, Awaits
  <2>2. CASE \E s \in Request :
               req' = [req EXCEPT ![r].pc = "payPushSchedule", ![r].target = s]
    BY <1>2, <2>2 DEF FindSchedule, TypeOK, docs, Awaits, Call
  <2> QED BY <1>2, <2>1, <2>2 DEF FindSchedule
<1>3. ASSUME NEW r \in Request, PushSchedule(r)
      PROVE  TypeOK'
  <2> DEFINE s == req[r].target
             u == req[r].student
  <2>1. \A k \in Request : /\ schedules[k] \in ScheduleDoc
                          /\ schedules[k].seats \in [Student -> Nat]
    BY DEF TypeOK, ScheduleDoc
  <2>2. \A k \in Request : [schedules[k].seats EXCEPT ![u] = @ + 1] \in [Student -> Nat]
    BY <2>1, CountUpType
  <2>3. ASSUME NEW k \in Request
        PROVE  [schedules[k] EXCEPT !.seats[u] = @ + 1] \in ScheduleDoc
    <3>1. [schedules[k] EXCEPT !.seats = [schedules[k].seats EXCEPT ![u] = @ + 1]]
            \in ScheduleDoc
      BY <2>1, <2>2 DEF ScheduleDoc
    <3>2. [schedules[k] EXCEPT !.seats[u] = @ + 1]
            = [schedules[k] EXCEPT !.seats = [schedules[k].seats EXCEPT ![u] = @ + 1]]
      OBVIOUS
    <3> QED BY <3>1, <3>2
  <2>4. schedules' \in [Request -> ScheduleDoc]
    <3>1. CASE s \in Request
      BY <1>3, <3>1, <2>3 DEF PushSchedule, TypeOK
    <3>2. CASE s \notin Request
      BY <1>3, <3>2 DEF PushSchedule, TypeOK
    <3> QED BY <3>1, <3>2
  <2> QED BY <1>3, <2>4, GotoType DEF PushSchedule, TypeOK, Awaits
<1>4. ASSUME NEW r \in Request, NewSchedule(r)
      PROVE  TypeOK'
  <2>1. schedules' \in [Request -> ScheduleDoc]
    BY <1>4 DEF NewSchedule, TypeOK, ScheduleDoc, Call
  <2> QED BY <1>4, <2>1, GotoType DEF NewSchedule, TypeOK, Awaits
<1>5. ASSUME NEW s \in Request, RemoveSchedule(s)
      PROVE  TypeOK'
  BY <1>5 DEF RemoveSchedule, TypeOK, NoSchedule, ScheduleDoc
<1> QED
  BY <1>1, <1>2, <1>3, <1>4, <1>5 DEF ScheduleNext

LEMMA ToCentsType ==
  ASSUME NEW a \in Nat
  PROVE  ToCents(a) \in Nat
BY DEF ToCents

LEMMA CreatePaymentTypes ==
  ASSUME TypeOK, NEW r \in Request
  PROVE  /\ \A u \in Student, c \in Course, a \in Amount : CreatePayment(r, u, c, a) => TypeOK'
         /\ CheckEnrolled(r) => TypeOK'
         /\ SavePending(r) => TypeOK'
         /\ StripeOpensIntent(r) => TypeOK'
         /\ StripeRefusesIntent(r) => TypeOK'
         /\ FindBookingToConfirm(r) => TypeOK'
         /\ ConfirmBooking(r) => TypeOK'
         /\ SaveSucceeded(r) => TypeOK'
         /\ SaveFailed(r) => TypeOK'
<1>0. /\ {"ok", "error"} \subseteq Replies
      /\ {"payEnrolled", "payPending", "payStripe", "payBooking", "payConfirm",
          "payFindSchedule", "paySave", "payFailed", "payFailedCharged"} \subseteq Awaits
  BY DEF Replies, Awaits
<1>1. ASSUME NEW u \in Student, NEW c \in Course, NEW a \in Amount, CreatePayment(r, u, c, a)
      PROVE  TypeOK'
  <2>1. (IF a # 0 THEN a ELSE Price[c]) \in Nat
    BY StoreAssumption DEF StoreAssumption
  <2>2. [Fresh EXCEPT !.pc = "payEnrolled", !.student = u, !.course = c,
                      !.amount = IF a # 0 THEN a ELSE Price[c]] \in Call
    BY <1>0, <2>1, FreshType DEF Call
  <2> QED
    BY <1>0, <1>1, <2>2, ReplyType, EnterType DEF CreatePayment, TypeOK, docs
<1>2. ASSUME CheckEnrolled(r)
      PROVE  TypeOK'
  BY <1>0, <1>2, ReplyType, GotoType DEF CheckEnrolled, TypeOK, docs
<1>3. ASSUME SavePending(r)
      PROVE  TypeOK'
  <2>1. payments' \in [Request -> PaymentDoc]
    BY <1>3 DEF SavePending, TypeOK, PaymentDoc, PaymentStatus, PaymentMethod, Call
  <2> QED BY <1>0, <1>3, <2>1, GotoType DEF SavePending, TypeOK
<1>4. ASSUME StripeOpensIntent(r)
      PROVE  TypeOK'
  <2>1. req[r].amount \in Nat
    BY DEF TypeOK, Call
  <2>2. intents' \in [Request -> IntentDoc]
    BY <1>4, <2>1, ToCentsType DEF StripeOpensIntent, TypeOK, IntentDoc
  <2> QED BY <1>0, <1>4, <2>2, GotoType DEF StripeOpensIntent, TypeOK
<1>5. ASSUME StripeRefusesIntent(r)
      PROVE  TypeOK'
  BY <1>0, <1>5, GotoType DEF StripeRefusesIntent, TypeOK, docs
<1>6. ASSUME FindBookingToConfirm(r)
      PROVE  TypeOK'
  <2>1. CASE Reply(r, "error")
    BY <1>0, <1>6, <2>1, ReplyType DEF FindBookingToConfirm, TypeOK, docs
  <2>2. ASSUME NEW b \in Request,
               req' = [req EXCEPT ![r].pc = "payConfirm", ![r].target = b,
                                  ![r].session = bookings[b].session,
                                  ![r].read = bookings[b].status]
        PROVE  TypeOK'
    <3>1. bookings[b].session \in Session \cup {None} /\ bookings[b].status \in BookingStatus
      BY DEF TypeOK, BookingDoc
    <3> DEFINE call == [req[r] EXCEPT !.pc = "payConfirm", !.target = b,
                                      !.session = bookings[b].session,
                                      !.read = bookings[b].status]
    <3>2. call \in Call
      BY <1>0, <3>1 DEF TypeOK, Call
    <3>3. req' = [req EXCEPT ![r] = call]
      BY <2>2 DEF TypeOK
    <3>4. req' \in [Request -> Call]
      BY <3>2, <3>3, EnterType
    <3> QED BY <1>6, <3>4 DEF FindBookingToConfirm, TypeOK, docs
  <2> QED BY <1>6, <2>1, <2>2 DEF FindBookingToConfirm
<1>7. ASSUME ConfirmBooking(r)
      PROVE  TypeOK'
  <2>1. bookings' \in [Request -> BookingDoc]
    BY <1>7 DEF ConfirmBooking, TypeOK, BookingDoc, BookingStatus
  <2> QED BY <1>0, <1>7, <2>1, GotoType DEF ConfirmBooking, TypeOK
<1>8. ASSUME SaveSucceeded(r)
      PROVE  TypeOK'
  <2>1. payments' \in [Request -> PaymentDoc]
    BY <1>8 DEF SaveSucceeded, TypeOK, PaymentDoc, PaymentStatus
  <2> QED BY <1>0, <1>8, <2>1, ReplyType DEF SaveSucceeded, TypeOK
<1>9. ASSUME SaveFailed(r)
      PROVE  TypeOK'
  <2>1. payments' \in [Request -> PaymentDoc]
    <3>1. At(r, "payFailedCharged") \in BOOLEAN
      BY DEF At
    <3> QED BY <1>9, <3>1 DEF SaveFailed, TypeOK, PaymentDoc, PaymentStatus
  <2> QED BY <1>0, <1>9, <2>1, ReplyType DEF SaveFailed, TypeOK
<1> QED
  BY <1>1, <1>2, <1>3, <1>4, <1>5, <1>6, <1>7, <1>8, <1>9

LEMMA ConfirmAndRefundTypes ==
  ASSUME TypeOK, NEW r \in Request
  PROVE  /\ \A p \in Request : ConfirmPayment(r, p) => TypeOK'
         /\ SaveConfirmed(r) => TypeOK'
         /\ \A p \in Request, a \in Amount : RefundPayment(r, p, a) => TypeOK'
         /\ StripeRefunds(r) => TypeOK'
         /\ StripeRefusesRefund(r) => TypeOK'
         /\ SaveRefunded(r) => TypeOK'
<1>0. /\ {"ok", "error"} \subseteq Replies
      /\ {"confirmSave", "refundStripe", "refundSave"} \subseteq Awaits
  BY DEF Replies, Awaits
<1>1. ASSUME NEW p \in Request, ConfirmPayment(r, p)
      PROVE  TypeOK'
  <2>1. payments[p].status \in PaymentStatus
    BY DEF TypeOK, PaymentDoc
  <2>2. [Fresh EXCEPT !.pc = "confirmSave", !.target = p,
                      !.read = payments[p].status] \in Call
    BY <1>0, <2>1, FreshType DEF Call
  <2> QED BY <1>1, <2>2, EnterType DEF ConfirmPayment, TypeOK, docs
<1>2. ASSUME SaveConfirmed(r)
      PROVE  TypeOK'
  <2>1. payments' \in [Request -> PaymentDoc]
    BY <1>2 DEF SaveConfirmed, TypeOK, PaymentDoc, PaymentStatus
  <2> QED BY <1>0, <1>2, <2>1, ReplyType DEF SaveConfirmed, TypeOK
<1>3. ASSUME NEW p \in Request, NEW a \in Amount, RefundPayment(r, p, a)
      PROVE  TypeOK'
  <2>1. RefundAmount(p, a) \in Nat /\ payments[p].refunded \in Nat
    BY StoreAssumption DEF TypeOK, PaymentDoc, RefundAmount, StoreAssumption
  <2>2. [Fresh EXCEPT !.pc = "refundStripe", !.target = p, !.amount = RefundAmount(p, a),
                      !.was = payments[p].refunded] \in Call
    BY <1>0, <2>1, FreshType DEF Call
  <2> QED
    BY <1>0, <1>3, <2>2, ReplyType, EnterType DEF RefundPayment, TypeOK, docs
<1>4. ASSUME StripeRefunds(r)
      PROVE  TypeOK'
  <2>1. req[r].amount \in Nat
    BY DEF TypeOK, Call
  <2>2. CASE req[r].target \in Request
    <3>1. /\ intents[req[r].target].refunded \in Nat
          /\ RefundedCents(req[r].target, req[r].amount) \in Nat
      BY <1>4, <2>1, <2>2, ToCentsType DEF StripeRefunds, RefundedCents, TypeOK, IntentDoc
    <3>2. intents' \in [Request -> IntentDoc]
      BY <1>4, <2>2, <3>1 DEF StripeRefunds, TypeOK, IntentDoc
    <3> QED BY <1>0, <1>4, <3>2, ReplyType, GotoType DEF StripeRefunds, TypeOK
  <2>3. CASE req[r].target \notin Request
    <3>1. intents' = intents
      BY <1>4, <2>3 DEF StripeRefunds, TypeOK
    <3> QED BY <1>0, <1>4, <3>1, ReplyType, GotoType DEF StripeRefunds, TypeOK
  <2> QED BY <2>2, <2>3
<1>5. ASSUME StripeRefusesRefund(r)
      PROVE  TypeOK'
  BY <1>0, <1>5, ReplyType DEF StripeRefusesRefund, TypeOK, docs
<1>6. ASSUME SaveRefunded(r)
      PROVE  TypeOK'
  <2>1. payments' \in [Request -> PaymentDoc]
    <3> DEFINE p == req[r].target
               noted == IF req[r].amount = req[r].was THEN payments[p].refunded
                        ELSE req[r].amount
    <3>1. CASE p \in Request
      <4>1. noted \in Nat
        BY <3>1 DEF TypeOK, Call, PaymentDoc
      <4>2. ASSUME NEW doc \in PaymentDoc, NEW n \in Nat
            PROVE  [doc EXCEPT !.status = "refunded", !.refunded = n] \in PaymentDoc
        BY DEF PaymentDoc, PaymentStatus
      <4>3. payments' = [payments EXCEPT ![p] =
                           [payments[p] EXCEPT !.status = "refunded", !.refunded = noted]]
        BY <1>6, <3>1 DEF SaveRefunded, TypeOK
      <4>4. [payments[p] EXCEPT !.status = "refunded", !.refunded = noted] \in PaymentDoc
        BY <3>1, <4>1, <4>2 DEF TypeOK
      <4> QED BY <4>3, <4>4 DEF TypeOK
    <3>2. CASE p \notin Request
      BY <1>6, <3>2 DEF SaveRefunded, TypeOK
    <3> QED BY <3>1, <3>2
  <2> QED BY <1>0, <1>6, <2>1, ReplyType DEF SaveRefunded, TypeOK
<1> QED
  BY <1>1, <1>2, <1>3, <1>4, <1>5, <1>6

LEMMA PaymentTypes ==
  ASSUME TypeOK, PaymentNext
  PROVE  TypeOK'
<1>1. ASSUME NEW p \in Request, CustomerPays(p)
      PROVE  TypeOK'
  BY <1>1 DEF CustomerPays, TypeOK, IntentDoc
<1>2. ASSUME NEW u \in Student, NEW c \in Course, Enroll(u, c) \/ Unenroll(u, c)
      PROVE  TypeOK'
  BY <1>2 DEF Enroll, Unenroll, TypeOK
<1>3. ASSUME NEW r \in Request, CreateCheckout(r)
      PROVE  TypeOK'
  <2>1. "error" \in Replies
    BY DEF Replies
  <2> QED BY <1>3, <2>1, ReplyType DEF CreateCheckout, TypeOK, docs
<1> QED
  BY <1>1, <1>2, <1>3, CreatePaymentTypes, ConfirmAndRefundTypes DEF PaymentNext

LEMMA StripeTypes ==
  ASSUME TypeOK, StripeNext
  PROVE  TypeOK'
<1>0. {"ok", "error"} \subseteq Replies
  BY DEF Replies
<1>1. ASSUME NEW r \in Request,
             ReadIntent(r) \/ ListIntents(r) \/ KeepCard(r) \/ HandleWebhook(r)
      PROVE  TypeOK'
  BY <1>0, <1>1, ReplyType DEF ReadIntent, ListIntents, KeepCard, HandleWebhook, Answers,
     TypeOK, docs
<1>4. ASSUME NEW r \in Request, NEW a \in Amount, OpenIntent(r, a) \/ OpenCheckoutSession(r, a)
      PROVE  TypeOK'
  <2>1. PICK cents \in Nat : Opens(r, cents)
    BY <1>4, ToCentsType, StoreAssumption DEF OpenIntent, OpenCheckoutSession, StoreAssumption
  <2>2. intents' \in [Request -> IntentDoc]
    BY <2>1 DEF Opens, TypeOK, IntentDoc
  <2> QED BY <1>0, <2>1, <2>2, ReplyType DEF Opens, Answers, TypeOK
<1>2. ASSUME NEW r \in Request, NEW p \in Request, CancelIntent(r, p)
      PROVE  TypeOK'
  <2>1. intents' \in [Request -> IntentDoc]
    BY <1>2 DEF CancelIntent, TypeOK, IntentDoc
  <2> QED BY <1>0, <1>2, <2>1, ReplyType DEF CancelIntent, Answers, TypeOK
<1>3. ASSUME NEW r \in Request, NEW p \in Request, NEW a \in Amount, RefundIntent(r, p, a)
      PROVE  TypeOK'
  <2>1. intents' \in [Request -> IntentDoc]
    <3>1. CASE intents' = intents
      BY <3>1 DEF TypeOK
    <3>2. CASE intents' # intents
      <4>1. RefundedCents(p, a) \in Int /\ 0 < RefundedCents(p, a)
        BY <1>3, <3>2, ToCentsType, StoreAssumption
           DEF RefundIntent, RefundedCents, TypeOK, IntentDoc, StoreAssumption
      <4>2. intents[p].refunded + RefundedCents(p, a) \in Nat
        BY <4>1 DEF TypeOK, IntentDoc
      <4> QED BY <1>3, <3>2, <4>2 DEF RefundIntent, TypeOK, IntentDoc
    <3> QED BY <3>1, <3>2
  <2> QED BY <1>0, <1>3, <2>1, ReplyType DEF RefundIntent, Answers, TypeOK
<1> QED
  BY <1>1, <1>2, <1>3, <1>4 DEF StripeNext

LEMMA OrderTypes ==
  ASSUME TypeOK, OrderNext
  PROVE  TypeOK'
<1>0. /\ {"ok", "error"} \subseteq Replies
      /\ {"orderInsert", "orderBooking", "orderUnconfirm"} \subseteq Awaits
  BY DEF Replies, Awaits
<1>1. ASSUME NEW r \in Request, NEW u \in Student, NEW c \in Course, NEW n \in PoNumber,
             CreateOrder(r, u, c, n)
      PROVE  TypeOK'
  <2>1. [Fresh EXCEPT !.pc = "orderInsert", !.student = u, !.course = c, !.number = n] \in Call
    BY <1>0, FreshType DEF Call
  <2> QED
    BY <1>0, <1>1, <2>1, ReplyType, EnterType DEF CreateOrder, TypeOK, docs
<1>2. ASSUME NEW r \in Request, InsertOrder(r)
      PROVE  TypeOK'
  <2>1. orders' \in [Request -> OrderDoc]
    BY <1>2 DEF InsertOrder, TypeOK, OrderDoc, OrderStatus, Call
  <2> QED BY <1>0, <1>2, <2>1, ReplyType, GotoType DEF InsertOrder, TypeOK
<1>3. ASSUME NEW r \in Request, FindOrderBooking(r)
      PROVE  TypeOK'
  <2>1. CASE Reply(r, "ok") \/ Reply(r, "error")
    BY <1>0, <1>3, <2>1, ReplyType DEF FindOrderBooking, TypeOK, docs
  <2>2. ASSUME NEW b \in Request,
               req' = [req EXCEPT ![r].pc = "orderUnconfirm", ![r].target = b,
                                  ![r].read = bookings[b].status]
        PROVE  TypeOK'
    <3> DEFINE call == [req[r] EXCEPT !.pc = "orderUnconfirm", !.target = b,
                                      !.read = bookings[b].status]
    <3>1. bookings[b].status \in BookingStatus
      BY DEF TypeOK, BookingDoc
    <3>2. call \in Call
      BY <1>0, <3>1 DEF TypeOK, Call
    <3>3. req' = [req EXCEPT ![r] = call]
      BY <2>2 DEF TypeOK
    <3>4. req' \in [Request -> Call]
      BY <3>2, <3>3, EnterType
    <3> QED BY <1>3, <3>4 DEF FindOrderBooking, TypeOK, docs
  <2> QED BY <1>3, <2>1, <2>2 DEF FindOrderBooking
<1>4. ASSUME NEW r \in Request, UnconfirmBooking(r)
      PROVE  TypeOK'
  <2>1. bookings' \in [Request -> BookingDoc]
    BY <1>4 DEF UnconfirmBooking, TypeOK, BookingDoc, BookingStatus
  <2> QED BY <1>0, <1>4, <2>1, ReplyType DEF UnconfirmBooking, TypeOK
<1>5. ASSUME NEW o \in Request, UpdateOrder(o)
      PROVE  TypeOK'
  BY <1>5 DEF UpdateOrder, createPaymentFromPurchaseOrder, TypeOK, OrderDoc
<1>6. ASSUME NEW o \in Request, RemoveOrder(o)
      PROVE  TypeOK'
  BY <1>6 DEF RemoveOrder, TypeOK, OrderDoc, OrderStatus, NoOrder
<1> QED
  BY <1>1, <1>2, <1>3, <1>4, <1>5, <1>6 DEF OrderNext

LEMMA CrashTypes ==
  ASSUME TypeOK, Crash
  PROVE  TypeOK'
<1>1. [Fresh EXCEPT !.pc = "crashed"] \in Call
  BY FreshType DEF Call, Replies
<1> QED BY <1>1 DEF Crash, TypeOK, docs

\* Every document of the store and every call in flight has its declared shape,
\* whatever handlers interleave and wherever the process dies.
THEOREM TypeCorrect == Spec => []TypeOK
<1>1. Init => TypeOK
  BY FreshType DEF Init, StoreInit, TypeOK, PaymentDoc, PaymentStatus, PaymentMethod, IntentDoc,
     BookingDoc, BookingStatus, ScheduleDoc, OrderDoc, OrderStatus,
     NoPayment, NoIntent, NoBooking, NoSchedule, NoOrder
<1>2. TypeOK /\ [Next]_vars => TypeOK'
  <2>1. TypeOK /\ UNCHANGED vars => TypeOK'
    BY DEF TypeOK, vars
  <2> QED
    BY <2>1, BookingTypes, ScheduleTypes, PaymentTypes, StripeTypes, OrderTypes, CrashTypes
       DEF Next
<1> QED
  BY <1>1, <1>2, PTL DEF Spec

-----------------------------------------------------------------------------
(* MoneyInv is an invariant of CourseSales, and with it the properties of  *)
(* the recorded payments.  A step either leaves payments and intents alone *)
(* and moves calls (CallMove), or changes both for one payment p without   *)
(* taking back what other calls know of p (DocMove).                       *)

LEMMA SettledBacked ==
  ASSUME MoneyInv, NEW p \in Request, payments[p].intent
  PROVE  req[p].pc \in Replies /\ intents[p].state # "absent"
BY DEF MoneyInv, DocInv, CallInv, BackedBy

LEMMA CallMove ==
  ASSUME MoneyInv, UNCHANGED <<payments, intents>>,
         \A r \in Request : req'[r] = req[r] \/ CallInv(r, req'[r])
  PROVE  MoneyInv'
<1>1. ASSUME NEW p \in Request
      PROVE  DocInv(p)'
  BY DEF MoneyInv, DocInv, BackedBy, Settled, OnRecord
<1>2. ASSUME NEW r \in Request
      PROVE  CallInv(r, req[r])'
  <2>1. CallInv(r, req'[r])
    BY DEF MoneyInv
  <2> QED BY <2>1 DEF CallInv, BackedBy, Settled, OnRecord
<1> QED BY <1>1, <1>2 DEF MoneyInv

LEMMA DocMove ==
  ASSUME MoneyInv, NEW p \in Request, NEW r \in Request,
         \A x \in Request \ {p} : payments'[x] = payments[x] /\ intents'[x] = intents[x],
         \A q \in Request \ {r} : req'[q] = req[q],
         DocInv(p)', CallInv(r, req[r])',
         payments[p].intent => payments'[p].intent,
         Settled(p) => Settled(p)',
         intents[p].refunded \in Int, intents'[p].refunded \in Int,
         intents[p].refunded <= intents'[p].refunded,
         \A q \in Request : ToCents(req[q].amount) \in Int,
         p # r => \/ payments[p].intent /\ Settled(p)'
                  \/ req[p].pc \in Replies /\ ~OnRecord(p)'
  PROVE  MoneyInv'
<1>1. ASSUME NEW x \in Request
      PROVE  DocInv(x)'
  BY DEF MoneyInv, DocInv, BackedBy, Settled, OnRecord
<1>2. ASSUME NEW q \in Request \ {r}
      PROVE  CallInv(q, req[q])'
  <2>1. req'[q] = req[q] /\ CallInv(q, req[q])
    BY DEF MoneyInv
  <2>2. CASE q = p
    <3>1. req[p].pc \in Replies
      BY <2>2, SettledBacked
    <3> QED BY <2>1, <2>2, <3>1 DEF CallInv, Replies, Opened, Charged
  <2>3. CASE q # p
    <3>1. payments'[q] = payments[q] /\ intents'[q] = intents[q]
      BY <2>3
    <3> DEFINE t == req[q].target
    <3>2. t \in Request =>
             /\ payments[t].intent => payments'[t].intent
             /\ Settled(t) => Settled(t)'
             /\ t # p => intents'[t] = intents[t]
      BY DEF Settled
    <3>3. req[q].pc = "refundSave" =>
             /\ 0 < intents'[t].refunded
             /\ ToCents(req[q].amount) <= intents'[t].refunded
      BY <2>1, <3>2 DEF CallInv
    <3> HIDE DEF t
    <3> QED BY <2>1, <3>1, <3>2, <3>3 DEF CallInv, BackedBy, Settled, OnRecord, t
  <2> QED BY <2>2, <2>3
<1> QED BY <1>1, <1>2 DEF MoneyInv

\* An answer other than "ok" claims nothing, and a call that opened no intent
\* may answer anything.
LEMMA ReplyMove ==
  ASSUME TypeOK, MoneyInv, NEW r \in Request, NEW code \in Replies, Reply(r, code),
         UNCHANGED <<payments, intents>>, code = "ok" => intents[r].state = "absent"
  PROVE  MoneyInv'
<1>1. req' = [req EXCEPT ![r] = [Fresh EXCEPT !.pc = code]]
  BY DEF Reply
<1>2. req'[r].pc = code /\ \A q \in Request \ {r} : req'[q] = req[q]
  BY <1>1 DEF TypeOK, Fresh
<1>3. CallInv(r, req'[r])
  BY <1>2 DEF CallInv, Replies, Opened, Charged
<1> QED BY <1>2, <1>3, CallMove

\* The awaits of the calls that touch no payment.
Aside == {"bookBooked", "bookInsert", "payEnrolled", "payPending",
          "orderInsert", "orderBooking", "orderUnconfirm"}

LEMMA AsideMove ==
  ASSUME TypeOK, MoneyInv, NEW r \in Request, req[r].pc \in Aside \cup {"idle"},
         NEW call \in Call, call.pc \in Aside,
         req' = [req EXCEPT ![r] = call], UNCHANGED <<payments, intents>>
  PROVE  MoneyInv'
<1>1. payments[r].status = "absent" /\ intents[r].state = "absent"
  BY DEF MoneyInv, CallInv, Aside, Opened, Charged, Replies
<1>2. req'[r] = call /\ \A q \in Request \ {r} : req'[q] = req[q]
  BY DEF TypeOK
<1>3. CallInv(r, call)
  BY <1>1 DEF CallInv, Aside, Opened, Charged, Replies
<1> QED BY <1>2, <1>3, CallMove

LEMMA BookingMoney ==
  ASSUME TypeOK, MoneyInv, BookingNext
  PROVE  MoneyInv'
<1>0. {"bookBooked", "bookInsert"} \subseteq Aside /\ {"ok", "error"} \subseteq Replies
  BY DEF Aside, Replies
<1>1. ASSUME NEW r \in Request, NEW u \in Student, NEW c \in Course, NEW s \in Session,
             CreateBooking(r, u, c, s)
      PROVE  MoneyInv'
  <2>1. [Fresh EXCEPT !.pc = "bookBooked", !.student = u, !.course = c, !.session = s] \in Call
    BY FreshType DEF Call, Awaits
  <2>2. [Fresh EXCEPT !.pc = "bookBooked", !.student = u, !.course = c, !.session = s].pc
          = "bookBooked"
    BY DEF Fresh
  <2> QED
    BY <1>0, <1>1, <2>1, <2>2, ReplyMove, AsideMove DEF CreateBooking, Start, docs
<1>2. ASSUME NEW r \in Request, CheckBooked(r)
      PROVE  MoneyInv'
  <2>1. [req[r] EXCEPT !.pc = "bookInsert"] \in Call
    BY DEF TypeOK, Call, Awaits
  <2>2. [req[r] EXCEPT !.pc = "bookInsert"].pc = "bookInsert"
    BY <2>1 DEF TypeOK, Call
  <2>3. Goto(r, "bookInsert") => req' = [req EXCEPT ![r] = [req[r] EXCEPT !.pc = "bookInsert"]]
    BY DEF Goto, TypeOK
  <2> QED
    BY <1>0, <1>2, <2>1, <2>2, <2>3, ReplyMove, AsideMove DEF CheckBooked, At, docs
<1>3. ASSUME NEW r \in Request, InsertBooking(r)
      PROVE  MoneyInv'
  <2>1. intents[r].state = "absent"
    BY <1>3 DEF InsertBooking, At, MoneyInv, CallInv, Opened, Charged, Replies
  <2> QED BY <1>0, <1>3, <2>1, ReplyMove DEF InsertBooking
<1>4. ASSUME NEW b \in Request, PatchBooking(b) \/ RemoveBooking(b)
      PROVE  MoneyInv'
  BY <1>4, CallMove DEF PatchBooking, RemoveBooking
<1> QED
  BY <1>1, <1>2, <1>3, <1>4 DEF BookingNext

LEMMA GotoIs ==
  ASSUME TypeOK, NEW r \in Request, NEW pc, Goto(r, pc)
  PROVE  /\ req' = [req EXCEPT ![r] = [req[r] EXCEPT !.pc = pc]]
         /\ [req[r] EXCEPT !.pc = pc].pc = pc
         /\ [req[r] EXCEPT !.pc = pc].amount = req[r].amount
         /\ [req[r] EXCEPT !.pc = pc].target = req[r].target
BY DEF Goto, TypeOK, Call

\* Between Stripe's answer and its own, createPayment keeps its intent.
LEMMA ChargedMove ==
  ASSUME TypeOK, MoneyInv, NEW r \in Request, req[r].pc \in Charged,
         NEW call, call.pc \in Charged, call.amount = req[r].amount,
         req' = [req EXCEPT ![r] = call], UNCHANGED <<payments, intents>>
  PROVE  MoneyInv'
<1>1. req'[r] = call /\ \A q \in Request \ {r} : req'[q] = req[q]
  BY DEF TypeOK
<1>2. CallInv(r, req[r])
  BY DEF MoneyInv
<1>3. CallInv(r, call)
  BY <1>2 DEF CallInv, Opened, Charged, Replies
<1> QED BY <1>1, <1>3, CallMove

LEMMA ChargedGoto ==
  ASSUME TypeOK, MoneyInv, NEW r \in Request, req[r].pc \in Charged,
         NEW pc \in Charged, Goto(r, pc), UNCHANGED <<payments, intents>>
  PROVE  MoneyInv'
<1> DEFINE call == [req[r] EXCEPT !.pc = pc]
<1>1. req' = [req EXCEPT ![r] = call] /\ call.pc = pc /\ call.amount = req[r].amount
  BY GotoIs
<1> HIDE DEF call
<1> QED BY <1>1, ChargedMove

LEMMA ScheduleMoney ==
  ASSUME TypeOK, MoneyInv, ScheduleNext
  PROVE  MoneyInv'
<1>0. {"payFindSchedule", "payPushSchedule", "payNewSchedule", "paySave"} \subseteq Charged
  BY DEF Charged
<1>1. ASSUME NEW r \in Request, FindNoSchedule(r)
      PROVE  MoneyInv'
  BY <1>0, <1>1, ChargedGoto DEF FindNoSchedule, At, docs
<1>2. ASSUME NEW r \in Request, FindSchedule(r)
      PROVE  MoneyInv'
  <2>1. CASE Goto(r, "paySave")
    BY <1>0, <1>2, <2>1, ChargedGoto DEF FindSchedule, At, docs
  <2>2. ASSUME NEW s \in Request,
               req' = [req EXCEPT ![r].pc = "payPushSchedule", ![r].target = s]
        PROVE  MoneyInv'
    <3> DEFINE call == [req[r] EXCEPT !.pc = "payPushSchedule", !.target = s]
    <3>1. req' = [req EXCEPT ![r] = call]
      BY <2>2 DEF TypeOK
    <3>2. call.pc = "payPushSchedule" /\ call.amount = req[r].amount
      BY DEF TypeOK, Call
    <3> HIDE DEF call
    <3> QED BY <1>0, <1>2, <3>1, <3>2, ChargedMove DEF FindSchedule, At, docs
  <2> QED BY <1>2, <2>1, <2>2 DEF FindSchedule
<1>3. ASSUME NEW r \in Request, PushSchedule(r)
      PROVE  MoneyInv'
  BY <1>0, <1>3, ChargedGoto DEF PushSchedule, At
<1>4. ASSUME NEW r \in Request, NewSchedule(r)
      PROVE  MoneyInv'
  BY <1>0, <1>4, ChargedGoto DEF NewSchedule, At
<1>5. ASSUME NEW s \in Request, RemoveSchedule(s)
      PROVE  MoneyInv'
  BY <1>5, CallMove DEF RemoveSchedule
<1> QED
  BY <1>1, <1>2, <1>3, <1>4, <1>5 DEF ScheduleNext

LEMMA OrderMoney ==
  ASSUME TypeOK, MoneyInv, OrderNext
  PROVE  MoneyInv'
<1>0. /\ {"orderInsert", "orderBooking", "orderUnconfirm"} \subseteq Aside
      /\ {"ok", "error"} \subseteq Replies
  BY DEF Aside, Replies
<1>a. ASSUME NEW r \in Request, req[r].pc \in Aside
      PROVE  intents[r].state = "absent"
  BY <1>a DEF MoneyInv, CallInv, Aside, Opened, Charged, Replies
<1>1. ASSUME NEW r \in Request, NEW u \in Student, NEW c \in Course, NEW n \in PoNumber,
             CreateOrder(r, u, c, n)
      PROVE  MoneyInv'
  <2>1. [Fresh EXCEPT !.pc = "orderInsert", !.student = u, !.course = c, !.number = n] \in Call
    BY FreshType DEF Call, Awaits
  <2>2. [Fresh EXCEPT !.pc = "orderInsert", !.student = u, !.course = c, !.number = n].pc
          = "orderInsert"
    BY DEF Fresh
  <2> QED
    BY <1>0, <1>1, <2>1, <2>2, ReplyMove, AsideMove DEF CreateOrder, Start, docs
<1>2. ASSUME NEW r \in Request, InsertOrder(r)
      PROVE  MoneyInv'
  <2>1. CASE Reply(r, "error")
    BY <1>0, <1>2, <2>1, ReplyMove DEF InsertOrder
  <2>2. CASE Goto(r, "orderBooking")
    <3> DEFINE call == [req[r] EXCEPT !.pc = "orderBooking"]
    <3>1. call \in Call /\ call.pc = "orderBooking" /\ req' = [req EXCEPT ![r] = call]
      BY <2>2, GotoIs DEF TypeOK, Call, Awaits
    <3> HIDE DEF call
    <3> QED BY <1>0, <1>2, <3>1, AsideMove DEF InsertOrder, At
  <2> QED BY <1>2, <2>1, <2>2 DEF InsertOrder
<1>3. ASSUME NEW r \in Request, FindOrderBooking(r)
      PROVE  MoneyInv'
  <2>1. CASE Reply(r, "ok") \/ Reply(r, "error")
    BY <1>0, <1>a, <1>3, <2>1, ReplyMove DEF FindOrderBooking, At, docs
  <2>2. ASSUME NEW b \in Request,
               req' = [req EXCEPT ![r].pc = "orderUnconfirm", ![r].target = b,
                                  ![r].read = bookings[b].status]
        PROVE  MoneyInv'
    <3> DEFINE call == [req[r] EXCEPT !.pc = "orderUnconfirm", !.target = b,
                                      !.read = bookings[b].status]
    <3>1. req' = [req EXCEPT ![r] = call]
      BY <2>2 DEF TypeOK
    <3>2. bookings[b].status \in BookingStatus
      BY DEF TypeOK, BookingDoc
    <3>3. call \in Call /\ call.pc = "orderUnconfirm"
      <4>1. req[r] \in Call /\ "orderUnconfirm" \in Awaits
        BY DEF TypeOK, Awaits
      <4> QED BY <3>2, <4>1 DEF Call
    <3> HIDE DEF call
    <3> QED BY <1>0, <1>3, <3>1, <3>3, AsideMove DEF FindOrderBooking, At, docs
  <2> QED BY <1>3, <2>1, <2>2 DEF FindOrderBooking
<1>4. ASSUME NEW r \in Request, UnconfirmBooking(r)
      PROVE  MoneyInv'
  BY <1>0, <1>a, <1>4, ReplyMove DEF UnconfirmBooking, At
<1>5. ASSUME NEW o \in Request, UpdateOrder(o) \/ RemoveOrder(o)
      PROVE  MoneyInv'
  BY <1>5, CallMove DEF UpdateOrder, RemoveOrder, createPaymentFromPurchaseOrder
<1> QED
  BY <1>1, <1>2, <1>3, <1>4, <1>5 DEF OrderNext

LEMMA CrashMoney ==
  ASSUME TypeOK, MoneyInv, Crash
  PROVE  MoneyInv'
<1>1. ASSUME NEW r \in Request
      PROVE  req'[r] = req[r] \/ CallInv(r, req'[r])
  <2>1. CASE InFlight(r)
    <3>1. req'[r].pc = "crashed"
      BY <1>1, <2>1 DEF Crash, Fresh
    <3> QED BY <3>1 DEF CallInv, Opened, Charged, Replies
  <2>2. CASE ~InFlight(r)
    BY <1>1, <2>2 DEF Crash
  <2> QED BY <2>1, <2>2
<1> QED BY <1>1, CallMove DEF Crash, docs

LEMMA CentsInt ==
  ASSUME TypeOK
  PROVE  /\ \A q \in Request : ToCents(req[q].amount) \in Nat
         /\ \A p \in Request : /\ ToCents(payments[p].amount) \in Nat
                               /\ intents[p].amount \in Nat
                               /\ intents[p].refunded \in Nat
BY ToCentsType DEF TypeOK, Call, PaymentDoc, IntentDoc

LEMMA CreatePaymentMoney ==
  ASSUME TypeOK, MoneyInv, NEW r \in Request
  PROVE  /\ \A u \in Student, c \in Course, a \in Amount : CreatePayment(r, u, c, a) => MoneyInv'
         /\ CheckEnrolled(r) => MoneyInv'
         /\ SavePending(r) => MoneyInv'
         /\ StripeOpensIntent(r) => MoneyInv'
         /\ StripeRefusesIntent(r) => MoneyInv'
         /\ FindBookingToConfirm(r) => MoneyInv'
         /\ ConfirmBooking(r) => MoneyInv'
         /\ SaveSucceeded(r) => MoneyInv'
         /\ SaveFailed(r) => MoneyInv'
<1>0. /\ {"payEnrolled", "payPending"} \subseteq Aside
      /\ {"ok", "error"} \subseteq Replies
      /\ {"payConfirm", "payFindSchedule", "paySave", "payFailedCharged"} \subseteq Charged
  BY DEF Aside, Replies, Charged
<1>i. CallInv(r, req[r]) /\ DocInv(r)
  BY DEF MoneyInv
<1>1. ASSUME NEW u \in Student, NEW c \in Course, NEW a \in Amount, CreatePayment(r, u, c, a)
      PROVE  MoneyInv'
  <2> DEFINE price == IF a # 0 THEN a ELSE Price[c]
             call == [Fresh EXCEPT !.pc = "payEnrolled", !.student = u, !.course = c,
                                   !.amount = price]
  <2>1. price \in Nat
    BY StoreAssumption DEF StoreAssumption
  <2>2. call \in Call /\ call.pc = "payEnrolled"
    BY <2>1, FreshType DEF Call, Awaits, Fresh
  <2>3. Reply(r, "error") \/ req' = [req EXCEPT ![r] = call]
    BY <1>1 DEF CreatePayment
  <2> HIDE DEF call
  <2> QED
    BY <1>0, <1>1, <2>2, <2>3, ReplyMove, AsideMove DEF CreatePayment, Start, docs
<1>2. ASSUME CheckEnrolled(r)
      PROVE  MoneyInv'
  <2>1. CASE Reply(r, "error")
    BY <1>0, <1>2, <2>1, ReplyMove DEF CheckEnrolled, docs
  <2>2. CASE Goto(r, "payPending")
    <3> DEFINE call == [req[r] EXCEPT !.pc = "payPending"]
    <3>1. call \in Call /\ call.pc = "payPending" /\ req' = [req EXCEPT ![r] = call]
      BY <2>2, GotoIs DEF TypeOK, Call, Awaits
    <3> HIDE DEF call
    <3> QED BY <1>0, <1>2, <3>1, AsideMove DEF CheckEnrolled, At, docs
  <2> QED BY <1>2, <2>1, <2>2 DEF CheckEnrolled
<1>3. ASSUME SavePending(r)
      PROVE  MoneyInv'
  <2>1. payments[r].status = "absent" /\ intents[r].state = "absent" /\ ~payments[r].intent
    BY <1>3, <1>i DEF SavePending, At, CallInv, DocInv, Opened, Charged, Replies,
       TypeOK, PaymentDoc
  <2>2. /\ payments'[r].status = "pending" /\ payments'[r].amount = req[r].amount
        /\ payments'[r].intent = FALSE /\ payments'[r].refunded = 0
        /\ \A x \in Request \ {r} : payments'[x] = payments[x]
        /\ intents' = intents
    BY <1>3 DEF SavePending, TypeOK
  <2>3. /\ req'[r].pc = "payStripe" /\ req'[r].amount = req[r].amount
        /\ \A q \in Request \ {r} : req'[q] = req[q]
    BY <1>3 DEF SavePending, Goto, TypeOK, Call
  <2>4. DocInv(r)'
    BY <1>i, <2>1, <2>2, CentsInt DEF DocInv, Settled, ToCents
  <2>5. CallInv(r, req[r])'
    BY <2>1, <2>2, <2>3 DEF CallInv, Opened, Charged, Replies
  <2>6. ~Settled(r)
    BY <2>1 DEF Settled
  <2> QED BY <2>1, <2>2, <2>3, <2>4, <2>5, <2>6, CentsInt, DocMove
<1>4. ASSUME StripeOpensIntent(r)
      PROVE  MoneyInv'
  <2>1. /\ payments[r].status = "pending" /\ payments[r].amount = req[r].amount
        /\ intents[r].state = "absent" /\ intents[r].refunded = 0 /\ ~payments[r].intent
    BY <1>4, <1>i DEF StripeOpensIntent, At, CallInv, DocInv, Opened, TypeOK, PaymentDoc
  <2>2. /\ intents'[r].state = "open" /\ intents'[r].amount = ToCents(req[r].amount)
        /\ intents'[r].refunded = 0
        /\ \A x \in Request \ {r} : intents'[x] = intents[x]
        /\ payments' = payments
    BY <1>4 DEF StripeOpensIntent, TypeOK
  <2>3. /\ req'[r].pc \in {"payBooking", "payFailed"} /\ req'[r].amount = req[r].amount
        /\ \A q \in Request \ {r} : req'[q] = req[q]
    BY <1>4 DEF StripeOpensIntent, Goto, TypeOK, Call
  <2>4. DocInv(r)'
    BY <1>i, <2>1, <2>2, CentsInt DEF DocInv, Settled
  <2>5. CallInv(r, req[r])'
    BY <2>1, <2>2, <2>3 DEF CallInv, BackedBy, Opened, Charged, Replies
  <2>6. ~Settled(r)
    BY <2>1 DEF Settled
  <2> QED BY <2>1, <2>2, <2>3, <2>4, <2>5, <2>6, CentsInt, DocMove
<1>5. ASSUME StripeRefusesIntent(r)
      PROVE  MoneyInv'
  <2>1. /\ req'[r].pc = "payFailed" /\ req'[r].amount = req[r].amount
        /\ \A q \in Request \ {r} : req'[q] = req[q]
    BY <1>5 DEF StripeRefusesIntent, Goto, TypeOK, Call
  <2>2. CallInv(r, req'[r])
    BY <1>5, <1>i, <2>1 DEF StripeRefusesIntent, At, CallInv, Opened, Charged, Replies
  <2> QED BY <1>5, <2>1, <2>2, CallMove DEF StripeRefusesIntent, docs
<1>6. ASSUME FindBookingToConfirm(r)
      PROVE  MoneyInv'
  <2>1. CASE Reply(r, "error")
    BY <1>0, <1>6, <2>1, ReplyMove DEF FindBookingToConfirm, docs
  <2>2. ASSUME NEW b \in Request,
               req' = [req EXCEPT ![r].pc = "payConfirm", ![r].target = b,
                                  ![r].session = bookings[b].session,
                                  ![r].read = bookings[b].status]
        PROVE  MoneyInv'
    <3> DEFINE call == [req[r] EXCEPT !.pc = "payConfirm", !.target = b,
                                      !.session = bookings[b].session,
                                      !.read = bookings[b].status]
    <3>1. req' = [req EXCEPT ![r] = call]
      BY <2>2 DEF TypeOK
    <3>2. call.pc = "payConfirm" /\ call.amount = req[r].amount
      BY DEF TypeOK, Call
    <3> HIDE DEF call
    <3>3. req[r].pc \in Charged
      BY <1>6 DEF FindBookingToConfirm, At, Charged
    <3> QED BY <1>0, <1>6, <3>1, <3>2, <3>3, ChargedMove DEF FindBookingToConfirm, docs
  <2> QED BY <1>6, <2>1, <2>2 DEF FindBookingToConfirm
<1>7. ASSUME ConfirmBooking(r)
      PROVE  MoneyInv'
  BY <1>0, <1>7, ChargedGoto DEF ConfirmBooking, At
<1>8. ASSUME SaveSucceeded(r)
      PROVE  MoneyInv'
  <2>1. payments[r].status = "pending" /\ BackedBy(r)
    BY <1>8, <1>i DEF SaveSucceeded, At, CallInv, Opened, Charged
  <2>2. /\ payments'[r] = [payments[r] EXCEPT !.status = "succeeded", !.intent = TRUE]
        /\ \A x \in Request \ {r} : payments'[x] = payments[x]
        /\ intents' = intents
    BY <1>8 DEF SaveSucceeded, TypeOK
  <2>3. /\ payments'[r].status = "succeeded" /\ payments'[r].intent
        /\ payments'[r].amount = payments[r].amount
        /\ payments'[r].refunded = payments[r].refunded
    BY <2>2 DEF TypeOK, PaymentDoc
  <2>4. /\ req'[r].pc = "ok"
        /\ \A q \in Request \ {r} : req'[q] = req[q]
    BY <1>8 DEF SaveSucceeded, Reply, Fresh, TypeOK
  <2>5. DocInv(r)' /\ Settled(r)'
    BY <1>i, <2>1, <2>2, <2>3 DEF DocInv, BackedBy, Settled
  <2>6. CallInv(r, req[r])'
    BY <2>4, <2>5 DEF CallInv, Opened, Charged, Replies
  <2>7. /\ \A x \in Request \ {r} : payments'[x] = payments[x] /\ intents'[x] = intents[x]
        /\ intents'[r].refunded = intents[r].refunded
        /\ payments'[r].intent
    BY <2>2, <2>3
  <2> QED BY <2>4, <2>5, <2>6, <2>7, CentsInt, DocMove
<1>9. ASSUME SaveFailed(r)
      PROVE  MoneyInv'
  <2>1. /\ payments[r].status = "pending"
        /\ At(r, "payFailedCharged") => BackedBy(r)
    BY <1>9, <1>i DEF SaveFailed, At, CallInv, Opened, Charged
  <2>2. ~payments[r].intent /\ ~Settled(r)
    BY <1>i, <2>1 DEF DocInv, Settled
  <2>3. /\ payments'[r].status = "failed" /\ (payments'[r].intent = At(r, "payFailedCharged"))
        /\ payments'[r].amount = payments[r].amount
        /\ payments'[r].refunded = payments[r].refunded
        /\ \A x \in Request \ {r} : payments'[x] = payments[x]
        /\ intents' = intents
    <3>1. payments[r] \in PaymentDoc
      BY DEF TypeOK
    <3> QED BY <1>9, <3>1 DEF SaveFailed, TypeOK, PaymentDoc
  <2>4. /\ req'[r].pc = "error"
        /\ \A q \in Request \ {r} : req'[q] = req[q]
    BY <1>9 DEF SaveFailed, Reply, Fresh, TypeOK
  <2>5. DocInv(r)'
    BY <1>i, <2>1, <2>2, <2>3 DEF DocInv, BackedBy, Settled, OnRecord
  <2>6. CallInv(r, req[r])'
    BY <2>4 DEF CallInv, Opened, Charged, Replies
  <2>7. /\ \A x \in Request \ {r} : payments'[x] = payments[x] /\ intents'[x] = intents[x]
        /\ intents'[r].refunded = intents[r].refunded
    BY <2>3
  <2> QED BY <2>2, <2>4, <2>5, <2>6, <2>7, CentsInt, DocMove
<1> QED
  BY <1>1, <1>2, <1>3, <1>4, <1>5, <1>6, <1>7, <1>8, <1>9

LEMMA ConfirmAndRefundMoney ==
  ASSUME TypeOK, MoneyInv, NEW r \in Request
  PROVE  /\ \A p \in Request : ConfirmPayment(r, p) => MoneyInv'
         /\ SaveConfirmed(r) => MoneyInv'
         /\ \A p \in Request, a \in Amount : RefundPayment(r, p, a) => MoneyInv'
         /\ StripeRefunds(r) => MoneyInv'
         /\ StripeRefusesRefund(r) => MoneyInv'
         /\ SaveRefunded(r) => MoneyInv'
<1>0. {"ok", "error"} \subseteq Replies
  BY DEF Replies
<1>i. CallInv(r, req[r])
  BY DEF MoneyInv
<1>a. req[r].pc \in {"idle", "confirmSave", "refundStripe", "refundSave"} =>
        payments[r].status = "absent" /\ intents[r].state = "absent"
  BY <1>i DEF CallInv, Opened, Charged, Replies
<1>1. ASSUME NEW p \in Request, ConfirmPayment(r, p)
      PROVE  MoneyInv'
  <2>1. /\ req'[r].pc = "confirmSave" /\ req'[r].target = p
        /\ \A q \in Request \ {r} : req'[q] = req[q]
    BY <1>1 DEF ConfirmPayment, Fresh, TypeOK
  <2>2. CallInv(r, req'[r])
    BY <1>1, <1>a, <2>1 DEF ConfirmPayment, Start, CallInv, Opened, Charged, Replies
  <2> QED BY <1>1, <2>1, <2>2, CallMove DEF ConfirmPayment, docs
<1>2. ASSUME SaveConfirmed(r)
      PROVE  MoneyInv'
  <2>1. CASE payments' = payments
    BY <1>0, <1>2, <1>a, <2>1, ReplyMove DEF SaveConfirmed, At
  <2>2. CASE payments' # payments
    <3>0. PICK t \in Request : t = req[r].target
      BY <1>2, <1>i DEF SaveConfirmed, At, CallInv
    <3>1. payments[t].intent /\ DocInv(t)
      BY <1>2, <1>i, <3>0 DEF SaveConfirmed, At, CallInv, MoneyInv
    <3>2. t # r
      BY <1>2, <1>a, <3>1 DEF SaveConfirmed, At, DocInv
    <3>3. /\ payments'[t].status = "succeeded" /\ payments'[t].intent = payments[t].intent
          /\ payments'[t].amount = payments[t].amount
          /\ payments'[t].refunded = payments[t].refunded
          /\ \A x \in Request \ {t} : payments'[x] = payments[x] /\ intents'[x] = intents[x]
          /\ intents'[t] = intents[t]
      BY <1>2, <2>2, <3>0 DEF SaveConfirmed, TypeOK, PaymentDoc
    <3>4. req'[r].pc \in {"ok", "error"} /\ \A q \in Request \ {r} : req'[q] = req[q]
      BY <1>2 DEF SaveConfirmed, Reply, Fresh, TypeOK
    <3>5. Settled(t)'
      BY <3>3 DEF Settled
    <3>6. DocInv(t)'
      BY <3>1, <3>3, <3>5 DEF DocInv, BackedBy
    <3>7. CallInv(r, req[r])'
      <4>1. intents'[r].state = "absent"
        BY <1>2, <1>a, <3>2, <3>3 DEF SaveConfirmed, At
      <4> QED BY <3>4, <4>1 DEF CallInv, Opened, Charged, Replies
    <3>8. \A x \in Request \ {t} : payments'[x] = payments[x] /\ intents'[x] = intents[x]
      BY <3>3
    <3>9. intents'[t].refunded = intents[t].refunded /\ payments'[t].intent
      BY <3>1, <3>3
    <3> QED BY <3>1, <3>4, <3>5, <3>6, <3>7, <3>8, <3>9, CentsInt, DocMove
  <2> QED BY <2>1, <2>2
<1>3. ASSUME NEW p \in Request, NEW a \in Amount, RefundPayment(r, p, a)
      PROVE  MoneyInv'
  <2>1. CASE Reply(r, "error")
    BY <1>0, <1>3, <2>1, ReplyMove DEF RefundPayment, docs
  <2>2. CASE Refundable(p, a) /\
             req' = [req EXCEPT ![r] = [Fresh EXCEPT !.pc = "refundStripe", !.target = p,
                                          !.amount = RefundAmount(p, a),
                                          !.was = payments[p].refunded]]
    <3>1. /\ req'[r].pc = "refundStripe" /\ req'[r].target = p
          /\ \A q \in Request \ {r} : req'[q] = req[q]
      BY <2>2 DEF Fresh, TypeOK
    <3>2. Settled(p)
      BY <2>2 DEF Refundable, Settled
    <3>3. CallInv(r, req'[r])
      BY <1>3, <1>a, <3>1, <3>2 DEF RefundPayment, Start, CallInv, Opened, Charged, Replies
    <3> QED BY <1>3, <3>1, <3>3, CallMove DEF RefundPayment, docs
  <2> QED BY <1>3, <2>1, <2>2 DEF RefundPayment
<1>4. ASSUME StripeRefunds(r)
      PROVE  MoneyInv'
  <2>0. PICK t \in Request : t = req[r].target
    BY <1>4, <1>i DEF StripeRefunds, At, CallInv
  <2> DEFINE cents == RefundedCents(t, req[r].amount)
  <2>1. /\ Settled(t) /\ payments[t].intent /\ DocInv(t)
        /\ payments[r].status = "absent" /\ intents[r].state = "absent"
    BY <1>4, <1>i, <1>a, <2>0 DEF StripeRefunds, At, CallInv, MoneyInv, DocInv
  <2>2. t # r
    BY <2>1 DEF Settled
  <2>3. /\ cents \in Int /\ intents[t].refunded \in Nat
        /\ ToCents(req[r].amount) # 0 => cents = ToCents(req[r].amount)
        /\ 0 < cents /\ intents[t].refunded + cents <= intents[t].amount
    BY <1>4, <2>0, CentsInt DEF StripeRefunds, RefundedCents
  <2>4. /\ payments' = payments
        /\ intents'[t].refunded = intents[t].refunded + cents
        /\ intents'[t].state = "paid" /\ intents'[t].amount = intents[t].amount
        /\ \A x \in Request \ {t} : intents'[x] = intents[x]
    BY <1>4, <2>0 DEF StripeRefunds, TypeOK, IntentDoc
  <2>5. /\ req'[r].pc = "error" \/ (/\ req'[r].pc = "refundSave" /\ req'[r].target = t
                                   /\ req'[r].amount = req[r].amount)
        /\ \A q \in Request \ {r} : req'[q] = req[q]
    BY <1>4, <2>0 DEF StripeRefunds, Reply, Goto, Fresh, TypeOK, Call
  <2> HIDE DEF cents
  <2>6. DocInv(t)'
    <3>1. ToCents(payments[t].refunded) <= intents[t].refunded
          /\ ToCents(payments[t].refunded) \in Int
      BY <2>1, ToCentsType DEF DocInv, TypeOK, PaymentDoc
    <3> QED BY <2>1, <2>3, <2>4, <3>1 DEF DocInv, BackedBy, Settled
  <2>7. CallInv(r, req[r])'
    <3>1. Settled(t)'
      BY <2>1, <2>4 DEF Settled
    <3>2. 0 < intents'[t].refunded /\ ToCents(req[r].amount) <= intents'[t].refunded
      BY <2>3, <2>4, CentsInt
    <3>3. intents'[r].state = "absent"
      BY <2>1, <2>2, <2>4
    <3> QED
      BY <2>1, <2>4, <2>5, <3>1, <3>2, <3>3 DEF CallInv, Opened, Charged, Replies
  <2>8. Settled(t)' /\ payments'[t].intent
    BY <2>1, <2>4 DEF Settled
  <2>9. intents'[t].refunded \in Int /\ intents[t].refunded <= intents'[t].refunded
    BY <2>3, <2>4
  <2> QED BY <2>1, <2>3, <2>4, <2>5, <2>6, <2>7, <2>8, <2>9, CentsInt, DocMove
<1>5. ASSUME StripeRefusesRefund(r)
      PROVE  MoneyInv'
  BY <1>0, <1>5, ReplyMove DEF StripeRefusesRefund, docs
<1>6. ASSUME SaveRefunded(r)
      PROVE  MoneyInv'
  <2>0. PICK t \in Request : t = req[r].target
    BY <1>6, <1>i DEF SaveRefunded, At, CallInv
  <2> DEFINE noted == IF req[r].amount = req[r].was THEN payments[t].refunded
                      ELSE req[r].amount
  <2>1. /\ Settled(t) /\ payments[t].intent /\ DocInv(t)
        /\ payments[r].status = "absent" /\ intents[r].state = "absent"
        /\ 0 < intents[t].refunded /\ ToCents(req[r].amount) <= intents[t].refunded
    BY <1>6, <1>i, <1>a, <2>0 DEF SaveRefunded, At, CallInv, MoneyInv, DocInv
  <2>2. t # r
    BY <2>1 DEF Settled
  <2>3. /\ payments'[t] = [payments[t] EXCEPT !.status = "refunded", !.refunded = noted]
        /\ \A x \in Request \ {t} : payments'[x] = payments[x] /\ intents'[x] = intents[x]
        /\ intents'[t] = intents[t] /\ intents'[r] = intents[r]
    BY <1>6, <2>0 DEF SaveRefunded, TypeOK
  <2>4. /\ payments'[t].status = "refunded" /\ payments'[t].refunded = noted
        /\ payments'[t].amount = payments[t].amount /\ payments'[t].intent = payments[t].intent
    BY <2>3 DEF TypeOK, PaymentDoc
  <2>5. req'[r].pc = "ok" /\ \A q \in Request \ {r} : req'[q] = req[q]
    BY <1>6 DEF SaveRefunded, Reply, Fresh, TypeOK
  <2>6. ToCents(noted) <= intents[t].refunded
    BY <2>1 DEF DocInv
  <2> HIDE DEF noted
  <2>7. Settled(t)'
    BY <2>4 DEF Settled
  <2>8. DocInv(t)'
    BY <2>1, <2>3, <2>4, <2>6, <2>7 DEF DocInv, BackedBy
  <2>9. CallInv(r, req[r])'
    BY <2>1, <2>3, <2>5 DEF CallInv, Opened, Charged, Replies
  <2>10. \A x \in Request \ {t} : payments'[x] = payments[x] /\ intents'[x] = intents[x]
    BY <2>3
  <2>11. intents'[t].refunded = intents[t].refunded /\ payments'[t].intent
    BY <2>1, <2>3, <2>4
  <2> QED BY <2>1, <2>5, <2>7, <2>8, <2>9, <2>10, <2>11, CentsInt, DocMove
<1> QED
  BY <1>1, <1>2, <1>3, <1>4, <1>5, <1>6

LEMMA PaymentMoney ==
  ASSUME TypeOK, MoneyInv, PaymentNext
  PROVE  MoneyInv'
<1>1. ASSUME NEW p \in Request, CustomerPays(p)
      PROVE  MoneyInv'
  <2>1. DocInv(p) /\ CallInv(p, req[p]) /\ (OnRecord(p) => Settled(p))
    BY <1>1 DEF MoneyInv, CallInv, CustomerPays
  <2>2. /\ payments' = payments /\ req' = req
        /\ intents'[p].state = "paid" /\ intents'[p].amount = intents[p].amount
        /\ intents'[p].refunded = intents[p].refunded
        /\ \A x \in Request \ {p} : intents'[x] = intents[x]
    BY <1>1 DEF CustomerPays, TypeOK, IntentDoc
  <2>3. (OnRecord(p)' => Settled(p)') /\ (Settled(p) => Settled(p)')
    BY <2>1, <2>2 DEF Settled, OnRecord
  <2>4. DocInv(p)'
    BY <1>1, <2>1, <2>2, <2>3 DEF DocInv, BackedBy, Settled, CustomerPays
  <2>5. CallInv(p, req[p])'
    BY <1>1, <2>2, <2>3 DEF CallInv, CustomerPays, Opened, Charged, Replies
  <2> QED BY <2>2, <2>3, <2>4, <2>5, CentsInt, DocMove
<1>2. ASSUME NEW u \in Student, NEW c \in Course, Enroll(u, c) \/ Unenroll(u, c)
      PROVE  MoneyInv'
  BY <1>2, CallMove DEF Enroll, Unenroll
<1>3. ASSUME NEW r \in Request, CreateCheckout(r)
      PROVE  MoneyInv'
  <2>1. "error" \in Replies
    BY DEF Replies
  <2> QED BY <1>3, <2>1, ReplyMove DEF CreateCheckout, Start, docs
<1> QED
  BY <1>1, <1>2, <1>3, CreatePaymentMoney, ConfirmAndRefundMoney DEF PaymentNext

LEMMA StripeMoney ==
  ASSUME TypeOK, MoneyInv, StripeNext
  PROVE  MoneyInv'
<1>0. {"ok", "error"} \subseteq Replies
  BY DEF Replies
<1>a. ASSUME NEW r \in Request, req[r].pc = "idle"
      PROVE  payments[r].status = "absent" /\ intents[r].state = "absent"
  BY <1>a DEF MoneyInv, CallInv, Opened, Charged, Replies
<1>1. ASSUME NEW r \in Request,
             ReadIntent(r) \/ ListIntents(r) \/ KeepCard(r) \/ HandleWebhook(r)
      PROVE  MoneyInv'
  <2>1. req[r].pc = "idle" /\ UNCHANGED docs /\ (Reply(r, "ok") \/ Reply(r, "error"))
    BY <1>1 DEF ReadIntent, ListIntents, KeepCard, HandleWebhook, Answers, Start
  <2> QED BY <1>0, <1>a, <2>1, ReplyMove DEF docs
<1>4. ASSUME NEW r \in Request, NEW a \in Amount, OpenIntent(r, a) \/ OpenCheckoutSession(r, a)
      PROVE  MoneyInv'
  <2>1. PICK cents \in Nat : Opens(r, cents)
    BY <1>4, ToCentsType, StoreAssumption DEF OpenIntent, OpenCheckoutSession, StoreAssumption
  <2>2. /\ payments[r].status = "absent" /\ intents[r].state = "absent"
        /\ payments' = payments /\ (Reply(r, "ok") \/ Reply(r, "error"))
    BY <1>a, <2>1 DEF Opens, Answers, Start
  <2>3. CASE intents' = intents
    BY <1>0, <2>2, <2>3, ReplyMove
  <2>4. CASE intents' # intents
    <3>1. /\ intents'[r].state = "open" /\ intents'[r].refunded = 0 /\ intents'[r].amount = cents
          /\ \A x \in Request \ {r} : intents'[x] = intents[x]
      BY <2>1, <2>4 DEF Opens, TypeOK
    <3>2. req'[r].pc \in {"ok", "error"} /\ \A q \in Request \ {r} : req'[q] = req[q]
      BY <2>2 DEF Reply, Fresh, TypeOK
    <3>3. DocInv(r) /\ ~Settled(r) /\ ~OnRecord(r)'
      BY <2>2 DEF MoneyInv, Settled, OnRecord
    <3>4. intents[r].refunded = 0
      BY <2>2, <3>3 DEF DocInv
    <3>5. DocInv(r)'
      BY <2>2, <3>1, <3>3, <3>4, CentsInt DEF DocInv, Settled
    <3>6. CallInv(r, req[r])'
      BY <3>2, <3>3 DEF CallInv, Opened, Charged, Replies
    <3> QED BY <2>2, <3>1, <3>2, <3>3, <3>4, <3>5, <3>6, CentsInt, DocMove
  <2> QED BY <2>3, <2>4
<1>2. ASSUME NEW r \in Request, NEW p \in Request, CancelIntent(r, p)
      PROVE  MoneyInv'
  <2>0. /\ payments[r].status = "absent" /\ intents[r].state = "absent"
        /\ payments' = payments /\ (Reply(r, "ok") \/ Reply(r, "error"))
    BY <1>2, <1>a DEF CancelIntent, Answers, Start
  <2>1. CASE intents' = intents
    BY <1>0, <2>0, <2>1, ReplyMove
  <2>2. CASE intents' # intents
    <3>1. /\ intents[p].state = "open" /\ intents'[p].state = "canceled"
          /\ intents'[p].amount = intents[p].amount
          /\ intents'[p].refunded = intents[p].refunded
          /\ \A x \in Request \ {p} : intents'[x] = intents[x]
      BY <1>2, <2>2 DEF CancelIntent, TypeOK, IntentDoc
    <3>2. p # r
      BY <2>0, <3>1
    <3>3. req'[r].pc \in {"ok", "error"} /\ \A q \in Request \ {r} : req'[q] = req[q]
      BY <2>0 DEF Reply, Fresh, TypeOK
    <3>4. ASSUME NEW x \in Request
          PROVE  DocInv(x)'
      <4>1. DocInv(x)
        BY DEF MoneyInv
      <4> QED BY <2>0, <3>1, <4>1, CentsInt DEF DocInv, BackedBy, Settled, OnRecord
    <3>5. ASSUME NEW q \in Request
          PROVE  CallInv(q, req[q])'
      <4>1. CASE q = r
        BY <2>0, <3>1, <3>2, <3>3, <4>1 DEF CallInv, Opened, Charged, Replies
      <4>2. CASE q # r
        <5>1. CallInv(q, req[q]) /\ req'[q] = req[q]
          BY <3>3, <4>2 DEF MoneyInv
        <5>2. /\ intents'[q].state = "absent" <=> intents[q].state = "absent"
              /\ intents'[q].amount = intents[q].amount
              /\ \A x \in Request : intents'[x].refunded = intents[x].refunded
          BY <3>1
        <5> QED BY <2>0, <5>1, <5>2 DEF CallInv, BackedBy, Settled, OnRecord
      <4> QED BY <4>1, <4>2
    <3> QED BY <3>4, <3>5 DEF MoneyInv
  <2> QED BY <2>1, <2>2
<1>3. ASSUME NEW r \in Request, NEW p \in Request, NEW a \in Amount, RefundIntent(r, p, a)
      PROVE  MoneyInv'
  <2>0. /\ payments[r].status = "absent" /\ intents[r].state = "absent"
        /\ payments' = payments /\ (Reply(r, "ok") \/ Reply(r, "error"))
    BY <1>3, <1>a DEF RefundIntent, Answers, Start
  <2>1. CASE intents' = intents
    BY <1>0, <2>0, <2>1, ReplyMove
  <2>2. CASE intents' # intents
    <3> DEFINE cents == RefundedCents(p, a)
    <3>1. /\ intents[p].state = "paid"
          /\ 0 < cents /\ intents[p].refunded + cents <= intents[p].amount
          /\ intents' = [intents EXCEPT ![p].refunded = intents[p].refunded + cents]
      BY <1>3, <2>2 DEF RefundIntent, TypeOK, IntentDoc
    <3>2. cents \in Int /\ intents[p].refunded \in Nat /\ intents[p].amount \in Nat
      BY ToCentsType, StoreAssumption DEF RefundedCents, TypeOK, IntentDoc, StoreAssumption
    <3>3. /\ intents'[p].refunded = intents[p].refunded + cents
          /\ intents'[p].state = "paid" /\ intents'[p].amount = intents[p].amount
          /\ \A x \in Request \ {p} : intents'[x] = intents[x]
      BY <3>1 DEF TypeOK, IntentDoc
    <3> HIDE DEF cents
    <3>4. req'[r].pc \in {"ok", "error"} /\ \A q \in Request \ {r} : req'[q] = req[q]
      BY <2>0 DEF Reply, Fresh, TypeOK
    <3>5. DocInv(p) /\ CallInv(p, req[p]) /\ p # r
      BY <2>0, <3>1 DEF MoneyInv
    <3>6. \/ payments[p].intent /\ Settled(p)'
          \/ req[p].pc \in Replies /\ ~OnRecord(p)'
      <4>1. CASE OnRecord(p)
        BY <2>0, <3>1, <3>5, <4>1 DEF DocInv, Settled
      <4>2. CASE ~OnRecord(p)
        BY <2>0, <3>1, <3>5, <4>2 DEF CallInv, OnRecord, Opened
      <4> QED BY <4>1, <4>2
    <3>7. DocInv(p)'
      <4>1. /\ ToCents(payments[p].refunded) <= intents[p].refunded
            /\ ToCents(payments[p].refunded) \in Int
        BY <3>5, ToCentsType DEF DocInv, TypeOK, PaymentDoc
      <4> QED BY <2>0, <3>1, <3>2, <3>3, <3>5, <4>1 DEF DocInv, BackedBy, Settled, OnRecord
    <3>8. CallInv(r, req[r])'
      BY <2>0, <3>3, <3>4, <3>5 DEF CallInv, Opened, Charged, Replies
    <3>9. intents'[p].refunded \in Int /\ intents[p].refunded <= intents'[p].refunded
      BY <3>1, <3>2, <3>3
    <3>10. \A x \in Request \ {p} : payments'[x] = payments[x] /\ intents'[x] = intents[x]
      BY <2>0, <3>3
    <3>11. Settled(p) => Settled(p)'
      BY <2>0 DEF Settled
    <3> QED
      BY <2>0, <3>2, <3>4, <3>5, <3>6, <3>7, <3>8, <3>9, <3>10, <3>11, CentsInt, DocMove
  <2> QED BY <2>1, <2>2
<1> QED
  BY <1>1, <1>2, <1>3, <1>4 DEF StripeNext

LEMMA MoneyStep == TypeOK /\ MoneyInv /\ [Next]_vars => MoneyInv'
<1>1. TypeOK /\ MoneyInv /\ UNCHANGED vars => MoneyInv'
  BY CallMove DEF vars
<1> QED
  BY <1>1, BookingMoney, ScheduleMoney, PaymentMoney, StripeMoney, OrderMoney, CrashMoney
     DEF Next

LEMMA MoneyInit == Init => MoneyInv
BY DEF Init, StoreInit, MoneyInv, DocInv, CallInv, Settled, BackedBy, NoPayment, NoIntent,
   Fresh, Opened, Charged, Replies, ToCents

\* What each payment and intent satisfies by itself and what each call in
\* flight relies on hold together in every reachable state.
THEOREM MoneyHolds == Spec => []MoneyInv
BY TypeCorrect, MoneyInit, MoneyStep, PTL DEF Spec

\* createPayment, refundPayment, confirmPayment and crashes: a card payment recorded
\* SUCCEEDED or REFUNDED names an intent at Stripe over the recorded amount.
THEOREM SettledBackedHolds == Spec => []SettledIsBacked
<1>1. MoneyInv => SettledIsBacked
  BY DEF MoneyInv, DocInv, BackedBy, SettledIsBacked
<1> QED BY <1>1, MoneyHolds, PTL

\* refundPayment: what is recorded REFUNDED was given back, and never more than
\* was charged.
THEOREM RefundBackedHolds == Spec => []RefundIsBacked
<1>1. MoneyInv => RefundIsBacked
  BY DEF MoneyInv, DocInv, RefundIsBacked
<1> QED BY <1>1, MoneyHolds, PTL

\* createPayment hands out the client secret only after the intent id is
\* stored: no payment loses what its customer paid.  Money paid into an intent
\* of the stripe routes is outside the claim.
THEOREM PaidRecordedHolds == Spec => []PaidIsRecorded
<1>1. MoneyInv => PaidIsRecorded
  BY DEF MoneyInv, DocInv, PaidIsRecorded
<1> QED BY <1>1, MoneyHolds, PTL

-----------------------------------------------------------------------------
(***************************************************************************)
(* The payments implement PaymentLedger, and a recorded payment stays      *)
(* recorded.  Only twelve actions touch payments or intents (MoneyAction);    *)
(* each is a step of the ledger or leaves it as it was.                    *)
(***************************************************************************)

MoneyAction(r) ==
  \/ SavePending(r) \/ StripeOpensIntent(r) \/ SaveSucceeded(r) \/ SaveFailed(r)
  \/ SaveConfirmed(r) \/ StripeRefunds(r) \/ SaveRefunded(r) \/ CustomerPays(r)
  \/ \E a \in Amount : OpenIntent(r, a) \/ OpenCheckoutSession(r, a)
  \/ \E p \in Request : CancelIntent(r, p)
  \/ \E p \in Request, a \in Amount : RefundIntent(r, p, a)

LEMMA MoneyActions ==
  ASSUME [Next]_vars
  PROVE  UNCHANGED <<payments, intents>> \/ \E r \in Request : MoneyAction(r)
<1>1. BookingNext => UNCHANGED <<payments, intents>>
  BY DEF BookingNext, CreateBooking, CheckBooked, InsertBooking, PatchBooking, RemoveBooking, docs
<1>2. ScheduleNext => UNCHANGED <<payments, intents>>
  BY DEF ScheduleNext, FindNoSchedule, FindSchedule, PushSchedule, NewSchedule,
     RemoveSchedule, docs
<1>3. OrderNext => UNCHANGED <<payments, intents>>
  BY DEF OrderNext, CreateOrder, InsertOrder, FindOrderBooking, UnconfirmBooking,
     UpdateOrder, RemoveOrder, createPaymentFromPurchaseOrder, docs
<1>4. PaymentNext => UNCHANGED <<payments, intents>> \/ \E r \in Request : MoneyAction(r)
  BY DEF PaymentNext, MoneyAction, CreatePayment, CheckEnrolled, StripeRefusesIntent,
     FindBookingToConfirm, ConfirmBooking, ConfirmPayment, RefundPayment,
     StripeRefusesRefund, CreateCheckout, Enroll, Unenroll, docs
<1>5. Crash \/ UNCHANGED vars => UNCHANGED <<payments, intents>>
  BY DEF Crash, docs, vars
<1>6. StripeNext => UNCHANGED <<payments, intents>> \/ \E r \in Request : MoneyAction(r)
  BY DEF StripeNext, MoneyAction, ReadIntent, ListIntents, KeepCard,
     HandleWebhook, docs
<1> QED BY <1>1, <1>2, <1>3, <1>4, <1>5, <1>6 DEF Next

\* What the money actions do to the one payment they concern.
LEMMA CreateEffects ==
  ASSUME TypeOK, MoneyInv, NEW r \in Request
  PROVE  /\ SavePending(r) =>
              /\ payments[r].status = "absent" /\ ~payments[r].intent
              /\ intents[r].state = "absent"
              /\ payments' = [payments EXCEPT ![r] = payments'[r]]
              /\ payments'[r].status = "pending" /\ payments'[r].intent = FALSE
              /\ intents' = intents
         /\ StripeOpensIntent(r) =>
              /\ payments[r].status = "pending"
              /\ intents[r].state = "absent" /\ intents[r].refunded = 0
              /\ intents' = [intents EXCEPT ![r] = intents'[r]]
              /\ intents'[r] = [state |-> "open", amount |-> intents'[r].amount, refunded |-> 0]
              /\ intents'[r].amount \in Nat \ {0}
              /\ payments' = payments
         /\ SaveSucceeded(r) =>
              /\ payments[r].status = "pending" /\ intents[r].state # "absent"
              /\ payments' = [payments EXCEPT ![r].status = "succeeded", ![r].intent = TRUE]
              /\ intents' = intents
         /\ SaveFailed(r) =>
              /\ payments[r].status = "pending" /\ ~payments[r].intent
              /\ \/ payments' = [payments EXCEPT ![r].status = "failed", ![r].intent = FALSE]
                 \/ /\ intents[r].state # "absent"
                    /\ payments' = [payments EXCEPT ![r].status = "failed", ![r].intent = TRUE]
              /\ intents' = intents
<1>i. CallInv(r, req[r]) /\ DocInv(r) /\ payments[r].intent \in BOOLEAN
  BY DEF MoneyInv, TypeOK, PaymentDoc
<1>1. ASSUME SavePending(r)
      PROVE  /\ payments[r].status = "absent" /\ ~payments[r].intent
             /\ intents[r].state = "absent"
             /\ payments' = [payments EXCEPT ![r] = payments'[r]]
             /\ payments'[r].status = "pending" /\ payments'[r].intent = FALSE
             /\ intents' = intents
  <2>1. payments[r].status = "absent" /\ intents[r].state = "absent"
    BY <1>1, <1>i DEF SavePending, At, CallInv, Opened, Charged, Replies
  <2>2. ~payments[r].intent
    BY <1>i, <2>1 DEF DocInv
  <2> QED BY <1>1, <2>1, <2>2 DEF SavePending, TypeOK
<1>2. ASSUME StripeOpensIntent(r)
      PROVE  /\ payments[r].status = "pending"
             /\ intents[r].state = "absent" /\ intents[r].refunded = 0
             /\ intents' = [intents EXCEPT ![r] = intents'[r]]
             /\ intents'[r] = [state |-> "open", amount |-> intents'[r].amount, refunded |-> 0]
             /\ intents'[r].amount \in Nat \ {0}
             /\ payments' = payments
  <2>1. /\ payments[r].status = "pending"
        /\ intents[r].state = "absent" /\ intents[r].refunded = 0
    BY <1>2, <1>i DEF StripeOpensIntent, At, CallInv, DocInv, Opened
  <2>2. intents'[r] = [state |-> "open", amount |-> ToCents(req[r].amount), refunded |-> 0]
    BY <1>2 DEF StripeOpensIntent, TypeOK
  <2>3. intents'[r] = [state |-> "open", amount |-> intents'[r].amount, refunded |-> 0]
    BY <2>2
  <2>4. intents'[r].amount \in Nat \ {0}
    BY <1>2, <2>2, CentsInt DEF StripeOpensIntent
  <2> QED BY <1>2, <2>1, <2>3, <2>4 DEF StripeOpensIntent, TypeOK
<1>3. ASSUME SaveSucceeded(r)
      PROVE  payments[r].status = "pending" /\ intents[r].state # "absent"
  BY <1>3, <1>i DEF SaveSucceeded, At, CallInv, BackedBy, Opened, Charged
<1>4. ASSUME SaveFailed(r)
      PROVE  /\ payments[r].status = "pending" /\ ~payments[r].intent
             /\ \/ payments' = [payments EXCEPT ![r].status = "failed", ![r].intent = FALSE]
                \/ /\ intents[r].state # "absent"
                   /\ payments' = [payments EXCEPT ![r].status = "failed", ![r].intent = TRUE]
             /\ intents' = intents
  <2>1. payments[r].status = "pending"
    BY <1>4, <1>i DEF SaveFailed, At, CallInv, Opened, Charged
  <2>2. ~payments[r].intent
    BY <1>i, <2>1 DEF DocInv
  <2>3. CASE At(r, "payFailedCharged")
    <3>1. intents[r].state # "absent" /\ (At(r, "payFailedCharged") = TRUE)
      BY <1>i, <2>3 DEF At, CallInv, BackedBy, Charged
    <3> QED BY <1>4, <2>1, <2>2, <3>1 DEF SaveFailed
  <2>4. CASE ~At(r, "payFailedCharged")
    <3>1. At(r, "payFailedCharged") = FALSE
      BY <2>4 DEF At
    <3> QED BY <1>4, <2>1, <2>2, <3>1 DEF SaveFailed
  <2> QED BY <2>3, <2>4
<1> QED BY <1>1, <1>2, <1>3, <1>4 DEF SaveSucceeded

LEMMA RecordEffects ==
  ASSUME TypeOK, MoneyInv, NEW r \in Request
  PROVE  /\ SaveConfirmed(r) =>
              /\ intents' = intents
              /\ \/ payments' = payments
                 \/ \E p \in Request :
                      /\ payments[p].intent
                      /\ payments' = [payments EXCEPT ![p].status = "succeeded"]
         /\ StripeRefunds(r) =>
              /\ payments' = payments
              /\ \E p \in Request :
                   /\ Settled(p) /\ intents[p].state = "paid"
                   /\ intents' = [intents EXCEPT ![p].refunded = intents'[p].refunded]
                   /\ intents'[p].refunded \in (intents[p].refunded + 1) .. intents[p].amount
         /\ SaveRefunded(r) =>
              /\ intents' = intents
              /\ \E p \in Request, n \in Nat :
                   /\ Settled(p) /\ 0 < intents[p].refunded
                   /\ payments' = [payments EXCEPT ![p].status = "refunded", ![p].refunded = n]
         /\ CustomerPays(r) =>
              /\ payments' = payments
              /\ OnRecord(r) => Settled(r)
              /\ intents[r].state = "open"
              /\ intents' = [intents EXCEPT ![r].state = "paid"]
<1>i. CallInv(r, req[r])
  BY DEF MoneyInv
<1>1. ASSUME SaveConfirmed(r)
      PROVE  /\ intents' = intents
             /\ \/ payments' = payments
                \/ \E p \in Request :
                     /\ payments[p].intent
                     /\ payments' = [payments EXCEPT ![p].status = "succeeded"]
  BY <1>1, <1>i DEF SaveConfirmed, At, CallInv
<1>2. ASSUME StripeRefunds(r)
      PROVE  /\ payments' = payments
             /\ \E p \in Request :
                  /\ Settled(p) /\ intents[p].state = "paid"
                  /\ intents' = [intents EXCEPT ![p].refunded = intents'[p].refunded]
                  /\ intents'[p].refunded \in (intents[p].refunded + 1) .. intents[p].amount
  <2>1. PICK p \in Request : p = req[r].target
    BY <1>2, <1>i DEF StripeRefunds, At, CallInv
  <2> DEFINE cents == RefundedCents(p, req[r].amount)
  <2>2. Settled(p) /\ intents[p].state = "paid" /\ payments' = payments
    BY <1>2, <1>i, <2>1 DEF StripeRefunds, At, CallInv
  <2>3. /\ cents \in Int /\ 0 < cents /\ intents[p].refunded + cents <= intents[p].amount
        /\ intents[p].refunded \in Nat /\ intents[p].amount \in Nat
    BY <1>2, <2>1, CentsInt DEF StripeRefunds, RefundedCents
  <2>4. /\ intents' = [intents EXCEPT ![p].refunded = intents[p].refunded + cents]
        /\ intents'[p].refunded = intents[p].refunded + cents
    BY <1>2, <2>1 DEF StripeRefunds, TypeOK, IntentDoc
  <2> HIDE DEF cents
  <2>5. intents'[p].refunded \in (intents[p].refunded + 1) .. intents[p].amount
    BY <2>3, <2>4
  <2> QED BY <2>2, <2>4, <2>5
<1>3. ASSUME SaveRefunded(r)
      PROVE  /\ intents' = intents
             /\ \E p \in Request, n \in Nat :
                  /\ Settled(p) /\ 0 < intents[p].refunded
                  /\ payments' = [payments EXCEPT ![p].status = "refunded", ![p].refunded = n]
  <2>1. PICK p \in Request : p = req[r].target
    BY <1>3, <1>i DEF SaveRefunded, At, CallInv
  <2>2. Settled(p) /\ 0 < intents[p].refunded
    BY <1>3, <1>i, <2>1 DEF SaveRefunded, At, CallInv
  <2>3. \E n \in Nat : n = IF req[r].amount = req[r].was THEN payments[p].refunded
                           ELSE req[r].amount
    BY DEF TypeOK, Call, PaymentDoc
  <2>4. payments' = [payments EXCEPT ![p].status = "refunded",
                       ![p].refunded = IF req[r].amount = req[r].was THEN payments[p].refunded
                                       ELSE req[r].amount]
    BY <1>3, <2>1 DEF SaveRefunded, TypeOK, PaymentDoc
  <2> QED BY <1>3, <2>2, <2>3, <2>4 DEF SaveRefunded
<1>4. ASSUME CustomerPays(r)
      PROVE  OnRecord(r) => Settled(r)
  BY <1>4, <1>i DEF CustomerPays, CallInv
<1> QED BY <1>1, <1>2, <1>3, <1>4 DEF CustomerPays

\* What the stripe routes do to an intent they are given.
LEMMA StripeEffects ==
  ASSUME TypeOK, MoneyInv, NEW r \in Request, NEW p \in Request
  PROVE  /\ CancelIntent(r, p) =>
              /\ payments' = payments
              /\ \/ intents' = intents
                 \/ /\ intents[p].state = "open"
                    /\ intents' = [intents EXCEPT ![p].state = "canceled"]
         /\ \A a \in Amount : RefundIntent(r, p, a) =>
              /\ payments' = payments
              /\ \/ intents' = intents
                 \/ /\ OnRecord(p) => Settled(p)
                    /\ intents[p].state = "paid"
                    /\ intents' = [intents EXCEPT ![p].refunded = intents'[p].refunded]
                    /\ intents'[p].refunded \in (intents[p].refunded + 1) .. intents[p].amount
         /\ \A a \in Amount : OpenIntent(r, a) \/ OpenCheckoutSession(r, a) =>
              /\ payments' = payments
              /\ \/ intents' = intents
                 \/ /\ ~OnRecord(r) /\ intents[r].state = "absent"
                    /\ intents' = [intents EXCEPT ![r] = intents'[r]]
                    /\ intents'[r] = [state |-> "open", amount |-> intents'[r].amount,
                                      refunded |-> 0]
                    /\ intents'[r].amount \in Nat \ {0}
<1>i. DocInv(p)
  BY DEF MoneyInv
<1>1. ASSUME NEW a \in Amount, RefundIntent(r, p, a), intents' # intents
      PROVE  /\ OnRecord(p) => Settled(p)
             /\ intents[p].state = "paid"
             /\ intents' = [intents EXCEPT ![p].refunded = intents'[p].refunded]
             /\ intents'[p].refunded \in (intents[p].refunded + 1) .. intents[p].amount
  <2> DEFINE cents == RefundedCents(p, a)
  <2>1. /\ intents[p].state = "paid"
        /\ 0 < cents /\ intents[p].refunded + cents <= intents[p].amount
        /\ intents' = [intents EXCEPT ![p].refunded = intents[p].refunded + cents]
        /\ intents'[p].refunded = intents[p].refunded + cents
    BY <1>1 DEF RefundIntent, TypeOK, IntentDoc
  <2>2. cents \in Int /\ intents[p].refunded \in Nat /\ intents[p].amount \in Nat
    BY ToCentsType, StoreAssumption DEF RefundedCents, TypeOK, IntentDoc, StoreAssumption
  <2> HIDE DEF cents
  <2>3. OnRecord(p) => Settled(p)
    BY <1>i, <2>1 DEF DocInv
  <2>4. intents'[p].refunded \in (intents[p].refunded + 1) .. intents[p].amount
    BY <2>1, <2>2
  <2> QED BY <2>1, <2>3, <2>4
<1>2. ASSUME NEW a \in Amount, OpenIntent(r, a) \/ OpenCheckoutSession(r, a), intents' # intents
      PROVE  /\ ~OnRecord(r) /\ intents[r].state = "absent"
             /\ intents' = [intents EXCEPT ![r] = intents'[r]]
             /\ intents'[r] = [state |-> "open", amount |-> intents'[r].amount, refunded |-> 0]
             /\ intents'[r].amount \in Nat \ {0}
  <2>1. PICK cents \in Nat : Opens(r, cents)
    BY <1>2, ToCentsType, StoreAssumption DEF OpenIntent, OpenCheckoutSession, StoreAssumption
  <2>2. /\ cents > 0
        /\ intents' = [intents EXCEPT ![r] = [state |-> "open", amount |-> cents, refunded |-> 0]]
        /\ intents'[r] = [state |-> "open", amount |-> cents, refunded |-> 0]
    BY <1>2, <2>1 DEF Opens, TypeOK
  <2>3. payments[r].status = "absent" /\ intents[r].state = "absent"
    BY <2>1 DEF Opens, Start, MoneyInv, CallInv, Opened, Charged, Replies
  <2>4. /\ intents'[r] = [state |-> "open", amount |-> intents'[r].amount, refunded |-> 0]
        /\ intents'[r].amount \in Nat \ {0}
    BY <2>2
  <2>5. intents' = [intents EXCEPT ![r] = intents'[r]]
    BY <2>2
  <2> QED BY <2>3, <2>4, <2>5 DEF OnRecord
<1> QED
  BY <1>1, <1>2 DEF CancelIntent, RefundIntent, OpenIntent, OpenCheckoutSession, Opens

-----------------------------------------------------------------------------
Kept(p) ==
  payments[p].intent =>
    /\ payments'[p].intent
    /\ payments'[p].student = payments[p].student
    /\ payments'[p].course = payments[p].course
    /\ payments'[p].amount = payments[p].amount
    /\ Settled(p) => payments'[p].status \in {"succeeded", "refunded"}

LEMMA KeptStep ==
  ASSUME TypeOK, MoneyInv, [Next]_vars, NEW p \in Request
  PROVE  Kept(p)
<1>0. CASE payments' = payments
  BY <1>0 DEF Kept, Settled
<1>1. ASSUME NEW r \in Request,
             SavePending(r) \/ SaveSucceeded(r) \/ SaveFailed(r)
      PROVE  Kept(p)
  <2>1. payments[r].status \in {"absent", "pending"}
    BY <1>1, CreateEffects
  <2>2. ~payments[r].intent
    BY <2>1 DEF MoneyInv, DocInv
  <2>3. p # r => payments'[p] = payments[p]
    BY <1>1 DEF SavePending, SaveSucceeded, SaveFailed, TypeOK
  <2> QED BY <2>2, <2>3 DEF Kept, Settled
<1>2. ASSUME NEW q \in Request, NEW n \in Nat, NEW new \in {"succeeded", "refunded"},
             \/ payments' = [payments EXCEPT ![q].status = new]
             \/ payments' = [payments EXCEPT ![q].status = new, ![q].refunded = n]
      PROVE  Kept(p)
  BY <1>2 DEF Kept, Settled, TypeOK, PaymentDoc
<1>3. ASSUME NEW r \in Request, SaveConfirmed(r) \/ SaveRefunded(r)
      PROVE  Kept(p)
  <2>1. \/ payments' = payments
        \/ \E q \in Request : payments' = [payments EXCEPT ![q].status = "succeeded"]
        \/ \E q \in Request, n \in Nat :
             payments' = [payments EXCEPT ![q].status = "refunded", ![q].refunded = n]
    BY <1>3, RecordEffects
  <2> QED BY <1>0, <1>2, <2>1
<1>4. ASSUME NEW r \in Request, StripeOpensIntent(r) \/ StripeRefunds(r) \/ CustomerPays(r)
      PROVE  Kept(p)
  BY <1>0, <1>4 DEF StripeOpensIntent, StripeRefunds, CustomerPays
<1>5. ASSUME NEW r \in Request, NEW q \in Request,
             CancelIntent(r, q) \/ \E a \in Amount : RefundIntent(r, q, a)
      PROVE  Kept(p)
  BY <1>0, <1>5 DEF CancelIntent, RefundIntent
<1>6. ASSUME NEW r \in Request, NEW a \in Amount, OpenIntent(r, a) \/ OpenCheckoutSession(r, a)
      PROVE  Kept(p)
  BY <1>0, <1>6 DEF OpenIntent, OpenCheckoutSession, Opens
<1> QED BY <1>0, <1>1, <1>3, <1>4, <1>5, <1>6, MoneyActions DEF MoneyAction

\* confirmPayment, refundPayment and the failure path of createPayment: a payment
\* with a stored intent id keeps it and keeps who paid how much for what, and one
\* that was settled never falls back to PENDING or FAILED.
THEOREM RecordedStays == Spec => RecordedStaysRecorded
<1>1. TypeOK /\ MoneyInv /\ [Next]_vars =>
        [\A p \in Request : payments[p].intent =>
           /\ payments'[p].intent
           /\ payments'[p].student = payments[p].student
           /\ payments'[p].course = payments[p].course
           /\ payments'[p].amount = payments[p].amount
           /\ Settled(p) => payments'[p].status \in {"succeeded", "refunded"}]_vars
  BY KeptStep DEF Kept
<1> QED BY <1>1, TypeCorrect, MoneyHolds, PTL DEF Spec, RecordedStaysRecorded

-----------------------------------------------------------------------------
entries == [p \in Request |-> EntryOf(p)]
records == [p \in Request |-> payments[p].intent]

LEMMA EntryKinds ==
  ASSUME NEW p \in Request
  PROVE  /\ payments[p].status = "absent" => EntryOf(p) = "none"
         /\ payments[p].status = "pending" => EntryOf(p) = "open"
         /\ payments[p].status = "succeeded" => EntryOf(p) = "settled"
         /\ payments[p].status = "refunded" => EntryOf(p) = "refunded"
         /\ payments[p].status \notin {"absent", "pending", "succeeded", "refunded"} =>
              EntryOf(p) = "failed"
BY DEF EntryOf

\* A write to one payment is a write to one entry.
LEMMA EntryWrite ==
  ASSUME NEW r \in Request, \A p \in Request \ {r} : payments'[p] = payments[p]
  PROVE  /\ entries' = [entries EXCEPT ![r] = EntryOf(r)']
         /\ records' = [records EXCEPT ![r] = payments'[r].intent]
         /\ EntryOf(r)' = EntryOf(r) => entries' = entries
         /\ payments'[r].intent = payments[r].intent => records' = records
<1>1. \A p \in Request \ {r} : EntryOf(p)' = EntryOf(p)
  BY DEF EntryOf
<1> QED BY <1>1 DEF entries, records

LEMMA StatusWrite ==
  ASSUME TypeOK, NEW r \in Request, NEW new, NEW known \in BOOLEAN,
         payments' = [payments EXCEPT ![r].status = new, ![r].intent = known]
  PROVE  /\ payments'[r].status = new /\ payments'[r].intent = known
         /\ \A p \in Request \ {r} : payments'[p] = payments[p]
<1>1. payments[r] \in PaymentDoc
  BY DEF TypeOK
<1>2. payments'[r] = [payments[r] EXCEPT !.status = new, !.intent = known]
  BY DEF TypeOK
<1>3. payments'[r].status = new /\ payments'[r].intent = known
  BY <1>1, <1>2 DEF PaymentDoc
<1> QED BY <1>3 DEF TypeOK

LEMMA CreateLedger ==
  ASSUME TypeOK, MoneyInv, NEW r \in Request,
         SavePending(r) \/ StripeOpensIntent(r) \/ SaveSucceeded(r) \/ SaveFailed(r)
  PROVE  \/ Ledger!Open(r) \/ Ledger!Charge(r) \/ Ledger!Settle(r) \/ Ledger!Fail(r)
<1>1. CASE SavePending(r)
  <2>1. /\ payments[r].status = "absent" /\ ~payments[r].intent
        /\ payments'[r].status = "pending" /\ payments'[r].intent = FALSE
        /\ intents' = intents /\ intents[r].state = "absent"
        /\ payments[r].intent \in BOOLEAN
        /\ \A p \in Request \ {r} : payments'[p] = payments[p]
    BY <1>1, CreateEffects DEF SavePending, TypeOK, PaymentDoc
  <2>2. EntryOf(r) = "none" /\ EntryOf(r)' = "open"
    BY <2>1 DEF EntryOf
  <2> QED BY <2>1, <2>2, EntryWrite DEF Ledger!Open, entries, records
<1>2. CASE StripeOpensIntent(r)
  <2>1. /\ payments[r].status = "pending" /\ payments' = payments
        /\ intents[r].state = "absent"
        /\ intents' = [intents EXCEPT ![r] = intents'[r]]
        /\ intents'[r] = [state |-> "open", amount |-> intents'[r].amount, refunded |-> 0]
        /\ intents'[r].amount \in Nat \ {0}
    BY <1>2, CreateEffects
  <2>2. EntryOf(r) = "open"
    BY <2>1 DEF EntryOf
  <2>3. entries' = entries /\ records' = records
    BY <2>1 DEF entries, records, EntryOf
  <2> QED BY <2>1, <2>2, <2>3 DEF Ledger!Charge, entries, records
<1>3. CASE SaveSucceeded(r)
  <2>1. /\ payments[r].status = "pending" /\ intents[r].state # "absent" /\ intents' = intents
        /\ payments'[r].status = "succeeded" /\ (payments'[r].intent = TRUE)
        /\ \A p \in Request \ {r} : payments'[p] = payments[p]
    <3>1. /\ payments[r].status = "pending" /\ intents[r].state # "absent" /\ intents' = intents
          /\ payments' = [payments EXCEPT ![r].status = "succeeded", ![r].intent = TRUE]
      BY <1>3, CreateEffects
    <3>2. /\ payments'[r].status = "succeeded" /\ (payments'[r].intent = TRUE)
          /\ \A p \in Request \ {r} : payments'[p] = payments[p]
      BY <3>1, StatusWrite
    <3> QED BY <3>1, <3>2
  <2>2. EntryOf(r) = "open" /\ EntryOf(r)' = "settled"
    BY <2>1 DEF EntryOf
  <2> QED BY <2>1, <2>2, EntryWrite DEF Ledger!Settle, entries, records
<1>4. CASE SaveFailed(r)
  <2>0. payments[r].intent \in BOOLEAN
    BY DEF TypeOK, PaymentDoc
  <2>1. /\ payments[r].status = "pending" /\ (payments[r].intent = FALSE)
        /\ intents' = intents /\ payments'[r].status = "failed"
        /\ \/ payments'[r].intent = FALSE
           \/ (payments'[r].intent = TRUE) /\ intents[r].state # "absent"
        /\ \A p \in Request \ {r} : payments'[p] = payments[p]
    BY <1>4, <2>0, CreateEffects, StatusWrite
  <2>2. EntryOf(r) = "open" /\ EntryOf(r)' = "failed"
    BY <2>1 DEF EntryOf
  <2> QED BY <2>1, <2>2, EntryWrite DEF Ledger!Fail, entries, records
<1> QED BY <1>1, <1>2, <1>3, <1>4

LEMMA ReopenLedger ==
  ASSUME TypeOK, MoneyInv, NEW p \in Request, payments[p].intent, intents' = intents,
         payments' = [payments EXCEPT ![p].status = "succeeded"]
  PROVE  Ledger!Reopen(p) \/ UNCHANGED <<entries, records, intents>>
<1>1. /\ payments'[p].status = "succeeded" /\ payments'[p].intent = payments[p].intent
      /\ \A q \in Request \ {p} : payments'[q] = payments[q]
  BY DEF TypeOK, PaymentDoc
<1>2. payments[p].status \notin {"absent", "pending"}
  BY DEF MoneyInv, DocInv
<1>3. EntryOf(p)' = "settled" /\ EntryOf(p) \in {"settled", "refunded", "failed"}
  BY <1>1, <1>2 DEF EntryOf
<1>4. entries' = [entries EXCEPT ![p] = "settled"] /\ records' = records
  BY <1>1, <1>3, EntryWrite
<1>5. CASE EntryOf(p) = "settled"
  BY <1>1, <1>3, <1>4, <1>5, EntryWrite
<1>6. CASE EntryOf(p) # "settled"
  BY <1>3, <1>4, <1>6 DEF Ledger!Reopen, entries, records
<1> QED BY <1>5, <1>6

LEMMA RefundedLedger ==
  ASSUME TypeOK, MoneyInv, NEW p \in Request, NEW n \in Nat, Settled(p), intents' = intents,
         0 < intents[p].refunded,
         payments' = [payments EXCEPT ![p].status = "refunded", ![p].refunded = n]
  PROVE  Ledger!NoteRefund(p) \/ UNCHANGED <<entries, records, intents>>
<1>1. /\ payments'[p].status = "refunded" /\ payments'[p].intent = payments[p].intent
      /\ \A q \in Request \ {p} : payments'[q] = payments[q]
  BY DEF TypeOK, PaymentDoc
<1>2. EntryOf(p)' = "refunded" /\ EntryOf(p) \in {"settled", "refunded"}
  BY <1>1 DEF EntryOf, Settled
<1>3. entries' = [entries EXCEPT ![p] = "refunded"] /\ records' = records
  BY <1>1, <1>2, EntryWrite
<1>4. CASE EntryOf(p) = "refunded"
  BY <1>1, <1>2, <1>3, <1>4, EntryWrite
<1>5. CASE EntryOf(p) = "settled"
  BY <1>3, <1>5, CentsInt DEF Ledger!NoteRefund, entries, records
<1> QED BY <1>2, <1>4, <1>5

LEMMA RecordLedger ==
  ASSUME TypeOK, MoneyInv, NEW r \in Request,
         SaveConfirmed(r) \/ StripeRefunds(r) \/ SaveRefunded(r) \/ CustomerPays(r)
  PROVE  \/ UNCHANGED <<entries, records, intents>>
         \/ \E p \in Request : \/ Ledger!Reopen(p) \/ Ledger!GiveBack(p)
                               \/ Ledger!NoteRefund(p) \/ Ledger!Pay(p)
<1>0. payments' = payments => entries' = entries /\ records' = records
  BY DEF entries, records, EntryOf
<1>a. \A p \in Request : Settled(p) => EntryOf(p) \in {"settled", "refunded"}
  BY DEF Settled, EntryOf
<1>1. CASE SaveConfirmed(r)
  BY <1>0, <1>1, RecordEffects, ReopenLedger
<1>2. CASE StripeRefunds(r)
  BY <1>0, <1>a, <1>2, RecordEffects DEF Ledger!GiveBack, entries, records
<1>3. CASE SaveRefunded(r)
  BY <1>3, RecordEffects, RefundedLedger
<1>4. CASE CustomerPays(r)
  <2>1. /\ OnRecord(r) => Settled(r)
        /\ intents[r].state = "open" /\ payments' = payments
        /\ intents' = [intents EXCEPT ![r].state = "paid"]
    BY <1>4, RecordEffects
  <2>2. EntryOf(r) \in {"none", "settled"}
    <3>1. payments[r].status # "refunded"
      BY <2>1 DEF MoneyInv, DocInv
    <3> QED BY <2>1, <3>1 DEF Settled, OnRecord, EntryOf
  <2> QED BY <1>0, <2>1, <2>2 DEF Ledger!Pay, entries, records
<1> QED BY <1>1, <1>2, <1>3, <1>4

LEMMA StripeLedger ==
  ASSUME TypeOK, MoneyInv, NEW r \in Request, NEW p \in Request,
         \/ CancelIntent(r, p)
         \/ \E a \in Amount : RefundIntent(r, p, a)
         \/ \E a \in Amount : OpenIntent(r, a) \/ OpenCheckoutSession(r, a)
  PROVE  \/ UNCHANGED <<entries, records, intents>>
         \/ Ledger!Cancel(p) \/ Ledger!GiveBack(p) \/ Ledger!Charge(r)
<1>0. payments' = payments => entries' = entries /\ records' = records
  BY DEF entries, records, EntryOf
<1>1. (OnRecord(p) => Settled(p)) => EntryOf(p) \in {"none", "settled", "refunded"}
  BY DEF Settled, OnRecord, EntryOf
<1>2. CASE CancelIntent(r, p)
  BY <1>0, <1>2, StripeEffects DEF Ledger!Cancel, entries, records
<1>3. CASE \E a \in Amount : RefundIntent(r, p, a)
  BY <1>0, <1>1, <1>3, StripeEffects DEF Ledger!GiveBack, entries, records
<1>4. CASE \E a \in Amount : OpenIntent(r, a) \/ OpenCheckoutSession(r, a)
  <2>1. /\ payments' = payments
        /\ \/ intents' = intents
           \/ /\ ~OnRecord(r) /\ intents[r].state = "absent"
              /\ intents' = [intents EXCEPT ![r] = intents'[r]]
              /\ intents'[r] = [state |-> "open", amount |-> intents'[r].amount, refunded |-> 0]
              /\ intents'[r].amount \in Nat \ {0}
    BY <1>4, StripeEffects
  <2>2. ~OnRecord(r) => EntryOf(r) = "none"
    BY DEF OnRecord, EntryOf
  <2> QED BY <1>0, <2>1, <2>2 DEF Ledger!Charge, entries, records
<1> QED BY <1>2, <1>3, <1>4

LEMMA LedgerStep == TypeOK /\ MoneyInv /\ [Next]_vars => [Ledger!Next]_(Ledger!ledger)
<1>1. UNCHANGED <<entries, records, intents>> => UNCHANGED Ledger!ledger
  BY DEF Ledger!ledger, entries, records
<1>2. UNCHANGED <<payments, intents>> => UNCHANGED <<entries, records, intents>>
  BY DEF entries, records, EntryOf
<1> QED
  BY <1>1, <1>2, MoneyActions, CreateLedger, RecordLedger, StripeLedger
     DEF MoneyAction, Ledger!Next

LEMMA LedgerInit == Init => Ledger!Init
BY DEF Init, StoreInit, Ledger!Init, EntryOf, NoPayment, NoIntent

\* However calls overlap, fail halfway or are lost in a crash, the payments and
\* Stripe's intents implement the ledger.
THEOREM ImplementsLedger == Spec => LedgerSpec
BY TypeCorrect, MoneyHolds, LedgerInit, LedgerStep, PTL DEF Spec, LedgerSpec, Ledger!Spec
=============================================================================
