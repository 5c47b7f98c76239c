----------------------------- MODULE SalesStore -----------------------------
(***************************************************************************)
(* The collections that selling a course reads and writes, the HTTP calls  *)
(* in flight, and the frame every handler of the sales services uses.      *)
(*                                                                         *)
(* A handler runs from one await to the next without interruption, so each *)
(* action of the service modules is the code from the end of one await to  *)
(* the completion of the next database or Stripe call.  A document is      *)
(* named after the request that created it: payments[r] is the payment     *)
(* that call r saved, intents[r] the Stripe PaymentIntent it opened, and   *)
(* so on, which is what a fresh ObjectId or intent id amounts to.          *)
(***************************************************************************)
EXTENDS Integers

CONSTANTS
  Request,     \* the HTTP calls of a behaviour, one call each
  Student,     \* user ids
  Course,      \* course ids
  Session,     \* session ids a booking may carry
  Listed,      \* the sessions the courses list with at least one time block
  Price,       \* course price, in tenths of a cent; 0 when it has none
  Amount,      \* amounts a caller may put in a DTO; 0 when it leaves it out
  PoNumber,    \* purchase order numbers
  Ops,         \* the operations the environment uses
  Serial,      \* TRUE when a call starts only after the previous one ended
  None         \* "no value"

ASSUME StoreAssumption ==
  /\ Listed \subseteq Session
  /\ Price \in [Course -> Nat]
  /\ Amount \subseteq Nat
  /\ Serial \in BOOLEAN

VARIABLES payments, intents, bookings, schedules, enrolled, orders, req

docs == <<payments, intents, bookings, schedules, enrolled, orders>>
vars == <<payments, intents, bookings, schedules, enrolled, orders, req>>

-----------------------------------------------------------------------------
(* Document types; "absent" stands for a document that does not exist.     *)

PaymentStatus ==
  {"absent", "pending", "processing", "succeeded", "failed", "cancelled", "refunded"}

\* Card payments and those of purchase orders.
PaymentMethod == {"stripe", "purchase_order"}

PaymentDoc ==
  [status : PaymentStatus, student : Student \cup {None}, course : Course \cup {None},
   method : PaymentMethod, amount : Nat, intent : BOOLEAN, refunded : Nat]

\* A PaymentIntent at Stripe, in whole cents.
IntentDoc == [state : {"absent", "open", "paid", "canceled"}, amount : Nat, refunded : Nat]

BookingStatus == {"absent", "pending", "confirmed", "cancelled"}

BookingDoc ==
  [status : BookingStatus, student : Student \cup {None}, course : Course \cup {None},
   session : Session \cup {None}]

\* seats[s] is how often student s occurs in the students array.
ScheduleDoc ==
  [exists : BOOLEAN, course : Course \cup {None}, session : Session \cup {None},
   seats : [Student -> Nat]]

OrderStatus == {"absent", "pending", "approved", "rejected", "needs_info"}

OrderDoc ==
  [status : OrderStatus, student : Student \cup {None}, course : Course \cup {None},
   number : PoNumber \cup {None}]

NoPayment  == [status |-> "absent", student |-> None, course |-> None,
               method |-> "stripe", amount |-> 0, intent |-> FALSE, refunded |-> 0]
NoIntent   == [state |-> "absent", amount |-> 0, refunded |-> 0]
NoBooking  == [status |-> "absent", student |-> None, course |-> None, session |-> None]
NoSchedule == [exists |-> FALSE, course |-> None, session |-> None,
               seats |-> [s \in Student |-> 0]]
NoOrder    == [status |-> "absent", student |-> None, course |-> None, number |-> None]

-----------------------------------------------------------------------------
(* Calls in flight: where the handler stands and the locals it still uses. *)

Replies == {"ok", "error", "crashed"}

Awaits ==
  {"bookBooked", "bookInsert",
   "payEnrolled", "payPending", "payStripe", "payBooking", "payConfirm",
   "payFindSchedule", "payPushSchedule", "payNewSchedule", "paySave",
   "payFailed", "payFailedCharged",
   "confirmSave", "refundStripe", "refundSave",
   "orderInsert", "orderBooking", "orderUnconfirm"}

\* target is the document the call holds; read and was are the status and the
\* refundedAmount it had when loaded, because save() writes only what differs.
Call ==
  [pc : {"idle"} \cup Awaits \cup Replies,
   student : Student \cup {None}, course : Course \cup {None},
   session : Session \cup {None}, target : Request \cup {None},
   amount : Nat, was : Nat, number : PoNumber \cup {None},
   read : PaymentStatus \cup BookingStatus]

Fresh ==
  [pc |-> "idle", student |-> None, course |-> None, session |-> None,
   target |-> None, amount |-> 0, was |-> 0, number |-> None, read |-> "absent"]

InFlight(r) == req[r].pc \in Awaits

\* A serialised server takes a call only when no other is being handled.
Quiet == Serial => \A q \in Request : ~InFlight(q)

Start(r, op) == op \in Ops /\ req[r].pc = "idle" /\ Quiet

At(r, pc) == req[r].pc = pc

Goto(r, pc) == req' = [req EXCEPT ![r].pc = pc]

Reply(r, code) == req' = [req EXCEPT ![r] = [Fresh EXCEPT !.pc = code]]

\* The Node process dies: every handler in flight is lost, the database stays.
Crash ==
  /\ "crash" \in Ops
  /\ \E r \in Request : InFlight(r)
  /\ req' = [r \in Request |->
               IF InFlight(r) THEN [Fresh EXCEPT !.pc = "crashed"] ELSE req[r]]
  /\ UNCHANGED docs

StoreInit ==
  /\ payments = [r \in Request |-> NoPayment]
  /\ intents = [r \in Request |-> NoIntent]
  /\ bookings = [r \in Request |-> NoBooking]
  /\ schedules = [r \in Request |-> NoSchedule]
  /\ enrolled = {}
  /\ orders = [r \in Request |-> NoOrder]
  /\ req = [r \in Request |-> Fresh]

TypeOK ==
  /\ payments \in [Request -> PaymentDoc]
  /\ intents \in [Request -> IntentDoc]
  /\ bookings \in [Request -> BookingDoc]
  /\ schedules \in [Request -> ScheduleDoc]
  /\ enrolled \subseteq Student \X Course
  /\ orders \in [Request -> OrderDoc]
  /\ req \in [Request -> Call]
=============================================================================
