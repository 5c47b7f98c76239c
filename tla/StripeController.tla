-------------------------- MODULE StripeController --------------------------
(***************************************************************************)
(* StripeController: the stripe/* routes hand calls through to Stripe and  *)
(* look at no payment.  An intent opened here is nobody's payment: its     *)
(* customer can pay it and no record says so.  Cancel and refund act on    *)
(* any intent, those of the payments included, and all ids are listed.     *)
(***************************************************************************)
EXTENDS PaymentService

\* Stripe did as asked and the answer arrives, or is lost on the way back.
Answers(r) == Reply(r, "ok") \/ Reply(r, "error")

\* Stripe opens an intent that the answer, if it arrives, lets the customer pay,
\* or refuses; no document is written either way.
Opens(r, cents) ==
  /\ Start(r, "stripeOpen")
  /\ \/ /\ cents > 0
        /\ intents' = [intents EXCEPT ![r] =
                         [state |-> "open", amount |-> cents, refunded |-> 0]]
        /\ Answers(r)
     \/ /\ intents' = intents
        /\ Reply(r, "error")
  /\ UNCHANGED <<payments, bookings, schedules, enrolled, orders>>

\* createPaymentIntent, over the cents the caller asks for.
OpenIntent(r, a) == Opens(r, ToCents(a))

\* createCheckoutSession: a session without a price is sold at 99.99.
OpenCheckoutSession(r, a) ==
  Opens(r, IF ToCents(a) = 0 THEN 9999 ELSE ToCents(a))

ReadIntent(r) ==
  /\ Start(r, "stripeRead")
  /\ Answers(r)
  /\ UNCHANGED docs

ListIntents(r) ==
  /\ Start(r, "stripeRead")
  /\ Answers(r)
  /\ UNCHANGED docs

\* createCustomer and createPaymentMethod: what they create no payment names.
KeepCard(r) ==
  /\ Start(r, "stripeOpen")
  /\ Answers(r)
  /\ UNCHANGED docs

\* An intent that is paid, or cancelled before, is not cancelled.
CancelIntent(r, p) ==
  /\ Start(r, "stripeCancel")
  /\ \/ /\ intents[p].state = "open"
        /\ intents' = [intents EXCEPT ![p].state = "canceled"]
        /\ Answers(r)
     \/ /\ intents' = intents
        /\ Reply(r, "error")
  /\ UNCHANGED <<payments, bookings, schedules, enrolled, orders>>

\* createRefund, without an amount over all that is left.
RefundIntent(r, p, a) ==
  LET cents == RefundedCents(p, a) IN
  /\ Start(r, "stripeRefund")
  /\ \/ /\ intents[p].state = "paid"
        /\ cents > 0 /\ intents[p].refunded + cents <= intents[p].amount
        /\ intents' = [intents EXCEPT ![p].refunded = @ + cents]
        /\ Answers(r)
     \/ /\ intents' = intents
        /\ Reply(r, "error")
  /\ UNCHANGED <<payments, bookings, schedules, enrolled, orders>>

\* Without a signature, a body or the secret the event is refused; of one that
\* is accepted a line is logged, and no payment changes.
HandleWebhook(r) ==
  /\ Start(r, "stripeEvent")
  /\ Answers(r)
  /\ UNCHANGED docs

StripeNext ==
  \E r \in Request :
    \/ \E a \in Amount : OpenIntent(r, a) \/ OpenCheckoutSession(r, a)
    \/ ReadIntent(r) \/ ListIntents(r) \/ KeepCard(r) \/ HandleWebhook(r)
    \/ \E p \in Request : CancelIntent(r, p)
    \/ \E p \in Request, a \in Amount : RefundIntent(r, p, a)
=============================================================================
