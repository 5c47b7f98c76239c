---------------------------- MODULE PaymentLedger ----------------------------
(***************************************************************************)
(* What the payment records promise about the money, with no calls,        *)
(* bookings or schedules: one ledger entry and at most one PaymentIntent   *)
(* per payment, and intents opened at Stripe directly, without an entry.   *)
(* An intent may be cancelled until it is paid, and its entry does not     *)
(* know.  A customer pays only into a settled entry or an intent that      *)
(* never gets one, money goes back only out of a paid intent, a refund is  *)
(* written down only after Stripe made it, and an entry that was closed is *)
(* settled again only if its intent id is on record.                       *)
(***************************************************************************)
EXTENDS Integers

CONSTANT Payment

VARIABLES entry, recorded, intent

ledger == <<entry, recorded, intent>>


Init ==
  /\ entry = [p \in Payment |-> "none"]
  /\ recorded = [p \in Payment |-> FALSE]
  /\ intent = [p \in Payment |-> [state |-> "absent", amount |-> 0, refunded |-> 0]]

Open(p) ==
  /\ entry[p] = "none" /\ intent[p].state = "absent"
  /\ entry' = [entry EXCEPT ![p] = "open"]
  /\ UNCHANGED <<recorded, intent>>

\* Stripe opens the one intent of the payment, or one that is no payment's, over
\* a positive amount.
Charge(p) ==
  /\ entry[p] \in {"none", "open"} /\ intent[p].state = "absent"
  /\ intent' = [intent EXCEPT ![p] = [state |-> "open", amount |-> intent'[p].amount,
                                       refunded |-> 0]]
  /\ intent'[p].amount \in Nat \ {0}
  /\ UNCHANGED <<entry, recorded>>

Settle(p) ==
  /\ entry[p] = "open" /\ intent[p].state # "absent"
  /\ entry' = [entry EXCEPT ![p] = "settled"]
  /\ recorded' = [recorded EXCEPT ![p] = TRUE]
  /\ UNCHANGED intent

\* A failed entry may keep its intent id, or lose it with Stripe's answer.
Fail(p) ==
  /\ entry[p] = "open"
  /\ entry' = [entry EXCEPT ![p] = "failed"]
  /\ \/ UNCHANGED recorded
     \/ /\ intent[p].state # "absent"
        /\ recorded' = [recorded EXCEPT ![p] = TRUE]
  /\ UNCHANGED intent

Pay(p) ==
  /\ entry[p] \in {"none", "settled"} /\ intent[p].state = "open"
  /\ intent' = [intent EXCEPT ![p].state = "paid"]
  /\ UNCHANGED <<entry, recorded>>

Cancel(p) ==
  /\ intent[p].state = "open"
  /\ intent' = [intent EXCEPT ![p].state = "canceled"]
  /\ UNCHANGED <<entry, recorded>>

GiveBack(p) ==
  /\ entry[p] \in {"none", "settled", "refunded"} /\ intent[p].state = "paid"
  /\ intent' = [intent EXCEPT ![p].refunded = intent'[p].refunded]
  /\ intent'[p].refunded \in (intent[p].refunded + 1) .. intent[p].amount
  /\ UNCHANGED <<entry, recorded>>

NoteRefund(p) ==
  /\ entry[p] = "settled" /\ intent[p].refunded > 0
  /\ entry' = [entry EXCEPT ![p] = "refunded"]
  /\ UNCHANGED <<recorded, intent>>

Reopen(p) ==
  /\ entry[p] \in {"failed", "refunded"} /\ recorded[p]
  /\ entry' = [entry EXCEPT ![p] = "settled"]
  /\ UNCHANGED <<recorded, intent>>

Next ==
  \E p \in Payment :
    \/ Open(p) \/ Charge(p) \/ Settle(p) \/ Fail(p)
    \/ Pay(p) \/ Cancel(p) \/ GiveBack(p) \/ NoteRefund(p) \/ Reopen(p)

Spec == Init /\ [][Next]_ledger
=============================================================================
