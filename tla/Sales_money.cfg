SPECIFICATION Spec
CONSTANTS
  Request = {r1, r2, r3, r4}
  Student = {s1}
  c1 = c1
  Course = {c1}
  Session = {listed}
  Listed = {listed}
  mills = 20
  Price <- MCPrice
  Amount = {0, 4, 10}
  PoNumber = {}
  Ops = {"createBooking", "createPayment", "confirm", "refund", "stripeOpen", "stripeCancel", "stripeRefund", "removeBooking", "crash"}
  Serial = FALSE
  None = None
CHECK_DEADLOCK FALSE
SYMMETRY Symmetry
INVARIANTS RefundIsBacked PaidIsRecorded
PROPERTIES LedgerSpec
