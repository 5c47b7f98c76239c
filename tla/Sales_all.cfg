SPECIFICATION FairSpec
CONSTANTS
  Request = {r1, r2, r3}
  Student = {s1}
  c1 = c1
  Course = {c1}
  Session = {listed}
  Listed = {listed}
  mills = 20
  Price <- MCPrice
  Amount = {0}
  PoNumber = {n1}
  Ops = {"createBooking", "createPayment", "checkout", "confirm", "refund", "stripeOpen", "stripeRead", "stripeCancel", "stripeRefund", "stripeEvent", "patchBooking", "removeBooking", "removeSchedule", "enroll", "createOrder", "updateOrder", "removeOrder", "crash"}
  Serial = FALSE
  None = None
CHECK_DEADLOCK FALSE
INVARIANTS TypeOK SettledIsBacked
PROPERTIES EveryCallEnds
