SPECIFICATION Spec
CONSTANTS
  Request = {r1, r2, r3}
  Student = {s1}
  c1 = c1
  Course = {c1}
  Session = {listed}
  Listed = {listed}
  mills = 20
  Price <- MCPrice
  Amount = {0}
  PoNumber = {}
  Ops = {"createBooking", "createPayment"}
  Serial = FALSE
  None = None
CHECK_DEADLOCK FALSE
INVARIANTS
  PaidOnce
