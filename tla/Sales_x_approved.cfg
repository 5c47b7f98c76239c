SPECIFICATION Spec
CONSTANTS
  Request = {r1, r2}
  Student = {s1}
  c1 = c1
  Course = {c1}
  Session = {listed}
  Listed = {listed}
  mills = 20
  Price <- MCPrice
  Amount = {0}
  PoNumber = {n1}
  Ops = {"createBooking", "createOrder", "updateOrder"}
  Serial = TRUE
  None = None
CHECK_DEADLOCK FALSE
INVARIANTS
  ApprovedIsPaid
