SPECIFICATION Spec
CONSTANTS
  Request = {r1, r2, r3, r4, r5}
  Student = {s1, s2}
  c1 = c1
  Course = {c1}
  Session = {listed}
  Listed = {listed}
  mills = 20
  Price <- MCPrice
  Amount = {0}
  PoNumber = {}
  Ops = {"createBooking", "createPayment", "refund", "removeSchedule", "removeBooking", "enroll", "crash"}
  Serial = TRUE
  None = None
CHECK_DEADLOCK FALSE
SYMMETRY SymmetryRS
INVARIANTS SerialPaidOnce SerialSeatedOnce
