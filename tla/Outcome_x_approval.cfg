SPECIFICATION Spec
CONSTANTS
  Request = {r1, r2, r3, r4}
  Student = {s1}
  Operator = {o1}
  Schedule = {k1}
  Time = {t1}
  Block = {t1}
  Ops = {"mark", "check", "decide"}
  Serial = FALSE
  None = None
  r1 = r1
  r2 = r2
  r3 = r3
  r4 = r4
  s1 = s1
  o1 = o1
  k1 = k1
  t1 = t1
SYMMETRY Symmetry
PROPERTY ApprovalIsKept
CHECK_DEADLOCK FALSE
