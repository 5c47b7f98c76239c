SPECIFICATION Spec
CONSTANTS
  Request = {r1, r2, r3, r4}
  Student = {s1, s2}
  Operator = {o1}
  Schedule = {k1}
  Time = {t1, t2}
  Block = {t1, t2}
  Ops = {"mark", "bulk", "removeRow", "work", "check", "checkWork", "decide", "removeClass", "outage", "crash"}
  Serial = TRUE
  None = None
  r1 = r1
  r2 = r2
  r3 = r3
  r4 = r4
  s1 = s1
  s2 = s2
  o1 = o1
  k1 = k1
  t1 = t1
  t2 = t2
SYMMETRY SymmetryRST
INVARIANT SerialMarkedIsLeft
INVARIANT SerialWithinLimit
PROPERTY SerialCheckIsCurrent
PROPERTY SerialRegistry
CHECK_DEADLOCK FALSE
