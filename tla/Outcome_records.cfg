SPECIFICATION Spec
CONSTANTS
  Request = {r1, r2, r3, r4}
  Student = {s1, s2}
  Operator = {o1}
  Schedule = {k1}
  Time = {t1}
  Block = {t1}
  Ops = {"mark", "patchRow", "removeRow", "check", "decide", "checkWork", "work", "decideWork", "records", "outage", "crash"}
  Serial = FALSE
  None = None
  r1 = r1
  r2 = r2
  r3 = r3
  r4 = r4
  s1 = s1
  s2 = s2
  o1 = o1
  k1 = k1
  t1 = t1
SYMMETRY SymmetryRS
INVARIANT TypeOK
INVARIANT IssuedIsAnnounced
INVARIANT ApprovedHasApprover
CHECK_DEADLOCK FALSE
