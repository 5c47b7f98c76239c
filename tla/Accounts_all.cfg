SPECIFICATION Spec
CONSTANTS
  Request = {r1, r2, r3, r4}
  Seeded = seeded
  Email = {e1, e2}
  Password = {p1, p2}
  SocialId = {g1}
  Role = {"operator"}
  UserBody <- Bodies
  Ops = {"login", "social", "register", "confirm", "confirmNew", "forgot", "reset", "updateMe", "refresh", "logout", "patchEmail", "patchPassword", "patchRole", "patchStatus", "patchProvider", "createUser", "patchUnknown", "removeUser", "mailLost", "noDomain", "crash"}
  Overlapping = 3
  None = None
  Keep = Keep
CHECK_DEADLOCK FALSE
SYMMETRY Symmetry
INVARIANTS
  TypeOK
  ActiveWasConfirmed
  PasswordIsUsable
PROPERTIES
  RegistrySpec
  SerialAnswerIsLive
  SerialResetSignsOut
  SerialNoLostUpdate
