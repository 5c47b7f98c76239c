SPECIFICATION CampusSpec
CONSTANTS
  None = None
  Request = {r1, r2, r3}
  Overlapping = 2
  Desks = {"classroom", "catalogue", "grading", "feedback", "notices", "listings", "hours", "records"}
  Ops = {"create", "update", "replace", "reseat", "userStatus", "remove", "join", "probe", "time",
         "corporate", "relist", "unlist", "category", "recategory", "relistTopics", "unshelve", "hardRemove",
         "addTopic", "dropTopic", "course", "recourse", "uncourse", "seed", "pricing",
         "item", "reitem", "unitem", "grade", "regrade", "ungrade", "result", "shown", "ask", "reask",
         "unask", "feedback", "refeedback", "unfeedback", "leave", "send", "inbox", "read",
         "readAll", "drop", "socket", "invite", "certificate", "enrollment", "bundle", "blog",
         "enquiry", "rerecord", "unrecord", "location", "locations", "upload", "presign",
         "outage", "crash"}
  Email = {a, b}
  Guest = guest
  Session = {s1, s2}
  Blocked = {s1}
  Probed = {s1}
  Sendable = {"scheduled", "cancelled"}
  PoNumber = {n1}
  Title = {a, b}
  Topic = {t1}
  Topics <- MCTopics
  Shelf = shelf
  Nowhere = nowhere
  SeedShelf = {a, b}
  SeedTitle = {a, b}
  Chosen <- MCChosen
  Learner = {p1}
  Item = {a, b}
  MaxMarks = {0, 20000}
  Marks = {13999, 14000}
  Class = {a, b}
  MaxQuestions = 2
  User = {a, b}
  Earlier = {n0}
  MaxPlace = 3
  MaxAsked = 3
  MaxLimit = 2
  ClockHour = {0, 23, 24}
  ClockMinute = {0, 30}
  Day = {1, 3}
  Drift <- MCDrift
  Later <- MCLater
  MaxBlocks = 2
  Country = {a, b}
SYMMETRY MCSymmetry
INVARIANTS
  CampusTypeOK
  BookedOnce
  SerialSeatedOnce
  SerialSeedsOnce
  SerialVerdictIsCurrent
  SerialLocatedOnce
  ReadersReceive
  WalkMissesNobody
  HoursMatchTheCalendar
  ClassesMatchTheCalendar
PROPERTIES
  CorporateAnswerIsKept
  SubcategoriesKept
  ReadStaysRead
CHECK_DEADLOCK FALSE
