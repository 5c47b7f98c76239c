----------------------------- MODULE CourseHours -----------------------------
(***************************************************************************)
(* How long a course is said to take: the minutes of the time blocks of its*)
(* sessions, added up by getCoursesByCategories in                         *)
(* course/courses.service.ts; and the classes in the blocks of a session,  *)
(* counted by getAttendanceStats in attendance/attendance.service.ts.      *)
(***************************************************************************)
EXTENDS CampusStore, FiniteSetsExt

CONSTANTS
  ClockHour,   \* hours that are sent, two digits each
  ClockMinute, \* minutes that are sent
  Day,         \* days that are sent
  Drift,       \* how much later, in minutes, a later midnight comes in the server's zone
  Later,       \* how much later in the day than its start, in minutes, a block's end is dated
  MaxBlocks    \* bound: time blocks of a course

ASSUME HoursAssumption ==
  /\ ClockHour \subseteq 0 .. 99 /\ ClockMinute \subseteq 0 .. 59
  /\ Day \subseteq Nat /\ Drift \subseteq -60 .. 60
  /\ Later \subseteq (1 - 24 * 60) .. (24 * 60 - 1) /\ MaxBlocks \in Nat

VARIABLE lesson \* the sums so far, what they should be, and of how many blocks of which kinds

hourDocs == <<lesson>>
hourVars == <<hourDocs, req, overlapped>>

FullDay == 24 * 60

\* A time that is missing or is not written as a time is None.
Clock == (ClockHour \X ClockMinute) \cup {None}

TimeBlock ==
  [startTime : Clock, endTime : Clock, startDate : Day \cup {None}, endDate : Day \cup {None},
   drift : Drift, later : Later]

convertTimeToMinutes(t) ==
  IF t = None THEN None ELSE IF t[1] > 23 THEN None ELSE t[1] * 60 + t[2]

\* Milliseconds from midnight to midnight over those of a day, rounded down.
calculateInclusiveDays(b) ==
  IF None \in {b.startDate, b.endDate} THEN 1
  ELSE IF b.endDate <= b.startDate THEN 1
  ELSE ((b.endDate - b.startDate) * FullDay + b.drift) \div FullDay + 1

Readable(b) == None \notin {convertTimeToMinutes(b.startTime), convertTimeToMinutes(b.endTime)}

\* Mutant: the last day is not counted.
ClassDays_Exclusive(b) ==
  IF None \in {b.startDate, b.endDate} THEN 0
  ELSE -((-((b.endDate - b.startDate) * FullDay + b.later)) \div FullDay)

\* Milliseconds from date to date, with the time of day they were sent with, over
\* those of a day, rounded up, and the day it starts.  A block
\* without dates has no classes, one that ends before it starts may have less.
ClassDays(b) ==
  IF None \in {b.startDate, b.endDate} THEN 0
  ELSE -((-((b.endDate - b.startDate) * FullDay + b.later)) \div FullDay) + 1

\* Mutant: a block that ends when it starts takes no time.
calculateTimeBlockMinutes_Zero(b) ==
  IF ~Readable(b) THEN 0
  ELSE LET duration == convertTimeToMinutes(b.endTime) - convertTimeToMinutes(b.startTime) IN
       (IF duration < 0 THEN duration + FullDay ELSE duration) * calculateInclusiveDays(b)

\* A block that ends when it starts, or before, ends on the next day.
calculateTimeBlockMinutes(b) ==
  IF ~Readable(b) THEN 0
  ELSE LET duration == convertTimeToMinutes(b.endTime) - convertTimeToMinutes(b.startTime) IN
       (IF duration <= 0 THEN duration + FullDay ELSE duration) * calculateInclusiveDays(b)

totalHours(minutes) == IF minutes > 0 THEN Max({1, (minutes + 59) \div 60}) ELSE 0

Days(b) == IF None \in {b.startDate, b.endDate} THEN {} ELSE b.startDate .. b.endDate

InOrder(b) == None \notin {b.startDate, b.endDate} => b.startDate <= b.endDate

\* What a calendar and a clock say: the days from the first to the last, and the
\* time it takes the clock to get from the start to the end of a block.
OnTheCalendar(b) ==
  IF ~Readable(b) THEN 0
  ELSE LET from == convertTimeToMinutes(b.startTime)
           to == convertTimeToMinutes(b.endTime)
           takes == CHOOSE n \in {to - from, to - from + FullDay} : n \in 1 .. FullDay
       IN takes * Max({1, Cardinality(Days(b))})

NoLesson ==
  [minutes |-> 0, due |-> 0, short |-> 0, blocks |-> 0,
   classes |-> 0, days |-> 0, long |-> 0, ordered |-> TRUE]

HourInit == lesson = NoLesson /\ CallsInit

\* reduce: one block after the other, whatever session it is in.
AddTimeBlock ==
  /\ lesson.blocks < MaxBlocks
  /\ \E b \in TimeBlock :
       lesson' = [minutes |-> lesson.minutes + calculateTimeBlockMinutes(b),
                  due |-> lesson.due + OnTheCalendar(b),
                  short |-> lesson.short + (IF b.drift < 0 THEN 1 ELSE 0),
                  blocks |-> lesson.blocks + 1,
                  classes |-> lesson.classes + ClassDays(b),
                  days |-> lesson.days + Cardinality(Days(b)),
                  long |-> lesson.long + (IF b.later > 0 THEN 1 ELSE 0),
                  ordered |-> lesson.ordered /\ InOrder(b)]
  /\ UNCHANGED <<req, overlapped>>

HourNext == AddTimeBlock

HourSpec == HourInit /\ [][HourNext]_hourVars

-----------------------------------------------------------------------------
(* What a course is shown with                                             *)

\* A course takes as long as the clock and the calendar say, and the hours it is
\* shown with are enough for that and less than one too many.  Where the clocks are
\* put forward within a block a day is lost, and never more than what is due counted.
HoursMatchTheCalendar ==
  /\ lesson.minutes <= lesson.due
  /\ lesson.short = 0 => lesson.minutes = lesson.due
  /\ 60 * totalHours(lesson.minutes) >= lesson.minutes
  /\ 60 * totalHours(lesson.minutes) < lesson.minutes + 60

\* A session of blocks whose dates are in order has as many classes as there are days
\* in them; a block whose end is dated later in the day than its start counts for one
\* more, one whose end is dated earlier never for less.
ClassesMatchTheCalendar ==
  lesson.ordered =>
    /\ lesson.classes >= lesson.days
    /\ lesson.classes <= lesson.days + lesson.long
=============================================================================
