---------------------------- MODULE RosterStore ----------------------------
(***************************************************************************)
(* Class schedules and their rosters, the booking lists of companies, and  *)
(* the accounts, payments, orders and notices that go with them.  A person *)
(* is named by the e-mail address of the account, which is unique.         *)
(***************************************************************************)
EXTENDS CampusStore

CONSTANTS
  Email,     \* addresses of students
  Guest,     \* the student the checkSchedule route is written for
  Session,   \* sessions of the course
  Blocked,   \* the sessions that have time blocks
  Probed,    \* the sessions the checkSchedule route is written for
  Sendable,  \* the statuses that administrators set
  PoNumber   \* numbers of purchase orders

ASSUME RosterAssumption ==
  /\ Blocked \subseteq Session
  /\ Probed \subseteq Session
  /\ Sendable \subseteq {"scheduled", "ongoing", "completed", "cancelled"}
  /\ Guest \notin Email

VARIABLES schedules, bookingList, accounts, corporatePayments, corporateOrders, notices

rosterDocs ==
  <<schedules, bookingList, accounts, corporatePayments, corporateOrders, notices>>
\* What a step on one collection leaves alone.
butSchedules == <<bookingList, accounts, corporatePayments, corporateOrders, notices>>
butAccounts  == <<schedules, bookingList, corporatePayments, corporateOrders, notices>>
butBookings  == <<schedules, accounts, corporatePayments, corporateOrders, notices>>
butPayments  == <<schedules, bookingList, accounts, corporateOrders, notices>>
butOrders    == <<schedules, bookingList, accounts, corporatePayments, notices>>
butNotices   == <<schedules, bookingList, accounts, corporatePayments, corporateOrders>>

rosterVars == <<rosterDocs, req, overlapped>>

Person == Email \cup {Guest}

\* insertMany creates a schedule for each session, so a schedule is named after
\* a call and a session.
ScheduleId == Request \X Session

Status == {"scheduled", "ongoing", "completed", "cancelled"}

\* here says whether a schedule is one of the course, and not moved to another; seats
\* counts how often a student is on the roster, an array of ids; begun says whether
\* the date and time have come; key is the call that drew it.
ClassSchedule ==
  [exists : BOOLEAN, here : BOOLEAN, seats : [Person -> Nat], status : Status,
   key : Request \cup {None, "probe"}, begun : BOOLEAN]

Nobody == [p \in Person |-> 0]

NoClassSchedule ==
  [exists |-> FALSE, here |-> TRUE, seats |-> Nobody, status |-> "scheduled", key |-> None,
   begun |-> FALSE]

Method == {"stripe", "purchase_order"}

BookingList ==
  [exists : BOOLEAN, students : SUBSET Email, method : Method,
   status : {"pending", "confirmed", "cancelled"}]

NoBookingList ==
  [exists |-> FALSE, students |-> {}, method |-> "stripe", status |-> "pending"]

Exists(k) == schedules[k].exists

InCourse(k) == Exists(k) /\ schedules[k].here

Seated(k, p) == InCourse(k) /\ schedules[k].seats[p] > 0

\* $push of one student.
Pushed(k, p) == [schedules EXCEPT ![k].seats[p] = @ + 1]

RosterInit ==
  /\ schedules = [k \in ScheduleId |-> NoClassSchedule]
  /\ bookingList = [r \in Request |-> NoBookingList]
  /\ accounts \in SUBSET Email
  /\ corporatePayments = {}
  /\ corporateOrders = {}
  /\ notices = [r \in Request |-> {}]
  /\ CallsInit

RosterTypeOK ==
  /\ schedules \in [ScheduleId -> ClassSchedule]
  /\ bookingList \in [Request -> BookingList]
  /\ accounts \subseteq Email
  /\ corporatePayments \subseteq Request
  /\ corporateOrders \subseteq PoNumber
  /\ notices \in [Request -> SUBSET Person]
=============================================================================
