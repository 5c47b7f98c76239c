--------------------------- MODULE BookingService ---------------------------
(***************************************************************************)
(* BookingsService: a student books a session of a course before paying.   *)
(* create() makes two reads and an insert, each its own await, and no      *)
(* unique index backs the reads.                                           *)
(***************************************************************************)
EXTENDS SalesStore

BookingOf(b, u, c) ==
  bookings[b].status # "absent" /\ bookings[b].student = u /\ bookings[b].course = c

\* create(): any payment of the student, whatever its status, refuses the call.
CreateBooking(r, u, c, s) ==
  /\ Start(r, "createBooking")
  /\ IF \E p \in Request : payments[p].status # "absent" /\ payments[p].student = u
       THEN Reply(r, "error")
       ELSE req' = [req EXCEPT ![r] = [Fresh EXCEPT !.pc = "bookBooked",
                                         !.student = u, !.course = c, !.session = s]]
  /\ UNCHANGED docs

\* create(): so does any booking of the student, for this course or another.
CheckBooked(r) ==
  /\ At(r, "bookBooked")
  /\ IF \E b \in Request :
           bookings[b].status # "absent" /\ bookings[b].student = req[r].student
       THEN Reply(r, "error")
       ELSE Goto(r, "bookInsert")
  /\ UNCHANGED docs

\* create(): the insert; the notification and mail that follow are swallowed.
InsertBooking(r) ==
  /\ At(r, "bookInsert")
  /\ bookings' = [bookings EXCEPT ![r] =
                    [status |-> "pending", student |-> req[r].student,
                     course |-> req[r].course, session |-> req[r].session]]
  /\ Reply(r, "ok")
  /\ UNCHANGED <<payments, intents, schedules, enrolled, orders>>

\* update(): one findByIdAndUpdate with whatever fields the PATCH carries.
PatchBooking(b) ==
  /\ "patchBooking" \in Ops /\ Quiet
  /\ bookings[b].status # "absent"
  /\ \E new \in [status : BookingStatus \ {"absent"}, student : Student,
                 course : Course, session : Session] :
       bookings' = [bookings EXCEPT ![b] = new]
  /\ UNCHANGED <<payments, intents, schedules, enrolled, orders, req>>

\* Mutant: a deletion that only marks the booking, with a status outside the enum.
RemoveBooking_Marked(b) ==
  /\ "removeBooking" \in Ops /\ Quiet
  /\ bookings[b].status # "absent"
  /\ bookings' = [bookings EXCEPT ![b].status = "deleted"]
  /\ UNCHANGED <<payments, intents, schedules, enrolled, orders, req>>

RemoveBooking(b) ==
  /\ "removeBooking" \in Ops /\ Quiet
  /\ bookings[b].status # "absent"
  /\ bookings' = [bookings EXCEPT ![b] = NoBooking]
  /\ UNCHANGED <<payments, intents, schedules, enrolled, orders, req>>

BookingNext ==
  \/ \E r \in Request, u \in Student, c \in Course, s \in Session : CreateBooking(r, u, c, s)
  \/ \E r \in Request : CheckBooked(r) \/ InsertBooking(r)
  \/ \E b \in Request : PatchBooking(b) \/ RemoveBooking(b)
=============================================================================
