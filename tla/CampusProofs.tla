---------------------------- MODULE CampusProofs ----------------------------
(***************************************************************************)
(* Theorems of the classroom and of the catalogue, for every set of calls  *)
(* and of what they are about: of the booking lists, that no two name one  *)
(* student; of the rosters, that calls one after the other seat a student  *)
(* once and that a company told ok has what it paid for; of the courses,   *)
(* that seeds make a course once; of the subcategories, that one call      *)
(* takes off what it says it took off unless a PATCH replaces the list.    *)
(* Then of the campus: that each desk is one of these systems, and its     *)
(* types.                                                                  *)
(***************************************************************************)
EXTENDS DeskProofs, Campus

-----------------------------------------------------------------------------
(* Booking lists                                                           *)

Claiming == {"corpAccounts", "corpBooking"}

\* The students whose accounts a call has created and whose booking list it will.
Claimed(r) ==
  {e \in Email :
     \/ At(r, "corpAccounts") /\ ~req[r].read /\ e \in req[r].body.students \ req[r].todo
     \/ At(r, "corpBooking") /\ e \in req[r].body.students}

Held(r) == bookingList[r].students \cup Claimed(r)

Rewritten == \E q \in Request : req[q].op = "relist"

RoomCall(r) ==
  /\ IsCall(req[r])
  /\ req[r].pc = "idle" => req[r].op # "relist"
  /\ req[r].pc \in Claiming => req[r].body \in CorporateBody
  /\ req[r].pc = "corpAccounts" => req[r].read \in BOOLEAN

\* Whom a call holds has an account, and nobody else holds them.
RoomInv ==
  /\ CallsOK
  /\ bookingList \in [Request -> BookingList]
  /\ \A r \in Request : RoomCall(r)
  /\ ~Rewritten =>
       /\ \A r \in Request : Held(r) \subseteq accounts
       /\ \A b, c \in Request : b # c => Held(b) \cap Held(c) = {}

LEMMA RoomInitially == RosterInit => RoomInv
<1> SUFFICES ASSUME RosterInit PROVE RoomInv
  OBVIOUS
<1>1. CallsOK /\ bookingList \in [Request -> BookingList]
  BY DEF RosterInit, CallsInit, CallsOK, NoBookingList, BookingList, Method
<1>2. ASSUME NEW r \in Request
      PROVE  RoomCall(r) /\ req[r].op = "none" /\ Held(r) = {}
  <2>1. req[r] = Fresh /\ Fresh.pc = "idle" /\ Fresh.op = "none"
    BY DEF RosterInit, CallsInit, Fresh
  <2>2. bookingList[r].students = {}
    BY DEF RosterInit, NoBookingList
  <2>3. RoomCall(r)
    BY <2>1, FreshIs DEF RoomCall, IsCall, Claiming
  <2> QED BY <2>1, <2>2, <2>3 DEF Held, Claimed, At
<1> QED BY <1>1, <1>2 DEF RoomInv

\* A step of call r that takes no more than new accounts.
LEMMA RoomMove ==
  ASSUME RoomInv, NEW r \in Request, CallsOK', OnlyCall(r), RoomCall(r)',
         bookingList' \in [Request -> BookingList],
         accounts \subseteq accounts',
         req[r].op = "relist" => req'[r].op = "relist",
         \/ req'[r].op = "relist"
         \/ /\ \A q \in Request \ {r} : bookingList'[q].students \subseteq bookingList[q].students
            /\ Held(r)' \subseteq Held(r) \cup (accounts' \ accounts)
  PROVE  RoomInv'
<1>1. ASSUME NEW q \in Request PROVE RoomCall(q)'
  BY DEF RoomInv, RoomCall, OnlyCall
<1>2. ASSUME ~Rewritten'
      PROVE  /\ \A q \in Request : Held(q)' \subseteq accounts'
             /\ \A b, c \in Request : b # c => Held(b)' \cap Held(c)' = {}
  <2>1. ~Rewritten /\ req'[r].op # "relist"
    BY <1>2 DEF Rewritten, OnlyCall
  <2>2. /\ \A q \in Request : Held(q) \subseteq accounts
        /\ \A b, c \in Request : b # c => Held(b) \cap Held(c) = {}
    BY <2>1 DEF RoomInv
  <2>3. \A q \in Request \ {r} : Held(q)' \subseteq Held(q)
    BY <2>1 DEF Held, Claimed, At, OnlyCall
  <2>4. Held(r)' \subseteq Held(r) \cup (accounts' \ accounts) /\ Held(r)' \subseteq accounts'
    BY <2>1, <2>2
  <2>5. ASSUME NEW b \in Request, NEW c \in Request, b # c
        PROVE  Held(b)' \cap Held(c)' = {}
    <3>1. CASE b # r /\ c # r
      BY <2>2, <2>3, <2>5, <3>1
    <3>2. CASE b = r /\ c # r
      BY <2>2, <2>3, <2>4, <3>2
    <3>3. CASE c = r /\ b # r
      BY <2>2, <2>3, <2>4, <3>3
    <3> QED BY <2>5, <3>1, <3>2, <3>3
  <2>6. ASSUME NEW q \in Request PROVE Held(q)' \subseteq accounts'
    BY <2>2, <2>3, <2>4
  <2> QED BY <2>5, <2>6
<1> QED BY <1>1, <1>2 DEF RoomInv

-----------------------------------------------------------------------------
(* Steps that hold nobody                                                  *)

Moved(old, there, call) == IsCall(call) /\ call.pc = there /\ call.op = old.op

LEMMA Shapes ==
  ASSUME NEW old, IsCall(old), NEW there, NEW target, NEW todo, NEW read
  PROVE  /\ Moved(old, there, [old EXCEPT !.pc = there])
         /\ Moved(old, there, [old EXCEPT !.pc = there, !.target = target])
         /\ Moved(old, there, [old EXCEPT !.pc = there, !.todo = todo])
         /\ Moved(old, there, [old EXCEPT !.pc = there, !.read = read])
         /\ Moved(old, there, [old EXCEPT !.pc = there, !.read = read, !.target = target])
         /\ Moved(old, there, [old EXCEPT !.pc = there, !.todo = todo, !.read = read])
<1>1. PICK op, pc, target0, body, todo0, read0, round :
        old = Call(op, pc, target0, body, todo0, read0, round)
  BY DEF IsCall
<1>2. ASSUME NEW call, NEW target1, NEW todo1, NEW read1,
             call = Call(op, there, target1, body, todo1, read1, round)
      PROVE  Moved(old, there, call)
  <2>1. call.pc = there /\ call.op = op /\ old.op = op
    BY <1>1, <1>2 DEF Call
  <2> QED BY <1>2, <2>1 DEF Moved, IsCall
<1>3. ASSUME NEW call, call = [old EXCEPT !.pc = there]
      PROVE  call = Call(op, there, target0, body, todo0, read0, round)
  BY <1>1, <1>3 DEF Call
<1>4. ASSUME NEW call, call = [old EXCEPT !.pc = there, !.target = target]
      PROVE  call = Call(op, there, target, body, todo0, read0, round)
  BY <1>1, <1>4 DEF Call
<1>5. ASSUME NEW call, call = [old EXCEPT !.pc = there, !.todo = todo]
      PROVE  call = Call(op, there, target0, body, todo, read0, round)
  BY <1>1, <1>5 DEF Call
<1>6. ASSUME NEW call, call = [old EXCEPT !.pc = there, !.read = read]
      PROVE  call = Call(op, there, target0, body, todo0, read, round)
  BY <1>1, <1>6 DEF Call
<1>7. ASSUME NEW call, call = [old EXCEPT !.pc = there, !.read = read, !.target = target]
      PROVE  call = Call(op, there, target, body, todo0, read, round)
  BY <1>1, <1>7 DEF Call
<1>8. ASSUME NEW call, call = [old EXCEPT !.pc = there, !.todo = todo, !.read = read]
      PROVE  call = Call(op, there, target0, body, todo, read, round)
  BY <1>1, <1>8 DEF Call
<1> QED BY <1>2, <1>3, <1>4, <1>5, <1>6, <1>7, <1>8

Idle == {"idle"} \cup Claiming

\* A call that starts, goes on or is answered where it holds nobody.
StartsAside(r) ==
  \E op, call : IsCall(call) /\ call.pc \notin Idle /\ Begins(r, op, call)

GoesAside(r) ==
  \E there, call : there \notin Idle /\ Moved(req[r], there, call) /\ Becomes(r, call)

LEMMA RoomAside ==
  ASSUME RoomInv, NEW r \in Request, StartsAside(r) \/ GoesAside(r),
         bookingList' \in [Request -> BookingList],
         UNCHANGED accounts,
         \A q \in Request : bookingList'[q].students \subseteq bookingList[q].students
  PROVE  RoomInv'
<1>1. CallsOK' /\ OnlyCall(r) /\ IsCall(req'[r]) /\ req'[r].pc \notin Idle
      /\ (req[r].op = "relist" => req'[r].op = "relist")
  <2>1. CASE StartsAside(r)
    <3>1. PICK op, call : IsCall(call) /\ call.pc \notin Idle /\ Begins(r, op, call)
      BY <2>1 DEF StartsAside
    <3>2. At(r, "idle") /\ CallsOK' /\ OnlyCall(r) /\ req'[r] = [call EXCEPT !.op = op]
      BY <3>1, BeginsMoves DEF RoomInv
    <3>3. req[r].op # "relist"
      BY <3>2 DEF RoomInv, RoomCall, At
    <3> QED BY <3>1, <3>2, <3>3, Named
  <2>2. CASE GoesAside(r)
    <3>1. PICK there, call : there \notin Idle /\ Moved(req[r], there, call) /\ Becomes(r, call)
      BY <2>2 DEF GoesAside
    <3>2. CallsOK' /\ OnlyCall(r) /\ req'[r] = call
      BY <3>1, BecomesMoves DEF RoomInv
    <3> QED BY <3>1, <3>2 DEF Moved
  <2> QED BY <2>1, <2>2
<1>2. RoomCall(r)'
  BY <1>1 DEF RoomCall, Idle, Claiming
<1>3. Claimed(r)' = {}
  BY <1>1 DEF Idle, Claiming, Claimed, At
<1>4. Held(r)' \subseteq Held(r)
  BY <1>3 DEF Held
<1> QED BY <1>1, <1>2, <1>4, RoomMove

LEMMA EndsAside ==
  ASSUME NEW r, NEW reply \in {"ok", "error"}, Ends(r, reply)
  PROVE  GoesAside(r)
<1> DEFINE call == [Answer(reply) EXCEPT !.op = req[r].op]
<1>1. call = Call(req[r].op, reply, None, None, {}, None, 0)
  BY AnswerIs DEF Call
<1>2. call.pc = reply /\ call.op = req[r].op
  BY <1>1 DEF Call
<1>3. reply \notin Idle
  BY DEF Idle, Claiming
<1> HIDE DEF call
<1>4. Moved(req[r], reply, call)
  BY <1>1, <1>2 DEF Moved, IsCall
<1> QED BY <1>3, <1>4 DEF Ends, GoesAside, call

LEMMA AnswersAside ==
  ASSUME NEW r, NEW op, NEW reply \in {"ok", "error"}, Begins(r, op, Answer(reply))
  PROVE  StartsAside(r)
<1>1. IsCall(Answer(reply)) /\ Answer(reply).pc = reply
  BY AnswerIs DEF Call, IsCall
<1>2. reply \notin Idle
  BY DEF Idle, Claiming
<1> QED BY <1>1, <1>2 DEF StartsAside

-----------------------------------------------------------------------------
(* The class schedules, and the seats and payments of a company            *)

LEMMA OtherPlaces ==
  Idle \cap {"createFind", "createNew", "createPush", "noticeFind", "noticeNew", "noticeAdd",
             "updateWrite", "joinSave", "corpPayment", "corpOrder", "corpPending", "seatFind",
             "seatNew", "seatPush", "seatMail", "ok", "error"} = {}
BY DEF Idle, Claiming

LEMMA ScheduleStarts ==
  ASSUME NEW r \in Request,
         \/ CreateSchedule(r) \/ UpdateSchedule(r) \/ UpdateUserStatus(r)
         \/ RemoveClassSchedule(r) \/ JoinClass(r) \/ CheckSchedule(r)
  PROVE  StartsAside(r)
<1> DEFINE Sent(pc, target, body) == [Fresh EXCEPT !.pc = pc, !.target = target, !.body = body]
           Told(body) == [Fresh EXCEPT !.pc = "createFind", !.body = body]
           Joined(k) == [Fresh EXCEPT !.pc = "joinSave", !.target = k]
<1>1. \A body : IsCall(Told(body)) /\ Told(body).pc = "createFind"
  <2>1. ASSUME NEW body, NEW call, call = Told(body)
        PROVE  call = Call("none", "createFind", None, body, {}, None, 0)
    BY <2>1 DEF Fresh, Call
  <2> HIDE DEF Told
  <2> QED BY <2>1 DEF IsCall, Call
<1>2. \A pc, target, body : IsCall(Sent(pc, target, body)) /\ Sent(pc, target, body).pc = pc
  <2>1. ASSUME NEW pc, NEW target, NEW body, NEW call, call = Sent(pc, target, body)
        PROVE  call = Call("none", pc, target, body, {}, None, 0)
    BY <2>1 DEF Fresh, Call
  <2> HIDE DEF Sent
  <2> QED BY <2>1 DEF IsCall, Call
<1>3. \A k : IsCall(Joined(k)) /\ Joined(k).pc = "joinSave"
  <2>1. ASSUME NEW k, NEW call, call = Joined(k)
        PROVE  call = Call("none", "joinSave", k, None, {}, None, 0)
    BY <2>1 DEF Fresh, Call
  <2> HIDE DEF Joined
  <2> QED BY <2>1 DEF IsCall, Call
<1>4. \/ \E op, reply : reply \in {"ok", "error"} /\ Begins(r, op, Answer(reply))
      \/ \E op, body : Begins(r, op, Told(body))
      \/ \E op, k, c : Begins(r, op, Sent("updateWrite", k, c))
      \/ \E op, k : Begins(r, op, Joined(k))
  <2>1. CASE CreateSchedule(r)
    <3>1. PICK body : Begins(r, "create", Answer("error")) \/ Begins(r, "create", Told(body))
      BY <2>1 DEF CreateSchedule
    <3> HIDE DEF Told
    <3> QED BY <3>1
  <2>2. CASE UpdateSchedule(r)
    <3>1. PICK k, c, op : Begins(r, op, Answer("error")) \/ Begins(r, op, Sent("updateWrite", k, c))
      BY <2>2 DEF UpdateSchedule
    <3> HIDE DEF Sent
    <3> QED BY <3>1
  <2>3. CASE UpdateUserStatus(r)
    BY <2>3 DEF UpdateUserStatus
  <2>4. CASE RemoveClassSchedule(r)
    BY <2>4 DEF RemoveClassSchedule
  <2>5. CASE JoinClass(r)
    <3>1. PICK k : \/ Begins(r, "join", Answer("error")) \/ Begins(r, "join", Answer("ok"))
                   \/ Begins(r, "join", Joined(k))
      BY <2>5 DEF JoinClass
    <3> HIDE DEF Joined
    <3> QED BY <3>1
  <2>6. CASE CheckSchedule(r)
    BY <2>6 DEF CheckSchedule
  <2> QED BY <2>1, <2>2, <2>3, <2>4, <2>5, <2>6
<1> HIDE DEF Told, Sent, Joined
<1> QED BY <1>1, <1>2, <1>3, <1>4, OtherPlaces, AnswersAside DEF StartsAside

LEMMA ScheduleGoes ==
  ASSUME NEW r \in Request, IsCall(req[r]),
         \/ FindCourseSchedule(r) \/ PushStudent(r) \/ NewClassSchedule(r)
         \/ FindNotice(r) \/ Notify(r) \/ WriteSchedule(r) \/ OpenClass(r)
  PROVE  GoesAside(r)
<1>1. CASE FindCourseSchedule(r)
  <2>1. \/ Becomes(r, [req[r] EXCEPT !.pc = "createNew"])
        \/ \E k : Becomes(r, [req[r] EXCEPT !.pc = "createPush", !.target = k])
    BY <1>1 DEF FindCourseSchedule
  <2> QED BY <2>1, Shapes, OtherPlaces, Zenon DEF GoesAside
<1>2. CASE PushStudent(r)
  <2>1. \/ Becomes(r, [req[r] EXCEPT !.pc = "noticeFind", !.target = None])
        \/ Ends(r, "error")
    BY <1>2 DEF PushStudent
  <2> QED BY <2>1, Shapes, OtherPlaces, EndsAside, Zenon DEF GoesAside
<1>3. CASE NewClassSchedule(r)
  <2>1. Becomes(r, [req[r] EXCEPT !.pc = "noticeFind"]) \/ Ends(r, "error")
    BY <1>3 DEF NewClassSchedule
  <2> QED BY <2>1, Shapes, OtherPlaces, EndsAside, Zenon DEF GoesAside
<1>4. CASE FindNotice(r)
  <2>1. \/ Becomes(r, [req[r] EXCEPT !.pc = "noticeNew"])
        \/ \E n : Becomes(r, [req[r] EXCEPT !.pc = "noticeAdd", !.target = n])
    BY <1>4 DEF FindNotice
  <2> QED BY <2>1, Shapes, OtherPlaces, Zenon DEF GoesAside
<1>5. CASE Notify(r) \/ WriteSchedule(r) \/ OpenClass(r)
  <2>1. Ends(r, "ok") \/ Ends(r, "error")
    BY <1>5 DEF Notify, WriteSchedule, OpenClass
  <2> QED BY <2>1, EndsAside
<1> QED BY <1>1, <1>2, <1>3, <1>4, <1>5

LEMMA CompanyGoes ==
  ASSUME NEW r \in Request, IsCall(req[r]),
         \/ CreateCorporatePayment(r) \/ CreateCorporateOrder(r) \/ SavePending(r)
         \/ FindSeat(r) \/ PushSeat(r) \/ NewSeat(r) \/ MailSeat(r)
  PROVE  GoesAside(r)
<1>1. CASE CreateCorporatePayment(r)
  <2>1. \/ Ends(r, "ok") \/ Ends(r, "error")
        \/ \E todo : Becomes(r, [req[r] EXCEPT !.pc = "seatFind", !.todo = todo])
    BY <1>1 DEF CreateCorporatePayment
  <2> QED BY <2>1, Shapes, OtherPlaces, EndsAside, Zenon DEF GoesAside
<1>2. CASE CreateCorporateOrder(r)
  <2>1. Becomes(r, [req[r] EXCEPT !.pc = "corpPending"]) \/ Ends(r, "error")
    BY <1>2 DEF CreateCorporateOrder
  <2> QED BY <2>1, Shapes, OtherPlaces, EndsAside, Zenon DEF GoesAside
<1>3. CASE SavePending(r)
  <2>1. Ends(r, "ok") \/ Ends(r, "error")
    BY <1>3 DEF SavePending
  <2> QED BY <2>1, EndsAside
<1>4. CASE FindSeat(r)
  <2>1. \/ Ends(r, "error")
        \/ \E e : Becomes(r, [req[r] EXCEPT !.pc = "seatNew", !.read = e])
        \/ \E e, k : Becomes(r, [req[r] EXCEPT !.pc = "seatPush", !.read = e, !.target = k])
    BY <1>4 DEF FindSeat
  <2> QED BY <2>1, Shapes, OtherPlaces, EndsAside, Zenon DEF GoesAside
<1>5. CASE PushSeat(r)
  <2>1. Becomes(r, [req[r] EXCEPT !.pc = "seatMail", !.target = None]) \/ Ends(r, "error")
    BY <1>5 DEF PushSeat
  <2> QED BY <2>1, Shapes, OtherPlaces, EndsAside, Zenon DEF GoesAside
<1>6. CASE NewSeat(r)
  <2>1. Becomes(r, [req[r] EXCEPT !.pc = "seatMail"])
    BY <1>6 DEF NewSeat
  <2> QED BY <2>1, Shapes, OtherPlaces, Zenon DEF GoesAside
<1>7. CASE MailSeat(r)
  <2>1. \/ Ends(r, "ok") \/ Ends(r, "error")
        \/ \E todo : Becomes(r, [req[r] EXCEPT !.pc = "seatFind", !.todo = todo, !.read = None])
    BY <1>7 DEF MailSeat
  <2> QED BY <2>1, Shapes, OtherPlaces, EndsAside, Zenon DEF GoesAside
<1> QED BY <1>1, <1>2, <1>3, <1>4, <1>5, <1>6, <1>7

LEMMA ScheduleSteps ==
  ASSUME RoomInv, ClassScheduleNext
  PROVE  RoomInv'
<1>1. ASSUME NEW r \in Request, StartsAside(r) \/ GoesAside(r), UNCHANGED butSchedules
      PROVE  RoomInv'
  BY <1>1, RoomAside DEF butSchedules, RoomInv
<1>2. ASSUME NEW r \in Request, StartsAside(r) \/ GoesAside(r), UNCHANGED butNotices
      PROVE  RoomInv'
  BY <1>2, RoomAside DEF butNotices, RoomInv
<1>3. ASSUME NEW r \in Request,
             \/ CreateSchedule(r) \/ UpdateSchedule(r) \/ UpdateUserStatus(r)
             \/ RemoveClassSchedule(r) \/ JoinClass(r) \/ CheckSchedule(r)
      PROVE  RoomInv'
  <2>1. UNCHANGED butSchedules
    BY <1>3 DEF CreateSchedule, UpdateSchedule, UpdateUserStatus, RemoveClassSchedule, JoinClass,
         CheckSchedule, rosterDocs, butSchedules
  <2> QED BY <1>1, <1>3, <2>1, ScheduleStarts
<1>4. ASSUME NEW r \in Request,
             \/ FindCourseSchedule(r) \/ PushStudent(r) \/ NewClassSchedule(r)
             \/ FindNotice(r) \/ Notify(r) \/ WriteSchedule(r) \/ OpenClass(r)
      PROVE  RoomInv'
  <2>1. UNCHANGED butSchedules \/ UNCHANGED butNotices
    BY <1>4 DEF FindCourseSchedule, PushStudent, NewClassSchedule, FindNotice, Notify, WriteSchedule,
         OpenClass, rosterDocs, butSchedules
  <2>2. IsCall(req[r])
    BY DEF RoomInv, RoomCall
  <2> QED BY <1>1, <1>2, <1>4, <2>1, <2>2, ScheduleGoes
<1>5. ASSUME ClassTime
      PROVE  RoomInv'
  BY <1>5 DEF ClassTime, butSchedules, RoomInv, RoomCall, Held, Claimed, At, Rewritten, CallsOK
<1> QED BY <1>3, <1>4, <1>5 DEF ClassScheduleNext

-----------------------------------------------------------------------------
(* The steps that create accounts and booking lists                        *)

\* Only the students of a call may change between two awaits of its loop.
Looped(old, todo, read, call) ==
  Moved(old, old.pc, call) /\ call.body = old.body /\ call.todo = todo /\ call.read = read

LEMMA LoopShapes ==
  ASSUME NEW old, IsCall(old), NEW todo, NEW read
  PROVE  Looped(old, todo, read, [old EXCEPT !.todo = todo, !.read = read])
<1>1. PICK op, pc, target, body, todo0, read0, round :
        old = Call(op, pc, target, body, todo0, read0, round)
  BY DEF IsCall
<1>2. ASSUME NEW call, call = [old EXCEPT !.todo = todo, !.read = read]
      PROVE  call = Call(op, pc, target, body, todo, read, round)
  BY <1>1, <1>2 DEF Call
<1>3. [old EXCEPT !.todo = todo, !.read = read] = Call(op, pc, target, body, todo, read, round)
  BY <1>2
<1>4. old.pc = pc /\ old.op = op /\ old.body = body
  BY <1>1 DEF Call
<1>5. ASSUME NEW call, call = Call(op, pc, target, body, todo, read, round)
      PROVE  Looped(old, todo, read, call)
  <2>1. call.pc = pc /\ call.op = op /\ call.body = body /\ call.todo = todo /\ call.read = read
    BY <1>5 DEF Call
  <2> QED BY <1>4, <1>5, <2>1 DEF Looped, Moved, IsCall
<1> QED BY <1>3, <1>5

\* The loop is over.
LEMMA BookingShape ==
  ASSUME NEW old, IsCall(old), NEW there, NEW todo, NEW read
  PROVE  [old EXCEPT !.pc = there, !.todo = todo, !.read = read].body = old.body
<1>1. PICK op, pc, target, body, todo0, read0, round :
        old = Call(op, pc, target, body, todo0, read0, round)
  BY DEF IsCall
<1>2. ASSUME NEW call, call = [old EXCEPT !.pc = there, !.todo = todo, !.read = read]
      PROVE  call.body = old.body
  BY <1>1, <1>2 DEF Call
<1> QED BY <1>2

LEMMA CreateCorporateStep ==
  ASSUME RoomInv, NEW r \in Request, CreateCorporate(r)
  PROVE  RoomInv'
<1>1. UNCHANGED <<bookingList, accounts>>
  BY DEF CreateCorporate, rosterDocs
<1>2. PICK body \in CorporateBody :
        \/ Begins(r, "corporate", Answer("error"))
        \/ Begins(r, "corporate", [Fresh EXCEPT !.pc = "corpAccounts", !.body = body,
                                     !.todo = body.students, !.read = body.twice])
  BY DEF CreateCorporate
<1>3. CASE Begins(r, "corporate", Answer("error"))
  BY <1>1, <1>3, AnswersAside, RoomAside DEF RoomInv
<1>4. CASE Begins(r, "corporate", [Fresh EXCEPT !.pc = "corpAccounts", !.body = body,
                                     !.todo = body.students, !.read = body.twice])
  <2> DEFINE call == Call("corporate", "corpAccounts", None, body, body.students, body.twice, 0)
             start == [Fresh EXCEPT !.pc = "corpAccounts", !.body = body,
                                    !.todo = body.students, !.read = body.twice]
  <2>1. At(r, "idle") /\ CallsOK' /\ OnlyCall(r) /\ req'[r] = [start EXCEPT !.op = "corporate"]
    BY <1>4, BeginsMoves DEF RoomInv
  <2>2. req'[r] = call
    BY <2>1 DEF Fresh, Call
  <2>3. /\ IsCall(call) /\ call.pc = "corpAccounts" /\ call.body = body
        /\ call.todo = body.students /\ call.read = body.twice
    BY DEF Call, IsCall
  <2>4. body.twice \in BOOLEAN
    BY DEF CorporateBody
  <2> HIDE DEF call
  <2>5. RoomCall(r)'
    BY <2>2, <2>3, <2>4 DEF RoomCall
  <2>6. Claimed(r)' = {}
    BY <2>2, <2>3 DEF Claimed, At
  <2>7. Held(r)' \subseteq Held(r)
    BY <1>1, <2>6 DEF Held
  <2>8. req[r].op # "relist"
    BY <2>1 DEF RoomInv, RoomCall, At
  <2>9. bookingList' \in [Request -> BookingList]
    BY <1>1 DEF RoomInv
  <2> QED BY <1>1, <2>1, <2>5, <2>7, <2>8, <2>9, RoomMove
<1> QED BY <1>2, <1>3, <1>4

LEMMA InsertAccountStep ==
  ASSUME RoomInv, NEW r \in Request, InsertAccount(r)
  PROVE  RoomInv'
<1>1. PICK e \in req[r].todo :
        LET rest == req[r].todo \ {e}
            refused == req[r].read \/ e \in accounts IN
        /\ accounts' = accounts \cup {e}
        /\ IF rest # {}
             THEN Becomes(r, [req[r] EXCEPT !.todo = rest, !.read = refused])
           ELSE IF refused \/ ~req[r].body.known
             THEN Ends(r, "error")
             ELSE Becomes(r, [req[r] EXCEPT !.pc = "corpBooking", !.todo = {}, !.read = None])
  BY DEF InsertAccount
<1> DEFINE rest == req[r].todo \ {e}
           refused == req[r].read \/ e \in accounts
<1>2. /\ At(r, "corpAccounts") /\ UNCHANGED bookingList /\ accounts' = accounts \cup {e}
      /\ bookingList' \in [Request -> BookingList]
  BY <1>1 DEF InsertAccount, butAccounts, RoomInv
<1>3. RoomCall(r) /\ IsCall(req[r]) /\ req[r].body \in CorporateBody /\ req[r].read \in BOOLEAN
  BY <1>2 DEF RoomInv, RoomCall, At, Claiming
<1>4. \/ Becomes(r, [req[r] EXCEPT !.todo = rest, !.read = refused])
      \/ Ends(r, "error")
      \/ /\ rest = {} /\ ~refused
         /\ Becomes(r, [req[r] EXCEPT !.pc = "corpBooking", !.todo = {}, !.read = None])
  BY <1>1
<1>5. refused \in BOOLEAN /\ (~refused => ~req[r].read /\ e \notin accounts)
  BY <1>3
<1> HIDE DEF refused
<1>6. CASE Becomes(r, [req[r] EXCEPT !.todo = rest, !.read = refused])
  <2>1. CallsOK' /\ OnlyCall(r) /\ req'[r] = [req[r] EXCEPT !.todo = rest, !.read = refused]
    BY <1>6, BecomesMoves DEF RoomInv
  <2>2. /\ IsCall(req'[r]) /\ req'[r].pc = "corpAccounts" /\ req'[r].op = req[r].op
        /\ req'[r].body = req[r].body /\ req'[r].todo = rest /\ req'[r].read = refused
    <3>1. Looped(req[r], rest, refused, [req[r] EXCEPT !.todo = rest, !.read = refused])
      BY <1>3, LoopShapes
    <3>2. Looped(req[r], rest, refused, req'[r])
      BY <2>1, <3>1
    <3> QED BY <1>2, <3>2 DEF Looped, Moved, At
  <2>3. RoomCall(r)'
    BY <1>3, <1>5, <2>2 DEF RoomCall
  <2>4. ASSUME NEW s \in Claimed(r)'
        PROVE  s \in Claimed(r) \cup (accounts' \ accounts)
    <3>1. s \in Email /\ ~refused /\ s \in req[r].body.students \ rest
      BY <2>2, <2>4 DEF Claimed, At
    <3> QED BY <1>2, <1>5, <3>1 DEF Claimed
  <2>5. Held(r)' \subseteq Held(r) \cup (accounts' \ accounts)
    BY <1>2, <2>4 DEF Held
  <2> QED BY <1>2, <2>1, <2>2, <2>3, <2>5, RoomMove
<1>7. CASE Ends(r, "error")
  <2>1. PICK there, call : there \notin Idle /\ Moved(req[r], there, call) /\ Becomes(r, call)
    BY <1>7, EndsAside DEF GoesAside
  <2>2. CallsOK' /\ OnlyCall(r) /\ req'[r] = call
    BY <2>1, BecomesMoves DEF RoomInv
  <2>3. RoomCall(r)' /\ Claimed(r)' = {}
    BY <2>1, <2>2 DEF Moved, RoomCall, Claimed, At, Idle, Claiming
  <2>4. Held(r)' \subseteq Held(r)
    BY <1>2, <2>3 DEF Held
  <2> QED BY <1>2, <2>1, <2>2, <2>3, <2>4, RoomMove DEF Moved
<1>8. CASE /\ rest = {} /\ ~refused
           /\ Becomes(r, [req[r] EXCEPT !.pc = "corpBooking", !.todo = {}, !.read = None])
  <2>1. /\ CallsOK' /\ OnlyCall(r)
        /\ req'[r] = [req[r] EXCEPT !.pc = "corpBooking", !.todo = {}, !.read = None]
    BY <1>8, BecomesMoves DEF RoomInv
  <2>2. /\ IsCall(req'[r]) /\ req'[r].pc = "corpBooking" /\ req'[r].op = req[r].op
        /\ req'[r].body = req[r].body
    <3>1. IsCall(req'[r]) /\ req'[r].pc = "corpBooking" /\ req'[r].op = req[r].op
      <4>1. Moved(req[r], "corpBooking",
                  [req[r] EXCEPT !.pc = "corpBooking", !.todo = {}, !.read = None])
        BY <1>3, Shapes, Zenon
      <4> QED BY <2>1, <4>1 DEF Moved
    <3>2. req'[r].body = req[r].body
      BY <1>3, <2>1, BookingShape
    <3> QED BY <3>1, <3>2
  <2>3. RoomCall(r)'
    BY <1>3, <2>2 DEF RoomCall
  <2>4. ASSUME NEW s \in Claimed(r)'
        PROVE  s \in Claimed(r) \cup (accounts' \ accounts)
    <3>1. s \in Email /\ s \in req[r].body.students
      BY <2>2, <2>4 DEF Claimed, At
    <3>2. s = e \/ s \notin req[r].todo
      BY <1>8
    <3> QED BY <1>2, <1>5, <1>8, <3>1, <3>2 DEF Claimed
  <2>5. Held(r)' \subseteq Held(r) \cup (accounts' \ accounts)
    BY <1>2, <2>4 DEF Held
  <2> QED BY <1>2, <2>1, <2>2, <2>3, <2>5, RoomMove
<1> QED BY <1>4, <1>6, <1>7, <1>8

LEMMA CreateBookingListStep ==
  ASSUME RoomInv, NEW r \in Request, CreateBookingList(r)
  PROVE  RoomInv'
<1> DEFINE body == req[r].body
           list == [exists |-> TRUE, students |-> body.students, method |-> body.method,
                    status |-> "confirmed"]
<1>1. /\ At(r, "corpBooking") /\ UNCHANGED accounts
      /\ bookingList' = [bookingList EXCEPT ![r] = list]
      /\ IF AfterBooking(body) = "done"
           THEN Ends(r, "ok")
           ELSE Becomes(r, [req[r] EXCEPT !.pc = AfterBooking(body)])
  BY DEF CreateBookingList, butBookings
<1>2. IsCall(req[r]) /\ body \in CorporateBody
  BY <1>1 DEF RoomInv, RoomCall, At, Claiming
<1>3. AfterBooking(body) \in {"done", "corpPayment", "corpOrder"}
  BY DEF AfterBooking
<1>4. GoesAside(r)
  <2>1. CASE Ends(r, "ok")
    BY <2>1, EndsAside
  <2>2. CASE AfterBooking(body) # "done" /\ Becomes(r, [req[r] EXCEPT !.pc = AfterBooking(body)])
    <3>1. AfterBooking(body) \notin Idle
      BY <1>3, <2>2, OtherPlaces
    <3> QED BY <1>2, <2>2, <3>1, Shapes, Zenon DEF GoesAside
  <2> QED BY <1>1, <2>1, <2>2
<1>5. PICK there, call : there \notin Idle /\ Moved(req[r], there, call) /\ Becomes(r, call)
  BY <1>4 DEF GoesAside
<1>6. CallsOK' /\ OnlyCall(r) /\ req'[r] = call
  BY <1>5, BecomesMoves DEF RoomInv
<1>7. RoomCall(r)' /\ Claimed(r)' = {}
  BY <1>5, <1>6 DEF Moved, RoomCall, Claimed, At, Idle, Claiming
<1>8. body.students \subseteq Email /\ list \in BookingList
  BY <1>2 DEF CorporateBody, BookingList
<1>9. /\ bookingList' \in [Request -> BookingList]
      /\ bookingList'[r].students = body.students
      /\ \A q \in Request \ {r} : bookingList'[q] = bookingList[q]
  BY <1>1, <1>8 DEF RoomInv
<1>10. body.students \subseteq Claimed(r)
  BY <1>1, <1>8 DEF Claimed
<1>11. Held(r)' \subseteq Held(r)
  BY <1>7, <1>9, <1>10 DEF Held
<1> QED BY <1>1, <1>5, <1>6, <1>7, <1>9, <1>11, RoomMove DEF Moved

LEMMA RelistStep ==
  ASSUME RoomInv, NEW r \in Request, UpdateBookingList(r)
  PROVE  RoomInv'
<1>1. /\ Begins(r, "relist", Answer("error")) /\ UNCHANGED accounts
      /\ bookingList' \in [Request -> BookingList]
  <2>1. PICK b \in Request, students \in SUBSET Email, status \in {"pending", "confirmed", "cancelled"} :
          bookingList' = [bookingList EXCEPT ![b].students = students, ![b].status = status]
    BY DEF UpdateBookingList
  <2>2. bookingList \in [Request -> BookingList]
    BY DEF RoomInv
  <2>3. bookingList' \in [Request -> BookingList]
    BY <2>1, <2>2 DEF BookingList
  <2> QED BY <2>3 DEF UpdateBookingList, butBookings
<1>2. CallsOK' /\ OnlyCall(r) /\ req'[r] = [Answer("error") EXCEPT !.op = "relist"]
  BY <1>1, BeginsMoves DEF RoomInv
<1>3. req'[r] = Call("relist", "error", None, None, {}, None, 0)
  BY <1>2, AnswerIs DEF Call
<1>4. RoomCall(r)' /\ req'[r].op = "relist"
  <2>1. req'[r].pc = "error" /\ req'[r].op = "relist"
    BY <1>3 DEF Call
  <2> QED BY <1>3, <2>1 DEF RoomCall, IsCall, Claiming
<1> QED BY <1>1, <1>2, <1>4, RoomMove

LEMMA CompanySteps ==
  ASSUME RoomInv, CorporateNext
  PROVE  RoomInv'
<1>1. ASSUME NEW r \in Request, CreateCorporatePayment(r) \/ CreateCorporateOrder(r)
                                \/ FindSeat(r) \/ PushSeat(r) \/ NewSeat(r) \/ MailSeat(r)
      PROVE  RoomInv'
  <2>1. UNCHANGED <<bookingList, accounts>>
    BY <1>1 DEF CreateCorporatePayment, CreateCorporateOrder, FindSeat, PushSeat, NewSeat, MailSeat,
         rosterDocs, butPayments, butOrders, butSchedules
  <2>2. GoesAside(r)
    BY <1>1, CompanyGoes DEF RoomInv, RoomCall
  <2> QED BY <2>1, <2>2, RoomAside DEF RoomInv
<1>2. ASSUME NEW r \in Request, SavePending(r)
      PROVE  RoomInv'
  <2>1. /\ bookingList' \in [Request -> BookingList]
        /\ \A q \in Request : bookingList'[q].students = bookingList[q].students
    BY <1>2 DEF SavePending, RoomInv, BookingList
  <2>2. GoesAside(r) /\ UNCHANGED accounts
    BY <1>2, CompanyGoes DEF RoomInv, RoomCall, SavePending, butBookings
  <2> QED BY <2>1, <2>2, RoomAside
<1>3. ASSUME NEW r \in Request, RemoveBookingList(r)
      PROVE  RoomInv'
  <2>1. NoBookingList \in BookingList /\ NoBookingList.students = {}
    BY DEF NoBookingList, BookingList, Method
  <2>2. /\ bookingList' \in [Request -> BookingList]
        /\ \A q \in Request : bookingList'[q].students \subseteq bookingList[q].students
    BY <1>3, <2>1 DEF RemoveBookingList, RoomInv
  <2>3. StartsAside(r) /\ UNCHANGED accounts
    BY <1>3, AnswersAside DEF RemoveBookingList, butBookings
  <2> QED BY <2>2, <2>3, RoomAside
<1> QED BY <1>1, <1>2, <1>3, CreateCorporateStep, InsertAccountStep, CreateBookingListStep, RelistStep
        DEF CorporateNext

LEMMA RoomCrash ==
  ASSUME RoomInv, CrashCalls, UNCHANGED rosterDocs
  PROVE  RoomInv'
<1>1. CallsOK' /\ UNCHANGED <<bookingList, accounts>>
  BY CrashMoves DEF RoomInv, rosterDocs
<1>2. ASSUME NEW r \in Request
      PROVE  RoomCall(r)' /\ req'[r].op = req[r].op /\ Claimed(r)' \subseteq Claimed(r)
  <2>1. CASE req'[r] = req[r]
    BY <2>1 DEF RoomInv, RoomCall, Claimed, At
  <2>2. CASE req'[r] = [Answer("crashed") EXCEPT !.op = req[r].op]
    <3>1. req'[r] = Call(req[r].op, "crashed", None, None, {}, None, 0)
      BY <2>2, AnswerIs DEF Call
    <3>2. req'[r].pc = "crashed" /\ req'[r].op = req[r].op
      BY <3>1 DEF Call
    <3> QED BY <3>1, <3>2 DEF RoomCall, IsCall, Claiming, Claimed, At
  <2> QED BY <2>1, <2>2 DEF CrashCalls
<1>3. \A r \in Request : Held(r)' \subseteq Held(r)
  BY <1>1, <1>2 DEF Held
<1>4. Rewritten' <=> Rewritten
  BY <1>2 DEF Rewritten
<1> QED BY <1>1, <1>2, <1>3, <1>4 DEF RoomInv

\* The inductive invariant of the booking lists and the accounts they were made for.
THEOREM RoomAlways == ClassroomSpec => []RoomInv
<1>1. RoomInv /\ [ClassroomNext \/ (CrashCalls /\ UNCHANGED rosterDocs)]_rosterVars => RoomInv'
  <2> SUFFICES ASSUME RoomInv, [ClassroomNext \/ (CrashCalls /\ UNCHANGED rosterDocs)]_rosterVars
               PROVE  RoomInv'
    OBVIOUS
  <2>1. CASE UNCHANGED rosterVars
    BY <2>1 DEF rosterVars, rosterDocs, RoomInv, RoomCall, Held, Claimed, At, Rewritten, CallsOK
  <2> QED BY <2>1, ScheduleSteps, CompanySteps, RoomCrash DEF ClassroomNext
<1> QED BY <1>1, RoomInitially, PTL DEF ClassroomSpec

\* corporateSchedule.services.ts: as long as nobody rewrites a booking list, no two
\* lists name one student, whatever calls overlap or crash.
THEOREM BookedOnceHolds == ClassroomSpec => []BookedOnce
<1>1. RoomInv => BookedOnce
  <2> SUFFICES ASSUME RoomInv, ~Rewritten,
                      NEW b \in Request, NEW c \in Request, b # c
               PROVE  bookingList[b].students \cap bookingList[c].students = {}
    BY DEF BookedOnce, Rewritten
  <2>1. Held(b) \cap Held(c) = {}
    BY DEF RoomInv
  <2> QED BY <2>1 DEF Held
<1> QED BY <1>1, RoomAlways, PTL

-----------------------------------------------------------------------------
(* Seats                                                                   *)

\* Where a call is while it makes a schedule, seats a student, or serves a company.
CreatePlaces == {"createFind", "createNew", "createPush", "noticeFind", "noticeNew", "noticeAdd"}

SeatPlaces == {"seatFind", "seatNew", "seatPush", "seatMail"}

CompanyPlaces ==
  {"corpAccounts", "corpBooking", "corpPayment", "corpOrder", "corpPending"} \cup SeatPlaces

\* The students a call of a company has yet to seat.
Waiting(r) == IF At(r, "seatMail") THEN req[r].todo \ {req[r].read} ELSE req[r].todo

\* Whom a call has found without a seat, or made an account for, and may still seat.
Unbooked(r) ==
  {p \in Person :
     \/ req[r].pc \in {"createFind", "createNew", "createPush"} /\ p = req[r].body.first
     \/ At(r, "updateWrite") /\ req[r].op = "replace" /\ p \in req[r].body.students
     \/ req[r].pc \in {"corpAccounts", "corpBooking", "corpPayment"} /\ p \in req[r].body.students
     \/ req[r].pc \in SeatPlaces /\ p \in Waiting(r)}

Unseated(p) == \A k \in ScheduleId : schedules[k].seats[p] = 0

Placed(p) == \E k \in ScheduleId : schedules[k].seats[p] > 0

\* A call that has made no schedule.
Unmade(r) == \A s \in Session : ~Exists(<<r, s>>)

CreateCall(r) ==
  req[r].pc \in CreatePlaces =>
    /\ req[r].op = "create" /\ req[r].body \in CreateBody
    /\ req[r].body.first \in req[r].body.all /\ req[r].body.all \subseteq accounts
    /\ At(r, "createPush") => req[r].target \in ScheduleId

\* The name of the call that makes a change.
ChangeOp(c) ==
  IF Reseats(c) THEN "reseat" ELSE IF c.students = None THEN "update" ELSE "replace"

ChangeCall(r) ==
  /\ At(r, "updateWrite") =>
       /\ req[r].target \in ScheduleId /\ req[r].body \in Change
       /\ req[r].op = ChangeOp(req[r].body)
       /\ req[r].body.students # None => req[r].body.students \subseteq accounts \cup {Guest}
  /\ At(r, "joinSave") => req[r].target \in ScheduleId /\ req[r].op = "join"

CompanyCall(r) ==
  req[r].pc \in CompanyPlaces =>
    /\ req[r].op = "corporate" /\ req[r].body \in CorporateBody
    /\ IF At(r, "corpAccounts")
         THEN req[r].body.students \ req[r].todo \subseteq accounts
         ELSE req[r].body.students \subseteq accounts
    /\ req[r].pc \in {"corpAccounts"} \cup SeatPlaces => req[r].todo \subseteq req[r].body.students
    /\ req[r].pc \in SeatPlaces \ {"seatFind"} => req[r].read \in req[r].todo
    /\ At(r, "seatPush") => req[r].target \in ScheduleId

\* Nobody has rewritten or deleted a schedule.
Undisturbed == \A q \in Request : req[q].op \notin {"replace", "reseat", "remove"}

\* What a call of a company has stored.
CompanyStored(r) ==
  /\ At(r, "corpPayment") => req[r].body.method = "stripe"
  /\ At(r, "corpOrder") => req[r].body.method = "purchase_order"
  /\ At(r, "corpPending") =>
       req[r].body.method = "purchase_order" /\ req[r].body.number \in corporateOrders
  /\ req[r].pc \in SeatPlaces =>
       /\ req[r].body.method = "stripe" /\ r \in corporatePayments
       /\ Undisturbed => \A e \in req[r].body.students \ Waiting(r) : Placed(e)

SeatCall(r) ==
  /\ IsCall(req[r])
  /\ At(r, "idle") => req[r].op = "none"
  /\ req[r].pc \in {"idle", "createFind", "createNew"} => Unmade(r)
  /\ CreateCall(r) /\ ChangeCall(r) /\ CompanyCall(r) /\ CompanyStored(r)

\* No schedule has moved to another course.
AllHere == \A k \in ScheduleId : schedules[k].here

SeatDocs ==
  /\ schedules \in [ScheduleId -> ClassSchedule]
  /\ accounts \subseteq Email
  /\ \A k \in ScheduleId :
       /\ ~Exists(k) => schedules[k].seats = Nobody
       /\ \A e \in Email : schedules[k].seats[e] > 0 => e \in accounts

Reseated == \E q \in Request : req[q].op = "reseat"

OneSeat ==
  \A e \in Email :
    /\ \A k \in ScheduleId : schedules[k].seats[e] <= 1
    /\ \A k, l \in ScheduleId : schedules[k].seats[e] > 0 /\ schedules[l].seats[e] > 0 => k = l

\* The inductive invariant of the classroom's seats.
SeatingInv ==
  /\ CallsOK /\ Alone /\ SeatDocs
  /\ \A r \in Request : SeatCall(r)
  /\ ~Reseated => AllHere
  /\ ~overlapped /\ ~Reseated =>
       OneSeat /\ \A r \in Request : \A p \in Unbooked(r) : Unseated(p)

LEMMA SeatingInitially == RosterInit => SeatingInv
<1> SUFFICES ASSUME RosterInit PROVE SeatingInv
  OBVIOUS
<1>1. CallsOK /\ Alone
  BY AloneInitially DEF RosterInit, CallsInit, CallsOK
<1>2. Nobody \in [Person -> Nat] /\ NoClassSchedule \in ClassSchedule
  BY DEF Nobody, NoClassSchedule, ClassSchedule, Status
<1>3. ASSUME NEW k \in ScheduleId
      PROVE  /\ schedules[k] = NoClassSchedule /\ ~Exists(k) /\ schedules[k].seats = Nobody
             /\ schedules[k].here
             /\ \A p \in Person : schedules[k].seats[p] = 0
  BY DEF RosterInit, Exists, NoClassSchedule, Nobody
<1>4. SeatDocs
  BY <1>2, <1>3 DEF RosterInit, SeatDocs, Person
<1>5. ASSUME NEW r \in Request
      PROVE  SeatCall(r) /\ Unbooked(r) = {}
  <2>1. req[r] = Fresh /\ Fresh.pc = "idle" /\ Fresh.op = "none"
    BY DEF RosterInit, CallsInit, Fresh
  <2>2. Unmade(r)
    BY <1>3 DEF Unmade, ScheduleId
  <2>3. SeatCall(r)
    BY <2>1, <2>2, FreshIs DEF SeatCall, IsCall, At, CreateCall, CreatePlaces, ChangeCall, CompanyCall,
         CompanyPlaces, SeatPlaces, CompanyStored
  <2>4. Unbooked(r) = {}
    BY <2>1 DEF Unbooked, At, SeatPlaces
  <2> QED BY <2>3, <2>4
<1>6. OneSeat /\ AllHere
  BY <1>3 DEF OneSeat, AllHere, Person
<1> QED BY <1>1, <1>4, <1>5, <1>6 DEF SeatingInv

\* A step of call r, as the other calls see it.
StepOf(r) ==
  /\ CallsOK' /\ OnlyCall(r) /\ Alone' /\ AloneWith(r) /\ (~overlapped' => ~overlapped)
  /\ IsCall(req'[r]) /\ ~At(r, "idle")'
  /\ At(r, "idle") \/ req'[r].op = req[r].op

\* A step of call r: what it must show, of its own schedules, its own call and the
\* seats it may give.
LEMMA SeatMove ==
  ASSUME SeatingInv, NEW r \in Request, StepOf(r), SeatDocs',
         accounts \subseteq accounts', corporatePayments \subseteq corporatePayments',
         corporateOrders \subseteq corporateOrders',
         \A q \in Request \ {r}, s \in Session : Exists(<<q, s>>)' => Exists(<<q, s>>),
         Undisturbed' => \A e \in Email : Placed(e) => Placed(e)',
         SeatCall(r)', ~Reseated' /\ AllHere => AllHere',
         ~overlapped' /\ ~Reseated' => OneSeat' /\ \A p \in Unbooked(r)' : Unseated(p)'
  PROVE  SeatingInv'
<1>1. (Undisturbed' => Undisturbed) /\ (~Reseated' => ~Reseated)
  BY DEF Undisturbed, Reseated, StepOf, OnlyCall, SeatingInv, SeatCall
<1>2. ASSUME NEW q \in Request \ {r}
      PROVE  SeatCall(q)' /\ (~overlapped' => Unbooked(q)' = {})
  <2>1. req'[q] = req[q] /\ SeatCall(q)
    BY DEF StepOf, OnlyCall, SeatingInv
  <2>2. Unmade(q) => Unmade(q)'
    BY DEF Unmade
  <2>3. CreateCall(q)'
    BY <2>1 DEF SeatCall, CreateCall, At
  <2>4. ChangeCall(q)'
    BY <2>1 DEF SeatCall, ChangeCall, At
  <2>5. CompanyCall(q)'
    BY <2>1 DEF SeatCall, CompanyCall, At
  <2>6. CompanyStored(q)'
    <3>1. Waiting(q)' = Waiting(q)
      BY <2>1 DEF Waiting, At
    <3>2. req[q].pc \in SeatPlaces => req[q].body.students \subseteq Email
      BY <2>1 DEF SeatCall, CompanyCall, CompanyPlaces, CorporateBody
    <3> QED BY <1>1, <2>1, <3>1, <3>2 DEF SeatCall, CompanyStored, At
  <2>7. SeatCall(q)'
    BY <2>1, <2>2, <2>3, <2>4, <2>5, <2>6 DEF SeatCall, At
  <2>8. ASSUME ~overlapped' PROVE Unbooked(q)' = {}
    BY <2>8 DEF StepOf, AloneWith, InFlight, Replies, Unbooked, At, SeatPlaces
  <2> QED BY <2>7, <2>8
<1> QED BY <1>1, <1>2 DEF SeatingInv, StepOf

\* A step that gives nobody a seat and takes none.
LEMMA SeatQuiet ==
  ASSUME SeatingInv, NEW r \in Request, StepOf(r), UNCHANGED schedules,
         accounts \subseteq accounts', accounts' \subseteq Email,
         corporatePayments \subseteq corporatePayments',
         corporateOrders \subseteq corporateOrders',
         SeatCall(r)',
         ~overlapped' /\ ~Reseated' => \A p \in Unbooked(r)' : Unseated(p)
  PROVE  SeatingInv'
<1>1. SeatDocs'
  BY DEF SeatingInv, SeatDocs, Exists
<1>2. \A k : Exists(k)' <=> Exists(k)
  BY DEF Exists
<1>3. (OneSeat => OneSeat') /\ \A p : (Unseated(p) => Unseated(p)') /\ (Placed(p) => Placed(p)')
  BY DEF OneSeat, Unseated, Placed
<1>4. (~Reseated' => ~Reseated) /\ (AllHere => AllHere')
  BY DEF Reseated, StepOf, OnlyCall, SeatingInv, SeatCall, AllHere
<1>5. ~overlapped' => ~overlapped
  BY DEF StepOf
<1>6. ~overlapped' /\ ~Reseated' => OneSeat
  BY <1>4, <1>5 DEF SeatingInv
<1> QED BY <1>1, <1>2, <1>3, <1>4, <1>6, SeatMove

\* What becomes of a call.
Goes(old, call, there, target, todo, read) ==
  /\ IsCall(call) /\ call.pc = there /\ call.op = old.op /\ call.target = target
  /\ call.body = old.body /\ call.todo = todo /\ call.read = read

LEMMA Variants ==
  ASSUME NEW old, IsCall(old), NEW there, NEW target, NEW todo, NEW read
  PROVE  /\ Goes(old, [old EXCEPT !.pc = there], there, old.target, old.todo, old.read)
         /\ Goes(old, [old EXCEPT !.pc = there, !.target = target], there, target, old.todo, old.read)
         /\ Goes(old, [old EXCEPT !.pc = there, !.todo = todo], there, old.target, todo, old.read)
         /\ Goes(old, [old EXCEPT !.pc = there, !.read = read], there, old.target, old.todo, read)
         /\ Goes(old, [old EXCEPT !.pc = there, !.read = read, !.target = target],
                 there, target, old.todo, read)
         /\ Goes(old, [old EXCEPT !.pc = there, !.todo = todo, !.read = read],
                 there, old.target, todo, read)
         /\ Goes(old, [old EXCEPT !.todo = todo, !.read = read], old.pc, old.target, todo, read)
<1>1. PICK op, pc, target0, body, todo0, read0, round :
        old = Call(op, pc, target0, body, todo0, read0, round)
  BY DEF IsCall
<1>2. /\ old.op = op /\ old.pc = pc /\ old.target = target0 /\ old.body = body
      /\ old.todo = todo0 /\ old.read = read0
  BY <1>1 DEF Call
<1>3. ASSUME NEW call, NEW there1, NEW target1, NEW todo1, NEW read1,
             call = Call(op, there1, target1, body, todo1, read1, round)
      PROVE  Goes(old, call, there1, target1, todo1, read1)
  BY <1>2, <1>3, PartsOf DEF Goes
<1>4. ASSUME NEW call, call = [old EXCEPT !.pc = there]
      PROVE  call = Call(op, there, target0, body, todo0, read0, round)
  BY <1>1, <1>4 DEF Call
<1>5. ASSUME NEW call, call = [old EXCEPT !.pc = there, !.target = target]
      PROVE  call = Call(op, there, target, body, todo0, read0, round)
  BY <1>1, <1>5 DEF Call
<1>6. ASSUME NEW call, call = [old EXCEPT !.pc = there, !.todo = todo]
      PROVE  call = Call(op, there, target0, body, todo, read0, round)
  BY <1>1, <1>6 DEF Call
<1>7. ASSUME NEW call, call = [old EXCEPT !.pc = there, !.read = read]
      PROVE  call = Call(op, there, target0, body, todo0, read, round)
  BY <1>1, <1>7 DEF Call
<1>8. ASSUME NEW call, call = [old EXCEPT !.pc = there, !.read = read, !.target = target]
      PROVE  call = Call(op, there, target, body, todo0, read, round)
  BY <1>1, <1>8 DEF Call
<1>9. ASSUME NEW call, call = [old EXCEPT !.pc = there, !.todo = todo, !.read = read]
      PROVE  call = Call(op, there, target0, body, todo, read, round)
  BY <1>1, <1>9 DEF Call
<1>10. ASSUME NEW call, call = [old EXCEPT !.todo = todo, !.read = read]
      PROVE  call = Call(op, pc, target0, body, todo, read, round)
  BY <1>1, <1>10 DEF Call
<1> HIDE DEF Goes
<1> QED BY <1>2, <1>3, <1>4, <1>5, <1>6, <1>7, <1>8, <1>9, <1>10

\* A call in flight goes on.
LEMMA SeatBecomes ==
  ASSUME SeatingInv, NEW r \in Request, InFlight(r), NEW call, Becomes(r, call),
         NEW there, there # "idle", NEW target, NEW todo, NEW read,
         Goes(req[r], call, there, target, todo, read)
  PROVE  StepOf(r) /\ Goes(req[r], req'[r], there, target, todo, read) /\ overlapped' = overlapped
<1>1. CallsOK /\ Alone
  BY DEF SeatingInv
<1>2. CallsOK' /\ OnlyCall(r) /\ req'[r] = call
  BY <1>1, BecomesMoves
<1>3. Alone' /\ AloneWith(r) /\ overlapped' = overlapped
  BY <1>1, BecomesAlone
<1> QED BY <1>2, <1>3 DEF StepOf, Goes, At

\* The ways in which calls of the classroom go on.
LEMMA SeatGoes ==
  ASSUME SeatingInv, NEW r \in Request, InFlight(r),
         NEW there, there # "idle", NEW target, NEW todo, NEW read
  PROVE  /\ Becomes(r, [req[r] EXCEPT !.pc = there]) =>
              StepOf(r) /\ Goes(req[r], req'[r], there, req[r].target, req[r].todo, req[r].read)
         /\ Becomes(r, [req[r] EXCEPT !.pc = there, !.target = target]) =>
              StepOf(r) /\ Goes(req[r], req'[r], there, target, req[r].todo, req[r].read)
         /\ Becomes(r, [req[r] EXCEPT !.pc = there, !.todo = todo]) =>
              StepOf(r) /\ Goes(req[r], req'[r], there, req[r].target, todo, req[r].read)
         /\ Becomes(r, [req[r] EXCEPT !.pc = there, !.read = read]) =>
              StepOf(r) /\ Goes(req[r], req'[r], there, req[r].target, req[r].todo, read)
         /\ Becomes(r, [req[r] EXCEPT !.pc = there, !.read = read, !.target = target]) =>
              StepOf(r) /\ Goes(req[r], req'[r], there, target, req[r].todo, read)
         /\ Becomes(r, [req[r] EXCEPT !.pc = there, !.todo = todo, !.read = read]) =>
              StepOf(r) /\ Goes(req[r], req'[r], there, req[r].target, todo, read)
         /\ Becomes(r, [req[r] EXCEPT !.todo = todo, !.read = read]) =>
              StepOf(r) /\ Goes(req[r], req'[r], req[r].pc, req[r].target, todo, read)
<1>1. IsCall(req[r]) /\ req[r].pc # "idle"
  BY DEF SeatingInv, SeatCall, InFlight, Replies
<1>2. ASSUME NEW call, Becomes(r, call), NEW there1, there1 # "idle", NEW target1, NEW todo1, NEW read1,
             Goes(req[r], call, there1, target1, todo1, read1)
      PROVE  StepOf(r) /\ Goes(req[r], req'[r], there1, target1, todo1, read1)
  BY <1>2, SeatBecomes
<1>3. Becomes(r, [req[r] EXCEPT !.pc = there]) =>
        StepOf(r) /\ Goes(req[r], req'[r], there, req[r].target, req[r].todo, req[r].read)
  <2>1. Goes(req[r], [req[r] EXCEPT !.pc = there],
             there, req[r].target, req[r].todo, req[r].read)
    BY <1>1, Variants, Zenon
  <2> QED BY <1>1, <1>2, <2>1
<1>4. Becomes(r, [req[r] EXCEPT !.pc = there, !.target = target]) =>
        StepOf(r) /\ Goes(req[r], req'[r], there, target, req[r].todo, req[r].read)
  <2>1. Goes(req[r], [req[r] EXCEPT !.pc = there, !.target = target],
             there, target, req[r].todo, req[r].read)
    BY <1>1, Variants, Zenon
  <2> QED BY <1>1, <1>2, <2>1
<1>5. Becomes(r, [req[r] EXCEPT !.pc = there, !.todo = todo]) =>
        StepOf(r) /\ Goes(req[r], req'[r], there, req[r].target, todo, req[r].read)
  <2>1. Goes(req[r], [req[r] EXCEPT !.pc = there, !.todo = todo],
             there, req[r].target, todo, req[r].read)
    BY <1>1, Variants, Zenon
  <2> QED BY <1>1, <1>2, <2>1
<1>6. Becomes(r, [req[r] EXCEPT !.pc = there, !.read = read]) =>
        StepOf(r) /\ Goes(req[r], req'[r], there, req[r].target, req[r].todo, read)
  <2>1. Goes(req[r], [req[r] EXCEPT !.pc = there, !.read = read],
             there, req[r].target, req[r].todo, read)
    BY <1>1, Variants, Zenon
  <2> QED BY <1>1, <1>2, <2>1
<1>7. Becomes(r, [req[r] EXCEPT !.pc = there, !.read = read, !.target = target]) =>
        StepOf(r) /\ Goes(req[r], req'[r], there, target, req[r].todo, read)
  <2>1. Goes(req[r], [req[r] EXCEPT !.pc = there, !.read = read, !.target = target],
             there, target, req[r].todo, read)
    BY <1>1, Variants, Zenon
  <2> QED BY <1>1, <1>2, <2>1
<1>8. Becomes(r, [req[r] EXCEPT !.pc = there, !.todo = todo, !.read = read]) =>
        StepOf(r) /\ Goes(req[r], req'[r], there, req[r].target, todo, read)
  <2>1. Goes(req[r], [req[r] EXCEPT !.pc = there, !.todo = todo, !.read = read],
             there, req[r].target, todo, read)
    BY <1>1, Variants, Zenon
  <2> QED BY <1>1, <1>2, <2>1
<1>9. Becomes(r, [req[r] EXCEPT !.todo = todo, !.read = read]) =>
        StepOf(r) /\ Goes(req[r], req'[r], req[r].pc, req[r].target, todo, read)
  <2>1. Goes(req[r], [req[r] EXCEPT !.todo = todo, !.read = read],
             req[r].pc, req[r].target, todo, read)
    BY <1>1, Variants, Zenon
  <2> QED BY <1>1, <1>2, <2>1
<1> QED BY <1>3, <1>4, <1>5, <1>6, <1>7, <1>8, <1>9

\* A call is answered.
LEMMA SeatEnds ==
  ASSUME SeatingInv, NEW r \in Request, InFlight(r), NEW reply \in Replies, Ends(r, reply)
  PROVE  /\ StepOf(r) /\ SeatCall(r)' /\ Unbooked(r)' = {}
         /\ req'[r].pc = reply
<1>1. CallsOK /\ Alone
  BY DEF SeatingInv
<1>2. [Answer(reply) EXCEPT !.op = req[r].op] = Call(req[r].op, reply, None, None, {}, None, 0)
  BY AnswerIs DEF Call
<1>3. CallsOK' /\ OnlyCall(r) /\ req'[r] = Call(req[r].op, reply, None, None, {}, None, 0)
  BY <1>1, <1>2, BecomesMoves DEF Ends
<1>4. Alone' /\ AloneWith(r) /\ overlapped' = overlapped
  BY <1>1, EndsAlone
<1>5. IsCall(req'[r]) /\ req'[r].pc = reply /\ req'[r].op = req[r].op
  BY <1>3, PartsOf
<1>6. reply \notin {"idle", "updateWrite", "joinSave"} \cup CreatePlaces \cup CompanyPlaces
                 \cup SeatPlaces
  BY DEF Replies, CreatePlaces, CompanyPlaces, SeatPlaces
<1>7. SeatCall(r)'
  BY <1>5, <1>6 DEF SeatCall, At, CreateCall, CreatePlaces, ChangeCall, CompanyCall, CompanyPlaces,
       SeatPlaces, CompanyStored
<1>8. Unbooked(r)' = {}
  BY <1>5, <1>6 DEF Unbooked, At, CreatePlaces, CompanyPlaces
<1> QED BY <1>3, <1>4, <1>5, <1>6, <1>7, <1>8 DEF StepOf, At

\* A call starts.
LEMMA SeatBegins ==
  ASSUME SeatingInv, NEW r \in Request, NEW op, NEW call, Begins(r, op, call),
         NEW there, there # "idle", NEW target, NEW body, NEW todo, NEW read,
         call = Call("none", there, target, body, todo, read, 0)
  PROVE  /\ StepOf(r) /\ At(r, "idle") /\ Unmade(r)
         /\ req'[r] = Call(op, there, target, body, todo, read, 0)
         /\ req'[r].op = op /\ req'[r].pc = there /\ req'[r].target = target
         /\ req'[r].body = body /\ req'[r].todo = todo /\ req'[r].read = read
<1>1. CallsOK
  BY DEF SeatingInv
<1>2. [call EXCEPT !.op = op] = Call(op, there, target, body, todo, read, 0)
  BY DEF Call
<1>3. /\ At(r, "idle") /\ CallsOK' /\ OnlyCall(r)
      /\ req'[r] = Call(op, there, target, body, todo, read, 0)
  BY <1>1, <1>2, BeginsMoves
<1>4. Alone' /\ AloneWith(r) /\ (~overlapped' => ~overlapped)
  BY <1>1, BeginsAlone
<1>5. /\ IsCall(req'[r])
      /\ req'[r].op = op /\ req'[r].pc = there /\ req'[r].target = target
      /\ req'[r].body = body /\ req'[r].todo = todo /\ req'[r].read = read
  BY <1>3, PartsOf
<1>6. Unmade(r)
  BY <1>3 DEF SeatingInv, SeatCall, At
<1> QED BY <1>3, <1>4, <1>5, <1>6 DEF StepOf, At

\* A call is answered at once.
LEMMA SeatAnswers ==
  ASSUME SeatingInv, NEW r \in Request, NEW op, NEW reply \in Replies, Begins(r, op, Answer(reply))
  PROVE  StepOf(r) /\ SeatCall(r)' /\ Unbooked(r)' = {} /\ At(r, "idle") /\ req'[r].op = op
<1>1. reply # "idle"
  BY DEF Replies
<1>2. StepOf(r) /\ At(r, "idle") /\ req'[r].op = op /\ req'[r].pc = reply
  BY <1>1, AnswerIs, SeatBegins
<1>3. reply \notin {"idle", "updateWrite", "joinSave"} \cup CreatePlaces \cup CompanyPlaces
                 \cup SeatPlaces
  BY DEF Replies, CreatePlaces, CompanyPlaces, SeatPlaces
<1>4. SeatCall(r)'
  BY <1>2, <1>3 DEF StepOf, SeatCall, At, CreateCall, CreatePlaces, ChangeCall, CompanyCall,
       CompanyPlaces, SeatPlaces, CompanyStored
<1>5. Unbooked(r)' = {}
  BY <1>2, <1>3 DEF Unbooked, At, CreatePlaces, CompanyPlaces
<1> QED BY <1>2, <1>4, <1>5

LEMMA NotSeated ==
  ASSUME SeatDocs, AllHere, NEW p \in Person, \A k \in ScheduleId : ~Seated(k, p)
  PROVE  Unseated(p)
<1> SUFFICES ASSUME NEW k \in ScheduleId PROVE schedules[k].seats[p] = 0
  BY DEF Unseated
<1>1. schedules[k].seats \in [Person -> Nat] /\ (~Exists(k) => schedules[k].seats = Nobody)
  BY DEF SeatDocs, ClassSchedule
<1> QED BY <1>1 DEF Seated, InCourse, AllHere, Nobody

LEMMA StillHere ==
  ASSUME SeatingInv, NEW r \in Request, StepOf(r)
  PROVE  ~Reseated' => AllHere
BY DEF Reseated, StepOf, OnlyCall, SeatingInv, SeatCall

LEMMA CreateIs ==
  ASSUME NEW r \in Request, StepOf(r), req'[r].pc \in CreatePlaces, CreateCall(r)',
         req'[r].pc \in {"createFind", "createNew"} => Unmade(r)'
  PROVE  SeatCall(r)'
BY DEF StepOf, SeatCall, At, CreatePlaces, ChangeCall, CompanyCall, CompanyPlaces, SeatPlaces,
       CompanyStored

LEMMA ChangeIs ==
  ASSUME NEW r \in Request, StepOf(r), req'[r].pc \in {"updateWrite", "joinSave"}, ChangeCall(r)'
  PROVE  SeatCall(r)'
BY DEF StepOf, SeatCall, At, CreatePlaces, CreateCall, CompanyCall, CompanyPlaces, SeatPlaces,
       CompanyStored

LEMMA CreateScheduleSeats ==
  ASSUME SeatingInv, NEW r \in Request, CreateSchedule(r)
  PROVE  SeatingInv'
<1>1. PICK body \in CreateBody :
        /\ body.first \in body.all /\ body.all \subseteq accounts
        /\ \/ Begins(r, "create", Answer("error"))
           \/ /\ \A k \in ScheduleId, p \in body.all : ~Seated(k, p)
              /\ Begins(r, "create", [Fresh EXCEPT !.pc = "createFind", !.body = body])
  BY DEF CreateSchedule
<1>2. UNCHANGED rosterDocs
  BY DEF CreateSchedule
<1>3. UNCHANGED schedules /\ UNCHANGED <<accounts, corporatePayments, corporateOrders>>
      /\ accounts \subseteq Email
  BY <1>2 DEF rosterDocs, SeatingInv, SeatDocs
<1>4. CASE Begins(r, "create", Answer("error"))
  BY <1>3, <1>4, SeatAnswers, SeatQuiet DEF Replies
<1>5. CASE /\ \A k \in ScheduleId, p \in body.all : ~Seated(k, p)
           /\ Begins(r, "create", [Fresh EXCEPT !.pc = "createFind", !.body = body])
  <2>1. ASSUME NEW call, call = [Fresh EXCEPT !.pc = "createFind", !.body = body]
        PROVE  call = Call("none", "createFind", None, body, {}, None, 0)
    BY <2>1 DEF Fresh, Call
  <2>2. /\ StepOf(r) /\ Unmade(r) /\ req'[r].op = "create" /\ req'[r].pc = "createFind"
        /\ req'[r].body = body
    BY <1>5, <2>1, SeatBegins
  <2>3. SeatCall(r)'
    BY <1>1, <1>3, <2>2, CreateIs DEF CreateCall, CreatePlaces, At, Unmade, Exists
  <2>4. ~Reseated' => Unseated(body.first)
    <3>1. ~Reseated' => AllHere
      BY <2>2, StillHere
    <3> QED BY <1>1, <1>3, <1>5, <3>1, NotSeated DEF SeatingInv, Person
  <2>5. ~Reseated' => \A p \in Unbooked(r)' : Unseated(p)
    BY <2>2, <2>4 DEF Unbooked, At, SeatPlaces
  <2> QED BY <1>3, <2>2, <2>3, <2>5, SeatQuiet
<1> QED BY <1>1, <1>4, <1>5

LEMMA FindCourseScheduleSeats ==
  ASSUME SeatingInv, NEW r \in Request, FindCourseSchedule(r)
  PROVE  SeatingInv'
<1>1. At(r, "createFind") /\ UNCHANGED rosterDocs
  BY DEF FindCourseSchedule
<1>2. UNCHANGED schedules /\ UNCHANGED <<accounts, corporatePayments, corporateOrders>>
      /\ accounts \subseteq Email
  BY <1>1 DEF rosterDocs, SeatingInv, SeatDocs
<1>3. InFlight(r) /\ IsCall(req[r]) /\ CreateCall(r) /\ Unmade(r)
  BY <1>1 DEF InFlight, Replies, At, SeatingInv, SeatCall
<1>4. ASSUME NEW there \in {"createNew", "createPush"}, NEW target, StepOf(r),
             Goes(req[r], req'[r], there, target, req[r].todo, req[r].read),
             there = "createPush" => target \in ScheduleId
      PROVE  SeatingInv'
  <2>1. SeatCall(r)'
    BY <1>1, <1>2, <1>3, <1>4, CreateIs DEF Goes, CreateCall, CreatePlaces, At, Unmade, Exists
  <2>2. Unbooked(r)' \subseteq Unbooked(r)
    BY <1>1, <1>4 DEF Goes, Unbooked, At, SeatPlaces
  <2>3. ~overlapped' /\ ~Reseated' => \A p \in Unbooked(r)' : Unseated(p)
    BY <1>4, <2>2 DEF StepOf, Reseated, OnlyCall, SeatingInv, Goes
  <2> QED BY <1>2, <1>4, <2>1, <2>3, SeatQuiet
<1>5. CASE Becomes(r, [req[r] EXCEPT !.pc = "createNew"])
  <2>1. StepOf(r) /\ Goes(req[r], req'[r], "createNew", req[r].target, req[r].todo, req[r].read)
    BY <1>3, <1>5, SeatGoes, Zenon
  <2> QED BY <1>4, <2>1
<1>6. ASSUME NEW k \in ScheduleId, Becomes(r, [req[r] EXCEPT !.pc = "createPush", !.target = k])
      PROVE  SeatingInv'
  <2>1. StepOf(r) /\ Goes(req[r], req'[r], "createPush", k, req[r].todo, req[r].read)
    BY <1>3, <1>6, SeatGoes, Zenon
  <2> QED BY <1>4, <2>1
<1> QED BY <1>5, <1>6 DEF FindCourseSchedule

\* $push of one student.
LEMMA PushedSeat ==
  ASSUME SeatDocs, NEW k \in ScheduleId, Exists(k), NEW p \in Person, schedules' = Pushed(k, p),
         UNCHANGED accounts, p \in Email => p \in accounts
  PROVE  /\ SeatDocs' /\ Placed(p)'
         /\ \A l \in ScheduleId : Exists(l)' <=> Exists(l)
         /\ \A e \in Person : Placed(e) => Placed(e)'
         /\ OneSeat /\ Unseated(p) => OneSeat'
         /\ \A e \in Person \ {p} : Unseated(e) => Unseated(e)'
         /\ AllHere => AllHere'
<1>1. schedules \in [ScheduleId -> ClassSchedule]
  BY DEF SeatDocs
<1>2. schedules[k].seats \in [Person -> Nat]
  BY <1>1 DEF ClassSchedule
<1>3. /\ schedules' \in [ScheduleId -> ClassSchedule]
      /\ schedules'[k].seats = [schedules[k].seats EXCEPT ![p] = @ + 1]
      /\ schedules'[k].exists = schedules[k].exists /\ schedules'[k].here = schedules[k].here
      /\ \A l \in ScheduleId \ {k} : schedules'[l] = schedules[l]
  <2> DEFINE more == [schedules[k].seats EXCEPT ![p] = schedules[k].seats[p] + 1]
             doc == [schedules[k] EXCEPT !.seats = more]
  <2>1. schedules' = [schedules EXCEPT ![k] = doc]
    BY <1>1 DEF Pushed
  <2>2. more \in [Person -> Nat]
    BY <1>2
  <2> HIDE DEF more
  <2>3. /\ doc \in ClassSchedule /\ doc.seats = more
        /\ doc.exists = schedules[k].exists /\ doc.here = schedules[k].here
    BY <1>1, <2>2 DEF ClassSchedule
  <2> HIDE DEF doc
  <2> QED BY <1>1, <2>1, <2>3 DEF more
<1>4. \A l \in ScheduleId, e \in Person : schedules[l].seats[e] \in Nat
  BY <1>1 DEF ClassSchedule
<1>5. /\ schedules'[k].seats[p] = schedules[k].seats[p] + 1
      /\ \A e \in Person \ {p} : schedules'[k].seats[e] = schedules[k].seats[e]
  BY <1>2, <1>3
<1>6. \A l \in ScheduleId : Exists(l)' <=> Exists(l)
  BY <1>3 DEF Exists
<1>7. SeatDocs'
  <2>1. ASSUME NEW l \in ScheduleId
        PROVE  /\ ~Exists(l)' => schedules'[l].seats = Nobody
               /\ \A e \in Email : schedules'[l].seats[e] > 0 => e \in accounts
    BY <1>3, <1>5, <1>6 DEF SeatDocs, Person
  <2> QED BY <1>3, <2>1 DEF SeatDocs
<1>8. Placed(p)' /\ \A e \in Person : Placed(e) => Placed(e)'
  <2>1. Placed(p)'
    BY <1>4, <1>5 DEF Placed
  <2>2. ASSUME NEW e \in Person \ {p}, Placed(e) PROVE Placed(e)'
    BY <1>3, <1>5, <2>2 DEF Placed
  <2> QED BY <2>1, <2>2
<1>9. \A e \in Person \ {p} : Unseated(e) => Unseated(e)'
  BY <1>3, <1>5 DEF Unseated
<1>10. ASSUME OneSeat, Unseated(p) PROVE OneSeat'
  <2>1. \A l \in ScheduleId, e \in Person \ {p} : schedules'[l].seats[e] = schedules[l].seats[e]
    BY <1>3, <1>5
  <2>2. \A l \in ScheduleId : schedules'[l].seats[p] = IF l = k THEN 1 ELSE 0
    BY <1>3, <1>5, <1>10 DEF Unseated
  <2>3. ASSUME NEW e \in Email
        PROVE  /\ \A l \in ScheduleId : schedules'[l].seats[e] <= 1
               /\ \A l, m \in ScheduleId :
                    schedules'[l].seats[e] > 0 /\ schedules'[m].seats[e] > 0 => l = m
    <3>1. CASE e = p
      BY <2>2, <3>1
    <3>2. CASE e # p
      BY <1>10, <2>1, <3>2 DEF OneSeat, Person
    <3> QED BY <3>1, <3>2
  <2> QED BY <2>3 DEF OneSeat
<1>11. AllHere => AllHere'
  BY <1>3 DEF AllHere
<1> QED BY <1>6, <1>7, <1>8, <1>9, <1>10, <1>11

\* A new schedule with one student.
LEMMA NewSeated ==
  ASSUME SeatDocs, NEW k \in ScheduleId, NEW p \in Person, NEW doc \in ClassSchedule,
         doc.exists, doc.here, doc.seats = [Nobody EXCEPT ![p] = 1], schedules' = [schedules EXCEPT ![k] = doc],
         UNCHANGED accounts, p \in Email => p \in accounts
  PROVE  /\ SeatDocs' /\ Placed(p)'
         /\ \A l \in ScheduleId \ {k} : Exists(l)' <=> Exists(l)
         /\ ~Exists(k) => \A e \in Person : Placed(e) => Placed(e)'
         /\ OneSeat /\ Unseated(p) => OneSeat'
         /\ \A e \in Person \ {p} : Unseated(e) => Unseated(e)'
         /\ AllHere => AllHere'
<1>1. schedules \in [ScheduleId -> ClassSchedule]
  BY DEF SeatDocs
<1>2. /\ schedules' \in [ScheduleId -> ClassSchedule] /\ schedules'[k] = doc
      /\ \A l \in ScheduleId \ {k} : schedules'[l] = schedules[l]
  BY <1>1
<1>3. \A l \in ScheduleId, e \in Person : schedules[l].seats[e] \in Nat
  BY <1>1 DEF ClassSchedule
<1>4. schedules'[k].seats[p] = 1 /\ \A e \in Person \ {p} : schedules'[k].seats[e] = 0
  BY <1>2 DEF Nobody
<1>5. \A l \in ScheduleId \ {k} : Exists(l)' <=> Exists(l)
  BY <1>2 DEF Exists
<1>6. SeatDocs'
  <2>1. ASSUME NEW l \in ScheduleId
        PROVE  /\ ~Exists(l)' => schedules'[l].seats = Nobody
               /\ \A e \in Email : schedules'[l].seats[e] > 0 => e \in accounts
    BY <1>2, <1>4, <1>5 DEF SeatDocs, Person, Exists
  <2> QED BY <1>2, <2>1 DEF SeatDocs
<1>7. Placed(p)'
  BY <1>4 DEF Placed
<1>8. ASSUME ~Exists(k), NEW e \in Person, Placed(e) PROVE Placed(e)'
  <2>1. schedules[k].seats[e] = 0
    BY <1>8 DEF SeatDocs, Nobody
  <2> QED BY <1>2, <1>8, <2>1 DEF Placed
<1>9. \A e \in Person \ {p} : Unseated(e) => Unseated(e)'
  BY <1>2, <1>4 DEF Unseated
<1>10. ASSUME OneSeat, Unseated(p) PROVE OneSeat'
  <2>1. \A l \in ScheduleId, e \in Person \ {p} :
          schedules'[l].seats[e] = 0 \/ schedules'[l].seats[e] = schedules[l].seats[e]
    BY <1>2, <1>4
  <2>2. \A l \in ScheduleId : schedules'[l].seats[p] = IF l = k THEN 1 ELSE 0
    BY <1>2, <1>4, <1>10 DEF Unseated
  <2>3. ASSUME NEW e \in Email
        PROVE  /\ \A l \in ScheduleId : schedules'[l].seats[e] <= 1
               /\ \A l, m \in ScheduleId :
                    schedules'[l].seats[e] > 0 /\ schedules'[m].seats[e] > 0 => l = m
    <3>1. CASE e = p
      BY <2>2, <3>1
    <3>2. CASE e # p
      BY <1>10, <2>1, <3>2 DEF OneSeat, Person
    <3> QED BY <3>1, <3>2
  <2> QED BY <2>3 DEF OneSeat
<1>11. AllHere => AllHere'
  BY <1>2 DEF AllHere
<1> QED BY <1>5, <1>6, <1>7, <1>8, <1>9, <1>10, <1>11

\* Where no student gets a seat, none gets a second one.
LEMMA FewerSeats ==
  ASSUME SeatDocs, SeatDocs',
         \A k \in ScheduleId, e \in Email :
           schedules'[k].seats[e] = 0 \/ schedules'[k].seats[e] = schedules[k].seats[e]
  PROVE  OneSeat => OneSeat'
BY DEF OneSeat

LEMMA SerialBefore ==
  ASSUME SeatingInv, NEW r \in Request, StepOf(r), ~overlapped', ~Reseated'
  PROVE  OneSeat /\ \A p \in Unbooked(r) : Unseated(p)
BY DEF Reseated, StepOf, OnlyCall, SeatingInv, SeatCall

LEMMA PushStudentSeats ==
  ASSUME SeatingInv, NEW r \in Request, PushStudent(r)
  PROVE  SeatingInv'
<1> DEFINE k == req[r].target
           p == req[r].body.first
<1>1. At(r, "createPush") /\ UNCHANGED butSchedules
  BY DEF PushStudent
<1>2. UNCHANGED <<accounts, corporatePayments, corporateOrders>> /\ accounts \subseteq Email
      /\ SeatDocs
  BY <1>1 DEF butSchedules, SeatingInv, SeatDocs
<1>3. InFlight(r) /\ IsCall(req[r]) /\ CreateCall(r) /\ req[r].pc \in CreatePlaces
  BY <1>1 DEF InFlight, Replies, At, SeatingInv, SeatCall, CreatePlaces
<1>4. /\ req[r].op = "create" /\ req[r].body \in CreateBody /\ p \in req[r].body.all
      /\ req[r].body.all \subseteq accounts /\ k \in ScheduleId /\ p \in Email /\ p \in Person
      /\ p \in accounts
  BY <1>1, <1>2, <1>3 DEF CreateCall, Person
<1>5. CASE Exists(k) /\ schedules' = Pushed(k, p)
           /\ Becomes(r, [req[r] EXCEPT !.pc = "noticeFind", !.target = None])
  <2>1. StepOf(r) /\ Goes(req[r], req'[r], "noticeFind", None, req[r].todo, req[r].read)
    BY <1>3, <1>5, SeatGoes, Zenon
  <2>2. SeatCall(r)'
    BY <1>2, <1>4, <2>1, CreateIs DEF Goes, CreateCall, CreatePlaces, At
  <2>3. Unbooked(r)' = {}
    BY <2>1 DEF Goes, Unbooked, At, SeatPlaces
  <2>4. /\ SeatDocs' /\ \A l \in ScheduleId : Exists(l)' <=> Exists(l)
        /\ \A e \in Person : Placed(e) => Placed(e)'
        /\ OneSeat /\ Unseated(p) => OneSeat'
        /\ AllHere => AllHere'
    BY <1>2, <1>4, <1>5, PushedSeat
  <2>5. p \in Unbooked(r)
    BY <1>1, <1>4 DEF Unbooked, At
  <2>6. ~overlapped' /\ ~Reseated' => OneSeat'
    BY <2>1, <2>4, <2>5, SerialBefore
  <2> QED BY <1>2, <2>1, <2>2, <2>3, <2>4, <2>6, SeatMove DEF ScheduleId, Person
<1>6. CASE Ends(r, "error") /\ UNCHANGED schedules
  BY <1>2, <1>3, <1>6, SeatEnds, SeatQuiet DEF Replies
<1> QED BY <1>5, <1>6 DEF PushStudent

LEMMA NewClassScheduleSeats ==
  ASSUME SeatingInv, NEW r \in Request, NewClassSchedule(r)
  PROVE  SeatingInv'
<1> DEFINE k == <<r, req[r].body.session>>
           p == req[r].body.first
<1>1. At(r, "createNew") /\ UNCHANGED butSchedules
  BY DEF NewClassSchedule
<1>2. UNCHANGED <<accounts, corporatePayments, corporateOrders>> /\ accounts \subseteq Email
      /\ SeatDocs
  BY <1>1 DEF butSchedules, SeatingInv, SeatDocs
<1>3. /\ InFlight(r) /\ IsCall(req[r]) /\ CreateCall(r) /\ req[r].pc \in CreatePlaces
      /\ Unmade(r)
  BY <1>1 DEF InFlight, Replies, At, SeatingInv, SeatCall, CreatePlaces
<1>4. /\ req[r].op = "create" /\ req[r].body \in CreateBody /\ p \in req[r].body.all
      /\ req[r].body.all \subseteq accounts /\ p \in Email /\ p \in Person
      /\ p \in accounts /\ req[r].body.session \in Session
  BY <1>1, <1>2, <1>3 DEF CreateCall, Person, CreateBody
<1>5. k \in ScheduleId /\ ~Exists(k)
  BY <1>3, <1>4 DEF ScheduleId, Unmade
<1>6. ASSUME NEW status \in Sendable \cup {"scheduled"}, NEW doc,
             doc = [NoClassSchedule EXCEPT !.exists = TRUE, !.seats[p] = 1, !.status = status,
                                           !.key = r]
      PROVE  doc \in ClassSchedule /\ doc.exists /\ doc.here /\ doc.seats = [Nobody EXCEPT ![p] = 1]
  <2>1. status \in Status
    BY RosterAssumption DEF Status
  <2>2. [Nobody EXCEPT ![p] = 1] \in [Person -> Nat]
    BY DEF Nobody
  <2>3. doc = [exists |-> TRUE, here |-> TRUE, seats |-> [Nobody EXCEPT ![p] = 1],
               status |-> status, key |-> r, begun |-> FALSE]
    BY <1>6 DEF NoClassSchedule
  <2> QED BY <2>1, <2>2, <2>3 DEF ClassSchedule
<1>7. ASSUME NEW status \in Sendable \cup {"scheduled"}, NEW doc,
             doc = [NoClassSchedule EXCEPT !.exists = TRUE, !.seats[p] = 1, !.status = status,
                                           !.key = r],
             schedules' = [schedules EXCEPT ![k] = doc],
             Becomes(r, [req[r] EXCEPT !.pc = "noticeFind"])
      PROVE  SeatingInv'
  <2>1. StepOf(r) /\ Goes(req[r], req'[r], "noticeFind", req[r].target, req[r].todo, req[r].read)
    BY <1>3, <1>7, SeatGoes, Zenon
  <2>2. SeatCall(r)'
    BY <1>2, <1>4, <2>1, CreateIs DEF Goes, CreateCall, CreatePlaces, At
  <2>3. Unbooked(r)' = {}
    BY <2>1 DEF Goes, Unbooked, At, SeatPlaces
  <2>4. /\ SeatDocs' /\ \A l \in ScheduleId \ {k} : Exists(l)' <=> Exists(l)
        /\ \A e \in Person : Placed(e) => Placed(e)'
        /\ OneSeat /\ Unseated(p) => OneSeat'
        /\ AllHere => AllHere'
    <3>1. doc \in ClassSchedule /\ doc.exists /\ doc.here /\ doc.seats = [Nobody EXCEPT ![p] = 1]
      BY <1>6, <1>7
    <3> HIDE DEF k, p
    <3> QED BY <1>2, <1>4, <1>5, <1>7, <3>1, NewSeated
  <2>5. p \in Unbooked(r)
    BY <1>1, <1>4 DEF Unbooked, At
  <2>6. ~overlapped' /\ ~Reseated' => OneSeat'
    BY <2>1, <2>4, <2>5, SerialBefore
  <2>7. \A q \in Request \ {r}, s \in Session : Exists(<<q, s>>)' => Exists(<<q, s>>)
    BY <2>4 DEF ScheduleId
  <2> QED BY <1>2, <2>1, <2>2, <2>3, <2>4, <2>6, <2>7, SeatMove DEF Person
<1>8. CASE Ends(r, "error") /\ UNCHANGED schedules
  BY <1>2, <1>3, <1>8, SeatEnds, SeatQuiet DEF Replies
<1> QED BY <1>7, <1>8 DEF NewClassSchedule

LEMMA NoticeSeats ==
  ASSUME SeatingInv, NEW r \in Request, FindNotice(r) \/ Notify(r)
  PROVE  SeatingInv'
<1>1. /\ req[r].pc \in {"noticeFind", "noticeNew", "noticeAdd"}
      /\ UNCHANGED <<schedules, accounts, corporatePayments, corporateOrders>>
  BY DEF FindNotice, Notify, At, rosterDocs, butNotices
<1>2. accounts \subseteq Email
  BY DEF SeatingInv, SeatDocs
<1>3. InFlight(r) /\ IsCall(req[r]) /\ CreateCall(r) /\ req[r].pc \in CreatePlaces
  BY <1>1 DEF InFlight, Replies, SeatingInv, SeatCall, CreatePlaces
<1>4. ASSUME NEW there \in {"noticeNew", "noticeAdd"}, NEW target, StepOf(r),
             Goes(req[r], req'[r], there, target, req[r].todo, req[r].read)
      PROVE  SeatingInv'
  <2>1. SeatCall(r)'
    BY <1>1, <1>3, <1>4, CreateIs DEF Goes, CreateCall, CreatePlaces, At
  <2>2. Unbooked(r)' = {}
    BY <1>4 DEF Goes, Unbooked, At, SeatPlaces
  <2> QED BY <1>1, <1>2, <1>4, <2>1, <2>2, SeatQuiet
<1>5. CASE Becomes(r, [req[r] EXCEPT !.pc = "noticeNew"])
  <2>1. StepOf(r) /\ Goes(req[r], req'[r], "noticeNew", req[r].target, req[r].todo, req[r].read)
    BY <1>3, <1>5, SeatGoes, Zenon
  <2> QED BY <1>4, <2>1
<1>6. ASSUME NEW n, Becomes(r, [req[r] EXCEPT !.pc = "noticeAdd", !.target = n])
      PROVE  SeatingInv'
  <2>1. StepOf(r) /\ Goes(req[r], req'[r], "noticeAdd", n, req[r].todo, req[r].read)
    BY <1>3, <1>6, SeatGoes, Zenon
  <2> QED BY <1>4, <2>1
<1>7. CASE Ends(r, "ok")
  BY <1>1, <1>2, <1>3, <1>7, SeatEnds, SeatQuiet DEF Replies
<1> QED BY <1>5, <1>6, <1>7 DEF FindNotice, Notify

LEMMA UpdateScheduleSeats ==
  ASSUME SeatingInv, NEW r \in Request, UpdateSchedule(r)
  PROVE  SeatingInv'
<1>1. PICK k \in ScheduleId, c \in Change :
        /\ c.students # None => c.students \subseteq accounts \cup {Guest}
        /\ \/ Begins(r, ChangeOp(c), Answer("error"))
           \/ /\ ~Duplicate(c)
              /\ Begins(r, ChangeOp(c), [Fresh EXCEPT !.pc = "updateWrite", !.target = k, !.body = c])
  BY DEF UpdateSchedule, ChangeOp
<1>2. /\ UNCHANGED <<schedules, accounts, corporatePayments, corporateOrders>>
      /\ accounts \subseteq Email
  BY DEF UpdateSchedule, rosterDocs, SeatingInv, SeatDocs
<1>3. CASE Begins(r, ChangeOp(c), Answer("error"))
  BY <1>2, <1>3, SeatAnswers, SeatQuiet DEF Replies
<1>4. CASE /\ ~Duplicate(c)
           /\ Begins(r, ChangeOp(c), [Fresh EXCEPT !.pc = "updateWrite", !.target = k, !.body = c])
  <2>1. ASSUME NEW call, call = [Fresh EXCEPT !.pc = "updateWrite", !.target = k, !.body = c]
        PROVE  call = Call("none", "updateWrite", k, c, {}, None, 0)
    BY <2>1 DEF Fresh, Call
  <2>2. /\ StepOf(r) /\ req'[r].op = ChangeOp(c) /\ req'[r].pc = "updateWrite"
        /\ req'[r].target = k /\ req'[r].body = c
    <3> QED BY <1>4, <2>1, SeatBegins
  <2>3. ChangeCall(r)'
    BY <1>1, <1>2, <2>2 DEF ChangeCall, At
  <2>4. SeatCall(r)'
    BY <2>2, <2>3, ChangeIs
  <2>5. ASSUME ~Reseated', NEW p \in Unbooked(r)' PROVE Unseated(p)
    <3>1. p \in Person /\ p \in c.students /\ ChangeOp(c) = "replace"
      BY <2>2, <2>5 DEF Unbooked, At, SeatPlaces
    <3>2. c.course = "here" /\ c.students # None
      BY <3>1 DEF ChangeOp, Reseats, Change
    <3>3. \A l \in ScheduleId : ~Seated(l, p)
      BY <1>4, <3>1, <3>2 DEF Duplicate
    <3>4. AllHere
      BY <2>2, <2>5, StillHere
    <3> QED BY <3>1, <3>3, <3>4, NotSeated DEF SeatingInv
  <2> QED BY <1>2, <2>2, <2>4, <2>5, SeatQuiet
<1> QED BY <1>1, <1>3, <1>4

\* What a PUT leaves of a schedule.
LEMMA PutSeats ==
  ASSUME NEW doc \in ClassSchedule, NEW c \in Change
  PROVE  /\ Put(doc, c) \in ClassSchedule /\ Put(doc, c).exists = doc.exists
         /\ c.students = None => Put(doc, c).seats = doc.seats
         /\ c.students # None =>
              \A p \in Person : p \notin c.students => Put(doc, c).seats[p] = 0
         /\ c.students # None /\ ~Reseats(c) =>
              \A p \in c.students : Put(doc, c).seats[p] = 1
         /\ ~Reseats(c) /\ doc.here => Put(doc, c).here
<1> DEFINE sat == IF c.students = None THEN doc.seats
                  ELSE [p \in Person |-> IF p \notin c.students THEN 0
                                         ELSE IF c.twice THEN 2 ELSE 1]
           there == IF c.course = "none" THEN doc.here ELSE c.course = "here"
           status == IF c.status = None THEN doc.status ELSE c.status
           begun == doc.begun /\ ~c.moved
<1>1. sat \in [Person -> Nat] /\ there \in BOOLEAN /\ status \in Status /\ begun \in BOOLEAN
  <2>1. /\ doc.seats \in [Person -> Nat] /\ doc.status \in Status /\ doc.here \in BOOLEAN
        /\ c.status \in Sendable \cup {None}
    BY DEF ClassSchedule, Change
  <2>2. Sendable \subseteq Status
    BY RosterAssumption DEF Status
  <2> QED BY <2>1, <2>2
<1>2. Put(doc, c) = [doc EXCEPT !.seats = sat, !.here = there, !.status = status, !.begun = begun]
  BY DEF Put
<1> HIDE DEF sat, there, status, begun
<1>3. /\ Put(doc, c) \in ClassSchedule /\ Put(doc, c).exists = doc.exists
      /\ Put(doc, c).seats = sat /\ Put(doc, c).here = there
  BY <1>1, <1>2 DEF ClassSchedule
<1>4. c.students # None => c.students \subseteq Person
  BY DEF Change
<1>5. ~Reseats(c) => ~c.twice /\ c.course \in {"none", "here"}
  BY DEF Reseats, Change
<1> QED BY <1>3, <1>4, <1>5 DEF sat, there

LEMMA WriteScheduleSeats ==
  ASSUME SeatingInv, NEW r \in Request, WriteSchedule(r)
  PROVE  SeatingInv'
<1> DEFINE k == req[r].target
           c == req[r].body
<1>1. At(r, "updateWrite") /\ UNCHANGED butSchedules
  BY DEF WriteSchedule
<1>2. UNCHANGED <<accounts, corporatePayments, corporateOrders>> /\ accounts \subseteq Email
      /\ SeatDocs /\ schedules \in [ScheduleId -> ClassSchedule]
  BY <1>1 DEF butSchedules, SeatingInv, SeatDocs
<1>3. InFlight(r) /\ ChangeCall(r)
  BY <1>1 DEF InFlight, Replies, At, SeatingInv, SeatCall
<1>4. /\ k \in ScheduleId /\ c \in Change /\ req[r].op = ChangeOp(c)
      /\ c.students # None => c.students \subseteq accounts \cup {Guest}
  BY <1>1, <1>3 DEF ChangeCall
<1>5. CASE Exists(k) /\ schedules' = [schedules EXCEPT ![k] = Put(@, c)] /\ Ends(r, "ok")
  <2>1. StepOf(r) /\ SeatCall(r)' /\ Unbooked(r)' = {}
    BY <1>3, <1>5, SeatEnds DEF Replies
  <2>2. req'[r].op = req[r].op
    BY <1>1, <2>1 DEF StepOf, At
  <2>3. /\ Put(schedules[k], c) \in ClassSchedule /\ Put(schedules[k], c).exists = schedules[k].exists
        /\ c.students = None => Put(schedules[k], c).seats = schedules[k].seats
        /\ c.students # None =>
             \A p \in Person : p \notin c.students => Put(schedules[k], c).seats[p] = 0
        /\ c.students # None /\ ~Reseats(c) =>
             \A p \in c.students : Put(schedules[k], c).seats[p] = 1
        /\ ~Reseats(c) /\ schedules[k].here => Put(schedules[k], c).here
    BY <1>2, <1>4, PutSeats
  <2>4. /\ schedules' \in [ScheduleId -> ClassSchedule] /\ schedules'[k] = Put(schedules[k], c)
        /\ \A l \in ScheduleId \ {k} : schedules'[l] = schedules[l]
    BY <1>2, <1>4, <1>5, <2>3
  <2>5. \A l \in ScheduleId : Exists(l)' <=> Exists(l)
    BY <2>3, <2>4 DEF Exists
  <2>6. SeatDocs'
    <3>1. ASSUME NEW l \in ScheduleId
          PROVE  /\ ~Exists(l)' => schedules'[l].seats = Nobody
                 /\ \A e \in Email : schedules'[l].seats[e] > 0 => e \in accounts
      <4>1. CASE l # k \/ c.students = None
        BY <1>2, <2>3, <2>4, <2>5, <4>1 DEF SeatDocs
      <4>2. CASE l = k /\ c.students # None
        <5>1. \A e \in Email : schedules'[l].seats[e] > 0 => e \in c.students
          BY <2>3, <2>4, <4>2 DEF Person
        <5> QED BY <1>4, <1>5, <2>5, <4>2, <5>1, RosterAssumption
      <4> QED BY <4>1, <4>2
    <3> QED BY <1>2, <2>4, <3>1 DEF SeatDocs
  <2>7. c.students = None => \A p : Placed(p) => Placed(p)'
    BY <1>4, <2>3, <2>4 DEF Placed
  <2>8. Undisturbed' => c.students = None
    BY <1>4, <2>2 DEF Undisturbed, ChangeOp
  <2>10. ~Reseated' => ~Reseats(c)
    BY <1>4, <2>2 DEF Reseated, ChangeOp
  <2>11. ~Reseated' /\ AllHere => AllHere'
    BY <1>4, <2>3, <2>4, <2>10 DEF AllHere
  <2>9. ASSUME ~overlapped', ~Reseated' PROVE OneSeat'
    <3>1. OneSeat /\ \A p \in Unbooked(r) : Unseated(p)
      BY <2>1, <2>9, SerialBefore
    <3>2. CASE c.students = None
      BY <1>2, <2>3, <2>4, <2>6, <3>1, <3>2, FewerSeats
    <3>3. CASE c.students # None
      <4>1. req[r].op = "replace"
        BY <1>4, <2>9, <2>10, <3>3 DEF ChangeOp
      <4>2. ASSUME NEW e \in Email
            PROVE  /\ \A l \in ScheduleId : schedules'[l].seats[e] <= 1
                   /\ \A l, m \in ScheduleId :
                        schedules'[l].seats[e] > 0 /\ schedules'[m].seats[e] > 0 => l = m
        <5>1. e \in Person /\ schedules'[k].seats[e] = IF e \in c.students THEN 1 ELSE 0
          BY <2>3, <2>4, <2>10, <2>9, <3>3 DEF Person
        <5>2. CASE e \in c.students
          <6>1. \A l \in ScheduleId : schedules[l].seats[e] = 0
            BY <1>1, <3>1, <4>1, <5>1, <5>2 DEF Unbooked, Unseated
          <6> QED BY <2>4, <5>1, <5>2, <6>1
        <5>3. CASE e \notin c.students
          BY <2>4, <3>1, <5>1, <5>3 DEF OneSeat
        <5> QED BY <5>2, <5>3
      <4> QED BY <4>2 DEF OneSeat
    <3> QED BY <3>2, <3>3
  <2> QED BY <1>2, <2>1, <2>5, <2>6, <2>7, <2>8, <2>9, <2>11, SeatMove DEF ScheduleId
<1>6. CASE Ends(r, "error") /\ UNCHANGED schedules
  BY <1>2, <1>3, <1>6, SeatEnds, SeatQuiet DEF Replies
<1> QED BY <1>5, <1>6 DEF WriteSchedule

LEMMA UserStatusSeats ==
  ASSUME SeatingInv, NEW r \in Request, UpdateUserStatus(r)
  PROVE  SeatingInv'
<1>1. /\ UNCHANGED <<schedules, accounts, corporatePayments, corporateOrders>>
      /\ accounts \subseteq Email
  BY DEF UpdateUserStatus, rosterDocs, SeatingInv, SeatDocs
<1>2. PICK reply \in {"ok", "error"} : Begins(r, "userStatus", Answer(reply))
  BY DEF UpdateUserStatus
<1> QED BY <1>1, <1>2, SeatAnswers, SeatQuiet DEF Replies

LEMMA RemoveScheduleSeats ==
  ASSUME SeatingInv, NEW r \in Request, RemoveClassSchedule(r)
  PROVE  SeatingInv'
<1>1. PICK k \in ScheduleId : schedules' = [schedules EXCEPT ![k] = NoClassSchedule]
  BY DEF RemoveClassSchedule
<1>2. UNCHANGED <<accounts, corporatePayments, corporateOrders>> /\ SeatDocs
      /\ schedules \in [ScheduleId -> ClassSchedule]
  BY DEF RemoveClassSchedule, butSchedules, SeatingInv, SeatDocs
<1>3. /\ StepOf(r) /\ SeatCall(r)' /\ Unbooked(r)' = {} /\ req'[r].op = "remove"
  BY SeatAnswers DEF RemoveClassSchedule, Replies
<1>4. /\ NoClassSchedule \in ClassSchedule /\ NoClassSchedule.seats = Nobody
      /\ ~NoClassSchedule.exists /\ NoClassSchedule.here
  BY DEF NoClassSchedule, ClassSchedule, Nobody, Status
<1>5. /\ schedules' \in [ScheduleId -> ClassSchedule] /\ schedules'[k] = NoClassSchedule
      /\ \A l \in ScheduleId \ {k} : schedules'[l] = schedules[l]
  BY <1>1, <1>2, <1>4
<1>6. \A l \in ScheduleId : Exists(l)' => Exists(l)
  BY <1>4, <1>5 DEF Exists
<1>7. \A l \in ScheduleId, e \in Email :
        schedules'[l].seats[e] = 0 \/ schedules'[l].seats[e] = schedules[l].seats[e]
  BY <1>4, <1>5 DEF Nobody, Person
<1>8. SeatDocs'
  <2>1. ASSUME NEW l \in ScheduleId
        PROVE  /\ ~Exists(l)' => schedules'[l].seats = Nobody
               /\ \A e \in Email : schedules'[l].seats[e] > 0 => e \in accounts
    BY <1>2, <1>4, <1>5, <1>7 DEF SeatDocs, Exists
  <2> QED BY <1>2, <1>5, <2>1 DEF SeatDocs
<1>9. ~Undisturbed'
  BY <1>3 DEF Undisturbed
<1>10. ~overlapped' /\ ~Reseated' => OneSeat'
  BY <1>2, <1>3, <1>7, <1>8, FewerSeats, SerialBefore
<1>11. AllHere => AllHere'
  BY <1>4, <1>5 DEF AllHere
<1> QED BY <1>2, <1>3, <1>6, <1>8, <1>9, <1>10, <1>11, SeatMove DEF ScheduleId

LEMMA JoinClassSeats ==
  ASSUME SeatingInv, NEW r \in Request, JoinClass(r)
  PROVE  SeatingInv'
<1>1. /\ UNCHANGED <<schedules, accounts, corporatePayments, corporateOrders>>
      /\ accounts \subseteq Email
  BY DEF JoinClass, rosterDocs, SeatingInv, SeatDocs
<1>2. PICK k \in ScheduleId :
        \/ Begins(r, "join", Answer("error")) \/ Begins(r, "join", Answer("ok"))
        \/ Begins(r, "join", [Fresh EXCEPT !.pc = "joinSave", !.target = k])
  BY DEF JoinClass
<1>3. CASE Begins(r, "join", Answer("error")) \/ Begins(r, "join", Answer("ok"))
  BY <1>1, <1>3, SeatAnswers, SeatQuiet DEF Replies
<1>4. CASE Begins(r, "join", [Fresh EXCEPT !.pc = "joinSave", !.target = k])
  <2>1. ASSUME NEW call, call = [Fresh EXCEPT !.pc = "joinSave", !.target = k]
        PROVE  call = Call("none", "joinSave", k, None, {}, None, 0)
    BY <2>1 DEF Fresh, Call
  <2>2. StepOf(r) /\ req'[r].op = "join" /\ req'[r].pc = "joinSave" /\ req'[r].target = k
    BY <1>4, <2>1, SeatBegins
  <2>3. SeatCall(r)'
    BY <2>2, ChangeIs DEF ChangeCall, At
  <2>4. Unbooked(r)' = {}
    BY <2>2 DEF Unbooked, At, SeatPlaces
  <2> QED BY <1>1, <2>2, <2>3, <2>4, SeatQuiet
<1> QED BY <1>2, <1>3, <1>4

\* A step that changes schedules, but not who is on them.
LEMMA SeatsKept ==
  ASSUME SeatDocs, schedules' \in [ScheduleId -> ClassSchedule], UNCHANGED accounts,
         \A l \in ScheduleId : /\ schedules'[l].exists = schedules[l].exists
                               /\ schedules'[l].here = schedules[l].here
                               /\ schedules'[l].seats = schedules[l].seats
  PROVE  /\ SeatDocs' /\ \A l \in ScheduleId : Exists(l)' <=> Exists(l)
         /\ (OneSeat => OneSeat') /\ (AllHere => AllHere')
         /\ \A p : (Placed(p) => Placed(p)') /\ (Unseated(p) => Unseated(p)')
BY DEF SeatDocs, Exists, OneSeat, AllHere, Placed, Unseated

LEMMA OpenClassSeats ==
  ASSUME SeatingInv, NEW r \in Request, OpenClass(r)
  PROVE  SeatingInv'
<1> DEFINE k == req[r].target
<1>1. At(r, "joinSave") /\ UNCHANGED butSchedules
  BY DEF OpenClass
<1>2. UNCHANGED <<accounts, corporatePayments, corporateOrders>> /\ accounts \subseteq Email
      /\ SeatDocs /\ schedules \in [ScheduleId -> ClassSchedule]
  BY <1>1 DEF butSchedules, SeatingInv, SeatDocs
<1>3. InFlight(r) /\ k \in ScheduleId
  BY <1>1 DEF InFlight, Replies, At, SeatingInv, SeatCall, ChangeCall
<1>4. CASE schedules' = [schedules EXCEPT ![k].status = "ongoing"] /\ Ends(r, "ok")
  <2>1. StepOf(r) /\ SeatCall(r)' /\ Unbooked(r)' = {}
    BY <1>3, <1>4, SeatEnds DEF Replies
  <2>2. /\ schedules' \in [ScheduleId -> ClassSchedule]
        /\ \A l \in ScheduleId : /\ schedules'[l].exists = schedules[l].exists
                                 /\ schedules'[l].here = schedules[l].here
                                 /\ schedules'[l].seats = schedules[l].seats
    BY <1>2, <1>3, <1>4 DEF ClassSchedule, Status
  <2>3. /\ SeatDocs' /\ \A l \in ScheduleId : Exists(l)' <=> Exists(l)
        /\ (OneSeat => OneSeat') /\ (AllHere => AllHere')
        /\ \A p : Placed(p) => Placed(p)'
    BY <1>2, <2>2, SeatsKept
  <2> QED BY <1>2, <2>1, <2>3, SerialBefore, SeatMove DEF ScheduleId
<1>5. CASE Ends(r, "error") /\ UNCHANGED schedules
  BY <1>2, <1>3, <1>5, SeatEnds, SeatQuiet DEF Replies
<1> QED BY <1>4, <1>5 DEF OpenClass

LEMMA CheckScheduleSeats ==
  ASSUME SeatingInv, NEW r \in Request, CheckSchedule(r)
  PROVE  SeatingInv'
<1> DEFINE doc == [NoClassSchedule EXCEPT !.exists = TRUE, !.seats[Guest] = 1, !.key = "probe",
                                          !.begun = TRUE]
<1>1. /\ Begins(r, "probe", Answer("ok")) /\ UNCHANGED butSchedules
      /\ schedules' = [k \in ScheduleId |->
           IF k[1] = r /\ k[2] \in Probed THEN doc ELSE schedules[k]]
  BY DEF CheckSchedule
<1>2. UNCHANGED <<accounts, corporatePayments, corporateOrders>> /\ SeatDocs
      /\ schedules \in [ScheduleId -> ClassSchedule]
  BY <1>1 DEF butSchedules, SeatingInv, SeatDocs
<1>3. StepOf(r) /\ SeatCall(r)' /\ Unbooked(r)' = {} /\ At(r, "idle")
  BY <1>1, SeatAnswers DEF Replies
<1>4. /\ doc \in ClassSchedule /\ doc.exists /\ doc.here /\ \A e \in Email : doc.seats[e] = 0
  BY RosterAssumption DEF ClassSchedule, NoClassSchedule, Nobody, Status, Person
<1> HIDE DEF doc
<1>5. \A l \in ScheduleId : schedules'[l] = schedules[l] \/ (schedules'[l] = doc /\ ~Exists(l))
  <2>1. Unmade(r)
    BY <1>3 DEF SeatingInv, SeatCall, At
  <2>2. ASSUME NEW l \in ScheduleId, l[1] = r PROVE ~Exists(l)
    <3>1. PICK q \in Request, s \in Session : l = <<q, s>>
      BY DEF ScheduleId
    <3> QED BY <2>1, <2>2, <3>1 DEF Unmade
  <2> QED BY <1>1, <2>2
<1>6. schedules' \in [ScheduleId -> ClassSchedule]
  BY <1>1, <1>2, <1>4
<1>7. \A l \in ScheduleId, e \in Email : schedules'[l].seats[e] = schedules[l].seats[e]
  <2> SUFFICES ASSUME NEW l \in ScheduleId, NEW e \in Email
               PROVE  schedules'[l].seats[e] = schedules[l].seats[e]
    OBVIOUS
  <2>1. ~Exists(l) => schedules[l].seats[e] = 0
    BY <1>2 DEF SeatDocs, Nobody, Person
  <2> QED BY <1>4, <1>5, <2>1
<1>8. SeatDocs'
  <2>1. ASSUME NEW l \in ScheduleId
        PROVE  /\ ~Exists(l)' => schedules'[l].seats = Nobody
               /\ \A e \in Email : schedules'[l].seats[e] > 0 => e \in accounts
    BY <1>2, <1>4, <1>5, <1>7 DEF SeatDocs, Exists
  <2> QED BY <1>2, <1>6, <2>1 DEF SeatDocs
<1>9. \A q \in Request \ {r}, s \in Session : Exists(<<q, s>>)' => Exists(<<q, s>>)
  BY <1>1, <1>2 DEF Exists, ScheduleId
<1>10. \A e \in Email : Placed(e) => Placed(e)'
  BY <1>7 DEF Placed
<1>11. ~overlapped' /\ ~Reseated' => OneSeat'
  BY <1>2, <1>3, <1>7, <1>8, FewerSeats, SerialBefore
<1>12. AllHere => AllHere'
  BY <1>4, <1>5 DEF AllHere
<1> QED BY <1>2, <1>3, <1>8, <1>9, <1>10, <1>11, <1>12, SeatMove

LEMMA ClassTimeSeats ==
  ASSUME SeatingInv, ClassTime
  PROVE  SeatingInv'
<1>1. PICK k \in ScheduleId : schedules' = [schedules EXCEPT ![k].begun = TRUE]
  BY DEF ClassTime
<1>2. UNCHANGED <<accounts, corporatePayments, corporateOrders, req, overlapped>> /\ SeatDocs
      /\ schedules \in [ScheduleId -> ClassSchedule]
  BY DEF ClassTime, butSchedules, SeatingInv, SeatDocs
<1>3. /\ schedules' \in [ScheduleId -> ClassSchedule]
      /\ \A l \in ScheduleId : /\ schedules'[l].exists = schedules[l].exists
                               /\ schedules'[l].here = schedules[l].here
                               /\ schedules'[l].seats = schedules[l].seats
  BY <1>1, <1>2 DEF ClassSchedule
<1>4. /\ SeatDocs' /\ \A l \in ScheduleId : Exists(l)' <=> Exists(l)
      /\ (OneSeat => OneSeat') /\ (AllHere => AllHere')
      /\ \A p : (Placed(p) => Placed(p)') /\ (Unseated(p) => Unseated(p)')
  BY <1>2, <1>3, SeatsKept
<1>5. ASSUME NEW q \in Request PROVE SeatCall(q)' /\ Unbooked(q)' = Unbooked(q)
  <2>1. SeatCall(q)
    BY DEF SeatingInv
  <2>2. Unmade(q) => Unmade(q)'
    BY <1>4 DEF Unmade, ScheduleId
  <2>3. CreateCall(q)' /\ ChangeCall(q)' /\ CompanyCall(q)'
    BY <1>2, <2>1 DEF SeatCall, CreateCall, ChangeCall, CompanyCall, At
  <2>4. CompanyStored(q)'
    BY <1>2, <1>4, <2>1 DEF SeatCall, CompanyStored, At, Waiting, Undisturbed
  <2>5. SeatCall(q)'
    BY <1>2, <2>1, <2>2, <2>3, <2>4 DEF SeatCall, At
  <2> QED BY <1>2, <2>5 DEF Unbooked, At, Waiting
<1> QED BY <1>2, <1>4, <1>5 DEF SeatingInv, CallsOK, Alone, InFlight, Reseated

LEMMA CompanyIs ==
  ASSUME NEW r \in Request, StepOf(r), req'[r].pc \in CompanyPlaces, CompanyCall(r)',
         CompanyStored(r)'
  PROVE  SeatCall(r)'
BY DEF StepOf, SeatCall, At, CreatePlaces, CreateCall, ChangeCall, CompanyPlaces, SeatPlaces

LEMMA NoSeatYet ==
  ASSUME SeatDocs, NEW e \in Email, e \notin accounts
  PROVE  Unseated(e)
<1> SUFFICES ASSUME NEW k \in ScheduleId PROVE schedules[k].seats[e] = 0
  BY DEF Unseated
<1>1. schedules[k].seats \in [Person -> Nat] /\ e \in Person
  BY DEF SeatDocs, ClassSchedule, Person
<1> QED BY <1>1 DEF SeatDocs

\* What a call of a company is known to hold.
LEMMA CompanyHas ==
  ASSUME SeatingInv, NEW r \in Request, req[r].pc \in CompanyPlaces
  PROVE  /\ InFlight(r) /\ CompanyCall(r) /\ CompanyStored(r)
         /\ req[r].op = "corporate" /\ req[r].body \in CorporateBody
         /\ req[r].body.students \subseteq Email /\ req[r].body.session \in Session
         /\ accounts \subseteq Email /\ SeatDocs
<1>1. SeatCall(r) /\ SeatDocs /\ accounts \subseteq Email
  BY DEF SeatingInv, SeatDocs
<1>2. InFlight(r)
  BY DEF InFlight, Replies, CompanyPlaces, SeatPlaces
<1> QED BY <1>1, <1>2 DEF SeatCall, CompanyCall, CorporateBody

LEMMA CreateCorporateSeats ==
  ASSUME SeatingInv, NEW r \in Request, CreateCorporate(r)
  PROVE  SeatingInv'
<1>1. PICK body \in CorporateBody :
        \/ Begins(r, "corporate", Answer("error"))
        \/ /\ body.students \cap accounts = {}
           /\ Begins(r, "corporate", [Fresh EXCEPT !.pc = "corpAccounts", !.body = body,
                                        !.todo = body.students, !.read = body.twice])
  BY DEF CreateCorporate
<1>2. /\ UNCHANGED <<schedules, accounts, corporatePayments, corporateOrders>>
      /\ accounts \subseteq Email
  BY DEF CreateCorporate, rosterDocs, SeatingInv, SeatDocs
<1>3. CASE Begins(r, "corporate", Answer("error"))
  BY <1>2, <1>3, SeatAnswers, SeatQuiet DEF Replies
<1>4. CASE /\ body.students \cap accounts = {}
           /\ Begins(r, "corporate", [Fresh EXCEPT !.pc = "corpAccounts", !.body = body,
                                        !.todo = body.students, !.read = body.twice])
  <2>1. ASSUME NEW call, call = [Fresh EXCEPT !.pc = "corpAccounts", !.body = body,
                                   !.todo = body.students, !.read = body.twice]
        PROVE  call = Call("none", "corpAccounts", None, body, body.students, body.twice, 0)
    BY <2>1 DEF Fresh, Call
  <2>2. /\ StepOf(r) /\ req'[r].op = "corporate" /\ req'[r].pc = "corpAccounts"
        /\ req'[r].body = body /\ req'[r].todo = body.students
    BY <1>4, <2>1, SeatBegins
  <2>3. CompanyCall(r)' /\ CompanyStored(r)' /\ req'[r].pc \in CompanyPlaces
    BY <2>2 DEF CompanyCall, CompanyStored, CompanyPlaces, SeatPlaces, At
  <2>4. SeatCall(r)'
    BY <2>2, <2>3, CompanyIs
  <2>5. \A p \in Unbooked(r)' : p \in body.students
    BY <2>2 DEF Unbooked, At, SeatPlaces
  <2>6. \A p \in Unbooked(r)' : Unseated(p)
    BY <1>4, <2>5, NoSeatYet DEF SeatingInv, CorporateBody
  <2> QED BY <1>2, <2>2, <2>4, <2>6, SeatQuiet
<1> QED BY <1>1, <1>3, <1>4

\* A step of a company's call that gives nobody a seat and forgets nobody.
LEMMA CompanyGoesOn ==
  ASSUME SeatingInv, NEW r \in Request, StepOf(r), req[r].pc \in CompanyPlaces,
         UNCHANGED schedules, accounts \subseteq accounts', accounts' \subseteq Email,
         corporatePayments \subseteq corporatePayments',
         corporateOrders \subseteq corporateOrders',
         SeatCall(r)', Unbooked(r)' \subseteq Unbooked(r)
  PROVE  SeatingInv'
BY SerialBefore, SeatQuiet

LEMMA InsertAccountSeats ==
  ASSUME SeatingInv, NEW r \in Request, InsertAccount(r)
  PROVE  SeatingInv'
<1>1. At(r, "corpAccounts") /\ UNCHANGED butAccounts /\ req[r].pc \in CompanyPlaces
  BY DEF InsertAccount, At, CompanyPlaces
<1>2. UNCHANGED <<schedules, corporatePayments, corporateOrders>>
  BY <1>1 DEF butAccounts
<1>3. /\ InFlight(r) /\ CompanyCall(r) /\ req[r].op = "corporate" /\ req[r].body \in CorporateBody
      /\ req[r].body.students \subseteq Email /\ accounts \subseteq Email
      /\ req[r].todo \subseteq req[r].body.students
      /\ req[r].body.students \ req[r].todo \subseteq accounts
  BY <1>1, CompanyHas DEF CompanyCall, At
<1>4. PICK e \in req[r].todo :
        /\ accounts' = accounts \cup {e}
        /\ \/ Ends(r, "error")
           \/ \E refused : Becomes(r, [req[r] EXCEPT !.todo = req[r].todo \ {e}, !.read = refused])
           \/ /\ req[r].todo \ {e} = {}
              /\ Becomes(r, [req[r] EXCEPT !.pc = "corpBooking", !.todo = {}, !.read = None])
  BY DEF InsertAccount
<1>5. accounts \subseteq accounts' /\ accounts' \subseteq Email
  BY <1>3, <1>4
<1>6. CASE Ends(r, "error")
  BY <1>2, <1>3, <1>5, <1>6, SeatEnds, SeatQuiet DEF Replies
<1>7. ASSUME NEW refused,
             Becomes(r, [req[r] EXCEPT !.todo = req[r].todo \ {e}, !.read = refused])
      PROVE  SeatingInv'
  <2>1. StepOf(r) /\ Goes(req[r], req'[r], req[r].pc, req[r].target, req[r].todo \ {e}, refused)
    <3>1. \E there : there # "idle"
      BY <1>1
    <3> QED BY <1>3, <1>7, <3>1, SeatGoes, Zenon
  <2>2. CompanyCall(r)' /\ CompanyStored(r)' /\ req'[r].pc = "corpAccounts"
    BY <1>1, <1>3, <1>4, <2>1 DEF Goes, CompanyCall, CompanyStored, CompanyPlaces, SeatPlaces, At
  <2>3. SeatCall(r)'
    BY <2>1, <2>2, CompanyIs DEF CompanyPlaces
  <2>4. Unbooked(r)' \subseteq Unbooked(r)
    BY <1>1, <2>1 DEF Goes, Unbooked, At, SeatPlaces
  <2> QED BY <1>1, <1>2, <1>5, <2>1, <2>3, <2>4, CompanyGoesOn
<1>8. CASE /\ req[r].todo \ {e} = {}
           /\ Becomes(r, [req[r] EXCEPT !.pc = "corpBooking", !.todo = {}, !.read = None])
  <2>1. StepOf(r) /\ Goes(req[r], req'[r], "corpBooking", req[r].target, {}, None)
    BY <1>3, <1>8, SeatGoes, Zenon
  <2>2. req[r].body.students \subseteq accounts'
    BY <1>3, <1>4, <1>8
  <2>3. CompanyCall(r)' /\ CompanyStored(r)'
    BY <1>3, <2>1, <2>2 DEF Goes, CompanyCall, CompanyStored, CompanyPlaces, SeatPlaces, At
  <2>4. SeatCall(r)'
    BY <2>1, <2>3, CompanyIs DEF Goes, CompanyPlaces
  <2>5. Unbooked(r)' \subseteq Unbooked(r)
    BY <1>1, <2>1 DEF Goes, Unbooked, At, SeatPlaces
  <2> QED BY <1>1, <1>2, <1>5, <2>1, <2>4, <2>5, CompanyGoesOn
<1> QED BY <1>4, <1>6, <1>7, <1>8

LEMMA CreateBookingListSeats ==
  ASSUME SeatingInv, NEW r \in Request, CreateBookingList(r)
  PROVE  SeatingInv'
<1>1. /\ At(r, "corpBooking") /\ UNCHANGED butBookings /\ req[r].pc \in CompanyPlaces
      /\ \/ Ends(r, "ok")
         \/ /\ AfterBooking(req[r].body) # "done"
            /\ Becomes(r, [req[r] EXCEPT !.pc = AfterBooking(req[r].body)])
  BY DEF CreateBookingList, At, CompanyPlaces
<1>2. UNCHANGED <<schedules, accounts, corporatePayments, corporateOrders>>
  BY <1>1 DEF butBookings
<1>3. /\ InFlight(r) /\ CompanyCall(r) /\ req[r].op = "corporate" /\ req[r].body \in CorporateBody
      /\ accounts \subseteq Email /\ req[r].body.students \subseteq accounts
  BY <1>1, CompanyHas DEF CompanyCall, At
<1>4. CASE Ends(r, "ok")
  BY <1>2, <1>3, <1>4, SeatEnds, SeatQuiet DEF Replies
<1>5. CASE /\ AfterBooking(req[r].body) # "done"
           /\ Becomes(r, [req[r] EXCEPT !.pc = AfterBooking(req[r].body)])
  <2>1. PICK there : there = AfterBooking(req[r].body)
    OBVIOUS
  <2>2. \/ there = "corpPayment" /\ req[r].body.method = "stripe"
        \/ there = "corpOrder" /\ req[r].body.method = "purchase_order"
    BY <1>3, <1>5, <2>1 DEF AfterBooking, CorporateBody, Method
  <2>3. StepOf(r) /\ Goes(req[r], req'[r], there, req[r].target, req[r].todo, req[r].read)
    BY <1>3, <1>5, <2>1, <2>2, SeatGoes, Zenon
  <2>4. CompanyCall(r)' /\ CompanyStored(r)' /\ req'[r].pc \in CompanyPlaces \ SeatPlaces
    BY <1>2, <1>3, <2>2, <2>3 DEF Goes, CompanyCall, CompanyStored, CompanyPlaces, SeatPlaces, At
  <2>5. SeatCall(r)'
    BY <2>3, <2>4, CompanyIs DEF SeatPlaces
  <2>6. Unbooked(r)' \subseteq Unbooked(r)
    BY <1>1, <2>2, <2>3 DEF Goes, Unbooked, At, SeatPlaces
  <2> QED BY <1>1, <1>2, <1>3, <2>3, <2>5, <2>6, CompanyGoesOn
<1> QED BY <1>1, <1>4, <1>5

LEMMA CreatePaymentSeats ==
  ASSUME SeatingInv, NEW r \in Request, CreateCorporatePayment(r)
  PROVE  SeatingInv'
<1>1. /\ At(r, "corpPayment") /\ UNCHANGED butPayments /\ req[r].pc \in CompanyPlaces
      /\ \/ Ends(r, "error") /\ UNCHANGED corporatePayments
         \/ Ends(r, "ok") /\ corporatePayments' = corporatePayments \cup {r}
         \/ /\ corporatePayments' = corporatePayments \cup {r}
            /\ Becomes(r, [req[r] EXCEPT !.pc = "seatFind", !.todo = req[r].body.students])
  BY DEF CreateCorporatePayment, At, CompanyPlaces
<1>2. /\ UNCHANGED <<schedules, accounts, corporateOrders>>
      /\ corporatePayments \subseteq corporatePayments'
  BY <1>1 DEF butPayments
<1>3. /\ InFlight(r) /\ CompanyCall(r) /\ req[r].op = "corporate" /\ req[r].body \in CorporateBody
      /\ accounts \subseteq Email /\ req[r].body.students \subseteq accounts
      /\ req[r].body.method = "stripe"
  BY <1>1, CompanyHas DEF CompanyCall, CompanyStored, At
<1>4. CASE Ends(r, "ok") \/ Ends(r, "error")
  BY <1>2, <1>3, <1>4, SeatEnds, SeatQuiet DEF Replies
<1>5. CASE /\ corporatePayments' = corporatePayments \cup {r}
           /\ Becomes(r, [req[r] EXCEPT !.pc = "seatFind", !.todo = req[r].body.students])
  <2>1. StepOf(r) /\ Goes(req[r], req'[r], "seatFind", req[r].target, req[r].body.students, req[r].read)
    BY <1>3, <1>5, SeatGoes, Zenon
  <2>2. CompanyCall(r)' /\ Waiting(r)' = req[r].body.students
    BY <1>2, <1>3, <2>1 DEF Goes, CompanyCall, CompanyPlaces, SeatPlaces, At, Waiting
  <2>3. CompanyStored(r)'
    BY <1>3, <1>5, <2>1, <2>2 DEF Goes, CompanyStored, At
  <2>4. SeatCall(r)'
    BY <2>1, <2>2, <2>3, CompanyIs DEF Goes, CompanyPlaces, SeatPlaces
  <2>5. Unbooked(r)' \subseteq Unbooked(r)
    BY <1>1, <2>1 DEF Goes, Unbooked, At, SeatPlaces, Waiting
  <2> QED BY <1>1, <1>2, <1>3, <2>1, <2>4, <2>5, CompanyGoesOn
<1> QED BY <1>1, <1>4, <1>5

LEMMA CreateOrderSeats ==
  ASSUME SeatingInv, NEW r \in Request, CreateCorporateOrder(r)
  PROVE  SeatingInv'
<1>1. /\ At(r, "corpOrder") /\ UNCHANGED butOrders /\ req[r].pc \in CompanyPlaces
      /\ \/ Ends(r, "error") /\ UNCHANGED corporateOrders
         \/ /\ corporateOrders' = corporateOrders \cup {req[r].body.number}
            /\ Becomes(r, [req[r] EXCEPT !.pc = "corpPending"])
  BY DEF CreateCorporateOrder, At, CompanyPlaces
<1>2. UNCHANGED <<schedules, accounts, corporatePayments>> /\ corporateOrders \subseteq corporateOrders'
  BY <1>1 DEF butOrders
<1>3. /\ InFlight(r) /\ CompanyCall(r) /\ req[r].op = "corporate" /\ req[r].body \in CorporateBody
      /\ accounts \subseteq Email /\ req[r].body.students \subseteq accounts
      /\ req[r].body.method = "purchase_order"
  BY <1>1, CompanyHas DEF CompanyCall, CompanyStored, At
<1>4. CASE Ends(r, "error")
  BY <1>2, <1>3, <1>4, SeatEnds, SeatQuiet DEF Replies
<1>5. CASE /\ corporateOrders' = corporateOrders \cup {req[r].body.number}
           /\ Becomes(r, [req[r] EXCEPT !.pc = "corpPending"])
  <2>1. StepOf(r) /\ Goes(req[r], req'[r], "corpPending", req[r].target, req[r].todo, req[r].read)
    BY <1>3, <1>5, SeatGoes, Zenon
  <2>2. CompanyCall(r)' /\ CompanyStored(r)'
    BY <1>2, <1>3, <1>5, <2>1 DEF Goes, CompanyCall, CompanyStored, CompanyPlaces, SeatPlaces, At
  <2>3. SeatCall(r)'
    BY <2>1, <2>2, CompanyIs DEF Goes, CompanyPlaces
  <2>4. Unbooked(r)' \subseteq Unbooked(r)
    BY <2>1 DEF Goes, Unbooked, At, SeatPlaces
  <2> QED BY <1>1, <1>2, <1>3, <2>1, <2>3, <2>4, CompanyGoesOn
<1> QED BY <1>1, <1>4, <1>5

\* Calls that are answered at once, or in the end, and change no seats.
LEMMA SavePendingSeats ==
  ASSUME SeatingInv, NEW r \in Request, SavePending(r)
  PROVE  SeatingInv'
<1>1. /\ req[r].pc \in CompanyPlaces /\ (Ends(r, "ok") \/ Ends(r, "error"))
      /\ UNCHANGED <<schedules, accounts, corporatePayments, corporateOrders>>
  BY DEF SavePending, At, CompanyPlaces, butBookings
<1>2. InFlight(r) /\ accounts \subseteq Email
  BY <1>1, CompanyHas
<1> QED BY <1>1, <1>2, SeatEnds, SeatQuiet DEF Replies

LEMMA BookingListSeats ==
  ASSUME SeatingInv, NEW r \in Request, UpdateBookingList(r) \/ RemoveBookingList(r)
  PROVE  SeatingInv'
<1>1. UNCHANGED <<schedules, accounts, corporatePayments, corporateOrders>>
      /\ accounts \subseteq Email
  BY DEF UpdateBookingList, RemoveBookingList, butBookings, SeatingInv, SeatDocs
<1>2. Begins(r, "relist", Answer("error")) \/ Begins(r, "unlist", Answer("ok"))
  BY DEF UpdateBookingList, RemoveBookingList
<1> QED BY <1>1, <1>2, SeatAnswers, SeatQuiet DEF Replies

LEMMA Calmer ==
  ASSUME SeatingInv, NEW r \in Request, StepOf(r)
  PROVE  Undisturbed' => Undisturbed
BY DEF Undisturbed, StepOf, OnlyCall, SeatingInv, SeatCall

LEMMA FindSeatSeats ==
  ASSUME SeatingInv, NEW r \in Request, FindSeat(r)
  PROVE  SeatingInv'
<1>1. /\ At(r, "seatFind") /\ req[r].pc \in CompanyPlaces /\ req[r].pc \in SeatPlaces
      /\ UNCHANGED <<schedules, accounts, corporatePayments, corporateOrders>>
  BY DEF FindSeat, At, CompanyPlaces, SeatPlaces, rosterDocs
<1>2. /\ InFlight(r) /\ CompanyCall(r) /\ CompanyStored(r)
      /\ req[r].op = "corporate" /\ req[r].body \in CorporateBody
      /\ accounts \subseteq Email /\ req[r].body.students \subseteq accounts
      /\ req[r].todo \subseteq req[r].body.students
      /\ req[r].body.method = "stripe" /\ r \in corporatePayments
  BY <1>1, CompanyHas DEF CompanyCall, CompanyStored, At
<1>3. ASSUME NEW e \in req[r].todo, NEW there \in {"seatNew", "seatPush"}, NEW target, StepOf(r),
             Goes(req[r], req'[r], there, target, req[r].todo, e),
             there = "seatPush" => target \in ScheduleId
      PROVE  SeatingInv'
  <2>1. CompanyCall(r)' /\ Waiting(r)' = req[r].todo
    BY <1>1, <1>2, <1>3 DEF Goes, CompanyCall, CompanyPlaces, SeatPlaces, At, Waiting
  <2>2. Waiting(r) = req[r].todo
    BY <1>1 DEF Waiting, At
  <2>3. CompanyStored(r)'
    BY <1>1, <1>2, <1>3, <2>1, <2>2, Calmer DEF Goes, CompanyStored, At, Placed
  <2>5. SeatCall(r)'
    BY <1>3, <2>1, <2>3, CompanyIs DEF Goes, CompanyPlaces, SeatPlaces
  <2>6. Unbooked(r)' \subseteq Unbooked(r)
    BY <1>1, <1>3, <2>1, <2>2 DEF Goes, Unbooked, At, SeatPlaces
  <2> QED BY <1>1, <1>2, <1>3, <2>5, <2>6, CompanyGoesOn
<1>4. PICK e \in req[r].todo :
        \/ Becomes(r, [req[r] EXCEPT !.pc = "seatNew", !.read = e])
        \/ Ends(r, "error")
        \/ \E k \in ScheduleId :
             Becomes(r, [req[r] EXCEPT !.pc = "seatPush", !.read = e, !.target = k])
  BY DEF FindSeat
<1>5. CASE Becomes(r, [req[r] EXCEPT !.pc = "seatNew", !.read = e])
  <2>1. StepOf(r) /\ Goes(req[r], req'[r], "seatNew", req[r].target, req[r].todo, e)
    BY <1>2, <1>5, SeatGoes, Zenon
  <2> QED BY <1>3, <1>5, <2>1
<1>6. CASE Ends(r, "error")
  BY <1>1, <1>2, <1>6, SeatEnds, SeatQuiet DEF Replies
<1>7. ASSUME NEW k \in ScheduleId,
             Becomes(r, [req[r] EXCEPT !.pc = "seatPush", !.read = e, !.target = k])
      PROVE  SeatingInv'
  <2>1. StepOf(r) /\ Goes(req[r], req'[r], "seatPush", k, req[r].todo, e)
    BY <1>2, <1>7, SeatGoes, Zenon
  <2> QED BY <1>3, <2>1
<1> QED BY <1>4, <1>5, <1>6, <1>7

\* A student of a company has got a seat.
LEMMA SeatGiven ==
  ASSUME SeatingInv, NEW r \in Request, NEW e, e \in req[r].todo, req[r].read = e,
         req[r].pc \in {"seatPush", "seatNew"}, StepOf(r), NEW target,
         Goes(req[r], req'[r], "seatMail", target, req[r].todo, e),
         UNCHANGED <<accounts, corporatePayments, corporateOrders>>,
         SeatDocs', Placed(e)', \A p \in Person : Placed(p) => Placed(p)',
         OneSeat /\ Unseated(e) => OneSeat', AllHere => AllHere',
         \A p \in Person \ {e} : Unseated(p) => Unseated(p)',
         \A q \in Request \ {r}, s \in Session : Exists(<<q, s>>)' => Exists(<<q, s>>)
  PROVE  SeatingInv'
<1>1. req[r].pc \in CompanyPlaces /\ req[r].pc \in SeatPlaces
  BY DEF CompanyPlaces, SeatPlaces
<1>2. /\ CompanyCall(r) /\ CompanyStored(r)
      /\ req[r].op = "corporate" /\ req[r].body \in CorporateBody
      /\ req[r].body.students \subseteq Email /\ req[r].body.students \subseteq accounts
      /\ req[r].todo \subseteq req[r].body.students
      /\ req[r].body.method = "stripe" /\ r \in corporatePayments
  BY <1>1, CompanyHas DEF CompanyCall, CompanyStored, At
<1>3. CompanyCall(r)' /\ Waiting(r)' = req[r].todo \ {e} /\ Waiting(r) = req[r].todo
  BY <1>2 DEF Goes, CompanyCall, CompanyPlaces, SeatPlaces, At, Waiting
<1>4. CompanyStored(r)'
  <2>1. ASSUME Undisturbed', NEW p \in req[r].body.students \ (req[r].todo \ {e}) PROVE Placed(p)'
    <3>1. Undisturbed
      BY <2>1, Calmer
    <3>2. CASE p = e
      BY <3>2
    <3>3. CASE p # e
      BY <1>1, <1>2, <1>3, <2>1, <3>1, <3>3 DEF CompanyStored, Person
    <3> QED BY <3>2, <3>3
  <2> QED BY <1>2, <1>3, <2>1 DEF Goes, CompanyStored, At
<1>5. SeatCall(r)'
  BY <1>3, <1>4, CompanyIs DEF Goes, CompanyPlaces, SeatPlaces
<1>6. \A p \in Unbooked(r)' : p \in Unbooked(r) /\ p # e
  BY <1>1, <1>3 DEF Goes, Unbooked, At, SeatPlaces
<1>7. e \in Unbooked(r)
  BY <1>1, <1>2, <1>3 DEF Unbooked, Person
<1>8. ASSUME ~overlapped', ~Reseated' PROVE OneSeat' /\ \A p \in Unbooked(r)' : Unseated(p)'
  <2>1. OneSeat /\ \A p \in Unbooked(r) : Unseated(p)
    BY <1>8, SerialBefore
  <2>2. \A p \in Unbooked(r) : p \in Person
    BY DEF Unbooked
  <2> QED BY <1>6, <1>7, <2>1, <2>2
<1> QED BY <1>5, <1>8, SeatMove DEF Person

LEMMA PushSeatSeats ==
  ASSUME SeatingInv, NEW r \in Request, PushSeat(r)
  PROVE  SeatingInv'
<1>1. PICK k, e : k = req[r].target /\ e = req[r].read
  OBVIOUS
<1>2. /\ At(r, "seatPush") /\ req[r].pc \in CompanyPlaces /\ req[r].pc \in SeatPlaces \ {"seatFind"}
      /\ UNCHANGED <<accounts, corporatePayments, corporateOrders>>
  BY DEF PushSeat, At, CompanyPlaces, SeatPlaces, butSchedules
<1>3. /\ InFlight(r) /\ e \in req[r].todo /\ k \in ScheduleId /\ e \in Email /\ e \in Person
      /\ e \in accounts /\ SeatDocs /\ accounts \subseteq Email
  BY <1>1, <1>2, CompanyHas DEF CompanyCall, At, Person
<1>4. CASE /\ Exists(k) /\ schedules' = Pushed(k, e)
           /\ Becomes(r, [req[r] EXCEPT !.pc = "seatMail", !.target = None])
  <2>1. StepOf(r) /\ Goes(req[r], req'[r], "seatMail", None, req[r].todo, e)
    BY <1>1, <1>3, <1>4, SeatGoes, Zenon
  <2>2. /\ SeatDocs' /\ Placed(e)'
        /\ \A l \in ScheduleId : Exists(l)' <=> Exists(l)
        /\ \A p \in Person : Placed(p) => Placed(p)'
        /\ OneSeat /\ Unseated(e) => OneSeat'
        /\ AllHere => AllHere'
        /\ \A p \in Person \ {e} : Unseated(p) => Unseated(p)'
    BY <1>2, <1>3, <1>4, PushedSeat
  <2>3. \A q \in Request \ {r}, s \in Session : Exists(<<q, s>>)' => Exists(<<q, s>>)
    BY <2>2 DEF ScheduleId
  <2> QED BY <1>1, <1>2, <1>3, <2>1, <2>2, <2>3, SeatGiven DEF At
<1>5. CASE Ends(r, "error") /\ UNCHANGED schedules
  BY <1>2, <1>3, <1>5, SeatEnds, SeatQuiet DEF Replies
<1> QED BY <1>1, <1>4, <1>5 DEF PushSeat

LEMMA NewSeatSeats ==
  ASSUME SeatingInv, NEW r \in Request, NewSeat(r)
  PROVE  SeatingInv'
<1>1. PICK m, k, e, doc :
        /\ m \in Session /\ k = <<r, m>> /\ e = req[r].read /\ ~Exists(k)
        /\ doc = [NoClassSchedule EXCEPT !.exists = TRUE, !.seats[e] = 1]
        /\ schedules' = [schedules EXCEPT ![k] = doc]
  BY DEF NewSeat
<1>2. /\ At(r, "seatNew") /\ req[r].pc \in CompanyPlaces /\ req[r].pc \in SeatPlaces \ {"seatFind"}
      /\ UNCHANGED <<accounts, corporatePayments, corporateOrders>>
  BY DEF NewSeat, At, CompanyPlaces, SeatPlaces, butSchedules
<1>3. /\ InFlight(r) /\ e \in req[r].todo /\ e \in Email /\ e \in Person
      /\ e \in accounts /\ SeatDocs
  BY <1>1, <1>2, CompanyHas DEF CompanyCall, At, Person
<1>4. k \in ScheduleId /\ ~Exists(k)
  BY <1>1 DEF ScheduleId
<1>5. doc \in ClassSchedule /\ doc.exists /\ doc.here /\ doc.seats = [Nobody EXCEPT ![e] = 1]
  BY <1>1, <1>3, Zenon DEF ClassSchedule, NoClassSchedule, Nobody, Status
<1>6. StepOf(r) /\ Goes(req[r], req'[r], "seatMail", req[r].target, req[r].todo, e)
  <2>1. Becomes(r, [req[r] EXCEPT !.pc = "seatMail"])
    BY DEF NewSeat
  <2> QED BY <1>1, <1>3, <2>1, SeatGoes, Zenon
<1>7. /\ SeatDocs' /\ Placed(e)'
      /\ \A l \in ScheduleId \ {k} : Exists(l)' <=> Exists(l)
      /\ \A p \in Person : Placed(p) => Placed(p)'
      /\ OneSeat /\ Unseated(e) => OneSeat'
      /\ AllHere => AllHere'
      /\ \A p \in Person \ {e} : Unseated(p) => Unseated(p)'
  BY <1>1, <1>2, <1>3, <1>4, <1>5, NewSeated
<1>8. \A q \in Request \ {r}, s \in Session : Exists(<<q, s>>)' => Exists(<<q, s>>)
  BY <1>1, <1>7 DEF ScheduleId
<1> QED BY <1>1, <1>2, <1>3, <1>6, <1>7, <1>8, SeatGiven DEF At

LEMMA MailSeatSeats ==
  ASSUME SeatingInv, NEW r \in Request, MailSeat(r)
  PROVE  SeatingInv'
<1> DEFINE rest == req[r].todo \ {req[r].read}
<1>1. /\ At(r, "seatMail") /\ req[r].pc \in CompanyPlaces /\ req[r].pc \in SeatPlaces
      /\ UNCHANGED <<schedules, accounts, corporatePayments, corporateOrders>>
      /\ \/ Ends(r, "error") \/ Ends(r, "ok")
         \/ Becomes(r, [req[r] EXCEPT !.pc = "seatFind", !.todo = rest, !.read = None])
  BY DEF MailSeat, At, CompanyPlaces, SeatPlaces, rosterDocs
<1>2. /\ InFlight(r) /\ CompanyCall(r) /\ CompanyStored(r)
      /\ req[r].op = "corporate" /\ req[r].body \in CorporateBody
      /\ accounts \subseteq Email /\ req[r].body.students \subseteq accounts
      /\ req[r].todo \subseteq req[r].body.students
      /\ req[r].body.method = "stripe" /\ r \in corporatePayments
  BY <1>1, CompanyHas DEF CompanyCall, CompanyStored, At
<1>3. CASE Ends(r, "error") \/ Ends(r, "ok")
  BY <1>1, <1>2, <1>3, SeatEnds, SeatQuiet DEF Replies
<1>4. CASE Becomes(r, [req[r] EXCEPT !.pc = "seatFind", !.todo = rest, !.read = None])
  <2>1. StepOf(r) /\ Goes(req[r], req'[r], "seatFind", req[r].target, rest, None)
    BY <1>2, <1>4, SeatGoes, Zenon
  <2>2. CompanyCall(r)' /\ Waiting(r)' = rest /\ Waiting(r) = rest
    BY <1>1, <1>2, <2>1 DEF Goes, CompanyCall, CompanyPlaces, SeatPlaces, At, Waiting
  <2>3. CompanyStored(r)'
    BY <1>1, <1>2, <2>1, <2>2, Calmer DEF Goes, CompanyStored, At, Placed
  <2>4. SeatCall(r)'
    BY <2>1, <2>2, <2>3, CompanyIs DEF Goes, CompanyPlaces, SeatPlaces
  <2>5. Unbooked(r)' \subseteq Unbooked(r)
    BY <1>1, <2>1, <2>2 DEF Goes, Unbooked, At, SeatPlaces
  <2> QED BY <1>1, <1>2, <2>1, <2>4, <2>5, CompanyGoesOn
<1> QED BY <1>1, <1>3, <1>4

LEMMA SeatsCrash ==
  ASSUME SeatingInv, CrashCalls, UNCHANGED rosterDocs
  PROVE  SeatingInv'
<1>1. /\ CallsOK' /\ Alone' /\ overlapped' = overlapped
      /\ UNCHANGED <<schedules, accounts, corporatePayments, corporateOrders>>
  BY CrashMoves, CrashAlone DEF SeatingInv, rosterDocs
<1>2. ASSUME NEW r \in Request
      PROVE  /\ SeatCall(r)' /\ req'[r].op = req[r].op
             /\ \A p \in Unbooked(r)' : p \in Unbooked(r)
  <2>1. CASE ~InFlight(r) /\ req'[r] = req[r]
    <3>1. req[r].pc \in {"ok", "error", "crashed", "idle"} /\ SeatCall(r)
      BY <2>1 DEF InFlight, Replies, SeatingInv
    <3>2. CreateCall(r)' /\ ChangeCall(r)' /\ CompanyCall(r)' /\ CompanyStored(r)'
      BY <2>1, <3>1 DEF CreateCall, CreatePlaces, ChangeCall, CompanyCall, CompanyPlaces, SeatPlaces,
           CompanyStored, At
    <3>3. SeatCall(r)'
      BY <1>1, <2>1, <3>1, <3>2 DEF SeatCall, At, Unmade, Exists
    <3> QED BY <2>1, <3>1, <3>3 DEF Unbooked, At, SeatPlaces
  <2>2. CASE req'[r] = [Answer("crashed") EXCEPT !.op = req[r].op]
    <3>1. req'[r] = Call(req[r].op, "crashed", None, None, {}, None, 0)
      BY <2>2, AnswerIs DEF Call
    <3>2. IsCall(req'[r]) /\ req'[r].pc = "crashed" /\ req'[r].op = req[r].op
      BY <3>1, PartsOf
    <3> QED BY <3>2 DEF SeatCall, CreateCall, CreatePlaces, ChangeCall, CompanyCall, CompanyPlaces,
              SeatPlaces, CompanyStored, At, Unbooked
  <2> QED BY <2>1, <2>2 DEF CrashCalls
<1>3. SeatDocs' /\ (AllHere => AllHere') /\ (OneSeat => OneSeat') /\ \A p : Unseated(p) => Unseated(p)'
  BY <1>1 DEF SeatingInv, SeatDocs, Exists, OneSeat, Unseated, AllHere
<1>4. Reseated' <=> Reseated
  BY <1>2 DEF Reseated
<1> QED BY <1>1, <1>2, <1>3, <1>4 DEF SeatingInv

LEMMA SeatingSteps ==
  SeatingInv /\ [ClassroomNext \/ (CrashCalls /\ UNCHANGED rosterDocs)]_rosterVars => SeatingInv'
<1> SUFFICES ASSUME SeatingInv, [ClassroomNext \/ (CrashCalls /\ UNCHANGED rosterDocs)]_rosterVars
             PROVE  SeatingInv'
  OBVIOUS
<1>1. CASE UNCHANGED rosterVars
  <2>1. UNCHANGED <<schedules, accounts, corporatePayments, corporateOrders, req, overlapped>>
    BY <1>1 DEF rosterVars, rosterDocs
  <2>2. ASSUME NEW r \in Request
        PROVE  SeatCall(r)' = SeatCall(r) /\ Unbooked(r)' = Unbooked(r)
    BY <2>1 DEF SeatCall, CreateCall, ChangeCall, CompanyCall, CompanyStored, Unbooked, Waiting, At,
         Unmade, Exists, Undisturbed, Placed
  <2>3. /\ SeatDocs' = SeatDocs /\ OneSeat' = OneSeat /\ AllHere' = AllHere
        /\ \A p : Unseated(p)' = Unseated(p)
    BY <2>1 DEF SeatDocs, Exists, OneSeat, Unseated, AllHere
  <2> QED BY <2>1, <2>2, <2>3 DEF SeatingInv, CallsOK, Alone, InFlight, Reseated
<1>2. CASE ClassScheduleNext
  BY <1>2, CreateScheduleSeats, FindCourseScheduleSeats, PushStudentSeats, NewClassScheduleSeats,
     NoticeSeats, UpdateScheduleSeats, WriteScheduleSeats, UserStatusSeats, RemoveScheduleSeats,
     JoinClassSeats, OpenClassSeats, CheckScheduleSeats, ClassTimeSeats DEF ClassScheduleNext
<1>3. CASE CorporateNext
  BY <1>3, CreateCorporateSeats, InsertAccountSeats, CreateBookingListSeats, CreatePaymentSeats,
     CreateOrderSeats, SavePendingSeats, BookingListSeats, FindSeatSeats, PushSeatSeats, NewSeatSeats,
     MailSeatSeats DEF CorporateNext
<1> QED BY <1>1, <1>2, <1>3, SeatsCrash DEF ClassroomNext

\* The inductive invariant of the rosters and of the calls that seat students.
THEOREM SeatingAlways == ClassroomSpec => []SeatingInv
BY SeatingInitially, SeatingSteps, PTL DEF ClassroomSpec

\* class-schedule.service.ts and the schedule helper: as long as no two calls overlap,
\* a student has one seat in the course, though no index backs the checks.  PUTs that
\* seat a student unchecked or name one twice, or move a schedule, are left out: they
\* are calls of their own name, and a PUT of this course with a list of students that
\* differ is not one of them.
THEOREM SeatedOnceHolds == ClassroomSpec => []SerialSeatedOnce
<1>1. SeatingInv => SerialSeatedOnce
  BY DEF SeatingInv, SerialSeatedOnce, Reseated, OneSeat, Seated, InCourse
<1> QED BY <1>1, SeatingAlways, PTL

\* What a company that is told ok relies on.
Served(r) ==
  LET body == req[r].body IN
  /\ body.paid # "no" /\ body.method = "stripe" =>
       /\ r \in corporatePayments'
       /\ body.session \in Blocked => \A e \in body.students : Placed(e)'
  /\ body.paid # "no" /\ body.method = "purchase_order" =>
       body.number \in corporateOrders' /\ bookingList'[r].status # "confirmed"

\* No step of another call answers a company, and none that starts a call.
LEMMA OthersDoNotAnswer ==
  ASSUME SeatingInv, NEW r \in Request, Answered(r, "corporate", "ok"), NEW q \in Request,
         StartsAside(q) \/ GoesAside(q)
  PROVE  q = r /\ GoesAside(r)
<1>1. CallsOK
  BY DEF SeatingInv
<1>2. InFlight(r) /\ req'[r].pc = "ok" /\ req'[r] # req[r]
  BY DEF Answered, InFlight, Replies
<1>3. CASE StartsAside(q)
  <2>1. At(q, "idle") /\ OnlyCall(q)
    BY <1>1, <1>3, BeginsMoves DEF StartsAside
  <2> QED BY <1>2, <2>1 DEF OnlyCall, At, InFlight, Replies
<1>4. CASE GoesAside(q)
  <2>1. OnlyCall(q)
    BY <1>1, <1>4, BecomesMoves DEF GoesAside
  <2> QED BY <1>2, <1>4, <2>1 DEF OnlyCall
<1> QED BY <1>3, <1>4

\* The class schedules answer no company.
LEMMA SchedulesDoNotAnswer ==
  ASSUME SeatingInv, NEW r \in Request, Answered(r, "corporate", "ok"), ClassScheduleNext
  PROVE  FALSE
<1>1. ASSUME NEW q \in Request,
             \/ CreateSchedule(q) \/ UpdateSchedule(q) \/ UpdateUserStatus(q)
             \/ RemoveClassSchedule(q) \/ JoinClass(q) \/ CheckSchedule(q)
      PROVE  FALSE
  <2>1. StartsAside(q) /\ q = r
    BY <1>1, ScheduleStarts, OthersDoNotAnswer
  <2>2. At(r, "idle")
    BY <2>1, BeginsMoves DEF StartsAside, SeatingInv
  <2> QED BY <2>2 DEF Answered, InFlight, At
<1>2. ASSUME NEW q \in Request,
             \/ FindCourseSchedule(q) \/ PushStudent(q) \/ NewClassSchedule(q)
             \/ FindNotice(q) \/ Notify(q) \/ WriteSchedule(q) \/ OpenClass(q)
      PROVE  FALSE
  <2>1. q = r
    BY <1>2, ScheduleGoes, OthersDoNotAnswer DEF SeatingInv, SeatCall
  <2>2. req[r].pc \in CreatePlaces \cup {"updateWrite", "joinSave"}
    BY <1>2, <2>1 DEF FindCourseSchedule, PushStudent, NewClassSchedule, FindNotice, Notify,
         WriteSchedule, OpenClass, At, CreatePlaces
  <2> QED BY <2>2 DEF SeatingInv, SeatCall, CreateCall, ChangeCall, ChangeOp, At, Answered
<1>3. CASE ClassTime
  BY <1>3 DEF ClassTime, Answered, InFlight, Replies
<1> QED BY <1>1, <1>2, <1>3 DEF ClassScheduleNext

LEMMA CompanyIsServed ==
  ASSUME SeatingInv, RoomInv, NEW r \in Request, req'[r].pc = "ok", Undisturbed',
         \/ CreateBookingList(r) \/ CreateCorporatePayment(r) \/ CreateCorporateOrder(r)
         \/ SavePending(r) \/ FindSeat(r) \/ PushSeat(r) \/ NewSeat(r) \/ MailSeat(r)
  PROVE  Served(r)
<1>1. req[r].pc \in CompanyPlaces
  BY DEF CreateBookingList, CreateCorporatePayment, CreateCorporateOrder, SavePending, FindSeat,
         PushSeat, NewSeat, MailSeat, At, CompanyPlaces, SeatPlaces
<1>2. /\ InFlight(r) /\ CompanyCall(r) /\ CompanyStored(r) /\ req[r].body \in CorporateBody
      /\ req[r].body.students \subseteq Email
  BY <1>1, CompanyHas
<1>3. ASSUME NEW there, there \notin {"idle", "ok"}, NEW target, NEW todo, NEW read
      PROVE  /\ ~Becomes(r, [req[r] EXCEPT !.pc = there])
             /\ ~Becomes(r, [req[r] EXCEPT !.pc = there, !.target = target])
             /\ ~Becomes(r, [req[r] EXCEPT !.pc = there, !.todo = todo])
             /\ ~Becomes(r, [req[r] EXCEPT !.pc = there, !.read = read])
             /\ ~Becomes(r, [req[r] EXCEPT !.pc = there, !.read = read, !.target = target])
             /\ ~Becomes(r, [req[r] EXCEPT !.pc = there, !.todo = todo, !.read = read])
  BY <1>2, <1>3, SeatGoes DEF Goes
<1>4. ~Ends(r, "error")
  BY <1>2, SeatEnds DEF Replies
<1>5. CASE CreateBookingList(r)
  <2>1. ASSUME AfterBooking(req[r].body) # "done" PROVE FALSE
    <3>1. AfterBooking(req[r].body) \notin {"idle", "ok"}
      BY DEF AfterBooking
    <3> QED BY <1>3, <1>5, <2>1, <3>1, Zenon DEF CreateBookingList
  <2>2. req[r].body.paid = "no"
    BY <2>1 DEF AfterBooking
  <2> QED BY <2>2 DEF Served
<1>6. CASE CreateCorporatePayment(r)
  <2>1. /\ req[r].body.method = "stripe" /\ r \in corporatePayments'
        /\ req[r].body.session \notin Blocked
    BY <1>2, <1>3, <1>4, <1>6 DEF CreateCorporatePayment, CompanyStored
  <2> QED BY <2>1 DEF Served
<1>7. CASE CreateCorporateOrder(r)
  BY <1>3, <1>4, <1>7, Zenon DEF CreateCorporateOrder
<1>8. CASE SavePending(r)
  <2>1. /\ req[r].body.method = "purchase_order" /\ req[r].body.number \in corporateOrders
        /\ UNCHANGED corporateOrders /\ bookingList' = [bookingList EXCEPT ![r].status = "pending"]
    BY <1>2, <1>4, <1>8 DEF SavePending, CompanyStored, butBookings
  <2>2. bookingList'[r].status = "pending"
    BY <2>1 DEF RoomInv, BookingList
  <2> QED BY <2>1, <2>2 DEF Served
<1>9. CASE FindSeat(r)
  <2>1. \/ \E e : Becomes(r, [req[r] EXCEPT !.pc = "seatNew", !.read = e])
        \/ \E e, k : Becomes(r, [req[r] EXCEPT !.pc = "seatPush", !.read = e, !.target = k])
    BY <1>4, <1>9 DEF FindSeat
  <2> QED BY <1>3, <2>1, Zenon
<1>10. CASE PushSeat(r) \/ NewSeat(r)
  <2>1. \/ Becomes(r, [req[r] EXCEPT !.pc = "seatMail", !.target = None])
        \/ Becomes(r, [req[r] EXCEPT !.pc = "seatMail"])
    BY <1>4, <1>10 DEF PushSeat, NewSeat
  <2> QED BY <1>3, <2>1, Zenon
<1>11. CASE MailSeat(r)
  <2>1. /\ At(r, "seatMail") /\ req[r].todo \ {req[r].read} = {} /\ Ends(r, "ok")
        /\ UNCHANGED <<schedules, corporatePayments>>
    BY <1>3, <1>4, <1>11, Zenon DEF MailSeat, rosterDocs
  <2>2. Undisturbed
    BY <1>2, <2>1, SeatEnds, Calmer DEF Replies
  <2>3. Waiting(r) = {}
    BY <2>1 DEF Waiting
  <2>4. req[r].body.method = "stripe" /\ r \in corporatePayments
        /\ \A e \in req[r].body.students : Placed(e)
    BY <1>2, <2>1, <2>2, <2>3 DEF CompanyStored, SeatPlaces, At
  <2> QED BY <2>1, <2>4 DEF Served, Placed
<1> QED BY <1>5, <1>6, <1>7, <1>8, <1>9, <1>10, <1>11

LEMMA CompaniesAreServed ==
  ASSUME SeatingInv, RoomInv, NEW r \in Request, Answered(r, "corporate", "ok"), Undisturbed',
         [ClassroomNext \/ (CrashCalls /\ UNCHANGED rosterDocs)]_rosterVars
  PROVE  Served(r) /\ req[r].pc \in CompanyPlaces
<1>1. InFlight(r) /\ req'[r].pc = "ok" /\ req'[r] # req[r] /\ CallsOK
  BY DEF Answered, InFlight, Replies, SeatingInv
<1>2. CASE UNCHANGED rosterVars
  BY <1>1, <1>2 DEF rosterVars
<1>3. CASE ClassScheduleNext
  BY <1>3, SchedulesDoNotAnswer
<1>4. CASE CrashCalls
  <2>1. req'[r] = req[r] \/ req'[r].pc = "crashed"
    BY <1>1, <1>4, CrashMoves
  <2> QED BY <1>1, <2>1
<1>5. CASE CorporateNext
  <2>1. PICK q \in Request :
          \/ CreateCorporate(q) \/ UpdateBookingList(q) \/ RemoveBookingList(q) \/ InsertAccount(q)
          \/ CreateBookingList(q)
          \/ CreateCorporatePayment(q) \/ CreateCorporateOrder(q) \/ SavePending(q)
          \/ FindSeat(q) \/ PushSeat(q) \/ NewSeat(q) \/ MailSeat(q)
    BY <1>5 DEF CorporateNext
  <2>2. q = r
    <3>1. (\E op, call : Begins(q, op, call)) \/ (\E call : Becomes(q, call))
      BY <2>1 DEF CreateCorporate, UpdateBookingList, RemoveBookingList, InsertAccount,
           CreateBookingList, CreateCorporatePayment, CreateCorporateOrder, SavePending,
           FindSeat, PushSeat, NewSeat, MailSeat, Ends
    <3>2. OnlyCall(q)
      BY <1>1, <3>1, BeginsMoves, BecomesMoves
    <3> QED BY <1>1, <3>2 DEF OnlyCall
  <2>3. ~CreateCorporate(r) /\ ~UpdateBookingList(r) /\ ~RemoveBookingList(r)
    <3>1. \A op, call : ~Begins(r, op, call)
      BY <1>1 DEF Begins, MayBegin, At, InFlight
    <3> QED BY <3>1 DEF CreateCorporate, UpdateBookingList, RemoveBookingList
  <2>4. ~InsertAccount(r)
    <3> SUFFICES ASSUME InsertAccount(r) PROVE FALSE
      OBVIOUS
    <3>1. At(r, "corpAccounts")
      BY DEF InsertAccount
    <3>2. PICK e : \/ Ends(r, "error")
                   \/ \E refused :
                        Becomes(r, [req[r] EXCEPT !.todo = req[r].todo \ {e}, !.read = refused])
                   \/ Becomes(r, [req[r] EXCEPT !.pc = "corpBooking", !.todo = {}, !.read = None])
      BY DEF InsertAccount
    <3>3. ~Ends(r, "error")
      BY <1>1, SeatEnds DEF Replies
    <3>4. ~Becomes(r, [req[r] EXCEPT !.pc = "corpBooking", !.todo = {}, !.read = None])
      <4> SUFFICES ASSUME Becomes(r, [req[r] EXCEPT !.pc = "corpBooking", !.todo = {}, !.read = None])
                   PROVE  FALSE
        OBVIOUS
      <4>1. PICK there : there = "corpBooking"
        OBVIOUS
      <4>2. there # "idle"
        BY <4>1
      <4>3. Becomes(r, [req[r] EXCEPT !.pc = there, !.todo = {}, !.read = None])
        BY <4>1
      <4>4. Goes(req[r], req'[r], there, req[r].target, {}, None)
        BY <1>1, <4>2, <4>3, SeatGoes, Zenon
      <4> QED BY <1>1, <4>1, <4>4 DEF Goes
    <3>5. PICK refused : Becomes(r, [req[r] EXCEPT !.todo = req[r].todo \ {e}, !.read = refused])
      BY <3>2, <3>3, <3>4
    <3>6. \E there : there # "idle"
      BY <3>1
    <3>7. req'[r].pc = req[r].pc
      BY <1>1, <3>5, <3>6, SeatGoes, Zenon DEF Goes
    <3> QED BY <1>1, <3>1, <3>7 DEF At
  <2>5. \/ CreateBookingList(r) \/ CreateCorporatePayment(r) \/ CreateCorporateOrder(r)
        \/ SavePending(r) \/ FindSeat(r) \/ PushSeat(r) \/ NewSeat(r) \/ MailSeat(r)
    BY <2>1, <2>2, <2>3, <2>4
  <2>6. req[r].pc \in CompanyPlaces
    BY <2>5 DEF CreateBookingList, CreateCorporatePayment, CreateCorporateOrder, SavePending, FindSeat,
         PushSeat, NewSeat, MailSeat, At, CompanyPlaces, SeatPlaces
  <2> QED BY <1>1, <2>5, <2>6, CompanyIsServed
<1> QED BY <1>2, <1>3, <1>4, <1>5 DEF ClassroomNext

\* corporateSchedule.services.ts: a company that is told ok has its payment and, where
\* the session has time blocks, every student on a roster of the course, or its order
\* and a booking list that waits for review, whatever calls overlap or crash meanwhile.
THEOREM CorporateAnswerIsKeptHolds == ClassroomSpec => CorporateAnswerIsKept
<1> DEFINE Answers ==
      \A r \in Request :
        Answered(r, "corporate", "ok")
          /\ (\A q \in Request : req'[q].op \notin {"replace", "reseat", "remove"}) =>
          LET body == req[r].body IN
          /\ body.paid # "no" /\ body.method = "stripe" =>
               /\ r \in corporatePayments'
               /\ body.session \in Blocked =>
                    \A e \in body.students : \E k \in ScheduleId : Seated(k, e)'
          /\ body.paid # "no" /\ body.method = "purchase_order" =>
               body.number \in corporateOrders' /\ bookingList'[r].status # "confirmed"
<1>1. ASSUME SeatingInv, RoomInv,
             [ClassroomNext \/ (CrashCalls /\ UNCHANGED rosterDocs)]_rosterVars
      PROVE  Answers
  <2> SUFFICES ASSUME NEW r \in Request, Answered(r, "corporate", "ok"), Undisturbed'
               PROVE  LET body == req[r].body IN
                      /\ body.paid # "no" /\ body.method = "stripe" =>
                           /\ r \in corporatePayments'
                           /\ body.session \in Blocked =>
                                \A e \in body.students : \E k \in ScheduleId : Seated(k, e)'
                      /\ body.paid # "no" /\ body.method = "purchase_order" =>
                           body.number \in corporateOrders' /\ bookingList'[r].status # "confirmed"
    BY DEF Undisturbed
  <2>1. Served(r) /\ req[r].pc \in CompanyPlaces
    BY <1>1, CompaniesAreServed
  <2>2. SeatingInv'
    BY <1>1, SeatingSteps
  <2>3. SeatDocs' /\ AllHere'
    BY <2>2 DEF SeatingInv, Undisturbed, Reseated
  <2>4. ASSUME NEW e \in Person, Placed(e)' PROVE \E k \in ScheduleId : Seated(k, e)'
    <3>1. PICK k \in ScheduleId : schedules'[k].seats[e] > 0
      BY <2>4 DEF Placed
    <3>2. schedules'[k].exists
      <4>1. schedules'[k].exists \/ schedules'[k].seats = Nobody
        BY <2>3 DEF SeatDocs, Exists
      <4> QED BY <3>1, <4>1 DEF Nobody
    <3>3. schedules'[k].here
      BY <2>3 DEF AllHere
    <3> QED BY <3>1, <3>2, <3>3 DEF Seated, InCourse, Exists
  <2>5. req[r].body.students \subseteq Person
    BY <1>1, <2>1, CompanyHas DEF Person
  <2> QED BY <2>1, <2>4, <2>5 DEF Served
<1>2. SeatingInv /\ RoomInv /\ [ClassroomNext \/ (CrashCalls /\ UNCHANGED rosterDocs)]_rosterVars
      => [Answers]_rosterVars
  BY <1>1
<1> HIDE DEF Answers
<1>3. ClassroomSpec => [][Answers]_rosterVars
  BY <1>2, SeatingAlways, RoomAlways, PTL DEF ClassroomSpec
<1> QED BY <1>3 DEF CorporateAnswerIsKept, Answers

-----------------------------------------------------------------------------
(* A sequence without one of its elements                                  *)

\* Where y is in s.
Places(s, y) == {i \in DOMAIN s : s[i] = y}

LEMMA FirstPlace ==
  ASSUME NEW s, NEW n \in Nat, DOMAIN s = 1 .. n, NEW x, \E i \in DOMAIN s : s[i] = x
  PROVE  \E i \in DOMAIN s : s[i] = x /\ \A j \in 1 .. i - 1 : s[j] # x
<1> DEFINE Upto == {1 .. i : i \in Places(s, x)}
<1>1. IsFiniteSet(1 .. n)
  BY FS_Interval
<1>2. Upto \in SUBSET SUBSET (1 .. n) /\ Upto # {}
  BY DEF Places
<1> HIDE DEF Upto
<1>3. PICK least \in Upto : \A u \in SUBSET least : u # least => u \notin Upto
  BY <1>1, <1>2, Smallest
<1>4. PICK i \in Places(s, x) : least = 1 .. i
  BY <1>3 DEF Upto
<1>5. i \in 1 .. n /\ s[i] = x
  BY DEF Places
<1>6. ASSUME NEW j \in 1 .. i - 1, s[j] = x PROVE FALSE
  <2>1. j \in Places(s, x)
    BY <1>5, <1>6 DEF Places
  <2>2. 1 .. j \in Upto
    BY <2>1 DEF Upto
  <2>3. 1 .. j \in SUBSET (1 .. i) /\ i \notin 1 .. j /\ i \in 1 .. i
    BY <1>5
  <2> QED BY <1>3, <1>4, <2>2, <2>3
<1> QED BY <1>5, <1>6

\* Without takes the first of a topic off a list, and nothing else.
LEMMA WithoutOne ==
  ASSUME NEW T, NEW s \in Seq(T), NEW x, \E i \in DOMAIN s : s[i] = x, NEW y
  PROVE  Cardinality(Places(Without(s, x), y)) = Cardinality(Places(s, y)) - (IF y = x THEN 1 ELSE 0)
<1> DEFINE k == CHOOSE i \in DOMAIN s : s[i] = x /\ \A j \in 1 .. i - 1 : s[j] # x
           n == Len(s)
           w == Without(s, x)
<1>0. n \in Nat /\ DOMAIN s = 1 .. n
  OBVIOUS
<1>1. \E i \in DOMAIN s : s[i] = x /\ \A j \in 1 .. i - 1 : s[j] # x
  <2> HIDE DEF n
  <2> QED BY <1>0, FirstPlace
<1>2. k \in 1 .. n /\ s[k] = x
  BY <1>0, <1>1
<1>3. w = SubSeq(s, 1, k - 1) \o SubSeq(s, k + 1, n)
  BY DEF Without
<1> HIDE DEF k, w
<1>4. /\ SubSeq(s, 1, k - 1) \in Seq(T) /\ Len(SubSeq(s, 1, k - 1)) = k - 1
      /\ \A i \in 1 .. k - 1 : SubSeq(s, 1, k - 1)[i] = s[i]
  BY <1>0, <1>2
<1>5. /\ SubSeq(s, k + 1, n) \in Seq(T) /\ Len(SubSeq(s, k + 1, n)) = n - k
      /\ \A i \in 1 .. n - k : SubSeq(s, k + 1, n)[i] = s[k + i]
  <2>1. /\ SubSeq(s, k + 1, n) \in Seq(T) /\ Len(SubSeq(s, k + 1, n)) = n - k
        /\ \A i \in 1 .. n - k : SubSeq(s, k + 1, n)[i] = s[(k + 1) + i - 1]
    BY <1>0, <1>2
  <2>2. \A i \in 1 .. n - k : (k + 1) + i - 1 = k + i
    BY <1>0, <1>2
  <2> QED BY <2>1, <2>2
<1> HIDE DEF n
<1>6. /\ DOMAIN w = 1 .. n - 1
      /\ \A i \in 1 .. n - 1 : w[i] = IF i < k THEN s[i] ELSE s[i + 1]
  <2> DEFINE a == SubSeq(s, 1, k - 1)
             b == SubSeq(s, k + 1, n)
  <2>1. a \in Seq(T) /\ b \in Seq(T) /\ Len(a) = k - 1 /\ Len(b) = n - k
    BY <1>4, <1>5
  <2>2. w = a \o b
    BY <1>3
  <2>3. (\A i \in 1 .. k - 1 : a[i] = s[i]) /\ (\A i \in 1 .. n - k : b[i] = s[k + i])
    BY <1>4, <1>5
  <2> HIDE DEF a, b
  <2>4. /\ w \in Seq(T) /\ Len(w) = n - 1
        /\ \A i \in 1 .. n - 1 : w[i] = IF i <= k - 1 THEN a[i] ELSE b[i - (k - 1)]
    <3>0. ASSUME NEW u \in Seq(T), NEW v \in Seq(T)
          PROVE  u \o v \in Seq(T) /\ Len(u \o v) = Len(u) + Len(v)
      OBVIOUS
    <3>1. w \in Seq(T) /\ Len(w) = Len(a) + Len(b)
      BY <2>1, <2>2, <3>0
    <3>2. Len(a) + Len(b) = n - 1
      BY <1>0, <1>2, <2>1
    <3>3. \A i \in 1 .. Len(w) : w[i] = IF i <= Len(a) THEN a[i] ELSE b[i - Len(a)]
      <4>1. ASSUME NEW u \in Seq(T), NEW v \in Seq(T), NEW i \in 1 .. Len(u) + Len(v)
            PROVE  (u \o v)[i] = IF i <= Len(u) THEN u[i] ELSE v[i - Len(u)]
        OBVIOUS
      <4> QED BY <2>1, <2>2, <3>1, <4>1
    <3> QED BY <2>1, <3>1, <3>2, <3>3
  <2>5. ASSUME NEW i \in 1 .. n - 1 PROVE w[i] = IF i < k THEN s[i] ELSE s[i + 1]
    <3>1. CASE i < k
      BY <1>0, <1>2, <2>3, <2>4, <3>1
    <3>2. CASE ~(i < k)
      <4>1. i - (k - 1) \in 1 .. n - k /\ k + (i - (k - 1)) = i + 1 /\ ~(i <= k - 1)
        BY <1>0, <1>2, <3>2
      <4>2. w[i] = b[i - (k - 1)]
        BY <2>4, <4>1
      <4> QED BY <2>3, <3>2, <4>1, <4>2
    <3> QED BY <3>1, <3>2
  <2> QED BY <2>4, <2>5
<1> DEFINE old == Places(s, y)
           new == Places(w, y)
           back == [i \in new |-> IF i < k THEN i ELSE i + 1]
<1>7. IsFiniteSet(old) /\ IsFiniteSet(new)
  <2>1. IsFiniteSet(1 .. n) /\ IsFiniteSet(1 .. n - 1)
    BY <1>0, FS_Interval
  <2>2. old \subseteq 1 .. n /\ new \subseteq 1 .. n - 1
    BY <1>0, <1>6 DEF Places
  <2> QED BY <2>1, <2>2, FS_Subset
<1>8. back \in Bijection(new, old \ {k})
  <2>1. \A i \in new : i \in 1 .. n - 1 /\ w[i] = y
    BY <1>6 DEF Places
  <2>2. \A i \in old : i \in 1 .. n /\ s[i] = y
    BY <1>0 DEF Places
  <2>3. ASSUME NEW i \in new PROVE back[i] \in old \ {k}
    BY <1>0, <1>2, <1>6, <2>1 DEF Places
  <2>4. ASSUME NEW i \in new, NEW j \in new, back[i] = back[j] PROVE i = j
    BY <1>0, <1>2, <2>1, <2>4
  <2>5. ASSUME NEW j \in old \ {k} PROVE \E i \in new : back[i] = j
    <3> DEFINE i == IF j < k THEN j ELSE j - 1
    <3>1. i \in 1 .. n - 1 /\ (IF i < k THEN i ELSE i + 1) = j
      BY <1>0, <1>2, <2>2
    <3>2. w[i] = y
      BY <1>6, <2>2, <3>1
    <3>3. i \in new
      BY <1>6, <3>1, <3>2 DEF Places
    <3> QED BY <3>1, <3>3
  <2>6. back \in [new -> old \ {k}]
    BY <2>3
  <2> HIDE DEF back, new, old
  <2>7. back \in Injection(new, old \ {k})
    BY <2>4, <2>6 DEF Injection, IsInjective
  <2>8. back \in Surjection(new, old \ {k})
    BY <2>5, <2>6 DEF Surjection
  <2> QED BY <2>7, <2>8 DEF Bijection
<1>9. Cardinality(old \ {k}) = Cardinality(new)
  <2> HIDE DEF back, new, old
  <2> QED BY <1>7, <1>8, FS_Bijection DEF ExistsBijection
<1>10. Cardinality(old \ {k}) = IF k \in old THEN Cardinality(old) - 1 ELSE Cardinality(old)
  BY <1>7, FS_RemoveElement
<1>11. k \in old <=> y = x
  BY <1>0, <1>2 DEF Places
<1> QED BY <1>7, <1>9, <1>10, <1>11, FS_CardinalityType DEF w

-----------------------------------------------------------------------------
(* The catalogue                                                           *)

Category(exists, name, slug, active, removed, subcategories, version) ==
  [exists |-> exists, name |-> name, slug |-> slug, active |-> active, removed |-> removed,
   subcategories |-> subcategories, version |-> version]

Course(exists, title, slug, category, test) ==
  [exists |-> exists, title |-> title, slug |-> slug, category |-> category, items |-> test]

Body(title, slug, category, test) ==
  [title |-> title, slug |-> slug, category |-> category, items |-> test]

CategoryDoc(cat) ==
  \E exists, active, removed \in BOOLEAN, version \in Nat, subcategories \in Seq(Topic) :
    \E name, slug :
      /\ cat = Category(exists, name, slug, active, removed, subcategories, version)
      /\ exists => name \in Title /\ IsSlug(slug)

CourseDoc(course) ==
  \E exists, test \in BOOLEAN : \E title, slug, category :
    /\ course = Course(exists, title, slug, category, test)
    /\ exists => title \in Title /\ IsSlug(slug) /\ category \in CategoryId

\* What a call sends of a course: whole, or what it changes.
CourseBodyOf(body, op) ==
  \E title, slug, category, test :
    /\ body = Body(title, slug, category, test)
    /\ title \in Title \/ (op = "recourse" /\ title = None)
    /\ IsSlug(slug) \/ (op = "recourse" /\ slug = None)

\* Call r may still store category c, which is not there then.
MayMake(r, c) ==
  \E t \in Title :
    /\ c = <<r, t>>
    /\ \/ At(r, "idle")
       \/ At(r, "categoryInsert") /\ req[r].target = c
       \/ req[r].pc \in {"seedShelf", "shelfInsert", "pricingShelf"} /\ t \in req[r].todo

\* Somebody replaces, or has replaced, the subcategories of a category by a list.
Relists == \E q \in Request : req[q].op = "relistTopics"

\* The version that a topic was found in is the one that is there, or is over.
Spliced(cat, was) ==
  cat.exists =>
    /\ was.version <= cat.version
    /\ was.version = cat.version => was.subcategories = cat.subcategories

Probers == {"slugProbe", "categoryCheck", "courseInsert", "itemsInsert", "courseWrite"}

\* What a call relies on whatever happens beside it.
CatalogueCall(r) ==
  /\ IsCall(req[r])
  /\ At(r, "idle") => req[r].op = "none"
  /\ req[r].op = "dropTopic" /\ InFlight(r) => At(r, "dropTopic")
  /\ At(r, "categoryInsert") => CategoryDoc(req[r].body) /\ \E t \in Title : req[r].target = <<r, t>>
  /\ At(r, "categoryWrite") =>
       req[r].body \in CategoryChange /\ (req[r].body.topics = None \/ req[r].op = "relistTopics")
  /\ At(r, "addTopic") => req[r].body.topic \in Topic
  /\ At(r, "dropTopic") =>
       /\ req[r].target \in CategoryId
       /\ req[r].body.was.version \in Nat
       /\ req[r].body.was.subcategories \in Seq(Topic)
       /\ \E i \in DOMAIN req[r].body.was.subcategories :
            req[r].body.was.subcategories[i] = req[r].body.topic
       /\ ~Relists => Spliced(categories[req[r].target], req[r].body.was)
       /\ \A q \in Request : ~MayMake(q, req[r].target)
  /\ req[r].pc \in Probers =>
       /\ req[r].target \in CourseId /\ req[r].op \in {"course", "recourse", "seed"}
       /\ req[r].round \in Nat /\ req[r].todo \subseteq Title
       /\ CourseBodyOf(req[r].body, req[r].op)
       /\ req[r].op # "recourse" => req[r].body.category # None
  /\ At(r, "slugProbe") => IsSlug(req[r].body.slug)
  /\ req[r].pc \in {"courseInsert", "itemsInsert"} =>
       req[r].op # "recourse" /\ req[r].body.category \in CategoryId
  /\ At(r, "courseWrite") =>
       req[r].op = "recourse" /\ req[r].body.category \in CategoryId \cup {None}
  /\ req[r].pc \in {"seedShelf", "shelfInsert", "seedCourse"} =>
       req[r].op = "seed" /\ req[r].round = 0 /\ req[r].todo \subseteq Title
  /\ req[r].pc \in {"seedShelf", "shelfInsert"} => req[r].read \subseteq CategoryId
  /\ At(r, "shelfInsert") => req[r].body \in req[r].todo
  /\ At(r, "seedCourse") =>
       \E title, slug, category, test :
         category # None /\ req[r].body = Body(title, slug, category, test)
  /\ At(r, "pricingShelf") => req[r].op = "pricing" /\ req[r].todo \subseteq Title

\* Nothing has overlapped, and nothing but seeds has run.
OnlySeeds == ~overlapped /\ \A q \in Request : req[q].op \in {"none", "seed", "pricing"}

\* A seed found the slug of a title free before it made the course.
Unseeded(r) ==
  /\ req[r].body.slug = generateSlug(req[r].body.title) /\ req[r].round = 0
  /\ ~SlugTaken(None, req[r].body.slug)

\* What a call relies on as long as no two overlap.
SerialCall(r) ==
  req[r].pc \in {"slugProbe", "categoryCheck", "courseInsert"} /\ OnlySeeds => Unseeded(r)

\* What seeds alone have stored.
Seeded ==
  \A c \in CourseId :
    courses[c].exists =>
      /\ courses[c].slug = generateSlug(courses[c].title)
      /\ \A d \in CourseId : courses[d].exists /\ courses[c].title = courses[d].title => c = d

CatalogueDocs ==
  /\ categories = [c \in CategoryId |-> categories[c]]
  /\ courses = [c \in CourseId |-> courses[c]]
  /\ \A c \in CategoryId : CategoryDoc(categories[c])
  /\ \A c \in CourseId : CourseDoc(courses[c])
  /\ \A c \in CategoryId, r \in Request : MayMake(r, c) => ~categories[c].exists

CatalogueInv ==
  /\ CallsOK /\ Alone /\ CatalogueDocs
  /\ \A r \in Request : CatalogueCall(r) /\ SerialCall(r)
  /\ OnlySeeds => Seeded

\* A step of call r as every action makes it, apart from what it does to the documents.
Proceeds(r) ==
  /\ CallsOK' /\ OnlyCall(r) /\ Alone' /\ AloneWith(r) /\ (overlapped => overlapped')
  /\ req'[r].op = req[r].op \/ req[r].op = "none"

LEMMA CategoryParts ==
  ASSUME NEW exists, NEW name, NEW slug, NEW active, NEW removed, NEW subcategories, NEW version,
         NEW cat, cat = Category(exists, name, slug, active, removed, subcategories, version)
  PROVE  /\ cat.exists = exists /\ cat.name = name /\ cat.slug = slug /\ cat.active = active
         /\ cat.removed = removed /\ cat.subcategories = subcategories /\ cat.version = version
BY DEF Category

LEMMA CategoryIs ==
  ASSUME NEW exists \in BOOLEAN, NEW name, NEW slug, NEW active \in BOOLEAN, NEW removed \in BOOLEAN,
         NEW subcategories \in Seq(Topic), NEW version \in Nat, NEW cat,
         cat = Category(exists, name, slug, active, removed, subcategories, version),
         exists => name \in Title /\ IsSlug(slug)
  PROVE  CategoryDoc(cat)
BY DEF CategoryDoc

LEMMA CategoryTyped ==
  ASSUME NEW cat, CategoryDoc(cat)
  PROVE  /\ cat.exists \in BOOLEAN /\ cat.active \in BOOLEAN /\ cat.removed \in BOOLEAN
         /\ cat.version \in Nat /\ cat.subcategories \in Seq(Topic)
         /\ cat.exists => cat.name \in Title /\ IsSlug(cat.slug)
         /\ cat = Category(cat.exists, cat.name, cat.slug, cat.active, cat.removed,
                            cat.subcategories, cat.version)
<1>1. PICK exists, active, removed \in BOOLEAN, version \in Nat, subcategories \in Seq(Topic) :
        \E name, slug :
          /\ cat = Category(exists, name, slug, active, removed, subcategories, version)
          /\ exists => name \in Title /\ IsSlug(slug)
  BY DEF CategoryDoc
<1>2. PICK name, slug :
        /\ cat = Category(exists, name, slug, active, removed, subcategories, version)
        /\ exists => name \in Title /\ IsSlug(slug)
  BY <1>1
<1> QED BY <1>2, CategoryParts

LEMMA CatalogueInitially == CatalogueInit => CatalogueInv
<1> SUFFICES ASSUME CatalogueInit PROVE CatalogueInv
  OBVIOUS
<1>1. CallsOK /\ Alone /\ ~overlapped
  BY AloneInitially DEF CatalogueInit, CallsInit, CallsOK
<1>2. ASSUME NEW r \in Request PROVE CatalogueCall(r) /\ SerialCall(r)
  <2>1. req[r] = Fresh /\ Fresh.pc = "idle" /\ Fresh.op = "none" /\ IsCall(Fresh)
    BY FreshIs DEF CatalogueInit, CallsInit, Fresh, IsCall
  <2> QED BY <2>1 DEF CatalogueCall, SerialCall, Probers, At
<1>3. PICK t \in Title, topic \in Topic :
        categories = [c \in CategoryId |->
          IF c = Shelf THEN [NewCategory(t, generateSlug(t)) EXCEPT !.subcategories = <<topic>>]
                       ELSE NoCategory]
  BY DEF CatalogueInit
<1>4. NoCategory = Category(FALSE, None, None, FALSE, FALSE, <<>>, 0)
  BY DEF NoCategory, Category
<1>5. ASSUME NEW cat, cat = [NewCategory(t, generateSlug(t)) EXCEPT !.subcategories = <<topic>>]
      PROVE  cat = Category(TRUE, t, <<t>>, TRUE, FALSE, <<topic>>, 0)
  BY <1>5 DEF NewCategory, NoCategory, Category, generateSlug
<1>6. IsSlug(<<t>>)
  BY DEF IsSlug
<1>7. CategoryDoc(NoCategory) /\ ~NoCategory.exists
  <2>1. <<>> \in Seq(Topic)
    OBVIOUS
  <2>2. ASSUME NEW cat, cat = Category(FALSE, None, None, FALSE, FALSE, <<>>, 0)
        PROVE  CategoryDoc(cat) /\ ~cat.exists
    <3>1. CategoryDoc(cat)
      BY <2>1, <2>2, CategoryIs
    <3>2. ~cat.exists
      BY <2>2 DEF Category
    <3> QED BY <3>1, <3>2
  <2> QED BY <1>4, <2>2
<1>8. CategoryDoc([NewCategory(t, generateSlug(t)) EXCEPT !.subcategories = <<topic>>])
  <2>1. ASSUME NEW cat, cat = Category(TRUE, t, <<t>>, TRUE, FALSE, <<topic>>, 0)
        PROVE  CategoryDoc(cat)
    <3>1. <<topic>> \in Seq(Topic)
      OBVIOUS
    <3> QED BY <1>6, <2>1, <3>1, CategoryIs
  <2> QED BY <1>5, <2>1
<1>9. \A c \in CategoryId : CategoryDoc(categories[c])
  BY <1>3, <1>7, <1>8
<1>10. \A c \in CategoryId, r \in Request : MayMake(r, c) => ~categories[c].exists
  BY <1>3, <1>7, CatalogueAssumption DEF MayMake
<1>11. \A c \in CourseId : ~courses[c].exists /\ CourseDoc(courses[c])
  <2>1. NoCourse = Course(FALSE, None, None, None, FALSE)
    BY DEF NoCourse, Course
  <2>2. CourseDoc(NoCourse) /\ ~NoCourse.exists
    BY <2>1 DEF CourseDoc, Course
  <2> QED BY <2>2 DEF CatalogueInit
<1>12. CatalogueDocs
  <2>1. courses = [c \in CourseId |-> courses[c]]
    BY DEF CatalogueInit
  <2>2. categories = [c \in CategoryId |-> categories[c]]
    BY <1>3
  <2> QED BY <1>9, <1>10, <1>11, <2>1, <2>2 DEF CatalogueDocs
<1> QED BY <1>1, <1>2, <1>11, <1>12 DEF CatalogueInv, Seeded

\* Where nothing has overlapped and only seeds have run, it was so before.
LEMMA SeedsBefore ==
  ASSUME NEW r \in Request, Proceeds(r), OnlySeeds'
  PROVE  OnlySeeds
<1>1. \A q \in Request \ {r} : req'[q] = req[q]
  BY DEF Proceeds, OnlyCall
<1> QED BY <1>1 DEF Proceeds, OnlySeeds

\* Where nobody has replaced a list, nobody had.
LEMMA RelistsBefore ==
  ASSUME NEW r \in Request, Proceeds(r), ~Relists'
  PROVE  ~Relists
<1>1. \A q \in Request \ {r} : req'[q] = req[q]
  BY DEF Proceeds, OnlyCall
<1> QED BY <1>1 DEF Proceeds, Relists

LEMMA CatalogueMove ==
  ASSUME CatalogueInv, NEW r \in Request, Proceeds(r), CatalogueDocs',
         \A c \in CategoryId :
           \/ ~categories'[c].exists \/ MayMake(r, c)
           \/ /\ categories[c].exists /\ categories[c].version <= categories'[c].version
              /\ ~Relists' /\ categories[c].version = categories'[c].version =>
                   categories[c].subcategories = categories'[c].subcategories,
         \A c \in CategoryId : MayMake(r, c)' => MayMake(r, c),
         CatalogueCall(r)', SerialCall(r)',
         courses' = courses \/ (OnlySeeds' => Seeded')
  PROVE  CatalogueInv'
<1>1. ASSUME NEW q \in Request \ {r} PROVE CatalogueCall(q)'
  <2>1. CatalogueCall(q) /\ req'[q] = req[q]
    BY DEF CatalogueInv, Proceeds, OnlyCall
  <2>2. ASSUME At(q, "dropTopic")
        PROVE  /\ ~Relists' => Spliced(categories'[req[q].target], req[q].body.was)
               /\ \A p \in Request : ~MayMake(p, req[q].target)'
    <3> DEFINE c == req[q].target
    <3>1. /\ c \in CategoryId /\ req[q].body.was.version \in Nat
          /\ ~Relists => Spliced(categories[c], req[q].body.was)
          /\ \A p \in Request : ~MayMake(p, c)
      BY <2>1, <2>2 DEF CatalogueCall
    <3>2. PICK d \in CategoryId : d = c
      BY <3>1
    <3>3. \A p \in Request : ~MayMake(p, d)'
      <4>1. \A p \in Request \ {r} : MayMake(p, d)' => MayMake(p, d)
        BY DEF MayMake, At, Proceeds, OnlyCall
      <4> QED BY <3>1, <3>2, <4>1
    <3>4. categories[d].version \in Nat /\ categories'[d].version \in Nat
      <4>1. CategoryDoc(categories[d]) /\ CategoryDoc(categories'[d])
        BY DEF CatalogueInv, CatalogueDocs
      <4> QED BY <4>1, CategoryTyped
    <3>5. ~Relists' => Spliced(categories'[d], req[q].body.was)
      BY <3>1, <3>2, <3>4, RelistsBefore DEF Spliced
    <3>6. req[q].target = d /\ req'[q].target = d
      BY <2>1, <3>2
    <3> QED BY <3>3, <3>5, <3>6 DEF MayMake
  <2>3. IsCall(req'[q])
    BY <2>1 DEF CatalogueCall
  <2> QED BY <2>1, <2>2, <2>3 DEF CatalogueCall, At, InFlight, MayMake
<1>2. ASSUME NEW q \in Request \ {r} PROVE SerialCall(q)'
  <2>1. ~overlapped' => req'[q].pc \in Replies \cup {"idle"}
    BY DEF Proceeds, AloneWith, InFlight
  <2> QED BY <2>1 DEF SerialCall, OnlySeeds, Replies
<1>3. OnlySeeds' => Seeded'
  BY SeedsBefore DEF CatalogueInv, Seeded
<1> QED BY <1>1, <1>2, <1>3 DEF CatalogueInv, Proceeds

\* A step that stores nothing.
LEMMA CatalogueStays ==
  ASSUME CatalogueInv, NEW r \in Request, Proceeds(r), UNCHANGED catalogueDocs,
         \A c \in CategoryId : MayMake(r, c)' => MayMake(r, c),
         CatalogueCall(r)', SerialCall(r)'
  PROVE  CatalogueInv'
<1>1. categories' = categories /\ courses' = courses
  BY DEF catalogueDocs
<1>2. \A q \in Request \ {r} : req'[q] = req[q]
  BY DEF Proceeds, OnlyCall
<1>3. ASSUME NEW c \in CategoryId, NEW q \in Request, MayMake(q, c)' PROVE MayMake(q, c)
  BY <1>2, <1>3 DEF MayMake, At
<1>4. CatalogueDocs'
  <2>1. \A c \in CategoryId, q \in Request : MayMake(q, c)' => ~categories'[c].exists
    BY <1>1, <1>3 DEF CatalogueInv, CatalogueDocs
  <2> QED BY <1>1, <2>1 DEF CatalogueInv, CatalogueDocs
<1>5. \A c \in CategoryId : categories[c].version \in Nat
  <2>1. \A c \in CategoryId : CategoryDoc(categories[c])
    BY DEF CatalogueInv, CatalogueDocs
  <2> QED BY <2>1, CategoryTyped
<1>6. ASSUME NEW c \in CategoryId
      PROVE  \/ ~categories'[c].exists
             \/ /\ categories[c].exists /\ categories[c].version <= categories'[c].version
                /\ categories[c].version = categories'[c].version =>
                     categories[c].subcategories = categories'[c].subcategories
  BY <1>1, <1>5
<1> QED BY <1>1, <1>4, <1>6, CatalogueMove

LEMMA CatalogueBegins ==
  ASSUME CatalogueInv, NEW r \in Request, NEW op, NEW call, Begins(r, op, call)
  PROVE  /\ Proceeds(r) /\ At(r, "idle") /\ req'[r] = [call EXCEPT !.op = op]
         /\ \A t \in Title : MayMake(r, <<r, t>>)
<1>1. CallsOK' /\ OnlyCall(r) /\ At(r, "idle") /\ req'[r] = [call EXCEPT !.op = op]
  BY BeginsMoves DEF CatalogueInv
<1>2. Alone' /\ AloneWith(r) /\ (~overlapped' => ~overlapped)
  BY BeginsAlone DEF CatalogueInv
<1>3. req[r].op = "none"
  BY <1>1 DEF CatalogueInv, CatalogueCall
<1> QED BY <1>1, <1>2, <1>3 DEF Proceeds, MayMake

LEMMA CatalogueBecomes ==
  ASSUME CatalogueInv, NEW r \in Request, InFlight(r), NEW call, Becomes(r, call), call.op = req[r].op
  PROVE  Proceeds(r) /\ req'[r] = call
<1>1. CallsOK' /\ OnlyCall(r) /\ req'[r] = call
  BY BecomesMoves DEF CatalogueInv
<1>2. Alone' /\ AloneWith(r) /\ overlapped' = overlapped
  BY BecomesAlone DEF CatalogueInv
<1> QED BY <1>1, <1>2 DEF Proceeds

LEMMA Ended ==
  ASSUME NEW reply, NEW op, NEW call, call = [Answer(reply) EXCEPT !.op = op]
  PROVE  call = Call(op, reply, None, None, {}, None, 0)
BY DEF Answer, Fresh, Call

LEMMA CatalogueEnds ==
  ASSUME CatalogueInv, NEW r \in Request, InFlight(r), NEW reply, Ends(r, reply)
  PROVE  Proceeds(r) /\ req'[r] = Call(req[r].op, reply, None, None, {}, None, 0)
<1> DEFINE call == [Answer(reply) EXCEPT !.op = req[r].op]
<1>1. Becomes(r, call)
  BY DEF Ends
<1>2. call = Call(req[r].op, reply, None, None, {}, None, 0)
  BY Ended
<1> HIDE DEF call
<1>3. call.op = req[r].op
  BY <1>2, PartsOf
<1> QED BY <1>1, <1>2, <1>3, CatalogueBecomes

\* Where a call relies on nothing.
LEMMA CatalogueQuiet ==
  ASSUME NEW r \in Request, IsCall(req'[r]),
         \/ req'[r].pc \in Replies
         \/ req'[r].pc \in {"unshelve", "hardRemove"} /\ req'[r].op # "dropTopic"
  PROVE  /\ CatalogueCall(r)' /\ SerialCall(r)'
         /\ \A c \in CategoryId : ~MayMake(r, c)'
<1>1. CatalogueCall(r)' /\ SerialCall(r)'
  BY DEF CatalogueCall, SerialCall, Probers, At, Replies, InFlight
<1>2. \A c \in CategoryId : ~MayMake(r, c)'
  BY DEF MayMake, At, Replies
<1> QED BY <1>1, <1>2

LEMMA CatalogueAnswers ==
  ASSUME CatalogueInv, NEW r \in Request, NEW op, NEW reply \in Replies,
         Begins(r, op, Answer(reply)), UNCHANGED catalogueDocs
  PROVE  CatalogueInv'
<1>1. Proceeds(r) /\ req'[r] = [Answer(reply) EXCEPT !.op = op]
  BY CatalogueBegins
<1>2. req'[r] = Call(op, reply, None, None, {}, None, 0)
  BY <1>1, Ended
<1>3. IsCall(req'[r]) /\ req'[r].pc \in Replies
  BY <1>2, PartsOf
<1> QED BY <1>1, <1>3, CatalogueQuiet, CatalogueStays

LEMMA CatalogueEndsQuietly ==
  ASSUME CatalogueInv, NEW r \in Request, InFlight(r), NEW reply \in Replies,
         Ends(r, reply), UNCHANGED catalogueDocs
  PROVE  CatalogueInv'
<1>1. Proceeds(r) /\ req'[r] = Call(req[r].op, reply, None, None, {}, None, 0)
  BY CatalogueEnds
<1>2. IsCall(req'[r]) /\ req'[r].pc \in Replies
  BY <1>1, PartsOf
<1> QED BY <1>1, <1>2, CatalogueQuiet, CatalogueStays

\* A step that stores one category.
LEMMA CategoryStored ==
  ASSUME CatalogueInv, NEW r \in Request, Proceeds(r), courses' = courses,
         NEW c \in CategoryId, NEW new, CategoryDoc(new), categories' = [categories EXCEPT ![c] = new],
         \/ ~new.exists \/ MayMake(r, c)
         \/ /\ categories[c].exists /\ categories[c].version <= new.version
            /\ ~Relists' /\ categories[c].version = new.version =>
                 categories[c].subcategories = new.subcategories,
         \A d \in CategoryId : MayMake(r, d)' => MayMake(r, d) /\ d # c,
         CatalogueCall(r)', SerialCall(r)'
  PROVE  CatalogueInv'
<1>1. /\ categories' = [d \in CategoryId |-> categories'[d]]
      /\ categories'[c] = new
      /\ \A d \in CategoryId \ {c} : categories'[d] = categories[d]
  BY DEF CatalogueInv, CatalogueDocs
<1>2. \A d \in CategoryId : CategoryDoc(categories[d]) /\ CategoryDoc(categories'[d])
  BY <1>1 DEF CatalogueInv, CatalogueDocs
<1>3. \A d \in CategoryId : categories[d].version \in Nat
  BY <1>2, CategoryTyped
<1>4. ASSUME NEW d \in CategoryId, NEW q \in Request, MayMake(q, d)' PROVE ~categories'[d].exists
  <2>1. MayMake(q, d)
    <3>1. CASE q = r
      BY <1>4, <3>1
    <3>2. CASE q # r
      BY <1>4, <3>2 DEF MayMake, At, Proceeds, OnlyCall
    <3> QED BY <3>1, <3>2
  <2>2. ~categories[d].exists
    BY <2>1 DEF CatalogueInv, CatalogueDocs
  <2>3. ASSUME d = c, MayMake(r, c) PROVE q = r
    BY <2>1, <2>3 DEF MayMake
  <2> QED BY <1>1, <1>4, <2>2, <2>3
<1>5. CatalogueDocs'
  BY <1>1, <1>2, <1>4 DEF CatalogueInv, CatalogueDocs
<1>6. ASSUME NEW d \in CategoryId
      PROVE  \/ ~categories'[d].exists \/ MayMake(r, d)
             \/ /\ categories[d].exists /\ categories[d].version <= categories'[d].version
                /\ ~Relists' /\ categories[d].version = categories'[d].version =>
                     categories[d].subcategories = categories'[d].subcategories
  BY <1>1, <1>3
<1> QED BY <1>5, <1>6, CatalogueMove

LEMMA CreateCategoryStep ==
  ASSUME CatalogueInv, NEW r \in Request, CreateCategory(r)
  PROVE  CatalogueInv'
<1>0. UNCHANGED catalogueDocs
  BY DEF CreateCategory
<1>1. PICK t \in Title, slug \in {None} \cup Chosen, topics \in {<<>>} \cup Topics :
        LET s == IF slug = None THEN generateSlug(t) ELSE slug IN
        IF CategoryClash(None, t, s)
          THEN Begins(r, "category", Answer("error"))
          ELSE Begins(r, "category", [Fresh EXCEPT !.pc = "categoryInsert", !.target = <<r, t>>,
                                        !.body = [NewCategory(t, s) EXCEPT !.subcategories = topics]])
  BY DEF CreateCategory
<1> DEFINE s == IF slug = None THEN generateSlug(t) ELSE slug
           sent == [NewCategory(t, s) EXCEPT !.subcategories = topics]
           start == [Fresh EXCEPT !.pc = "categoryInsert", !.target = <<r, t>>, !.body = sent]
<1>2. IsSlug(s)
  <2>1. IsSlug(<<t>>)
    BY DEF IsSlug
  <2> QED BY <2>1, CatalogueAssumption DEF generateSlug
<1> HIDE DEF s
<1>3. CASE Begins(r, "category", Answer("error"))
  BY <1>0, <1>3, CatalogueAnswers DEF Replies
<1>4. CASE Begins(r, "category", start)
  <2>1. /\ Proceeds(r) /\ At(r, "idle") /\ req'[r] = [start EXCEPT !.op = "category"]
        /\ \A u \in Title : MayMake(r, <<r, u>>)
    BY <1>4, CatalogueBegins
  <2>2. ASSUME NEW call, call = [start EXCEPT !.op = "category"]
        PROVE  call = Call("category", "categoryInsert", <<r, t>>, sent, {}, None, 0)
    BY <2>2 DEF Fresh, Call
  <2>3. /\ IsCall(req'[r]) /\ req'[r].op = "category" /\ req'[r].pc = "categoryInsert"
        /\ req'[r].target = <<r, t>> /\ req'[r].body = sent
    BY <2>1, <2>2, PartsOf
  <2>4. CategoryDoc(sent)
    <3>1. ASSUME NEW cat, cat = sent
          PROVE  cat = Category(TRUE, t, s, TRUE, FALSE, topics, 0)
      BY <3>1 DEF NewCategory, NoCategory, Category
    <3>2. topics \in Seq(Topic)
      <4>1. <<>> \in Seq(Topic)
        OBVIOUS
      <4> QED BY <4>1, CatalogueAssumption
    <3> QED BY <1>2, <3>1, <3>2, CategoryIs
  <2>5. CatalogueCall(r)' /\ SerialCall(r)'
    BY <2>3, <2>4 DEF CatalogueCall, SerialCall, Probers, At
  <2>6. \A c \in CategoryId : MayMake(r, c)' => MayMake(r, c)
    BY <2>1, <2>3 DEF MayMake, At
  <2> QED BY <1>0, <2>1, <2>5, <2>6, CatalogueStays
<1> QED BY <1>1, <1>3, <1>4 DEF s

LEMMA InsertCategoryStep ==
  ASSUME CatalogueInv, NEW r \in Request, InsertCategory(r)
  PROVE  CatalogueInv'
<1>1. /\ At(r, "categoryInsert") /\ InFlight(r) /\ courses' = courses
      /\ CategoryDoc(req[r].body)
  BY DEF InsertCategory, At, InFlight, Replies, CatalogueInv, CatalogueCall
<1>2. PICK t \in Title : req[r].target = <<r, t>>
  BY <1>1 DEF CatalogueInv, CatalogueCall
<1>3. CASE Ends(r, "error") /\ categories' = categories
  BY <1>1, <1>3, CatalogueEndsQuietly DEF Replies, catalogueDocs
<1>4. CASE categories' = [categories EXCEPT ![req[r].target] = req[r].body] /\ Ends(r, "ok")
  <2>1. Proceeds(r) /\ req'[r] = Call(req[r].op, "ok", None, None, {}, None, 0)
    BY <1>1, <1>4, CatalogueEnds
  <2>2. IsCall(req'[r]) /\ req'[r].pc = "ok"
    BY <2>1, PartsOf
  <2>3. /\ CatalogueCall(r)' /\ SerialCall(r)'
        /\ \A c \in CategoryId : ~MayMake(r, c)'
    BY <2>2, CatalogueQuiet DEF Replies
  <2>4. MayMake(r, <<r, t>>) /\ <<r, t>> \in CategoryId
    BY <1>1, <1>2 DEF MayMake, CategoryId, CourseId
  <2> QED BY <1>1, <1>2, <1>4, <2>1, <2>3, <2>4, CategoryStored
<1> QED BY <1>3, <1>4 DEF InsertCategory

LEMMA UpdateCategoryStep ==
  ASSUME CatalogueInv, NEW r \in Request, UpdateCategory(r)
  PROVE  CatalogueInv'
<1>0. UNCHANGED catalogueDocs
  BY DEF UpdateCategory
<1>1. PICK c \in CategoryId, ch \in CategoryChange, op \in {"recategory", "relistTopics"} :
        /\ ch.topics = None \/ op = "relistTopics"
        /\ IF ch.name # None /\ CategoryClash(c, ch.name, generateSlug(ch.name))
             THEN Begins(r, op, Answer("error"))
             ELSE Begins(r, op, [Fresh EXCEPT !.pc = "categoryWrite", !.target = c, !.body = ch])
  BY DEF UpdateCategory
<1> DEFINE start == [Fresh EXCEPT !.pc = "categoryWrite", !.target = c, !.body = ch]
<1>2. CASE Begins(r, op, Answer("error"))
  BY <1>0, <1>2, CatalogueAnswers DEF Replies
<1>3. CASE Begins(r, op, start)
  <2>1. Proceeds(r) /\ req'[r] = [start EXCEPT !.op = op]
    BY <1>3, CatalogueBegins
  <2>2. ASSUME NEW call, call = [start EXCEPT !.op = op]
        PROVE  call = Call(op, "categoryWrite", c, ch, {}, None, 0)
    BY <2>2 DEF Fresh, Call
  <2>3. /\ IsCall(req'[r]) /\ req'[r].op = op /\ req'[r].pc = "categoryWrite"
        /\ req'[r].body = ch
    BY <2>1, <2>2, PartsOf
  <2>4. CatalogueCall(r)' /\ SerialCall(r)' /\ \A d \in CategoryId : ~MayMake(r, d)'
    BY <1>1, <2>3 DEF CatalogueCall, SerialCall, Probers, At, MayMake
  <2> QED BY <1>0, <2>1, <2>4, CatalogueStays
<1> QED BY <1>1, <1>2, <1>3

\* What a change leaves of a category.
LEMMA PatchedDoc ==
  ASSUME NEW cat, CategoryDoc(cat), NEW ch \in CategoryChange
  PROVE  /\ CategoryDoc(Patched(cat, ch)) /\ Patched(cat, ch).exists = cat.exists
         /\ Patched(cat, ch).version = cat.version
         /\ ch.topics = None => Patched(cat, ch).subcategories = cat.subcategories
<1> DEFINE name == IF ch.name = None THEN cat.name ELSE ch.name
           slug == CASE ch.name # None -> generateSlug(ch.name)
                     [] ch.slug # None -> ch.slug
                     [] OTHER -> cat.slug
           active == IF ch.active = None THEN cat.active ELSE ch.active
           topics == IF ch.topics = None THEN cat.subcategories ELSE ch.topics
<1>1. /\ ch.name = None \/ ch.name \in Title
      /\ ch.slug = None \/ ch.slug \in Chosen
      /\ ch.active = None \/ ch.active \in BOOLEAN
      /\ ch.topics = None \/ ch.topics \in Topics
      /\ ch.name # None => ch.slug = None
  BY DEF CategoryChange
<1>2. cat.exists => name \in Title /\ IsSlug(slug)
  <2>1. ASSUME NEW t \in Title PROVE IsSlug(<<t>>)
    BY DEF IsSlug
  <2>2. ASSUME cat.exists PROVE name \in Title /\ IsSlug(cat.slug)
    BY <1>1, <2>2, CategoryTyped
  <2>3. CASE ch.name # None
    <3>1. slug = generateSlug(ch.name)
      BY <1>1, <2>3
    <3>2. ch.name \in Title
      BY <1>1, <2>3
    <3>3. IsSlug(generateSlug(ch.name))
      BY <2>1, <3>2 DEF generateSlug
    <3> HIDE DEF slug
    <3> QED BY <2>2, <3>1, <3>3
  <2>4. CASE ch.name = None /\ ch.slug # None
    <3>1. slug = ch.slug /\ IsSlug(ch.slug)
      BY <1>1, <2>4, CatalogueAssumption
    <3> QED BY <2>2, <3>1
  <2>5. CASE ch.name = None /\ ch.slug = None
    <3>1. slug = cat.slug
      BY <2>5
    <3> QED BY <2>2, <3>1
  <2> QED BY <2>3, <2>4, <2>5
<1>3. active \in BOOLEAN /\ topics \in Seq(Topic)
  BY <1>1, CategoryTyped, CatalogueAssumption
<1>8. ch.topics = None => topics = cat.subcategories
  OBVIOUS
<1> HIDE DEF name, slug, active, topics
<1>4. Patched(cat, ch) =
        [cat EXCEPT !.name = name, !.slug = slug, !.active = active, !.subcategories = topics]
  BY DEF Patched, name, slug, active, topics
<1>5. ASSUME NEW new, new = [cat EXCEPT !.name = name, !.slug = slug, !.active = active,
                                        !.subcategories = topics]
      PROVE  new = Category(cat.exists, name, slug, active, cat.removed, topics, cat.version)
  <2>1. cat = Category(cat.exists, cat.name, cat.slug, cat.active, cat.removed, cat.subcategories,
                       cat.version)
    BY CategoryTyped
  <2> QED BY <1>5, <2>1 DEF Category
<1>6. cat.exists \in BOOLEAN /\ cat.removed \in BOOLEAN /\ cat.version \in Nat
  BY CategoryTyped
<1>7. ASSUME NEW new, new = Category(cat.exists, name, slug, active, cat.removed, topics, cat.version)
      PROVE  /\ CategoryDoc(new) /\ new.exists = cat.exists /\ new.version = cat.version
             /\ new.subcategories = topics
  <2>1. CategoryDoc(new)
    BY <1>2, <1>3, <1>6, <1>7, CategoryIs
  <2>2. /\ new.exists = cat.exists /\ new.version = cat.version
        /\ new.subcategories = topics
    BY <1>7, CategoryParts
  <2> QED BY <2>1, <2>2
<1> QED BY <1>4, <1>5, <1>7, <1>8

LEMMA WriteCategoryStep ==
  ASSUME CatalogueInv, NEW r \in Request, WriteCategory(r)
  PROVE  CatalogueInv'
<1> DEFINE c == req[r].target
           new == Patched(categories[c], req[r].body)
<1>1. /\ InFlight(r) /\ courses' = courses /\ req[r].body \in CategoryChange
      /\ req[r].body.topics = None \/ req[r].op = "relistTopics"
  BY DEF WriteCategory, At, InFlight, Replies, CatalogueInv, CatalogueCall
<1>2. \/ categories' = categories /\ \E reply \in Replies : Ends(r, reply)
      \/ categories[c].exists /\ categories' = [categories EXCEPT ![c] = new] /\ Ends(r, "ok")
  BY DEF WriteCategory, Replies
<1>3. CASE categories' = categories /\ \E reply \in Replies : Ends(r, reply)
  BY <1>1, <1>3, CatalogueEndsQuietly DEF catalogueDocs
<1>4. CASE categories[c].exists /\ categories' = [categories EXCEPT ![c] = new] /\ Ends(r, "ok")
  <2>1. Proceeds(r) /\ req'[r] = Call(req[r].op, "ok", None, None, {}, None, 0)
    BY <1>1, <1>4, CatalogueEnds
  <2>2. IsCall(req'[r]) /\ req'[r].pc = "ok"
    BY <2>1, PartsOf
  <2>3. CatalogueCall(r)' /\ SerialCall(r)' /\ \A d \in CategoryId : ~MayMake(r, d)'
    BY <2>2, CatalogueQuiet DEF Replies
  <2>4. CASE c \in CategoryId
    <3>1. CategoryDoc(categories[c])
      BY <2>4 DEF CatalogueInv, CatalogueDocs
    <3>2. /\ CategoryDoc(new) /\ new.version = categories[c].version
          /\ req[r].body.topics = None => new.subcategories = categories[c].subcategories
          /\ categories[c].version \in Nat
      BY <1>1, <3>1, PatchedDoc, CategoryTyped
    <3>5. ~Relists' => req[r].body.topics = None
      <4>1. ~Relists' => ~Relists
        BY <2>1, RelistsBefore
      <4> QED BY <1>1, <4>1 DEF Relists
    <3>3. PICK d, doc : d = c /\ doc = new
      OBVIOUS
    <3> HIDE DEF c, new
    <3>4. /\ d \in CategoryId /\ CategoryDoc(doc) /\ categories' = [categories EXCEPT ![d] = doc]
          /\ categories[d].exists /\ categories[d].version <= doc.version
          /\ ~Relists' => categories[d].subcategories = doc.subcategories
      BY <1>4, <2>4, <3>2, <3>3, <3>5
    <3> QED BY <1>1, <2>1, <2>3, <3>4, CategoryStored
  <2>5. CASE c \notin CategoryId
    <3>1. categories' = categories
      <4>1. categories = [d \in CategoryId |-> categories[d]]
        BY DEF CatalogueInv, CatalogueDocs
      <4> QED BY <1>4, <2>5, <4>1
    <3> QED BY <1>1, <1>4, <3>1, CatalogueEndsQuietly DEF Replies, catalogueDocs
  <2> QED BY <2>4, <2>5
<1> QED BY <1>2, <1>3, <1>4


\* A removal: the document goes, or is marked.
LEMMA RemoveCategoryStep ==
  ASSUME CatalogueInv, NEW r \in Request, RemoveCategory(r)
  PROVE  CatalogueInv'
<1>0. UNCHANGED catalogueDocs
  BY DEF RemoveCategory
<1>1. PICK c \in CategoryId, op \in {"unshelve", "hardRemove"} :
        Begins(r, op, [Fresh EXCEPT !.pc = op, !.target = c])
  BY DEF RemoveCategory
<1>2. Proceeds(r) /\ req'[r] = [[Fresh EXCEPT !.pc = op, !.target = c] EXCEPT !.op = op]
  BY <1>1, CatalogueBegins
<1>3. ASSUME NEW call, call = [[Fresh EXCEPT !.pc = op, !.target = c] EXCEPT !.op = op]
      PROVE  call = Call(op, op, c, None, {}, None, 0)
  BY <1>3 DEF Fresh, Call
<1>4. IsCall(req'[r]) /\ req'[r].op = op /\ req'[r].pc = op
  BY <1>2, <1>3, PartsOf
<1>5. CatalogueCall(r)' /\ SerialCall(r)' /\ \A d \in CategoryId : ~MayMake(r, d)'
  BY <1>4, CatalogueQuiet
<1> QED BY <1>0, <1>2, <1>5, CatalogueStays

LEMMA SoftDeleteStep ==
  ASSUME CatalogueInv, NEW r \in Request, SoftDelete(r)
  PROVE  CatalogueInv'
<1> DEFINE c == req[r].target
           new == [categories[c] EXCEPT !.active = FALSE, !.removed = TRUE]
<1>1. InFlight(r) /\ courses' = courses /\ Ends(r, "ok")
  BY DEF SoftDelete, At, InFlight, Replies
<1>2. \/ categories' = categories
      \/ categories[c].exists /\ categories' = [categories EXCEPT ![c] = new]
  <2>1. CASE ~categories[c].exists
    BY <2>1 DEF SoftDelete
  <2>2. CASE categories[c].exists
    <3>1. categories' = [categories EXCEPT ![c].active = FALSE, ![c].removed = TRUE]
      BY <2>2 DEF SoftDelete
    <3>2. [categories EXCEPT ![c].active = FALSE, ![c].removed = TRUE] = [categories EXCEPT ![c] = new]
      OBVIOUS
    <3> QED BY <2>2, <3>1, <3>2
  <2> QED BY <2>1, <2>2
<1>3. CASE categories' = categories
  BY <1>1, <1>3, CatalogueEndsQuietly DEF Replies, catalogueDocs
<1>4. CASE categories[c].exists /\ categories' = [categories EXCEPT ![c] = new]
  <2>1. Proceeds(r) /\ req'[r] = Call(req[r].op, "ok", None, None, {}, None, 0)
    BY <1>1, CatalogueEnds
  <2>2. IsCall(req'[r]) /\ req'[r].pc = "ok"
    BY <2>1, PartsOf
  <2>3. CatalogueCall(r)' /\ SerialCall(r)' /\ \A d \in CategoryId : ~MayMake(r, d)'
    BY <2>2, CatalogueQuiet DEF Replies
  <2>4. CASE c \in CategoryId
    <3>1. CategoryDoc(categories[c])
      BY <2>4 DEF CatalogueInv, CatalogueDocs
    <3>2. ASSUME NEW cat, CategoryDoc(cat), NEW doc,
                 doc = [cat EXCEPT !.active = FALSE, !.removed = TRUE]
          PROVE  /\ CategoryDoc(doc) /\ cat.version <= doc.version
                 /\ cat.subcategories = doc.subcategories
      <4>1. /\ cat = Category(cat.exists, cat.name, cat.slug, cat.active, cat.removed,
                               cat.subcategories, cat.version)
            /\ cat.exists \in BOOLEAN /\ cat.subcategories \in Seq(Topic) /\ cat.version \in Nat
            /\ cat.exists => cat.name \in Title /\ IsSlug(cat.slug)
        BY <3>2, CategoryTyped
      <4>2. doc = Category(cat.exists, cat.name, cat.slug, FALSE, TRUE, cat.subcategories, cat.version)
        BY <3>2, <4>1 DEF Category
      <4>3. CategoryDoc(doc)
        BY <4>1, <4>2, CategoryIs
      <4>4. doc.version = cat.version /\ doc.subcategories = cat.subcategories
        BY <4>2 DEF Category
      <4> QED BY <4>1, <4>3, <4>4
    <3>3. PICK d, doc : d = c /\ doc = new
      OBVIOUS
    <3>4. /\ d \in CategoryId /\ CategoryDoc(doc) /\ categories' = [categories EXCEPT ![d] = doc]
          /\ categories[d].exists /\ categories[d].version <= doc.version
          /\ categories[d].subcategories = doc.subcategories
      BY <1>4, <2>4, <3>1, <3>2, <3>3
    <3> HIDE DEF c, new
    <3> QED BY <1>1, <2>1, <2>3, <3>4, CategoryStored
  <2>5. CASE c \notin CategoryId
    <3>1. categories' = categories
      <4>1. categories = [d \in CategoryId |-> categories[d]]
        BY DEF CatalogueInv, CatalogueDocs
      <4> QED BY <1>4, <2>5, <4>1
    <3> QED BY <1>1, <3>1, CatalogueEndsQuietly DEF Replies, catalogueDocs
  <2> QED BY <2>4, <2>5
<1> QED BY <1>2, <1>3, <1>4

LEMMA HardDeleteStep ==
  ASSUME CatalogueInv, NEW r \in Request, HardDelete(r)
  PROVE  CatalogueInv'
<1> DEFINE c == req[r].target
<1>1. /\ InFlight(r) /\ courses' = courses /\ Ends(r, "ok")
      /\ categories' = [categories EXCEPT ![c] = NoCategory]
  BY DEF HardDelete, At, InFlight, Replies
<1>2. Proceeds(r) /\ req'[r] = Call(req[r].op, "ok", None, None, {}, None, 0)
  BY <1>1, CatalogueEnds
<1>3. IsCall(req'[r]) /\ req'[r].pc = "ok"
  BY <1>2, PartsOf
<1>4. CatalogueCall(r)' /\ SerialCall(r)' /\ \A d \in CategoryId : ~MayMake(r, d)'
  BY <1>3, CatalogueQuiet DEF Replies
<1>5. PICK d, doc : d = c /\ doc = NoCategory
  OBVIOUS
<1>6. CASE c \in CategoryId
  <2>1. CategoryDoc(doc) /\ ~doc.exists
    <3>1. doc = Category(FALSE, None, None, FALSE, FALSE, <<>>, 0)
      BY <1>5 DEF NoCategory, Category
    <3>2. <<>> \in Seq(Topic)
      OBVIOUS
    <3>3. CategoryDoc(doc)
      BY <3>1, <3>2, CategoryIs
    <3>4. ~doc.exists
      BY <3>1 DEF Category
    <3> QED BY <3>3, <3>4
  <2>2. d \in CategoryId /\ categories' = [categories EXCEPT ![d] = doc]
    BY <1>1, <1>5, <1>6
  <2> HIDE DEF c
  <2> QED BY <1>1, <1>2, <1>4, <2>1, <2>2, CategoryStored
<1>7. CASE c \notin CategoryId
  <2>1. categories' = categories
    <3>1. categories = [e \in CategoryId |-> categories[e]]
      BY DEF CatalogueInv, CatalogueDocs
    <3> QED BY <1>1, <1>7, <3>1
  <2> QED BY <1>1, <2>1, CatalogueEndsQuietly DEF Replies, catalogueDocs
<1> QED BY <1>6, <1>7

LEMMA ChangeSubcategoryStep ==
  ASSUME CatalogueInv, NEW r \in Request, ChangeSubcategory(r)
  PROVE  CatalogueInv'
<1>0. UNCHANGED catalogueDocs
  BY DEF ChangeSubcategory
<1>1. PICK c \in CategoryId, topic \in Topic, op \in {"addTopic", "dropTopic"} :
        /\ categories[c].exists
        /\ \/ Begins(r, op, Answer("error"))
           \/ /\ op = "dropTopic" =>
                   \E i \in DOMAIN categories[c].subcategories : categories[c].subcategories[i] = topic
              /\ Begins(r, op, [Fresh EXCEPT !.pc = op, !.target = c,
                                  !.body = [topic |-> topic, was |-> categories[c]]])
  BY DEF ChangeSubcategory
<1> DEFINE body == [topic |-> topic, was |-> categories[c]]
           start == [Fresh EXCEPT !.pc = op, !.target = c, !.body = body]
<1>2. CASE Begins(r, op, Answer("error"))
  BY <1>0, <1>2, CatalogueAnswers DEF Replies
<1>3. CASE /\ op = "dropTopic" =>
                \E i \in DOMAIN categories[c].subcategories : categories[c].subcategories[i] = topic
           /\ Begins(r, op, start)
  <2>1. Proceeds(r) /\ req'[r] = [start EXCEPT !.op = op]
    BY <1>3, CatalogueBegins
  <2>2. ASSUME NEW call, call = [start EXCEPT !.op = op]
        PROVE  call = Call(op, op, c, body, {}, None, 0)
    <3> HIDE DEF body
    <3> QED BY <2>2 DEF Fresh, Call
  <2>3. /\ IsCall(req'[r]) /\ req'[r].op = op /\ req'[r].pc = op /\ req'[r].target = c
        /\ req'[r].body = body
    <3> HIDE DEF body
    <3> QED BY <2>1, <2>2, PartsOf
  <2>4. \A d \in CategoryId : ~MayMake(r, d)'
    BY <2>3 DEF MayMake, At
  <2>5. CatalogueCall(r)'
    <3>1. CASE op = "addTopic"
      BY <2>3, <3>1 DEF CatalogueCall, Probers, At
    <3>2. CASE op = "dropTopic"
      <4>1. CategoryDoc(categories[c]) /\ categories' = categories
        BY <1>0 DEF CatalogueInv, CatalogueDocs, catalogueDocs
      <4>2. categories[c].version \in Nat /\ categories[c].subcategories \in Seq(Topic)
        BY <4>1, CategoryTyped
      <4>3. \A q \in Request : ~MayMake(q, c)
        BY <1>1 DEF CatalogueInv, CatalogueDocs
      <4>4. \A q \in Request : ~MayMake(q, c)'
        <5>1. ASSUME NEW q \in Request \ {r} PROVE ~MayMake(q, c)'
          BY <2>1, <4>3, <5>1 DEF MayMake, At, Proceeds, OnlyCall
        <5> QED BY <2>4, <5>1
      <4>5. Spliced(categories'[c], categories[c])
        BY <4>1, <4>2 DEF Spliced
      <4>6. \E i \in DOMAIN categories[c].subcategories : categories[c].subcategories[i] = topic
        BY <1>3, <3>2
      <4>7. body.was = categories[c] /\ body.topic = topic
        OBVIOUS
      <4> HIDE DEF body
      <4>8. /\ req'[r].target \in CategoryId
            /\ req'[r].body.was.version \in Nat
            /\ req'[r].body.was.subcategories \in Seq(Topic)
            /\ \E i \in DOMAIN req'[r].body.was.subcategories :
                 req'[r].body.was.subcategories[i] = req'[r].body.topic
            /\ Spliced(categories'[req'[r].target], req'[r].body.was)
        BY <2>3, <4>2, <4>5, <4>6, <4>7
      <4>9. \A q \in Request : ~MayMake(q, req[r].target)'
        BY <2>3, <4>4 DEF MayMake
      <4> QED BY <2>3, <3>2, <4>8, <4>9 DEF CatalogueCall, Probers, At
    <3> QED BY <3>1, <3>2
  <2>6. SerialCall(r)'
    BY <2>3 DEF SerialCall
  <2> QED BY <1>0, <2>1, <2>4, <2>5, <2>6, CatalogueStays
<1> QED BY <1>1, <1>2, <1>3

\* A step that stores other subcategories of a category that is there.
LEMMA Relisted ==
  ASSUME CatalogueInv, NEW r \in Request, InFlight(r), Ends(r, "ok"), courses' = courses,
         NEW c, categories[c].exists, NEW subcategories,
         c \in CategoryId => subcategories \in Seq(Topic),
         categories' = [categories EXCEPT ![c].subcategories = subcategories, ![c].version = @ + 1]
  PROVE  CatalogueInv'
<1> DEFINE new == [categories[c] EXCEPT !.subcategories = subcategories,
                                        !.version = categories[c].version + 1]
<1>1. categories' = [categories EXCEPT ![c] = new]
  <2>1. categories = [d \in CategoryId |-> categories[d]]
    BY DEF CatalogueInv, CatalogueDocs
  <2>2. CASE c \in CategoryId
    BY <2>1, <2>2
  <2>3. CASE c \notin CategoryId
    BY <2>1, <2>3
  <2> QED BY <2>2, <2>3
<1>2. Proceeds(r) /\ req'[r] = Call(req[r].op, "ok", None, None, {}, None, 0)
  BY CatalogueEnds
<1>3. IsCall(req'[r]) /\ req'[r].pc = "ok"
  BY <1>2, PartsOf
<1>4. CatalogueCall(r)' /\ SerialCall(r)' /\ \A d \in CategoryId : ~MayMake(r, d)'
  BY <1>3, CatalogueQuiet DEF Replies
<1>5. CASE c \in CategoryId
  <2>1. CategoryDoc(categories[c]) /\ categories[c].version \in Nat
    BY <1>5, CategoryTyped DEF CatalogueInv, CatalogueDocs
  <2>2. PICK doc : doc = new
    OBVIOUS
  <2>3. CategoryDoc(doc) /\ doc.version = categories[c].version + 1
    <3>1. ASSUME NEW cat, CategoryDoc(cat), subcategories \in Seq(Topic),
                 doc = [cat EXCEPT !.subcategories = subcategories, !.version = cat.version + 1]
          PROVE  CategoryDoc(doc) /\ doc.version = cat.version + 1
      <4>1. /\ cat = Category(cat.exists, cat.name, cat.slug, cat.active, cat.removed,
                               cat.subcategories, cat.version)
            /\ cat.exists \in BOOLEAN /\ cat.active \in BOOLEAN /\ cat.removed \in BOOLEAN
            /\ cat.version \in Nat /\ cat.version + 1 \in Nat
            /\ cat.exists => cat.name \in Title /\ IsSlug(cat.slug)
        BY <3>1, CategoryTyped
      <4>2. doc = Category(cat.exists, cat.name, cat.slug, cat.active, cat.removed, subcategories,
                           cat.version + 1)
        BY <3>1, <4>1 DEF Category
      <4>3. CategoryDoc(doc)
        <5>1. PICK version \in Nat : version = cat.version + 1
          BY <4>1
        <5>2. doc = Category(cat.exists, cat.name, cat.slug, cat.active, cat.removed, subcategories,
                             version)
          BY <4>2, <5>1
        <5>3. PICK exists, active, removed \in BOOLEAN :
                exists = cat.exists /\ active = cat.active /\ removed = cat.removed
          BY <4>1
        <5>4. doc = Category(exists, cat.name, cat.slug, active, removed, subcategories, version)
          BY <5>2, <5>3
        <5>5. exists => cat.name \in Title /\ IsSlug(cat.slug)
          BY <4>1, <5>3
        <5> QED BY <3>1, <5>4, <5>5 DEF CategoryDoc
      <4>4. doc.version = cat.version + 1
        BY <4>2 DEF Category
      <4> QED BY <4>3, <4>4
    <3> QED BY <1>5, <2>1, <2>2, <3>1
  <2>4. categories' = [categories EXCEPT ![c] = doc]
    BY <1>1, <2>2
  <2> HIDE DEF new
  <2>5. /\ categories[c].version <= doc.version
        /\ categories[c].version = doc.version => categories[c].subcategories = doc.subcategories
    BY <2>1, <2>3
  <2> QED BY <1>2, <1>4, <1>5, <2>3, <2>4, <2>5, CategoryStored
<1>6. CASE c \notin CategoryId
  <2>1. categories' = categories
    <3>1. categories = [d \in CategoryId |-> categories[d]]
      BY DEF CatalogueInv, CatalogueDocs
    <3> QED BY <1>1, <1>6, <3>1
  <2> QED BY <2>1, CatalogueEndsQuietly DEF Replies, catalogueDocs
<1> QED BY <1>5, <1>6

LEMMA PushTopicStep ==
  ASSUME CatalogueInv, NEW r \in Request, PushTopic(r)
  PROVE  CatalogueInv'
<1>1. InFlight(r) /\ courses' = courses /\ req[r].body.topic \in Topic
  BY DEF PushTopic, At, InFlight, Replies, CatalogueInv, CatalogueCall
<1>2. PICK c : c = req[r].target
  OBVIOUS
<1>3. CASE ~categories[c].exists
  BY <1>1, <1>2, <1>3, CatalogueEndsQuietly DEF PushTopic, Replies, catalogueDocs
<1>4. CASE categories[c].exists
  <2>1. /\ categories' = [categories EXCEPT ![c].subcategories = Append(@, req[r].body.topic),
                                             ![c].version = @ + 1]
        /\ Ends(r, "ok")
    BY <1>2, <1>4 DEF PushTopic
  <2>2. PICK subcategories : subcategories = Append(categories[c].subcategories, req[r].body.topic)
    OBVIOUS
  <2>3. categories' = [categories EXCEPT ![c].subcategories = subcategories, ![c].version = @ + 1]
    BY <2>1, <2>2
  <2>4. ASSUME c \in CategoryId PROVE subcategories \in Seq(Topic)
    <3>1. categories[c].subcategories \in Seq(Topic)
      BY <2>4, CategoryTyped DEF CatalogueInv, CatalogueDocs
    <3> QED BY <1>1, <2>2, <3>1
  <2> QED BY <1>1, <1>4, <2>1, <2>3, <2>4, Relisted
<1> QED BY <1>3, <1>4

\* What is left of a list of topics is one.
LEMMA WithoutIsOne ==
  ASSUME NEW s \in Seq(Topic), NEW x, \E i \in DOMAIN s : s[i] = x
  PROVE  Without(s, x) \in Seq(Topic)
<1> DEFINE k == CHOOSE i \in DOMAIN s : s[i] = x /\ \A j \in 1 .. i - 1 : s[j] # x
<1>1. \E i \in DOMAIN s : s[i] = x /\ \A j \in 1 .. i - 1 : s[j] # x
  <2>1. PICK n \in Nat : DOMAIN s = 1 .. n
    OBVIOUS
  <2> QED BY <2>1, FirstPlace
<1>2. k \in 1 .. Len(s)
  <2>1. DOMAIN s = 1 .. Len(s)
    OBVIOUS
  <2> QED BY <1>1, <2>1
<1> HIDE DEF k
<1>3. SubSeq(s, 1, k - 1) \in Seq(Topic) /\ SubSeq(s, k + 1, Len(s)) \in Seq(Topic)
  BY <1>2
<1> QED BY <1>3 DEF Without, k

LEMMA SpliceTopicStep ==
  ASSUME CatalogueInv, NEW r \in Request, SpliceTopic(r)
  PROVE  CatalogueInv'
<1>1. /\ InFlight(r) /\ courses' = courses
      /\ req[r].body.was.subcategories \in Seq(Topic)
      /\ \E i \in DOMAIN req[r].body.was.subcategories :
           req[r].body.was.subcategories[i] = req[r].body.topic
  BY DEF SpliceTopic, At, InFlight, Replies, CatalogueInv, CatalogueCall
<1>2. PICK c : c = req[r].target
  OBVIOUS
<1>3. CASE ~(categories[c].exists /\ categories[c].version = req[r].body.was.version)
  BY <1>1, <1>2, <1>3, CatalogueEndsQuietly DEF SpliceTopic, Replies, catalogueDocs
<1>4. CASE categories[c].exists /\ categories[c].version = req[r].body.was.version
  <2>1. PICK subcategories :
          subcategories = Without(req[r].body.was.subcategories, req[r].body.topic)
    OBVIOUS
  <2>2. /\ categories' = [categories EXCEPT ![c].subcategories = subcategories, ![c].version = @ + 1]
        /\ Ends(r, "ok")
    BY <1>2, <1>4, <2>1 DEF SpliceTopic
  <2>3. subcategories \in Seq(Topic)
    BY <1>1, <2>1, WithoutIsOne
  <2> QED BY <1>1, <1>4, <2>2, <2>3, Relisted
<1> QED BY <1>3, <1>4

LEMMA BodyParts ==
  ASSUME NEW title, NEW slug, NEW category, NEW test, NEW body, body = Body(title, slug, category, test)
  PROVE  body.title = title /\ body.slug = slug /\ body.category = category /\ body.items = test
BY DEF Body

LEMMA CourseTyped ==
  ASSUME NEW course, CourseDoc(course)
  PROVE  /\ course.exists \in BOOLEAN /\ course.items \in BOOLEAN
         /\ course.exists =>
              course.title \in Title /\ IsSlug(course.slug) /\ course.category \in CategoryId
         /\ course = Course(course.exists, course.title, course.slug, course.category, course.items)
<1>1. PICK exists, test \in BOOLEAN : \E title, slug, category :
        /\ course = Course(exists, title, slug, category, test)
        /\ exists => title \in Title /\ IsSlug(slug) /\ category \in CategoryId
  BY DEF CourseDoc
<1>2. PICK title, slug, category :
        /\ course = Course(exists, title, slug, category, test)
        /\ exists => title \in Title /\ IsSlug(slug) /\ category \in CategoryId
  BY <1>1
<1>3. /\ course.exists = exists /\ course.title = title /\ course.slug = slug
      /\ course.category = category /\ course.items = test
  BY <1>2 DEF Course
<1> QED BY <1>2, <1>3

\* A call that makes or changes a course, part by part.
Prober(r, title, slug, category, test, todo, read, round) ==
  /\ req[r] = Call(req[r].op, req[r].pc, req[r].target, Body(title, slug, category, test),
                   todo, read, round)
  /\ req[r].body = Body(title, slug, category, test)
  /\ round \in Nat /\ todo \subseteq Title
  /\ title \in Title \/ (req[r].op = "recourse" /\ title = None)
  /\ IsSlug(slug) \/ (req[r].op = "recourse" /\ slug = None)
  /\ req[r].op # "recourse" => category # None

LEMMA ProberIs ==
  ASSUME CatalogueInv, NEW r \in Request, req[r].pc \in Probers
  PROVE  /\ InFlight(r) /\ req[r].target \in CourseId /\ req[r].op \in {"course", "recourse", "seed"}
         /\ \E title, slug, category, test, todo, read, round :
              Prober(r, title, slug, category, test, todo, read, round)
<1>1. /\ IsCall(req[r]) /\ req[r].target \in CourseId /\ req[r].op \in {"course", "recourse", "seed"}
      /\ req[r].round \in Nat /\ req[r].todo \subseteq Title
      /\ CourseBodyOf(req[r].body, req[r].op)
      /\ req[r].op # "recourse" => req[r].body.category # None
  BY DEF CatalogueInv, CatalogueCall
<1>2. PICK title, slug, category, test :
        /\ req[r].body = Body(title, slug, category, test)
        /\ title \in Title \/ (req[r].op = "recourse" /\ title = None)
        /\ IsSlug(slug) \/ (req[r].op = "recourse" /\ slug = None)
  BY <1>1 DEF CourseBodyOf
<1>3. PICK op, pc, target, body, todo, read, round :
        req[r] = Call(op, pc, target, body, todo, read, round)
  BY <1>1 DEF IsCall
<1>4. /\ req[r].op = op /\ req[r].pc = pc /\ req[r].target = target /\ req[r].body = body
      /\ req[r].todo = todo /\ req[r].round = round
  BY <1>3, PartsOf
<1>5. req[r].body.category = category
  BY <1>2, BodyParts
<1>6. Prober(r, title, slug, category, test, todo, read, round)
  BY <1>1, <1>2, <1>3, <1>4, <1>5 DEF Prober
<1>7. InFlight(r)
  BY DEF InFlight, Probers, Replies
<1> QED BY <1>1, <1>6, <1>7

\* What such a call may be after a step.
MayProbe(op, pc, target, title, slug, category, todo, round) ==
  /\ op \in {"course", "recourse", "seed"} /\ pc \in Probers /\ target \in CourseId
  /\ todo \subseteq Title /\ round \in Nat
  /\ title \in Title \/ (op = "recourse" /\ title = None)
  /\ IsSlug(slug) \/ (op = "recourse" /\ slug = None)
  /\ op # "recourse" => category # None
  /\ pc = "slugProbe" => IsSlug(slug)
  /\ pc \in {"courseInsert", "itemsInsert"} => op # "recourse" /\ category \in CategoryId
  /\ pc = "courseWrite" => op = "recourse" /\ category \in CategoryId \cup {None}

LEMMA ProberGoes ==
  ASSUME NEW r \in Request, NEW op, NEW pc, NEW target,
         NEW title, NEW slug, NEW category, NEW test, NEW todo, NEW read, NEW round,
         req'[r] = Call(op, pc, target, Body(title, slug, category, test), todo, read, round),
         MayProbe(op, pc, target, title, slug, category, todo, round)
  PROVE  /\ CatalogueCall(r)' /\ req'[r].pc = pc /\ req'[r].op = op /\ req'[r].target = target
         /\ req'[r].round = round
         /\ req'[r].body.title = title /\ req'[r].body.slug = slug
         /\ \A c \in CategoryId : ~MayMake(r, c)'
<1> DEFINE body == Body(title, slug, category, test)
<1>1. body.title = title /\ body.slug = slug /\ body.category = category
  BY BodyParts
<1>2. CourseBodyOf(body, op)
  BY DEF CourseBodyOf, MayProbe
<1> HIDE DEF body
<1>3. req'[r] = Call(op, pc, target, body, todo, read, round)
  BY DEF body
<1>4. /\ IsCall(req'[r]) /\ req'[r].pc = pc /\ req'[r].op = op /\ req'[r].target = target
      /\ req'[r].body = body /\ req'[r].todo = todo /\ req'[r].round = round
  BY <1>3, PartsOf
<1>5. CatalogueCall(r)'
  BY <1>1, <1>2, <1>4 DEF CatalogueCall, Probers, At, InFlight, Replies, MayProbe
<1>6. \A c \in CategoryId : ~MayMake(r, c)'
  BY <1>4 DEF MayMake, At, Probers, MayProbe
<1> QED BY <1>1, <1>4, <1>5, <1>6

\* The end of a call that makes a course, or of one round of a seed.
LEMMA FinishStep ==
  ASSUME CatalogueInv, NEW r \in Request, req[r].pc \in Probers, NEW reply \in Replies,
         Finish(r, reply)
  PROVE  /\ Proceeds(r) /\ CatalogueCall(r)' /\ SerialCall(r)' /\ req'[r].op = req[r].op
         /\ \A c \in CategoryId : ~MayMake(r, c)'
<1>1. InFlight(r) /\ req[r].op \in {"course", "recourse", "seed"}
  BY ProberIs
<1>2. CASE req[r].op # "seed"
  <2>1. Ends(r, reply)
    BY <1>2 DEF Finish
  <2>2. Proceeds(r) /\ req'[r] = Call(req[r].op, reply, None, None, {}, None, 0)
    BY <1>1, <2>1, CatalogueEnds
  <2>3. IsCall(req'[r]) /\ req'[r].pc \in Replies /\ req'[r].op = req[r].op
    BY <2>2, PartsOf
  <2> QED BY <2>2, <2>3, CatalogueQuiet
<1>3. CASE req[r].op = "seed"
  <2>1. PICK title, slug, category, test, todo, read, round :
          Prober(r, title, slug, category, test, todo, read, round)
    BY ProberIs
  <2>2. PICK body : body = Body(title, slug, category, test)
    OBVIOUS
  <2>3. PICK next :
          next = [req[r] EXCEPT !.pc = "seedCourse", !.target = None, !.round = 0,
                                !.todo = @ \ {req[r].body.title}]
    OBVIOUS
  <2>4. Becomes(r, next)
    BY <1>3, <2>3 DEF Finish
  <2>5. PICK rest : rest = todo \ {req[r].body.title}
    OBVIOUS
  <2>6. next = Call("seed", "seedCourse", None, body, rest, read, 0)
    <3>1. req[r] = Call("seed", req[r].pc, req[r].target, body, todo, read, round)
      BY <1>3, <2>1, <2>2 DEF Prober
    <3>2. req[r].todo = todo
      BY <3>1, PartsOf
    <3>3. next = [req[r] EXCEPT !.pc = "seedCourse", !.target = None, !.round = 0, !.todo = rest]
      BY <2>3, <2>5, <3>2
    <3>4. ASSUME NEW old, NEW pc, NEW target, old = Call("seed", pc, target, body, todo, read, round),
                 next = [old EXCEPT !.pc = "seedCourse", !.target = None, !.round = 0, !.todo = rest]
          PROVE  next = Call("seed", "seedCourse", None, body, rest, read, 0)
      BY <3>4 DEF Call
    <3> QED BY <3>1, <3>3, <3>4
  <2>7. next.op = "seed"
    BY <2>6, PartsOf
  <2>8. Proceeds(r) /\ req'[r] = next
    BY <1>1, <1>3, <2>4, <2>7, CatalogueBecomes
  <2>9. /\ IsCall(req'[r]) /\ req'[r].pc = "seedCourse" /\ req'[r].op = "seed"
        /\ req'[r].body = body /\ req'[r].todo = rest /\ req'[r].round = 0
    BY <2>6, <2>8, PartsOf
  <2>10. rest \subseteq Title /\ category # None
    BY <1>3, <2>1, <2>5 DEF Prober
  <2>11. CatalogueCall(r)'
    BY <2>2, <2>9, <2>10 DEF CatalogueCall, Probers, At, InFlight
  <2>12. SerialCall(r)' /\ \A c \in CategoryId : ~MayMake(r, c)'
    BY <2>9 DEF SerialCall, MayMake, At
  <2> QED BY <1>3, <2>8, <2>9, <2>11, <2>12
<1> QED BY <1>2, <1>3

\* A step that stores one course.
LEMMA CourseStored ==
  ASSUME CatalogueInv, NEW r \in Request, Proceeds(r), categories' = categories,
         NEW c \in CourseId, NEW new, CourseDoc(new), courses' = [courses EXCEPT ![c] = new],
         \A d \in CategoryId : MayMake(r, d)' => MayMake(r, d),
         CatalogueCall(r)', SerialCall(r)',
         OnlySeeds' => Seeded'
  PROVE  CatalogueInv'
<1>1. /\ courses' = [d \in CourseId |-> courses'[d]]
      /\ \A d \in CourseId : CourseDoc(courses'[d])
  BY DEF CatalogueInv, CatalogueDocs
<1>2. \A d \in CategoryId : CategoryDoc(categories[d])
  BY DEF CatalogueInv, CatalogueDocs
<1>3. \A d \in CategoryId : categories[d].version \in Nat
  BY <1>2, CategoryTyped
<1>4. ASSUME NEW d \in CategoryId, NEW q \in Request, MayMake(q, d)' PROVE ~categories'[d].exists
  <2>1. CASE q = r
    BY <1>4, <2>1 DEF CatalogueInv, CatalogueDocs
  <2>2. CASE q # r
    <3>1. MayMake(q, d)
      BY <1>4, <2>2 DEF MayMake, At, Proceeds, OnlyCall
    <3> QED BY <3>1 DEF CatalogueInv, CatalogueDocs
  <2> QED BY <2>1, <2>2
<1>5. CatalogueDocs'
  BY <1>1, <1>2, <1>4 DEF CatalogueInv, CatalogueDocs
<1>6. ASSUME NEW d \in CategoryId
      PROVE  \/ ~categories'[d].exists \/ MayMake(r, d)
             \/ /\ categories[d].exists /\ categories[d].version <= categories'[d].version
                /\ categories[d].version = categories'[d].version =>
                     categories[d].subcategories = categories'[d].subcategories
  BY <1>3
<1> QED BY <1>5, <1>6, CatalogueMove

LEMMA CreateCourseStep ==
  ASSUME CatalogueInv, NEW r \in Request, CreateCourse(r)
  PROVE  CatalogueInv'
<1>0. UNCHANGED catalogueDocs
  BY DEF CreateCourse
<1>1. PICK sent \in CourseBody :
        Begins(r, "course", Probing(<<r, sent.title>>, [sent EXCEPT !.slug = SlugOf(sent)]))
  BY DEF CreateCourse
<1>2. /\ sent.title \in Title /\ sent.category \in CategoryId \cup {Nowhere}
      /\ sent.slug = None \/ sent.slug \in Chosen
      /\ sent = Body(sent.title, sent.slug, sent.category, sent.items)
  BY DEF CourseBody, Body
<1>3. PICK slug : slug = SlugOf(sent)
  OBVIOUS
<1>4. IsSlug(slug)
  <2>1. IsSlug(<<sent.title>>)
    BY <1>2 DEF IsSlug
  <2> QED BY <1>2, <1>3, <2>1, CatalogueAssumption DEF SlugOf, generateSlug
<1>5. PICK body : body = Body(sent.title, slug, sent.category, sent.items)
  OBVIOUS
<1>6. [sent EXCEPT !.slug = SlugOf(sent)] = body
  BY <1>2, <1>3, <1>5 DEF Body
<1>7. PICK target : target = <<r, sent.title>>
  OBVIOUS
<1>8. Proceeds(r) /\ req'[r] = [Probing(target, body) EXCEPT !.op = "course"]
  BY <1>1, <1>6, <1>7, CatalogueBegins
<1>9. ASSUME NEW call, call = [Probing(target, body) EXCEPT !.op = "course"]
      PROVE  call = Call("course", "slugProbe", target, body, {}, None, 0)
  BY <1>9 DEF Probing, Fresh, Call
<1>10. req'[r] = Call("course", "slugProbe", target, Body(sent.title, slug, sent.category, sent.items),
                      {}, None, 0)
  BY <1>5, <1>8, <1>9
<1>11. sent.category # None /\ target \in CourseId
  BY <1>2, <1>7, CatalogueAssumption DEF CategoryId, CourseId
<1>12. /\ CatalogueCall(r)' /\ req'[r].pc = "slugProbe" /\ req'[r].op = "course"
       /\ \A c \in CategoryId : ~MayMake(r, c)'
  <2>1. MayProbe("course", "slugProbe", target, sent.title, slug, sent.category, {}, 0)
    BY <1>2, <1>4, <1>11 DEF MayProbe, Probers
  <2> QED BY <1>10, <2>1, ProberGoes
<1>13. SerialCall(r)'
  BY <1>12 DEF SerialCall, OnlySeeds
<1> QED BY <1>0, <1>8, <1>12, <1>13, CatalogueStays

\* A step from one await of such a call to the next.
Advances(r, call, pc, title, slug, category, test, todo, read, round) ==
  /\ Becomes(r, call)
  /\ call = Call(req[r].op, pc, req[r].target, Body(title, slug, category, test), todo, read, round)
  /\ MayProbe(req[r].op, pc, req[r].target, title, slug, category, todo, round)

LEMMA ProberAdvances ==
  ASSUME CatalogueInv, NEW r \in Request, req[r].pc \in Probers,
         NEW title, NEW slug, NEW category, NEW test, NEW todo, NEW read, NEW round, NEW pc,
         NEW call, Advances(r, call, pc, title, slug, category, test, todo, read, round)
  PROVE  /\ Proceeds(r) /\ CatalogueCall(r)' /\ req'[r].pc = pc /\ req'[r].op = req[r].op
         /\ req'[r].target = req[r].target /\ req'[r].round = round
         /\ req'[r].body.title = title /\ req'[r].body.slug = slug
         /\ \A c \in CategoryId : ~MayMake(r, c)'
<1>1. InFlight(r)
  BY ProberIs
<1>2. /\ Becomes(r, call)
      /\ call = Call(req[r].op, pc, req[r].target, Body(title, slug, category, test), todo, read, round)
      /\ MayProbe(req[r].op, pc, req[r].target, title, slug, category, todo, round)
  BY DEF Advances
<1>3. call.op = req[r].op
  BY <1>2, PartsOf
<1>4. Proceeds(r) /\ req'[r] = call
  BY <1>1, <1>2, <1>3, CatalogueBecomes
<1>5. req'[r] = Call(req[r].op, pc, req[r].target, Body(title, slug, category, test), todo, read, round)
  BY <1>2, <1>4
<1> QED BY <1>2, <1>4, <1>5, ProberGoes

\* The slug that one round of ensureUniqueSlug tries.
LEMMA CandidateIs ==
  ASSUME NEW slug, IsSlug(slug), NEW round \in Nat
  PROVE  IsSlug(Append(slug, round))
<1>1. /\ slug \in Seq(Title \cup Nat) /\ slug # <<>>
      /\ slug[1] \in Title /\ \A i \in 2 .. Len(slug) : slug[i] \in Nat
  BY DEF IsSlug
<1>2. PICK s : s = Append(slug, round)
  OBVIOUS
<1>3. /\ s \in Seq(Title \cup Nat) /\ Len(s) = Len(slug) + 1 /\ Len(slug) \in Nat /\ Len(slug) >= 1
      /\ s[Len(slug) + 1] = round /\ \A i \in 1 .. Len(slug) : s[i] = slug[i]
  BY <1>1, <1>2
<1>4. s # <<>> /\ s[1] \in Title
  BY <1>1, <1>3
<1>5. ASSUME NEW i \in 2 .. Len(s) PROVE s[i] \in Nat
  BY <1>1, <1>3
<1> QED BY <1>2, <1>3, <1>4, <1>5 DEF IsSlug

LEMMA ProbeSlugStep ==
  ASSUME CatalogueInv, NEW r \in Request, ProbeSlug(r)
  PROVE  CatalogueInv'
<1>0. UNCHANGED catalogueDocs /\ At(r, "slugProbe") /\ req[r].pc \in Probers /\ courses' = courses
  BY DEF ProbeSlug, At, Probers, catalogueDocs
<1>1. PICK title, slug, category, test, todo, read, round :
        Prober(r, title, slug, category, test, todo, read, round)
  BY <1>0, ProberIs
<1>2. /\ InFlight(r) /\ req[r].op \in {"course", "recourse", "seed"} /\ req[r].target \in CourseId
      /\ IsSlug(req[r].body.slug)
  BY <1>0, ProberIs DEF CatalogueInv, CatalogueCall
<1>3. /\ req[r] = Call(req[r].op, req[r].pc, req[r].target, Body(title, slug, category, test),
                       todo, read, round)
      /\ req[r].body.title = title /\ req[r].body.slug = slug /\ req[r].body.category = category
      /\ req[r].round = round /\ round \in Nat /\ todo \subseteq Title
      /\ title \in Title \/ (req[r].op = "recourse" /\ title = None)
      /\ req[r].op # "recourse" => category # None
  <2>1. req[r].body = Body(title, slug, category, test)
    BY <1>1 DEF Prober
  <2>2. req[r].round = round
    BY <1>1, PartsOf DEF Prober
  <2> QED BY <1>1, <2>1, <2>2, BodyParts DEF Prober
<1>4. PICK next : next = Candidate(r)
  OBVIOUS
<1>5. IsSlug(next)
  BY <1>2, <1>3, <1>4, CandidateIs DEF Candidate
<1>6. ASSUME OnlySeeds
      PROVE  /\ slug = generateSlug(title) /\ round = 0 /\ ~SlugTaken(None, slug) /\ next = slug
             /\ ~SlugTaken(req[r].target, next)
  <2>1. Unseeded(r)
    BY <1>0, <1>6 DEF CatalogueInv, SerialCall, At
  <2>2. slug = generateSlug(title) /\ round = 0 /\ ~SlugTaken(None, slug)
    BY <1>3, <2>1 DEF Unseeded
  <2>3. next = slug
    BY <1>3, <1>4, <2>2 DEF Candidate
  <2>4. None \notin CourseId
    BY CatalogueAssumption DEF CourseId
  <2>5. ~SlugTaken(req[r].target, slug)
    BY <2>2, <2>4 DEF SlugTaken
  <2> QED BY <2>2, <2>3, <2>5
<1>7. CASE SlugTaken(req[r].target, next)
  <2>1. PICK call : call = [req[r] EXCEPT !.round = @ + 1]
    OBVIOUS
  <2>2. PICK more \in Nat : more = round + 1
    BY <1>3
  <2>3. Becomes(r, call)
    BY <1>4, <1>7, <2>1 DEF ProbeSlug
  <2>4. call = Call(req[r].op, "slugProbe", req[r].target, Body(title, slug, category, test),
                    todo, read, more)
    <3>1. call = [req[r] EXCEPT !.round = more]
      BY <1>3, <2>1, <2>2
    <3>2. ASSUME NEW op, NEW target, NEW body, NEW old,
                 old = Call(op, "slugProbe", target, body, todo, read, round),
                 call = [old EXCEPT !.round = more]
          PROVE  call = Call(op, "slugProbe", target, body, todo, read, more)
      BY <3>2 DEF Call
    <3> QED BY <1>0, <1>3, <3>1, <3>2 DEF At
  <2>5. MayProbe(req[r].op, "slugProbe", req[r].target, title, slug, category, todo, more)
    BY <1>2, <1>3 DEF MayProbe, Probers
  <2>6. /\ Proceeds(r) /\ CatalogueCall(r)' /\ req'[r].pc = "slugProbe"
        /\ \A c \in CategoryId : ~MayMake(r, c)'
    <3>1. Advances(r, call, "slugProbe", title, slug, category, test, todo, read, more)
      BY <2>3, <2>4, <2>5 DEF Advances
    <3> QED BY <1>0, <3>1, ProberAdvances
  <2>7. ~OnlySeeds'
    BY <1>6, <1>7, <2>6, SeedsBefore
  <2>8. SerialCall(r)'
    BY <2>6, <2>7 DEF SerialCall
  <2> QED BY <1>0, <2>6, <2>8, CatalogueStays
<1>8. CASE ~SlugTaken(req[r].target, next) /\ Finish(r, "error")
  <2>1. /\ Proceeds(r) /\ CatalogueCall(r)' /\ SerialCall(r)'
        /\ \A c \in CategoryId : ~MayMake(r, c)'
    BY <1>0, <1>8, FinishStep DEF Replies
  <2> QED BY <1>0, <2>1, CatalogueStays
<1>9. ASSUME NEW pc \in {"courseWrite", "categoryCheck"}, ~SlugTaken(req[r].target, next),
             Becomes(r, [req[r] EXCEPT !.pc = pc, !.body.slug = Candidate(r)]),
             pc = "courseWrite" => category = None
      PROVE  CatalogueInv'
  <2>1. PICK call : call = [req[r] EXCEPT !.pc = pc, !.body.slug = next]
    OBVIOUS
  <2>2. Becomes(r, call)
    BY <1>4, <1>9, <2>1
  <2>3. call = Call(req[r].op, pc, req[r].target, Body(title, next, category, test), todo, read, round)
    <3>1. PICK op, was, target : op = req[r].op /\ was = req[r].pc /\ target = req[r].target
      OBVIOUS
    <3>2. PICK old : old = req[r]
      OBVIOUS
    <3>3. old = Call(op, was, target, Body(title, slug, category, test), todo, read, round)
      BY <1>3, <3>1, <3>2
    <3>4. call = [old EXCEPT !.pc = pc, !.body.slug = next]
      BY <2>1, <3>2
    <3>5. call = Call(op, pc, target, Body(title, next, category, test), todo, read, round)
      BY <3>3, <3>4 DEF Call, Body
    <3> QED BY <3>1, <3>5
  <2>4. pc = "courseWrite" => req[r].op = "recourse"
    BY <1>3, <1>9
  <2>5. MayProbe(req[r].op, pc, req[r].target, title, next, category, todo, round)
    BY <1>2, <1>3, <1>5, <1>9, <2>4 DEF MayProbe, Probers
  <2>6. /\ Proceeds(r) /\ CatalogueCall(r)' /\ req'[r].pc = pc /\ req'[r].target = req[r].target
        /\ req'[r].round = round /\ req'[r].body.title = title /\ req'[r].body.slug = next
        /\ \A c \in CategoryId : ~MayMake(r, c)'
    <3>1. Advances(r, call, pc, title, next, category, test, todo, read, round)
      BY <2>2, <2>3, <2>5 DEF Advances
    <3> QED BY <1>0, <3>1, ProberAdvances
  <2>7. OnlySeeds' => Unseeded(r)'
    <3>1. OnlySeeds' => OnlySeeds
      BY <2>6, SeedsBefore
    <3> QED BY <1>0, <1>6, <2>6, <3>1 DEF Unseeded, SlugTaken
  <2>8. SerialCall(r)'
    BY <2>7 DEF SerialCall
  <2> QED BY <1>0, <2>6, <2>8, CatalogueStays
<1> QED BY <1>3, <1>4, <1>7, <1>8, <1>9 DEF ProbeSlug

LEMMA CheckCategoryStep ==
  ASSUME CatalogueInv, NEW r \in Request, CheckCategory(r)
  PROVE  CatalogueInv'
<1>0. UNCHANGED catalogueDocs /\ At(r, "categoryCheck") /\ req[r].pc \in Probers /\ courses' = courses
  BY DEF CheckCategory, At, Probers, catalogueDocs
<1>1. PICK title, slug, category, test, todo, read, round :
        Prober(r, title, slug, category, test, todo, read, round)
  BY <1>0, ProberIs
<1>2. /\ InFlight(r) /\ req[r].op \in {"course", "recourse", "seed"} /\ req[r].target \in CourseId
  BY <1>0, ProberIs
<1>3. req[r].body.title = title /\ req[r].body.slug = slug /\ req[r].body.category = category
      /\ req[r].round = round
  <2>1. req[r].body = Body(title, slug, category, test)
    BY <1>1 DEF Prober
  <2>2. req[r].round = round
    BY <1>1, PartsOf DEF Prober
  <2> QED BY <2>1, <2>2, BodyParts
<1>4. CASE Finish(r, "error")
  <2>1. /\ Proceeds(r) /\ CatalogueCall(r)' /\ SerialCall(r)'
        /\ \A c \in CategoryId : ~MayMake(r, c)'
    BY <1>0, <1>4, FinishStep DEF Replies
  <2> QED BY <1>0, <2>1, CatalogueStays
<1>5. CASE /\ category \in CategoryId
           /\ Becomes(r, [req[r] EXCEPT !.pc = IF req[r].op = "recourse" THEN "courseWrite"
                                                                         ELSE "courseInsert"])
  <2>1. PICK pc : pc = IF req[r].op = "recourse" THEN "courseWrite" ELSE "courseInsert"
    OBVIOUS
  <2>2. PICK call : call = [req[r] EXCEPT !.pc = pc]
    OBVIOUS
  <2>3. Becomes(r, call)
    BY <1>5, <2>1, <2>2
  <2>4. call = Call(req[r].op, pc, req[r].target, Body(title, slug, category, test), todo, read, round)
    <3>1. ASSUME NEW op, NEW was, NEW target, NEW body, NEW old,
                 old = Call(op, was, target, body, todo, read, round), call = [old EXCEPT !.pc = pc]
          PROVE  call = Call(op, pc, target, body, todo, read, round)
      BY <3>1 DEF Call
    <3> QED BY <1>1, <2>2, <3>1 DEF Prober
  <2>5. MayProbe(req[r].op, pc, req[r].target, title, slug, category, todo, round)
    BY <1>1, <1>2, <1>5, <2>1 DEF MayProbe, Probers, Prober
  <2>6. /\ Proceeds(r) /\ CatalogueCall(r)' /\ req'[r].pc = pc /\ req'[r].target = req[r].target
        /\ req'[r].round = round /\ req'[r].body.title = title /\ req'[r].body.slug = slug
        /\ \A c \in CategoryId : ~MayMake(r, c)'
    <3>1. Advances(r, call, pc, title, slug, category, test, todo, read, round)
      BY <2>3, <2>4, <2>5 DEF Advances
    <3> QED BY <1>0, <3>1, ProberAdvances
  <2>7. OnlySeeds' => Unseeded(r)'
    <3>1. OnlySeeds' => OnlySeeds
      BY <2>6, SeedsBefore
    <3>2. OnlySeeds => Unseeded(r)
      BY <1>0 DEF CatalogueInv, SerialCall, At
    <3> QED BY <1>0, <1>3, <2>6, <3>1, <3>2 DEF Unseeded, SlugTaken
  <2>8. SerialCall(r)'
    BY <2>7 DEF SerialCall
  <2> QED BY <1>0, <2>6, <2>8, CatalogueStays
<1> QED BY <1>3, <1>4, <1>5 DEF CheckCategory

\* A course whose slug no other has joins those that seeds have stored.
LEMMA SeededGrows ==
  ASSUME CatalogueInv, OnlySeeds, NEW c \in CourseId, NEW title, NEW category,
         ~SlugTaken(None, generateSlug(title)),
         courses' = [courses EXCEPT ![c] = Course(TRUE, title, generateSlug(title), category, FALSE)]
  PROVE  Seeded'
<1> DEFINE new == Course(TRUE, title, generateSlug(title), category, FALSE)
<1>1. Seeded /\ courses = [d \in CourseId |-> courses[d]]
  BY DEF CatalogueInv, CatalogueDocs
<1>2. new.title = title /\ new.slug = generateSlug(title)
  BY DEF Course
<1> HIDE DEF new
<1>3. courses' = [courses EXCEPT ![c] = new]
  BY DEF new
<1>4. courses'[c] = new /\ \A d \in CourseId \ {c} : courses'[d] = courses[d]
  BY <1>1, <1>3
<1>5. None \notin CourseId
  BY CatalogueAssumption DEF CourseId
<1>6. ASSUME NEW d \in CourseId \ {c}, courses[d].exists PROVE courses[d].title # title
  <2>1. courses[d].slug = generateSlug(courses[d].title)
    BY <1>1, <1>6 DEF Seeded
  <2>2. courses[d].slug # generateSlug(title)
    BY <1>5, <1>6 DEF SlugTaken
  <2> QED BY <2>1, <2>2
<1>7. ASSUME NEW d \in CourseId, courses'[d].exists
      PROVE  courses'[d].slug = generateSlug(courses'[d].title)
  <2>1. CASE d = c
    BY <1>2, <1>4, <2>1
  <2>2. CASE d # c
    BY <1>1, <1>4, <1>7, <2>2 DEF Seeded
  <2> QED BY <2>1, <2>2
<1>8. ASSUME NEW d \in CourseId, NEW e \in CourseId, courses'[d].exists, courses'[e].exists,
             courses'[d].title = courses'[e].title
      PROVE  d = e
  <2>1. CASE d = c /\ e # c
    BY <1>2, <1>4, <1>6, <1>8, <2>1
  <2>2. CASE d # c /\ e = c
    BY <1>2, <1>4, <1>6, <1>8, <2>2
  <2>3. CASE d # c /\ e # c
    BY <1>1, <1>4, <1>8, <2>3 DEF Seeded
  <2> QED BY <2>1, <2>2, <2>3
<1> QED BY <1>7, <1>8 DEF Seeded

LEMMA InsertCourseStep ==
  ASSUME CatalogueInv, NEW r \in Request, InsertCourse(r)
  PROVE  CatalogueInv'
<1>0. categories' = categories /\ At(r, "courseInsert") /\ req[r].pc \in Probers
  BY DEF InsertCourse, At, Probers
<1>1. PICK title, slug, category, test, todo, read, round :
        Prober(r, title, slug, category, test, todo, read, round)
  BY <1>0, ProberIs
<1>2. PICK c \in CourseId : c = req[r].target
  BY <1>0, ProberIs
<1>3. req[r].body.title = title /\ req[r].body.slug = slug /\ req[r].body.category = category
      /\ req[r].body.items = test
  BY <1>1, BodyParts DEF Prober
<1>4. /\ title \in Title /\ IsSlug(slug) /\ category \in CategoryId
      /\ req[r].op # "recourse" /\ req[r].op \in {"course", "recourse", "seed"}
  <2>1. req[r].op # "recourse" /\ req[r].body.category \in CategoryId
    BY <1>0 DEF CatalogueInv, CatalogueCall, At
  <2> QED BY <1>0, <1>1, <1>3, <2>1, ProberIs DEF Prober
<1>5. CASE Finish(r, "error") /\ courses' = courses
  <2>1. /\ Proceeds(r) /\ CatalogueCall(r)' /\ SerialCall(r)'
        /\ \A d \in CategoryId : ~MayMake(r, d)'
    BY <1>0, <1>5, FinishStep DEF Replies
  <2> QED BY <1>0, <1>5, <2>1, CatalogueStays DEF catalogueDocs
<1>6. CASE /\ courses' = [courses EXCEPT ![req[r].target] =
                [exists |-> TRUE, title |-> req[r].body.title, slug |-> req[r].body.slug,
                 category |-> req[r].body.category, items |-> FALSE]]
           /\ Becomes(r, [req[r] EXCEPT !.pc = "itemsInsert"]) \/ Finish(r, "ok")
  <2>1. PICK new : new = Course(TRUE, title, slug, category, FALSE)
    OBVIOUS
  <2>2. courses' = [courses EXCEPT ![c] = new]
    BY <1>2, <1>3, <1>6, <2>1 DEF Course
  <2>3. CourseDoc(new)
    BY <1>4, <2>1 DEF CourseDoc
  <2>4. /\ Proceeds(r) /\ CatalogueCall(r)' /\ SerialCall(r)'
        /\ \A d \in CategoryId : ~MayMake(r, d)'
    <3>1. CASE Finish(r, "ok")
      BY <1>0, <3>1, FinishStep DEF Replies
    <3>2. CASE Becomes(r, [req[r] EXCEPT !.pc = "itemsInsert"])
      <4>1. PICK call : call = [req[r] EXCEPT !.pc = "itemsInsert"]
        OBVIOUS
      <4>2. Becomes(r, call)
        BY <3>2, <4>1
      <4>3. call = Call(req[r].op, "itemsInsert", req[r].target, Body(title, slug, category, test),
                        todo, read, round)
        <5>1. ASSUME NEW op, NEW was, NEW target, NEW body, NEW old,
                     old = Call(op, was, target, body, todo, read, round),
                     call = [old EXCEPT !.pc = "itemsInsert"]
              PROVE  call = Call(op, "itemsInsert", target, body, todo, read, round)
          BY <5>1 DEF Call
        <5> QED BY <1>1, <4>1, <5>1 DEF Prober
      <4>4. MayProbe(req[r].op, "itemsInsert", req[r].target, title, slug, category, todo, round)
        BY <1>1, <1>2, <1>4 DEF MayProbe, Probers, Prober
      <4>5. Advances(r, call, "itemsInsert", title, slug, category, test, todo, read, round)
        BY <4>2, <4>3, <4>4 DEF Advances
      <4>6. /\ Proceeds(r) /\ CatalogueCall(r)' /\ req'[r].pc = "itemsInsert"
            /\ \A d \in CategoryId : ~MayMake(r, d)'
        BY <1>0, <4>5, ProberAdvances
      <4>7. SerialCall(r)'
        BY <4>6 DEF SerialCall
      <4> QED BY <4>6, <4>7
    <3> QED BY <1>6, <3>1, <3>2
  <2>5. ASSUME OnlySeeds' PROVE Seeded'
    <3>1. OnlySeeds
      BY <2>4, <2>5, SeedsBefore
    <3>2. slug = generateSlug(title) /\ ~SlugTaken(None, slug)
      BY <1>0, <1>3, <3>1 DEF CatalogueInv, SerialCall, Unseeded, At
    <3> QED BY <2>1, <2>2, <3>1, <3>2, SeededGrows
  <2> QED BY <1>0, <2>2, <2>3, <2>4, <2>5, CourseStored
<1> QED BY <1>5, <1>6 DEF InsertCourse

LEMMA InsertItemsStep ==
  ASSUME CatalogueInv, NEW r \in Request, InsertItems(r)
  PROVE  CatalogueInv'
<1>0. categories' = categories /\ At(r, "itemsInsert") /\ req[r].pc \in Probers
  BY DEF InsertItems, At, Probers
<1>1. PICK c \in CourseId : c = req[r].target
  BY <1>0, ProberIs
<1>2. CourseDoc(courses[c]) /\ courses = [d \in CourseId |-> courses[d]]
  BY DEF CatalogueInv, CatalogueDocs
<1>3. PICK test \in BOOLEAN : test = (courses[c].items \/ courses[c].exists)
  OBVIOUS
<1>4. PICK new : new = [courses[c] EXCEPT !.items = test]
  OBVIOUS
<1>5. courses' = [courses EXCEPT ![c] = new]
  <2>1. courses' = [courses EXCEPT ![c].items = @ \/ courses[c].exists]
    BY <1>1 DEF InsertItems
  <2> QED BY <1>2, <1>3, <1>4, <2>1
<1>6. /\ CourseDoc(new) /\ new.exists = courses[c].exists /\ new.title = courses[c].title
      /\ new.slug = courses[c].slug
  <2>1. ASSUME NEW old, CourseDoc(old), new = [old EXCEPT !.items = test]
        PROVE  /\ CourseDoc(new) /\ new.exists = old.exists /\ new.title = old.title
               /\ new.slug = old.slug
    <3>1. PICK exists \in BOOLEAN, was \in BOOLEAN : \E title, slug, category :
            /\ old = Course(exists, title, slug, category, was)
            /\ exists => title \in Title /\ IsSlug(slug) /\ category \in CategoryId
      BY <2>1 DEF CourseDoc
    <3>2. PICK title, slug, category :
            /\ old = Course(exists, title, slug, category, was)
            /\ exists => title \in Title /\ IsSlug(slug) /\ category \in CategoryId
      BY <3>1
    <3>3. new = Course(exists, title, slug, category, test)
      BY <2>1, <3>2 DEF Course
    <3>4. CourseDoc(new)
      BY <3>2, <3>3 DEF CourseDoc
    <3>5. new.exists = old.exists /\ new.title = old.title /\ new.slug = old.slug
      BY <3>2, <3>3 DEF Course
    <3> QED BY <3>4, <3>5
  <2> QED BY <1>2, <1>4, <2>1
<1>7. /\ Proceeds(r) /\ CatalogueCall(r)' /\ SerialCall(r)'
      /\ \A d \in CategoryId : ~MayMake(r, d)'
  BY <1>0, FinishStep DEF Replies, InsertItems
<1>8. ASSUME OnlySeeds' PROVE Seeded'
  <2>1. Seeded
    BY <1>7, <1>8, SeedsBefore DEF CatalogueInv
  <2>2. \A d \in CourseId :
          /\ courses'[d].exists = courses[d].exists /\ courses'[d].title = courses[d].title
          /\ courses'[d].slug = courses[d].slug
    BY <1>2, <1>5, <1>6
  <2> QED BY <2>1, <2>2 DEF Seeded
<1> QED BY <1>0, <1>5, <1>6, <1>7, <1>8, CourseStored

\* A step that is none of a seed.
LEMMA NoSeed ==
  ASSUME NEW r \in Request, req'[r].op \notin {"none", "seed", "pricing"}
  PROVE  ~OnlySeeds'
BY DEF OnlySeeds

LEMMA WriteCourseStep ==
  ASSUME CatalogueInv, NEW r \in Request, WriteCourse(r)
  PROVE  CatalogueInv'
<1>0. categories' = categories /\ At(r, "courseWrite") /\ req[r].pc \in Probers
  BY DEF WriteCourse, At, Probers
<1>1. PICK title, slug, category, test, todo, read, round :
        Prober(r, title, slug, category, test, todo, read, round)
  BY <1>0, ProberIs
<1>2. PICK c \in CourseId : c = req[r].target
  BY <1>0, ProberIs
<1>3. InFlight(r) /\ req[r].op = "recourse" /\ req[r].body.category \in CategoryId \cup {None}
  BY <1>0, ProberIs DEF CatalogueInv, CatalogueCall, At
<1>4. /\ req[r].body.title = title /\ req[r].body.slug = slug /\ req[r].body.category = category
      /\ title \in Title \cup {None} /\ (slug = None \/ IsSlug(slug))
  BY <1>1, BodyParts DEF Prober
<1>5. CASE courses' = courses /\ \E reply \in Replies : Ends(r, reply)
  BY <1>0, <1>3, <1>5, CatalogueEndsQuietly DEF catalogueDocs
<1>6. CASE /\ courses' = [courses EXCEPT ![c] = Changed(courses[c], req[r].body)]
           /\ Ends(r, "ok")
  <2>1. Proceeds(r) /\ req'[r] = Call(req[r].op, "ok", None, None, {}, None, 0)
    BY <1>3, <1>6, CatalogueEnds
  <2>2. IsCall(req'[r]) /\ req'[r].pc = "ok" /\ req'[r].op = "recourse"
    BY <1>3, <2>1, PartsOf
  <2>3. CatalogueCall(r)' /\ SerialCall(r)' /\ \A d \in CategoryId : ~MayMake(r, d)'
    BY <2>2, CatalogueQuiet DEF Replies
  <2>4. PICK new : new = Changed(courses[c], req[r].body)
    OBVIOUS
  <2>5. CourseDoc(new)
    <3>1. CourseDoc(courses[c])
      BY DEF CatalogueInv, CatalogueDocs
    <3>2. PICK exists, was \in BOOLEAN : \E t, s, k :
            /\ courses[c] = Course(exists, t, s, k, was)
            /\ exists => t \in Title /\ IsSlug(s) /\ k \in CategoryId
      BY <3>1 DEF CourseDoc
    <3>3. PICK t, s, k :
            /\ courses[c] = Course(exists, t, s, k, was)
            /\ exists => t \in Title /\ IsSlug(s) /\ k \in CategoryId
      BY <3>2
    <3>4. PICK t1 : t1 = IF title = None THEN t ELSE title
      OBVIOUS
    <3>5. PICK s1 : s1 = IF slug = None THEN s ELSE slug
      OBVIOUS
    <3>6. PICK k1 : k1 = IF category = None THEN k ELSE category
      OBVIOUS
    <3>7. PICK old : old = courses[c]
      OBVIOUS
    <3>8. old = Course(exists, t, s, k, was)
      BY <3>3, <3>7
    <3>9. old.title = t /\ old.slug = s /\ old.category = k
      BY <3>8 DEF Course
    <3>10. new = [old EXCEPT !.title = t1, !.slug = s1, !.category = k1]
      BY <1>4, <2>4, <3>4, <3>5, <3>6, <3>7, <3>9 DEF Changed
    <3>11. new = Course(exists, t1, s1, k1, was)
      BY <3>8, <3>10 DEF Course
    <3>12. exists => t1 \in Title /\ IsSlug(s1) /\ k1 \in CategoryId
      BY <1>3, <1>4, <3>3, <3>4, <3>5, <3>6
    <3> QED BY <3>11, <3>12 DEF CourseDoc
  <2>6. courses' = [courses EXCEPT ![c] = new]
    BY <1>6, <2>4
  <2>7. ~OnlySeeds'
    BY <2>2, NoSeed
  <2> QED BY <1>0, <2>1, <2>3, <2>5, <2>6, <2>7, CourseStored
<1> QED BY <1>2, <1>5, <1>6 DEF WriteCourse, Replies

LEMMA RemoveCourseStep ==
  ASSUME CatalogueInv, NEW r \in Request, RemoveCourse(r)
  PROVE  CatalogueInv'
<1>1. PICK c \in CourseId : courses' = [courses EXCEPT ![c] = NoCourse]
  BY DEF RemoveCourse
<1>2. categories' = categories /\ Begins(r, "uncourse", Answer("ok"))
  BY DEF RemoveCourse
<1>3. Proceeds(r) /\ req'[r] = [Answer("ok") EXCEPT !.op = "uncourse"]
  BY <1>2, CatalogueBegins
<1>4. req'[r] = Call("uncourse", "ok", None, None, {}, None, 0)
  BY <1>3, Ended
<1>5. IsCall(req'[r]) /\ req'[r].pc = "ok" /\ req'[r].op = "uncourse"
  BY <1>4, PartsOf
<1>6. CatalogueCall(r)' /\ SerialCall(r)' /\ \A d \in CategoryId : ~MayMake(r, d)'
  BY <1>5, CatalogueQuiet DEF Replies
<1>7. PICK new : new = NoCourse
  OBVIOUS
<1>8. CourseDoc(new)
  <2>1. new = Course(FALSE, None, None, None, FALSE)
    BY <1>7 DEF NoCourse, Course
  <2> QED BY <2>1 DEF CourseDoc
<1>9. ~OnlySeeds'
  BY <1>5, NoSeed
<1> QED BY <1>1, <1>2, <1>3, <1>6, <1>7, <1>8, <1>9, CourseStored

LEMMA UpdateCourseStep ==
  ASSUME CatalogueInv, NEW r \in Request, UpdateCourse(r)
  PROVE  CatalogueInv'
<1>0. UNCHANGED catalogueDocs
  BY DEF UpdateCourse
<1>1. PICK c \in CourseId, ch \in CourseChange :
        LET course == courses[c]
            body == [ch EXCEPT !.category = IF @ = course.category THEN None ELSE @]
            retitled == ch.title \notin {None, course.title}
            reslugged == ch.slug \notin {None, course.slug} IN
        Begins(r, "recourse",
          IF retitled \/ reslugged
            THEN Probing(c, [body EXCEPT !.slug = SlugOf(body)])
          ELSE IF body.category # None
            THEN [Probing(c, body) EXCEPT !.pc = "categoryCheck"]
            ELSE [Probing(c, body) EXCEPT !.pc = "courseWrite"])
  BY DEF UpdateCourse
<1>2. /\ ch.title = None \/ (ch.title \in Title /\ ch.slug = None /\ ch.category = None)
      /\ ch.slug = None \/ (ch.slug \in Chosen /\ ch.title = None /\ ch.category = None)
      /\ ch.category \in CategoryId \cup {Nowhere, None}
      /\ ch.category # None => ch.title = None /\ ch.slug = None
      /\ ch = Body(ch.title, ch.slug, ch.category, ch.items)
  BY DEF CourseChange, Body
<1>3. PICK category : category = IF ch.category = courses[c].category THEN None ELSE ch.category
  OBVIOUS
<1>4. PICK body : body = Body(ch.title, ch.slug, category, ch.items)
  OBVIOUS
<1>5. [ch EXCEPT !.category = IF @ = courses[c].category THEN None ELSE @] = body
  BY <1>2, <1>3, <1>4 DEF Body
<1>6. body.title = ch.title /\ body.slug = ch.slug /\ body.category = category
  BY <1>4, BodyParts
<1>7. \/ Begins(r, "recourse", Probing(c, [body EXCEPT !.slug = SlugOf(body)]))
         /\ (ch.title # None \/ ch.slug # None)
      \/ Begins(r, "recourse", [Probing(c, body) EXCEPT !.pc = "categoryCheck"]) /\ category # None
      \/ Begins(r, "recourse", [Probing(c, body) EXCEPT !.pc = "courseWrite"]) /\ category = None
  BY <1>1, <1>5, <1>6
<1>8. category # None => category = ch.category
  BY <1>3
<1>9. ch.slug # None => IsSlug(ch.slug)
  BY <1>2, CatalogueAssumption
<1>10. CASE /\ Begins(r, "recourse", Probing(c, [body EXCEPT !.slug = SlugOf(body)]))
            /\ ch.title # None \/ ch.slug # None
  <2>1. PICK slug : slug = SlugOf(body)
    OBVIOUS
  <2>2. IsSlug(slug)
    <3>1. CASE ch.slug # None
      BY <1>6, <1>9, <2>1, <3>1 DEF SlugOf
    <3>2. CASE ch.slug = None
      <4>1. ch.title \in Title
        BY <1>2, <1>10, <3>2
      <4>2. IsSlug(<<ch.title>>)
        BY <4>1 DEF IsSlug
      <4> QED BY <1>6, <2>1, <3>2, <4>2 DEF SlugOf, generateSlug
    <3> QED BY <3>1, <3>2
  <2>3. PICK sent : sent = Body(ch.title, slug, category, ch.items)
    OBVIOUS
  <2>4. [body EXCEPT !.slug = SlugOf(body)] = sent
    BY <1>4, <2>1, <2>3 DEF Body
  <2>5. Proceeds(r) /\ req'[r] = [Probing(c, sent) EXCEPT !.op = "recourse"]
    BY <1>10, <2>4, CatalogueBegins
  <2>6. ASSUME NEW call, call = [Probing(c, sent) EXCEPT !.op = "recourse"]
        PROVE  call = Call("recourse", "slugProbe", c, sent, {}, None, 0)
    BY <2>6 DEF Probing, Fresh, Call
  <2>7. req'[r] = Call("recourse", "slugProbe", c, Body(ch.title, slug, category, ch.items), {}, None, 0)
    BY <2>3, <2>5, <2>6
  <2>8. MayProbe("recourse", "slugProbe", c, ch.title, slug, category, {}, 0)
    BY <1>2, <2>2 DEF MayProbe, Probers
  <2>9. /\ CatalogueCall(r)' /\ req'[r].pc = "slugProbe" /\ req'[r].op = "recourse"
        /\ \A d \in CategoryId : ~MayMake(r, d)'
    BY <2>7, <2>8, ProberGoes
  <2>10. SerialCall(r)'
    BY <2>9 DEF SerialCall, OnlySeeds
  <2> QED BY <1>0, <2>5, <2>9, <2>10, CatalogueStays
<1>11. ASSUME NEW pc \in {"categoryCheck", "courseWrite"},
              Begins(r, "recourse", [Probing(c, body) EXCEPT !.pc = pc]),
              pc = "courseWrite" => category = None,
              pc = "categoryCheck" => category # None
       PROVE  CatalogueInv'
  <2>1. Proceeds(r) /\ req'[r] = [[Probing(c, body) EXCEPT !.pc = pc] EXCEPT !.op = "recourse"]
    BY <1>11, CatalogueBegins
  <2>2. ASSUME NEW call, call = [[Probing(c, body) EXCEPT !.pc = pc] EXCEPT !.op = "recourse"]
        PROVE  call = Call("recourse", pc, c, body, {}, None, 0)
    BY <2>2 DEF Probing, Fresh, Call
  <2>3. req'[r] = Call("recourse", pc, c, Body(ch.title, ch.slug, category, ch.items), {}, None, 0)
    BY <1>4, <2>1, <2>2
  <2>4. MayProbe("recourse", pc, c, ch.title, ch.slug, category, {}, 0)
    BY <1>2, <1>9, <1>11 DEF MayProbe, Probers
  <2>5. /\ CatalogueCall(r)' /\ req'[r].pc = pc /\ req'[r].op = "recourse"
        /\ req'[r].body.slug = ch.slug /\ \A d \in CategoryId : ~MayMake(r, d)'
    BY <2>3, <2>4, ProberGoes
  <2>6. pc = "categoryCheck" => ch.slug = None
    BY <1>2, <1>8, <1>11
  <2>7. SerialCall(r)'
    BY <1>11, <2>5, <2>6 DEF SerialCall, OnlySeeds
  <2> QED BY <1>0, <2>1, <2>5, <2>7, CatalogueStays
<1> QED BY <1>7, <1>10, <1>11

-----------------------------------------------------------------------------
(* The seeds                                                               *)

\* A seed that starts: what it may make is what is left for it to do.
LEMMA SeedStarts ==
  ASSUME CatalogueInv, NEW r \in Request, UNCHANGED catalogueDocs,
         NEW op, NEW pc, NEW read, NEW call, Begins(r, op, call),
         [call EXCEPT !.op = op] = Call(op, pc, None, None, SeedShelf, read, 0),
         \/ op = "seed" /\ pc = "seedShelf" /\ read = {}
         \/ op = "pricing" /\ pc = "pricingShelf"
  PROVE  CatalogueInv'
<1>1. /\ Proceeds(r) /\ req'[r] = Call(op, pc, None, None, SeedShelf, read, 0)
      /\ \A t \in Title : MayMake(r, <<r, t>>)
  BY CatalogueBegins
<1>2. /\ IsCall(req'[r]) /\ req'[r].op = op /\ req'[r].pc = pc /\ req'[r].todo = SeedShelf
      /\ req'[r].read = read /\ req'[r].round = 0
  BY <1>1, PartsOf
<1>3. CatalogueCall(r)' /\ SerialCall(r)'
  BY <1>2, CatalogueAssumption DEF CatalogueCall, SerialCall, Probers, At
<1>4. \A c \in CategoryId : MayMake(r, c)' => MayMake(r, c)
  BY <1>1 DEF MayMake
<1> QED BY <1>1, <1>3, <1>4, CatalogueStays

LEMMA SeedCoursesStep ==
  ASSUME CatalogueInv, NEW r \in Request, SeedCourses(r)
  PROVE  CatalogueInv'
<1>1. PICK call : call = [Fresh EXCEPT !.pc = "seedShelf", !.todo = SeedShelf, !.read = {}]
  OBVIOUS
<1>2. UNCHANGED catalogueDocs /\ Begins(r, "seed", call)
  BY <1>1 DEF SeedCourses
<1>3. ASSUME NEW next,
             next = [[Fresh EXCEPT !.pc = "seedShelf", !.todo = SeedShelf, !.read = {}]
                      EXCEPT !.op = "seed"]
      PROVE  next = Call("seed", "seedShelf", None, None, SeedShelf, {}, 0)
  BY <1>3 DEF Fresh, Call
<1>4. [call EXCEPT !.op = "seed"] = Call("seed", "seedShelf", None, None, SeedShelf, {}, 0)
  BY <1>1, <1>3
<1> QED BY <1>2, <1>4, SeedStarts

LEMMA SeedPricingStep ==
  ASSUME CatalogueInv, NEW r \in Request, SeedPricing(r)
  PROVE  CatalogueInv'
<1>1. PICK call : call = [Fresh EXCEPT !.pc = "pricingShelf", !.todo = SeedShelf]
  OBVIOUS
<1>2. UNCHANGED catalogueDocs /\ Begins(r, "pricing", call)
  BY <1>1 DEF SeedPricing
<1>3. ASSUME NEW next,
             next = [[Fresh EXCEPT !.pc = "pricingShelf", !.todo = SeedShelf] EXCEPT !.op = "pricing"]
      PROVE  next = Call("pricing", "pricingShelf", None, None, SeedShelf, None, 0)
  BY <1>3 DEF Fresh, Call
<1>4. [call EXCEPT !.op = "pricing"] = Call("pricing", "pricingShelf", None, None, SeedShelf, None, 0)
  BY <1>1, <1>3
<1> QED BY <1>2, <1>4, SeedStarts

\* A seed part by part, and what it goes on as.
SeedRun(r, target, body, todo, read) ==
  /\ req[r] = Call("seed", req[r].pc, target, body, todo, read, 0)
  /\ todo = req[r].todo /\ read = req[r].read /\ body = req[r].body /\ todo \subseteq Title

LEMMA SeedRunIs ==
  ASSUME CatalogueInv, NEW r \in Request, req[r].pc \in {"seedShelf", "shelfInsert", "seedCourse"}
  PROVE  /\ InFlight(r) /\ req[r].op = "seed"
         /\ \E target, body, todo, read : SeedRun(r, target, body, todo, read)
<1>1. IsCall(req[r]) /\ req[r].op = "seed" /\ req[r].round = 0 /\ req[r].todo \subseteq Title
  BY DEF CatalogueInv, CatalogueCall
<1>2. PICK op, pc, target, body, todo, read, round :
        req[r] = Call(op, pc, target, body, todo, read, round)
  BY <1>1 DEF IsCall
<1>3. /\ req[r].op = op /\ req[r].pc = pc /\ req[r].target = target /\ req[r].body = body
      /\ req[r].todo = todo /\ req[r].read = read /\ req[r].round = round
  BY <1>2, PartsOf
<1>4. SeedRun(r, target, body, todo, read)
  BY <1>1, <1>2, <1>3 DEF SeedRun
<1>5. InFlight(r)
  BY DEF InFlight, Replies
<1> QED BY <1>1, <1>4, <1>5

\* A step of a seed.
LEMMA SeedGoes ==
  ASSUME CatalogueInv, NEW r \in Request, req[r].pc \in {"seedShelf", "shelfInsert", "seedCourse"},
         NEW call, Becomes(r, call),
         NEW pc, NEW target, NEW body, NEW todo, NEW read, NEW round,
         call = Call("seed", pc, target, body, todo, read, round)
  PROVE  /\ Proceeds(r) /\ IsCall(req'[r]) /\ req'[r].op = "seed" /\ req'[r].pc = pc
         /\ req'[r].target = target /\ req'[r].body = body /\ req'[r].todo = todo
         /\ req'[r].read = read /\ req'[r].round = round /\ req'[r] = call
<1>1. InFlight(r) /\ req[r].op = "seed"
  BY SeedRunIs
<1>2. /\ IsCall(call) /\ call.op = "seed" /\ call.pc = pc /\ call.target = target
      /\ call.body = body /\ call.todo = todo /\ call.read = read /\ call.round = round
  BY PartsOf
<1>3. Proceeds(r) /\ req'[r] = call
  BY <1>1, <1>2, CatalogueBecomes
<1> QED BY <1>2, <1>3

LEMMA FindShelfStep ==
  ASSUME CatalogueInv, NEW r \in Request, FindShelf(r)
  PROVE  CatalogueInv'
<1>0. /\ UNCHANGED catalogueDocs /\ At(r, "seedShelf")
      /\ req[r].pc \in {"seedShelf", "shelfInsert", "seedCourse"}
  BY DEF FindShelf, At
<1>1. PICK target, body, todo, read : SeedRun(r, target, body, todo, read)
  BY <1>0, SeedRunIs
<1>2. /\ req[r] = Call("seed", "seedShelf", target, body, todo, read, 0)
      /\ todo = req[r].todo /\ read = req[r].read /\ todo \subseteq Title /\ read \subseteq CategoryId
  BY <1>0, <1>1 DEF SeedRun, At, CatalogueInv, CatalogueCall
<1>3. PICK t \in todo :
        \/ \E c \in ActiveAt(generateSlug(t)) :
             Becomes(r, [req[r] EXCEPT !.todo = @ \ {t}, !.read = @ \cup {c}])
        \/ Becomes(r, [req[r] EXCEPT !.pc = "shelfInsert", !.body = t])
  BY <1>2, Zenon DEF FindShelf
<1>4. ASSUME NEW c \in ActiveAt(generateSlug(t)),
             Becomes(r, [req[r] EXCEPT !.todo = @ \ {t}, !.read = @ \cup {c}])
      PROVE  CatalogueInv'
  <2>1. PICK rest, found : rest = todo \ {t} /\ found = read \cup {c}
    OBVIOUS
  <2>2. PICK call : call = [req[r] EXCEPT !.todo = rest, !.read = found]
    OBVIOUS
  <2>3. Becomes(r, call)
    BY <1>2, <1>4, <2>1, <2>2
  <2>4. call = Call("seed", "seedShelf", target, body, rest, found, 0)
    <3>1. PICK old : old = req[r]
      OBVIOUS
    <3>2. old = Call("seed", "seedShelf", target, body, todo, read, 0)
      BY <1>2, <3>1
    <3>3. call = [old EXCEPT !.todo = rest, !.read = found]
      BY <2>2, <3>1
    <3> QED BY <3>2, <3>3 DEF Call
  <2>5. /\ Proceeds(r) /\ IsCall(req'[r]) /\ req'[r].op = "seed" /\ req'[r].pc = "seedShelf"
        /\ req'[r].todo = rest /\ req'[r].read = found /\ req'[r].round = 0
    BY <1>0, <2>3, <2>4, SeedGoes
  <2>6. rest \subseteq Title /\ found \subseteq CategoryId
    BY <1>2, <2>1 DEF ActiveAt
  <2>7. CatalogueCall(r)' /\ SerialCall(r)'
    BY <2>5, <2>6 DEF CatalogueCall, SerialCall, Probers, At
  <2>8. \A d \in CategoryId : MayMake(r, d)' => MayMake(r, d)
    BY <1>0, <1>2, <2>1, <2>5 DEF MayMake, At
  <2> QED BY <1>0, <2>5, <2>7, <2>8, CatalogueStays
<1>5. CASE Becomes(r, [req[r] EXCEPT !.pc = "shelfInsert", !.body = t])
  <2>1. PICK call : call = [req[r] EXCEPT !.pc = "shelfInsert", !.body = t]
    OBVIOUS
  <2>2. Becomes(r, call)
    BY <1>5, <2>1
  <2>3. call = Call("seed", "shelfInsert", target, t, todo, read, 0)
    <3>1. PICK old : old = req[r]
      OBVIOUS
    <3>2. old = Call("seed", "seedShelf", target, body, todo, read, 0)
      BY <1>2, <3>1
    <3>3. call = [old EXCEPT !.pc = "shelfInsert", !.body = t]
      BY <2>1, <3>1
    <3> QED BY <3>2, <3>3 DEF Call
  <2>4. /\ Proceeds(r) /\ IsCall(req'[r]) /\ req'[r].op = "seed" /\ req'[r].pc = "shelfInsert"
        /\ req'[r].todo = todo /\ req'[r].read = read /\ req'[r].round = 0 /\ req'[r].body = t
    BY <1>0, <2>2, <2>3, SeedGoes
  <2>5. CatalogueCall(r)' /\ SerialCall(r)'
    BY <1>2, <1>3, <2>4 DEF CatalogueCall, SerialCall, Probers, At
  <2>6. \A d \in CategoryId : MayMake(r, d)' => MayMake(r, d)
    BY <1>0, <1>2, <2>4 DEF MayMake, At
  <2> QED BY <1>0, <2>4, <2>5, <2>6, CatalogueStays
<1> QED BY <1>3, <1>4, <1>5

LEMMA NewCategoryDoc ==
  ASSUME NEW t \in Title, NEW cat, cat = NewCategory(t, generateSlug(t))
  PROVE  CategoryDoc(cat)
<1>1. cat = Category(TRUE, t, <<t>>, TRUE, FALSE, <<>>, 0)
  BY DEF NewCategory, NoCategory, Category, generateSlug
<1>2. IsSlug(<<t>>)
  BY DEF IsSlug
<1>3. <<>> \in Seq(Topic)
  OBVIOUS
<1> QED BY <1>1, <1>2, <1>3, CategoryIs

LEMMA InsertShelfStep ==
  ASSUME CatalogueInv, NEW r \in Request, InsertShelf(r)
  PROVE  CatalogueInv'
<1>0. /\ courses' = courses /\ At(r, "shelfInsert")
      /\ req[r].pc \in {"seedShelf", "shelfInsert", "seedCourse"}
  BY DEF InsertShelf, At
<1>1. PICK target, t, todo, read : SeedRun(r, target, t, todo, read)
  BY <1>0, SeedRunIs
<1>2. /\ req[r] = Call("seed", "shelfInsert", target, t, todo, read, 0) /\ InFlight(r)
      /\ todo = req[r].todo /\ read = req[r].read /\ t = req[r].body
      /\ todo \subseteq Title /\ read \subseteq CategoryId /\ t \in todo
  BY <1>0, <1>1, SeedRunIs DEF SeedRun, At, CatalogueInv, CatalogueCall
<1>3. CASE Ends(r, "error") /\ categories' = categories
  BY <1>0, <1>2, <1>3, CatalogueEndsQuietly DEF Replies, catalogueDocs
<1>4. CASE /\ categories' = [categories EXCEPT ![<<r, t>>] = NewCategory(t, generateSlug(t))]
           /\ Becomes(r, [req[r] EXCEPT !.pc = "seedShelf", !.todo = @ \ {t},
                                        !.read = @ \cup {<<r, t>>}, !.body = None])
  <2>1. PICK rest, found : rest = todo \ {t} /\ found = read \cup {<<r, t>>}
    OBVIOUS
  <2>2. PICK call : call = [req[r] EXCEPT !.pc = "seedShelf", !.todo = rest, !.read = found,
                                          !.body = None]
    OBVIOUS
  <2>3. Becomes(r, call)
    BY <1>2, <1>4, <2>1, <2>2
  <2>4. call = Call("seed", "seedShelf", target, None, rest, found, 0)
    <3>1. PICK old : old = req[r]
      OBVIOUS
    <3>2. old = Call("seed", "shelfInsert", target, t, todo, read, 0)
      BY <1>2, <3>1
    <3>3. call = [old EXCEPT !.pc = "seedShelf", !.todo = rest, !.read = found, !.body = None]
      BY <2>2, <3>1
    <3> QED BY <3>2, <3>3 DEF Call
  <2>5. /\ Proceeds(r) /\ IsCall(req'[r]) /\ req'[r].op = "seed" /\ req'[r].pc = "seedShelf"
        /\ req'[r].todo = rest /\ req'[r].read = found /\ req'[r].round = 0
    BY <1>0, <2>3, <2>4, SeedGoes
  <2>6. PICK id \in CategoryId : id = <<r, t>>
    BY <1>2 DEF CategoryId, CourseId
  <2>7. rest \subseteq Title /\ found \subseteq CategoryId
    BY <1>2, <2>1, <2>6
  <2>8. CatalogueCall(r)' /\ SerialCall(r)'
    BY <2>5, <2>7 DEF CatalogueCall, SerialCall, Probers, At
  <2>9. MayMake(r, id)
    BY <1>0, <1>2, <2>6 DEF MayMake, At
  <2>10. \A d \in CategoryId : MayMake(r, d)' => MayMake(r, d) /\ d # id
    <3>1. ASSUME NEW d \in CategoryId, MayMake(r, d)' PROVE MayMake(r, d) /\ d # id
      <4>1. PICK u \in Title : d = <<r, u>> /\ u \in rest
        BY <2>5, <3>1 DEF MayMake, At
      <4>2. u # t /\ u \in req[r].todo
        BY <1>2, <2>1, <4>1
      <4> QED BY <1>0, <2>6, <4>1, <4>2 DEF MayMake, At
    <3> QED BY <3>1
  <2>11. PICK new : new = NewCategory(t, generateSlug(t))
    OBVIOUS
  <2>12. CategoryDoc(new) /\ categories' = [categories EXCEPT ![id] = new]
    BY <1>2, <1>4, <2>6, <2>11, NewCategoryDoc
  <2> QED BY <1>0, <2>5, <2>8, <2>9, <2>10, <2>12, CategoryStored
<1> QED BY <1>2, <1>3, <1>4 DEF InsertShelf

LEMMA StartSeedCoursesStep ==
  ASSUME CatalogueInv, NEW r \in Request, StartSeedCourses(r)
  PROVE  CatalogueInv'
<1>0. /\ UNCHANGED catalogueDocs /\ At(r, "seedShelf")
      /\ req[r].pc \in {"seedShelf", "shelfInsert", "seedCourse"}
  BY DEF StartSeedCourses, At
<1>1. PICK target, was, todo, read : SeedRun(r, target, was, todo, read)
  BY <1>0, SeedRunIs
<1>2. /\ req[r] = Call("seed", "seedShelf", target, was, todo, read, 0)
      /\ read = req[r].read /\ read \subseteq CategoryId
  BY <1>0, <1>1 DEF SeedRun, At, CatalogueInv, CatalogueCall
<1>3. PICK c \in read :
        Becomes(r, [req[r] EXCEPT !.pc = "seedCourse", !.todo = SeedTitle, !.read = None, !.body =
          [title |-> None, slug |-> None, category |-> c, items |-> "none"]])
  BY <1>2 DEF StartSeedCourses
<1>4. PICK body : body = Body(None, None, c, "none")
  OBVIOUS
<1>5. PICK call : call = [req[r] EXCEPT !.pc = "seedCourse", !.todo = SeedTitle, !.read = None,
                                        !.body = body]
  OBVIOUS
<1>6. Becomes(r, call)
  BY <1>3, <1>4, <1>5 DEF Body
<1>7. call = Call("seed", "seedCourse", target, body, SeedTitle, None, 0)
  <2>1. PICK old : old = req[r]
    OBVIOUS
  <2>2. old = Call("seed", "seedShelf", target, was, todo, read, 0)
    BY <1>2, <2>1
  <2>3. call = [old EXCEPT !.pc = "seedCourse", !.todo = SeedTitle, !.read = None, !.body = body]
    BY <1>5, <2>1
  <2> QED BY <2>2, <2>3 DEF Call
<1>8. /\ Proceeds(r) /\ IsCall(req'[r]) /\ req'[r].op = "seed" /\ req'[r].pc = "seedCourse"
      /\ req'[r].todo = SeedTitle /\ req'[r].body = body /\ req'[r].round = 0
  BY <1>0, <1>6, <1>7, SeedGoes
<1>9. c # None
  BY <1>2, CatalogueAssumption DEF CategoryId, CourseId
<1>10. CatalogueCall(r)'
  BY <1>4, <1>8, <1>9, CatalogueAssumption DEF CatalogueCall, Probers, At
<1>11. SerialCall(r)' /\ \A d \in CategoryId : ~MayMake(r, d)'
  BY <1>8 DEF SerialCall, MayMake, At
<1> QED BY <1>0, <1>8, <1>10, <1>11, CatalogueStays

LEMMA SeedOneStep ==
  ASSUME CatalogueInv, NEW r \in Request, SeedOne(r)
  PROVE  CatalogueInv'
<1>0. /\ UNCHANGED catalogueDocs /\ At(r, "seedCourse") /\ courses' = courses
      /\ req[r].pc \in {"seedShelf", "shelfInsert", "seedCourse"}
  BY DEF SeedOne, At, catalogueDocs
<1>1. PICK target, body, todo, read : SeedRun(r, target, body, todo, read)
  BY <1>0, SeedRunIs
<1>2. /\ req[r] = Call("seed", "seedCourse", target, body, todo, read, 0) /\ body = req[r].body
      /\ todo = req[r].todo /\ read = req[r].read /\ todo \subseteq Title
  BY <1>0, <1>1 DEF SeedRun, At
<1>3. PICK title, slug, category, test : category # None /\ body = Body(title, slug, category, test)
  BY <1>0, <1>2 DEF CatalogueInv, CatalogueCall
<1>4. PICK t \in todo :
        \/ Becomes(r, [req[r] EXCEPT !.todo = @ \ {t}])
        \/ /\ ~SlugTaken(None, generateSlug(t))
           /\ Becomes(r, [req[r] EXCEPT !.pc = "slugProbe", !.target = <<r, t>>,
                            !.body.title = t, !.body.slug = generateSlug(t)])
  BY <1>2, Zenon DEF SeedOne
<1>5. CASE Becomes(r, [req[r] EXCEPT !.todo = @ \ {t}])
  <2>1. PICK rest : rest = todo \ {t}
    OBVIOUS
  <2>2. PICK call : call = [req[r] EXCEPT !.todo = rest]
    OBVIOUS
  <2>3. Becomes(r, call)
    BY <1>2, <1>5, <2>1, <2>2
  <2>4. call = Call("seed", "seedCourse", target, body, rest, read, 0)
    <3>1. PICK old : old = req[r]
      OBVIOUS
    <3>2. old = Call("seed", "seedCourse", target, body, todo, read, 0)
      BY <1>2, <3>1
    <3>3. call = [old EXCEPT !.todo = rest]
      BY <2>2, <3>1
    <3> QED BY <3>2, <3>3 DEF Call
  <2>5. /\ Proceeds(r) /\ IsCall(req'[r]) /\ req'[r].op = "seed" /\ req'[r].pc = "seedCourse"
        /\ req'[r].todo = rest /\ req'[r].body = body /\ req'[r].round = 0
    BY <1>0, <2>3, <2>4, SeedGoes
  <2>6. rest \subseteq Title
    BY <1>2, <2>1
  <2>7. CatalogueCall(r)'
    BY <1>3, <2>5, <2>6 DEF CatalogueCall, Probers, At
  <2>8. SerialCall(r)' /\ \A d \in CategoryId : ~MayMake(r, d)'
    BY <2>5 DEF SerialCall, MayMake, At
  <2> QED BY <1>0, <2>5, <2>7, <2>8, CatalogueStays
<1>6. CASE /\ ~SlugTaken(None, generateSlug(t))
           /\ Becomes(r, [req[r] EXCEPT !.pc = "slugProbe", !.target = <<r, t>>,
                            !.body.title = t, !.body.slug = generateSlug(t)])
  <2>1. PICK base, id : base = generateSlug(t) /\ id = <<r, t>>
    OBVIOUS
  <2>2. PICK call : call = [req[r] EXCEPT !.pc = "slugProbe", !.target = id, !.body.title = t,
                                          !.body.slug = base]
    OBVIOUS
  <2>3. Becomes(r, call)
    BY <1>6, <2>1, <2>2
  <2>4. call = Call("seed", "slugProbe", id, Body(t, base, category, test), todo, read, 0)
    <3>1. PICK old : old = req[r]
      OBVIOUS
    <3>2. old = Call("seed", "seedCourse", target, Body(title, slug, category, test), todo, read, 0)
      BY <1>2, <1>3, <3>1
    <3>3. call = [old EXCEPT !.pc = "slugProbe", !.target = id, !.body.title = t, !.body.slug = base]
      BY <2>2, <3>1
    <3> QED BY <3>2, <3>3 DEF Call, Body
  <2>5. Proceeds(r) /\ req'[r] = call
    BY <1>0, <2>3, <2>4, SeedGoes
  <2>6. req'[r] = Call("seed", "slugProbe", id, Body(t, base, category, test), todo, read, 0)
    BY <2>4, <2>5
  <2>7. MayProbe("seed", "slugProbe", id, t, base, category, todo, 0)
    <3>1. t \in Title /\ id \in CourseId
      BY <1>2, <2>1 DEF CourseId
    <3>2. IsSlug(<<t>>)
      BY <3>1 DEF IsSlug
    <3> QED BY <1>2, <1>3, <2>1, <3>1, <3>2 DEF MayProbe, Probers, generateSlug
  <2>8. /\ CatalogueCall(r)' /\ req'[r].pc = "slugProbe" /\ req'[r].round = 0
        /\ req'[r].body.title = t /\ req'[r].body.slug = base
        /\ \A d \in CategoryId : ~MayMake(r, d)'
    BY <2>6, <2>7, ProberGoes
  <2>9. Unseeded(r)'
    BY <1>0, <1>6, <2>1, <2>8 DEF Unseeded, SlugTaken
  <2>10. SerialCall(r)'
    BY <2>8, <2>9 DEF SerialCall
  <2> QED BY <1>0, <2>5, <2>8, <2>10, CatalogueStays
<1> QED BY <1>4, <1>5, <1>6

LEMMA SeedDoneStep ==
  ASSUME CatalogueInv, NEW r \in Request, SeedDone(r)
  PROVE  CatalogueInv'
BY CatalogueEndsQuietly DEF SeedDone, At, InFlight, Replies

LEMMA PricingDoneStep ==
  ASSUME CatalogueInv, NEW r \in Request, PricingDone(r)
  PROVE  CatalogueInv'
<1>1. InFlight(r) /\ UNCHANGED catalogueDocs
  BY DEF PricingDone, At, InFlight, Replies
<1>2. PICK reply \in Replies : Ends(r, reply)
  BY DEF PricingDone, Replies
<1> QED BY <1>1, <1>2, CatalogueEndsQuietly

LEMMA PricingShelfStep ==
  ASSUME CatalogueInv, NEW r \in Request, PricingShelf(r)
  PROVE  CatalogueInv'
<1>0. courses' = courses /\ At(r, "pricingShelf") /\ InFlight(r)
  BY DEF PricingShelf, At, InFlight, Replies
<1>1. IsCall(req[r]) /\ req[r].op = "pricing" /\ req[r].todo \subseteq Title
  BY <1>0 DEF CatalogueInv, CatalogueCall
<1>2. PICK op, pc, target, body, todo, read, round :
        req[r] = Call(op, pc, target, body, todo, read, round)
  BY <1>1 DEF IsCall
<1>3. op = "pricing" /\ pc = "pricingShelf" /\ todo = req[r].todo /\ todo \subseteq Title
  BY <1>0, <1>1, <1>2, PartsOf DEF At
<1>4. PICK t \in todo :
        /\ categories' = IF CategoryClash(<<r, t>>, t, generateSlug(t)) THEN categories
                         ELSE [categories EXCEPT ![<<r, t>>] = NewCategory(t, generateSlug(t))]
        /\ Becomes(r, [req[r] EXCEPT !.todo = @ \ {t}])
  BY <1>3 DEF PricingShelf
<1>5. PICK rest : rest = todo \ {t}
  OBVIOUS
<1>6. PICK call : call = [req[r] EXCEPT !.todo = rest]
  OBVIOUS
<1>7. Becomes(r, call)
  BY <1>3, <1>4, <1>5, <1>6
<1>8. call = Call("pricing", "pricingShelf", target, body, rest, read, round)
  <2>1. PICK old : old = req[r]
    OBVIOUS
  <2>2. old = Call("pricing", "pricingShelf", target, body, todo, read, round)
    BY <1>2, <1>3, <2>1
  <2>3. call = [old EXCEPT !.todo = rest]
    BY <1>6, <2>1
  <2> QED BY <2>2, <2>3 DEF Call
<1>9. /\ IsCall(call) /\ call.op = "pricing" /\ call.pc = "pricingShelf" /\ call.todo = rest
  BY <1>8, PartsOf
<1>10. Proceeds(r) /\ req'[r] = call
  BY <1>0, <1>1, <1>7, <1>9, CatalogueBecomes
<1>11. rest \subseteq Title
  BY <1>3, <1>5
<1>12. CatalogueCall(r)' /\ SerialCall(r)'
  BY <1>9, <1>10, <1>11 DEF CatalogueCall, SerialCall, Probers, At
<1>13. \A d \in CategoryId : MayMake(r, d)' => MayMake(r, d) /\ d # <<r, t>>
  BY <1>0, <1>3, <1>5, <1>9, <1>10 DEF MayMake, At
<1>14. CASE categories' = categories
  BY <1>0, <1>10, <1>12, <1>13, <1>14, CatalogueStays DEF catalogueDocs
<1>15. CASE categories' = [categories EXCEPT ![<<r, t>>] = NewCategory(t, generateSlug(t))]
  <2>1. PICK id \in CategoryId : id = <<r, t>>
    BY <1>3 DEF CategoryId, CourseId
  <2>2. PICK new : new = NewCategory(t, generateSlug(t))
    OBVIOUS
  <2>3. CategoryDoc(new) /\ categories' = [categories EXCEPT ![id] = new]
    BY <1>3, <1>15, <2>1, <2>2, NewCategoryDoc
  <2>4. MayMake(r, id)
    BY <1>0, <1>3, <2>1 DEF MayMake, At
  <2>5. \A d \in CategoryId : MayMake(r, d)' => MayMake(r, d) /\ d # id
    BY <1>13, <2>1
  <2> QED BY <1>0, <1>10, <1>12, <2>3, <2>4, <2>5, CategoryStored
<1> QED BY <1>4, <1>14, <1>15

\* The process dies: nothing is in flight afterwards, and nothing is stored.
LEMMA CatalogueCrashStep ==
  ASSUME CatalogueInv, CrashCalls, UNCHANGED catalogueDocs
  PROVE  CatalogueInv'
<1>1. /\ CallsOK' /\ Alone' /\ overlapped' = overlapped
      /\ categories' = categories /\ courses' = courses
  BY CrashMoves, CrashAlone DEF CatalogueInv, catalogueDocs
<1>2. ASSUME NEW q \in Request
      PROVE  /\ IsCall(req'[q]) /\ req'[q].op = req[q].op
             /\ req'[q].pc \in Replies \/ (req'[q] = req[q] /\ req[q].pc = "idle")
  <2>1. CASE InFlight(q)
    <3>1. req'[q] = [Answer("crashed") EXCEPT !.op = req[q].op]
      BY <2>1 DEF CrashCalls
    <3>2. req'[q] = Call(req[q].op, "crashed", None, None, {}, None, 0)
      BY <3>1, Ended
    <3> QED BY <3>2, PartsOf DEF Replies
  <2>2. CASE ~InFlight(q)
    <3>1. req'[q] = req[q]
      BY <2>2 DEF CrashCalls
    <3> QED BY <2>2, <3>1 DEF InFlight, CatalogueInv, CatalogueCall
  <2> QED BY <2>1, <2>2
<1>3. ASSUME NEW q \in Request PROVE CatalogueCall(q)' /\ SerialCall(q)'
  <2>1. CASE req'[q].pc \in Replies
    BY <1>2, <2>1, CatalogueQuiet
  <2>2. CASE req'[q] = req[q] /\ req[q].pc = "idle"
    <3>1. req[q].op = "none"
      BY <2>2 DEF CatalogueInv, CatalogueCall, At
    <3> QED BY <1>2, <2>2, <3>1 DEF CatalogueCall, SerialCall, Probers, At
  <2> QED BY <1>2, <2>1, <2>2
<1>4. ASSUME NEW q \in Request, NEW c \in CategoryId, MayMake(q, c)' PROVE ~categories'[c].exists
  <2>1. MayMake(q, c)
    BY <1>2, <1>4 DEF MayMake, At, Replies
  <2> QED BY <1>1, <2>1 DEF CatalogueInv, CatalogueDocs
<1>5. CatalogueDocs'
  BY <1>1, <1>4 DEF CatalogueInv, CatalogueDocs
<1>6. OnlySeeds' => Seeded'
  <2>1. OnlySeeds' => OnlySeeds
    BY <1>1, <1>2 DEF OnlySeeds
  <2> QED BY <1>1, <2>1 DEF CatalogueInv, Seeded
<1> QED BY <1>1, <1>3, <1>5, <1>6 DEF CatalogueInv

-----------------------------------------------------------------------------
(* What follows                                                            *)

LEMMA CatalogueSteps ==
  ASSUME CatalogueInv, [CatalogueNext \/ (CrashCalls /\ UNCHANGED catalogueDocs)]_catalogueVars
  PROVE  CatalogueInv'
<1>1. CASE CategoryNext
  <2>1. PICK r \in Request :
          \/ CreateCategory(r) \/ InsertCategory(r) \/ UpdateCategory(r) \/ WriteCategory(r)
          \/ RemoveCategory(r) \/ SoftDelete(r) \/ HardDelete(r)
          \/ ChangeSubcategory(r) \/ PushTopic(r) \/ SpliceTopic(r)
    BY <1>1 DEF CategoryNext
  <2> QED BY <2>1, CreateCategoryStep, InsertCategoryStep, UpdateCategoryStep, WriteCategoryStep,
             RemoveCategoryStep, SoftDeleteStep, HardDeleteStep, ChangeSubcategoryStep,
             PushTopicStep, SpliceTopicStep
<1>2. CASE CourseNext
  <2>1. PICK r \in Request :
          \/ CreateCourse(r) \/ ProbeSlug(r) \/ CheckCategory(r) \/ InsertCourse(r) \/ InsertItems(r)
          \/ UpdateCourse(r) \/ WriteCourse(r) \/ RemoveCourse(r)
          \/ SeedCourses(r) \/ FindShelf(r) \/ InsertShelf(r) \/ StartSeedCourses(r)
          \/ SeedOne(r) \/ SeedDone(r)
          \/ SeedPricing(r) \/ PricingShelf(r) \/ PricingDone(r)
    BY <1>2 DEF CourseNext
  <2> QED BY <2>1, CreateCourseStep, ProbeSlugStep, CheckCategoryStep, InsertCourseStep,
             InsertItemsStep, UpdateCourseStep, WriteCourseStep, RemoveCourseStep, SeedCoursesStep,
             FindShelfStep, InsertShelfStep, StartSeedCoursesStep, SeedOneStep, SeedDoneStep,
             SeedPricingStep, PricingShelfStep, PricingDoneStep
<1>3. CASE CrashCalls /\ UNCHANGED catalogueDocs
  BY <1>3, CatalogueCrashStep
<1>4. CASE UNCHANGED catalogueVars
  <2>1. categories' = categories /\ courses' = courses /\ req' = req /\ overlapped' = overlapped
    BY <1>4 DEF catalogueVars, catalogueDocs
  <2>2. CallsOK' /\ Alone' /\ CatalogueDocs'
    BY <2>1 DEF CatalogueInv, CallsOK, Alone, InFlight, CatalogueDocs, MayMake, At
  <2>3. ASSUME NEW q \in Request PROVE CatalogueCall(q)' /\ SerialCall(q)'
    <3>1. CatalogueCall(q) /\ SerialCall(q)
      BY DEF CatalogueInv
    <3>2. CatalogueCall(q)'
      BY <2>1, <3>1 DEF CatalogueCall, At, InFlight, MayMake, Relists
    <3>3. SerialCall(q)'
      BY <2>1, <3>1 DEF SerialCall, SlugTaken, OnlySeeds, Unseeded
    <3> QED BY <3>2, <3>3
  <2>4. OnlySeeds' => Seeded'
    BY <2>1 DEF CatalogueInv, OnlySeeds, Seeded
  <2> QED BY <2>2, <2>3, <2>4 DEF CatalogueInv
<1> QED BY <1>1, <1>2, <1>3, <1>4 DEF CatalogueNext

\* The inductive invariant of the catalogue: what a call relies on from one await to
\* the next holds of every state.
THEOREM CatalogueAlways == CatalogueSpec => []CatalogueInv
<1>1. CatalogueInit => CatalogueInv
  BY CatalogueInitially
<1>2. /\ CatalogueInv
      /\ [CatalogueNext \/ (CrashCalls /\ UNCHANGED catalogueDocs)]_catalogueVars
      => CatalogueInv'
  BY CatalogueSteps
<1> QED BY <1>1, <1>2, PTL DEF CatalogueSpec

\* The documents of the catalogue are as the schemas say: a course that is there has a
\* title, a slug in order and a category's id, a category a name and a slug.
THEOREM CatalogueTyped == CatalogueSpec => []CatalogueTypeOK
<1>1. ASSUME CatalogueInv PROVE CatalogueTypeOK
  <2>1. /\ \A c \in CategoryId : CategoryDoc(categories[c])
        /\ \A c \in CourseId : CourseDoc(courses[c])
    BY <1>1 DEF CatalogueInv, CatalogueDocs
  <2>2. ASSUME NEW c \in CategoryId
        PROVE  /\ categories[c].active \in BOOLEAN /\ categories[c].removed \in BOOLEAN
               /\ categories[c].version \in Nat
               /\ categories[c].subcategories \in Seq(Topic)
               /\ categories[c].exists => categories[c].name \in Title /\ IsSlug(categories[c].slug)
    BY <2>1, CategoryTyped
  <2>3. ASSUME NEW c \in CourseId, courses[c].exists
        PROVE  /\ courses[c].title \in Title /\ IsSlug(courses[c].slug)
               /\ courses[c].category \in CategoryId /\ courses[c].items \in BOOLEAN
    BY <2>1, <2>3, CourseTyped
  <2> QED BY <2>2, <2>3 DEF CatalogueTypeOK
<1> QED BY <1>1, CatalogueAlways, PTL

\* Seeds alone, one after the other, never make two courses of one title, however often
\* they run and wherever one was cut short.
THEOREM SeedsOnceHolds == CatalogueSpec => []SerialSeedsOnce
<1>1. ASSUME CatalogueInv PROVE SerialSeedsOnce
  BY <1>1 DEF CatalogueInv, OnlySeeds, Seeded, SerialSeedsOnce
<1> QED BY <1>1, CatalogueAlways, PTL

\* Who answers a call that removes a subcategory with ok.
LEMMA OnlySpliceAnswers ==
  ASSUME CatalogueInv, [CatalogueNext \/ (CrashCalls /\ UNCHANGED catalogueDocs)]_catalogueVars,
         NEW r \in Request, Answered(r, "dropTopic", "ok")
  PROVE  SpliceTopic(r)
<1>1. At(r, "dropTopic") /\ InFlight(r) /\ req'[r] # req[r]
  BY DEF CatalogueInv, CatalogueCall, Answered, InFlight, Replies
<1>2. ASSUME NEW q \in Request, Proceeds(q) PROVE q = r
  BY <1>1, <1>2 DEF Proceeds, OnlyCall
<1>3. ASSUME NEW q \in Request, NEW op, NEW call, Begins(q, op, call) PROVE FALSE
  <2>1. At(q, "idle") /\ Proceeds(q)
    BY <1>3, CatalogueBegins
  <2> QED BY <1>1, <1>2, <2>1 DEF At
<1>4. ASSUME NEW q \in Request, NEW call, Becomes(q, call) PROVE q = r
  <2>1. OnlyCall(q)
    BY <1>4, BecomesMoves DEF CatalogueInv
  <2> QED BY <1>1, <2>1 DEF OnlyCall
<1>5. ASSUME NEW q \in Request, NEW reply, Ends(q, reply) PROVE q = r
  BY <1>4, <1>5 DEF Ends
<1>6. ASSUME NEW q \in Request, NEW reply, Finish(q, reply) PROVE q = r
  BY <1>4, <1>5, <1>6 DEF Finish
<1>7. CASE CategoryNext
  <2>1. PICK q \in Request :
          \/ InsertCategory(q) \/ WriteCategory(q) \/ SoftDelete(q) \/ HardDelete(q)
          \/ PushTopic(q) \/ SpliceTopic(q)
    <3>1. ASSUME NEW q \in Request, CreateCategory(q) PROVE FALSE
      BY <1>3, <3>1 DEF CreateCategory
    <3>2. ASSUME NEW q \in Request, UpdateCategory(q) PROVE FALSE
      BY <1>3, <3>2 DEF UpdateCategory
    <3>3. ASSUME NEW q \in Request, RemoveCategory(q) PROVE FALSE
      BY <1>3, <3>3 DEF RemoveCategory
    <3>4. ASSUME NEW q \in Request, ChangeSubcategory(q) PROVE FALSE
      BY <1>3, <3>4 DEF ChangeSubcategory
    <3> QED BY <1>7, <3>1, <3>2, <3>3, <3>4 DEF CategoryNext
  <2>2. q = r
    <3>1. \E reply : Ends(q, reply)
      BY <2>1 DEF InsertCategory, WriteCategory, SoftDelete, HardDelete, PushTopic, SpliceTopic
    <3> QED BY <1>5, <3>1
  <2> QED BY <1>1, <2>1, <2>2 DEF InsertCategory, WriteCategory, SoftDelete, HardDelete, PushTopic, At
<1>8. CASE CourseNext
  <2>1. PICK q \in Request :
          \/ CreateCourse(q) \/ ProbeSlug(q) \/ CheckCategory(q) \/ InsertCourse(q) \/ InsertItems(q)
          \/ UpdateCourse(q) \/ WriteCourse(q) \/ RemoveCourse(q)
          \/ SeedCourses(q) \/ FindShelf(q) \/ InsertShelf(q) \/ StartSeedCourses(q)
          \/ SeedOne(q) \/ SeedDone(q)
          \/ SeedPricing(q) \/ PricingShelf(q) \/ PricingDone(q)
    BY <1>8 DEF CourseNext
  <2>2. CASE CreateCourse(q) \/ UpdateCourse(q) \/ RemoveCourse(q) \/ SeedCourses(q) \/ SeedPricing(q)
    BY <1>3, <2>2 DEF CreateCourse, UpdateCourse, RemoveCourse, SeedCourses, SeedPricing
  <2>3. CASE ProbeSlug(q) \/ CheckCategory(q) \/ InsertCourse(q) \/ InsertItems(q) \/ WriteCourse(q)
    <3>1. ~At(q, "dropTopic")
      BY <2>3 DEF ProbeSlug, CheckCategory, InsertCourse, InsertItems, WriteCourse, At
    <3>2. q = r
      BY <1>4, <1>5, <1>6, <2>3 DEF ProbeSlug, CheckCategory, InsertCourse, InsertItems, WriteCourse
    <3> QED BY <1>1, <3>1, <3>2
  <2>4. CASE \/ FindShelf(q) \/ InsertShelf(q) \/ StartSeedCourses(q) \/ SeedOne(q) \/ SeedDone(q)
             \/ PricingShelf(q) \/ PricingDone(q)
    <3>1. ~At(q, "dropTopic")
      BY <2>4 DEF FindShelf, InsertShelf, StartSeedCourses, SeedOne, SeedDone, PricingShelf,
                  PricingDone, At
    <3>2. q = r
      BY <1>4, <1>5, <2>4 DEF FindShelf, InsertShelf, StartSeedCourses, SeedOne, SeedDone,
                              PricingShelf, PricingDone
    <3> QED BY <1>1, <3>1, <3>2
  <2> QED BY <2>1, <2>2, <2>3, <2>4
<1>9. CASE CrashCalls
  <2>1. req'[r].pc = "crashed"
    BY <1>1, <1>9 DEF CrashCalls, Answer, Fresh
  <2> QED BY <2>1 DEF Answered
<1>10. CASE UNCHANGED catalogueVars
  BY <1>1, <1>10 DEF catalogueVars
<1> QED BY <1>7, <1>8, <1>9, <1>10 DEF CatalogueNext

\* Whoever is told that a subcategory was removed took one off the list that was there
\* and nothing else, however many calls push or splice, rename or remove at the same
\* time.  A list that a PATCH replaced leaves the version as it is and may be lost: the
\* claim is made of behaviours without one.
THEOREM SubcategoriesKeptHolds == CatalogueSpec => SubcategoriesKept
<1> DEFINE OnlyAsked ==
      \A r \in Request :
        Answered(r, "dropTopic", "ok") /\ (\A q \in Request : req[q].op # "relistTopics") =>
          \A c \in CategoryId, topic \in Topic :
            c = req[r].target =>
              Listed(c, topic)' = Listed(c, topic) - (IF topic = req[r].body.topic THEN 1 ELSE 0)
<1>1. ASSUME CatalogueInv, [CatalogueNext \/ (CrashCalls /\ UNCHANGED catalogueDocs)]_catalogueVars
      PROVE  OnlyAsked
  <2>1. SUFFICES ASSUME NEW r \in Request, Answered(r, "dropTopic", "ok"),
                        \A q \in Request : req[q].op # "relistTopics",
                        NEW c \in CategoryId, NEW topic \in Topic, c = req[r].target
                 PROVE  Listed(c, topic)' =
                          Listed(c, topic) - (IF topic = req[r].body.topic THEN 1 ELSE 0)
    OBVIOUS
  <2>2. SpliceTopic(r)
    BY <1>1, <2>1, OnlySpliceAnswers
  <2>3. PICK was, gone : was = req[r].body.was.subcategories /\ gone = req[r].body.topic
    OBVIOUS
  <2>4. /\ categories[c].exists /\ categories[c].version = req[r].body.was.version
        /\ categories' = [categories EXCEPT ![c].subcategories = Without(was, gone),
                                            ![c].version = @ + 1]
    <3>1. ~Ends(r, "error")
      <4>1. ASSUME Ends(r, "error") PROVE req'[r].pc = "error"
        BY <1>1, <4>1, EndsMoves DEF CatalogueInv
      <4> QED BY <2>1, <4>1 DEF Answered
    <3> QED BY <2>1, <2>2, <2>3, <3>1 DEF SpliceTopic
  <2>5. /\ was \in Seq(Topic) /\ \E i \in DOMAIN was : was[i] = gone
        /\ Spliced(categories[c], req[r].body.was)
    BY <1>1, <2>1, <2>2, <2>3 DEF CatalogueInv, CatalogueCall, SpliceTopic, Relists
  <2>6. categories[c].subcategories = was
    BY <2>3, <2>4, <2>5 DEF Spliced
  <2>7. categories'[c].subcategories = Without(was, gone)
    <3>1. CategoryDoc(categories[c]) /\ categories = [d \in CategoryId |-> categories[d]]
      BY <1>1 DEF CatalogueInv, CatalogueDocs
    <3>2. PICK topics, more : topics = Without(was, gone) /\ more = categories[c].version + 1
      OBVIOUS
    <3>3. categories'[c] = [categories[c] EXCEPT !.subcategories = topics, !.version = more]
      BY <2>4, <3>1, <3>2
    <3>4. ASSUME NEW cat, CategoryDoc(cat), NEW new,
                 new = [cat EXCEPT !.subcategories = topics, !.version = more]
          PROVE  new.subcategories = topics
      BY <3>4, CategoryTyped DEF Category
    <3> QED BY <3>1, <3>2, <3>3, <3>4
  <2>8. /\ Listed(c, topic) = Cardinality(Places(was, topic))
        /\ Listed(c, topic)' = Cardinality(Places(Without(was, gone), topic))
    BY <2>6, <2>7 DEF Listed, Places
  <2> QED BY <2>3, <2>5, <2>8, WithoutOne
<1>2. CatalogueInv /\ [CatalogueNext \/ (CrashCalls /\ UNCHANGED catalogueDocs)]_catalogueVars
      => [OnlyAsked]_catalogueVars
  BY <1>1
<1> HIDE DEF OnlyAsked
<1>3. CatalogueSpec => [][OnlyAsked]_catalogueVars
  BY <1>2, CatalogueAlways, PTL DEF CatalogueSpec
<1> QED BY <1>3 DEF SubcategoriesKept, OnlyAsked

-----------------------------------------------------------------------------
(* Desks                                                                   *)

\* Nobody calls the lists and the hours.
NoCalls == desk \in {"listings", "hours"} => \A r \in Request : ~InFlight(r)

\* The campus is open at desk d.
Sits(d) == desk = d

\* A desk that is not called does not crash a call.
LEMMA NobodyCalls == CampusSpec => []NoCalls
<1>1. CampusInit => NoCalls
  BY DEF CampusInit, HourInit, CallsInit, NoCalls, InFlight, Fresh
<1>2. NoCalls /\ [CampusNext]_campusVars => NoCalls'
  <2> SUFFICES ASSUME NoCalls, [CampusNext]_campusVars, desk' \in {"listings", "hours"}
               PROVE  \A r \in Request : ~InFlight(r)'
    BY DEF NoCalls
  <2>1. desk' = desk
    BY DEF CampusNext, campusVars
  <2>2. ~CampusCrash
    BY <2>1 DEF NoCalls, CampusCrash, CrashCalls
  <2>3. AtDesk => UNCHANGED req
    BY <2>1 DEF AtDesk, Open, ListingNext, HourNext, AddTimeBlock
  <2>4. UNCHANGED req
    BY <2>2, <2>3 DEF CampusNext, campusVars
  <2> QED BY <2>1, <2>4 DEF NoCalls, InFlight
<1> QED BY <1>1, <1>2, PTL DEF CampusSpec

\* Every desk of the campus is the system of its own module: what is proved of that
\* holds at the desk.
THEOREM DesksAreSystems ==
  CampusSpec =>
    /\ desk = "classroom" => ClassroomSpec
    /\ desk = "catalogue" => CatalogueSpec
    /\ desk = "grading"   => GradeSpec
    /\ desk = "feedback"  => FeedbackSpec
    /\ desk = "notices"   => NoticeSpec
    /\ desk = "listings"  => ListingSpec
    /\ desk = "hours"     => HourSpec
    /\ desk = "records"   => RecordSpec
<1>2. CampusSpec /\ Sits("classroom") => ClassroomSpec
  <2>1. CampusInit /\ Sits("classroom") => RosterInit
    BY DEF CampusInit, Sits
  <2>2. Sits("classroom") /\ [CampusNext]_campusVars
          => [ClassroomNext \/ (CrashCalls /\ UNCHANGED rosterDocs)]_rosterVars
    BY DEF CampusNext, AtDesk, Open, CampusCrash, campusVars, rosterVars, Sits
  <2>3. Sits("classroom") /\ [CampusNext]_campusVars => Sits("classroom")'
    BY DEF CampusNext, campusVars, Sits
  <2> QED BY <2>1, <2>2, <2>3, PTL DEF CampusSpec, ClassroomSpec
<1>3. CampusSpec /\ Sits("catalogue") => CatalogueSpec
  <2>1. CampusInit /\ Sits("catalogue") => CatalogueInit
    BY DEF CampusInit, Open, Sits
  <2>2. Sits("catalogue") /\ [CampusNext]_campusVars
          => [CatalogueNext \/ (CrashCalls /\ UNCHANGED catalogueDocs)]_catalogueVars
    BY DEF CampusNext, AtDesk, Open, CampusCrash, campusVars, catalogueVars, Sits
  <2>3. Sits("catalogue") /\ [CampusNext]_campusVars => Sits("catalogue")'
    BY DEF CampusNext, campusVars, Sits
  <2> QED BY <2>1, <2>2, <2>3, PTL DEF CampusSpec, CatalogueSpec
<1>4. CampusSpec /\ Sits("grading") => GradeSpec
  <2>1. CampusInit /\ Sits("grading") => CourseworkInit
    BY DEF CampusInit, Sits
  <2>2. Sits("grading") /\ [CampusNext]_campusVars
          => [GradeNext \/ (CrashCalls /\ UNCHANGED courseworkDocs)]_courseworkVars
    BY DEF CampusNext, AtDesk, Open, CampusCrash, campusVars, courseworkVars, Sits
  <2>3. Sits("grading") /\ [CampusNext]_campusVars => Sits("grading")'
    BY DEF CampusNext, campusVars, Sits
  <2> QED BY <2>1, <2>2, <2>3, PTL DEF CampusSpec, GradeSpec
<1>5. CampusSpec /\ Sits("feedback") => FeedbackSpec
  <2>1. CampusInit /\ Sits("feedback") => CourseworkInit
    BY DEF CampusInit, Sits
  <2>2. Sits("feedback") /\ [CampusNext]_campusVars
          => [FeedbackNext \/ LeaveClass \/ (CrashCalls /\ UNCHANGED courseworkDocs)]_courseworkVars
    BY DEF CampusNext, AtDesk, Open, CampusCrash, campusVars, courseworkVars, Sits
  <2>3. Sits("feedback") /\ [CampusNext]_campusVars => Sits("feedback")'
    BY DEF CampusNext, campusVars, Sits
  <2> QED BY <2>1, <2>2, <2>3, PTL DEF CampusSpec, FeedbackSpec
<1>6. CampusSpec /\ Sits("notices") => NoticeSpec
  <2>1. CampusInit /\ Sits("notices") => NoticeInit
    BY DEF CampusInit, Sits
  <2>2. Sits("notices") /\ [CampusNext]_campusVars
          => [NoticeNext \/ (CrashCalls /\ UNCHANGED noticeDocs)]_noticeVars
    BY DEF CampusNext, AtDesk, Open, CampusCrash, campusVars, noticeVars, Sits
  <2>3. Sits("notices") /\ [CampusNext]_campusVars => Sits("notices")'
    BY DEF CampusNext, campusVars, Sits
  <2> QED BY <2>1, <2>2, <2>3, PTL DEF CampusSpec, NoticeSpec
<1>7. CampusSpec /\ Sits("listings") => ListingSpec
  <2>1. CampusInit /\ Sits("listings") => ListingInit
    BY DEF CampusInit, Sits
  <2>2. Sits("listings") /\ NoCalls /\ [CampusNext]_campusVars => [ListingNext]_listingVars
    BY DEF CampusNext, AtDesk, Open, CampusCrash, CrashCalls, NoCalls, campusVars, listingVars, Sits
  <2>3. Sits("listings") /\ [CampusNext]_campusVars => Sits("listings")'
    BY DEF CampusNext, campusVars, Sits
  <2> QED BY <2>1, <2>2, <2>3, NobodyCalls, PTL DEF CampusSpec, ListingSpec
<1>8. CampusSpec /\ Sits("hours") => HourSpec
  <2>1. CampusInit /\ Sits("hours") => HourInit
    BY DEF CampusInit, Sits
  <2>2. Sits("hours") /\ NoCalls /\ [CampusNext]_campusVars => [HourNext]_hourVars
    BY DEF CampusNext, AtDesk, Open, CampusCrash, CrashCalls, NoCalls, campusVars, hourVars, Sits
  <2>3. Sits("hours") /\ [CampusNext]_campusVars => Sits("hours")'
    BY DEF CampusNext, campusVars, Sits
  <2> QED BY <2>1, <2>2, <2>3, NobodyCalls, PTL DEF CampusSpec, HourSpec
<1>9. CampusSpec /\ Sits("records") => RecordSpec
  <2>1. CampusInit /\ Sits("records") => RecordInit
    BY DEF CampusInit, Sits
  <2>2. Sits("records") /\ [CampusNext]_campusVars
          => [RecordNext \/ (CrashCalls /\ UNCHANGED recordDocs)]_recordVars
    BY DEF CampusNext, AtDesk, Open, CampusCrash, campusVars, recordVars, Sits
  <2>3. Sits("records") /\ [CampusNext]_campusVars => Sits("records")'
    BY DEF CampusNext, campusVars, Sits
  <2> QED BY <2>1, <2>2, <2>3, PTL DEF CampusSpec, RecordSpec
<1> QED BY <1>2, <1>3, <1>4, <1>5, <1>6, <1>7, <1>8, <1>9 DEF Sits

-----------------------------------------------------------------------------
(* Documents as the schemas say                                            *)

\* A client who reads on has not come to the bound of the pages.
WalkTypeInv ==
  /\ ListingTypeOK
  /\ walk.pc \in {"count", "findLast"} => walk.page <= MaxPlace + 1

\* What a client has found on a page is on the list.
LEMMA FoundTyped ==
  ASSUME ListingTypeOK
  PROVE  LET found == Found(walk) IN
           /\ found.page = walk.page /\ found.limit \in 0 .. MaxAsked
           /\ found.seen \subseteq Place /\ found.since \subseteq Place
           /\ found.changes \subseteq {"came", "went", "raced", "moved"}
<1>1. PageOf(walk.order, walk.page, walk.limit) \subseteq Place
  BY DEF ListingTypeOK, PageOf
<1> QED BY <1>1 DEF ListingTypeOK, Found

\* What a list is read by, and what a client has seen of it, keep their types.
LEMMA ListingTypes == ListingSpec => []ListingTypeOK
<1>1. ListingInit => WalkTypeInv
  <2>1. ASSUME NEW n \in 0 .. MaxPlace - 1, stored = 1 .. n, born = n
        PROVE  /\ stored \subseteq Place /\ born \in 0 .. MaxPlace
               /\ MaxPlace \in Nat /\ 1 \in 0 .. MaxAsked
    BY <2>1, QueryAssumption DEF Place
  <2> QED BY <2>1 DEF ListingInit, WalkTypeInv, ListingTypeOK, NoWalk
<1>2. WalkTypeInv /\ [ListingNext]_listingVars => WalkTypeInv'
  <2> SUFFICES ASSUME WalkTypeInv, [ListingNext]_listingVars PROVE WalkTypeInv'
    OBVIOUS
  <2> USE QueryAssumption
  <2>1. ASSUME NEW w, NEW total, w.page \in 1 .. MaxPlace + 1,
               w.seen \subseteq Place, w.since \subseteq Place, w.limit \in 0 .. MaxAsked,
               w.changes \subseteq {"came", "went", "raced", "moved"}, walk' = Follow(w, total),
               UNCHANGED <<stored, born>>
        PROVE  WalkTypeInv'
    BY <2>1 DEF Follow, FirstRead, WalkTypeInv, ListingTypeOK
  <2>3. CASE StartWalk
    BY <2>3 DEF StartWalk, NoWalk, FirstRead, WalkTypeInv, ListingTypeOK
  <2>4. CASE FindPage
    <3>1. walk.page \in 1 .. MaxPlace + 1 /\ UNCHANGED <<stored, born>>
      BY <2>4 DEF FindPage, WalkTypeInv, ListingTypeOK
    <3> QED BY <2>1, <2>4, <3>1, FoundTyped DEF FindPage, WalkTypeInv, ListingTypeOK
  <2>5. CASE CountDocuments
    BY <2>1, <2>5 DEF CountDocuments, WalkTypeInv, ListingTypeOK
  <2>6. CASE CountFirst
    BY <2>6 DEF CountFirst, WalkTypeInv, ListingTypeOK
  <2>7. CASE FindLast
    <3>1. walk.page \in 1 .. MaxPlace + 1 /\ UNCHANGED <<stored, born>>
      BY <2>7 DEF FindLast, WalkTypeInv, ListingTypeOK
    <3> QED BY <2>1, <2>7, <3>1, FoundTyped DEF FindLast, WalkTypeInv
  <2>8. CASE Appear
    <3>1. PICK d \in Place : stored' = stored \cup {d} /\ born' = Max({born, d})
      BY <2>8 DEF Appear
    <3>2. born' \in 0 .. MaxPlace
      <4>1. \A m \in {born, d} : (\A y \in {born, d} : m >= y) <=> m = (IF d > born THEN d ELSE born)
        BY DEF WalkTypeInv, ListingTypeOK, Place
      <4>2. Max({born, d}) = IF d > born THEN d ELSE born
        BY <4>1 DEF Max
      <4> QED BY <3>1, <4>2 DEF WalkTypeInv, ListingTypeOK, Place
    <3> QED BY <2>8, <3>1, <3>2 DEF Appear, WalkTypeInv, ListingTypeOK
  <2>9. CASE Disappear
    BY <2>9 DEF Disappear, WalkTypeInv, ListingTypeOK
  <2>10. CASE Reorder
    <3>1. PICK f \in [stored -> Place] :
            /\ stored' = {f[d] : d \in stored} /\ born' = born
            /\ walk' = [walk EXCEPT !.seen = {f[d] : d \in @ \cap stored},
                                    !.since = {f[d] : d \in @ \cap stored},
                                    !.changes = @ \cup {"moved"}]
      BY <2>10 DEF Reorder
    <3>2. /\ {f[d] : d \in stored} \subseteq Place
          /\ \A seen : {f[d] : d \in seen \cap stored} \subseteq Place
      OBVIOUS
    <3> QED BY <3>1, <3>2 DEF WalkTypeInv, ListingTypeOK
  <2>11. CASE UNCHANGED listingVars
    BY <2>11 DEF listingVars, listingDocs, WalkTypeInv, ListingTypeOK
  <2> QED BY <2>3, <2>4, <2>5, <2>6, <2>7, <2>8, <2>9, <2>10, <2>11 DEF ListingNext
<1>3. WalkTypeInv => ListingTypeOK
  BY DEF WalkTypeInv
<1> QED BY <1>1, <1>2, <1>3, PTL DEF ListingSpec

\* A record is of a kind, and what is put belongs to a call.
RecordTypeInv == RecordTypeOK /\ records = [r \in Request |-> records[r]]

\* RecordService.tla, its types.
LEMMA RecordTypes == RecordSpec => []RecordTypeOK
<1>1. RecordInit => RecordTypeInv
  BY DEF RecordInit, RecordTypeInv, RecordTypeOK
<1>2. RecordTypeInv /\ [RecordNext \/ (CrashCalls /\ UNCHANGED recordDocs)]_recordVars
        => RecordTypeInv'
  <2> SUFFICES ASSUME RecordTypeInv,
                      [RecordNext \/ (CrashCalls /\ UNCHANGED recordDocs)]_recordVars
               PROVE  RecordTypeInv'
    OBVIOUS
  <2>1. CASE UNCHANGED recordDocs
    BY <2>1 DEF recordDocs, RecordTypeInv, RecordTypeOK
  <2>2. ASSUME NEW r \in Request, NEW kind \in Kind, Insert(r, kind) PROVE RecordTypeInv'
    BY <2>2 DEF Insert, RecordTypeInv, RecordTypeOK
  <2>3. ASSUME NEW r \in Request, NEW kind, NEW missing,
               Updates(r, kind, missing) \/ Removes(r, kind, missing)
        PROVE  RecordTypeInv'
    <3>1. UNCHANGED <<locations, objects>>
          /\ (records' = records \/ \E s \in Request : records' = [records EXCEPT ![s] = None])
      BY <2>3 DEF Updates, Removes, recordDocs
    <3> QED BY <3>1 DEF RecordTypeInv, RecordTypeOK
  <2>4. ASSUME NEW l, locations' = [locations EXCEPT ![l] = TRUE], UNCHANGED <<records, objects>>
        PROVE  RecordTypeInv'
    BY <2>4 DEF RecordTypeInv, RecordTypeOK
  <2>5. ASSUME NEW r \in Request, objects' = objects \cup {r}, UNCHANGED <<records, locations>>
        PROVE  RecordTypeInv'
    BY <2>5 DEF RecordTypeInv, RecordTypeOK
  <2>6. ASSUME NEW r \in Request,
               \/ CreateCertificate(r) \/ CreateEnrollment(r) \/ CreateBundleOffer(r) \/ CreateBlog(r)
               \/ CreateEnquiry(r) \/ RecordFile(r) \/ Presign(r)
        PROVE  RecordTypeInv'
    BY <2>1, <2>2, <2>6 DEF CreateCertificate, CreateEnrollment, CreateBundleOffer, CreateBlog,
         CreateEnquiry, RecordFile, Presign, Kind
  <2>7. ASSUME NEW r \in Request,
               \/ SaveCertificate(r) \/ NoticeEnrollment(r) \/ MailEnquiry(r) \/ SeedLocations(r)
               \/ FindLocation(r) \/ SeedLocationsDone(r)
        PROVE  RecordTypeInv'
    BY <2>1, <2>7 DEF SaveCertificate, NoticeEnrollment, MailEnquiry, SeedLocations, FindLocation,
         SeedLocationsDone
  <2>8. ASSUME NEW r \in Request, CreateLocation(r) \/ SaveLocation(r)
        PROVE  RecordTypeInv'
    BY <2>4, <2>8 DEF CreateLocation, SaveLocation
  <2>9. ASSUME NEW r \in Request, Upload(r)
        PROVE  RecordTypeInv'
    BY <2>1, <2>5, <2>9 DEF Upload, recordDocs
  <2>10. CASE PutObject
    BY <2>5, <2>10 DEF PutObject
  <2>11. ASSUME NEW r \in Request,
               \/ UpdateCertificate(r) \/ UpdateEnrollment(r) \/ UpdateBlog(r)
               \/ UpdateBundleOffer(r) \/ UpdateEnquiry(r)
               \/ RemoveCertificate(r) \/ RemoveEnrollment(r) \/ RemoveBlog(r)
               \/ RemoveBundleOffer(r) \/ RemoveEnquiry(r)
        PROVE  RecordTypeInv'
    BY <2>3, <2>11
       DEF UpdateCertificate, UpdateEnrollment, UpdateBlog, UpdateBundleOffer, UpdateEnquiry,
           RemoveCertificate, RemoveEnrollment, RemoveBlog, RemoveBundleOffer, RemoveEnquiry
  <2>12. CASE UNCHANGED recordVars
    BY <2>1, <2>12 DEF recordVars
  <2> QED BY <2>1, <2>6, <2>7, <2>8, <2>9, <2>10, <2>11, <2>12 DEF RecordNext
<1>3. RecordTypeInv => RecordTypeOK
  BY DEF RecordTypeInv
<1> QED BY <1>1, <1>2, <1>3, PTL DEF RecordSpec

\* The grades and the items of a course keep their types.
LEMMA GradeTypes == GradeSpec => []CourseworkTypeOK
<1> DEFINE Aside ==
      /\ questions \in [Class -> 0 .. MaxQuestions]
      /\ sheets \in [Request ->
           [exists : BOOLEAN, class : Class \cup {None}, answers : 0 .. MaxQuestions]]
      /\ left \in [Class -> {"unset", "some", "all"}]
<1>1. CourseworkInit => Aside
  BY CourseworkAssumption DEF CourseworkInit, NoSheet
<1>2. Aside /\ [GradeNext \/ (CrashCalls /\ UNCHANGED courseworkDocs)]_courseworkVars => Aside'
  <2>1. [GradeNext \/ (CrashCalls /\ UNCHANGED courseworkDocs)]_courseworkVars
          => UNCHANGED <<questions, sheets, left>>
    BY Zenon DEF GradeNext, CreateItem, UpdateItem, RemoveItem, SendGrades, UpdateGrade, RemoveGrade,
           ReadItems, ShowItems, ShowResult, AnswerShown, UpsertGrade, NoticeGrade, Judge, TellResult,
           butItems, butGrades, courseworkDocs, courseworkVars
  <2> QED BY <2>1
<1>3. GradeInv /\ Aside => CourseworkTypeOK
  BY DEF GradeInv, GradeDocs, CourseworkTypeOK
<1>4. GradeSpec => []GradeInv
  BY GradeInitially, GradeStep, PTL DEF GradeSpec
<1> QED BY <1>1, <1>2, <1>3, <1>4, PTL DEF GradeSpec

\* What a call about feedback answers is as much as there may be questions.
Asked(r) ==
  req[r].pc \in Asking => req[r].target \in Class /\ \E n \in 0 .. MaxQuestions : req[r].todo = 1 .. n

FeedbackTypeInv == CourseworkTypeOK /\ \A r \in Request : Asked(r)

\* A step of one call leaves what the others ask.
LEMMA AskedElsewhere ==
  ASSUME \A r \in Request : Asked(r), NEW r \in Request, OnlyCall(r), req'[r].pc \notin Asking
  PROVE  \A q \in Request : Asked(q)'
BY DEF Asked, OnlyCall

\* Questions, feedback and the lists of who has left keep their types.
LEMMA FeedbackTypes == FeedbackSpec => []CourseworkTypeOK
<1>1. CourseworkInit => FeedbackTypeInv
  <2> SUFFICES ASSUME CourseworkInit PROVE FeedbackTypeInv
    OBVIOUS
  <2>1. CourseworkTypeOK
    BY CourseworkAssumption DEF CourseworkInit, CourseworkTypeOK, NoSheet
  <2>2. \A r \in Request : Asked(r)
    BY DEF CourseworkInit, CallsInit, Fresh, Asked, Asking
  <2> QED BY <2>1, <2>2 DEF FeedbackTypeInv
<1>2. FeedbackTypeInv /\ FeedbackInv
      /\ [FeedbackNext \/ LeaveClass \/ (CrashCalls /\ UNCHANGED courseworkDocs)]_courseworkVars
      => FeedbackTypeInv'
  <2> SUFFICES ASSUME FeedbackTypeInv, FeedbackInv,
                      [FeedbackNext \/ LeaveClass
                         \/ (CrashCalls /\ UNCHANGED courseworkDocs)]_courseworkVars
               PROVE  CourseworkTypeOK' /\ \A r \in Request : Asked(r)'
    BY DEF FeedbackTypeInv
  <2> USE DEF FeedbackTypeInv
  <2>0. CallsOK /\ MaxQuestions \in Nat
    BY CourseworkAssumption DEF FeedbackInv
  <2>1. ASSUME NEW r \in Request, CreateQuestions(r) \/ UpdateQuestion(r) \/ RemoveQuestion(r)
                                    \/ UpdateFeedback(r) \/ RemoveFeedback(r)
        PROVE  CourseworkTypeOK' /\ \A q \in Request : Asked(q)'
    <3>1. PICK op : Begins(r, op, Answer("ok"))
      BY <2>1 DEF CreateQuestions, UpdateQuestion, RemoveQuestion, UpdateFeedback, RemoveFeedback
    <3>2. OnlyCall(r) /\ req'[r].pc = "ok"
      BY <2>0, <3>1, BeginsAnswer
    <3>3. \A q \in Request : Asked(q)'
      BY <3>2, AskedElsewhere DEF Asking
    <3>4. CASE CreateQuestions(r) \/ UpdateQuestion(r) \/ RemoveQuestion(r)
      <4>1. UNCHANGED <<items, grades, sheets, left>>
        BY <3>4 DEF CreateQuestions, UpdateQuestion, RemoveQuestion, butQuestions
      <4>2. questions' \in [Class -> 0 .. MaxQuestions]
        BY <2>0, <3>4 DEF CreateQuestions, UpdateQuestion, RemoveQuestion, CourseworkTypeOK
      <4> QED BY <3>3, <4>1, <4>2 DEF CourseworkTypeOK
    <3>5. CASE UpdateFeedback(r) \/ RemoveFeedback(r)
      <4>1. UNCHANGED <<items, grades, questions, left>>
        BY <3>5 DEF UpdateFeedback, RemoveFeedback, butSheets
      <4> DEFINE Sheet ==
            [exists : BOOLEAN, class : Class \cup {None}, answers : 0 .. MaxQuestions]
      <4>2. sheets' \in [Request -> Sheet]
        <5>1. NoSheet \in Sheet
          BY <2>0 DEF NoSheet
        <5>2. CASE UpdateFeedback(r)
          <6>1. PICK s \in Request, n \in 0 .. MaxQuestions : sheets' = [sheets EXCEPT ![s].answers = n]
            BY <5>2 DEF UpdateFeedback
          <6>2. sheets[s] \in Sheet
            BY DEF CourseworkTypeOK
          <6>3. [sheets[s] EXCEPT !.answers = n] \in Sheet
            BY <6>2
          <6>4. \A q \in Request :
                  sheets'[q] = IF q = s THEN [sheets[s] EXCEPT !.answers = n] ELSE sheets[q]
            BY <6>1 DEF CourseworkTypeOK
          <6>5. sheets' = [q \in Request |-> sheets'[q]]
            BY <6>1 DEF CourseworkTypeOK
          <6> QED BY <6>3, <6>4, <6>5 DEF CourseworkTypeOK
        <5>3. CASE RemoveFeedback(r)
          <6>1. PICK s \in Request : sheets' = [sheets EXCEPT ![s] = NoSheet]
            BY <5>3 DEF RemoveFeedback
          <6> QED BY <5>1, <6>1 DEF CourseworkTypeOK
        <5> QED BY <3>5, <5>2, <5>3
      <4> QED BY <3>3, <4>1, <4>2 DEF CourseworkTypeOK
    <3> QED BY <2>1, <3>4, <3>5
  <2>2. ASSUME NEW r \in Request, SendFeedback(r)
        PROVE  CourseworkTypeOK' /\ \A q \in Request : Asked(q)'
    <3>1. CourseworkTypeOK'
      BY <2>2 DEF SendFeedback, courseworkDocs, CourseworkTypeOK
    <3>2. CASE Begins(r, "feedback", Answer("error"))
      <4>1. OnlyCall(r) /\ req'[r].pc = "error"
        BY <2>0, <3>2, BeginsAnswer
      <4> QED BY <3>1, <4>1, AskedElsewhere DEF Asking
    <3>3. ASSUME NEW n \in 0 .. MaxQuestions, NEW c \in Class,
                 Begins(r, "feedback", [Fresh EXCEPT !.pc = "feedbackCount", !.target = c,
                                                     !.todo = 1 .. n])
          PROVE  \A q \in Request : Asked(q)'
      <4> DEFINE call == [Fresh EXCEPT !.pc = "feedbackCount", !.target = c, !.todo = 1 .. n]
      <4>1. OnlyCall(r) /\ req'[r] = [call EXCEPT !.op = "feedback"]
        BY <2>0, <3>3, BeginsMoves
      <4>2. req'[r].target = c /\ req'[r].todo = 1 .. n
        BY <4>1 DEF Fresh
      <4> QED BY <4>1, <4>2 DEF OnlyCall, Asked
    <3> QED BY <2>2, <3>1, <3>2, <3>3 DEF SendFeedback
  <2>3. ASSUME NEW r \in Request, CountQuestions(r)
        PROVE  CourseworkTypeOK' /\ \A q \in Request : Asked(q)'
    <3>1. CourseworkTypeOK' /\ At(r, "feedbackCount")
      BY <2>3 DEF CountQuestions, courseworkDocs, CourseworkTypeOK
    <3>2. CASE Ends(r, "error")
      <4>1. OnlyCall(r) /\ req'[r].pc = "error"
        BY <2>0, <3>2, EndsMoves
      <4> QED BY <3>1, <4>1, AskedElsewhere DEF Asking
    <3>3. CASE Becomes(r, [req[r] EXCEPT !.pc = "feedbackInsert"])
      <4>1. OnlyCall(r) /\ req'[r] = [req[r] EXCEPT !.pc = "feedbackInsert"]
        BY <2>0, <3>3, BecomesMoves
      <4>2. req'[r].target = req[r].target /\ req'[r].todo = req[r].todo
        BY <4>1, GoesOn DEF FeedbackInv, FeedbackCall
      <4>3. Asked(r)'
        BY <3>1, <4>2 DEF Asked, At, Asking
      <4> QED BY <3>1, <4>1, <4>3 DEF OnlyCall, Asked
    <3> QED BY <2>3, <3>2, <3>3 DEF CountQuestions
  <2>4. ASSUME NEW r \in Request, InsertFeedback(r)
        PROVE  CourseworkTypeOK' /\ \A q \in Request : Asked(q)'
    <3>1. OnlyCall(r) /\ req'[r].pc = "ok"
      BY <2>0, <2>4, EndsMoves DEF InsertFeedback
    <3>2. \A q \in Request : Asked(q)'
      BY <3>1, AskedElsewhere DEF Asking
    <3>3. req[r].target \in Class /\ \E n \in 0 .. MaxQuestions : req[r].todo = 1 .. n
      BY <2>4 DEF InsertFeedback, At, Asked, Asking
    <3>4. Cardinality(req[r].todo) \in 0 .. MaxQuestions
      <4>1. PICK n \in 0 .. MaxQuestions : req[r].todo = 1 .. n
        BY <3>3
      <4>2. Cardinality(1 .. n) = IF 1 > n THEN 0 ELSE n - 1 + 1
        BY <4>1, FS_Interval
      <4> QED BY <2>0, <4>1, <4>2
    <3>5. UNCHANGED <<items, grades, questions, left>>
      BY <2>4 DEF InsertFeedback, butSheets
    <3>6. sheets' = [sheets EXCEPT ![r] =
            [exists |-> TRUE, class |-> req[r].target, answers |-> Cardinality(req[r].todo)]]
      BY <2>4 DEF InsertFeedback
    <3>7. sheets' \in [Request ->
            [exists : BOOLEAN, class : Class \cup {None}, answers : 0 .. MaxQuestions]]
      BY <3>3, <3>4, <3>6 DEF CourseworkTypeOK
    <3> QED BY <3>2, <3>5, <3>7 DEF CourseworkTypeOK
  <2>5. CASE LeaveClass
    BY <2>5 DEF LeaveClass, CourseworkTypeOK, Asked
  <2>6. CASE CrashCalls /\ UNCHANGED courseworkDocs
    <3>1. \A q \in Request : req'[q] = req[q] \/ req'[q].pc = "crashed"
      BY <2>0, <2>6, CrashMoves
    <3>2. \A q \in Request : Asked(q)'
      BY <3>1 DEF Asked, Asking
    <3> QED BY <2>6, <3>2 DEF courseworkDocs, CourseworkTypeOK
  <2>7. CASE UNCHANGED courseworkVars
    BY <2>7 DEF courseworkVars, courseworkDocs, CourseworkTypeOK, Asked
  <2> QED BY <2>1, <2>2, <2>3, <2>4, <2>5, <2>6, <2>7 DEF FeedbackNext
<1>3. FeedbackTypeInv => CourseworkTypeOK
  BY DEF FeedbackTypeInv
<1> QED BY <1>1, <1>2, <1>3, FeedbackAlways, PTL DEF FeedbackSpec

-----------------------------------------------------------------------------
(* Counting: one more of something for each call that has come to an end   *)

\* A set of calls that one more has joined is larger.
LEMMA OneMore ==
  ASSUME NEW before, NEW after, before \subseteq after, after \subseteq Request
  PROVE  /\ Cardinality(before) \in Nat /\ Cardinality(after) \in Nat
         /\ Cardinality(after) <= Cardinality(Request) /\ Cardinality(Request) \in Nat
         /\ Cardinality(before) <= Cardinality(after)
         /\ before # after => Cardinality(before) + 1 <= Cardinality(after)
         /\ after # {} => 1 <= Cardinality(after)
<1>1. IsFiniteSet(Request) /\ before \in SUBSET after /\ after \in SUBSET Request
  BY CampusAssumption
<1>2. IsFiniteSet(after) /\ Cardinality(after) <= Cardinality(Request)
  BY <1>1, FS_Subset
<1>3. /\ IsFiniteSet(before) /\ Cardinality(before) <= Cardinality(after)
      /\ Cardinality(after) = Cardinality(before) => after = before
  BY <1>1, <1>2, FS_Subset
<1>4. Cardinality(before) \in Nat /\ Cardinality(after) \in Nat /\ Cardinality(Request) \in Nat
  BY <1>1, <1>2, <1>3, FS_CardinalityType
<1>5. Cardinality(after) = 0 <=> after = {}
  BY <1>2, FS_EmptySet
<1> QED BY <1>2, <1>3, <1>4, <1>5

\* The calls that have read what they were asked to read, or never will.
Settled == {q \in Request : ~At(q, "idle") /\ ~At(q, "readSave")}

\* Nobody is on record as a reader more often than calls have settled.
ReadBound ==
  \A n \in NoticeId, u \in User : letters[n].reads[u] <= Cardinality(Settled)

\* A call that moves is settled or was not before, and nobody is on record more
\* often than before except through a call that has now settled.
LEMMA ReadCounts ==
  ASSUME NoticeInv, NoticeShape', ReadBound, Settled \subseteq Settled',
         \A n \in NoticeId, u \in User :
           \/ letters'[n].reads[u] <= letters[n].reads[u]
           \/ letters'[n].reads[u] <= 1 /\ Settled' # {}
           \/ letters'[n].reads[u] <= letters[n].reads[u] + 1 /\ Settled' # Settled
  PROVE  ReadBound'
<1>1. /\ Cardinality(Settled) \in Nat /\ Cardinality(Settled)' \in Nat
      /\ Cardinality(Settled) <= Cardinality(Settled)'
      /\ Settled' # Settled => Cardinality(Settled) + 1 <= Cardinality(Settled)'
      /\ Settled' # {} => 1 <= Cardinality(Settled)'
  <2>1. Settled' \subseteq Request
    BY DEF Settled
  <2> QED BY <2>1, OneMore
<1>2. ASSUME NEW n \in NoticeId, NEW u \in User
      PROVE  letters'[n].reads[u] <= Cardinality(Settled)'
  <2>1. letters[n].reads[u] \in Nat /\ letters'[n].reads[u] \in Nat
    BY DEF NoticeInv, NoticeShape
  <2>2. letters[n].reads[u] <= Cardinality(Settled)
    BY DEF ReadBound
  <2>3. \/ letters'[n].reads[u] <= letters[n].reads[u]
        \/ letters'[n].reads[u] <= 1 /\ Settled' # {}
        \/ letters'[n].reads[u] <= letters[n].reads[u] + 1 /\ Settled' # Settled
    OBVIOUS
  <2> QED BY <1>1, <2>1, <2>2, <2>3
<1> QED BY <1>2 DEF ReadBound

\* A call that begins, or is past the readers, takes nobody from the settled.
LEMMA SettlesOn ==
  ASSUME NEW r \in Request, OnlyCall(r), ~At(r, "idle")',
         At(r, "idle") \/ ~At(r, "readSave")'
  PROVE  Settled \subseteq Settled' /\ (~At(r, "readSave")' => r \in Settled')
BY DEF Settled, At, OnlyCall

\* The calls about a notification, as records.
LEMMA NoticeShapes ==
  ASSUME NEW call, NEW n, NEW u,
         \/ call = [Fresh EXCEPT !.pc = "readSave", !.target = n, !.body = u]
         \/ call = [Fresh EXCEPT !.pc = "dropDelete", !.target = n]
  PROVE  IsCall(call) /\ call.pc # "idle"
<1>1. CASE call = [Fresh EXCEPT !.pc = "readSave", !.target = n, !.body = u]
  <2>1. call = Call("none", "readSave", n, u, {}, None, 0)
    BY <1>1 DEF Fresh, Call
  <2> QED BY <2>1, PartsOf
<1>2. CASE call = [Fresh EXCEPT !.pc = "dropDelete", !.target = n]
  <2>1. call = Call("none", "dropDelete", n, None, {}, None, 0)
    BY <1>2 DEF Fresh, Call
  <2> QED BY <2>1, PartsOf
<1> QED BY <1>1, <1>2

\* Each step of the notifications counts its readers.
LEMMA ReadsStep ==
  ASSUME NoticeInv, NoticeInv', ReadBound,
         [NoticeNext \/ (CrashCalls /\ UNCHANGED noticeDocs)]_noticeVars
  PROVE  ReadBound'
<1>0. CallsOK /\ NoticeShape /\ NoticeShape'
  BY DEF NoticeInv, NoticeShape
<1>1. ASSUME UNCHANGED letters, Settled \subseteq Settled'
      PROVE  ReadBound'
  <2>1. \A n \in NoticeId, u \in User : letters'[n].reads[u] = letters[n].reads[u]
    BY <1>1
  <2>2. \A n \in NoticeId, u \in User : letters[n].reads[u] \in Nat
    BY DEF NoticeInv, NoticeShape
  <2>3. \A n \in NoticeId, u \in User : letters'[n].reads[u] <= letters[n].reads[u]
    BY <2>1, <2>2
  <2> QED BY <1>0, <1>1, <2>3, ReadCounts
<1>2. CASE UNCHANGED noticeVars
  <2>1. UNCHANGED <<letters, req>>
    BY <1>2 DEF noticeVars, noticeDocs
  <2> QED BY <1>1, <2>1 DEF Settled, At
<1>3. CASE HandleConnection \/ HandleDisconnect
  <2>1. UNCHANGED <<letters, req>>
    BY <1>3 DEF HandleConnection, HandleDisconnect
  <2> QED BY <1>1, <2>1 DEF Settled, At
<1>4. CASE CrashCalls /\ UNCHANGED noticeDocs
  <2>1. \A q \in Request : req'[q] = req[q] \/ req'[q].pc = "crashed"
    BY <1>0, <1>4, CrashMoves
  <2>2. Settled \subseteq Settled' /\ UNCHANGED letters
    BY <1>4, <2>1 DEF Settled, At, noticeDocs
  <2> QED BY <1>1, <2>2
<1>5. CASE AddReceiver
  <2>1. PICK n \in NoticeId, u \in User : letters' = [letters EXCEPT ![n].receivers = @ \cup {u}]
    BY <1>5 DEF AddReceiver
  <2>2. ASSUME NEW m \in NoticeId, NEW v \in User
        PROVE  letters'[m].reads[v] <= letters[m].reads[v]
    <3>1. letters'[m].reads = letters[m].reads /\ letters[m].reads[v] \in Nat
      BY <1>0, <2>1 DEF NoticeShape
    <3> QED BY <3>1
  <2>3. Settled' = Settled
    BY <1>5 DEF AddReceiver, Settled, At
  <2> QED BY <1>0, <2>2, <2>3, ReadCounts
<1>6. ASSUME NEW r \in Request,
             FindAllForUser(r) \/ MarkAsRead(r) \/ RemoveNotification(r) \/ Emit(r)
      PROVE  ReadBound'
  <2>1. UNCHANGED letters
    BY <1>6 DEF FindAllForUser, MarkAsRead, RemoveNotification, Emit, noticeDocs
  <2>2. CASE FindAllForUser(r) \/ MarkAsRead(r) \/ RemoveNotification(r)
    <3>1. PICK op, call : Begins(r, op, call) /\ call.pc # "idle" /\ IsCall(call)
      <4>1. \A reply \in {"ok", "error"} : IsCall(Answer(reply)) /\ Answer(reply).pc # "idle"
        BY AnswerIs, PartsOf
      <4>2. \A n, u :
              /\ IsCall([Fresh EXCEPT !.pc = "readSave", !.target = n, !.body = u])
              /\ [Fresh EXCEPT !.pc = "readSave", !.target = n, !.body = u].pc # "idle"
              /\ IsCall([Fresh EXCEPT !.pc = "dropDelete", !.target = n])
              /\ [Fresh EXCEPT !.pc = "dropDelete", !.target = n].pc # "idle"
        <5> TAKE n, u
        <5> QED BY NoticeShapes
      <4> QED BY <2>2, <4>1, <4>2 DEF FindAllForUser, MarkAsRead, RemoveNotification
    <3>2. OnlyCall(r) /\ At(r, "idle") /\ req'[r] = [call EXCEPT !.op = op]
      BY <1>0, <3>1, BeginsMoves
    <3>3. ~At(r, "idle")'
      BY <3>1, <3>2, Named DEF At
    <3> QED BY <1>1, <2>1, <3>2, <3>3, SettlesOn
  <2>3. CASE Emit(r)
    <3>1. PICK reply \in {"ok", "error"} : Ends(r, reply)
      BY <2>3 DEF Emit
    <3>2. OnlyCall(r) /\ req'[r].pc = reply
      BY <1>0, <3>1, EndsMoves
    <3> QED BY <1>1, <2>1, <3>2, SettlesOn DEF At
  <2> QED BY <1>6, <2>2, <2>3
<1>7. ASSUME NEW r \in Request, Send(r)
      PROVE  ReadBound'
  <2>1. PICK to : /\ letters' = [letters EXCEPT ![r] =
                         [NoLetter EXCEPT !.exists = TRUE, !.receivers = to]]
                  /\ Begins(r, "send", [Fresh EXCEPT !.pc = "emit", !.body = to])
    BY <1>7 DEF Send
  <2>2. OnlyCall(r) /\ req'[r].pc = "emit"
    <3> DEFINE call == [Fresh EXCEPT !.pc = "emit", !.body = to]
    <3>1. OnlyCall(r) /\ req'[r] = [call EXCEPT !.op = "send"]
      BY <1>0, <2>1, BeginsMoves
    <3> QED BY <3>1 DEF Fresh
  <2>3. ASSUME NEW m \in NoticeId, NEW v \in User
        PROVE  letters'[m].reads[v] <= letters[m].reads[v]
    <3>1. letters'[m].reads[v] = letters[m].reads[v] \/ letters'[m].reads[v] = 0
      BY <1>0, <2>1 DEF NoticeShape, NoLetter
    <3> QED BY <1>0, <3>1 DEF NoticeShape
  <2> QED BY <1>0, <2>2, <2>3, SettlesOn, ReadCounts DEF At
<1>8. ASSUME NEW r \in Request, DeleteNotification(r)
      PROVE  ReadBound'
  <2>1. letters' = [letters EXCEPT ![req[r].target] = NoLetter] /\ Ends(r, "ok")
    BY <1>8 DEF DeleteNotification
  <2>2. OnlyCall(r) /\ req'[r].pc = "ok"
    BY <1>0, <2>1, EndsMoves
  <2>3. ASSUME NEW m \in NoticeId, NEW v \in User
        PROVE  letters'[m].reads[v] <= letters[m].reads[v]
    <3>1. letters'[m].reads[v] = letters[m].reads[v] \/ letters'[m].reads[v] = 0
      BY <1>0, <2>1 DEF NoticeShape, NoLetter
    <3> QED BY <1>0, <3>1 DEF NoticeShape
  <2> QED BY <1>0, <2>2, <2>3, SettlesOn, ReadCounts DEF At
<1>9. ASSUME NEW r \in Request, MarkAllAsRead(r)
      PROVE  ReadBound'
  <2>1. PICK u \in User :
          letters' = [n \in NoticeId |->
            IF n \in Unread(u) THEN [letters[n] EXCEPT !.reads[u] = 1] ELSE letters[n]]
    BY <1>9 DEF MarkAllAsRead
  <2>2. OnlyCall(r) /\ req'[r].pc = "ok"
    BY <1>0, <1>9, BeginsAnswer DEF MarkAllAsRead
  <2>3. ASSUME NEW m \in NoticeId, NEW v \in User
        PROVE  letters'[m].reads[v] <= letters[m].reads[v] \/ letters'[m].reads[v] <= 1
    <3> DEFINE reads == [letters[m].reads EXCEPT ![u] = 1]
    <3>1. letters[m].reads \in [User -> Nat]
      BY <1>0 DEF NoticeShape
    <3>2. reads[v] = letters[m].reads[v] \/ reads[v] = 1
      BY <3>1
    <3>3. letters'[m] = letters[m] \/ letters'[m] = [letters[m] EXCEPT !.reads = reads]
      BY <2>1
    <3> HIDE DEF reads
    <3>4. letters'[m].reads = letters[m].reads \/ letters'[m].reads = reads
      BY <1>0, <3>3 DEF NoticeShape
    <3> QED BY <3>1, <3>2, <3>4
  <2>4. Settled \subseteq Settled' /\ Settled' # {}
    BY <2>2, SettlesOn DEF At
  <2> QED BY <1>0, <2>3, <2>4, ReadCounts
<1>10. ASSUME NEW r \in Request, SaveRead(r)
      PROVE  ReadBound'
  <2>1. /\ At(r, "readSave")
        /\ \/ Ends(r, "error") /\ UNCHANGED letters
           \/ Ends(r, "ok") /\ letters' = [letters EXCEPT ![req[r].target].reads[req[r].body] = @ + 1]
    BY <1>10 DEF SaveRead
  <2>2. OnlyCall(r) /\ req'[r].pc \in {"ok", "error"}
    BY <1>0, <2>1, EndsMoves
  <2>3. Settled \subseteq Settled' /\ Settled' # Settled
    <3>1. Settled \subseteq Settled' /\ r \in Settled'
      BY <2>2, SettlesOn DEF At
    <3> QED BY <2>1, <3>1 DEF Settled
  <2>4. ASSUME NEW m \in NoticeId, NEW v \in User
        PROVE  \/ letters'[m].reads[v] <= letters[m].reads[v]
               \/ letters'[m].reads[v] <= letters[m].reads[v] + 1
    <3> DEFINE reads == [letters[m].reads EXCEPT ![req[r].body] = @ + 1]
    <3>1. letters[m].reads \in [User -> Nat]
      BY <1>0 DEF NoticeShape
    <3>2. reads[v] = letters[m].reads[v] \/ reads[v] = letters[m].reads[v] + 1
      BY <3>1
    <3>3. letters'[m] = letters[m] \/ letters'[m] = [letters[m] EXCEPT !.reads = reads]
      BY <1>0, <2>1 DEF NoticeShape
    <3> HIDE DEF reads
    <3>4. letters'[m].reads = letters[m].reads \/ letters'[m].reads = reads
      BY <1>0, <3>3 DEF NoticeShape
    <3> QED BY <3>1, <3>2, <3>4
  <2> QED BY <1>0, <2>3, <2>4, ReadCounts
<1> QED BY <1>2, <1>3, <1>4, <1>5, <1>6, <1>7, <1>8, <1>9, <1>10 DEF NoticeNext

\* Notifications keep their types: nobody is on record as a reader more often than
\* there are calls.
LEMMA ReadsInitially == NoticeInit => ReadBound
<1>1. Settled \subseteq Settled /\ Settled \subseteq Request
  BY DEF Settled
<1>2. Cardinality(Settled) \in Nat
  BY <1>1, OneMore
<1>3. ASSUME NoticeInit, NEW n \in NoticeId PROVE letters[n].reads = [u \in User |-> 0]
  <2>1. PICK to \in [Earlier -> SUBSET User] :
          letters = [m \in NoticeId |->
            IF m \in Earlier THEN [NoLetter EXCEPT !.exists = TRUE, !.receivers = to[m]]
                             ELSE NoLetter]
    BY <1>3 DEF NoticeInit
  <2> QED BY <2>1 DEF NoLetter
<1> QED BY <1>2, <1>3 DEF ReadBound

\* Counted readers are typed.
LEMMA NoticeTyped == NoticeInv /\ ReadBound => NoticeTypeOK
<1> SUFFICES ASSUME NoticeInv, ReadBound PROVE NoticeTypeOK
  OBVIOUS
<1>1. Cardinality(Settled) \in Nat /\ Cardinality(Request) \in Nat
      /\ Cardinality(Settled) <= Cardinality(Request)
  <2>1. Settled \subseteq Settled /\ Settled \subseteq Request
    BY DEF Settled
  <2> QED BY <2>1, OneMore
<1>2. ASSUME NEW n \in NoticeId PROVE letters[n] \in Letter
  <2>1. letters[n] \in [exists : BOOLEAN, receivers : SUBSET User, reads : [User -> Nat]]
    BY DEF NoticeInv, NoticeShape
  <2>2. \A u \in User : letters[n].reads[u] \in 0 .. Cardinality(Request)
    BY <1>1, <2>1 DEF ReadBound
  <2> QED BY <2>1, <2>2 DEF Letter
<1>3. letters \in [NoticeId -> Letter]
  BY <1>2 DEF NoticeInv, NoticeShape
<1> QED BY <1>3 DEF NoticeTypeOK, NoticeInv, NoticeShape

\* NotificationService.tla, its types: a user is on record as a reader at most once for
\* each call.
LEMMA NoticeTypes == NoticeSpec => []NoticeTypeOK
<1>1. NoticeInv /\ NoticeInv' /\ ReadBound
      /\ [NoticeNext \/ (CrashCalls /\ UNCHANGED noticeDocs)]_noticeVars => ReadBound'
  BY ReadsStep
<1> QED BY <1>1, ReadsInitially, NoticeTyped, NoticesCorrect, PTL DEF NoticeSpec

-----------------------------------------------------------------------------
(* Rosters                                                                 *)

\* What else the desk stores is about its calls.
RosterShape ==
  /\ corporatePayments \subseteq Request
  /\ corporateOrders \subseteq PoNumber
  /\ notices \in [Request -> SUBSET Person]

\* Payments, orders and notices of the classroom keep their types.
LEMMA RosterShaped ==
  ASSUME SeatingInv, RosterShape,
         [ClassroomNext \/ (CrashCalls /\ UNCHANGED rosterDocs)]_rosterVars
  PROVE  RosterShape'
<1>1. CASE UNCHANGED <<corporatePayments, corporateOrders, notices>>
  BY <1>1 DEF RosterShape
<1>2. ASSUME NEW r \in Request, CreateCorporatePayment(r)
      PROVE  RosterShape'
  BY <1>2 DEF RosterShape, CreateCorporatePayment, butPayments
<1>3. ASSUME NEW r \in Request, CreateCorporateOrder(r)
      PROVE  RosterShape'
  <2>1. req[r].body \in CorporateBody
    BY <1>3, CompanyHas DEF CreateCorporateOrder, At, CompanyPlaces
  <2>2. req[r].body.number \in PoNumber
    BY <2>1 DEF CorporateBody
  <2> QED BY <1>3, <2>2 DEF RosterShape, CreateCorporateOrder, butOrders
<1>4. ASSUME NEW r \in Request, Notify(r)
      PROVE  RosterShape'
  <2>1. req[r].body.all \in SUBSET Person
    BY <1>4 DEF Notify, At, SeatingInv, SeatCall, CreateCall, CreatePlaces, CreateBody
  <2>2. notices' \in [Request -> SUBSET Person]
    <3>1. CASE notices' = [notices EXCEPT ![r] = req[r].body.all]
      BY <2>1, <3>1 DEF RosterShape
    <3>2. CASE notices' = [notices EXCEPT ![req[r].target] = @ \cup req[r].body.all]
      BY <2>1, <3>2 DEF RosterShape
    <3> QED BY <1>4, <3>1, <3>2 DEF Notify
  <2> QED BY <1>4, <2>2 DEF RosterShape, Notify, butNotices
<1>5. CASE UNCHANGED rosterVars \/ UNCHANGED rosterDocs
  BY <1>1, <1>5 DEF rosterVars, rosterDocs
<1>6. CASE ClassScheduleNext
  BY <1>1, <1>4, <1>6
     DEF ClassScheduleNext, CreateSchedule, UpdateSchedule, UpdateUserStatus, RemoveClassSchedule,
         JoinClass, CheckSchedule, FindCourseSchedule, PushStudent, NewClassSchedule, FindNotice,
         WriteSchedule, OpenClass, ClassTime, rosterDocs, butSchedules
<1>7. CASE CorporateNext
  BY <1>1, <1>2, <1>3, <1>7
     DEF CorporateNext, CreateCorporate, UpdateBookingList, RemoveBookingList, InsertAccount,
         CreateBookingList, SavePending, FindSeat, PushSeat, NewSeat, MailSeat,
         rosterDocs, butSchedules, butBookings, butAccounts
<1> QED BY <1>5, <1>6, <1>7 DEF ClassroomNext

\* Nothing of it is there at the start.
LEMMA RosterShapeInitially == RosterInit => RosterShape
BY DEF RosterInit, RosterShape

\* RosterStore.tla, its types.
LEMMA RosterTypes == ClassroomSpec => []RosterTypeOK
<1>1. SeatingInv /\ RosterShape
        /\ [ClassroomNext \/ (CrashCalls /\ UNCHANGED rosterDocs)]_rosterVars
      => RosterShape'
  BY RosterShaped
<1>2. SeatingInv /\ RosterShape /\ RoomInv => RosterTypeOK
  BY DEF SeatingInv, SeatDocs, RosterTypeOK, RosterShape, RoomInv
<1> QED BY <1>1, <1>2, RosterShapeInitially, SeatingAlways, RoomAlways, PTL DEF ClassroomSpec

-----------------------------------------------------------------------------
(* What the campus stores                                                  *)

\* The campus is open at one of its desks.
AtSomeDesk == desk \in Desks

\* Whichever desk is open, the documents of every desk are typed at the start.
LEMMA CampusTypesInitially ==
  CampusInit => /\ RosterTypeOK /\ CourseworkTypeOK /\ NoticeTypeOK /\ ListingTypeOK
                /\ RecordTypeOK /\ desk \in Desks
                /\ ~Sits("catalogue") => CatalogueTypeOK
<1> SUFFICES ASSUME CampusInit
             PROVE  /\ RosterTypeOK /\ CourseworkTypeOK /\ NoticeTypeOK /\ ListingTypeOK
                    /\ RecordTypeOK /\ desk \in Desks
                    /\ ~Sits("catalogue") => CatalogueTypeOK
  OBVIOUS
<1>1. RosterTypeOK
  BY SeatingInitially, RoomInitially, RosterShapeInitially
     DEF CampusInit, SeatingInv, SeatDocs, RosterTypeOK, RosterShape, RoomInv
<1>2. CourseworkTypeOK
  BY CourseworkAssumption DEF CampusInit, CourseworkInit, CourseworkTypeOK, NoSheet
<1>3. NoticeTypeOK
  BY NoticeInitially, ReadsInitially, NoticeTyped DEF CampusInit
<1>4. ListingTypeOK
  BY QueryAssumption DEF CampusInit, ListingInit, ListingTypeOK, NoWalk, Place
<1>5. RecordTypeOK
  BY DEF CampusInit, RecordInit, RecordTypeOK
<1>6. ASSUME EmptyCatalogue PROVE CatalogueTypeOK
  <2>1. /\ NoCategory.active = FALSE /\ NoCategory.removed = FALSE /\ NoCategory.version = 0
        /\ NoCategory.subcategories = <<>> /\ ~NoCategory.exists /\ ~NoCourse.exists
    BY DEF NoCategory, NoCourse
  <2>2. /\ \A c \in CategoryId : categories[c] = NoCategory
        /\ \A c \in CourseId : courses[c] = NoCourse
    BY <1>6 DEF EmptyCatalogue
  <2>3. <<>> \in Seq(Topic) /\ 0 \in Nat
    OBVIOUS
  <2>4. ASSUME NEW cat, cat = NoCategory
        PROVE  /\ cat.active \in BOOLEAN /\ cat.removed \in BOOLEAN /\ cat.version \in Nat
               /\ cat.subcategories \in Seq(Topic) /\ ~cat.exists
    BY <2>1, <2>3, <2>4
  <2> QED BY <2>1, <2>2, <2>4 DEF CatalogueTypeOK
<1> QED BY <1>1, <1>2, <1>3, <1>4, <1>5, <1>6 DEF CampusInit, Open, Sits

\* The documents of a desk that is closed stay as they are.
LEMMA ClosedDesks ==
  ASSUME [CampusNext]_campusVars
  PROVE  /\ UNCHANGED desk
         /\ ~Sits("classroom") => UNCHANGED rosterDocs
         /\ ~Sits("catalogue") => UNCHANGED catalogueDocs
         /\ ~Sits("grading") /\ ~Sits("feedback") => UNCHANGED courseworkDocs
         /\ ~Sits("notices") => UNCHANGED noticeDocs
         /\ ~Sits("listings") => UNCHANGED listingDocs
         /\ ~Sits("records") => UNCHANGED recordDocs
BY DEF CampusNext, AtDesk, Open, Sits, CampusCrash, campusVars

\* So what a closed desk stores stays typed.
LEMMA ClosedTypes ==
  ASSUME [CampusNext]_campusVars
  PROVE  /\ RosterTypeOK /\ ~Sits("classroom") => RosterTypeOK'
         /\ CatalogueTypeOK /\ ~Sits("catalogue") => CatalogueTypeOK'
         /\ CourseworkTypeOK /\ ~Sits("grading") /\ ~Sits("feedback") => CourseworkTypeOK'
         /\ NoticeTypeOK /\ ~Sits("notices") => NoticeTypeOK'
         /\ ListingTypeOK /\ ~Sits("listings") => ListingTypeOK'
         /\ RecordTypeOK /\ ~Sits("records") => RecordTypeOK'
<1>1. RosterTypeOK /\ ~Sits("classroom") => RosterTypeOK'
  BY ClosedDesks DEF RosterTypeOK, rosterDocs
<1>2. CatalogueTypeOK /\ ~Sits("catalogue") => CatalogueTypeOK'
  BY ClosedDesks DEF CatalogueTypeOK, catalogueDocs
<1>3. CourseworkTypeOK /\ ~Sits("grading") /\ ~Sits("feedback") => CourseworkTypeOK'
  BY ClosedDesks DEF CourseworkTypeOK, courseworkDocs
<1>4. NoticeTypeOK /\ ~Sits("notices") => NoticeTypeOK'
  BY ClosedDesks DEF NoticeTypeOK, noticeDocs
<1>5. ListingTypeOK /\ ~Sits("listings") => ListingTypeOK'
  BY ClosedDesks DEF ListingTypeOK, listingDocs
<1>6. RecordTypeOK /\ ~Sits("records") => RecordTypeOK'
  BY ClosedDesks DEF RecordTypeOK, recordDocs
<1> QED BY <1>1, <1>2, <1>3, <1>4, <1>5, <1>6, ClosedDesks

\* Campus.tla, its types, at whichever desk the campus is open.
THEOREM CampusTypes == CampusSpec => []CampusTypeOK
<1>1. CampusSpec => []RosterTypeOK
  <2>1. CampusSpec /\ Sits("classroom") => []RosterTypeOK
    BY DesksAreSystems, RosterTypes DEF Sits
  <2>2. [CampusNext]_campusVars /\ ~Sits("classroom") => ~Sits("classroom")'
    BY ClosedDesks DEF Sits
  <2> QED BY <2>1, <2>2, CampusTypesInitially, ClosedTypes, PTL DEF CampusSpec
<1>2. CampusSpec => []CatalogueTypeOK
  <2>1. CampusSpec /\ Sits("catalogue") => []CatalogueTypeOK
    BY DesksAreSystems, CatalogueTyped DEF Sits
  <2>2. [CampusNext]_campusVars /\ ~Sits("catalogue") => ~Sits("catalogue")'
    BY ClosedDesks DEF Sits
  <2> QED BY <2>1, <2>2, CampusTypesInitially, ClosedTypes, PTL DEF CampusSpec
<1>3. CampusSpec => []CourseworkTypeOK
  <2>1. CampusSpec /\ (Sits("grading") \/ Sits("feedback")) => []CourseworkTypeOK
    BY DesksAreSystems, GradeTypes, FeedbackTypes DEF Sits
  <2>2. [CampusNext]_campusVars /\ ~Sits("grading") /\ ~Sits("feedback")
          => ~Sits("grading")' /\ ~Sits("feedback")'
    BY ClosedDesks DEF Sits
  <2> QED BY <2>1, <2>2, CampusTypesInitially, ClosedTypes, PTL DEF CampusSpec
<1>4. CampusSpec => []NoticeTypeOK
  <2>1. CampusSpec /\ Sits("notices") => []NoticeTypeOK
    BY DesksAreSystems, NoticeTypes DEF Sits
  <2>2. [CampusNext]_campusVars /\ ~Sits("notices") => ~Sits("notices")'
    BY ClosedDesks DEF Sits
  <2> QED BY <2>1, <2>2, CampusTypesInitially, ClosedTypes, PTL DEF CampusSpec
<1>5. CampusSpec => []ListingTypeOK
  <2>1. CampusSpec /\ Sits("listings") => []ListingTypeOK
    BY DesksAreSystems, ListingTypes DEF Sits
  <2>2. [CampusNext]_campusVars /\ ~Sits("listings") => ~Sits("listings")'
    BY ClosedDesks DEF Sits
  <2> QED BY <2>1, <2>2, CampusTypesInitially, ClosedTypes, PTL DEF CampusSpec
<1>6. CampusSpec => []RecordTypeOK
  <2>1. CampusSpec /\ Sits("records") => []RecordTypeOK
    BY DesksAreSystems, RecordTypes DEF Sits
  <2>2. [CampusNext]_campusVars /\ ~Sits("records") => ~Sits("records")'
    BY ClosedDesks DEF Sits
  <2> QED BY <2>1, <2>2, CampusTypesInitially, ClosedTypes, PTL DEF CampusSpec
<1>7. CampusSpec => []AtSomeDesk
  <2>1. CampusInit => AtSomeDesk
    BY CampusTypesInitially DEF AtSomeDesk
  <2>2. AtSomeDesk /\ [CampusNext]_campusVars => AtSomeDesk'
    BY ClosedDesks DEF AtSomeDesk
  <2> QED BY <2>1, <2>2, PTL DEF CampusSpec
<1>8. /\ RosterTypeOK /\ CatalogueTypeOK /\ CourseworkTypeOK /\ NoticeTypeOK /\ ListingTypeOK
      /\ RecordTypeOK /\ AtSomeDesk
      => CampusTypeOK
  BY DEF CampusTypeOK, AtSomeDesk
<1> QED BY <1>1, <1>2, <1>3, <1>4, <1>5, <1>6, <1>7, <1>8, PTL

\* Campus.tla: what the runs check of a desk holds of the campus while it is open there,
\* for any calls and documents, the properties of steps included.
THEOREM DesksAreCorrect ==
  CampusSpec =>
    /\ desk = "classroom" => []BookedOnce /\ []SerialSeatedOnce /\ CorporateAnswerIsKept
    /\ desk = "catalogue" => []SerialSeedsOnce /\ SubcategoriesKept
    /\ desk = "grading"   => []SerialVerdictIsCurrent
    /\ desk = "notices"   => []ReadersReceive /\ ReadStaysRead
    /\ desk = "listings"  => []WalkMissesNobody
    /\ desk = "hours"     => []HoursMatchTheCalendar /\ []ClassesMatchTheCalendar
    /\ desk = "records"   => []SerialLocatedOnce
<1>1. ClassroomSpec => []BookedOnce /\ []SerialSeatedOnce /\ CorporateAnswerIsKept
  BY BookedOnceHolds, SeatedOnceHolds, CorporateAnswerIsKeptHolds
<1>2. CatalogueSpec => []SerialSeedsOnce /\ SubcategoriesKept
  BY SeedsOnceHolds, SubcategoriesKeptHolds
<1>3. NoticeSpec => []ReadersReceive /\ ReadStaysRead
  BY ReadersReceiveHolds, ReadStaysReadHolds
<1>4. HourSpec => []HoursMatchTheCalendar /\ []ClassesMatchTheCalendar
  BY HoursMatch, ClassesMatch
<1> QED BY <1>1, <1>2, <1>3, <1>4, DesksAreSystems, VerdictIsCurrent, WalkMissesNobodyHolds,
           SerialLocatedOnceHolds
=============================================================================
