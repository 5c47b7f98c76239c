------------------------ MODULE ClassScheduleService ------------------------
(***************************************************************************)
(* classSchedule/class-schedule.service.ts.  No index backs its checks.    *)
(* The mail and Google clients it is constructed with are not used; reads  *)
(* that answer a caller and change nothing are in QueryBuilder.            *)
(***************************************************************************)
EXTENDS RosterStore

-----------------------------------------------------------------------------
(* create                                                                  *)

\* One student or several may be sent: all of them are checked and notified,
\* and only the first is put on a roster.  whole: the body names a session, a
\* date and a time, which the schema requires of a new schedule.
CreateBody == [first : Person, all : SUBSET Person, session : Session, whole : BOOLEAN]

\* Mutant: the check that no schedule of the course has the students is left out.
CreateSchedule_Unchecked(r) ==
  \E body \in CreateBody :
    /\ body.first \in body.all
    /\ body.all \subseteq accounts
    /\ Begins(r, "create", [Fresh EXCEPT !.pc = "createFind", !.body = body])
    /\ UNCHANGED rosterDocs

CreateSchedule(r) ==
  \E body \in CreateBody :
    /\ body.first \in body.all
    /\ body.all \subseteq accounts
    /\ IF \E k \in ScheduleId, p \in body.all : Seated(k, p)
         THEN Begins(r, "create", Answer("error"))
         ELSE Begins(r, "create", [Fresh EXCEPT !.pc = "createFind", !.body = body])
    /\ UNCHANGED rosterDocs

\* The first schedule of the course is taken, whatever its session.
FindCourseSchedule(r) ==
  /\ At(r, "createFind")
  /\ \/ /\ \A k \in ScheduleId : ~InCourse(k)
        /\ Becomes(r, [req[r] EXCEPT !.pc = "createNew"])
     \/ \E k \in ScheduleId :
          /\ InCourse(k)
          /\ Becomes(r, [req[r] EXCEPT !.pc = "createPush", !.target = k])
  /\ UNCHANGED rosterDocs

\* schedules.save() with the pushed id; it throws when the document has gone.
PushStudent(r) ==
  /\ At(r, "createPush")
  /\ LET k == req[r].target IN
       IF Exists(k)
         THEN /\ schedules' = Pushed(k, req[r].body.first)
              /\ Becomes(r, [req[r] EXCEPT !.pc = "noticeFind", !.target = None])
         ELSE /\ Ends(r, "error")
              /\ UNCHANGED schedules
  /\ UNCHANGED butSchedules

\* The controller draws a security key for every body; a status is sent or that of the
\* schema.  A date that has passed is a class whose time comes at once.
NewClassSchedule(r) ==
  /\ At(r, "createNew")
  /\ LET body == req[r].body IN
       IF body.whole
         THEN /\ \E status \in Sendable \cup {"scheduled"} :
                   schedules' = [schedules EXCEPT ![<<r, body.session>>] =
                     [NoClassSchedule EXCEPT !.exists = TRUE, !.seats[body.first] = 1,
                                             !.status = status, !.key = r]]
              /\ Becomes(r, [req[r] EXCEPT !.pc = "noticeFind"])
         ELSE /\ Ends(r, "error")
              /\ UNCHANGED schedules
  /\ UNCHANGED butSchedules

\* A notice about the course that any of the students has.
FindNotice(r) ==
  /\ At(r, "noticeFind")
  /\ LET theirs == {n \in Request : notices[n] \cap req[r].body.all # {}} IN
       \/ /\ theirs = {}
          /\ Becomes(r, [req[r] EXCEPT !.pc = "noticeNew"])
       \/ \E n \in theirs : Becomes(r, [req[r] EXCEPT !.pc = "noticeAdd", !.target = n])
  /\ UNCHANGED rosterDocs

\* Create one for the students, or $addToSet them to the one found.
Notify(r) ==
  /\ \/ At(r, "noticeNew") /\ notices' = [notices EXCEPT ![r] = req[r].body.all]
     \/ At(r, "noticeAdd") /\ notices' = [notices EXCEPT ![req[r].target] = @ \cup req[r].body.all]
  /\ Ends(r, "ok")
  /\ UNCHANGED butNotices

-----------------------------------------------------------------------------
(* update, updateUserStatus, remove                                        *)

\* What a PUT changes: the students and perhaps the course, the course, the status or
\* the date.  course: none is named, this one, or another one, to which the schedule
\* moves.  twice: the students are an array, which may name each of them twice.
Change ==
  [course : {"none", "here", "elsewhere"}, students : SUBSET Person, twice : BOOLEAN,
   status : {None}, moved : {FALSE}] \cup
  [course : {"here", "elsewhere"}, students : {None}, twice : {FALSE}, status : {None},
   moved : {FALSE}] \cup
  [course : {"none"}, students : {None}, twice : {FALSE}, status : Sendable, moved : {FALSE}] \cup
  [course : {"none"}, students : {None}, twice : {FALSE}, status : {None}, moved : {TRUE}]

\* The duplicate check looks at every schedule of the course the body names, the
\* one to be updated included; without a course it looks for a fresh id.
Duplicate(c) ==
  /\ c.course = "here" /\ c.students # None
  /\ \E k \in ScheduleId, p \in c.students : Seated(k, p)

\* What the schedules of other courses hold is not told apart.
MayBeDuplicate(c) == Duplicate(c) \/ (c.course = "elsewhere" /\ c.students \notin {None, {}})

\* A PUT that may give a student a second seat: the students are not checked, or they
\* are named twice; or the course of a schedule changes.
Reseats(c) == c.twice \/ c.course = "elsewhere" \/ (c.course = "none" /\ c.students # None)

\* Ids are not looked up, but nobody can send the id of an account before it is made.
UpdateSchedule(r) ==
  /\ \E k \in ScheduleId, c \in Change :
       LET op == IF Reseats(c) THEN "reseat" ELSE IF c.students = None THEN "update" ELSE "replace" IN
       /\ Exists(k)
       /\ c.students # None => c.students \subseteq accounts \cup {Guest}
       /\ \/ MayBeDuplicate(c) /\ Begins(r, op, Answer("error"))
          \/ /\ ~Duplicate(c)
             /\ Begins(r, op, [Fresh EXCEPT !.pc = "updateWrite", !.target = k, !.body = c])
  /\ UNCHANGED rosterDocs

Put(doc, c) ==
  [doc EXCEPT !.seats = IF c.students = None THEN @
                        ELSE [p \in Person |-> IF p \notin c.students THEN 0
                                               ELSE IF c.twice THEN 2 ELSE 1],
              !.here = IF c.course = "none" THEN @ ELSE c.course = "here",
              !.status = IF c.status = None THEN @ ELSE c.status,
              !.begun = @ /\ ~c.moved]

WriteSchedule(r) ==
  /\ At(r, "updateWrite")
  /\ LET k == req[r].target IN
       IF Exists(k)
         THEN /\ schedules' = [schedules EXCEPT ![k] = Put(@, req[r].body)]
              /\ Ends(r, "ok")
         ELSE /\ Ends(r, "error")
              /\ UNCHANGED schedules
  /\ UNCHANGED butSchedules

\* The roster holds ids, which have no status to set: the call finds a schedule
\* or not, and changes none.
UpdateUserStatus(r) ==
  /\ \E reply \in {"ok", "error"} : Begins(r, "userStatus", Answer(reply))
  /\ UNCHANGED rosterDocs

RemoveClassSchedule(r) ==
  /\ \E k \in ScheduleId :
       /\ Exists(k)
       /\ schedules' = [schedules EXCEPT ![k] = NoClassSchedule]
  /\ Begins(r, "remove", Answer("ok"))
  /\ UNCHANGED butSchedules

-----------------------------------------------------------------------------
(* joinClass, checkSchedule                                                *)

\* Schedules that were created for a booking have no key, those of checkSchedule
\* share one.
JoinClass(r) ==
  /\ \E k \in ScheduleId :
       /\ Exists(k) /\ schedules[k].key # None
       /\ IF ~schedules[k].begun
            THEN Begins(r, "join", Answer("error"))
          ELSE IF schedules[k].status = "scheduled"
            THEN Begins(r, "join", [Fresh EXCEPT !.pc = "joinSave", !.target = k])
            ELSE Begins(r, "join", Answer("ok"))
  /\ UNCHANGED rosterDocs

OpenClass(r) ==
  /\ At(r, "joinSave")
  /\ LET k == req[r].target IN
       IF Exists(k)
         THEN /\ schedules' = [schedules EXCEPT ![k].status = "ongoing"]
              /\ Ends(r, "ok")
         ELSE /\ Ends(r, "error")
              /\ UNCHANGED schedules
  /\ UNCHANGED butSchedules

\* A GET with fixed contents: whenever it is called it inserts a schedule for each
\* of its sessions, all with one key, whatever schedules there are.
CheckSchedule(r) ==
  /\ Begins(r, "probe", Answer("ok"))
  /\ schedules' = [k \in ScheduleId |->
       IF k[1] = r /\ k[2] \in Probed
         THEN [NoClassSchedule EXCEPT !.exists = TRUE, !.seats[Guest] = 1, !.key = "probe",
                                      !.begun = TRUE]
         ELSE schedules[k]]
  /\ UNCHANGED butSchedules

\* The hour of a class comes; only joinClass asks, which finds a class by its key.
ClassTime ==
  /\ "time" \in Ops
  /\ \E k \in ScheduleId :
       /\ Exists(k) /\ ~schedules[k].begun /\ schedules[k].key # None
       /\ schedules' = [schedules EXCEPT ![k].begun = TRUE]
  /\ UNCHANGED <<butSchedules, req, overlapped>>

ClassScheduleNext ==
  \/ \E r \in Request :
       \/ MayBegin(r) /\ (\/ CreateSchedule(r) \/ UpdateSchedule(r) \/ UpdateUserStatus(r)
                         \/ RemoveClassSchedule(r) \/ JoinClass(r) \/ CheckSchedule(r))
       \/ FindCourseSchedule(r) \/ PushStudent(r) \/ NewClassSchedule(r)
       \/ FindNotice(r) \/ Notify(r)
       \/ WriteSchedule(r) \/ OpenClass(r)
  \/ ClassTime
=============================================================================
