----------------------------- MODULE DeskProofs -----------------------------
(***************************************************************************)
(* Theorems of desks of the campus, for every set of calls and of what     *)
(* they are about: of the notifications, that only receivers are pushed    *)
(* one or read it; of the records, that a file on record is there and that *)
(* the seed stores no country twice; of the grades, that a student is told *)
(* the verdict they come to; of the lists, that a walk over the pages      *)
(* misses nobody; of the hours, that a course is as long as a calendar     *)
(* says.                                                                   *)
(***************************************************************************)
EXTENDS GradeService, FeedbackService, NotificationService, RecordService, QueryBuilder,
        CourseHours, FiniteSetTheorems, WellFoundedInduction, TLAPS

-----------------------------------------------------------------------------
(* Calls                                                                   *)

CallsOK == req = [r \in Request |-> req[r]]

\* A step of call r leaves the other calls as they are.
OnlyCall(r) == \A q \in Request \ {r} : req'[q] = req[q]

LEMMA BeginsMoves ==
  ASSUME CallsOK, NEW r \in Request, NEW op, NEW call, Begins(r, op, call)
  PROVE  /\ op \in Ops /\ At(r, "idle") /\ CallsOK' /\ OnlyCall(r)
         /\ req'[r] = [call EXCEPT !.op = op]
BY DEF Begins, MayBegin, CallsOK, OnlyCall

LEMMA BecomesMoves ==
  ASSUME CallsOK, NEW r \in Request, NEW call, Becomes(r, call)
  PROVE  CallsOK' /\ OnlyCall(r) /\ req'[r] = call
BY DEF Becomes, CallsOK, OnlyCall

LEMMA EndsMoves ==
  ASSUME CallsOK, NEW r \in Request, NEW reply, Ends(r, reply)
  PROVE  CallsOK' /\ OnlyCall(r) /\ req'[r].pc = reply /\ req'[r].op = req[r].op
<1>1. Becomes(r, [Answer(reply) EXCEPT !.op = req[r].op])
  BY DEF Ends
<1>2. CallsOK' /\ OnlyCall(r) /\ req'[r] = [Answer(reply) EXCEPT !.op = req[r].op]
  BY <1>1, BecomesMoves
<1> QED BY <1>2 DEF Answer, Fresh

LEMMA CrashMoves ==
  ASSUME CallsOK, CrashCalls
  PROVE  CallsOK' /\ \A q \in Request : req'[q] = req[q] \/ req'[q].pc = "crashed"
BY DEF CrashCalls, CallsOK, Answer, Fresh

Call(op, pc, target, body, todo, read, round) ==
  [op |-> op, pc |-> pc, target |-> target, body |-> body, todo |-> todo, read |-> read,
   round |-> round]

IsCall(call) ==
  \E op, pc, target, body, todo, read, round :
    call = Call(op, pc, target, body, todo, read, round)

LEMMA FreshIs == Fresh = Call("none", "idle", None, None, {}, None, 0)
BY DEF Fresh, Call

LEMMA AnswerIs ==
  ASSUME NEW reply
  PROVE  Answer(reply) = Call("none", reply, None, None, {}, None, 0)
BY DEF Answer, Fresh, Call

LEMMA Named ==
  ASSUME NEW call, IsCall(call), NEW op
  PROVE  IsCall([call EXCEPT !.op = op]) /\ [call EXCEPT !.op = op].pc = call.pc
<1>1. PICK old, pc, target, body, todo, read, round :
        call = Call(old, pc, target, body, todo, read, round)
  BY DEF IsCall
<1>2. [call EXCEPT !.op = op] = Call(op, pc, target, body, todo, read, round)
  BY <1>1 DEF Call
<1>3. Call(op, pc, target, body, todo, read, round).pc = pc /\ call.pc = pc
  BY <1>1 DEF Call
<1> QED BY <1>2, <1>3 DEF IsCall

LEMMA PartsOf ==
  ASSUME NEW op, NEW pc, NEW target, NEW body, NEW todo, NEW read, NEW round, NEW call,
         call = Call(op, pc, target, body, todo, read, round)
  PROVE  /\ IsCall(call)
         /\ call.op = op /\ call.pc = pc /\ call.target = target /\ call.body = body
         /\ call.todo = todo /\ call.read = read /\ call.round = round
<1>1. IsCall(call)
  BY DEF IsCall
<1> QED BY <1>1 DEF Call

LEMMA GoesOn ==
  ASSUME NEW old, IsCall(old), NEW there, NEW call, call = [old EXCEPT !.pc = there]
  PROVE  /\ IsCall(call) /\ call.pc = there /\ call.op = old.op /\ call.target = old.target
         /\ call.body = old.body /\ call.todo = old.todo /\ call.read = old.read
         /\ call.round = old.round
<1>1. PICK op, pc, target, body, todo, read, round :
        old = Call(op, pc, target, body, todo, read, round)
  BY DEF IsCall
<1>2. call = Call(op, there, target, body, todo, read, round)
  BY <1>1 DEF Call
<1> QED BY <1>1, <1>2, PartsOf


-----------------------------------------------------------------------------
(* One call after the other                                                *)

\* Until two calls have overlapped, one is handled at a time.
Alone == ~overlapped => \A q, r \in Request : InFlight(q) /\ InFlight(r) => q = r

\* While nothing has overlapped, the calls other than r are not being handled.
AloneWith(r) == ~overlapped' => \A q \in Request \ {r} : ~InFlight(q) /\ ~InFlight(q)'

LEMMA AloneInitially == CallsInit => Alone
BY DEF CallsInit, Alone, InFlight, Fresh

LEMMA BeginsAlone ==
  ASSUME CallsOK, NEW r \in Request, NEW op, NEW call, Begins(r, op, call)
  PROVE  Alone' /\ AloneWith(r) /\ (~overlapped' => ~overlapped)
<1>1. OnlyCall(r) /\ CallsOK'
  BY BeginsMoves
<1>2. ~overlapped' => ~overlapped /\ \A q \in Request : ~InFlight(q)
  BY DEF Begins, Overlaps
<1> QED BY <1>1, <1>2 DEF OnlyCall, Alone, AloneWith, InFlight

LEMMA BecomesAlone ==
  ASSUME CallsOK, Alone, NEW r \in Request, InFlight(r), NEW call, Becomes(r, call)
  PROVE  Alone' /\ AloneWith(r) /\ overlapped' = overlapped
<1>1. OnlyCall(r) /\ overlapped' = overlapped
  BY BecomesMoves DEF Becomes
<1> QED BY <1>1 DEF OnlyCall, Alone, AloneWith, InFlight

LEMMA EndsAlone ==
  ASSUME CallsOK, Alone, NEW r \in Request, InFlight(r), NEW reply, Ends(r, reply)
  PROVE  Alone' /\ AloneWith(r) /\ overlapped' = overlapped
BY BecomesAlone DEF Ends

LEMMA CrashAlone ==
  ASSUME CallsOK, CrashCalls
  PROVE  Alone' /\ overlapped' = overlapped
<1>1. overlapped' = overlapped /\ \A q \in Request : ~InFlight(q)'
  BY DEF CrashCalls, InFlight, Replies, Answer, Fresh
<1> QED BY <1>1 DEF Alone

-----------------------------------------------------------------------------
(* Notifications                                                           *)

NoticeShape ==
  /\ letters \in [NoticeId -> [exists : BOOLEAN, receivers : SUBSET User, reads : [User -> Nat]]]
  /\ pushed \in [NoticeId -> SUBSET User]
  /\ joined \subseteq User
  /\ CallsOK

\* What a call relies on.  A notification that was removed is not stored again,
\* since the call it is named after has begun; while it is stored, receivers are
\* only added.
NoticeCall(r) ==
  /\ At(r, "idle") => ~Stored(r) /\ pushed[r] = {}
  /\ At(r, "emit") =>
       /\ req[r].body \subseteq User
       /\ Stored(r) => req[r].body \subseteq letters[r].receivers
  /\ At(r, "readSave") =>
       /\ req[r].target \in NoticeId /\ req[r].body \in User
       /\ req[r].target \in Request => ~At(req[r].target, "idle")
       /\ Stored(req[r].target) => req[r].body \in letters[req[r].target].receivers
  /\ At(r, "dropDelete") => req[r].target \in NoticeId

NoticeInv ==
  /\ NoticeShape
  /\ ReadersReceive
  /\ \A r \in Request : NoticeCall(r)

LEMMA NoticeInitially == NoticeInit => NoticeInv
<1> SUFFICES ASSUME NoticeInit PROVE NoticeInv
  OBVIOUS
<1> DEFINE Letters == [exists : BOOLEAN, receivers : SUBSET User, reads : [User -> Nat]]
<1>1. PICK to \in [Earlier -> SUBSET User] :
        letters = [n \in NoticeId |->
          IF n \in Earlier THEN [NoLetter EXCEPT !.exists = TRUE, !.receivers = to[n]]
                           ELSE NoLetter]
  BY DEF NoticeInit
<1>2. ASSUME NEW n \in NoticeId
      PROVE  /\ letters[n] \in Letters
             /\ letters[n].reads = [u \in User |-> 0]
             /\ n \notin Earlier => ~letters[n].exists
  BY <1>1 DEF NoLetter
<1>3. pushed = [n \in NoticeId |-> {}] /\ joined \subseteq User
      /\ req = [r \in Request |-> Fresh]
  BY DEF NoticeInit, CallsInit
<1>4. NoticeShape
  <2>1. letters \in [NoticeId -> Letters]
    BY <1>1, <1>2
  <2> QED BY <1>3, <2>1 DEF NoticeShape, CallsOK
<1>5. ReadersReceive
  BY <1>2, <1>3 DEF ReadersReceive, HasRead
<1>6. ASSUME NEW r \in Request PROVE NoticeCall(r)
  <2>1. r \in NoticeId /\ r \notin Earlier /\ req[r].pc = "idle"
    BY <1>3, NoticeAssumption DEF NoticeId, Fresh
  <2> QED BY <1>2, <1>3, <2>1 DEF NoticeCall, At, Stored
<1> QED BY <1>4, <1>5, <1>6 DEF NoticeInv

\* A step that stores no notification of an earlier call, takes no receiver from
\* one that stays and answers for what it pushes and reads, and for the calls it moves.
LEMMA NoticeMove ==
  ASSUME NoticeInv, NoticeShape',
         \A n \in NoticeId :
           /\ Stored(n)' => Stored(n) \/ (n \in Request /\ At(n, "idle"))
           /\ Stored(n) /\ Stored(n)' => letters[n].receivers \subseteq letters'[n].receivers
           /\ \A u \in User : Stored(n)' /\ (u \in pushed'[n] \/ HasRead(n, u)') =>
                \/ u \in letters'[n].receivers
                \/ Stored(n) /\ (u \in pushed[n] \/ HasRead(n, u)),
         \A r \in Request :
           \/ NoticeCall(r)'
           \/ req'[r] = req[r] /\ (At(r, "idle") => letters'[r] = letters[r] /\ pushed'[r] = pushed[r]),
         \A r \in Request : At(r, "idle")' => At(r, "idle")
  PROVE  NoticeInv'
<1>1. ReadersReceive'
  BY DEF NoticeInv, ReadersReceive
<1>2. ASSUME NEW r \in Request, req'[r] = req[r],
             At(r, "idle") => letters'[r] = letters[r] /\ pushed'[r] = pushed[r]
      PROVE  NoticeCall(r)'
  <2>1. NoticeCall(r) /\ r \in NoticeId
    BY DEF NoticeInv, NoticeId
  <2>2. At(r, "idle")' => ~Stored(r)' /\ pushed'[r] = {}
    BY <1>2, <2>1 DEF NoticeCall, At, Stored
  <2>3. At(r, "emit")' =>
          /\ req'[r].body \subseteq User
          /\ Stored(r)' => req'[r].body \subseteq letters'[r].receivers
    BY <1>2, <2>1 DEF NoticeCall, At, Stored
  <2>4. At(r, "readSave")' =>
          /\ req'[r].target \in NoticeId /\ req'[r].body \in User
          /\ req'[r].target \in Request => req'[req'[r].target].pc # "idle"
          /\ letters'[req'[r].target].exists =>
               req'[r].body \in letters'[req'[r].target].receivers
    BY <1>2, <2>1 DEF NoticeCall, At, Stored
  <2>5. At(r, "dropDelete")' => req'[r].target \in NoticeId
    BY <1>2, <2>1 DEF NoticeCall, At
  <2> QED BY <2>2, <2>3, <2>4, <2>5 DEF NoticeCall, At, Stored
<1> QED BY <1>1, <1>2 DEF NoticeInv

LEMMA NoticeStays ==
  ASSUME NoticeInv, UNCHANGED noticeDocs, CallsOK', NEW r \in Request, OnlyCall(r), NoticeCall(r)',
         At(r, "idle")' => At(r, "idle")
  PROVE  NoticeInv'
<1>1. NoticeShape'
  BY DEF NoticeInv, NoticeShape, noticeDocs
<1>2. \A n \in NoticeId :
        /\ Stored(n)' => Stored(n)
        /\ letters'[n].receivers = letters[n].receivers
        /\ \A u \in User : (u \in pushed'[n] \/ HasRead(n, u)') => u \in pushed[n] \/ HasRead(n, u)
  BY DEF noticeDocs, Stored, HasRead
<1>3. \A q \in Request : NoticeCall(q)' \/ (req'[q] = req[q] /\ letters' = letters /\ pushed' = pushed)
  BY DEF OnlyCall, noticeDocs
<1>4. \A q \in Request : At(q, "idle")' => At(q, "idle")
  BY DEF OnlyCall, At
<1>5. \A n \in NoticeId, u \in User :
        Stored(n)' /\ (u \in pushed'[n] \/ HasRead(n, u)') =>
          u \in letters'[n].receivers \/ (Stored(n) /\ (u \in pushed[n] \/ HasRead(n, u)))
  BY <1>2
<1> QED BY <1>1, <1>2, <1>3, <1>4, <1>5, NoticeMove

\* A call that was answered, or stands at an await of its own, relies on nothing.
LEMMA NoticeAnswered ==
  ASSUME NEW r \in Request, req'[r].pc \notin {"idle", "emit", "readSave", "dropDelete"}
  PROVE  NoticeCall(r)' /\ (At(r, "idle")' => At(r, "idle"))
BY DEF NoticeCall, At

LEMMA SocketSteps ==
  ASSUME NoticeInv, HandleConnection \/ HandleDisconnect
  PROVE  NoticeInv'
<1>1. UNCHANGED <<letters, pushed, req>> /\ joined' \subseteq User
  BY DEF HandleConnection, HandleDisconnect, NoticeInv, NoticeShape
<1>2. NoticeShape'
  BY <1>1 DEF NoticeInv, NoticeShape, CallsOK
<1>3. ReadersReceive'
  BY <1>1 DEF NoticeInv, ReadersReceive, Stored, HasRead
<1>4. ASSUME NEW r \in Request PROVE NoticeCall(r)'
  BY <1>1 DEF NoticeInv, NoticeCall, At, Stored
<1> QED BY <1>2, <1>3, <1>4 DEF NoticeInv

LEMMA InviteStep ==
  ASSUME NoticeInv, AddReceiver
  PROVE  NoticeInv'
<1>1. PICK n \in NoticeId, u \in User :
        Stored(n) /\ letters' = [letters EXCEPT ![n].receivers = @ \cup {u}]
  BY DEF AddReceiver
<1>2. UNCHANGED <<joined, pushed, req>>
  BY DEF AddReceiver
<1>3. NoticeShape'
  BY <1>1, <1>2 DEF NoticeInv, NoticeShape, CallsOK
<1>4. ASSUME NEW m \in NoticeId
      PROVE  /\ letters'[m].exists = letters[m].exists
             /\ letters'[m].reads = letters[m].reads
             /\ letters[m].receivers \subseteq letters'[m].receivers
  BY <1>1 DEF NoticeInv, NoticeShape
<1>5. ReadersReceive'
  BY <1>2, <1>4 DEF NoticeInv, ReadersReceive, Stored, HasRead
<1>6. ASSUME NEW r \in Request PROVE NoticeCall(r)'
  <2>1. NoticeCall(r) /\ r \in NoticeId
    BY DEF NoticeInv, NoticeId
  <2>2. At(r, "readSave") => req[r].target \in NoticeId
    BY <2>1 DEF NoticeCall
  <2> QED BY <1>2, <1>4, <2>1, <2>2 DEF NoticeCall, At, Stored
<1> QED BY <1>3, <1>5, <1>6 DEF NoticeInv

LEMMA SendStep ==
  ASSUME NoticeInv, NEW r \in Request, Send(r)
  PROVE  NoticeInv'
<1>1. PICK to \in SUBSET User :
        /\ letters' = [letters EXCEPT ![r] = [NoLetter EXCEPT !.exists = TRUE, !.receivers = to]]
        /\ Begins(r, "send", [Fresh EXCEPT !.pc = "emit", !.body = to])
  BY DEF Send
<1>2. pushed' = pushed /\ joined' = joined
  BY DEF Send
<1>3. CallsOK /\ r \in NoticeId
  BY DEF NoticeInv, NoticeShape, NoticeId
<1>4. /\ At(r, "idle") /\ CallsOK' /\ OnlyCall(r)
      /\ req'[r] = [[Fresh EXCEPT !.pc = "emit", !.body = to] EXCEPT !.op = "send"]
  BY <1>1, <1>3, BeginsMoves
<1>5. req'[r].pc = "emit" /\ req'[r].body = to
  BY <1>4 DEF Fresh
<1>6. /\ letters'[r].exists /\ letters'[r].receivers = to /\ letters'[r].reads = [u \in User |-> 0]
      /\ letters'[r] \in [exists : BOOLEAN, receivers : SUBSET User, reads : [User -> Nat]]
      /\ \A n \in NoticeId \ {r} : letters'[n] = letters[n]
  BY <1>1, <1>3 DEF NoticeInv, NoticeShape, NoLetter
<1>7. NoticeShape'
  <2>1. letters' \in [NoticeId -> [exists : BOOLEAN, receivers : SUBSET User, reads : [User -> Nat]]]
    BY <1>1, <1>6 DEF NoticeInv, NoticeShape
  <2> QED BY <1>2, <1>4, <2>1 DEF NoticeInv, NoticeShape
<1>8. pushed[r] = {} /\ ~Stored(r)
  BY <1>4 DEF NoticeInv, NoticeCall
<1>9. NoticeCall(r)'
  BY <1>5, <1>6 DEF NoticeCall, At
<1>10. ASSUME NEW n \in NoticeId
       PROVE  /\ Stored(n)' => Stored(n) \/ (n \in Request /\ At(n, "idle"))
              /\ Stored(n) /\ Stored(n)' => letters[n].receivers \subseteq letters'[n].receivers
              /\ \A u \in User : Stored(n)' /\ (u \in pushed'[n] \/ HasRead(n, u)') =>
                   \/ u \in letters'[n].receivers
                   \/ Stored(n) /\ (u \in pushed[n] \/ HasRead(n, u))
  BY <1>2, <1>4, <1>6, <1>8 DEF Stored, HasRead
<1>11. ASSUME NEW q \in Request
       PROVE  /\ \/ NoticeCall(q)'
                 \/ req'[q] = req[q] /\ (At(q, "idle") => letters'[q] = letters[q] /\ pushed'[q] = pushed[q])
              /\ At(q, "idle")' => At(q, "idle")
  BY <1>2, <1>4, <1>5, <1>6, <1>9 DEF OnlyCall, At, NoticeId
<1> QED BY <1>7, <1>10, <1>11, NoticeMove

LEMMA EmitStep ==
  ASSUME NoticeInv, NEW r \in Request, Emit(r)
  PROVE  NoticeInv'
<1>1. At(r, "emit") /\ letters' = letters /\ joined' = joined /\ CallsOK
  BY DEF Emit, NoticeInv, NoticeShape
<1>2. r \in NoticeId /\ NoticeCall(r)
  BY DEF NoticeInv, NoticeId
<1>3. CASE ~Stored(r)
  <2>1. UNCHANGED noticeDocs /\ Ends(r, "error")
    BY <1>1, <1>3 DEF Emit, noticeDocs
  <2> QED BY <1>1, <2>1, EndsMoves, NoticeAnswered, NoticeStays
<1>4. CASE Stored(r)
  <2>1. pushed' = [pushed EXCEPT ![r] = Room(req[r].body)] /\ Ends(r, "ok")
    BY <1>4 DEF Emit
  <2>2. CallsOK' /\ OnlyCall(r) /\ req'[r].pc = "ok"
    BY <1>1, <2>1, EndsMoves
  <2>3. req[r].body \subseteq User /\ req[r].body \subseteq letters[r].receivers
    BY <1>1, <1>2, <1>4 DEF NoticeCall
  <2>4. NoticeShape'
    BY <1>1, <2>1, <2>2, <2>3 DEF NoticeInv, NoticeShape, Room
  <2>5. \A n \in NoticeId, u \in User :
          u \in pushed'[n] => u \in pushed[n] \/ u \in letters[n].receivers
    BY <1>2, <2>1, <2>3 DEF NoticeInv, NoticeShape, Room
  <2>6. NoticeCall(r)' /\ (At(r, "idle")' => At(r, "idle"))
    BY <2>2, NoticeAnswered
  <2>7. \A q \in Request \ {r} : pushed'[q] = pushed[q] /\ req'[q] = req[q]
    BY <2>1, <2>2 DEF OnlyCall, NoticeInv, NoticeShape, NoticeId
  <2>8. ASSUME NEW n \in NoticeId
        PROVE  /\ Stored(n)' => Stored(n)
               /\ letters'[n].receivers = letters[n].receivers
               /\ \A u \in User : Stored(n)' /\ (u \in pushed'[n] \/ HasRead(n, u)') =>
                    \/ u \in letters'[n].receivers
                    \/ Stored(n) /\ (u \in pushed[n] \/ HasRead(n, u))
    BY <1>1, <2>5 DEF Stored, HasRead
  <2>9. \A q \in Request : At(q, "idle")' => At(q, "idle")
    BY <2>6, <2>7 DEF At
  <2> QED BY <1>1, <2>4, <2>6, <2>7, <2>8, <2>9, NoticeMove
<1> QED BY <1>3, <1>4

LEMMA ReadStep ==
  ASSUME NoticeInv, NEW r \in Request, MarkAsRead(r)
  PROVE  NoticeInv'
<1>1. PICK n \in NoticeId, u \in User :
        /\ Stored(n)
        /\ Begins(r, "read",
             IF u \notin letters[n].receivers THEN Answer("error")
             ELSE IF HasRead(n, u) THEN Answer("ok")
             ELSE [Fresh EXCEPT !.pc = "readSave", !.target = n, !.body = u])
  BY DEF MarkAsRead
<1>2. CallsOK /\ NoticeCall(r) /\ UNCHANGED noticeDocs
  BY DEF MarkAsRead, NoticeInv, NoticeShape
<1> DEFINE call == [Fresh EXCEPT !.pc = "readSave", !.target = n, !.body = u]
<1>3. CASE u \notin letters[n].receivers \/ HasRead(n, u)
  <2>1. PICK reply \in {"ok", "error"} : Begins(r, "read", Answer(reply))
    BY <1>1, <1>3
  <2>2. CallsOK' /\ OnlyCall(r) /\ req'[r] = [Answer(reply) EXCEPT !.op = "read"]
    BY <1>2, <2>1, BeginsMoves
  <2>3. req'[r].pc = reply
    BY <2>2 DEF Answer, Fresh
  <2> QED BY <1>2, <2>2, <2>3, NoticeAnswered, NoticeStays
<1>4. CASE u \in letters[n].receivers /\ ~HasRead(n, u)
  <2>1. Begins(r, "read", call)
    BY <1>1, <1>4
  <2>2. At(r, "idle") /\ CallsOK' /\ OnlyCall(r) /\ req'[r] = [call EXCEPT !.op = "read"]
    BY <1>2, <2>1, BeginsMoves
  <2>3. req'[r].pc = "readSave" /\ req'[r].target = n /\ req'[r].body = u
    BY <2>2 DEF Fresh
  <2>4. n \in Request => n # r /\ ~At(n, "idle")
    BY <1>1, <2>2 DEF NoticeInv, NoticeCall
  <2>5. n \in Request => req'[n].pc # "idle"
    BY <2>2, <2>4 DEF OnlyCall, At
  <2>6. letters' = letters
    BY <1>2 DEF noticeDocs
  <2>7. NoticeCall(r)'
    BY <1>4, <2>3, <2>5, <2>6 DEF NoticeCall, At, Stored
  <2> QED BY <1>2, <2>2, <2>3, <2>7, NoticeStays DEF At
<1> QED BY <1>3, <1>4

LEMMA SaveReadStep ==
  ASSUME NoticeInv, NEW r \in Request, SaveRead(r)
  PROVE  NoticeInv'
<1> DEFINE n == req[r].target
           u == req[r].body
<1>1. At(r, "readSave") /\ pushed' = pushed /\ joined' = joined /\ CallsOK
  BY DEF SaveRead, NoticeInv, NoticeShape
<1>2. n \in NoticeId /\ u \in User /\ (Stored(n) => u \in letters[n].receivers)
  BY <1>1 DEF NoticeInv, NoticeCall
<1>3. CASE ~Stored(n)
  <2>1. UNCHANGED noticeDocs /\ Ends(r, "error")
    BY <1>1, <1>3 DEF SaveRead, noticeDocs
  <2> QED BY <1>1, <2>1, EndsMoves, NoticeAnswered, NoticeStays
<1>4. CASE Stored(n)
  <2>1. letters' = [letters EXCEPT ![n].reads[u] = @ + 1] /\ Ends(r, "ok")
    BY <1>4 DEF SaveRead
  <2>2. CallsOK' /\ OnlyCall(r) /\ req'[r].pc = "ok"
    BY <1>1, <2>1, EndsMoves
  <2>3. letters \in [NoticeId -> [exists : BOOLEAN, receivers : SUBSET User, reads : [User -> Nat]]]
    BY DEF NoticeInv, NoticeShape
  <2> DEFINE reads == [letters[n].reads EXCEPT ![u] = letters[n].reads[u] + 1]
  <2>4. reads \in [User -> Nat] /\ \A v \in User \ {u} : reads[v] = letters[n].reads[v]
    BY <1>2, <2>3
  <2>4a. letters' = [letters EXCEPT ![n] = [letters[n] EXCEPT !.reads = reads]]
    BY <2>1
  <2> HIDE DEF reads
  <2>5. /\ letters'[n].exists = letters[n].exists
        /\ letters'[n].receivers = letters[n].receivers
        /\ letters'[n].reads = reads
        /\ letters'[n] \in [exists : BOOLEAN, receivers : SUBSET User, reads : [User -> Nat]]
        /\ \A m \in NoticeId \ {n} : letters'[m] = letters[m]
    BY <1>2, <2>3, <2>4, <2>4a
  <2>6. letters' \in [NoticeId -> [exists : BOOLEAN, receivers : SUBSET User, reads : [User -> Nat]]]
    BY <1>2, <2>3, <2>4a, <2>5
  <2>7. NoticeShape'
    BY <1>1, <2>2, <2>6 DEF NoticeInv, NoticeShape
  <2>8. \A v \in User : v # u => letters'[n].reads[v] = letters[n].reads[v]
    BY <2>4, <2>5
  <2>9. ASSUME NEW m \in NoticeId
        PROVE  /\ Stored(m)' => Stored(m)
               /\ letters'[m].receivers = letters[m].receivers
               /\ \A v \in User : Stored(m)' /\ (v \in pushed'[m] \/ HasRead(m, v)') =>
                    \/ v \in letters'[m].receivers
                    \/ Stored(m) /\ (v \in pushed[m] \/ HasRead(m, v))
    BY <1>1, <1>2, <1>4, <2>5, <2>8 DEF Stored, HasRead
  <2>10. NoticeCall(r)' /\ (At(r, "idle")' => At(r, "idle"))
    BY <2>2, NoticeAnswered
  <2>11. ASSUME NEW q \in Request \ {r}
         PROVE  req'[q] = req[q] /\ (At(q, "idle") => letters'[q] = letters[q] /\ pushed'[q] = pushed[q])
    <3>1. At(q, "idle") => q # n
      BY <1>4 DEF NoticeInv, NoticeCall
    <3> QED BY <1>1, <2>2, <2>5, <3>1 DEF OnlyCall, NoticeId
  <2>12. \A q \in Request : At(q, "idle")' => At(q, "idle")
    BY <2>10, <2>11 DEF At
  <2> QED BY <2>7, <2>9, <2>10, <2>11, <2>12, NoticeMove
<1> QED BY <1>3, <1>4

LEMMA ReadAllStep ==
  ASSUME NoticeInv, NEW r \in Request, MarkAllAsRead(r)
  PROVE  NoticeInv'
<1>1. PICK u \in User :
        letters' = [n \in NoticeId |->
          IF n \in Unread(u) THEN [letters[n] EXCEPT !.reads[u] = 1] ELSE letters[n]]
  BY DEF MarkAllAsRead
<1>2. pushed' = pushed /\ joined' = joined /\ CallsOK /\ Begins(r, "readAll", Answer("ok"))
  BY DEF MarkAllAsRead, NoticeInv, NoticeShape
<1>3. CallsOK' /\ OnlyCall(r) /\ req'[r] = [Answer("ok") EXCEPT !.op = "readAll"]
  BY <1>2, BeginsMoves
<1>4. req'[r].pc = "ok"
  BY <1>3 DEF Answer, Fresh
<1>5. letters \in [NoticeId -> [exists : BOOLEAN, receivers : SUBSET User, reads : [User -> Nat]]]
  BY DEF NoticeInv, NoticeShape
<1>6. ASSUME NEW n \in NoticeId
      PROVE  /\ letters'[n].exists = letters[n].exists
             /\ letters'[n].receivers = letters[n].receivers
             /\ letters'[n] \in [exists : BOOLEAN, receivers : SUBSET User, reads : [User -> Nat]]
             /\ \A v \in User : letters'[n].reads[v] # letters[n].reads[v] => v \in letters[n].receivers
             /\ letters'[n] # letters[n] => Stored(n)
  <2>1. CASE n \notin Unread(u)
    BY <1>1, <1>5, <2>1
  <2>2. CASE n \in Unread(u)
    <3>1. letters'[n] = [letters[n] EXCEPT !.reads = [letters[n].reads EXCEPT ![u] = 1]]
      BY <1>1, <2>2
    <3>2. u \in letters[n].receivers /\ Stored(n)
      BY <2>2 DEF Unread
    <3> QED BY <1>5, <3>1, <3>2
  <2> QED BY <2>1, <2>2
<1>7. letters' \in [NoticeId -> [exists : BOOLEAN, receivers : SUBSET User, reads : [User -> Nat]]]
  BY <1>1, <1>6
<1>8. NoticeShape'
  BY <1>2, <1>3, <1>7 DEF NoticeInv, NoticeShape
<1>9. ASSUME NEW m \in NoticeId
      PROVE  /\ Stored(m)' => Stored(m)
             /\ letters'[m].receivers = letters[m].receivers
             /\ \A v \in User : Stored(m)' /\ (v \in pushed'[m] \/ HasRead(m, v)') =>
                  \/ v \in letters'[m].receivers
                  \/ Stored(m) /\ (v \in pushed[m] \/ HasRead(m, v))
  BY <1>2, <1>6 DEF Stored, HasRead
<1>10. NoticeCall(r)' /\ (At(r, "idle")' => At(r, "idle"))
  BY <1>4, NoticeAnswered
<1>11. ASSUME NEW q \in Request \ {r}
       PROVE  req'[q] = req[q] /\ (At(q, "idle") => letters'[q] = letters[q] /\ pushed'[q] = pushed[q])
  <2>1. At(q, "idle") => ~Stored(q)
    BY DEF NoticeInv, NoticeCall
  <2> QED BY <1>2, <1>3, <1>6, <2>1 DEF OnlyCall, NoticeId
<1>12. \A q \in Request : At(q, "idle")' => At(q, "idle")
  BY <1>10, <1>11 DEF At
<1> QED BY <1>8, <1>9, <1>10, <1>11, <1>12, NoticeMove

LEMMA RemoveStep ==
  ASSUME NoticeInv, NEW r \in Request, RemoveNotification(r)
  PROVE  NoticeInv'
<1>1. PICK n \in NoticeId :
        \/ Begins(r, "drop", [Fresh EXCEPT !.pc = "dropDelete", !.target = n])
        \/ Begins(r, "drop", Answer("error"))
  BY DEF RemoveNotification
<1>2. CallsOK /\ UNCHANGED noticeDocs
  BY DEF RemoveNotification, NoticeInv, NoticeShape
<1>3. CASE Begins(r, "drop", Answer("error"))
  <2>1. CallsOK' /\ OnlyCall(r) /\ req'[r] = [Answer("error") EXCEPT !.op = "drop"]
    BY <1>2, <1>3, BeginsMoves
  <2>2. req'[r].pc = "error"
    BY <2>1 DEF Answer, Fresh
  <2> QED BY <1>2, <2>1, <2>2, NoticeAnswered, NoticeStays
<1>4. CASE Begins(r, "drop", [Fresh EXCEPT !.pc = "dropDelete", !.target = n])
  <2>1. /\ CallsOK' /\ OnlyCall(r)
        /\ req'[r] = [[Fresh EXCEPT !.pc = "dropDelete", !.target = n] EXCEPT !.op = "drop"]
    BY <1>2, <1>4, BeginsMoves
  <2>2. req'[r].pc = "dropDelete" /\ req'[r].target = n
    BY <2>1 DEF Fresh
  <2>3. NoticeCall(r)'
    BY <2>2 DEF NoticeCall, At
  <2> QED BY <1>2, <2>1, <2>2, <2>3, NoticeStays DEF At
<1> QED BY <1>1, <1>3, <1>4

LEMMA DeleteStep ==
  ASSUME NoticeInv, NEW r \in Request, DeleteNotification(r)
  PROVE  NoticeInv'
<1>0. PICK n \in NoticeId : n = req[r].target
  <2>1. At(r, "dropDelete") => req[r].target \in NoticeId
    BY DEF NoticeInv, NoticeCall
  <2> QED BY <2>1 DEF DeleteNotification
<1>1. /\ At(r, "dropDelete") /\ pushed' = pushed /\ joined' = joined /\ CallsOK
      /\ letters' = [letters EXCEPT ![n] = NoLetter] /\ Ends(r, "ok")
  BY <1>0 DEF DeleteNotification, NoticeInv, NoticeShape
<1>3. CallsOK' /\ OnlyCall(r) /\ req'[r].pc = "ok"
  BY <1>1, EndsMoves
<1>4. NoLetter \in [exists : BOOLEAN, receivers : SUBSET User, reads : [User -> Nat]]
      /\ ~NoLetter.exists
  BY DEF NoLetter
<1>5. letters \in [NoticeId -> [exists : BOOLEAN, receivers : SUBSET User, reads : [User -> Nat]]]
  BY DEF NoticeInv, NoticeShape
<1>6. NoticeShape'
  BY <1>1, <1>3, <1>4, <1>5 DEF NoticeInv, NoticeShape
<1>7. ~Stored(n)' /\ \A m \in NoticeId \ {n} : letters'[m] = letters[m]
  <2>1. letters'[n] = NoLetter /\ \A m \in NoticeId \ {n} : letters'[m] = letters[m]
    BY <1>0, <1>1, <1>5
  <2> QED BY <1>4, <2>1 DEF Stored
<1>8. ASSUME NEW m \in NoticeId
      PROVE  /\ Stored(m)' => Stored(m)
             /\ Stored(m) /\ Stored(m)' => letters[m].receivers \subseteq letters'[m].receivers
             /\ \A v \in User : Stored(m)' /\ (v \in pushed'[m] \/ HasRead(m, v)') =>
                  \/ v \in letters'[m].receivers
                  \/ Stored(m) /\ (v \in pushed[m] \/ HasRead(m, v))
  <2>1. CASE m = n
    BY <1>7, <2>1
  <2>2. CASE m # n
    BY <1>1, <1>7, <2>2 DEF Stored, HasRead
  <2> QED BY <2>1, <2>2
<1>9. NoticeCall(r)' /\ (At(r, "idle")' => At(r, "idle"))
  BY <1>3, NoticeAnswered
<1>10. ASSUME NEW q \in Request \ {r}
       PROVE  \/ NoticeCall(q)'
              \/ req'[q] = req[q] /\ (At(q, "idle") => letters'[q] = letters[q] /\ pushed'[q] = pushed[q])
  <2>1. CASE q # n
    BY <1>1, <1>3, <1>7, <2>1 DEF OnlyCall, NoticeId
  <2>2. CASE q = n
    <3>1. NoticeCall(q) /\ req'[q] = req[q]
      BY <1>3 DEF NoticeInv, OnlyCall
    <3>2. CASE At(q, "idle")
      <4>1. /\ pushed'[q] = {} /\ ~letters'[q].exists
            /\ req'[q].pc = "idle"
        BY <1>1, <1>7, <2>2, <3>1, <3>2 DEF NoticeCall, At, Stored
      <4> QED BY <4>1 DEF NoticeCall, At, Stored
    <3>3. CASE ~At(q, "idle")
      BY <3>1, <3>3
    <3> QED BY <3>2, <3>3
  <2> QED BY <2>1, <2>2
<1>11. \A q \in Request : At(q, "idle")' => At(q, "idle")
  BY <1>3, <1>9 DEF At, OnlyCall
<1> QED BY <1>6, <1>8, <1>9, <1>10, <1>11, NoticeMove

LEMMA NoticeCrash ==
  ASSUME NoticeInv, CrashCalls, UNCHANGED noticeDocs
  PROVE  NoticeInv'
<1>1. CallsOK' /\ \A q \in Request : req'[q] = req[q] \/ req'[q].pc = "crashed"
  BY CrashMoves DEF NoticeInv, NoticeShape
<1>2. letters' = letters /\ pushed' = pushed /\ joined' = joined
  BY DEF noticeDocs
<1>3. NoticeShape'
  BY <1>1, <1>2 DEF NoticeInv, NoticeShape
<1>4. \A n \in NoticeId :
        /\ Stored(n)' => Stored(n)
        /\ letters'[n].receivers = letters[n].receivers
        /\ \A u \in User : Stored(n)' /\ (u \in pushed'[n] \/ HasRead(n, u)') =>
             \/ u \in letters'[n].receivers
             \/ Stored(n) /\ (u \in pushed[n] \/ HasRead(n, u))
  BY <1>2 DEF Stored, HasRead
<1>5. ASSUME NEW q \in Request
      PROVE  /\ \/ NoticeCall(q)'
                \/ req'[q] = req[q] /\ (At(q, "idle") => letters'[q] = letters[q] /\ pushed'[q] = pushed[q])
             /\ At(q, "idle")' => At(q, "idle")
  BY <1>1, <1>2, NoticeAnswered DEF At
<1> QED BY <1>3, <1>4, <1>5, NoticeMove

LEMMA NoticeStep == NoticeInv /\ [NoticeNext \/ (CrashCalls /\ UNCHANGED noticeDocs)]_noticeVars => NoticeInv'
<1> SUFFICES ASSUME NoticeInv, [NoticeNext \/ (CrashCalls /\ UNCHANGED noticeDocs)]_noticeVars
             PROVE  NoticeInv'
  OBVIOUS
<1>1. CASE HandleConnection \/ HandleDisconnect
  BY <1>1, SocketSteps
<1>2. CASE AddReceiver
  BY <1>2, InviteStep
<1>3. ASSUME NEW r \in Request,
             \/ Send(r) \/ Emit(r) \/ FindAllForUser(r)
             \/ MarkAsRead(r) \/ SaveRead(r) \/ MarkAllAsRead(r)
             \/ RemoveNotification(r) \/ DeleteNotification(r)
      PROVE  NoticeInv'
  <2>1. CASE FindAllForUser(r)
    <3>1. PICK reply \in {"ok", "error"} : Begins(r, "inbox", Answer(reply))
      BY <2>1 DEF FindAllForUser
    <3>2. CallsOK /\ UNCHANGED noticeDocs
      BY <2>1 DEF FindAllForUser, NoticeInv, NoticeShape
    <3>3. CallsOK' /\ OnlyCall(r) /\ req'[r] = [Answer(reply) EXCEPT !.op = "inbox"]
      BY <3>1, <3>2, BeginsMoves
    <3>4. req'[r].pc = reply
      BY <3>3 DEF Answer, Fresh
    <3> QED BY <3>2, <3>3, <3>4, NoticeAnswered, NoticeStays
  <2> QED BY <1>3, <2>1, SendStep, EmitStep, ReadStep, SaveReadStep, ReadAllStep, RemoveStep, DeleteStep
<1>4. CASE UNCHANGED noticeVars
  <2>1. letters' = letters /\ pushed' = pushed /\ joined' = joined /\ req' = req
    BY <1>4 DEF noticeVars, noticeDocs
  <2>2. NoticeShape' /\ ReadersReceive'
    BY <2>1 DEF NoticeInv, NoticeShape, ReadersReceive, CallsOK, Stored, HasRead
  <2>3. \A r \in Request : NoticeCall(r)'
    BY <2>1 DEF NoticeInv, NoticeCall, At, Stored
  <2> QED BY <2>2, <2>3 DEF NoticeInv
<1> QED BY <1>1, <1>2, <1>3, <1>4, NoticeCrash DEF NoticeNext

\* Whatever calls and sockets interleave: a receiver list, a reader list and what
\* a call in flight holds of a notification agree, in the sense of NoticeInv.
THEOREM NoticesCorrect == NoticeSpec => []NoticeInv
BY NoticeInitially, NoticeStep, PTL DEF NoticeSpec

\* Only a receiver is pushed a notification or on record as its reader, whatever
\* is added, read and removed meanwhile.
THEOREM ReadersReceiveHolds == NoticeSpec => []ReadersReceive
<1>1. NoticeInv => ReadersReceive
  BY DEF NoticeInv
<1> QED BY <1>1, NoticesCorrect, PTL

\* A notification that a user has read stays read, or is removed.
THEOREM ReadStaysReadHolds == NoticeSpec => ReadStaysRead
<1> DEFINE StaysRead(n, u) == Stored(n) /\ HasRead(n, u) => (HasRead(n, u) \/ ~Stored(n))'
<1>1. ASSUME NoticeInv, [NoticeNext \/ (CrashCalls /\ UNCHANGED noticeDocs)]_noticeVars,
             NEW n \in NoticeId, NEW u \in User
      PROVE  StaysRead(n, u)
  <2>1. letters \in [NoticeId -> [exists : BOOLEAN, receivers : SUBSET User, reads : [User -> Nat]]]
    BY <1>1 DEF NoticeInv, NoticeShape
  <2>2. CASE letters' = letters
    BY <2>2 DEF HasRead
  <2>3. CASE AddReceiver
    <3>1. PICK m \in NoticeId, v \in User : letters' = [letters EXCEPT ![m].receivers = @ \cup {v}]
      BY <2>3 DEF AddReceiver
    <3>2. letters'[n].reads = letters[n].reads
      BY <2>1, <3>1
    <3> QED BY <3>2 DEF HasRead
  <2>4. ASSUME NEW r \in Request, Send(r)
        PROVE  StaysRead(n, u)
    <3>1. At(r, "idle")
      BY <2>4 DEF Send, Begins, MayBegin
    <3>2. ~Stored(r) /\ \A m \in NoticeId \ {r} : letters'[m] = letters[m]
      BY <1>1, <2>1, <2>4, <3>1 DEF Send, NoticeInv, NoticeCall
    <3> QED BY <3>2 DEF HasRead
  <2>5. ASSUME NEW r \in Request, SaveRead(r)
        PROVE  StaysRead(n, u)
    <3>1. PICK m \in NoticeId, v \in User : m = req[r].target /\ v = req[r].body
      BY <1>1, <2>5 DEF SaveRead, NoticeInv, NoticeCall
    <3>2. CASE letters' = [letters EXCEPT ![m].reads[v] = @ + 1]
      <4> DEFINE reads == [letters[m].reads EXCEPT ![v] = letters[m].reads[v] + 1]
      <4>1. reads[u] = letters[m].reads[u] \/ reads[u] = letters[m].reads[u] + 1
        BY <2>1
      <4>2. letters' = [letters EXCEPT ![m] = [letters[m] EXCEPT !.reads = reads]]
        BY <3>2
      <4> HIDE DEF reads
      <4>3. letters'[n] = letters[n] \/ (n = m /\ letters'[n].reads = reads)
        BY <2>1, <4>2
      <4>4. letters[n].reads[u] \in Nat
        BY <2>1
      <4> QED BY <4>1, <4>3, <4>4 DEF HasRead
    <3> QED BY <2>2, <2>5, <3>1, <3>2 DEF SaveRead
  <2>6. ASSUME NEW r \in Request, MarkAllAsRead(r)
        PROVE  StaysRead(n, u)
    <3>1. PICK v \in User :
            letters' = [m \in NoticeId |->
              IF m \in Unread(v) THEN [letters[m] EXCEPT !.reads[v] = 1] ELSE letters[m]]
      BY <2>6 DEF MarkAllAsRead
    <3>2. CASE n \notin Unread(v)
      BY <3>1, <3>2 DEF HasRead
    <3>3. CASE n \in Unread(v)
      <4> DEFINE reads == [letters[n].reads EXCEPT ![v] = 1]
      <4>1. reads[u] = letters[n].reads[u] \/ reads[u] = 1
        BY <2>1
      <4>2. letters'[n] = [letters[n] EXCEPT !.reads = reads]
        BY <3>1, <3>3
      <4> HIDE DEF reads
      <4>3. letters'[n].reads = reads
        BY <2>1, <4>2
      <4> QED BY <4>1, <4>3 DEF HasRead
    <3> QED BY <3>2, <3>3
  <2>7. ASSUME NEW r \in Request, DeleteNotification(r)
        PROVE  StaysRead(n, u)
    <3>1. letters' = [letters EXCEPT ![req[r].target] = NoLetter]
      BY <2>7 DEF DeleteNotification
    <3>2. letters'[n] = letters[n] \/ letters'[n] = NoLetter
      BY <2>1, <3>1
    <3> QED BY <3>2 DEF HasRead, Stored, NoLetter
  <2>8. \/ letters' = letters \/ AddReceiver
        \/ \E r \in Request : Send(r) \/ SaveRead(r) \/ MarkAllAsRead(r) \/ DeleteNotification(r)
    BY <1>1 DEF NoticeNext, HandleConnection, HandleDisconnect, Emit, FindAllForUser, MarkAsRead,
                RemoveNotification, noticeVars, noticeDocs
  <2> QED BY <2>2, <2>3, <2>4, <2>5, <2>6, <2>7, <2>8
<1>2. NoticeInv /\ [NoticeNext \/ (CrashCalls /\ UNCHANGED noticeDocs)]_noticeVars =>
        [\A n \in NoticeId, u \in User :
           Stored(n) /\ HasRead(n, u) => (HasRead(n, u) \/ ~Stored(n))']_noticeVars
  BY <1>1
<1> QED BY <1>2, NoticesCorrect, PTL DEF NoticeSpec, ReadStaysRead

-----------------------------------------------------------------------------
(* Records                                                                 *)

RecordShape ==
  /\ DOMAIN records = Request /\ records = [r \in Request |-> records[r]]
  /\ CallsOK

\* The locals of a seed of the locations.
Seeding ==
  [op : {"locations"}, pc : {"locationFind", "locationSave"}, target : Country \cup {None},
   body : {None}, todo : SUBSET Country, read : {None}, round : {0}]

\* What a call that has stored something relies on: its object is not taken back,
\* and its certificate is the one on record or has been removed.
RecordCall(r) ==
  /\ At(r, "fileRecord") => r \in objects /\ req[r].op = "upload"
  /\ At(r, "certificateSave") =>
       req[r].op = "certificate" /\ records[r] \in {None, <<"certificate">>}
  /\ req[r].pc \in {"locationFind", "locationSave"} => req[r] \in Seeding

FileInv ==
  /\ RecordShape
  /\ FileOnRecordIsThere
  /\ \A r \in Request : RecordCall(r)

LEMMA RecordInitially == RecordInit => FileInv
<1> SUFFICES ASSUME RecordInit PROVE FileInv
  OBVIOUS
<1>1. records = [r \in Request |-> None] /\ req = [r \in Request |-> Fresh]
  BY DEF RecordInit, CallsInit
<1>2. RecordShape
  BY <1>1 DEF RecordShape, CallsOK
<1>3. "file" \in Kind
  BY DEF Kind
<1>4. FileOnRecordIsThere
  BY <1>1, <1>3, RecordAssumption DEF FileOnRecordIsThere, Kept
<1>5. \A r \in Request : RecordCall(r)
  BY <1>1 DEF RecordCall, At, Fresh
<1> QED BY <1>2, <1>4, <1>5 DEF FileInv

\* Objects are not taken back, and whatever is put on record by a call is a file
\* only where its object is.
LEMMA RecordMove ==
  ASSUME FileInv, RecordShape', objects \subseteq objects',
         \A q \in Request :
           \/ records'[q] \in {records[q], None}
           \/ RecordCall(q)' /\ (Kept(q, "file")' => q \in objects),
         \A q \in Request : RecordCall(q)' \/ req'[q] = req[q]
  PROVE  FileInv'
<1>0. None # <<"file">>
  BY RecordAssumption DEF Kind
<1>1. FileOnRecordIsThere'
  BY <1>0 DEF FileInv, FileOnRecordIsThere, Kept
<1>2. ASSUME NEW q \in Request, req'[q] = req[q], records'[q] \in {records[q], None}
      PROVE  RecordCall(q)'
  <2>1. RecordCall(q)
    BY DEF FileInv
  <2> QED BY <1>2, <2>1 DEF RecordCall, At, Seeding
<1> QED BY <1>1, <1>2 DEF FileInv

\* A call that was answered or stands at an await of its own.
LEMMA RecordAnswered ==
  ASSUME NEW r \in Request,
         req'[r].pc \notin {"fileRecord", "certificateSave", "locationFind", "locationSave"}
  PROVE  RecordCall(r)'
BY DEF RecordCall, At

\* What a call stands at or is answered when it begins.
LEMMA BeginsAnswer ==
  ASSUME CallsOK, NEW r \in Request, NEW op, NEW reply, Begins(r, op, Answer(reply))
  PROVE  CallsOK' /\ OnlyCall(r) /\ At(r, "idle") /\ req'[r].pc = reply
<1>1. /\ CallsOK' /\ OnlyCall(r) /\ At(r, "idle")
      /\ req'[r] = [Answer(reply) EXCEPT !.op = op]
  BY BeginsMoves
<1> QED BY <1>1 DEF Answer, Fresh

LEMMA BeginsAt ==
  ASSUME CallsOK, NEW r \in Request, NEW op, NEW pc, Begins(r, op, [Fresh EXCEPT !.pc = pc])
  PROVE  CallsOK' /\ OnlyCall(r) /\ At(r, "idle") /\ req'[r].pc = pc /\ req'[r].op = op
<1>1. /\ CallsOK' /\ OnlyCall(r) /\ At(r, "idle")
      /\ req'[r] = [[Fresh EXCEPT !.pc = pc] EXCEPT !.op = op]
  BY BeginsMoves
<1> QED BY <1>1 DEF Fresh

LEMMA InsertShape ==
  ASSUME RecordShape, CallsOK', NEW r \in Request, NEW kind, Insert(r, kind)
  PROVE  /\ RecordShape' /\ objects' = objects /\ records'[r] = <<kind>>
         /\ \A q \in Request \ {r} : records'[q] = records[q]
BY DEF RecordShape, Insert

\* A document stored by a call that begins, answered at once or after a notice.
LEMMA InsertStep ==
  ASSUME FileInv, NEW r \in Request, NEW kind \in Kind \ {"file"}, Insert(r, kind),
         CallsOK', OnlyCall(r), At(r, "idle"), RecordCall(r)'
  PROVE  FileInv'
<1>1. /\ RecordShape' /\ objects' = objects /\ records'[r] = <<kind>>
      /\ \A q \in Request \ {r} : records'[q] = records[q]
  BY InsertShape DEF FileInv
<1>2. ~Kept(r, "file")'
  BY <1>1 DEF Kept
<1> QED BY <1>1, <1>2, RecordMove DEF OnlyCall

LEMMA CreateSteps ==
  ASSUME FileInv, NEW r \in Request,
         \/ CreateCertificate(r) \/ CreateEnrollment(r) \/ CreateBundleOffer(r)
         \/ CreateBlog(r) \/ CreateEnquiry(r)
  PROVE  FileInv'
<1>0. CallsOK /\ RecordShape /\ {"certificate", "enrollment", "bundle", "blog", "enquiry"} \subseteq Kind \ {"file"}
  BY DEF FileInv, RecordShape, Kind
<1>1. CASE CreateCertificate(r)
  <2>1. CallsOK' /\ OnlyCall(r) /\ At(r, "idle") /\ req'[r].pc = "certificateSave" /\ req'[r].op = "certificate"
    BY <1>0, <1>1, BeginsAt DEF CreateCertificate
  <2>2. records'[r] = <<"certificate">>
    BY <1>0, <1>1, <2>1, InsertShape DEF CreateCertificate
  <2>3. RecordCall(r)'
    BY <2>1, <2>2 DEF RecordCall, At
  <2> QED BY <1>0, <1>1, <2>1, <2>3, InsertStep DEF CreateCertificate
<1>2. CASE CreateEnrollment(r)
  <2>1. CallsOK' /\ OnlyCall(r) /\ At(r, "idle") /\ req'[r].pc = "enrollmentNotice"
    BY <1>0, <1>2, BeginsAt DEF CreateEnrollment
  <2> QED BY <1>0, <1>2, <2>1, RecordAnswered, InsertStep DEF CreateEnrollment
<1>3. CASE CreateBundleOffer(r)
  <2>1. CallsOK' /\ OnlyCall(r) /\ At(r, "idle") /\ req'[r].pc = "ok"
    BY <1>0, <1>3, BeginsAnswer DEF CreateBundleOffer
  <2> QED BY <1>0, <1>3, <2>1, RecordAnswered, InsertStep DEF CreateBundleOffer
<1>4. CASE CreateBlog(r)
  <2>1. CallsOK' /\ OnlyCall(r) /\ At(r, "idle") /\ req'[r].pc = "ok"
    BY <1>0, <1>4, BeginsAnswer DEF CreateBlog
  <2> QED BY <1>0, <1>4, <2>1, RecordAnswered, InsertStep DEF CreateBlog
<1>5. CASE CreateEnquiry(r)
  <2>1. CallsOK' /\ OnlyCall(r) /\ At(r, "idle") /\ req'[r].pc = "enquiryMail"
    BY <1>0, <1>5, BeginsAt DEF CreateEnquiry
  <2> QED BY <1>0, <1>5, <2>1, RecordAnswered, InsertStep DEF CreateEnquiry
<1> QED BY <1>1, <1>2, <1>3, <1>4, <1>5

\* The steps that store nothing.
LEMMA QuietRecordStep ==
  ASSUME FileInv, records' = records, objects \subseteq objects', NEW r \in Request,
         CallsOK', OnlyCall(r), RecordCall(r)'
  PROVE  FileInv'
<1>1. RecordShape'
  BY DEF FileInv, RecordShape
<1> QED BY <1>1, RecordMove DEF OnlyCall

LEMMA EndSteps ==
  ASSUME FileInv, NEW r \in Request,
         \/ SaveCertificate(r) \/ NoticeEnrollment(r) \/ MailEnquiry(r) \/ SeedLocationsDone(r)
  PROVE  FileInv'
<1>1. records' = records /\ objects' = objects /\ CallsOK
  BY DEF SaveCertificate, NoticeEnrollment, MailEnquiry, SeedLocationsDone, recordDocs, FileInv,
         RecordShape
<1>2. PICK reply \in {"ok", "error"} : Ends(r, reply)
  BY DEF SaveCertificate, NoticeEnrollment, MailEnquiry, SeedLocationsDone
<1>3. CallsOK' /\ OnlyCall(r) /\ req'[r].pc = reply
  BY <1>1, <1>2, EndsMoves
<1> QED BY <1>1, <1>3, RecordAnswered, QuietRecordStep

LEMMA UpdateRecordSteps ==
  ASSUME FileInv, NEW r \in Request, NEW kind, NEW missing \in {"ok", "error"},
         Updates(r, kind, missing) \/ Removes(r, kind, missing)
  PROVE  FileInv'
<1>1. PICK s \in Request, reply \in {"ok", "error"} :
        /\ \E op : Begins(r, op, Answer(reply))
        /\ \/ UNCHANGED records
           \/ records' = [records EXCEPT ![s] = None]
  BY DEF Updates, Removes, recordDocs
<1>2. objects' = objects /\ CallsOK /\ RecordShape
  BY DEF Updates, Removes, recordDocs, FileInv, RecordShape
<1>3. CallsOK' /\ OnlyCall(r) /\ At(r, "idle") /\ req'[r].pc = reply
  BY <1>1, <1>2, BeginsAnswer
<1>4. RecordShape' /\ \A q \in Request : records'[q] \in {records[q], None}
  BY <1>1, <1>2, <1>3 DEF RecordShape
<1> QED BY <1>2, <1>3, <1>4, RecordAnswered, RecordMove DEF OnlyCall

LEMMA LocationSteps ==
  ASSUME FileInv, NEW r \in Request,
         CreateLocation(r) \/ SeedLocations(r) \/ FindLocation(r) \/ SaveLocation(r)
  PROVE  FileInv'
<1>1. records' = records /\ objects' = objects /\ CallsOK
  BY DEF CreateLocation, SeedLocations, FindLocation, SaveLocation, recordDocs, FileInv, RecordShape
<1>2. CASE CreateLocation(r)
  <2>1. CallsOK' /\ OnlyCall(r) /\ At(r, "idle") /\ req'[r].pc = "ok"
    BY <1>1, <1>2, BeginsAnswer DEF CreateLocation
  <2> QED BY <1>1, <2>1, RecordAnswered, QuietRecordStep
<1>3. CASE SeedLocations(r)
  <2>1. /\ CallsOK' /\ OnlyCall(r) /\ At(r, "idle")
        /\ req'[r] = [[Fresh EXCEPT !.pc = "locationFind", !.todo = Country] EXCEPT !.op = "locations"]
    BY <1>1, <1>3, BeginsMoves DEF SeedLocations
  <2>2. req'[r] \in Seeding /\ req'[r].pc = "locationFind"
    BY <2>1 DEF Seeding, Fresh
  <2>3. RecordCall(r)'
    BY <2>2 DEF RecordCall, At, Seeding
  <2> QED BY <1>1, <2>1, <2>3, QuietRecordStep
<1>4. CASE FindLocation(r) \/ SaveLocation(r)
  <2>1. req[r].pc \in {"locationFind", "locationSave"}
    BY <1>4 DEF FindLocation, SaveLocation, At
  <2>2. req[r] \in Seeding
    BY <2>1 DEF FileInv, RecordCall
  <2>3. PICK c \in Country \cup {None}, rest \in SUBSET Country :
          \/ Becomes(r, [req[r] EXCEPT !.todo = rest])
          \/ Becomes(r, [req[r] EXCEPT !.pc = "locationSave", !.target = c])
          \/ Becomes(r, [req[r] EXCEPT !.pc = "locationFind", !.todo = rest, !.target = None])
    <3>1. req[r].todo \in SUBSET Country
      BY <2>2 DEF Seeding
    <3>2. CASE FindLocation(r)
      <4>1. PICK c \in req[r].todo :
              \/ Becomes(r, [req[r] EXCEPT !.todo = @ \ {c}])
              \/ Becomes(r, [req[r] EXCEPT !.pc = "locationSave", !.target = c])
        BY <3>2 DEF FindLocation
      <4>2. c \in Country \cup {None} /\ req[r].todo \ {c} \in SUBSET Country
        BY <3>1
      <4> QED BY <4>1, <4>2
    <3>3. CASE SaveLocation(r)
      <4>1. Becomes(r, [req[r] EXCEPT !.pc = "locationFind", !.todo = @ \ {req[r].target},
                                      !.target = None])
        BY <3>3 DEF SaveLocation
      <4>2. None \in Country \cup {None} /\ req[r].todo \ {req[r].target} \in SUBSET Country
        BY <3>1
      <4> QED BY <4>1, <4>2
    <3> QED BY <1>4, <3>2, <3>3
  <2>4. /\ CallsOK' /\ OnlyCall(r)
        /\ \/ req'[r] = [req[r] EXCEPT !.todo = rest]
           \/ req'[r] = [req[r] EXCEPT !.pc = "locationSave", !.target = c]
           \/ req'[r] = [req[r] EXCEPT !.pc = "locationFind", !.todo = rest, !.target = None]
    BY <1>1, <2>3, BecomesMoves
  <2>5. req'[r] \in Seeding
    BY <2>2, <2>4 DEF Seeding
  <2>6. req'[r].pc \in {"locationFind", "locationSave"}
    BY <2>5 DEF Seeding
  <2>7. RecordCall(r)'
    BY <2>5, <2>6 DEF RecordCall, At, Seeding
  <2> QED BY <1>1, <2>4, <2>6, <2>7, QuietRecordStep
<1> QED BY <1>2, <1>3, <1>4

LEMMA FileSteps ==
  ASSUME FileInv, NEW r \in Request, Upload(r) \/ RecordFile(r) \/ Presign(r)
  PROVE  FileInv'
<1>0. CallsOK /\ RecordShape /\ "presigned" \in Kind \ {"file"}
  BY DEF FileInv, RecordShape, Kind
<1>1. CASE Upload(r)
  <2>1. records' = records /\ objects \subseteq objects'
    BY <1>1 DEF Upload
  <2>2. CASE Begins(r, "upload", Answer("error"))
    <3>1. CallsOK' /\ OnlyCall(r) /\ At(r, "idle") /\ req'[r].pc = "error"
      BY <1>0, <2>2, BeginsAnswer
    <3> QED BY <2>1, <3>1, RecordAnswered, QuietRecordStep
  <2>3. CASE Begins(r, "upload", [Fresh EXCEPT !.pc = "fileRecord"]) /\ r \in objects'
    <3>1. CallsOK' /\ OnlyCall(r) /\ At(r, "idle") /\ req'[r].pc = "fileRecord" /\ req'[r].op = "upload"
      BY <1>0, <2>3, BeginsAt
    <3>2. RecordCall(r)'
      BY <2>3, <3>1 DEF RecordCall, At
    <3> QED BY <2>1, <3>1, <3>2, QuietRecordStep
  <2> QED BY <1>1, <2>2, <2>3 DEF Upload
<1>2. CASE RecordFile(r)
  <2>1. At(r, "fileRecord") /\ Insert(r, "file") /\ Ends(r, "ok")
    BY <1>2 DEF RecordFile
  <2>2. r \in objects
    BY <2>1 DEF FileInv, RecordCall
  <2>3. CallsOK' /\ OnlyCall(r) /\ req'[r].pc = "ok"
    BY <1>0, <2>1, EndsMoves
  <2>4. /\ RecordShape' /\ objects' = objects
        /\ \A q \in Request \ {r} : records'[q] = records[q]
    BY <1>0, <2>1, <2>3, InsertShape
  <2>5. RecordCall(r)'
    BY <2>3, RecordAnswered
  <2> QED BY <2>2, <2>3, <2>4, <2>5, RecordMove DEF OnlyCall
<1>3. CASE Presign(r)
  <2>1. CASE Begins(r, "presign", Answer("ok")) /\ Insert(r, "presigned")
    <3>1. CallsOK' /\ OnlyCall(r) /\ At(r, "idle") /\ req'[r].pc = "ok"
      BY <1>0, <2>1, BeginsAnswer
    <3> QED BY <1>0, <2>1, <3>1, RecordAnswered, InsertStep
  <2>2. CASE Begins(r, "presign", Answer("error")) /\ UNCHANGED recordDocs
    <3>1. CallsOK' /\ OnlyCall(r) /\ At(r, "idle") /\ req'[r].pc = "error"
      BY <1>0, <2>2, BeginsAnswer
    <3>2. records' = records /\ objects' = objects
      BY <2>2 DEF recordDocs
    <3> QED BY <3>1, <3>2, RecordAnswered, QuietRecordStep
  <2> QED BY <1>3, <2>1, <2>2 DEF Presign
<1> QED BY <1>1, <1>2, <1>3

\* A step of RecordSpec is one of a call, of a caller who puts an object, a crash
\* or none at all.
LEMMA RecordStep ==
  ASSUME FileInv, [RecordNext \/ (CrashCalls /\ UNCHANGED recordDocs)]_recordVars
  PROVE  FileInv'
<1>1. ASSUME NEW r \in Request,
             \/ CreateCertificate(r) \/ SaveCertificate(r) \/ CreateEnrollment(r)
             \/ NoticeEnrollment(r) \/ CreateBundleOffer(r) \/ CreateBlog(r)
             \/ CreateEnquiry(r) \/ MailEnquiry(r)
             \/ UpdateCertificate(r) \/ UpdateEnrollment(r) \/ UpdateBlog(r)
             \/ UpdateBundleOffer(r) \/ UpdateEnquiry(r)
             \/ RemoveCertificate(r) \/ RemoveEnrollment(r) \/ RemoveBlog(r)
             \/ RemoveBundleOffer(r) \/ RemoveEnquiry(r)
             \/ CreateLocation(r) \/ SeedLocations(r) \/ FindLocation(r) \/ SaveLocation(r)
             \/ SeedLocationsDone(r) \/ Upload(r) \/ RecordFile(r) \/ Presign(r)
      PROVE  FileInv'
  <2>1. CASE \/ UpdateCertificate(r) \/ UpdateEnrollment(r) \/ UpdateBlog(r)
             \/ UpdateBundleOffer(r) \/ UpdateEnquiry(r)
             \/ RemoveCertificate(r) \/ RemoveEnrollment(r) \/ RemoveBlog(r)
             \/ RemoveBundleOffer(r) \/ RemoveEnquiry(r)
    <3>1. \A kind, missing : missing \in {"ok", "error"} /\ (Updates(r, kind, missing) \/ Removes(r, kind, missing)) =>
            FileInv'
      BY UpdateRecordSteps
    <3> QED BY <2>1, <3>1
            DEF UpdateCertificate, UpdateEnrollment, UpdateBlog, UpdateBundleOffer, UpdateEnquiry,
                RemoveCertificate, RemoveEnrollment, RemoveBlog, RemoveBundleOffer, RemoveEnquiry
  <2> QED BY <1>1, <2>1, CreateSteps, EndSteps, LocationSteps, FileSteps
<1>2. ASSUME objects \subseteq objects', records' = records, CallsOK',
             \A q \in Request : req'[q] = req[q] \/ req'[q].pc = "crashed"
      PROVE  FileInv'
  <2>1. RecordShape'
    BY <1>2 DEF FileInv, RecordShape
  <2>2. \A q \in Request : RecordCall(q)' \/ req'[q] = req[q]
    BY <1>2, RecordAnswered
  <2> QED BY <1>2, <2>1, <2>2, RecordMove
<1>3. CASE PutObject \/ UNCHANGED recordVars
  <2>1. records' = records /\ objects \subseteq objects' /\ req' = req
    BY <1>3 DEF PutObject, recordVars, recordDocs
  <2>2. CallsOK'
    BY <2>1 DEF FileInv, RecordShape, CallsOK
  <2> QED BY <1>2, <2>1, <2>2
<1>4. CASE CrashCalls /\ UNCHANGED recordDocs
  <2>1. CallsOK' /\ \A q \in Request : req'[q] = req[q] \/ req'[q].pc = "crashed"
    BY <1>4, CrashMoves DEF FileInv, RecordShape
  <2>2. records' = records /\ objects \subseteq objects'
    BY <1>4 DEF recordDocs
  <2> QED BY <1>2, <2>1, <2>2
<1> QED BY <1>1, <1>3, <1>4 DEF RecordNext

\* Whatever calls interleave and crash: a file on record is there, and a call that
\* is about to record one has stored its object, in the sense of FileInv.
THEOREM RecordsCorrect == RecordSpec => []FileInv
<1>1. FileInv /\ [RecordNext \/ (CrashCalls /\ UNCHANGED recordDocs)]_recordVars => FileInv'
  BY RecordStep
<1> QED BY <1>1, RecordInitially, PTL DEF RecordSpec

\* A file on record is on the disk or in the bucket.
THEOREM FileOnRecordHolds == RecordSpec => []FileOnRecordIsThere
<1>1. FileInv => FileOnRecordIsThere
  BY DEF FileInv
<1> QED BY <1>1, RecordsCorrect, PTL

\* Until calls overlap, and as long as no caller creates a location itself: no
\* country has two, and the seed that is about to store one has found none.
LocatedApart ==
  /\ \A q, r \in Request, c \in Country : locations[q, c] /\ locations[r, c] => q = r
  /\ \A r \in Request : At(r, "locationSave") => ~Located(req[r].target)

\* A call that has not begun is none.
LocatedCall(r) ==
  /\ At(r, "idle") => req[r].op = "none"
  /\ At(r, "locationSave") => req[r].target \in Country

LocatedInv ==
  /\ CallsOK /\ Alone /\ locations \in [LocationId -> BOOLEAN]
  /\ \A r \in Request : LocatedCall(r)
  /\ ~overlapped /\ (\A q \in Request : req[q].op # "location") => LocatedApart

LEMMA LocatedInitially == RecordInit => LocatedInv
<1> SUFFICES ASSUME RecordInit PROVE LocatedInv
  OBVIOUS
<1>1. /\ locations = [l \in LocationId |-> FALSE] /\ req = [r \in Request |-> Fresh]
      /\ Alone
  BY AloneInitially DEF RecordInit, CallsInit
<1>2. CallsOK /\ locations \in [LocationId -> BOOLEAN]
  BY <1>1 DEF CallsOK
<1>3. \A r \in Request : LocatedCall(r) /\ ~At(r, "locationSave")
  BY <1>1 DEF LocatedCall, At, Fresh
<1>4. \A q \in Request, c \in Country : ~locations[q, c]
  BY <1>1 DEF LocationId
<1> QED BY <1>1, <1>2, <1>3, <1>4 DEF LocatedInv, LocatedApart

\* Nothing but the seed stores a location where callers create none, and no step
\* takes one away: a step that stores none keeps what holds, if the calls it leaves
\* at a save are at one already or have looked.
LEMMA LocatedMove ==
  ASSUME LocatedInv, CallsOK', Alone', locations' = locations, ~overlapped' => ~overlapped,
         \A q \in Request :
           \/ req'[q] = req[q]
           \/ /\ req'[q].pc # "idle"
              /\ req'[q].op = req[q].op \/ At(q, "idle")
              /\ At(q, "locationSave")' =>
                   req'[q].target \in Country /\ ~Located(req'[q].target)
  PROVE  LocatedInv'
<1>1. ASSUME NEW q \in Request PROVE LocatedCall(q)'
  BY DEF LocatedInv, LocatedCall, At
<1>2. ASSUME ~overlapped', \A q \in Request : req'[q].op # "location" PROVE LocatedApart'
  <2>1. ASSUME NEW q \in Request PROVE req[q].op # "location"
    <3>1. At(q, "idle") => req[q].op = "none"
      BY DEF LocatedInv, LocatedCall
    <3> QED BY <1>2, <3>1
  <2>2. LocatedApart
    BY <1>2, <2>1 DEF LocatedInv
  <2>3. ASSUME NEW q \in Request, At(q, "locationSave")' PROVE ~Located(req'[q].target)
    BY <2>2, <2>3 DEF LocatedApart, At
  <2> QED BY <2>2, <2>3 DEF LocatedApart, Located
<1> QED BY <1>1, <1>2 DEF LocatedInv

\* A call that begins, or ends, without a location.
LEMMA LocatedCalls ==
  ASSUME LocatedInv, locations' = locations, NEW r \in Request,
         \/ \E op, call : Begins(r, op, call) /\ call.pc \notin {"idle", "locationSave"}
                          /\ [call EXCEPT !.op = op].pc = call.pc
         \/ \E reply \in {"ok", "error"} : InFlight(r) /\ Ends(r, reply)
  PROVE  LocatedInv'
<1>0. CallsOK /\ Alone
  BY DEF LocatedInv
<1>1. CASE \E op, call : Begins(r, op, call) /\ call.pc \notin {"idle", "locationSave"}
                         /\ [call EXCEPT !.op = op].pc = call.pc
  <2>1. PICK op, call : Begins(r, op, call) /\ call.pc \notin {"idle", "locationSave"}
                        /\ [call EXCEPT !.op = op].pc = call.pc
    BY <1>1
  <2>2. /\ CallsOK' /\ OnlyCall(r) /\ At(r, "idle") /\ Alone' /\ (~overlapped' => ~overlapped)
        /\ req'[r].pc \notin {"idle", "locationSave"}
    BY <1>0, <2>1, BeginsMoves, BeginsAlone
  <2> QED BY <2>2, LocatedMove DEF OnlyCall, At
<1>2. CASE \E reply \in {"ok", "error"} : InFlight(r) /\ Ends(r, reply)
  <2>1. /\ CallsOK' /\ OnlyCall(r) /\ Alone' /\ overlapped' = overlapped
        /\ req'[r].op = req[r].op /\ req'[r].pc \in {"ok", "error"}
    BY <1>0, <1>2, EndsMoves, EndsAlone
  <2> QED BY <2>1, LocatedMove DEF OnlyCall, At
<1> QED BY <1>1, <1>2

LEMMA AnswerParts ==
  ASSUME NEW op, NEW pc
  PROVE  /\ Answer(pc).pc = pc /\ [Answer(pc) EXCEPT !.op = op].pc = pc
         /\ [Fresh EXCEPT !.pc = pc].pc = pc
         /\ [[Fresh EXCEPT !.pc = pc] EXCEPT !.op = op].pc = pc
BY DEF Answer, Fresh

\* The steps of calls that are not about locations.
LEMMA OtherRecordSteps ==
  ASSUME LocatedInv, NEW r \in Request,
         \/ CreateCertificate(r) \/ SaveCertificate(r) \/ CreateEnrollment(r)
         \/ NoticeEnrollment(r) \/ CreateBundleOffer(r) \/ CreateBlog(r)
         \/ CreateEnquiry(r) \/ MailEnquiry(r) \/ SeedLocationsDone(r)
         \/ Upload(r) \/ RecordFile(r) \/ Presign(r)
         \/ \E kind : \E missing \in {"ok", "error"} :
              Updates(r, kind, missing) \/ Removes(r, kind, missing)
  PROVE  LocatedInv'
<1>1. locations' = locations
  BY DEF CreateCertificate, SaveCertificate, CreateEnrollment, NoticeEnrollment,
         CreateBundleOffer, CreateBlog, CreateEnquiry, MailEnquiry, SeedLocationsDone, Upload,
         RecordFile, Presign, Updates, Removes, Insert, recordDocs
<1>2. CASE SaveCertificate(r) \/ NoticeEnrollment(r) \/ MailEnquiry(r) \/ RecordFile(r)
           \/ SeedLocationsDone(r)
  <2>1. InFlight(r)
    BY <1>2 DEF SaveCertificate, NoticeEnrollment, MailEnquiry, RecordFile, SeedLocationsDone, At,
         InFlight, Replies
  <2>2. \E reply \in {"ok", "error"} : Ends(r, reply)
    BY <1>2 DEF SaveCertificate, NoticeEnrollment, MailEnquiry, RecordFile, SeedLocationsDone
  <2> QED BY <1>1, <2>1, <2>2, LocatedCalls
<1>3. CASE CreateCertificate(r) \/ CreateEnrollment(r) \/ CreateEnquiry(r) \/ Upload(r)
           \/ CreateBundleOffer(r) \/ CreateBlog(r) \/ Presign(r)
           \/ \E kind : \E missing \in {"ok", "error"} :
                Updates(r, kind, missing) \/ Removes(r, kind, missing)
  <2>1. \E op :
          \/ \E pc \in {"certificateSave", "enrollmentNotice", "enquiryMail", "fileRecord"} :
               Begins(r, op, [Fresh EXCEPT !.pc = pc])
          \/ \E reply \in {"ok", "error"} : Begins(r, op, Answer(reply))
    <3>1. CASE \E kind : \E missing \in {"ok", "error"} :
                 Updates(r, kind, missing) \/ Removes(r, kind, missing)
      <4>0. PICK kind : \E missing \in {"ok", "error"} :
              Updates(r, kind, missing) \/ Removes(r, kind, missing)
        BY <3>1
      <4>1. PICK missing \in {"ok", "error"} :
              Updates(r, kind, missing) \/ Removes(r, kind, missing)
        BY <4>0
      <4>2. PICK s \in Request, op \in {"rerecord", "unrecord"} :
              Begins(r, op, Answer(IF Kept(s, kind) THEN "ok" ELSE missing))
        BY <4>1 DEF Updates, Removes
      <4>3. (IF Kept(s, kind) THEN "ok" ELSE missing) \in {"ok", "error"}
        BY <4>1
      <4> QED BY <4>2, <4>3
    <3>2. CASE CreateCertificate(r) \/ CreateEnrollment(r) \/ CreateEnquiry(r)
      BY <3>2 DEF CreateCertificate, CreateEnrollment, CreateEnquiry
    <3>3. CASE Upload(r)
      BY <3>3 DEF Upload
    <3>4. CASE CreateBundleOffer(r) \/ CreateBlog(r) \/ Presign(r)
      BY <3>4 DEF CreateBundleOffer, CreateBlog, Presign
    <3> QED BY <1>3, <3>1, <3>2, <3>3, <3>4
  <2>2. ASSUME NEW op, NEW call, Begins(r, op, call),
               \/ \E pc \in {"certificateSave", "enrollmentNotice", "enquiryMail",
                             "fileRecord"} : call = [Fresh EXCEPT !.pc = pc]
               \/ \E reply \in {"ok", "error"} : call = Answer(reply)
        PROVE  LocatedInv'
    <3>1. PICK pc \in {"certificateSave", "enrollmentNotice", "enquiryMail", "fileRecord",
                      "ok", "error"} : call = [Fresh EXCEPT !.pc = pc] \/ call = Answer(pc)
      BY <2>2
    <3>2. call.pc = pc /\ [call EXCEPT !.op = op].pc = call.pc
      <4>1. /\ Answer(pc).pc = pc /\ [Answer(pc) EXCEPT !.op = op].pc = pc
            /\ [Fresh EXCEPT !.pc = pc].pc = pc
            /\ [[Fresh EXCEPT !.pc = pc] EXCEPT !.op = op].pc = pc
        BY AnswerParts
      <4>2. CASE call = [Fresh EXCEPT !.pc = pc]
        BY <4>1, <4>2
      <4>3. CASE call = Answer(pc)
        BY <4>1, <4>3
      <4> QED BY <3>1, <4>2, <4>3
    <3>3. call.pc \notin {"idle", "locationSave"}
      BY <3>2
    <3> QED BY <1>1, <2>2, <3>2, <3>3, LocatedCalls
  <2> QED BY <2>1, <2>2
<1> QED BY <1>2, <1>3

LEMMA LocatedSteps ==
  ASSUME FileInv, LocatedInv, NEW r \in Request,
         CreateLocation(r) \/ SeedLocations(r) \/ FindLocation(r) \/ SaveLocation(r)
  PROVE  LocatedInv'
<1>0. CallsOK /\ Alone /\ locations \in [LocationId -> BOOLEAN]
  BY DEF LocatedInv
<1>1. CASE CreateLocation(r)
  <2>1. /\ CallsOK' /\ OnlyCall(r) /\ Alone'
        /\ req'[r] = [Answer("ok") EXCEPT !.op = "location"]
    BY <1>0, <1>1, BeginsMoves, BeginsAlone DEF CreateLocation
  <2>2. req'[r].op = "location" /\ req'[r].pc = "ok"
    BY <2>1 DEF Answer, Fresh
  <2>3. ASSUME NEW q \in Request PROVE LocatedCall(q)'
    BY <2>1, <2>2 DEF LocatedInv, LocatedCall, OnlyCall, At
  <2>4. locations' \in [LocationId -> BOOLEAN]
    BY <1>0, <1>1 DEF CreateLocation
  <2> QED BY <2>1, <2>2, <2>3, <2>4 DEF LocatedInv
<1>2. CASE SeedLocations(r)
  <2> DEFINE start == [Fresh EXCEPT !.pc = "locationFind", !.todo = Country]
  <2>1. Begins(r, "locations", start) /\ locations' = locations
    BY <1>2 DEF SeedLocations, recordDocs
  <2>2. start.pc = "locationFind" /\ [start EXCEPT !.op = "locations"].pc = start.pc
    BY DEF Fresh
  <2> HIDE DEF start
  <2> QED BY <2>1, <2>2, LocatedCalls
<1>3. ASSUME FindLocation(r) \/ SaveLocation(r), NEW call, Becomes(r, call)
      PROVE  /\ CallsOK' /\ OnlyCall(r) /\ Alone' /\ AloneWith(r) /\ overlapped' = overlapped
             /\ req'[r] = call
  <2>1. InFlight(r)
    BY <1>3 DEF FindLocation, SaveLocation, At, InFlight, Replies
  <2> QED BY <1>0, <1>3, <2>1, BecomesMoves, BecomesAlone
<1>4. CASE FindLocation(r)
  <2>1. locations' = locations /\ At(r, "locationFind")
    BY <1>4 DEF FindLocation, recordDocs
  <2>2. req[r] \in Seeding
    BY <2>1 DEF FileInv, RecordCall, At
  <2>3. PICK c, call :
          /\ c \in Country
          /\ Becomes(r, call)
          /\ \/ call = [req[r] EXCEPT !.todo = req[r].todo \ {c}]
             \/ call = [req[r] EXCEPT !.pc = "locationSave", !.target = c] /\ ~Located(c)
    <3>1. PICK c \in req[r].todo :
            IF Located(c)
              THEN Becomes(r, [req[r] EXCEPT !.todo = @ \ {c}])
              ELSE Becomes(r, [req[r] EXCEPT !.pc = "locationSave", !.target = c])
      BY <1>4 DEF FindLocation
    <3>2. c \in Country
      BY <2>2 DEF Seeding
    <3> QED BY <3>1, <3>2
  <2>4. /\ CallsOK' /\ OnlyCall(r) /\ Alone' /\ overlapped' = overlapped
        /\ req'[r] = call
    BY <1>3, <1>4, <2>3
  <2>5. /\ call.pc \in {"locationFind", "locationSave"} /\ call.op = req[r].op
        /\ call.pc = "locationSave" => call.target \in Country /\ ~Located(call.target)
    BY <2>1, <2>2, <2>3 DEF Seeding, At
  <2>6. /\ req'[r].pc # "idle" /\ req'[r].op = req[r].op
        /\ At(r, "locationSave")' => req'[r].target \in Country /\ ~Located(req'[r].target)
    BY <2>4, <2>5 DEF At
  <2> QED BY <2>1, <2>4, <2>6, LocatedMove DEF OnlyCall
<1>5. CASE SaveLocation(r)
  <2> DEFINE c == req[r].target
  <2>1. /\ At(r, "locationSave") /\ c \in Country
        /\ locations' = [locations EXCEPT ![<<r, c>>] = TRUE]
    BY <1>5 DEF SaveLocation, LocatedInv, LocatedCall
  <2>2. req[r] \in Seeding
    BY <2>1 DEF FileInv, RecordCall, At
  <2>3. /\ CallsOK' /\ OnlyCall(r) /\ Alone' /\ AloneWith(r) /\ overlapped' = overlapped
        /\ req'[r] = [req[r] EXCEPT !.pc = "locationFind", !.todo = @ \ {req[r].target},
                                    !.target = None]
    BY <1>3, <1>5 DEF SaveLocation
  <2>4. req'[r].pc = "locationFind" /\ req'[r].op = req[r].op
    BY <2>2, <2>3 DEF Seeding
  <2>5. ASSUME NEW q \in Request PROVE LocatedCall(q)' /\ req'[q].op = req[q].op
    BY <2>3, <2>4 DEF LocatedInv, LocatedCall, OnlyCall, At
  <2>6. /\ locations' \in [LocationId -> BOOLEAN]
        /\ \A q \in Request, d \in Country :
             locations'[q, d] = (locations[q, d] \/ (q = r /\ d = c))
    BY <1>0, <2>1 DEF LocationId
  <2>7. ASSUME ~overlapped', \A q \in Request : req'[q].op # "location" PROVE LocatedApart'
    <3>1. LocatedApart
      BY <2>3, <2>5, <2>7 DEF LocatedInv
    <3>2. \A q \in Request : ~locations[q, c]
      BY <2>1, <3>1 DEF LocatedApart, Located
    <3>3. \A q, s \in Request, d \in Country :
            locations'[q, d] /\ locations'[s, d] => q = s
      BY <2>6, <3>1, <3>2 DEF LocatedApart
    <3>4. \A q \in Request : ~At(q, "locationSave")'
      BY <2>3, <2>4, <2>7 DEF AloneWith, InFlight, At, Replies
    <3> QED BY <3>3, <3>4 DEF LocatedApart
  <2> QED BY <2>3, <2>5, <2>6, <2>7 DEF LocatedInv
<1> QED BY <1>1, <1>2, <1>4, <1>5

LEMMA LocatedStep ==
  ASSUME FileInv, LocatedInv, [RecordNext \/ (CrashCalls /\ UNCHANGED recordDocs)]_recordVars
  PROVE  LocatedInv'
<1>1. ASSUME NEW r \in Request,
             \/ CreateCertificate(r) \/ SaveCertificate(r) \/ CreateEnrollment(r)
             \/ NoticeEnrollment(r) \/ CreateBundleOffer(r) \/ CreateBlog(r)
             \/ CreateEnquiry(r) \/ MailEnquiry(r) \/ SeedLocationsDone(r)
             \/ Upload(r) \/ RecordFile(r) \/ Presign(r)
             \/ CreateLocation(r) \/ SeedLocations(r) \/ FindLocation(r) \/ SaveLocation(r)
      PROVE  LocatedInv'
  BY <1>1, OtherRecordSteps, LocatedSteps
<1>2. ASSUME NEW r \in Request,
             \/ UpdateCertificate(r) \/ UpdateEnrollment(r) \/ UpdateBlog(r)
             \/ UpdateBundleOffer(r) \/ UpdateEnquiry(r)
             \/ RemoveCertificate(r) \/ RemoveEnrollment(r) \/ RemoveBlog(r)
             \/ RemoveBundleOffer(r) \/ RemoveEnquiry(r)
      PROVE  LocatedInv'
  <2>1. \E kind : \E missing \in {"ok", "error"} :
          Updates(r, kind, missing) \/ Removes(r, kind, missing)
    BY <1>2 DEF UpdateCertificate, UpdateEnrollment, UpdateBlog, UpdateBundleOffer, UpdateEnquiry,
            RemoveCertificate, RemoveEnrollment, RemoveBlog, RemoveBundleOffer, RemoveEnquiry
  <2> QED BY <2>1, OtherRecordSteps
<1>3. CASE PutObject \/ UNCHANGED recordVars
  <2>1. locations' = locations /\ req' = req /\ overlapped' = overlapped
    BY <1>3 DEF PutObject, recordVars, recordDocs
  <2>2. CallsOK' /\ Alone'
    BY <2>1 DEF LocatedInv, CallsOK, Alone, InFlight
  <2> QED BY <2>1, <2>2, LocatedMove
<1>4. CASE CrashCalls /\ UNCHANGED recordDocs
  <2>1. /\ CallsOK' /\ Alone' /\ overlapped' = overlapped
        /\ locations' = locations
    BY <1>4, CrashMoves, CrashAlone DEF LocatedInv, recordDocs
  <2>2. ASSUME NEW q \in Request
        PROVE  \/ req'[q] = req[q]
               \/ req'[q].pc = "crashed" /\ req'[q].op = req[q].op
    BY <1>4 DEF CrashCalls, Answer, Fresh
  <2> QED BY <2>1, <2>2, LocatedMove DEF At
<1> QED BY <1>1, <1>2, <1>3, <1>4 DEF RecordNext

\* location-seed.service.ts: a seed cut short by a crash leaves some countries stored;
\* when it is run again, alone and where no caller creates one, each gets at most one.
THEOREM SerialLocatedOnceHolds == RecordSpec => []SerialLocatedOnce
<1>1. FileInv /\ LocatedInv /\ [RecordNext \/ (CrashCalls /\ UNCHANGED recordDocs)]_recordVars
        => LocatedInv'
  BY LocatedStep
<1>2. LocatedInv => SerialLocatedOnce
  BY DEF LocatedInv, LocatedApart, SerialLocatedOnce
<1> QED BY <1>1, <1>2, RecordsCorrect, LocatedInitially, PTL DEF RecordSpec

-----------------------------------------------------------------------------
(* Feedback                                                                *)

Asking == {"feedbackCount", "feedbackInsert"}

\* A call about the feedback on a class.
FeedbackCall(r) ==
  /\ IsCall(req[r])
  /\ req[r].pc \in Asking => req[r].target \in Class

FeedbackInv ==
  /\ CallsOK
  /\ left \in [Class -> {"unset", "some", "all"}]
  /\ \A r \in Request : FeedbackCall(r)

LEMMA FeedbackInitially == CourseworkInit => FeedbackInv
<1> SUFFICES ASSUME CourseworkInit PROVE FeedbackInv
  OBVIOUS
<1>1. CallsOK /\ left \in [Class -> {"unset", "some", "all"}]
  BY DEF CourseworkInit, CallsInit, CallsOK
<1>2. ASSUME NEW r \in Request PROVE FeedbackCall(r)
  <2>1. req[r] = Fresh /\ Fresh.pc = "idle"
    BY DEF CourseworkInit, CallsInit, Fresh
  <2> QED BY <2>1, FreshIs DEF FeedbackCall, IsCall, Asking
<1> QED BY <1>1, <1>2 DEF FeedbackInv

LEMMA FeedbackMove ==
  ASSUME FeedbackInv, UNCHANGED left, NEW r \in Request, CallsOK', OnlyCall(r), FeedbackCall(r)'
  PROVE  FeedbackInv'
<1>1. ASSUME NEW q \in Request PROVE FeedbackCall(q)'
  BY DEF FeedbackInv, FeedbackCall, OnlyCall
<1> QED BY <1>1 DEF FeedbackInv

\* A call that begins, goes on or is answered at an await that is not about feedback.
LEMMA BeginsElsewhere ==
  ASSUME FeedbackInv, UNCHANGED left, NEW r \in Request, NEW op, NEW call,
         IsCall(call), call.pc \notin Asking, Begins(r, op, call)
  PROVE  FeedbackInv'
<1>1. CallsOK' /\ OnlyCall(r) /\ req'[r] = [call EXCEPT !.op = op]
  BY BeginsMoves DEF FeedbackInv
<1>2. FeedbackCall(r)'
  BY <1>1, Named DEF FeedbackCall
<1> QED BY <1>1, <1>2, FeedbackMove

LEMMA BecomesElsewhere ==
  ASSUME FeedbackInv, UNCHANGED left, NEW r \in Request, NEW call,
         IsCall(call), call.pc \notin Asking, Becomes(r, call)
  PROVE  FeedbackInv'
<1>1. CallsOK' /\ OnlyCall(r) /\ req'[r] = call
  BY BecomesMoves DEF FeedbackInv
<1>2. FeedbackCall(r)'
  BY <1>1 DEF FeedbackCall
<1> QED BY <1>1, <1>2, FeedbackMove

LEMMA RepliesElsewhere ==
  ASSUME NEW reply \in Replies
  PROVE  IsCall(Answer(reply)) /\ Answer(reply).pc \notin Asking
BY AnswerIs DEF Call, IsCall, Replies, Asking

LEMMA EndsElsewhere ==
  ASSUME FeedbackInv, UNCHANGED left, NEW r \in Request, NEW reply \in Replies, Ends(r, reply)
  PROVE  FeedbackInv'
BY RepliesElsewhere, Named, BecomesElsewhere DEF Ends

LEMMA AnswersAtOnce ==
  ASSUME FeedbackInv, UNCHANGED left, NEW r \in Request, NEW op, NEW reply \in Replies,
         Begins(r, op, Answer(reply))
  PROVE  FeedbackInv'
BY RepliesElsewhere, BeginsElsewhere

LEMMA SendFeedbackStep ==
  ASSUME FeedbackInv, NEW r \in Request, SendFeedback(r)
  PROVE  FeedbackInv'
<1>1. UNCHANGED left
  BY DEF SendFeedback, courseworkDocs
<1>2. CASE Begins(r, "feedback", Answer("error"))
  BY <1>1, <1>2, AnswersAtOnce DEF Replies
<1>3. CASE \E n \in 0 .. MaxQuestions, c \in Class :
             Begins(r, "feedback",
               [Fresh EXCEPT !.pc = "feedbackCount", !.target = c, !.todo = 1 .. n])
  <2>1. PICK n \in 0 .. MaxQuestions, c \in Class :
          Begins(r, "feedback",
            [Fresh EXCEPT !.pc = "feedbackCount", !.target = c, !.todo = 1 .. n])
    BY <1>3
  <2> DEFINE call == Call("feedback", "feedbackCount", c, None, 1 .. n, None, 0)
  <2>2. CallsOK' /\ OnlyCall(r) /\ req'[r] = call
    <3> DEFINE start == [Fresh EXCEPT !.pc = "feedbackCount", !.target = c, !.todo = 1 .. n]
    <3>1. CallsOK' /\ OnlyCall(r) /\ req'[r] = [start EXCEPT !.op = "feedback"]
      BY <2>1, BeginsMoves DEF FeedbackInv
    <3> QED BY <3>1 DEF Fresh, Call
  <2>3. IsCall(call) /\ call.target = c
    BY DEF Call, IsCall
  <2> HIDE DEF call
  <2>4. FeedbackCall(r)'
    BY <2>2, <2>3 DEF FeedbackCall
  <2> QED BY <1>1, <2>2, <2>4, FeedbackMove
<1> QED BY <1>2, <1>3 DEF SendFeedback

LEMMA FeedbackSteps ==
  ASSUME FeedbackInv, FeedbackNext
  PROVE  FeedbackInv'
<1>0. "ok" \in Replies /\ "error" \in Replies
  BY DEF Replies
<1>1. ASSUME NEW r \in Request,
             \/ CreateQuestions(r) \/ UpdateQuestion(r) \/ RemoveQuestion(r)
             \/ UpdateFeedback(r) \/ RemoveFeedback(r)
      PROVE  FeedbackInv'
  <2>1. UNCHANGED left /\ \E op : Begins(r, op, Answer("ok"))
    BY <1>1 DEF CreateQuestions, UpdateQuestion, RemoveQuestion, UpdateFeedback, RemoveFeedback,
         butQuestions, butSheets
  <2> QED BY <1>0, <2>1, AnswersAtOnce
<1>2. ASSUME NEW r \in Request, CountQuestions(r)
      PROVE  FeedbackInv'
  <2>1. UNCHANGED left /\ At(r, "feedbackCount")
    BY <1>2 DEF CountQuestions, courseworkDocs
  <2>2. CASE Ends(r, "error")
    BY <1>0, <2>1, <2>2, EndsElsewhere
  <2>3. CASE Becomes(r, [req[r] EXCEPT !.pc = "feedbackInsert"])
    <3>1. CallsOK' /\ OnlyCall(r) /\ req'[r] = [req[r] EXCEPT !.pc = "feedbackInsert"]
      BY <2>3, BecomesMoves DEF FeedbackInv
    <3>2. FeedbackCall(r)
      BY DEF FeedbackInv
    <3>3. IsCall(req'[r]) /\ req'[r].target = req[r].target /\ req'[r].read = req[r].read
      BY <3>1, <3>2, GoesOn DEF FeedbackCall
    <3>4. FeedbackCall(r)'
      BY <2>1, <3>2, <3>3 DEF FeedbackCall, At, Asking
    <3> QED BY <2>1, <3>1, <3>4, FeedbackMove
  <2> QED BY <1>2, <2>2, <2>3 DEF CountQuestions
<1>3. ASSUME NEW r \in Request, InsertFeedback(r)
      PROVE  FeedbackInv'
  BY <1>0, <1>3, EndsElsewhere DEF InsertFeedback, butSheets
<1> QED BY <1>1, <1>2, <1>3, SendFeedbackStep DEF FeedbackNext

LEMMA LeaveStep ==
  ASSUME FeedbackInv, LeaveClass
  PROVE  FeedbackInv'
<1>1. PICK c \in Class, marked \in {"unset", "some", "all"} : left' = [left EXCEPT ![c] = marked]
  BY DEF LeaveClass
<1>2. req' = req
  BY DEF LeaveClass
<1>3. left' \in [Class -> {"unset", "some", "all"}]
  BY <1>1 DEF FeedbackInv
<1> QED BY <1>2, <1>3 DEF FeedbackInv, FeedbackCall, CallsOK

LEMMA FeedbackCrash ==
  ASSUME FeedbackInv, CrashCalls, UNCHANGED left
  PROVE  FeedbackInv'
<1>1. ASSUME NEW r \in Request PROVE FeedbackCall(r)'
  <2>1. \/ req'[r] = req[r]
        \/ req'[r] = [Answer("crashed") EXCEPT !.op = req[r].op]
    BY DEF CrashCalls
  <2>2. CASE req'[r] = req[r]
    BY <2>2 DEF FeedbackInv, FeedbackCall
  <2>3. CASE req'[r] = [Answer("crashed") EXCEPT !.op = req[r].op]
    <3>1. "crashed" \in Replies
      BY DEF Replies
    <3> QED BY <2>3, <3>1, RepliesElsewhere, Named DEF FeedbackCall
  <2> QED BY <2>1, <2>2, <2>3
<1> QED BY <1>1, CrashMoves DEF FeedbackInv

LEMMA FeedbackAlways == FeedbackSpec => []FeedbackInv
<1>1. FeedbackInv /\ [FeedbackNext \/ LeaveClass \/ (CrashCalls /\ UNCHANGED courseworkDocs)]_courseworkVars
        => FeedbackInv'
  <2> SUFFICES ASSUME FeedbackInv,
                      [FeedbackNext \/ LeaveClass \/ (CrashCalls /\ UNCHANGED courseworkDocs)]_courseworkVars
               PROVE  FeedbackInv'
    OBVIOUS
  <2>1. CASE FeedbackNext \/ LeaveClass
    BY <2>1, FeedbackSteps, LeaveStep
  <2>2. CASE CrashCalls /\ UNCHANGED courseworkDocs
    BY <2>2, FeedbackCrash DEF courseworkDocs
  <2>3. CASE UNCHANGED courseworkVars
    BY <2>3 DEF courseworkVars, courseworkDocs, FeedbackInv, FeedbackCall, CallsOK
  <2> QED BY <2>1, <2>2, <2>3
<1> QED BY <1>1, FeedbackInitially, PTL DEF FeedbackSpec

-----------------------------------------------------------------------------
(* Sums.  A sum over a finite set is a recursion over its subsets; that    *)
(* it exists and what it is are shown by a smallest set that fails.        *)

First(s) == CHOOSE x \in s : TRUE

\* g adds up what v is worth over every set of members of S.
AddsUp(g, v, S) ==
  g = [s \in SUBSET S |-> IF s = {} THEN 0 ELSE v[First(s)] + g[s \ {First(s)}]]

\* A property that fails of a set of a finite set fails of a smallest one.
LEMMA Smallest ==
  ASSUME NEW S, IsFiniteSet(S), NEW Bad \in SUBSET SUBSET S, Bad # {}
  PROVE  \E s \in Bad : \A u \in SUBSET s : u # s => u \notin Bad
<1>1. IsWellFoundedOn(StrictSubsetOrdering(S), SUBSET S)
  BY FS_StrictSubsetOrderingWellFounded, FS_FiniteSubsetsOfFinite
<1>2. \E s \in Bad : \A u \in Bad : ~(<<u, s>> \in StrictSubsetOrdering(S))
  BY <1>1, WFMin
<1>3. PICK s \in Bad : \A u \in Bad : ~(<<u, s>> \in StrictSubsetOrdering(S))
  BY <1>2
<1>4. ASSUME NEW u \in SUBSET s, u # s, u \in Bad PROVE FALSE
  BY <1>3, <1>4 DEF StrictSubsetOrdering
<1> QED BY <1>3, <1>4

LEMMA SumsAgree ==
  ASSUME NEW S, IsFiniteSet(S), NEW T, NEW v, NEW g, NEW h, AddsUp(g, v, S), AddsUp(h, v, T)
  PROVE  \A s \in SUBSET S : s \in SUBSET T => g[s] = h[s]
<1> DEFINE Bad == {s \in SUBSET S : s \in SUBSET T /\ g[s] # h[s]}
<1>1. SUFFICES ASSUME Bad # {} PROVE FALSE
  OBVIOUS
<1>2. PICK s \in Bad : \A u \in SUBSET s : u # s => u \notin Bad
  <2> HIDE DEF Bad
  <2> Bad \in SUBSET SUBSET S
    BY DEF Bad
  <2> QED BY <1>1, Smallest
<1>3. CASE s = {}
  BY <1>3 DEF AddsUp
<1>4. CASE s # {}
  <2>1. First(s) \in s
    BY <1>4 DEF First
  <2>2. g[s \ {First(s)}] = h[s \ {First(s)}]
    BY <1>2, <2>1
  <2>3. s \in SUBSET S /\ s \in SUBSET T /\ g[s] # h[s]
    BY <1>2
  <2>4. g[s] = v[First(s)] + g[s \ {First(s)}]
    BY <1>4, <2>3 DEF AddsUp
  <2>5. h[s] = v[First(s)] + h[s \ {First(s)}]
    BY <1>4, <2>3 DEF AddsUp
  <2> QED BY <2>2, <2>3, <2>4, <2>5
<1> QED BY <1>3, <1>4

LEMMA SumsExist ==
  ASSUME NEW S, IsFiniteSet(S), NEW v
  PROVE  \E g : AddsUp(g, v, S)
<1> DEFINE Bad == {s \in SUBSET S : ~\E g : AddsUp(g, v, s)}
<1>1. SUFFICES ASSUME Bad # {} PROVE FALSE
  OBVIOUS
<1>2. PICK T \in Bad : \A u \in SUBSET T : u # T => u \notin Bad
  <2> HIDE DEF Bad
  <2> Bad \in SUBSET SUBSET S
    BY DEF Bad
  <2> QED BY <1>1, Smallest
<1>3. T \in SUBSET S /\ ~\E g : AddsUp(g, v, T)
  BY <1>2
<1>4. ASSUME NEW s \in SUBSET T, s # T PROVE \E g : AddsUp(g, v, s)
  BY <1>2, <1>3, <1>4
<1> HIDE DEF Bad
<1> DEFINE sum(s) == CHOOSE g : AddsUp(g, v, s)
           less(s) == s \ {First(s)}
           total(s) == IF s = {} THEN 0 ELSE v[First(s)] + sum(less(s))[less(s)]
           g == [s \in SUBSET T |-> total(s)]
<1>5. ASSUME NEW s \in SUBSET T, s # {} PROVE First(s) \in s /\ less(s) \in SUBSET T /\ less(s) # T
  BY <1>5 DEF First
<1>6. ASSUME NEW s \in SUBSET T, s # T PROVE AddsUp(sum(s), v, s)
  BY <1>4, <1>6
<1>7. ASSUME NEW s \in SUBSET T, s # T PROVE sum(s)[s] = total(s)
  <2>1. CASE s = {}
    <3> DEFINE h == sum(s)
    <3>1. AddsUp(h, v, s)
      BY <1>6, <1>7
    <3> HIDE DEF h
    <3>2. h[s] = 0
      BY <2>1, <3>1 DEF AddsUp
    <3> QED BY <2>1, <3>2 DEF h
  <2>2. CASE s # {}
    <3>1. AddsUp(sum(s), v, s) /\ AddsUp(sum(less(s)), v, less(s)) /\ IsFiniteSet(s)
      BY <1>3, <1>5, <1>6, <1>7, <2>2, FS_Subset
    <3>2. sum(s)[s] = v[First(s)] + sum(s)[less(s)]
      <4> DEFINE h == sum(s)
      <4>1. AddsUp(h, v, s) BY <3>1
      <4> HIDE DEF h
      <4>2. h[s] = v[First(s)] + h[less(s)]
        BY <4>1, <2>2 DEF AddsUp
      <4> QED BY <4>2 DEF h
    <3>3. sum(s)[less(s)] = sum(less(s))[less(s)]
      <4> HIDE DEF sum
      <4> QED BY <3>1, SumsAgree
    <3> QED BY <2>2, <3>2, <3>3
  <2> QED BY <2>1, <2>2
<1>8. ASSUME NEW s \in SUBSET T, s # {} PROVE g[s] = v[First(s)] + g[less(s)]
  <2>1. g[s] = v[First(s)] + sum(less(s))[less(s)]
    BY <1>8
  <2>2. less(s) \in SUBSET T /\ less(s) # T
    BY <1>5, <1>8
  <2>3. g[less(s)] = sum(less(s))[less(s)]
    <3> HIDE DEF total, sum, less
    <3> QED BY <1>7, <2>2
  <2> QED BY <2>1, <2>3
<1>9. AddsUp(g, v, T)
  <2>1. ASSUME NEW s \in SUBSET T
        PROVE  g[s] = IF s = {} THEN 0 ELSE v[First(s)] + g[s \ {First(s)}]
    <3>1. CASE s = {} BY <3>1
    <3>2. CASE s # {}
      <4> HIDE DEF g
      <4> QED BY <3>2, <1>8
    <3> QED BY <3>1, <3>2
  <2>2. g = [s \in SUBSET T |-> g[s]]
    OBVIOUS
  <2> HIDE DEF g
  <2> QED BY <2>1, <2>2 DEF AddsUp
<1> QED BY <1>3, <1>9

LEMMA SumsAreNatural ==
  ASSUME NEW S, IsFiniteSet(S), NEW v, \A i \in S : v[i] \in Nat, NEW g, AddsUp(g, v, S)
  PROVE  \A s \in SUBSET S : g[s] \in Nat
<1> DEFINE Bad == {s \in SUBSET S : g[s] \notin Nat}
<1>1. SUFFICES ASSUME Bad # {} PROVE FALSE
  OBVIOUS
<1>2. PICK s \in Bad : \A u \in SUBSET s : u # s => u \notin Bad
  <2> HIDE DEF Bad
  <2> Bad \in SUBSET SUBSET S
    BY DEF Bad
  <2> QED BY <1>1, Smallest
<1>3. CASE s = {}
  BY <1>2, <1>3 DEF AddsUp
<1>4. CASE s # {}
  <2>1. First(s) \in s
    BY <1>4 DEF First
  <2>2. g[s \ {First(s)}] \in Nat /\ v[First(s)] \in Nat
    BY <1>2, <2>1
  <2>3. g[s] = v[First(s)] + g[s \ {First(s)}]
    BY <1>2, <1>4 DEF AddsUp
  <2> QED BY <1>2, <2>2, <2>3
<1> QED BY <1>3, <1>4

\* What natural numbers over a finite set add up to is a natural number.
LEMMA TotalIsNatural ==
  ASSUME NEW S, IsFiniteSet(S), NEW v, \A i \in S : v[i] \in Nat
  PROVE  TotalOf(v, S) \in Nat
<1> DEFINE iter == CHOOSE g : AddsUp(g, v, S)
<1>1. AddsUp(iter, v, S)
  BY SumsExist
<1>2. TotalOf(v, S) = iter[S]
  BY DEF TotalOf, MapThenSumSet, MapThenFoldSet, AddsUp, First
<1> QED BY <1>1, <1>2, SumsAreNatural

-----------------------------------------------------------------------------
(* Grades                                                                  *)

GradeDocs ==
  /\ items \in [Item -> MaxMarks \cup {None}]
  /\ grades \in [GradeId -> Marks \cup {None}]

\* The verdict that the grades and the items come to as they are.
Verdict(p) == Passes(Scored(p, Graded(p, Here)), Worth(Here))

\* While nothing has overlapped, what a call has read of the items and the grades
\* is still there.
GradeCall(r) ==
  /\ IsCall(req[r])
  /\ req[r].pc \in {"gradeUpsert", "gradeNotice"} =>
       req[r].body \in GradeBody /\ req[r].round \in 1 .. Len(req[r].body)
  /\ req[r].pc \in {"resultGrades", "shownGrades"} /\ ~overlapped =>
       /\ req[r].target \in Learner /\ req[r].todo = Here
       /\ req[r].read = Worth(Here) /\ Worth(Here) # 0
  /\ req[r].pc \in {"resultNotice", "resultShown"} /\ ~overlapped =>
       /\ req[r].target \in Learner /\ Worth(Here) # 0
       /\ req[r].read \in Verdict(req[r].target)

GradeInv ==
  /\ CallsOK /\ Alone /\ GradeDocs
  /\ \A r \in Request : GradeCall(r)

LEMMA SameVerdicts ==
  ASSUME items' = items, grades' = grades
  PROVE  Here' = Here /\ Worth(Here)' = Worth(Here) /\ \A p : Verdict(p)' = Verdict(p)
BY DEF Here, Worth, Verdict, Graded, Scored, Passes

LEMMA GradeInitially == CourseworkInit => GradeInv
<1> SUFFICES ASSUME CourseworkInit PROVE GradeInv
  OBVIOUS
<1>1. CallsOK /\ GradeDocs /\ Alone
  BY AloneInitially DEF CourseworkInit, CallsInit, CallsOK, GradeDocs
<1>2. ASSUME NEW r \in Request PROVE GradeCall(r)
  <2>1. req[r] = Fresh /\ Fresh.pc = "idle"
    BY DEF CourseworkInit, CallsInit, Fresh
  <2> QED BY <2>1, FreshIs DEF GradeCall, IsCall
<1> QED BY <1>1, <1>2 DEF GradeInv

\* A call that is not handled relies on nothing.
LEMMA GradeMove ==
  ASSUME GradeInv, NEW r \in Request, CallsOK', OnlyCall(r), Alone', AloneWith(r),
         GradeDocs', GradeCall(r)'
  PROVE  GradeInv'
<1>1. ASSUME NEW q \in Request \ {r} PROVE GradeCall(q)'
  <2>1. GradeCall(q) /\ req'[q] = req[q]
    BY DEF GradeInv, OnlyCall
  <2>2. ~overlapped' => req'[q].pc \in Replies \cup {"idle"}
    BY DEF AloneWith, InFlight
  <2> QED BY <2>1, <2>2 DEF GradeCall, Replies
<1> QED BY <1>1 DEF GradeInv

LEMMA GradeBegins ==
  ASSUME GradeInv, NEW r \in Request, NEW op, NEW call, Begins(r, op, call),
         GradeDocs', req'[r] = [call EXCEPT !.op = op] => GradeCall(r)'
  PROVE  GradeInv'
BY BeginsMoves, BeginsAlone, GradeMove DEF GradeInv

LEMMA GradeBecomes ==
  ASSUME GradeInv, NEW r \in Request, InFlight(r), NEW call, Becomes(r, call),
         GradeDocs', req'[r] = call => GradeCall(r)'
  PROVE  GradeInv'
BY BecomesMoves, BecomesAlone, GradeMove DEF GradeInv

LEMMA GradeReplies ==
  ASSUME NEW r \in Request, NEW reply \in Replies, NEW op,
         req'[r] = [Answer(reply) EXCEPT !.op = op]
  PROVE  GradeCall(r)'
<1>1. IsCall(Answer(reply)) /\ Answer(reply).pc = reply
  BY AnswerIs DEF Call, IsCall
<1>2. IsCall(req'[r]) /\ req'[r].pc = reply
  BY <1>1, Named
<1> QED BY <1>2 DEF GradeCall, Replies

LEMMA GradeAnswers ==
  ASSUME GradeInv, NEW r \in Request, NEW op, NEW reply \in Replies, Begins(r, op, Answer(reply)),
         GradeDocs'
  PROVE  GradeInv'
BY GradeReplies, GradeBegins

LEMMA GradeEnds ==
  ASSUME GradeInv, NEW r \in Request, InFlight(r), NEW reply \in Replies, Ends(r, reply), GradeDocs'
  PROVE  GradeInv'
BY GradeReplies, GradeBecomes DEF Ends

LEMMA GradeQuick ==
  ASSUME GradeInv, NEW r \in Request,
         CreateItem(r) \/ UpdateItem(r) \/ RemoveItem(r) \/ UpdateGrade(r) \/ RemoveGrade(r)
  PROVE  GradeInv'
<1>1. \E op : Begins(r, op, Answer("ok"))
  BY DEF CreateItem, UpdateItem, RemoveItem, UpdateGrade, RemoveGrade
<1>2. GradeDocs'
  <2>1. CASE CreateItem(r) \/ UpdateItem(r) \/ RemoveItem(r)
    BY <2>1 DEF GradeInv, GradeDocs, CreateItem, UpdateItem, RemoveItem, butItems
  <2>2. CASE UpdateGrade(r) \/ RemoveGrade(r)
    BY <2>2 DEF GradeInv, GradeDocs, UpdateGrade, RemoveGrade, butGrades
  <2> QED BY <2>1, <2>2
<1>3. "ok" \in Replies
  BY DEF Replies
<1> QED BY <1>1, <1>2, <1>3, GradeAnswers

LEMMA GradeBodies ==
  ASSUME NEW body \in GradeBody
  PROVE  /\ body \in Seq(GradeId \X Marks) /\ Len(body) \in 1 .. 2
         /\ \A i \in 1 .. Len(body) : body[i][1] \in GradeId /\ body[i][2] \in Marks
<1>1. PICK n \in 1 .. 2 : body \in [1 .. n -> GradeId \X Marks]
  BY DEF GradeBody
<1>2. body \in Seq(GradeId \X Marks) /\ Len(body) = n
  BY <1>1
<1> QED BY <1>1, <1>2

LEMMA SendGradesStep ==
  ASSUME GradeInv, NEW r \in Request, SendGrades(r)
  PROVE  GradeInv'
<1>1. PICK body \in GradeBody :
        Begins(r, "grade", [Fresh EXCEPT !.pc = "gradeUpsert", !.body = body, !.round = 1])
  BY DEF SendGrades
<1> DEFINE call == [Fresh EXCEPT !.pc = "gradeUpsert", !.body = body, !.round = 1]
<1>2. GradeDocs'
  BY DEF SendGrades, GradeInv, GradeDocs, courseworkDocs
<1>3. ASSUME NEW sent, sent = [call EXCEPT !.op = "grade"]
      PROVE  sent = Call("grade", "gradeUpsert", None, body, {}, None, 1)
  BY <1>3 DEF Fresh, Call
<1>4. ASSUME req'[r] = [call EXCEPT !.op = "grade"] PROVE GradeCall(r)'
  <2>1. req'[r] = Call("grade", "gradeUpsert", None, body, {}, None, 1)
    BY <1>3, <1>4
  <2>2. /\ IsCall(req'[r]) /\ req'[r].pc = "gradeUpsert"
        /\ req'[r].body = body /\ req'[r].round = 1
    BY <2>1, PartsOf
  <2>3. 1 \in 1 .. Len(body)
    BY GradeBodies
  <2> QED BY <2>2, <2>3 DEF GradeCall
<1> HIDE DEF call
<1>5. Begins(r, "grade", call)
  BY <1>1 DEF call
<1> QED BY <1>2, <1>4, <1>5, GradeBegins

LEMMA UpsertStep ==
  ASSUME GradeInv, NEW r \in Request, UpsertGrade(r)
  PROVE  GradeInv'
<1> DEFINE next == req[r].body[req[r].round]
<1>1. /\ req[r].pc = "gradeUpsert" /\ grades' = [grades EXCEPT ![next[1]] = next[2]]
      /\ items' = items /\ Becomes(r, [req[r] EXCEPT !.pc = "gradeNotice"])
  BY DEF UpsertGrade, At, butGrades
<1>2. /\ IsCall(req[r]) /\ req[r].body \in GradeBody
      /\ req[r].round \in 1 .. Len(req[r].body)
  BY <1>1 DEF GradeInv, GradeCall
<1>3. next[1] \in GradeId /\ next[2] \in Marks
  BY <1>2, GradeBodies
<1>4. GradeDocs'
  BY <1>1, <1>3 DEF GradeInv, GradeDocs
<1>5. ASSUME req'[r] = [req[r] EXCEPT !.pc = "gradeNotice"] PROVE GradeCall(r)'
  <2>1. /\ req'[r].pc = "gradeNotice" /\ req'[r].body = req[r].body
        /\ req'[r].round = req[r].round /\ IsCall(req'[r])
    BY <1>2, <1>5, GoesOn
  <2> QED BY <1>2, <2>1 DEF GradeCall
<1>6. InFlight(r)
  BY <1>1 DEF InFlight, Replies
<1> QED BY <1>1, <1>4, <1>5, <1>6, GradeBecomes

LEMMA NoticeGradeStep ==
  ASSUME GradeInv, NEW r \in Request, NoticeGrade(r)
  PROVE  GradeInv'
<1>1. req[r].pc = "gradeNotice" /\ GradeDocs'
  BY DEF NoticeGrade, At, courseworkDocs, GradeInv, GradeDocs
<1>2. /\ IsCall(req[r]) /\ req[r].body \in GradeBody
      /\ req[r].round \in 1 .. Len(req[r].body) /\ InFlight(r)
  BY <1>1 DEF GradeInv, GradeCall, InFlight, Replies
<1> DEFINE onward == [req[r] EXCEPT !.pc = "gradeUpsert", !.round = @ + 1]
<1>3. ASSUME req'[r] = onward, req[r].round < Len(req[r].body) PROVE GradeCall(r)'
  <2>1. /\ req'[r].pc = "gradeUpsert" /\ req'[r].body = req[r].body
        /\ req'[r].round = req[r].round + 1 /\ IsCall(req'[r])
    <3>1. ASSUME NEW old, IsCall(old), NEW call,
                 call = [old EXCEPT !.pc = "gradeUpsert", !.round = @ + 1]
          PROVE  /\ call.pc = "gradeUpsert" /\ call.body = old.body
                 /\ call.round = old.round + 1 /\ IsCall(call)
      <4>1. PICK op, pc, target, body, todo, read, round :
              old = Call(op, pc, target, body, todo, read, round)
        BY <3>1 DEF IsCall
      <4>2. call = Call(op, "gradeUpsert", target, body, todo, read, round + 1)
        BY <3>1, <4>1 DEF Call
      <4> QED BY <4>1, <4>2, PartsOf
    <3> QED BY <1>2, <1>3, <3>1
  <2>2. Len(req[r].body) \in 1 .. 2
    BY <1>2, GradeBodies
  <2> QED BY <1>2, <1>3, <2>1, <2>2 DEF GradeCall
<1>4. \/ Ends(r, "ok")
      \/ req[r].round < Len(req[r].body) /\ Becomes(r, onward)
  BY DEF NoticeGrade
<1> HIDE DEF onward
<1> QED BY <1>1, <1>2, <1>3, <1>4, GradeEnds, GradeBecomes DEF Replies

LEMMA ReadItemsStep ==
  ASSUME GradeInv, NEW r \in Request, ReadItems(r) \/ ShowItems(r)
  PROVE  GradeInv'
<1>1. UNCHANGED <<items, grades>>
  BY DEF ReadItems, ShowItems, courseworkDocs
<1>2. GradeDocs' /\ Here' = Here /\ Worth(Here)' = Worth(Here)
  BY <1>1, SameVerdicts DEF GradeInv, GradeDocs
<1> DEFINE Read(p, pc) == [Fresh EXCEPT !.pc = pc, !.target = p, !.todo = Here, !.read = Worth(Here)]
<1>3. \/ \E op : Begins(r, op, Answer("ok")) \/ Begins(r, op, Answer("error"))
      \/ \E op : \E p \in Learner, pc \in {"resultGrades", "shownGrades"} :
           Worth(Here) # 0 /\ Begins(r, op, Read(p, pc))
  BY DEF ReadItems, ShowItems
<1>4. ASSUME NEW op, NEW p \in Learner, NEW pc \in {"resultGrades", "shownGrades"},
             Worth(Here) # 0, req'[r] = [Read(p, pc) EXCEPT !.op = op]
      PROVE  GradeCall(r)'
  <2>1. ASSUME NEW call, call = [Read(p, pc) EXCEPT !.op = op]
        PROVE  call = Call(op, pc, p, None, Here, Worth(Here), 0)
    BY <2>1 DEF Fresh, Call
  <2>2. req'[r] = Call(op, pc, p, None, Here, Worth(Here), 0)
    BY <1>4, <2>1
  <2>3. /\ IsCall(req'[r]) /\ req'[r].pc = pc /\ req'[r].target = p
        /\ req'[r].todo = Here /\ req'[r].read = Worth(Here)
    BY <2>2, PartsOf
  <2> QED BY <1>2, <1>4, <2>3 DEF GradeCall
<1> HIDE DEF Read
<1> QED BY <1>2, <1>3, <1>4, GradeAnswers, GradeBegins DEF Replies

LEMMA JudgeStep ==
  ASSUME GradeInv, NEW r \in Request, Judge(r) \/ ShowResult(r)
  PROVE  GradeInv'
<1> DEFINE p == req[r].target
           graded == Graded(p, req[r].todo)
           Judged(pc, pass) == [req[r] EXCEPT !.pc = pc, !.read = pass]
<1>1. UNCHANGED <<items, grades>> /\ req[r].pc \in {"resultGrades", "shownGrades"}
  BY DEF Judge, ShowResult, courseworkDocs, At
<1>2. /\ GradeDocs' /\ Here' = Here /\ Worth(Here)' = Worth(Here) /\ InFlight(r)
      /\ \A q : Verdict(q)' = Verdict(q)
  BY <1>1, SameVerdicts DEF GradeInv, GradeDocs, InFlight, Replies
<1>3. \/ Ends(r, "ok") \/ Ends(r, "error")
      \/ \E pc \in {"resultNotice", "resultShown"} :
           \E pass \in Passes(Scored(p, graded), req[r].read) : Becomes(r, Judged(pc, pass))
  <2> DEFINE passes == Passes(Scored(p, graded), req[r].read)
  <2>1. CASE Judge(r)
    <3>1. IF graded = {} THEN Ends(r, "error")
          ELSE \E pass \in passes : Becomes(r, Judged("resultNotice", pass))
      BY <2>1 DEF Judge
    <3>2. CASE graded = {} BY <3>1, <3>2
    <3>3. CASE graded # {}
      <4>1. PICK pass \in passes : Becomes(r, Judged("resultNotice", pass))
        BY <3>1, <3>3
      <4> QED BY <4>1
    <3> QED BY <3>2, <3>3
  <2>2. CASE ShowResult(r)
    <3>1. IF graded = {} THEN Ends(r, "ok")
          ELSE \E pass \in passes : Becomes(r, Judged("resultShown", pass))
      BY <2>2 DEF ShowResult
    <3>2. CASE graded = {} BY <3>1, <3>2
    <3>3. CASE graded # {}
      <4>1. PICK pass \in passes : Becomes(r, Judged("resultShown", pass))
        BY <3>1, <3>3
      <4> QED BY <4>1
    <3> QED BY <3>2, <3>3
  <2> QED BY <2>1, <2>2
<1>4. ASSUME NEW pc \in {"resultNotice", "resultShown"},
             NEW pass \in Passes(Scored(p, graded), req[r].read),
             Becomes(r, Judged(pc, pass)), req'[r] = Judged(pc, pass)
      PROVE  GradeCall(r)'
  <2>1. IsCall(req[r])
    BY DEF GradeInv, GradeCall
  <2>2. /\ req'[r].pc = pc /\ req'[r].target = p /\ req'[r].read = pass /\ IsCall(req'[r])
    <3>1. ASSUME NEW old, IsCall(old), NEW call, call = [old EXCEPT !.pc = pc, !.read = pass]
          PROVE  call.pc = pc /\ call.target = old.target /\ call.read = pass /\ IsCall(call)
      <4>1. PICK op, was, target, body, todo, read, round :
              old = Call(op, was, target, body, todo, read, round)
        BY <3>1 DEF IsCall
      <4>2. call = Call(op, pc, target, body, todo, pass, round)
        BY <3>1, <4>1 DEF Call
      <4> QED BY <4>1, <4>2, PartsOf
    <3> QED BY <1>4, <2>1, <3>1
  <2>3. overlapped' = overlapped
    BY <1>4 DEF Becomes
  <2>4. ~overlapped => /\ p \in Learner /\ Worth(Here) # 0 /\ pass \in Verdict(p)
    BY <1>1, <1>4 DEF GradeInv, GradeCall, Verdict
  <2> HIDE DEF p
  <2> QED BY <1>2, <2>2, <2>3, <2>4 DEF GradeCall
<1> HIDE DEF Judged, graded, p
<1> QED BY <1>2, <1>3, <1>4, GradeEnds, GradeBecomes DEF Replies

LEMMA TellStep ==
  ASSUME GradeInv, NEW r \in Request, TellResult(r) \/ AnswerShown(r)
  PROVE  GradeInv'
<1>1. UNCHANGED <<items, grades>> /\ req[r].pc \in {"resultNotice", "resultShown"}
  BY DEF TellResult, AnswerShown, courseworkDocs, At
<1>2. GradeDocs' /\ InFlight(r)
  BY <1>1 DEF GradeInv, GradeDocs, InFlight, Replies
<1>3. \E reply \in {"ok", "error"} : Ends(r, reply)
  BY Zenon DEF TellResult, AnswerShown
<1> QED BY <1>2, <1>3, GradeEnds DEF Replies

LEMMA GradeCrash ==
  ASSUME GradeInv, CrashCalls, UNCHANGED courseworkDocs
  PROVE  GradeInv'
<1>1. CallsOK' /\ Alone' /\ overlapped' = overlapped /\ items' = items /\ grades' = grades
  BY CrashMoves, CrashAlone DEF GradeInv, courseworkDocs
<1>2. GradeDocs'
  BY <1>1 DEF GradeInv, GradeDocs
<1>3. ASSUME NEW r \in Request PROVE GradeCall(r)'
  <2>1. \/ req'[r] = req[r]
        \/ req'[r] = [Answer("crashed") EXCEPT !.op = req[r].op]
    BY DEF CrashCalls
  <2>2. CASE req'[r] = req[r]
    BY <1>1, <2>2, SameVerdicts DEF GradeInv, GradeCall
  <2>3. CASE req'[r] = [Answer("crashed") EXCEPT !.op = req[r].op]
    BY <2>3, GradeReplies DEF Replies
  <2> QED BY <2>1, <2>2, <2>3
<1> QED BY <1>1, <1>2, <1>3 DEF GradeInv

LEMMA GradeStep ==
  GradeInv /\ [GradeNext \/ (CrashCalls /\ UNCHANGED courseworkDocs)]_courseworkVars => GradeInv'
<1> SUFFICES ASSUME GradeInv, [GradeNext \/ (CrashCalls /\ UNCHANGED courseworkDocs)]_courseworkVars
             PROVE  GradeInv'
  OBVIOUS
<1>1. CASE GradeNext
  BY <1>1, GradeQuick, SendGradesStep, UpsertStep, NoticeGradeStep, ReadItemsStep, JudgeStep, TellStep
     DEF GradeNext
<1>2. CASE CrashCalls /\ UNCHANGED courseworkDocs
  BY <1>2, GradeCrash
<1>3. CASE UNCHANGED courseworkVars
  <2>1. items' = items /\ grades' = grades /\ req' = req /\ overlapped' = overlapped
    BY <1>3 DEF courseworkVars, courseworkDocs
  <2>2. GradeDocs' /\ CallsOK' /\ Alone'
    BY <2>1 DEF GradeInv, GradeDocs, CallsOK, Alone, InFlight
  <2>3. \A r \in Request : GradeCall(r)'
    BY <2>1, SameVerdicts DEF GradeInv, GradeCall
  <2> QED BY <2>2, <2>3 DEF GradeInv
<1> QED BY <1>1, <1>2, <1>3

LEMMA MarksAreNatural ==
  ASSUME GradeDocs, NEW p \in Learner
  PROVE  Worth(Here) \in Nat /\ Scored(p, Graded(p, Here)) \in Nat
<1>1. IsFiniteSet(Here) /\ IsFiniteSet(Graded(p, Here))
  BY CourseworkAssumption, FS_Subset DEF Here, Graded
<1>2. \A i \in Here : items[i] \in Nat
  BY CourseworkAssumption DEF GradeDocs, Here
<1>3. \A i \in Graded(p, Here) : grades[p, i] \in Nat
  BY CourseworkAssumption DEF GradeDocs, GradeId, Here, Graded
<1> DEFINE marks == [i \in Graded(p, Here) |-> grades[p, i]]
<1>4. \A i \in Graded(p, Here) : marks[i] \in Nat
  BY <1>3
<1> HIDE DEF marks
<1>5. TotalOf(marks, Graded(p, Here)) \in Nat
  BY <1>1, <1>4, TotalIsNatural
<1>6. Worth(Here) \in Nat
  BY <1>1, <1>2, TotalIsNatural DEF Worth
<1> QED BY <1>5, <1>6 DEF Scored, marks

\* resultPassFail and getStudentItemGradeResult: as long as no two calls overlap, a
\* student is told the verdict of the grades and the items as they are.
THEOREM VerdictIsCurrent == GradeSpec => []SerialVerdictIsCurrent
<1>1. ASSUME GradeInv PROVE SerialVerdictIsCurrent
  <2> SUFFICES ASSUME ~overlapped, NEW r \in Request, req[r].pc \in {"resultNotice", "resultShown"},
                      NEW marks, marks = Scored(req[r].target, Graded(req[r].target, Here))
               PROVE  /\ 100 * marks >= 70 * Worth(Here) => req[r].read = 1
                      /\ 20000 * marks < 13999 * Worth(Here) => req[r].read = 0
    BY DEF SerialVerdictIsCurrent
  <2>1. /\ req[r].target \in Learner /\ Worth(Here) # 0
        /\ req[r].read \in Passes(marks, Worth(Here))
    BY <1>1 DEF GradeInv, GradeCall, Verdict
  <2>2. Worth(Here) \in Nat /\ marks \in Nat
    BY <1>1, <2>1, MarksAreNatural DEF GradeInv
  <2> QED BY <2>1, <2>2 DEF Passes
<1> QED BY <1>1, GradeInitially, GradeStep, PTL DEF GradeSpec

-----------------------------------------------------------------------------
(* Pages of a list                                                         *)

\* The documents up to a place in an order.
UpTo(d, order) == {e \in stored : IF order = "newest" THEN e >= d ELSE e <= d}

LEMMA FinitePlaces ==
  ASSUME NEW docs, docs \subseteq Place
  PROVE  IsFiniteSet(docs) /\ Cardinality(docs) \in Nat
<1>1. MaxPlace \in Int /\ 1 \in Int
  BY QueryAssumption
<1>2. IsFiniteSet(Place)
  BY <1>1, FS_Interval DEF Place
<1> QED BY <1>2, FS_Subset, FS_CardinalityType

LEMMA RankBounds ==
  ASSUME stored \subseteq Place, NEW d, NEW order
  PROVE  /\ Rank(d, order) \in Nat
         /\ Rank(d, order) <= Cardinality(stored) /\ Cardinality(stored) \in Nat
         /\ d \in stored => Rank(d, order) >= 1
<1>1. UpTo(d, order) \subseteq stored /\ Rank(d, order) = Cardinality(UpTo(d, order))
  BY DEF UpTo, Rank
<1>2. IsFiniteSet(stored) /\ IsFiniteSet(UpTo(d, order))
  BY <1>1, FinitePlaces
<1>3. Rank(d, order) \in Nat /\ Rank(d, order) <= Cardinality(stored) /\ Cardinality(stored) \in Nat
  BY <1>1, <1>2, FS_Subset, FS_CardinalityType
<1>4. ASSUME d \in stored PROVE Rank(d, order) >= 1
  <2>1. d \in Int
    BY <1>4, QueryAssumption DEF Place
  <2>2. d \in UpTo(d, order)
    BY <1>4, <2>1 DEF UpTo
  <2> QED BY <1>1, <1>2, <1>3, <2>2, FS_EmptySet
<1> QED BY <1>3, <1>4

\* A document that comes moves no other towards the front.
LEMMA RankGrows ==
  ASSUME stored' \subseteq Place, stored \subseteq stored', NEW d, NEW order
  PROVE  Rank(d, order) <= Rank(d, order)'
<1>1. UpTo(d, order) \subseteq UpTo(d, order)' /\ UpTo(d, order)' \subseteq Place
  BY DEF UpTo
<1>2. IsFiniteSet(UpTo(d, order)')
  BY <1>1, FinitePlaces
<1> QED BY <1>1, <1>2, FS_Subset DEF UpTo, Rank

\* What the client w has seen: everything up to place n, but for what was not there
\* when it began.
SeenTo(w, n) == \A d \in w.since : Rank(d, w.order) <= n => d \in w.seen

\* No document has gone or changed places since.
Quietly(w) == "went" \notin w.changes /\ "moved" \notin w.changes

\* The inductive invariant of a walk.
WalkInv ==
  /\ stored \subseteq Place
  /\ walk.page \in Nat /\ walk.page >= 1 /\ walk.limit \in Nat
  /\ walk.pc \in {"idle", "find", "both", "count", "findLast", "done"}
  /\ walk.pc # "idle" /\ Quietly(walk) =>
       /\ walk.since \subseteq stored
       /\ walk.pc \in {"find", "both", "findLast"} => SeenTo(walk, (walk.page - 1) * walk.limit)
       /\ walk.pc = "count" => SeenTo(walk, walk.page * walk.limit)
       /\ walk.pc = "count" /\ walk.limit = 0 => walk.since \subseteq walk.seen
       /\ walk.pc = "findLast" /\ walk.list.counted /\ "raced" \notin walk.changes =>
            walk.total = Cardinality(stored)
  /\ WalkMissesNobody

\* A page adds the places after those of the pages before it.
LEMMA PageSeen ==
  ASSUME WalkInv, walk.pc \in {"find", "both", "findLast"}, Quietly(walk)
  PROVE  /\ SeenTo(Found(walk), walk.page * walk.limit)
         /\ walk.limit = 0 => walk.since \subseteq Found(walk).seen
<1>1. /\ SeenTo(walk, (walk.page - 1) * walk.limit)
      /\ walk.since \subseteq stored /\ stored \subseteq Place
  BY DEF WalkInv
<1>2. \A d \in walk.since : Rank(d, walk.order) \in Nat /\ Rank(d, walk.order) >= 1
  BY <1>1, RankBounds
<1>3. (walk.page - 1) * walk.limit \in Int /\ walk.page * walk.limit \in Int
  BY DEF WalkInv
<1>4. ASSUME NEW d \in walk.since, Rank(d, walk.order) <= walk.page * walk.limit \/ walk.limit = 0
      PROVE  d \in walk.seen \cup PageOf(walk.order, walk.page, walk.limit)
  <2>1. CASE Rank(d, walk.order) <= (walk.page - 1) * walk.limit
    BY <1>1, <2>1 DEF SeenTo
  <2>2. CASE Rank(d, walk.order) > (walk.page - 1) * walk.limit
    BY <1>1, <1>4, <2>2 DEF PageOf
  <2> QED BY <1>2, <1>3, <2>1, <2>2
<1>5. /\ Found(walk).since = walk.since /\ Found(walk).order = walk.order
      /\ Found(walk).seen = walk.seen \cup PageOf(walk.order, walk.page, walk.limit)
  BY DEF Found
<1> QED BY <1>4, <1>5 DEF SeenTo

\* A client that is told there is no next page has seen everything.
LEMMA FollowKeeps ==
  ASSUME WalkInv, NEW w, NEW total,
         w.page = walk.page, w.limit = walk.limit, w.since = walk.since, w.order = walk.order,
         w.changes = walk.changes, w.list = walk.list, walk.pc # "idle",
         Quietly(w) => /\ SeenTo(w, w.page * w.limit)
                       /\ w.limit = 0 => w.since \subseteq w.seen,
         Quietly(w) /\ w.list.counted /\ "raced" \notin w.changes => total = Cardinality(stored),
         walk' = Follow(w, total), UNCHANGED stored
  PROVE  WalkInv'
<1>1. CASE HasNext(w.page, total, w.limit)
  <2>1. /\ walk'.pc = FirstRead(w.list) /\ walk'.page = w.page + 1
        /\ walk'.limit = w.limit /\ walk'.since = w.since /\ walk'.order = w.order
        /\ walk'.changes = w.changes /\ walk'.seen = w.seen
    BY <1>1 DEF Follow
  <2>2. walk'.pc \in {"find", "both"}
    BY <2>1 DEF FirstRead
  <2>3. walk'.page - 1 = walk.page /\ walk'.page \in Nat /\ walk'.page >= 1
    BY <2>1 DEF WalkInv
  <2>4. Quietly(walk)' => Quietly(w) /\ Quietly(walk)
    BY <2>1 DEF Quietly
  <2>5. Quietly(walk)' => SeenTo(walk, (walk.page - 1) * walk.limit)'
    BY <2>1, <2>3, <2>4 DEF SeenTo, Rank
  <2>6. WalkMissesNobody'
    BY <2>2 DEF WalkMissesNobody
  <2> QED BY <2>1, <2>2, <2>3, <2>4, <2>5, <2>6 DEF WalkInv
<1>2. CASE ~HasNext(w.page, total, w.limit)
  <2>1. /\ walk'.pc = "done" /\ walk'.page = w.page
        /\ walk'.limit = w.limit /\ walk'.since = w.since /\ walk'.order = w.order
        /\ walk'.changes = w.changes /\ walk'.seen = w.seen /\ walk'.list = w.list
    BY <1>2 DEF Follow
  <2>2. Quietly(walk)' => Quietly(w) /\ Quietly(walk)
    BY <2>1 DEF Quietly
  <2>3. ASSUME walk'.list.counted, {"went", "moved", "raced"} \cap walk'.changes = {}
        PROVE  walk'.since \subseteq walk'.seen
    <3>1. Quietly(w) /\ "raced" \notin w.changes /\ w.list.counted /\ total = Cardinality(stored)
      BY <2>1, <2>3 DEF Quietly
    <3>2. CASE w.limit = 0
      BY <2>1, <3>1, <3>2
    <3>3. CASE w.limit # 0
      <4>1. ~(w.page * w.limit < Cardinality(stored))
        BY <1>2, <3>1, <3>3 DEF HasNext
      <4>2. stored \subseteq Place /\ w.page * w.limit \in Nat
        BY DEF WalkInv
      <4>3. \A d \in w.since : Rank(d, w.order) <= w.page * w.limit
        BY <4>1, <4>2, RankBounds
      <4> QED BY <2>1, <3>1, <4>3 DEF SeenTo
    <3> QED BY <3>2, <3>3
  <2>4. WalkMissesNobody'
    BY <2>3 DEF WalkMissesNobody
  <2> QED BY <2>1, <2>2, <2>4 DEF WalkInv
<1> QED BY <1>1, <1>2

LEMMA WalkHolds == ListingSpec => []WalkInv
<1>1. ListingInit => WalkInv
  <2>1. ASSUME NEW n \in 0 .. MaxPlace - 1, stored = 1 .. n
        PROVE  stored \subseteq Place
    BY <2>1, QueryAssumption DEF Place
  <2> QED BY <2>1 DEF ListingInit, WalkInv, NoWalk, WalkMissesNobody
<1>2. WalkInv /\ [ListingNext]_listingVars => WalkInv'
  <2> SUFFICES ASSUME WalkInv, [ListingNext]_listingVars PROVE WalkInv'
    OBVIOUS
  <2>1. CASE StartWalk
    <3>1. walk'.pc \in {"find", "both"} /\ walk'.page = 1 /\ walk'.limit \in Nat
          /\ walk'.since = stored /\ UNCHANGED stored
      BY <2>1, QueryAssumption DEF StartWalk, NoWalk, FirstRead
    <3>2. PICK o : o = walk'.order
      OBVIOUS
    <3>3. \A d \in stored : ~(Rank(d, o) <= 0)
      BY RankBounds DEF WalkInv
    <3>4. (walk'.page - 1) * walk'.limit = 0
      BY <3>1
    <3>5. SeenTo(walk, (walk.page - 1) * walk.limit)'
      BY <3>1, <3>2, <3>3, <3>4 DEF SeenTo, Rank
    <3> QED BY <3>1, <3>5 DEF WalkInv, WalkMissesNobody
  <2>2. CASE FindPage
    <3>1. walk.pc \in {"find", "both"} /\ UNCHANGED stored
      BY <2>2 DEF FindPage
    <3>2. /\ Found(walk).page = walk.page /\ Found(walk).limit = walk.limit
          /\ Found(walk).since = walk.since /\ Found(walk).order = walk.order
          /\ Found(walk).changes = walk.changes /\ Found(walk).list = walk.list
      BY DEF Found
    <3>3. Quietly(Found(walk)) => Quietly(walk)
      BY <3>2 DEF Quietly
    <3>4. Quietly(Found(walk)) =>
             /\ SeenTo(Found(walk), walk.page * walk.limit)
             /\ walk.limit = 0 => walk.since \subseteq Found(walk).seen
      BY <3>1, <3>3, PageSeen
    <3>5. CASE walk.list.reads = "memory"
      <4>1. walk' = Follow(Found(walk), Total(walk.list))
        BY <2>2, <3>5 DEF FindPage
      <4>2. walk.list.counted => Total(walk.list) = Cardinality(stored)
        BY DEF Total
      <4> QED BY <3>1, <3>2, <3>4, <4>1, <4>2, FollowKeeps
    <3>6. CASE walk.list.reads # "memory"
      <4>1. walk' = [Found(walk) EXCEPT !.pc = "count"]
        BY <2>2, <3>6 DEF FindPage
      <4>2. /\ walk'.pc = "count" /\ walk'.page = walk.page /\ walk'.limit = walk.limit
            /\ walk'.since = walk.since /\ walk'.order = walk.order
            /\ walk'.changes = walk.changes /\ walk'.seen = Found(walk).seen
        BY <4>1 DEF Found
      <4>3. Quietly(walk)' => Quietly(Found(walk)) /\ Quietly(walk)
        BY <3>2, <4>2 DEF Quietly
      <4>4. Quietly(walk)' => SeenTo(walk, walk.page * walk.limit)'
        BY <3>1, <3>2, <3>4, <4>2, <4>3 DEF SeenTo, Rank
      <4> QED BY <3>1, <3>4, <4>2, <4>3, <4>4 DEF WalkInv, WalkMissesNobody
    <3> QED BY <3>5, <3>6
  <2>3. CASE CountDocuments
    <3>1. walk.pc = "count" /\ walk' = Follow(walk, Total(walk.list)) /\ UNCHANGED stored
      BY <2>3 DEF CountDocuments
    <3>2. Quietly(walk) => /\ SeenTo(walk, walk.page * walk.limit)
                           /\ walk.limit = 0 => walk.since \subseteq walk.seen
      BY <3>1 DEF WalkInv
    <3>3. walk.list.counted => Total(walk.list) = Cardinality(stored)
      BY DEF Total
    <3> QED BY <3>1, <3>2, <3>3, FollowKeeps
  <2>4. CASE CountFirst
    <3>1. /\ walk.pc = "both" /\ walk' = [walk EXCEPT !.pc = "findLast", !.total = Total(walk.list)]
          /\ UNCHANGED stored
      BY <2>4 DEF CountFirst
    <3>2. /\ walk'.pc = "findLast" /\ walk'.page = walk.page /\ walk'.limit = walk.limit
          /\ walk'.since = walk.since /\ walk'.order = walk.order /\ walk'.seen = walk.seen
          /\ walk'.changes = walk.changes /\ walk'.list = walk.list
          /\ walk'.total = Total(walk.list)
      BY <3>1
    <3>3. walk.list.counted => walk'.total = Cardinality(stored)'
      BY <3>1, <3>2 DEF Total
    <3>4. Quietly(walk)' => Quietly(walk)
      BY <3>2 DEF Quietly
    <3>5. Quietly(walk)' => SeenTo(walk, (walk.page - 1) * walk.limit)'
      BY <3>1, <3>2, <3>4 DEF SeenTo, Rank, WalkInv
    <3> QED BY <3>1, <3>2, <3>3, <3>4, <3>5 DEF WalkInv, WalkMissesNobody
  <2>5. CASE FindLast
    <3>1. walk.pc = "findLast" /\ UNCHANGED stored /\ walk' = Follow(Found(walk), walk.total)
      BY <2>5 DEF FindLast
    <3>2. /\ Found(walk).page = walk.page /\ Found(walk).limit = walk.limit
          /\ Found(walk).since = walk.since /\ Found(walk).order = walk.order
          /\ Found(walk).changes = walk.changes /\ Found(walk).list = walk.list
      BY DEF Found
    <3>3. Quietly(Found(walk)) => Quietly(walk)
      BY <3>2 DEF Quietly
    <3>4. Quietly(Found(walk)) =>
             /\ SeenTo(Found(walk), walk.page * walk.limit)
             /\ walk.limit = 0 => walk.since \subseteq Found(walk).seen
      BY <3>1, <3>3, PageSeen
    <3>5. Quietly(walk) /\ walk.list.counted /\ "raced" \notin walk.changes =>
            walk.total = Cardinality(stored)
      BY <3>1 DEF WalkInv
    <3> QED BY <3>1, <3>2, <3>3, <3>4, <3>5, FollowKeeps
  <2>6. CASE Appear
    <3>1. PICK d \in Place : stored' = stored \cup {d}
      BY <2>6 DEF Appear
    <3>2. /\ walk.pc \notin {"idle", "done"}
          /\ walk' = [walk EXCEPT !.changes = @ \cup {"came"} \cup
                                    {c \in {"raced"} : walk.pc = "findLast"}]
      BY <2>6 DEF Appear
    <3>3. /\ walk'.pc = walk.pc /\ walk'.page = walk.page /\ walk'.limit = walk.limit
          /\ walk'.since = walk.since /\ walk'.order = walk.order /\ walk'.seen = walk.seen
          /\ walk'.list = walk.list /\ walk'.total = walk.total
          /\ walk'.changes = walk.changes \cup {"came"} \cup
                                {c \in {"raced"} : walk.pc = "findLast"}
      BY <3>2
    <3>4. Quietly(walk)' => Quietly(walk)
      BY <3>3 DEF Quietly
    <3>5. walk.pc = "findLast" => "raced" \in walk'.changes
      BY <3>3
    <3>6. stored' \subseteq Place /\ stored \subseteq stored' /\ stored \subseteq Place
      BY <3>1 DEF WalkInv
    <3>7. ASSUME NEW n \in Int, SeenTo(walk, n)
          PROVE  SeenTo(walk, n)'
      <4>1. PICK o : o = walk.order
        OBVIOUS
      <4> SUFFICES ASSUME NEW e \in walk.since, Rank(e, o)' <= n
                   PROVE  e \in walk.seen
        BY <3>3, <4>1 DEF SeenTo, Rank
      <4>2. Rank(e, o) <= Rank(e, o)' /\ Rank(e, o) \in Nat
        BY <3>6, RankGrows, RankBounds
      <4>3. Rank(e, o)' \in Nat
        <5>1. UpTo(e, o)' \subseteq Place
          BY <3>6 DEF UpTo
        <5> QED BY <5>1, FinitePlaces DEF UpTo, Rank
      <4> QED BY <3>7, <4>1, <4>2, <4>3 DEF SeenTo
    <3>8. PICK n, m : n = (walk.page - 1) * walk.limit /\ m = walk.page * walk.limit
      OBVIOUS
    <3>9. /\ Quietly(walk)' /\ walk.pc \in {"find", "both", "findLast"} =>
               SeenTo(walk, (walk.page - 1) * walk.limit)'
          /\ Quietly(walk)' /\ walk.pc = "count" => SeenTo(walk, walk.page * walk.limit)'
      <4>1. n \in Int /\ m \in Int
        BY <3>8 DEF WalkInv
      <4>2. /\ Quietly(walk)' /\ walk.pc \in {"find", "both", "findLast"} => SeenTo(walk, n)'
            /\ Quietly(walk)' /\ walk.pc = "count" => SeenTo(walk, m)'
        BY <3>2, <3>4, <3>7, <3>8, <4>1 DEF WalkInv
      <4>3. n = ((walk.page - 1) * walk.limit)' /\ m = (walk.page * walk.limit)'
        BY <3>3, <3>8
      <4> QED BY <4>2, <4>3
    <3> QED BY <3>2, <3>3, <3>4, <3>5, <3>6, <3>9 DEF WalkInv, WalkMissesNobody
  <2>7. CASE Disappear
    <3>1. /\ stored' \subseteq stored /\ walk.pc \notin {"idle", "done"}
          /\ walk' = [walk EXCEPT !.changes = @ \cup {"went"}]
      BY <2>7 DEF Disappear
    <3>2. walk'.pc = walk.pc /\ walk'.page = walk.page /\ walk'.limit = walk.limit
          /\ "went" \in walk'.changes
      BY <3>1
    <3> QED BY <3>1, <3>2 DEF WalkInv, WalkMissesNobody, Quietly
  <2>9. CASE Reorder
    <3>1. PICK f \in [stored -> Place] :
            /\ stored' = {f[d] : d \in stored}
            /\ walk' = [walk EXCEPT !.seen = {f[d] : d \in @ \cap stored},
                                   !.since = {f[d] : d \in @ \cap stored},
                                   !.changes = @ \cup {"moved"}]
      BY <2>9 DEF Reorder
    <3>2. stored' \subseteq Place
      BY <3>1
    <3>3. walk'.pc = walk.pc /\ walk'.page = walk.page /\ walk'.limit = walk.limit
          /\ "moved" \in walk'.changes /\ walk.pc # "done"
      BY <2>9, <3>1 DEF Reorder
    <3> QED BY <3>2, <3>3 DEF WalkInv, WalkMissesNobody, Quietly
  <2>8. CASE UNCHANGED <<stored, walk>>
    <3>1. \A n : SeenTo(walk, n)' <=> SeenTo(walk, n)
      BY <2>8 DEF SeenTo, Rank
    <3> QED BY <2>8, <3>1 DEF WalkInv, WalkMissesNobody, Quietly
  <2> QED BY <2>1, <2>2, <2>3, <2>4, <2>5, <2>6, <2>7, <2>8, <2>9
          DEF ListingNext, listingVars, listingDocs
<1> QED BY <1>1, <1>2, PTL DEF ListingSpec

\* A client who follows a list page by page misses nobody, as long as no document goes
\* or changes places.
THEOREM WalkMissesNobodyHolds == ListingSpec => []WalkMissesNobody
<1>1. WalkInv => WalkMissesNobody
  BY DEF WalkInv
<1> QED BY <1>1, WalkHolds, PTL

-----------------------------------------------------------------------------
(* The hours of a course                                                   *)

LEMMA MaxOfTwo ==
  ASSUME NEW n \in Int
  PROVE  Max({1, n}) = IF n > 1 THEN n ELSE 1
<1>1. \A m \in {1, n} : (\A y \in {1, n} : m >= y) <=> m = (IF n > 1 THEN n ELSE 1)
  OBVIOUS
<1> QED BY <1>1 DEF Max

\* What a clock takes from the start of a block to its end.
Takes(duration) == IF duration <= 0 THEN duration + FullDay ELSE duration

LEMMA ClockTimes ==
  ASSUME NEW t \in Clock, convertTimeToMinutes(t) # None
  PROVE  convertTimeToMinutes(t) \in 0 .. FullDay - 1
<1>1. t # None /\ ~(t[1] > 23) /\ convertTimeToMinutes(t) = t[1] * 60 + t[2]
  BY DEF convertTimeToMinutes
<1>2. t \in ClockHour \X ClockMinute
  BY <1>1 DEF Clock
<1>3. t[1] \in ClockHour /\ t[2] \in ClockMinute
  BY <1>2
<1>4. t[1] \in 0 .. 99 /\ t[2] \in 0 .. 59
  BY <1>3, HoursAssumption
<1> QED BY <1>1, <1>4 DEF FullDay

LEMMA TakesIsTheOne ==
  ASSUME NEW from \in 0 .. FullDay - 1, NEW to \in 0 .. FullDay - 1
  PROVE  /\ Takes(to - from) \in 1 .. FullDay
         /\ (CHOOSE n \in {to - from, to - from + FullDay} : n \in 1 .. FullDay)
              = Takes(to - from)
<1>1. \A n \in {to - from, to - from + FullDay} : n \in 1 .. FullDay <=> n = Takes(to - from)
  BY DEF Takes, FullDay
<1>2. Takes(to - from) \in {to - from, to - from + FullDay}
  BY DEF Takes, FullDay
<1> QED BY <1>1, <1>2 DEF FullDay

LEMMA WholeDays ==
  ASSUME NEW d \in Int, NEW x \in Int
  PROVE  /\ x \in 0 .. FullDay - 1 => (d * FullDay + x) \div FullDay = d
         /\ x \in 1 - FullDay .. -1 => (d * FullDay + x) \div FullDay = d - 1
BY DEF FullDay

LEMMA DaysCounted ==
  ASSUME NEW b \in TimeBlock, None \notin {b.startDate, b.endDate}
  PROVE  /\ b.startDate \in Nat /\ b.endDate \in Nat
         /\ Cardinality(Days(b)) =
              IF b.startDate > b.endDate THEN 0 ELSE b.endDate - b.startDate + 1
<1>1. b.startDate \in Nat /\ b.endDate \in Nat
  BY HoursAssumption DEF TimeBlock
<1>2. Days(b) = b.startDate .. b.endDate
  BY DEF Days
<1>3. b.startDate \in Int /\ b.endDate \in Int
  BY <1>1
<1> QED BY <1>1, <1>2, <1>3, FS_Interval

LEMMA ClockChanges ==
  ASSUME NEW b \in TimeBlock
  PROVE  b.drift \in -60 .. 60 /\ b.later \in 1 - FullDay .. FullDay - 1
<1>1. b.drift \in Drift /\ b.later \in Later
  BY DEF TimeBlock
<1>2. Drift \subseteq -60 .. 60 /\ Later \subseteq (1 - 24 * 60) .. (24 * 60 - 1)
  BY HoursAssumption
<1> QED BY <1>1, <1>2 DEF FullDay

LEMMA NoDays ==
  ASSUME NEW b, None \in {b.startDate, b.endDate}
  PROVE  Cardinality(Days(b)) = 0
BY FS_EmptySet DEF Days

LEMMA InclusiveDays ==
  ASSUME NEW b \in TimeBlock
  PROVE  LET due == Max({1, Cardinality(Days(b))}) IN
         /\ due \in Nat \ {0} /\ calculateInclusiveDays(b) \in Nat
         /\ calculateInclusiveDays(b) <= due
         /\ b.drift >= 0 => calculateInclusiveDays(b) = due
<1>1. CASE None \in {b.startDate, b.endDate}
  BY <1>1, NoDays, MaxOfTwo DEF calculateInclusiveDays
<1>2. CASE None \notin {b.startDate, b.endDate}
  <2>1. b.startDate \in Nat /\ b.endDate \in Nat /\ b.drift \in -60 .. 60
    BY <1>2, DaysCounted, ClockChanges
  <2>2. CASE b.endDate <= b.startDate
    <3>1. calculateInclusiveDays(b) = 1
      BY <1>2, <2>2 DEF calculateInclusiveDays
    <3>2. Cardinality(Days(b)) \in {0, 1}
      BY <1>2, <2>1, <2>2, DaysCounted
    <3> QED BY <3>1, <3>2, MaxOfTwo
  <2>3. CASE b.endDate > b.startDate
    <3> DEFINE d == b.endDate - b.startDate
    <3>1. d \in Nat \ {0}
      BY <2>1, <2>3
    <3>2. calculateInclusiveDays(b) = ((d * FullDay + b.drift) \div FullDay) + 1
      BY <1>2, <2>1, <2>3 DEF calculateInclusiveDays
    <3>3. Cardinality(Days(b)) = d + 1
      BY <1>2, <2>1, <2>3, DaysCounted
    <3>4. Max({1, Cardinality(Days(b))}) = d + 1
      BY <3>1, <3>3, MaxOfTwo
    <3> HIDE DEF d
    <3>5. (d * FullDay + b.drift) \div FullDay = IF b.drift >= 0 THEN d ELSE d - 1
      BY <2>1, <3>1, WholeDays DEF FullDay
    <3> QED BY <3>1, <3>2, <3>4, <3>5, <2>1
  <2> QED BY <2>1, <2>2, <2>3
<1> QED BY <1>1, <1>2

LEMMA ProductGrows ==
  ASSUME NEW n \in Nat, NEW d \in Nat, NEW e \in Nat, d <= e
  PROVE  n * d \in Nat /\ n * e \in Nat /\ n * d <= n * e
OBVIOUS

\* calculateTimeBlockMinutes agrees with the clock and the calendar, and loses no
\* more than the day that the clocks take.
LEMMA MinutesOfBlock ==
  ASSUME NEW b \in TimeBlock
  PROVE  /\ calculateTimeBlockMinutes(b) \in Nat /\ OnTheCalendar(b) \in Nat
         /\ calculateTimeBlockMinutes(b) <= OnTheCalendar(b)
         /\ b.drift >= 0 => calculateTimeBlockMinutes(b) = OnTheCalendar(b)
<1>1. CASE ~Readable(b)
  BY <1>1 DEF calculateTimeBlockMinutes, OnTheCalendar
<1>2. CASE Readable(b)
  <2> DEFINE from == convertTimeToMinutes(b.startTime)
             to == convertTimeToMinutes(b.endTime)
             counted == calculateInclusiveDays(b)
             due == Max({1, Cardinality(Days(b))})
  <2>1. from \in 0 .. FullDay - 1 /\ to \in 0 .. FullDay - 1
    BY <1>2, ClockTimes DEF Readable, TimeBlock
  <2>2. calculateTimeBlockMinutes(b) = Takes(to - from) * counted
    BY <1>2 DEF calculateTimeBlockMinutes, Takes
  <2>3. OnTheCalendar(b) = Takes(to - from) * due
    BY <1>2, <2>1, TakesIsTheOne DEF OnTheCalendar
  <2>4. Takes(to - from) \in Nat
    BY <2>1, TakesIsTheOne
  <2>5. counted \in Nat /\ due \in Nat /\ counted <= due /\ (b.drift >= 0 => counted = due)
    BY InclusiveDays
  <2> HIDE DEF from, to, counted, due
  <2> QED BY <2>2, <2>3, <2>4, <2>5, ProductGrows
<1> QED BY <1>1, <1>2

\* getAttendanceStats counts a class a day, and one more when the end of a block is
\* dated later in the day than its start.
LEMMA ClassesOfBlock ==
  ASSUME NEW b \in TimeBlock, InOrder(b)
  PROVE  /\ Cardinality(Days(b)) <= ClassDays(b)
         /\ ClassDays(b) <= Cardinality(Days(b)) + (IF b.later > 0 THEN 1 ELSE 0)
<1>1. CASE None \in {b.startDate, b.endDate}
  BY <1>1, NoDays DEF ClassDays
<1>2. CASE None \notin {b.startDate, b.endDate}
  <2> DEFINE d == b.endDate - b.startDate
             x == b.later
  <2>1. d \in Nat /\ x \in 1 - FullDay .. FullDay - 1
    BY <1>2, DaysCounted, ClockChanges DEF InOrder
  <2>2. ClassDays(b) = -((-(d * FullDay + x)) \div FullDay) + 1
    BY <1>2 DEF ClassDays
  <2>3. Cardinality(Days(b)) = d + 1
    BY <1>2, <2>1, DaysCounted
  <2> HIDE DEF d, x
  <2>4. -(d * FullDay + x) = (-d) * FullDay + (-x) /\ -d \in Int /\ -x \in Int
    BY <2>1 DEF FullDay
  <2>5. (-(d * FullDay + x)) \div FullDay = IF x > 0 THEN -d - 1 ELSE -d
    BY <2>1, <2>4, WholeDays DEF FullDay
  <2>6. ClassDays(b) = IF x > 0 THEN d + 2 ELSE d + 1
    BY <2>1, <2>2, <2>5
  <2> QED BY <2>1, <2>3, <2>6 DEF x
<1> QED BY <1>1, <1>2

\* The inductive invariant of the sums.
HourInv ==
  /\ lesson.minutes \in Nat /\ lesson.due \in Nat /\ lesson.short \in Nat
  /\ lesson.classes \in Int /\ lesson.days \in Nat /\ lesson.long \in Nat
  /\ lesson.minutes <= lesson.due
  /\ lesson.short = 0 => lesson.minutes = lesson.due
  /\ ClassesMatchTheCalendar

LEMMA CountsOfBlock ==
  ASSUME NEW b \in TimeBlock
  PROVE  ClassDays(b) \in Int /\ Cardinality(Days(b)) \in Nat /\ b.drift \in Int /\ b.later \in Int
<1>1. b.drift \in Int /\ b.later \in Int
  <2>1. \A n : n \in -60 .. 60 \/ n \in 1 - FullDay .. FullDay - 1 => n \in Int
    BY DEF FullDay
  <2> QED BY <2>1, ClockChanges
<1>2. CASE None \in {b.startDate, b.endDate}
  BY <1>1, <1>2, NoDays DEF ClassDays
<1>3. CASE None \notin {b.startDate, b.endDate}
  BY <1>1, <1>3, DaysCounted DEF ClassDays, FullDay
<1> QED BY <1>2, <1>3

LEMMA HoursOf ==
  ASSUME NEW m \in Nat
  PROVE  60 * totalHours(m) >= m /\ 60 * totalHours(m) < m + 60
<1>1. CASE m = 0
  BY <1>1 DEF totalHours
<1>2. CASE m > 0
  <2>1. (m + 59) \div 60 \in Int /\ (m + 59) \div 60 >= 1
    BY <1>2
  <2>2. totalHours(m) = (m + 59) \div 60
    BY <1>2, <2>1, MaxOfTwo DEF totalHours
  <2> QED BY <2>2
<1> QED BY <1>1, <1>2

LEMMA HoursCorrect == HourSpec => []HourInv
<1>1. HourInit => HourInv
  BY DEF HourInit, HourInv, NoLesson, ClassesMatchTheCalendar
<1>2. HourInv /\ [HourNext]_hourVars => HourInv'
  <2> SUFFICES ASSUME HourInv, [HourNext]_hourVars PROVE HourInv'
    OBVIOUS
  <2>1. CASE UNCHANGED lesson
    BY <2>1 DEF HourInv, ClassesMatchTheCalendar
  <2>2. ASSUME NEW b \in TimeBlock,
               lesson' = [minutes |-> lesson.minutes + calculateTimeBlockMinutes(b),
                  due |-> lesson.due + OnTheCalendar(b),
                  short |-> lesson.short + (IF b.drift < 0 THEN 1 ELSE 0),
                  blocks |-> lesson.blocks + 1,
                  classes |-> lesson.classes + ClassDays(b),
                  days |-> lesson.days + Cardinality(Days(b)),
                  long |-> lesson.long + (IF b.later > 0 THEN 1 ELSE 0),
                  ordered |-> lesson.ordered /\ InOrder(b)]
        PROVE  HourInv'
    <3>1. /\ lesson'.minutes \in Nat /\ lesson'.due \in Nat /\ lesson'.short \in Nat
          /\ lesson'.minutes <= lesson'.due
          /\ lesson'.short = 0 => lesson'.minutes = lesson'.due
      BY <2>2, MinutesOfBlock, CountsOfBlock DEF HourInv
    <3>2. lesson'.classes \in Int /\ lesson'.days \in Nat /\ lesson'.long \in Nat
      BY <2>2, CountsOfBlock DEF HourInv
    <3>3. ASSUME lesson'.ordered
          PROVE  lesson'.classes >= lesson'.days /\ lesson'.classes <= lesson'.days + lesson'.long
      <4>1. lesson.ordered /\ InOrder(b)
        BY <2>2, <3>3
      <4> QED BY <2>2, <4>1, ClassesOfBlock, CountsOfBlock DEF HourInv, ClassesMatchTheCalendar
    <3> QED BY <3>1, <3>2, <3>3 DEF HourInv, ClassesMatchTheCalendar
  <2> QED BY <2>1, <2>2 DEF HourNext, AddTimeBlock, hourVars, hourDocs
<1> QED BY <1>1, <1>2, PTL DEF HourSpec

\* calculateTimeBlockMinutes and totalHours agree with the clock and the calendar.
THEOREM HoursMatch == HourSpec => []HoursMatchTheCalendar
<1>1. HourInv => HoursMatchTheCalendar
  BY HoursOf DEF HourInv, HoursMatchTheCalendar
<1> QED BY <1>1, HoursCorrect, PTL

\* getAttendanceStats counts the days of blocks whose dates are in order.
THEOREM ClassesMatch == HourSpec => []ClassesMatchTheCalendar
<1>1. HourInv => ClassesMatchTheCalendar
  BY DEF HourInv
<1> QED BY <1>1, HoursCorrect, PTL
=============================================================================
