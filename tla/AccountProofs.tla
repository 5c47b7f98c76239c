---------------------------- MODULE AccountProofs ----------------------------
(***************************************************************************)
(* Theorems of Accounts for every set of calls, addresses, passwords and   *)
(* social accounts.  AccountInv says what a call in flight may rely on     *)
(* when it writes back a user it read earlier: what it takes along was     *)
(* confirmed, and a hash it sends again is that of a social account.       *)
(* LonelyInv says what it may rely on while no other call runs: the user   *)
(* is still the one it read, so a whole document written back changes only *)
(* what the call is about.                                                 *)
(***************************************************************************)
EXTENDS Accounts, TLAPS

-----------------------------------------------------------------------------
(* The invariant                                                           *)

\* The awaits before a call may store the user that is named after it.
Unborn == {"idle", "insert", "socialFind", "socialCreate"}

\* The user named u is stored or never will be.
Spent(u) == u \in Request => req[u].pc \notin Unborn

\* User u may become active: a link was followed, or it did not register itself.
Confirmed(u, links) == u \in UserId /\ (u \in links \/ (Spent(u) /\ ~users[u].self))

\* User u has provider x, or an operator has changed it since.
Placed(u, x) ==
  u \in UserId /\ Spent(u) /\ (users[u].exists => users[u].provider = x \/ users[u].moved)

Usable(user) ==
  user.provider = "email" /\ ~user.moved =>
    user.password \in Password \cup {None} /\ (user.self => user.password \in Password)

UserInv(u) ==
  users[u].exists =>
    /\ Spent(u)
    /\ users[u].self /\ users[u].status = "active" => u \in followed
    /\ Usable(users[u])

\* The awaits before a call that mails a link to a user.
Mailing == {"mailReset", "meEmail", "mailNewEmail"}

\* What may be written to user u by a call with operation op.
Carries(dto, u, op, links) ==
  /\ dto.status = "active" => op = "patchStatus" \/ Confirmed(u, links)
  /\ dto.provider # Keep => op = "patchProvider" \/ Placed(u, dto.provider)
  /\ IF dto.hashed THEN Placed(u, "social") ELSE dto.password \in Password \cup {Keep}

\* What a call with operation op relies on.
Claims(call, op, links) ==
  /\ call.pc \in Awaits => Carries(call.dto, call.user, op, links)
  /\ call.pc = "insert" =>
       /\ call.after # "session"
       /\ call.new.self => call.new.status # "active"
       /\ Usable(call.new)
  /\ call.pc \in {"socialFind", "socialCreate"} =>
       call.new.provider = "social" /\ ~call.new.self /\ call.new.social \in SocialId
  /\ call.pc \in Mailing =>
       call.user \in UserId /\ (call.pc # "mailReset" => call.new.email \in Email)
  /\ call.pc = "openSession" \/ call.after = "session" \/ call.known => call.user \in UserId

\* A call names sessions that were opened.
Names(r) == req[r].session # None => sessions[req[r].session].state # "none"

SessionInv(s) == sessions[s].state # "none" => At(s, "ok") /\ sessions[s].user \in UserId

AccountInv ==
  /\ TypeOK
  /\ \A u \in UserId : UserInv(u)
  /\ \A r \in Request : Claims(req[r], req[r].op, followed) /\ Names(r)
  /\ \A s \in Request : SessionInv(s)

-----------------------------------------------------------------------------
(* Types                                                                   *)

LEMMA DocTypes ==
  /\ NoUser \in User
  /\ NoChange \in UpdateDto
  /\ None \in UserId \cup {None}
BY DEF NoUser, User, NoChange, UpdateDto, RoleEnum, StatusEnum, Hash, Provider

\* Membership in Call, and Fresh with the fields that a handler sets.
LEMMA FreshType ==
  /\ Fresh \in Call
  /\ \A pc \in {"idle"} \cup Awaits \cup Replies : [Fresh EXCEPT !.pc = pc] \in Call
BY DocTypes DEF Fresh, Call

LEMMA AnswerIs ==
  ASSUME NEW code \in Replies
  PROVE  /\ Answer(code) \in Call /\ Answer(code).pc = code /\ Answer(code).session = None
         /\ Answer(code).dto = NoChange /\ Answer(code).after = "answer" /\ ~Answer(code).known
BY FreshType DEF Answer, Fresh

LEMMA OpeningIs ==
  ASSUME NEW u \in UserId \cup {None}
  PROVE  /\ Opening(u) \in Call /\ Opening(u).pc = "openSession" /\ Opening(u).session = None
         /\ Opening(u).dto = NoChange /\ Opening(u).user = u
BY FreshType DEF Opening, Fresh, Call, Awaits

LEMMA FirstReadIs ==
  ASSUME NEW dto
  PROVE  FirstRead(dto) \in {"updatePassword", "updateEmail", "updateWrite"}
BY DEF FirstRead, AfterPassword

LEMMA UpdatingIs ==
  ASSUME NEW u \in UserId \cup {None}, NEW dto \in UpdateDto, NEW after \in {"answer", "session"}
  PROVE  /\ Updating(u, dto, after) \in Call
         /\ Updating(u, dto, after).pc \in {"updatePassword", "updateEmail", "updateWrite"}
         /\ Updating(u, dto, after).user = u /\ Updating(u, dto, after).dto = dto
         /\ Updating(u, dto, after).after = after /\ Updating(u, dto, after).session = None
         /\ ~Updating(u, dto, after).known
<1> DEFINE pc == FirstRead(dto)
<1>1. pc \in {"updatePassword", "updateEmail", "updateWrite"}
  BY FirstReadIs
<1>2. Updating(u, dto, after) = [Fresh EXCEPT !.pc = pc, !.user = u, !.dto = dto, !.after = after]
  BY DEF Updating
<1> HIDE DEF pc
<1> QED BY <1>1, <1>2, FreshType DEF Fresh, Call, Awaits

LEMMA NamedIs ==
  ASSUME NEW call \in Call, NEW op \in Ops \cup {"none"}
  PROVE  /\ Named(call, op) \in Call
         /\ Named(call, op).pc = call.pc /\ Named(call, op).user = call.user
         /\ Named(call, op).dto = call.dto /\ Named(call, op).new = call.new
         /\ Named(call, op).known = call.known /\ Named(call, op).session = call.session
         /\ Named(call, op).after = call.after
         /\ call.pc \in Awaits => Named(call, op).op = op
<1> DEFINE name == IF call.pc \in Awaits THEN op ELSE "none"
<1>1. name \in Ops \cup {"none"}
  OBVIOUS
<1>2. Named(call, op) = [call EXCEPT !.op = name]
  BY DEF Named
<1>3. call.pc \in Awaits => name = op
  OBVIOUS
<1> HIDE DEF name
<1> QED BY <1>1, <1>2, <1>3 DEF Call

-----------------------------------------------------------------------------
(* Moves                                                                   *)

\* Call r goes on as call, which claims what it may, and does not go back behind the
\* point where its user may be stored.
Moves(r, call) ==
  /\ call \in Call
  /\ req[r].pc \in {"idle"} \cup Awaits
  /\ \E name \in Ops \cup {"none"} :
       /\ Claims(call, name, followed')
       /\ req' = [req EXCEPT ![r] = Named(call, name)]
  /\ req[r].pc \notin Unborn => call.pc \notin Unborn
  /\ overlapped' \in BOOLEAN
  /\ followed \subseteq followed' /\ followed' \subseteq UserId

LEMMA PcGroups ==
  /\ Awaits \cap Replies = {} /\ "idle" \notin Awaits \cup Replies
  /\ Unborn \subseteq {"idle"} \cup Awaits
  /\ {"ok", "error"} = Replies
BY DEF Awaits, Replies, Unborn

LEMMA ClaimsGrow ==
  ASSUME NEW call, NEW op, NEW old, NEW links, old \subseteq links, Claims(call, op, old)
  PROVE  Claims(call, op, links)
BY DEF Claims, Carries, Confirmed

LEMMA BeginsFollows ==
  ASSUME AccountInv, NEW r \in Request, NEW op, NEW call, Begins(r, op, call)
  PROVE  followed \subseteq followed' /\ followed' \subseteq UserId
BY DEF Begins, AccountInv, TypeOK

LEMMA BeginsMoves ==
  ASSUME AccountInv, NEW r \in Request, NEW op, NEW call \in Call, Begins(r, op, call),
         Claims(call, op, followed) \/ Claims(call, op, followed')
  PROVE  Moves(r, call)
<1>1. op \in Ops /\ req[r].pc = "idle" /\ overlapped' \in BOOLEAN
  BY DEF Begins, MayBegin, Overlaps, AccountInv, TypeOK
<1>2. followed \subseteq followed' /\ followed' \subseteq UserId
  BY BeginsFollows
<1>3. PICK old, links : old = followed /\ links = followed'
  OBVIOUS
<1>4. Claims(call, op, links)
  BY <1>2, <1>3, ClaimsGrow
<1> QED BY <1>1, <1>2, <1>3, <1>4 DEF Begins, Moves, Unborn

LEMMA BecomesMoves ==
  ASSUME AccountInv, NEW r \in Request, NEW call \in Call, Becomes(r, call), req[r].pc \in Awaits,
         Claims(call, req[r].op, followed),
         req[r].pc \notin Unborn => call.pc \notin Unborn
  PROVE  Moves(r, call)
<1>1. req[r].op \in Ops \cup {"none"} /\ overlapped' \in BOOLEAN
  BY DEF Becomes, AccountInv, TypeOK, Call
<1>2. followed' = followed /\ followed \subseteq UserId
  BY DEF Becomes, AccountInv, TypeOK
<1> QED BY <1>1, <1>2 DEF Becomes, Moves

\* A body that changes nothing that is claimed may be written by any call.
LEMMA QuietCarries ==
  ASSUME NEW dto, dto.status # "active", dto.provider = Keep, ~dto.hashed,
         dto.password \in Password \cup {Keep},
         NEW u, NEW op, NEW links
  PROVE  Carries(dto, u, op, links)
BY DEF Carries

LEMMA NoChangeCarries ==
  ASSUME NEW u, NEW op, NEW links
  PROVE  Carries(NoChange, u, op, links)
<1>1. /\ NoChange.status # "active" /\ NoChange.provider = Keep /\ ~NoChange.hashed
      /\ NoChange.password \in Password \cup {Keep}
  BY AccountAssumption DEF NoChange
<1> QED BY <1>1, QuietCarries

LEMMA AnswerClaims ==
  ASSUME NEW code \in Replies, NEW op, NEW links
  PROVE  Claims(Answer(code), op, links)
<1>1. code \notin Awaits \cup Unborn
  BY PcGroups
<1>2. code \notin {"insert", "socialFind", "socialCreate", "openSession"} \cup Mailing
  BY DEF Replies, Mailing
<1> QED BY <1>1, <1>2, AnswerIs, NoChangeCarries DEF Claims

LEMMA OpeningClaims ==
  ASSUME NEW u \in UserId, NEW op, NEW links
  PROVE  Claims(Opening(u), op, links)
BY OpeningIs, NoChangeCarries DEF Claims, Mailing

\* An update claims only what it writes.
LEMMA UpdatingClaims ==
  ASSUME NEW u \in UserId \cup {None}, NEW dto \in UpdateDto, NEW after \in {"answer", "session"},
         NEW op, NEW links, Carries(dto, u, op, links),
         after = "session" => u \in UserId
  PROVE  Claims(Updating(u, dto, after), op, links)
<1> DEFINE call == Updating(u, dto, after)
<1>1. /\ call.pc \in {"updatePassword", "updateEmail", "updateWrite"}
      /\ call.user = u /\ call.dto = dto /\ call.after = after /\ call.session = None /\ ~call.known
  BY UpdatingIs
<1> HIDE DEF call
<1>2. Claims(call, op, links)
  BY <1>1 DEF Claims, Mailing
<1> QED BY <1>2 DEF call

\* What a claim needs of users and links is not taken back.
Stays(links) ==
  \A u \in UserId :
    /\ Confirmed(u, links) => Confirmed(u, followed)'
    /\ \A x \in Provider : Placed(u, x) => Placed(u, x)'

LEMMA ClaimsStay ==
  ASSUME NEW call \in Call, NEW op, NEW links, Claims(call, op, links), Stays(links)
  PROVE  Claims(call, op, followed)'
<1>1. call.dto.provider \in Provider \cup {Keep} /\ "social" \in Provider
  BY DEF Call, UpdateDto, Provider
<1>2. \A u : Confirmed(u, links) => Confirmed(u, followed)'
  BY DEF Stays, Confirmed
<1>3. \A u : \A x \in Provider : Placed(u, x) => Placed(u, x)'
  BY DEF Stays, Placed
<1>4. ASSUME NEW dto, NEW u, dto.provider \in Provider \cup {Keep}, Carries(dto, u, op, links)
      PROVE  Carries(dto, u, op, followed)'
  BY <1>1, <1>2, <1>3, <1>4 DEF Carries
<1>5. call.pc \in Awaits => Carries(call.dto, call.user, op, followed)'
  BY <1>1, <1>4 DEF Claims
<1> QED BY <1>5 DEF Claims, Usable

LEMMA MoveStays ==
  ASSUME AccountInv, NEW r \in Request, NEW call, Moves(r, call),
         \A u \in UserId : Spent(u) =>
           /\ users'[u].self => users[u].self
           /\ users'[u].exists =>
                /\ users[u].exists /\ (users[u].moved => users'[u].moved)
                /\ users'[u].provider = users[u].provider \/ users'[u].moved
  PROVE  /\ \A u \in UserId : Spent(u) => Spent(u)'
         /\ Stays(followed) /\ Stays(followed')
<1>1. PICK name \in Ops \cup {"none"} : req' = [req EXCEPT ![r] = Named(call, name)]
  BY DEF Moves
<1>2. Named(call, name).pc = call.pc
  BY NamedIs DEF Moves
<1>3. req \in [Request -> Call]
  BY DEF AccountInv, TypeOK
<1>4. req'[r].pc = call.pc /\ \A q \in Request \ {r} : req'[q] = req[q]
  BY <1>1, <1>2, <1>3
<1>5. \A u \in UserId : Spent(u) => Spent(u)'
  BY <1>4 DEF Spent, Moves
<1>6. \A u \in UserId : \A x \in Provider : Placed(u, x) => Placed(u, x)'
  BY <1>5 DEF Placed
<1>7. \A u \in UserId : \/ Confirmed(u, followed) => Confirmed(u, followed)'
  BY <1>5 DEF Confirmed, Moves
<1>8. \A u \in UserId : \/ Confirmed(u, followed') => Confirmed(u, followed)'
  BY <1>5 DEF Confirmed
<1> QED BY <1>5, <1>6, <1>7, <1>8 DEF Stays

LEMMA AccountMove ==
  ASSUME AccountInv, NEW r \in Request, NEW call, Moves(r, call),
         users' \in [UserId -> User], sessions' \in [Request -> Session],
         confirmLinks' \subseteq UserId \X (Email \cup {Keep}), resetLinks' \subseteq UserId,
         \A u \in UserId : Spent(u) =>
           /\ users'[u].self => users[u].self
           /\ users'[u].exists =>
                /\ users[u].exists /\ (users[u].moved => users'[u].moved)
                /\ users'[u].provider = users[u].provider \/ users'[u].moved,
         \A u \in UserId : users'[u] = users[u] \/ UserInv(u)',
         \A s \in Request : /\ sessions'[s] = sessions[s] \/ SessionInv(s)'
                            /\ sessions[s].state # "none" => sessions'[s].state # "none",
         call.session # None => sessions'[call.session].state # "none"
  PROVE  AccountInv'
<1>0. PICK name \in Ops \cup {"none"} :
        /\ Claims(call, name, followed')
        /\ req' = [req EXCEPT ![r] = Named(call, name)]
  BY DEF Moves
<1> DEFINE now == Named(call, name)
<1>1. /\ now \in Call /\ now.pc = call.pc /\ now.user = call.user /\ now.dto = call.dto
      /\ now.new = call.new /\ now.known = call.known /\ now.session = call.session
      /\ now.after = call.after /\ (call.pc \in Awaits => now.op = name)
  BY <1>0, NamedIs DEF Moves
<1>2. req \in [Request -> Call]
  BY DEF AccountInv, TypeOK
<1>3. req' = [req EXCEPT ![r] = now]
  BY <1>0
<1> HIDE DEF now
<1>4. req'[r] = now /\ req' \in [Request -> Call] /\ \A q \in Request \ {r} : req'[q] = req[q]
  BY <1>1, <1>2, <1>3
<1>5. TypeOK'
  BY <1>4 DEF TypeOK, Moves
<1>6. /\ \A u \in UserId : Spent(u) => Spent(u)'
      /\ Stays(followed) /\ Stays(followed')
  BY MoveStays
<1>7. ASSUME NEW u \in UserId, users'[u] = users[u]
      PROVE  UserInv(u)'
  BY <1>6, <1>7 DEF AccountInv, UserInv, Usable, Moves
<1>8. ASSUME NEW q \in Request \ {r}
      PROVE  Claims(req[q], req[q].op, followed)' /\ Names(q)'
  <2>1. PICK c, op, old : c = req[q] /\ op = req[q].op /\ old = followed
    OBVIOUS
  <2>2. c \in Call /\ Claims(c, op, old) /\ Stays(old)
    BY <1>2, <1>6, <2>1 DEF AccountInv
  <2>3. Claims(c, op, followed)'
    BY <2>2, ClaimsStay
  <2>4. req'[q] = c /\ req'[q].op = op
    BY <1>4, <2>1
  <2>5. Claims(req[q], req[q].op, followed)'
    BY <2>3, <2>4 DEF Claims, Carries, Placed, Confirmed, Usable
  <2>6. req[q].session \in Request \cup {None} /\ Names(q)
    BY <1>2 DEF AccountInv, Call
  <2> QED BY <1>4, <2>5, <2>6 DEF Names
<1>9. Claims(req[r], req[r].op, followed)' /\ Names(r)'
  <2>1. PICK links : links = followed'
    OBVIOUS
  <2>2. call \in Call /\ Claims(call, name, links) /\ Stays(links)
    BY <1>0, <1>6, <2>1 DEF Moves
  <2>3. Claims(call, name, followed)'
    BY <2>2, ClaimsStay
  <2>4. Claims(now, now.op, followed)'
    BY <1>1, <2>3 DEF Claims, Carries, Placed, Confirmed, Usable
  <2>5. Claims(req[r], req[r].op, followed)'
    BY <1>4, <2>4 DEF Claims, Carries, Placed, Confirmed, Usable
  <2> QED BY <1>1, <1>4, <2>5 DEF Names
<1>10. ASSUME NEW s \in Request, sessions'[s] = sessions[s]
       PROVE  SessionInv(s)'
  <2>1. SessionInv(s) /\ (s = r => req[r].pc # "ok")
    BY PcGroups DEF AccountInv, Moves
  <2> QED BY <1>4, <1>10, <2>1 DEF SessionInv, At
<1> QED BY <1>5, <1>7, <1>8, <1>9, <1>10 DEF AccountInv

-----------------------------------------------------------------------------
(* Calls that read and go on                                               *)

\* Call r moves without being given a session.
Goes(r) ==
  \E call :
    /\ Moves(r, call)
    /\ call.pc = "ok" => call.session = None
    /\ call.session # None => sessions[call.session].state # "none"

LEMMA GoesWithout ==
  ASSUME NEW r, NEW call, Moves(r, call), call.session = None
  PROVE  Goes(r)
BY DEF Goes

LEMMA AnswerGoes ==
  ASSUME AccountInv, NEW r \in Request, NEW code \in Replies,
         \/ \E op : Begins(r, op, Answer(code))
         \/ Becomes(r, Answer(code)) /\ req[r].pc \in Awaits
  PROVE  Goes(r)
<1>1. Answer(code) \in Call /\ Answer(code).session = None /\ Answer(code).pc \notin Unborn
  BY AnswerIs, PcGroups DEF Replies, Unborn
<1>2. \A op : Claims(Answer(code), op, followed)
  BY AnswerClaims
<1>3. Moves(r, Answer(code))
  BY <1>1, <1>2, BeginsMoves, BecomesMoves
<1> QED BY <1>1, <1>3, GoesWithout

LEMMA OpeningGoes ==
  ASSUME AccountInv, NEW r \in Request, NEW u \in UserId,
         \/ \E op : Begins(r, op, Opening(u))
         \/ Becomes(r, Opening(u)) /\ req[r].pc \in Awaits
  PROVE  Goes(r)
<1>1. Opening(u) \in Call /\ Opening(u).session = None /\ Opening(u).pc \notin Unborn
  BY OpeningIs DEF Unborn
<1>2. \A op : Claims(Opening(u), op, followed)
  BY OpeningClaims
<1>3. Moves(r, Opening(u))
  BY <1>1, <1>2, BeginsMoves, BecomesMoves
<1> QED BY <1>1, <1>3, GoesWithout

LEMMA UpdatingGoes ==
  ASSUME AccountInv, NEW r \in Request, NEW u \in UserId \cup {None}, NEW dto \in UpdateDto,
         NEW after \in {"answer", "session"}, NEW op,
         after = "session" => u \in UserId,
         \/ /\ Begins(r, op, Updating(u, dto, after))
            /\ Carries(dto, u, op, followed) \/ Carries(dto, u, op, followed')
         \/ /\ Becomes(r, Updating(u, dto, after)) /\ req[r].pc \in Awaits /\ op = req[r].op
            /\ Carries(dto, u, op, followed)
  PROVE  Goes(r)
<1> DEFINE call == Updating(u, dto, after)
<1>1. call \in Call /\ call.session = None
      /\ call.pc \in {"updatePassword", "updateEmail", "updateWrite"}
  BY UpdatingIs
<1>2. PICK old, links : old = followed /\ links = followed'
  OBVIOUS
<1>3. /\ Carries(dto, u, op, old) => Claims(call, op, old)
      /\ Carries(dto, u, op, links) => Claims(call, op, links)
  BY UpdatingClaims
<1> HIDE DEF call
<1>4. call.pc \notin Unborn
  BY <1>1 DEF Unborn
<1>5. \/ Begins(r, op, call) /\ (Claims(call, op, followed) \/ Claims(call, op, followed'))
      \/ Becomes(r, call) /\ req[r].pc \in Awaits /\ op = req[r].op /\ Claims(call, op, followed)
  BY <1>2, <1>3 DEF call
<1>6. Moves(r, call)
  BY <1>1, <1>4, <1>5, BeginsMoves, BecomesMoves
<1> QED BY <1>1, <1>6, GoesWithout

LEMMA WholeIs ==
  ASSUME AccountInv, NEW u \in UserId
  PROVE  /\ Whole(u) \in UpdateDto /\ Whole(u).status = users[u].status
         /\ ~Whole(u).hashed /\ Whole(u).password = Keep
         /\ Whole(u).provider = users[u].provider
BY DocTypes DEF Whole, NoChange, UpdateDto, AccountInv, TypeOK, User, Hash, RoleEnum, StatusEnum

LEMMA ActiveIsConfirmed ==
  ASSUME AccountInv, NEW u \in UserId, users[u].exists, users[u].status = "active"
  PROVE  Confirmed(u, followed)
<1>1. UserInv(u)
  BY DEF AccountInv
<1> QED BY <1>1 DEF UserInv, Confirmed

\* A document read and written back carries the provider it was read with.
LEMMA WholeCarries ==
  ASSUME AccountInv, NEW u \in UserId, users[u].exists, NEW dto, NEW op, NEW links,
         dto.provider = users[u].provider, ~dto.hashed, dto.password \in Password \cup {Keep},
         dto.status = "active" => Confirmed(u, links)
  PROVE  Carries(dto, u, op, links)
<1>1. Spent(u)
  BY DEF AccountInv, UserInv
<1> QED BY <1>1 DEF Carries, Placed

\* A call that goes on, having perhaps mailed a link.
LEMMA QuietMove ==
  ASSUME AccountInv, NEW r \in Request, Goes(r), UNCHANGED <<users, sessions>>,
         confirmLinks' \subseteq UserId \X (Email \cup {Keep}), resetLinks' \subseteq UserId
  PROVE  AccountInv'
<1>1. PICK call :
        /\ Moves(r, call)
        /\ call.session # None => sessions[call.session].state # "none"
  BY DEF Goes
<1>2. TypeOK
  BY DEF AccountInv
<1> QED BY <1>1, <1>2, AccountMove DEF TypeOK

LEMMA CreatingGoes ==
  ASSUME AccountInv, NEW r \in Request, NEW call \in Call, NEW user \in User,
         NEW after \in {"answer", "mail", "reload"}, NEW op,
         user.self => user.status # "active",
         Usable(user), Carries(call.dto, call.user, op, followed),
         call.known => call.user \in UserId,
         call.session # None => sessions[call.session].state # "none",
         \/ Begins(r, op, Creating(call, user, after))
         \/ Becomes(r, Creating(call, user, after)) /\ req[r].pc \in Awaits \cap Unborn /\ op = req[r].op
  PROVE  Goes(r)
<1>1. CASE Creating(call, user, after) = Answer("error")
  BY <1>1, AnswerGoes, PcGroups
<1>2. CASE Creating(call, user, after) = [call EXCEPT !.pc = "insert", !.new = user, !.after = after]
  <2> DEFINE new == [call EXCEPT !.pc = "insert", !.new = user, !.after = after]
  <2>1. /\ new \in Call /\ new.pc = "insert" /\ new.new = user /\ new.after = after
        /\ new.session = call.session /\ new.dto = call.dto /\ new.user = call.user /\ new.known = call.known
    BY DEF Call, Awaits
  <2> HIDE DEF new
  <2>2. Claims(new, op, followed)
    BY <2>1 DEF Claims, Mailing
  <2>3. \/ Begins(r, op, new)
        \/ Becomes(r, new) /\ req[r].pc \in Awaits \cap Unborn /\ op = req[r].op
    BY <1>2 DEF new
  <2>4. Moves(r, new)
    BY <2>1, <2>2, <2>3, BeginsMoves, BecomesMoves
  <2> QED BY <2>1, <2>4 DEF Goes
<1> QED BY <1>1, <1>2 DEF Creating

\* A new call has nothing to write back.
LEMMA FreshIs ==
  /\ Fresh \in Call /\ Fresh.session = None /\ ~Fresh.known /\ Fresh.after = "answer"
  /\ Fresh.dto = NoChange
BY FreshType DEF Fresh

\* The same, at an await where nothing is claimed of the new user.
LEMMA FreshGoes ==
  ASSUME AccountInv, NEW r \in Request, NEW op, NEW call \in Call, Begins(r, op, call),
         call.pc \notin {"insert", "socialFind", "socialCreate", "openSession"},
         call.pc \in Mailing =>
           call.user \in UserId /\ (call.pc # "mailReset" => call.new.email \in Email),
         Carries(call.dto, call.user, op, followed),
         ~call.known, call.after = "answer",
         call.session # None => sessions[call.session].state # "none",
         call.pc # "ok"
  PROVE  Goes(r)
<1>1. Claims(call, op, followed)
  BY DEF Claims
<1> QED BY <1>1, BeginsMoves DEF Goes

-----------------------------------------------------------------------------
(* users.service: the reads                                                *)

LEMMA FromBodyIs ==
  ASSUME NEW body \in UserBody
  PROVE  FromBody(body) \in User /\ ~FromBody(body).self /\ Usable(FromBody(body))
<1>1. /\ body.email \in Email /\ body.password \in Password \cup {None} /\ body.provider \in Provider
      /\ body.social \in SocialId \cup {None} /\ body.role \in RoleEnum /\ body.status \in StatusEnum
  BY BodyAssumption
<1>2. FromBody(body) \in User /\ ~FromBody(body).self /\ FromBody(body).password = body.password
  BY <1>1, DocTypes DEF FromBody, NoUser, User, Hash
<1> QED BY <1>1, <1>2 DEF Usable

LEMMA CreateUserGoes ==
  ASSUME AccountInv, NEW r \in Request, CreateUser(r)
  PROVE  Goes(r)
<1>1. PICK user \in User :
        /\ ~user.self /\ Usable(user)
        /\ Begins(r, "createUser", Creating(Fresh, user, "answer"))
  BY FromBodyIs DEF CreateUser
<1> QED BY <1>1, FreshIs, NoChangeCarries, CreatingGoes

LEMMA PatchUserGoes ==
  ASSUME AccountInv, NEW r \in Request, PatchUser(r)
  PROVE  Goes(r)
<1> DEFINE Patches == {"patchEmail", "patchPassword", "patchRole", "patchStatus", "patchProvider",
                       "patchUnknown"}
           Fine(dto, op) ==
             /\ dto.status = "active" => op = "patchStatus"
             /\ dto.provider # Keep => op = "patchProvider"
             /\ ~dto.hashed /\ dto.password \in Password \cup {Keep}
<1>1. PICK u \in UserId, dto \in UpdateDto, op \in Patches : Patch(r, op, u, dto) /\ Fine(dto, op)
  <2>1. PICK u \in UserId :
          \/ \E e \in Email : Patch(r, "patchEmail", u, [NoChange EXCEPT !.email = e])
          \/ \E p \in Password : Patch(r, "patchPassword", u, [NoChange EXCEPT !.password = p])
          \/ \E x \in RoleEnum : Patch(r, "patchRole", u, [NoChange EXCEPT !.role = x])
          \/ \E s \in StatusEnum : Patch(r, "patchStatus", u, [NoChange EXCEPT !.status = s])
          \/ \E body \in UserBody :
               Patch(r, "patchProvider", u,
                     [NoChange EXCEPT !.provider = body.provider, !.social = body.social])
          \/ Patch(r, "patchUnknown", u, [NoChange EXCEPT !.valid = FALSE])
    BY DEF PatchUser
  <2>2. \A e \in Email : /\ [NoChange EXCEPT !.email = e] \in UpdateDto
                         /\ Fine([NoChange EXCEPT !.email = e], "patchEmail")
    BY AccountAssumption DEF NoChange, UpdateDto
  <2>3. \A p \in Password : /\ [NoChange EXCEPT !.password = p] \in UpdateDto
                            /\ Fine([NoChange EXCEPT !.password = p], "patchPassword")
    BY AccountAssumption DEF NoChange, UpdateDto, Hash
  <2>4. \A x \in RoleEnum : /\ [NoChange EXCEPT !.role = x] \in UpdateDto
                            /\ Fine([NoChange EXCEPT !.role = x], "patchRole")
    BY AccountAssumption DEF NoChange, UpdateDto
  <2>5. \A x \in StatusEnum : /\ [NoChange EXCEPT !.status = x] \in UpdateDto
                              /\ Fine([NoChange EXCEPT !.status = x], "patchStatus")
    BY AccountAssumption DEF NoChange, UpdateDto
  <2>6. \A x \in Provider, g \in SocialId \cup {None} :
          /\ [NoChange EXCEPT !.provider = x, !.social = g] \in UpdateDto
          /\ Fine([NoChange EXCEPT !.provider = x, !.social = g], "patchProvider")
    BY AccountAssumption DEF NoChange, UpdateDto
  <2>7. /\ [NoChange EXCEPT !.valid = FALSE] \in UpdateDto
        /\ Fine([NoChange EXCEPT !.valid = FALSE], "patchUnknown")
    BY AccountAssumption DEF NoChange, UpdateDto
  <2>8. \A body \in UserBody : body.provider \in Provider /\ body.social \in SocialId \cup {None}
    BY BodyAssumption
  <2> HIDE DEF Fine
  <2> QED BY <2>1, <2>2, <2>3, <2>4, <2>5, <2>6, <2>7, <2>8
<1>2. Begins(r, op, Updating(u, dto, "answer"))
  BY <1>1 DEF Patch
<1>3. Carries(dto, u, op, followed)
  BY <1>1 DEF Carries
<1> QED BY <1>1, <1>2, <1>3, UpdatingGoes

LEMMA HashPasswordGoes ==
  ASSUME AccountInv, NEW r \in Request, HashPassword(r)
  PROVE  Goes(r)
<1>0. req[r] \in Call /\ req[r].pc = "updatePassword" /\ Claims(req[r], req[r].op, followed) /\ Names(r)
  BY DEF HashPassword, At, AccountInv, TypeOK
<1>1. PICK stored, pc :
        /\ stored = IF ~users[req[r].user].exists
                         \/ (req[r].dto.hashed /\ users[req[r].user].password = req[r].dto.password)
                    THEN Keep
                    ELSE IF req[r].dto.hashed THEN "scrambled" ELSE req[r].dto.password
        /\ pc \in {"updateEmail", "updateWrite"}
        /\ Becomes(r, [req[r] EXCEPT !.dto.password = stored, !.pc = pc])
  BY DEF HashPassword, AfterPassword
<1>2. stored \in Hash \cup {Keep} /\ (~req[r].dto.hashed => stored \in Password \cup {Keep})
  BY <1>0, <1>1 DEF Claims, Carries, Awaits, Call, UpdateDto, Hash
<1> DEFINE dto == [req[r].dto EXCEPT !.password = stored]
<1>3. /\ dto \in UpdateDto /\ dto.password = stored /\ dto.hashed = req[r].dto.hashed
      /\ dto.status = req[r].dto.status /\ dto.provider = req[r].dto.provider
  BY <1>0, <1>2 DEF Call, UpdateDto
<1>4. Becomes(r, [req[r] EXCEPT !.dto = dto, !.pc = pc])
  BY <1>1
<1> HIDE DEF dto
<1> DEFINE call == [req[r] EXCEPT !.dto = dto, !.pc = pc]
<1>5. /\ call \in Call /\ call.pc = pc /\ call.dto = dto /\ call.user = req[r].user
      /\ call.after = req[r].after /\ call.known = req[r].known /\ call.session = req[r].session
  BY <1>0, <1>1, <1>3 DEF Call, Awaits
<1>6. Becomes(r, call)
  BY <1>4
<1> HIDE DEF call
<1>7. Claims(call, req[r].op, followed)
  BY <1>0, <1>1, <1>2, <1>3, <1>5 DEF Claims, Carries, Awaits, Mailing
<1>8. req[r].pc \in Awaits /\ call.pc \notin Unborn /\ call.pc # "ok"
  BY <1>0, <1>1, <1>5 DEF Awaits, Unborn
<1> QED BY <1>0, <1>5, <1>6, <1>7, <1>8, BecomesMoves DEF Goes, Names

\* A call that goes on to its next await with its locals as they are.
LEMMA AwaitGoes ==
  ASSUME AccountInv, NEW r \in Request, req[r].pc \in Awaits \ Unborn,
         NEW pc \in Awaits \ (Unborn \cup {"openSession"}),
         pc \in Mailing => req[r].pc \in Mailing \ {"mailReset"},
         Becomes(r, [req[r] EXCEPT !.pc = pc])
  PROVE  Goes(r)
<1>0. req[r] \in Call /\ Claims(req[r], req[r].op, followed) /\ Names(r)
  BY DEF AccountInv, TypeOK
<1> DEFINE call == [req[r] EXCEPT !.pc = pc]
<1>1. /\ call \in Call /\ call.pc = pc /\ call.dto = req[r].dto /\ call.user = req[r].user
      /\ call.after = req[r].after /\ call.known = req[r].known /\ call.session = req[r].session
      /\ call.new = req[r].new
  BY <1>0 DEF Call
<1> HIDE DEF call
<1>2. Claims(call, req[r].op, followed)
  BY <1>0, <1>1 DEF Claims, Unborn
<1>3. Becomes(r, call)
  BY DEF call
<1>4. call.pc # "ok"
  BY <1>1, PcGroups
<1> QED BY <1>0, <1>1, <1>2, <1>3, <1>4, BecomesMoves DEF Goes, Names

LEMMA FindEmailOwnerGoes ==
  ASSUME AccountInv, NEW r \in Request, FindEmailOwner(r)
  PROVE  Goes(r)
<1>1. /\ req[r].pc \in Awaits \ Unborn /\ "updateWrite" \in Awaits \ (Unborn \cup {"openSession"})
      /\ "updateWrite" \notin Mailing
  BY DEF FindEmailOwner, At, Awaits, Unborn, Mailing
<1>2. Becomes(r, Answer("error")) \/ Becomes(r, [req[r] EXCEPT !.pc = "updateWrite"])
  BY DEF FindEmailOwner
<1> QED BY <1>1, <1>2, AnswerGoes, AwaitGoes, PcGroups

-----------------------------------------------------------------------------
(* auth.service: the reads                                                 *)

LEMMA LoginGoes ==
  ASSUME AccountInv, NEW r \in Request, Login(r)
  PROVE  Goes(r)
<1>1. \/ Begins(r, "login", Answer("error"))
      \/ \E u \in UserId : Begins(r, "login", Opening(u))
  BY DEF Login, WithEmail
<1> QED BY <1>1, AnswerGoes, OpeningGoes, PcGroups

LEMMA SocialUserIs ==
  ASSUME NEW profile \in Profile
  PROVE  /\ SocialUser(profile) \in User /\ SocialUser(profile).provider = "social"
         /\ ~SocialUser(profile).self /\ SocialUser(profile).social \in SocialId
BY DocTypes DEF SocialUser, Profile, NoUser, User, Provider, StatusEnum

\* The awaits of a social login.
LEMMA SocialClaims ==
  ASSUME NEW call \in Call, NEW op, call.pc \in {"socialFind", "socialCreate"},
         call.new.provider = "social", ~call.new.self, call.new.social \in SocialId,
         call.dto = NoChange, call.after = "answer", call.known => call.user \in UserId
  PROVE  Claims(call, op, followed)
BY NoChangeCarries DEF Claims, Mailing

LEMMA SocialLoginGoes ==
  ASSUME AccountInv, NEW r \in Request, SocialLogin(r)
  PROVE  Goes(r)
<1>1. PICK profile \in Profile :
        LET e == profile.email
            call == [Fresh EXCEPT !.pc = "socialFind", !.new = SocialUser(profile)]
        IN IF e = None \/ WithEmail(e) = {} THEN Begins(r, "social", call)
           ELSE \E u \in WithEmail(e) :
                  Begins(r, "social", [call EXCEPT !.user = u, !.known = TRUE])
  BY DEF SocialLogin
<1> DEFINE call == [Fresh EXCEPT !.pc = "socialFind", !.new = SocialUser(profile)]
<1>2. /\ call \in Call /\ call.pc = "socialFind" /\ call.new = SocialUser(profile)
      /\ ~call.known /\ call.session = None /\ call.dto = Fresh.dto /\ call.after = "answer"
  BY FreshIs, SocialUserIs DEF Call, Awaits
<1>3. Begins(r, "social", call) \/ \E u \in UserId : Begins(r, "social", [call EXCEPT !.user = u, !.known = TRUE])
  BY <1>1 DEF WithEmail
<1> HIDE DEF call
<1>4. CASE Begins(r, "social", call)
  <2>1. Claims(call, "social", followed)
    BY <1>2, FreshIs, SocialUserIs, SocialClaims
  <2> QED BY <1>2, <1>4, <2>1, BeginsMoves, GoesWithout
<1>5. ASSUME NEW u \in UserId, Begins(r, "social", [call EXCEPT !.user = u, !.known = TRUE])
      PROVE  Goes(r)
  <2> DEFINE found == [call EXCEPT !.user = u, !.known = TRUE]
  <2>1. /\ found \in Call /\ found.pc = "socialFind" /\ found.new = SocialUser(profile)
        /\ found.user = u /\ found.session = None /\ found.dto = Fresh.dto
        /\ found.after = "answer"
    BY <1>2 DEF Call
  <2>2. Begins(r, "social", found)
    BY <1>5
  <2> HIDE DEF found
  <2>3. Claims(found, "social", followed)
    BY <2>1, FreshIs, SocialUserIs, SocialClaims
  <2> QED BY <2>1, <2>2, <2>3, BeginsMoves, GoesWithout
<1> QED BY <1>3, <1>4, <1>5

\* What a social login finds by the id of the account is a social user.
LEMMA FoundIsSocial ==
  ASSUME AccountInv, NEW id, NEW u \in WithSocial(id)
  PROVE  u \in UserId /\ users[u].exists /\ Placed(u, "social")
<1>1. u \in UserId /\ users[u].exists /\ users[u].provider = "social"
  BY DEF WithSocial
<1>2. UserInv(u)
  BY <1>1 DEF AccountInv
<1> QED BY <1>1, <1>2 DEF UserInv, Placed

LEMMA FindSocialGoes ==
  ASSUME AccountInv, NEW r \in Request, FindSocial(r)
  PROVE  Goes(r)
<1>0. req[r] \in Call /\ req[r].pc = "socialFind" /\ Claims(req[r], req[r].op, followed) /\ Names(r)
  BY DEF FindSocial, At, AccountInv, TypeOK
<1>1. req[r].new.social \in SocialId /\ req[r].pc \in Awaits \cap Unborn
  BY <1>0 DEF Claims, Awaits, Unborn
<1> DEFINE dto(u) ==
      [Whole(u) EXCEPT
         !.email = IF req[r].new.email # None /\ ~req[r].known THEN req[r].new.email ELSE @,
         !.password = IF users[u].password = None THEN Keep ELSE users[u].password,
         !.hashed = TRUE]
<1>2. \/ \E u \in WithSocial(req[r].new.social) : Becomes(r, Updating(u, dto(u), "session"))
      \/ req[r].known /\ Becomes(r, Opening(req[r].user))
      \/ Becomes(r, [req[r] EXCEPT !.pc = "socialCreate"])
  BY DEF FindSocial
<1>3. ASSUME NEW u \in WithSocial(req[r].new.social), Becomes(r, Updating(u, dto(u), "session"))
      PROVE  Goes(r)
  <2>1. u \in UserId /\ users[u].exists /\ Placed(u, "social") /\ users[u].provider = "social"
    BY <1>1, FoundIsSocial DEF WithSocial
  <2>2. PICK email, password : /\ email \in Email \cup {None, Keep}
                               /\ password \in Hash \cup {Keep}
                               /\ dto(u) = [Whole(u) EXCEPT !.email = email, !.password = password, !.hashed = TRUE]
    <3>1. users[u].password \in Hash /\ req[r].new.email \in Email \cup {None}
      BY <1>0, <2>1 DEF AccountInv, TypeOK, User, Call
    <3>2. Whole(u).email \in Email \cup {None, Keep}
      BY <2>1, WholeIs DEF UpdateDto
    <3> QED BY <3>1, <3>2
  <2> DEFINE whole == [Whole(u) EXCEPT !.email = email, !.password = password, !.hashed = TRUE]
  <2>3. /\ whole \in UpdateDto /\ whole.hashed /\ whole.status = users[u].status
        /\ whole.provider = users[u].provider
    BY <2>1, <2>2, WholeIs DEF UpdateDto
  <2>4. Becomes(r, Updating(u, whole, "session"))
    BY <1>3, <2>2
  <2> HIDE DEF whole, dto
  <2>5. whole.status = "active" => Confirmed(u, followed)
    BY <2>1, <2>3, ActiveIsConfirmed
  <2>6. Carries(whole, u, req[r].op, followed)
    BY <2>1, <2>3, <2>5 DEF Carries
  <2> QED BY <1>1, <2>1, <2>3, <2>4, <2>6, UpdatingGoes
<1>4. CASE req[r].known /\ Becomes(r, Opening(req[r].user))
  BY <1>0, <1>1, <1>4, OpeningGoes DEF Claims
<1>5. CASE Becomes(r, [req[r] EXCEPT !.pc = "socialCreate"])
  <2> DEFINE call == [req[r] EXCEPT !.pc = "socialCreate"]
  <2>1. /\ call \in Call /\ call.pc = "socialCreate" /\ call.dto = req[r].dto /\ call.user = req[r].user
        /\ call.after = req[r].after /\ call.known = req[r].known /\ call.session = req[r].session
        /\ call.new = req[r].new
    BY <1>0 DEF Call, Awaits
  <2>2. Becomes(r, call)
    BY <1>5
  <2> HIDE DEF call
  <2>3. Claims(call, req[r].op, followed)
    BY <1>0, <2>1 DEF Claims, Awaits, Mailing
  <2>4. call.pc # "ok" /\ req[r].pc \in Unborn
    BY <1>1, <2>1
  <2> QED BY <1>0, <1>1, <2>1, <2>2, <2>3, <2>4, BecomesMoves DEF Goes, Names
<1> HIDE DEF dto
<1> QED BY <1>2, <1>3, <1>4, <1>5

LEMMA CreateSocialGoes ==
  ASSUME AccountInv, NEW r \in Request, CreateSocial(r)
  PROVE  Goes(r)
<1>0. req[r] \in Call /\ req[r].pc = "socialCreate" /\ Claims(req[r], req[r].op, followed) /\ Names(r)
  BY DEF CreateSocial, At, AccountInv, TypeOK
<1>1. req[r].pc \in Awaits \cap Unborn
  BY <1>0 DEF Awaits, Unborn
<1>2. req[r].new \in User /\ req[r].new.provider = "social" /\ ~req[r].new.self
  BY <1>0 DEF Claims, Call
<1>3. /\ Carries(req[r].dto, req[r].user, req[r].op, followed) /\ Usable(req[r].new)
      /\ req[r].known => req[r].user \in UserId
  BY <1>0, <1>1, <1>2 DEF Claims, Usable
<1>4. Becomes(r, Creating(req[r], req[r].new, "reload"))
  BY DEF CreateSocial
<1> QED BY <1>0, <1>1, <1>2, <1>3, <1>4, CreatingGoes DEF Names

LEMMA ReloadUserGoes ==
  ASSUME AccountInv, NEW r \in Request, ReloadUser(r)
  PROVE  Goes(r)
<1>1. req[r].pc \in Awaits /\ r \in UserId
  BY DEF ReloadUser, At, Awaits, UserId
<1>2. Becomes(r, Opening(r)) \/ Becomes(r, Answer("error"))
  BY DEF ReloadUser
<1> QED BY <1>1, <1>2, OpeningGoes, AnswerGoes, PcGroups

LEMMA RegisterGoes ==
  ASSUME AccountInv, NEW r \in Request, Register(r)
  PROVE  Goes(r)
<1>1. PICK e \in Email, p \in Password :
        Begins(r, "register",
          Creating(Fresh, [NoUser EXCEPT !.self = TRUE, !.email = e, !.password = p], "mail"))
  BY DEF Register
<1> DEFINE user == [NoUser EXCEPT !.self = TRUE, !.email = e, !.password = p]
<1>2. user \in User /\ user.password \in Password /\ user.status # "active"
  BY DocTypes DEF NoUser, User, Hash
<1>3. Begins(r, "register", Creating(Fresh, user, "mail"))
  BY <1>1
<1> HIDE DEF user
<1>4. Usable(user)
  BY <1>2 DEF Usable
<1> QED BY <1>2, <1>3, <1>4, FreshIs, NoChangeCarries, CreatingGoes

LEMMA LinkIs ==
  ASSUME AccountInv, NEW link \in confirmLinks
  PROVE  link[1] \in UserId /\ link[2] \in Email \cup {Keep}
<1>1. link \in UserId \X (Email \cup {Keep})
  BY DEF AccountInv, TypeOK
<1> QED BY <1>1

\* Whoever follows a link for a user has it written active.
LEMMA FollowingGoes ==
  ASSUME AccountInv, NEW r \in Request, NEW op \in Confirming, NEW u \in UserId, users[u].exists,
         NEW dto \in UpdateDto, ~dto.hashed, dto.password = Keep, dto.provider = users[u].provider,
         Begins(r, op, Updating(u, dto, "answer"))
  PROVE  Goes(r)
<1>1. Updating(u, dto, "answer").user = u
  BY UpdatingIs
<1>2. u \in followed'
  BY <1>1 DEF Begins
<1>3. PICK links : links = followed'
  OBVIOUS
<1>4. Confirmed(u, links)
  BY <1>2, <1>3 DEF Confirmed
<1>5. Carries(dto, u, op, links)
  BY <1>4, WholeCarries
<1> QED BY <1>3, <1>5, UpdatingGoes

LEMMA ConfirmEmailGoes ==
  ASSUME AccountInv, NEW r \in Request, ConfirmEmail(r)
  PROVE  Goes(r)
<1>1. PICK link \in confirmLinks :
        \/ /\ users[link[1]].exists
           /\ Begins(r, "confirm", Updating(link[1], [Whole(link[1]) EXCEPT !.status = "active"], "answer"))
        \/ Begins(r, "confirm", Answer("error"))
  BY DEF ConfirmEmail
<1>2. PICK u : u = link[1]
  OBVIOUS
<1>3. u \in UserId /\ "confirm" \in Confirming
  BY <1>2, LinkIs DEF Confirming
<1> DEFINE whole == [Whole(u) EXCEPT !.status = "active"]
<1>4. /\ whole \in UpdateDto /\ ~whole.hashed /\ whole.password = Keep
      /\ whole.provider = users[u].provider
  BY <1>3, WholeIs DEF UpdateDto, StatusEnum
<1>5. \/ users[u].exists /\ Begins(r, "confirm", Updating(u, whole, "answer"))
      \/ Begins(r, "confirm", Answer("error"))
  BY <1>1, <1>2
<1> HIDE DEF whole
<1> QED BY <1>3, <1>4, <1>5, FollowingGoes, AnswerGoes, PcGroups

LEMMA ConfirmNewEmailGoes ==
  ASSUME AccountInv, NEW r \in Request, ConfirmNewEmail(r)
  PROVE  Goes(r)
<1>1. PICK link \in confirmLinks :
        \/ /\ users[link[1]].exists
           /\ Begins(r, "confirmNew",
                Updating(link[1], [Whole(link[1]) EXCEPT !.status = "active", !.email = link[2]], "answer"))
        \/ Begins(r, "confirmNew", Answer("error"))
  BY DEF ConfirmNewEmail
<1>2. PICK u, e : u = link[1] /\ e = link[2]
  OBVIOUS
<1>3. u \in UserId /\ e \in Email \cup {Keep} /\ "confirmNew" \in Confirming
  BY <1>2, LinkIs DEF Confirming
<1> DEFINE whole == [Whole(u) EXCEPT !.status = "active", !.email = e]
<1>4. /\ whole \in UpdateDto /\ ~whole.hashed /\ whole.password = Keep
      /\ whole.provider = users[u].provider
  BY <1>3, WholeIs DEF UpdateDto, StatusEnum
<1>5. \/ users[u].exists /\ Begins(r, "confirmNew", Updating(u, whole, "answer"))
      \/ Begins(r, "confirmNew", Answer("error"))
  BY <1>1, <1>2
<1> HIDE DEF whole
<1> QED BY <1>3, <1>4, <1>5, FollowingGoes, AnswerGoes, PcGroups

LEMMA ForgotPasswordGoes ==
  ASSUME AccountInv, NEW r \in Request, ForgotPassword(r)
  PROVE  Goes(r)
<1>1. \/ Begins(r, "forgot", Answer("error"))
      \/ \E u \in UserId : Begins(r, "forgot", [Fresh EXCEPT !.pc = "mailReset", !.user = u])
  BY DEF ForgotPassword, WithEmail
<1>2. ASSUME NEW u \in UserId, Begins(r, "forgot", [Fresh EXCEPT !.pc = "mailReset", !.user = u])
      PROVE  Goes(r)
  <2> DEFINE call == [Fresh EXCEPT !.pc = "mailReset", !.user = u]
  <2>1. /\ call \in Call /\ call.pc = "mailReset" /\ call.dto = Fresh.dto /\ ~call.known
        /\ call.after = "answer" /\ call.session = None
        /\ call.user = u
    BY FreshIs DEF Call, Awaits
  <2>2. Begins(r, "forgot", call)
    BY <1>2
  <2> HIDE DEF call
  <2> QED BY <2>1, <2>2, FreshIs, NoChangeCarries, FreshGoes
<1> QED BY <1>1, <1>2, AnswerGoes, PcGroups

LEMMA ResetPasswordGoes ==
  ASSUME AccountInv, NEW r \in Request, ResetPassword(r)
  PROVE  Goes(r)
<1>1. PICK u \in resetLinks, p \in Password :
        Begins(r, "reset",
          IF users[u].exists
          THEN [Fresh EXCEPT !.pc = "endSessions", !.user = u, !.dto = [Whole(u) EXCEPT !.password = p]]
          ELSE Answer("error"))
  BY DEF ResetPassword
<1>2. u \in UserId
  BY DEF AccountInv, TypeOK
<1>3. CASE users[u].exists
  <2> DEFINE whole == [Whole(u) EXCEPT !.password = p]
  <2>1. /\ whole \in UpdateDto /\ ~whole.hashed /\ whole.password \in Password
        /\ whole.status = users[u].status /\ whole.provider = users[u].provider
    BY <1>2, WholeIs DEF UpdateDto, Hash
  <2>2. Begins(r, "reset", [Fresh EXCEPT !.pc = "endSessions", !.user = u, !.dto = whole])
    BY <1>1, <1>3
  <2> HIDE DEF whole
  <2> DEFINE call == [Fresh EXCEPT !.pc = "endSessions", !.user = u, !.dto = whole]
  <2>3. /\ call \in Call /\ call.pc = "endSessions" /\ call.dto = whole /\ ~call.known
        /\ call.after = "answer" /\ call.session = None /\ call.user = u
    BY <1>2, <2>1, FreshIs DEF Call, Awaits
  <2>4. Begins(r, "reset", call)
    BY <2>2
  <2> HIDE DEF call
  <2>5. whole.status = "active" => Confirmed(u, followed)
    BY <1>2, <1>3, <2>1, ActiveIsConfirmed
  <2>6. Carries(whole, u, "reset", followed)
    BY <1>2, <1>3, <2>1, <2>5, WholeCarries
  <2> QED BY <2>1, <2>3, <2>4, <2>6, FreshGoes DEF Mailing
<1> QED BY <1>1, <1>3, AnswerGoes, PcGroups

\* A session a caller was answered with is that of a user.
LEMMA HeldIsOwned ==
  ASSUME AccountInv, NEW s \in AccessTokens
  PROVE  s \in Request /\ sessions[s].state # "none" /\ sessions[s].user \in UserId
<1>1. PICK r \in Request : s = req[r].session /\ s # None
  BY DEF AccessTokens
<1>2. req[r].session \in Request \cup {None} /\ Names(r)
  BY DEF AccountInv, TypeOK, Call
<1>3. SessionInv(s)
  BY <1>1, <1>2 DEF AccountInv
<1> QED BY <1>1, <1>2, <1>3 DEF Names, SessionInv

LEMMA UpdateMeGoes ==
  ASSUME AccountInv, NEW r \in Request, UpdateMe(r)
  PROVE  Goes(r)
<1>1. PICK s \in AccessTokens, e \in Email \cup {Keep}, password \in BOOLEAN, valid \in BOOLEAN :
        LET u == sessions[s].user
            dto == [NoChange EXCEPT !.valid = valid]
        IN Begins(r, "updateMe",
             IF ~users[u].exists \/ password THEN Answer("error")
             ELSE IF e \in {Keep, users[u].email} THEN Updating(u, dto, "answer")
             ELSE [Fresh EXCEPT !.pc = "meEmail", !.user = u, !.new.email = e, !.dto = dto])
  BY DEF UpdateMe
<1>2. PICK u : u = sessions[s].user
  OBVIOUS
<1>3. u \in UserId
  BY <1>2, HeldIsOwned
<1> DEFINE dto == [NoChange EXCEPT !.valid = valid]
           user == [NoUser EXCEPT !.email = e]
<1>4. dto \in UpdateDto /\ Carries(dto, u, "updateMe", followed)
  <2>1. /\ dto \in UpdateDto /\ ~dto.hashed /\ dto.password = Keep /\ dto.status # "active"
        /\ dto.provider = Keep
    BY DocTypes, AccountAssumption DEF NoChange, UpdateDto
  <2> HIDE DEF dto
  <2> QED BY <2>1, QuietCarries
<1>5. Begins(r, "updateMe",
        IF ~users[u].exists \/ password THEN Answer("error")
        ELSE IF e \in {Keep, users[u].email} THEN Updating(u, dto, "answer")
        ELSE [Fresh EXCEPT !.pc = "meEmail", !.user = u, !.new.email = e, !.dto = dto])
  BY <1>1, <1>2
<1> HIDE DEF dto
<1>6. CASE Begins(r, "updateMe", Updating(u, dto, "answer"))
  BY <1>3, <1>4, <1>6, UpdatingGoes
<1>7. CASE /\ e \in Email
           /\ Begins(r, "updateMe", [Fresh EXCEPT !.pc = "meEmail", !.user = u, !.new.email = e, !.dto = dto])
  <2>1. [Fresh EXCEPT !.pc = "meEmail", !.user = u, !.new.email = e, !.dto = dto]
          = [Fresh EXCEPT !.pc = "meEmail", !.user = u, !.new = user, !.dto = dto]
    BY DEF Fresh
  <2>2. user \in User /\ user.email \in Email
    BY <1>7, DocTypes DEF User
  <2> HIDE DEF user
  <2> DEFINE call == [Fresh EXCEPT !.pc = "meEmail", !.user = u, !.new = user, !.dto = dto]
  <2>3. /\ call \in Call /\ call.pc = "meEmail" /\ call.dto = dto /\ ~call.known
        /\ call.user = u /\ call.new = user
        /\ call.after = "answer" /\ call.session = None
    BY <1>3, <1>4, <2>2, FreshIs DEF Call, Awaits
  <2>4. Begins(r, "updateMe", call)
    BY <1>7, <2>1
  <2> HIDE DEF call
  <2> QED BY <1>3, <1>4, <2>2, <2>3, <2>4, FreshGoes
<1> QED BY <1>5, <1>6, <1>7, AnswerGoes, PcGroups

LEMMA FindNewEmailGoes ==
  ASSUME AccountInv, NEW r \in Request, FindNewEmail(r)
  PROVE  Goes(r)
<1>1. /\ req[r].pc \in Awaits \ Unborn /\ "mailNewEmail" \in Awaits \ (Unborn \cup {"openSession"})
      /\ req[r].pc \in Mailing \ {"mailReset"}
  BY DEF FindNewEmail, At, Awaits, Unborn, Mailing
<1>2. Becomes(r, Answer("error")) \/ Becomes(r, [req[r] EXCEPT !.pc = "mailNewEmail"])
  BY DEF FindNewEmail
<1> QED BY <1>1, <1>2, AnswerGoes, AwaitGoes, PcGroups

LEMMA RefreshGoes ==
  ASSUME AccountInv, NEW r \in Request, Refresh(r)
  PROVE  Goes(r)
<1>1. PICK token \in RefreshTokens :
        \/ /\ sessions[token[1]].state = "open"
           /\ Begins(r, "refresh", [Fresh EXCEPT !.pc = "refreshUser", !.user = sessions[token[1]].user,
                                                 !.session = token[1]])
        \/ Begins(r, "refresh", Answer("error"))
  BY DEF Refresh
<1>2. PICK s, u : s = token[1] /\ u = sessions[s].user
  OBVIOUS
<1>3. s \in AccessTokens
  BY <1>2 DEF RefreshTokens, AccessTokens
<1>4. s \in Request /\ sessions[s].state # "none" /\ u \in UserId
  BY <1>2, <1>3, HeldIsOwned
<1>5. CASE Begins(r, "refresh", [Fresh EXCEPT !.pc = "refreshUser", !.user = u, !.session = s])
  <2> DEFINE call == [Fresh EXCEPT !.pc = "refreshUser", !.user = u, !.session = s]
  <2>1. /\ call \in Call /\ call.pc = "refreshUser" /\ call.dto = Fresh.dto /\ ~call.known
        /\ call.after = "answer" /\ call.session = s /\ call.pc \notin Mailing
    BY <1>4, FreshIs DEF Call, Awaits, Mailing
  <2>2. Begins(r, "refresh", call)
    BY <1>5
  <2> HIDE DEF call
  <2> QED BY <1>4, <2>1, <2>2, FreshIs, NoChangeCarries, FreshGoes
<1> QED BY <1>1, <1>2, <1>5, AnswerGoes, PcGroups

LEMMA RefreshUserGoes ==
  ASSUME AccountInv, NEW r \in Request, RefreshUser(r)
  PROVE  Goes(r)
<1>1. /\ req[r].pc \in Awaits \ Unborn /\ "refreshWrite" \in Awaits \ (Unborn \cup {"openSession"})
      /\ "refreshWrite" \notin Mailing
  BY DEF RefreshUser, At, Awaits, Unborn, Mailing
<1>2. Becomes(r, Answer("error")) \/ Becomes(r, [req[r] EXCEPT !.pc = "refreshWrite"])
  BY DEF RefreshUser
<1> QED BY <1>1, <1>2, AnswerGoes, AwaitGoes, PcGroups

\* Every read: users, sessions and links stay.
Reads(r) ==
  \/ CreateUser(r) \/ PatchUser(r) \/ HashPassword(r) \/ FindEmailOwner(r)
  \/ Login(r) \/ SocialLogin(r) \/ SocialRefused(r) \/ FindSocial(r) \/ CreateSocial(r)
  \/ ReloadUser(r) \/ Register(r) \/ ConfirmEmail(r) \/ ConfirmNewEmail(r) \/ ForgotPassword(r)
  \/ ResetPassword(r) \/ UpdateMe(r) \/ FindNewEmail(r) \/ Refresh(r) \/ RefreshUser(r)

LEMMA ReadsGo ==
  ASSUME AccountInv, NEW r \in Request, Reads(r)
  PROVE  Goes(r) /\ UNCHANGED docs
<1>1. SocialRefused(r) => Goes(r)
  BY AnswerGoes, PcGroups DEF SocialRefused
<1>2. Goes(r)
  BY <1>1, CreateUserGoes, PatchUserGoes, HashPasswordGoes, FindEmailOwnerGoes, LoginGoes,
     SocialLoginGoes, FindSocialGoes, CreateSocialGoes, ReloadUserGoes, RegisterGoes,
     ConfirmEmailGoes, ConfirmNewEmailGoes, ForgotPasswordGoes, ResetPasswordGoes, UpdateMeGoes,
     FindNewEmailGoes, RefreshGoes, RefreshUserGoes DEF Reads
<1>3. ASSUME PatchUser(r) PROVE UNCHANGED docs
  BY <1>3 DEF PatchUser, Patch
<1>4. UNCHANGED docs
  BY <1>3 DEF Reads, CreateUser, HashPassword, FindEmailOwner, Login, SocialLogin, SocialRefused,
     FindSocial, CreateSocial, ReloadUser, Register, ConfirmEmail, ConfirmNewEmail, ForgotPassword,
     ResetPassword, UpdateMe, FindNewEmail, Refresh, RefreshUser
<1> QED BY <1>2, <1>4

LEMMA ReadsKeep ==
  ASSUME AccountInv, NEW r \in Request, Reads(r)
  PROVE  AccountInv'
<1>1. Goes(r) /\ UNCHANGED docs
  BY ReadsGo
<1> QED BY <1>1, QuietMove DEF docs, AccountInv, TypeOK

-----------------------------------------------------------------------------
(* The mailed links                                                        *)

LEMMA MailConfirmGoes ==
  ASSUME AccountInv, NEW r \in Request, MailConfirm(r)
  PROVE  Goes(r) /\ AccountInv'
<1>1. req[r].pc \in Awaits /\ r \in UserId
  BY DEF MailConfirm, At, Awaits, UserId
<1>2. Becomes(r, Opening(r)) \/ Becomes(r, Answer("error"))
  BY DEF MailConfirm
<1>3. Goes(r)
  BY <1>1, <1>2, OpeningGoes, AnswerGoes, PcGroups
<1>4. /\ UNCHANGED <<users, sessions, resetLinks>>
      /\ confirmLinks' = confirmLinks \/ confirmLinks' = confirmLinks \cup {<<r, Keep>>}
  BY DEF MailConfirm, userSignUp, sendMail
<1> QED BY <1>1, <1>3, <1>4, QuietMove DEF AccountInv, TypeOK

LEMMA MailResetGoes ==
  ASSUME AccountInv, NEW r \in Request, MailReset(r)
  PROVE  Goes(r) /\ AccountInv'
<1>1. req[r].pc \in Awaits /\ req[r].pc = "mailReset" /\ Claims(req[r], req[r].op, followed)
  BY DEF MailReset, At, Awaits, AccountInv
<1>2. Becomes(r, Answer("ok")) \/ Becomes(r, Answer("error"))
  BY DEF MailReset
<1>3. Goes(r)
  BY <1>1, <1>2, AnswerGoes, PcGroups
<1>4. /\ UNCHANGED <<users, sessions, confirmLinks>>
      /\ resetLinks' = resetLinks \/ resetLinks' = resetLinks \cup {req[r].user}
  BY DEF MailReset, forgotPassword, sendMail
<1>5. req[r].user \in UserId
  BY <1>1 DEF Claims, Mailing
<1> QED BY <1>1, <1>3, <1>4, <1>5, QuietMove DEF AccountInv, TypeOK

LEMMA MailNewEmailGoes ==
  ASSUME AccountInv, NEW r \in Request, MailNewEmail(r)
  PROVE  Goes(r) /\ AccountInv'
<1>1. req[r].pc \in Awaits /\ req[r].pc = "mailNewEmail" /\ Claims(req[r], req[r].op, followed) /\ req[r] \in Call
  BY DEF MailNewEmail, At, Awaits, AccountInv, TypeOK
<1>2. \/ Becomes(r, Updating(req[r].user, req[r].dto, "answer"))
      \/ Becomes(r, Answer("error"))
  BY DEF MailNewEmail
<1>3. /\ req[r].user \in UserId \cup {None} /\ req[r].dto \in UpdateDto
      /\ Carries(req[r].dto, req[r].user, req[r].op, followed)
  BY <1>1 DEF Claims, Call
<1>4. Goes(r)
  BY <1>1, <1>2, <1>3, UpdatingGoes, AnswerGoes, PcGroups
<1>5. /\ UNCHANGED <<users, sessions, resetLinks>>
      /\ confirmLinks' = confirmLinks \/ confirmLinks' = confirmLinks \cup {<<req[r].user, req[r].new.email>>}
  BY DEF MailNewEmail, confirmNewEmail, sendMail
<1>6. req[r].user \in UserId /\ req[r].new.email \in Email
  BY <1>1 DEF Claims, Mailing
<1> QED BY <1>1, <1>4, <1>5, <1>6, QuietMove DEF AccountInv, TypeOK

-----------------------------------------------------------------------------
(* The writes of users                                                     *)

\* What follows the insertion of a user.
LEMMA InsertedMoves ==
  ASSUME AccountInv, NEW r \in Request, req[r].pc = "insert",
         Becomes(r, CASE req[r].after = "answer" -> Answer("ok")
                      [] req[r].after = "mail"   -> [Fresh EXCEPT !.pc = "mailConfirm", !.user = r]
                      [] req[r].after = "reload" -> [Fresh EXCEPT !.pc = "reload", !.user = r])
  PROVE  \E call : Moves(r, call) /\ call.session = None /\ call.pc \notin Unborn
<1>1. req[r] \in Call /\ Claims(req[r], req[r].op, followed) /\ req[r].pc \in Awaits
  BY DEF AccountInv, TypeOK, Awaits
<1>2. req[r].after \in {"answer", "mail", "reload"}
  BY <1>1 DEF Call, Claims
<1>3. CASE Becomes(r, Answer("ok"))
  <2>1. Answer("ok") \in Call /\ Answer("ok").session = None /\ Answer("ok").pc \notin Unborn
    BY AnswerIs DEF Replies, Unborn
  <2>2. Claims(Answer("ok"), req[r].op, followed)
    BY AnswerClaims, PcGroups
  <2> QED BY <1>1, <1>3, <2>1, <2>2, BecomesMoves
<1>4. ASSUME NEW pc \in {"mailConfirm", "reload"}, Becomes(r, [Fresh EXCEPT !.pc = pc, !.user = r])
      PROVE  \E call : Moves(r, call) /\ call.session = None /\ call.pc \notin Unborn
  <2> DEFINE call == [Fresh EXCEPT !.pc = pc, !.user = r]
  <2>1. /\ call \in Call /\ call.pc = pc /\ call.session = None /\ call.dto = Fresh.dto
        /\ ~call.known /\ call.after = "answer"
    BY FreshIs DEF Call, Awaits, UserId
  <2>2. Becomes(r, call)
    BY <1>4
  <2> HIDE DEF call
  <2>3. Claims(call, req[r].op, followed)
    BY <2>1, FreshIs, NoChangeCarries DEF Claims, Mailing
  <2>4. call.pc \notin Unborn
    BY <2>1 DEF Unborn
  <2> QED BY <1>1, <2>1, <2>2, <2>3, <2>4, BecomesMoves
<1> QED BY <1>2, <1>3, <1>4

LEMMA InsertUserKeeps ==
  ASSUME AccountInv, NEW r \in Request, InsertUser(r)
  PROVE  Goes(r) /\ AccountInv'
<1>0. req[r].pc = "insert" /\ req[r] \in Call /\ Claims(req[r], req[r].op, followed) /\ r \in UserId
  BY DEF InsertUser, At, AccountInv, TypeOK, UserId
<1>1. CASE Becomes(r, Answer("error")) /\ UNCHANGED users
  <2>1. Goes(r)
    BY <1>0, <1>1, AnswerGoes, PcGroups DEF Awaits
  <2> QED BY <1>1, <2>1, QuietMove DEF InsertUser, AccountInv, TypeOK
<1>2. CASE /\ users' = [users EXCEPT ![r] = [req[r].new EXCEPT !.exists = TRUE]]
           /\ Becomes(r, CASE req[r].after = "answer" -> Answer("ok")
                           [] req[r].after = "mail"   -> [Fresh EXCEPT !.pc = "mailConfirm", !.user = r]
                           [] req[r].after = "reload" -> [Fresh EXCEPT !.pc = "reload", !.user = r])
  <2>1. PICK call : Moves(r, call) /\ call.session = None /\ call.pc \notin Unborn
    BY <1>0, <1>2, InsertedMoves
  <2>2. PICK new : new = req[r].new
    OBVIOUS
  <2>3. /\ new \in User
        /\ new.self => new.status # "active"
        /\ Usable(new)
    BY <1>0, <2>2 DEF Claims, Call
  <2> DEFINE stored == [new EXCEPT !.exists = TRUE]
  <2>4. /\ stored \in User /\ stored.self = new.self /\ stored.status = new.status
        /\ stored.provider = new.provider /\ stored.password = new.password
        /\ stored.moved = new.moved
    BY <2>3 DEF User
  <2>5. users' = [users EXCEPT ![r] = stored]
    BY <1>2, <2>2
  <2> HIDE DEF stored
  <2>6. /\ users' \in [UserId -> User] /\ users'[r] = stored
        /\ \A u \in UserId \ {r} : users'[u] = users[u]
    BY <1>0, <2>4, <2>5 DEF AccountInv, TypeOK
  <2>7. ~Spent(r)
    BY <1>0 DEF Spent, Unborn
  <2>8. Spent(r)'
    <3>1. PICK name \in Ops \cup {"none"} : req' = [req EXCEPT ![r] = Named(call, name)]
      BY <2>1 DEF Moves
    <3>2. Named(call, name).pc = call.pc /\ req \in [Request -> Call]
      BY <2>1, NamedIs DEF Moves, AccountInv, TypeOK
    <3>3. req'[r].pc = call.pc
      BY <3>1, <3>2
    <3> QED BY <2>1, <3>3 DEF Spent
  <2>9. UserInv(r)'
    BY <2>3, <2>4, <2>6, <2>8 DEF UserInv, Usable
  <2>10. UNCHANGED <<sessions, confirmLinks, resetLinks>>
    BY DEF InsertUser
  <2>11. AccountInv'
    BY <2>1, <2>6, <2>7, <2>9, <2>10, AccountMove DEF AccountInv, TypeOK
  <2>12. Goes(r)
    BY <2>1, GoesWithout
  <2> QED BY <2>11, <2>12
<1> QED BY <1>1, <1>2 DEF InsertUser

\* What a document written back makes of the one that is stored.
LEMMA UpdatedIs ==
  ASSUME NEW user \in User, NEW dto \in UpdateDto, NEW op
  PROVE  LET new == Updated(user, dto, op) IN
         /\ new \in User /\ new.exists = user.exists
         /\ new.self <=> user.self /\ op # "patchStatus"
         /\ new.moved <=> user.moved \/ (op = "patchProvider" /\ dto.provider # user.provider)
         /\ new.status = (IF dto.status = Keep THEN user.status ELSE dto.status)
         /\ new.password = (IF dto.password = Keep THEN user.password ELSE dto.password)
         /\ new.provider = (IF dto.provider = Keep THEN user.provider ELSE dto.provider)
<1> DEFINE self == user.self /\ op # "patchStatus"
           moved == user.moved \/ (op = "patchProvider" /\ dto.provider # user.provider)
           email == Given(dto.email, user.email)
           password == Given(dto.password, user.password)
           role == Given(dto.role, user.role)
           status == Given(dto.status, user.status)
           provider == Given(dto.provider, user.provider)
           social == Given(dto.social, user.social)
<1>1. /\ self \in BOOLEAN /\ (self <=> user.self /\ op # "patchStatus")
      /\ moved \in BOOLEAN
      /\ moved <=> user.moved \/ (op = "patchProvider" /\ dto.provider # user.provider)
  BY DEF User
<1>2. /\ email \in Email \cup {None} /\ password \in Hash /\ role \in RoleEnum
      /\ status \in StatusEnum /\ provider \in Provider /\ social \in SocialId \cup {None}
  BY DEF Given, User, UpdateDto
<1>3. /\ status = (IF dto.status = Keep THEN user.status ELSE dto.status)
      /\ password = (IF dto.password = Keep THEN user.password ELSE dto.password)
      /\ provider = (IF dto.provider = Keep THEN user.provider ELSE dto.provider)
  BY DEF Given
<1>4. Updated(user, dto, op) =
        [user EXCEPT !.self = self, !.moved = moved, !.email = email, !.password = password,
                     !.role = role, !.status = status, !.provider = provider, !.social = social]
  BY DEF Updated
<1> HIDE DEF self, moved, email, password, role, status, provider, social
<1> QED BY <1>1, <1>2, <1>3, <1>4 DEF User

LEMMA DoneGoes ==
  ASSUME AccountInv, NEW r \in Request, req[r].pc \in Awaits, Becomes(r, Done(r))
  PROVE  \E call : Moves(r, call) /\ call.session = None
<1>1. Claims(req[r], req[r].op, followed)
  BY DEF AccountInv
<1>2. CASE Becomes(r, Answer("ok"))
  <2>1. /\ Answer("ok") \in Call /\ Answer("ok").session = None /\ Answer("ok").pc \notin Unborn
        /\ Claims(Answer("ok"), req[r].op, followed)
    BY AnswerIs, AnswerClaims DEF Replies, Unborn
  <2> QED BY <1>2, <2>1, BecomesMoves
<1>3. CASE req[r].after = "session" /\ Becomes(r, Opening(req[r].user))
  <2>1. PICK u : u = req[r].user
    OBVIOUS
  <2>2. u \in UserId
    BY <1>1, <1>3, <2>1 DEF Claims
  <2>3. /\ Opening(u) \in Call /\ Opening(u).session = None /\ Opening(u).pc \notin Unborn
        /\ Claims(Opening(u), req[r].op, followed)
    BY <2>2, OpeningIs, OpeningClaims DEF Unborn
  <2> QED BY <1>3, <2>1, <2>3, BecomesMoves
<1> QED BY <1>2, <1>3 DEF Done

LEMMA WriteUserKeeps ==
  ASSUME AccountInv, NEW r \in Request, WriteUser(r)
  PROVE  Goes(r) /\ AccountInv'
<1>0. req[r].pc = "updateWrite" /\ req[r] \in Call /\ Claims(req[r], req[r].op, followed) /\ req[r].pc \in Awaits
  BY DEF WriteUser, At, AccountInv, TypeOK, Awaits
<1>1. CASE Becomes(r, Answer("error")) /\ UNCHANGED users
  <2>1. Goes(r)
    BY <1>0, <1>1, AnswerGoes, PcGroups
  <2> QED BY <1>1, <2>1, QuietMove DEF WriteUser, AccountInv, TypeOK
<1>2. PICK u, dto, op : u = req[r].user /\ dto = req[r].dto /\ op = req[r].op
  OBVIOUS
<1>3. CASE /\ users' = [users EXCEPT ![u] = IF @.exists THEN Updated(@, dto, op) ELSE @]
           /\ Becomes(r, Done(r))
  <2>1. PICK call : Moves(r, call) /\ call.session = None
    BY <1>0, <1>3, DoneGoes
  <2>2. users \in [UserId -> User] /\ dto \in UpdateDto
    BY <1>0, <1>2 DEF AccountInv, TypeOK, Call
  <2>3. \A v \in UserId : users'[v] = IF v = u /\ users[v].exists THEN Updated(users[v], dto, op) ELSE users[v]
    BY <1>3, <2>2
  <2>4. users' = [v \in UserId |-> users'[v]]
    BY <1>3, <2>2
  <2>5. \A v \in UserId : users'[v] \in User
    BY <2>2, <2>3, UpdatedIs
  <2>6. users' \in [UserId -> User]
    BY <2>4, <2>5
  <2>7. Carries(dto, u, op, followed)
    BY <1>0, <1>2 DEF Claims
  <2>8. \A v \in UserId : Spent(v) =>
          /\ users'[v].self => users[v].self
          /\ users'[v].exists =>
               /\ users[v].exists /\ (users[v].moved => users'[v].moved)
               /\ users'[v].provider = users[v].provider \/ users'[v].moved
    <3>1. ASSUME NEW v \in UserId, v = u, users[v].exists
          PROVE  /\ users'[v].self => users[v].self
                 /\ users[v].moved => users'[v].moved
                 /\ users'[v].provider = users[v].provider \/ users'[v].moved
      <4>1. users'[v] = Updated(users[v], dto, op) /\ users[v] \in User
        BY <2>2, <2>3, <3>1
      <4>2. \/ dto.provider \in {Keep, users[v].provider} \/ users[v].moved
            \/ op = "patchProvider" /\ dto.provider # users[v].provider
        BY <2>7, <3>1 DEF Carries, Placed
      <4> QED BY <2>2, <4>1, <4>2, UpdatedIs
    <3> QED BY <2>3, <3>1
  <2>9. /\ \A v \in UserId : Spent(v) => Spent(v)'
        /\ followed \subseteq followed'
    BY <2>1, <2>8, MoveStays DEF Moves
  <2>10. ASSUME u \in UserId, users[u].exists
         PROVE  UserInv(u)'
    <3>1. UserInv(u) /\ users'[u] = Updated(users[u], dto, op) /\ users[u] \in User
      BY <2>2, <2>3, <2>10 DEF AccountInv
    <3>2. ASSUME users'[u].self, users'[u].status = "active"
          PROVE  u \in followed'
      <4>1. users[u].self /\ op # "patchStatus"
        BY <2>2, <3>1, <3>2, UpdatedIs
      <4>2. users[u].status = "active" \/ dto.status = "active"
        BY <2>2, <3>1, <3>2, UpdatedIs
      <4>3. u \in followed
        BY <2>7, <2>10, <3>1, <4>1, <4>2 DEF UserInv, Carries, Confirmed
      <4> QED BY <2>9, <4>3
    <3>3. Usable(users'[u])
      <4>1. SUFFICES ASSUME users'[u].provider = "email", ~users'[u].moved
                     PROVE  /\ users'[u].password \in Password \cup {None}
                            /\ users'[u].self => users'[u].password \in Password
        BY DEF Usable
      <4>2. users[u].provider = "email" /\ ~users[u].moved
        BY <2>8, <2>10, <3>1, <4>1, <2>2, UpdatedIs DEF UserInv
      <4>3. dto.password \in Password \cup {Keep}
        BY <2>7, <2>10, <4>2 DEF Carries, Placed
      <4>4. /\ users[u].password \in Password \cup {None}
            /\ users[u].self => users[u].password \in Password
        BY <2>10, <3>1, <4>2 DEF UserInv, Usable
      <4>5. users'[u].self => users[u].self
        BY <2>2, <3>1, UpdatedIs
      <4> QED BY <2>2, <3>1, <4>3, <4>4, <4>5, UpdatedIs
    <3> QED BY <2>9, <2>10, <3>1, <3>2, <3>3 DEF UserInv, Usable
  <2>11. \A v \in UserId : users'[v] = users[v] \/ UserInv(v)'
    BY <2>3, <2>10
  <2>12. AccountInv'
    <3>1. UNCHANGED <<sessions, confirmLinks, resetLinks>>
      BY DEF WriteUser
    <3> QED BY <2>1, <2>6, <2>8, <2>11, <3>1, AccountMove DEF AccountInv, TypeOK
  <2>13. Goes(r)
    BY <2>1, GoesWithout
  <2> QED BY <2>12, <2>13
<1> QED BY <1>1, <1>2, <1>3 DEF WriteUser

LEMMA RemoveUserKeeps ==
  ASSUME AccountInv, NEW r \in Request, RemoveUser(r)
  PROVE  Goes(r) /\ AccountInv'
<1>1. PICK u \in UserId : users' = [users EXCEPT ![u] = NoUser]
  BY DEF RemoveUser
<1>2. Begins(r, "removeUser", Answer("ok")) /\ UNCHANGED <<sessions, confirmLinks, resetLinks>>
  BY DEF RemoveUser
<1>3. Answer("ok") \in Call /\ Answer("ok").session = None /\ Claims(Answer("ok"), "removeUser", followed)
  BY AnswerIs, AnswerClaims, PcGroups
<1>4. Moves(r, Answer("ok"))
  BY <1>2, <1>3, BeginsMoves
<1>5. users \in [UserId -> User] /\ NoUser \in User /\ ~NoUser.exists /\ ~NoUser.self
  BY DocTypes DEF AccountInv, TypeOK, NoUser
<1>6. /\ users' \in [UserId -> User]
      /\ users'[u] = NoUser
      /\ \A v \in UserId \ {u} : users'[v] = users[v]
  BY <1>1, <1>5
<1>7. UserInv(u)'
  BY <1>5, <1>6 DEF UserInv
<1>8. \A v \in UserId :
        /\ users'[v].self => users[v].self
        /\ users'[v].exists =>
             /\ users[v].exists /\ (users[v].moved => users'[v].moved)
             /\ users'[v].provider = users[v].provider \/ users'[v].moved
  BY <1>5, <1>6
<1>9. AccountInv'
  BY <1>2, <1>3, <1>4, <1>6, <1>7, <1>8, AccountMove DEF AccountInv, TypeOK
<1> QED BY <1>3, <1>4, <1>9, GoesWithout

-----------------------------------------------------------------------------
(* The writes of sessions                                                  *)

\* The calls that were answered with tokens, whose hashes the registry has given.
Answered == {r \in Request : At(r, "ok") /\ req[r].session # None}

LEMMA MovedIs ==
  ASSUME AccountInv, NEW r \in Request, NEW call, Moves(r, call)
  PROVE  /\ r \notin Answered
         /\ req'[r].pc = call.pc /\ req'[r].session = call.session
         /\ Answered' = IF call.pc = "ok" /\ call.session # None THEN Answered \cup {r} ELSE Answered
<1>1. PICK name \in Ops \cup {"none"} : req' = [req EXCEPT ![r] = Named(call, name)]
  BY DEF Moves
<1>2. /\ Named(call, name).pc = call.pc /\ Named(call, name).session = call.session
      /\ req \in [Request -> Call]
  BY NamedIs DEF Moves, AccountInv, TypeOK
<1>3. PICK now : now = Named(call, name)
  OBVIOUS
<1>4. req'[r] = now /\ \A q \in Request \ {r} : req'[q] = req[q]
  BY <1>1, <1>2, <1>3
<1>5. req[r].pc # "ok"
  BY PcGroups DEF Moves
<1> QED BY <1>2, <1>3, <1>4, <1>5 DEF Answered, At

LEMMA AnsweredStays ==
  ASSUME AccountInv, NEW r \in Request, Goes(r)
  PROVE  UNCHANGED Answered
<1>1. PICK call : Moves(r, call) /\ (call.pc = "ok" => call.session = None)
  BY DEF Goes
<1> QED BY <1>1, MovedIs

LEMMA SignedIs ==
  ASSUME NEW s \in Request \cup {None}, NEW op
  PROVE  /\ Signed(s) \in Call /\ Signed(s).pc = "ok" /\ Signed(s).session = s
         /\ Claims(Signed(s), op, followed) /\ Signed(s).pc \notin Unborn
<1>1. Answer("ok") \in Call /\ Answer("ok").pc = "ok" /\ Claims(Answer("ok"), op, followed)
  BY AnswerIs, AnswerClaims, PcGroups
<1>2. /\ Signed(s) \in Call /\ Signed(s).pc = "ok" /\ Signed(s).session = s
      /\ Signed(s).dto = Answer("ok").dto /\ Signed(s).user = Answer("ok").user
      /\ Signed(s).new = Answer("ok").new /\ Signed(s).known = Answer("ok").known
      /\ Signed(s).after = Answer("ok").after
  BY <1>1 DEF Signed, Call
<1> QED BY <1>1, <1>2 DEF Claims, Unborn

LEMMA OpenSessionKeeps ==
  ASSUME AccountInv, NEW r \in Request, OpenSession(r)
  PROVE  /\ AccountInv'
         /\ r \notin Answered /\ Answered' = Answered \cup {r}
         /\ sessions[r].state = "none" /\ req[r].user \in UserId
<1>0. req[r].pc = "openSession" /\ req[r].pc \in Awaits /\ Claims(req[r], req[r].op, followed)
  BY DEF OpenSession, At, AccountInv, Awaits
<1>1. req[r].user \in UserId
  BY <1>0 DEF Claims
<1>2. sessions[r].state = "none"
  BY <1>0 DEF AccountInv, SessionInv, At
<1>3. r # None
  BY AccountAssumption
<1>4. Moves(r, Signed(r))
  BY <1>0, SignedIs, BecomesMoves DEF OpenSession
<1>5. r \notin Answered /\ Answered' = Answered \cup {r} /\ req'[r].pc = "ok"
  BY <1>3, <1>4, MovedIs, SignedIs
<1> DEFINE new == [state |-> "open", user |-> req[r].user, hash |-> r]
<1>6. new \in Session /\ new.state = "open" /\ new.user \in UserId
  BY <1>1 DEF Session
<1>7. sessions' = [sessions EXCEPT ![r] = new]
  BY DEF OpenSession
<1> HIDE DEF new
<1>8. /\ sessions' \in [Request -> Session] /\ sessions'[r] = new
      /\ \A s \in Request \ {r} : sessions'[s] = sessions[s]
  BY <1>6, <1>7 DEF AccountInv, TypeOK
<1>9. SessionInv(r)'
  BY <1>5, <1>6, <1>8 DEF SessionInv, At
<1>10. UNCHANGED <<users, confirmLinks, resetLinks>>
  BY DEF OpenSession
<1>11. AccountInv'
  BY <1>4, <1>6, <1>8, <1>9, <1>10, AccountMove, SignedIs DEF AccountInv, TypeOK
<1> QED BY <1>1, <1>2, <1>5, <1>11

\* What deleting sessions does to them.
LEMMA EndIs ==
  ASSUME AccountInv, NEW S, sessions' = End(S)
  PROVE  /\ sessions' \in [Request -> Session]
         /\ \A s \in Request : /\ sessions'[s].state = (IF s \in S THEN "ended" ELSE sessions[s].state)
                               /\ sessions'[s].user = sessions[s].user
                               /\ sessions'[s].hash = sessions[s].hash
                               /\ s \notin S => sessions'[s] = sessions[s]
<1>1. \A s \in Request : sessions[s] \in Session
  BY DEF AccountInv, TypeOK
<1>2. \A s \in Request : sessions'[s] = IF s \in S THEN [sessions[s] EXCEPT !.state = "ended"]
                                         ELSE sessions[s]
  BY DEF End
<1>3. \A s \in Request : /\ [sessions[s] EXCEPT !.state = "ended"] \in Session
                         /\ [sessions[s] EXCEPT !.state = "ended"].state = "ended"
                         /\ [sessions[s] EXCEPT !.state = "ended"].user = sessions[s].user
                         /\ [sessions[s] EXCEPT !.state = "ended"].hash = sessions[s].hash
  BY <1>1 DEF Session
<1>4. sessions' = [s \in Request |-> sessions'[s]]
  BY DEF End
<1> QED BY <1>1, <1>2, <1>3, <1>4

\* Open sessions end while call r goes on.
LEMMA EndKeeps ==
  ASSUME AccountInv, NEW r \in Request, Goes(r), NEW S,
         \A s \in S : s \in Request /\ sessions[s].state = "open",
         sessions' = End(S), UNCHANGED <<users, confirmLinks, resetLinks>>
  PROVE  AccountInv'
<1>1. PICK call :
        /\ Moves(r, call)
        /\ call.session # None => sessions[call.session].state # "none"
  BY DEF Goes
<1>2. /\ sessions' \in [Request -> Session]
      /\ \A s \in Request : /\ sessions'[s].state = (IF s \in S THEN "ended" ELSE sessions[s].state)
                            /\ sessions'[s].user = sessions[s].user
                            /\ s \notin S => sessions'[s] = sessions[s]
  BY EndIs
<1>3. ASSUME NEW s \in S
      PROVE  SessionInv(s)'
  <2>1. SessionInv(s) /\ s \in Request /\ sessions[s].state = "open"
    BY DEF AccountInv
  <2>2. At(s, "ok") /\ sessions[s].user \in UserId
    BY <2>1 DEF SessionInv
  <2>3. s # r
    BY <1>1, <2>2, PcGroups DEF At, Moves
  <2>4. req'[s] = req[s]
    BY <1>1, <2>1, <2>3 DEF Moves, AccountInv, TypeOK
  <2> QED BY <1>2, <2>1, <2>2, <2>4 DEF SessionInv, At
<1>4. call.session \in Request \cup {None}
  BY <1>1 DEF Moves, Call
<1>5. call.session # None => sessions'[call.session].state # "none"
  BY <1>1, <1>2, <1>4
<1>6. \A s \in Request : sessions[s].state # "none" => sessions'[s].state # "none"
  BY <1>2
<1> QED BY <1>1, <1>2, <1>3, <1>5, <1>6, AccountMove DEF AccountInv, TypeOK

LEMMA EndSessionsKeeps ==
  ASSUME AccountInv, NEW r \in Request, EndSessions(r)
  PROVE  Goes(r) /\ AccountInv'
<1>0. req[r].pc = "endSessions" /\ req[r] \in Call /\ Claims(req[r], req[r].op, followed) /\ req[r].pc \in Awaits
  BY DEF EndSessions, At, AccountInv, TypeOK, Awaits
<1>1. /\ req[r].user \in UserId \cup {None} /\ req[r].dto \in UpdateDto
      /\ Carries(req[r].dto, req[r].user, req[r].op, followed)
  BY <1>0 DEF Claims, Call
<1>2. Becomes(r, Updating(req[r].user, req[r].dto, "answer"))
  BY DEF EndSessions
<1>3. Goes(r)
  BY <1>0, <1>1, <1>2, UpdatingGoes
<1>4. PICK S : S = SessionsOf(req[r].user)
  OBVIOUS
<1>5. \A s \in S : s \in Request /\ sessions[s].state = "open"
  BY <1>4 DEF SessionsOf
<1>6. sessions' = End(S) /\ UNCHANGED <<users, confirmLinks, resetLinks>>
  BY <1>4 DEF EndSessions
<1> QED BY <1>3, <1>5, <1>6, EndKeeps

LEMMA LogoutKeeps ==
  ASSUME AccountInv, NEW r \in Request, Logout(r)
  PROVE  Goes(r) /\ AccountInv'
<1>1. Goes(r)
  BY AnswerGoes, PcGroups DEF Logout
<1>2. PICK s \in AccessTokens : sessions' = End({s} \cap {t \in Request : sessions[t].state = "open"})
  BY DEF Logout
<1>3. PICK S : S = {s} \cap {t \in Request : sessions[t].state = "open"}
  OBVIOUS
<1>4. \A t \in S : t \in Request /\ sessions[t].state = "open"
  BY <1>3
<1>5. sessions' = End(S) /\ UNCHANGED <<users, confirmLinks, resetLinks>>
  BY <1>2, <1>3 DEF Logout
<1> QED BY <1>1, <1>4, <1>5, EndKeeps

\* The session of a refresh may have gone, or the call may have none to write.
LEMMA RefreshSessionIs ==
  ASSUME AccountInv, NEW r \in Request, RefreshSession(r)
  PROVE  /\ req[r].session \in Request \cup {None} /\ Moves(r, Signed(req[r].session))
         /\ req[r].session # None => sessions[req[r].session].state # "none"
         /\ sessions' \in [Request -> Session]
         /\ \A s \in Request : /\ sessions'[s].state = sessions[s].state
                               /\ sessions'[s].user = sessions[s].user
                               /\ sessions'[s].hash =
                                    (IF s = req[r].session /\ sessions[s].state = "open" THEN r
                                     ELSE sessions[s].hash)
<1>0. req[r].pc = "refreshWrite" /\ req[r] \in Call /\ req[r].pc \in Awaits /\ Names(r)
  BY DEF RefreshSession, At, AccountInv, TypeOK, Awaits
<1>1. PICK s : s = req[r].session
  OBVIOUS
<1>2. s \in Request \cup {None} /\ (s # None => sessions[s].state # "none")
  BY <1>0, <1>1 DEF Call, Names
<1>3. Moves(r, Signed(s))
  BY <1>0, <1>1, <1>2, SignedIs, BecomesMoves DEF RefreshSession
<1>4. sessions \in [Request -> Session]
  BY DEF AccountInv, TypeOK
<1>5. PICK hash : hash = IF sessions[s].state = "open" THEN r ELSE sessions[s].hash
  OBVIOUS
<1>6. sessions' = [sessions EXCEPT ![s].hash = hash]
  BY <1>1, <1>5 DEF RefreshSession
<1>7. ASSUME NEW t \in Request
      PROVE  /\ sessions'[t] \in Session
             /\ sessions'[t].state = sessions[t].state /\ sessions'[t].user = sessions[t].user
             /\ sessions'[t].hash = (IF t = s /\ sessions[t].state = "open" THEN r ELSE sessions[t].hash)
  <2>1. sessions[t] \in Session
    BY <1>4
  <2>2. CASE t = s
    <3>1. sessions'[t] = [sessions[t] EXCEPT !.hash = hash]
      BY <1>4, <1>6, <2>2
    <3> QED BY <1>5, <2>1, <2>2, <3>1 DEF Session
  <2>3. CASE t # s
    BY <1>4, <1>6, <2>1, <2>3
  <2> QED BY <2>2, <2>3
<1>8. sessions' = [t \in Request |-> sessions'[t]]
  BY <1>4, <1>6
<1>9. sessions' \in [Request -> Session]
  BY <1>7, <1>8
<1> QED BY <1>1, <1>2, <1>3, <1>7, <1>9

LEMMA RefreshSessionKeeps ==
  ASSUME AccountInv, NEW r \in Request, RefreshSession(r)
  PROVE  AccountInv'
<1>1. PICK s : s = req[r].session
  OBVIOUS
<1>2. /\ s \in Request \cup {None} /\ Moves(r, Signed(s))
      /\ s # None => sessions[s].state # "none"
      /\ sessions' \in [Request -> Session]
      /\ \A t \in Request : sessions'[t].state = sessions[t].state /\ sessions'[t].user = sessions[t].user
  BY <1>1, RefreshSessionIs
<1>3. Signed(s).session = s
  BY <1>2, SignedIs
<1>4. ASSUME NEW t \in Request
      PROVE  SessionInv(t)'
  <2>1. SessionInv(t) /\ sessions'[t].state = sessions[t].state /\ sessions'[t].user = sessions[t].user
    BY <1>2 DEF AccountInv
  <2>2. At(t, "ok") => t # r
    BY <1>2, PcGroups DEF Moves, At
  <2>3. At(t, "ok") => req'[t] = req[t]
    BY <1>2, <2>2 DEF Moves, AccountInv, TypeOK
  <2> QED BY <2>1, <2>3 DEF SessionInv, At
<1>5. UNCHANGED <<users, confirmLinks, resetLinks>>
  BY DEF RefreshSession
<1>6. s # None => sessions'[s].state # "none"
  BY <1>2
<1> QED BY <1>2, <1>3, <1>4, <1>5, <1>6, AccountMove DEF AccountInv, TypeOK

-----------------------------------------------------------------------------
(* Crashes and the first state                                             *)

LEMMA CrashKeeps ==
  ASSUME AccountInv, Crash
  PROVE  AccountInv' /\ UNCHANGED <<docs, Answered>>
<1>1. /\ req' = [r \in Request |-> IF InFlight(r) THEN Answer("error") ELSE req[r]]
      /\ users' = users /\ sessions' = sessions /\ confirmLinks' = confirmLinks
      /\ resetLinks' = resetLinks /\ overlapped' = overlapped
      /\ followed' = followed
  BY DEF Crash, docs
<1>2. /\ Answer("error") \in Call /\ Answer("error").pc = "error"
      /\ Answer("error").session = None /\ \A op : Claims(Answer("error"), op, followed)
  BY AnswerIs, AnswerClaims, PcGroups
<1>3. req \in [Request -> Call]
  BY DEF AccountInv, TypeOK
<1>4. PICK lost : lost = Answer("error")
  OBVIOUS
<1>5. \A r \in Request : req'[r] = IF InFlight(r) THEN lost ELSE req[r]
  BY <1>1, <1>4
<1>6. TypeOK'
  BY <1>1, <1>2, <1>3 DEF AccountInv, TypeOK
<1>7. \A u \in UserId : Spent(u) => Spent(u)'
  BY <1>2, <1>4, <1>5 DEF Spent, Unborn
<1>8. Stays(followed)
  BY <1>1, <1>7 DEF Stays, Confirmed, Placed
<1>9. PICK links : links = followed
  OBVIOUS
<1>10. \A u \in UserId : UserInv(u)'
  BY <1>1, <1>7 DEF AccountInv, UserInv, Usable
<1>11. ASSUME NEW r \in Request
       PROVE  Claims(req[r], req[r].op, followed)' /\ Names(r)'
  <2>1. CASE InFlight(r)
    <3>1. PICK op : op = req'[r].op
      OBVIOUS
    <3>2. lost \in Call /\ Claims(lost, op, links) /\ Stays(links)
      BY <1>2, <1>4, <1>8, <1>9
    <3>3. Claims(lost, op, followed)'
      BY <3>2, ClaimsStay
    <3>4. req'[r] = lost
      BY <1>5, <2>1
    <3>5. Claims(req[r], req[r].op, followed)'
      BY <3>1, <3>3, <3>4 DEF Claims, Carries, Placed, Confirmed, Usable
    <3> QED BY <1>2, <1>4, <3>4, <3>5 DEF Names
  <2>2. CASE ~InFlight(r)
    <3>1. PICK c, op : c = req[r] /\ op = req[r].op
      OBVIOUS
    <3>2. c \in Call /\ Claims(c, op, links) /\ Names(r) /\ Stays(links)
      BY <1>3, <1>8, <1>9, <3>1 DEF AccountInv
    <3>3. Claims(c, op, followed)'
      BY <3>2, ClaimsStay
    <3>4. req'[r] = c
      BY <1>5, <2>2, <3>1
    <3>5. Claims(req[r], req[r].op, followed)'
      BY <3>1, <3>3, <3>4 DEF Claims, Carries, Placed, Confirmed, Usable
    <3> QED BY <1>1, <3>1, <3>2, <3>4, <3>5 DEF Names
  <2> QED BY <2>1, <2>2
<1>12. \A s \in Request : At(s, "ok") <=> At(s, "ok")'
  BY <1>2, <1>4, <1>5, PcGroups DEF At, InFlight
<1>13. \A s \in Request : SessionInv(s)'
  BY <1>1, <1>12 DEF AccountInv, SessionInv
<1>14. \A r \in Request : req[r].pc = "ok" => req'[r] = req[r]
  BY <1>5, PcGroups DEF InFlight
<1>15. UNCHANGED Answered
  BY <1>12, <1>14 DEF Answered, At
<1>16. AccountInv'
  BY <1>6, <1>10, <1>11, <1>13 DEF AccountInv
<1> QED BY <1>1, <1>15, <1>16 DEF docs

LEMMA InitKeeps ==
  ASSUME Init
  PROVE  AccountInv
<1>1. PICK e \in Email, p \in Password, role \in Role :
        users = [u \in UserId |->
                   IF u = Seeded
                   THEN [NoUser EXCEPT !.exists = TRUE, !.email = e, !.password = p,
                                       !.role = role, !.status = "active"]
                   ELSE NoUser]
  BY DEF Init
<1> DEFINE admin == [NoUser EXCEPT !.exists = TRUE, !.email = e, !.password = p,
                                   !.role = role, !.status = "active"]
<1>2. /\ admin \in User /\ ~admin.self /\ admin.password \in Password
  BY DocTypes DEF NoUser, User, Hash, RoleEnum, StatusEnum
<1>3. users = [u \in UserId |-> IF u = Seeded THEN admin ELSE NoUser]
  BY <1>1
<1> HIDE DEF admin
<1>4. NoUser \in User /\ ~NoUser.exists
  BY DocTypes DEF NoUser
<1>5. /\ sessions = [s \in Request |-> NoSession] /\ confirmLinks = {} /\ resetLinks = {}
      /\ req = [r \in Request |-> Fresh] /\ overlapped = FALSE /\ followed = {}
  BY DEF Init
<1>6. NoSession \in Session /\ NoSession.state = "none"
  BY DEF NoSession, Session
<1>7. TypeOK
  BY <1>2, <1>3, <1>4, <1>5, <1>6, FreshIs DEF TypeOK
<1>8. \A u \in UserId : UserInv(u)
  BY <1>2, <1>3, <1>4, AccountAssumption DEF UserInv, Spent, Usable
<1>9. Fresh.pc = "idle" /\ "idle" \notin Awaits
  BY PcGroups DEF Fresh
<1>10. \A op : Claims(Fresh, op, followed)
  BY <1>9, FreshIs, NoChangeCarries DEF Claims, Mailing
<1>11. \A r \in Request : Claims(req[r], req[r].op, followed) /\ Names(r)
  BY <1>5, <1>10, FreshIs DEF Names
<1>12. \A s \in Request : SessionInv(s)
  BY <1>5, <1>6 DEF SessionInv
<1> QED BY <1>7, <1>8, <1>11, <1>12 DEF AccountInv

-----------------------------------------------------------------------------
(* The theorems                                                            *)

\* Every step is a read, a letter, a write or a crash.
LEMMA StepIs ==
  ASSUME Next
  PROVE  \/ Crash
         \/ \E r \in Request :
              \/ Reads(r)
              \/ MailConfirm(r) \/ MailReset(r) \/ MailNewEmail(r)
              \/ InsertUser(r) \/ WriteUser(r) \/ RemoveUser(r)
              \/ OpenSession(r) \/ EndSessions(r) \/ RefreshSession(r) \/ Logout(r)
BY DEF Next, UserNext, AuthNext, Reads

LEMMA StutterKeeps ==
  ASSUME AccountInv, UNCHANGED vars
  PROVE  AccountInv'
BY DEF vars, AccountInv, TypeOK, UserInv, Usable, Spent, Claims, Carries, Confirmed, Placed, Names,
       SessionInv, At

\* Whatever calls interleave and wherever they crash: a call that writes back a
\* user it read earlier may rely on what it read, in the sense of AccountInv.
THEOREM AccountsCorrect == Spec => []AccountInv
<1>1. Init => AccountInv
  BY InitKeeps
<1>2. AccountInv /\ [Next]_vars => AccountInv'
  <2>1. ASSUME AccountInv, NEW r \in Request,
               \/ Reads(r)
               \/ MailConfirm(r) \/ MailReset(r) \/ MailNewEmail(r)
               \/ InsertUser(r) \/ WriteUser(r) \/ RemoveUser(r)
               \/ OpenSession(r) \/ EndSessions(r) \/ RefreshSession(r) \/ Logout(r)
        PROVE  AccountInv'
    BY <2>1, ReadsKeep, MailConfirmGoes, MailResetGoes, MailNewEmailGoes, InsertUserKeeps,
       WriteUserKeeps, RemoveUserKeeps, OpenSessionKeeps, EndSessionsKeeps, RefreshSessionKeeps,
       LogoutKeeps
  <2> QED BY <2>1, CrashKeeps, StutterKeeps, StepIs
<1> QED BY <1>1, <1>2, PTL DEF Spec

\* Documents, sessions, links and calls keep their types in every reachable state.
THEOREM AccountTypes == Spec => []TypeOK
<1>1. AccountInv => TypeOK
  BY DEF AccountInv
<1> QED BY <1>1, AccountsCorrect, PTL

\* A self-registered account is active only if a confirmation link mailed to it was
\* followed or an operator set its status, although most handlers write whole
\* documents back.
THEOREM ActiveWasConfirmedHolds == Spec => []ActiveWasConfirmed
<1>1. AccountInv => ActiveWasConfirmed
  BY DEF AccountInv, UserInv, ActiveWasConfirmed
<1> QED BY <1>1, AccountsCorrect, PTL

\* The stored hash of a user who logs in by password is that of a password
\* somebody chose, or absent when an operator gave none, never a hash that was
\* hashed once more, as long as no operator has changed the provider of the user.
THEOREM PasswordIsUsableHolds == Spec => []PasswordIsUsable
<1>1. AccountInv => PasswordIsUsable
  BY DEF AccountInv, UserInv, Usable, PasswordIsUsable
<1> QED BY <1>1, AccountsCorrect, PTL

-----------------------------------------------------------------------------
(* The sessions behave as the registry                                     *)

\* A step that leaves every session and every answer as it was.
LEMMA SameRegistry ==
  ASSUME UNCHANGED Answered,
         \A s \in Request : /\ sessions'[s].state = sessions[s].state
                            /\ sessions'[s].user = sessions[s].user
                            /\ sessions'[s].hash = sessions[s].hash
  PROVE  UNCHANGED Registry!vars
BY DEF Registry!vars, Answered

LEMMA EndRegistry ==
  ASSUME AccountInv, NEW r \in Request, Goes(r), NEW S,
         \A s \in S : s \in Request /\ sessions[s].state = "open",
         \A s, t \in S : sessions[s].user = sessions[t].user,
         sessions' = End(S)
  PROVE  Registry!Next
<1>1. /\ UNCHANGED Answered
      /\ \A s \in Request : /\ sessions'[s].state = (IF s \in S THEN "ended" ELSE sessions[s].state)
                            /\ sessions'[s].user = sessions[s].user
                            /\ sessions'[s].hash = sessions[s].hash
  BY AnsweredStays, EndIs
<1>2. S \in SUBSET Request
  OBVIOUS
<1>3. Registry!EndSome(S)
  BY <1>1, <1>2 DEF Registry!EndSome, Answered
<1> QED BY <1>2, <1>3 DEF Registry!Next

LEMMA OpenRegistry ==
  ASSUME AccountInv, NEW r \in Request, OpenSession(r)
  PROVE  Registry!Next
<1>1. /\ r \notin Answered /\ Answered' = Answered \cup {r}
      /\ sessions[r].state = "none" /\ req[r].user \in UserId
  BY OpenSessionKeeps
<1>0. PICK u : u = req[r].user
  OBVIOUS
<1> DEFINE new == [state |-> "open", user |-> u, hash |-> r]
<1>2. new.state = "open" /\ new.user = u /\ new.hash = r
  OBVIOUS
<1>3. sessions' = [sessions EXCEPT ![r] = new] /\ sessions \in [Request -> Session]
  BY <1>0 DEF OpenSession, AccountInv, TypeOK
<1> HIDE DEF new
<1>4. sessions'[r] = new /\ \A s \in Request \ {r} : sessions'[s] = sessions[s]
  BY <1>3
<1>5. u \in UserId /\ Registry!Open(r, u)
  BY <1>0, <1>1, <1>2, <1>4 DEF Registry!Open, Answered
<1> QED BY <1>5 DEF Registry!Next

LEMMA RotateRegistry ==
  ASSUME AccountInv, NEW r \in Request, RefreshSession(r)
  PROVE  [Registry!Next]_Registry!vars
<1>1. PICK s : s = req[r].session
  OBVIOUS
<1>2. /\ s \in Request \cup {None} /\ Moves(r, Signed(s))
      /\ s # None => sessions[s].state # "none"
      /\ \A t \in Request : /\ sessions'[t].state = sessions[t].state
                            /\ sessions'[t].user = sessions[t].user
                            /\ sessions'[t].hash =
                                 (IF t = s /\ sessions[t].state = "open" THEN r ELSE sessions[t].hash)
  BY <1>1, RefreshSessionIs
<1>3. Signed(s).pc = "ok" /\ Signed(s).session = s
  BY <1>2, SignedIs
<1>4. r \notin Answered /\ Answered' = IF s # None THEN Answered \cup {r} ELSE Answered
  BY <1>2, <1>3, MovedIs
<1>5. CASE s = None
  <2>1. \A t \in Request : t # s
    BY <1>5, AccountAssumption
  <2> QED BY <1>2, <1>4, <1>5, <2>1, SameRegistry
<1>6. CASE s # None
  <2>1. Registry!Rotate(s, r)
    BY <1>2, <1>4, <1>6 DEF Registry!Rotate, Answered
  <2> QED BY <1>2, <1>6, <2>1 DEF Registry!Next
<1> QED BY <1>5, <1>6

LEMMA StepRefines ==
  ASSUME AccountInv, [Next]_vars
  PROVE  [Registry!Next]_Registry!vars
<1>1. ASSUME NEW r \in Request,
             \/ Reads(r)
             \/ MailConfirm(r) \/ MailReset(r) \/ MailNewEmail(r)
             \/ InsertUser(r) \/ WriteUser(r) \/ RemoveUser(r)
      PROVE  UNCHANGED Registry!vars
  <2>1. Goes(r)
    BY <1>1, ReadsGo, MailConfirmGoes, MailResetGoes, MailNewEmailGoes, InsertUserKeeps,
       WriteUserKeeps, RemoveUserKeeps
  <2>2. Reads(r) => sessions' = sessions
    BY ReadsGo DEF docs
  <2>3. sessions' = sessions
    BY <1>1, <2>2 DEF MailConfirm, MailReset, MailNewEmail, InsertUser, WriteUser, RemoveUser
  <2> QED BY <2>1, <2>3, AnsweredStays, SameRegistry
<1>2. ASSUME NEW r \in Request, EndSessions(r)
      PROVE  Registry!Next
  <2>1. PICK S : S = SessionsOf(req[r].user)
    OBVIOUS
  <2>2. /\ \A s \in S : s \in Request /\ sessions[s].state = "open"
        /\ \A s, t \in S : sessions[s].user = sessions[t].user
    BY <2>1 DEF SessionsOf
  <2>3. sessions' = End(S)
    BY <1>2, <2>1 DEF EndSessions
  <2> QED BY <1>2, <2>2, <2>3, EndSessionsKeeps, EndRegistry
<1>3. ASSUME NEW r \in Request, Logout(r)
      PROVE  Registry!Next
  <2>1. PICK s \in AccessTokens : sessions' = End({s} \cap {t \in Request : sessions[t].state = "open"})
    BY <1>3 DEF Logout
  <2>2. PICK S : S = {s} \cap {t \in Request : sessions[t].state = "open"}
    OBVIOUS
  <2>3. /\ \A t \in S : t \in Request /\ sessions[t].state = "open"
        /\ \A t, q \in S : sessions[t].user = sessions[q].user
    BY <2>2
  <2>4. sessions' = End(S)
    BY <2>1, <2>2
  <2> QED BY <1>3, <2>3, <2>4, LogoutKeeps, EndRegistry
<1>4. ASSUME Crash
      PROVE  UNCHANGED Registry!vars
  <2>1. UNCHANGED Answered /\ sessions' = sessions
    BY <1>4, CrashKeeps DEF docs
  <2> QED BY <2>1, SameRegistry
<1>5. ASSUME UNCHANGED vars
      PROVE  UNCHANGED Registry!vars
  <2>1. UNCHANGED Answered /\ sessions' = sessions
    BY <1>5 DEF vars, Answered, At
  <2> QED BY <2>1, SameRegistry
<1> QED BY <1>1, <1>2, <1>3, <1>4, <1>5, StepIs, OpenRegistry, RotateRegistry

\* Whatever ends the sessions while calls refresh them, a session is opened once,
\* its hash only ever becomes one nobody was given, and an ended session stays ended.
THEOREM SessionsAreRegistry == Spec => RegistrySpec
<1>1. Init => Registry!Init
  <2> SUFFICES ASSUME Init PROVE Registry!Init
    OBVIOUS
  <2>1. /\ sessions = [s \in Request |-> NoSession] /\ req = [r \in Request |-> Fresh]
        /\ NoSession.state = "none" /\ NoSession.user = None /\ NoSession.hash = None
        /\ Fresh.pc = "idle"
    BY DEF Init, NoSession, Fresh
  <2>2. \A s \in Request : /\ sessions[s].state = "none" /\ sessions[s].user = None
                           /\ sessions[s].hash = None /\ ~At(s, "ok")
    BY <2>1 DEF At
  <2> QED BY <2>2 DEF Registry!Init
<1>2. AccountInv /\ [Next]_vars => [Registry!Next]_Registry!vars
  BY StepRefines
<1> QED BY <1>1, <1>2, AccountsCorrect, PTL DEF Spec, RegistrySpec, Registry!Spec

-----------------------------------------------------------------------------
(* While calls do not overlap                                              *)

\* Until two calls have overlapped at most one is in flight.
Alone ==
  ~overlapped => \A q, r \in Request : InFlight(q) /\ InFlight(r) => q = r

Updates == {"updatePassword", "updateEmail", "updateWrite"}

Resets == {"endSessions"} \cup Updates

\* The awaits at which a call relies on what it has read.
Loud == Resets \cup {"meEmail", "mailNewEmail", "refreshUser", "refreshWrite"}

\* What dto would change of user u is what the operation is about.
Fits(u, dto, op) ==
  LET user == users[u]
      about(f) == f \in About(op) IN
  user.exists =>
    /\ dto.email \in {Keep, user.email} \/ about("email")
    /\ dto.role \in {Keep, user.role} \/ about("role")
    /\ dto.status \in {Keep, user.status} \/ about("status")
    /\ dto.provider \in {Keep, user.provider} \/ about("provider")
    /\ dto.social \in {Keep, user.social} \/ about("social")
    /\ dto.password = Keep \/ (dto.hashed /\ dto.password = user.password) \/ about("password")

\* Nobody is signed in as u.
SignedOut(u) == \A s \in Request : sessions[s].user = u => sessions[s].state = "ended"

\* What a reset has done and will write.
ResetCall(call) ==
  call.op = "reset" =>
    /\ call.pc \in Resets /\ call.after = "answer"
    /\ call.user \in UserId /\ users[call.user].exists
    /\ ~call.dto.hashed /\ call.dto.password \in Password
    /\ call.pc \in Updates => SignedOut(call.user)

\* What a call relies on that nobody else disturbs.
Relies(call) ==
  /\ call.pc \in Loud => Fits(call.user, call.dto, call.op)
  /\ call.pc \in {"refreshUser", "refreshWrite"} =>
       call.session \in Request /\ sessions[call.session].state = "open"
  /\ call.pc = "socialFind" => call.op = "social"
  /\ call.pc = "updatePassword" => call.dto.password # Keep
  /\ ResetCall(call)

\* A session that was never opened is nobody's.
SessionsNamed == \A s \in Request : sessions[s].state = "none" => sessions[s].user = None

\* The inductive invariant of calls that do not overlap.
LonelyInv ==
  /\ Alone /\ SessionsNamed
  /\ ~overlapped => \A r \in Request : InFlight(r) => Relies(req[r])

\* Call r goes on as call while the documents change, and relies on what it may.
LEMMA LonelyMove ==
  ASSUME AccountInv, LonelyInv, NEW r \in Request, NEW op, NEW call \in Call,
         Begins(r, op, call) \/ (Becomes(r, call) /\ InFlight(r) /\ op = req[r].op),
         SessionsNamed',
         NEW now, now = Named(call, op), call.pc \in Awaits /\ ~overlapped' => Relies(now)'
  PROVE  LonelyInv'
<1>1. op \in Ops \cup {"none"} /\ req \in [Request -> Call]
  BY DEF Begins, AccountInv, TypeOK, Call
<1>2. now.pc = call.pc
  BY <1>1, NamedIs
<1>3. req' = [req EXCEPT ![r] = now]
  BY DEF Begins, Becomes
<1>4. req'[r] = now /\ \A q \in Request \ {r} : req'[q] = req[q]
  BY <1>1, <1>3
<1>5. ASSUME ~overlapped'
      PROVE  ~overlapped /\ \A q \in Request \ {r} : ~InFlight(q)
  <2>1. CASE Begins(r, op, call)
    BY <1>5, <2>1 DEF Begins, Overlaps
  <2>2. CASE Becomes(r, call) /\ InFlight(r)
    <3>1. ~overlapped
      BY <1>5, <2>2 DEF Becomes
    <3> QED BY <2>2, <3>1 DEF LonelyInv, Alone
  <2> QED BY <2>1, <2>2
<1>6. ASSUME ~overlapped', NEW q \in Request, InFlight(q)'
      PROVE  q = r
  BY <1>4, <1>5, <1>6 DEF InFlight
<1>7. ASSUME ~overlapped', InFlight(r)'
      PROVE  Relies(req[r])'
  <2>1. Relies(now)'
    BY <1>2, <1>4, <1>7 DEF InFlight
  <2> QED BY <1>4, <2>1
<1>8. Alone'
  BY <1>6 DEF Alone
<1> QED BY <1>6, <1>7, <1>8 DEF LonelyInv

\* A new call that has read nothing it will rely on.
LEMMA AsideBegins ==
  ASSUME AccountInv, LonelyInv, NEW r \in Request, NEW op, NEW call \in Call,
         op # "reset" \/ call.pc \notin Awaits,
         Begins(r, op, call), call.pc \notin Loud, call.pc = "socialFind" => op = "social",
         SessionsNamed'
  PROVE  LonelyInv'
<1>1. PICK now : now = Named(call, op)
  OBVIOUS
<1>2. op \in Ops \cup {"none"}
  BY DEF Begins
<1>3. now.pc = call.pc /\ (call.pc \in Awaits => now.op = op)
  BY <1>1, <1>2, NamedIs
<1>4. call.pc \in Awaits => Relies(now)'
  BY <1>3 DEF Relies, ResetCall, Loud, Resets, Updates
<1> QED BY <1>1, <1>4, LonelyMove

\* A call that goes on and relies on nothing any more, or is answered.
LEMMA AsideBecomes ==
  ASSUME AccountInv, LonelyInv, NEW r \in Request, NEW call \in Call, Becomes(r, call),
         req[r].pc \in Awaits, call.pc \notin Loud \cup {"socialFind"},
         call.pc \in Awaits => req[r].pc \notin Resets \/ req[r].after = "session",
         SessionsNamed'
  PROVE  LonelyInv'
<1>1. PICK op, now : op = req[r].op /\ now = Named(call, op)
  OBVIOUS
<1>2. op \in Ops \cup {"none"} /\ InFlight(r)
  BY <1>1 DEF AccountInv, TypeOK, Call, InFlight
<1>3. now.pc = call.pc /\ (call.pc \in Awaits => now.op = op)
  BY <1>1, <1>2, NamedIs
<1>4. ASSUME call.pc \in Awaits, ~overlapped'
      PROVE  Relies(now)'
  <2>1. ~overlapped
    BY <1>4 DEF Becomes
  <2>2. ResetCall(req[r])
    BY <1>2, <2>1 DEF LonelyInv, Relies
  <2>3. op # "reset"
    BY <1>1, <1>4, <2>2 DEF ResetCall
  <2> QED BY <1>3, <1>4, <2>3 DEF Relies, ResetCall, Loud, Resets, Updates
<1> QED BY <1>1, <1>2, <1>4, LonelyMove

\* An update reads the hash first if it sends one.
LEMMA UpdatingHashes ==
  ASSUME NEW u \in UserId \cup {None}, NEW dto \in UpdateDto, NEW after \in {"answer", "session"},
         Updating(u, dto, after).pc = "updatePassword"
  PROVE  dto.password # Keep
<1>1. PICK pc : pc = FirstRead(dto)
  OBVIOUS
<1>2. Updating(u, dto, after) = [Fresh EXCEPT !.pc = pc, !.user = u, !.dto = dto, !.after = after]
  BY <1>1 DEF Updating
<1>3. pc = "updatePassword"
  BY <1>2 DEF Fresh
<1> QED BY <1>1, <1>3 DEF FirstRead, AfterPassword

\* An update begins.
LEMMA UpdateBegins ==
  ASSUME AccountInv, LonelyInv, NEW r \in Request, NEW op, op # "reset",
         NEW u \in UserId \cup {None}, NEW dto \in UpdateDto, NEW after \in {"answer", "session"},
         Begins(r, op, Updating(u, dto, after)), UNCHANGED docs, Fits(u, dto, op)
  PROVE  LonelyInv'
<1>1. PICK call : call = Updating(u, dto, after)
  OBVIOUS
<1>2. /\ call \in Call /\ call.pc \in Updates /\ call.user = u /\ call.dto = dto
      /\ call.pc = "updatePassword" => dto.password # Keep
  BY <1>1, UpdatingIs, UpdatingHashes DEF Updates
<1>3. PICK now : now = Named(call, op)
  OBVIOUS
<1>4. op \in Ops \cup {"none"}
  BY DEF Begins
<1>5. /\ now.pc = call.pc /\ (call.pc \in Awaits => now.op = op)
      /\ now.user = u /\ now.dto = dto
  BY <1>2, <1>3, <1>4, NamedIs
<1>6. ASSUME call.pc \in Awaits
      PROVE  Relies(now)'
  <2>1. Fits(now.user, now.dto, now.op)'
    BY <1>5, <1>6 DEF Fits, docs
  <2> QED BY <1>2, <1>5, <1>6, <2>1 DEF Relies, ResetCall, Updates
<1>7. SessionsNamed'
  BY DEF LonelyInv, SessionsNamed, docs
<1> QED BY <1>1, <1>2, <1>3, <1>6, <1>7, LonelyMove

\* A call goes on with an update.
LEMMA UpdateBecomes ==
  ASSUME AccountInv, LonelyInv, NEW r \in Request, req[r].pc \in Awaits,
         NEW u \in UserId \cup {None}, NEW dto \in UpdateDto, NEW after \in {"answer", "session"},
         Becomes(r, Updating(u, dto, after)), UNCHANGED users, SessionsNamed',
         ~overlapped =>
           /\ Fits(u, dto, req[r].op)
           /\ req[r].op = "reset" =>
                /\ after = "answer" /\ u \in UserId /\ users[u].exists
                /\ ~dto.hashed /\ dto.password \in Password
                /\ SignedOut(u)'
  PROVE  LonelyInv'
<1>1. PICK call : call = Updating(u, dto, after)
  OBVIOUS
<1>2. /\ call \in Call /\ call.pc \in Updates /\ call.user = u /\ call.dto = dto
      /\ call.after = after
      /\ call.pc = "updatePassword" => dto.password # Keep
  BY <1>1, UpdatingIs, UpdatingHashes DEF Updates
<1>3. PICK op, now : op = req[r].op /\ now = Named(call, op)
  OBVIOUS
<1>4. op \in Ops \cup {"none"} /\ InFlight(r)
  BY <1>3 DEF AccountInv, TypeOK, Call, InFlight
<1>5. /\ now.pc = call.pc /\ (call.pc \in Awaits => now.op = op)
      /\ now.user = u /\ now.dto = dto /\ now.after = after
  BY <1>2, <1>3, <1>4, NamedIs
<1>6. ASSUME call.pc \in Awaits, ~overlapped'
      PROVE  Relies(now)'
  <2>1. ~overlapped
    BY <1>6 DEF Becomes
  <2>2. Fits(now.user, now.dto, now.op)'
    BY <1>3, <1>5, <1>6, <2>1 DEF Fits
  <2>3. ResetCall(now)'
    BY <1>2, <1>3, <1>5, <1>6, <2>1 DEF ResetCall, Resets
  <2> QED BY <1>2, <1>5, <2>2, <2>3 DEF Relies, Updates
<1> QED BY <1>1, <1>2, <1>3, <1>4, <1>6, LonelyMove

\* Reads leave the sessions as they are.
LEMMA SameSessions ==
  ASSUME LonelyInv, UNCHANGED sessions
  PROVE  SessionsNamed'
BY DEF LonelyInv, SessionsNamed

LEMMA AnswerLonely ==
  ASSUME AccountInv, LonelyInv, NEW r \in Request, NEW code \in Replies, SessionsNamed',
         \/ \E op : Begins(r, op, Answer(code))
         \/ Becomes(r, Answer(code)) /\ req[r].pc \in Awaits
  PROVE  LonelyInv'
<1>1. Answer(code) \in Call /\ Answer(code).pc \in Replies
  BY AnswerIs
<1>2. Answer(code).pc \notin Awaits \cup Loud \cup {"socialFind"}
  BY <1>1 DEF Replies, Awaits, Loud, Resets, Updates
<1> QED BY <1>1, <1>2, AsideBegins, AsideBecomes

LEMMA OpeningLonely ==
  ASSUME AccountInv, LonelyInv, NEW r \in Request, NEW u \in UserId \cup {None}, SessionsNamed',
         \/ \E op : Begins(r, op, Opening(u)) /\ op # "reset"
         \/ Becomes(r, Opening(u)) /\ req[r].pc \in Awaits
              /\ (req[r].pc \notin Resets \/ req[r].after = "session")
  PROVE  LonelyInv'
<1>1. Opening(u) \in Call /\ Opening(u).pc = "openSession"
  BY OpeningIs
<1>2. Opening(u).pc \notin Loud \cup {"socialFind"}
  BY <1>1 DEF Loud, Resets, Updates
<1> QED BY <1>1, <1>2, AsideBegins, AsideBecomes

LEMMA CreatingLonely ==
  ASSUME AccountInv, LonelyInv, NEW r \in Request, NEW call \in Call, NEW user \in User,
         NEW after \in {"answer", "mail", "reload"}, SessionsNamed',
         \/ \E op : Begins(r, op, Creating(call, user, after)) /\ op # "reset"
         \/ Becomes(r, Creating(call, user, after)) /\ req[r].pc \in Awaits \ Resets
  PROVE  LonelyInv'
<1>1. CASE Creating(call, user, after) = Answer("error")
  BY <1>1, AnswerLonely, PcGroups
<1>2. CASE Creating(call, user, after) = [call EXCEPT !.pc = "insert", !.new = user, !.after = after]
  <2> DEFINE new == [call EXCEPT !.pc = "insert", !.new = user, !.after = after]
  <2>1. new \in Call /\ new.pc = "insert"
    BY DEF Call, Awaits
  <2>2. Creating(call, user, after) = new
    BY <1>2
  <2> HIDE DEF new
  <2>3. new.pc \notin Loud \cup {"socialFind"}
    BY <2>1 DEF Loud, Resets, Updates
  <2> QED BY <2>1, <2>2, <2>3, AsideBegins, AsideBecomes
<1> QED BY <1>1, <1>2 DEF Creating

-----------------------------------------------------------------------------
(* users.service                                                           *)

LEMMA CreateUserLonely ==
  ASSUME AccountInv, LonelyInv, NEW r \in Request, CreateUser(r)
  PROVE  LonelyInv'
<1>1. PICK user \in User : Begins(r, "createUser", Creating(Fresh, user, "answer"))
  BY FromBodyIs DEF CreateUser
<1>2. SessionsNamed'
  BY SameSessions DEF CreateUser, docs
<1> QED BY <1>1, <1>2, FreshIs, CreatingLonely

LEMMA PatchUserLonely ==
  ASSUME AccountInv, LonelyInv, NEW r \in Request, PatchUser(r)
  PROVE  LonelyInv'
<1>1. PICK u \in UserId :
        \/ \E e \in Email : Patch(r, "patchEmail", u, [NoChange EXCEPT !.email = e])
        \/ \E p \in Password : Patch(r, "patchPassword", u, [NoChange EXCEPT !.password = p])
        \/ \E x \in RoleEnum : Patch(r, "patchRole", u, [NoChange EXCEPT !.role = x])
        \/ \E s \in StatusEnum : Patch(r, "patchStatus", u, [NoChange EXCEPT !.status = s])
        \/ \E body \in UserBody :
             Patch(r, "patchProvider", u,
                   [NoChange EXCEPT !.provider = body.provider, !.social = body.social])
        \/ Patch(r, "patchUnknown", u, [NoChange EXCEPT !.valid = FALSE])
  BY DEF PatchUser
<1> DEFINE Patched(dto, op) ==
             /\ dto \in UpdateDto
             /\ dto.email = Keep \/ "email" \in About(op)
             /\ dto.password = Keep \/ "password" \in About(op)
             /\ dto.role = Keep \/ "role" \in About(op)
             /\ dto.status = Keep \/ "status" \in About(op)
             /\ dto.provider = Keep \/ "provider" \in About(op)
             /\ dto.social = Keep \/ "social" \in About(op)
<1>2. \A e \in Email : Patched([NoChange EXCEPT !.email = e], "patchEmail")
  BY DEF NoChange, UpdateDto, About
<1>3. \A p \in Password : Patched([NoChange EXCEPT !.password = p], "patchPassword")
  BY DEF NoChange, UpdateDto, About, Hash
<1>4. \A x \in RoleEnum : Patched([NoChange EXCEPT !.role = x], "patchRole")
  BY DEF NoChange, UpdateDto, About
<1>5. \A s \in StatusEnum : Patched([NoChange EXCEPT !.status = s], "patchStatus")
  BY DEF NoChange, UpdateDto, About
<1>6. Patched([NoChange EXCEPT !.valid = FALSE], "patchUnknown")
  BY DEF NoChange, UpdateDto, About
<1>9. \A x \in Provider, g \in SocialId \cup {None} :
        Patched([NoChange EXCEPT !.provider = x, !.social = g], "patchProvider")
  BY DEF NoChange, UpdateDto, About
<1>10. \A body \in UserBody : body.provider \in Provider /\ body.social \in SocialId \cup {None}
  BY BodyAssumption
<1> HIDE DEF Patched
<1>7. PICK op, dto : Patch(r, op, u, dto) /\ op # "reset" /\ Patched(dto, op)
  BY <1>1, <1>2, <1>3, <1>4, <1>5, <1>6, <1>9, <1>10
<1>8. dto \in UpdateDto /\ Fits(u, dto, op)
  BY <1>7 DEF Patched, Fits
<1> QED BY <1>7, <1>8, UpdateBegins DEF Patch

\* What becomes of the hash that an update sends.
LEMMA HashPasswordIs ==
  ASSUME AccountInv, NEW r \in Request, HashPassword(r)
  PROVE  /\ req[r] \in Call /\ req[r].pc = "updatePassword" /\ Claims(req[r], req[r].op, followed)
         /\ InFlight(r) /\ UNCHANGED <<users, sessions>>
         /\ \E dto \in UpdateDto, pc \in {"updateEmail", "updateWrite"} :
              /\ Becomes(r, [req[r] EXCEPT !.dto = dto, !.pc = pc])
              /\ dto.hashed = req[r].dto.hashed /\ dto.status = req[r].dto.status
              /\ dto.email = req[r].dto.email /\ dto.role = req[r].dto.role
              /\ dto.provider = req[r].dto.provider /\ dto.social = req[r].dto.social
              /\ dto.password =
                   IF ~users[req[r].user].exists
                        \/ (req[r].dto.hashed /\ users[req[r].user].password = req[r].dto.password)
                   THEN Keep
                   ELSE IF req[r].dto.hashed THEN "scrambled" ELSE req[r].dto.password
<1>0. req[r] \in Call /\ req[r].pc = "updatePassword" /\ Claims(req[r], req[r].op, followed) /\ InFlight(r)
  BY DEF HashPassword, At, AccountInv, TypeOK, InFlight, Awaits
<1>1. PICK stored, pc :
        /\ stored = IF ~users[req[r].user].exists
                         \/ (req[r].dto.hashed /\ users[req[r].user].password = req[r].dto.password)
                    THEN Keep
                    ELSE IF req[r].dto.hashed THEN "scrambled" ELSE req[r].dto.password
        /\ pc \in {"updateEmail", "updateWrite"}
        /\ Becomes(r, [req[r] EXCEPT !.dto.password = stored, !.pc = pc])
  BY DEF HashPassword, AfterPassword
<1>2. stored \in Hash \cup {Keep}
  BY <1>0, <1>1 DEF Call, UpdateDto, Hash
<1> DEFINE dto == [req[r].dto EXCEPT !.password = stored]
<1>3. /\ dto \in UpdateDto /\ dto.password = stored /\ dto.hashed = req[r].dto.hashed
      /\ dto.status = req[r].dto.status /\ dto.email = req[r].dto.email /\ dto.role = req[r].dto.role
      /\ dto.provider = req[r].dto.provider /\ dto.social = req[r].dto.social
  BY <1>0, <1>2 DEF Call, UpdateDto
<1>4. Becomes(r, [req[r] EXCEPT !.dto = dto, !.pc = pc])
  BY <1>1
<1> HIDE DEF dto
<1>5. UNCHANGED <<users, sessions>>
  BY DEF HashPassword, docs
<1> QED BY <1>0, <1>1, <1>3, <1>4, <1>5

\* The hash is written as it was read unless the call is about the password.
LEMMA HashPasswordLonely ==
  ASSUME AccountInv, LonelyInv, NEW r \in Request, HashPassword(r)
  PROVE  LonelyInv'
<1>0. req[r] \in Call /\ req[r].pc = "updatePassword" /\ Claims(req[r], req[r].op, followed) /\ InFlight(r)
  BY HashPasswordIs
<1>1. PICK dto \in UpdateDto, pc \in {"updateEmail", "updateWrite"} :
        /\ Becomes(r, [req[r] EXCEPT !.dto = dto, !.pc = pc])
        /\ dto.hashed = req[r].dto.hashed /\ dto.status = req[r].dto.status
        /\ dto.email = req[r].dto.email /\ dto.role = req[r].dto.role
        /\ dto.provider = req[r].dto.provider /\ dto.social = req[r].dto.social
        /\ dto.password =
             IF ~users[req[r].user].exists
                  \/ (req[r].dto.hashed /\ users[req[r].user].password = req[r].dto.password)
             THEN Keep
             ELSE IF req[r].dto.hashed THEN "scrambled" ELSE req[r].dto.password
  BY HashPasswordIs
<1> DEFINE next == [req[r] EXCEPT !.dto = dto, !.pc = pc]
<1>5. /\ next \in Call /\ next.pc = pc /\ next.dto = dto /\ next.user = req[r].user
      /\ next.after = req[r].after
  BY <1>0, <1>1 DEF Call, Awaits
<1>6. Becomes(r, next)
  BY <1>1
<1> HIDE DEF next
<1>7. PICK call, op, now : call = next /\ op = req[r].op /\ now = Named(call, op)
  OBVIOUS
<1>8. op \in Ops \cup {"none"} /\ call \in Call /\ Becomes(r, call)
  BY <1>0, <1>5, <1>6, <1>7 DEF Call
<1>9. /\ now.pc = pc /\ (call.pc \in Awaits => now.op = op) /\ now.dto = dto
      /\ now.user = req[r].user /\ now.after = req[r].after
  BY <1>5, <1>7, <1>8, NamedIs
<1>10. UNCHANGED <<users, sessions>>
  BY HashPasswordIs
<1>11. ASSUME call.pc \in Awaits, ~overlapped'
       PROVE  Relies(now)'
  <2>1. Relies(req[r])
    BY <1>0, <1>6, <1>11 DEF Becomes, LonelyInv
  <2>2. Fits(req[r].user, req[r].dto, op)
    BY <1>0, <1>7, <2>1 DEF Relies, Loud, Resets, Updates
  <2>3. users[req[r].user].exists => dto.password = Keep \/ "password" \in About(op)
    BY <1>0, <1>1, <2>1, <2>2 DEF Fits, Relies
  <2>4. Fits(req[r].user, dto, op)
    BY <1>1, <2>2, <2>3 DEF Fits
  <2>5. Fits(now.user, now.dto, now.op)'
    BY <1>9, <1>10, <1>11, <2>4 DEF Fits
  <2>6. ResetCall(req[r])
    BY <2>1 DEF Relies
  <2>7. ASSUME op = "reset"
        PROVE  /\ req[r].after = "answer" /\ req[r].user \in UserId /\ users[req[r].user].exists
               /\ ~dto.hashed /\ dto.password \in Password /\ SignedOut(req[r].user)
    BY <1>0, <1>1, <1>7, <2>6, <2>7 DEF ResetCall, Updates
  <2>8. SignedOut(now.user)' <=> SignedOut(req[r].user)
    BY <1>9, <1>10 DEF SignedOut
  <2>9. ResetCall(now)'
    BY <1>1, <1>9, <1>10, <1>11, <2>7, <2>8 DEF ResetCall, Resets, Updates
  <2> QED BY <1>1, <1>9, <2>5, <2>9 DEF Relies
<1>12. SessionsNamed'
  BY <1>10, SameSessions
<1> QED BY <1>0, <1>7, <1>8, <1>11, <1>12, LonelyMove

\* A call that goes on with what it has read and its documents as they are.
LEMMA OnwardLonely ==
  ASSUME AccountInv, LonelyInv, NEW r \in Request, UNCHANGED docs, NEW pc,
         \/ req[r].pc \in Updates /\ pc = "updateWrite"
         \/ req[r].pc = "meEmail" /\ pc = "mailNewEmail"
         \/ req[r].pc = "refreshUser" /\ pc = "refreshWrite"
         \/ req[r].pc = "socialFind" /\ pc = "socialCreate",
         Becomes(r, [req[r] EXCEPT !.pc = pc])
  PROVE  LonelyInv'
<1>0. req[r] \in Call /\ InFlight(r) /\ pc \in Awaits
  BY DEF AccountInv, TypeOK, InFlight, Awaits, Updates
<1> DEFINE next == [req[r] EXCEPT !.pc = pc]
<1>1. /\ next \in Call /\ next.pc = pc /\ next.dto = req[r].dto /\ next.user = req[r].user
      /\ next.after = req[r].after /\ next.session = req[r].session
  BY <1>0 DEF Call
<1>2. Becomes(r, next)
  OBVIOUS
<1> HIDE DEF next
<1>3. PICK call, old, now : call = next /\ old = req[r] /\ now = Named(call, req[r].op)
  OBVIOUS
<1>4. old.op \in Ops \cup {"none"}
  BY <1>0, <1>3 DEF Call
<1>5. /\ now.pc = pc /\ now.op = old.op /\ now.dto = old.dto /\ now.user = old.user
      /\ now.after = old.after /\ now.session = old.session
  BY <1>0, <1>1, <1>3, <1>4, NamedIs
<1>6. ASSUME ~overlapped'
      PROVE  Relies(now)'
  <2>1. Relies(old)
    BY <1>0, <1>2, <1>3, <1>6 DEF Becomes, LonelyInv
  <2>2. Relies(old)'
    BY <2>1 DEF docs, Relies, Fits, ResetCall, SignedOut
  <2> QED BY <1>3, <1>5, <2>2 DEF Relies, ResetCall, Loud, Resets, Updates
<1>7. SessionsNamed'
  BY SameSessions DEF docs
<1> QED BY <1>0, <1>1, <1>2, <1>3, <1>6, <1>7, LonelyMove

LEMMA FindEmailOwnerLonely ==
  ASSUME AccountInv, LonelyInv, NEW r \in Request, FindEmailOwner(r)
  PROVE  LonelyInv'
<1>1. req[r].pc \in Awaits \cap Updates /\ UNCHANGED docs
  BY DEF FindEmailOwner, At, Awaits, Updates
<1>2. Becomes(r, Answer("error")) \/ Becomes(r, [req[r] EXCEPT !.pc = "updateWrite"])
  BY DEF FindEmailOwner
<1>3. SessionsNamed'
  BY <1>1, SameSessions DEF docs
<1> QED BY <1>1, <1>2, <1>3, AnswerLonely, OnwardLonely, PcGroups

-----------------------------------------------------------------------------
(* The documents that are written                                          *)

LEMMA InsertUserLonely ==
  ASSUME AccountInv, LonelyInv, NEW r \in Request, InsertUser(r)
  PROVE  LonelyInv'
<1>1. req[r] \in Call /\ req[r].pc = "insert" /\ req[r].pc \in Awaits \ Resets
  BY DEF InsertUser, At, AccountInv, TypeOK, Awaits, Resets, Updates
<1>2. SessionsNamed'
  BY SameSessions DEF InsertUser
<1>3. Claims(req[r], req[r].op, followed)
  BY DEF AccountInv
<1>4. req[r].after \in {"answer", "mail", "reload"}
  BY <1>1, <1>3 DEF Claims, Call
<1>5. PICK call : /\ Becomes(r, call)
                  /\ \/ call \in {Answer("error"), Answer("ok")}
                     \/ call = [Fresh EXCEPT !.pc = "mailConfirm", !.user = r]
                     \/ call = [Fresh EXCEPT !.pc = "reload", !.user = r]
  <2>1. CASE Becomes(r, Answer("error"))
    BY <2>1
  <2>2. CASE req[r].after = "answer" /\ Becomes(r, Answer("ok"))
    BY <2>2
  <2>3. CASE req[r].after = "mail" /\ Becomes(r, [Fresh EXCEPT !.pc = "mailConfirm", !.user = r])
    BY <2>3
  <2>4. CASE req[r].after = "reload" /\ Becomes(r, [Fresh EXCEPT !.pc = "reload", !.user = r])
    BY <2>4
  <2> QED BY <1>4, <2>1, <2>2, <2>3, <2>4 DEF InsertUser
<1>6. CASE call \in {Answer("error"), Answer("ok")}
  BY <1>1, <1>2, <1>5, <1>6, AnswerLonely, PcGroups
<1>7. CASE call \notin {Answer("error"), Answer("ok")}
  <2>1. r \in UserId
    BY DEF UserId
  <2>2. call \in Call /\ call.pc \in {"mailConfirm", "reload"}
    BY <1>5, <1>7, <2>1, FreshIs DEF Call, Awaits
  <2>3. call.pc \notin Loud \cup {"socialFind"}
    BY <2>2 DEF Loud, Resets, Updates
  <2> QED BY <1>1, <1>2, <1>5, <2>2, <2>3, AsideBecomes
<1> QED BY <1>6, <1>7

LEMMA WriteUserLonely ==
  ASSUME AccountInv, LonelyInv, NEW r \in Request, WriteUser(r)
  PROVE  LonelyInv'
<1>1. req[r] \in Call /\ req[r].pc \in Awaits
  BY DEF WriteUser, At, AccountInv, TypeOK, Awaits
<1>2. SessionsNamed'
  BY SameSessions DEF WriteUser
<1>3. PICK u : u = req[r].user /\ u \in UserId \cup {None}
  BY <1>1 DEF Call
<1>4. \/ Becomes(r, Answer("error")) \/ Becomes(r, Answer("ok"))
      \/ req[r].after = "session" /\ Becomes(r, Opening(u))
  BY <1>3 DEF WriteUser, Done
<1> QED BY <1>1, <1>2, <1>3, <1>4, AnswerLonely, OpeningLonely, PcGroups

LEMMA RemoveUserLonely ==
  ASSUME AccountInv, LonelyInv, NEW r \in Request, RemoveUser(r)
  PROVE  LonelyInv'
<1>1. SessionsNamed'
  BY SameSessions DEF RemoveUser
<1> QED BY <1>1, AnswerLonely, PcGroups DEF RemoveUser

LEMMA OpenSessionLonely ==
  ASSUME AccountInv, LonelyInv, NEW r \in Request, OpenSession(r)
  PROVE  /\ LonelyInv'
         /\ req'[r].session = r /\ sessions'[r].state = "open" /\ sessions'[r].hash = r
<1>1. req[r].pc \in Awaits /\ Becomes(r, Signed(r))
      /\ sessions \in [Request -> Session] /\ req \in [Request -> Call]
  BY DEF OpenSession, At, Awaits, AccountInv, TypeOK
<1>2. sessions' = [sessions EXCEPT ![r] = [state |-> "open", user |-> req[r].user, hash |-> r]]
  BY DEF OpenSession
<1>3. /\ sessions'[r].state = "open" /\ sessions'[r].hash = r
      /\ \A s \in Request \ {r} : sessions'[s] = sessions[s]
  BY <1>1, <1>2
<1>4. SessionsNamed'
  BY <1>3 DEF LonelyInv, SessionsNamed
<1>5. Signed(r) \in Call /\ Signed(r).pc = "ok" /\ Signed(r).session = r
  BY SignedIs
<1>6. Signed(r).pc \notin Awaits \cup Loud \cup {"socialFind"}
  BY <1>5 DEF Awaits, Loud, Resets, Updates
<1>7. LonelyInv'
  BY <1>1, <1>4, <1>5, <1>6, AsideBecomes
<1>8. req[r].op \in Ops \cup {"none"}
  BY <1>1 DEF Call
<1>9. PICK now : now = Named(Signed(r), req[r].op)
  OBVIOUS
<1>10. now.session = r
  BY <1>5, <1>8, <1>9, NamedIs
<1>11. req'[r] = now
  BY <1>1, <1>9 DEF Becomes
<1> QED BY <1>3, <1>7, <1>10, <1>11

\* The sessions of a user who resets the password have ended before it is written.
LEMMA EndSessionsLonely ==
  ASSUME AccountInv, LonelyInv, NEW r \in Request, EndSessions(r)
  PROVE  LonelyInv'
<1>1. req[r] \in Call /\ req[r].pc = "endSessions" /\ InFlight(r)
  BY DEF EndSessions, At, AccountInv, TypeOK, InFlight, Awaits
<1>2. PICK u, dto, S : u = req[r].user /\ dto = req[r].dto /\ S = SessionsOf(u)
  OBVIOUS
<1>3. u \in UserId \cup {None} /\ dto \in UpdateDto
  BY <1>1, <1>2 DEF Call
<1>4. sessions' = End(S) /\ UNCHANGED users /\ Becomes(r, Updating(u, dto, "answer"))
  BY <1>2 DEF EndSessions
<1>5. \A s \in Request : /\ sessions'[s].state = (IF s \in S THEN "ended" ELSE sessions[s].state)
                         /\ sessions'[s].user = sessions[s].user
  BY <1>4, EndIs
<1>6. SessionsNamed'
  BY <1>5 DEF LonelyInv, SessionsNamed
<1>7. ASSUME ~overlapped
      PROVE  /\ Fits(u, dto, req[r].op)
             /\ req[r].op = "reset" =>
                  /\ u \in UserId /\ users[u].exists /\ ~dto.hashed /\ dto.password \in Password
                  /\ SignedOut(u)'
  <2>1. Relies(req[r])
    BY <1>1, <1>7 DEF LonelyInv
  <2>2. Fits(u, dto, req[r].op)
    BY <1>1, <1>2, <2>1 DEF Relies, Loud, Resets
  <2>3. ASSUME u \in UserId, NEW s \in Request, sessions'[s].user = u
        PROVE  sessions'[s].state = "ended"
    <3>1. sessions[s].user = u /\ sessions[s] \in Session
      BY <1>5, <2>3 DEF AccountInv, TypeOK
    <3>2. sessions[s].state \in {"open", "ended"}
      BY <2>3, <3>1, AccountAssumption DEF LonelyInv, SessionsNamed, Session, UserId
    <3>3. sessions[s].state = "open" => s \in S
      BY <1>2, <3>1 DEF SessionsOf
    <3> QED BY <1>5, <3>2, <3>3
  <2>4. u \in UserId => SignedOut(u)'
    BY <2>3 DEF SignedOut
  <2> QED BY <1>2, <2>1, <2>2, <2>4 DEF Relies, ResetCall
<1> QED BY <1>1, <1>3, <1>4, <1>6, <1>7, UpdateBecomes DEF InFlight

LEMMA LogoutLonely ==
  ASSUME AccountInv, LonelyInv, NEW r \in Request, Logout(r)
  PROVE  LonelyInv'
<1>1. PICK S : sessions' = End(S)
  BY DEF Logout
<1>2. SessionsNamed'
  BY <1>1, EndIs DEF LonelyInv, SessionsNamed
<1> QED BY <1>2, AnswerLonely, PcGroups DEF Logout

\* A refresh finds its session open still.
LEMMA RefreshSessionLonely ==
  ASSUME AccountInv, LonelyInv, NEW r \in Request, RefreshSession(r)
  PROVE  /\ LonelyInv'
         /\ ~overlapped =>
              /\ req'[r].session \in Request /\ sessions'[req'[r].session].state = "open"
              /\ sessions'[req'[r].session].hash = r
<1>1. req[r].pc = "refreshWrite" /\ req[r].pc \in Awaits /\ req \in [Request -> Call]
  BY DEF RefreshSession, At, Awaits, AccountInv, TypeOK
<1>2. PICK s : s = req[r].session
  OBVIOUS
<1>3. /\ s \in Request \cup {None}
      /\ \A t \in Request : /\ sessions'[t].state = sessions[t].state
                            /\ sessions'[t].user = sessions[t].user
                            /\ sessions'[t].hash =
                                 (IF t = s /\ sessions[t].state = "open" THEN r
                                  ELSE sessions[t].hash)
  BY <1>2, RefreshSessionIs
<1>4. SessionsNamed'
  BY <1>3 DEF LonelyInv, SessionsNamed
<1>5. Signed(s) \in Call /\ Signed(s).pc = "ok" /\ Signed(s).session = s
  BY <1>3, SignedIs
<1>6. Signed(s).pc \notin Awaits \cup Loud \cup {"socialFind"}
  BY <1>5 DEF Awaits, Loud, Resets, Updates
<1>7. Becomes(r, Signed(s))
  BY <1>2 DEF RefreshSession
<1>8. LonelyInv'
  BY <1>1, <1>4, <1>5, <1>6, <1>7, AsideBecomes
<1>9. PICK now : now = Named(Signed(s), req[r].op)
  OBVIOUS
<1>10. now.session = s
  BY <1>1, <1>5, <1>9, NamedIs DEF Call
<1>11. req'[r] = now
  BY <1>1, <1>7, <1>9 DEF Becomes
<1>12. ~overlapped => s \in Request /\ sessions[s].state = "open"
  BY <1>1, <1>2 DEF LonelyInv, Relies, InFlight
<1> QED BY <1>3, <1>8, <1>10, <1>11, <1>12

-----------------------------------------------------------------------------
(* auth.service                                                            *)

\* A document that was read whole would change nothing, but for the fields it is sent with.
LEMMA WholeFits ==
  ASSUME AccountInv, NEW u \in UserId, NEW dto \in UpdateDto, NEW op,
         dto.email = Whole(u).email \/ "email" \in About(op),
         dto.role = Whole(u).role, dto.provider = Whole(u).provider, dto.social = Whole(u).social,
         dto.status = Whole(u).status \/ "status" \in About(op),
         dto.password = Keep \/ (dto.hashed /\ dto.password = users[u].password)
           \/ "password" \in About(op)
  PROVE  Fits(u, dto, op)
<1>1. Whole(u).email = users[u].email /\ Whole(u).role = users[u].role
      /\ Whole(u).status = users[u].status /\ Whole(u).provider = users[u].provider
      /\ Whole(u).social = users[u].social
  BY DEF Whole, NoChange
<1> QED BY <1>1 DEF Fits

LEMMA LoginLonely ==
  ASSUME AccountInv, LonelyInv, NEW r \in Request, Login(r)
  PROVE  LonelyInv'
<1>1. \/ Begins(r, "login", Answer("error"))
      \/ \E u \in UserId : Begins(r, "login", Opening(u))
  BY DEF Login, WithEmail
<1>2. SessionsNamed'
  BY SameSessions DEF Login, docs
<1> QED BY <1>1, <1>2, AnswerLonely, OpeningLonely, PcGroups

LEMMA SocialLoginLonely ==
  ASSUME AccountInv, LonelyInv, NEW r \in Request, SocialLogin(r)
  PROVE  LonelyInv'
<1>1. PICK profile \in Profile :
        LET e == profile.email
            call == [Fresh EXCEPT !.pc = "socialFind", !.new = SocialUser(profile)]
        IN IF e = None \/ WithEmail(e) = {} THEN Begins(r, "social", call)
           ELSE \E u \in WithEmail(e) :
                  Begins(r, "social", [call EXCEPT !.user = u, !.known = TRUE])
  BY DEF SocialLogin
<1> DEFINE call == [Fresh EXCEPT !.pc = "socialFind", !.new = SocialUser(profile)]
<1>2. call \in Call /\ call.pc = "socialFind"
  BY FreshIs, SocialUserIs DEF Call, Awaits
<1>3. \A u \in UserId : /\ [call EXCEPT !.user = u, !.known = TRUE] \in Call
                        /\ [call EXCEPT !.user = u, !.known = TRUE].pc = "socialFind"
  BY <1>2 DEF Call
<1>4. \/ Begins(r, "social", call)
      \/ \E u \in UserId : Begins(r, "social", [call EXCEPT !.user = u, !.known = TRUE])
  BY <1>1 DEF WithEmail
<1> HIDE DEF call
<1>5. PICK new \in Call : new.pc = "socialFind" /\ Begins(r, "social", new)
  BY <1>2, <1>3, <1>4
<1>6. SessionsNamed'
  BY SameSessions DEF SocialLogin, docs
<1>7. new.pc \notin Loud
  BY <1>5 DEF Loud, Resets, Updates
<1> QED BY <1>5, <1>6, <1>7, AsideBegins

LEMMA SocialRefusedLonely ==
  ASSUME AccountInv, LonelyInv, NEW r \in Request, SocialRefused(r)
  PROVE  LonelyInv'
<1>1. SessionsNamed'
  BY SameSessions DEF SocialRefused, docs
<1> QED BY <1>1, AnswerLonely, PcGroups DEF SocialRefused

\* The document that a social login writes back is the one it has just read.
LEMMA FindSocialLonely ==
  ASSUME AccountInv, LonelyInv, NEW r \in Request, FindSocial(r)
  PROVE  LonelyInv'
<1>0. req[r] \in Call /\ req[r].pc = "socialFind" /\ Claims(req[r], req[r].op, followed) /\ InFlight(r)
  BY DEF FindSocial, At, AccountInv, TypeOK, InFlight, Awaits
<1>1. req[r].new.social \in SocialId /\ req[r].pc \in Awaits \ Resets
  BY <1>0 DEF Claims, Awaits, Resets, Updates
<1> DEFINE dto(u) ==
      [Whole(u) EXCEPT
         !.email = IF req[r].new.email # None /\ ~req[r].known THEN req[r].new.email ELSE @,
         !.password = IF users[u].password = None THEN Keep ELSE users[u].password,
         !.hashed = TRUE]
<1>2. \/ \E u \in WithSocial(req[r].new.social) : Becomes(r, Updating(u, dto(u), "session"))
      \/ req[r].known /\ Becomes(r, Opening(req[r].user))
      \/ Becomes(r, [req[r] EXCEPT !.pc = "socialCreate"])
  BY DEF FindSocial
<1>3. UNCHANGED docs /\ SessionsNamed'
  BY SameSessions DEF FindSocial, docs
<1>4. ~overlapped => req[r].op = "social"
  BY <1>0 DEF LonelyInv, Relies
<1>5. ASSUME NEW u \in WithSocial(req[r].new.social), Becomes(r, Updating(u, dto(u), "session"))
      PROVE  LonelyInv'
  <2>1. u \in UserId
    BY DEF WithSocial
  <2>2. PICK email, password :
          /\ email \in Email \cup {None, Keep}
          /\ password \in Hash \cup {Keep} /\ password \in {Keep, users[u].password}
          /\ dto(u) = [Whole(u) EXCEPT !.email = email, !.password = password, !.hashed = TRUE]
    <3>1. users[u].password \in Hash /\ req[r].new.email \in Email \cup {None}
      BY <1>0, <2>1 DEF AccountInv, TypeOK, User, Call
    <3>2. Whole(u).email \in Email \cup {None, Keep}
      BY <2>1, WholeIs DEF UpdateDto
    <3> QED BY <3>1, <3>2
  <2> DEFINE whole == [Whole(u) EXCEPT !.email = email, !.password = password, !.hashed = TRUE]
  <2>3. /\ whole \in UpdateDto /\ whole.hashed /\ whole.password = password
        /\ whole.status = Whole(u).status /\ whole.role = Whole(u).role
        /\ whole.provider = Whole(u).provider /\ whole.social = Whole(u).social
    BY <2>1, <2>2, WholeIs DEF UpdateDto
  <2>4. Becomes(r, Updating(u, whole, "session"))
    BY <1>5, <2>2
  <2> HIDE DEF whole, dto
  <2>5. "email" \in About("social")
    BY DEF About
  <2>6. Fits(u, whole, "social")
    BY <2>1, <2>2, <2>3, <2>5, WholeFits
  <2> QED BY <1>1, <1>3, <1>4, <2>1, <2>3, <2>4, <2>6, UpdateBecomes DEF docs
<1>6. CASE req[r].known /\ Becomes(r, Opening(req[r].user))
  <2>1. PICK u : u = req[r].user
    OBVIOUS
  <2>2. u \in UserId
    BY <1>0, <1>6, <2>1 DEF Claims
  <2> QED BY <1>1, <1>3, <1>6, <2>1, <2>2, OpeningLonely
<1>7. CASE Becomes(r, [req[r] EXCEPT !.pc = "socialCreate"])
  BY <1>0, <1>3, <1>7, OnwardLonely
<1> HIDE DEF dto
<1> QED BY <1>2, <1>5, <1>6, <1>7

LEMMA CreateSocialLonely ==
  ASSUME AccountInv, LonelyInv, NEW r \in Request, CreateSocial(r)
  PROVE  LonelyInv'
<1>1. req[r] \in Call /\ req[r].pc = "socialCreate" /\ req[r].pc \in Awaits \ Resets
  BY DEF CreateSocial, At, AccountInv, TypeOK, Awaits, Resets, Updates
<1>2. SessionsNamed'
  BY SameSessions DEF CreateSocial, docs
<1>3. PICK call, user : call = req[r] /\ user = req[r].new
  OBVIOUS
<1>4. call \in Call /\ user \in User /\ Becomes(r, Creating(call, user, "reload"))
  BY <1>1, <1>3 DEF Call, CreateSocial
<1> QED BY <1>1, <1>2, <1>4, CreatingLonely

LEMMA ReloadUserLonely ==
  ASSUME AccountInv, LonelyInv, NEW r \in Request, ReloadUser(r)
  PROVE  LonelyInv'
<1>1. req[r].pc \in Awaits \ Resets /\ r \in UserId
  BY DEF ReloadUser, At, Awaits, Resets, Updates, UserId
<1>2. Becomes(r, Opening(r)) \/ Becomes(r, Answer("error"))
  BY DEF ReloadUser
<1>3. SessionsNamed'
  BY SameSessions DEF ReloadUser, docs
<1> QED BY <1>1, <1>2, <1>3, OpeningLonely, AnswerLonely, PcGroups

LEMMA RegisterLonely ==
  ASSUME AccountInv, LonelyInv, NEW r \in Request, Register(r)
  PROVE  LonelyInv'
<1>1. PICK e \in Email, p \in Password :
        Begins(r, "register",
          Creating(Fresh, [NoUser EXCEPT !.self = TRUE, !.email = e, !.password = p], "mail"))
  BY DEF Register
<1> DEFINE user == [NoUser EXCEPT !.self = TRUE, !.email = e, !.password = p]
<1>2. user \in User
  BY DocTypes DEF NoUser, User, Hash
<1>3. Begins(r, "register", Creating(Fresh, user, "mail"))
  BY <1>1
<1>4. SessionsNamed'
  BY SameSessions DEF Register, docs
<1> HIDE DEF user
<1> QED BY <1>2, <1>3, <1>4, FreshIs, CreatingLonely

LEMMA MailConfirmLonely ==
  ASSUME AccountInv, LonelyInv, NEW r \in Request, MailConfirm(r)
  PROVE  LonelyInv'
<1>1. req[r].pc \in Awaits \ Resets /\ r \in UserId
  BY DEF MailConfirm, At, Awaits, Resets, Updates, UserId
<1>2. Becomes(r, Opening(r)) \/ Becomes(r, Answer("error"))
  BY DEF MailConfirm
<1>3. SessionsNamed'
  BY SameSessions DEF MailConfirm
<1> QED BY <1>1, <1>2, <1>3, OpeningLonely, AnswerLonely, PcGroups

LEMMA ConfirmEmailLonely ==
  ASSUME AccountInv, LonelyInv, NEW r \in Request, ConfirmEmail(r)
  PROVE  LonelyInv'
<1>1. PICK link \in confirmLinks :
        \/ Begins(r, "confirm", Updating(link[1], [Whole(link[1]) EXCEPT !.status = "active"], "answer"))
        \/ Begins(r, "confirm", Answer("error"))
  BY DEF ConfirmEmail
<1>2. PICK u : u = link[1]
  OBVIOUS
<1>3. u \in UserId
  BY <1>2, LinkIs
<1> DEFINE whole == [Whole(u) EXCEPT !.status = "active"]
<1>4. /\ whole \in UpdateDto /\ whole.password = Keep
      /\ whole.email = Whole(u).email /\ whole.role = Whole(u).role
      /\ whole.provider = Whole(u).provider /\ whole.social = Whole(u).social
  BY <1>3, WholeIs DEF UpdateDto, StatusEnum
<1>5. Begins(r, "confirm", Updating(u, whole, "answer")) \/ Begins(r, "confirm", Answer("error"))
  BY <1>1, <1>2
<1> HIDE DEF whole
<1>6. "status" \in About("confirm")
  BY DEF About
<1>7. Fits(u, whole, "confirm")
  BY <1>3, <1>4, <1>6, WholeFits
<1>8. UNCHANGED docs /\ SessionsNamed'
  BY SameSessions DEF ConfirmEmail, docs
<1> QED BY <1>3, <1>4, <1>5, <1>7, <1>8, UpdateBegins, AnswerLonely, PcGroups

LEMMA ConfirmNewEmailLonely ==
  ASSUME AccountInv, LonelyInv, NEW r \in Request, ConfirmNewEmail(r)
  PROVE  LonelyInv'
<1>1. PICK link \in confirmLinks :
        \/ Begins(r, "confirmNew",
             Updating(link[1], [Whole(link[1]) EXCEPT !.status = "active", !.email = link[2]], "answer"))
        \/ Begins(r, "confirmNew", Answer("error"))
  BY DEF ConfirmNewEmail
<1>2. PICK u, e : u = link[1] /\ e = link[2]
  OBVIOUS
<1>3. u \in UserId /\ e \in Email \cup {Keep}
  BY <1>2, LinkIs
<1> DEFINE whole == [Whole(u) EXCEPT !.status = "active", !.email = e]
<1>4. /\ whole \in UpdateDto /\ whole.password = Keep /\ whole.role = Whole(u).role
      /\ whole.provider = Whole(u).provider /\ whole.social = Whole(u).social
  BY <1>3, WholeIs DEF UpdateDto, StatusEnum
<1>5. Begins(r, "confirmNew", Updating(u, whole, "answer")) \/ Begins(r, "confirmNew", Answer("error"))
  BY <1>1, <1>2
<1> HIDE DEF whole
<1>6. "status" \in About("confirmNew") /\ "email" \in About("confirmNew")
  BY DEF About
<1>7. Fits(u, whole, "confirmNew")
  BY <1>3, <1>4, <1>6, WholeFits
<1>8. UNCHANGED docs /\ SessionsNamed'
  BY SameSessions DEF ConfirmNewEmail, docs
<1> QED BY <1>3, <1>4, <1>5, <1>7, <1>8, UpdateBegins, AnswerLonely, PcGroups

LEMMA ForgotPasswordLonely ==
  ASSUME AccountInv, LonelyInv, NEW r \in Request, ForgotPassword(r)
  PROVE  LonelyInv'
<1>1. \/ Begins(r, "forgot", Answer("error"))
      \/ \E u \in UserId : Begins(r, "forgot", [Fresh EXCEPT !.pc = "mailReset", !.user = u])
  BY DEF ForgotPassword, WithEmail
<1>2. SessionsNamed'
  BY SameSessions DEF ForgotPassword, docs
<1>3. ASSUME NEW u \in UserId, Begins(r, "forgot", [Fresh EXCEPT !.pc = "mailReset", !.user = u])
      PROVE  LonelyInv'
  <2> DEFINE call == [Fresh EXCEPT !.pc = "mailReset", !.user = u]
  <2>1. call \in Call /\ call.pc = "mailReset"
    BY FreshIs DEF Call, Awaits
  <2>2. Begins(r, "forgot", call)
    BY <1>3
  <2> HIDE DEF call
  <2>3. call.pc \notin Loud
    BY <2>1 DEF Loud, Resets, Updates
  <2> QED BY <1>2, <2>1, <2>2, <2>3, AsideBegins
<1> QED BY <1>1, <1>2, <1>3, AnswerLonely, PcGroups

LEMMA MailResetLonely ==
  ASSUME AccountInv, LonelyInv, NEW r \in Request, MailReset(r)
  PROVE  LonelyInv'
<1>1. req[r].pc \in Awaits
  BY DEF MailReset, At, Awaits
<1>2. Becomes(r, Answer("ok")) \/ Becomes(r, Answer("error"))
  BY DEF MailReset
<1>3. SessionsNamed'
  BY SameSessions DEF MailReset
<1> QED BY <1>1, <1>2, <1>3, AnswerLonely, PcGroups

LEMMA ResetPasswordLonely ==
  ASSUME AccountInv, LonelyInv, NEW r \in Request, ResetPassword(r)
  PROVE  LonelyInv'
<1>1. PICK u \in resetLinks, p \in Password :
        Begins(r, "reset",
          IF users[u].exists
          THEN [Fresh EXCEPT !.pc = "endSessions", !.user = u, !.dto = [Whole(u) EXCEPT !.password = p]]
          ELSE Answer("error"))
  BY DEF ResetPassword
<1>2. u \in UserId
  BY DEF AccountInv, TypeOK
<1>3. UNCHANGED docs /\ SessionsNamed'
  BY SameSessions DEF ResetPassword, docs
<1>4. CASE users[u].exists
  <2> DEFINE whole == [Whole(u) EXCEPT !.password = p]
  <2>1. /\ whole \in UpdateDto /\ ~whole.hashed /\ whole.password \in Password
        /\ whole.email = Whole(u).email /\ whole.role = Whole(u).role
        /\ whole.provider = Whole(u).provider /\ whole.social = Whole(u).social
        /\ whole.status = Whole(u).status
    BY <1>2, WholeIs DEF UpdateDto, Hash
  <2>2. Begins(r, "reset", [Fresh EXCEPT !.pc = "endSessions", !.user = u, !.dto = whole])
    BY <1>1, <1>4
  <2> HIDE DEF whole
  <2> DEFINE next == [Fresh EXCEPT !.pc = "endSessions", !.user = u, !.dto = whole]
  <2>3. /\ next \in Call /\ next.pc = "endSessions" /\ next.dto = whole
        /\ next.after = "answer" /\ next.user = u
    BY <1>2, <2>1, FreshIs DEF Call, Awaits
  <2>4. Begins(r, "reset", next)
    BY <2>2
  <2> HIDE DEF next
  <2>5. PICK call, now : call = next /\ now = Named(call, "reset")
    OBVIOUS
  <2>6. /\ now.pc = "endSessions" /\ now.op = "reset" /\ now.dto = whole
        /\ now.after = "answer" /\ now.user = u
    BY <2>3, <2>4, <2>5, NamedIs DEF Begins, Awaits
  <2>7. "password" \in About("reset")
    BY DEF About
  <2>8. Fits(u, whole, "reset")
    BY <1>2, <2>1, <2>7, WholeFits
  <2>9. Relies(now)
    BY <1>2, <1>4, <2>1, <2>6, <2>8 DEF Relies, ResetCall, Resets, Updates
  <2>10. Relies(now)'
    BY <1>3, <2>9 DEF docs, Relies, Fits, ResetCall, SignedOut
  <2> QED BY <1>3, <2>3, <2>4, <2>5, <2>10, LonelyMove
<1> QED BY <1>1, <1>3, <1>4, AnswerLonely, PcGroups

\* An update of one's own profile writes nothing itself.
LEMMA UpdateMeLonely ==
  ASSUME AccountInv, LonelyInv, NEW r \in Request, UpdateMe(r)
  PROVE  LonelyInv'
<1>1. PICK s \in AccessTokens, e \in Email \cup {Keep}, password \in BOOLEAN, valid \in BOOLEAN :
        LET u == sessions[s].user
            dto == [NoChange EXCEPT !.valid = valid]
        IN Begins(r, "updateMe",
             IF ~users[u].exists \/ password THEN Answer("error")
             ELSE IF e \in {Keep, users[u].email} THEN Updating(u, dto, "answer")
             ELSE [Fresh EXCEPT !.pc = "meEmail", !.user = u, !.new.email = e, !.dto = dto])
  BY DEF UpdateMe
<1>2. PICK u : u = sessions[s].user
  OBVIOUS
<1>3. u \in UserId
  BY <1>2, HeldIsOwned
<1> DEFINE dto == [NoChange EXCEPT !.valid = valid]
           user == [NoUser EXCEPT !.email = e]
<1>4. /\ dto \in UpdateDto /\ dto.password = Keep /\ dto.email = Keep /\ dto.role = Keep
      /\ dto.status = Keep /\ dto.provider = Keep /\ dto.social = Keep
  BY DocTypes, AccountAssumption DEF NoChange, UpdateDto
<1>5. Begins(r, "updateMe",
        IF ~users[u].exists \/ password THEN Answer("error")
        ELSE IF e \in {Keep, users[u].email} THEN Updating(u, dto, "answer")
        ELSE [Fresh EXCEPT !.pc = "meEmail", !.user = u, !.new.email = e, !.dto = dto])
  BY <1>1, <1>2
<1> HIDE DEF dto
<1>6. Fits(u, dto, "updateMe")
  BY <1>4 DEF Fits
<1>7. UNCHANGED docs /\ SessionsNamed'
  BY SameSessions DEF UpdateMe, docs
<1>8. CASE Begins(r, "updateMe", Updating(u, dto, "answer"))
  BY <1>3, <1>4, <1>6, <1>7, <1>8, UpdateBegins
<1>9. CASE /\ e \in Email
           /\ Begins(r, "updateMe",
                     [Fresh EXCEPT !.pc = "meEmail", !.user = u, !.new.email = e, !.dto = dto])
  <2>1. [Fresh EXCEPT !.pc = "meEmail", !.user = u, !.new.email = e, !.dto = dto]
          = [Fresh EXCEPT !.pc = "meEmail", !.user = u, !.new = user, !.dto = dto]
    BY DEF Fresh
  <2>2. user \in User
    BY <1>9, DocTypes DEF User
  <2> HIDE DEF user
  <2> DEFINE next == [Fresh EXCEPT !.pc = "meEmail", !.user = u, !.new = user, !.dto = dto]
  <2>3. next \in Call /\ next.pc = "meEmail" /\ next.dto = dto /\ next.user = u
    BY <1>3, <1>4, <2>2, FreshIs DEF Call, Awaits
  <2>4. Begins(r, "updateMe", next)
    BY <1>9, <2>1
  <2> HIDE DEF next
  <2>5. PICK call, now : call = next /\ now = Named(call, "updateMe")
    OBVIOUS
  <2>6. now.pc = "meEmail" /\ now.op = "updateMe" /\ now.dto = dto /\ now.user = u
    BY <2>3, <2>4, <2>5, NamedIs DEF Begins, Awaits
  <2>7. Relies(now)
    BY <1>6, <2>6 DEF Relies, ResetCall
  <2>8. Relies(now)'
    BY <1>7, <2>7 DEF docs, Relies, Fits, ResetCall, SignedOut
  <2> QED BY <1>7, <2>3, <2>4, <2>5, <2>8, LonelyMove
<1> QED BY <1>5, <1>7, <1>8, <1>9, AnswerLonely, PcGroups

LEMMA FindNewEmailLonely ==
  ASSUME AccountInv, LonelyInv, NEW r \in Request, FindNewEmail(r)
  PROVE  LonelyInv'
<1>1. req[r].pc = "meEmail" /\ req[r].pc \in Awaits /\ UNCHANGED docs
  BY DEF FindNewEmail, At, Awaits
<1>2. Becomes(r, Answer("error")) \/ Becomes(r, [req[r] EXCEPT !.pc = "mailNewEmail"])
  BY DEF FindNewEmail
<1>3. SessionsNamed'
  BY <1>1, SameSessions DEF docs
<1> QED BY <1>1, <1>2, <1>3, AnswerLonely, OnwardLonely, PcGroups

LEMMA MailNewEmailLonely ==
  ASSUME AccountInv, LonelyInv, NEW r \in Request, MailNewEmail(r)
  PROVE  LonelyInv'
<1>1. req[r] \in Call /\ req[r].pc = "mailNewEmail" /\ req[r].pc \in Awaits
  BY DEF MailNewEmail, At, AccountInv, TypeOK, Awaits
<1>2. PICK u, dto : u = req[r].user /\ dto = req[r].dto
  OBVIOUS
<1>3. u \in UserId \cup {None} /\ dto \in UpdateDto
  BY <1>1, <1>2 DEF Call
<1>4. Becomes(r, Updating(u, dto, "answer")) \/ Becomes(r, Answer("error"))
  BY <1>2 DEF MailNewEmail
<1>5. UNCHANGED users /\ SessionsNamed'
  BY SameSessions DEF MailNewEmail
<1>6. ~overlapped => Fits(u, dto, req[r].op) /\ req[r].op # "reset"
  BY <1>1, <1>2 DEF LonelyInv, InFlight, Relies, ResetCall, Loud, Resets, Updates
<1> QED BY <1>1, <1>3, <1>4, <1>5, <1>6, AnswerLonely, UpdateBecomes, PcGroups

LEMMA RefreshLonely ==
  ASSUME AccountInv, LonelyInv, NEW r \in Request, Refresh(r)
  PROVE  LonelyInv'
<1>1. PICK token \in RefreshTokens :
        \/ /\ sessions[token[1]].state = "open"
           /\ Begins(r, "refresh", [Fresh EXCEPT !.pc = "refreshUser", !.user = sessions[token[1]].user,
                                                 !.session = token[1]])
        \/ Begins(r, "refresh", Answer("error"))
  BY DEF Refresh
<1>2. PICK s, u : s = token[1] /\ u = sessions[s].user
  OBVIOUS
<1>3. s \in AccessTokens
  BY <1>2 DEF RefreshTokens, AccessTokens
<1>4. s \in Request /\ u \in UserId
  BY <1>2, <1>3, HeldIsOwned
<1>5. UNCHANGED docs /\ SessionsNamed'
  BY SameSessions DEF Refresh, docs
<1>6. CASE /\ sessions[s].state = "open"
           /\ Begins(r, "refresh", [Fresh EXCEPT !.pc = "refreshUser", !.user = u, !.session = s])
  <2> DEFINE next == [Fresh EXCEPT !.pc = "refreshUser", !.user = u, !.session = s]
  <2>1. /\ next \in Call /\ next.pc = "refreshUser" /\ next.dto = Fresh.dto /\ next.session = s
        /\ next.user = u
    BY <1>4, FreshIs DEF Call, Awaits
  <2>2. Begins(r, "refresh", next)
    BY <1>6
  <2> HIDE DEF next
  <2>3. PICK call, now : call = next /\ now = Named(call, "refresh")
    OBVIOUS
  <2>4. /\ now.pc = "refreshUser" /\ now.op = "refresh" /\ now.dto = NoChange /\ now.session = s
        /\ now.user = u
    BY <2>1, <2>2, <2>3, FreshIs, NamedIs DEF Begins, Awaits
  <2>5. Fits(u, NoChange, "refresh")
    BY DEF Fits, NoChange
  <2>6. Relies(now)
    BY <1>4, <1>6, <2>4, <2>5 DEF Relies, ResetCall
  <2>7. Relies(now)'
    BY <1>5, <2>6 DEF docs, Relies, Fits, ResetCall, SignedOut
  <2> QED BY <1>5, <2>1, <2>2, <2>3, <2>7, LonelyMove
<1> QED BY <1>1, <1>2, <1>5, <1>6, AnswerLonely, PcGroups

LEMMA RefreshUserLonely ==
  ASSUME AccountInv, LonelyInv, NEW r \in Request, RefreshUser(r)
  PROVE  LonelyInv'
<1>1. req[r].pc = "refreshUser" /\ req[r].pc \in Awaits /\ UNCHANGED docs
  BY DEF RefreshUser, At, Awaits
<1>2. Becomes(r, Answer("error")) \/ Becomes(r, [req[r] EXCEPT !.pc = "refreshWrite"])
  BY DEF RefreshUser
<1>3. SessionsNamed'
  BY <1>1, SameSessions DEF docs
<1> QED BY <1>1, <1>2, <1>3, AnswerLonely, OnwardLonely, PcGroups

LEMMA CrashLonely ==
  ASSUME LonelyInv, Crash
  PROVE  LonelyInv'
<1>1. ASSUME NEW r \in Request PROVE ~InFlight(r)'
  <2>1. Answer("error").pc = "error"
    BY AnswerIs DEF Replies
  <2>2. req'[r] = IF InFlight(r) THEN Answer("error") ELSE req[r]
    BY DEF Crash
  <2>3. PICK now : now = req'[r]
    OBVIOUS
  <2>4. now.pc \notin Awaits
    BY <2>1, <2>2, <2>3, PcGroups DEF InFlight
  <2> QED BY <2>3, <2>4 DEF InFlight
<1>2. SessionsNamed'
  BY SameSessions DEF Crash, docs
<1> QED BY <1>1, <1>2 DEF LonelyInv, Alone

LEMMA InitLonely ==
  ASSUME Init
  PROVE  LonelyInv
<1>1. \A r \in Request : ~InFlight(r)
  BY PcGroups DEF Init, InFlight, Fresh
<1>2. SessionsNamed
  BY DEF Init, SessionsNamed, NoSession
<1> QED BY <1>1, <1>2 DEF LonelyInv, Alone

LEMMA NextLonely ==
  ASSUME AccountInv, LonelyInv, [Next]_vars
  PROVE  LonelyInv'
<1>1. CASE UNCHANGED vars
  BY <1>1 DEF vars, LonelyInv, Alone, SessionsNamed, InFlight, Relies, Fits, ResetCall, SignedOut
<1>2. CASE UserNext
  BY <1>2, CreateUserLonely, PatchUserLonely, RemoveUserLonely, InsertUserLonely,
     HashPasswordLonely, FindEmailOwnerLonely, WriteUserLonely DEF UserNext
<1>3. CASE AuthNext
  BY <1>3, LoginLonely, SocialLoginLonely, SocialRefusedLonely, RegisterLonely, ConfirmEmailLonely,
     ConfirmNewEmailLonely, ForgotPasswordLonely, ResetPasswordLonely, UpdateMeLonely, RefreshLonely,
     LogoutLonely, OpenSessionLonely, FindSocialLonely, CreateSocialLonely, ReloadUserLonely,
     MailConfirmLonely, MailResetLonely, EndSessionsLonely, FindNewEmailLonely, MailNewEmailLonely,
     RefreshUserLonely, RefreshSessionLonely DEF AuthNext
<1> QED BY <1>1, <1>2, <1>3, CrashLonely DEF Next

\* As long as no two calls have overlapped, the call in flight may rely on what it has
\* read of users and sessions, and a reset has ended the sessions before it writes.
THEOREM LonelyAlways == Spec => []LonelyInv
<1>1. Init => LonelyInv
  BY InitLonely
<1>2. AccountInv /\ LonelyInv /\ [Next]_vars => LonelyInv'
  BY NextLonely
<1> QED BY <1>1, <1>2, AccountsCorrect, PTL DEF Spec

-----------------------------------------------------------------------------
(* What single calls promise                                               *)

\* A step of call r.
StepOf(r) ==
  \/ Reads(r)
  \/ MailConfirm(r) \/ MailReset(r) \/ MailNewEmail(r)
  \/ InsertUser(r) \/ WriteUser(r) \/ RemoveUser(r)
  \/ OpenSession(r) \/ EndSessions(r) \/ RefreshSession(r) \/ Logout(r)

\* A call goes on or ends; it is answered with tokens by two handlers only.
LEMMA StepMoves ==
  ASSUME AccountInv, NEW r \in Request, StepOf(r)
  PROVE  /\ \E call : Moves(r, call)
         /\ OpenSession(r) \/ RefreshSession(r) \/ Goes(r)
<1>1. CASE OpenSession(r)
  <2>1. req[r].pc \in Awaits \ Unborn
    BY <1>1 DEF OpenSession, At, Awaits, Unborn
  <2>2. Moves(r, Signed(r))
    BY <1>1, <2>1, SignedIs, BecomesMoves DEF OpenSession
  <2> QED BY <1>1, <2>2
<1>2. CASE RefreshSession(r)
  BY <1>2, RefreshSessionIs
<1>3. CASE ~(OpenSession(r) \/ RefreshSession(r))
  <2>1. Goes(r)
    BY <1>3, ReadsGo, MailConfirmGoes, MailResetGoes, MailNewEmailGoes, InsertUserKeeps,
       WriteUserKeeps, RemoveUserKeeps, EndSessionsKeeps, LogoutKeeps DEF StepOf
  <2> QED BY <2>1 DEF Goes
<1> QED BY <1>1, <1>2, <1>3

\* Whose step it is that a call is answered ok.
LEMMA OkIsOwnStep ==
  ASSUME AccountInv, NEW r \in Request, InFlight(r), Next, req'[r].pc = "ok"
  PROVE  StepOf(r)
<1>1. ~Crash
  <2> SUFFICES ASSUME Crash PROVE FALSE
    OBVIOUS
  <2>1. req'[r] = Answer("error")
    BY DEF Crash
  <2> QED BY <2>1, AnswerIs DEF Replies
<1>2. PICK q \in Request : StepOf(q)
  BY <1>1, StepIs DEF StepOf
<1>3. PICK call : Moves(q, call)
  BY <1>2, StepMoves
<1>4. req[r].pc # "ok" /\ req \in [Request -> Call]
  BY PcGroups DEF InFlight, AccountInv, TypeOK
<1>5. PICK name : req' = [req EXCEPT ![q] = Named(call, name)]
  BY <1>3 DEF Moves
<1>6. q = r
  BY <1>4, <1>5
<1> QED BY <1>2, <1>6

\* auth.service.ts: as long as no two calls have overlapped, whoever is answered with
\* tokens holds those of a session that is open, with the hash it has stored.
THEOREM AnswerIsLiveHolds == Spec => SerialAnswerIsLive
<1> DEFINE Live ==
      \A r \in Request :
        ~overlapped /\ InFlight(r) /\ req'[r].pc = "ok" /\ req'[r].session # None =>
          LET s == req'[r].session IN
          sessions'[s].state = "open" /\ sessions'[s].hash = r
<1>1. ASSUME AccountInv, LonelyInv, Next PROVE Live
  <2> SUFFICES ASSUME NEW r \in Request, ~overlapped, InFlight(r), req'[r].pc = "ok",
                      req'[r].session # None
               PROVE  /\ sessions'[req'[r].session].state = "open"
                      /\ sessions'[req'[r].session].hash = r
    OBVIOUS
  <2>1. CASE OpenSession(r)
    BY <1>1, <2>1, OpenSessionLonely
  <2>2. CASE RefreshSession(r)
    BY <1>1, <2>2, RefreshSessionLonely
  <2>3. CASE Goes(r)
    BY <1>1, <2>3, MovedIs DEF Goes
  <2> QED BY <1>1, <2>1, <2>2, <2>3, OkIsOwnStep, StepMoves
<1>2. ASSUME UNCHANGED vars PROVE Live
  BY <1>2, PcGroups DEF vars, InFlight
<1> HIDE DEF Live
<1>3. AccountInv /\ LonelyInv /\ [Next]_vars => [Live]_vars
  BY <1>1, <1>2
<1>4. Spec => [][Live]_vars
  BY <1>3, AccountsCorrect, LonelyAlways, PTL DEF Spec
<1> QED BY <1>4 DEF SerialAnswerIsLive, Live

\* A call that begins is not in flight.
LEMMA BeginsAreIdle ==
  ASSUME NEW r, req[r].pc # "idle"
  PROVE  /\ ~CreateUser(r) /\ ~PatchUser(r) /\ ~RemoveUser(r)
         /\ ~Login(r) /\ ~SocialLogin(r) /\ ~SocialRefused(r) /\ ~Register(r) /\ ~ConfirmEmail(r)
         /\ ~ConfirmNewEmail(r) /\ ~ForgotPassword(r) /\ ~ResetPassword(r) /\ ~UpdateMe(r)
         /\ ~Refresh(r) /\ ~Logout(r)
<1>1. \A op, call : ~Begins(r, op, call)
  BY DEF Begins, MayBegin
<1>2. ~CreateUser(r) /\ ~PatchUser(r) /\ ~RemoveUser(r)
  BY <1>1 DEF CreateUser, PatchUser, Patch, RemoveUser
<1>3. ~Login(r) /\ ~SocialLogin(r) /\ ~SocialRefused(r) /\ ~Register(r)
  BY <1>1 DEF Login, SocialLogin, SocialRefused, Register
<1>4. ~ConfirmEmail(r) /\ ~ConfirmNewEmail(r) /\ ~ForgotPassword(r) /\ ~ResetPassword(r)
  BY <1>1 DEF ConfirmEmail, ConfirmNewEmail, ForgotPassword, ResetPassword
<1>5. ~UpdateMe(r) /\ ~Refresh(r) /\ ~Logout(r)
  BY <1>1 DEF UpdateMe, Refresh, Logout
<1> QED BY <1>2, <1>3, <1>4, <1>5

\* A call on its way to write a user ends ok with the write.
LEMMA OkIsWritten ==
  ASSUME AccountInv, NEW r \in Request, req[r].pc \in Resets, StepOf(r), req'[r].pc = "ok"
  PROVE  WriteUser(r)
<1>0. /\ req[r].pc \in Awaits /\ req[r].pc # "idle"
      /\ req[r] \in Call /\ req \in [Request -> Call] /\ req[r].op \in Ops \cup {"none"}
  BY DEF Resets, Updates, Awaits, AccountInv, TypeOK, Call
<1>1. HashPassword(r) \/ FindEmailOwner(r) \/ EndSessions(r) \/ WriteUser(r)
  BY <1>0, BeginsAreIdle DEF StepOf, Reads, MailConfirm, MailReset, MailNewEmail, InsertUser,
     OpenSession, RefreshSession, FindSocial, CreateSocial, ReloadUser, FindNewEmail, RefreshUser,
     At, Resets, Updates
<1>2. ASSUME NEW call \in Call, Becomes(r, call)
      PROVE  call.pc = "ok"
  <2>1. PICK now, op : op = req[r].op /\ now = Named(call, op)
    OBVIOUS
  <2>2. now.pc = call.pc /\ req'[r] = now
    BY <1>0, <1>2, <2>1, NamedIs DEF Becomes
  <2> QED BY <2>2
<1>3. ASSUME NEW pc \in Updates, NEW dto \in UpdateDto,
             Becomes(r, [req[r] EXCEPT !.dto = dto, !.pc = pc])
      PROVE  FALSE
  <2>1. /\ [req[r] EXCEPT !.dto = dto, !.pc = pc] \in Call
        /\ [req[r] EXCEPT !.dto = dto, !.pc = pc].pc = pc
    BY <1>0 DEF Call, Updates, Awaits
  <2> QED BY <1>2, <1>3, <2>1 DEF Updates
<1>4. ~HashPassword(r)
  BY <1>3, HashPasswordIs DEF Updates
<1>5. ~FindEmailOwner(r)
  <2> SUFFICES ASSUME FindEmailOwner(r) PROVE FALSE
    OBVIOUS
  <2>1. Answer("error") \in Call /\ Answer("error").pc = "error"
    BY AnswerIs DEF Replies
  <2>2. Becomes(r, [req[r] EXCEPT !.pc = "updateWrite"])
    BY <1>2, <2>1 DEF FindEmailOwner
  <2>3. /\ [req[r] EXCEPT !.pc = "updateWrite"] \in Call
        /\ [req[r] EXCEPT !.pc = "updateWrite"].pc = "updateWrite"
    BY <1>0 DEF Call, Awaits
  <2> QED BY <1>2, <2>2, <2>3
<1>6. ~EndSessions(r)
  <2> SUFFICES ASSUME EndSessions(r) PROVE FALSE
    OBVIOUS
  <2>1. PICK u, dto : u = req[r].user /\ dto = req[r].dto
    OBVIOUS
  <2>2. u \in UserId \cup {None} /\ dto \in UpdateDto /\ Becomes(r, Updating(u, dto, "answer"))
    BY <1>0, <2>1 DEF Call, EndSessions
  <2>3. Updating(u, dto, "answer").pc = "ok"
    BY <1>2, <2>2, UpdatingIs
  <2> QED BY <2>2, <2>3, UpdatingIs
<1> QED BY <1>1, <1>4, <1>5, <1>6

\* auth.service.ts, resetPassword: as long as no two calls have overlapped, a reset that
\* succeeds has ended every session of its user, who has the password that was asked for.
THEOREM ResetSignsOutHolds == Spec => SerialResetSignsOut
<1> DEFINE Out ==
      \A r \in Request :
        ~overlapped /\ Ends(r, "reset") =>
          /\ \A s \in Request : sessions'[s].user = req[r].user => sessions'[s].state = "ended"
          /\ users'[req[r].user].exists => users'[req[r].user].password = req[r].dto.password
<1>1. ASSUME AccountInv, LonelyInv, Next PROVE Out
  <2> SUFFICES ASSUME NEW r \in Request, ~overlapped, Ends(r, "reset")
               PROVE  /\ SignedOut(req[r].user) /\ UNCHANGED sessions
                      /\ users'[req[r].user].password = req[r].dto.password
    BY DEF SignedOut
  <2>1. InFlight(r) /\ req'[r].pc = "ok" /\ ResetCall(req[r]) /\ req[r].op = "reset"
    BY <1>1 DEF Ends, LonelyInv, Relies
  <2>2. PICK u, dto, op : u = req[r].user /\ dto = req[r].dto /\ op = req[r].op
    OBVIOUS
  <2>3. /\ req[r].pc \in Resets /\ u \in UserId /\ users[u].exists /\ dto.password \in Password
        /\ req[r].pc \in Updates => SignedOut(u)
    BY <2>1, <2>2 DEF ResetCall
  <2>4. WriteUser(r)
    BY <1>1, <2>1, <2>3, OkIsOwnStep, OkIsWritten
  <2>5. req[r].pc = "updateWrite" /\ UNCHANGED sessions
    BY <2>4 DEF WriteUser, At
  <2>6. ~Becomes(r, Answer("error"))
    <3> SUFFICES ASSUME Becomes(r, Answer("error")) PROVE FALSE
      OBVIOUS
    <3>1. PICK now : now = Named(Answer("error"), op)
      OBVIOUS
    <3>2. now.pc = "error"
      BY <1>1, <2>2, <3>1, AnswerIs, NamedIs DEF Replies, AccountInv, TypeOK, Call
    <3>3. req'[r] = now
      BY <1>1, <2>2, <3>1 DEF Becomes, AccountInv, TypeOK
    <3> QED BY <2>1, <3>2, <3>3
  <2>7. users' = [users EXCEPT ![u] = IF @.exists THEN Updated(@, dto, op) ELSE @]
    BY <2>2, <2>4, <2>6 DEF WriteUser
  <2>8. users'[u] = Updated(users[u], dto, op) /\ users[u] \in User
    BY <1>1, <2>3, <2>7 DEF AccountInv, TypeOK
  <2>9. dto \in UpdateDto
    BY <1>1, <2>2 DEF AccountInv, TypeOK, Call
  <2>10. users'[u].password = dto.password
    BY <2>3, <2>8, <2>9, AccountAssumption, UpdatedIs
  <2> QED BY <2>2, <2>3, <2>5, <2>10 DEF Updates
<1>2. ASSUME UNCHANGED vars PROVE Out
  BY <1>2, PcGroups DEF vars, Ends, InFlight
<1> HIDE DEF Out
<1>3. AccountInv /\ LonelyInv /\ [Next]_vars => [Out]_vars
  BY <1>1, <1>2
<1>4. Spec => [][Out]_vars
  BY <1>3, AccountsCorrect, LonelyAlways, PTL DEF Spec
<1> QED BY <1>4 DEF SerialResetSignsOut, Out

\* Which fields an update changes.
LEMMA UpdatedFields ==
  ASSUME NEW user \in User, NEW dto \in UpdateDto, NEW op
  PROVE  /\ Updated(user, dto, op).email = Given(dto.email, user.email)
         /\ Updated(user, dto, op).password = Given(dto.password, user.password)
         /\ Updated(user, dto, op).role = Given(dto.role, user.role)
         /\ Updated(user, dto, op).status = Given(dto.status, user.status)
         /\ Updated(user, dto, op).provider = Given(dto.provider, user.provider)
         /\ Updated(user, dto, op).social = Given(dto.social, user.social)
<1>1. PICK self, moved, email, password, role, status, provider, social :
        /\ Updated(user, dto, op) =
             [user EXCEPT !.self = self, !.moved = moved, !.email = email, !.password = password,
                          !.role = role, !.status = status, !.provider = provider, !.social = social]
        /\ provider = Given(dto.provider, user.provider) /\ social = Given(dto.social, user.social)
        /\ email = Given(dto.email, user.email) /\ password = Given(dto.password, user.password)
        /\ role = Given(dto.role, user.role) /\ status = Given(dto.status, user.status)
  BY DEF Updated
<1> QED BY <1>1 DEF User

\* users.service.ts, update: as long as no two calls have overlapped, a call changes the
\* fields it is about and no other one, though handlers write back whole documents.
THEOREM NoLostUpdateHolds == Spec => SerialNoLostUpdate
<1> DEFINE Fields == {"email", "password", "role", "status", "social", "provider"}
           Kept ==
             ~overlapped =>
               \A u \in UserId : users[u].exists /\ users'[u].exists =>
                 \A f \in Fields :
                   users'[u][f] # users[u][f] =>
                     \E r \in Request : InFlight(r) /\ req[r].user = u /\ f \in About(req[r].op)
<1>1. ASSUME AccountInv, LonelyInv, NEW r \in Request, WriteUser(r) PROVE Kept
  <2> SUFFICES ASSUME ~overlapped, NEW v \in UserId, users[v].exists, NEW f \in Fields,
                      users'[v][f] # users[v][f]
               PROVE  InFlight(r) /\ req[r].user = v /\ f \in About(req[r].op)
    BY <1>1
  <2>1. PICK u, dto, op : u = req[r].user /\ dto = req[r].dto /\ op = req[r].op
    OBVIOUS
  <2>2. /\ req[r].pc = "updateWrite" /\ InFlight(r) /\ users \in [UserId -> User]
        /\ dto \in UpdateDto
    BY <1>1, <2>1 DEF WriteUser, At, InFlight, Awaits, AccountInv, TypeOK, Call
  <2>3. users' = [users EXCEPT ![u] = IF @.exists THEN Updated(@, dto, op) ELSE @]
    BY <1>1, <2>1 DEF WriteUser
  <2>4. v = u /\ users'[u] = Updated(users[u], dto, op) /\ users[u] \in User
    BY <2>2, <2>3
  <2>5. Fits(u, dto, op)
    BY <1>1, <2>1, <2>2 DEF LonelyInv, Relies, Loud, Resets, Updates
  <2>6. f \in About(op)
    BY <2>2, <2>4, <2>5, UpdatedFields DEF Fits, Given
  <2> QED BY <2>1, <2>2, <2>4, <2>6
<1>2. ASSUME AccountInv, NEW r \in Request, InsertUser(r) PROVE Kept
  <2>1. ~users[r].exists /\ users \in [UserId -> User]
    BY <1>2 DEF InsertUser, At, AccountInv, TypeOK, UserInv, Spent, Unborn, UserId
  <2>2. \A u \in UserId : u # r => users'[u] = users[u]
    BY <1>2, <2>1 DEF InsertUser
  <2> QED BY <2>1, <2>2
<1>3. ASSUME AccountInv, NEW r \in Request, RemoveUser(r) PROVE Kept
  <2>1. PICK u \in UserId : users' = [users EXCEPT ![u] = NoUser]
    BY <1>3 DEF RemoveUser
  <2>2. /\ users \in [UserId -> User] /\ ~NoUser.exists
    BY <1>3 DEF AccountInv, TypeOK, NoUser
  <2> QED BY <2>1, <2>2
<1>4. ASSUME UNCHANGED users PROVE Kept
  BY <1>4
<1> HIDE DEF Kept
<1>5. ASSUME AccountInv, LonelyInv, Next PROVE Kept
  <2>1. CASE Crash
    BY <1>4, <2>1 DEF Crash, docs
  <2>2. ASSUME NEW r \in Request, StepOf(r), ~WriteUser(r), ~InsertUser(r), ~RemoveUser(r)
        PROVE  UNCHANGED users
    BY <1>5, <2>2, ReadsGo DEF StepOf, docs, MailConfirm, MailReset, MailNewEmail, OpenSession,
       EndSessions, RefreshSession, Logout
  <2> QED BY <1>1, <1>2, <1>3, <1>4, <1>5, <2>1, <2>2, StepIs DEF StepOf
<1>6. ASSUME UNCHANGED vars PROVE Kept
  BY <1>4, <1>6 DEF vars
<1>7. AccountInv /\ LonelyInv /\ [Next]_vars => [Kept]_vars
  BY <1>5, <1>6
<1>8. Spec => [][Kept]_vars
  BY <1>7, AccountsCorrect, LonelyAlways, PTL DEF Spec
<1> QED BY <1>8 DEF SerialNoLostUpdate, Kept
=============================================================================
