---------------------------- MODULE UserService -----------------------------
(***************************************************************************)
(* users/users.service.ts: create, update and remove, called by the users  *)
(* controller and by the authentication handlers.                          *)
(***************************************************************************)
EXTENDS AccountStore

WithEmail(e) == {u \in UserId : users[u].exists /\ users[u].email = e}

\* email is unique in the schema, and the index holds null like any value.
Clashes(u, e) == WithEmail(e) \ {u} # {}

-----------------------------------------------------------------------------
(* create                                                                  *)

\* The handler looks for the address, if it was given one, before it inserts.
Creating(call, user, after) ==
  IF user.email # None /\ WithEmail(user.email) # {}
  THEN Answer("error")
  ELSE [call EXCEPT !.pc = "insert", !.new = user, !.after = after]

InsertUser(r) ==
  /\ At(r, "insert")
  /\ LET user == req[r].new IN
     IF Clashes(r, user.email)
     THEN /\ Becomes(r, Answer("error"))
          /\ UNCHANGED users
     ELSE /\ users' = [users EXCEPT ![r] = [user EXCEPT !.exists = TRUE]]
          /\ Becomes(r, CASE req[r].after = "answer" -> Answer("ok")
                          [] req[r].after = "mail"   -> [Fresh EXCEPT !.pc = "mailConfirm", !.user = r]
                          [] req[r].after = "reload" -> [Fresh EXCEPT !.pc = "reload", !.user = r])
  /\ UNCHANGED <<sessions, confirmLinks, resetLinks>>

\* The address is required; the password, the provider and the id there are not,
\* and nothing relates them.
FromBody(body) ==
  [NoUser EXCEPT !.email = body.email, !.password = body.password, !.provider = body.provider,
                 !.social = body.social, !.role = body.role, !.status = body.status]

CreateUser(r) ==
  /\ \E body \in UserBody :
       Begins(r, "createUser", Creating(Fresh, FromBody(body), "answer"))
  /\ UNCHANGED docs

-----------------------------------------------------------------------------
(* update: hash the password, look for the address, write the fields given *)

AfterPassword(dto) == IF dto.email \in Email THEN "updateEmail" ELSE "updateWrite"

FirstRead(dto) == IF dto.password # Keep THEN "updatePassword" ELSE AfterPassword(dto)

Updating(u, dto, after) ==
  [Fresh EXCEPT !.pc = FirstRead(dto), !.user = u, !.dto = dto, !.after = after]

\* findById hands out the stored hash.
Whole_WithPassword(u) ==
  [NoChange EXCEPT !.email = users[u].email, !.role = users[u].role,
                   !.status = users[u].status, !.provider = users[u].provider,
                   !.social = users[u].social, !.password = users[u].password,
                   !.hashed = TRUE]

\* The status is written with its default.
Whole_DefaultStatus(u) ==
  [NoChange EXCEPT !.email = users[u].email, !.role = users[u].role, !.status = "active",
                   !.provider = users[u].provider, !.social = users[u].social]

\* findById strips the password: a handler that reads a user with it and writes
\* the document back writes every other field as it read it.
Whole(u) ==
  [NoChange EXCEPT !.email = users[u].email, !.role = users[u].role,
                   !.status = users[u].status, !.provider = users[u].provider,
                   !.social = users[u].social]

\* A string that is not the stored hash is hashed, be it a password or a hash
\* that was read before the password changed.
HashPassword(r) ==
  /\ At(r, "updatePassword")
  /\ LET u == req[r].user
         dto == req[r].dto
         stored == IF ~users[u].exists \/ (dto.hashed /\ users[u].password = dto.password)
                     THEN Keep
                   ELSE IF dto.hashed THEN "scrambled" ELSE dto.password
     IN Becomes(r, [req[r] EXCEPT !.dto.password = stored, !.pc = AfterPassword(dto)])
  /\ UNCHANGED docs

FindEmailOwner(r) ==
  /\ At(r, "updateEmail")
  /\ Becomes(r, IF Clashes(req[r].user, req[r].dto.email)
                THEN Answer("error")
                ELSE [req[r] EXCEPT !.pc = "updateWrite"])
  /\ UNCHANGED docs

\* A field that is undefined overwrites.
Given_Undefined(new, old) == new

Given(new, old) == IF new = Keep THEN old ELSE new

Updated(user, dto, op) ==
  [user EXCEPT !.self = @ /\ op # "patchStatus",
               !.moved = @ \/ (op = "patchProvider" /\ dto.provider # user.provider),
               !.email = Given(dto.email, @), !.password = Given(dto.password, @),
               !.role = Given(dto.role, @), !.status = Given(dto.status, @),
               !.provider = Given(dto.provider, @), !.social = Given(dto.social, @)]

Opening(u) == [Fresh EXCEPT !.pc = "openSession", !.user = u]

Done(r) == IF req[r].after = "session" THEN Opening(req[r].user) ELSE Answer("ok")

\* A photo, role or status that does not exist is refused after the reads; the
\* index refuses an address taken meanwhile; a user that has gone is no error.
WriteUser(r) ==
  /\ At(r, "updateWrite")
  /\ LET u == req[r].user
         dto == req[r].dto
         refused == ~dto.valid \/ (users[u].exists /\ dto.email # Keep /\ Clashes(u, dto.email))
     IN IF refused
        THEN /\ Becomes(r, Answer("error"))
             /\ UNCHANGED users
        ELSE /\ users' = [users EXCEPT ![u] = IF @.exists THEN Updated(@, dto, req[r].op) ELSE @]
             /\ Becomes(r, Done(r))
  /\ UNCHANGED <<sessions, confirmLinks, resetLinks>>

\* PATCH users/:id, one field at a time, or a provider with its id; Ops says which.
Patch(r, op, u, dto) ==
  /\ Begins(r, op, Updating(u, dto, "answer"))
  /\ UNCHANGED docs

PatchUser(r) ==
  \E u \in UserId :
    \/ \E e \in Email : Patch(r, "patchEmail", u, [NoChange EXCEPT !.email = e])
    \/ \E p \in Password : Patch(r, "patchPassword", u, [NoChange EXCEPT !.password = p])
    \/ \E x \in RoleEnum : Patch(r, "patchRole", u, [NoChange EXCEPT !.role = x])
    \/ \E s \in StatusEnum : Patch(r, "patchStatus", u, [NoChange EXCEPT !.status = s])
    \/ \E body \in UserBody :
         Patch(r, "patchProvider", u,
               [NoChange EXCEPT !.provider = body.provider, !.social = body.social])
    \/ Patch(r, "patchUnknown", u, [NoChange EXCEPT !.valid = FALSE])

\* DELETE users/:id and DELETE auth/me: the user only, not the sessions.
RemoveUser(r) ==
  /\ \E u \in UserId : users' = [users EXCEPT ![u] = NoUser]
  /\ Begins(r, "removeUser", Answer("ok"))
  /\ UNCHANGED <<sessions, confirmLinks, resetLinks>>

UserNext ==
  \E r \in Request :
    \/ MayBegin(r) /\ (CreateUser(r) \/ PatchUser(r) \/ RemoveUser(r))
    \/ InsertUser(r) \/ HashPassword(r) \/ FindEmailOwner(r) \/ WriteUser(r)
=============================================================================
