---------------------------- MODULE AuthService -----------------------------
(***************************************************************************)
(* auth/auth.service.ts with session/session.service.ts: sign-up, login by *)
(* password and by a social account, the mailed links, refresh and logout. *)
(* Tokens are signed and not stored: an access token names a session, a    *)
(* refresh token a session and a hash, and a caller holds those of the     *)
(* answers it received.  They are not expired here.                        *)
(***************************************************************************)
EXTENDS UserService

-----------------------------------------------------------------------------
(* Mail                                                                    *)

\* MailerService.sendMail: what the mail server refuses is logged, and the
\* caller goes on as if the letter had been delivered.
sendMail(box, letter) == {box \cup {letter}} \cup {old \in {box} : "mailLost" \in Ops}

\* The three letters that carry a link.
userSignUp(u) == sendMail(confirmLinks, <<u, Keep>>)

forgotPassword(u) == sendMail(resetLinks, u)

confirmNewEmail(u, email) == sendMail(confirmLinks, <<u, email>>)

\* FRONTEND_DOMAIN is optional and may lack its scheme: then no link can be
\* built, and the letter throws before it is sent.
NoDomain == "noDomain" \in Ops

\* The sessions and hashes named by the answers that were delivered.
AccessTokens == {req[r].session : r \in {q \in Request : At(q, "ok")}} \ {None}
RefreshTokens ==
  {<<req[r].session, r>> : r \in {q \in Request : At(q, "ok") /\ req[q].session # None}}

Signed(s) == [Answer("ok") EXCEPT !.session = s]

-----------------------------------------------------------------------------
(* Login                                                                   *)

Login(r) ==
  \E e \in Email, p \in Password :
    LET mine == {u \in WithEmail(e) : users[u].provider = "email" /\ users[u].password = p} IN
    /\ IF mine = {} THEN Begins(r, "login", Answer("error"))
       ELSE \E u \in mine : Begins(r, "login", Opening(u))
    /\ UNCHANGED docs

\* sessionService.create and getTokensData: nothing checks the user once more.
OpenSession(r) ==
  /\ At(r, "openSession")
  /\ sessions' = [sessions EXCEPT ![r] = [state |-> "open", user |-> req[r].user, hash |-> r]]
  /\ Becomes(r, Signed(r))
  /\ UNCHANGED <<users, confirmLinks, resetLinks>>

-----------------------------------------------------------------------------
(* validateSocialLogin                                                     *)

\* What a provider tells about the account behind a token: an id, and an
\* address if the user shares it.
Profile == [id : SocialId, email : Email \cup {None}]

SocialUser(profile) ==
  [NoUser EXCEPT !.email = profile.email, !.provider = "social",
                 !.social = profile.id, !.status = "active"]

SocialLogin(r) ==
  \E profile \in Profile :
    LET e == profile.email
        call == [Fresh EXCEPT !.pc = "socialFind", !.new = SocialUser(profile)]
    IN /\ IF e = None \/ WithEmail(e) = {} THEN Begins(r, "social", call)
          ELSE \E u \in WithEmail(e) :
                 Begins(r, "social", [call EXCEPT !.user = u, !.known = TRUE])
       /\ UNCHANGED docs

\* The provider is asked whether the token is valid and ours, then for the
\* profile; a refusal or a timeout ends the call before anything is read.
SocialRefused(r) ==
  /\ Begins(r, "social", Answer("error"))
  /\ UNCHANGED docs

WithSocial(id) ==
  {u \in UserId : users[u].exists /\ users[u].provider = "social" /\ users[u].social = id}

\* The document found by social id is written back whole, its hash included,
\* with the address if nobody had it; a user known by address only is taken as
\* is; anybody else is created.
FindSocial(r) ==
  /\ At(r, "socialFind")
  /\ LET new == req[r].new
         found == WithSocial(new.social)
         WriteBack(u) == [Whole(u) EXCEPT
                            !.email = IF new.email # None /\ ~req[r].known THEN new.email ELSE @,
                            !.password = IF users[u].password = None THEN Keep
                                         ELSE users[u].password,
                            !.hashed = TRUE]
     IN \/ \E u \in found : Becomes(r, Updating(u, WriteBack(u), "session"))
        \/ found = {} /\ req[r].known /\ Becomes(r, Opening(req[r].user))
        \/ found = {} /\ ~req[r].known /\ Becomes(r, [req[r] EXCEPT !.pc = "socialCreate"])
  /\ UNCHANGED docs

CreateSocial(r) ==
  /\ At(r, "socialCreate")
  /\ Becomes(r, Creating(req[r], req[r].new, "reload"))
  /\ UNCHANGED docs

ReloadUser(r) ==
  /\ At(r, "reload")
  /\ Becomes(r, IF users[r].exists THEN Opening(r) ELSE Answer("error"))
  /\ UNCHANGED docs

-----------------------------------------------------------------------------
(* register and the confirmation links                                     *)

Register(r) ==
  \E e \in Email, p \in Password :
    /\ Begins(r, "register",
         Creating(Fresh, [NoUser EXCEPT !.self = TRUE, !.email = e, !.password = p], "mail"))
    /\ UNCHANGED docs

\* The user is stored by now, with or without a letter.
MailConfirm(r) ==
  /\ At(r, "mailConfirm")
  /\ \/ /\ confirmLinks' \in userSignUp(r)
        /\ Becomes(r, Opening(r))
     \/ /\ NoDomain
        /\ Becomes(r, Answer("error"))
        /\ UNCHANGED confirmLinks
  /\ UNCHANGED <<users, sessions, resetLinks>>

\* Both kinds of link are signed with one secret, so either endpoint takes both.
ConfirmEmail(r) ==
  /\ \E link \in confirmLinks :
       LET u == link[1] IN
       Begins(r, "confirm",
         IF users[u].exists /\ users[u].status = "inactive"
         THEN Updating(u, [Whole(u) EXCEPT !.status = "active"], "answer")
         ELSE Answer("error"))
  /\ UNCHANGED docs

\* A link without a new address leaves the address undefined, that is as it is.
ConfirmNewEmail(r) ==
  /\ \E link \in confirmLinks :
       LET u == link[1] IN
       Begins(r, "confirmNew",
         IF users[u].exists
         THEN Updating(u, [Whole(u) EXCEPT !.status = "active", !.email = link[2]], "answer")
         ELSE Answer("error"))
  /\ UNCHANGED docs

-----------------------------------------------------------------------------
(* forgotPassword and resetPassword                                        *)

ForgotPassword(r) ==
  /\ \E e \in Email :
       IF WithEmail(e) = {} THEN Begins(r, "forgot", Answer("error"))
       ELSE \E u \in WithEmail(e) :
              Begins(r, "forgot", [Fresh EXCEPT !.pc = "mailReset", !.user = u])
  /\ UNCHANGED docs

MailReset(r) ==
  /\ At(r, "mailReset")
  /\ \/ /\ resetLinks' \in forgotPassword(req[r].user)
        /\ Becomes(r, Answer("ok"))
     \/ /\ NoDomain
        /\ Becomes(r, Answer("error"))
        /\ UNCHANGED resetLinks
  /\ UNCHANGED <<users, sessions, confirmLinks>>

\* Following the link confirms the account as well.
ResetPassword_Activates(r) ==
  /\ \E u \in resetLinks, p \in Password :
       Begins(r, "reset",
         IF users[u].exists
         THEN [Fresh EXCEPT !.pc = "endSessions", !.user = u,
                            !.dto = [Whole(u) EXCEPT !.password = p, !.status = "active"]]
         ELSE Answer("error"))
  /\ UNCHANGED docs

\* A link may be used again until it expires.
ResetPassword(r) ==
  /\ \E u \in resetLinks, p \in Password :
       Begins(r, "reset",
         IF users[u].exists
         THEN [Fresh EXCEPT !.pc = "endSessions", !.user = u,
                            !.dto = [Whole(u) EXCEPT !.password = p]]
         ELSE Answer("error"))
  /\ UNCHANGED docs

SessionsOf(u) == {s \in Request : sessions[s].state = "open" /\ sessions[s].user = u}

End(S) == [s \in Request |-> IF s \in S THEN [sessions[s] EXCEPT !.state = "ended"]
                             ELSE sessions[s]]

\* The sessions of the user are deleted with deleteOne.
EndSessions_One(r) ==
  /\ At(r, "endSessions")
  /\ \E S \in SUBSET SessionsOf(req[r].user) :
       Cardinality(S) <= 1 /\ sessions' = End(S)
  /\ Becomes(r, Updating(req[r].user, req[r].dto, "answer"))
  /\ UNCHANGED <<users, confirmLinks, resetLinks>>

\* The sessions are deleted first, then the user is written.
EndSessions(r) ==
  /\ At(r, "endSessions")
  /\ sessions' = End(SessionsOf(req[r].user))
  /\ Becomes(r, Updating(req[r].user, req[r].dto, "answer"))
  /\ UNCHANGED <<users, confirmLinks, resetLinks>>

-----------------------------------------------------------------------------
(* update of one's own profile, refresh, logout                            *)

\* currentUser comes without its password, so a new password is refused as if
\* the old one were wrong, whatever it is: only the address needs more steps.
UpdateMe(r) ==
  /\ \E s \in AccessTokens, e \in Email \cup {Keep}, password, valid \in BOOLEAN :
       LET u == sessions[s].user
           dto == [NoChange EXCEPT !.valid = valid]
       IN Begins(r, "updateMe",
            IF ~users[u].exists \/ password THEN Answer("error")
            ELSE IF e \in {Keep, users[u].email} THEN Updating(u, dto, "answer")
            ELSE [Fresh EXCEPT !.pc = "meEmail", !.user = u, !.new.email = e, !.dto = dto])
  /\ UNCHANGED docs

FindNewEmail(r) ==
  /\ At(r, "meEmail")
  /\ Becomes(r, IF Clashes(req[r].user, req[r].new.email) THEN Answer("error")
                ELSE [req[r] EXCEPT !.pc = "mailNewEmail"])
  /\ UNCHANGED docs

\* The address changes when the link is followed, not now.
MailNewEmail(r) ==
  /\ At(r, "mailNewEmail")
  /\ \/ /\ confirmLinks' \in confirmNewEmail(req[r].user, req[r].new.email)
        /\ Becomes(r, Updating(req[r].user, req[r].dto, "answer"))
     \/ /\ NoDomain
        /\ Becomes(r, Answer("error"))
        /\ UNCHANGED confirmLinks
  /\ UNCHANGED <<users, sessions, resetLinks>>

Refresh(r) ==
  /\ \E token \in RefreshTokens :
       LET session == sessions[token[1]] IN
       Begins(r, "refresh",
         IF session.state = "open" /\ session.hash = token[2]
         THEN [Fresh EXCEPT !.pc = "refreshUser", !.user = session.user, !.session = token[1]]
         ELSE Answer("error"))
  /\ UNCHANGED docs

\* The mapper hands on the reference to the user as the driver keeps it, and
\* reads its id off it.  Whether the driver accepts those bytes as an id is its
\* affair (the locked version answers with a CastError): both are modelled.
RefreshUser(r) ==
  /\ At(r, "refreshUser")
  /\ \/ Becomes(r, Answer("error"))
     \/ users[req[r].user].exists /\ Becomes(r, [req[r] EXCEPT !.pc = "refreshWrite"])
  /\ UNCHANGED docs

\* The update inserts the session when it has gone.
RefreshSession_Upserts(r) ==
  /\ At(r, "refreshWrite")
  /\ LET s == req[r].session IN
     /\ sessions' = [sessions EXCEPT ![s].hash = r, ![s].state = "open"]
     /\ Becomes(r, Signed(s))
  /\ UNCHANGED <<users, confirmLinks, resetLinks>>

\* The new hash is signed and not stored.
RefreshSession_KeepsHash(r) ==
  /\ At(r, "refreshWrite")
  /\ Becomes(r, Signed(req[r].session))
  /\ UNCHANGED docs

\* findOneAndUpdate does not insert, and its result is not looked at: tokens are
\* answered even for a session deleted in the meantime.
RefreshSession(r) ==
  /\ At(r, "refreshWrite")
  /\ LET s == req[r].session IN
     /\ sessions' = [sessions EXCEPT ![s].hash =
                       IF sessions[s].state = "open" THEN r ELSE @]
     /\ Becomes(r, Signed(s))
  /\ UNCHANGED <<users, confirmLinks, resetLinks>>

Logout(r) ==
  /\ \E s \in AccessTokens :
       sessions' = End({s} \cap {t \in Request : sessions[t].state = "open"})
  /\ Begins(r, "logout", Answer("ok"))
  /\ UNCHANGED <<users, confirmLinks, resetLinks>>

AuthNext ==
  \E r \in Request :
    \/ MayBegin(r) /\ (\/ Login(r) \/ SocialLogin(r) \/ SocialRefused(r) \/ Register(r)
                      \/ ConfirmEmail(r) \/ ConfirmNewEmail(r) \/ ForgotPassword(r)
                      \/ ResetPassword(r) \/ UpdateMe(r) \/ Refresh(r) \/ Logout(r))
    \/ OpenSession(r)
    \/ FindSocial(r) \/ CreateSocial(r) \/ ReloadUser(r)
    \/ MailConfirm(r) \/ MailReset(r) \/ EndSessions(r)
    \/ FindNewEmail(r) \/ MailNewEmail(r)
    \/ RefreshUser(r) \/ RefreshSession(r)
=============================================================================
