------------------------------ MODULE Accounts ------------------------------
(***************************************************************************)
(* Users, sessions and the mailed links, composed, and what is asked of    *)
(* them.                                                                   *)
(***************************************************************************)
EXTENDS AuthService

Next == UserNext \/ AuthNext \/ Crash

Spec == Init /\ [][Next]_vars

-----------------------------------------------------------------------------
(* Under every interleaving                                                *)

\* A self-registered account is active only if a confirmation link mailed to it
\* was followed, or an operator set its status: no document written back late,
\* no social login and no reset activates an account nobody confirmed.
ActiveWasConfirmed ==
  \A u \in UserId :
    users[u].exists /\ users[u].self /\ users[u].status = "active" => u \in followed

\* The stored hash of a user who logs in by password is of a password somebody
\* chose, or absent when an operator gave none: never a hash of a hash, though
\* social logins write the hash they read back and update hashes what differs.
\* Once an operator has changed the provider of a user this is no longer so: what a
\* social login wrote stays behind.
PasswordIsUsable ==
  \A u \in UserId :
    users[u].exists /\ users[u].provider = "email" /\ ~users[u].moved =>
      /\ users[u].password \in Password \cup {None}
      /\ users[u].self => users[u].password \in Password

\* The sessions behave as the registry, whatever ends them while they are used.
Registry == INSTANCE SessionRegistry WITH
              Id    <- Request,
              Owner <- UserId,
              state <- [s \in Request |-> sessions[s].state],
              owner <- [s \in Request |-> sessions[s].user],
              hash  <- [s \in Request |-> sessions[s].hash],
              given <- {r \in Request : At(r, "ok") /\ req[r].session # None}

RegistrySpec == Registry!Spec

-----------------------------------------------------------------------------
(* As long as no two calls have overlapped                                 *)

Ends(r, op) == req[r].op = op /\ InFlight(r) /\ req'[r].pc = "ok"

\* Whoever is answered with tokens holds the ones the session is open for.
SerialAnswerIsLive ==
  [][\A r \in Request :
       ~overlapped /\ InFlight(r) /\ req'[r].pc = "ok" /\ req'[r].session # None =>
         LET s == req'[r].session IN
         sessions'[s].state = "open" /\ sessions'[s].hash = r]_vars

\* A reset that succeeds leaves the user signed out everywhere and with the
\* password that was asked for.
SerialResetSignsOut ==
  [][\A r \in Request :
       ~overlapped /\ Ends(r, "reset") =>
         /\ \A s \in Request : sessions'[s].user = req[r].user => sessions'[s].state = "ended"
         /\ users'[req[r].user].exists => users'[req[r].user].password = req[r].dto.password]_vars

\* The fields of a user a call is about.
About(op) ==
  CASE op \in {"confirm", "patchStatus"} -> {"status"}
    [] op = "confirmNew"                 -> {"status", "email"}
    [] op \in {"social", "patchEmail"}   -> {"email"}
    [] op \in {"reset", "patchPassword"} -> {"password"}
    [] op = "patchRole"                  -> {"role"}
    [] op = "patchProvider"              -> {"provider", "social"}
    [] OTHER                             -> {}

\* A call changes the fields it is about and keeps every other one, of every user,
\* although most handlers write whole documents back.
SerialNoLostUpdate ==
  [][~overlapped =>
       \A u \in UserId : users[u].exists /\ users'[u].exists =>
         \A f \in {"email", "password", "role", "status", "social", "provider"} :
           users'[u][f] # users[u][f] =>
             \E r \in Request : InFlight(r) /\ req[r].user = u /\ f \in About(req[r].op)]_vars

=============================================================================
