---------------------------- MODULE AccountStore ----------------------------
(***************************************************************************)
(* Users and their sessions, the links mailed to them, and the calls in    *)
(* flight.  As in the other stores an action is the code from the end of   *)
(* one await to the completion of the next database or mail call, and a    *)
(* document is named after the call that created it; the first read of a   *)
(* handler is merged with its start, which nobody can observe.             *)
(***************************************************************************)
EXTENDS Integers, FiniteSets

CONSTANTS
  Request,     \* the HTTP calls of a behaviour, one call each
  Seeded,      \* the user the seed script creates
  Email,       \* addresses
  Password,    \* passwords; a stored hash is named by what it is a hash of
  SocialId,    \* accounts at Google, Facebook or Apple
  Role,        \* roles besides "student"
  UserBody,    \* what POST users is called with, and PATCH for a provider
  Ops,         \* the operations the environment uses
  Overlapping, \* how many calls a behaviour makes when calls overlap
  None,        \* null, or no value
  Keep         \* a field an update does not mention

ASSUME AccountAssumption ==
  /\ Seeded \notin Request
  /\ None \notin Email \cup Password \cup SocialId \cup Request \cup {Seeded}
  /\ Keep \notin Email \cup Password \cup Role \cup SocialId
               \cup {"student", "active", "inactive", "email", "social"}
  /\ None # Keep
  /\ Overlapping \in Nat

VARIABLES users, sessions, confirmLinks, resetLinks, req,
          overlapped,  \* history: some call started while another was handled
          followed     \* history: the users whose confirmation link was followed

docs == <<users, sessions, confirmLinks, resetLinks>>
vars == <<users, sessions, confirmLinks, resetLinks, req, overlapped, followed>>

-----------------------------------------------------------------------------
(* Documents                                                               *)

UserId == Request \cup {Seeded}
RoleEnum == Role \cup {"student"}
StatusEnum == {"active", "inactive"}

\* What a column of hashes can hold: the hash of a password somebody chose, or
\* of a string that was itself a hash, which no password matches.
Hash == Password \cup {None, "scrambled"}

\* "social" stands for every provider that is not "email".
Provider == {"email", "social"}

\* self and moved are history: the account registered itself and no operator has
\* set its status since; an operator has changed its provider.
User ==
  [exists : BOOLEAN, self : BOOLEAN, moved : BOOLEAN, email : Email \cup {None},
   provider : Provider, password : Hash, social : SocialId \cup {None}, role : RoleEnum,
   status : StatusEnum]

ASSUME BodyAssumption ==
  UserBody \subseteq
    [email : Email, password : Password \cup {None}, provider : Provider,
     social : SocialId \cup {None}, role : RoleEnum, status : StatusEnum]

NoUser ==
  [exists |-> FALSE, self |-> FALSE, moved |-> FALSE, email |-> None, provider |-> "email",
   password |-> None, social |-> None, role |-> "student", status |-> "inactive"]

\* hash is the call whose random string the session holds.
Session ==
  [state : {"none", "open", "ended"}, user : UserId \cup {None},
   hash : Request \cup {None}]

NoSession == [state |-> "none", user |-> None, hash |-> None]

-----------------------------------------------------------------------------
(* Calls                                                                   *)

\* The body of an update, or the document a handler read and writes back.
UpdateDto ==
  [email : Email \cup {None, Keep}, password : Hash \cup {Keep}, hashed : BOOLEAN,
   role : RoleEnum \cup {Keep}, status : StatusEnum \cup {Keep},
   provider : Provider \cup {Keep}, social : SocialId \cup {None, Keep}, valid : BOOLEAN]

NoChange ==
  [email |-> Keep, password |-> Keep, hashed |-> FALSE, role |-> Keep,
   status |-> Keep, provider |-> Keep, social |-> Keep, valid |-> TRUE]

Awaits ==
  {"updatePassword", "updateEmail", "updateWrite", "insert", "reload", "mailConfirm",
   "mailReset", "socialFind", "socialCreate", "endSessions", "meEmail", "mailNewEmail",
   "refreshUser", "refreshWrite", "openSession"}

\* A call that dies is answered by a closed connection, an error to its caller.
Replies == {"ok", "error"}

\* after is what follows the write of a user: the answer, a session, or more.
Call ==
  [op : Ops \cup {"none"}, pc : {"idle"} \cup Awaits \cup Replies,
   user : UserId \cup {None}, dto : UpdateDto, new : User, known : BOOLEAN,
   session : Request \cup {None}, after : {"answer", "session", "mail", "reload"}]

Fresh ==
  [op |-> "none", pc |-> "idle", user |-> None, dto |-> NoChange, new |-> NoUser,
   known |-> FALSE, session |-> None, after |-> "answer"]

InFlight(r) == req[r].pc \in Awaits

Started == {r \in Request : req[r].pc # "idle"}

\* A call in flight keeps the name of its operation.
Named(call, op) == [call EXCEPT !.op = IF call.pc \in Awaits THEN op ELSE "none"]

\* Another call is being handled, or two were at some time.
Overlaps == overlapped \/ \E q \in Request : InFlight(q)

\* Calls that overlap are bounded by Overlapping, calls one after the other by
\* Request.
MayBegin(r) ==
  /\ req[r].pc = "idle"
  /\ Overlaps => Cardinality(Started) < Overlapping

\* The calls made by following a link that confirms an address.
Confirming == {"confirm", "confirmNew"}

\* Call r starts, reads, and goes on as call, or is answered at once.
Begins(r, op, call) ==
  /\ op \in Ops
  /\ MayBegin(r)
  /\ overlapped' = Overlaps
  /\ followed' = followed \cup {u \in UserId : op \in Confirming /\ u = call.user}
  /\ req' = [req EXCEPT ![r] = Named(call, op)]

Answer(code) == [Fresh EXCEPT !.pc = code]

Becomes(r, call) ==
  /\ req' = [req EXCEPT ![r] = Named(call, req[r].op)]
  /\ UNCHANGED <<overlapped, followed>>

At(r, pc) == req[r].pc = pc

\* The Node process dies: every handler in flight is lost, the database stays.
Crash ==
  /\ "crash" \in Ops
  /\ \E r \in Request : InFlight(r)
  /\ req' = [r \in Request |->
               IF InFlight(r) THEN Answer("error") ELSE req[r]]
  /\ UNCHANGED <<docs, overlapped, followed>>

\* UserSeedService.run on an empty database: an administrator with a known password.
Init ==
  /\ \E e \in Email, p \in Password, role \in Role :
       users = [u \in UserId |->
                  IF u = Seeded
                  THEN [NoUser EXCEPT !.exists = TRUE, !.email = e, !.password = p,
                                      !.role = role, !.status = "active"]
                  ELSE NoUser]
  /\ sessions = [s \in Request |-> NoSession]
  /\ confirmLinks = {}
  /\ resetLinks = {}
  /\ req = [r \in Request |-> Fresh]
  /\ overlapped = FALSE
  /\ followed = {}

TypeOK ==
  /\ users \in [UserId -> User]
  /\ sessions \in [Request -> Session]
  /\ confirmLinks \subseteq UserId \X (Email \cup {Keep})
  /\ resetLinks \subseteq UserId
  /\ req \in [Request -> Call]
  /\ overlapped \in BOOLEAN
  /\ followed \subseteq UserId
=============================================================================
