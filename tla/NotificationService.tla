------------------------- MODULE NotificationService -------------------------
(***************************************************************************)
(* notification/notification.service.ts and notification.gateway.ts.  What *)
(* is read to be answered is shown as true for readByIds, whoever has read *)
(* it, so a user's own list throws as soon as there is something on it.    *)
(***************************************************************************)
EXTENDS CampusStore

CONSTANTS
  User,
  Earlier  \* notifications that are there from the start

ASSUME NoticeAssumption == Earlier \cap Request = {}

VARIABLES
  letters,  \* the notifications, named after the call that stored them
  joined,   \* the users whose sockets have joined their rooms
  pushed    \* history: who was sent a notification

noticeDocs == <<letters, joined, pushed>>
noticeVars == <<noticeDocs, req, overlapped>>

\* reads counts how often a user is in readByIds, an array.
Letter == [exists : BOOLEAN, receivers : SUBSET User, reads : [User -> 0 .. Cardinality(Request)]]

NoLetter == [exists |-> FALSE, receivers |-> {}, reads |-> [u \in User |-> 0]]

NoticeId == Earlier \cup Request

Stored(n) == letters[n].exists

HasRead(n, u) == letters[n].reads[u] > 0

NoticeInit ==
  /\ \E to \in [Earlier -> SUBSET User] :
       letters = [n \in NoticeId |->
         IF n \in Earlier THEN [NoLetter EXCEPT !.exists = TRUE, !.receivers = to[n]]
                         ELSE NoLetter]
  /\ joined \in SUBSET User
  /\ pushed = [n \in NoticeId |-> {}]
  /\ CallsInit

NoticeTypeOK ==
  /\ letters \in [NoticeId -> Letter]
  /\ joined \subseteq User
  /\ pushed \in [NoticeId -> SUBSET User]

-----------------------------------------------------------------------------
(* The gateway: a socket with a valid token joins its user's room; any     *)
(* other is closed.                                                        *)

HandleConnection ==
  /\ "socket" \in Ops
  /\ \E u \in User : u \notin joined /\ joined' = joined \cup {u}
  /\ UNCHANGED <<letters, pushed, req, overlapped>>

HandleDisconnect ==
  /\ "socket" \in Ops
  /\ \E u \in joined : joined' = joined \ {u}
  /\ UNCHANGED <<letters, pushed, req, overlapped>>

-----------------------------------------------------------------------------
(* create: store, read again, emit to the room of each receiver            *)

Send(r) ==
  /\ \E to \in SUBSET User \ {{}} :
       /\ letters' = [letters EXCEPT ![r] = [NoLetter EXCEPT !.exists = TRUE, !.receivers = to]]
       /\ Begins(r, "send", [Fresh EXCEPT !.pc = "emit", !.body = to])
  /\ UNCHANGED <<joined, pushed>>

\* Mutant: the notification is emitted to every socket.
Room_All(to) == joined

Room(to) == to \cap joined

\* A notification that was removed in between throws; nothing is taken back.
Emit(r) ==
  /\ At(r, "emit")
  /\ IF Stored(r)
       THEN /\ pushed' = [pushed EXCEPT ![r] = Room(req[r].body)]
            /\ Ends(r, "ok")
       ELSE /\ Ends(r, "error")
            /\ UNCHANGED pushed
  /\ UNCHANGED <<letters, joined>>

\* The class schedules and the purchase orders add receivers to a notification.
AddReceiver ==
  /\ "invite" \in Ops
  /\ \E n \in NoticeId, u \in User :
       /\ Stored(n) /\ u \notin letters[n].receivers
       /\ letters' = [letters EXCEPT ![n].receivers = @ \cup {u}]
  /\ UNCHANGED <<joined, pushed, req, overlapped>>

-----------------------------------------------------------------------------
(* Reading                                                                 *)

FindAllForUser(r) ==
  /\ \E u \in User :
       Begins(r, "inbox",
         Answer(IF \E n \in NoticeId : Stored(n) /\ u \in letters[n].receivers
                  THEN "error" ELSE "ok"))
  /\ UNCHANGED noticeDocs

MarkAsRead(r) ==
  /\ \E n \in NoticeId, u \in User :
       /\ Stored(n)
       /\ Begins(r, "read",
            IF u \notin letters[n].receivers THEN Answer("error")
            ELSE IF HasRead(n, u) THEN Answer("ok")
            ELSE [Fresh EXCEPT !.pc = "readSave", !.target = n, !.body = u])
  /\ UNCHANGED noticeDocs

\* Mutant: the array that was read is sent, with the reader in it.
SaveRead_Whole(r) ==
  /\ At(r, "readSave")
  /\ LET n == req[r].target IN
       IF Stored(n)
         THEN /\ letters' = [letters EXCEPT ![n].reads =
                   [u \in User |-> IF u = req[r].body THEN 1 ELSE 0]]
              /\ Ends(r, "ok")
         ELSE /\ Ends(r, "error")
              /\ UNCHANGED letters
  /\ UNCHANGED <<joined, pushed>>

\* save() sends the reader that was pushed, not the array.
SaveRead(r) ==
  /\ At(r, "readSave")
  /\ LET n == req[r].target IN
       IF Stored(n)
         THEN /\ letters' = [letters EXCEPT ![n].reads[req[r].body] = @ + 1]
              /\ Ends(r, "ok")
         ELSE /\ Ends(r, "error")
              /\ UNCHANGED letters
  /\ UNCHANGED <<joined, pushed>>

Unread(u) == {n \in NoticeId : Stored(n) /\ u \in letters[n].receivers /\ ~HasRead(n, u)}

\* updateMany with $addToSet.
MarkAllAsRead(r) ==
  /\ \E u \in User :
       letters' = [n \in NoticeId |->
         IF n \in Unread(u) THEN [letters[n] EXCEPT !.reads[u] = 1] ELSE letters[n]]
  /\ Begins(r, "readAll", Answer("ok"))
  /\ UNCHANGED <<joined, pushed>>

\* getUnreadCount answers with Cardinality(Unread(u)) and changes nothing.

RemoveNotification(r) ==
  /\ \E n \in NoticeId, u \in User :
       /\ Stored(n)
       /\ Begins(r, "drop",
            IF u \in letters[n].receivers
              THEN [Fresh EXCEPT !.pc = "dropDelete", !.target = n]
              ELSE Answer("error"))
  /\ UNCHANGED noticeDocs

DeleteNotification(r) ==
  /\ At(r, "dropDelete")
  /\ letters' = [letters EXCEPT ![req[r].target] = NoLetter]
  /\ Ends(r, "ok")
  /\ UNCHANGED <<joined, pushed>>

NoticeNext ==
  \/ HandleConnection \/ HandleDisconnect \/ AddReceiver
  \/ \E r \in Request :
       \/ Send(r) \/ Emit(r) \/ FindAllForUser(r)
       \/ MarkAsRead(r) \/ SaveRead(r) \/ MarkAllAsRead(r)
       \/ RemoveNotification(r) \/ DeleteNotification(r)

-----------------------------------------------------------------------------

NoticeSpec ==
  NoticeInit /\ [][NoticeNext \/ (CrashCalls /\ UNCHANGED noticeDocs)]_noticeVars

\* Only a receiver is pushed a notification or is on record as having read it,
\* though receivers are added and the notification is removed while handlers run.
ReadersReceive ==
  \A n \in NoticeId, u \in User :
    Stored(n) /\ (u \in pushed[n] \/ HasRead(n, u)) => u \in letters[n].receivers

\* A notification that a user has read is not unread again, whoever else reads it
\* or is added to its receivers.
ReadStaysRead ==
  [][\A n \in NoticeId, u \in User :
       Stored(n) /\ HasRead(n, u) => (HasRead(n, u) \/ ~Stored(n))']_noticeVars
=============================================================================
