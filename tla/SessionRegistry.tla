-------------------------- MODULE SessionRegistry ---------------------------
(***************************************************************************)
(* What the sessions promise, whoever calls what at the same time: a       *)
(* session is opened once for one user, its hash only ever moves to one    *)
(* nobody has been given, and once it has ended it does not come back.     *)
(***************************************************************************)
CONSTANTS Id, Owner, None

VARIABLES state, owner, hash,
          given    \* the hashes callers have been given

vars == <<state, owner, hash, given>>

Init ==
  /\ state = [s \in Id |-> "none"]
  /\ owner = [s \in Id |-> None]
  /\ hash = [s \in Id |-> None]
  /\ given = {}

Open(s, u) ==
  /\ state[s] = "none"
  /\ s \notin given
  /\ state' = [state EXCEPT ![s] = "open"]
  /\ owner' = [owner EXCEPT ![s] = u]
  /\ hash' = [hash EXCEPT ![s] = s]
  /\ given' = given \cup {s}

\* A token may be answered for a session that has ended; it redeems nothing.
Rotate(s, h) ==
  /\ state[s] # "none"
  /\ h \notin given
  /\ hash' = [hash EXCEPT ![s] = IF state[s] = "open" THEN h ELSE @]
  /\ given' = given \cup {h}
  /\ UNCHANGED <<state, owner>>

EndSome(S) ==
  /\ \A s \in S : state[s] = "open"
  /\ \A s, t \in S : owner[s] = owner[t]
  /\ state' = [s \in Id |-> IF s \in S THEN "ended" ELSE state[s]]
  /\ UNCHANGED <<owner, hash, given>>

Next ==
  \/ \E s \in Id, u \in Owner : Open(s, u)
  \/ \E s, h \in Id : Rotate(s, h)
  \/ \E S \in SUBSET Id : EndSome(S)

Spec == Init /\ [][Next]_vars
=============================================================================
