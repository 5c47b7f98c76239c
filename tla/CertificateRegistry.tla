------------------------- MODULE CertificateRegistry -------------------------
(***************************************************************************)
(* What the pass/fail records promise: a verdict may be redone at any      *)
(* time, an approval stands until it is rejected, and a certificate goes   *)
(* to a student who has passed and has been told of it, once, and is never *)
(* taken back.                                                             *)
(***************************************************************************)
CONSTANT Student

VARIABLES verdict, approved, told, issued

vars == <<verdict, approved, told, issued>>

Init ==
  /\ verdict = [s \in Student |-> "none"]
  /\ approved = {} /\ told = {} /\ issued = {}

Determine(s) ==
  /\ \E v \in {"PASS", "FAIL"} : verdict' = [verdict EXCEPT ![s] = v]
  /\ UNCHANGED <<approved, told, issued>>

\* The student is told of the certificate; repeated when issuing failed.
Tell(s) ==
  /\ verdict[s] = "PASS" /\ s \notin issued
  /\ told' = told \cup {s}
  /\ UNCHANGED <<verdict, approved, issued>>

Approve(s) ==
  /\ verdict[s] # "none"
  /\ approved' = approved \cup {s}
  /\ UNCHANGED <<verdict, told, issued>>

Issue(s) ==
  /\ verdict[s] = "PASS" /\ s \in told \ issued
  /\ approved' = approved \cup {s}
  /\ issued' = issued \cup {s}
  /\ UNCHANGED <<verdict, told>>

Reject(s) ==
  /\ verdict[s] # "none"
  /\ approved' = approved \ {s}
  /\ UNCHANGED <<verdict, told, issued>>

Next == \E s \in Student : Determine(s) \/ Tell(s) \/ Approve(s) \/ Issue(s) \/ Reject(s)

Spec == Init /\ [][Next]_vars
=============================================================================
