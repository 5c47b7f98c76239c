---------------------------- MODULE CampusStore ----------------------------
(***************************************************************************)
(* The calls in flight at the desks of the campus: what the classroom, the *)
(* catalogue, the coursework, the notices and the listings share.  An      *)
(* action is the code from the end of one await to the completion of the   *)
(* next database or mail call; the first read of a handler is merged with  *)
(* its start, which nobody can observe.  Documents are named after the     *)
(* call that created them.                                                 *)
(***************************************************************************)
EXTENDS Integers, FiniteSets, Sequences

CONSTANTS
  Request,     \* the calls of a behaviour
  Overlapping, \* how many calls a behaviour makes when calls overlap
  Ops,         \* the operations the environment uses
  None         \* null, or no value

ASSUME CampusAssumption == Overlapping \in Nat /\ IsFiniteSet(Request)

VARIABLES
  req,        \* the handler of each call
  overlapped  \* history: some call started while another was handled

Replies == {"ok", "error", "crashed"}

\* target, body, todo and read are the locals a handler still needs: a document
\* it found, what the caller sent, what is left of a loop, what it read,
\* and the round of a loop it is in.
Fresh ==
  [op |-> "none", pc |-> "idle", target |-> None, body |-> None, todo |-> {}, read |-> None,
   round |-> 0]

At(r, pc) == req[r].pc = pc

InFlight(r) == req[r].pc \notin Replies \cup {"idle"}

\* Another call than r is being handled, or two were at some time.
Overlaps == overlapped \/ \E q \in Request : InFlight(q)

\* Calls that overlap are bounded by Overlapping, calls one after the other by
\* Request.
MayBegin(r) ==
  /\ At(r, "idle")
  /\ Overlaps => Cardinality({q \in Request : ~At(q, "idle")}) < Overlapping

Begins(r, op, call) ==
  /\ op \in Ops
  /\ MayBegin(r)
  /\ overlapped' = Overlaps
  /\ req' = [req EXCEPT ![r] = [call EXCEPT !.op = op]]

Becomes(r, call) ==
  /\ req' = [req EXCEPT ![r] = call]
  /\ UNCHANGED overlapped

\* A call that was answered keeps its name.
Answer(reply) == [Fresh EXCEPT !.pc = reply]

Ends(r, reply) == Becomes(r, [Answer(reply) EXCEPT !.op = req[r].op])

\* Call r is being answered.
Answered(r, op, reply) ==
  req[r].op = op /\ InFlight(r) /\ req'[r].pc = reply

\* The Node process dies: every handler in flight is lost, the database stays.
CrashCalls ==
  /\ "crash" \in Ops
  /\ \E r \in Request : InFlight(r)
  /\ req' = [r \in Request |->
               IF InFlight(r) THEN [Answer("crashed") EXCEPT !.op = req[r].op] ELSE req[r]]
  /\ UNCHANGED overlapped

CallsInit ==
  /\ req = [r \in Request |-> Fresh]
  /\ overlapped = FALSE
=============================================================================
