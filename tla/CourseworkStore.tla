--------------------------- MODULE CourseworkStore ---------------------------
(***************************************************************************)
(* Assessment items of a course, the grades of students, questions for     *)
(* feedback and what students answered.  Marks may be fractional: they are *)
(* counted in parts so small that a percentage of two decimals is exact.   *)
(***************************************************************************)
EXTENDS CampusStore

CONSTANTS
  Learner,   \* students
  Item,      \* assessment items
  MaxMarks,  \* what an item may be worth, in parts
  Marks,     \* what a grade may be, in parts
  Class,     \* class schedules, each of a course of its own
  MaxQuestions \* bound: questions that a course ever has

ASSUME CourseworkAssumption ==
  /\ IsFiniteSet(Item)
  /\ MaxMarks \subseteq Nat /\ Marks \subseteq Nat /\ MaxQuestions \in Nat

VARIABLES
  items,      \* maxMarks of the items of the course, None where there is none
  grades,     \* obtainedMarks; the unique index is on student and item
  questions,  \* how many questions the course of a class has
  sheets,     \* the feedback that a call stored
  left        \* ClassLeftList of a class: not there, with a false, all true

courseworkDocs == <<items, grades, questions, sheets, left>>
butGrades == <<items, questions, sheets, left>>
butItems == <<grades, questions, sheets, left>>
butQuestions == <<items, grades, sheets, left>>
butSheets == <<items, grades, questions, left>>
courseworkVars == <<courseworkDocs, req, overlapped>>

GradeId == Learner \X Item

NoSheet == [exists |-> FALSE, class |-> None, answers |-> 0]

CourseworkInit ==
  /\ items \in [Item -> MaxMarks \cup {None}]
  /\ grades \in [GradeId -> Marks \cup {None}]
  /\ questions \in [Class -> 0 .. MaxQuestions]
  /\ sheets = [r \in Request |-> NoSheet]
  /\ left \in [Class -> {"unset", "some"}]
  /\ CallsInit

CourseworkTypeOK ==
  /\ items \in [Item -> MaxMarks \cup {None}]
  /\ grades \in [GradeId -> Marks \cup {None}]
  /\ questions \in [Class -> 0 .. MaxQuestions]
  /\ sheets \in [Request ->
       [exists : BOOLEAN, class : Class \cup {None}, answers : 0 .. MaxQuestions]]
  /\ left \in [Class -> {"unset", "some", "all"}]

\* The attendance desk marks a block of a class and writes the list back as it read
\* it: a list that was not there is made, one that another call completed meanwhile
\* is incomplete again, and so is one whose length is not that of the session's
\* blocks, which is made anew.  A session without blocks empties it.
LeaveClass ==
  /\ "leave" \in Ops
  /\ \E c \in Class, marked \in {"unset", "some", "all"} :
       left' = [left EXCEPT ![c] = marked]
  /\ UNCHANGED <<items, grades, questions, sheets, req, overlapped>>
=============================================================================
