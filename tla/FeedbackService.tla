--------------------------- MODULE FeedbackService ---------------------------
(***************************************************************************)
(* feedback-Question/feedback.services.ts and                              *)
(* feedback-answer/feedback-answer.services.ts.                            *)
(***************************************************************************)
EXTENDS CourseworkStore

-----------------------------------------------------------------------------
(* Questions                                                               *)

\* insertMany of a list, which may be for no course and then counts for none.
CreateQuestions(r) ==
  /\ \E c \in Class, n \in 0 .. MaxQuestions :
       /\ questions[c] + n <= MaxQuestions
       /\ questions' = [questions EXCEPT ![c] = @ + n]
  /\ Begins(r, "ask", Answer("ok"))
  /\ UNCHANGED butQuestions

\* A question may be moved to another course.
UpdateQuestion(r) ==
  /\ \E c, d \in Class :
       /\ questions[c] > 0 /\ questions[d] < MaxQuestions
       /\ questions' = [[questions EXCEPT ![c] = @ - 1] EXCEPT ![d] = @ + 1]
  /\ Begins(r, "reask", Answer("ok"))
  /\ UNCHANGED butQuestions

RemoveQuestion(r) ==
  /\ \E c \in Class :
       questions[c] > 0 /\ questions' = [questions EXCEPT ![c] = @ - 1]
  /\ Begins(r, "unask", Answer("ok"))
  /\ UNCHANGED butQuestions

-----------------------------------------------------------------------------
(* Answers.  The classes a student is on are not told apart: findOne takes *)
(* any of them, and the sheet goes to the course of that one.              *)

\* A class without a ClassLeftList has no false in it either.
LeftByAll(c) == left[c] # "some"

\* A student who is told that the class is not over gets a 201 with success false;
\* it is an error here.
SendFeedback(r) ==
  /\ \E n \in 0 .. MaxQuestions :
       \/ /\ n = 0
          /\ Begins(r, "feedback", Answer("error"))
       \/ \E c \in Class :
            /\ n > 0
            /\ Begins(r, "feedback",
                 IF LeftByAll(c)
                   THEN [Fresh EXCEPT !.pc = "feedbackCount", !.target = c, !.todo = 1 .. n]
                   ELSE Answer("error"))
  /\ UNCHANGED courseworkDocs

\* The answers are counted, and what they answer is not looked at.
Complete(n, asked) == asked = 0 \/ n = asked

CountQuestions(r) ==
  /\ At(r, "feedbackCount")
  /\ IF Complete(Cardinality(req[r].todo), questions[req[r].target])
       THEN Becomes(r, [req[r] EXCEPT !.pc = "feedbackInsert"])
       ELSE Ends(r, "error")
  /\ UNCHANGED courseworkDocs

InsertFeedback(r) ==
  /\ At(r, "feedbackInsert")
  /\ sheets' = [sheets EXCEPT ![r] =
       [exists |-> TRUE, class |-> req[r].target, answers |-> Cardinality(req[r].todo)]]
  /\ Ends(r, "ok")
  /\ UNCHANGED butSheets

\* Answers may be replaced by any number of them.
UpdateFeedback(r) ==
  /\ \E s \in Request, n \in 0 .. MaxQuestions :
       sheets[s].exists /\ sheets' = [sheets EXCEPT ![s].answers = n]
  /\ Begins(r, "refeedback", Answer("ok"))
  /\ UNCHANGED butSheets

RemoveFeedback(r) ==
  /\ \E s \in Request : sheets[s].exists /\ sheets' = [sheets EXCEPT ![s] = NoSheet]
  /\ Begins(r, "unfeedback", Answer("ok"))
  /\ UNCHANGED butSheets

FeedbackNext ==
  \E r \in Request :
    \/ CreateQuestions(r) \/ UpdateQuestion(r) \/ RemoveQuestion(r)
    \/ SendFeedback(r) \/ CountQuestions(r) \/ InsertFeedback(r)
    \/ UpdateFeedback(r) \/ RemoveFeedback(r)

FeedbackSpec ==
  CourseworkInit
  /\ [][FeedbackNext \/ LeaveClass \/ (CrashCalls /\ UNCHANGED courseworkDocs)]_courseworkVars
=============================================================================
