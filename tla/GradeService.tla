---------------------------- MODULE GradeService ----------------------------
(***************************************************************************)
(* student-item-Grade/student-item-grade.service.ts,                       *)
(* assessment-Items/assessmentItem.services.ts, and what the attendance    *)
(* service shows of both.                                                  *)
(***************************************************************************)
EXTENDS CourseworkStore, FiniteSetsExt

-----------------------------------------------------------------------------
(* Assessment items.  An item that is moved to another course is gone from *)
(* this one; grades are not removed with it.                               *)

CreateItem(r) ==
  /\ \E i \in Item, max \in MaxMarks :
       items[i] = None /\ items' = [items EXCEPT ![i] = max]
  /\ Begins(r, "item", Answer("ok"))
  /\ UNCHANGED butItems

UpdateItem(r) ==
  /\ \E i \in Item, max \in MaxMarks \cup {None} :
       items[i] # None /\ items' = [items EXCEPT ![i] = max]
  /\ Begins(r, "reitem", Answer("ok"))
  /\ UNCHANGED butItems

RemoveItem(r) ==
  /\ \E i \in Item : items[i] # None /\ items' = [items EXCEPT ![i] = None]
  /\ Begins(r, "unitem", Answer("ok"))
  /\ UNCHANGED butItems

-----------------------------------------------------------------------------
(* createOrUpdate: one upsert and one notice after the other               *)

\* The grades of a body in the order they are written; one grade may be there
\* twice, and the last counts.
GradeBody == UNION {[1 .. n -> GradeId \X Marks] : n \in 1 .. 2}

SendGrades(r) ==
  /\ \E body \in GradeBody :
       Begins(r, "grade", [Fresh EXCEPT !.pc = "gradeUpsert", !.body = body, !.round = 1])
  /\ UNCHANGED courseworkDocs

UpsertGrade(r) ==
  /\ At(r, "gradeUpsert")
  /\ LET next == req[r].body[req[r].round] IN
       grades' = [grades EXCEPT ![next[1]] = next[2]]
  /\ Becomes(r, [req[r] EXCEPT !.pc = "gradeNotice"])
  /\ UNCHANGED butGrades

NoticeGrade(r) ==
  /\ At(r, "gradeNotice")
  /\ IF req[r].round < Len(req[r].body)
       THEN Becomes(r, [req[r] EXCEPT !.pc = "gradeUpsert", !.round = @ + 1])
       ELSE Ends(r, "ok")
  /\ UNCHANGED courseworkDocs

UpdateGrade(r) ==
  /\ \E g \in GradeId, marks \in Marks :
       grades[g] # None /\ grades' = [grades EXCEPT ![g] = marks]
  /\ Begins(r, "regrade", Answer("ok"))
  /\ UNCHANGED butGrades

RemoveGrade(r) ==
  /\ \E g \in GradeId : grades[g] # None /\ grades' = [grades EXCEPT ![g] = None]
  /\ Begins(r, "ungrade", Answer("ok"))
  /\ UNCHANGED butGrades

-----------------------------------------------------------------------------
(* resultPassFail                                                          *)

Here == {i \in Item : items[i] # None}

Graded(p, these) == {i \in these : grades[p, i] # None}

TotalOf(marks, these) == MapThenSumSet(LAMBDA i : marks[i], these)

Worth(these) == TotalOf(items, these)

Scored(p, these) == TotalOf([i \in these |-> grades[p, i]], these)

\* Number((100 * marks / total).toFixed(2)) >= 70.  Half a hundredth may go
\* either way: the product is a double.  1 is Pass, 0 is Fail.
Passes(marks, total) ==
  CASE 20000 * marks > 13999 * total -> {1}
    [] 20000 * marks < 13999 * total -> {0}
    [] OTHER -> {0, 1}

ReadItems(r) ==
  /\ \E p \in Learner :
       Begins(r, "result",
         IF Here = {} \/ Worth(Here) = 0 THEN Answer("error")
         ELSE [Fresh EXCEPT !.pc = "resultGrades", !.target = p, !.todo = Here,
                            !.read = Worth(Here)])
  /\ UNCHANGED courseworkDocs

\* Mutant: the grades of items that have gone count as well.
Judge_AllGrades(r) ==
  /\ At(r, "resultGrades")
  /\ LET p == req[r].target
         graded == Graded(p, Item) IN
       IF graded = {}
         THEN Ends(r, "error")
         ELSE \E pass \in Passes(Scored(p, graded), req[r].read) :
                Becomes(r, [req[r] EXCEPT !.pc = "resultNotice", !.read = pass])
  /\ UNCHANGED courseworkDocs

\* The items that were read and the grades that are there now.
Judge(r) ==
  /\ At(r, "resultGrades")
  /\ LET p == req[r].target
         graded == Graded(p, req[r].todo) IN
       IF graded = {}
         THEN Ends(r, "error")
         ELSE \E pass \in Passes(Scored(p, graded), req[r].read) :
                Becomes(r, [req[r] EXCEPT !.pc = "resultNotice", !.read = pass])
  /\ UNCHANGED courseworkDocs

\* A notice, which the database may refuse, and a mail tell the student what the
\* caller is told after them.
TellResult(r) ==
  /\ At(r, "resultNotice")
  /\ \E reply \in {"ok"} \cup {op \in {"outage"} : op \in Ops} :
       Ends(r, IF reply = "ok" THEN "ok" ELSE "error")
  /\ UNCHANGED courseworkDocs

-----------------------------------------------------------------------------
(* getStudentItemGradeResult in attendance/attendance.service.ts: the same *)
(* verdict, beside a record of a list of pass/fail records                 *)

ShowItems(r) ==
  /\ \E p \in Learner :
       Begins(r, "shown",
         IF Here = {} \/ Worth(Here) = 0 THEN Answer("ok")
         ELSE [Fresh EXCEPT !.pc = "shownGrades", !.target = p, !.todo = Here,
                            !.read = Worth(Here)])
  /\ UNCHANGED courseworkDocs

\* Without grades there is no verdict.
ShowResult(r) ==
  /\ At(r, "shownGrades")
  /\ LET p == req[r].target
         graded == Graded(p, req[r].todo) IN
       IF graded = {}
         THEN Ends(r, "ok")
         ELSE \E pass \in Passes(Scored(p, graded), req[r].read) :
                Becomes(r, [req[r] EXCEPT !.pc = "resultShown", !.read = pass])
  /\ UNCHANGED courseworkDocs

AnswerShown(r) == At(r, "resultShown") /\ Ends(r, "ok") /\ UNCHANGED courseworkDocs

GradeNext ==
  \E r \in Request :
    \/ MayBegin(r) /\ (\/ CreateItem(r) \/ UpdateItem(r) \/ RemoveItem(r) \/ SendGrades(r)
                      \/ UpdateGrade(r) \/ RemoveGrade(r) \/ ReadItems(r)
                      \/ ShowItems(r))
    \/ ShowResult(r) \/ AnswerShown(r)
    \/ UpsertGrade(r) \/ NoticeGrade(r) \/ Judge(r) \/ TellResult(r)

GradeSpec ==
  CourseworkInit /\ [][GradeNext \/ (CrashCalls /\ UNCHANGED courseworkDocs)]_courseworkVars

-----------------------------------------------------------------------------
(* As long as no two calls have overlapped                                 *)

\* A student is told Pass or Fail by the grades and the items as they are: with 70
\* per cent it is Pass, with less than 69.995 Fail.
SerialVerdictIsCurrent ==
  ~overlapped =>
    \A r \in Request :
      req[r].pc \in {"resultNotice", "resultShown"} =>
        LET p == req[r].target
            marks == Scored(p, Graded(p, Here)) IN
        /\ 100 * marks >= 70 * Worth(Here) => req[r].read = 1
        /\ 20000 * marks < 13999 * Worth(Here) => req[r].read = 0
=============================================================================
