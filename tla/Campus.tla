------------------------------- MODULE Campus -------------------------------
(***************************************************************************)
(* The desks of the campus that share no documents.  Each is a system of   *)
(* its own: a behaviour is one of the classroom, the catalogue, the grades,*)
(* the feedback, the notices, the lists, the hours of a course or the      *)
(* records, and what the others store stays as it is.                      *)
(***************************************************************************)
EXTENDS Classroom, Catalogue, GradeService, FeedbackService, NotificationService, QueryBuilder,
        CourseHours, RecordService

CONSTANT Desks \* the desks of this instance

ASSUME CampusDesks ==
  Desks \subseteq {"classroom", "catalogue", "grading", "feedback", "notices", "listings",
                   "hours", "records"}

VARIABLE desk

campusVars ==
  <<desk, rosterDocs, catalogueDocs, courseworkDocs, noticeDocs, listingDocs, hourDocs,
    recordDocs, req, overlapped>>

\* Where a desk may start with one of several sets of documents, the others start
\* with one of them.
Open(d) == desk = d

CampusInit ==
  /\ desk \in Desks
  /\ RosterInit /\ (Open("classroom") \/ accounts = {})
  /\ IF Open("catalogue") THEN CatalogueInit ELSE EmptyCatalogue
  /\ CourseworkInit
  /\ Open("grading") \/ (items = [i \in Item |-> None] /\ grades = [g \in GradeId |-> None])
  /\ Open("feedback") \/ (questions = [c \in Class |-> 0] /\ left = [c \in Class |-> "some"])
  /\ NoticeInit
  /\ Open("notices") \/ (joined = {} /\ \A n \in Earlier : letters[n].receivers = {})
  /\ ListingInit /\ (Open("listings") \/ stored = {})
  /\ HourInit
  /\ RecordInit

AtDesk ==
  \/ /\ Open("classroom") /\ ClassroomNext
     /\ UNCHANGED <<catalogueDocs, courseworkDocs, noticeDocs, listingDocs, hourDocs, recordDocs>>
  \/ /\ Open("catalogue") /\ CatalogueNext
     /\ UNCHANGED <<rosterDocs, courseworkDocs, noticeDocs, listingDocs, hourDocs, recordDocs>>
  \/ /\ Open("grading") /\ GradeNext
     /\ UNCHANGED <<rosterDocs, catalogueDocs, noticeDocs, listingDocs, hourDocs, recordDocs>>
  \/ /\ Open("feedback") /\ (FeedbackNext \/ LeaveClass)
     /\ UNCHANGED <<rosterDocs, catalogueDocs, noticeDocs, listingDocs, hourDocs, recordDocs>>
  \/ /\ Open("notices") /\ NoticeNext
     /\ UNCHANGED <<rosterDocs, catalogueDocs, courseworkDocs, listingDocs, hourDocs, recordDocs>>
  \/ /\ Open("listings") /\ ListingNext
     /\ UNCHANGED <<rosterDocs, catalogueDocs, courseworkDocs, noticeDocs, hourDocs, recordDocs>>
  \/ /\ Open("hours") /\ HourNext
     /\ UNCHANGED <<rosterDocs, catalogueDocs, courseworkDocs, noticeDocs, listingDocs, recordDocs>>
  \/ /\ Open("records") /\ RecordNext
     /\ UNCHANGED <<rosterDocs, catalogueDocs, courseworkDocs, noticeDocs, listingDocs, hourDocs>>

CampusCrash ==
  /\ CrashCalls
  /\ UNCHANGED <<rosterDocs, catalogueDocs, courseworkDocs, noticeDocs, listingDocs, hourDocs,
                 recordDocs>>

CampusNext == UNCHANGED desk /\ (AtDesk \/ CampusCrash)

CampusSpec == CampusInit /\ [][CampusNext]_campusVars

CampusTypeOK ==
  /\ RosterTypeOK /\ CatalogueTypeOK /\ CourseworkTypeOK /\ NoticeTypeOK /\ ListingTypeOK
  /\ RecordTypeOK
  /\ desk \in Desks
=============================================================================
