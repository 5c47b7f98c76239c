---------------------------- MODULE RecordService ----------------------------
(***************************************************************************)
(* The services that keep documents of one kind and look at no other:      *)
(* certificates, enrollments, bundle offers, blog posts, enquiries,        *)
(* locations with their seed, and uploaded files.                          *)
(***************************************************************************)
EXTENDS CampusStore

CONSTANT Country \* the countries of the seed, and of what callers create

VARIABLES
  records,   \* what a call has stored
  locations, \* for each call and country, whether it stored a location
  objects    \* the files on the disk or in the bucket, named after their upload

recordDocs == <<records, locations, objects>>
recordVars == <<recordDocs, req, overlapped>>

Kind == {"certificate", "enrollment", "bundle", "blog", "enquiry", "file", "presigned"}

\* No record is not a record.
ASSUME RecordAssumption == \A kind \in Kind : None # <<kind>>

LocationId == Request \X Country

RecordInit ==
  /\ records = [r \in Request |-> None]
  /\ locations = [l \in LocationId |-> FALSE]
  /\ objects = {}
  /\ CallsInit

RecordTypeOK ==
  /\ \A r \in Request : records[r] # None => records[r] \in {<<k>> : k \in Kind}
  /\ locations \in [LocationId -> BOOLEAN]
  /\ objects \subseteq Request

Kept(r, kind) == records[r] = <<kind>>

Insert(r, kind) ==
  /\ records' = [records EXCEPT ![r] = <<kind>>]
  /\ UNCHANGED <<locations, objects>>

-----------------------------------------------------------------------------
(* create                                                                  *)

\* create and then save, which looks for the document though nothing changed.
CreateCertificate(r) ==
  /\ Begins(r, "certificate", [Fresh EXCEPT !.pc = "certificateSave"])
  /\ Insert(r, "certificate")

SaveCertificate(r) ==
  /\ At(r, "certificateSave")
  /\ Ends(r, IF Kept(r, "certificate") THEN "ok" ELSE "error")
  /\ UNCHANGED recordDocs

CreateEnrollment(r) ==
  /\ Begins(r, "enrollment", [Fresh EXCEPT !.pc = "enrollmentNotice"])
  /\ Insert(r, "enrollment")

\* A notice that the database refuses is caught: the enrollment is answered all the
\* same.
NoticeEnrollment(r) ==
  /\ At(r, "enrollmentNotice")
  /\ Ends(r, "ok")
  /\ UNCHANGED recordDocs

CreateBundleOffer(r) ==
  /\ Begins(r, "bundle", Answer("ok"))
  /\ Insert(r, "bundle")

CreateBlog(r) ==
  /\ Begins(r, "blog", Answer("ok"))
  /\ Insert(r, "blog")

CreateEnquiry(r) ==
  /\ Begins(r, "enquiry", [Fresh EXCEPT !.pc = "enquiryMail"])
  /\ Insert(r, "enquiry")

\* The mail to the administrator: MailerService logs what the server refuses.
MailEnquiry(r) ==
  /\ At(r, "enquiryMail")
  /\ Ends(r, "ok")
  /\ UNCHANGED recordDocs

-----------------------------------------------------------------------------
(* update and remove: some report that there is nothing, others answer it  *)

\* A record somebody asks for may have been removed, or be of another kind.
Updates(r, kind, missing) ==
  /\ \E s \in Request : Begins(r, "rerecord", Answer(IF Kept(s, kind) THEN "ok" ELSE missing))
  /\ UNCHANGED recordDocs

UpdateCertificate(r) == Updates(r, "certificate", "ok")
UpdateEnrollment(r) == Updates(r, "enrollment", "ok")
UpdateBlog(r) == Updates(r, "blog", "ok")
UpdateBundleOffer(r) == Updates(r, "bundle", "error")
UpdateEnquiry(r) == Updates(r, "enquiry", "error")

Removes(r, kind, missing) ==
  /\ \E s \in Request :
       /\ Begins(r, "unrecord", Answer(IF Kept(s, kind) THEN "ok" ELSE missing))
       /\ records' = IF Kept(s, kind) THEN [records EXCEPT ![s] = None] ELSE records
  /\ UNCHANGED <<locations, objects>>

RemoveCertificate(r) == Removes(r, "certificate", "ok")
RemoveEnrollment(r) == Removes(r, "enrollment", "ok")
RemoveBlog(r) == Removes(r, "blog", "ok")
RemoveBundleOffer(r) == Removes(r, "bundle", "error")
RemoveEnquiry(r) == Removes(r, "enquiry", "error")

-----------------------------------------------------------------------------
(* Locations: a caller may create one twice, the seed looks first          *)

Located(c) == \E s \in Request : locations[s, c]

CreateLocation(r) ==
  /\ \E c \in Country : locations' = [locations EXCEPT ![<<r, c>>] = TRUE]
  /\ Begins(r, "location", Answer("ok"))
  /\ UNCHANGED <<records, objects>>

SeedLocations(r) ==
  /\ Begins(r, "locations", [Fresh EXCEPT !.pc = "locationFind", !.todo = Country])
  /\ UNCHANGED recordDocs

\* Mutant: the seed does not look for the country first.
FindLocation_Unchecked(r) ==
  /\ At(r, "locationFind")
  /\ \E c \in req[r].todo :
       Becomes(r, [req[r] EXCEPT !.pc = "locationSave", !.target = c])
  /\ UNCHANGED recordDocs

FindLocation(r) ==
  /\ At(r, "locationFind")
  /\ \E c \in req[r].todo :
       IF Located(c)
         THEN Becomes(r, [req[r] EXCEPT !.todo = @ \ {c}])
         ELSE Becomes(r, [req[r] EXCEPT !.pc = "locationSave", !.target = c])
  /\ UNCHANGED recordDocs

SaveLocation(r) ==
  /\ At(r, "locationSave")
  /\ locations' = [locations EXCEPT ![<<r, req[r].target>>] = TRUE]
  /\ Becomes(r, [req[r] EXCEPT !.pc = "locationFind", !.todo = @ \ {req[r].target},
                               !.target = None])
  /\ UNCHANGED <<records, objects>>

SeedLocationsDone(r) ==
  /\ At(r, "locationFind") /\ req[r].todo = {}
  /\ Ends(r, "ok")
  /\ UNCHANGED recordDocs

-----------------------------------------------------------------------------
(* Files                                                                   *)

\* Mutant: the object is stored without a name.
Upload_Nameless(r) ==
  /\ Begins(r, "upload", [Fresh EXCEPT !.pc = "fileRecord"])
  /\ objects' = objects \cup {None}
  /\ UNCHANGED <<records, locations>>

\* The interceptor stores the object before the handler runs; a file of another
\* type, or none, is refused.
Upload(r) ==
  /\ \/ /\ Begins(r, "upload", [Fresh EXCEPT !.pc = "fileRecord"])
        /\ objects' = objects \cup {r}
     \/ /\ Begins(r, "upload", Answer("error"))
        /\ UNCHANGED objects
  /\ UNCHANGED <<records, locations>>

RecordFile(r) ==
  /\ At(r, "fileRecord")
  /\ Insert(r, "file")
  /\ Ends(r, "ok")

\* The caller is given a link and puts the object itself, later or never.
Presign(r) ==
  /\ \/ Begins(r, "presign", Answer("ok")) /\ Insert(r, "presigned")
     \/ Begins(r, "presign", Answer("error")) /\ UNCHANGED recordDocs

PutObject ==
  /\ \E r \in Request : Kept(r, "presigned") /\ objects' = objects \cup {r}
  /\ UNCHANGED <<records, locations, req, overlapped>>

RecordNext ==
  \/ \E r \in Request :
       \/ CreateCertificate(r) \/ SaveCertificate(r) \/ CreateEnrollment(r)
       \/ NoticeEnrollment(r) \/ CreateBundleOffer(r) \/ CreateBlog(r)
       \/ CreateEnquiry(r) \/ MailEnquiry(r)
       \/ UpdateCertificate(r) \/ UpdateEnrollment(r) \/ UpdateBlog(r)
       \/ UpdateBundleOffer(r) \/ UpdateEnquiry(r)
       \/ RemoveCertificate(r) \/ RemoveEnrollment(r) \/ RemoveBlog(r)
       \/ RemoveBundleOffer(r) \/ RemoveEnquiry(r)
       \/ CreateLocation(r) \/ SeedLocations(r) \/ FindLocation(r) \/ SaveLocation(r)
       \/ SeedLocationsDone(r) \/ Upload(r) \/ RecordFile(r) \/ Presign(r)
  \/ PutObject

-----------------------------------------------------------------------------

RecordSpec ==
  RecordInit /\ [][RecordNext \/ (CrashCalls /\ UNCHANGED recordDocs)]_recordVars

\* A file on record is on the disk or in the bucket, even after a crash: an object
\* without a record may be left behind, never a record without an object.  Links to
\* put an object are for the caller to use.
FileOnRecordIsThere == \A r \in Request : Kept(r, "file") => r \in objects

-----------------------------------------------------------------------------
(* As long as no two calls have overlapped                                 *)

\* The seed may be run again over what a run that was cut short left: no country gets
\* a second location, though no index keeps one from it.  Callers who create
\* locations themselves are left out: nobody looks for theirs.
SerialLocatedOnce ==
  ~overlapped /\ (\A q \in Request : req[q].op # "location") =>
    \A q, r \in Request, c \in Country : locations[q, c] /\ locations[r, c] => q = r
=============================================================================
