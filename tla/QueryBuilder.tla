---------------------------- MODULE QueryBuilder ----------------------------
(***************************************************************************)
(* The lists that the services answer page by page, and a client who       *)
(* follows one of them from its first page until it is told that there is  *)
(* no next: utils/mongoose-query-builder.ts and the lists that page by     *)
(* themselves.  A document is its place in the order of creation or, in a  *)
(* list that is ordered otherwise, its place in that order.  Documents that*)
(* start or cease to match the filter come and go, and what is sorted by   *)
(* may tie or be edited, so that documents change places between two reads.*)
(***************************************************************************)
EXTENDS CampusStore, FiniteSetsExt

CONSTANTS
  MaxPlace,  \* bound: places of documents
  MaxAsked,  \* bound: the limit a client asks for
  MaxLimit   \* the limit the controllers cap it at

ASSUME QueryAssumption == {MaxPlace, MaxAsked, MaxLimit} \subseteq Nat /\ MaxAsked > 0

VARIABLES
  stored, \* the documents that match
  born,   \* the last place in the order of creation that was used
  walk    \* the client

listingDocs == <<stored, born, walk>>
listingVars == <<listingDocs, req, overlapped>>

Place == 1 .. MaxPlace

-----------------------------------------------------------------------------
(* The routes.  orders: what callers or the code sort by.  capped: the     *)
(* controller caps the limit.  zero: a limit of 0 gets through, which      *)
(* MongoDB takes for none.                                                 *)

Route(orders, zero) == [orders |-> orders, capped |-> TRUE, zero |-> zero]
Uncapped(orders) == [orders |-> orders, capped |-> FALSE, zero |-> TRUE]

AnyOrder == {"newest", "oldest", "named"}

CourseRoute == Route({"newest"}, FALSE)
EnquiryRoute == Route({"newest"}, FALSE)
LocationRoute == Route({"newest"}, TRUE)
UserRoute == Route(AnyOrder, TRUE)
EnrollmentRoute == Route(AnyOrder, TRUE)
CertificateRoute == Route(AnyOrder, TRUE)
BlogRoute == Route(AnyOrder, TRUE)
AssignmentRoute == Route(AnyOrder, TRUE)
AttendanceRoute == Route(AnyOrder, TRUE)
PassFailRoute == Route({"named"}, TRUE)
ScheduleRoute == Route(AnyOrder, TRUE)
CategoryRoute == Uncapped({"named"})
OrderRoute == Uncapped({"newest"})
UserPaymentRoute == Uncapped({"newest"})
CoursePaymentRoute == Uncapped({"newest"})
PaymentRoute == Uncapped({"newest"})

-----------------------------------------------------------------------------
(* The lists.  reads: a page and then a count, both at once, or everything *)
(* of which a page is cut.  counted: by the filter the page is read with.  *)

Paged(route) == [reads |-> "query", route |-> route, counted |-> TRUE]
AtOnce(route) == [reads |-> "parallel", route |-> route, counted |-> TRUE]

CourseList == Paged(CourseRoute)
EnquiryList == Paged(EnquiryRoute)
LocationList == Paged(LocationRoute)
UserList == Paged(UserRoute)
EnrollmentList == Paged(EnrollmentRoute)
CertificateList == Paged(CertificateRoute)
BlogList == Paged(BlogRoute)
AssignmentList == Paged(AssignmentRoute)
AttendanceList == Paged(AttendanceRoute)
PassFailList == Paged(PassFailRoute)
ScheduleList == Paged(ScheduleRoute)
\* A limit of 0 is taken for 10 here, and MongoDB's own order is that of creation.
InstructorList ==
  [reads |-> "memory", route |-> Route({"oldest"}, FALSE), counted |-> TRUE]
CategoryList == AtOnce(CategoryRoute)
OrderList == AtOnce(OrderRoute)
UserPaymentList == AtOnce(UserPaymentRoute)
\* Counted by a field that payments do not have, so always 0.
CoursePaymentList == [AtOnce(CoursePaymentRoute) EXCEPT !.counted = FALSE]
PaymentList == AtOnce(PaymentRoute)

Lists ==
  {CourseList, EnquiryList, LocationList, UserList, EnrollmentList,
   CertificateList, BlogList, AssignmentList, AttendanceList, PassFailList, ScheduleList,
   InstructorList, CategoryList, OrderList, UserPaymentList, CoursePaymentList, PaymentList}

-----------------------------------------------------------------------------
(* One page                                                                *)

\* How many documents come up to a place in an order, as a read finds them.
Rank(d, order) ==
  Cardinality({e \in stored : IF order = "newest" THEN e >= d ELSE e <= d})

\* Mutant: page is counted from 0.
PageOf_Skips(order, page, limit) ==
  {d \in stored : /\ Rank(d, order) > page * limit
                  /\ limit = 0 \/ Rank(d, order) <= (page + 1) * limit}

\* skip and limit.
PageOf(order, page, limit) ==
  {d \in stored : /\ Rank(d, order) > (page - 1) * limit
                  /\ limit = 0 \/ Rank(d, order) <= page * limit}

\* Math.ceil(total / limit), where n / 0 is Infinity and 0 / 0 is NaN.
HasNext(page, total, limit) ==
  IF limit = 0 THEN total > 0 ELSE page * limit < total

Total(list) == IF list.counted THEN Cardinality(stored) ELSE 0

-----------------------------------------------------------------------------
(* The client.  seen: the documents of the pages so far; since: those that *)
(* were there when it began; changes: what has happened since; total: what *)
(* was counted before the page was read.                                   *)

NoWalk == [pc |-> "idle", list |-> CourseList, order |-> "newest", limit |-> 1, page |-> 1,
           seen |-> {}, since |-> {}, changes |-> {}, total |-> 0]

FirstRead(list) == IF list.reads = "parallel" THEN "both" ELSE "find"

StartWalk ==
  /\ walk.pc = "idle"
  /\ \E list \in Lists, asked \in 0 .. MaxAsked : \E order \in list.route.orders :
       /\ asked = 0 => list.route.zero
       /\ walk' = [NoWalk EXCEPT !.pc = FirstRead(list), !.list = list, !.order = order,
                     !.since = stored,
                     !.limit = IF list.route.capped /\ asked > MaxLimit THEN MaxLimit ELSE asked]
  /\ UNCHANGED <<stored, born>>

\* The answer is complete: follow it or stop.
Follow(w, total) ==
  IF HasNext(w.page, total, w.limit)
    THEN [w EXCEPT !.pc = FirstRead(w.list), !.page = @ + 1, !.total = 0]
    ELSE [w EXCEPT !.pc = "done", !.total = 0]

Found(w) == [w EXCEPT !.seen = @ \cup PageOf(w.order, w.page, w.limit)]

\* A client gives up on a list that does not end.
FindPage ==
  /\ walk.pc \in {"find", "both"}
  /\ walk.page <= MaxPlace + 1
  /\ walk' = IF walk.list.reads = "memory" THEN Follow(Found(walk), Total(walk.list))
             ELSE [Found(walk) EXCEPT !.pc = "count"]
  /\ UNCHANGED <<stored, born>>

CountDocuments ==
  /\ walk.pc = "count"
  /\ walk' = Follow(walk, Total(walk.list))
  /\ UNCHANGED <<stored, born>>

\* Promise.all: the count may come before the page.
CountFirst ==
  /\ walk.pc = "both"
  /\ walk.page <= MaxPlace + 1
  /\ walk' = [walk EXCEPT !.pc = "findLast", !.total = Total(walk.list)]
  /\ UNCHANGED <<stored, born>>

FindLast ==
  /\ walk.pc = "findLast"
  /\ walk' = Follow(Found(walk), walk.total)
  /\ UNCHANGED <<stored, born>>

-----------------------------------------------------------------------------
(* Documents come and go                                                   *)

\* In an order of creation a new document is the last.
Appear ==
  /\ \E d \in Place :
       /\ d \notin stored
       /\ walk.order # "named" => d = born + 1
       /\ stored' = stored \cup {d}
       /\ born' = Max({born, d})
  /\ walk.pc \notin {"idle", "done"}
  /\ walk' = [walk EXCEPT !.changes = @ \cup {"came"} \cup
                            {c \in {"raced"} : walk.pc = "findLast"}]

Disappear ==
  /\ \E d \in stored : stored' = stored \ {d}
  /\ walk.pc \notin {"idle", "done"}
  /\ walk' = [walk EXCEPT !.changes = @ \cup {"went"}]
  /\ UNCHANGED born

\* No second key breaks a tie, so two reads may put documents that tie in different
\* orders; and callers sort by fields that others edit.  The documents change places
\* among themselves or, in an order other than that of creation, move to new ones.
Reorder ==
  /\ \E f \in [stored -> Place] :
       /\ \A d, e \in stored : f[d] = f[e] => d = e
       /\ walk.order # "named" => {f[d] : d \in stored} = stored
       /\ \E d \in stored : f[d] # d
       /\ stored' = {f[d] : d \in stored}
       /\ walk' = [walk EXCEPT !.seen = {f[d] : d \in @ \cap stored},
                               !.since = {f[d] : d \in @ \cap stored},
                               !.changes = @ \cup {"moved"}]
  /\ walk.pc \notin {"idle", "done"}
  /\ UNCHANGED born

ListingInit ==
  /\ \E n \in 0 .. MaxPlace - 1 : stored = 1 .. n /\ born = n
  /\ walk = NoWalk
  /\ CallsInit

ListingNext ==
  \/ /\ \/ StartWalk \/ FindPage \/ CountDocuments \/ CountFirst \/ FindLast
        \/ Appear \/ Disappear \/ Reorder
     /\ UNCHANGED <<req, overlapped>>

ListingTypeOK ==
  /\ stored \subseteq Place /\ born \in 0 .. MaxPlace
  /\ walk.pc \in {"idle", "find", "both", "count", "findLast", "done"}
  /\ walk.seen \subseteq Place /\ walk.since \subseteq Place
  /\ walk.changes \subseteq {"came", "went", "raced", "moved"}
  /\ walk.limit \in 0 .. MaxAsked /\ walk.page \in 1 .. MaxPlace + 2

-----------------------------------------------------------------------------

ListingSpec == ListingInit /\ [][ListingNext]_listingVars

\* Page by page a client sees every document that was there when it began, though
\* the page and the count are two reads and documents are added in between: as long
\* as none goes, none changes places with another between two reads, by an edit or
\* because they tie, and, where both are read at once, none comes between the two.
WalkMissesNobody ==
  walk.pc = "done" /\ walk.list.counted /\ {"went", "moved", "raced"} \cap walk.changes = {} =>
    walk.since \subseteq walk.seen
=============================================================================
