---------------------------- MODULE CourseService ----------------------------
(***************************************************************************)
(* course/courses.service.ts and the seeds that call it.  Every course is  *)
(* published and every category featured.                                  *)
(***************************************************************************)
EXTENDS CatalogueStore

\* items: a course without a test, with a test but no items (refused), with both.
CourseBody ==
  [title : Title, slug : {None}, category : CategoryId \cup {Nowhere},
   items : {"none", "missing", "given"}] \cup
  [title : Title, slug : Chosen, category : CategoryId, items : {"none"}]

\* The handler of a course that is to be written: target is the course, body what
\* is sent, round the counter of ensureUniqueSlug.
Probing(id, body) == [Fresh EXCEPT !.pc = "slugProbe", !.target = id, !.body = body]

SlugOf(body) == IF body.slug = None THEN generateSlug(body.title) ELSE body.slug

\* The seed swallows what becomes of one course and goes on with the next.
Finish(r, reply) ==
  IF req[r].op = "seed"
    THEN Becomes(r, [req[r] EXCEPT !.pc = "seedCourse", !.target = None, !.round = 0,
                                   !.todo = @ \ {req[r].body.title}])
    ELSE Ends(r, reply)

\* Callers know the ids of categories that are there, and ids that are not.
Known(id) == id \in CategoryId => categories[id].exists

CreateCourse(r) ==
  /\ \E body \in CourseBody :
       /\ Known(body.category)
       /\ Begins(r, "course", Probing(<<r, body.title>>, [body EXCEPT !.slug = SlugOf(body)]))
  /\ UNCHANGED catalogueDocs

\* One round of ensureUniqueSlug.
Candidate(r) == IF req[r].round = 0 THEN req[r].body.slug ELSE Append(req[r].body.slug, req[r].round)

ProbeSlug(r) ==
  /\ At(r, "slugProbe")
  /\ IF SlugTaken(req[r].target, Candidate(r))
       THEN Becomes(r, [req[r] EXCEPT !.round = @ + 1])
     ELSE IF req[r].op # "recourse" /\ req[r].body.items = "missing"
       THEN Finish(r, "error")
     ELSE IF req[r].body.category = None
       THEN Becomes(r, [req[r] EXCEPT !.pc = "courseWrite", !.body.slug = Candidate(r)])
       ELSE Becomes(r, [req[r] EXCEPT !.pc = "categoryCheck", !.body.slug = Candidate(r)])
  /\ UNCHANGED catalogueDocs

CheckCategory(r) ==
  /\ At(r, "categoryCheck")
  /\ LET c == req[r].body.category IN
       IF c \in CategoryId /\ categories[c].exists /\ categories[c].active
         THEN Becomes(r, [req[r] EXCEPT !.pc = IF req[r].op = "recourse" THEN "courseWrite"
                                                                         ELSE "courseInsert"])
         ELSE Finish(r, "error")
  /\ UNCHANGED catalogueDocs

\* The unique index on slugs has the last word; the mail that follows is caught.
InsertCourse(r) ==
  /\ At(r, "courseInsert")
  /\ LET body == req[r].body IN
       IF SlugTaken(req[r].target, body.slug)
         THEN /\ Finish(r, "error")
              /\ UNCHANGED courses
         ELSE /\ courses' = [courses EXCEPT ![req[r].target] =
                   [exists |-> TRUE, title |-> body.title, slug |-> body.slug,
                    category |-> body.category, items |-> FALSE]]
              /\ IF body.items = "given"
                   THEN Becomes(r, [req[r] EXCEPT !.pc = "itemsInsert"])
                   ELSE Finish(r, "ok")
  /\ UNCHANGED categories

\* insertMany of the assessment items; an error is logged and the course stays.
InsertItems(r) ==
  /\ At(r, "itemsInsert")
  /\ courses' = [courses EXCEPT ![req[r].target].items = @ \/ courses[req[r].target].exists]
  /\ Finish(r, "ok")
  /\ UNCHANGED categories

\* update: a new title or a new slug is made unique among the other courses; a
\* category that is not the old one must be active.
CourseChange ==
  [title : Title, slug : {None}, category : {None}, items : {"none"}] \cup
  [title : {None}, slug : Chosen, category : {None}, items : {"none"}] \cup
  [title : {None}, slug : {None}, category : CategoryId \cup {Nowhere}, items : {"none"}]

UpdateCourse(r) ==
  /\ \E c \in CourseId, ch \in CourseChange :
       LET course == courses[c]
           body == [ch EXCEPT !.category = IF @ = course.category THEN None ELSE @]
           retitled == ch.title \notin {None, course.title}
           reslugged == ch.slug \notin {None, course.slug} IN
       /\ course.exists /\ Known(ch.category)
       /\ Begins(r, "recourse",
            IF retitled \/ reslugged
              THEN Probing(c, [body EXCEPT !.slug = SlugOf(body)])
            ELSE IF body.category # None
              THEN [Probing(c, body) EXCEPT !.pc = "categoryCheck"]
              ELSE [Probing(c, body) EXCEPT !.pc = "courseWrite"])
  /\ UNCHANGED catalogueDocs

Changed(course, body) ==
  [course EXCEPT !.title = IF body.title = None THEN @ ELSE body.title,
                 !.slug = IF body.slug = None THEN @ ELSE body.slug,
                 !.category = IF body.category = None THEN @ ELSE body.category]

WriteCourse(r) ==
  /\ At(r, "courseWrite")
  /\ LET c == req[r].target
         new == Changed(courses[c], req[r].body) IN
       IF ~courses[c].exists
         THEN Ends(r, "ok") /\ UNCHANGED courses
       ELSE IF SlugTaken(c, new.slug)
         THEN Ends(r, "error") /\ UNCHANGED courses
         ELSE /\ courses' = [courses EXCEPT ![c] = new]
              /\ Ends(r, "ok")
  /\ UNCHANGED categories

\* remove reads the course for a counter that is not found, then deletes.
RemoveCourse(r) ==
  /\ \E c \in CourseId :
       /\ courses[c].exists
       /\ courses' = [courses EXCEPT ![c] = NoCourse]
  /\ Begins(r, "uncourse", Answer("ok"))
  /\ UNCHANGED categories

-----------------------------------------------------------------------------
(* database/seeds/seed-courses.ts and seed-pricing-page-courses.ts         *)

SeedCourses(r) ==
  /\ Begins(r, "seed", [Fresh EXCEPT !.pc = "seedShelf", !.todo = SeedShelf, !.read = {}])
  /\ UNCHANGED catalogueDocs

\* findBySlug finds active categories only; whatever it throws, one is created.
\* create looks for a clash before it saves, which the index would report as well.
FindShelf(r) ==
  /\ At(r, "seedShelf")
  /\ \E t \in req[r].todo :
       \/ \E c \in ActiveAt(generateSlug(t)) :
            Becomes(r, [req[r] EXCEPT !.todo = @ \ {t}, !.read = @ \cup {c}])
       \/ /\ ActiveAt(generateSlug(t)) = {}
          /\ Becomes(r, [req[r] EXCEPT !.pc = "shelfInsert", !.body = t])
  /\ UNCHANGED catalogueDocs

\* An inactive category of that name or slug stops the seed.
InsertShelf(r) ==
  /\ At(r, "shelfInsert")
  /\ LET t == req[r].body
         id == <<r, t>> IN
       IF CategoryClash(id, t, generateSlug(t))
         THEN /\ Ends(r, "error")
              /\ UNCHANGED categories
         ELSE /\ categories' = [categories EXCEPT ![id] = NewCategory(t, generateSlug(t))]
              /\ Becomes(r, [req[r] EXCEPT !.pc = "seedShelf", !.todo = @ \ {t},
                                           !.read = @ \cup {id}, !.body = None])
  /\ UNCHANGED courses

\* With both ids at hand the courses follow, each in one of the two categories.
StartSeedCourses(r) ==
  /\ At(r, "seedShelf") /\ req[r].todo = {}
  /\ \E c \in req[r].read :
       Becomes(r, [req[r] EXCEPT !.pc = "seedCourse", !.todo = SeedTitle, !.read = None, !.body =
         [title |-> None, slug |-> None, category |-> c, items |-> "none"]])
  /\ UNCHANGED catalogueDocs

\* Mutant: the seed does not look for the course first.
SeedOne_Unchecked(r) ==
  /\ At(r, "seedCourse")
  /\ \E t \in req[r].todo :
       Becomes(r, [req[r] EXCEPT !.pc = "slugProbe", !.target = <<r, t>>,
                            !.body.title = t, !.body.slug = generateSlug(t)])
  /\ UNCHANGED catalogueDocs

\* A course whose slug is there is skipped; any other goes through create.
SeedOne(r) ==
  /\ At(r, "seedCourse")
  /\ \E t \in req[r].todo :
       IF SlugTaken(None, generateSlug(t))
         THEN Becomes(r, [req[r] EXCEPT !.todo = @ \ {t}])
         ELSE Becomes(r, [req[r] EXCEPT !.pc = "slugProbe", !.target = <<r, t>>,
                            !.body.title = t, !.body.slug = generateSlug(t)])
  /\ UNCHANGED catalogueDocs

SeedDone(r) ==
  /\ At(r, "seedCourse") /\ req[r].todo = {}
  /\ Ends(r, "ok")
  /\ UNCHANGED catalogueDocs

\* The second seed sends a slug for a category id, which findOne refuses: it makes
\* the categories that are missing and no course.
SeedPricing(r) ==
  /\ Begins(r, "pricing", [Fresh EXCEPT !.pc = "pricingShelf", !.todo = SeedShelf])
  /\ UNCHANGED catalogueDocs

PricingShelf(r) ==
  /\ At(r, "pricingShelf")
  /\ \E t \in req[r].todo :
       /\ categories' = IF CategoryClash(<<r, t>>, t, generateSlug(t)) THEN categories
                        ELSE [categories EXCEPT ![<<r, t>>] = NewCategory(t, generateSlug(t))]
       /\ Becomes(r, [req[r] EXCEPT !.todo = @ \ {t}])
  /\ UNCHANGED courses

PricingDone(r) ==
  /\ At(r, "pricingShelf") /\ req[r].todo = {}
  /\ Ends(r, IF \A t \in SeedShelf : ActiveAt(generateSlug(t)) # {} THEN "ok" ELSE "error")
  /\ UNCHANGED catalogueDocs

CourseNext ==
  \E r \in Request :
    \/ CreateCourse(r) \/ ProbeSlug(r) \/ CheckCategory(r) \/ InsertCourse(r) \/ InsertItems(r)
    \/ UpdateCourse(r) \/ WriteCourse(r) \/ RemoveCourse(r)
    \/ SeedCourses(r) \/ FindShelf(r) \/ InsertShelf(r) \/ StartSeedCourses(r)
    \/ SeedOne(r) \/ SeedDone(r)
    \/ SeedPricing(r) \/ PricingShelf(r) \/ PricingDone(r)
=============================================================================
