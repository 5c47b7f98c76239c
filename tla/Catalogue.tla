----------------------------- MODULE Catalogue -----------------------------
(***************************************************************************)
(* Courses and categories, composed, and what is asked of them.            *)
(***************************************************************************)
EXTENDS CategoryService, CourseService

CatalogueNext == CategoryNext \/ CourseNext

CatalogueSpec ==
  CatalogueInit /\ [][CatalogueNext \/ (CrashCalls /\ UNCHANGED catalogueDocs)]_catalogueVars

-----------------------------------------------------------------------------
(* Under every interleaving                                                *)

Listed(c, topic) ==
  Cardinality({i \in DOMAIN categories[c].subcategories :
                 categories[c].subcategories[i] = topic})

\* Whoever is told that a subcategory was removed took that one off the list and
\* nothing else, though the whole list is written back as it was read: other calls
\* that push or splice raise the version.  A PATCH that replaces the list does not,
\* so it may be lost, and behaviours with one are left out.
SubcategoriesKept ==
  [][\A r \in Request :
       Answered(r, "dropTopic", "ok") /\ (\A q \in Request : req[q].op # "relistTopics") =>
         \A c \in CategoryId, topic \in Topic :
           c = req[r].target =>
             Listed(c, topic)' = Listed(c, topic) - (IF topic = req[r].body.topic THEN 1 ELSE 0)]_catalogueVars

-----------------------------------------------------------------------------
(* As long as no two calls have overlapped                                 *)

\* Seeding again skips what is there: seeds alone never make a second course with a
\* title they made, not even when one was cut short.
SerialSeedsOnce ==
  ~overlapped /\ (\A q \in Request : req[q].op \in {"none", "seed", "pricing"}) =>
    \A c, d \in CourseId :
      courses[c].exists /\ courses[d].exists /\ courses[c].title = courses[d].title => c = d

\* "Cannot delete category with existing courses": a category that was removed, for
\* good or not, holds no course.
SerialCategoryInUseIsKept ==
  ~overlapped =>
    \A c \in CourseId :
      courses[c].exists =>
        categories[courses[c].category].exists /\ ~categories[courses[c].category].removed
=============================================================================
