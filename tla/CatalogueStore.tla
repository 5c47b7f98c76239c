--------------------------- MODULE CatalogueStore ---------------------------
(***************************************************************************)
(* Courses, the categories that hold them and their slugs.  A title or a   *)
(* name is a model value t whose generated slug is <<t>>; "t-1" is <<t,1>>.*)
(***************************************************************************)
EXTENDS CampusStore

CONSTANTS
  Title,    \* titles of courses and names of categories
  Topic,    \* names of subcategories
  Topics,   \* the lists of them that callers send
  Shelf,    \* a category that is there from the start
  Nowhere,  \* an id that no category has
  SeedShelf, SeedTitle, \* the names and titles that seed-courses.ts creates
  Chosen    \* the slugs callers choose themselves

\* Slugs are sequences: a base and the numbers that made it unique.
IsSlug(s) ==
  /\ s \in Seq(Title \cup Nat) /\ s # <<>>
  /\ s[1] \in Title /\ \A i \in 2 .. Len(s) : s[i] \in Nat

\* Null is no id, and callers send slugs that are in order.
ASSUME CatalogueAssumption ==
  /\ SeedShelf \subseteq Title /\ SeedTitle \subseteq Title
  /\ Shelf \notin Request \X Title
  /\ None \notin (Request \X Title) \cup {Shelf, Nowhere}
  /\ \A s \in Chosen : IsSlug(s)
  /\ Topics \subseteq Seq(Topic) /\ None \notin Seq(Topic)

VARIABLES categories, courses

catalogueDocs == <<categories, courses>>
catalogueVars == <<catalogueDocs, req, overlapped>>

generateSlug(t) == <<t>>

\* A seed makes several documents, so they are named after a call and a title.
CourseId == Request \X Title
CategoryId == CourseId \cup {Shelf}

\* removed is deletedAt; version is the __v that guards whole-array writes.  The
\* course counter is left out: it is raised and lowered for a category whose
\* *name* is the id that the course holds, and there is none.
NoCategory ==
  [exists |-> FALSE, name |-> None, slug |-> None, active |-> FALSE, removed |-> FALSE,
   subcategories |-> <<>>, version |-> 0]

NewCategory(t, slug) ==
  [NoCategory EXCEPT !.exists = TRUE, !.name = t, !.slug = slug, !.active = TRUE]

NoCourse ==
  [exists |-> FALSE, title |-> None, slug |-> None, category |-> None, items |-> FALSE]

\* The unique indexes on a name and on slugs.
CategoryClash(id, t, slug) ==
  \E c \in CategoryId \ {id} :
    categories[c].exists /\ (categories[c].name = t \/ categories[c].slug = slug)

SlugTaken(id, slug) ==
  \E c \in CourseId \ {id} : courses[c].exists /\ courses[c].slug = slug

ActiveAt(slug) ==
  {c \in CategoryId : categories[c].exists /\ categories[c].active /\ categories[c].slug = slug}

EmptyCatalogue ==
  /\ categories = [c \in CategoryId |-> NoCategory]
  /\ courses = [c \in CourseId |-> NoCourse]

CatalogueInit ==
  /\ \E t \in Title, topic \in Topic :
       categories = [c \in CategoryId |->
         IF c = Shelf THEN [NewCategory(t, generateSlug(t)) EXCEPT !.subcategories = <<topic>>]
                      ELSE NoCategory]
  /\ courses = [c \in CourseId |-> NoCourse]
  /\ CallsInit

CatalogueTypeOK ==
  /\ \A c \in CategoryId :
       /\ categories[c].active \in BOOLEAN /\ categories[c].removed \in BOOLEAN
       /\ categories[c].version \in Nat
       /\ categories[c].subcategories \in Seq(Topic)
       /\ categories[c].exists => categories[c].name \in Title /\ IsSlug(categories[c].slug)
  /\ \A c \in CourseId :
       courses[c].exists =>
         /\ courses[c].title \in Title /\ IsSlug(courses[c].slug)
         /\ courses[c].category \in CategoryId /\ courses[c].items \in BOOLEAN
=============================================================================
