--------------------------- MODULE CategoryService ---------------------------
(***************************************************************************)
(* category/categories.service.ts.                                         *)
(***************************************************************************)
EXTENDS CatalogueStore

CreateCategory(r) ==
  /\ \E t \in Title, slug \in {None} \cup Chosen, topics \in {<<>>} \cup Topics :
       LET s == IF slug = None THEN generateSlug(t) ELSE slug IN
       IF CategoryClash(None, t, s)
         THEN Begins(r, "category", Answer("error"))
         ELSE Begins(r, "category",
                [Fresh EXCEPT !.pc = "categoryInsert", !.target = <<r, t>>,
                   !.body = [NewCategory(t, s) EXCEPT !.subcategories = topics]])
  /\ UNCHANGED catalogueDocs

InsertCategory(r) ==
  /\ At(r, "categoryInsert")
  /\ LET new == req[r].body IN
       IF CategoryClash(req[r].target, new.name, new.slug)
         THEN /\ Ends(r, "error")
              /\ UNCHANGED categories
         ELSE /\ categories' = [categories EXCEPT ![req[r].target] = new]
              /\ Ends(r, "ok")
  /\ UNCHANGED courses

\* What a PATCH names: a new name makes a new slug, whatever slug was sent, and
\* both are looked up; a slug sent alone is not.  topics: a list that replaces the
\* subcategories.
CategoryChange ==
  [name : Title, slug : {None}, active : {None}, topics : {None}] \cup
  [name : {None}, slug : Chosen, active : {None}, topics : {None}] \cup
  [name : {None}, slug : {None}, active : BOOLEAN, topics : {None}] \cup
  [name : {None}, slug : {None}, active : {None}, topics : Topics]

UpdateCategory(r) ==
  /\ \E c \in CategoryId, ch \in CategoryChange :
       LET op == IF ch.topics = None THEN "recategory" ELSE "relistTopics" IN
       /\ categories[c].exists
       /\ IF ch.name # None /\ CategoryClash(c, ch.name, generateSlug(ch.name))
            THEN Begins(r, op, Answer("error"))
            ELSE Begins(r, op, [Fresh EXCEPT !.pc = "categoryWrite", !.target = c, !.body = ch])
  /\ UNCHANGED catalogueDocs

Patched(cat, ch) ==
  [cat EXCEPT !.name = IF ch.name = None THEN @ ELSE ch.name,
              !.slug = CASE ch.name # None -> generateSlug(ch.name)
                         [] ch.slug # None -> ch.slug
                         [] OTHER -> @,
              !.active = IF ch.active = None THEN @ ELSE ch.active,
              !.subcategories = IF ch.topics = None THEN @ ELSE ch.topics]

\* findByIdAndUpdate leaves the version as it is, also when it replaces the list.  A
\* category that has gone is answered with nothing.
WriteCategory(r) ==
  /\ At(r, "categoryWrite")
  /\ LET c == req[r].target
         new == Patched(categories[c], req[r].body) IN
       IF ~categories[c].exists
         THEN Ends(r, "ok") /\ UNCHANGED categories
       ELSE IF CategoryClash(c, new.name, new.slug)
         THEN Ends(r, "error") /\ UNCHANGED categories
         ELSE /\ categories' = [categories EXCEPT ![c] = new]
              /\ Ends(r, "ok")
  /\ UNCHANGED courses

\* The counter of courses is always 0, so nothing stops a removal.
RemoveCategory(r) ==
  /\ \E c \in CategoryId, op \in {"unshelve", "hardRemove"} :
       /\ categories[c].exists
       /\ Begins(r, op, [Fresh EXCEPT !.pc = op, !.target = c])
  /\ UNCHANGED catalogueDocs

SoftDelete(r) ==
  /\ At(r, "unshelve")
  /\ LET c == req[r].target IN
       categories' = IF categories[c].exists
                       THEN [categories EXCEPT ![c].active = FALSE, ![c].removed = TRUE]
                       ELSE categories
  /\ Ends(r, "ok")
  /\ UNCHANGED courses

HardDelete(r) ==
  /\ At(r, "hardRemove")
  /\ categories' = [categories EXCEPT ![req[r].target] = NoCategory]
  /\ Ends(r, "ok")
  /\ UNCHANGED courses

\* addSubcategory and removeSubcategory look at the document they then save.
ChangeSubcategory(r) ==
  /\ \E c \in CategoryId, topic \in Topic, op \in {"addTopic", "dropTopic"} :
       LET cat == categories[c]
           listed == \E i \in DOMAIN cat.subcategories : cat.subcategories[i] = topic IN
       /\ cat.exists
       /\ IF listed = (op = "addTopic")
            THEN Begins(r, op, Answer("error"))
            ELSE Begins(r, op, [Fresh EXCEPT !.pc = op, !.target = c,
                                  !.body = [topic |-> topic, was |-> cat]])
  /\ UNCHANGED catalogueDocs

\* A push is sent as $push and raises the version.
PushTopic(r) ==
  /\ At(r, "addTopic")
  /\ LET c == req[r].target IN
       IF categories[c].exists
         THEN /\ categories' = [categories EXCEPT
                   ![c].subcategories = Append(@, req[r].body.topic), ![c].version = @ + 1]
              /\ Ends(r, "ok")
         ELSE Ends(r, "error") /\ UNCHANGED categories
  /\ UNCHANGED courses

Without(topics, topic) ==
  LET first == CHOOSE i \in DOMAIN topics :
                 topics[i] = topic /\ \A j \in 1 .. i - 1 : topics[j] # topic IN
  SubSeq(topics, 1, first - 1) \o SubSeq(topics, first + 1, Len(topics))

\* Mutant: the array is written whatever its version.
SpliceTopic_Unversioned(r) ==
  /\ At(r, "dropTopic")
  /\ LET c == req[r].target IN
       IF categories[c].exists
         THEN /\ categories' = [categories EXCEPT
                   ![c].subcategories = Without(req[r].body.was.subcategories, req[r].body.topic),
                   ![c].version = @ + 1]
              /\ Ends(r, "ok")
         ELSE Ends(r, "error") /\ UNCHANGED categories
  /\ UNCHANGED courses

\* A splice is sent as the whole array, to the version it was read at.
SpliceTopic(r) ==
  /\ At(r, "dropTopic")
  /\ LET c == req[r].target IN
       IF categories[c].exists /\ categories[c].version = req[r].body.was.version
         THEN /\ categories' = [categories EXCEPT
                   ![c].subcategories = Without(req[r].body.was.subcategories, req[r].body.topic),
                   ![c].version = @ + 1]
              /\ Ends(r, "ok")
         ELSE Ends(r, "error") /\ UNCHANGED categories
  /\ UNCHANGED courses

CategoryNext ==
  \E r \in Request :
    \/ CreateCategory(r) \/ InsertCategory(r) \/ UpdateCategory(r) \/ WriteCategory(r)
    \/ RemoveCategory(r) \/ SoftDelete(r) \/ HardDelete(r)
    \/ ChangeSubcategory(r) \/ PushTopic(r) \/ SpliceTopic(r)
=============================================================================
