---------------------------- MODULE HandoffsProofs ----------------------------
(***************************************************************************)
(* Proofs about FormCatalog and Handoffs for any number of forms, Users,   *)
(* handoffs and requests.  The first part is about the catalog, whose      *)
(* steps others interleave with their own, of which only Elsewhere is      *)
(* assumed: they leave the rows of forms, what belongs to forms in the     *)
(* store, and the catalog's requests alone.  The second part shows that    *)
(* the steps of Handoffs do, and proves the theorems about both.           *)
(***************************************************************************)
EXTENDS Handoffs, TLAPS

(***************************************************************************)
(* The catalog                                                             *)
(***************************************************************************)

(***************************************************************************)
(* The inductive invariant.                                                *)
(***************************************************************************)

\* What a creation is going to insert; what an operation and a rule request were begun for.
Contents == [tags : SUBSET Tags, rules : SUBSET Rules]
Operations == [form : Forms, type : {"save", "publish"}, document : Objects]
RulePlans == [form : Forms, session : Sessions, document : Objects]

CatalogTypes ==
  /\ form \in [Forms -> Rows \cup {None}]
  /\ objects \subseteq Objects /\ intents \subseteq Objects
  /\ DOMAIN pc = Clients /\ DOMAIN plan = Clients
  /\ \A c \in Creations : pc[c] \in {"put", "commit"} => plan[c] \in Contents
  /\ \A w \in Reapers : pc[w] = "remove" => plan[w] \in Objects
  /\ \A o \in Saves : /\ pc[o] = "callback" => plan[o] \in Operations
                      /\ pc[o] = "done" => plan[o] \in Operations \cup {None}
  /\ \A r \in Configurations : pc[r] = "configure" => plan[r] \in RulePlans

\* A form is made once, by the request it is named by, and its documents are named by it.
BornInv ==
  /\ \A c \in Creations : pc[c] # "done" => form[c] = None
  /\ \A f \in Forms \ Creations : form[f] # None => form[f].published # None
  /\ \A f \in Forms : form[f] # None =>
       form[f].object.of = f /\ (Published(f) => form[f].published.object.of = f)

\* Nobody has stored the object, announced it or is going to remove it.
Unknown(o) == o \notin objects \cup intents /\ \A w \in Reapers : pc[w] = "remove" => plan[w] # o

\* The object of a creation is in its grace until the creation is over, out of the timer's reach.
GraceInv ==
  /\ graced \subseteq intents \cap {Object(c, c) : c \in Creations}
  /\ \A w \in Reapers : pc[w] = "remove" => plan[w] \notin graced
  /\ \A c \in Creations : /\ pc[c] \in {"put", "commit"} => Object(c, c) \in graced
                          /\ pc[c] = "commit" => Object(c, c) \in objects
                          /\ pc[c] = "idle" => Unknown(Object(c, c))

\* An operation stores an object nobody knows.
FreshInv == \A o \in Saves, f \in Forms : pc[o] # "done" => Unknown(Object(f, o))

\* What an operation read, or replaced, was stored before it ended and is its form's;
\* what it replaced is no document of the form any more.
ReplacedInv ==
  \A o \in Saves : pc[o] \in {"callback", "done"} /\ plan[o] # None =>
    LET f == plan[o].form
        k == plan[o].document
    IN  /\ k.of = f /\ (f \in Creations => pc[f] = "done")
        /\ k.name \in Saves => pc[k.name] = "done"
        /\ pc[o] = "done" => k \notin DocumentsOf(f)

\* Documents of forms are there, and nobody is going to remove them.
StoredInv ==
  /\ FormsStored
  /\ FormDocuments \cap intents = {}
  /\ \A w \in Reapers : pc[w] = "remove" => plan[w] \notin FormDocuments

\* Rules under which publication is possible at any time.
Sound(rules) ==
  /\ \A r \in rules : r.lock => r.pointer # None
  /\ \A r, q \in rules : r.pointer = q.pointer /\ r.pointer # None => r = q

\* The rules of forms, and those a creation has copied, are sound.
RulesInv ==
  /\ \A f \in Forms : form[f] # None => Sound(form[f].rules)
  /\ \A c \in Creations : pc[c] \in {"put", "commit"} => Sound(plan[c].rules)

CatalogInv == /\ CatalogTypes /\ BornInv /\ GraceInv /\ FreshInv /\ ReplacedInv /\ StoredInv
              /\ RulesInv /\ PublishedAsConfigured

(***************************************************************************)
(* Steps of the catalog, and of a module that extends it                   *)
(***************************************************************************)

\* A step of somebody else leaves rows, what belongs to forms in the store, and the
\* requests of the catalog alone.
Elsewhere ==
  /\ UNCHANGED <<form, graced>>
  /\ objects' \subseteq Objects /\ intents' \subseteq Objects
  /\ \A o \in Objects : o.of \in Forms =>
       (o \in objects' <=> o \in objects) /\ (o \in intents' <=> o \in intents)
  /\ DOMAIN pc' = Clients /\ DOMAIN plan' = Clients
  /\ \A p \in Creations \cup Saves \cup Configurations \cup Reapers : pc'[p] = pc[p] /\ plan'[p] = plan[p]

\* A step of the catalog itself, and of either.
CatalogOwn(busy) ==
  \/ CatalogNext(busy)
  \/ \E o \in graced : GraceOver(o)
  \/ \E w \in Reapers :
       \/ \E o \in intents \ FormDocuments : CheckIntent(w, o, FALSE)
       \/ RemoveObject(w)

CatalogStep(busy) == CatalogOwn(busy) \/ Elsewhere

\* What is copied from a form is the content of a form.
LEMMA CopiedType ==
    ASSUME CatalogTypes, NEW f \in Forms, form[f] # None
    PROVE  Copied(f) \in Contents
<1>1. form[f] \in Rows
  BY DEF CatalogTypes
<1>2. CASE Published(f)
  <2>1. form[f].published \in Contracts
    BY <1>1, <1>2 DEF Published, Rows
  <2>2. ASSUME NEW tag \in Ruled(f) PROVE RuleFor(f, tag) \in Rules
    <3>1. \E r \in form[f].published.rules : r.tag = tag
      BY DEF Ruled
    <3>2. RuleFor(f, tag) \in form[f].published.rules
      BY <3>1 DEF RuleFor
    <3> QED BY <2>1, <3>2 DEF Contracts
  <2>3. ASSUME NEW tag \in Tags PROVE Rule(tag, None, FALSE) \in Rules
    BY DEF Rule, Rules
  <2> QED BY <1>2, <2>1, <2>2, <2>3 DEF Copied, Contents, Contracts
<1>3. CASE ~Published(f)
  BY <1>1, <1>3 DEF Copied, Contents, Rows
<1> QED BY <1>2, <1>3

(***************************************************************************)
(* What a step does to the row of a form                                   *)
(***************************************************************************)

\* The transaction that makes a new form.
Inserted(f) ==
  /\ f \in Creations /\ pc[f] = "commit" /\ Object(f, f) \in intents
  /\ form'[f] = [status |-> "draft", object |-> Object(f, f), tags |-> plan[f].tags,
                 rules |-> plan[f].rules, fill |-> "onlyoffice", published |-> None]
  /\ pc'[f] = "done" /\ intents' = intents \ {Object(f, f)} /\ graced' = graced \ {Object(f, f)}
  /\ UNCHANGED objects

\* The deletion of a form.
Discarded(f) ==
  /\ Authored(f) /\ form'[f] = None
  /\ intents' = intents \cup DocumentsOf(f) \cup Replaced(f) /\ UNCHANGED <<objects, graced>>

\* A rule that comes to a form in the place of the one about a given tag.
RuleCommitted(f) ==
  /\ Authored(f)
  /\ \E rule \in Rules, previous \in Tags \cup {None} :
       /\ rule.lock => rule.pointer # None
       /\ ~Conflicts(form[f].rules, rule, previous)
       /\ form'[f] = [form[f] EXCEPT !.rules = {x \in @ : x.tag # previous} \cup {rule}]
  /\ UNCHANGED store

\* A save and a publication that complete.
SaveCompleted(f) ==
  /\ Authored(f)
  /\ \E o \in Saves, tags \in SUBSET Tags :
       /\ pc[o] = "callback" /\ pc'[o] = "done" /\ plan[o] # None /\ plan'[o] = plan[o]
       /\ plan[o].form = f /\ plan[o].document = form[f].object
       /\ form'[f] = [form[f] EXCEPT !.object = Object(f, o), !.tags = tags]
       /\ objects' = objects \cup {Object(f, o)} /\ UNCHANGED <<intents, graced>>

PublishCompleted(f) ==
  /\ Authored(f)
  /\ \E o \in Saves, tags \in SUBSET Tags :
       /\ pc[o] = "callback" /\ pc'[o] = "done" /\ Fits(form[f].rules, tags)
       /\ form'[f] = [form[f] EXCEPT !.status = "published",
             !.published = [object |-> Object(f, o), tags |-> tags, rules |-> form[f].rules]]
       /\ objects' = objects \cup {Object(f, o)} /\ UNCHANGED <<intents, graced>>

\* A change of status or fill method.
Adjusted(f) ==
  /\ form[f] # None
  /\ \/ \E status \in {"published", "archived"} : form'[f] = [form[f] EXCEPT !.status = status]
     \/ \E fill \in {"onlyoffice", "native"} : form'[f] = [form[f] EXCEPT !.fill = fill]
  /\ UNCHANGED store

Rewritten(f) == \/ Inserted(f) \/ Discarded(f) \/ RuleCommitted(f)
                \/ SaveCompleted(f) \/ PublishCompleted(f) \/ Adjusted(f)

\* A step writes the row of one form at most.
RowsStep ==
  /\ form' = [f \in Forms |-> form'[f]]
  /\ \/ form' = form
     \/ \E g \in Forms : Rewritten(g) /\ \A f \in Forms \ {g} : form'[f] = form[f]


\* Which rows of forms a step writes.
LEMMA RowsMove ==
    ASSUME CatalogTypes, NEW busy, CatalogStep(busy)
    PROVE  RowsStep
<1> USE DEF Goto, Know, Finish, catalog, store
<1>0. /\ DOMAIN form = Forms /\ form = [f \in Forms |-> form[f]]
      /\ DOMAIN pc = Clients /\ DOMAIN plan = Clients
      /\ Creations \cup Saves \cup Configurations \cup Reapers \subseteq Clients
  BY CatalogNames DEF CatalogTypes
<1>1. ASSUME NEW c \in Creations, CreateForm(c) PROVE RowsStep
  BY <1>1, <1>0 DEF RowsStep, CreateForm, ReadTemplate, Announce, Blank
<1>2. ASSUME NEW c \in Creations, DuplicateForm(c) PROVE RowsStep
  BY <1>2, <1>0 DEF RowsStep, DuplicateForm, ReadTemplate, Announce
<1>3. ASSUME NEW c \in Creations, PutTemplate(c) PROVE RowsStep
  BY <1>3, <1>0 DEF RowsStep, PutTemplate
<1>4. ASSUME NEW c \in Creations, InsertForm(c) PROVE RowsStep
  <2>1. c \in Forms
    BY CatalogNames
  <2>2. form' = [f \in Forms |-> form'[f]] /\ \A f \in Forms \ {c} : form'[f] = form[f]
    BY <1>4, <1>0, <2>1 DEF InsertForm
  <2>3. Inserted(c)
    BY <1>4, <1>0, <2>1 DEF InsertForm, Inserted
  <2> QED BY <2>1, <2>2, <2>3 DEF RowsStep, Rewritten
<1>5. ASSUME NEW c \in Creations, FailCreation(c) PROVE RowsStep
  BY <1>5, <1>0 DEF RowsStep, FailCreation
<1>6. ASSUME NEW r \in Configurations, NEW g \in Forms, NEW s \in Sessions, ReadForRule(r, g, s)
      PROVE  RowsStep
  BY <1>6, <1>0 DEF RowsStep, ReadForRule
<1>7. ASSUME NEW r \in Configurations, NEW rule \in Rules, NEW previous \in Tags \cup {None}, pc[r]
             = "configure", CommitRule(r, rule, previous)
      PROVE  RowsStep
  <2>1. plan[r].form \in Forms
    BY <1>7 DEF CatalogTypes, RulePlans
  <2>2. form' = [f \in Forms |-> form'[f]] /\ \A f \in Forms \ {plan[r].form} : form'[f] = form[f]
    BY <1>7, <1>0, <2>1 DEF CommitRule
  <2>3. RuleCommitted(plan[r].form)
    BY <1>7, <1>0, <2>1 DEF CommitRule, RuleCommitted, Configurable
  <2> QED BY <2>1, <2>2, <2>3 DEF RowsStep, Rewritten
<1>8. ASSUME NEW r \in Configurations, RefuseRule(r) PROVE RowsStep
  BY <1>8, <1>0 DEF RowsStep, RefuseRule
<1>9. ASSUME NEW g \in Forms, NEW s \in Sessions, OpenEditor(g, s) PROVE RowsStep
  BY <1>9, <1>0 DEF RowsStep, OpenEditor
<1>10. ASSUME NEW g \in Forms, CloseEditor(g) \/ OperationLate(g) PROVE RowsStep
  BY <1>10, <1>0 DEF RowsStep, CloseEditor, OperationLate
<1>11. ASSUME NEW o \in Saves, NEW g \in Forms, NEW s \in Sessions, BeginSave(o, g, s) \/
              BeginPublish(o, g, s)
       PROVE  RowsStep
  BY <1>11, <1>0 DEF RowsStep, BeginSave, BeginPublish, Begin
<1>12. ASSUME NEW o \in Saves, NEW tags \in SUBSET Tags, CompleteSave(o, tags) PROVE RowsStep
  <2>1. plan[o].form \in Forms
    BY <1>12 DEF CompleteSave, CatalogTypes, Operations
  <2>2. form' = [f \in Forms |-> form'[f]] /\ \A f \in Forms \ {plan[o].form} : form'[f] = form[f]
    BY <1>12, <1>0, <2>1 DEF CompleteSave
  <2>3. SaveCompleted(plan[o].form)
    BY <1>12, <1>0, <2>1 DEF CompleteSave, SaveCompleted
  <2> QED BY <2>1, <2>2, <2>3 DEF RowsStep, Rewritten
<1>13. ASSUME NEW o \in Saves, NEW tags \in SUBSET Tags, CompletePublish(o, tags) PROVE RowsStep
  <2>1. plan[o].form \in Forms
    BY <1>13 DEF CompletePublish, CatalogTypes, Operations
  <2>2. form' = [f \in Forms |-> form'[f]] /\ \A f \in Forms \ {plan[o].form} : form'[f] = form[f]
    BY <1>13, <1>0, <2>1 DEF CompletePublish
  <2>3. PublishCompleted(plan[o].form)
    BY <1>13, <1>0, <2>1 DEF CompletePublish, PublishCompleted
  <2> QED BY <2>1, <2>2, <2>3 DEF RowsStep, Rewritten
<1>14. ASSUME NEW o \in Saves, FailSave(o) PROVE RowsStep
  BY <1>14, <1>0 DEF RowsStep, FailSave
<1>15. ASSUME NEW e \in Edits, NEW g \in Forms, NEW status \in {"published", "archived"},
              SetStatus(e, g, status)
       PROVE  RowsStep
  <2>1. g \in Forms
    OBVIOUS
  <2>2. form' = [f \in Forms |-> form'[f]] /\ \A f \in Forms \ {g} : form'[f] = form[f]
    BY <1>15, <1>0, <2>1 DEF SetStatus
  <2>3. Adjusted(g)
    BY <1>15, <1>0, <2>1 DEF SetStatus, Adjusted, Published
  <2> QED BY <2>1, <2>2, <2>3 DEF RowsStep, Rewritten
<1>16. ASSUME NEW e \in Edits, NEW g \in Forms, NEW fill \in {"onlyoffice", "native"}, SetFill(e, g,
              fill, busy)
       PROVE  RowsStep
  <2>1. g \in Forms
    OBVIOUS
  <2>2. form' = [f \in Forms |-> form'[f]] /\ \A f \in Forms \ {g} : form'[f] = form[f]
    BY <1>16, <1>0, <2>1 DEF SetFill
  <2>3. Adjusted(g)
    BY <1>16, <1>0, <2>1 DEF SetFill, Adjusted
  <2> QED BY <2>1, <2>2, <2>3 DEF RowsStep, Rewritten
<1>17. ASSUME NEW d \in Discards, NEW g \in Forms, NEW s \in Sessions, DeleteForm(d, g, s)
       PROVE  RowsStep
  <2>1. g \in Forms
    OBVIOUS
  <2>2. form' = [f \in Forms |-> form'[f]] /\ \A f \in Forms \ {g} : form'[f] = form[f]
    BY <1>17, <1>0, <2>1 DEF DeleteForm
  <2>3. Discarded(g)
    BY <1>17, <1>0, <2>1 DEF DeleteForm, Discarded
  <2> QED BY <2>1, <2>2, <2>3 DEF RowsStep, Rewritten
<1>18. ASSUME NEW o \in graced, GraceOver(o) PROVE RowsStep
  BY <1>18, <1>0 DEF RowsStep, GraceOver
<1>19. ASSUME NEW w \in Reapers, NEW o \in intents \ FormDocuments, CheckIntent(w, o, FALSE)
       PROVE  RowsStep
  BY <1>19, <1>0 DEF RowsStep, CheckIntent
<1>20. ASSUME NEW w \in Reapers, RemoveObject(w) PROVE RowsStep
  BY <1>20, <1>0 DEF RowsStep, RemoveObject
<1>21. ASSUME Elsewhere PROVE RowsStep
  BY <1>21, <1>0 DEF RowsStep, Elsewhere
<1>22. ASSUME NEW g \in Forms, NEW o \in objects, RemoveReplaced(g, o) PROVE RowsStep
  BY <1>22, <1>0 DEF RowsStep, RemoveReplaced
<1> QED
  BY <1>1, <1>2, <1>3, <1>4, <1>5, <1>6, <1>7, <1>8, <1>9, <1>10, <1>11, <1>12, <1>13, <1>14,
     <1>15, <1>16, <1>17, <1>18, <1>19, <1>20, <1>21, <1>22
     DEF CatalogStep, CatalogOwn, CatalogNext, Create, Configure, Author, Operate, Administer

\* The row of a form keeps its type.
LEMMA RowsTyped ==
    ASSUME CatalogTypes, RowsStep
    PROVE  form' \in [Forms -> Rows \cup {None}]
<1> SUFFICES ASSUME NEW f \in Forms PROVE form'[f] \in Rows \cup {None}
  BY DEF RowsStep
<1>1. form[f] \in Rows \cup {None}
  BY DEF CatalogTypes
<1>2. \/ form'[f] = form[f]
      \/ Rewritten(f)
  BY DEF RowsStep
<1>3. CASE form'[f] = form[f]
  BY <1>1, <1>3
<1>4. \A x \in Forms \cup Clients : Object(f, x) \in Objects
  BY DEF Object, Objects
<1>5. ASSUME form[f] # None PROVE form[f] \in Rows
  BY <1>1, <1>5
<1>6. CASE Inserted(f)
  <2>1. plan[f] \in Contents
    BY <1>6 DEF Inserted, CatalogTypes
  <2> QED BY <1>4, <1>6, <2>1 DEF Inserted, Rows, Contents
<1>7. CASE Discarded(f)
  BY <1>7 DEF Discarded
<1>8. CASE RuleCommitted(f)
  <2>1. form[f] \in Rows
    BY <1>5, <1>8 DEF RuleCommitted, Authored
  <2>2. PICK rule \in Rules, previous \in Tags \cup {None} :
          form'[f] = [form[f] EXCEPT !.rules = {x \in @ : x.tag # previous} \cup {rule}]
    BY <1>8 DEF RuleCommitted
  <2> QED BY <2>1, <2>2 DEF Rows
<1>9. CASE SaveCompleted(f)
  <2>1. form[f] \in Rows
    BY <1>5, <1>9 DEF SaveCompleted, Authored
  <2>2. PICK o \in Saves, tags \in SUBSET Tags :
          form'[f] = [form[f] EXCEPT !.object = Object(f, o), !.tags = tags]
    BY <1>9 DEF SaveCompleted
  <2>3. Object(f, o) \in Objects
    BY <1>4, CatalogNames
  <2> QED BY <2>1, <2>2, <2>3 DEF Rows
<1>10. CASE PublishCompleted(f)
  <2>1. form[f] \in Rows
    BY <1>5, <1>10 DEF PublishCompleted, Authored
  <2>2. PICK o \in Saves, tags \in SUBSET Tags :
          form'[f] = [form[f] EXCEPT !.status = "published",
             !.published = [object |-> Object(f, o), tags |-> tags, rules |-> form[f].rules]]
    BY <1>10 DEF PublishCompleted
  <2>3. Object(f, o) \in Objects
    BY <1>4, CatalogNames
  <2>4. [object |-> Object(f, o), tags |-> tags, rules |-> form[f].rules] \in Contracts
    BY <2>1, <2>3 DEF Rows, Contracts
  <2> QED BY <2>1, <2>2, <2>4 DEF Rows
<1>11. CASE Adjusted(f)
  <2>1. form[f] \in Rows
    BY <1>5, <1>11 DEF Adjusted
  <2>2. CASE \E status \in {"published", "archived"} : form'[f] = [form[f] EXCEPT !.status = status]
    BY <2>1, <2>2 DEF Rows
  <2>3. CASE \E fill \in {"onlyoffice", "native"} : form'[f] = [form[f] EXCEPT !.fill = fill]
    BY <2>1, <2>3 DEF Rows
  <2> QED BY <1>11, <2>2, <2>3 DEF Adjusted
<1> QED BY <1>2, <1>3, <1>6, <1>7, <1>8, <1>9, <1>10, <1>11 DEF Rewritten

(***************************************************************************)
(* What a step does to the requests and to the store                       *)
(***************************************************************************)

\* A creation that announces its object, and one that stores it.
Announced(c) ==
  /\ c \in Creations /\ pc[c] = "idle" /\ pc'[c] = "put"
  /\ \/ \E tags \in SUBSET Tags : plan'[c] = Blank(tags)
     \/ \E f \in Forms : form[f] # None /\ plan'[c] = Copied(f)
  /\ intents' = intents \cup {Object(c, c)} /\ graced' = graced \cup {Object(c, c)}
  /\ UNCHANGED <<form, objects>>

Stored(c) ==
  /\ c \in Creations /\ pc[c] = "put" /\ pc'[c] = "commit" /\ plan'[c] = plan[c]
  /\ objects' = objects \cup {Object(c, c)}
  /\ UNCHANGED <<form, intents, graced>>

\* An operation that begins, and a request that reads a form to change a rule.
Began(o) == /\ o \in Saves /\ pc[o] = "idle" /\ pc'[o] = "callback" /\ plan'[o] \in Operations
            /\ form[plan'[o].form] # None /\ plan'[o].document = form[plan'[o].form].object
            /\ UNCHANGED <<form, store>>
Asked(r) == /\ r \in Configurations /\ pc[r] = "idle" /\ pc'[r] = "configure" /\ plan'[r] \in RulePlans
            /\ UNCHANGED <<form, store>>

\* A save that completes: what it replaced is known from its row.
Saved(o) == /\ o \in Saves /\ pc[o] = "callback" /\ pc'[o] = "done" /\ plan'[o] = plan[o]
            /\ plan[o] \in Operations /\ SaveCompleted(plan[o].form)

\* A timer run that has found an object nobody refers to, and one that is through with it.
Checked(w) ==
  /\ w \in Reapers /\ pc[w] = "idle" /\ pc'[w] = "remove"
  /\ plan'[w] \in (intents \ graced) \ FormDocuments
  /\ UNCHANGED <<form, store>>

Removed(w) ==
  /\ w \in Reapers /\ pc[w] = "remove" /\ pc'[w] = "idle"
  /\ \/ objects' = objects \ {plan[w]} /\ intents' = intents \ {plan[w]}
     \/ UNCHANGED <<objects, intents>>
  /\ UNCHANGED <<form, graced>>

RequestMoves(p) ==
  \/ pc'[p] = pc[p] /\ plan'[p] = plan[p]
  \/ pc[p] # "done" /\ pc'[p] = "done" /\ plan'[p] = None
  \/ Announced(p) \/ Stored(p) \/ Began(p) \/ Saved(p) \/ Asked(p) \/ Checked(p) \/ Removed(p)

Requests == Creations \cup Saves \cup Configurations \cup Reapers

RequestsStep == /\ DOMAIN pc' = Clients /\ DOMAIN plan' = Clients
                /\ \A p \in Requests : RequestMoves(p)


\* How a request goes on in a step.
LEMMA RequestsMove ==
    ASSUME CatalogTypes, NEW busy, CatalogStep(busy)
    PROVE  RequestsStep
<1> USE DEF Goto, Know, Finish, catalog, store
<1>0. /\ DOMAIN form = Forms /\ DOMAIN pc = Clients /\ DOMAIN plan = Clients
      /\ Creations \cup Saves \cup Configurations \cup Reapers \subseteq Clients
  BY CatalogNames DEF CatalogTypes
<1>1. ASSUME NEW c \in Creations, CreateForm(c) PROVE RequestsStep
  <2>1. DOMAIN pc' = Clients /\ DOMAIN plan' = Clients
    BY <1>1, <1>0 DEF CreateForm, ReadTemplate, Announce, Blank
  <2>2. ASSUME NEW p \in Requests, p # c PROVE RequestMoves(p)
    BY <1>1, <1>0, <2>2 DEF CreateForm, ReadTemplate, Announce, Blank, RequestMoves
  <2>3. Announced(c)
    BY <1>1, <1>0, CatalogNames DEF CreateForm, ReadTemplate, Announce, Blank, Announced, Blank
  <2> QED BY <2>1, <2>2, <2>3 DEF RequestsStep, RequestMoves
<1>2. ASSUME NEW c \in Creations, DuplicateForm(c) PROVE RequestsStep
  <2>1. DOMAIN pc' = Clients /\ DOMAIN plan' = Clients
    BY <1>2, <1>0 DEF DuplicateForm, ReadTemplate, Announce
  <2>2. ASSUME NEW p \in Requests, p # c PROVE RequestMoves(p)
    BY <1>2, <1>0, <2>2 DEF DuplicateForm, ReadTemplate, Announce, RequestMoves
  <2>3. Announced(c)
    BY <1>2, <1>0, CatalogNames DEF DuplicateForm, ReadTemplate, Announce, Announced
  <2> QED BY <2>1, <2>2, <2>3 DEF RequestsStep, RequestMoves
<1>3. ASSUME NEW c \in Creations, PutTemplate(c) PROVE RequestsStep
  <2>1. DOMAIN pc' = Clients /\ DOMAIN plan' = Clients
    BY <1>3, <1>0 DEF PutTemplate
  <2>2. ASSUME NEW p \in Requests, p # c PROVE RequestMoves(p)
    BY <1>3, <1>0, <2>2 DEF PutTemplate, RequestMoves
  <2>3. Stored(c)
    BY <1>3, <1>0, CatalogNames DEF PutTemplate, Stored
  <2> QED BY <2>1, <2>2, <2>3 DEF RequestsStep, RequestMoves
<1>4. ASSUME NEW c \in Creations, InsertForm(c) PROVE RequestsStep
  BY <1>4, <1>0 DEF RequestsStep, RequestMoves, Requests, InsertForm
<1>5. ASSUME NEW c \in Creations, FailCreation(c) PROVE RequestsStep
  BY <1>5, <1>0 DEF RequestsStep, RequestMoves, Requests, FailCreation
<1>6. ASSUME NEW r \in Configurations, NEW g \in Forms, NEW s \in Sessions, ReadForRule(r, g, s)
      PROVE  RequestsStep
  <2>1. DOMAIN pc' = Clients /\ DOMAIN plan' = Clients
    BY <1>6, <1>0 DEF ReadForRule
  <2>2. ASSUME NEW p \in Requests, p # r PROVE RequestMoves(p)
    BY <1>6, <1>0, <2>2 DEF ReadForRule, RequestMoves
  <2>3. Asked(r)
    <3>1. form[g] \in Rows
      BY <1>6 DEF ReadForRule, Authored, CatalogTypes
    <3>2. [form |-> g, session |-> s, document |-> form[g].object] \in RulePlans
      BY <3>1 DEF Rows, RulePlans
    <3> QED BY <1>6, <1>0, <3>2 DEF ReadForRule, Asked
  <2> QED BY <2>1, <2>2, <2>3 DEF RequestsStep, RequestMoves
<1>7. ASSUME NEW r \in Configurations, NEW rule \in Rules, NEW previous \in Tags \cup {None}, pc[r]
             = "configure", CommitRule(r, rule, previous)
      PROVE  RequestsStep
  BY <1>7, <1>0 DEF RequestsStep, RequestMoves, Requests, CommitRule
<1>8. ASSUME NEW r \in Configurations, RefuseRule(r) PROVE RequestsStep
  BY <1>8, <1>0 DEF RequestsStep, RequestMoves, Requests, RefuseRule
<1>9. ASSUME NEW g \in Forms, NEW s \in Sessions, OpenEditor(g, s) PROVE RequestsStep
  BY <1>9, <1>0 DEF RequestsStep, RequestMoves, Requests, OpenEditor
<1>10. ASSUME NEW g \in Forms, CloseEditor(g) \/ OperationLate(g) PROVE RequestsStep
  BY <1>10, <1>0 DEF RequestsStep, RequestMoves, Requests, CloseEditor, OperationLate
<1>11. ASSUME NEW o \in Saves, NEW g \in Forms, NEW s \in Sessions, BeginSave(o, g, s) \/
              BeginPublish(o, g, s)
       PROVE  RequestsStep
  <2>1. DOMAIN pc' = Clients /\ DOMAIN plan' = Clients
    BY <1>11, <1>0 DEF BeginSave, BeginPublish, Begin
  <2>2. ASSUME NEW p \in Requests, p # o PROVE RequestMoves(p)
    BY <1>11, <1>0, <2>2 DEF BeginSave, BeginPublish, Begin, RequestMoves, Requests
  <2>3. Began(o)
    <3>1. form[g] \in Rows
      BY <1>11 DEF BeginSave, BeginPublish, Begin, Authored, CatalogTypes
    <3>2. \A type \in {"save", "publish"} :
            [form |-> g, type |-> type, document |-> form[g].object] \in Operations
      BY <3>1 DEF Rows, Operations
    <3>3. ASSUME NEW type \in {"save", "publish"}, Begin(o, g, s, type) PROVE Began(o)
      <4>1. plan'[o] = [form |-> g, type |-> type, document |-> form[g].object]
        BY <1>0, <3>3 DEF Begin
      <4>2. plan'[o].form = g /\ plan'[o].document = form[g].object
        BY <4>1
      <4> QED BY <1>0, <3>2, <3>3, <4>1, <4>2 DEF Begin, Began, Authored
    <3> QED BY <1>11, <3>3 DEF BeginSave, BeginPublish
  <2> QED BY <2>1, <2>2, <2>3 DEF RequestsStep, RequestMoves
<1>12. ASSUME NEW o \in Saves, NEW tags \in SUBSET Tags, CompleteSave(o, tags) PROVE RequestsStep
  <2>1. DOMAIN pc' = Clients /\ DOMAIN plan' = Clients
    BY <1>12, <1>0 DEF CompleteSave
  <2>2. ASSUME NEW p \in Requests, p # o PROVE RequestMoves(p)
    BY <1>12, <1>0, <2>2 DEF CompleteSave, RequestMoves, Requests
  <2>3. plan[o] \in Operations /\ plan[o].form \in Forms
    BY <1>12 DEF CompleteSave, CatalogTypes, Operations
  <2>4. SaveCompleted(plan[o].form)
    BY <1>12, <1>0, <2>3 DEF CompleteSave, SaveCompleted
  <2>5. Saved(o)
    BY <1>12, <1>0, <2>3, <2>4 DEF CompleteSave, Saved
  <2> QED BY <2>1, <2>2, <2>5 DEF RequestsStep, RequestMoves
<1>13. ASSUME NEW o \in Saves, NEW tags \in SUBSET Tags, CompletePublish(o, tags) PROVE RequestsStep
  BY <1>13, <1>0 DEF RequestsStep, RequestMoves, Requests, CompletePublish
<1>14. ASSUME NEW o \in Saves, FailSave(o) PROVE RequestsStep
  BY <1>14, <1>0 DEF RequestsStep, RequestMoves, Requests, FailSave
<1>15. ASSUME NEW e \in Edits, NEW g \in Forms, NEW status \in {"published", "archived"},
              SetStatus(e, g, status)
       PROVE  RequestsStep
  BY <1>15, <1>0 DEF RequestsStep, RequestMoves, Requests, SetStatus
<1>16. ASSUME NEW e \in Edits, NEW g \in Forms, NEW fill \in {"onlyoffice", "native"}, SetFill(e, g,
              fill, busy)
       PROVE  RequestsStep
  BY <1>16, <1>0 DEF RequestsStep, RequestMoves, Requests, SetFill
<1>17. ASSUME NEW d \in Discards, NEW g \in Forms, NEW s \in Sessions, DeleteForm(d, g, s)
       PROVE  RequestsStep
  BY <1>17, <1>0 DEF RequestsStep, RequestMoves, Requests, DeleteForm
<1>18. ASSUME NEW o \in graced, GraceOver(o) PROVE RequestsStep
  BY <1>18, <1>0 DEF RequestsStep, RequestMoves, Requests, GraceOver
<1>19. ASSUME NEW w \in Reapers, NEW o \in intents \ FormDocuments, CheckIntent(w, o, FALSE)
       PROVE  RequestsStep
  <2>1. DOMAIN pc' = Clients /\ DOMAIN plan' = Clients
    BY <1>19, <1>0 DEF CheckIntent
  <2>2. ASSUME NEW p \in Requests, p # w PROVE RequestMoves(p)
    BY <1>19, <1>0, <2>2 DEF CheckIntent, RequestMoves
  <2>3. Checked(w)
    BY <1>19, <1>0, CatalogNames DEF CheckIntent, Checked
  <2> QED BY <2>1, <2>2, <2>3 DEF RequestsStep, RequestMoves
<1>20. ASSUME NEW w \in Reapers, RemoveObject(w) PROVE RequestsStep
  <2>1. DOMAIN pc' = Clients /\ DOMAIN plan' = Clients
    BY <1>20, <1>0 DEF RemoveObject
  <2>2. ASSUME NEW p \in Requests, p # w PROVE RequestMoves(p)
    BY <1>20, <1>0, <2>2 DEF RemoveObject, RequestMoves
  <2>3. Removed(w)
    BY <1>20, <1>0, CatalogNames DEF RemoveObject, Removed
  <2> QED BY <2>1, <2>2, <2>3 DEF RequestsStep, RequestMoves
<1>21. ASSUME Elsewhere PROVE RequestsStep
  BY <1>21, <1>0 DEF RequestsStep, RequestMoves, Requests, Elsewhere
<1>22. ASSUME NEW g \in Forms, NEW o \in objects, RemoveReplaced(g, o) PROVE RequestsStep
  BY <1>22, <1>0 DEF RequestsStep, RequestMoves, Requests, RemoveReplaced
<1> QED
  BY <1>1, <1>2, <1>3, <1>4, <1>5, <1>6, <1>7, <1>8, <1>9, <1>10, <1>11, <1>12, <1>13, <1>14,
     <1>15, <1>16, <1>17, <1>18, <1>19, <1>20, <1>21, <1>22
     DEF CatalogStep, CatalogOwn, CatalogNext, Create, Configure, Author, Operate, Administer

\* A creation that gives up, and an intent whose creation is over and that becomes due.
Dropped(c) ==
  /\ c \in Creations /\ pc'[c] = "done" /\ graced' \in {graced, graced \ {Object(c, c)}}
  /\ UNCHANGED <<form, objects, intents>>

GraceEnded(o) == /\ o \in graced /\ pc[o.name] = "done" /\ graced' = graced \ {o}
                 /\ UNCHANGED <<form, objects, intents>>

\* What a save replaced, and that is removed.
ReplacedRemoved(f, o) ==
  /\ form[f] # None /\ o \in Replaced(f) /\ objects' = objects \ {o}
  /\ UNCHANGED <<form, intents, graced>>

StoreMove ==
  \/ UNCHANGED store
  \/ \E c \in Creations : Announced(c) \/ Stored(c) \/ Inserted(c) \/ Dropped(c)
  \/ \E o \in graced : GraceEnded(o)
  \/ \E w \in Reapers : Removed(w)
  \/ \E f \in Forms : Discarded(f) \/ SaveCompleted(f) \/ PublishCompleted(f)
  \/ \E f \in Forms, o \in objects : ReplacedRemoved(f, o)

StoreStep == StoreMove \/ Elsewhere


\* What a step does to the store.
LEMMA StoreMoves ==
    ASSUME CatalogTypes, NEW busy, CatalogOwn(busy)
    PROVE  StoreMove
<1> USE DEF Goto, Know, Finish, catalog, store
<1>0. /\ DOMAIN form = Forms /\ DOMAIN pc = Clients /\ DOMAIN plan = Clients
      /\ Creations \cup Saves \cup Configurations \cup Reapers \subseteq Clients
  BY CatalogNames DEF CatalogTypes
<1>1. ASSUME NEW c \in Creations, CreateForm(c) PROVE StoreMove
  <2>2. Announced(c)
    BY <1>1, <1>0, CatalogNames DEF CreateForm, ReadTemplate, Announce, Blank, Announced, Blank
  <2> QED BY <2>2 DEF StoreMove
<1>2. ASSUME NEW c \in Creations, DuplicateForm(c) PROVE StoreMove
  <2>2. Announced(c)
    BY <1>2, <1>0, CatalogNames DEF DuplicateForm, ReadTemplate, Announce, Announced
  <2> QED BY <2>2 DEF StoreMove
<1>3. ASSUME NEW c \in Creations, PutTemplate(c) PROVE StoreMove
  <2>2. Stored(c)
    BY <1>3, <1>0, CatalogNames DEF PutTemplate, Stored
  <2> QED BY <2>2 DEF StoreMove
<1>4. ASSUME NEW c \in Creations, InsertForm(c) PROVE StoreMove
  <2>2. Inserted(c)
    BY <1>4, <1>0, CatalogNames DEF InsertForm, Inserted
  <2> QED BY <2>2 DEF StoreMove
<1>5. ASSUME NEW c \in Creations, FailCreation(c) PROVE StoreMove
  <2>2. Dropped(c)
    BY <1>5, <1>0, CatalogNames DEF FailCreation, Dropped
  <2> QED BY <2>2 DEF StoreMove
<1>6. ASSUME NEW r \in Configurations, NEW g \in Forms, NEW s \in Sessions, ReadForRule(r, g, s)
      PROVE  StoreMove
  BY <1>6 DEF StoreMove, ReadForRule
<1>7. ASSUME NEW r \in Configurations, NEW rule \in Rules, NEW previous \in Tags \cup {None}, pc[r]
             = "configure", CommitRule(r, rule, previous)
      PROVE  StoreMove
  BY <1>7 DEF StoreMove, CommitRule
<1>8. ASSUME NEW r \in Configurations, RefuseRule(r) PROVE StoreMove
  BY <1>8 DEF StoreMove, RefuseRule
<1>9. ASSUME NEW g \in Forms, NEW s \in Sessions, OpenEditor(g, s) PROVE StoreMove
  BY <1>9 DEF StoreMove, OpenEditor
<1>10. ASSUME NEW g \in Forms, CloseEditor(g) \/ OperationLate(g) PROVE StoreMove
  BY <1>10 DEF StoreMove, CloseEditor, OperationLate
<1>11. ASSUME NEW o \in Saves, NEW g \in Forms, NEW s \in Sessions, BeginSave(o, g, s) \/
              BeginPublish(o, g, s)
       PROVE  StoreMove
  BY <1>11 DEF StoreMove, BeginSave, BeginPublish, Begin
<1>12. ASSUME NEW o \in Saves, NEW tags \in SUBSET Tags, CompleteSave(o, tags) PROVE StoreMove
  <2>1. plan[o].form \in Forms
    BY <1>12 DEF CompleteSave, CatalogTypes, Operations
  <2>2. SaveCompleted(plan[o].form)
    BY <1>12, <1>0, <2>1, CatalogNames DEF CompleteSave, SaveCompleted
  <2> QED BY <2>2, <2>1 DEF StoreMove
<1>13. ASSUME NEW o \in Saves, NEW tags \in SUBSET Tags, CompletePublish(o, tags) PROVE StoreMove
  <2>1. plan[o].form \in Forms
    BY <1>13 DEF CompletePublish, CatalogTypes, Operations
  <2>2. PublishCompleted(plan[o].form)
    BY <1>13, <1>0, <2>1, CatalogNames DEF CompletePublish, PublishCompleted
  <2> QED BY <2>2, <2>1 DEF StoreMove
<1>14. ASSUME NEW o \in Saves, FailSave(o) PROVE StoreMove
  BY <1>14 DEF StoreMove, FailSave
<1>15. ASSUME NEW e \in Edits, NEW g \in Forms, NEW status \in {"published", "archived"},
              SetStatus(e, g, status)
       PROVE  StoreMove
  BY <1>15 DEF StoreMove, SetStatus
<1>16. ASSUME NEW e \in Edits, NEW g \in Forms, NEW fill \in {"onlyoffice", "native"}, SetFill(e, g,
              fill, busy)
       PROVE  StoreMove
  BY <1>16 DEF StoreMove, SetFill
<1>17. ASSUME NEW d \in Discards, NEW g \in Forms, NEW s \in Sessions, DeleteForm(d, g, s)
       PROVE  StoreMove
  <2>2. Discarded(g)
    BY <1>17, <1>0, CatalogNames DEF DeleteForm, Discarded
  <2> QED BY <2>2 DEF StoreMove
<1>18. ASSUME NEW o \in graced, GraceOver(o) PROVE StoreMove
  <2>2. GraceEnded(o)
    BY <1>18, <1>0, CatalogNames DEF GraceOver, GraceEnded
  <2> QED BY <2>2 DEF StoreMove
<1>19. ASSUME NEW w \in Reapers, NEW o \in intents \ FormDocuments, CheckIntent(w, o, FALSE)
       PROVE  StoreMove
  BY <1>19 DEF StoreMove, CheckIntent
<1>20. ASSUME NEW w \in Reapers, RemoveObject(w) PROVE StoreMove
  <2>2. Removed(w)
    BY <1>20, <1>0, CatalogNames DEF RemoveObject, Removed
  <2> QED BY <2>2 DEF StoreMove
<1>21. ASSUME NEW g \in Forms, NEW o \in objects, RemoveReplaced(g, o) PROVE StoreMove
  <2>1. ReplacedRemoved(g, o)
    BY <1>21 DEF RemoveReplaced, ReplacedRemoved
  <2> QED BY <2>1 DEF StoreMove
<1> QED
  BY <1>1, <1>2, <1>3, <1>4, <1>5, <1>6, <1>7, <1>8, <1>9, <1>10, <1>11, <1>12, <1>13, <1>14,
     <1>15, <1>16, <1>17, <1>18, <1>19, <1>20, <1>21
     DEF CatalogOwn, CatalogNext, Create, Configure, Author, Operate, Administer

(***************************************************************************)
(* The parts of the invariant                                              *)
(***************************************************************************)

\* The documents of a form are objects.
LEMMA DocumentsType ==
    ASSUME CatalogTypes, NEW f \in Forms
    PROVE  DocumentsOf(f) \subseteq Objects
<1>1. CASE form[f] = None
  BY <1>1 DEF DocumentsOf
<1>2. CASE form[f] # None
  <2>1. form[f] \in Rows
    BY <1>2 DEF CatalogTypes
  <2>2. Published(f) => form[f].published \in Contracts
    BY <2>1 DEF Published, Rows
  <2> QED BY <1>2, <2>1, <2>2 DEF DocumentsOf, Rows, Contracts
<1> QED BY <1>1, <1>2

\* So is what saves replaced.
LEMMA ReplacedType ==
    ASSUME CatalogTypes, NEW f
    PROVE  Replaced(f) \subseteq Objects
<1> SUFFICES ASSUME NEW o \in Saves, pc[o] = "done", plan[o] # None PROVE plan[o].document \in Objects
  BY DEF Replaced
<1> QED BY DEF CatalogTypes, Operations

\* The values of the catalog have their types.
LEMMA CatalogTypesStep ==
    ASSUME CatalogTypes, RowsStep, RequestsStep, StoreStep
    PROVE  CatalogTypes'
<1>1. form' \in [Forms -> Rows \cup {None}]
  BY RowsTyped
<1>2. objects' \subseteq Objects /\ intents' \subseteq Objects
  <2>1. \A x \in Forms \cup Clients, y \in Forms \cup Clients : Object(x, y) \in Objects
    BY DEF Object, Objects
  <2>2. objects \subseteq Objects /\ intents \subseteq Objects
    BY DEF CatalogTypes
  <2>3. CASE UNCHANGED store
    BY <2>2, <2>3 DEF store
  <2>4. ASSUME NEW c \in Creations, Announced(c) \/ Stored(c) \/ Inserted(c) \/ Dropped(c)
        PROVE  objects' \subseteq Objects /\ intents' \subseteq Objects
    <3>1. Object(c, c) \in Objects
      BY <2>1, CatalogNames
    <3> QED BY <2>2, <2>4, <3>1 DEF Announced, Stored, Inserted, Dropped
  <2>5. CASE \E o \in graced : GraceEnded(o)
    BY <2>2, <2>5 DEF GraceEnded
  <2>6. CASE \E w \in Reapers : Removed(w)
    BY <2>2, <2>6 DEF Removed
  <2>7. ASSUME NEW f \in Forms, Discarded(f) \/ SaveCompleted(f) \/ PublishCompleted(f)
        PROVE  objects' \subseteq Objects /\ intents' \subseteq Objects
    <3>1. DocumentsOf(f) \subseteq Objects /\ Replaced(f) \subseteq Objects
      BY DocumentsType, ReplacedType
    <3>2. \A o \in Saves : Object(f, o) \in Objects
      BY <2>1, CatalogNames
    <3> QED BY <2>2, <2>7, <3>1, <3>2 DEF Discarded, SaveCompleted, PublishCompleted
  <2>8. CASE Elsewhere
    BY <2>8 DEF Elsewhere
  <2>9. CASE \E f \in Forms, o \in objects : ReplacedRemoved(f, o)
    BY <2>2, <2>9 DEF ReplacedRemoved
  <2> QED BY <2>3, <2>4, <2>5, <2>6, <2>7, <2>8, <2>9 DEF StoreStep, StoreMove
<1>3. ASSUME NEW c \in Creations, pc'[c] \in {"put", "commit"} PROVE plan'[c] \in Contents
  <2>1. RequestMoves(c)
    BY DEF RequestsStep, Requests
  <2>2. CASE Announced(c)
    <3>1. \A tags \in SUBSET Tags : Blank(tags) \in Contents
      BY DEF Blank, Contents
    <3> QED BY <2>2, <3>1, CopiedType DEF Announced
  <2> QED BY <1>3, <2>1, <2>2 DEF RequestMoves, Stored, Began, Saved, Asked, Checked, Removed, CatalogTypes
<1>4. ASSUME NEW w \in Reapers, pc'[w] = "remove" PROVE plan'[w] \in Objects
  <2>1. RequestMoves(w)
    BY DEF RequestsStep, Requests
  <2> QED BY <1>4, <2>1 DEF RequestMoves, Announced, Stored, Began, Saved, Asked, Checked, Removed, CatalogTypes
<1>5. ASSUME NEW o \in Saves
      PROVE  /\ pc'[o] = "callback" => plan'[o] \in Operations
             /\ pc'[o] = "done" => plan'[o] \in Operations \cup {None}
  <2>1. RequestMoves(o)
    BY DEF RequestsStep, Requests
  <2> QED BY <2>1 DEF RequestMoves, Announced, Stored, Began, Saved, Asked, Checked, Removed, CatalogTypes
<1>6. ASSUME NEW r \in Configurations, pc'[r] = "configure" PROVE plan'[r] \in RulePlans
  <2>1. RequestMoves(r)
    BY DEF RequestsStep, Requests
  <2> QED BY <1>6, <2>1 DEF RequestMoves, Announced, Stored, Began, Saved, Asked, Checked, Removed, CatalogTypes
<1> QED BY <1>1, <1>2, <1>3, <1>4, <1>5, <1>6 DEF CatalogTypes, RequestsStep

\* A form is made once, and its documents are named by it.
LEMMA BornStep ==
    ASSUME CatalogTypes, BornInv, RowsStep, RequestsStep
    PROVE  BornInv'
<1>1. ASSUME NEW f \in Forms, form'[f] # form[f] PROVE Rewritten(f)
  BY <1>1 DEF RowsStep
<1>2. ASSUME NEW c \in Creations, pc'[c] # "done" PROVE form'[c] = None
  <2>1. c \in Forms /\ RequestMoves(c)
    BY CatalogNames DEF RequestsStep, Requests
  <2>2. pc[c] # "done"
    BY <1>2, <2>1 DEF RequestMoves, Announced, Stored, Began, Saved, Asked, Checked, Removed
  <2>3. form[c] = None
    BY <2>2 DEF BornInv
  <2>4. ~Rewritten(c)
    BY <1>2, <2>3 DEF Rewritten, Inserted, Discarded, RuleCommitted, SaveCompleted, PublishCompleted,
                      Adjusted, Authored
  <2> QED BY <1>1, <2>1, <2>3, <2>4
<1>3. ASSUME NEW f \in Forms, form[f] # None PROVE form[f] \in Rows
  BY <1>3 DEF CatalogTypes
<1>4. ASSUME NEW f \in Forms \ Creations, form'[f] # None PROVE form'[f].published # None
  <2>1. CASE form'[f] = form[f]
    BY <1>4, <2>1 DEF BornInv
  <2>2. CASE Adjusted(f)
    <3>1. form[f] \in Rows
      BY <1>3, <2>2 DEF Adjusted
    <3>2. form'[f].published = form[f].published
      BY <2>2, <3>1 DEF Adjusted, Rows
    <3> QED BY <2>2, <3>2 DEF Adjusted, BornInv
  <2>3. CASE Authored(f)
    BY <2>3 DEF BornInv, Authored
  <2>4. ~Inserted(f)
    BY <1>4 DEF Inserted
  <2> QED BY <1>1, <2>1, <2>2, <2>3, <2>4 DEF Rewritten, Discarded, RuleCommitted, SaveCompleted, PublishCompleted
<1>5. ASSUME NEW f \in Forms, form'[f] # None
      PROVE  /\ form'[f].object.of = f
             /\ form'[f].published # None => form'[f].published.object.of = f
  <2>0. form[f] # None => /\ form[f].object.of = f
                          /\ form[f].published # None => form[f].published.object.of = f
    BY DEF BornInv, Published
  <2>1. CASE form'[f] = form[f]
    BY <1>5, <2>0, <2>1
  <2>2. CASE Inserted(f)
    BY <2>2 DEF Inserted, Object
  <2>3. CASE Discarded(f)
    BY <1>5, <2>3 DEF Discarded
  <2>4. CASE RuleCommitted(f)
    <3>1. form[f] \in Rows /\ form[f].published = None
      BY <1>3, <2>4 DEF RuleCommitted, Authored
    <3>2. form'[f].object = form[f].object /\ form'[f].published = None
      BY <2>4, <3>1 DEF RuleCommitted, Rows
    <3> QED BY <2>0, <3>2, <2>4 DEF RuleCommitted, Authored
  <2>5. CASE SaveCompleted(f)
    <3>1. form[f] \in Rows /\ form[f].published = None
      BY <1>3, <2>5 DEF SaveCompleted, Authored
    <3>2. PICK o \in Saves, tags \in SUBSET Tags :
            form'[f] = [form[f] EXCEPT !.object = Object(f, o), !.tags = tags]
      BY <2>5 DEF SaveCompleted
    <3>3. form'[f].object = Object(f, o) /\ form'[f].published = None
      BY <3>1, <3>2 DEF Rows
    <3> QED BY <3>3 DEF Object
  <2>6. CASE PublishCompleted(f)
    <3>1. form[f] \in Rows
      BY <1>3, <2>6 DEF PublishCompleted, Authored
    <3>2. PICK o \in Saves, tags \in SUBSET Tags :
            form'[f] = [form[f] EXCEPT !.status = "published",
               !.published = [object |-> Object(f, o), tags |-> tags, rules |-> form[f].rules]]
      BY <2>6 DEF PublishCompleted
    <3>3. form'[f].object = form[f].object /\ form'[f].published.object = Object(f, o)
      BY <3>1, <3>2 DEF Rows
    <3> QED BY <2>0, <2>6, <3>3 DEF Object, PublishCompleted, Authored
  <2>7. CASE Adjusted(f)
    <3>1. form[f] \in Rows
      BY <1>3, <2>7 DEF Adjusted
    <3>2. form'[f].object = form[f].object /\ form'[f].published = form[f].published
      BY <2>7, <3>1 DEF Adjusted, Rows
    <3> QED BY <2>0, <2>7, <3>2 DEF Adjusted
  <2> QED BY <1>1, <2>1, <2>2, <2>3, <2>4, <2>5, <2>6, <2>7 DEF Rewritten
<1> QED BY <1>2, <1>4, <1>5 DEF BornInv, Published

\* Where the documents of a form come from: it had them, or it is made, saved or published.
LEMMA DocumentsMove ==
    ASSUME CatalogTypes, RowsStep, NEW f \in Forms, NEW o \in DocumentsOf(f)'
    PROVE  \/ o \in DocumentsOf(f)
           \/ Inserted(f) /\ o = Object(f, f)
           \/ \E x \in Saves : /\ pc[x] = "callback" /\ o = Object(f, x)
                               /\ o \in objects' /\ intents' = intents
<1>1. form'[f] # None
  BY DEF DocumentsOf
<1>2. form'[f] # form[f] => Rewritten(f)
  BY DEF RowsStep
<1>3. o = form'[f].object \/ (form'[f].published # None /\ o = form'[f].published.object)
  BY <1>1 DEF DocumentsOf, Published
<1>4. ASSUME form[f] # None PROVE form[f] \in Rows
  BY <1>4 DEF CatalogTypes
<1>5. CASE form'[f] = form[f]
  BY <1>1, <1>3, <1>5 DEF DocumentsOf, Published
<1>6. CASE Inserted(f)
  BY <1>3, <1>6 DEF Inserted
<1>7. CASE Discarded(f)
  BY <1>1, <1>7 DEF Discarded
<1>8. CASE RuleCommitted(f)
  <2>1. form[f] # None /\ form[f] \in Rows
    BY <1>4, <1>8 DEF RuleCommitted, Authored
  <2>2. form'[f].object = form[f].object /\ form'[f].published = form[f].published
    BY <1>8, <2>1 DEF RuleCommitted, Rows
  <2> QED BY <1>3, <2>1, <2>2 DEF DocumentsOf, Published
<1>9. CASE SaveCompleted(f)
  <2>1. form[f] \in Rows /\ form[f].published = None
    BY <1>4, <1>9 DEF SaveCompleted, Authored
  <2>2. PICK x \in Saves, tags \in SUBSET Tags :
          /\ pc[x] = "callback"
          /\ form'[f] = [form[f] EXCEPT !.object = Object(f, x), !.tags = tags]
          /\ objects' = objects \cup {Object(f, x)} /\ intents' = intents
    BY <1>9 DEF SaveCompleted
  <2>3. form'[f].object = Object(f, x) /\ form'[f].published = None
    BY <2>1, <2>2 DEF Rows
  <2> QED BY <1>3, <2>2, <2>3
<1>10. CASE PublishCompleted(f)
  <2>1. form[f] # None /\ form[f] \in Rows
    BY <1>4, <1>10 DEF PublishCompleted, Authored
  <2>2. PICK x \in Saves, tags \in SUBSET Tags :
          /\ pc[x] = "callback"
          /\ form'[f] = [form[f] EXCEPT !.status = "published",
               !.published = [object |-> Object(f, x), tags |-> tags, rules |-> form[f].rules]]
          /\ objects' = objects \cup {Object(f, x)} /\ intents' = intents
    BY <1>10 DEF PublishCompleted
  <2>3. form'[f].object = form[f].object /\ form'[f].published.object = Object(f, x)
    BY <2>1, <2>2 DEF Rows
  <2> QED BY <1>3, <2>1, <2>2, <2>3 DEF DocumentsOf
<1>11. CASE Adjusted(f)
  <2>1. form[f] # None /\ form[f] \in Rows
    BY <1>4, <1>11 DEF Adjusted
  <2>2. form'[f].object = form[f].object /\ form'[f].published = form[f].published
    BY <1>11, <2>1 DEF Adjusted, Rows
  <2> QED BY <1>3, <2>1, <2>2 DEF DocumentsOf, Published
<1> QED BY <1>2, <1>5, <1>6, <1>7, <1>8, <1>9, <1>10, <1>11 DEF Rewritten

\* The documents of a form are named by it, and a row that is an author's has one.
LEMMA DocumentsNamed ==
    ASSUME BornInv, NEW f \in Forms, NEW o \in DocumentsOf(f)
    PROVE  o.of = f /\ (Authored(f) => o = form[f].object)
BY DEF BornInv, DocumentsOf, Published, Authored

\* What the saves of a form replaced is named by it, its name was used up, and the form
\* does not refer to it.
LEMMA ReplacedFacts ==
    ASSUME CatalogTypes, ReplacedInv, NEW f \in Forms, NEW o \in Replaced(f)
    PROVE  /\ o \in Objects /\ o.of = f /\ (f \in Creations => pc[f] = "done")
           /\ o.name \in Saves => pc[o.name] = "done"
           /\ o \notin DocumentsOf(f)
<1>1. PICK x \in Saves : pc[x] = "done" /\ plan[x] # None /\ plan[x].form = f /\ plan[x].document = o
  BY DEF Replaced
<1> QED BY <1>1, ReplacedType DEF ReplacedInv

\* What a step removes from the store, and what it adds to the intents.
LEMMA StoreChanges ==
    ASSUME CatalogTypes, BornInv, ReplacedInv, StoreStep, NEW f \in Forms, NEW o \in Objects, o.of = f
    PROVE  /\ o \in objects \ objects' =>
                \/ \E w \in Reapers : pc[w] = "remove" /\ plan[w] = o
                \/ form[f] # None /\ o \in Replaced(f)
           /\ o \in intents' \ intents =>
                \/ Announced(f) /\ o = Object(f, f)
                \/ Discarded(f) /\ o \in DocumentsOf(f) \cup Replaced(f)
           /\ o \in objects' \ objects =>
                \/ Stored(f) /\ o = Object(f, f)
                \/ \E x \in Saves : pc[x] = "callback" /\ pc'[x] = "done" /\ o = Object(f, x)
           /\ o \in intents \ intents' =>
                \/ \E w \in Reapers : pc[w] = "remove" /\ plan[w] = o
                \/ Inserted(f) /\ o = Object(f, f)
<1> DEFINE Changes ==
      /\ o \in objects \ objects' =>
           \/ \E w \in Reapers : pc[w] = "remove" /\ plan[w] = o
           \/ form[f] # None /\ o \in Replaced(f)
      /\ o \in intents' \ intents =>
           \/ Announced(f) /\ o = Object(f, f)
           \/ Discarded(f) /\ o \in DocumentsOf(f) \cup Replaced(f)
      /\ o \in objects' \ objects =>
           \/ Stored(f) /\ o = Object(f, f)
           \/ \E x \in Saves : pc[x] = "callback" /\ pc'[x] = "done" /\ o = Object(f, x)
      /\ o \in intents \ intents' =>
           \/ \E w \in Reapers : pc[w] = "remove" /\ plan[w] = o
           \/ Inserted(f) /\ o = Object(f, f)
<1>0. \A x \in Forms, y \in Forms \cup Clients : Object(x, y).of = x
  BY DEF Object
<1>1. CASE UNCHANGED store
  BY <1>1 DEF store
<1>2. ASSUME NEW c \in Creations, Announced(c) \/ Stored(c) \/ Inserted(c) \/ Dropped(c)
      PROVE  Changes
  <2>1. c \in Forms /\ Object(c, c).of = c
    BY <1>0, CatalogNames
  <2>2. CASE Announced(c)
    BY <2>1, <2>2 DEF Announced
  <2>3. CASE Stored(c)
    BY <2>1, <2>3 DEF Stored
  <2>4. CASE Inserted(c)
    BY <2>1, <2>4 DEF Inserted
  <2> QED BY <1>2, <2>2, <2>3, <2>4 DEF Dropped
<1>3. CASE \E x \in graced : GraceEnded(x)
  BY <1>3 DEF GraceEnded
<1>4. CASE \E w \in Reapers : Removed(w)
  BY <1>4 DEF Removed
<1>5. ASSUME NEW g \in Forms, Discarded(g) PROVE Changes
  <2>1. o \in DocumentsOf(g) \cup Replaced(g) => g = f
    BY DocumentsNamed, ReplacedFacts
  <2> QED BY <1>5, <2>1 DEF Discarded
<1>6. ASSUME NEW g \in Forms, SaveCompleted(g) PROVE Changes
  <2>1. PICK x \in Saves : /\ pc[x] = "callback" /\ pc'[x] = "done"
                           /\ objects' = objects \cup {Object(g, x)} /\ intents' = intents
    BY <1>6 DEF SaveCompleted
  <2>2. Object(g, x).of = g
    BY DEF Object
  <2> QED BY <2>1, <2>2
<1>7. ASSUME NEW g \in Forms, PublishCompleted(g) PROVE Changes
  <2>1. PICK x \in Saves : /\ pc[x] = "callback" /\ pc'[x] = "done"
                           /\ objects' = objects \cup {Object(g, x)} /\ intents' = intents
    BY <1>7 DEF PublishCompleted
  <2>2. Object(g, x).of = g
    BY DEF Object
  <2> QED BY <2>1, <2>2
<1>8. CASE Elsewhere
  <2>1. (o \in objects' <=> o \in objects) /\ (o \in intents' <=> o \in intents)
    BY <1>8 DEF Elsewhere
  <2> QED BY <2>1
<1>9. ASSUME NEW g \in Forms, NEW x \in objects, ReplacedRemoved(g, x) PROVE Changes
  <2>1. x \in Replaced(g) /\ form[g] # None
    BY <1>9 DEF ReplacedRemoved
  <2>2. x.of = g
    BY <2>1, ReplacedFacts
  <2> QED BY <1>9, <2>1, <2>2 DEF ReplacedRemoved
<1> QED BY <1>1, <1>2, <1>3, <1>4, <1>5, <1>6, <1>7, <1>8, <1>9 DEF StoreStep, StoreMove

\* Who the timer is after.
LEMMA ReaperMoves ==
    ASSUME RequestsStep, NEW w \in Reapers, pc'[w] = "remove"
    PROVE  (pc[w] = "remove" /\ plan'[w] = plan[w]) \/ Checked(w)
BY CatalogNames DEF RequestsStep, Requests, RequestMoves, Announced, Stored, Began, Saved, Asked, Removed

\* Documents of forms stay, out of the timer's reach.
LEMMA StoredStep ==
    ASSUME CatalogTypes, BornInv, GraceInv, FreshInv, ReplacedInv, StoredInv,
           RowsStep, RequestsStep, StoreStep
    PROVE  StoredInv'
<1> SUFFICES ASSUME NEW f \in Forms, NEW o \in DocumentsOf(f)'
             PROVE  /\ o \in objects' /\ o \notin intents'
                    /\ \A w \in Reapers : pc'[w] = "remove" => plan'[w] # o
  BY DEF StoredInv, FormsStored, FormDocuments
<1>1. ASSUME NEW x \in DocumentsOf(f)
      PROVE  /\ x \in objects /\ x \notin intents
             /\ \A w \in Reapers : pc[w] = "remove" => plan[w] # x
  BY DEF StoredInv, FormsStored, FormDocuments
<1>2. CASE o \in DocumentsOf(f)
  <2>1. o \in Objects /\ o.of = f
    BY <1>2, DocumentsType, DocumentsNamed
  <2>2. ASSUME o \notin objects' PROVE FALSE
    <3>1. o \in Replaced(f)
      BY <1>1, <1>2, <2>1, <2>2, StoreChanges
    <3> QED BY <1>2, <3>1, ReplacedFacts
  <2>3. ASSUME o \in intents' PROVE FALSE
    <3>1. ~Discarded(f)
      BY DEF Discarded, DocumentsOf
    <3>2. Announced(f) /\ o = Object(f, f)
      BY <1>1, <1>2, <2>1, <2>3, <3>1, StoreChanges
    <3>3. Unknown(o)
      BY <3>2 DEF Announced, GraceInv
    <3> QED BY <1>1, <1>2, <3>3 DEF Unknown
  <2>4. ASSUME NEW w \in Reapers, pc'[w] = "remove" PROVE plan'[w] # o
    <3>1. CASE pc[w] = "remove" /\ plan'[w] = plan[w]
      BY <1>1, <1>2, <3>1
    <3>2. CASE Checked(w)
      BY <1>2, <3>2 DEF Checked, FormDocuments
    <3> QED BY <2>4, <3>1, <3>2, ReaperMoves
  <2> QED BY <2>2, <2>3, <2>4
<1>3. CASE Inserted(f) /\ o = Object(f, f)
  <2>1. o \in graced /\ o \in objects
    BY <1>3 DEF GraceInv, Inserted
  <2>2. o \in objects' /\ o \notin intents'
    BY <1>3, <2>1 DEF Inserted
  <2>3. ASSUME NEW w \in Reapers, pc'[w] = "remove" PROVE plan'[w] # o
    BY <2>1, <2>3, ReaperMoves DEF GraceInv, Checked
  <2> QED BY <2>2, <2>3
<1>4. ASSUME NEW x \in Saves, pc[x] = "callback", o = Object(f, x), o \in objects', intents' = intents
      PROVE  /\ o \in objects' /\ o \notin intents'
             /\ \A w \in Reapers : pc'[w] = "remove" => plan'[w] # o
  <2>1. Unknown(o)
    BY <1>4 DEF FreshInv
  <2>2. ASSUME NEW w \in Reapers, pc'[w] = "remove" PROVE plan'[w] # o
    BY <2>1, <2>2, ReaperMoves DEF Unknown, Checked
  <2> QED BY <1>4, <2>1, <2>2 DEF Unknown
<1> QED BY <1>2, <1>3, <1>4, DocumentsMove

\* The timer learns of an object when it is known.
LEMMA UnknownStep ==
    ASSUME RequestsStep, NEW o, Unknown(o), o \notin objects', o \notin intents'
    PROVE  Unknown(o)'
BY ReaperMoves DEF Unknown, Checked

\* A creation whose object is in its grace keeps it, and one that was not made is not known.
LEMMA GraceStep ==
    ASSUME CatalogTypes, BornInv, GraceInv, ReplacedInv, StoredInv, RequestsStep, StoreStep
    PROVE  GraceInv'
<1>0. Creations \subseteq Forms /\ Creations \cap Reapers = {} /\ Creations \cap Saves = {}
  BY CatalogNames
<1>1. \A x, y : Object(x, y).of = x /\ Object(x, y).name = y
  BY DEF Object
<1>2. \A c \in Creations : Object(c, c) \in Objects
  BY CatalogNames DEF Object, Objects
<1>3. ASSUME NEW c \in Creations
      PROVE  \/ pc'[c] = pc[c] /\ plan'[c] = plan[c]
             \/ pc'[c] = "done"
             \/ Announced(c)
             \/ Stored(c)
             \/ Asked(c)
  <2>1. RequestMoves(c)
    BY DEF RequestsStep, Requests
  <2> QED BY <1>0, <2>1 DEF RequestMoves, Began, Saved, Checked, Removed
<1>4. graced \subseteq intents /\ \A x \in graced : \E c \in Creations : x = Object(c, c)
  BY DEF GraceInv
<1>5. ASSUME NEW x \in graced'
      PROVE  \/ x \in graced
             \/ \E c \in Creations : Announced(c) /\ x = Object(c, c) /\ x \in intents'
  BY DEF StoreStep, StoreMove, store, Announced, Stored, Inserted, Dropped, GraceEnded, Removed, Discarded, SaveCompleted,
         PublishCompleted, ReplacedRemoved, Elsewhere
<1>6. ASSUME NEW c \in Creations, Object(c, c) \in graced, Object(c, c) \notin graced'
      PROVE  pc'[c] = "done" \/ pc[c] = "done"
  <2>1. ASSUME NEW k \in Creations, Inserted(k) \/ Dropped(k) PROVE pc'[c] = "done"
    BY <1>1, <1>6, <2>1 DEF Inserted, Dropped
  <2>2. ASSUME NEW x \in graced, GraceEnded(x) PROVE pc[c] = "done"
    BY <1>1, <1>6, <2>2 DEF GraceEnded
  <2> QED BY <1>6, <2>1, <2>2 DEF StoreStep, StoreMove, store, Announced, Stored, Removed, Discarded,
             SaveCompleted, PublishCompleted, ReplacedRemoved, Elsewhere
<1>7. ASSUME NEW x \in graced' PROVE x \in intents' /\ \E c \in Creations : x = Object(c, c)
  <2>1. CASE x \in graced
    <3>1. PICK c \in Creations : x = Object(c, c)
      BY <1>4, <2>1
    <3>2. ASSUME x \notin intents' PROVE FALSE
      <4>1. ~\E w \in Reapers : pc[w] = "remove" /\ plan[w] = x
        BY <2>1 DEF GraceInv
      <4>2. Inserted(c)
        BY <1>0, <1>1, <1>2, <1>4, <2>1, <3>1, <3>2, <4>1, StoreChanges
      <4> QED BY <1>7, <3>1, <4>2 DEF Inserted
    <3> QED BY <3>1, <3>2
  <2> QED BY <1>5, <1>7, <2>1
<1>8. ASSUME NEW w \in Reapers, pc'[w] = "remove" PROVE plan'[w] \notin graced'
  <2>1. CASE pc[w] = "remove" /\ plan'[w] = plan[w]
    <3>1. plan[w] \notin graced
      BY <2>1 DEF GraceInv
    <3>2. ASSUME NEW c \in Creations, Announced(c) PROVE plan[w] # Object(c, c)
      BY <2>1, <3>2 DEF Announced, GraceInv, Unknown
    <3> QED BY <1>5, <2>1, <3>1, <3>2
  <2>2. CASE Checked(w)
    BY <2>2 DEF Checked, store
  <2> QED BY <1>8, <2>1, <2>2, ReaperMoves
<1>9. ASSUME NEW c \in Creations, pc'[c] \in {"put", "commit"} PROVE Object(c, c) \in graced'
  <2>1. CASE pc[c] \in {"put", "commit"}
    BY <1>6, <1>9, <2>1 DEF GraceInv
  <2>2. CASE Announced(c)
    BY <2>2 DEF Announced
  <2> QED BY <1>3, <1>9, <2>1, <2>2 DEF Stored, Asked
<1>10. ASSUME NEW c \in Creations, pc'[c] = "commit" PROVE Object(c, c) \in objects'
  <2>1. CASE Stored(c)
    BY <2>1 DEF Stored
  <2>2. CASE pc[c] = "commit"
    <3>1. Object(c, c) \in objects /\ Object(c, c) \in graced
      BY <2>2 DEF GraceInv
    <3>2. ASSUME Object(c, c) \notin objects' PROVE FALSE
      <4>1. ~\E w \in Reapers : pc[w] = "remove" /\ plan[w] = Object(c, c)
        BY <3>1 DEF GraceInv
      <4>2. form[c] # None
        BY <1>0, <1>1, <1>2, <3>1, <3>2, <4>1, StoreChanges
      <4> QED BY <2>2, <4>2 DEF BornInv
    <3> QED BY <3>2
  <2> QED BY <1>3, <1>10, <2>1, <2>2 DEF Announced, Asked
<1>11. ASSUME NEW c \in Creations, pc'[c] = "idle" PROVE Unknown(Object(c, c))'
  <2>1. pc[c] = "idle"
    BY <1>3, <1>11 DEF Announced, Stored, Asked
  <2>2. Unknown(Object(c, c))
    BY <2>1 DEF GraceInv
  <2>3. Object(c, c) \notin objects'
    <3>1. ~Stored(c) /\ \A x \in Saves : Object(c, c) # Object(c, x)
      BY <1>0, <1>1, <1>11 DEF Stored
    <3> QED BY <1>0, <1>1, <1>2, <2>2, <3>1, StoreChanges DEF Unknown
  <2>4. Object(c, c) \notin intents'
    <3>1. ~Announced(c)
      BY <1>11 DEF Announced
    <3>2. Object(c, c) \notin DocumentsOf(c) \cup Replaced(c)
      BY <1>0, <2>1, <2>2, ReplacedFacts DEF Unknown, StoredInv, FormsStored, FormDocuments
    <3> QED BY <1>0, <1>1, <1>2, <2>2, <3>1, <3>2, StoreChanges DEF Unknown
  <2> QED BY <2>2, <2>3, <2>4, UnknownStep
<1> QED BY <1>7, <1>8, <1>9, <1>10, <1>11 DEF GraceInv

\* An operation that has not ended has stored nothing.
LEMMA FreshStep ==
    ASSUME CatalogTypes, BornInv, FreshInv, ReplacedInv, StoredInv, RequestsStep, StoreStep
    PROVE  FreshInv'
<1> SUFFICES ASSUME NEW o \in Saves, NEW f \in Forms, pc'[o] # "done" PROVE Unknown(Object(f, o))'
  BY DEF FreshInv
<1>0. /\ Object(f, o) \in Objects /\ Object(f, o).of = f /\ Object(f, o).name = o /\ f # o
      /\ \A x : Object(f, x) = Object(f, o) => x = o
  BY CatalogNames DEF Object, Objects
<1>1. RequestMoves(o)
  BY DEF RequestsStep, Requests
<1>2. pc[o] # "done"
  BY <1>1 DEF RequestMoves, Announced, Stored, Began, Saved, Asked, Checked, Removed
<1>3. Unknown(Object(f, o))
  BY <1>2 DEF FreshInv
<1>4. Object(f, o) \notin objects'
  BY <1>0, <1>3, StoreChanges DEF Unknown
<1>5. Object(f, o) \notin intents'
  <2>1. Object(f, o) \notin DocumentsOf(f) \cup Replaced(f)
    BY <1>0, <1>2, <1>3, ReplacedFacts DEF Unknown, StoredInv, FormsStored, FormDocuments
  <2> QED BY <1>0, <1>3, <2>1, StoreChanges DEF Unknown
<1> QED BY <1>3, <1>4, <1>5, UnknownStep

\* A request that is over stays so, and its row with it.
LEMMA DoneStays ==
    ASSUME RequestsStep, NEW p \in Requests, pc[p] = "done"
    PROVE  pc'[p] = "done" /\ plan'[p] = plan[p]
<1>1. RequestMoves(p)
  BY DEF RequestsStep
<1> QED BY <1>1 DEF RequestMoves, Announced, Stored, Began, Saved, Asked, Checked, Removed

\* What a save replaces was its form's document, and does not come back.
LEMMA ReplacedStep ==
    ASSUME CatalogTypes, BornInv, FreshInv, ReplacedInv, StoredInv, RowsStep, RequestsStep
    PROVE  ReplacedInv'
<1> SUFFICES ASSUME NEW o \in Saves, pc'[o] \in {"callback", "done"}, plan'[o] # None,
                    NEW f, f = plan'[o].form, NEW k, k = plan'[o].document
             PROVE  /\ k.of = f /\ (f \in Creations => pc'[f] = "done")
                    /\ k.name \in Saves => pc'[k.name] = "done"
                    /\ pc'[o] = "done" => k \notin DocumentsOf(f)'
  BY DEF ReplacedInv, DocumentsOf, Published
<1>1. \A p \in Creations \cup Saves : pc[p] = "done" => pc'[p] = "done"
  BY DoneStays DEF Requests
<1>2. \A x, y : Object(x, y).of = x /\ Object(x, y).name = y
  BY DEF Object
<1>3. plan'[o] \in Operations => f \in Forms /\ k \in Objects
  BY DEF Operations
<1>4. RequestMoves(o)
  BY DEF RequestsStep, Requests
<1>5. CASE pc'[o] = pc[o] /\ plan'[o] = plan[o]
  <2>1. /\ k.of = f /\ (f \in Creations => pc[f] = "done")
        /\ k.name \in Saves => pc[k.name] = "done"
        /\ pc[o] = "done" => k \notin DocumentsOf(f)
        /\ f \in Forms /\ f = plan[o].form
    BY <1>3, <1>5 DEF ReplacedInv, CatalogTypes
  <2>2. ASSUME pc[o] = "done", k \in DocumentsOf(f)' PROVE FALSE
    <3>1. Inserted(f) \/ \E x \in Saves : pc[x] = "callback" /\ k = Object(f, x)
      BY <2>1, <2>2, DocumentsMove
    <3> QED BY <1>2, <2>1, <3>1 DEF Inserted
  <2> QED BY <1>1, <1>5, <2>1, <2>2
<1>6. CASE Began(o)
  <2>1. f \in Forms /\ k \in Objects /\ form[f] # None /\ k = form[f].object /\ pc'[o] = "callback"
    BY <1>3, <1>6 DEF Began
  <2>2. k.of = f /\ (f \in Creations => pc[f] = "done")
    BY <2>1 DEF BornInv
  <2>3. k \in objects
    BY <2>1 DEF StoredInv, FormsStored, FormDocuments, DocumentsOf
  <2>4. k = Object(f, k.name)
    BY <2>1, <2>2 DEF Object, Objects
  <2>5. k.name \in Saves => pc[k.name] = "done"
    BY <2>1, <2>3, <2>4 DEF FreshInv, Unknown
  <2> QED BY <1>1, <2>1, <2>2, <2>5
<1>7. CASE Saved(o)
  <2>1. plan'[o] = plan[o] /\ pc[o] = "callback" /\ f \in Forms /\ SaveCompleted(f)
    BY <1>3, <1>7 DEF Saved
  <2>2. /\ k.of = f /\ (f \in Creations => pc[f] = "done")
        /\ k.name \in Saves => pc[k.name] = "done"
    BY <2>1 DEF ReplacedInv
  <2>3. form[f] \in Rows /\ form[f].published = None
    BY <2>1 DEF SaveCompleted, Authored, CatalogTypes
  <2>4. PICK x \in Saves, tags \in SUBSET Tags :
          pc[x] = "callback" /\ form'[f] = [form[f] EXCEPT !.object = Object(f, x), !.tags = tags]
    BY <2>1 DEF SaveCompleted
  <2>5. form'[f].object = Object(f, x) /\ form'[f].published = None
    BY <2>3, <2>4 DEF Rows
  <2>6. k \notin DocumentsOf(f)'
    BY <1>2, <2>2, <2>4, <2>5 DEF DocumentsOf, Published
  <2> QED BY <1>1, <2>2, <2>6
<1> QED BY <1>4, <1>5, <1>6, <1>7, CatalogNames DEF RequestMoves, Announced, Stored, Asked, Checked, Removed

\* What is copied from a form has the rules of the form.
LEMMA CopiedSound ==
    ASSUME CatalogTypes, RulesInv, PublishedAsConfigured, NEW f \in Forms, form[f] # None
    PROVE  Sound(Copied(f).rules)
<1>1. Sound(form[f].rules)
  BY DEF RulesInv
<1>2. CASE Published(f)
  <2>1. form[f].published.rules = form[f].rules
    BY <1>2 DEF PublishedAsConfigured
  <2>2. ASSUME NEW r \in Copied(f).rules
        PROVE  r \in form[f].rules \/ (r.pointer = None /\ ~r.lock)
    <3>1. PICK t \in form[f].published.tags : r = IF t \in Ruled(f) THEN RuleFor(f, t) ELSE Rule(t, None, FALSE)
      BY <1>2 DEF Copied
    <3>2. CASE t \in Ruled(f)
      <4>1. \E x \in form[f].published.rules : x.tag = t
        BY <3>2 DEF Ruled
      <4>2. RuleFor(f, t) \in form[f].published.rules
        BY <4>1 DEF RuleFor
      <4> QED BY <2>1, <3>1, <3>2, <4>2
    <3>3. CASE t \notin Ruled(f)
      BY <3>1, <3>3 DEF Rule
    <3> QED BY <3>2, <3>3
  <2> QED BY <1>1, <2>2 DEF Sound
<1>3. CASE ~Published(f)
  BY <1>1, <1>3 DEF Copied
<1> QED BY <1>2, <1>3

\* A rule that conflicts with no other keeps the rules of a form sound.
LEMMA RuleSound ==
    ASSUME NEW rules, NEW rule, NEW previous, Sound(rules), rule.lock => rule.pointer # None,
           ~Conflicts(rules, rule, previous)
    PROVE  Sound({x \in rules : x.tag # previous} \cup {rule})
BY DEF Sound, Conflicts

\* What a step does to what a form publishes and to its rules.
LEMMA RulesMove ==
    ASSUME CatalogTypes, RowsStep, NEW f \in Forms, form'[f] # None
    PROVE  \/ form[f] # None /\ form'[f].rules = form[f].rules /\ form'[f].published = form[f].published
           \/ Inserted(f) /\ form'[f].rules = plan[f].rules /\ form'[f].published = None
           \/ /\ Authored(f) /\ form'[f].published = None
              /\ \E rule \in Rules, previous \in Tags \cup {None} :
                   /\ rule.lock => rule.pointer # None
                   /\ ~Conflicts(form[f].rules, rule, previous)
                   /\ form'[f].rules = {x \in form[f].rules : x.tag # previous} \cup {rule}
           \/ /\ Authored(f) /\ form'[f].rules = form[f].rules
              /\ form'[f].published.rules = form[f].rules
              /\ Fits(form[f].rules, form'[f].published.tags)
<1>2. form'[f] # form[f] => Rewritten(f)
  BY DEF RowsStep
<1>4. ASSUME form[f] # None PROVE form[f] \in Rows
  BY <1>4 DEF CatalogTypes
<1>5. CASE form'[f] = form[f]
  BY <1>5
<1>6. CASE Inserted(f)
  BY <1>6 DEF Inserted
<1>7. CASE Discarded(f)
  BY <1>7 DEF Discarded
<1>8. CASE RuleCommitted(f)
  <2>1. form[f] # None /\ form[f] \in Rows /\ form[f].published = None
    BY <1>4, <1>8 DEF RuleCommitted, Authored
  <2>2. PICK rule \in Rules, previous \in Tags \cup {None} :
          /\ rule.lock => rule.pointer # None
          /\ ~Conflicts(form[f].rules, rule, previous)
          /\ form'[f] = [form[f] EXCEPT !.rules = {x \in @ : x.tag # previous} \cup {rule}]
    BY <1>8 DEF RuleCommitted
  <2>3. /\ form'[f].rules = {x \in form[f].rules : x.tag # previous} \cup {rule}
        /\ form'[f].published = None
    BY <2>1, <2>2 DEF Rows
  <2> QED BY <1>8, <2>2, <2>3 DEF RuleCommitted
<1>9. CASE SaveCompleted(f)
  <2>1. form[f] # None /\ form[f] \in Rows
    BY <1>4, <1>9 DEF SaveCompleted, Authored
  <2>2. PICK o \in Saves, tags \in SUBSET Tags :
          form'[f] = [form[f] EXCEPT !.object = Object(f, o), !.tags = tags]
    BY <1>9 DEF SaveCompleted
  <2> QED BY <2>1, <2>2 DEF Rows
<1>10. CASE PublishCompleted(f)
  <2>1. form[f] # None /\ form[f] \in Rows
    BY <1>4, <1>10 DEF PublishCompleted, Authored
  <2>2. PICK x \in Saves, tags \in SUBSET Tags :
          /\ Fits(form[f].rules, tags)
          /\ form'[f] = [form[f] EXCEPT !.status = "published",
               !.published = [object |-> Object(f, x), tags |-> tags, rules |-> form[f].rules]]
    BY <1>10 DEF PublishCompleted
  <2>3. /\ form'[f].rules = form[f].rules /\ form'[f].published.rules = form[f].rules
        /\ form'[f].published.tags = tags
    BY <2>1, <2>2 DEF Rows
  <2> QED BY <1>10, <2>2, <2>3 DEF PublishCompleted
<1>11. CASE Adjusted(f)
  <2>1. form[f] # None /\ form[f] \in Rows
    BY <1>4, <1>11 DEF Adjusted
  <2> QED BY <1>11, <2>1 DEF Adjusted, Rows
<1> QED BY <1>2, <1>5, <1>6, <1>7, <1>8, <1>9, <1>10, <1>11 DEF Rewritten

\* The rules of forms are sound, and so are those that are being copied.
LEMMA RulesStep ==
    ASSUME CatalogTypes, RulesInv, PublishedAsConfigured, RowsStep, RequestsStep
    PROVE  RulesInv'
<1>1. ASSUME NEW f \in Forms, form'[f] # None PROVE Sound(form'[f].rules)
  <2>1. form[f] # None => Sound(form[f].rules)
    BY DEF RulesInv
  <2>2. Inserted(f) => Sound(plan[f].rules)
    BY DEF Inserted, RulesInv
  <2>3. Authored(f) => form[f] # None
    BY DEF Authored
  <2> QED BY <1>1, <2>1, <2>2, <2>3, RulesMove, RuleSound
<1>2. ASSUME NEW c \in Creations, pc'[c] \in {"put", "commit"} PROVE Sound(plan'[c].rules)
  <2>1. RequestMoves(c)
    BY DEF RequestsStep, Requests
  <2>2. CASE Announced(c)
    <3>1. \A tags \in SUBSET Tags : Sound(Blank(tags).rules)
      BY DEF Blank, Sound
    <3> QED BY <2>2, <3>1, CopiedSound DEF Announced
  <2>3. CASE pc[c] \in {"put", "commit"} /\ plan'[c] = plan[c]
    BY <2>3 DEF RulesInv
  <2> QED BY <1>2, <2>1, <2>2, <2>3 DEF RequestMoves, Stored, Began, Saved, Asked, Checked, Removed
<1> QED BY <1>1, <1>2 DEF RulesInv

\* What is published is what the rules said and stay.
LEMMA PublishedStep ==
    ASSUME CatalogTypes, RulesInv, PublishedAsConfigured, RowsStep
    PROVE  PublishedAsConfigured'
<1> SUFFICES ASSUME NEW f \in Forms, form'[f] # None, form'[f].published # None
             PROVE  LET p == form'[f].published IN
                    /\ p.rules = form'[f].rules /\ \A r \in p.rules : r.tag \in p.tags
                    /\ Sound(p.rules)
  BY DEF PublishedAsConfigured, Published, Sound
<1>1. CASE form[f] # None /\ form'[f].rules = form[f].rules /\ form'[f].published = form[f].published
  BY <1>1 DEF PublishedAsConfigured, Published, Sound
<1>2. CASE /\ Authored(f) /\ form'[f].rules = form[f].rules
           /\ form'[f].published.rules = form[f].rules
           /\ Fits(form[f].rules, form'[f].published.tags)
  BY <1>2 DEF RulesInv, Authored, Fits
<1> QED BY <1>1, <1>2, RulesMove

\* Every step of the catalog, and of a module that extends it, keeps the invariant.
LEMMA CatalogInvStep ==
    ASSUME CatalogInv, NEW busy, CatalogStep(busy)
    PROVE  CatalogInv'
<1>1. RowsStep /\ RequestsStep /\ StoreStep
  BY RowsMove, RequestsMove, StoreMoves DEF CatalogInv, CatalogStep, StoreStep
<1> QED BY <1>1, CatalogTypesStep, BornStep, GraceStep, FreshStep, ReplacedStep, StoredStep, RulesStep,
           PublishedStep DEF CatalogInv

\* A form that is there from the start is a row, published with the rules it has.
LEMMA StandingType ==
    ASSUME NEW f \in Forms, NEW rules, rules \subseteq Rules
    PROVE  /\ Standing(f, rules) \in Rows /\ Standing(f, rules) # None
           /\ Standing(f, rules).published # None /\ Standing(f, rules).published.rules = rules
           /\ Standing(f, rules).rules = rules /\ Standing(f, rules).published.tags = Tags
           /\ Standing(f, rules).object = Object(f, None)
           /\ Standing(f, rules).published.object = Object(f, f)
<1>1. \A x \in Forms, y \in Forms \cup {None} : Object(x, y) \in Objects
  BY DEF Object, Objects
<1> DEFINE contract == [object |-> Object(f, f), tags |-> Tags, rules |-> rules]
<1>2. contract \in Contracts /\ contract # None
  BY <1>1, CatalogNames DEF Contracts
<1>3. Standing(f, rules) = [status |-> "published", object |-> Object(f, None), tags |-> Tags,
                            rules |-> rules, fill |-> "onlyoffice", published |-> contract]
  BY DEF Standing
<1> HIDE DEF contract
<1>4. Standing(f, rules) \in Rows
  BY <1>1, <1>2, <1>3 DEF Rows
<1>5. Standing(f, rules) # None
  BY <1>4, CatalogNames
<1>6. Standing(f, rules).published = contract
  BY <1>3
<1>7. contract.rules = rules /\ contract.tags = Tags /\ contract.object = Object(f, f)
  BY DEF contract
<1> QED BY <1>2, <1>3, <1>4, <1>5, <1>6, <1>7

\* The forms there may be from the start fulfil the invariant.
LEMMA CatalogInitInv ==
    ASSUME NEW crowd, CatalogInit(crowd)
    PROVE  CatalogInv
<1>1. PICK rules \in {{}} \cup {{r} : r \in {x \in Rules : x.lock /\ x.pointer # None}} :
        form = [f \in Forms |-> IF f \in crowd \ Creations THEN Standing(f, rules) ELSE None]
  BY DEF CatalogInit
<1>2. rules \subseteq Rules /\ Sound(rules) /\ \A r \in rules : r.tag \in Tags
  <2>1. CASE rules = {}
    BY <2>1 DEF Sound
  <2>2. ASSUME NEW r \in Rules, r.pointer # None, rules = {r}
        PROVE  rules \subseteq Rules /\ Sound(rules) /\ \A x \in rules : x.tag \in Tags
    BY <2>2 DEF Sound, Rules
  <2> QED BY <2>1, <2>2
<1>3. /\ \A x \in Forms, y \in Forms \cup {None} : Object(x, y) \in Objects
      /\ \A x, y : Object(x, y).of = x /\ Object(x, y).name = y
  BY DEF Object, Objects
<1>4. ASSUME NEW f \in Forms
      PROVE  /\ Standing(f, rules) \in Rows /\ Standing(f, rules) # None
             /\ Standing(f, rules).published # None /\ Standing(f, rules).published.rules = rules
             /\ Standing(f, rules).rules = rules /\ Standing(f, rules).published.tags = Tags
             /\ Standing(f, rules).object = Object(f, None)
             /\ Standing(f, rules).published.object = Object(f, f)
  BY <1>2, StandingType
<1>5. /\ pc = [p \in Clients |-> IF p \in crowd \cup Reapers THEN "idle" ELSE "done"]
      /\ plan = [p \in Clients |-> None] /\ intents = {} /\ graced = {}
      /\ objects = UNION {{Object(f, None), Object(f, f)} : f \in (Forms \cap crowd) \ Creations}
  BY DEF CatalogInit
<1>6. \A p \in Clients : pc[p] \in {"idle", "done"}
  BY <1>5
<1>7. \A o \in objects : \E f \in Forms \ Creations : o = Object(f, None) \/ o = Object(f, f)
  BY <1>5
<1>8. CatalogTypes
  <2>1. form \in [Forms -> Rows \cup {None}]
    BY <1>1, <1>4
  <2>2. objects \subseteq Objects
    BY <1>3, <1>7
  <2> QED BY <1>5, <1>6, <2>1, <2>2, CatalogNames DEF CatalogTypes
<1>9. BornInv
  BY <1>1, <1>3, <1>4, CatalogNames DEF BornInv, Published
<1>10. GraceInv
  <2>1. \A c \in Creations : Object(c, c) \notin objects
    BY <1>3, <1>7
  <2> QED BY <1>5, <1>6, <2>1, CatalogNames DEF GraceInv, Unknown
<1>11. FreshInv
  <2>1. \A o \in Saves, f \in Forms : Object(f, o) \notin objects
    BY <1>3, <1>7, CatalogNames
  <2> QED BY <1>5, <1>6, <2>1, CatalogNames DEF FreshInv, Unknown
<1>12. StoredInv
  <2>1. ASSUME NEW f \in Forms PROVE DocumentsOf(f) \subseteq objects
    <3>1. CASE f \in crowd \ Creations
      <4>1. DocumentsOf(f) = {Object(f, None), Object(f, f)}
        BY <1>1, <1>4, <3>1 DEF DocumentsOf, Published
      <4> QED BY <1>5, <3>1, <4>1
    <3>2. CASE f \notin crowd \ Creations
      BY <1>1, <3>2 DEF DocumentsOf
    <3> QED BY <3>1, <3>2
  <2> QED BY <1>5, <1>6, <2>1, CatalogNames DEF StoredInv, FormsStored, FormDocuments
<1>13. RulesInv
  BY <1>1, <1>2, <1>4, <1>6, CatalogNames DEF RulesInv
<1>14. PublishedAsConfigured
  BY <1>1, <1>2, <1>4 DEF PublishedAsConfigured, Published, Sound
<1>15. ReplacedInv
  BY <1>5, CatalogNames DEF ReplacedInv
<1> QED BY <1>8, <1>9, <1>10, <1>11, <1>12, <1>13, <1>14, <1>15 DEF CatalogInv

\* A step of the catalog is one of its own requests.
LEMMA OthersStay ==
    ASSUME CatalogTypes, NEW busy, CatalogOwn(busy), NEW p \in Clients,
           p \notin Creations \cup Saves \cup Configurations \cup Edits \cup Discards \cup Reapers
    PROVE  pc'[p] = pc[p] /\ plan'[p] = plan[p]
<1> USE DEF Goto, Know, Finish, catalog, store
<1>0. DOMAIN pc = Clients /\ DOMAIN plan = Clients
  BY DEF CatalogTypes
<1>1. ASSUME NEW c \in Creations, CreateForm(c) PROVE pc'[p] = pc[p] /\ plan'[p] = plan[p]
  BY <1>1, <1>0 DEF CreateForm, ReadTemplate, Announce, Blank
<1>2. ASSUME NEW c \in Creations, DuplicateForm(c) PROVE pc'[p] = pc[p] /\ plan'[p] = plan[p]
  BY <1>2, <1>0 DEF DuplicateForm, ReadTemplate, Announce
<1>3. ASSUME NEW c \in Creations, PutTemplate(c) PROVE pc'[p] = pc[p] /\ plan'[p] = plan[p]
  BY <1>3, <1>0 DEF PutTemplate
<1>4. ASSUME NEW c \in Creations, InsertForm(c) PROVE pc'[p] = pc[p] /\ plan'[p] = plan[p]
  BY <1>4, <1>0 DEF InsertForm
<1>5. ASSUME NEW c \in Creations, FailCreation(c) PROVE pc'[p] = pc[p] /\ plan'[p] = plan[p]
  BY <1>5, <1>0 DEF FailCreation
<1>6. ASSUME NEW r \in Configurations, NEW g \in Forms, NEW s \in Sessions, ReadForRule(r, g, s)
      PROVE  pc'[p] = pc[p] /\ plan'[p] = plan[p]
  BY <1>6, <1>0 DEF ReadForRule
<1>7. ASSUME NEW r \in Configurations, NEW rule \in Rules, NEW previous \in Tags \cup {None}, pc[r]
             = "configure", CommitRule(r, rule, previous)
      PROVE  pc'[p] = pc[p] /\ plan'[p] = plan[p]
  BY <1>7, <1>0 DEF CommitRule
<1>8. ASSUME NEW r \in Configurations, RefuseRule(r) PROVE pc'[p] = pc[p] /\ plan'[p] = plan[p]
  BY <1>8, <1>0 DEF RefuseRule
<1>9. ASSUME NEW g \in Forms, NEW s \in Sessions, OpenEditor(g, s)
      PROVE  pc'[p] = pc[p] /\ plan'[p] = plan[p]
  BY <1>9, <1>0 DEF OpenEditor
<1>10. ASSUME NEW g \in Forms, CloseEditor(g) \/ OperationLate(g)
       PROVE  pc'[p] = pc[p] /\ plan'[p] = plan[p]
  BY <1>10, <1>0 DEF CloseEditor, OperationLate
<1>11. ASSUME NEW o \in Saves, NEW g \in Forms, NEW s \in Sessions, BeginSave(o, g, s) \/
              BeginPublish(o, g, s)
       PROVE  pc'[p] = pc[p] /\ plan'[p] = plan[p]
  BY <1>11, <1>0 DEF BeginSave, BeginPublish, Begin
<1>12. ASSUME NEW o \in Saves, NEW tags \in SUBSET Tags, CompleteSave(o, tags)
       PROVE  pc'[p] = pc[p] /\ plan'[p] = plan[p]
  BY <1>12, <1>0 DEF CompleteSave
<1>13. ASSUME NEW o \in Saves, NEW tags \in SUBSET Tags, CompletePublish(o, tags)
       PROVE  pc'[p] = pc[p] /\ plan'[p] = plan[p]
  BY <1>13, <1>0 DEF CompletePublish
<1>14. ASSUME NEW o \in Saves, FailSave(o) PROVE pc'[p] = pc[p] /\ plan'[p] = plan[p]
  BY <1>14, <1>0 DEF FailSave
<1>15. ASSUME NEW e \in Edits, NEW g \in Forms, NEW status \in {"published", "archived"},
              SetStatus(e, g, status)
       PROVE  pc'[p] = pc[p] /\ plan'[p] = plan[p]
  BY <1>15, <1>0 DEF SetStatus
<1>16. ASSUME NEW e \in Edits, NEW g \in Forms, NEW fill \in {"onlyoffice", "native"}, SetFill(e, g,
              fill, busy)
       PROVE  pc'[p] = pc[p] /\ plan'[p] = plan[p]
  BY <1>16, <1>0 DEF SetFill
<1>17. ASSUME NEW d \in Discards, NEW g \in Forms, NEW s \in Sessions, DeleteForm(d, g, s)
       PROVE  pc'[p] = pc[p] /\ plan'[p] = plan[p]
  BY <1>17, <1>0 DEF DeleteForm
<1>18. ASSUME NEW o \in graced, GraceOver(o) PROVE pc'[p] = pc[p] /\ plan'[p] = plan[p]
  BY <1>18, <1>0 DEF GraceOver
<1>19. ASSUME NEW w \in Reapers, NEW o \in intents \ FormDocuments, CheckIntent(w, o, FALSE)
       PROVE  pc'[p] = pc[p] /\ plan'[p] = plan[p]
  BY <1>19, <1>0 DEF CheckIntent
<1>20. ASSUME NEW w \in Reapers, RemoveObject(w) PROVE pc'[p] = pc[p] /\ plan'[p] = plan[p]
  BY <1>20, <1>0 DEF RemoveObject
<1>21. ASSUME NEW g \in Forms, NEW o \in objects, RemoveReplaced(g, o) PROVE pc'[p] = pc[p] /\ plan'[p] = plan[p]
  BY <1>21 DEF RemoveReplaced
<1> QED
  BY <1>1, <1>2, <1>3, <1>4, <1>5, <1>6, <1>7, <1>8, <1>9, <1>10, <1>11, <1>12, <1>13, <1>14,
     <1>15, <1>16, <1>17, <1>18, <1>19, <1>20, <1>21
     DEF CatalogOwn, CatalogNext, Create, Configure, Author, Operate, Administer

\* A form that is not a creation's keeps what it publishes.
LEMMA StandingStays ==
    ASSUME CatalogInv, NEW busy, CatalogStep(busy), NEW f \in Forms \ Creations
    PROVE  /\ form'[f] # None <=> form[f] # None
           /\ form[f] # None => form'[f].published = form[f].published
<1>1. RowsStep
  BY RowsMove DEF CatalogInv
<1>2. CASE form'[f] = form[f]
  BY <1>2
<1>3. CASE Adjusted(f)
  <2>1. form[f] # None /\ form[f] \in Rows
    BY <1>3 DEF Adjusted, CatalogInv, CatalogTypes
  <2>2. form'[f].published = form[f].published
    BY <1>3, <2>1 DEF Adjusted, Rows
  <2>3. form'[f] \in Rows \cup {None} /\ form'[f].status \in {"draft", "published", "archived"}
    BY <1>1, <1>3, <2>1, RowsTyped DEF CatalogInv, Adjusted, Rows
  <2>4. form'[f] \in Rows
    BY <1>3, <2>1 DEF Adjusted, Rows
  <2> QED BY <2>1, <2>2, <2>4, CatalogNames
<1>4. ~Authored(f) /\ ~Inserted(f)
  BY DEF CatalogInv, BornInv, Authored, Inserted
<1> QED BY <1>1, <1>2, <1>3, <1>4 DEF RowsStep, Rewritten, Discarded, RuleCommitted, SaveCompleted, PublishCompleted

\* What the catalog stores is named by one of its requests.
LEMMA StoredByRequest ==
    ASSUME StoreMove, NEW o \in objects' \ objects
    PROVE  o.name \in Creations \cup Saves
<1>1. ASSUME NEW c \in Creations, Announced(c) \/ Stored(c) \/ Inserted(c) \/ Dropped(c)
      PROVE  o.name \in Creations \cup Saves
  BY <1>1 DEF Announced, Stored, Inserted, Dropped, Object
<1>2. ASSUME NEW f \in Forms, Discarded(f) \/ SaveCompleted(f) \/ PublishCompleted(f)
      PROVE  o.name \in Creations \cup Saves
  <2>1. CASE SaveCompleted(f)
    <3>1. PICK x \in Saves : objects' = objects \cup {Object(f, x)}
      BY <2>1 DEF SaveCompleted
    <3> QED BY <3>1 DEF Object
  <2>2. CASE PublishCompleted(f)
    <3>1. PICK x \in Saves : objects' = objects \cup {Object(f, x)}
      BY <2>2 DEF PublishCompleted
    <3> QED BY <3>1 DEF Object
  <2> QED BY <1>2, <2>1, <2>2 DEF Discarded
<1> QED BY <1>1, <1>2 DEF StoreMove, store, GraceEnded, Removed, ReplacedRemoved

\* A form goes by being deleted only.
LEMMA DeletedOnly ==
    ASSUME CatalogTypes, RowsStep, NEW f \in Forms, form[f] # None, form'[f] = None
    PROVE  Discarded(f)
<1>1. form[f] \in Rows /\ Rewritten(f)
  BY DEF RowsStep, CatalogTypes
<1>2. \A x \in Forms \cup Clients : Object(f, x) \in Objects
  BY DEF Object, Objects
<1>3. None \notin Rows
  BY CatalogNames
<1>4. ASSUME Inserted(f) PROVE FALSE
  <2>1. plan[f] \in Contents
    BY <1>4 DEF Inserted, CatalogTypes
  <2>2. form'[f] \in Rows
    BY <1>2, <1>4, <2>1 DEF Inserted, Rows, Contents
  <2> QED BY <1>3, <2>2
<1>5. ASSUME RuleCommitted(f) PROVE FALSE
  <2>1. PICK rule \in Rules, previous \in Tags \cup {None} :
          form'[f] = [form[f] EXCEPT !.rules = {x \in @ : x.tag # previous} \cup {rule}]
    BY <1>5 DEF RuleCommitted
  <2> DEFINE rules == {x \in form[f].rules : x.tag # previous} \cup {rule}
  <2>2. form[f].rules \subseteq Rules /\ rules \subseteq Rules
    BY <1>1 DEF Rows
  <2>3. form'[f] = [form[f] EXCEPT !.rules = rules]
    BY <2>1
  <2> HIDE DEF rules
  <2>4. form'[f] \in Rows
    BY <1>1, <2>2, <2>3 DEF Rows
  <2> QED BY <1>3, <2>4
<1>6. ASSUME SaveCompleted(f) PROVE FALSE
  <2>1. PICK o \in Saves, tags \in SUBSET Tags :
          form'[f] = [form[f] EXCEPT !.object = Object(f, o), !.tags = tags]
    BY <1>6 DEF SaveCompleted
  <2>2. Object(f, o) \in Objects
    BY <1>2, CatalogNames
  <2>3. form'[f] \in Rows
    BY <1>1, <2>1, <2>2 DEF Rows
  <2> QED BY <1>3, <2>3
<1>7. ASSUME PublishCompleted(f) PROVE FALSE
  <2>1. PICK o \in Saves, tags \in SUBSET Tags :
          form'[f] = [form[f] EXCEPT !.status = "published",
             !.published = [object |-> Object(f, o), tags |-> tags, rules |-> form[f].rules]]
    BY <1>7 DEF PublishCompleted
  <2>2. Object(f, o) \in Objects
    BY <1>2, CatalogNames
  <2>3. [object |-> Object(f, o), tags |-> tags, rules |-> form[f].rules] \in Contracts
    BY <1>1, <2>2 DEF Rows, Contracts
  <2>4. form'[f] \in Rows
    BY <1>1, <2>1, <2>3 DEF Rows
  <2> QED BY <1>3, <2>4
<1>8. ASSUME Adjusted(f) PROVE FALSE
  <2>1. CASE \E status \in {"published", "archived"} : form'[f] = [form[f] EXCEPT !.status = status]
    BY <1>1, <1>3, <2>1 DEF Rows
  <2>2. CASE \E fill \in {"onlyoffice", "native"} : form'[f] = [form[f] EXCEPT !.fill = fill]
    BY <1>1, <1>3, <2>2 DEF Rows
  <2> QED BY <1>8, <2>1, <2>2 DEF Adjusted
<1> QED BY <1>1, <1>4, <1>5, <1>6, <1>7, <1>8 DEF Rewritten

\* What a save of a form there is replaced.
Outdated(o) == \E f \in Forms : form[f] # None /\ o \in Replaced(f)

\* What the catalog stores or refers to no longer is a document of a form, or known to an
\* intent or to the row of a save, or not stored.
LEMMA CatalogForgetsNone ==
    ASSUME CatalogInv, NEW busy, CatalogOwn(busy), NEW o \in objects',
           o \notin FormDocuments', o \notin intents', ~Outdated(o)'
    PROVE  o \in objects /\ o \notin FormDocuments /\ o \notin intents /\ ~Outdated(o)
<1> USE DEF CatalogInv
<1>1. RowsStep /\ StoreMove /\ RequestsStep
  BY RowsMove, StoreMoves, RequestsMove DEF CatalogStep
<1>2. ASSUME NEW f \in Forms, SaveCompleted(f) PROVE o \in objects /\ ~(o \in DocumentsOf(f))
  <2>1. form[f] \in Rows /\ form[f].published = None
    BY <1>2 DEF SaveCompleted, Authored, CatalogTypes
  <2>2. PICK x \in Saves, tags \in SUBSET Tags :
          /\ pc'[x] = "done" /\ plan[x] # None /\ plan'[x] = plan[x]
          /\ plan[x].form = f /\ plan[x].document = form[f].object
          /\ form'[f] = [form[f] EXCEPT !.object = Object(f, x), !.tags = tags]
          /\ objects' = objects \cup {Object(f, x)}
    BY <1>2 DEF SaveCompleted
  <2>3. form'[f].object = Object(f, x)
    BY <2>1, <2>2 DEF Rows
  <2>4. form'[f] # None
    <3>1. form'[f] \in Rows
      <4>1. Object(f, x) \in Objects
        BY CatalogNames DEF Object, Objects
      <4> QED BY <2>1, <2>2, <4>1 DEF Rows
    <3> QED BY <3>1, CatalogNames
  <2>5. o # Object(f, x)
    BY <2>3, <2>4 DEF FormDocuments, DocumentsOf
  <2>6. DocumentsOf(f) \subseteq {form[f].object}
    BY <1>2, DocumentsNamed DEF SaveCompleted
  <2>7. form[f].object \in Replaced(f)'
    BY <2>2 DEF Replaced
  <2>8. o # form[f].object
    BY <2>4, <2>7 DEF Outdated
  <2> QED BY <2>2, <2>5, <2>6, <2>8
<1>3. ASSUME NEW f \in Forms, PublishCompleted(f) PROVE o \in objects /\ ~(o \in DocumentsOf(f))
  <2>1. form[f] # None /\ form[f] \in Rows /\ form[f].published = None
    BY <1>3 DEF PublishCompleted, Authored, CatalogTypes
  <2>2. PICK x \in Saves, tags \in SUBSET Tags :
          /\ form'[f] = [form[f] EXCEPT !.status = "published",
               !.published = [object |-> Object(f, x), tags |-> tags, rules |-> form[f].rules]]
          /\ objects' = objects \cup {Object(f, x)}
    BY <1>3 DEF PublishCompleted
  <2> DEFINE contract == [object |-> Object(f, x), tags |-> tags, rules |-> form[f].rules]
  <2>3. contract \in Contracts
    BY <2>1, CatalogNames DEF Rows, Contracts, Object, Objects
  <2>4. contract # None /\ contract.object = Object(f, x)
    BY <2>3, CatalogNames
  <2>5. form'[f] = [form[f] EXCEPT !.status = "published", !.published = contract]
    BY <2>2
  <2> HIDE DEF contract
  <2>6. form'[f] \in Rows /\ form'[f].published = contract /\ form'[f].object = form[f].object
    BY <2>1, <2>3, <2>5 DEF Rows
  <2>7. form'[f] # None
    BY <2>6, CatalogNames
  <2>8. DocumentsOf(f)' = {form[f].object, Object(f, x)}
    BY <2>4, <2>6, <2>7 DEF DocumentsOf, Published
  <2>9. o \notin DocumentsOf(f)'
    BY DEF FormDocuments
  <2> QED BY <2>1, <2>2, <2>8, <2>9 DEF DocumentsOf, Published
<1>4. o \in objects
  <2>1. ASSUME NEW c \in Creations, Stored(c) PROVE Object(c, c) \in intents'
    BY <2>1 DEF Stored, GraceInv
  <2> QED BY <1>1, <1>2, <1>3, <2>1 DEF StoreMove, store, Announced, Stored, Inserted, Dropped, GraceEnded, Removed,
               Discarded, ReplacedRemoved
<1>5. ASSUME NEW f \in Forms, o \in DocumentsOf(f) PROVE FALSE
  <2>1. form[f] # None /\ o \notin DocumentsOf(f)'
    BY <1>5 DEF DocumentsOf, FormDocuments
  <2>2. form[f] \in Rows
    BY <2>1 DEF CatalogTypes
  <2>3. form'[f] # form[f]
    BY <1>5, <2>1 DEF DocumentsOf, Published
  <2>4. Rewritten(f)
    BY <1>1, <2>3 DEF RowsStep
  <2>5. ~Inserted(f)
    BY <2>1 DEF Inserted, BornInv
  <2>6. ~Discarded(f)
    BY <1>5 DEF Discarded
  <2>7. ASSUME form'[f].object = form[f].object, form'[f].published = form[f].published, form'[f] \in Rows
        PROVE  FALSE
    <3>1. form'[f] # None
      BY <2>7, CatalogNames
    <3> QED BY <1>5, <2>1, <2>7, <3>1 DEF DocumentsOf, Published
  <2>8. CASE RuleCommitted(f)
    <3>1. PICK rule \in Rules, previous \in Tags \cup {None} :
            form'[f] = [form[f] EXCEPT !.rules = {x \in @ : x.tag # previous} \cup {rule}]
      BY <2>8 DEF RuleCommitted
    <3> QED BY <2>2, <2>7, <3>1 DEF Rows
  <2>9. CASE Adjusted(f)
    <3>1. CASE \E status \in {"published", "archived"} : form'[f] = [form[f] EXCEPT !.status = status]
      BY <2>2, <2>7, <3>1 DEF Rows
    <3>2. CASE \E fill \in {"onlyoffice", "native"} : form'[f] = [form[f] EXCEPT !.fill = fill]
      BY <2>2, <2>7, <3>2 DEF Rows
    <3> QED BY <2>9, <3>1, <3>2 DEF Adjusted
  <2> QED BY <1>2, <1>3, <1>5, <2>4, <2>5, <2>6, <2>8, <2>9 DEF Rewritten
<1>6. ASSUME o \in intents PROVE FALSE
  <2>1. ASSUME NEW c \in Creations, Inserted(c) PROVE o # Object(c, c)
    <3>1. Object(c, c) \in graced /\ Object(c, c) \in Objects /\ c \in Forms
      BY <2>1, CatalogNames DEF Inserted, GraceInv, Object, Objects
    <3>2. plan[c] \in Contents
      BY <2>1 DEF Inserted, CatalogTypes
    <3>3. form'[c] \in Rows /\ form'[c].object = Object(c, c)
      BY <2>1, <3>1, <3>2 DEF Inserted, Contents, Rows
    <3>4. form'[c] # None
      BY <3>3, CatalogNames
    <3> QED BY <3>1, <3>3, <3>4 DEF FormDocuments, DocumentsOf
  <2> QED BY <1>1, <1>6, <2>1 DEF StoreMove, store, Announced, Stored, Inserted, Dropped, GraceEnded, Removed,
               Discarded, SaveCompleted, PublishCompleted, ReplacedRemoved
<1>7. ASSUME NEW f \in Forms, form[f] # None, o \in Replaced(f) PROVE FALSE
  <2>1. PICK x \in Saves : pc[x] = "done" /\ plan[x] # None /\ plan[x].form = f /\ plan[x].document = o
    BY <1>7 DEF Replaced
  <2>2. pc'[x] = "done" /\ plan'[x] = plan[x]
    BY <1>1, <2>1, DoneStays DEF Requests
  <2>3. o \in Replaced(f)'
    BY <2>1, <2>2 DEF Replaced
  <2>4. form'[f] = None
    BY <2>3 DEF Outdated
  <2>5. Discarded(f)
    BY <1>1, <1>7, <2>4, DeletedOnly
  <2> QED BY <1>7, <2>5 DEF Discarded
<1> QED BY <1>4, <1>5, <1>6, <1>7 DEF FormDocuments, Outdated

(***************************************************************************)
(* Handoffs                                                                *)
(***************************************************************************)

(***************************************************************************)
(* The inductive invariant.                                                *)
(***************************************************************************)

\* What a start, a change of address and a sweep have read.
StartPlans == [user : Users, email : Emails \cup {None}, claim : Handoffs \cup {None}, id : Starts]
MovePlans  == [user : Users, email : Emails, stale : SUBSET Handoffs]

Starting(s) == pc[s] \in {"seed", "redeem", "receipt", "discard"}

HandoffTypes ==
  /\ address \in [Users -> Emails \cup {None}]
  /\ handoff \in [Handoffs -> HandoffRows \cup {None}]
  /\ claim \in [Handoffs -> {"none", "open", "used"}]
  /\ passed \subseteq Handoffs \X {"code", "claim"}
  /\ response \in [Users -> Responses \cup {None}]
  /\ tombstones \subseteq [id : Starts, ref : References \cup {None}]
  /\ \A s \in Starts : Starting(s) =>
       plan[s] \in StartPlans /\ (pc[s] \in {"redeem", "receipt"} => plan[s].claim # None)
  /\ \A x \in Submissions : pc[x] = "processing" => plan[x] \in Users
  /\ \A d \in Removals : pc[d] \in {"erase", "drain"} => plan[d] \in Starts
  /\ \A m \in Moves : pc[m] = "move" => plan[m] \in MovePlans

\* A sweep took its time before now, a launch holds the row it has locked, and a reference
\* has one handoff, of a request that was made.
RowInv ==
  /\ DOMAIN sweep = Sweeps /\ \A w \in Sweeps : sweep[w] # None => sweep[w].now \subseteq passed
  /\ \A h \in Handoffs : pc[h] = "launch" => handoff[h] # None /\ handoff[h].status = "pending"
  /\ \A h \in Handoffs : handoff[h] # None => pc[h] # "idle"
  /\ \A h, g \in Handoffs : handoff[h] # None /\ handoff[g] # None /\ handoff[h].ref = handoff[g].ref => h = g

\* A Response has an id of its own, which only starts for the same User know; one that is
\* submitted has no draft; one that is being submitted has one submission under way.
ResponseInv ==
  /\ \A u, v \in Users : response[u] # None /\ response[v] # None /\ response[u].id = response[v].id => u = v
  /\ \A s \in Starts, v \in Users : Starting(s) /\ Has(v, plan[s].id) => plan[s].user = v
  /\ \A s, t \in Starts : Starting(s) /\ Starting(t) /\ plan[s].id = plan[t].id => plan[s].user = plan[t].user
  /\ \A s \in Starts : pc[s] = "idle" =>
       /\ \A v \in Users : ~Has(v, s)
       /\ \A t \in Starts : Starting(t) => plan[t].id # s
  /\ \A u \in Users : Status(u) = "submitted" => response[u].draft = None
  /\ \A x \in Submissions : pc[x] = "processing" =>
       /\ Status(plan[x]) = "submitting"
       /\ \A y \in Submissions : pc[y] = "processing" /\ plan[y] = plan[x] => x = y

\* A Response that is not submitted has a draft, and the row of a submission names the draft
\* it replaced.
DraftInv ==
  \A u \in Users : response[u] # None =>
    /\ response[u].status # "submitted" => response[u].draft # None
    /\ \A x \in response[u].submissions : pc[x] = "done" /\ plan[x] \in [of : Starts, name : Starts]

\* A start in flight has stored one object, and one that was not made none.
FlightInv == /\ \A o \in objects : InFlight(o) => o = Document(o.name)
             /\ \A o \in objects, s \in Starts : pc[s] = "idle" => o.name # s

\* One Response bears a reference, and none after a deletion; then its handoff names the
\* Response that was deleted.
ReferenceInv ==
  /\ \A u, v \in Users : response[u] # None /\ response[v] # None /\ response[u].ref = response[v].ref =>
       u = v \/ response[u].ref = None
  /\ \A t \in tombstones : t.ref # None =>
       /\ \A u \in Users : response[u] # None => response[u].ref # t.ref
       /\ \A h \in Of(t.ref) : handoff[h].status = "deleted" /\ handoff[h].deleted = t.id
       /\ \A k \in tombstones : k.ref = t.ref => k = t
  /\ \A h \in Handoffs : handoff[h] # None /\ handoff[h].status # "consumed" => handoff[h].response = None

\* The values of a draft come from a handoff that it consumed.
ValuesInv ==
  \A u \in Users : response[u] # None /\ response[u].prefill # None =>
    LET h == response[u].prefill IN
    /\ pc[h] # "idle"
    /\ handoff[h] # None => /\ handoff[h].status = "consumed"
                            /\ handoff[h].response = response[u].id /\ handoff[h].ref = response[u].ref

\* With prefill configured, a start without a claim is for a Response there was.
SeedInv ==
  /\ \A s \in Starts : pc[s] = "seed" /\ Configured => Has(plan[s].user, plan[s].id) \/ Deleted(plan[s].id)
  /\ \A u \in Users : response[u] # None /\ Configured /\ ~Deleted(response[u].id) => response[u].ref # None

IndInv == /\ CatalogInv /\ HandoffTypes /\ RowInv /\ ResponseInv /\ DraftInv /\ FlightInv /\ ReferenceInv
          /\ ValuesInv /\ SeedInv /\ NoneForgotten

(***************************************************************************)
(* The steps                                                               *)
(***************************************************************************)

OwnStep ==
  \/ Expire
  \/ HandoffNext /\ UNCHANGED <<catalog, sweep>>
  \/ UNCHANGED vars

Step == (CatalogOwn(Busy) /\ Apart) \/ OwnStep

\* The timer does not take a document of a form.
LEMMA NextSteps ==
    ASSUME [Next]_vars
    PROVE  Step
<1>1. ASSUME NEW w \in Reapers, NEW o \in intents, CheckIntent(w, o, Canonical(o))
      PROVE  o \notin FormDocuments /\ CheckIntent(w, o, FALSE)
  BY <1>1 DEF CheckIntent, Canonical
<1> QED BY <1>1 DEF Next, Reap, Step, OwnStep, CatalogOwn

\* The documents of a Response are named by it, in the store or out of it.
LEMMA KeysType ==
    ASSUME HandoffTypes, NEW u \in Users, response[u] # None
    PROVE  /\ response[u] \in Responses
           /\ \A o \in Keys(response[u]) : o \in Objects /\ o.of \in Starts
<1>1. response[u] \in Responses
  BY DEF HandoffTypes
<1>2. \A x \in Submissions, id \in Starts : Object(id, x) \in Objects /\ Object(id, x).of \in Starts
  BY HandoffNames DEF Object, Objects
<1>3. \A o \in [of : Starts, name : Starts] : o \in Objects /\ o.of \in Starts
  BY HandoffNames DEF Objects
<1>4. response[u].id \in Starts /\ response[u].submissions \subseteq Submissions
  BY <1>1 DEF Responses
<1>5. response[u].draft \in [of : Starts, name : Starts] \cup {None}
  BY <1>1 DEF Responses
<1> QED BY <1>1, <1>2, <1>3, <1>4, <1>5 DEF Keys

\* So are the drafts its submissions replaced.
LEMMA CandidatesType ==
    ASSUME HandoffTypes, DraftInv, NEW u \in Users, response[u] # None, NEW o \in Candidates(response[u])
    PROVE  o \in Objects /\ o.of \in Starts
<1>1. CASE o \in Keys(response[u])
  BY <1>1, KeysType
<1>2. CASE o \in ReplacedIn(response[u])
  <2>1. o \in [of : Starts, name : Starts]
    BY <1>2 DEF DraftInv, ReplacedIn
  <2> QED BY <2>1, HandoffNames DEF Objects
<1> QED BY <1>1, <1>2 DEF Candidates

\* A start stores documents that are no form's.
LEMMA DocumentType ==
    ASSUME HandoffTypes, NEW s \in Starts, Starting(s)
    PROVE  /\ plan[s] \in StartPlans /\ Document(s) \in Objects /\ Document(s) \in [of : Starts, name : Starts]
           /\ Document(s).of = plan[s].id /\ Document(s).name = s
<1>1. plan[s] \in StartPlans
  BY DEF HandoffTypes
<1>2. plan[s].id \in Starts
  BY <1>1 DEF StartPlans
<1> QED BY <1>1, <1>2, HandoffNames DEF Document, Object, Objects

\* A start's transaction that took effect is no request's of the catalog.
LEMMA CommittedElsewhere ==
    ASSUME CatalogTypes, NEW s \in Starts, NEW from, Committed(s, from)
    PROVE  /\ DOMAIN pc' = Clients /\ DOMAIN plan' = Clients
           /\ \A p \in Creations \cup Saves \cup Configurations \cup Reapers : pc'[p] = pc[p] /\ plan'[p] = plan[p]
<1>1. /\ DOMAIN pc = Clients /\ DOMAIN plan = Clients
      /\ \A p \in Creations \cup Saves \cup Configurations \cup Reapers : p # s
  BY HandoffNames DEF CatalogTypes, Catalogers
<1>2. CASE Finish(s, from)
  BY <1>1, <1>2 DEF Finish, Goto, Know
<1>3. CASE Goto(s, from, "discard") /\ UNCHANGED plan
  BY <1>1, <1>3 DEF Goto
<1> QED BY <1>2, <1>3 DEF Committed

\* Handoffs, starts, submissions and deletions leave forms and their documents alone.
LEMMA HandoffsElsewhere ==
    ASSUME CatalogInv, HandoffTypes, ResponseInv, DraftInv, OwnStep
    PROVE  Elsewhere
<1> USE DEF Goto, Know, Finish, catalog, store, prefill
<1>0. /\ DOMAIN pc = Clients /\ DOMAIN plan = Clients
      /\ Handoffs \cup Starts \cup Submissions \cup Removals \cup Moves \subseteq Clients
      /\ Catalogers \cap (Handoffs \cup Starts \cup Submissions \cup Removals \cup Moves) = {}
      /\ \A c \in Creations \cup Saves \cup Configurations \cup Reapers : c \in Catalogers
  BY HandoffNames DEF CatalogInv, CatalogTypes, Catalogers
<1>00. /\ objects \subseteq Objects /\ intents \subseteq Objects /\ Forms \cap Starts = {}
  BY HandoffNames DEF CatalogInv, CatalogTypes
<1>2. ASSUME NEW w \in Sweeps, ReadDue(w), UNCHANGED catalog PROVE Elsewhere
  BY <1>2, <1>0, <1>00 DEF ReadDue, Elsewhere
<1>3. ASSUME NEW w \in Sweeps, ExpireDue(w), UNCHANGED catalog PROVE Elsewhere
  BY <1>3, <1>0, <1>00 DEF ExpireDue, Elsewhere
<1>4. ASSUME NEW h \in Handoffs, NEW ref \in References, NEW email \in Emails, CreateHandoff(h, ref,
             email), UNCHANGED <<catalog, sweep>>
      PROVE  Elsewhere
  BY <1>4, <1>0, <1>00 DEF CreateHandoff, Elsewhere
<1>5. ASSUME NEW h \in Handoffs, ReadForLaunch(h), UNCHANGED <<catalog, sweep>> PROVE Elsewhere
  BY <1>5, <1>0, <1>00 DEF ReadForLaunch, Elsewhere
<1>6. ASSUME NEW h \in Handoffs, LaunchHandoff(h), UNCHANGED <<catalog, sweep>> PROVE Elsewhere
  BY <1>6, <1>0, <1>00 DEF LaunchHandoff, Elsewhere
<1>7. ASSUME NEW h \in Handoffs, Elapse(h), UNCHANGED <<catalog, sweep>> PROVE Elsewhere
  BY <1>7, <1>0, <1>00 DEF Elapse, Elsewhere
<1>8. ASSUME NEW s \in Starts, NEW u \in Users, NEW h \in Handoffs \cup {None}, ReadForStart(s, u, h),
             UNCHANGED <<catalog, sweep>>
      PROVE  Elsewhere
  <2>0. HintedId(s, u) \in Starts
    BY DEF HintedId, HandoffTypes, Responses
  <2>1. \A o \in objects' \ objects : o \in Objects /\ o.of \notin Forms
    <3>1. Object(HintedId(s, u), s) \in Objects /\ Object(HintedId(s, u), s).of \notin Forms
      BY <1>0, <1>00, <2>0 DEF Object, Objects
    <3> QED BY <1>8, <3>1 DEF ReadForStart
  <2>2. \A o \in objects \ objects' : o.of \notin Forms
    BY <1>8 DEF ReadForStart
  <2>3. \A o \in (intents' \ intents) \cup (intents \ intents') : o \in Objects /\ o.of \notin Forms
    BY <1>8 DEF ReadForStart
  <2>4. UNCHANGED <<form, graced>>
    BY <1>8 DEF ReadForStart
  <2>5. /\ DOMAIN pc' = Clients /\ DOMAIN plan' = Clients
        /\ \A p \in Creations \cup Saves \cup Configurations \cup Reapers : pc'[p] = pc[p] /\ plan'[p] = plan[p]
    BY <1>8, <1>0 DEF ReadForStart
  <2> QED BY <1>00, <2>1, <2>2, <2>3, <2>4, <2>5 DEF Elsewhere
<1>9. ASSUME NEW s \in Starts, CommitStart(s), UNCHANGED <<catalog, sweep>> PROVE Elsewhere
  <2>1. /\ DOMAIN pc' = Clients /\ DOMAIN plan' = Clients
        /\ \A p \in Creations \cup Saves \cup Configurations \cup Reapers : pc'[p] = pc[p] /\ plan'[p] = plan[p]
    BY <1>9, <1>0, CommittedElsewhere DEF CommitStart, CatalogInv
  <2> QED BY <1>9, <1>00, <2>1 DEF CommitStart, Elsewhere
<1>10. ASSUME NEW s \in Starts, RedeemHandoff(s), UNCHANGED <<catalog, sweep>> PROVE Elsewhere
  <2>1. /\ DOMAIN pc' = Clients /\ DOMAIN plan' = Clients
        /\ \A p \in Creations \cup Saves \cup Configurations \cup Reapers : pc'[p] = pc[p] /\ plan'[p] = plan[p]
    BY <1>10, <1>0, CommittedElsewhere DEF RedeemHandoff, Committed, CatalogInv
  <2> QED BY <1>10, <1>00, <2>1 DEF RedeemHandoff, Elsewhere
<1>11. ASSUME NEW s \in Starts, ConsumeSubmitted(s), UNCHANGED <<catalog, sweep>>
       PROVE  Elsewhere
  BY <1>11, <1>0, <1>00 DEF ConsumeSubmitted, Elsewhere
<1>12. ASSUME NEW x \in Submissions, NEW u \in Users, BeginSubmit(x, u), UNCHANGED <<catalog, sweep>>
       PROVE  Elsewhere
  BY <1>12, <1>0, <1>00 DEF BeginSubmit, Elsewhere
<1>13. ASSUME NEW x \in Submissions, EndSubmit(x), UNCHANGED <<catalog, sweep>> PROVE Elsewhere
  <2> DEFINE r == response[plan[x]]
  <2>1. /\ objects' = objects \cup {Object(r.id, x)} /\ UNCHANGED <<form, graced, intents>>
        /\ pc' = [pc EXCEPT ![x] = "done"] /\ plan' = [plan EXCEPT ![x] = r.draft]
    BY <1>13 DEF EndSubmit
  <2>2. r \in Responses
    <3>1. plan[x] \in Users /\ response[plan[x]] # None
      BY <1>13 DEF EndSubmit, HandoffTypes, ResponseInv, Status
    <3> QED BY <3>1, KeysType
  <2>3. Object(r.id, x) \in Objects /\ Object(r.id, x).of \notin Forms
    BY <1>0, <1>00, <2>2 DEF Object, Objects, Responses
  <2> QED BY <1>0, <1>00, <2>1, <2>3 DEF Elsewhere
<1>14. ASSUME NEW x \in Submissions, FailSubmit(x), UNCHANGED <<catalog, sweep>> PROVE Elsewhere
  BY <1>14, <1>0, <1>00 DEF FailSubmit, Elsewhere
<1>15. ASSUME NEW d \in Removals, NEW id \in Starts, ReadForRemoval(d, id), UNCHANGED <<catalog, sweep>>
       PROVE  Elsewhere
  BY <1>15, <1>0, <1>00 DEF ReadForRemoval, Elsewhere
<1>16. ASSUME NEW d \in Removals, NEW u \in Users, EraseRows(d, u), UNCHANGED <<catalog, sweep>>
       PROVE  Elsewhere
  <2>0. \A o \in Candidates(response[u]) : o \in Objects /\ o.of \notin Forms
    BY <1>16, <1>00, CandidatesType DEF EraseRows, Has
  <2>1. \A o \in objects' \ objects : o \in Objects /\ o.of \notin Forms
    BY <1>16 DEF EraseRows
  <2>2. \A o \in objects \ objects' : o.of \notin Forms
    BY <1>16 DEF EraseRows
  <2>3. \A o \in (intents' \ intents) \cup (intents \ intents') : o \in Objects /\ o.of \notin Forms
    BY <1>16, <2>0 DEF EraseRows
  <2>4. UNCHANGED <<form, graced>>
    BY <1>16 DEF EraseRows
  <2>5. /\ DOMAIN pc' = Clients /\ DOMAIN plan' = Clients
        /\ \A p \in Creations \cup Saves \cup Configurations \cup Reapers : pc'[p] = pc[p] /\ plan'[p] = plan[p]
    <3>1. pc' = [pc EXCEPT ![d] = "drain"] /\ plan' = plan
      BY <1>16 DEF EraseRows
    <3> QED BY <1>0, <3>1
  <2> QED BY <1>00, <2>1, <2>2, <2>3, <2>4, <2>5 DEF Elsewhere
<1>17. ASSUME NEW d \in Removals, RefuseRemoval(d), UNCHANGED <<catalog, sweep>> PROVE Elsewhere
  BY <1>17, <1>0, <1>00 DEF RefuseRemoval, Elsewhere
<1>18. ASSUME NEW d \in Removals, Drain(d), UNCHANGED <<catalog, sweep>> PROVE Elsewhere
  <2>0. plan[d] \in Starts
    BY <1>18 DEF Drain, HandoffTypes
  <2>00. PICK removed \in SUBSET Pending(plan[d]) :
           objects' = objects \ removed /\ intents' = intents \ removed
    BY <1>18 DEF Drain
  <2>1. \A o \in objects' \ objects : o \in Objects /\ o.of \notin Forms
    BY <2>00
  <2>2. \A o \in objects \ objects' : o.of \notin Forms
    BY <1>00, <2>0, <2>00 DEF Pending
  <2>3. \A o \in (intents' \ intents) \cup (intents \ intents') : o \in Objects /\ o.of \notin Forms
    BY <1>00, <2>0, <2>00 DEF Pending
  <2>4. UNCHANGED <<form, graced>>
    BY <1>18 DEF Drain
  <2>5. /\ DOMAIN pc' = Clients /\ DOMAIN plan' = Clients
        /\ \A p \in Creations \cup Saves \cup Configurations \cup Reapers : pc'[p] = pc[p] /\ plan'[p] = plan[p]
    BY <1>18, <1>0 DEF Drain
  <2> QED BY <1>00, <2>1, <2>2, <2>3, <2>4, <2>5 DEF Elsewhere
<1>19. ASSUME NEW m \in Moves, NEW u \in Users, NEW email \in Emails, ReadForMove(m, u, email),
              UNCHANGED <<catalog, sweep>>
       PROVE  Elsewhere
  BY <1>19, <1>0, <1>00 DEF ReadForMove, Elsewhere
<1>20. ASSUME NEW m \in Moves, CommitMove(m), UNCHANGED <<catalog, sweep>> PROVE Elsewhere
  BY <1>20, <1>0, <1>00 DEF CommitMove, Elsewhere
<1>21. ASSUME UNCHANGED vars PROVE Elsewhere
  BY <1>21, <1>0, <1>00 DEF vars, Elsewhere
<1>22. ASSUME NEW s \in Starts, RollBack(s), UNCHANGED <<catalog, sweep>> PROVE Elsewhere
  BY <1>22, <1>0, <1>00 DEF RollBack, Elsewhere
<1>23. ASSUME NEW s \in Starts, Discard(s), UNCHANGED <<catalog, sweep>> PROVE Elsewhere
  <2>1. Document(s).of \notin Forms
    <3>1. pc[s] = "discard"
      BY <1>23 DEF Discard
    <3> QED BY <1>00, <3>1, DocumentType DEF Starting, StartPlans
  <2>2. objects' \in {objects, objects \ {Document(s)}} /\ UNCHANGED <<form, graced, intents>>
    BY <1>23 DEF Discard
  <2>3. /\ DOMAIN pc' = Clients /\ DOMAIN plan' = Clients
        /\ \A p \in Creations \cup Saves \cup Configurations \cup Reapers : pc'[p] = pc[p] /\ plan'[p] = plan[p]
    <3>1. /\ pc' \in {[pc EXCEPT ![s] = "done"], [pc EXCEPT ![s] = "left"]}
          /\ plan' = [plan EXCEPT ![s] = None]
      BY <1>23 DEF Discard
    <3>2. s \in Clients /\ s \notin Catalogers
      BY <1>0
    <3>3. ASSUME NEW to, pc' = [pc EXCEPT ![s] = to]
          PROVE  /\ DOMAIN pc' = Clients
                 /\ \A p \in Creations \cup Saves \cup Configurations \cup Reapers : pc'[p] = pc[p]
      BY <1>0, <3>2, <3>3
    <3>4. /\ DOMAIN plan' = Clients
          /\ \A p \in Creations \cup Saves \cup Configurations \cup Reapers : plan'[p] = plan[p]
      BY <1>0, <3>1, <3>2
    <3> QED BY <3>1, <3>3, <3>4
  <2> QED BY <1>00, <2>1, <2>2, <2>3 DEF Elsewhere
<1>24. ASSUME NEW u \in Users, NEW o \in objects, RemoveReplacedIn(u, o), UNCHANGED <<catalog, sweep>>
       PROVE  Elsewhere
  <2>1. response[u] # None /\ o \in ReplacedIn(response[u])
    BY <1>24 DEF RemoveReplacedIn
  <2>2. o.of \notin Forms
    BY <1>00, <2>1, CandidatesType DEF Candidates
  <2> QED BY <1>24, <1>0, <1>00, <2>2 DEF RemoveReplacedIn, Elsewhere
<1> QED
  BY <1>2, <1>3, <1>4, <1>5, <1>6, <1>7, <1>8, <1>9, <1>10, <1>11, <1>12, <1>13, <1>14, <1>15,
     <1>16, <1>17, <1>18, <1>19, <1>20, <1>21, <1>22, <1>23, <1>24
     DEF OwnStep, Expire, HandoffNext

(***************************************************************************)
(* What a step does to handoffs, to Responses and to their requests        *)
(***************************************************************************)

\* A handoff that is created, launched, expired, consumed, or forgotten with an address.
Created(h) ==
  /\ pc[h] = "idle" /\ pc'[h] = "done"
  /\ \E ref \in References, email \in Emails :
       /\ Unused(ref)
       /\ handoff'[h] = [ref |-> ref, email |-> email, status |-> "pending", lifetime |-> "code",
                         response |-> None, deleted |-> None]
  /\ \A g \in Handoffs \ {h} : handoff'[g] = handoff[g]

Launched(h) == /\ pc[h] = "launch" /\ pc'[h] = "done"
               /\ handoff'[h] = [handoff[h] EXCEPT !.status = "reserved", !.lifetime = "claim"]

TimedOut(h) == /\ pc[h] # "launch" /\ Waiting(h) /\ handoff'[h] = Expired(h)
               /\ \E w \in Sweeps : sweep[w] # None /\ Over(h, sweep[w].now)

Consumed(h) ==
  /\ handoff[h] # None /\ handoff[h].status = "reserved"
  /\ \E id \in Starts : handoff'[h] = [handoff[h] EXCEPT !.status = "consumed", !.response = id]

Forgotten(h) == pc[h] # "launch" /\ handoff'[h] = None

\* A Response whose rows are deleted, with the handoffs that lead to it.
Tombstone(r) == [id |-> r.id, ref |-> r.ref]
Tombed(h, id) == [handoff[h] EXCEPT !.email = None, !.status = "deleted", !.response = None, !.deleted = id]
Erased(u) ==
  /\ response[u] # None /\ response[u].status # "submitting"
  /\ response' = [response EXCEPT ![u] = None]
  /\ tombstones' = tombstones \cup {Tombstone(response[u])}
  /\ intents' = intents \cup Candidates(response[u]) /\ UNCHANGED objects
  /\ \A h \in Handoffs :
       IF h \in Leading(response[u]) THEN pc[h] # "launch" /\ handoff'[h] = Tombed(h, response[u].id)
       ELSE handoff'[h] = handoff[h]

HandoffMoves(h) ==
  \/ handoff'[h] = handoff[h]
  \/ /\ UNCHANGED <<response, tombstones>>
     /\ \/ Created(h)
        \/ Launched(h)
        \/ TimedOut(h)
        \/ Forgotten(h)
  \/ Consumed(h) /\ UNCHANGED tombstones
  \/ \E u \in Users : Erased(u) /\ h \in Leading(response[u])

\* A start that makes or renews a draft, without and with a claim.
SeededRow(s) ==
  LET u == plan[s].user IN
  /\ pc[s] = "seed" /\ pc'[s] \in {"done", "discard"} /\ Status(u) \in {"none", "submitted"}
  /\ response' = [response EXCEPT ![u] = Seeded(s, @)]
  /\ UNCHANGED <<handoff, tombstones, store>>

RedeemedRow(s) ==
  LET u == plan[s].user
      h == plan[s].claim
  IN  /\ pc[s] = "redeem" /\ pc'[s] \in {"done", "discard"} /\ response[u] = None
      /\ handoff[h] # None /\ handoff[h].status = "reserved"
      /\ ~Dead(handoff[h].ref) /\ ReferenceFree(handoff[h].ref)
      /\ response' = [response EXCEPT ![u] = Prefilled(s, None)]
      /\ handoff' = [handoff EXCEPT ![h].status = "consumed", ![h].response = plan[s].id]
      /\ UNCHANGED <<tombstones, store>>

\* A submission begins, completes or fails.
Begun(u) ==
  /\ Status(u) = "draft" /\ response' = [response EXCEPT ![u].status = "submitting"]
  /\ UNCHANGED <<handoff, tombstones, store>>

Completed(x) ==
  LET u == plan[x] IN
  /\ pc[x] = "processing" /\ pc'[x] = "done" /\ plan'[x] = response[u].draft
  /\ response' = [response EXCEPT ![u].status = "submitted", ![u].draft = None, ![u].submissions = @ \cup {x}]
  /\ objects' = objects \cup {Object(response[u].id, x)}
  /\ UNCHANGED <<handoff, tombstones, intents>>

Failed(x) ==
  /\ pc[x] = "processing" /\ pc'[x] = "done" /\ response' = [response EXCEPT ![plan[x]].status = "draft"]
  /\ UNCHANGED <<handoff, tombstones, store>>

ResponsesStep ==
  \/ UNCHANGED <<response, tombstones>>
  \/ \E s \in Starts : SeededRow(s) \/ RedeemedRow(s)
  \/ \E u \in Users : Begun(u) \/ Erased(u)
  \/ \E x \in Submissions : Completed(x) \/ Failed(x)


\* The transaction of a deletion.
LEMMA ErasedBy ==
    ASSUME HandoffTypes, NEW d \in Removals, NEW u \in Users, EraseRows(d, u)
    PROVE  Erased(u)
<1>1. \A h \in Handoffs : handoff'[h] = IF h \in Leading(response[u]) THEN Tombed(h, response[u].id) ELSE handoff[h]
  BY DEF EraseRows, Tombed
<1>2. \A h \in Leading(response[u]) : pc[h] # "launch"
  BY DEF EraseRows, Locked
<1>3. /\ response[u] # None /\ response[u].status # "submitting"
      /\ response' = [response EXCEPT ![u] = None]
      /\ tombstones' = tombstones \cup {Tombstone(response[u])}
      /\ intents' = intents \cup Candidates(response[u]) /\ UNCHANGED objects
  BY DEF EraseRows, Has, Tombstone
<1> QED BY <1>1, <1>2, <1>3 DEF Erased

\* The transaction of a redemption that finds no Response.
LEMMA RedeemedBy ==
    ASSUME HandoffTypes, NEW s \in Starts, s \in DOMAIN pc, RedeemHandoff(s), response[plan[s].user] = None,
           UNCHANGED catalog
    PROVE  RedeemedRow(s)
<1> DEFINE u == plan[s].user
           h == plan[s].claim
           new == Prefilled(s, response[u])
<1>1. new = Prefilled(s, None) /\ new.id = plan[s].id
  BY DEF Prefilled, Seeded
<1>2. pc[s] = "redeem" /\ pc'[s] \in {"done", "discard"}
  BY DEF RedeemHandoff, Committed, Finish, Goto
<1>3. /\ Redeemable(s) /\ ~Dead(handoff[h].ref) /\ ReferenceFree(handoff[h].ref)
      /\ Consume(h, new.id) /\ response' = [response EXCEPT ![u] = new]
      /\ UNCHANGED <<tombstones, store>>
  BY DEF RedeemHandoff, Status
<1> HIDE DEF new
<1> QED BY <1>1, <1>2, <1>3 DEF RedeemedRow, Redeemable, Consume

\* What a step does to Responses.
LEMMA ResponsesMove ==
    ASSUME CatalogInv, HandoffTypes, Step
    PROVE  ResponsesStep
<1> USE DEF Goto, Know, Finish, catalog, store, prefill
<1>0. /\ DOMAIN pc = Clients /\ DOMAIN plan = Clients
      /\ Handoffs \cup Starts \cup Submissions \cup Removals \cup Moves \subseteq Clients
      /\ Catalogers \cap (Handoffs \cup Starts \cup Submissions \cup Removals \cup Moves) = {}
      /\ \A c \in Creations \cup Saves \cup Configurations \cup Reapers : c \in Catalogers
  BY HandoffNames DEF CatalogInv, CatalogTypes, Catalogers
<1>01. response = [u \in Users |-> response[u]] /\ handoff = [h \in Handoffs |-> handoff[h]]
  BY DEF HandoffTypes
<1>1. ASSUME CatalogOwn(Busy), Apart PROVE ResponsesStep
  BY <1>1, <1>0, <1>01 DEF ResponsesStep, Apart
<1>2. ASSUME NEW w \in Sweeps, ReadDue(w), UNCHANGED catalog PROVE ResponsesStep
  BY <1>2, <1>0, <1>01 DEF ResponsesStep, ReadDue
<1>3. ASSUME NEW w \in Sweeps, ExpireDue(w), UNCHANGED catalog PROVE ResponsesStep
  BY <1>3, <1>0, <1>01 DEF ResponsesStep, ExpireDue
<1>4. ASSUME NEW h \in Handoffs, NEW ref \in References, NEW email \in Emails, CreateHandoff(h, ref,
             email), UNCHANGED <<catalog, sweep>>
      PROVE  ResponsesStep
  BY <1>4, <1>0, <1>01 DEF ResponsesStep, CreateHandoff
<1>5. ASSUME NEW h \in Handoffs, ReadForLaunch(h), UNCHANGED <<catalog, sweep>> PROVE ResponsesStep
  BY <1>5, <1>0, <1>01 DEF ResponsesStep, ReadForLaunch
<1>6. ASSUME NEW h \in Handoffs, LaunchHandoff(h), UNCHANGED <<catalog, sweep>> PROVE ResponsesStep
  BY <1>6, <1>0, <1>01 DEF ResponsesStep, LaunchHandoff
<1>7. ASSUME NEW h \in Handoffs, Elapse(h), UNCHANGED <<catalog, sweep>> PROVE ResponsesStep
  BY <1>7, <1>0, <1>01 DEF ResponsesStep, Elapse
<1>8. ASSUME NEW s \in Starts, NEW u \in Users, NEW h \in Handoffs \cup {None}, ReadForStart(s, u, h),
             UNCHANGED <<catalog, sweep>>
      PROVE  ResponsesStep
  BY <1>8 DEF ResponsesStep, ReadForStart
<1>9. ASSUME NEW s \in Starts, CommitStart(s), UNCHANGED <<catalog, sweep>> PROVE ResponsesStep
  <2>1. SeededRow(s)
    BY <1>9, <1>0 DEF CommitStart, Committed, SeededRow
  <2> QED BY <2>1 DEF ResponsesStep
<1>10. ASSUME NEW s \in Starts, RedeemHandoff(s), UNCHANGED <<catalog, sweep>> PROVE ResponsesStep
  <2>1. CASE response[plan[s].user] = None
    <3>1. RedeemedRow(s)
      BY <1>0, <1>10, <2>1, RedeemedBy
    <3> QED BY <3>1 DEF ResponsesStep
  <2>2. CASE response[plan[s].user] # None
    <3>1. plan[s].user \in Users
      BY <1>10, DocumentType DEF RedeemHandoff, Starting, StartPlans
    <3>2. response' = [response EXCEPT ![plan[s].user] = Prefilled(s, @)] /\ UNCHANGED tombstones
      BY <1>10 DEF RedeemHandoff
    <3>3. response' = response
      BY <1>01, <2>2, <3>1, <3>2 DEF Prefilled
    <3> QED BY <3>2, <3>3 DEF ResponsesStep
  <2> QED BY <2>1, <2>2
<1>11. ASSUME NEW s \in Starts, ConsumeSubmitted(s), UNCHANGED <<catalog, sweep>> PROVE ResponsesStep
  BY <1>11, <1>0, <1>01 DEF ResponsesStep, ConsumeSubmitted
<1>12. ASSUME NEW x \in Submissions, NEW u \in Users, BeginSubmit(x, u), UNCHANGED <<catalog, sweep>>
       PROVE  ResponsesStep
  <2>1. Begun(u)
    BY <1>12 DEF BeginSubmit, Begun
  <2> QED BY <2>1 DEF ResponsesStep
<1>13. ASSUME NEW x \in Submissions, EndSubmit(x), UNCHANGED <<catalog, sweep>> PROVE ResponsesStep
  <2>1. Completed(x)
    BY <1>13, <1>0 DEF EndSubmit, Completed
  <2> QED BY <2>1 DEF ResponsesStep
<1>14. ASSUME NEW x \in Submissions, FailSubmit(x), UNCHANGED <<catalog, sweep>> PROVE ResponsesStep
  <2>1. Failed(x)
    BY <1>14, <1>0 DEF FailSubmit, Failed
  <2> QED BY <2>1 DEF ResponsesStep
<1>15. ASSUME NEW d \in Removals, NEW id \in Starts, ReadForRemoval(d, id), UNCHANGED <<catalog, sweep>>
       PROVE  ResponsesStep
  BY <1>15, <1>0, <1>01 DEF ResponsesStep, ReadForRemoval
<1>16. ASSUME NEW d \in Removals, NEW u \in Users, EraseRows(d, u), UNCHANGED <<catalog, sweep>>
       PROVE  ResponsesStep
  <2>1. Erased(u)
    BY ErasedBy, <1>16 DEF HandoffTypes
  <2> QED BY <2>1 DEF ResponsesStep
<1>17. ASSUME NEW d \in Removals, RefuseRemoval(d), UNCHANGED <<catalog, sweep>> PROVE ResponsesStep
  BY <1>17, <1>0, <1>01 DEF ResponsesStep, RefuseRemoval
<1>18. ASSUME NEW d \in Removals, Drain(d), UNCHANGED <<catalog, sweep>> PROVE ResponsesStep
  BY <1>18, <1>0, <1>01 DEF ResponsesStep, Drain
<1>19. ASSUME NEW m \in Moves, NEW u \in Users, NEW email \in Emails, ReadForMove(m, u, email),
              UNCHANGED <<catalog, sweep>>
       PROVE  ResponsesStep
  BY <1>19, <1>0, <1>01 DEF ResponsesStep, ReadForMove
<1>20. ASSUME NEW m \in Moves, CommitMove(m), UNCHANGED <<catalog, sweep>> PROVE ResponsesStep
  BY <1>20, <1>0, <1>01 DEF ResponsesStep, CommitMove
<1>21. ASSUME UNCHANGED vars PROVE ResponsesStep
  BY <1>21, <1>0, <1>01 DEF ResponsesStep, vars, prefill
<1>22. ASSUME NEW s \in Starts, RollBack(s), UNCHANGED <<catalog, sweep>> PROVE ResponsesStep
  BY <1>22 DEF ResponsesStep, RollBack
<1>23. ASSUME NEW s \in Starts, Discard(s), UNCHANGED <<catalog, sweep>> PROVE ResponsesStep
  BY <1>23 DEF ResponsesStep, Discard
<1>24. ASSUME NEW u \in Users, NEW o \in objects, RemoveReplacedIn(u, o), UNCHANGED <<catalog, sweep>>
       PROVE  ResponsesStep
  BY <1>24 DEF ResponsesStep, RemoveReplacedIn
<1> QED
  BY <1>1, <1>2, <1>3, <1>4, <1>5, <1>6, <1>7, <1>8, <1>9, <1>10, <1>11, <1>12, <1>13, <1>14,
     <1>15, <1>16, <1>17, <1>18, <1>19, <1>20, <1>21, <1>22, <1>23, <1>24
     DEF Step, OwnStep, Expire, HandoffNext

\* What a step does to a handoff.
LEMMA HandoffsMove ==
    ASSUME CatalogInv, HandoffTypes, Step, NEW k \in Handoffs
    PROVE  HandoffMoves(k)
<1> USE DEF Goto, Know, Finish, catalog, store, prefill
<1>0. /\ DOMAIN pc = Clients /\ DOMAIN plan = Clients
      /\ Handoffs \cup Starts \cup Submissions \cup Removals \cup Moves \subseteq Clients
      /\ Catalogers \cap (Handoffs \cup Starts \cup Submissions \cup Removals \cup Moves) = {}
      /\ \A c \in Creations \cup Saves \cup Configurations \cup Reapers : c \in Catalogers
  BY HandoffNames DEF CatalogInv, CatalogTypes, Catalogers
<1>01. response = [u \in Users |-> response[u]] /\ handoff = [h \in Handoffs |-> handoff[h]]
  BY DEF HandoffTypes
<1>1. ASSUME CatalogOwn(Busy), Apart PROVE HandoffMoves(k)
  BY <1>1, <1>0, <1>01 DEF HandoffMoves, Apart
<1>2. ASSUME NEW w \in Sweeps, ReadDue(w), UNCHANGED catalog PROVE HandoffMoves(k)
  BY <1>2, <1>0, <1>01 DEF HandoffMoves, ReadDue
<1>3. ASSUME NEW w \in Sweeps, ExpireDue(w), UNCHANGED catalog PROVE HandoffMoves(k)
  <2>1. handoff'[k] = IF StillDue(w, k) THEN Expired(k) ELSE handoff[k]
    BY <1>3 DEF ExpireDue
  <2>2. CASE StillDue(w, k)
    <3>1. TimedOut(k)
      BY <1>3, <2>1, <2>2 DEF ExpireDue, StillDue, TimedOut, Locked
    <3> QED BY <1>3, <3>1 DEF HandoffMoves, ExpireDue
  <2> QED BY <2>1, <2>2 DEF HandoffMoves
<1>4. ASSUME NEW h \in Handoffs, NEW ref \in References, NEW email \in Emails, CreateHandoff(h, ref,
             email), UNCHANGED <<catalog, sweep>>
      PROVE  HandoffMoves(k)
  <2>1. CASE k = h
    <3>1. Created(k)
      BY <1>4, <1>0, <1>01, <2>1 DEF CreateHandoff, Created
    <3> QED BY <1>4, <3>1 DEF HandoffMoves, CreateHandoff
  <2>2. CASE k # h
    BY <1>4, <1>01, <2>2 DEF HandoffMoves, CreateHandoff
  <2> QED BY <2>1, <2>2
<1>5. ASSUME NEW h \in Handoffs, ReadForLaunch(h), UNCHANGED <<catalog, sweep>> PROVE HandoffMoves(k)
  BY <1>5, <1>0, <1>01 DEF HandoffMoves, ReadForLaunch
<1>6. ASSUME NEW h \in Handoffs, LaunchHandoff(h), UNCHANGED <<catalog, sweep>> PROVE HandoffMoves(k)
  <2>1. CASE k = h /\ handoff' # handoff
    <3>1. Launched(k)
      BY <1>6, <1>0, <1>01, <2>1 DEF LaunchHandoff, Launched
    <3> QED BY <1>6, <3>1 DEF HandoffMoves, LaunchHandoff
  <2>2. CASE k # h \/ handoff' = handoff
    BY <1>6, <1>01, <2>2 DEF HandoffMoves, LaunchHandoff
  <2> QED BY <2>1, <2>2
<1>7. ASSUME NEW h \in Handoffs, Elapse(h), UNCHANGED <<catalog, sweep>> PROVE HandoffMoves(k)
  BY <1>7, <1>0, <1>01 DEF HandoffMoves, Elapse
<1>8. ASSUME NEW s \in Starts, NEW u \in Users, NEW h \in Handoffs \cup {None}, ReadForStart(s, u, h),
             UNCHANGED <<catalog, sweep>>
      PROVE  HandoffMoves(k)
  BY <1>8, <1>0, <1>01 DEF HandoffMoves, ReadForStart
<1>9. ASSUME NEW s \in Starts, CommitStart(s), UNCHANGED <<catalog, sweep>> PROVE HandoffMoves(k)
  BY <1>9, <1>0, <1>01 DEF HandoffMoves, CommitStart
<1>10. ASSUME NEW s \in Starts, RedeemHandoff(s), UNCHANGED <<catalog, sweep>> PROVE HandoffMoves(k)
  <2>1. plan[s] \in StartPlans /\ plan[s].user \in Users /\ plan[s].id \in Starts
    BY <1>10, DocumentType DEF RedeemHandoff, Starting, StartPlans
  <2>2. Prefilled(s, response[plan[s].user]).id \in Starts
    <3>1. CASE response[plan[s].user] = None
      BY <2>1, <3>1 DEF Prefilled, Seeded
    <3>2. CASE response[plan[s].user] # None
      BY <2>1, <3>2 DEF Prefilled, HandoffTypes, Responses
    <3> QED BY <3>1, <3>2
  <2>3. Redeemable(s) /\ Consume(plan[s].claim, Prefilled(s, response[plan[s].user]).id) /\ UNCHANGED tombstones
    BY <1>10 DEF RedeemHandoff
  <2>4. CASE k = plan[s].claim
    <3>1. Consumed(k)
      BY <1>01, <2>2, <2>3, <2>4 DEF Redeemable, Consume, Consumed
    <3> QED BY <2>3, <3>1 DEF HandoffMoves
  <2>5. CASE k # plan[s].claim
    BY <1>01, <2>3, <2>5 DEF Consume, HandoffMoves
  <2> QED BY <2>4, <2>5
<1>11. ASSUME NEW s \in Starts, ConsumeSubmitted(s), UNCHANGED <<catalog, sweep>> PROVE HandoffMoves(k)
  <2>1. plan[s].id \in Starts
    BY <1>11, DocumentType DEF ConsumeSubmitted, Starting, StartPlans
  <2>3. CASE handoff' = handoff
    BY <2>3 DEF HandoffMoves
  <2>4. CASE handoff' # handoff
    <3>1. Redeemable(s) /\ Consume(plan[s].claim, plan[s].id) /\ UNCHANGED tombstones
      BY <1>11, <2>4 DEF ConsumeSubmitted
    <3>2. CASE k = plan[s].claim
      <4>1. Consumed(k)
        BY <1>01, <2>1, <3>1, <3>2 DEF Redeemable, Consume, Consumed
      <4> QED BY <3>1, <4>1 DEF HandoffMoves
    <3>3. CASE k # plan[s].claim
      BY <1>01, <3>1, <3>3 DEF Consume, HandoffMoves
    <3> QED BY <3>2, <3>3
  <2> QED BY <2>3, <2>4
<1>12. ASSUME NEW x \in Submissions, NEW u \in Users, BeginSubmit(x, u), UNCHANGED <<catalog, sweep>>
       PROVE  HandoffMoves(k)
  BY <1>12, <1>0, <1>01 DEF HandoffMoves, BeginSubmit
<1>13. ASSUME NEW x \in Submissions, EndSubmit(x), UNCHANGED <<catalog, sweep>> PROVE HandoffMoves(k)
  BY <1>13, <1>0, <1>01 DEF HandoffMoves, EndSubmit
<1>14. ASSUME NEW x \in Submissions, FailSubmit(x), UNCHANGED <<catalog, sweep>> PROVE HandoffMoves(k)
  BY <1>14, <1>0, <1>01 DEF HandoffMoves, FailSubmit
<1>15. ASSUME NEW d \in Removals, NEW id \in Starts, ReadForRemoval(d, id), UNCHANGED <<catalog, sweep>>
       PROVE  HandoffMoves(k)
  BY <1>15, <1>0, <1>01 DEF HandoffMoves, ReadForRemoval
<1>16. ASSUME NEW d \in Removals, NEW u \in Users, EraseRows(d, u), UNCHANGED <<catalog, sweep>>
       PROVE  HandoffMoves(k)
  <2>1. Erased(u)
    BY ErasedBy, <1>16
  <2> QED BY <2>1 DEF HandoffMoves, Erased
<1>17. ASSUME NEW d \in Removals, RefuseRemoval(d), UNCHANGED <<catalog, sweep>> PROVE HandoffMoves(k)
  BY <1>17, <1>0, <1>01 DEF HandoffMoves, RefuseRemoval
<1>18. ASSUME NEW d \in Removals, Drain(d), UNCHANGED <<catalog, sweep>> PROVE HandoffMoves(k)
  BY <1>18, <1>0, <1>01 DEF HandoffMoves, Drain
<1>19. ASSUME NEW m \in Moves, NEW u \in Users, NEW email \in Emails, ReadForMove(m, u, email),
              UNCHANGED <<catalog, sweep>>
       PROVE  HandoffMoves(k)
  BY <1>19, <1>0, <1>01 DEF HandoffMoves, ReadForMove
<1>20. ASSUME NEW m \in Moves, CommitMove(m), UNCHANGED <<catalog, sweep>> PROVE HandoffMoves(k)
  <2>1. CASE k \in plan[m].stale
    <3>1. Forgotten(k)
      BY <1>20, <2>1 DEF CommitMove, Forgotten, Locked
    <3> QED BY <1>20, <3>1 DEF HandoffMoves, CommitMove
  <2>2. CASE k \notin plan[m].stale
    BY <1>20, <2>2 DEF CommitMove, HandoffMoves
  <2> QED BY <2>1, <2>2
<1>21. ASSUME UNCHANGED vars PROVE HandoffMoves(k)
  BY <1>21, <1>0, <1>01 DEF HandoffMoves, vars, prefill
<1>22. ASSUME NEW s \in Starts, RollBack(s), UNCHANGED <<catalog, sweep>> PROVE HandoffMoves(k)
  BY <1>22 DEF HandoffMoves, RollBack
<1>23. ASSUME NEW s \in Starts, Discard(s), UNCHANGED <<catalog, sweep>> PROVE HandoffMoves(k)
  BY <1>23 DEF HandoffMoves, Discard
<1>24. ASSUME NEW u \in Users, NEW o \in objects, RemoveReplacedIn(u, o), UNCHANGED <<catalog, sweep>>
       PROVE  HandoffMoves(k)
  BY <1>24 DEF HandoffMoves, RemoveReplacedIn
<1> QED
  BY <1>1, <1>2, <1>3, <1>4, <1>5, <1>6, <1>7, <1>8, <1>9, <1>10, <1>11, <1>12, <1>13, <1>14,
     <1>15, <1>16, <1>17, <1>18, <1>19, <1>20, <1>21, <1>22, <1>23, <1>24
     DEF Step, OwnStep, Expire, HandoffNext

\* A request that reads: to launch, to start, to submit, to delete, to change an address.
ToLaunch(h) ==
  /\ h \in Handoffs /\ pc[h] = "done" /\ pc'[h] = "launch"
  /\ handoff[h] # None /\ handoff[h].status = "pending" /\ UNCHANGED handoff

ToStart(s) ==
  /\ s \in Starts /\ pc[s] = "idle" /\ pc'[s] \in {"seed", "redeem", "receipt"}
  /\ \E u \in Users, h \in Handoffs \cup {None} :
       /\ plan'[s] = [user |-> u, email |-> address[u], claim |-> h, id |-> HintedId(s, u)]
       /\ pc'[s] # "seed" => h # None
       /\ pc'[s] = "seed" /\ Configured => Status(u) # "none"
       /\ objects' = IF pc'[s] = "receipt" THEN objects ELSE objects \cup {Object(HintedId(s, u), s)}
  /\ UNCHANGED <<form, handoff, response, tombstones, intents>>
  /\ \A t \in Starts \ {s} : pc'[t] = pc[t] /\ plan'[t] = plan[t]

ToSubmit(x) ==
  /\ x \in Submissions /\ pc[x] = "idle" /\ pc'[x] = "processing" /\ plan'[x] \in Users /\ Begun(plan'[x])
  /\ \A y \in Submissions \ {x} : pc'[y] = pc[y] /\ plan'[y] = plan[y]

ToRemove(d) == /\ d \in Removals /\ pc[d] \in {"idle", "erase"} /\ pc'[d] \in {"erase", "drain"}
               /\ plan'[d] \in Starts

ToMove(m) == m \in Moves /\ pc[m] = "idle" /\ pc'[m] = "move" /\ plan'[m] \in MovePlans

\* A start that is to discard what it stored, and one that could not.
ToDiscard(s) == s \in Starts /\ pc[s] \in {"seed", "redeem"} /\ pc'[s] = "discard" /\ plan'[s] = plan[s]
ToLeft(s)    == s \in Starts /\ pc[s] = "discard" /\ pc'[s] = "left"

CallMoves(p) ==
  \/ pc'[p] = pc[p] /\ plan'[p] = plan[p]
  \/ pc[p] \notin {"done", "left"} /\ pc'[p] = "done"
  \/ ToLaunch(p) \/ ToStart(p) \/ ToDiscard(p) \/ ToLeft(p) \/ ToSubmit(p) \/ ToRemove(p) \/ ToMove(p)

Calls == Handoffs \cup Starts \cup Submissions \cup Removals \cup Moves

CallsStep == \A p \in Calls : CallMoves(p)


\* How a request goes on in a step.
LEMMA CallsMove ==
    ASSUME CatalogInv, HandoffTypes, Step, NEW p \in Calls
    PROVE  CallMoves(p)
<1> USE DEF Goto, Know, Finish, catalog, store, prefill
<1>0. /\ DOMAIN pc = Clients /\ DOMAIN plan = Clients
      /\ Handoffs \cup Starts \cup Submissions \cup Removals \cup Moves \subseteq Clients
      /\ Catalogers \cap (Handoffs \cup Starts \cup Submissions \cup Removals \cup Moves) = {}
      /\ \A c \in Creations \cup Saves \cup Configurations \cup Reapers : c \in Catalogers
  BY HandoffNames DEF CatalogInv, CatalogTypes, Catalogers
<1>02. p \in Clients /\ p \notin Catalogers
  BY <1>0 DEF Calls
<1>1. ASSUME CatalogOwn(Busy), Apart PROVE CallMoves(p)
  <2>1. pc'[p] = pc[p] /\ plan'[p] = plan[p]
    BY <1>1, <1>0, <1>02, OthersStay DEF CatalogInv, Catalogers
  <2> QED BY <2>1 DEF CallMoves
<1>2. ASSUME NEW w \in Sweeps, ReadDue(w), UNCHANGED catalog PROVE CallMoves(p)
  BY <1>2, <1>0, <1>02 DEF ReadDue, CallMoves
<1>3. ASSUME NEW w \in Sweeps, ExpireDue(w), UNCHANGED catalog PROVE CallMoves(p)
  BY <1>3, <1>0, <1>02 DEF ExpireDue, CallMoves
<1>4. ASSUME NEW h \in Handoffs, NEW ref \in References, NEW email \in Emails, CreateHandoff(h, ref,
             email), UNCHANGED <<catalog, sweep>>
      PROVE  CallMoves(p)
  BY <1>4, <1>0, <1>02 DEF CreateHandoff, CallMoves
<1>5. ASSUME NEW h \in Handoffs, ReadForLaunch(h), UNCHANGED <<catalog, sweep>> PROVE CallMoves(p)
  <2>1. CASE p # h
    BY <1>5, <1>0, <1>02, <2>1 DEF ReadForLaunch, CallMoves
  <2>2. CASE p = h
    <3>1. ToLaunch(h)
      BY <1>5, <1>0 DEF ReadForLaunch, ToLaunch
    <3> QED BY <2>2, <3>1 DEF CallMoves
  <2> QED BY <2>1, <2>2
<1>6. ASSUME NEW h \in Handoffs, LaunchHandoff(h), UNCHANGED <<catalog, sweep>> PROVE CallMoves(p)
  BY <1>6, <1>0, <1>02 DEF LaunchHandoff, CallMoves
<1>7. ASSUME NEW h \in Handoffs, Elapse(h), UNCHANGED <<catalog, sweep>> PROVE CallMoves(p)
  BY <1>7, <1>0, <1>02 DEF Elapse, CallMoves
<1>8. ASSUME NEW s \in Starts, NEW u \in Users, NEW h \in Handoffs \cup {None}, ReadForStart(s, u, h),
             UNCHANGED <<catalog, sweep>>
      PROVE  CallMoves(p)
  <2>1. CASE p # s
    BY <1>8, <1>0, <1>02, <2>1 DEF ReadForStart, CallMoves
  <2>2. CASE p = s
    <3>1. ToStart(s)
      <4> DEFINE receipt == h # None /\ Status(u) = "submitted"
      <4>1. /\ pc[s] = "idle" /\ pc'[s] = IF receipt THEN "receipt" ELSE IF h # None THEN "redeem" ELSE "seed"
            /\ plan' = [plan EXCEPT ![s] = [user |-> u, email |-> address[u], claim |-> h, id |-> HintedId(s, u)]]
            /\ objects' = IF receipt THEN objects ELSE objects \cup {Object(HintedId(s, u), s)}
            /\ UNCHANGED <<form, handoff, response, tombstones, intents>>
        BY <1>8, <1>0 DEF ReadForStart
      <4>2. \A t \in Starts \ {s} : pc'[t] = pc[t] /\ plan'[t] = plan[t]
        BY <1>8, <1>0 DEF ReadForStart
      <4>3. pc'[s] = "seed" /\ Configured => Status(u) # "none"
        BY <1>8, <4>1 DEF ReadForStart, MayStart
      <4>4. plan'[s] = [user |-> u, email |-> address[u], claim |-> h, id |-> HintedId(s, u)]
        BY <1>0, <4>1
      <4>5. /\ pc'[s] \in {"seed", "redeem", "receipt"} /\ (pc'[s] # "seed" => h # None)
            /\ objects' = IF pc'[s] = "receipt" THEN objects ELSE objects \cup {Object(HintedId(s, u), s)}
        BY <4>1
      <4> HIDE DEF receipt
      <4> QED BY <4>1, <4>2, <4>3, <4>4, <4>5 DEF ToStart
    <3> QED BY <2>2, <3>1 DEF CallMoves
  <2> QED BY <2>1, <2>2
<1>9. ASSUME NEW s \in Starts, CommitStart(s), UNCHANGED <<catalog, sweep>> PROVE CallMoves(p)
  <2>1. pc[s] = "seed" /\ Committed(s, "seed")
    BY <1>9 DEF CommitStart, Committed
  <2> QED BY <1>0, <1>02, <2>1 DEF Committed, CallMoves, ToDiscard
<1>10. ASSUME NEW s \in Starts, RedeemHandoff(s), UNCHANGED <<catalog, sweep>> PROVE CallMoves(p)
  <2>1. pc[s] = "redeem" /\ Committed(s, "redeem")
    BY <1>10 DEF RedeemHandoff, Committed
  <2> QED BY <1>0, <1>02, <2>1 DEF Committed, CallMoves, ToDiscard
<1>11. ASSUME NEW s \in Starts, ConsumeSubmitted(s), UNCHANGED <<catalog, sweep>> PROVE CallMoves(p)
  BY <1>11, <1>0, <1>02 DEF ConsumeSubmitted, CallMoves
<1>12. ASSUME NEW x \in Submissions, NEW u \in Users, BeginSubmit(x, u), UNCHANGED <<catalog, sweep>>
       PROVE  CallMoves(p)
  <2>1. CASE p # x
    BY <1>12, <1>0, <1>02, <2>1 DEF BeginSubmit, CallMoves
  <2>2. CASE p = x
    <3>1. ToSubmit(x)
      <4>1. Begun(u) /\ pc' = [pc EXCEPT ![x] = "processing"] /\ plan' = [plan EXCEPT ![x] = u] /\ pc[x] = "idle"
        BY <1>12 DEF BeginSubmit, Begun
      <4> QED BY <1>0, <4>1 DEF ToSubmit
    <3> QED BY <2>2, <3>1 DEF CallMoves
  <2> QED BY <2>1, <2>2
<1>13. ASSUME NEW x \in Submissions, EndSubmit(x), UNCHANGED <<catalog, sweep>> PROVE CallMoves(p)
  BY <1>13, <1>0, <1>02 DEF EndSubmit, CallMoves
<1>14. ASSUME NEW x \in Submissions, FailSubmit(x), UNCHANGED <<catalog, sweep>> PROVE CallMoves(p)
  BY <1>14, <1>0, <1>02 DEF FailSubmit, CallMoves
<1>15. ASSUME NEW d \in Removals, NEW id \in Starts, ReadForRemoval(d, id), UNCHANGED <<catalog, sweep>>
       PROVE  CallMoves(p)
  <2>1. CASE p # d
    BY <1>15, <1>0, <1>02, <2>1 DEF ReadForRemoval, CallMoves
  <2>2. CASE p = d
    <3>1. ToRemove(d)
      BY <1>15, <1>0 DEF ReadForRemoval, ToRemove
    <3> QED BY <2>2, <3>1 DEF CallMoves
  <2> QED BY <2>1, <2>2
<1>16. ASSUME NEW d \in Removals, NEW u \in Users, EraseRows(d, u), UNCHANGED <<catalog, sweep>>
       PROVE  CallMoves(p)
  <2>0. pc[d] = "erase" /\ pc' = [pc EXCEPT ![d] = "drain"] /\ plan' = plan
    BY <1>16 DEF EraseRows
  <2>1. CASE p # d
    BY <1>0, <1>02, <2>0, <2>1 DEF CallMoves
  <2>2. CASE p = d
    <3>1. plan[d] \in Starts
      BY <2>0 DEF HandoffTypes
    <3>2. ToRemove(d)
      BY <1>0, <2>0, <3>1 DEF ToRemove
    <3> QED BY <2>2, <3>2 DEF CallMoves
  <2> QED BY <2>1, <2>2
<1>17. ASSUME NEW d \in Removals, RefuseRemoval(d), UNCHANGED <<catalog, sweep>> PROVE CallMoves(p)
  BY <1>17, <1>0, <1>02 DEF RefuseRemoval, CallMoves
<1>18. ASSUME NEW d \in Removals, Drain(d), UNCHANGED <<catalog, sweep>> PROVE CallMoves(p)
  BY <1>18, <1>0, <1>02 DEF Drain, CallMoves
<1>19. ASSUME NEW m \in Moves, NEW u \in Users, NEW email \in Emails, ReadForMove(m, u, email),
              UNCHANGED <<catalog, sweep>>
       PROVE  CallMoves(p)
  <2>1. CASE p # m
    BY <1>19, <1>0, <1>02, <2>1 DEF ReadForMove, CallMoves
  <2>2. CASE p = m
    <3>1. ToMove(m)
      <4> DEFINE stale == {h \in Handoffs : /\ handoff[h] # None
                                             /\ handoff[h].email = address[u]
                                             /\ handoff[h].response = None}
      <4>1. /\ pc[m] = "idle" /\ pc' = [pc EXCEPT ![m] = "move"]
            /\ plan' = [plan EXCEPT ![m] = [user |-> u, email |-> email, stale |-> stale]]
        BY <1>19 DEF ReadForMove
      <4>2. [user |-> u, email |-> email, stale |-> stale] \in MovePlans
        BY DEF MovePlans
      <4> QED BY <1>0, <4>1, <4>2 DEF ToMove
    <3> QED BY <2>2, <3>1 DEF CallMoves
  <2> QED BY <2>1, <2>2
<1>20. ASSUME NEW m \in Moves, CommitMove(m), UNCHANGED <<catalog, sweep>> PROVE CallMoves(p)
  BY <1>20, <1>0, <1>02 DEF CommitMove, CallMoves
<1>21. ASSUME UNCHANGED vars PROVE CallMoves(p)
  BY <1>21 DEF vars, CallMoves
<1>22. ASSUME NEW s \in Starts, RollBack(s), UNCHANGED <<catalog, sweep>> PROVE CallMoves(p)
  BY <1>22, <1>0, <1>02 DEF RollBack, CallMoves, ToDiscard
<1>23. ASSUME NEW s \in Starts, Discard(s), UNCHANGED <<catalog, sweep>> PROVE CallMoves(p)
  BY <1>23, <1>0, <1>02 DEF Discard, CallMoves, ToLeft
<1>24. ASSUME NEW u \in Users, NEW o \in objects, RemoveReplacedIn(u, o), UNCHANGED <<catalog, sweep>>
       PROVE  CallMoves(p)
  BY <1>24 DEF RemoveReplacedIn, CallMoves
<1> QED
  BY <1>1, <1>2, <1>3, <1>4, <1>5, <1>6, <1>7, <1>8, <1>9, <1>10, <1>11, <1>12, <1>13, <1>14,
     <1>15, <1>16, <1>17, <1>18, <1>19, <1>20, <1>21, <1>22, <1>23, <1>24
     DEF Step, OwnStep, Expire, HandoffNext

\* Sweeps, and lifetimes that pass.
TimeStep ==
  /\ passed \subseteq passed' /\ DOMAIN sweep' = Sweeps
  /\ \A w \in Sweeps : sweep'[w] = sweep[w] \/ sweep'[w] = None \/ sweep'[w].now = passed


\* What a step does to sweeps and lifetimes.
LEMMA TimeMoves ==
    ASSUME DOMAIN sweep = Sweeps, Step
    PROVE  TimeStep
<1> USE DEF Goto, Know, Finish, catalog, store, prefill, vars, TimeStep
<1>0. DOMAIN sweep = Sweeps
  OBVIOUS
<1>1. ASSUME CatalogOwn(Busy), Apart PROVE TimeStep
  BY <1>1, <1>0 DEF Apart
<1>2. ASSUME NEW w \in Sweeps, ReadDue(w), UNCHANGED catalog PROVE TimeStep
  BY <1>2, <1>0 DEF ReadDue
<1>3. ASSUME NEW w \in Sweeps, ExpireDue(w), UNCHANGED catalog PROVE TimeStep
  BY <1>3, <1>0 DEF ExpireDue
<1>4. ASSUME NEW h \in Handoffs, NEW ref \in References, NEW email \in Emails, CreateHandoff(h, ref,
             email), UNCHANGED <<catalog, sweep>>
      PROVE  TimeStep
  BY <1>4, <1>0 DEF CreateHandoff
<1>5. ASSUME NEW h \in Handoffs, ReadForLaunch(h), UNCHANGED <<catalog, sweep>> PROVE TimeStep
  BY <1>5, <1>0 DEF ReadForLaunch
<1>6. ASSUME NEW h \in Handoffs, LaunchHandoff(h), UNCHANGED <<catalog, sweep>> PROVE TimeStep
  BY <1>6, <1>0 DEF LaunchHandoff
<1>7. ASSUME NEW h \in Handoffs, Elapse(h), UNCHANGED <<catalog, sweep>> PROVE TimeStep
  BY <1>7, <1>0 DEF Elapse
<1>8. ASSUME NEW s \in Starts, NEW u \in Users, NEW h \in Handoffs \cup {None}, ReadForStart(s, u, h),
             UNCHANGED <<catalog, sweep>>
      PROVE  TimeStep
  BY <1>8, <1>0 DEF ReadForStart
<1>9. ASSUME NEW s \in Starts, CommitStart(s), UNCHANGED <<catalog, sweep>> PROVE TimeStep
  BY <1>9, <1>0 DEF CommitStart
<1>10. ASSUME NEW s \in Starts, RedeemHandoff(s), UNCHANGED <<catalog, sweep>> PROVE TimeStep
  BY <1>10, <1>0 DEF RedeemHandoff
<1>11. ASSUME NEW s \in Starts, ConsumeSubmitted(s), UNCHANGED <<catalog, sweep>> PROVE TimeStep
  BY <1>11, <1>0 DEF ConsumeSubmitted
<1>12. ASSUME NEW x \in Submissions, NEW u \in Users, BeginSubmit(x, u), UNCHANGED <<catalog, sweep>>
       PROVE  TimeStep
  BY <1>12, <1>0 DEF BeginSubmit
<1>13. ASSUME NEW x \in Submissions, EndSubmit(x), UNCHANGED <<catalog, sweep>> PROVE TimeStep
  BY <1>13, <1>0 DEF EndSubmit
<1>14. ASSUME NEW x \in Submissions, FailSubmit(x), UNCHANGED <<catalog, sweep>> PROVE TimeStep
  BY <1>14, <1>0 DEF FailSubmit
<1>15. ASSUME NEW d \in Removals, NEW id \in Starts, ReadForRemoval(d, id), UNCHANGED <<catalog, sweep>>
       PROVE  TimeStep
  BY <1>15, <1>0 DEF ReadForRemoval
<1>16. ASSUME NEW d \in Removals, NEW u \in Users, EraseRows(d, u), UNCHANGED <<catalog, sweep>>
       PROVE  TimeStep
  BY <1>16, <1>0 DEF EraseRows
<1>17. ASSUME NEW d \in Removals, RefuseRemoval(d), UNCHANGED <<catalog, sweep>> PROVE TimeStep
  BY <1>17, <1>0 DEF RefuseRemoval
<1>18. ASSUME NEW d \in Removals, Drain(d), UNCHANGED <<catalog, sweep>> PROVE TimeStep
  BY <1>18, <1>0 DEF Drain
<1>19. ASSUME NEW m \in Moves, NEW u \in Users, NEW email \in Emails, ReadForMove(m, u, email),
              UNCHANGED <<catalog, sweep>>
       PROVE  TimeStep
  BY <1>19, <1>0 DEF ReadForMove
<1>20. ASSUME NEW m \in Moves, CommitMove(m), UNCHANGED <<catalog, sweep>> PROVE TimeStep
  BY <1>20, <1>0 DEF CommitMove
<1>21. ASSUME UNCHANGED vars PROVE TimeStep
  BY <1>21, <1>0 DEF vars, prefill
<1>22. ASSUME NEW s \in Starts, RollBack(s), UNCHANGED <<catalog, sweep>> PROVE TimeStep
  BY <1>22, <1>0 DEF RollBack
<1>23. ASSUME NEW s \in Starts, Discard(s), UNCHANGED <<catalog, sweep>> PROVE TimeStep
  BY <1>23, <1>0 DEF Discard
<1>24. ASSUME NEW u \in Users, NEW o \in objects, RemoveReplacedIn(u, o), UNCHANGED <<catalog, sweep>>
       PROVE  TimeStep
  BY <1>24, <1>0 DEF RemoveReplacedIn
<1> QED
  BY <1>1, <1>2, <1>3, <1>4, <1>5, <1>6, <1>7, <1>8, <1>9, <1>10, <1>11, <1>12, <1>13, <1>14,
     <1>15, <1>16, <1>17, <1>18, <1>19, <1>20, <1>21, <1>22, <1>23, <1>24
     DEF Step, OwnStep, Expire, HandoffNext

(***************************************************************************)
(* The parts of the invariant                                              *)
(***************************************************************************)

\* Addresses, claims and lifetimes keep their types.
LEMMA SmallTypes ==
    ASSUME HandoffTypes, Step
    PROVE  /\ address' \in [Users -> Emails \cup {None}]
           /\ claim' \in [Handoffs -> {"none", "open", "used"}]
           /\ passed' \subseteq Handoffs \X {"code", "claim"}
           /\ handoff' = [h \in Handoffs |-> handoff'[h]]
<1> USE DEF Goto, Know, Finish, catalog, store, prefill
<1>03. /\ address \in [Users -> Emails \cup {None}]
       /\ claim \in [Handoffs -> {"none", "open", "used"}]
       /\ passed \subseteq Handoffs \X {"code", "claim"}
       /\ handoff = [h \in Handoffs |-> handoff[h]]
  BY DEF HandoffTypes
<1> DEFINE Typed == /\ address' \in [Users -> Emails \cup {None}]
                    /\ claim' \in [Handoffs -> {"none", "open", "used"}]
                    /\ passed' \subseteq Handoffs \X {"code", "claim"}
                    /\ handoff' = [h \in Handoffs |-> handoff'[h]]
<1>1. ASSUME CatalogOwn(Busy), Apart
      PROVE  Typed
  BY <1>1, <1>03 DEF Apart
<1>2. ASSUME NEW w \in Sweeps, ReadDue(w), UNCHANGED catalog
      PROVE  Typed
  BY <1>2, <1>03 DEF ReadDue
<1>3. ASSUME NEW w \in Sweeps, ExpireDue(w), UNCHANGED catalog
      PROVE  Typed
  BY <1>3, <1>03 DEF ExpireDue
<1>4. ASSUME NEW h \in Handoffs, NEW ref \in References, NEW email \in Emails, CreateHandoff(h, ref,
             email), UNCHANGED <<catalog, sweep>>
      PROVE  Typed
  BY <1>4, <1>03 DEF CreateHandoff
<1>5. ASSUME NEW h \in Handoffs, ReadForLaunch(h), UNCHANGED <<catalog, sweep>>
      PROVE  Typed
  BY <1>5, <1>03 DEF ReadForLaunch
<1>6. ASSUME NEW h \in Handoffs, LaunchHandoff(h), UNCHANGED <<catalog, sweep>>
      PROVE  Typed
  BY <1>6, <1>03 DEF LaunchHandoff
<1>7. ASSUME NEW h \in Handoffs, Elapse(h), UNCHANGED <<catalog, sweep>>
      PROVE  Typed
  <2>1. handoff[h] \in HandoffRows
    BY <1>7 DEF Elapse, Waiting, HandoffTypes
  <2>2. <<h, handoff[h].lifetime>> \in Handoffs \X {"code", "claim"}
    BY <2>1 DEF HandoffRows
  <2> QED BY <1>7, <1>03, <2>2 DEF Elapse
<1>8. ASSUME NEW s \in Starts, NEW u \in Users, NEW h \in Handoffs \cup {None}, ReadForStart(s, u, h),
             UNCHANGED <<catalog, sweep>>
      PROVE  Typed
  BY <1>8, <1>03 DEF ReadForStart
<1>9. ASSUME NEW s \in Starts, CommitStart(s), UNCHANGED <<catalog, sweep>>
      PROVE  Typed
  BY <1>9, <1>03 DEF CommitStart
<1>10. ASSUME NEW s \in Starts, RedeemHandoff(s), UNCHANGED <<catalog, sweep>>
       PROVE  Typed
  BY <1>10, <1>03 DEF RedeemHandoff, Consume
<1>11. ASSUME NEW s \in Starts, ConsumeSubmitted(s), UNCHANGED <<catalog, sweep>>
       PROVE  Typed
  BY <1>11, <1>03 DEF ConsumeSubmitted, Consume
<1>12. ASSUME NEW x \in Submissions, NEW u \in Users, BeginSubmit(x, u), UNCHANGED <<catalog, sweep>>
       PROVE  Typed
  BY <1>12, <1>03 DEF BeginSubmit
<1>13. ASSUME NEW x \in Submissions, EndSubmit(x), UNCHANGED <<catalog, sweep>>
       PROVE  Typed
  BY <1>13, <1>03 DEF EndSubmit
<1>14. ASSUME NEW x \in Submissions, FailSubmit(x), UNCHANGED <<catalog, sweep>>
       PROVE  Typed
  BY <1>14, <1>03 DEF FailSubmit
<1>15. ASSUME NEW d \in Removals, NEW id \in Starts, ReadForRemoval(d, id), UNCHANGED <<catalog, sweep>>
       PROVE  Typed
  BY <1>15, <1>03 DEF ReadForRemoval
<1>16. ASSUME NEW d \in Removals, NEW u \in Users, EraseRows(d, u), UNCHANGED <<catalog, sweep>>
       PROVE  Typed
  <2>1. /\ address' = address /\ passed' = passed
        /\ handoff' = [h \in Handoffs |-> handoff'[h]]
        /\ claim' = [h \in Handoffs |-> IF h \in Leading(response[u]) THEN "none" ELSE claim[h]]
    BY <1>16 DEF EraseRows
  <2> QED BY <1>03, <2>1
<1>17. ASSUME NEW d \in Removals, RefuseRemoval(d), UNCHANGED <<catalog, sweep>>
       PROVE  Typed
  BY <1>17, <1>03 DEF RefuseRemoval
<1>18. ASSUME NEW d \in Removals, Drain(d), UNCHANGED <<catalog, sweep>>
       PROVE  Typed
  BY <1>18, <1>03 DEF Drain
<1>19. ASSUME NEW m \in Moves, NEW u \in Users, NEW email \in Emails, ReadForMove(m, u, email),
              UNCHANGED <<catalog, sweep>>
       PROVE  Typed
  BY <1>19, <1>03 DEF ReadForMove
<1>20. ASSUME NEW m \in Moves, CommitMove(m), UNCHANGED <<catalog, sweep>>
       PROVE  Typed
  <2>1. plan[m] \in MovePlans
    BY <1>20 DEF CommitMove, HandoffTypes
  <2>2. plan[m].user \in Users /\ plan[m].email \in Emails
    BY <2>1 DEF MovePlans
  <2> QED BY <1>20, <1>03, <2>2 DEF CommitMove
<1>21. ASSUME UNCHANGED vars
       PROVE  Typed
  BY <1>21, <1>03 DEF vars, prefill
<1>22. ASSUME NEW s \in Starts, RollBack(s), UNCHANGED <<catalog, sweep>>
       PROVE  Typed
  BY <1>22, <1>03 DEF RollBack
<1>23. ASSUME NEW s \in Starts, Discard(s), UNCHANGED <<catalog, sweep>>
       PROVE  Typed
  BY <1>23, <1>03 DEF Discard
<1>24. ASSUME NEW u \in Users, NEW o \in objects, RemoveReplacedIn(u, o), UNCHANGED <<catalog, sweep>>
       PROVE  Typed
  BY <1>24, <1>03 DEF RemoveReplacedIn
<1> QED
  BY <1>1, <1>2, <1>3, <1>4, <1>5, <1>6, <1>7, <1>8, <1>9, <1>10, <1>11, <1>12, <1>13, <1>14,
     <1>15, <1>16, <1>17, <1>18, <1>19, <1>20, <1>21, <1>22, <1>23, <1>24
     DEF Step, OwnStep, Expire, HandoffNext

\* Responses and tombstones keep their types.
LEMMA ResponsesTyped ==
    ASSUME HandoffTypes, ResponseInv, ResponsesStep
    PROVE  /\ response' \in [Users -> Responses \cup {None}]
           /\ tombstones' \subseteq [id : Starts, ref : References \cup {None}]
<1>0. /\ response \in [Users -> Responses \cup {None}]
      /\ tombstones \subseteq [id : Starts, ref : References \cup {None}]
  BY DEF HandoffTypes
<1> DEFINE Typed == /\ response' \in [Users -> Responses \cup {None}]
                    /\ tombstones' \subseteq [id : Starts, ref : References \cup {None}]
<1>1. CASE UNCHANGED <<response, tombstones>>
  BY <1>0, <1>1
<1>2. ASSUME NEW s \in Starts, SeededRow(s) PROVE Typed
  <2>1. plan[s].user \in Users /\ plan[s].id \in Starts /\ Document(s) \in [of : Starts, name : Starts]
    BY <1>2, DocumentType DEF SeededRow, Starting, StartPlans
  <2>2. Seeded(s, response[plan[s].user]) \in Responses
    <3>1. CASE response[plan[s].user] = None
      BY <2>1, <3>1 DEF Seeded, Responses
    <3>2. CASE response[plan[s].user] # None
      <4>1. response[plan[s].user] \in Responses
        BY <1>0, <2>1, <3>2
      <4> QED BY <2>1, <3>2, <4>1 DEF Seeded, Responses
    <3> QED BY <3>1, <3>2
  <2>3. UNCHANGED tombstones /\ response' = [response EXCEPT ![plan[s].user] = Seeded(s, response[plan[s].user])]
    BY <1>2 DEF SeededRow
  <2> QED BY <1>0, <2>1, <2>2, <2>3
<1>3. ASSUME NEW s \in Starts, RedeemedRow(s) PROVE Typed
  <2>1. /\ plan[s].user \in Users /\ plan[s].id \in Starts /\ Document(s) \in [of : Starts, name : Starts]
        /\ plan[s].claim \in Handoffs
    BY <1>3, DocumentType DEF RedeemedRow, Starting, StartPlans, HandoffTypes
  <2>2. handoff[plan[s].claim].ref \in References
    BY <1>3, <2>1 DEF RedeemedRow, HandoffTypes, HandoffRows
  <2>3. Seeded(s, None) \in Responses
    BY <2>1 DEF Seeded, Responses
  <2>4. Prefilled(s, None) \in Responses
    BY <2>1, <2>2, <2>3 DEF Prefilled, Responses
  <2> QED BY <1>0, <1>3, <2>1, <2>4 DEF RedeemedRow
<1>4. ASSUME NEW u \in Users, Begun(u) PROVE Typed
  <2>1. response[u] \in Responses
    BY <1>0, <1>4 DEF Begun, Status
  <2>2. [response[u] EXCEPT !.status = "submitting"] \in Responses
    BY <2>1 DEF Responses
  <2> QED BY <1>0, <1>4, <2>2 DEF Begun
<1>5. ASSUME NEW u \in Users, Erased(u) PROVE Typed
  <2>1. response[u] \in Responses
    BY <1>0, <1>5 DEF Erased
  <2>2. Tombstone(response[u]) \in [id : Starts, ref : References \cup {None}]
    BY <2>1 DEF Tombstone, Responses
  <2> QED BY <1>0, <1>5, <2>2 DEF Erased
<1>6. ASSUME NEW x \in Submissions, Completed(x) PROVE Typed
  <2>1. plan[x] \in Users /\ response[plan[x]] # None
    BY <1>6 DEF Completed, HandoffTypes, ResponseInv, Status
  <2>2. response[plan[x]] \in Responses
    BY <1>0, <2>1
  <2>3. [response[plan[x]] EXCEPT !.status = "submitted", !.draft = None, !.submissions = @ \cup {x}] \in Responses
    BY <2>2 DEF Responses
  <2> QED BY <1>0, <1>6, <2>1, <2>3 DEF Completed
<1>7. ASSUME NEW x \in Submissions, Failed(x) PROVE Typed
  <2>1. plan[x] \in Users /\ response[plan[x]] # None
    BY <1>7 DEF Failed, HandoffTypes, ResponseInv, Status
  <2>2. response[plan[x]] \in Responses
    BY <1>0, <2>1
  <2>3. [response[plan[x]] EXCEPT !.status = "draft"] \in Responses
    BY <2>2 DEF Responses
  <2> QED BY <1>0, <1>7, <2>1, <2>3 DEF Failed
<1> QED BY <1>1, <1>2, <1>3, <1>4, <1>5, <1>6, <1>7 DEF ResponsesStep

\* The row of a handoff keeps its type.
LEMMA HandoffTyped ==
    ASSUME HandoffTypes, RowInv, NEW h \in Handoffs, HandoffMoves(h)
    PROVE  handoff'[h] \in HandoffRows \cup {None}
<1>0. handoff[h] \in HandoffRows \cup {None}
  BY DEF HandoffTypes
<1>1. CASE Created(h)
  BY <1>1 DEF Created, HandoffRows
<1>2. CASE Launched(h)
  <2>1. handoff[h] \in HandoffRows
    BY <1>0, <1>2 DEF Launched, RowInv
  <2> QED BY <1>2, <2>1 DEF Launched, HandoffRows
<1>3. CASE TimedOut(h)
  BY <1>0, <1>3 DEF TimedOut, Waiting, Expired, HandoffRows
<1>4. CASE Consumed(h)
  BY <1>0, <1>4 DEF Consumed, HandoffRows
<1>5. ASSUME NEW u \in Users, Erased(u), h \in Leading(response[u]) PROVE handoff'[h] \in HandoffRows
  <2>1. handoff[h] \in HandoffRows /\ response[u].id \in Starts
    BY <1>0, <1>5 DEF Leading, Erased, HandoffTypes, Responses
  <2> QED BY <1>5, <2>1 DEF Erased, Tombed, HandoffRows
<1> QED BY <1>0, <1>1, <1>2, <1>3, <1>4, <1>5 DEF HandoffMoves, Forgotten

\* What is known of handoffs, Responses and requests keeps its type.
LEMMA HandoffTypesStep ==
    ASSUME HandoffTypes, RowInv, ResponseInv, Step, ResponsesStep, CallsStep, \A h \in Handoffs : HandoffMoves(h)
    PROVE  HandoffTypes'
<1>1. handoff' \in [Handoffs -> HandoffRows \cup {None}]
  BY SmallTypes, HandoffTyped
<1>2. ASSUME NEW s \in Starts, Starting(s)'
      PROVE  plan'[s] \in StartPlans /\ (pc'[s] \in {"redeem", "receipt"} => plan'[s].claim # None)
  <2>1. CallMoves(s)
    BY DEF CallsStep, Calls
  <2>2. CASE pc'[s] = pc[s] /\ plan'[s] = plan[s]
    BY <1>2, <2>2 DEF HandoffTypes, Starting
  <2>3. CASE ToStart(s)
    <3>1. PICK u \in Users, h \in Handoffs \cup {None} :
            /\ plan'[s] = [user |-> u, email |-> address[u], claim |-> h, id |-> HintedId(s, u)]
            /\ pc'[s] # "seed" => h # None
      BY <2>3 DEF ToStart
    <3>2. HintedId(s, u) \in Starts /\ address[u] \in Emails \cup {None}
      BY DEF HintedId, HandoffTypes, Responses
    <3> QED BY <3>1, <3>2 DEF StartPlans
  <2>4. CASE ToDiscard(s)
    BY <2>4 DEF HandoffTypes, Starting, ToDiscard
  <2> QED BY <1>2, <2>1, <2>2, <2>3, <2>4 DEF CallMoves, ToLaunch, ToLeft, ToSubmit, ToRemove, ToMove, Starting
<1>3. ASSUME NEW x \in Submissions, pc'[x] = "processing" PROVE plan'[x] \in Users
  <2>1. CallMoves(x)
    BY DEF CallsStep, Calls
  <2> QED BY <1>3, <2>1 DEF CallMoves, ToLaunch, ToStart, ToDiscard, ToLeft, ToSubmit, ToRemove, ToMove, HandoffTypes
<1>4. ASSUME NEW d \in Removals, pc'[d] \in {"erase", "drain"} PROVE plan'[d] \in Starts
  <2>1. CallMoves(d)
    BY DEF CallsStep, Calls
  <2> QED BY <1>4, <2>1 DEF CallMoves, ToLaunch, ToStart, ToDiscard, ToLeft, ToSubmit, ToRemove, ToMove, HandoffTypes
<1>5. ASSUME NEW m \in Moves, pc'[m] = "move" PROVE plan'[m] \in MovePlans
  <2>1. CallMoves(m)
    BY DEF CallsStep, Calls
  <2> QED BY <1>5, <2>1 DEF CallMoves, ToLaunch, ToStart, ToDiscard, ToLeft, ToSubmit, ToRemove, ToMove, HandoffTypes
<1> QED BY <1>1, <1>2, <1>3, <1>4, <1>5, SmallTypes, ResponsesTyped DEF HandoffTypes, Starting

\* A row that there is is a row, and a row is not nothing.
LEMMA RowOf ==
    ASSUME HandoffTypes
    PROVE  /\ \A h \in Handoffs : handoff[h] # None => handoff[h] \in HandoffRows
           /\ \A u \in Users : response[u] # None => response[u] \in Responses
           /\ \A r \in HandoffRows \cup Responses : r # None
           /\ \A r \in References \cup Starts \cup Handoffs : r # None
<1>1. \A r \in References \cup Starts \cup Handoffs : r # None
  BY HandoffNames, CatalogNames
<1> QED BY <1>1, HandoffNames DEF HandoffTypes

\* What a step keeps of a handoff: its reference, and where it has got to.
LEMMA HandoffFacts ==
    ASSUME HandoffTypes, RowInv, ReferenceInv, NEW h \in Handoffs, HandoffMoves(h), handoff'[h] # None
    PROVE  \/ handoff'[h] = handoff[h]
           \/ /\ Created(h) /\ handoff[h] = None /\ UNCHANGED <<response, tombstones>>
              /\ handoff'[h].status = "pending" /\ handoff'[h].response = None /\ Unused(handoff'[h].ref)
           \/ /\ handoff[h] # None /\ handoff'[h].ref = handoff[h].ref
              /\ \/ /\ handoff[h].status \in {"pending", "reserved"} /\ handoff[h].response = None
                    /\ handoff'[h].status \in {"reserved", "expired"} /\ handoff'[h].response = None
                    /\ UNCHANGED <<response, tombstones>>
                 \/ /\ handoff[h].status = "reserved" /\ handoff'[h].status = "consumed" /\ UNCHANGED tombstones
                 \/ \E u \in Users : /\ Erased(u) /\ h \in Leading(response[u])
                                     /\ handoff'[h].status = "deleted" /\ handoff'[h].response = None
                                     /\ handoff'[h].deleted = response[u].id
<1>0. handoff[h] # None => handoff[h] \in HandoffRows
  BY RowOf
<1>1. CASE Created(h) /\ UNCHANGED <<response, tombstones>>
  <2>1. handoff[h] = None
    BY <1>1 DEF Created, RowInv
  <2> QED BY <1>1, <2>1 DEF Created
<1>2. CASE Launched(h) /\ UNCHANGED <<response, tombstones>>
  <2>1. handoff[h] # None /\ handoff[h].status = "pending" /\ handoff[h].response = None
    BY <1>2 DEF Launched, RowInv, ReferenceInv
  <2>2. /\ handoff'[h].ref = handoff[h].ref /\ handoff'[h].status = "reserved"
        /\ handoff'[h].response = handoff[h].response
    BY <1>0, <1>2, <2>1 DEF Launched, HandoffRows
  <2> QED BY <1>2, <2>1, <2>2
<1>3. CASE TimedOut(h) /\ UNCHANGED <<response, tombstones>>
  <2>1. handoff[h] # None /\ handoff[h].status \in {"pending", "reserved"} /\ handoff[h].response = None
    BY <1>3 DEF TimedOut, Waiting, ReferenceInv
  <2>2. /\ handoff'[h].ref = handoff[h].ref /\ handoff'[h].status = "expired"
        /\ handoff'[h].response = handoff[h].response
    BY <1>0, <1>3, <2>1 DEF TimedOut, Expired, HandoffRows
  <2> QED BY <1>3, <2>1, <2>2
<1>4. CASE Consumed(h) /\ UNCHANGED tombstones
  <2>1. handoff'[h].ref = handoff[h].ref /\ handoff'[h].status = "consumed"
    BY <1>0, <1>4 DEF Consumed, HandoffRows
  <2> QED BY <1>4, <2>1 DEF Consumed
<1>5. ASSUME NEW u \in Users, Erased(u), h \in Leading(response[u])
      PROVE  /\ handoff[h] # None /\ handoff'[h].ref = handoff[h].ref
             /\ handoff'[h].status = "deleted" /\ handoff'[h].response = None
             /\ handoff'[h].deleted = response[u].id
  <2>1. handoff[h] # None /\ handoff'[h] = Tombed(h, response[u].id)
    BY <1>5 DEF Leading, Erased
  <2> QED BY <1>0, <2>1 DEF Tombed, HandoffRows
<1> QED BY <1>1, <1>2, <1>3, <1>4, <1>5 DEF HandoffMoves, Forgotten

\* One handoff is created at a time.
LEMMA CreatedAlone ==
    ASSUME NEW h \in Handoffs, NEW g \in Handoffs, Created(h), g # h
    PROVE  handoff'[g] = handoff[g]
BY DEF Created

\* Sweeps look back, a launch holds its row, and a reference has one handoff.
LEMMA RowStep ==
    ASSUME HandoffTypes, RowInv, ReferenceInv, TimeStep, CallsStep, \A h \in Handoffs : HandoffMoves(h)
    PROVE  RowInv'
<1>1. DOMAIN sweep' = Sweeps /\ \A w \in Sweeps : sweep'[w] # None => sweep'[w].now \subseteq passed'
  BY DEF TimeStep, RowInv
<1>2. ASSUME NEW h \in Handoffs, pc'[h] = "launch"
      PROVE  handoff'[h] # None /\ handoff'[h].status = "pending"
  <2>1. CallMoves(h) /\ HandoffMoves(h)
    BY DEF CallsStep, Calls
  <2>2. CASE pc[h] = "launch"
    <3>1. handoff[h] # None /\ handoff[h].status = "pending"
      BY <2>2 DEF RowInv
    <3>2. ~Launched(h) /\ ~Created(h) /\ ~TimedOut(h) /\ ~Forgotten(h) /\ ~Consumed(h)
      BY <1>2, <2>2, <3>1 DEF Launched, Created, TimedOut, Forgotten, Consumed
    <3>3. \A u \in Users : Erased(u) => h \notin Leading(response[u])
      BY <2>2 DEF Erased
    <3> QED BY <2>1, <3>1, <3>2, <3>3 DEF HandoffMoves
  <2>3. CASE ToLaunch(h)
    BY <2>3 DEF ToLaunch
  <2> QED BY <1>2, <2>1, <2>2, <2>3 DEF CallMoves, ToStart, ToDiscard, ToLeft, ToSubmit, ToRemove, ToMove
<1>3. ASSUME NEW h \in Handoffs, handoff'[h] # None PROVE pc'[h] # "idle"
  <2>1. CallMoves(h) /\ HandoffMoves(h)
    BY DEF CallsStep, Calls
  <2>2. CASE handoff[h] # None
    <3>1. pc[h] # "idle"
      BY <2>2 DEF RowInv
    <3> QED BY <2>1, <3>1 DEF CallMoves, ToLaunch, ToStart, ToDiscard, ToLeft, ToSubmit, ToRemove, ToMove
  <2>3. CASE handoff[h] = None
    <3>1. Created(h)
      BY <1>3, <2>1, <2>3, HandoffFacts
    <3> QED BY <3>1 DEF Created
  <2> QED BY <2>2, <2>3
<1>4. ASSUME NEW h \in Handoffs, NEW g \in Handoffs, handoff'[h] # None, handoff'[g] # None,
             handoff'[h].ref = handoff'[g].ref
      PROVE  h = g
  <2>1. ASSUME NEW k \in Handoffs, handoff'[k] # None
        PROVE  \/ handoff[k] # None /\ handoff'[k].ref = handoff[k].ref
               \/ Created(k) /\ Unused(handoff'[k].ref)
    BY <2>1, HandoffFacts
  <2>2. ASSUME NEW k \in Handoffs, NEW l \in Handoffs, Created(k), Unused(handoff'[k].ref), k # l, handoff'[l] # None
        PROVE  handoff'[l].ref # handoff'[k].ref
    <3>1. handoff'[l] = handoff[l]
      BY <2>2, CreatedAlone
    <3> QED BY <2>2, <3>1 DEF Unused, Of
  <2> QED BY <1>4, <2>1, <2>2 DEF RowInv
<1> QED BY <1>1, <1>2, <1>3, <1>4 DEF RowInv

\* What a step does to the Response of a User.
LEMMA ResponseFacts ==
    ASSUME HandoffTypes, ResponseInv, ResponsesStep, NEW v \in Users, response'[v] # response[v]
    PROVE  \/ \E s \in Starts : /\ SeededRow(s) /\ plan[s].user = v /\ Starting(s)
                               /\ response'[v] = Seeded(s, response[v])
           \/ \E s \in Starts : /\ RedeemedRow(s) /\ plan[s].user = v /\ Starting(s)
                               /\ response'[v] = Prefilled(s, None)
           \/ Begun(v) /\ response'[v] = [response[v] EXCEPT !.status = "submitting"]
           \/ Erased(v) /\ response'[v] = None
           \/ \E x \in Submissions : /\ Completed(x) /\ plan[x] = v
                                    /\ response'[v] = [response[v] EXCEPT !.status = "submitted", !.draft = None,
                                                                          !.submissions = @ \cup {x}]
           \/ \E x \in Submissions : /\ Failed(x) /\ plan[x] = v
                                    /\ response'[v] = [response[v] EXCEPT !.status = "draft"]
<1>0. DOMAIN response = Users
  BY DEF HandoffTypes
<1>1. ASSUME NEW s \in Starts, SeededRow(s)
      PROVE  plan[s].user = v /\ Starting(s) /\ response'[v] = Seeded(s, response[v])
  BY <1>0, <1>1 DEF SeededRow, Starting
<1>2. ASSUME NEW s \in Starts, RedeemedRow(s)
      PROVE  plan[s].user = v /\ Starting(s) /\ response'[v] = Prefilled(s, None)
  BY <1>0, <1>2 DEF RedeemedRow, Starting
<1>3. ASSUME NEW u \in Users, Begun(u)
      PROVE  Begun(v) /\ response'[v] = [response[v] EXCEPT !.status = "submitting"]
  <2>1. u = v
    BY <1>0, <1>3 DEF Begun
  <2> QED BY <1>0, <1>3, <2>1 DEF Begun
<1>4. ASSUME NEW u \in Users, Erased(u) PROVE Erased(v) /\ response'[v] = None
  <2>1. u = v
    BY <1>0, <1>4 DEF Erased
  <2> QED BY <1>0, <1>4, <2>1 DEF Erased
<1>5. ASSUME NEW x \in Submissions, Completed(x)
      PROVE  plan[x] = v /\ response'[v] = [response[v] EXCEPT !.status = "submitted", !.draft = None,
                                                             !.submissions = @ \cup {x}]
  BY <1>0, <1>5 DEF Completed
<1>6. ASSUME NEW x \in Submissions, Failed(x)
      PROVE  plan[x] = v /\ response'[v] = [response[v] EXCEPT !.status = "draft"]
  BY <1>0, <1>6 DEF Failed
<1> QED BY <1>1, <1>2, <1>3, <1>4, <1>5, <1>6 DEF ResponsesStep

\* A Response keeps its id and its reference; a draft loses its values at most.
LEMMA ResponseKept ==
    ASSUME HandoffTypes, ResponseInv, ResponsesStep, NEW v \in Users, response[v] # None, response'[v] # None
    PROVE  /\ response'[v].id = response[v].id /\ response'[v].ref = response[v].ref
           /\ response'[v].prefill \in {response[v].prefill, None}
<1>1. response[v] \in Responses
  BY RowOf
<1>2. ASSUME NEW s \in Starts, response'[v] = Seeded(s, response[v])
      PROVE  /\ response'[v].id = response[v].id /\ response'[v].ref = response[v].ref
             /\ response'[v].prefill \in {response[v].prefill, None}
  BY <1>1, <1>2 DEF Seeded, Responses
<1>3. ASSUME NEW s \in Starts, RedeemedRow(s), plan[s].user = v PROVE FALSE
  BY <1>3 DEF RedeemedRow
<1> DEFINE r == response[v]
           Kept == /\ response'[v].id = r.id /\ response'[v].ref = r.ref /\ response'[v].prefill = r.prefill
<1>4. CASE response'[v] = [r EXCEPT !.status = "submitting"]
  BY <1>1, <1>4 DEF Responses
<1>5. ASSUME NEW x \in Submissions,
             response'[v] = [r EXCEPT !.status = "submitted", !.draft = None, !.submissions = @ \cup {x}]
      PROVE  Kept
  BY <1>1, <1>5 DEF Responses
<1>6. CASE response'[v] = [r EXCEPT !.status = "draft"]
  BY <1>1, <1>6 DEF Responses
<1>7. CASE response'[v] = r
  BY <1>7
<1>8. CASE response'[v] # r
  <2>1. CASE \E s \in Starts : response'[v] = Seeded(s, response[v])
    BY <1>2, <2>1
  <2>2. CASE \E x \in Submissions :
               response'[v] = [r EXCEPT !.status = "submitted", !.draft = None, !.submissions = @ \cup {x}]
    BY <1>5, <2>2
  <2> QED BY <1>3, <1>4, <1>6, <1>8, <2>1, <2>2, ResponseFacts, Zenon
<1> QED BY <1>7, <1>8

\* A Response that is new.
LEMMA ResponseNew ==
    ASSUME HandoffTypes, ResponseInv, ResponsesStep, NEW v \in Users, response[v] = None, response'[v] # None
    PROVE  \E s \in Starts :
             /\ Starting(s) /\ plan[s].user = v /\ response'[v].id = plan[s].id
             /\ \/ SeededRow(s) /\ response'[v].ref = None /\ response'[v].prefill = None
                \/ /\ RedeemedRow(s) /\ response'[v].ref = handoff[plan[s].claim].ref
                   /\ response'[v].prefill = plan[s].claim
<1>1. ASSUME NEW s \in Starts
      PROVE  /\ Seeded(s, None).id = plan[s].id /\ Seeded(s, None).ref = None /\ Seeded(s, None).prefill = None
             /\ Prefilled(s, None).id = plan[s].id /\ Prefilled(s, None).ref = handoff[plan[s].claim].ref
             /\ Prefilled(s, None).prefill = plan[s].claim
  BY DEF Seeded, Prefilled
<1>2. ~Begun(v) /\ ~Erased(v)
  BY DEF Begun, Erased, Status
<1>3. ASSUME NEW x \in Submissions, plan[x] = v PROVE ~Completed(x) /\ ~Failed(x)
  BY <1>3 DEF Completed, Failed, ResponseInv, Status
<1>4. \E s \in Starts : /\ Starting(s) /\ plan[s].user = v
                       /\ \/ SeededRow(s) /\ response'[v] = Seeded(s, None)
                          \/ RedeemedRow(s) /\ response'[v] = Prefilled(s, None)
  BY <1>2, <1>3, ResponseFacts, Zenon
<1> QED BY <1>1, <1>4

\* One Response changes in a step.
LEMMA ResponseAlone ==
    ASSUME HandoffTypes, ResponsesStep, NEW u \in Users, NEW v \in Users, u # v, response'[u] # response[u]
    PROVE  response'[v] = response[v]
<1>0. DOMAIN response = Users
  BY DEF HandoffTypes
<1>1. ASSUME NEW s \in Starts, SeededRow(s) \/ RedeemedRow(s) PROVE response'[v] = response[v]
  BY <1>0, <1>1 DEF SeededRow, RedeemedRow
<1>2. ASSUME NEW w \in Users, Begun(w) \/ Erased(w) PROVE response'[v] = response[v]
  BY <1>0, <1>2 DEF Begun, Erased
<1>3. ASSUME NEW x \in Submissions, Completed(x) \/ Failed(x) PROVE response'[v] = response[v]
  BY <1>0, <1>3 DEF Completed, Failed
<1> QED BY <1>1, <1>2, <1>3 DEF ResponsesStep

\* A submitted Response refers to its submission.
LEMMA CompletedType ==
    ASSUME NEW r \in Responses, NEW x \in Submissions, NEW done,
           done = [r EXCEPT !.status = "submitted", !.draft = None, !.submissions = @ \cup {x}]
    PROVE  done \in Responses /\ done.id = r.id /\ x \in done.submissions
<1>1. /\ r.id \in Starts /\ r.submissions \cup {x} \subseteq Submissions
      /\ DOMAIN r = {"id", "status", "draft", "submissions", "ref", "prefill"}
  BY DEF Responses
<1>2. [r EXCEPT !.status = "submitted", !.draft = None, !.submissions = r.submissions \cup {x}] \in Responses
  BY <1>1 DEF Responses
<1> QED BY <1>1, <1>2

\* A Response keeps its submissions until it is deleted.
LEMMA SubmissionsStay ==
    ASSUME HandoffTypes, ResponseInv, ResponsesStep, NEW v \in Users, response[v] # None
    PROVE  \/ Erased(v)
           \/ response'[v] # None /\ response[v].submissions \subseteq response'[v].submissions
<1> DEFINE r    == response[v]
           Stay == response'[v] # None /\ r.submissions \subseteq response'[v].submissions
<1>1. r \in Responses /\ \A q : q \in Responses => q # None
  BY RowOf
<1>2. ASSUME NEW s \in Starts, plan[s].user = v PROVE ~RedeemedRow(s)
  BY <1>2 DEF RedeemedRow
<1>3. ASSUME NEW s \in Starts, Starting(s), response'[v] = Seeded(s, r) PROVE Stay
  <2>1. Document(s) \in [of : Starts, name : Starts]
    BY <1>3, DocumentType
  <2>2. response'[v] = [r EXCEPT !.status = "draft", !.draft = Document(s), !.prefill = None]
    BY <1>3 DEF Seeded
  <2>3. response'[v] \in Responses /\ response'[v].submissions = r.submissions
    BY <1>1, <2>1, <2>2 DEF Responses
  <2> QED BY <1>1, <2>3
<1>4. ASSUME NEW status \in {"submitting", "draft"}, response'[v] = [r EXCEPT !.status = status] PROVE Stay
  <2>1. response'[v] \in Responses /\ response'[v].submissions = r.submissions
    BY <1>1, <1>4 DEF Responses
  <2> QED BY <1>1, <2>1
<1>5. ASSUME NEW x \in Submissions,
             response'[v] = [r EXCEPT !.status = "submitted", !.draft = None, !.submissions = @ \cup {x}]
      PROVE  Stay
  <2>1. DOMAIN r = {"id", "status", "draft", "submissions", "ref", "prefill"}
    BY <1>1 DEF Responses
  <2>2. response'[v].submissions = r.submissions \cup {x}
    BY <1>5, <2>1
  <2>3. response'[v] \in Responses
    BY <1>1, <1>5, CompletedType
  <2> QED BY <1>1, <2>2, <2>3
<1>6. CASE response'[v] = r
  BY <1>6
<1>7. ASSUME response'[v] # r
      PROVE  \/ \E s \in Starts : Starting(s) /\ response'[v] = Seeded(s, r)
             \/ \E status \in {"submitting", "draft"} : response'[v] = [r EXCEPT !.status = status]
             \/ Erased(v)
             \/ \E x \in Submissions :
                  response'[v] = [r EXCEPT !.status = "submitted", !.draft = None, !.submissions = @ \cup {x}]
  BY <1>2, <1>7, ResponseFacts, Zenon
<1>8. CASE \E s \in Starts : Starting(s) /\ response'[v] = Seeded(s, r)
  BY <1>3, <1>8
<1>9. CASE \E status \in {"submitting", "draft"} : response'[v] = [r EXCEPT !.status = status]
  BY <1>4, <1>9
<1>10. CASE \E x \in Submissions :
              response'[v] = [r EXCEPT !.status = "submitted", !.draft = None, !.submissions = @ \cup {x}]
  BY <1>5, <1>10, Zenon
<1> QED BY <1>6, <1>7, <1>8, <1>9, <1>10, Zenon

\* A start that is on its way was, or has just read.
LEMMA StartFacts ==
    ASSUME CallsStep, NEW s \in Starts, Starting(s)'
    PROVE  (Starting(s) /\ plan'[s] = plan[s]) \/ ToStart(s)
<1>1. CallMoves(s)
  BY DEF CallsStep, Calls
<1> QED BY <1>1 DEF CallMoves, ToLaunch, ToDiscard, ToLeft, ToSubmit, ToRemove, ToMove, Starting

\* The id under which a start has read.
LEMMA HintFacts ==
    ASSUME ResponseInv, NEW s \in Starts, ToStart(s)
    PROVE  \E u \in Users : /\ plan'[s].user = u /\ plan'[s].id = HintedId(s, u) /\ response' = response
                            /\ \/ Has(u, plan'[s].id)
                               \/ response[u] = None /\ plan'[s].id = s
<1>1. PICK u \in Users, h \in Handoffs \cup {None} :
        plan'[s] = [user |-> u, email |-> address[u], claim |-> h, id |-> HintedId(s, u)]
  BY DEF ToStart
<1> QED BY <1>1 DEF HintedId, Has, ToStart

\* The status of a submission under way is that of nobody else's draft.
LEMMA SubmittingStep ==
    ASSUME HandoffTypes, ResponseInv, ResponsesStep, CallsStep,
           NEW x \in Submissions, pc'[x] = "processing"
    PROVE  /\ Status(plan[x])' = "submitting"
           /\ \A y \in Submissions : pc'[y] = "processing" /\ plan'[y] = plan'[x] => x = y
<1>1. \A y \in Submissions : CallMoves(y)
  BY DEF CallsStep, Calls
<1>2. ASSUME NEW y \in Submissions, pc'[y] = "processing"
      PROVE  (pc[y] = "processing" /\ plan'[y] = plan[y]) \/ ToSubmit(y)
  BY <1>1, <1>2 DEF CallMoves, ToLaunch, ToStart, ToDiscard, ToLeft, ToRemove, ToMove
<1>3. CASE ToSubmit(x)
  <2>1. plan'[x] \in Users /\ Begun(plan'[x])
    BY <1>3 DEF ToSubmit
  <2>2. response[plan'[x]] \in Responses /\ response[plan'[x]].status = "draft"
    BY <2>1, RowOf DEF Begun, Status
  <2>3. response'[plan'[x]] = [response[plan'[x]] EXCEPT !.status = "submitting"]
    BY <2>1 DEF Begun, HandoffTypes
  <2>4. response'[plan'[x]] \in Responses /\ response'[plan'[x]].status = "submitting"
    BY <2>2, <2>3 DEF Responses
  <2>5. Status(plan[x])' = "submitting"
    BY <2>4, RowOf DEF Status
  <2>6. ASSUME NEW y \in Submissions, pc'[y] = "processing", plan'[y] = plan'[x], x # y PROVE FALSE
    <3>1. pc[y] = "processing" /\ plan[y] = plan'[x]
      BY <1>3, <2>6 DEF ToSubmit
    <3>2. Status(plan'[x]) = "submitting"
      BY <3>1 DEF ResponseInv
    <3> QED BY <2>1, <3>2 DEF Begun
  <2> QED BY <2>5, <2>6
<1>4. CASE pc[x] = "processing" /\ plan'[x] = plan[x]
  <2> DEFINE u == plan[x]
  <2>1. u \in Users /\ response[u] # None /\ response[u].status = "submitting"
    BY <1>4 DEF HandoffTypes, ResponseInv, Status
  <2>2. ASSUME NEW y \in Submissions, pc[y] = "processing", pc'[y] = "done", plan[y] = u PROVE FALSE
    <3>1. x = y
      BY <1>4, <2>2 DEF ResponseInv
    <3> QED BY <2>2, <3>1
  <2>3. response'[u] = response[u]
    <3>1. ~Begun(u) /\ ~Erased(u)
      BY <2>1 DEF Begun, Erased, Status
    <3>2. ASSUME NEW s \in Starts, plan[s].user = u PROVE ~SeededRow(s) /\ ~RedeemedRow(s)
      BY <2>1, <3>2 DEF SeededRow, RedeemedRow, Status
    <3>3. ASSUME NEW y \in Submissions, plan[y] = u PROVE ~Completed(y) /\ ~Failed(y)
      BY <2>2, <3>3 DEF Completed, Failed
    <3> QED BY <2>1, <3>1, <3>2, <3>3, ResponseFacts, Zenon
  <2>4. Status(plan[x])' = "submitting"
    BY <1>4, <2>1, <2>3 DEF Status
  <2>5. ASSUME NEW y \in Submissions, pc'[y] = "processing", plan'[y] = plan'[x], x # y PROVE FALSE
    <3>1. CASE pc[y] = "processing" /\ plan'[y] = plan[y]
      BY <1>4, <2>5, <3>1 DEF ResponseInv
    <3>2. CASE ToSubmit(y)
      BY <1>4, <2>1, <2>5, <3>2 DEF ToSubmit, Begun, Status
    <3> QED BY <1>2, <2>5, <3>1, <3>2
  <2> QED BY <2>4, <2>5
<1> QED BY <1>2, <1>3, <1>4

\* Ids are one User's, and a draft that was submitted is gone.
LEMMA ResponseStep ==
    ASSUME HandoffTypes, ResponseInv, ResponsesStep, CallsStep
    PROVE  ResponseInv'
<1>1. ASSUME NEW v \in Users, response'[v] # None
      PROVE  \/ response[v] # None /\ response'[v].id = response[v].id
             \/ /\ response[v] = None
                /\ \E s \in Starts : Starting(s) /\ plan[s].user = v /\ response'[v].id = plan[s].id
  BY <1>1, ResponseKept, ResponseNew
<1>2. ASSUME NEW u \in Users, NEW v \in Users, response'[u] # None, response'[v] # None,
             response'[u].id = response'[v].id, response[u] = None, u # v
      PROVE  FALSE
  <2>1. response'[v] = response[v]
    BY <1>2, ResponseAlone
  <2>2. PICK s \in Starts : Starting(s) /\ plan[s].user = u /\ response'[u].id = plan[s].id
    BY <1>1, <1>2
  <2>3. Has(v, plan[s].id)
    BY <1>2, <2>1, <2>2 DEF Has
  <2> QED BY <1>2, <2>2, <2>3 DEF ResponseInv
<1>3. ASSUME NEW u \in Users, NEW v \in Users, response'[u] # None, response'[v] # None,
             response'[u].id = response'[v].id
      PROVE  u = v
  <2>1. CASE response[u] # None /\ response[v] # None
    BY <1>1, <1>3, <2>1 DEF ResponseInv
  <2> QED BY <1>2, <1>3, <2>1
<1>4. ASSUME NEW s \in Starts, NEW v \in Users, Starting(s)', Has(v, plan[s].id)'
      PROVE  plan'[s].user = v
  <2>1. CASE Starting(s) /\ plan'[s] = plan[s]
    <3>1. CASE response[v] # None
      BY <1>1, <1>4, <2>1, <3>1 DEF ResponseInv, Has
    <3>2. CASE response[v] = None
      <4>1. PICK t \in Starts : Starting(t) /\ plan[t].user = v /\ response'[v].id = plan[t].id
        BY <1>1, <1>4, <3>2 DEF Has
      <4>2. plan[t].id = plan[s].id
        BY <1>4, <2>1, <4>1 DEF Has
      <4> QED BY <2>1, <4>1, <4>2 DEF ResponseInv
    <3> QED BY <3>1, <3>2
  <2>2. CASE ToStart(s)
    <3>1. PICK u \in Users : /\ plan'[s].user = u /\ response' = response
                             /\ Has(u, plan'[s].id) \/ (response[u] = None /\ plan'[s].id = s)
      BY <2>2, HintFacts
    <3>2. Has(v, plan'[s].id)
      BY <1>4, <3>1 DEF Has
    <3>3. plan'[s].id # s
      BY <2>2, <3>2 DEF ToStart, ResponseInv
    <3> QED BY <3>1, <3>2, <3>3 DEF Has, ResponseInv
  <2> QED BY <1>4, <2>1, <2>2, StartFacts
<1>5. ASSUME NEW s \in Starts, NEW t \in Starts, ToStart(s), Starting(t)', plan'[s].id = plan'[t].id, s # t
      PROVE  plan'[s].user = plan'[t].user
  <2>1. pc'[t] = pc[t] /\ plan'[t] = plan[t]
    BY <1>5 DEF ToStart
  <2>2. Starting(t)
    BY <1>5, <2>1 DEF Starting
  <2>3. PICK u \in Users : /\ plan'[s].user = u /\ response' = response
                           /\ Has(u, plan'[s].id) \/ (response[u] = None /\ plan'[s].id = s)
    BY <1>5, HintFacts
  <2>4. plan'[s].id # s
    BY <1>5, <2>1, <2>2 DEF ToStart, ResponseInv
  <2>5. Has(u, plan[t].id)
    BY <1>5, <2>1, <2>3, <2>4
  <2> QED BY <2>1, <2>2, <2>3, <2>5 DEF ResponseInv
<1>6. ASSUME NEW s \in Starts, NEW t \in Starts, Starting(s)', Starting(t)', plan'[s].id = plan'[t].id
      PROVE  plan'[s].user = plan'[t].user
  <2>1. CASE s = t
    BY <2>1
  <2>2. CASE Starting(s) /\ plan'[s] = plan[s] /\ Starting(t) /\ plan'[t] = plan[t]
    BY <1>6, <2>2 DEF ResponseInv
  <2>3. CASE ToStart(s) /\ s # t
    BY <1>5, <1>6, <2>3
  <2>4. CASE ToStart(t) /\ s # t
    BY <1>5, <1>6, <2>4
  <2> QED BY <1>6, <2>1, <2>2, <2>3, <2>4, StartFacts
<1>7. ASSUME NEW s \in Starts, pc'[s] = "idle"
      PROVE  /\ \A v \in Users : ~Has(v, s)'
             /\ \A t \in Starts : Starting(t)' => plan'[t].id # s
  <2>1. pc[s] = "idle"
    <3>1. CallMoves(s)
      BY DEF CallsStep, Calls
    <3> QED BY <1>7, <3>1 DEF CallMoves, ToLaunch, ToStart, ToDiscard, ToLeft, ToSubmit, ToRemove, ToMove
  <2>2. /\ \A v \in Users : ~Has(v, s)
        /\ \A t \in Starts : Starting(t) => plan[t].id # s
    BY <2>1 DEF ResponseInv
  <2>3. ASSUME NEW v \in Users, Has(v, s)' PROVE FALSE
    BY <1>1, <2>2, <2>3 DEF Has
  <2>4. ASSUME NEW t \in Starts, Starting(t)' PROVE plan'[t].id # s
    <3>1. CASE ToStart(t)
      <4>1. t # s
        BY <1>7, <3>1 DEF ToStart
      <4> QED BY <2>2, <3>1, <4>1, HintFacts
    <3> QED BY <2>2, <2>4, <3>1, StartFacts
  <2> QED BY <2>3, <2>4
<1>8. ASSUME NEW u \in Users, Status(u)' = "submitted" PROVE response'[u].draft = None
  <2>1. response'[u] # None /\ response'[u].status = "submitted"
    BY <1>8 DEF Status
  <2>2. CASE response'[u] = response[u]
    BY <2>1, <2>2 DEF ResponseInv, Status
  <2>3. response[u] # None => response[u] \in Responses
    BY RowOf
  <2>4. ASSUME NEW s \in Starts PROVE response'[u] # Seeded(s, response[u]) /\ response'[u] # Prefilled(s, None)
    <3>1. Seeded(s, response[u]).status = "draft"
      BY <2>3 DEF Seeded, Responses
    <3>2. Prefilled(s, None).status = "draft"
      BY DEF Prefilled, Seeded
    <3> QED BY <2>1, <3>1, <3>2
  <2>5. CASE Begun(u) /\ response'[u] = [response[u] EXCEPT !.status = "submitting"]
    BY <2>1, <2>3, <2>5 DEF Begun, Status, Responses
  <2>6. ASSUME NEW x \in Submissions, Completed(x) \/ Failed(x), plan[x] = u PROVE response[u] \in Responses
    BY <2>3, <2>6 DEF Completed, Failed, ResponseInv, Status
  <2>7. ASSUME NEW x \in Submissions, Completed(x), plan[x] = u,
               response'[u] = [response[u] EXCEPT !.status = "submitted", !.draft = None, !.submissions = @ \cup {x}]
        PROVE  response'[u].draft = None
    BY <2>6, <2>7 DEF Responses
  <2>8. ASSUME NEW x \in Submissions, Failed(x), plan[x] = u, response'[u] = [response[u] EXCEPT !.status = "draft"]
        PROVE  FALSE
    <3>1. response[u] \in Responses
      BY <2>6, <2>8
    <3> QED BY <2>1, <2>8, <3>1 DEF Responses
  <2> QED BY <2>1, <2>2, <2>4, <2>5, <2>7, <2>8, ResponseFacts, Zenon
<1>9. ASSUME NEW x \in Submissions, pc'[x] = "processing"
      PROVE  /\ Status(plan[x])' = "submitting"
             /\ \A y \in Submissions : pc'[y] = "processing" /\ plan'[y] = plan'[x] => x = y
  BY <1>9, SubmittingStep
<1> QED BY <1>3, <1>4, <1>6, <1>7, <1>8, <1>9 DEF ResponseInv

\* The rows of submissions go on naming the drafts that were replaced.
LEMMA DraftStep ==
    ASSUME HandoffTypes, ResponseInv, DraftInv, ResponsesStep, CallsStep
    PROVE  DraftInv'
<1> DEFINE Drafts == [of : Starts, name : Starts]
<1> SUFFICES ASSUME NEW u \in Users, response'[u] # None
             PROVE  /\ response'[u].status # "submitted" => response'[u].draft # None
                    /\ \A x \in response'[u].submissions : pc'[x] = "done" /\ plan'[x] \in Drafts
  BY DEF DraftInv
<1> DEFINE r    == response[u]
           Goal == /\ response'[u].status # "submitted" => response'[u].draft # None
                   /\ \A x \in response'[u].submissions : pc'[x] = "done" /\ plan'[x] \in Drafts
<1>1. None \notin Drafts
  <2>1. Drafts \subseteq Objects
    BY HandoffNames DEF Objects
  <2> QED BY <2>1, CatalogNames
<1>2. ASSUME NEW x \in Submissions, pc[x] = "done" PROVE pc'[x] = "done" /\ plan'[x] = plan[x]
  <2>1. CallMoves(x) /\ x \notin Handoffs \cup Starts
    BY HandoffNames DEF CallsStep, Calls
  <2> QED BY <1>2, <2>1 DEF CallMoves, ToLaunch, ToStart, ToDiscard, ToLeft, ToSubmit, ToRemove, ToMove
<1>3. ASSUME r # None
      PROVE  /\ r \in Responses /\ (r.status # "submitted" => r.draft # None)
             /\ \A x \in r.submissions : pc'[x] = "done" /\ plan'[x] \in Drafts
  <2>1. r \in Responses
    BY <1>3, RowOf
  <2>2. \A x \in r.submissions : x \in Submissions /\ pc[x] = "done" /\ plan[x] \in Drafts
    BY <1>3, <2>1 DEF DraftInv, Responses
  <2>3. \A x \in r.submissions : pc'[x] = "done" /\ plan'[x] \in Drafts
    BY <1>2, <2>2
  <2>4. r.status # "submitted" => r.draft # None
    BY <1>3 DEF DraftInv
  <2> QED BY <2>1, <2>3, <2>4
<1>4. CASE response'[u] = r
  BY <1>3, <1>4
<1>5. ASSUME NEW s \in Starts, Starting(s), response'[u] = Seeded(s, r) PROVE Goal
  <2>1. Document(s) # None
    BY <1>1, <1>5, DocumentType
  <2>2. CASE r = None
    BY <1>5, <2>1, <2>2 DEF Seeded
  <2>3. CASE r # None
    <3>1. response'[u] = [r EXCEPT !.status = "draft", !.draft = Document(s), !.prefill = None]
      BY <1>5, <2>3 DEF Seeded
    <3>2. response'[u].draft = Document(s) /\ response'[u].submissions = r.submissions
      BY <1>3, <2>3, <3>1 DEF Responses
    <3> QED BY <1>3, <2>1, <2>3, <3>2
  <2> QED BY <2>2, <2>3
<1>6. ASSUME NEW s \in Starts, Starting(s), response'[u] = Prefilled(s, None) PROVE Goal
  <2>1. Document(s) # None
    BY <1>1, <1>6, DocumentType
  <2>2. Prefilled(s, None).draft = Document(s) /\ Prefilled(s, None).submissions = {}
    BY DEF Prefilled, Seeded
  <2> QED BY <1>6, <2>1, <2>2
<1>7. ASSUME NEW status \in {"submitting", "draft"}, r # None, r.status # "submitted",
             response'[u] = [r EXCEPT !.status = status]
      PROVE  Goal
  <2>1. response'[u].draft = r.draft /\ response'[u].submissions = r.submissions
    BY <1>3, <1>7 DEF Responses
  <2> QED BY <1>3, <1>7, <2>1
<1>8. ASSUME NEW x \in Submissions, Completed(x), plan[x] = u,
             response'[u] = [r EXCEPT !.status = "submitted", !.draft = None, !.submissions = @ \cup {x}]
      PROVE  Goal
  <2>1. r # None /\ r.status = "submitting"
    BY <1>8 DEF Completed, ResponseInv, Status
  <2>2. pc'[x] = "done" /\ plan'[x] = r.draft
    BY <1>8 DEF Completed
  <2>3. r.draft \in Drafts
    BY <1>3, <2>1 DEF Responses
  <2>4. response'[u].submissions = r.submissions \cup {x} /\ response'[u].status = "submitted"
    <3>1. DOMAIN r = {"id", "status", "draft", "submissions", "ref", "prefill"}
      BY <1>3, <2>1 DEF Responses
    <3> QED BY <1>8, <3>1
  <2> QED BY <1>3, <2>1, <2>2, <2>3, <2>4
<1>9. ASSUME NEW x \in Submissions, Failed(x), plan[x] = u PROVE r # None /\ r.status # "submitted"
  BY <1>9 DEF Failed, ResponseInv, Status
<1>10. ASSUME Begun(u) PROVE r # None /\ r.status # "submitted"
  BY <1>10 DEF Begun, Status
<1>11. ASSUME response'[u] # r
       PROVE  \/ \E s \in Starts : Starting(s) /\ response'[u] \in {Seeded(s, r), Prefilled(s, None)}
              \/ /\ r # None /\ r.status # "submitted"
                 /\ \E status \in {"submitting", "draft"} : response'[u] = [r EXCEPT !.status = status]
              \/ \E x \in Submissions :
                   /\ Completed(x) /\ plan[x] = u
                   /\ response'[u] = [r EXCEPT !.status = "submitted", !.draft = None, !.submissions = @ \cup {x}]
  BY <1>9, <1>10, <1>11, ResponseFacts, Zenon
<1>12. CASE \E s \in Starts : Starting(s) /\ response'[u] \in {Seeded(s, r), Prefilled(s, None)}
  BY <1>5, <1>6, <1>12
<1>13. CASE /\ r # None /\ r.status # "submitted"
            /\ \E status \in {"submitting", "draft"} : response'[u] = [r EXCEPT !.status = status]
  BY <1>7, <1>13
<1>14. CASE \E x \in Submissions :
              /\ Completed(x) /\ plan[x] = u
              /\ response'[u] = [r EXCEPT !.status = "submitted", !.draft = None, !.submissions = @ \cup {x}]
  BY <1>8, <1>14, Zenon
<1> QED BY <1>4, <1>11, <1>12, <1>13, <1>14, Zenon

\* Tombstones of a step: of what is being erased.
LEMMA TombstoneFacts ==
    ASSUME ResponsesStep, NEW t \in tombstones'
    PROVE  t \in tombstones \/ \E u \in Users : Erased(u) /\ t = Tombstone(response[u])
BY DEF ResponsesStep, SeededRow, RedeemedRow, Begun, Erased, Completed, Failed

\* They stay.
LEMMA TombstonesStay ==
    ASSUME ResponsesStep
    PROVE  tombstones \subseteq tombstones'
BY DEF ResponsesStep, SeededRow, RedeemedRow, Begun, Erased, Completed, Failed

\* What is erased is one Response, and no other changes.
LEMMA ErasedAlone ==
    ASSUME HandoffTypes, NEW u \in Users, Erased(u)
    PROVE  response'[u] = None /\ \A v \in Users \ {u} : response'[v] = response[v]
BY DEF Erased, HandoffTypes

\* A reference has one Response, and none after a deletion.
LEMMA ReferenceStep ==
    ASSUME HandoffTypes, RowInv, ResponseInv, ReferenceInv, ResponsesStep, \A h \in Handoffs : HandoffMoves(h)
    PROVE  ReferenceInv'
<1>1. ASSUME NEW v \in Users, response'[v] # None
      PROVE  \/ response[v] # None /\ response'[v].ref = response[v].ref
             \/ response'[v].ref = None
             \/ /\ response[v] = None /\ UNCHANGED tombstones
                /\ ~Dead(response'[v].ref) /\ ReferenceFree(response'[v].ref)
  <2>1. CASE response[v] # None
    BY <1>1, <2>1, ResponseKept
  <2>2. CASE response[v] = None
    BY <1>1, <2>2, ResponseNew DEF RedeemedRow
  <2> QED BY <2>1, <2>2
<1>2. ASSUME NEW u \in Users, NEW v \in Users, response'[u] # None, response'[v] # None,
             response'[u].ref = response'[v].ref, response[u] = None, u # v
      PROVE  response'[u].ref = None
  <2>1. response'[v] = response[v]
    BY <1>2, ResponseAlone
  <2> QED BY <1>1, <1>2, <2>1 DEF ReferenceFree
<1>3. ASSUME NEW u \in Users, NEW v \in Users, response'[u] # None, response'[v] # None,
             response'[u].ref = response'[v].ref
      PROVE  u = v \/ response'[u].ref = None
  <2>1. CASE response[u] # None /\ response[v] # None
    BY <1>3, <2>1, ResponseKept DEF ReferenceInv
  <2> QED BY <1>2, <1>3, <2>1
<1>4. ASSUME NEW h \in Handoffs, handoff'[h] # None, handoff'[h].status # "consumed"
      PROVE  handoff'[h].response = None
  BY <1>4, HandoffFacts DEF ReferenceInv
<1>5. ASSUME NEW t \in tombstones, t.ref # None
      PROVE  /\ \A u \in Users : response'[u] # None => response'[u].ref # t.ref
             /\ \A h \in Handoffs : handoff'[h] # None /\ handoff'[h].ref = t.ref =>
                  handoff'[h].status = "deleted" /\ handoff'[h].deleted = t.id
             /\ \A k \in tombstones' : k.ref = t.ref => k = t
  <2>1. \A u \in Users : response[u] # None => response[u].ref # t.ref
    BY <1>5 DEF ReferenceInv
  <2>2. Dead(t.ref)
    BY DEF Dead
  <2>3. ASSUME NEW u \in Users, response'[u] # None PROVE response'[u].ref # t.ref
    BY <1>1, <1>5, <2>1, <2>2, <2>3
  <2>4. ASSUME NEW h \in Handoffs, handoff'[h] # None, handoff'[h].ref = t.ref
        PROVE  handoff'[h].status = "deleted" /\ handoff'[h].deleted = t.id
    <3>1. ASSUME handoff[h] # None, handoff[h].ref = t.ref
          PROVE  handoff[h].status = "deleted" /\ handoff[h].deleted = t.id /\ handoff[h].response = None
      <4>1. h \in Of(t.ref)
        BY <3>1 DEF Of
      <4>2. handoff[h].status = "deleted" /\ handoff[h].deleted = t.id
        BY <1>5, <4>1 DEF ReferenceInv
      <4> QED BY <3>1, <4>2 DEF ReferenceInv
    <3>2. CASE handoff'[h] = handoff[h]
      BY <2>4, <3>1, <3>2
    <3>3. ASSUME NEW u \in Users, Erased(u), h \in Leading(response[u]), handoff[h] # None, handoff[h].ref = t.ref
          PROVE  FALSE
      <4>1. handoff[h].response = None /\ response[u] # None /\ response[u].ref # t.ref
        BY <2>1, <3>1, <3>3 DEF Erased
      <4>2. response[u].id # None
        BY <4>1, RowOf DEF Responses
      <4> QED BY <3>3, <4>1, <4>2 DEF Leading
    <3> QED BY <2>2, <2>4, <3>1, <3>2, <3>3, HandoffFacts DEF Unused
  <2>5. ASSUME NEW k \in tombstones', k.ref = t.ref PROVE k = t
    <3>1. CASE k \in tombstones
      BY <1>5, <2>5, <3>1 DEF ReferenceInv
    <3>2. ASSUME NEW u \in Users, Erased(u), k = Tombstone(response[u]) PROVE FALSE
      BY <2>1, <2>5, <3>2 DEF Erased, Tombstone
    <3> QED BY <3>1, <3>2, TombstoneFacts
  <2> QED BY <2>3, <2>4, <2>5
<1>6. ASSUME NEW w \in Users, Erased(w), response[w].ref # None
      PROVE  /\ \A u \in Users : response'[u] # None => response'[u].ref # response[w].ref
             /\ \A h \in Handoffs : handoff'[h] # None /\ handoff'[h].ref = response[w].ref =>
                  handoff'[h].status = "deleted" /\ handoff'[h].deleted = response[w].id
             /\ \A k \in tombstones' : k.ref = response[w].ref => k = Tombstone(response[w])
  <2>1. response[w] # None
    BY <1>6 DEF Erased
  <2>2. ASSUME NEW u \in Users, response'[u] # None PROVE response'[u].ref # response[w].ref
    <3>1. u # w /\ response'[u] = response[u]
      BY <1>6, <2>2, ErasedAlone
    <3> QED BY <1>6, <2>1, <2>2, <3>1 DEF ReferenceInv
  <2>3. ASSUME NEW h \in Handoffs, handoff'[h] # None, handoff'[h].ref = response[w].ref
        PROVE  handoff'[h].status = "deleted" /\ handoff'[h].deleted = response[w].id
    <3>1. CASE h \in Leading(response[w])
      <4>1. handoff[h] \in HandoffRows /\ handoff'[h] = Tombed(h, response[w].id)
        BY <1>6, <3>1, RowOf DEF Erased, Leading
      <4> QED BY <4>1 DEF Tombed, HandoffRows
    <3>2. CASE h \notin Leading(response[w])
      <4>1. handoff'[h] = handoff[h]
        BY <1>6, <3>2 DEF Erased
      <4> QED BY <2>3, <3>2, <4>1 DEF Leading
    <3> QED BY <3>1, <3>2
  <2>4. ASSUME NEW k \in tombstones, k.ref = response[w].ref PROVE FALSE
    BY <1>6, <2>1, <2>4 DEF ReferenceInv
  <2>5. tombstones' = tombstones \cup {Tombstone(response[w])}
    BY <1>6 DEF Erased
  <2> QED BY <2>2, <2>3, <2>4, <2>5
<1>7. ASSUME NEW t \in tombstones', t.ref # None
      PROVE  /\ \A u \in Users : response'[u] # None => response'[u].ref # t.ref
             /\ \A h \in Handoffs : handoff'[h] # None /\ handoff'[h].ref = t.ref =>
                  handoff'[h].status = "deleted" /\ handoff'[h].deleted = t.id
             /\ \A k \in tombstones' : k.ref = t.ref => k = t
  <2>1. CASE t \in tombstones
    BY <1>5, <1>7, <2>1
  <2>2. ASSUME NEW w \in Users, Erased(w), t = Tombstone(response[w])
        PROVE  /\ \A u \in Users : response'[u] # None => response'[u].ref # t.ref
               /\ \A h \in Handoffs : handoff'[h] # None /\ handoff'[h].ref = t.ref =>
                    handoff'[h].status = "deleted" /\ handoff'[h].deleted = t.id
               /\ \A k \in tombstones' : k.ref = t.ref => k = t
    <3>1. t.ref = response[w].ref /\ t.id = response[w].id
      BY <2>2 DEF Tombstone
    <3> QED BY <1>6, <1>7, <2>2, <3>1
  <2> QED BY <2>1, <2>2, TombstoneFacts
<1>8. \A ref, h : h \in Of(ref)' <=> h \in Handoffs /\ handoff'[h] # None /\ handoff'[h].ref = ref
  BY DEF Of
<1> QED BY <1>3, <1>4, <1>7, <1>8 DEF ReferenceInv

\* A draft's values stay those of the handoff it consumed.
LEMMA ValuesStep ==
    ASSUME HandoffTypes, RowInv, ResponseInv, ReferenceInv, ValuesInv, ResponsesStep, CallsStep,
           \A h \in Handoffs : HandoffMoves(h)
    PROVE  ValuesInv'
<1> SUFFICES ASSUME NEW u \in Users, response'[u] # None, response'[u].prefill # None
             PROVE  LET h == response'[u].prefill IN
                    /\ pc'[h] # "idle"
                    /\ handoff'[h] # None =>
                         /\ handoff'[h].status = "consumed"
                         /\ handoff'[h].response = response'[u].id /\ handoff'[h].ref = response'[u].ref
  BY DEF ValuesInv
<1>1. ASSUME NEW h \in Handoffs, pc[h] # "idle" PROVE pc'[h] # "idle"
  <2>1. CallMoves(h)
    BY DEF CallsStep, Calls
  <2> QED BY <1>1, <2>1 DEF CallMoves, ToLaunch, ToStart, ToDiscard, ToLeft, ToSubmit, ToRemove, ToMove
<1>2. CASE response[u] = None
  <2>1. PICK s \in Starts : /\ RedeemedRow(s) /\ Starting(s) /\ response'[u].id = plan[s].id
                            /\ response'[u].ref = handoff[plan[s].claim].ref
                            /\ response'[u].prefill = plan[s].claim
    BY <1>2, ResponseNew
  <2> DEFINE h == plan[s].claim
  <2>2. h \in Handoffs
    BY <2>1, DocumentType DEF RedeemedRow, StartPlans, HandoffTypes
  <2>3. handoff[h] # None /\ handoff[h] \in HandoffRows
    BY <2>1, <2>2, RowOf DEF RedeemedRow
  <2>4. pc'[h] # "idle"
    BY <1>1, <2>2, <2>3 DEF RowInv
  <2>5. handoff'[h] = [handoff[h] EXCEPT !.status = "consumed", !.response = plan[s].id]
    BY <2>1, <2>2 DEF RedeemedRow, HandoffTypes
  <2>6. handoff'[h].status = "consumed" /\ handoff'[h].response = plan[s].id /\ handoff'[h].ref = handoff[h].ref
    BY <2>3, <2>5 DEF HandoffRows
  <2> QED BY <2>1, <2>4, <2>6
<1>3. CASE response[u] # None
  <2> DEFINE h == response[u].prefill
  <2>1. /\ response'[u].id = response[u].id /\ response'[u].ref = response[u].ref
        /\ response'[u].prefill = h /\ h # None
    BY <1>3, ResponseKept
  <2>2. h \in Handoffs /\ response[u] \in Responses
    BY <1>3, <2>1, RowOf DEF Responses
  <2>3. pc[h] # "idle" /\ (handoff[h] # None => /\ handoff[h].status = "consumed"
                                                /\ handoff[h].response = response[u].id
                                                /\ handoff[h].ref = response[u].ref)
    BY <1>3, <2>1 DEF ValuesInv
  <2>4. ASSUME NEW v \in Users, Erased(v), h \in Leading(response[v]) PROVE FALSE
    <3>1. handoff[h] # None /\ handoff[h] \in HandoffRows /\ response[v] # None /\ response[v] \in Responses
      BY <2>2, <2>4, RowOf DEF Leading, Erased
    <3>2. response[v].id = response[u].id \/ response[v].ref = response[u].ref
      BY <2>3, <2>4, <3>1 DEF Leading
    <3>3. response[u].ref # None
      BY <2>3, <3>1, RowOf DEF HandoffRows
    <3>4. u = v
      BY <1>3, <3>1, <3>2, <3>3 DEF ResponseInv, ReferenceInv
    <3> QED BY <2>4, <3>4, ErasedAlone
  <2>5. ASSUME handoff'[h] # None PROVE handoff'[h] = handoff[h] /\ handoff[h] # None
    <3>1. ~Created(h)
      BY <2>3 DEF Created
    <3> QED BY <2>2, <2>3, <2>4, <2>5, <3>1, HandoffFacts
  <2> QED BY <1>1, <2>1, <2>2, <2>3, <2>5
<1> QED BY <1>2, <1>3

\* The prefill configuration of the Form does not change.
LEMMA ConfiguredStays ==
    ASSUME CatalogInv, NEW busy, CatalogStep(busy)
    PROVE  Configured' <=> Configured
<1>1. Form \in Forms \ Creations
  BY HandoffNames
<1> QED BY <1>1, StandingStays DEF Configured, Published

\* A start without a claim renews a Response there was, so a Response has a reference.
LEMMA SeedStep ==
    ASSUME HandoffTypes, ResponseInv, SeedInv, ResponsesStep, CallsStep, Configured' <=> Configured
    PROVE  SeedInv'
<1>1. tombstones \subseteq tombstones'
  BY TombstonesStay
<1>2. ASSUME NEW u \in Users, response[u] # None, response'[u] = None
      PROVE  \E t \in tombstones' : t.id = response[u].id
  <2>1. Erased(u)
    BY <1>2, SubmissionsStay
  <2>2. Tombstone(response[u]) \in tombstones' /\ Tombstone(response[u]).id = response[u].id
    BY <2>1 DEF Erased, Tombstone
  <2> QED BY <2>2
<1>3. ASSUME NEW u \in Users, response[u] # None
      PROVE  \/ response'[u] # None /\ response'[u].id = response[u].id
             \/ \E t \in tombstones' : t.id = response[u].id
  BY <1>2, <1>3, ResponseKept
<1>4. ASSUME NEW s \in Starts, pc'[s] = "seed", Configured
      PROVE  Has(plan[s].user, plan[s].id)' \/ Deleted(plan[s].id)'
  <2>1. CASE ToStart(s)
    <3>1. PICK u \in Users, h \in Handoffs \cup {None} :
            /\ plan'[s] = [user |-> u, email |-> address[u], claim |-> h, id |-> HintedId(s, u)]
            /\ pc'[s] = "seed" /\ Configured => Status(u) # "none"
      BY <2>1 DEF ToStart
    <3>2. plan'[s].user = u /\ plan'[s].id = HintedId(s, u) /\ response' = response
      BY <2>1, <3>1 DEF ToStart
    <3> QED BY <1>4, <3>1, <3>2 DEF HintedId, Has, Status
  <2>2. CASE Starting(s) /\ plan'[s] = plan[s] /\ ~ToStart(s)
    <3>1. CallMoves(s)
      BY DEF CallsStep, Calls
    <3>2. pc[s] = "seed"
      BY <1>4, <2>2, <3>1 DEF CallMoves, ToLaunch, ToDiscard, ToLeft, ToSubmit, ToRemove, ToMove
    <3>3. plan[s].user \in Users
      BY <2>2, DocumentType DEF StartPlans
    <3>4. Has(plan[s].user, plan[s].id) \/ Deleted(plan[s].id)
      BY <1>4, <3>2 DEF SeedInv
    <3>5. \/ response'[plan[s].user] # None /\ response'[plan[s].user].id = plan[s].id
          \/ \E t \in tombstones' : t.id = plan[s].id
      BY <1>1, <1>3, <3>3, <3>4 DEF Has, Deleted
    <3> QED BY <2>2, <3>5 DEF Has, Deleted
  <2> QED BY <1>4, <2>1, <2>2, StartFacts DEF Starting
<1>5. ASSUME NEW u \in Users, response'[u] # None, Configured, ~Deleted(response[u].id)' PROVE response'[u].ref # None
  <2>1. CASE response[u] # None
    <3>1. response'[u].id = response[u].id /\ response'[u].ref = response[u].ref
      BY <1>5, <2>1, ResponseKept
    <3>2. ~Deleted(response[u].id)
      BY <1>1, <1>5, <3>1 DEF Deleted
    <3> QED BY <1>5, <2>1, <3>1, <3>2 DEF SeedInv
  <2>2. CASE response[u] = None
    <3>1. PICK s \in Starts :
            /\ Starting(s) /\ plan[s].user = u /\ response'[u].id = plan[s].id
            /\ \/ SeededRow(s) /\ response'[u].ref = None
               \/ RedeemedRow(s) /\ response'[u].ref = handoff[plan[s].claim].ref
      BY <1>5, <2>2, ResponseNew
    <3>2. CASE SeededRow(s)
      <4>1. ~Has(u, plan[s].id)
        BY <2>2 DEF Has
      <4>2. Deleted(plan[s].id)
        BY <1>5, <3>1, <3>2, <4>1 DEF SeedInv, SeededRow
      <4> QED BY <1>1, <1>5, <3>1, <4>2 DEF Deleted
    <3>3. CASE RedeemedRow(s) /\ response'[u].ref = handoff[plan[s].claim].ref
      <4>1. plan[s].claim \in Handoffs /\ handoff[plan[s].claim] \in HandoffRows
        BY <3>1, <3>3, DocumentType, RowOf DEF RedeemedRow, StartPlans, HandoffTypes
      <4> QED BY <3>3, <4>1, RowOf DEF HandoffRows
    <3> QED BY <3>1, <3>2, <3>3
  <2> QED BY <2>1, <2>2
<1> QED BY <1>4, <1>5 DEF SeedInv

\* Who stores an object: a request of the catalog, a start that reads, a submission that completes.
StoredBy(o) ==
  \/ o.name \in Creations \cup Saves
  \/ o.name \in Submissions
  \/ \E s \in Starts : ToStart(s) /\ pc'[s] \in {"seed", "redeem"} /\ o = Object(plan'[s].id, s)


\* Who has stored an object that is new.
LEMMA StoredByWhom ==
    ASSUME CatalogInv, HandoffTypes, CallsStep, Step, NEW o \in objects' \ objects
    PROVE  StoredBy(o)
<1> USE DEF Goto, Know, Finish, catalog, store, prefill
<1>0. /\ DOMAIN pc = Clients /\ DOMAIN plan = Clients
      /\ Handoffs \cup Starts \cup Submissions \cup Removals \cup Moves \subseteq Clients
      /\ Catalogers \cap (Handoffs \cup Starts \cup Submissions \cup Removals \cup Moves) = {}
      /\ \A c \in Creations \cup Saves \cup Configurations \cup Reapers : c \in Catalogers
  BY HandoffNames DEF CatalogInv, CatalogTypes, Catalogers
<1>04. o \in objects' /\ o \notin objects
  OBVIOUS
<1>1. ASSUME CatalogOwn(Busy), Apart PROVE StoredBy(o)
  <2>1. StoreMove
    BY <1>1, StoreMoves DEF CatalogInv
  <2> QED BY <1>04, <2>1, StoredByRequest DEF StoredBy
<1>2. ASSUME NEW w \in Sweeps, ReadDue(w), UNCHANGED catalog PROVE StoredBy(o)
  BY <1>2, <1>04 DEF ReadDue
<1>3. ASSUME NEW w \in Sweeps, ExpireDue(w), UNCHANGED catalog PROVE StoredBy(o)
  BY <1>3, <1>04 DEF ExpireDue
<1>4. ASSUME NEW h \in Handoffs, NEW ref \in References, NEW email \in Emails, CreateHandoff(h, ref,
             email), UNCHANGED <<catalog, sweep>>
      PROVE  StoredBy(o)
  BY <1>4, <1>04 DEF CreateHandoff
<1>5. ASSUME NEW h \in Handoffs, ReadForLaunch(h), UNCHANGED <<catalog, sweep>> PROVE StoredBy(o)
  BY <1>5, <1>04 DEF ReadForLaunch
<1>6. ASSUME NEW h \in Handoffs, LaunchHandoff(h), UNCHANGED <<catalog, sweep>> PROVE StoredBy(o)
  BY <1>6, <1>04 DEF LaunchHandoff
<1>7. ASSUME NEW h \in Handoffs, Elapse(h), UNCHANGED <<catalog, sweep>> PROVE StoredBy(o)
  BY <1>7, <1>04 DEF Elapse
<1>8. ASSUME NEW s \in Starts, NEW u \in Users, NEW h \in Handoffs \cup {None}, ReadForStart(s, u, h),
             UNCHANGED <<catalog, sweep>>
      PROVE  StoredBy(o)
  <2>1. CallMoves(s) /\ pc[s] = "idle"
    BY <1>8 DEF CallsStep, Calls, ReadForStart
  <2>2. pc'[s] \in {"seed", "redeem", "receipt"}
    BY <1>8, <1>0 DEF ReadForStart
  <2>3. ToStart(s)
    BY <2>1, <2>2 DEF CallMoves, ToLaunch, ToDiscard, ToLeft, ToSubmit, ToRemove, ToMove
  <2>4. PICK v \in Users, g \in Handoffs \cup {None} :
          /\ plan'[s] = [user |-> v, email |-> address[v], claim |-> g, id |-> HintedId(s, v)]
          /\ objects' = IF pc'[s] = "receipt" THEN objects ELSE objects \cup {Object(HintedId(s, v), s)}
    BY <2>3 DEF ToStart
  <2> QED BY <1>04, <2>2, <2>3, <2>4 DEF StoredBy
<1>9. ASSUME NEW s \in Starts, CommitStart(s), UNCHANGED <<catalog, sweep>> PROVE StoredBy(o)
  BY <1>9, <1>04 DEF CommitStart
<1>10. ASSUME NEW s \in Starts, RedeemHandoff(s), UNCHANGED <<catalog, sweep>> PROVE StoredBy(o)
  BY <1>10, <1>04 DEF RedeemHandoff
<1>11. ASSUME NEW s \in Starts, ConsumeSubmitted(s), UNCHANGED <<catalog, sweep>> PROVE StoredBy(o)
  BY <1>11, <1>04 DEF ConsumeSubmitted
<1>12. ASSUME NEW x \in Submissions, NEW u \in Users, BeginSubmit(x, u), UNCHANGED <<catalog, sweep>>
       PROVE  StoredBy(o)
  BY <1>12, <1>04 DEF BeginSubmit
<1>13. ASSUME NEW x \in Submissions, EndSubmit(x), UNCHANGED <<catalog, sweep>> PROVE StoredBy(o)
  BY <1>13, <1>04 DEF EndSubmit, StoredBy, Object
<1>14. ASSUME NEW x \in Submissions, FailSubmit(x), UNCHANGED <<catalog, sweep>> PROVE StoredBy(o)
  BY <1>14, <1>04 DEF FailSubmit
<1>15. ASSUME NEW d \in Removals, NEW id \in Starts, ReadForRemoval(d, id), UNCHANGED <<catalog, sweep>>
       PROVE  StoredBy(o)
  BY <1>15, <1>04 DEF ReadForRemoval
<1>16. ASSUME NEW d \in Removals, NEW u \in Users, EraseRows(d, u), UNCHANGED <<catalog, sweep>>
       PROVE  StoredBy(o)
  BY <1>16, <1>04 DEF EraseRows
<1>17. ASSUME NEW d \in Removals, RefuseRemoval(d), UNCHANGED <<catalog, sweep>> PROVE StoredBy(o)
  BY <1>17, <1>04 DEF RefuseRemoval
<1>18. ASSUME NEW d \in Removals, Drain(d), UNCHANGED <<catalog, sweep>> PROVE StoredBy(o)
  BY <1>18, <1>04 DEF Drain
<1>19. ASSUME NEW m \in Moves, NEW u \in Users, NEW email \in Emails, ReadForMove(m, u, email),
              UNCHANGED <<catalog, sweep>>
       PROVE  StoredBy(o)
  BY <1>19, <1>04 DEF ReadForMove
<1>20. ASSUME NEW m \in Moves, CommitMove(m), UNCHANGED <<catalog, sweep>> PROVE StoredBy(o)
  BY <1>20, <1>04 DEF CommitMove
<1>21. ASSUME UNCHANGED vars PROVE StoredBy(o)
  BY <1>21, <1>04 DEF vars, prefill
<1>22. ASSUME NEW s \in Starts, RollBack(s), UNCHANGED <<catalog, sweep>> PROVE StoredBy(o)
  BY <1>22, <1>04 DEF RollBack
<1>23. ASSUME NEW s \in Starts, Discard(s), UNCHANGED <<catalog, sweep>> PROVE StoredBy(o)
  BY <1>23, <1>04 DEF Discard
<1>24. ASSUME NEW u \in Users, NEW q \in objects, RemoveReplacedIn(u, q), UNCHANGED <<catalog, sweep>>
       PROVE  StoredBy(o)
  BY <1>24, <1>04 DEF RemoveReplacedIn
<1> QED
  BY <1>1, <1>2, <1>3, <1>4, <1>5, <1>6, <1>7, <1>8, <1>9, <1>10, <1>11, <1>12, <1>13, <1>14,
     <1>15, <1>16, <1>17, <1>18, <1>19, <1>20, <1>21, <1>22, <1>23, <1>24
     DEF Step, OwnStep, Expire, HandoffNext

\* A start in flight has stored one object.
LEMMA FlightStep ==
    ASSUME CatalogInv, HandoffTypes, FlightInv, CallsStep, Step
    PROVE  FlightInv'
<1>0. \A s \in Starts : s \notin Creations \cup Saves \cup Submissions
  BY HandoffNames DEF Catalogers
<1>1. ASSUME NEW s \in Starts PROVE CallMoves(s)
  BY DEF CallsStep, Calls
<1>2. ASSUME NEW o \in objects', InFlight(o)' PROVE o = Document(o.name)'
  <2> DEFINE s == o.name
  <2>1. s \in Starts /\ pc'[s] \in {"seed", "redeem", "discard"}
    BY <1>2 DEF InFlight
  <2>2. CASE pc[s] \in {"seed", "redeem", "discard"} /\ plan'[s] = plan[s]
    <3>1. CASE o \in objects
      BY <2>1, <2>2, <3>1 DEF FlightInv, InFlight, Document
    <3>2. CASE o \notin objects
      <4>1. StoredBy(o)
        BY <3>2, StoredByWhom
      <4>2. PICK t \in Starts : ToStart(t) /\ o = Object(plan'[t].id, t)
        BY <1>0, <2>1, <4>1 DEF StoredBy
      <4> QED BY <2>1, <2>2, <4>2 DEF ToStart, Object
    <3> QED BY <3>1, <3>2
  <2>3. CASE ToStart(s)
    <3>1. o \notin objects
      BY <2>1, <2>3 DEF FlightInv, ToStart
    <3>2. StoredBy(o)
      BY <3>1, StoredByWhom
    <3>3. PICK t \in Starts : o = Object(plan'[t].id, t)
      BY <1>0, <2>1, <3>2 DEF StoredBy
    <3> QED BY <3>3 DEF Object, Document
  <2> QED BY <1>1, <2>1, <2>2, <2>3 DEF CallMoves, ToLaunch, ToDiscard, ToLeft, ToSubmit, ToRemove, ToMove
<1>3. ASSUME NEW o \in objects', NEW s \in Starts, pc'[s] = "idle" PROVE o.name # s
  <2>1. pc[s] = "idle"
    BY <1>1, <1>3 DEF CallMoves, ToLaunch, ToStart, ToDiscard, ToLeft, ToSubmit, ToRemove, ToMove
  <2>2. CASE o \in objects
    BY <2>1, <2>2 DEF FlightInv
  <2>3. CASE o \notin objects
    <3>1. StoredBy(o)
      BY <2>3, StoredByWhom
    <3> QED BY <1>0, <1>3, <3>1 DEF StoredBy, ToStart, Object
  <2> QED BY <2>2, <2>3
<1> QED BY <1>2, <1>3 DEF FlightInv

\* A document of a Response stays its own, but for the draft of a submission that completes,
\* and for what a deletion leaves an intent for.
LEMMA KeysStay ==
    ASSUME HandoffTypes, ResponseInv, ResponsesStep, NEW u \in Users, response[u] # None,
           NEW o \in Keys(response[u])
    PROVE  \/ response'[u] # None /\ o \in Keys(response'[u])
           \/ o \in intents'
           \/ \E x \in Submissions : Completed(x) /\ plan[x] = u /\ o = response[u].draft
<1> DEFINE r == response[u]
           Goal == \/ response'[u] # None /\ o \in Keys(response'[u])
                   \/ o \in intents'
                   \/ \E x \in Submissions : Completed(x) /\ plan[x] = u /\ o = r.draft
<1>1. r \in Responses
  BY RowOf
<1>2. \A q : q \in Responses => q # None
  BY RowOf
<1>3. ASSUME NEW s \in Starts, SeededRow(s), plan[s].user = u, Starting(s), response'[u] = Seeded(s, r) PROVE Goal
  <2>1. r.draft = None
    <3>1. CASE r.status = "submitted"
      BY <3>1 DEF ResponseInv, Status
    <3>2. Status(u) \in {"none", "submitted"}
      BY <1>3 DEF SeededRow
    <3> QED BY <1>1, <3>1, <3>2 DEF Status, Responses
  <2>2. Document(s) \in [of : Starts, name : Starts]
    BY <1>3, DocumentType
  <2>3. response'[u] = [r EXCEPT !.status = "draft", !.draft = Document(s), !.prefill = None]
    BY <1>3 DEF Seeded
  <2>4. response'[u] \in Responses /\ response'[u].id = r.id /\ response'[u].submissions = r.submissions
    BY <1>1, <2>2, <2>3 DEF Responses
  <2> QED BY <1>2, <2>1, <2>4 DEF Keys
<1>4. CASE response'[u] = [r EXCEPT !.status = "submitting"]
  <2>1. /\ response'[u] \in Responses /\ response'[u].id = r.id /\ response'[u].draft = r.draft
        /\ response'[u].submissions = r.submissions
    BY <1>1, <1>4 DEF Responses
  <2> QED BY <1>2, <2>1 DEF Keys
<1>5. CASE response'[u] = [r EXCEPT !.status = "draft"]
  <2>1. /\ response'[u] \in Responses /\ response'[u].id = r.id /\ response'[u].draft = r.draft
        /\ response'[u].submissions = r.submissions
    BY <1>1, <1>5 DEF Responses
  <2> QED BY <1>2, <2>1 DEF Keys
<1>6. CASE Erased(u)
  BY <1>6 DEF Erased, Candidates
<1>7. ASSUME NEW x \in Submissions, Completed(x), plan[x] = u,
             response'[u] = [r EXCEPT !.status = "submitted", !.draft = None, !.submissions = @ \cup {x}]
      PROVE  Goal
  <2>1. /\ r.id \in Starts /\ r.submissions \cup {x} \subseteq Submissions
        /\ DOMAIN r = {"id", "status", "draft", "submissions", "ref", "prefill"}
    BY <1>1 DEF Responses
  <2>2. response'[u].id = r.id /\ response'[u].submissions = r.submissions \cup {x}
    BY <1>7, <2>1
  <2>3. response'[u] # None
    <3>1. [r EXCEPT !.status = "submitted", !.draft = None, !.submissions = r.submissions \cup {x}] \in Responses
      BY <1>1, <2>1 DEF Responses
    <3> QED BY <1>2, <1>7, <3>1
  <2>4. o \in Keys(response'[u]) \/ o = r.draft
    BY <2>2 DEF Keys
  <2> QED BY <1>7, <2>3, <2>4
<1>8. CASE response'[u] = response[u]
  BY <1>8
<1>9. ASSUME NEW s \in Starts, RedeemedRow(s), plan[s].user = u PROVE FALSE
  BY <1>9 DEF RedeemedRow
<1>10. ASSUME response'[u] # response[u]
       PROVE  \/ \E s \in Starts : SeededRow(s) /\ plan[s].user = u /\ Starting(s) /\ response'[u] = Seeded(s, r)
              \/ response'[u] = [r EXCEPT !.status = "submitting"]
              \/ Erased(u)
              \/ \E x \in Submissions :
                   /\ Completed(x) /\ plan[x] = u
                   /\ response'[u] = [r EXCEPT !.status = "submitted", !.draft = None, !.submissions = @ \cup {x}]
              \/ response'[u] = [r EXCEPT !.status = "draft"]
  BY <1>9, <1>10, ResponseFacts, Zenon
<1>11. CASE \E s \in Starts : SeededRow(s) /\ plan[s].user = u /\ Starting(s) /\ response'[u] = Seeded(s, r)
  BY <1>3, <1>11
<1>12. CASE \E x \in Submissions :
              /\ Completed(x) /\ plan[x] = u
              /\ response'[u] = [r EXCEPT !.status = "submitted", !.draft = None, !.submissions = @ \cup {x}]
  <2>1. PICK x \in Submissions :
          /\ Completed(x) /\ plan[x] = u
          /\ response'[u] = [r EXCEPT !.status = "submitted", !.draft = None, !.submissions = @ \cup {x}]
    BY <1>12
  <2> QED BY <1>7, <2>1, Zenon
<1> QED BY <1>4, <1>5, <1>6, <1>8, <1>10, <1>11, <1>12, Zenon

\* A document a submission replaced.
Recalled(o) == \E u \in Users : response[u] # None /\ o \in ReplacedIn(response[u])

\* It stays known to the row of the submission, until the deletion leaves an intent for it.
LEMMA RecalledStays ==
    ASSUME HandoffTypes, ResponseInv, DraftInv, ResponsesStep, CallsStep, NEW o, Recalled(o)
    PROVE  Recalled(o)' \/ o \in intents'
<1>1. PICK u \in Users : response[u] # None /\ o \in ReplacedIn(response[u])
  BY DEF Recalled
<1>2. PICK x \in response[u].submissions : o = plan[x]
  BY <1>1 DEF ReplacedIn
<1>3. CASE Erased(u)
  BY <1>1, <1>3 DEF Erased, Candidates
<1>4. CASE response'[u] # None /\ response[u].submissions \subseteq response'[u].submissions
  <2>1. x \in Submissions /\ pc[x] = "done"
    BY <1>1, <1>2, RowOf DEF Responses, DraftInv
  <2>2. CallMoves(x) /\ x \notin Handoffs \cup Starts
    BY <2>1, HandoffNames DEF CallsStep, Calls
  <2>3. plan'[x] = plan[x]
    BY <2>1, <2>2 DEF CallMoves, ToLaunch, ToStart, ToDiscard, ToLeft, ToSubmit, ToRemove, ToMove
  <2>4. o \in ReplacedIn(response[u])'
    BY <1>2, <1>4, <2>3 DEF ReplacedIn
  <2> QED BY <1>4, <2>4 DEF Recalled
<1> QED BY <1>1, <1>3, <1>4, SubmissionsStay

\* A start that could not discard what it stored is over.
LEMMA LeftStays ==
    ASSUME CallsStep, NEW o, Left(o)
    PROVE  Left(o)'
<1>1. CallMoves(o.name) /\ o.name \in Starts /\ pc[o.name] = "left"
  BY DEF Left, CallsStep, Calls
<1> QED BY <1>1 DEF Left, CallMoves, ToLaunch, ToStart, ToDiscard, ToLeft, ToSubmit, ToRemove, ToMove

\* A document a User's Response refers to after a step.
Held(o) == \E u \in Users : response'[u] # None /\ o \in Keys(response'[u])

\* What a step leaves of what is in flight, of intents, and of what was stored.
Kept(o) ==
  /\ UNCHANGED form
  /\ o \in objects /\ o \in intents => o \in intents'
  /\ o \in objects /\ InFlight(o) => InFlight(o)' \/ Left(o)' \/ o \in FormDocuments \/ Held(o)
  /\ o \notin objects => InFlight(o)' \/ Held(o)

\* The draft of a start that ends is its Response's, or is discarded.
LEMMA DraftHeld ==
    ASSUME HandoffTypes, NEW s \in Starts, SeededRow(s) \/ RedeemedRow(s)
    PROVE  Held(Document(s))
<1> DEFINE u == plan[s].user
<1>1. /\ u \in Users /\ Document(s) \in [of : Starts, name : Starts] /\ plan[s].id \in Starts
      /\ Starting(s) /\ plan[s].claim \in Handoffs \cup {None}
  BY DocumentType DEF SeededRow, RedeemedRow, Starting, StartPlans
<1>2. Document(s) # None
  <2>1. Document(s) \in Objects
    BY <1>1, DocumentType
  <2> QED BY <2>1, CatalogNames
<1>3. \A r : r \in Responses => r # None
  BY RowOf
<1>4. CASE SeededRow(s)
  <2>1. response'[u] = Seeded(s, response[u])
    BY <1>1, <1>4 DEF SeededRow, HandoffTypes
  <2>2. Seeded(s, response[u]) \in Responses /\ Seeded(s, response[u]).draft = Document(s)
    <3>1. CASE response[u] = None
      BY <1>1, <3>1 DEF Seeded, Responses
    <3>2. CASE response[u] # None
      <4>1. response[u] \in Responses
        BY <1>1, <3>2, RowOf
      <4> QED BY <1>1, <3>2, <4>1 DEF Seeded, Responses
    <3> QED BY <3>1, <3>2
  <2> QED BY <1>1, <1>2, <1>3, <2>1, <2>2 DEF Held, Keys
<1>5. CASE RedeemedRow(s)
  <2>1. response'[u] = Prefilled(s, None)
    BY <1>1, <1>5 DEF RedeemedRow, HandoffTypes
  <2>2. plan[s].claim \in Handoffs /\ handoff[plan[s].claim].ref \in References
    BY <1>1, <1>5, RowOf DEF RedeemedRow, HandoffRows, HandoffTypes
  <2>3. Seeded(s, None) \in Responses /\ Seeded(s, None).draft = Document(s)
    BY <1>1 DEF Seeded, Responses
  <2>4. Prefilled(s, None) \in Responses /\ Prefilled(s, None).draft = Document(s)
    BY <1>1, <2>2, <2>3 DEF Prefilled, Responses
  <2> QED BY <1>1, <1>2, <1>3, <2>1, <2>4 DEF Held, Keys
<1> QED BY <1>4, <1>5

\* A step that is not the catalog's forgets no document but one it removes.
LEMMA HandoffsKeep ==
    ASSUME CatalogInv, HandoffTypes, ResponseInv, FlightInv, CallsStep, OwnStep, NEW o \in objects'
    PROVE  Kept(o)
<1> USE DEF Goto, Know, Finish, catalog, store, prefill
<1>0. /\ DOMAIN pc = Clients /\ DOMAIN plan = Clients
      /\ Handoffs \cup Starts \cup Submissions \cup Removals \cup Moves \subseteq Clients
      /\ Catalogers \cap (Handoffs \cup Starts \cup Submissions \cup Removals \cup Moves) = {}
      /\ \A c \in Creations \cup Saves \cup Configurations \cup Reapers : c \in Catalogers
  BY HandoffNames DEF CatalogInv, CatalogTypes, Catalogers
<1>04. o \in objects'
  OBVIOUS
<1>2. ASSUME NEW w \in Sweeps, ReadDue(w), UNCHANGED catalog PROVE Kept(o)
  BY <1>2, <1>0, <1>04 DEF Kept, InFlight, ReadDue
<1>3. ASSUME NEW w \in Sweeps, ExpireDue(w), UNCHANGED catalog PROVE Kept(o)
  BY <1>3, <1>0, <1>04 DEF Kept, InFlight, ExpireDue
<1>4. ASSUME NEW h \in Handoffs, NEW ref \in References, NEW email \in Emails, CreateHandoff(h, ref,
             email), UNCHANGED <<catalog, sweep>>
      PROVE  Kept(o)
  BY <1>4, <1>0, <1>04 DEF Kept, InFlight, CreateHandoff
<1>5. ASSUME NEW h \in Handoffs, ReadForLaunch(h), UNCHANGED <<catalog, sweep>> PROVE Kept(o)
  BY <1>5, <1>0, <1>04 DEF Kept, InFlight, ReadForLaunch
<1>6. ASSUME NEW h \in Handoffs, LaunchHandoff(h), UNCHANGED <<catalog, sweep>> PROVE Kept(o)
  BY <1>6, <1>0, <1>04 DEF Kept, InFlight, LaunchHandoff
<1>7. ASSUME NEW h \in Handoffs, Elapse(h), UNCHANGED <<catalog, sweep>> PROVE Kept(o)
  BY <1>7, <1>0, <1>04 DEF Kept, InFlight, Elapse
<1>8. ASSUME NEW s \in Starts, NEW u \in Users, NEW h \in Handoffs \cup {None}, ReadForStart(s, u, h),
             UNCHANGED <<catalog, sweep>>
      PROVE  Kept(o)
  <2>1. CallMoves(s) /\ pc[s] = "idle"
    BY <1>8 DEF CallsStep, Calls, ReadForStart
  <2>2. pc'[s] \in {"seed", "redeem", "receipt"}
    BY <1>8, <1>0 DEF ReadForStart
  <2>3. /\ objects' \in {objects, objects \cup {Object(HintedId(s, u), s)}}
        /\ pc'[s] = "receipt" => objects' = objects
        /\ intents' = intents /\ form' = form /\ \A t \in Starts \ {s} : pc'[t] = pc[t]
    BY <1>8, <1>0 DEF ReadForStart
  <2>4. o \notin objects => InFlight(o)'
    BY <1>04, <2>2, <2>3 DEF InFlight, Object
  <2>5. InFlight(o) => InFlight(o)'
    BY <2>1, <2>3 DEF InFlight
  <2> QED BY <2>3, <2>4, <2>5 DEF Kept
<1>9. ASSUME NEW s \in Starts, CommitStart(s), UNCHANGED <<catalog, sweep>> PROVE Kept(o)
  <2>1. /\ intents' = intents /\ form' = form /\ objects' = objects
        /\ \A t \in Starts \ {s} : pc'[t] = pc[t]
    BY <1>9, <1>0 DEF CommitStart, Committed
  <2>2. ASSUME InFlight(o), o.name = s PROVE Held(o)
    <3>1. o = Document(s)
      BY <1>04, <2>1, <2>2 DEF FlightInv
    <3>2. SeededRow(s)
      BY <1>9, <1>0 DEF CommitStart, Committed, SeededRow
    <3> QED BY <3>1, <3>2, DraftHeld
  <2>3. ASSUME InFlight(o), o.name # s PROVE InFlight(o)'
    BY <2>1, <2>3 DEF InFlight
  <2> QED BY <1>04, <2>1, <2>2, <2>3 DEF Kept
<1>10. ASSUME NEW s \in Starts, RedeemHandoff(s), UNCHANGED <<catalog, sweep>> PROVE Kept(o)
  <2>1. /\ intents' = intents /\ form' = form /\ objects' = objects
        /\ \A t \in Starts \ {s} : pc'[t] = pc[t]
    BY <1>10, <1>0 DEF RedeemHandoff, Committed
  <2>2. ASSUME InFlight(o), o.name = s PROVE InFlight(o)' \/ Held(o)
    <3>1. o = Document(s)
      BY <1>04, <2>1, <2>2 DEF FlightInv
    <3>2. CASE response[plan[s].user] = None
      <4>1. RedeemedRow(s)
        BY <1>0, <1>10, <3>2, RedeemedBy
      <4> QED BY <3>1, <4>1, DraftHeld
    <3>3. CASE response[plan[s].user] # None
      BY <1>10, <1>0, <2>2, <3>3 DEF RedeemHandoff, InFlight
    <3> QED BY <3>2, <3>3
  <2>3. ASSUME InFlight(o), o.name # s PROVE InFlight(o)'
    BY <2>1, <2>3 DEF InFlight
  <2> QED BY <1>04, <2>1, <2>2, <2>3 DEF Kept
<1>11. ASSUME NEW s \in Starts, ConsumeSubmitted(s), UNCHANGED <<catalog, sweep>> PROVE Kept(o)
  BY <1>11, <1>0, <1>04 DEF Kept, InFlight, ConsumeSubmitted
<1>12. ASSUME NEW x \in Submissions, NEW u \in Users, BeginSubmit(x, u), UNCHANGED <<catalog, sweep>>
       PROVE  Kept(o)
  BY <1>12, <1>0, <1>04 DEF Kept, InFlight, BeginSubmit
<1>13. ASSUME NEW x \in Submissions, EndSubmit(x), UNCHANGED <<catalog, sweep>> PROVE Kept(o)
  <2> DEFINE r == response[plan[x]]
  <2>1. /\ intents' = intents /\ form' = form /\ objects' = objects \cup {Object(r.id, x)}
        /\ \A t \in Starts : pc[t] \in {"seed", "redeem", "discard"} => pc'[t] = pc[t]
        /\ response' = [response EXCEPT ![plan[x]].status = "submitted", ![plan[x]].draft = None,
                                        ![plan[x]].submissions = @ \cup {x}]
    BY <1>13, <1>0 DEF EndSubmit
  <2>2. plan[x] \in Users /\ r # None /\ r \in Responses
    BY <1>13, RowOf DEF EndSubmit, HandoffTypes, ResponseInv, Status
  <2>3. response'[plan[x]] = [r EXCEPT !.status = "submitted", !.draft = None, !.submissions = @ \cup {x}]
    BY <2>1, <2>2 DEF HandoffTypes
  <2>4. /\ response'[plan[x]] \in Responses /\ response'[plan[x]].id = r.id
        /\ x \in response'[plan[x]].submissions
    BY <2>2, <2>3, CompletedType
  <2>5. Held(Object(r.id, x))
    BY <2>2, <2>4, RowOf DEF Held, Keys
  <2>6. o \notin objects => o = Object(r.id, x)
    BY <1>04, <2>1
  <2>7. InFlight(o) => InFlight(o)'
    BY <2>1 DEF InFlight
  <2> QED BY <2>1, <2>5, <2>6, <2>7 DEF Kept
<1>14. ASSUME NEW x \in Submissions, FailSubmit(x), UNCHANGED <<catalog, sweep>> PROVE Kept(o)
  BY <1>14, <1>0, <1>04 DEF Kept, InFlight, FailSubmit
<1>15. ASSUME NEW d \in Removals, NEW id \in Starts, ReadForRemoval(d, id), UNCHANGED <<catalog, sweep>>
       PROVE  Kept(o)
  BY <1>15, <1>0, <1>04 DEF Kept, InFlight, ReadForRemoval
<1>16. ASSUME NEW d \in Removals, NEW u \in Users, EraseRows(d, u), UNCHANGED <<catalog, sweep>>
       PROVE  Kept(o)
  <2>1. Erased(u)
    BY <1>16, ErasedBy
  <2>2. form' = form /\ pc' = [pc EXCEPT ![d] = "drain"] /\ pc[d] = "erase"
    BY <1>16 DEF EraseRows
  <2>3. InFlight(o) => InFlight(o)'
    BY <1>0, <2>2 DEF InFlight
  <2> QED BY <1>04, <2>1, <2>2, <2>3 DEF Erased, Kept
<1>17. ASSUME NEW d \in Removals, RefuseRemoval(d), UNCHANGED <<catalog, sweep>> PROVE Kept(o)
  BY <1>17, <1>0, <1>04 DEF Kept, InFlight, RefuseRemoval
<1>18. ASSUME NEW d \in Removals, Drain(d), UNCHANGED <<catalog, sweep>> PROVE Kept(o)
  <2>0. PICK removed \in SUBSET Pending(plan[d]) :
           objects' = objects \ removed /\ intents' = intents \ removed
    BY <1>18 DEF Drain
  <2>1. form' = form /\ pc' = [pc EXCEPT ![d] = "done"] /\ pc[d] = "drain"
    BY <1>18 DEF Drain
  <2>2. InFlight(o) => InFlight(o)'
    BY <1>0, <2>1 DEF InFlight
  <2> QED BY <1>04, <2>0, <2>1, <2>2 DEF Kept
<1>19. ASSUME NEW m \in Moves, NEW u \in Users, NEW email \in Emails, ReadForMove(m, u, email),
              UNCHANGED <<catalog, sweep>>
       PROVE  Kept(o)
  BY <1>19, <1>0, <1>04 DEF Kept, InFlight, ReadForMove
<1>20. ASSUME NEW m \in Moves, CommitMove(m), UNCHANGED <<catalog, sweep>> PROVE Kept(o)
  BY <1>20, <1>0, <1>04 DEF Kept, InFlight, CommitMove
<1>21. ASSUME UNCHANGED vars PROVE Kept(o)
  BY <1>21, <1>04 DEF Kept, InFlight, vars
<1>22. ASSUME NEW s \in Starts, RollBack(s), UNCHANGED <<catalog, sweep>> PROVE Kept(o)
  BY <1>22, <1>0, <1>04 DEF Kept, InFlight, RollBack
<1>23. ASSUME NEW s \in Starts, Discard(s), UNCHANGED <<catalog, sweep>> PROVE Kept(o)
  <2>1. /\ intents' = intents /\ form' = form /\ response' = response
        /\ \A t \in Starts \ {s} : pc'[t] = pc[t]
        /\ objects' \in {objects, objects \ {Document(s)}}
        /\ \/ objects' = IF Canonical(Document(s)) THEN objects ELSE objects \ {Document(s)}
           \/ pc'[s] = "left"
    BY <1>23, <1>0 DEF Discard
  <2>2. ASSUME InFlight(o), o.name = s PROVE Left(o)' \/ o \in FormDocuments \/ Held(o)
    <3>1. o = Document(s)
      BY <1>04, <2>1, <2>2 DEF FlightInv
    <3>2. CASE Canonical(Document(s))
      BY <2>1, <3>1, <3>2 DEF Canonical, Held
    <3>3. CASE ~Canonical(Document(s))
      BY <1>04, <2>1, <2>2, <3>1, <3>3 DEF Left
    <3> QED BY <3>2, <3>3
  <2>3. ASSUME InFlight(o), o.name # s PROVE InFlight(o)'
    BY <2>1, <2>3 DEF InFlight
  <2> QED BY <1>04, <2>1, <2>2, <2>3 DEF Kept
<1>24. ASSUME NEW u \in Users, NEW q \in objects, RemoveReplacedIn(u, q), UNCHANGED <<catalog, sweep>>
       PROVE  Kept(o)
  BY <1>24, <1>04 DEF Kept, InFlight, RemoveReplacedIn
<1> QED
  BY <1>2, <1>3, <1>4, <1>5, <1>6, <1>7, <1>8, <1>9, <1>10, <1>11, <1>12, <1>13, <1>14, <1>15,
     <1>16, <1>17, <1>18, <1>19, <1>20, <1>21, <1>22, <1>23, <1>24
     DEF OwnStep, Expire, HandoffNext

\* A document no row refers to is known to an intent, to the row of the operation that
\* replaced it, or to the start that stored it.
LEMMA NoneForgottenStep ==
    ASSUME CatalogInv, HandoffTypes, ResponseInv, DraftInv, FlightInv, NoneForgotten,
           ResponsesStep, CallsStep, Step
    PROVE  NoneForgotten'
<1> SUFFICES ASSUME NEW o \in objects'
             PROVE  \/ o \in FormDocuments' \/ Held(o) \/ o \in intents'
                    \/ Outdated(o)' \/ Recalled(o)' \/ InFlight(o)' \/ Left(o)'
  BY DEF NoneForgotten, Canonical, Held, Named, Outdated, Recalled
<1>1. ASSUME NEW u \in Users, response[u] # None, o \in Keys(response[u])
      PROVE  Held(o) \/ o \in intents' \/ Recalled(o)'
  <2>1. ASSUME NEW x \in Submissions, Completed(x), plan[x] = u, o = response[u].draft PROVE Recalled(o)'
    <3>1. plan'[x] = o
      BY <2>1 DEF Completed
    <3>2. response[u] \in Responses
      BY <1>1, RowOf
    <3>3. response'[u] = [response[u] EXCEPT !.status = "submitted", !.draft = None, !.submissions = @ \cup {x}]
      BY <2>1 DEF Completed, HandoffTypes
    <3>4. response'[u] \in Responses /\ x \in response'[u].submissions
      BY <3>2, <3>3, CompletedType
    <3>5. o \in ReplacedIn(response[u])'
      BY <3>1, <3>4 DEF ReplacedIn
    <3> QED BY <3>4, <3>5, RowOf DEF Recalled
  <2> QED BY <1>1, <2>1, KeysStay DEF Held
<1>2. Recalled(o) => Recalled(o)' \/ o \in intents'
  BY RecalledStays
<1>3. Left(o) => Left(o)'
  BY LeftStays
<1>4. \/ o \notin objects
      \/ o \in FormDocuments \/ (\E u \in Users : response[u] # None /\ o \in Keys(response[u]))
      \/ o \in intents \/ Outdated(o) \/ Recalled(o) \/ InFlight(o) \/ Left(o)
  BY DEF NoneForgotten, Canonical, Named, Outdated, Recalled
<1>5. CASE CatalogOwn(Busy) /\ Apart
  <2>1. ASSUME InFlight(o) PROVE InFlight(o)'
    <3>1. o.name \in Clients /\ o.name \notin Catalogers
      BY <2>1, HandoffNames DEF InFlight
    <3>2. pc'[o.name] = pc[o.name]
      BY <1>5, <3>1, OthersStay DEF CatalogInv, Catalogers
    <3> QED BY <2>1, <3>2 DEF InFlight
  <2>2. ASSUME o \notin FormDocuments', o \notin intents', ~Outdated(o)'
        PROVE  o \in objects /\ o \notin FormDocuments /\ o \notin intents /\ ~Outdated(o)
    BY <1>5, <2>2, CatalogForgetsNone
  <2> QED BY <1>1, <1>2, <1>3, <1>4, <2>1, <2>2
<1>6. CASE OwnStep
  <2>1. Kept(o) /\ Elsewhere
    BY <1>6, HandoffsKeep, HandoffsElsewhere
  <2>2. FormDocuments' = FormDocuments
    BY <2>1 DEF Kept, FormDocuments, DocumentsOf, Published
  <2>3. Outdated(o)' <=> Outdated(o)
    <3>1. form' = form /\ \A x \in Saves : pc'[x] = pc[x] /\ plan'[x] = plan[x]
      BY <2>1 DEF Elsewhere
    <3>2. ASSUME NEW f \in Forms PROVE Replaced(f)' = Replaced(f)
      BY <3>1 DEF Replaced
    <3> QED BY <3>1, <3>2 DEF Outdated
  <2> QED BY <1>1, <1>2, <1>3, <1>4, <2>1, <2>2, <2>3 DEF Kept
<1> QED BY <1>5, <1>6 DEF Step

(***************************************************************************)
(* The invariant                                                           *)
(***************************************************************************)

\* What is stored at the start are the documents of forms.
LEMMA InitStored ==
    ASSUME NEW crowd, CatalogInit(crowd)
    PROVE  objects \subseteq FormDocuments /\ \A o \in objects : o.name \in Forms \cup {None}
<1>1. PICK rules \in {{}} \cup {{r} : r \in {x \in Rules : x.lock /\ x.pointer # None}} :
        form = [f \in Forms |-> IF f \in crowd \ Creations THEN Standing(f, rules) ELSE None]
  BY DEF CatalogInit
<1>2. objects = UNION {{Object(f, None), Object(f, f)} : f \in (Forms \cap crowd) \ Creations}
  BY DEF CatalogInit
<1> SUFFICES ASSUME NEW o \in objects
             PROVE  o \in FormDocuments /\ o.name \in Forms \cup {None}
  OBVIOUS
<1>3. PICK f \in (Forms \cap crowd) \ Creations : o = Object(f, None) \/ o = Object(f, f)
  BY <1>2
<1>4. rules \subseteq Rules
  BY <1>1
<1>5. form[f] = Standing(f, rules)
  BY <1>1, <1>3
<1>6. /\ form[f] # None /\ form[f].object = Object(f, None)
      /\ form[f].published # None /\ form[f].published.object = Object(f, f)
  BY <1>4, <1>5, StandingType
<1>7. o \in DocumentsOf(f)
  BY <1>3, <1>6 DEF DocumentsOf, Published
<1> QED BY <1>3, <1>7 DEF FormDocuments, Object

\* The invariant holds at the start.
LEMMA InitInv ==
    ASSUME Init
    PROVE  IndInv
<1>1. PICK crowd \in Crowds :
        CatalogInit(crowd) /\ address = [u \in Users |-> IF u \in crowd THEN u ELSE None]
  BY DEF Init
<1>2. /\ handoff = [h \in Handoffs |-> None] /\ claim = [h \in Handoffs |-> "none"]
      /\ response = [u \in Users |-> None]
      /\ passed = {} /\ tombstones = {}
      /\ sweep = [w \in Sweeps |-> None]
  BY DEF Init
<1>3. CatalogInv
  BY <1>1, CatalogInitInv
<1>4. /\ \A p \in Clients : pc[p] \in {"idle", "done"}
      /\ Handoffs \cup Starts \cup Submissions \cup Removals \cup Moves \subseteq Clients
  BY <1>1, HandoffNames DEF CatalogInit
<1>5. objects \subseteq FormDocuments /\ \A o \in objects : o.name \in Forms \cup {None}
  BY <1>1, InitStored
<1>6. HandoffTypes
  BY <1>1, <1>2, <1>4, HandoffNames DEF HandoffTypes, Starting
<1>7. RowInv
  BY <1>2, <1>4 DEF RowInv
<1>8. ResponseInv
  BY <1>2, <1>4 DEF ResponseInv, Starting, Has, Status
<1>9. FlightInv
  BY <1>4, <1>5, HandoffNames, CatalogNames DEF FlightInv, InFlight
<1>10. ReferenceInv
  BY <1>2 DEF ReferenceInv
<1>11. ValuesInv
  BY <1>2 DEF ValuesInv
<1>12. SeedInv
  BY <1>2, <1>4 DEF SeedInv
<1>13. NoneForgotten
  BY <1>5 DEF NoneForgotten, Canonical
<1>14. DraftInv
  BY <1>2 DEF DraftInv
<1> QED BY <1>3, <1>6, <1>7, <1>8, <1>9, <1>10, <1>11, <1>12, <1>13, <1>14 DEF IndInv

\* What a step does to the state of a module that satisfies the invariant.
LEMMA AllMove ==
    ASSUME IndInv, [Next]_vars
    PROVE  /\ Step /\ CatalogStep(Busy) /\ ResponsesStep /\ CallsStep /\ TimeStep
           /\ \A h \in Handoffs : HandoffMoves(h)
<1>1. Step
  BY NextSteps
<1>2. CatalogInv /\ HandoffTypes /\ ResponseInv /\ DraftInv /\ DOMAIN sweep = Sweeps
  BY DEF IndInv, RowInv
<1>3. CallsStep
  BY <1>1, <1>2, CallsMove DEF CallsStep
<1>4. CatalogStep(Busy)
  BY <1>1, <1>2, HandoffsElsewhere DEF Step, CatalogStep
<1> QED BY <1>1, <1>2, <1>3, <1>4, ResponsesMove, TimeMoves, HandoffsMove

\* Every step keeps the invariant.
LEMMA IndStep ==
    ASSUME IndInv, [Next]_vars
    PROVE  IndInv'
<1>1. /\ Step /\ CatalogStep(Busy) /\ ResponsesStep /\ CallsStep /\ TimeStep
      /\ \A h \in Handoffs : HandoffMoves(h)
  BY AllMove
<1>2. /\ CatalogInv /\ HandoffTypes /\ RowInv /\ ResponseInv /\ DraftInv /\ FlightInv /\ ReferenceInv
      /\ ValuesInv /\ SeedInv /\ NoneForgotten
  BY DEF IndInv
<1>3. CatalogInv'
  BY <1>1, <1>2, CatalogInvStep
<1>4. HandoffTypes'
  BY <1>1, <1>2, HandoffTypesStep
<1>5. RowInv'
  BY <1>1, <1>2, RowStep
<1>6. ResponseInv'
  BY <1>1, <1>2, ResponseStep
<1>7. FlightInv'
  BY <1>1, <1>2, FlightStep
<1>8. ReferenceInv'
  BY <1>1, <1>2, ReferenceStep
<1>9. ValuesInv'
  BY <1>1, <1>2, ValuesStep
<1>10. SeedInv'
  <2>1. Configured' <=> Configured
    BY <1>1, <1>2, ConfiguredStays
  <2> QED BY <1>1, <1>2, <2>1, SeedStep
<1>11. NoneForgotten'
  BY <1>1, <1>2, NoneForgottenStep
<1>12. DraftInv'
  BY <1>1, <1>2, DraftStep
<1> QED BY <1>3, <1>4, <1>5, <1>6, <1>7, <1>8, <1>9, <1>10, <1>11, <1>12 DEF IndInv

\* The inductive invariant holds in every reachable state.
THEOREM Invariant == Spec => []IndInv
<1>1. Init => IndInv
  BY InitInv
<1>2. IndInv /\ [Next]_vars => IndInv'
  BY IndStep
<1> QED BY <1>1, <1>2, PTL DEF Spec

(***************************************************************************)
(* What follows                                                            *)
(***************************************************************************)

\* Rows, objects, intents and what requests have read have their types.
THEOREM TypesHold == Spec => [](CatalogTypes /\ HandoffTypes)
<1>1. IndInv => CatalogTypes /\ HandoffTypes
  BY DEF IndInv, CatalogInv
<1> QED BY <1>1, Invariant, PTL

\* No cleanup takes the document of a form: insertFormDraft drops the intent of an
\* object that has none to be removed by, and a timer asks whether a row refers to it.
THEOREM FormsStoredHolds == Spec => []FormsStored
<1>1. IndInv => FormsStored
  BY DEF IndInv, CatalogInv, StoredInv
<1> QED BY <1>1, Invariant, PTL

\* A published template has the rules that were configured, sound and about its fields.
THEOREM PublishedAsConfiguredHolds == Spec => []PublishedAsConfigured
<1>1. IndInv => PublishedAsConfigured
  BY DEF IndInv, CatalogInv
<1> QED BY <1>1, Invariant, PTL

\* A document no row refers to is known to a cleanup intent, to the row of the operation that
\* replaced it, or to the start that stored it: but for the draft of a start to which the store
\* refused to discard it, which public-forms.ts and redemption.ts only log.
THEOREM NoneForgottenHolds == Spec => []NoneForgotten
<1>1. IndInv => NoneForgotten
  BY DEF IndInv
<1> QED BY <1>1, Invariant, PTL

\* What remains of a deleted Response is known to intents.
LEMMA RemainingPending ==
    ASSUME NoneForgotten, NEW id, Pending(id) = {}
    PROVE  Remaining(id) = {}
BY DEF NoneForgotten, Remaining, Pending

\* The deletions that led to a reference are one.
LEMMA LedToOne ==
    ASSUME HandoffTypes, RowInv, ReferenceInv, NEW ref \in References, NEW id \in LedTo(ref),
           Answer(ref) = "deleted"
    PROVE  Pending(id) = {}
<1> DEFINE dead == {t \in tombstones : t.ref = ref}
           h    == CHOOSE h \in Of(ref) : TRUE
<1>1. ref # None
  BY RowOf
<1>2. CASE dead # {}
  <2>1. PICK t \in tombstones : t.ref = ref
    BY <1>2
  <2>2. \A k \in dead : k = t
    BY <1>1, <2>1 DEF ReferenceInv
  <2>3. \A g \in Of(ref) : handoff[g].deleted = t.id
    BY <1>1, <2>1 DEF ReferenceInv
  <2>4. id = t.id
    BY <2>2, <2>3 DEF LedTo
  <2>5. ~ \E k \in dead : Pending(k.id) # {}
    BY <1>2 DEF Answer
  <2> QED BY <2>1, <2>4, <2>5
<1>3. CASE dead = {}
  <2>1. Of(ref) # {} /\ Pending(handoff[h].deleted) = {}
    BY <1>3 DEF Answer
  <2>2. \A g \in Of(ref) : g = h
    BY <2>1 DEF Of, RowInv
  <2>3. id = handoff[h].deleted
    BY <1>3, <2>2 DEF LedTo
  <2> QED BY <2>1, <2>3
<1> QED BY <1>2, <1>3

\* externalPrefillStatus answers "deleted" only when nothing is left that rows of the Response
\* named, the replaced drafts of its submissions among them: what else may be left is the draft
\* of a start that is about to discard it, or to which the store refused that.
THEOREM ReportedDeletedHolds == Spec => []ReportedDeleted
<1>1. IndInv => ReportedDeleted
  BY LedToOne, RemainingPending DEF IndInv, ReportedDeleted
<1> QED BY <1>1, Invariant, PTL

\* The values of a draft are those of the handoff it consumed, which led to no other
\* Response, and a Form configured for prefill has no Response without a reference.
THEOREM PrefillAccountedHolds == Spec => []PrefillAccounted
<1>1. ASSUME IndInv PROVE PrefillAccounted
  <2> USE DEF IndInv
  <2>1. ASSUME NEW u \in Users, response[u] # None, response[u].prefill # None,
               handoff[response[u].prefill] # None
        PROVE  /\ handoff[response[u].prefill].response = response[u].id
               /\ handoff[response[u].prefill].ref = response[u].ref
    BY <1>1, <2>1 DEF ValuesInv
  <2>2. ASSUME NEW u \in Users, response[u] # None, Configured, ~Deleted(response[u].id)
        PROVE  response[u].ref # None
    BY <1>1, <2>2 DEF SeedInv
  <2> QED BY <2>1, <2>2 DEF PrefillAccounted
<1> QED BY <1>1, Invariant, PTL

\* A step expires what waits, after the lifetime it has.
LEMMA ExpiredOver ==
    ASSUME HandoffTypes, RowInv, NEW h \in Handoffs, HandoffMoves(h), handoff'[h] # handoff[h],
           handoff[h] # None, handoff'[h] # None, handoff'[h].status = "expired"
    PROVE  Waiting(h) /\ Over(h, passed)
<1>1. /\ handoff[h] \in HandoffRows
      /\ DOMAIN handoff[h] = {"ref", "email", "lifetime", "status", "response", "deleted"}
  BY RowOf DEF HandoffRows
<1>2. ~Created(h)
  <2>1. ASSUME Created(h) PROVE handoff'[h].status = "pending"
    BY <2>1 DEF Created
  <2> QED BY <2>1
<1>3. ~Launched(h)
  BY <1>1 DEF Launched
<1>4. ~Consumed(h)
  BY <1>1 DEF Consumed
<1>5. ~Forgotten(h)
  BY DEF Forgotten
<1>6. \A u \in Users : Erased(u) => h \notin Leading(response[u])
  BY <1>1 DEF Erased, Tombed
<1>7. TimedOut(h)
  BY <1>2, <1>3, <1>4, <1>5, <1>6 DEF HandoffMoves
<1>8. PICK w \in Sweeps : sweep[w] # None /\ Over(h, sweep[w].now)
  BY <1>7 DEF TimedOut
<1>9. sweep[w].now \subseteq passed
  BY <1>8 DEF RowInv
<1> QED BY <1>7, <1>8, <1>9 DEF TimedOut, Over

\* A handoff expires when the lifetime it then has is over, never by the time of its code
\* when it was launched after the sweep had read it.
THEOREM ExpiresInTimeHolds == Spec => ExpiresInTime
<1>1. ASSUME IndInv, [Next]_vars
      PROVE  [\A h \in Handoffs :
                LET expires == /\ handoff'[h] # handoff[h] /\ handoff[h] # None
                               /\ handoff'[h] # None /\ handoff'[h].status = "expired"
                IN  expires => Waiting(h) /\ Over(h, passed)]_vars
  BY <1>1, AllMove, ExpiredOver DEF IndInv
<1> QED BY <1>1, Invariant, PTL DEF Spec, ExpiresInTime
================================================================================
