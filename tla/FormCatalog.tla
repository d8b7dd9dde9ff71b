----------------------------- MODULE FormCatalog -----------------------------
(***************************************************************************)
(* The forms administrators author: created or duplicated, edited with     *)
(* field rules beside the document, saved, published once, archived and    *)
(* taken back, deleted while nothing was published.                        *)
(*                                                                         *)
(* A form's documents are objects.  A new object is announced by a cleanup *)
(* intent first, with a grace in which nobody acts on it; the transaction  *)
(* that makes it a form's document drops the intent, and the timer removes *)
(* the objects of intents that are due and that no row refers to.          *)
(*                                                                         *)
(* What happens inside a save or a publication is OperationLifecycle; here *)
(* it is active, then completes or fails.                                  *)
(***************************************************************************)
EXTENDS Naturals, FiniteSets

CONSTANTS Forms,     \* ids: of forms there may be from the start, and Creations
          Creations, \* requests to create or duplicate; the form has its name
          Saves,     \* operations that save or publish
          Configurations, \* requests to change a field rule
          Edits,     \* requests to change status or fill method
          Discards,  \* requests to delete a form
          Reapers,   \* runs of the timer that removes objects
          Sessions,  \* of administrators
          Clients,   \* every request, these and others
          Crowds,    \* per initial state, the requests made, and the forms and Users there are
          Tags, Pointers, None

\* Objects are named by what they belong to and by who stored them.
Objects == [of : Forms \cup Clients, name : Forms \cup Clients \cup {None}]
Rules   == [tag : Tags, pointer : Pointers \cup {None}, lock : BOOLEAN]

\* What a form publishes, and its row.
Contracts == [object : Objects, tags : SUBSET Tags, rules : SUBSET Rules]
Rows == [status : {"draft", "published", "archived"}, object : Objects, tags : SUBSET Tags,
         rules : SUBSET Rules, fill : {"onlyoffice", "native"}, published : Contracts \cup {None}]

\* A request is of one kind.
ASSUME CatalogNames ==
  /\ Creations \subseteq Forms
  /\ Creations \cup Saves \cup Configurations \cup Edits \cup Discards \cup Reapers \subseteq Clients
  /\ Saves \cap Forms = {} /\ Reapers \cap (Forms \cup Saves) = {}
  /\ None \notin Forms \cup Clients \cup Sessions \cup Tags \cup Pointers
  /\ None \notin Objects \cup Contracts \cup Rows

VARIABLES form,      \* rows of forms with their template draft and published template
          lease,     \* who edits the draft of a form
          operation, \* the active operation of a form, and whether its time is over
          objects,   \* documents stored
          intents,   \* objects to remove
          graced,    \* those of them that are not due
          pc, plan   \* where a request stands and what it knows

catalog == <<form, lease, operation>>
store   == <<objects, intents, graced>>

Object(of, name) == [of |-> of, name |-> name]
Rule(tag, pointer, lock) == [tag |-> tag, pointer |-> pointer, lock |-> lock]

\* A form that was published with these rules.
Standing(f, rules) ==
  [status |-> "published", object |-> Object(f, None), tags |-> Tags, rules |-> rules, fill |-> "onlyoffice",
   published |-> [object |-> Object(f, f), tags |-> Tags, rules |-> rules]]

CatalogInit(crowd) ==
  /\ \E rules \in {{}} \cup {{r} : r \in {x \in Rules : x.lock /\ x.pointer # None}} :
       form = [f \in Forms |-> IF f \in crowd \ Creations THEN Standing(f, rules) ELSE None]
  /\ objects = UNION {{Object(f, None), Object(f, f)} : f \in (Forms \cap crowd) \ Creations}
  /\ pc = [p \in Clients |-> IF p \in crowd \cup Reapers THEN "idle" ELSE "done"]
  /\ lease = [f \in Forms |-> None] /\ operation = [f \in Forms |-> None]
  /\ intents = {} /\ graced = {}
  /\ plan = [p \in Clients |-> None]

Goto(p, from, to) == pc[p] = from /\ pc' = [pc EXCEPT ![p] = to]
Know(p, what)     == plan' = [plan EXCEPT ![p] = what]
Finish(p, from)   == Goto(p, from, "done") /\ Know(p, None)

Published(f) == form[f] # None /\ form[f].published # None
Authored(f)  == form[f] # None /\ form[f].published = None
Active(f)    == operation[f] # None

\* The objects the rows of a form refer to.
DocumentsOf(f) == IF form[f] = None THEN {}
                  ELSE {form[f].object} \cup (IF Published(f) THEN {form[f].published.object} ELSE {})
FormDocuments == UNION {DocumentsOf(f) : f \in Forms}

-----------------------------------------------------------------------------
(* Creating and duplicating                                                *)

\* A new form has the given template; a duplicate has the published template
\* and a rule for each of its fields, or the template draft and its rules.
Blank(tags) == [tags |-> tags, rules |-> {}]

RuleFor(f, tag) == CHOOSE r \in form[f].published.rules : r.tag = tag
Ruled(f)        == {r.tag : r \in form[f].published.rules}
Copied(f) == IF Published(f)
             THEN [tags |-> form[f].published.tags,
                   rules |-> {IF t \in Ruled(f) THEN RuleFor(f, t) ELSE Rule(t, None, FALSE) :
                                t \in form[f].published.tags}]
             ELSE [tags |-> form[f].tags, rules |-> form[f].rules]

Source(f) == IF Published(f) THEN form[f].published.object ELSE form[f].object

\* Mutant of Announce: the intent is due at once.
AnnounceDue(c) == intents' = intents \cup {Object(c, c)} /\ graced' = graced

\* The intent comes before the object.
Announce(c) == intents' = intents \cup {Object(c, c)} /\ graced' = graced \cup {Object(c, c)}

ReadTemplate(c, content) ==
  /\ Goto(c, "idle", "put") /\ Know(c, content)
  /\ Announce(c)
  /\ UNCHANGED <<catalog, objects>>

CreateForm(c) == \E tags \in SUBSET Tags : ReadTemplate(c, Blank(tags))
DuplicateForm(c) == \E f \in Forms : /\ form[f] # None /\ Source(f) \in objects
                                     /\ ReadTemplate(c, Copied(f))

PutTemplate(c) ==
  /\ Goto(c, "put", "commit")
  /\ objects' = objects \cup {Object(c, c)}
  /\ UNCHANGED <<catalog, intents, graced, plan>>

\* Deleting an intent that is no longer there makes the transaction fail.
InsertForm(c) ==
  /\ Object(c, c) \in intents
  /\ Finish(c, "commit")
  /\ form' = [form EXCEPT ![c] = [status |-> "draft", object |-> Object(c, c), tags |-> plan[c].tags,
                                  rules |-> plan[c].rules, fill |-> "onlyoffice", published |-> None]]
  /\ intents' = intents \ {Object(c, c)} /\ graced' = graced \ {Object(c, c)}
  /\ UNCHANGED <<lease, operation, objects>>

\* The request fails and makes the intent due; the server stops, and only time does.
FailCreation(c) ==
  /\ pc[c] \in {"put", "commit"}
  /\ Finish(c, pc[c])
  /\ \/ graced' = graced \ {Object(c, c)}
     \/ graced' = graced
  /\ UNCHANGED <<catalog, objects, intents>>

\* A request is over well within the grace, which its process may not survive.
GraceOver(o) ==
  /\ o \in graced /\ pc[o.name] = "done"
  /\ graced' = graced \ {o}
  /\ UNCHANGED <<catalog, objects, intents, pc, plan>>

-----------------------------------------------------------------------------
(* Removing objects                                                        *)

\* deleteObjectUnlessCanonical looks for rows that refer to the object ...
CheckIntent(w, o, canonical) ==
  /\ o \in intents \ graced /\ ~canonical
  /\ Goto(w, "idle", "remove") /\ Know(w, o)
  /\ UNCHANGED <<catalog, store>>

\* ... and removes it, and the intent with it.  The store may fail.
RemoveObject(w) ==
  /\ Goto(w, "remove", "idle") /\ Know(w, None)
  /\ \/ objects' = objects \ {plan[w]} /\ intents' = intents \ {plan[w]}
     \/ UNCHANGED <<objects, intents>>
  /\ UNCHANGED <<catalog, graced>>

-----------------------------------------------------------------------------
(* Editing                                                                 *)

OpenEditor(f, s) ==
  /\ Authored(f) /\ lease[f] = None
  /\ lease' = [lease EXCEPT ![f] = s]
  /\ UNCHANGED <<form, operation, store, pc, plan>>

\* Released, expired, or gone with its session.
CloseEditor(f) ==
  /\ lease[f] # None
  /\ lease' = [lease EXCEPT ![f] = None]
  /\ UNCHANGED <<form, operation, store, pc, plan>>

\* PATCH field-rules, for the document the editor shows.
ReadForRule(r, f, s) ==
  /\ Authored(f) /\ lease[f] = s
  /\ Goto(r, "idle", "configure")
  /\ Know(r, [form |-> f, session |-> s, document |-> form[f].object])
  /\ UNCHANGED <<catalog, store>>

\* Mutant of Configurable: what was read of the form is not read again.
ConfigurableThen(r) == form[plan[r].form] # None /\ lease[plan[r].form] = plan[r].session

\* Asked again under the locks of the lease and the form.
Configurable(r) == LET f == plan[r].form IN
                   /\ Authored(f) /\ lease[f] = plan[r].session
                   /\ form[f].object = plan[r].document

\* Another field has the tag or the pointer.
Conflicts(rules, rule, previous) ==
  \E r \in rules : /\ r.tag # previous
                   /\ r.tag = rule.tag \/ (r.pointer = rule.pointer /\ r.pointer # None)

CommitRule(r, rule, previous) ==
  LET f == plan[r].form IN
  /\ Configurable(r)
  /\ rule.lock => rule.pointer # None
  /\ previous # None => previous \in {x.tag : x \in form[f].rules}
  /\ ~Conflicts(form[f].rules, rule, previous)
  /\ Finish(r, "configure")
  /\ form' = [form EXCEPT ![f].rules = {x \in @ : x.tag # previous} \cup {rule}]
  /\ UNCHANGED <<lease, operation, store>>

RefuseRule(r) == Finish(r, "configure") /\ UNCHANGED <<catalog, store>>

-----------------------------------------------------------------------------
(* Saving and publishing                                                   *)

\* createOperation: one at a time, by the holder of the lease.
Begin(o, f, s, type) ==
  /\ Authored(f) /\ lease[f] = s /\ ~Active(f)
  /\ Goto(o, "idle", "callback")
  /\ Know(o, [form |-> f, type |-> type, document |-> form[f].object])
  /\ operation' = [operation EXCEPT ![f] = [by |-> o, late |-> FALSE]]
  /\ UNCHANGED <<form, lease, store>>

BeginSave(o, f, s)    == Begin(o, f, s, "save")
BeginPublish(o, f, s) == Begin(o, f, s, "publish")

RunsFor(o) == LET f == plan[o].form IN Active(f) /\ operation[f].by = o

\* Four minutes without an answer.
OperationLate(f) ==
  /\ Active(f) /\ ~operation[f].late
  /\ operation' = [operation EXCEPT ![f].late = TRUE]
  /\ UNCHANGED <<form, lease, store, pc, plan>>

\* The editor's document, with whatever fields it has then, replaces the draft,
\* which the operation's row names from then on.
CompleteSave(o, tags) ==
  LET f == plan[o].form IN
  /\ plan[o] # None /\ plan[o].type = "save" /\ RunsFor(o)
  /\ Authored(f) /\ form[f].object = plan[o].document
  /\ Goto(o, "callback", "done")
  /\ form' = [form EXCEPT ![f].object = Object(f, o), ![f].tags = tags]
  /\ objects' = objects \cup {Object(f, o)}
  /\ operation' = [operation EXCEPT ![f] = None]
  /\ UNCHANGED <<lease, intents, graced, plan>>

\* What the completed saves of a form replaced (cleanupObjectKeys).
Replaced(f) ==
  {plan[o].document : o \in {s \in Saves : pc[s] = "done" /\ plan[s] # None /\ plan[s].form = f}}

\* The save removes it after its transaction, unless the store refuses or the
\* server stops; whoever polls the operation then has it tried again.
RemoveReplaced(f, o) ==
  /\ form[f] # None /\ o \in Replaced(f)
  /\ objects' = objects \ {o}
  /\ UNCHANGED <<catalog, intents, graced, pc, plan>>

\* publishedContractFields: every rule is about a field of the document.
Fits(rules, tags) == \A r \in rules : r.tag \in tags

\* The rules are read in the transaction that publishes the document with them.
CompletePublish(o, tags) ==
  LET f == plan[o].form IN
  /\ plan[o] # None /\ plan[o].type = "publish" /\ RunsFor(o)
  /\ Authored(f) /\ form[f].object = plan[o].document
  /\ Fits(form[f].rules, tags)
  /\ Finish(o, "callback")
  /\ form' = [form EXCEPT ![f].status = "published",
                          ![f].published = [object |-> Object(f, o), tags |-> tags, rules |-> form[f].rules]]
  /\ objects' = objects \cup {Object(f, o)}
  /\ operation' = [operation EXCEPT ![f] = None]
  /\ UNCHANGED <<lease, intents, graced>>

\* The operation fails, or is not there any more.
FailSave(o) ==
  /\ pc[o] = "callback"
  /\ operation' = [f \in Forms |-> IF RunsFor(o) /\ f = plan[o].form THEN None ELSE operation[f]]
  /\ Finish(o, "callback")
  /\ UNCHANGED <<form, lease, store>>

-----------------------------------------------------------------------------
(* Status, fill method and deletion                                        *)

\* Archived and taken back; natively filled if the published fields allow it, and
\* while no operation on the form or on a Response to it is active.
SetStatus(e, f, status) ==
  /\ Published(f) /\ status \in {"published", "archived"}
  /\ Finish(e, "idle")
  /\ form' = [form EXCEPT ![f].status = status]
  /\ UNCHANGED <<lease, operation, store>>

SetFill(e, f, fill, busy) ==
  /\ form[f] # None
  /\ fill # form[f].fill => ~busy /\ ~Active(f)
  /\ fill = "native" => Published(f)
  /\ Finish(e, "idle")
  /\ form' = [form EXCEPT ![f].fill = fill]
  /\ UNCHANGED <<lease, operation, store>>

\* A form nobody else edits, with at most an operation whose time is over.  The
\* rows of its operations go with it, and what they name is to be removed.
DeleteForm(d, f, s) ==
  /\ Authored(f) /\ lease[f] \in {None, s}
  /\ Active(f) => operation[f].late
  /\ Finish(d, "idle")
  /\ form' = [form EXCEPT ![f] = None]
  /\ lease' = [lease EXCEPT ![f] = None] /\ operation' = [operation EXCEPT ![f] = None]
  /\ intents' = intents \cup DocumentsOf(f) \cup Replaced(f)
  /\ UNCHANGED <<objects, graced>>

-----------------------------------------------------------------------------
Create == \E c \in Creations :
  CreateForm(c) \/ DuplicateForm(c) \/ PutTemplate(c) \/ InsertForm(c) \/ FailCreation(c)

Configure == \E r \in Configurations :
  \/ \E f \in Forms, s \in Sessions : ReadForRule(r, f, s)
  \/ \E rule \in Rules, previous \in Tags \cup {None} : pc[r] = "configure" /\ CommitRule(r, rule, previous)
  \/ RefuseRule(r)

Author == \E f \in Forms :
  \/ \E s \in Sessions : OpenEditor(f, s)
  \/ CloseEditor(f) \/ OperationLate(f)

Operate ==
  \/ \E o \in Saves :
       \/ \E f \in Forms, s \in Sessions : BeginSave(o, f, s) \/ BeginPublish(o, f, s)
       \/ \E tags \in SUBSET Tags : CompleteSave(o, tags) \/ CompletePublish(o, tags)
       \/ FailSave(o)
  \/ \E f \in Forms, o \in objects : RemoveReplaced(f, o)

Administer(busy) ==
  \/ \E e \in Edits, f \in Forms :
       \/ \E status \in {"published", "archived"} : SetStatus(e, f, status)
       \/ \E fill \in {"onlyoffice", "native"} : SetFill(e, f, fill, busy)
  \/ \E d \in Discards, f \in Forms, s \in Sessions : DeleteForm(d, f, s)

CatalogNext(busy) == Create \/ Configure \/ Author \/ Operate \/ Administer(busy)

-----------------------------------------------------------------------------
(* Properties                                                              *)

\* The document of every form there is, is there: no cleanup takes an object
\* that became a form's document.
FormsStored == FormDocuments \subseteq objects

\* What was published is what the rules said, when a request to change one was
\* answered before, and it is about the fields of the document; a pointer fills
\* one field, and only what it fills can be locked.
PublishedAsConfigured ==
  \A f \in Forms : Published(f) => LET p == form[f].published IN
    /\ p.rules = form[f].rules
    /\ \A r \in p.rules : r.tag \in p.tags /\ (r.lock => r.pointer # None)
    /\ \A r, q \in p.rules : r.pointer = q.pointer /\ r.pointer # None => r = q
===============================================================================
