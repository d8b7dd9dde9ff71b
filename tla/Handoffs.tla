------------------------------- MODULE Handoffs -------------------------------
(***************************************************************************)
(* Prefill handoffs and the deletion of Responses.                         *)
(*                                                                         *)
(* An external system creates a handoff under a reference of its own, the  *)
(* browser launches it and gets a claim, and starting the Form with that   *)
(* claim redeems it into a draft.  Meanwhile a timer and the status poll   *)
(* expire what is due, administrators delete Responses and move accounts   *)
(* to other addresses, and the Form is archived.                           *)
(*                                                                         *)
(* A request reads, works on objects, and commits a transaction; the       *)
(* transactions of handoffs, starts and deletions are serializable, those  *)
(* of the sweep and of an account are not.  A Form is published once, so   *)
(* its template and its prefill configuration do not change here.          *)
(*                                                                         *)
(* A start that was not to keep its document looks whether a row refers to *)
(* it and removes it in one step: no row but its own could come to.  A     *)
(* transaction whose answer is lost is taken to have taken effect before.  *)
(***************************************************************************)
EXTENDS FormCatalog

CONSTANTS Form,        \* published at the start, in the crowds that name it
          Users,       \* of the Form; an account's first address is its name
          Emails,      \* addresses handoffs are made out to
          References,  \* of the external system
          Handoffs,    \* requests to create one
          Starts,      \* requests POST /start; one that finds no Response names it
          Submissions, \* requests to submit a draft
          Removals,    \* requests to delete a Response
          Sweeps,      \* runs of the expiry timer, and polls that expire
          Moves        \* changes of an account's address

\* Rows of handoffs and of Responses, whose documents are named by Responses and requests.
HandoffRows == [ref : References, email : Emails \cup {None}, lifetime : {"code", "claim"},
                status : {"pending", "reserved", "consumed", "expired", "deleted"},
                response : Starts \cup {None}, deleted : Starts \cup {None}]
Responses == [id : Starts, status : {"draft", "submitting", "submitted"},
              draft : [of : Starts, name : Starts] \cup {None}, submissions : SUBSET Submissions,
              ref : References \cup {None}, prefill : Handoffs \cup {None}]

Catalogers == Creations \cup Saves \cup Configurations \cup Edits \cup Discards \cup Reapers

ASSUME HandoffNames ==
  /\ Form \in Forms \ Creations /\ Users \subseteq Emails
  /\ Handoffs \cup Starts \cup Submissions \cup Removals \cup Moves \subseteq Clients
  /\ Forms \cap Starts = {} /\ Submissions \cap (Handoffs \cup Starts) = {}
  /\ Catalogers \cap (Handoffs \cup Starts \cup Submissions \cup Removals \cup Moves) = {}
  /\ None \notin Emails \cup References \cup Sweeps \cup HandoffRows \cup Responses

VARIABLES address,     \* of an account
          handoff,     \* rows of handoffs
          claim,       \* of a handoff: none, open, used
          passed,      \* lifetimes of codes and claims that are over
          response,    \* of a User to the Form
          tombstones,  \* of deleted Responses
          sweep        \* what a sweep has read

prefill == <<address, handoff, claim, response, tombstones>>
vars    == <<catalog, store, prefill, passed, sweep, pc, plan>>

Init ==
  /\ \E crowd \in Crowds :
       CatalogInit(crowd) /\ address = [u \in Users |-> IF u \in crowd THEN u ELSE None]
  /\ handoff = [h \in Handoffs |-> None] /\ claim = [h \in Handoffs |-> "none"]
  /\ response = [u \in Users |-> None]
  /\ passed = {} /\ tombstones = {}
  /\ sweep = [w \in Sweeps |-> None]

Status(u)   == IF response[u] = None THEN "none" ELSE response[u].status
Has(u, id)  == response[u] # None /\ response[u].id = id
Deleted(id) == \E t \in tombstones : t.id = id
Dead(ref)   == \E t \in tombstones : t.ref = ref
Of(ref)     == {h \in Handoffs : handoff[h] # None /\ handoff[h].ref = ref}
Over(h, at) == <<h, handoff[h].lifetime>> \in at
Waiting(h)  == handoff[h] # None /\ handoff[h].status \in {"pending", "reserved"}
Pending(id) == {i \in intents : i.of = id}

Configured == Published(Form) /\ \E r \in form[Form].published.rules : r.pointer # None

\* publishedPrefillConfiguration: of a Form that is published and has one.
Configuration == Configured /\ form[Form].status = "published"

\* An archived Form is open to the Users who have a Response.
Open(u) == Published(Form) /\ (form[Form].status = "published" \/ response[u] # None)

-----------------------------------------------------------------------------
(* Creating and launching                                                  *)

\* A reference is used once, and not again after what it led to was deleted.
Unused(ref) == Of(ref) = {} /\ ~Dead(ref)

CreateHandoff(h, ref, email) ==
  /\ Configuration /\ Unused(ref)
  /\ Finish(h, "idle")
  /\ handoff' = [handoff EXCEPT ![h] =
                   [ref |-> ref, email |-> email, status |-> "pending", lifetime |-> "code",
                    response |-> None, deleted |-> None]]
  /\ UNCHANGED <<address, claim, response, tombstones, store, passed>>

\* A launch locks the row, takes the time and commits; nobody else writes the row
\* in between, but time goes on.
ReadForLaunch(h) ==
  /\ Configuration
  /\ handoff[h] # None /\ handoff[h].status = "pending" /\ ~Over(h, passed)
  /\ Goto(h, "done", "launch")
  /\ UNCHANGED <<prefill, store, passed, plan>>

Locked(hs) == \E h \in hs : pc[h] = "launch"

\* The claim has a lifetime of its own, and the handoff takes it over.
LaunchHandoff(h) ==
  /\ Finish(h, "launch")
  /\ \/ /\ claim' = [claim EXCEPT ![h] = "open"]
        /\ handoff' = [handoff EXCEPT ![h].status = "reserved", ![h].lifetime = "claim"]
     \/ UNCHANGED <<claim, handoff>>
  /\ UNCHANGED <<address, response, tombstones, store, passed>>

\* Two minutes for a code, ten for a claim.
Elapse(h) ==
  /\ Waiting(h) /\ ~Over(h, passed)
  /\ passed' = passed \cup {<<h, handoff[h].lifetime>>}
  /\ UNCHANGED <<catalog, prefill, sweep, store, pc, plan>>

-----------------------------------------------------------------------------
(* Expiring                                                                *)

Expired(h) == [handoff[h] EXCEPT !.email = None, !.status = "expired"]

\* Mutant of Due: only codes expire.
DueCodes == {h \in Handoffs : Waiting(h) /\ Over(h, passed) /\ handoff[h].status = "pending"}

Due == {h \in Handoffs : Waiting(h) /\ Over(h, passed)}

\* The sweep takes the time and reads what is due by then; a poll looks at the
\* handoff it was asked for.
ReadDue(w) ==
  /\ \E due \in {Due} \cup {{h} : h \in Due} :
       due # {} /\ sweep' = [sweep EXCEPT ![w] = [due |-> due, now |-> passed]]
  /\ sweep[w] = None
  /\ UNCHANGED <<prefill, store, passed, pc, plan>>

\* Mutant of StillDue: what was read is expired whatever became of it.
WasDue(w, h) == h \in sweep[w].due /\ Waiting(h)

\* The update asks again: launched since, or redeemed, it is left alone.
StillDue(w, h) == h \in sweep[w].due /\ Waiting(h) /\ Over(h, sweep[w].now)

ExpireDue(w) ==
  /\ sweep[w] # None /\ ~Locked(sweep[w].due)
  /\ sweep' = [sweep EXCEPT ![w] = None]
  /\ handoff' = [h \in Handoffs |-> IF StillDue(w, h) THEN Expired(h) ELSE handoff[h]]
  /\ claim' = [h \in Handoffs |-> IF StillDue(w, h) THEN "none" ELSE claim[h]]
  /\ UNCHANGED <<address, response, tombstones, store, passed, pc, plan>>

-----------------------------------------------------------------------------
(* Starting                                                                *)

\* What POST /start asks for before it works on objects.  With a claim, a
\* submitted Response gives its receipt; without one, a draft is returned.
MayStart(u, h) ==
  /\ address[u] # None /\ Open(u)
  /\ IF h # None THEN (Configured \/ Status(u) = "submitted") /\ Status(u) # "submitting"
     ELSE /\ Status(u) \in {"none", "submitted"}
          /\ Configured => Status(u) # "none"

HintedId(s, u) == IF response[u] = None THEN s ELSE response[u].id

\* The claim is the browser's: any that was launched.  Without one, or for a
\* draft to redeem into, a document is stored under the Response that was read
\* and under its id, which the transaction keeps if it finds no Response.
ReadForStart(s, u, h) ==
  /\ MayStart(u, h)
  /\ h # None => handoff[h] # None /\ handoff[h].lifetime = "claim"
  /\ LET id      == HintedId(s, u)
         receipt == h # None /\ Status(u) = "submitted"
     IN  /\ Goto(s, "idle", IF receipt THEN "receipt" ELSE IF h # None THEN "redeem" ELSE "seed")
         /\ Know(s, [user |-> u, email |-> address[u], claim |-> h, id |-> id])
         /\ objects' = IF receipt THEN objects ELSE objects \cup {Object(id, s)}
  /\ UNCHANGED <<graced, prefill, intents, passed>>

\* Stored under the Response that was read.
Document(s) == Object(plan[s].id, s)

\* A draft without values, in a Response there is or in a new one.
Seeded(s, r) == IF r = None
                THEN [id |-> plan[s].id, status |-> "draft", draft |-> Document(s), submissions |-> {},
                      ref |-> None, prefill |-> None]
                ELSE [r EXCEPT !.status = "draft", !.draft = Document(s), !.prefill = None]

\* A transaction that took effect; what was stored is wanted, unless the answer
\* is lost and the request takes it for a failure.
Committed(s, from) == Finish(s, from) \/ (Goto(s, from, "discard") /\ UNCHANGED plan)

CommitStart(s) ==
  LET u == plan[s].user
  IN  /\ Committed(s, "seed")
      /\ Open(u) /\ Status(u) \in {"none", "submitted"}
      /\ response' = [response EXCEPT ![u] = Seeded(s, @)]
      /\ UNCHANGED <<address, handoff, claim, tombstones, store, passed>>

\* Refused, undone by a conflict, failed, or a start that found a draft.
RollBack(s) ==
  /\ pc[s] \in {"seed", "redeem"}
  /\ Goto(s, pc[s], "discard")
  /\ UNCHANGED <<prefill, store, passed, plan>>

\* What both transactions that consume a claim ask of it, for this identity.
Redeemable(s) ==
  LET h == plan[s].claim IN
  /\ Configuration
  /\ handoff[h] # None /\ handoff[h].status = "reserved" /\ claim[h] = "open"
  /\ ~Over(h, passed) /\ handoff[h].email = plan[s].email

Consume(h, id) ==
  /\ handoff' = [handoff EXCEPT ![h].status = "consumed", ![h].response = id]
  /\ claim' = [claim EXCEPT ![h] = "used"]

\* Mutant of Prefilled: a draft that is there takes the values over.
PrefilledOver(s, r) ==
  IF r = None
  THEN [Seeded(s, None) EXCEPT !.ref = handoff[plan[s].claim].ref, !.prefill = plan[s].claim]
  ELSE [r EXCEPT !.prefill = plan[s].claim]

\* A draft that is there is kept as it is, and the values are dropped.
Prefilled(s, r) ==
  IF r = None
  THEN [Seeded(s, None) EXCEPT !.ref = handoff[plan[s].claim].ref, !.prefill = plan[s].claim]
  ELSE r

\* Reference digests of Responses are unique.
ReferenceFree(ref) == ~Dead(ref) /\ \A u \in Users : response[u] # None => response[u].ref # ref

RedeemHandoff(s) ==
  LET u == plan[s].user
      h == plan[s].claim
      redeems == /\ Redeemable(s) /\ ~Dead(handoff[h].ref)
                 /\ \/ Status(u) = "draft"
                    \/ Status(u) = "none" /\ ReferenceFree(handoff[h].ref)
      new == Prefilled(s, response[u])
  IN  /\ pc[s] = "redeem" /\ redeems
      /\ IF response[u] = None THEN Committed(s, "redeem")
         ELSE Goto(s, "redeem", "discard") /\ UNCHANGED plan
      /\ Consume(h, new.id)
      /\ response' = [response EXCEPT ![u] = new]
      /\ UNCHANGED <<address, tombstones, store, passed>>

ConsumeSubmitted(s) ==
  LET u == plan[s].user
      h == plan[s].claim
  IN  /\ Finish(s, "receipt")
      /\ IF Redeemable(s) /\ handoff[h].response = None /\ Has(u, plan[s].id) /\ Status(u) = "submitted"
         THEN Consume(h, plan[s].id) ELSE UNCHANGED <<handoff, claim>>
      /\ UNCHANGED <<address, response, tombstones, store, passed>>

\* The documents of a Response.
Keys(r) == ({r.draft} \ {None}) \cup {Object(r.id, x) : x \in r.submissions}

\* The objects rows refer to.
Canonical(o) == \/ o \in FormDocuments
                \/ \E u \in Users : response[u] # None /\ o \in Keys(response[u])

\* Mutant of Discard: the request ends without it.
Keep(s) == Finish(s, "discard") /\ UNCHANGED <<prefill, store, passed>>

\* A document nothing came to refer to is removed by the request that stored it.
\* When the store refuses, the request is over all the same, and nothing
\* records the document.
Discard(s) ==
  /\ \/ Finish(s, "discard") /\ objects' = IF Canonical(Document(s)) THEN objects ELSE objects \ {Document(s)}
     \/ Goto(s, "discard", "left") /\ ~Canonical(Document(s)) /\ Know(s, None) /\ UNCHANGED objects
  /\ UNCHANGED <<prefill, intents, graced, passed>>

-----------------------------------------------------------------------------
(* Submitting, with an operation that is active meanwhile                  *)

BeginSubmit(x, u) ==
  /\ Status(u) = "draft"
  /\ Goto(x, "idle", "processing") /\ Know(x, u)
  /\ response' = [response EXCEPT ![u].status = "submitting"]
  /\ UNCHANGED <<address, handoff, claim, tombstones, store, passed>>

\* The operation's row names the draft that is replaced.
EndSubmit(x) ==
  LET r == response[plan[x]] IN
  /\ Goto(x, "processing", "done") /\ Know(x, r.draft)
  /\ response' = [response EXCEPT ![plan[x]].status = "submitted", ![plan[x]].draft = None,
                                  ![plan[x]].submissions = @ \cup {x}]
  /\ objects' = objects \cup {Object(r.id, x)}
  /\ UNCHANGED <<graced, address, handoff, claim, intents, tombstones, passed>>

FailSubmit(x) ==
  /\ Finish(x, "processing")
  /\ response' = [response EXCEPT ![plan[x]].status = "draft"]
  /\ UNCHANGED <<address, handoff, claim, tombstones, store, passed>>

-----------------------------------------------------------------------------
(* Deleting                                                                *)

\* A tombstone is looked for first: with one, what is left is only removed.
ReadForRemoval(d, id) ==
  /\ Deleted(id) \/ \E u \in Users : Has(u, id)
  /\ Goto(d, "idle", IF Deleted(id) THEN "drain" ELSE "erase")
  /\ Know(d, id)
  /\ UNCHANGED <<prefill, store, passed>>

\* The drafts its submissions replaced (cleanupObjectKeys).
ReplacedIn(r) == {plan[x] : x \in r.submissions}

\* Removed as those of forms are; the rows go with the Response.
RemoveReplacedIn(u, o) ==
  /\ response[u] # None /\ o \in ReplacedIn(response[u])
  /\ objects' = objects \ {o}
  /\ UNCHANGED <<prefill, intents, graced, passed, pc, plan>>

\* Mutant of Candidates: what rows of operations name is left out.
KeysOnly(r) == Keys(r)

\* What is to be removed with a Response.
Candidates(r) == Keys(r) \cup ReplacedIn(r)

\* responseDeletionKeyBelongs
Belong(r) == \A o \in Candidates(r) : o.of = r.id

\* Handoffs redeemed into the Response, and the one whose reference it bears.
Leading(r) == {h \in Handoffs : /\ handoff[h] # None
                                /\ handoff[h].response = r.id \/ handoff[h].ref = r.ref}

\* The rows go in one transaction, which leaves the intents to remove the
\* objects; an active operation, or an object stored elsewhere, keeps it from
\* happening.
EraseRows(d, u) ==
  LET r    == response[u]
      gone == Leading(r)
  IN  /\ Has(u, plan[d]) /\ r.status # "submitting" /\ Belong(r) /\ ~Locked(gone)
      /\ Goto(d, "erase", "drain")
      /\ response' = [response EXCEPT ![u] = None]
      /\ intents' = intents \cup Candidates(r)
      /\ handoff' = [h \in Handoffs |->
                       IF h \in gone THEN [handoff[h] EXCEPT !.email = None, !.status = "deleted",
                                                             !.response = None, !.deleted = r.id]
                       ELSE handoff[h]]
      /\ claim' = [h \in Handoffs |-> IF h \in gone THEN "none" ELSE claim[h]]
      /\ tombstones' = tombstones \cup {[id |-> r.id, ref |-> r.ref]}
      /\ UNCHANGED <<graced, address, passed, objects, plan>>

\* Not found, or not to be deleted now.
RefuseRemoval(d) ==
  /\ \A u \in Users : Has(u, plan[d]) => response[u].status = "submitting" \/ ~Belong(response[u])
  /\ Finish(d, "erase")
  /\ UNCHANGED <<prefill, store, passed>>

\* deleteObjectUnlessCanonical
Removable(o) == o \in intents /\ \A u \in Users : response[u] # None => o \notin Keys(response[u])

\* The store removes every object or, failing, some; an intent goes with its
\* object.  The request answers that objects remain, or that none do.
Drain(d) ==
  /\ \E kept \in SUBSET Pending(plan[d]) :
       LET removed == {o \in Pending(plan[d]) \ kept : Removable(o)} IN
       objects' = objects \ removed /\ intents' = intents \ removed
  /\ Finish(d, "drain")
  /\ UNCHANGED <<graced, address, handoff, claim, response, tombstones, passed>>

-----------------------------------------------------------------------------
(* What happens to the account and to the Form                             *)

ReadForMove(m, u, email) ==
  /\ address[u] # None /\ email \notin {address[w] : w \in Users}
  /\ Goto(m, "idle", "move")
  /\ Know(m, [user |-> u, email |-> email,
              stale |-> {h \in Handoffs : /\ handoff[h] # None
                                          /\ handoff[h].email = address[u]
                                          /\ handoff[h].response = None}])
  /\ UNCHANGED <<prefill, store, passed>>

\* The rows are deleted by the ids that were read.
CommitMove(m) ==
  /\ Finish(m, "move") /\ ~Locked(plan[m].stale)
  /\ address' = [address EXCEPT ![plan[m].user] = plan[m].email]
  /\ handoff' = [h \in Handoffs |-> IF h \in plan[m].stale THEN None ELSE handoff[h]]
  /\ claim' = [h \in Handoffs |-> IF h \in plan[m].stale THEN "none" ELSE claim[h]]
  /\ UNCHANGED <<response, tombstones, store, passed>>

-----------------------------------------------------------------------------
Reap == \E w \in Reapers : (\E o \in intents : CheckIntent(w, o, Canonical(o))) \/ RemoveObject(w)

\* An operation on a Response to the form.
Busy == \E x \in Submissions : pc[x] = "processing"

Apart == UNCHANGED <<prefill, passed, sweep>>

Expire == (\E w \in Sweeps : ReadDue(w) \/ ExpireDue(w)) /\ UNCHANGED catalog

HandoffNext ==
  \/ \E h \in Handoffs :
       \/ \E ref \in References, email \in Emails : CreateHandoff(h, ref, email)
       \/ ReadForLaunch(h) \/ LaunchHandoff(h) \/ Elapse(h)
  \/ \E s \in Starts :
       \/ \E u \in Users, h \in Handoffs \cup {None} : ReadForStart(s, u, h)
       \/ CommitStart(s) \/ RedeemHandoff(s) \/ RollBack(s) \/ Discard(s) \/ ConsumeSubmitted(s)
  \/ \E x \in Submissions : (\E u \in Users : BeginSubmit(x, u)) \/ EndSubmit(x) \/ FailSubmit(x)
  \/ \E u \in Users, o \in objects : RemoveReplacedIn(u, o)
  \/ \E d \in Removals :
       \/ \E id \in Starts : ReadForRemoval(d, id)
       \/ \E u \in Users : EraseRows(d, u)
       \/ RefuseRemoval(d) \/ Drain(d)
  \/ \E m \in Moves : (\E u \in Users, email \in Emails : ReadForMove(m, u, email)) \/ CommitMove(m)

Next ==
  \/ CatalogNext(Busy) /\ Apart
  \/ (\E o \in graced : GraceOver(o)) /\ Apart
  \/ Reap /\ Apart
  \/ Expire
  \/ HandoffNext /\ UNCHANGED <<catalog, sweep>>

Spec == Init /\ [][Next]_vars

\* Time goes on, the timer runs every minute, and again after a restart, and a
\* transaction that was begun ends.
FairSpec == /\ Spec /\ WF_vars(Expire)
            /\ \A h \in Handoffs : WF_vars(Elapse(h)) /\ WF_vars(LaunchHandoff(h) /\ UNCHANGED <<catalog, sweep>>)

-----------------------------------------------------------------------------
(* Properties                                                              *)

\* externalPrefillStatus
StatusOf(h) ==
  IF handoff[h].status \in {"deleted", "expired"} THEN handoff[h].status
  ELSE IF handoff[h].response = None THEN "pending"
  ELSE IF \E u \in Users : Has(u, handoff[h].response) /\ Status(u) = "submitted" THEN "submitted"
  ELSE "draft"

\* What the status poll tells the external system of a reference.
Answer(ref) ==
  LET dead == {t \in tombstones : t.ref = ref}
      h    == CHOOSE h \in Of(ref) : TRUE
  IN  IF dead # {} THEN IF \E t \in dead : Pending(t.id) # {} THEN "unavailable" ELSE "deleted"
      ELSE IF Of(ref) = {} \/ Pending(handoff[h].deleted) # {} THEN "unavailable"
      ELSE StatusOf(h)

\* Responses a reference led to and that are deleted.
LedTo(ref) == {t.id : t \in {t \in tombstones : t.ref = ref}} \cup {handoff[h].deleted : h \in Of(ref)}

\* A start may still take the document over, or remove it; or it could not.
InFlight(o) == o.name \in Starts /\ pc[o.name] \in {"seed", "redeem", "discard"}
Left(o)     == o.name \in Starts /\ pc[o.name] = "left"

\* The row of a completed operation names it.
Named(o) == \/ \E f \in Forms : form[f] # None /\ o \in Replaced(f)
            \/ \E u \in Users : response[u] # None /\ o \in ReplacedIn(response[u])

Remaining(id) == {o \in objects : o.of = id /\ ~(Canonical(o) \/ Named(o) \/ InFlight(o) \/ Left(o))}

\* The external system is told of a deletion only when no document of the deleted
\* Response is left, however often the store failed to remove those its rows named;
\* but for one a start stored and is about to discard, or was refused to.
ReportedDeleted ==
  \A ref \in References : \A id \in LedTo(ref) : Answer(ref) = "deleted" => Remaining(id) = {}

\* A draft holds the values of one handoff, which it consumed and whose
\* reference it bears, and a configured Form has no Response without one.
PrefillAccounted ==
  \A u \in Users : response[u] # None => LET r == response[u] IN
    /\ r.prefill # None /\ handoff[r.prefill] # None =>
         handoff[r.prefill].response = r.id /\ handoff[r.prefill].ref = r.ref
    /\ Configured /\ ~Deleted(r.id) => r.ref # None

\* A handoff expires when the lifetime it has then is over: not by the time of
\* its code when it was launched meanwhile, and not after it was redeemed.
ExpiresInTime ==
  [][\A h \in Handoffs :
       LET expires == /\ handoff'[h] # handoff[h] /\ handoff[h] # None
                      /\ handoff'[h] # None /\ handoff'[h].status = "expired"
       IN  expires => Waiting(h) /\ Over(h, passed)]_vars

\* A handoff does not wait for ever.
HandoffsSettle == \A h \in Handoffs : Waiting(h) ~> ~Waiting(h)

\* A document no row refers to is known to a cleanup intent, to the row of the
\* operation that replaced it, or to the start that stored it; a creation's also
\* when it failed or its server stopped.  Only the draft of a start is forgotten,
\* when the store refuses to discard it or the server stops before.
NoneForgotten ==
  \A o \in objects : Canonical(o) \/ o \in intents \/ Named(o) \/ InFlight(o) \/ Left(o)

\* What is deleted is not there again.
ErasedForGood == \A u \in Users : response[u] # None => ~Deleted(response[u].id)
===============================================================================
