--------------------------- MODULE ResponseLifecycle ---------------------------
(***************************************************************************)
(* One Response of one User to one Form over its whole life: it is         *)
(* started, saved and submitted, reopened and submitted again, while       *)
(* administrators correct what was submitted.                              *)
(*                                                                         *)
(* Every request reads rows, works on objects and commits a transaction    *)
(* later; the transaction repeats some of the checks and not others, and   *)
(* that is what the module is about.  The inside of an operation is        *)
(* OperationLifecycle; here an operation is its check before the           *)
(* completing transaction, that transaction, and its failure.              *)
(*                                                                         *)
(* A document and the data that goes with it are named by the process that *)
(* wrote them: a start seeds a draft, an attempt saves or submits one, a   *)
(* correction writes a revision.                                           *)
(***************************************************************************)
EXTENDS Naturals, Sequences, SequencesExt

CONSTANTS Starts,      \* requests POST /start of the User, from any tab
          Attempts,    \* requests to save or to submit the draft
          Editors,     \* correction editors opened by administrators
          Amendments,  \* requests POST /corrections
          Template,    \* the Published Template
          None

ASSUME ProcessesAreDistinct ==
  /\ Starts \cap Attempts = {} /\ Starts \cap Amendments = {}
  /\ Attempts \cap Amendments = {}
  /\ Editors \cap (Starts \cup Attempts \cup Amendments) = {}
  /\ {None, Template} \cap (Starts \cup Attempts \cup Editors \cup Amendments) = {}
  /\ None # Template

VARIABLES status,      \* Response.status, "none" before the row exists
          draft,       \* draftDocumentKey and draftObjectKey
          seed,        \* what the first version of the draft was copied from
          submissions, \* submissions in the order of createdAt
          corrections, \* corrections in the order of revision
          lease,       \* the editor lease on the correction target
          operation,   \* Operation.status of attempts and amendments
          pc,          \* where a process stands
          plan         \* what it read

rows == <<status, draft, seed, submissions, corrections>>
vars == <<rows, lease, operation, pc, plan>>

Operations == Attempts \cup Amendments
Processes  == Starts \cup Editors \cup Operations

Active(p) == operation[p] = "active"

\* response.submissions[0] ordered by createdAt descending, and the document
\* that the correction pages take to be the current one.
LatestSubmission == Last(submissions)
LatestVersion == IF corrections = <<>> THEN LatestSubmission ELSE Last(corrections).by

Init ==
  /\ status = "none" /\ draft = None /\ seed = None
  /\ submissions = <<>> /\ corrections = <<>>
  /\ lease = None
  /\ operation = [p \in Operations |-> "none"]
  /\ pc = [p \in Processes |-> "idle"]
  /\ plan = [p \in Processes |-> None]

Goto(p, from, to) == pc[p] = from /\ pc' = [pc EXCEPT ![p] = to]
Finish(p) == pc' = [pc EXCEPT ![p] = "done"]
Remember(p, what) == plan' = [plan EXCEPT ![p] = what]

-----------------------------------------------------------------------------
(* Starting and reopening                                                  *)

\* POST /start reads the Response and chooses the document of the new draft.
ReadForStart(s) ==
  /\ status \in {"none", "submitted"}
  /\ Goto(s, "idle", "seeding")
  /\ Remember(s, IF status = "none" THEN Template ELSE LatestSubmission)
  /\ UNCHANGED <<rows, lease, operation>>

Reopen(s) ==
  /\ status' = "draft" /\ draft' = s /\ seed' = plan[s]
  /\ UNCHANGED <<submissions, corrections>>

\* Mutant of CommitStart: the transaction replaces whatever draft it finds.
CommitStartUnchecked(s) ==
  /\ Goto(s, "seeding", "done")
  /\ IF status = "submitting" THEN UNCHANGED rows ELSE Reopen(s)
  /\ UNCHANGED <<lease, operation, plan>>

\* Its transaction returns the draft another request made meanwhile, refuses
\* while a submission is processed, and otherwise stores the draft it prepared.
CommitStart(s) ==
  /\ Goto(s, "seeding", "done")
  /\ IF status \in {"draft", "submitting"} THEN UNCHANGED rows ELSE Reopen(s)
  /\ UNCHANGED <<lease, operation, plan>>

-----------------------------------------------------------------------------
(* Saving and submitting                                                   *)

NoneActive(ops) == \A p \in ops : ~Active(p)

\* The route's early reads; activeOperationForResponse sees corrections too.
ReadForAttempt(a, action) ==
  /\ status = "draft" /\ NoneActive(Operations)
  /\ Goto(a, "idle", "create")
  /\ Remember(a, [action |-> action, base |-> draft])
  /\ UNCHANGED <<rows, lease, operation>>

\* The creating transaction looks for operations of the draft only, and only a
\* submission looks at the Response.
CreateAttempt(a) ==
  /\ Goto(a, "create", "build")
  /\ NoneActive(Attempts)
  /\ IF plan[a].action = "submit"
     THEN status = "draft" /\ status' = "submitting"
     ELSE status' = status
  /\ operation' = [operation EXCEPT ![a] = "active"]
  /\ UNCHANGED <<draft, seed, submissions, corrections, lease, plan>>

\* The check before the completing transaction.
CheckAttempt(a) ==
  /\ Active(a)
  /\ status = IF plan[a].action = "submit" THEN "submitting" ELSE "draft"
  /\ draft = plan[a].base
  /\ Goto(a, "build", "commit")
  /\ UNCHANGED <<rows, lease, operation, plan>>

SaveDraft(a) ==
  /\ status = "draft" /\ draft = plan[a].base
  /\ draft' = a
  /\ UNCHANGED <<status, seed, submissions, corrections>>

\* A submission relies on the Response being in submitting.
Submit(a) ==
  /\ status = "submitting"
  /\ status' = "submitted" /\ draft' = None /\ seed' = None
  /\ submissions' = Append(submissions, a)
  /\ UNCHANGED corrections

CommitAttempt(a) ==
  /\ Active(a)
  /\ Goto(a, "commit", "done")
  /\ IF plan[a].action = "submit" THEN Submit(a) ELSE SaveDraft(a)
  /\ operation' = [operation EXCEPT ![a] = "completed"]
  /\ UNCHANGED <<lease, plan>>

-----------------------------------------------------------------------------
(* Correcting                                                              *)

\* The correction editor reads the version it copies into a workspace ...
ReadForEditor(e) ==
  /\ status = "submitted"
  /\ Goto(e, "idle", "claim")
  /\ Remember(e, [base |-> LatestVersion, revision |-> Len(corrections)])
  /\ UNCHANGED <<rows, lease, operation>>

\* ... and claims the lease with that workspace: a free one while no correction
\* is processed, or an expired one, which its own holder may take at any time.
ClaimWorkspace(e) ==
  /\ IF lease = None THEN NoneActive(Amendments) ELSE lease.expired
  /\ Goto(e, "claim", "done")
  /\ lease' = [id |-> e, workspace |-> plan[e], expired |-> FALSE]
  /\ UNCHANGED <<rows, operation, plan>>

ExpireLease ==
  /\ lease # None /\ ~lease.expired
  /\ lease' = [lease EXCEPT !.expired = TRUE]
  /\ UNCHANGED <<rows, operation, pc, plan>>

\* The lease is released or reconciled, or goes with the session that held it.
DropLease ==
  /\ lease # None
  /\ lease' = None
  /\ UNCHANGED <<rows, operation, pc, plan>>

\* POST /corrections compares the workspace with the current version.
ReadForAmendment(c) ==
  /\ status = "submitted" /\ NoneActive(Operations)
  /\ lease # None /\ ~lease.expired
  /\ lease.workspace = [base |-> LatestVersion, revision |-> Len(corrections)]
  /\ Goto(c, "idle", "create")
  /\ Remember(c, [lease |-> lease.id, of |-> LatestSubmission,
                  base |-> lease.workspace.base, revision |-> lease.workspace.revision])
  /\ UNCHANGED <<rows, lease, operation>>

\* The creating transaction looks at the lease and at other corrections.
CreateAmendment(c) ==
  /\ Goto(c, "create", "commit")
  /\ NoneActive(Amendments)
  /\ lease # None /\ lease.id = plan[c].lease /\ ~lease.expired
  /\ operation' = [operation EXCEPT ![c] = "active"]
  /\ UNCHANGED <<rows, lease, plan>>

Amend(c) ==
  /\ corrections' = Append(corrections, [by |-> c, of |-> plan[c].of, base |-> plan[c].base])
  /\ lease' = IF lease # None /\ lease.id = plan[c].lease
              THEN [lease EXCEPT !.workspace = None] ELSE lease
  /\ operation' = [operation EXCEPT ![c] = "completed"]
  /\ UNCHANGED <<status, draft, seed, submissions, plan>>

\* Mutant of CommitAmendment: the revision is not compared again.
CommitAmendmentUnchecked(c) ==
  /\ Active(c) /\ status = "submitted"
  /\ Goto(c, "commit", "done")
  /\ Amend(c)

\* Mutant of CommitAmendment: the Response is not looked at again.
CommitAmendmentAnyStatus(c) ==
  /\ Active(c) /\ Len(corrections) = plan[c].revision
  /\ Goto(c, "commit", "done")
  /\ Amend(c)

\* The completing transaction compares the revision and the document of the
\* latest correction, or else of the Submission named by the operation.
CommitAmendment(c) ==
  /\ Active(c) /\ status = "submitted"
  /\ Len(corrections) = plan[c].revision
  /\ plan[c].base = IF corrections = <<>> THEN plan[c].of ELSE Last(corrections).by
  /\ Goto(c, "commit", "done")
  /\ Amend(c)

-----------------------------------------------------------------------------
(* Failing                                                                 *)

\* A request is refused by its transaction, or the transaction is aborted.
Refuse(p) ==
  /\ pc[p] \in {"seeding", "claim", "create"} /\ Finish(p)
  /\ UNCHANGED <<rows, lease, operation, plan>>

\* Mutant of FailOperation: the Response stays in submitting.
FailOnly(p) ==
  /\ Active(p)
  /\ operation' = [operation EXCEPT ![p] = "failed"]
  /\ Finish(p)
  /\ UNCHANGED <<rows, lease, plan>>

\* An operation fails or times out at any moment before it completes, and a
\* failed submission gives the draft back.
FailOperation(p) ==
  /\ Active(p)
  /\ operation' = [operation EXCEPT ![p] = "failed"]
  /\ Finish(p)
  /\ status' = IF p \in Attempts /\ plan[p].action = "submit" /\ status = "submitting"
               THEN "draft" ELSE status
  /\ UNCHANGED <<draft, seed, submissions, corrections, lease, plan>>

\* Every request has been answered and every operation has ended.
Rest == (\A p \in Processes : pc[p] \in {"idle", "done"}) /\ UNCHANGED vars

Next ==
  \/ \E s \in Starts : ReadForStart(s) \/ CommitStart(s)
  \/ \E a \in Attempts :
       \/ \E action \in {"save", "submit"} : ReadForAttempt(a, action)
       \/ CreateAttempt(a) \/ CheckAttempt(a) \/ CommitAttempt(a)
  \/ \E e \in Editors : ReadForEditor(e) \/ ClaimWorkspace(e)
  \/ ExpireLease \/ DropLease
  \/ \E c \in Amendments : ReadForAmendment(c) \/ CreateAmendment(c) \/ CommitAmendment(c)
  \/ \E p \in Processes : Refuse(p)
  \/ \E p \in Operations : FailOperation(p)
  \/ Rest

Spec == Init /\ [][Next]_vars

-----------------------------------------------------------------------------
(* Properties                                                              *)

Seeds          == {Template} \cup Attempts
Drafts         == Starts \cup Attempts
AttemptPlans   == [action : {"save", "submit"}, base : Drafts]
Workspaces     == [base : Operations, revision : Nat]
AmendmentPlans == [lease : Editors, of : Attempts, base : Operations, revision : Nat]
Corrections    == [by : Amendments, of : Attempts, base : Operations]
Leases         == [id : Editors, workspace : Workspaces \cup {None}, expired : BOOLEAN]
Steps          == {"idle", "seeding", "claim", "create", "build", "commit", "done"}

\* Every variable has its type, and the row keeps the database's check that a
\* draft exists exactly while the Response is not submitted.
TypeOK ==
  /\ status \in {"none", "draft", "submitting", "submitted"}
  /\ draft \in Drafts \cup {None}
  /\ seed \in Seeds \cup {None}
  /\ submissions \in Seq(Attempts)
  /\ corrections \in Seq(Corrections)
  /\ lease \in Leases \cup {None}
  /\ operation \in [Operations -> {"none", "active", "completed", "failed"}]
  /\ pc \in [Processes -> Steps]
  /\ plan \in [Processes -> {None} \cup Seeds \cup AttemptPlans \cup Workspaces \cup AmendmentPlans]
  /\ draft # None <=> status \in {"draft", "submitting"}
  /\ status = "submitted" => submissions # <<>>

\* A Response is locked in submitting exactly while a submission is active,
\* over any number of submissions and reopenings.
SubmissionLock ==
  status = "submitting" <=> \E a \in Attempts : Active(a) /\ plan[a].action = "submit"

\* A process that is under way remembers what it read.
PlanInv ==
  /\ \A s \in Starts : pc[s] = "seeding" => plan[s] \in Seeds
  /\ \A a \in Attempts : pc[a] \in {"create", "build", "commit"} => plan[a] \in AttemptPlans
  /\ \A e \in Editors : pc[e] = "claim" => plan[e] \in Workspaces
  /\ \A c \in Amendments : pc[c] \in {"create", "commit"} => plan[c] \in AmendmentPlans

\* At most one save or submission is active, and the draft a checked submission
\* was made from stays in place until the submission commits.
AttemptInv ==
  /\ \A p \in Operations : Active(p) => pc[p] \in {"build", "commit"}
  /\ \A a, b \in Attempts : Active(a) /\ Active(b) => a = b
  /\ \A a \in Attempts :
       Active(a) /\ pc[a] = "commit" /\ plan[a].action = "submit" => draft = plan[a].base

\* The inductive invariant: a submission replaces the draft without looking at it
\* again, so that nothing is lost rests on AttemptInv, and AttemptInv on the lock.
IndInv == TypeOK /\ PlanInv /\ SubmissionLock /\ AttemptInv

\* A draft is replaced only by a save made from it and removed only by a
\* submission made from it: starting the form again from other tabs, or a late
\* operation of an earlier draft, never loses what the User has saved.
NoDraftLost ==
  [][draft # None /\ draft' # draft =>
       \E a \in Attempts : Active(a) /\ operation'[a] = "completed" /\ plan[a].base = draft]_vars

\* Corrections form one chain: each is made from its predecessor, so two
\* administrators never overwrite each other's correction.
CorrectionsChained ==
  \A i \in 2..Len(corrections) : corrections[i].base = corrections[i - 1].by

\* CONTEXT.md: once the User reopens the Response, "new Corrections on the
\* earlier Submission are blocked until it becomes submitted again".
NoCorrectionWhileEditing == [][corrections' # corrections => status = "submitted"]_vars

\* What GET /api/submissions/:id shows of a Submission; the results pages show
\* LatestVersion.
Receipt(s) ==
  LET own == SelectSeq(corrections, LAMBDA c : c.of = s)
  IN  IF own = <<>> THEN s ELSE Last(own).by

\* README.md: "Submitted result details open the latest effective revision" and
\* "Receipts default to latest revision": what administrators see of a submitted
\* Response is what the User sees on the receipt of its latest Submission.
ResultsShowReceipt == status = "submitted" => LatestVersion = Receipt(LatestSubmission)

\* CONTEXT.md: "submitting again after a Submission reopens the Response as a
\* Draft seeded from that Submission's data and document".
DraftSeededFromLatest ==
  draft # None => seed = IF submissions = <<>> THEN Template ELSE LatestSubmission
=============================================================================
