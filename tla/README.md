# Folio Forms: TLA+ models, checks and proofs

Folio Forms is a form server. Administrators author Word templates in an
embedded ONLYOFFICE editor, or with an AI agent, and publish them; users start,
save and submit forms; administrators read and correct what was submitted. One
Bun process (`apps/server`) serves everything. What lasts is in PostgreSQL rows
and in a RustFS object store. The hard behaviour comes from requests,
document-server callbacks, background tasks, timers and restarts that
interleave on those two stores at every `await`, with no transaction over both.

Contents: [inventory](#inventory) · [modules](#modules) · [runs](#runs) ·
[fairness](#fairness) · [proofs](#proofs) ·
[disagreements with the documentation](#disagreements-with-the-documentation) ·
[not modelled](#what-is-not-modelled) · [plan](#plan)

## Inventory

Paths are below `apps/server/src` unless they say otherwise. The status of each
component and all of its files are in `PROJECT.json`.

| component | state | operations | hard behaviour | correct when |
| --- | --- | --- | --- | --- |
| Document operations (`operations/`, `routes/operations`, `routes/onlyoffice`, `routes/response-actions`) | rows `operations`, `callback_claims`; staged and final objects; drafts, submissions, published templates | create, force a save, callback, native save, complete, fail, poll, expire, reconcile | repeated and late callbacks race the save task, a timeout and a crash; a commit whose acknowledgement is lost; objects written before rows | one atomic effect or none; a row's object always exists; the submission lock is always given back |
| Responses, submissions, corrections (`responses/`, `routes/public-forms`, `routes/results`, `routes/submissions`) | rows `responses`, `submissions`, `corrections` | start, reopen, save, submit, correct, read | rows read before the transaction that relies on them; several tabs and administrators | no saved draft is lost; corrections form one chain; readers agree on the effective revision |
| Editor leases (`editor/leases`, `responses/editor`) | row `editor_leases`, with a workspace for corrections | claim, renew, release, expire, take over; cascade from the session | expiry while an operation is processed; takeover; death between copy and claim | one editor per document; its workspace is its own and exists |
| Object cleanup intents (`operations/object-cleanup`, a database trigger) | rows `object_cleanup_intents` | record, become due, drain, drop | look-up and deletion are two steps; the store refuses | nothing referenced is removed; what is left behind is removed in the end |
| AI authoring workspaces (`ai-authoring*`, `routes/ai-authoring`) | in memory: workspaces, reservations, owners being ended; temporary directories | create, revise, download, end, expire, sign out, revoke | every `await`; two endings of one owner; cancelled generations; failing deletions | one workspace per session; nothing survives a revocation; endings return |
| Authentication sessions (`auth/`, `routes/auth`, `packages/auth`) | `session`, login throttling | sign in, sign out, change password | sign-in racing a disablement, password change racing a reset | a disabled account has no session; throttling counts |
| Account administration (`accounts/`, `routes/accounts`) | `user`, `account` | create, enable, disable, promote, demote, reset, delete | two administrators acting on each other | an enabled administrator remains; the actor still was one at commit |
| Legacy SSO accounts and links (`legacy-sso/`) | links, link requests with generations | resolve, request, review, transfer | a review of what has changed since it was read | one account per SSO identity; single-use tokens |
| Prefill handoffs (`prefill/`) | `handoffs`, `pending_claims`, snapshots | create, launch, redeem, consume, expire, delete | redemption racing expiry and deletion | used once, by one User, never after its end |
| Form catalog and authoring (`forms/`, `routes/form-catalog`, `routes/form-authoring`) | `forms`, template drafts, field rules | create, duplicate, configure, archive, delete | objects made before rows behind a grace period; lock order | no form without its document |
| Response deletion (`responses/deletion`) | tombstones, intents | delete, erase, retry | racing operations on the same Response | nothing of an erased Response remains or comes back |
| DOCX documents (`documents/`) | none | read, validate and fill content controls | boundary cases of XML packages | values read back are the values filled in |
| Document worker (`document-worker*`) | running jobs, containers | run, time out, restart | a container that outlives its request | at most two jobs; no container outlives its job |
| ONLYOFFICE plugin (`apps/onlyoffice-plugin`) | the frozen editor, pending saves and capabilities | freeze, flush, act, poll | messages with a host that may reload | the editor is never left frozen |
| Web application (`apps/web`) | bridge, dirty flags, leases in a tab | open, renew, navigate, poll | answers that arrive after the page moved on | success is never shown before the commit |
| Clients (`storage`, `onlyoffice`) | none | upload, delete, command, convert | an effect whose answer is lost | seen through the modules that call them |
| Audit log, HTTP input, composition, administration pages, prefill mock | append-only rows; none | | | |

How they meet: a route reads rows, checks a capability and its lease, and
creates an **operation** under the lock of the form and of the lease. A task
that is not awaited asks the document server to save; the document server calls
back, and whoever consumes the single-use claim uploads the document and commits
rows of the **response** or template. The minute timer and every start of the
process reconcile what never ended. A **correction** edits a copy, the
workspace, that belongs to the **lease**; the lease dies with the browser
**session**, and a trigger turns what it leaves into a **cleanup intent**. A
revoked session also ends its **AI workspace**, in memory.

The hazards of this code are listed in `PROJECT.json` at the lines where they
bite, with the properties that cover them.

## Modules

| module | what it is | lines of the code |
| --- | --- | --- |
| `OperationLifecycle` | one step per stretch of code between two awaits of a document operation | `operations/*`, `routes/onlyoffice.ts`, `routes/response-actions.ts` |
| `DocumentOutcomes` | what an operation promises: accepted, then completed on the version it was made from, or failed without a trace | abstract |
| `OperationLifecycleProofs` | its theorems | |
| `ResponseLifecycle` | one Response from its first start over submissions, reopenings and corrections; the inside of an operation is reduced to its check, its commit and its failure | `routes/public-forms.ts`, `routes/response-actions.ts`, `operations/response-completion.ts`, `routes/results.ts`, `responses/query.ts` |
| `ResponseLifecycleProofs` | its theorems | |
| `CorrectionWorkspaces` | the lease on corrections, the workspaces edited under it, cleanup intents and the trigger that records them | `editor/leases.ts`, `responses/editor.ts`, `operations/object-cleanup.ts`, `operations/recovery.ts`, the migration of the trigger |
| `AuthoringSessions` | the in-memory AI workspaces | `ai-authoring.ts`, `routes/auth.ts`, `routes/ai-authoring.ts` |
| `AuthoringSessionsProofs` | its theorems | |
| `Accounts` | accounts, sessions, passwords and legacy links in one database, with its locks | `accounts/*`, `legacy-sso/accounts.ts`, `legacy-sso/routes.ts`, `routes/accounts.ts`, `routes/auth.ts`, `auth/*`, `packages/auth` |
| `AccountsProofs` | its theorems | |
| `FormCatalog` | forms, their rules and documents, and the cleanup intents behind them | `routes/form-catalog.ts`, `routes/form-authoring.ts`, `forms/*` |
| `Handoffs` | extends `FormCatalog`: handoffs to a published form, the Responses they start and the deletion of these | `prefill/*`, `routes/public-forms.ts`, `responses/deletion.ts`, `accounts/accounts.ts` |
| `HandoffsProofs` | the theorems of `FormCatalog` and `Handoffs` | |
| `EditorBridge` | the page, the component around the editor, the plugin in the editor and the messages between them | `apps/onlyoffice-plugin/src/*`, `apps/web/src` (`fill.tsx`, the correction page, `OnlyOfficeEditor`), `onlyoffice/editor` |
| `EditorProofs` | the theorems of `EditorBridge` and of `CorrectionWorkspaces` | |
| `NativeText` | the text of a content control, and how it is replaced within its runs and paragraphs | `documents/native-text.ts`, `documents/native-controls.ts` |
| `Documents` | extends `NativeText`: a Form's template, the controls that are read and written, and a Response's document and data through prefill, saves, submission and corrections | `documents/*`, `responses/native*`, `operations/response-completion.ts`, the plugin's `document-commands.js`, `responses/fallbacks.ts` |
| `DocumentControlsProofs` | `SetTextExact` of `NativeText`, and lemmas about what is written into a control and read of it | |
| `DocumentsProofs` | the theorems of `Documents` | |
| `MCOperationLifecycle`, `MCResponseLifecycle`, `MCAccounts` | symmetry sets for the model checker | |

They all use one idiom. A request, callback, task or timer is a process with a
program counter `pc` and a `plan`, what it has read; a step is the code between
two awaits that touch shared state; a transaction is one step, because the code
locks the rows it decides on (where a lock is waited for, the waiting is a
step of its own). A random key is named by the process that made it,
so a document version is a model value. A mutant (an operator commented
`Mutant of ...`) is a plausible bug of the definition after it and belongs to no
specification.

Where many kinds of requests meet, `Crowds` gives the combinations that can
disturb one another: each initial state picks one of them, and requests outside
it are never made. This is a choice of instance, not of the specification.

### OperationLifecycle

| state | in the code |
| --- | --- |
| `plan` | the immutable columns and `metadata` of an `operations` row: target, action, fill method, version it was made from |
| `status`, `stale` | `Operation.status`, and whether `updatedAt` is `operationTimeoutMs` old |
| `claim` | the single-use `callback_claims` row |
| `document`, `phase` | draft document of a Response or Template Draft; `Response.status` or `Form.status` |
| `records` | `submissions` and `published_templates`, by the operation that made them |
| `store` | the objects in RustFS |
| `pc` | where each process of an operation stands: its task, each callback, and whoever expires or polls it |
| `serving`, `crashes` | whether the process listens, and how often it died |

A crash empties `pc` and nothing else. The request reads rows before its
transaction, the task forces a save, callbacks may come any number of times up
to `Deliveries`, and a commit may take effect although its caller sees an error
(`"ack"` in `Faults`), after which the failure path must not delete what was
committed.

### ResponseLifecycle

State: `status`, `draft`, `seed` (what a draft was first copied from),
`submissions`, `corrections`, `lease`, `operation` (the status of every attempt
and amendment), `pc`, `plan`. Starts read rows and commit later
(`routes/public-forms.ts`); attempts save or submit; editors claim the lease with
a workspace; amendments correct. Each transaction repeats exactly the checks the
code repeats: the commit of a submission, for instance, does not compare the
draft key again, so that no draft is lost rests on the `submitting` lock.

### CorrectionWorkspaces

State: `lease` (its holder, workspace, base revision, whether it expired),
`intents`, `store`, `live` (sessions), `revision`, `status` (of corrections),
`pc`, `plan`, `removing` (objects found unreferenced and about to be deleted).
An opening reads, renews or releases the lease it has, records an intent, copies,
claims, drops the intent, removes the former workspace and verifies the
revision; it may die between any two (`Interrupt`). A correction is made from
the workspace and takes it off the lease when it commits. `EndSession` is the
foreign key `ON DELETE CASCADE`; `Queued` is the trigger on the row.

Abstractions: a workspace of an ended correction is removed in one step, because
no request can refer to it again, while an intent is drained in two. An opening
is assumed to last less than the four minutes of its intent. When a lease is
released or reconciled the code also drains its intent at once; here that is the
next `DrainIntent`.

### AuthoringSessions

State: `live`, `pc`, `by`, `target`, `authorized`, `cancelled`, `pending`,
`phase`, `tool`, `idle`, `files` for requests and workspaces; `ending`, `epc`,
`eby`, `drains`, `waits`, `disposes` for the endings of an owner. `dispose()`
removes the entry first and so runs once; it is a phase of the workspace.
Its type invariant is with its proofs.

### Accounts

State: `user`, `password`, `session`, `owner` (of a subject), `link` (requests
to bind one), `generation`, `approval`. Mutations, reviews and legacy logins
serialize on one advisory lock; sign-in, sign-out and password changes do not,
and meet them at row locks. Locks are not stored: who holds one follows from
`pc`, and `BreakDeadlock` is PostgreSQL aborting one of two that wait for each
other. A password carries the name of who set it, so that `ResetStands` can tell
whose was replaced. `approval` and the `since` in it are history: what the
administrator saw and who began to log in after. `CrowdsLed` assumes of the
start what the server assumes of its database: it has an enabled administrator,
or no account at all, and then only servers start, which make the first
administrator before they listen (`index.ts`).

Two windows the properties leave open, because the code does: a sign-in that
verified the old password just before a change or a reset may still create a
session (`auth.ts` checks only that the account is enabled), and a legacy login
whose account moved to another address leaves a session row nobody holds.

### FormCatalog and Handoffs

State: `form` (with template draft, rules and published template), `lease`,
`operation` (active, or overdue), `objects`, `intents`, `graced`; then `address`,
`handoff`, `claim`, `passed`, `response`, `tombstones`, `sweep`. A new document
is announced by an intent with a grace, stored, and becomes a form's in a
transaction that drops the intent; a process may stop after each. A save or a
publication is active, completes or fails, as `DocumentOutcomes` has it. The row
of a completed one names the document it replaced (`Replaced`; `ReplacedIn` for
the submissions of a Response); that is removed then or by a later
reconciliation (`RemoveReplaced`, `RemoveReplacedIn`), unless the store refuses,
and a deletion that comes first takes it over into its intents (`Candidates`).

Handoffs are created, launched, redeemed, expired and deleted in transactions
that come after reads and uploads. The serializable ones are one step each, which
sees a consistent state; the sweep's and the account's are not serializable and
act on what they have read. A start or a redemption stores its draft first. Its
transaction then takes effect (`Committed`), and its answer may be lost, which the
server takes for a failure; or it does not (`RollBack`), because it is refused,
finds a draft, or meets a serialization conflict, which is answered and not
retried. A draft that was not taken over is discarded by the request that
stored it (`Discard`). The store may refuse: `deleteObjects` only logs that and
`deleteObjectUnlessCanonical` answers false (`object-cleanup.ts:27`, `97`), so
the request is over (`pc` is `left`) and nothing records the document. `Apart`
says that the catalog's steps leave the handoffs alone.

Assumed: a request ends within the 15 minutes of its grace. The branch of
`redemption.ts` that replaces a draft of another template version is not
reachable, since a Form is published once. Values from the external system are
one value; the reading of an existing row and of a hint are one step. So are the
look-up and the removal of a discard, because no row but the start's own could
come to refer to its document; and a transaction whose answer is lost is taken to
have taken effect before the discard. The upload of a redemption that throws
after the object was stored (`redemption.ts:78`, outside the `try` that cleans up)
ends as a refused discard does. The objects of operations that fail are those of
`OperationLifecycle`. `NoneForgotten` and `ReportedDeleted` except the document
of a start that is in flight, which is also where a server that stops leaves it
(`InFlight`), and of one whose discard was refused (`Left`), and nothing else:
what rows name is never lost, however often the store refuses.

### EditorBridge

State: the flags of the `page`, its native `form`, the `options` of the plugin,
the `host`, the `plugin` (which step of its action it is at), the `office` editor
(content, what was sent, restriction), the two queues of window messages, the
`server`'s draft, and `history`, which names the events that excuse a property.
Contents and values are the number of the change that made them.

Assumed of the editor: its state events share the queue with the plugin's
messages, as the comment at `bridge.js:71` has it; filling a control in raises
its change event. `Settle` stands for an operation as in `OperationLifecycle`:
completed, or failed. Discarding a draft is one step. Template editing, field
selection, the lease heartbeat and `EditorSurface` are left out, and the host's
dropping of repeated `terminal` messages is a set.

The excuses, each a behaviour listed below: `changed` (the author, or a prefill,
changed something while a save was under way, through controls that were opened
too early), `unheard` (a change before the bridge is up) and `ignored` (a request
while the plugin is busy). That controls were opened too early is noted as
`thawed` and excuses nothing by itself: the timer, the ready document and the poll
that fails happen during actions in the model, and the properties hold through
them until somebody uses the opening.

### NativeText and Documents

A document is a sequence of content controls, with for each what the server
reads and writes: tag, markers, options, formats, state, placeholder, content as
runs, tabs, breaks and paragraphs, pictures as relationships to media. The 25
`Templates` are one per shape the code distinguishes (padded and repeated tags,
nested and grouped controls, alternate contents, headers, aliases, Thai
calendar, shared and copied pictures, options equal to one another and so on); `Publish`
accepts 17 of them, as the code does. The state is `template`, the `method` of
filling, `snapshot` (prefill with its locks), `response`, `editor` and the
`operation` asked for. Writing, reading and validating are operators over documents; the
actions apply them in the order of the handlers.

The ONLYOFFICE editor is external: it keeps the structure and the names of
media and relationships, copies a picture only within a part, and sets the state
of a control it picks a date or an option in. A reading by the plugin may miss
one text (then empty) or not list one control; that it misses a date or a
checkbox is not modelled. Dates are 2025-03-04 and 2024-01-02. `placed`
remembers the image that was last put into each picture control, for a copy of a
control as for itself, and of a saved document the one of each field. `unread` names
the texts a property excepts: missed or unlisted ones where the callback does
not look for them (templates without native support, corrections of Forms filled
in natively, padded tags). Templates whose locked texts or combo values have white space
around them, or equal another option's label, are left out, for the
disagreements below.

## Runs

| run | instance | shows |
| --- | --- | --- |
| `operation_callbacks` | one operation on a Response or a Template Draft, two callbacks, every fill, a crash, under fairness | one process finalizes (`OneFinalizer`), every operation settles, and without a crash only referenced objects are left (`NoOrphansAtRest`) |
| `operation_races` | two operations with uploaded pictures on one Response, lost acknowledgements, a crash | no referenced object is missing (`CanonicalStored`), the lock (`SubmittingIffPending`), rows agree with outcomes, no lost update, refinement of `DocumentOutcomes` |
| `response_races` | two starts, three attempts, two editors, two corrections | the lock, one chain of corrections, no draft lost, none corrected while the User edits |
| `response_seeds`, `response_receipts` | smaller instances | two disagreements below |
| `workspaces` | two sessions, two openings, one correction, deaths and refusals | the edited workspace exists and is its holder's own, nobody takes the lease of a correction under way, what is left is recorded and removed in the end |
| `authoring` | one owner; two creations and a revision against a sign-out or a revocation, both endings at once, and two sign-outs on a directory that is not deleted; all timers | one workspace, no erased document used, nothing while or after an owner is ended, no stray directory, copies deleted, endings return |
| `accounts` | two administrators on each other, two servers on a new database, an administrator against a sign-in and a change of password, two legacy logins against a review or a mutation | an enabled administrator remains, everything is committed by somebody who still may, a reset stands, a subject is linked as it was approved |
| `forms` | creations, a duplication, rules, saves and a publication against each other; two handoffs, two starts, a submission, a deletion, a move of the account and the sweep | no form without its document, no document forgotten but a start's whose discard was refused or cut off, published as configured, a deletion reported when all its rows named is gone, prefill accounted for, handoffs expire in time and settle |
| `erasures` | the same | the third disagreement below |
| `filling` | one author on the page, in the editor and in its toolbar, failures of the editor and of requests; the native form | data and document are of one moment unless something was changed through controls opened too early, a page that shows no changes shows the stored draft, waits end and the editor is thawed |
| `documents` | 25 templates; one edit, before the first save, the second or a correction | the stored document shows the stored data, field by field; a submitted one is complete and keeps its locked values |

Why these bounds are enough.

- Operations interact only through the rows of their target, which admits one
  active operation, so two show every race and the proofs cover any number. Two
  callbacks are the smallest number that can race each other and the task; one
  crash shows every cut, and recovery has no state of its own that a second could
  meet. Template operations are checked one at a time by TLC; their races are
  covered by the refinement theorem. A deletion the store refuses (`"delete"` in
  `Faults`) is in no run, only in the proofs.
- `response_races` has three attempts so that one comes late to a draft that was
  saved, submitted and reopened.
- Two openings and two sessions show a takeover, a reopening in another tab and a
  late cleanup of an earlier workspace; a third opening adds 14 million states
  and no new kind of step.
- Two creations, two endings are the smallest that overlap.
- Two administrators are the smallest number that can leave none; a subject is
  bound by one login, and the second finds what the first did.
- Crowds of `forms` put together each pair of requests that write the same rows
  or objects, and a third where a row is made, read and taken away by different
  ones: two Users and three starts or submissions on one published form, a
  duplication of a form being created, a deletion of one being saved. Handoffs are
  two so that one address has one in each state.
- `filling` has two changes, so that one comes before and one after what an
  action reads, one action of the author and one save that the page asks for,
  which meet while either runs.
- `documents` has two saves or submissions and a correction, and in all of them
  one edit (`MaxEdits`), which comes before any of them: a prefilled or stored
  value is shown, read, written back, changed and read again. At most one control
  is changed, in every way its type knows, because reading and writing treat
  controls apart; where they do not (aliases, shared pictures, groups) a
  template has the two that matter. The theorems hold for any number of edits
  and saves.

`CHECK_DEADLOCK` is off where the system really stops, because every request of
the instance was made and answered or its bound is used up: `accounts`,
`documents`, `filling`, `forms`, `erasures`. Elsewhere it is on, and systems that
may stop have a `Rest` step, enabled only when nothing is under way.

Every property has a mutant, listed in `PROJECT.json`, under which its run
fails.

## Fairness

- `OperationLifecycle`: the minute timer (`index.ts`, `setInterval` of
  `reconcileRecoverableState`), the recovery it starts, time that makes an
  operation stale, and a process that is restarted and reconciles before it
  listens. Nothing is assumed of the save task, of callbacks or of clients: they
  may vanish.
- `AuthoringSessions`: continuations of awaits, timers, and agent turns that were
  aborted. Nothing is assumed of clients, whose request bodies may never come,
  nor of a generation that was not cancelled.
- `CorrectionWorkspaces`: intents become due and are drained (weak fairness, the
  same timer), and the object store is not down for ever: a deletion tried again
  and again succeeds (strong fairness of `FinishRemoval`). Nothing is assumed of
  editors.
- `Handoffs`: time passes (`Elapse`), the minute timer and the start of the process
  sweep (`Expire`), and a launch that has read its row goes on, since it is one
  transaction. Nothing is assumed of Users.
- `EditorBridge`: the browser runs what is queued and the continuation of what was
  answered, requests are answered or fail, the operation of a save ends (which is
  `EveryOperationSettles`), the editor sends its changes or says that it cannot.
  Nothing is assumed of the author.
- `ResponseLifecycle`, `Accounts` and `Documents` have no liveness property.

## Proofs

TLAPS proves these for every value of the constants. The assumptions are the
named ones of the modules: sets of processes are disjoint, null values differ
from real ones, bounds are numbers. Each proof has the same shape: an inductive
invariant (`IndInv`, where nothing else is said) in named parts, a lemma for each
part that says which steps can disturb it and why they do not, and a theorem for each property.

**OperationLifecycle.** `IndInv` is `TypeOK`, `ControlInv` (which program
counters each status allows), `FinalizerInv` (a live claim or an unstarted row
has no finalizer), `TargetInv` (one active operation per target, the lock),
`OutcomeMatchesRows`, `VersionInv` (a document is its target's seed or the final
object of a completed save on it, and a process at its commit still awaits the
version it read) and `StoreInv` (a process at its commit has uploaded its
object, and one that is about to delete a final object has checked that no row
refers to it). The strengthening is needed because `CanonicalStored` alone says
nothing of the process that is about to commit or to delete. From it:
`TypeCorrect`, `ReferencesSafe`, `SubmissionLocks`, `FinalizerUnique`,
`OutcomesAgree`, `UpdatesKept` and `Refinement`: each step is a step or a
stutter of `DocumentOutcomes`. `NoOrphans` needs `OrphanInv` besides: without a
crash and without a store that refuses (`Undisturbed`), a stored object is
referred to, is an uploaded picture, or is owed removal by a process of its own
operation, which its program counter shows (`OwedBy`). So when all processes are
done, nothing is owed.

**ResponseLifecycle.** `IndInv` is `TypeOK`, `PlanInv` (what a process has read),
`SubmissionLock` and `AttemptInv` (one active attempt, made from the current
draft). From it: `LifecycleTyped`, `LockHeld`, `DraftsKept`, `ChainKept`,
`EditingUncorrected`.

**CorrectionWorkspaces** (in `EditorProofs`). `WorkspaceInv` adds to the three safety properties `PastInv`
(what somebody may remove belongs to an opening that is past its claim and never
claims again), `CopyInv` (a copy is announced, made and then claimed, and nobody
removes what the lease has) and `HolderInv` (the session of a lease and of a
correction is the one that opened the editor). `PastInv` is what makes the gap
between look-up and deletion harmless. From it: `WorkspaceTyped`,
`EditedDocumentKept`, `WorkspaceOfHolder`, `LeaseHeldWhileProcessed` and
`WorkspacesNotForgotten`.

**Accounts.** `IndInv` is `TypeOK` and ten parts. `MutexInv`: one account
transaction is past the lock for the whole database. `ActorInv`, `TargetInv`,
`ReviewInv`: what it found under its row locks still holds at its commit
(`ShieldStep` proves this against every step of everybody else; it is where the
row locks, `RowFree` and `SessionFree`, are needed). `SessionInv`,
`CredentialInv`: a session is made once, by the request it is named after, and a
change of password holds the credential it proved. `GenerationInv`: nothing draws
a generation between that of an approval and its commit, so that a login with a
greater one began after it. `EvidenceInv`: a link request with the generation a
review listed has the address and the account it listed. `ApprovalInv` relates an
approved request to the last approval. `EnabledAdmin` needs `LedInv`: nobody asks
for an account of his own while there is no administrator. From it:
`AccountsTyped`, `AdminRemains`, `MutationsAuthorized`, `ResetsStand` and
`LinksApproved`.

**AuthoringSessions.** `IndInv` is `TypeOK`, `OwnerInv`, `ReservationInv` (one
request of an owner is reserved; a request under way that has lost its
reservation is cancelled), `LoneInv` (no workspace is open beside a creation that
may still publish one), `UseInv` and `GenerationInv` (a revision has its
workspace's tool, and no erasure starts before it gives it back), `GateInv` (the
count of a gate is the cardinality of the endings at it), `DrainInv` (an ending
waits for all it has cancelled), `RevokedInv` (what an ending that is past its
revocation has closed stays closed) and `NoStrayFiles`. From it: `TypesHold`,
`OneWorkspaceHolds`, `ErasedUnusedHolds`, `NothingAfterEndHolds`,
`NothingWhileEndingHolds` and `NoStrayFilesHolds`. The count matters: two endings
of one owner overlap, and the gate opens when the last leaves it.

**FormCatalog and Handoffs.** The first part of `HandoffsProofs` is
about the catalog, where a step is one of its own or `Elsewhere`, which leaves the
rows, the documents and the requests of forms alone; the second part shows that
the steps of `Handoffs` are. `GraceInv` keeps the object of a creation out of the
timer's reach until the creation is over; `FreshInv` says that nobody knows the
object an operation is going to store; `ReplacedInv` that what a completed one
replaced is not its form's any more; `StoredInv` that no document of a form is
announced or about to be removed; `RulesInv` that rules are publishable whenever
they are. For handoffs: `ResponseInv` (an id is one User's, and only starts for
that User know it), `DraftInv` (a Response that is not submitted has a draft, and
the row of a submission names the one it replaced), `FlightInv` (a start in flight
has stored one object), `ReferenceInv` (a reference has one handoff and one
Response, and none after a deletion), `ValuesInv` and `SeedInv` (what a draft was
filled in with comes from the handoff its start consumed), and `NoneForgotten`
itself, with what it excepts:
a document in the store is a row's, announced, named by the row of the operation
that replaced it, or of a start in flight or left. `ReportedDeleted` follows: of
what remains of a deleted Response, only announced documents are not excepted, and
with one of those the poll does not answer `deleted`. From it: `TypesHold`,
`FormsStoredHolds`, `PublishedAsConfiguredHolds`, `NoneForgottenHolds`,
`ReportedDeletedHolds`, `PrefillAccountedHolds` and `ExpiresInTimeHolds`.

**EditorBridge** (in `EditorProofs`). The argument is about the order of messages.
`StateKnown`: what the host believes of the editor is right after the last state
message in its queue. `SaveAnswered`: the request to save comes behind the messages about the
changes it is for, so an answer that says `saved` finds them sent. `Freeze`:
while an action holds the editor its controls are closed, unless one of those
events opened them (`thawed`); and, opened or not, content, data and what was sent
stay those of one moment until the save settles, unless something was changed
(`changed`), which takes an opening.
`OneEnd`: a document key is ended well at most once. `Noted`, `DirtyKnown`: what
the plugin reported of changes reaches the page by the last report of the queue.
`Beginning`, `Unmounted`, `NativeForm`, `Down` and `Prefilling` say which states
of page, host, plugin and form go together. From it: `TypesHold`,
`DataOfDocumentHolds` and `CleanMeansSavedHolds`, for queues of any length.

**NativeText.** `SetTextExact`, about any content and any text: once a text is
written into a control, the control shows it exactly. A text is rewritten within
the runs and paragraphs there are (`Rewritten`) or written afresh (`Fresh`). The
lemmas say that the lines of a text, joined again, are the text; that the
segments which hold a line get adjacent parts of it, from its start to its end
(`Shared`, `Reached`), so that what they show is the line; that a removed
paragraph shows nothing; and that tabs and breaks either stay where they separate
the same texts or go. What a prefix of the content shows is compared with a prefix
of the text, node by node. Recursive functions are reasoned about by a least
counterexample, from `WFMin` and `NatLessThanWellFounded` (lemmas `Least` and
`Induction`), because the induction theorems of the library take an operator as a
parameter.

**Documents.** Three invariants, each of which contains the one before, for any
number of edits and saves. The lemmas hold for any template that is `Sound` and
`Illustrated`; `TemplatesSound` and `TemplatesIllustrated` show that of the 25 given
ones.

- `CompletenessInv`, for `SubmittedCompleteHolds`. `Staged`: nothing is open or
  saved before there is a Response. `Stored` and `Opened`: each document that is
  stored or open is a `GoodDocument`: its controls have the fields of the
  template's, a checked box or a chosen date can be seen in it, what a box, a date
  or a list shows is its state or one of its options (`Exact`), and data and Prefill
  fit the fields. `Locked`: a save in progress has the locked values of
  the Prefill and will not replace them by what it reads again. `Answering`: a
  submission or a correction in progress has accepted data for every required
  field, and in its document a control that shows it, unless the server holds the
  value and will write it, or no reading found the text (`unread`). The
  strengthening is needed because what a submission shows is decided by what was
  read before the callback, from a document that earlier saves have written.
- `TellingInv` adds that documents tell their data. `Telling`: in a save from the
  editor, each field whose controls agree either shows its value already, or the
  server holds the value and writes it, or the reading missed its text and the
  callback reads it again; a document that was filled in natively shows all its
  data. `DataTold`: so does the stored document, of what is not `unread`. The
  first rests on lemmas that reading is the inverse of showing, for each type:
  what the plugin reads of a date, an option, a box or a text is a value that the
  server would show in the same way (`ParsedDate`, `Labelled`); the second on
  `SetTextExact`.
- `ShowingInv` adds pictures, and with it `DocumentTellsDataHolds`. `Illustrated`:
  a control has no image, or is a picture with one relationship of its part, and
  those of different parts lead to different files (disagreement 7 of the documents
  is what happens otherwise). `Showing`: the picture of each field is the one that
  was last placed (`placed`), in the stored document (`ResponseShows`), the open one
  (`EditorShows`) and that of a save (`OperationShows`). `Unshared` is why a picture
  that is replaced in its own file changes no other control: `CanReplaceMedia` asks
  for one relationship to the file and one reference to that, which a copy made in
  the editor would be a second of.

Only model-checked is liveness, which is out of the prover's reach:
`EveryOperationSettles`, `EndingsReturn`, `CopiesDeleted`, `IntentsHonoured`,
`HandoffsSettle` and `WaitsEnd`. Every invariant and every action property that a
passing run checks is a theorem.

## Disagreements with the documentation

- `response_seeds`: `POST /start` chooses the document of a reopened draft from
  rows it read before its transaction. A start that waits while another tab
  submits reopens the Response with the older document, where `CONTEXT.md` says
  it is seeded from that Submission.
- `response_receipts`: the results pages show the last Correction of the
  Response, also of an earlier Submission, while the receipt shows the new
  Submission; `CONTEXT.md` ties a Correction to a specific Submission.
- `erasures`: a start or a redemption that read a Response before it was deleted
  makes one with the deleted id, a start even with the data of the deleted
  Submission (`prefill/redemption.ts:237`, `routes/public-forms.ts:271`, `347`);
  a later deletion then finds the tombstone and deletes nothing.
  `docs/ARCHITECTURE.th.md:81` says that a tombstone only remembers the result and
  holds no answers that can be recovered.

Met while modelling, with no run of their own.

*Corrections and submissions.*

- The correction editor copies the last Correction of the Response, also when it
  belongs to an earlier Submission (`responses/editor.ts:75`), and the commit of
  a correction accepts any Submission of the Response
  (`operations/response-completion.ts:321`), where `docs/ARCHITECTURE.th.md:75`
  speaks of the latest.
- An opening drops its cleanup intent without looking at the lease again
  (`responses/editor.ts:179`). If the session ended since the claim, the trigger
  found the old intent and recorded none, and the workspace stays in the store
  for good. `WorkspacesTracked` states that this is the only step that can
  forget one.
- A lease that expired is reopened by its holder with a new workspace, and the
  former one is removed although a correction made from it may be under way
  (`responses/editor.ts:182`).
- The workspace of a correction whose session ended, and which then fails, is
  removed only by a poll or a repeated callback.
- The pictures uploaded for a native submission stay in the store when the
  upload ends after the operation failed (`Leftover` in `OperationLifecycle`).

*Handoffs.*

- A start that read no Response stores its draft under an id of its own; when
  another tab has created and submitted the Response meanwhile, the Response is
  reopened with a draft under a foreign prefix, and its deletion fails with
  `invalid_object_key` (`responses/deletion.ts:235`).
- A start or a redemption whose discard the store refuses, or that stops after its
  upload, leaves its draft in the store, under the prefix of its Response and
  named by no row and no intent (`object-cleanup.ts:27`, called at
  `routes/public-forms.ts:204` and `392`; `object-cleanup.ts:97`, called at
  `prefill/redemption.ts:319` and `routes/public-forms.ts:400`). A deletion of
  that Response lists what rows name (`responses/deletion.ts:204`), so it does not
  remove the draft, and the poll answers `deleted` all the same, where
  `docs/ARCHITECTURE.th.md:81` says that a cleanup that is left over is answered
  with an error, and never claimed to be complete.
  `NoneForgotten` and `ReportedDeleted` except these documents (`InFlight`,
  `Left`), and those only.
- A change of an account's address deletes the handoffs it read before
  (`accounts/accounts.ts:374`), not those that came since.

*Editor and plugin* (the first is excused as `changed`, 3 as `ignored`, 4 as
`unheard`).

1. The timer that restricts a prefilled form (`plugin-entry.js:210`) and the
   handler of a ready correction (`plugin-entry.js:257`) open the controls also
   while an action holds the editor frozen; and one poll that fails ends the
   action and thaws the editor while its operation is pending. What is changed then
   is not in the data that was read, or not in the document that was sent.
2. After a save the page opens the editor again with `action=fill`, and the
   configuration has the whole snapshot (`routes/editor.ts:378`): the plugin
   applies the prefill over edits that were saved.
3. The plugin answers a request while it is busy with `ignored`
   (`operations.js:200`), which the page does not read: its export or exit waits on.
   An export asked for during a submission is lost when the page reloads. The
   comment at `form-lifecycle.ts:36` says that the editor's messages settle it.
4. A change before the plugin's `ready` message is dropped by the page.
5. The native form, after `changed in another session`, loads the current version
   and a second attempt overwrites what the other session saved.
6. A poll of the native form that fails leaves the controls disabled
   (`fill.tsx:617`, `742`), while its message says that one can edit and try again
   (`fill.tsx:976`).
7. In draft mode with locked prefill nothing restricts the editor to its forms at
   the start (`plugin-entry.js:209`). A second action before the page has reloaded
   uses the old document key and is refused. The template pages' own buttons
   neither flush nor freeze the editor.

*Documents.*

1. A tab stop (`<w:tabs><w:tab/></w:tabs>`) is read as a tab of the text.
2. The reading of controls trims; a locked text with white space around it, or a
   locked combo text equal to another option's label, is then refused as `locked by
   Prefill` for good. Text from the native form is stored untrimmed.
3. A combo text equal to an option's label becomes its value after a save in the
   editor; one equal to an option's value is shown as its label. Corrections
   normalize the stored values as if they were labels (`routes/results.ts:433`).
4. In templates without native support nothing is overlaid or read again, so what
   the plugin missed is lost; nor is it in corrections of Forms filled in natively
   (`routes/results.ts:471`).
5. Corrections do not pass the canonical date fields (`routes/results.ts:433`): an
   ISO date in a control of the Thai calendar is read as a Buddhist year, where the
   test `fallbacks.ts:196` expects it kept for drafts.
6. `responseTextControlValues` keeps the tag untrimmed (`documents/fields.ts:719`);
   an alias equal to another field's tag is dropped, and the plugin then reads both
   controls under one tag.
7. A picture shared by two parts of the package is replaced in both
   (`documents/picture-overlay.ts:200`).

## What is not modelled

The components without a module are listed with their reasons in `PROJECT.json`:
the AI conversion, the document worker, the audit log, the HTTP input, the
administration pages and the prefill mock. Of the modelled ones: the packages around
documents (XML, relationships and zip archives are well-formed; sizes and limits
are not reached); `close()` at shutdown, which only drops memory; what the agent
does within a turn; the capabilities derived from a lease; throttling and expiry
of sessions; the browser's transfer of a legacy login with its cookies; the
catch-up transaction of a User that exists already (`P2003`); the plugin's field
panel and template editing; the lease heartbeat. Signing out everywhere lists and
deletes sessions in one step. The correction as a document operation is in
`ResponseLifecycle` and `CorrectionWorkspaces`, not in `OperationLifecycle`.

## Plan

1. `OperationLifecycle` with `DocumentOutcomes` — done, checked and proved.
2. `AuthoringSessions` — done, checked and proved.
3. `ResponseLifecycle` — done, checked and proved.
4. `CorrectionWorkspaces` — done, checked and proved.
5. `Accounts` — done, checked and proved.
6. `FormCatalog` and `Handoffs` — done, checked and proved.
7. `EditorBridge` — done, checked and proved; left is the plugin's field panel.
8. `NativeText` and `Documents` — done, checked and proved.
9. Corrections as a kind of operation in `OperationLifecycle`; the browser's transfer
   of a legacy login with its single-use tokens; the AI conversion.
