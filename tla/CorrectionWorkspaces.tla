------------------------- MODULE CorrectionWorkspaces -------------------------
(***************************************************************************)
(* The editor lease on the corrections of one Response and the documents   *)
(* administrators edit under it.                                           *)
(*                                                                         *)
(* Opening the correction editor copies the current revision to an object  *)
(* of its own, the workspace, and claims the lease with it.  From then on  *)
(* the workspace belongs to whoever holds the lease, until a correction    *)
(* made from it is committed or the lease goes; a database trigger records *)
(* what the lease leaves behind as a cleanup intent, and reconciliation    *)
(* removes the objects of due intents.                                     *)
(*                                                                         *)
(* A workspace is named by the opening that made it.  The Response stays   *)
(* submitted: ResponseLifecycle is about its reopening.                    *)
(***************************************************************************)
EXTENDS Naturals

CONSTANTS Sessions,     \* sessions of administrators
          Openings,     \* requests for the correction editor
          Corrections,  \* requests POST /correction
          None          \* no lease, no workspace

\* Rows of editor_leases; a workspace is named by the opening that copied it.
Leases == [id : Openings, holder : Sessions, workspace : Openings \cup {None},
           base : Nat, expired : BOOLEAN]

\* Requests of different kinds are different requests, and None is neither a
\* lease nor a workspace.
ASSUME RequestsDiffer == Openings \cap Corrections = {} /\ None \notin Openings
ASSUME NoneIsNoLease == None \notin Leases

VARIABLES lease,     \* the editor_leases row of the correction target
          intents,   \* object_cleanup_intents: none, waiting for its time, or due
          store,     \* workspaces in the object store
          live,      \* sessions that exist
          revision,  \* committed corrections
          status,    \* Operation.status of a correction
          pc,        \* where a request stands
          plan,      \* what it read
          removing   \* objects somebody found unreferenced and is about to remove

workspaceVars == <<lease, intents, store, live, revision, status, pc, plan, removing>>
requests == <<pc, plan>>

Active(c)  == status[c] = "active"
NoneActive == \A c \in Corrections : ~Active(c)

Referenced(w) == lease # None /\ lease.workspace = w

WorkspaceInit ==
  /\ lease = None
  /\ intents = [w \in Openings |-> "none"]
  /\ store = {}
  /\ live = Sessions
  /\ revision = 0
  /\ status = [c \in Corrections |-> "none"]
  /\ pc = [p \in Openings \cup Corrections |-> "idle"]
  /\ plan = [p \in Openings \cup Corrections |-> None]
  /\ removing = {}

Goto(p, from, to) == pc[p] = from /\ pc' = [pc EXCEPT ![p] = to]
Remember(p, what) == plan' = [plan EXCEPT ![p] = what]

\* Somebody finds the object unreferenced and is about to remove it; its intent
\* goes when the object is gone.
Remove(w) == removing' = removing \cup {w}

\* An object that no request can refer to any more is removed, or left when the
\* object store refuses or the process dies.
Discard(w) == store' \in {store, store \ {w}}

-----------------------------------------------------------------------------
(* The lease row                                                           *)

\* The trigger on a row that is deleted or gets another workspace: it records
\* the old one, unless an active correction is made from it.
Queued(old) ==
  IF old = None \/ (\E c \in Corrections : Active(c) /\ plan[c].workspace = old)
                \/ intents[old] # "none"
  THEN intents ELSE [intents EXCEPT ![old] = "due"]

DeleteLease == lease' = None /\ intents' = Queued(lease.workspace)

\* Released by an editor that knows it, or reconciled once it or its session has
\* expired; never while a correction is under way.
ReleaseLease ==
  /\ lease # None /\ NoneActive
  /\ lease.expired \/ \E w \in Openings : pc[w] = "open" /\ plan[w].lease = lease.id
  /\ DeleteLease
  /\ UNCHANGED <<store, live, revision, status, requests, removing>>

ExpireLease ==
  /\ lease # None /\ ~lease.expired
  /\ lease' = [lease EXCEPT !.expired = TRUE]
  /\ UNCHANGED <<intents, store, live, revision, status, requests, removing>>

\* A deleted session takes its lease with it, whatever is under way.
EndSession(s) ==
  /\ s \in live /\ live' = live \ {s}
  /\ IF lease # None /\ lease.holder = s THEN DeleteLease ELSE UNCHANGED <<lease, intents>>
  /\ UNCHANGED <<store, revision, status, requests, removing>>

-----------------------------------------------------------------------------
(* Opening the correction editor                                           *)

\* It reads the current revision and the lease the session already holds.
ReadForOpening(w, s) ==
  LET prior == IF lease # None /\ lease.holder = s THEN lease ELSE None
      usable == /\ prior # None /\ ~prior.expired
                /\ prior.workspace \in store /\ prior.base = revision
  IN  /\ s \in live
      /\ Goto(w, "idle", IF usable THEN "renew" ELSE IF prior # None THEN "release" ELSE "intend")
      /\ Remember(w, [holder |-> s, base |-> revision,
                      lease |-> IF prior = None THEN None ELSE prior.id,
                      prior |-> IF prior = None THEN None ELSE prior.workspace])
      /\ UNCHANGED <<lease, intents, store, live, revision, status, removing>>

\* A usable workspace is kept: renewEditorLease takes it while it is unexpired
\* and the editor goes on where it was.
RenewPrior(w) ==
  /\ Goto(w, "renew", "verify")
  /\ lease # None /\ lease.id = plan[w].lease /\ ~lease.expired
  /\ UNCHANGED <<lease, intents, store, live, revision, status, plan, removing>>

\* Another one is given up, unless a correction made from it is under way.
ReleasePrior(w) ==
  /\ Goto(w, "release", "intend")
  /\ lease # None /\ lease.id = plan[w].lease
  /\ IF NoneActive THEN DeleteLease ELSE UNCHANGED <<lease, intents>>
  /\ UNCHANGED <<store, live, revision, status, plan, removing>>

\* Mutant of RecordIntent: no intent is recorded.
RecordNothing(w) ==
  /\ Goto(w, "intend", "copy")
  /\ UNCHANGED <<lease, intents, store, live, revision, status, plan, removing>>

\* The intent comes before the copy, so that a copy is never forgotten.
RecordIntent(w) ==
  /\ Goto(w, "intend", "copy")
  /\ intents' = [intents EXCEPT ![w] = "waiting"]
  /\ UNCHANGED <<lease, store, live, revision, status, plan, removing>>

CopyDocument(w) ==
  /\ Goto(w, "copy", "claim")
  /\ store' = store \cup {w}
  /\ UNCHANGED <<lease, intents, live, revision, status, plan, removing>>

SameHolder(w) == lease # None /\ lease.holder = plan[w].holder
Unexpired     == lease # None /\ ~lease.expired

Granted(w) == [id |-> w, holder |-> plan[w].holder, workspace |-> w,
               base |-> plan[w].base, expired |-> FALSE]

\* Mutant of ClaimLease: the operation of another holder is not looked at.
ClaimLeaseAnyway(w) ==
  /\ Goto(w, "claim", "settle")
  /\ plan[w].holder \in live /\ ~Unexpired
  /\ lease' = Granted(w)
  /\ intents' = IF lease = None THEN intents ELSE Queued(lease.workspace)
  /\ plan' = [plan EXCEPT ![w].lease = w]
  /\ UNCHANGED <<store, live, revision, status, removing>>

\* Mutant of ClaimLease: an expired lease keeps its workspace.
ClaimLeaseInPlace(w) ==
  /\ Goto(w, "claim", "settle")
  /\ plan[w].holder \in live /\ ~Unexpired
  /\ SameHolder(w) \/ NoneActive
  /\ lease' = IF lease = None THEN Granted(w)
              ELSE [Granted(w) EXCEPT !.workspace = lease.workspace, !.base = lease.base]
  /\ plan' = [plan EXCEPT ![w].lease = w]
  /\ UNCHANGED <<intents, store, live, revision, status, removing>>

\* claimEditorLease takes a free or an expired lease with the new workspace;
\* for anybody but the holder, no correction may be under way.
ClaimLease(w) ==
  /\ Goto(w, "claim", "settle")
  /\ plan[w].holder \in live /\ ~Unexpired
  /\ SameHolder(w) \/ NoneActive
  /\ lease' = Granted(w)
  /\ intents' = IF lease = None THEN intents ELSE Queued(lease.workspace)
  /\ plan' = [plan EXCEPT ![w].lease = w]
  /\ UNCHANGED <<store, live, revision, status, removing>>

\* A session that holds the lease already keeps its workspace; this request is
\* refused and its copy removed.
ClaimOwnLease(w) ==
  /\ Goto(w, "claim", "done")
  /\ SameHolder(w) /\ Unexpired
  /\ Remove(w)
  /\ UNCHANGED <<lease, intents, store, live, revision, status, plan>>

RefuseClaim(w) ==
  /\ Goto(w, "claim", "done")
  /\ \/ plan[w].holder \notin live
     \/ ~SameHolder(w) /\ (Unexpired \/ ~NoneActive)
  /\ Remove(w)
  /\ UNCHANGED <<lease, intents, store, live, revision, status, plan>>

\* The row refers to the workspace now, the intent has done its work.
DropIntent(w) ==
  /\ Goto(w, "settle", "tidy")
  /\ intents' = [intents EXCEPT ![w] = "none"]
  /\ UNCHANGED <<lease, store, live, revision, status, plan, removing>>

RemovePrior(w) ==
  /\ Goto(w, "tidy", "verify")
  /\ IF plan[w].prior # None /\ ~Referenced(plan[w].prior)
     THEN Discard(plan[w].prior) ELSE UNCHANGED store
  /\ plan' = [plan EXCEPT ![w].prior = None]
  /\ UNCHANGED <<lease, intents, live, revision, status, removing>>

\* The editor opens on the revision that is current, or not at all.
OpenEditor(w) ==
  /\ Goto(w, "verify", "open")
  /\ revision = plan[w].base
  /\ UNCHANGED <<lease, intents, store, live, revision, status, plan, removing>>

GiveUpStale(w) ==
  /\ Goto(w, "verify", "done")
  /\ revision # plan[w].base
  /\ IF lease # None /\ lease.id = plan[w].lease /\ NoneActive
     THEN DeleteLease ELSE UNCHANGED <<lease, intents>>
  /\ UNCHANGED <<store, live, revision, status, plan, removing>>

\* A request fails or the process dies between any two of these steps.
Interrupt(w) ==
  /\ pc[w] \notin {"idle", "open", "done"}
  /\ pc' = [pc EXCEPT ![w] = "done"]
  /\ UNCHANGED <<lease, intents, store, live, revision, status, plan, removing>>

-----------------------------------------------------------------------------
(* Correcting                                                              *)

\* POST /correction wants a workspace copied from the current revision.
ReadForCorrection(c) ==
  /\ pc[c] = "idle" /\ Unexpired /\ lease.workspace # None /\ lease.base = revision
  /\ NoneActive
  /\ Goto(c, "idle", "create")
  /\ Remember(c, [lease |-> lease.id, holder |-> lease.holder,
                  workspace |-> lease.workspace, base |-> lease.base])
  /\ UNCHANGED <<lease, intents, store, live, revision, status, removing>>

CreateCorrection(c) ==
  /\ Goto(c, "create", "commit")
  /\ Unexpired /\ lease.id = plan[c].lease
  /\ NoneActive
  /\ status' = [status EXCEPT ![c] = "active"]
  /\ UNCHANGED <<lease, intents, store, live, revision, plan, removing>>

RefuseCorrection(c) ==
  /\ Goto(c, "create", "done")
  /\ UNCHANGED <<lease, intents, store, live, revision, status, plan, removing>>

\* The commit takes the workspace from the lease, where it still is (the trigger
\* sees the correction active and records nothing), and removes the object.
CompleteCorrection(c) ==
  /\ Active(c) /\ revision = plan[c].base
  /\ Goto(c, "commit", "done")
  /\ revision' = revision + 1
  /\ status' = [status EXCEPT ![c] = "completed"]
  /\ lease' = IF Referenced(plan[c].workspace)
              THEN [lease EXCEPT !.workspace = None] ELSE lease
  /\ Discard(plan[c].workspace)
  /\ UNCHANGED <<intents, live, plan, removing>>

\* It fails or times out; the workspace stays with the lease.
FailCorrection(c) ==
  /\ Active(c)
  /\ Goto(c, "commit", "done")
  /\ status' = [status EXCEPT ![c] = "failed"]
  /\ UNCHANGED <<lease, intents, store, live, revision, plan, removing>>

\* A poll or a repeated callback of an ended correction removes its workspace.
PollCorrection(c) ==
  /\ status[c] \in {"completed", "failed"} /\ plan[c].workspace \in store
  /\ status[c] = "failed" => ~Referenced(plan[c].workspace)
  /\ Discard(plan[c].workspace)
  /\ UNCHANGED <<lease, intents, live, revision, status, requests, removing>>

-----------------------------------------------------------------------------
(* Cleaning up                                                             *)

\* An intent of an opening waits four minutes; no opening takes that long.
BecomeDue(w) ==
  /\ intents[w] = "waiting" /\ pc[w] = "done"
  /\ intents' = [intents EXCEPT ![w] = "due"]
  /\ UNCHANGED <<lease, store, live, revision, status, requests, removing>>

\* Mutant of DrainIntent: the references are not looked at.
DrainAnyway(w) ==
  /\ intents[w] = "due" /\ Remove(w)
  /\ UNCHANGED <<lease, intents, store, live, revision, status, requests>>

\* drainObjectCleanupIntents, of every minute or for one lease.
DrainIntent(w) ==
  /\ intents[w] = "due" /\ ~Referenced(w)
  /\ Remove(w)
  /\ UNCHANGED <<lease, intents, store, live, revision, status, requests>>

FinishRemoval(w) ==
  /\ w \in removing /\ removing' = removing \ {w}
  /\ store' = store \ {w}
  /\ intents' = [intents EXCEPT ![w] = "none"]
  /\ UNCHANGED <<lease, live, revision, status, requests>>

\* Mutant of FailRemoval: the intent is dropped although the object is there.
ForgetRemoval(w) ==
  /\ w \in removing /\ removing' = removing \ {w}
  /\ intents' = [intents EXCEPT ![w] = "none"]
  /\ UNCHANGED <<lease, store, live, revision, status, requests>>

\* The object store refuses, or the process dies before it was asked.
FailRemoval(w) ==
  /\ w \in removing /\ removing' = removing \ {w}
  /\ UNCHANGED <<lease, intents, store, live, revision, status, requests>>

-----------------------------------------------------------------------------

\* Every request has been answered, nothing is recorded and nothing is removed.
Rest ==
  /\ \A p \in Openings \cup Corrections : pc[p] \in {"idle", "open", "done"}
  /\ NoneActive /\ removing = {}
  /\ UNCHANGED workspaceVars

Opening(w) ==
  \/ \E s \in Sessions : ReadForOpening(w, s)
  \/ RenewPrior(w) \/ ReleasePrior(w) \/ RecordIntent(w) \/ CopyDocument(w)
  \/ ClaimLease(w) \/ ClaimOwnLease(w) \/ RefuseClaim(w) \/ DropIntent(w)
  \/ RemovePrior(w) \/ OpenEditor(w) \/ GiveUpStale(w) \/ Interrupt(w)

Correcting(c) ==
  \/ ReadForCorrection(c) \/ CreateCorrection(c) \/ RefuseCorrection(c)
  \/ CompleteCorrection(c) \/ FailCorrection(c) \/ PollCorrection(c)

WorkspaceNext ==
  \/ ReleaseLease \/ ExpireLease
  \/ \E s \in Sessions : EndSession(s)
  \/ \E w \in Openings : Opening(w) \/ BecomeDue(w) \/ DrainIntent(w)
                         \/ FinishRemoval(w) \/ FailRemoval(w)
  \/ \E c \in Corrections : Correcting(c)
  \/ Rest

WorkspaceSpec == WorkspaceInit /\ [][WorkspaceNext]_workspaceVars

\* Reconciliation runs every minute; the object store is not down for ever.
Fairness ==
  \A w \in Openings :
    WF_workspaceVars(BecomeDue(w)) /\ WF_workspaceVars(DrainIntent(w)) /\ SF_workspaceVars(FinishRemoval(w))

FairWorkspaceSpec == WorkspaceSpec /\ Fairness

-----------------------------------------------------------------------------
(* Properties                                                              *)

OpeningPlans == [holder : Sessions, base : Nat, lease : Openings \cup {None},
                 prior : Openings \cup {None}]

CorrectionPlans == [holder : Sessions, base : Nat, lease : Openings, workspace : Openings]

Stages == {"idle", "renew", "release", "intend", "copy", "claim", "settle", "tidy",
           "verify", "open", "create", "commit", "done"}

\* Every variable has its type, and a request that has begun has read its plan.
TypeOK ==
  /\ lease \in Leases \cup {None}
  /\ intents \in [Openings -> {"none", "waiting", "due"}]
  /\ store \subseteq Openings /\ live \subseteq Sessions /\ revision \in Nat
  /\ status \in [Corrections -> {"none", "active", "completed", "failed"}]
  /\ removing \subseteq Openings
  /\ pc \in [Openings \cup Corrections -> Stages]
  /\ plan \in [Openings \cup Corrections -> OpeningPlans \cup CorrectionPlans \cup {None}]
  /\ \A w \in Openings : pc[w] # "idle" => plan[w] \in OpeningPlans
  /\ \A c \in Corrections : pc[c] # "idle" => plan[c] \in CorrectionPlans
  /\ lease # None => lease.holder \in live

\* The document of a lease is in the store: neither a late cleanup of an earlier
\* workspace, nor an intent left by an interrupted opening, nor the poll of an
\* ended correction removes what an administrator is editing.
WorkspaceStored == \A w \in Openings : Referenced(w) => w \in store

\* A lease that passes from one session to another, or expires and is claimed
\* again, comes with a workspace its holder copied, of the revision it says.
OwnWorkspace ==
  \A w \in Openings :
    Referenced(w) => plan[w].holder = lease.holder /\ plan[w].base = lease.base

\* While a correction is processed no other session gets the lease, though it may
\* expire, be released or go with its session meanwhile.
HeldWhileProcessed ==
  \A c \in Corrections : Active(c) /\ lease # None => lease.holder = plan[c].holder

\* A request that is past its claim never claims again.
Past(w) == pc[w] \in {"settle", "tidy", "verify", "open", "done"}

\* What somebody may remove or take for abandoned is past its claim.
PastInv ==
  /\ \A w \in Openings :
       /\ Referenced(w) \/ w \in removing \/ intents[w] = "due" => Past(w)
       /\ pc[w] # "idle" /\ plan[w].prior # None => Past(plan[w].prior)
  /\ \A c \in Corrections : pc[c] # "idle" => Past(plan[c].workspace)

\* A copy is announced before it is made and there when it is claimed; nobody is
\* removing what the lease has.
CopyInv ==
  /\ \A w \in Openings :
       /\ pc[w] = "claim" => w \in store
       /\ pc[w] = "copy" => intents[w] # "none"
  /\ \A w \in removing : ~Referenced(w)
  /\ \A c \in Corrections :
       /\ pc[c] = "idle" => status[c] = "none"
       /\ status[c] = "completed" => ~Referenced(plan[c].workspace)

\* The session that claimed a lease holds it, and corrects under it.
HolderInv ==
  /\ lease # None => pc[lease.id] # "idle" /\ lease.holder = plan[lease.id].holder
  /\ \A c \in Corrections : pc[c] # "idle" =>
       pc[plan[c].lease] # "idle" /\ plan[c].holder = plan[plan[c].lease].holder

\* The inductive invariant.
WorkspaceInv ==
  /\ TypeOK /\ PastInv /\ CopyInv /\ HolderInv
  /\ WorkspaceStored /\ OwnWorkspace /\ HeldWhileProcessed

Tracked(w) ==
  \/ Referenced(w) \/ intents[w] # "none"
  \/ \E c \in Corrections : status[c] # "none" /\ plan[c].workspace = w

\* No step forgets a workspace that is still stored: the lease has it, an intent
\* names it, or a correction does, whose poll removes it.  The one exception is
\* an opening that drops its intent without looking at the lease again, which may
\* have gone with its session in between.
WorkspacesTracked ==
  [][\A w \in Openings :
       (w \in store => Tracked(w)) /\ w \in store' /\ ~Tracked(w)' => DropIntent(w)]_workspaceVars

\* An object with an intent is removed in the end, however often that fails.
IntentsHonoured ==
  \A w \in Openings : intents[w] = "due" ~> w \notin store \/ Referenced(w)
=============================================================================
