------------------------- MODULE OperationLifecycle -------------------------
(***************************************************************************)
(* The document operations of the API server: a tracked save of a          *)
(* Template Draft, a publication, a save of a Response Draft or a          *)
(* submission, from the request that creates it to its terminal state.     *)
(*                                                                         *)
(* One Bun process runs every request, callback and background task; each  *)
(* await is an interleaving point, so a process is modelled by a program   *)
(* counter and a step is the code between two awaits that touch shared     *)
(* state.  PostgreSQL rows and the RustFS object store survive a crash;    *)
(* program counters do not.                                                *)
(*                                                                         *)
(* A document version (document key and canonical object key, which the    *)
(* code always changes together) is named by its object key.  Editor       *)
(* leases, form deletion and the reopening of a submitted Response are     *)
(* not part of this module.                                                *)
(***************************************************************************)
EXTENDS Naturals, FiniteSets

CONSTANTS
    Operations,      \* operation ids a request may mint
    Responses,       \* targets of save-draft and submit
    TemplateDrafts,  \* targets of save-template and publish
    Deliveries,      \* callbacks the document server may have in flight per operation
    Fills,           \* how forms are filled: "onlyoffice", "native", "picture" (native
                     \* with uploaded pictures)
    Faults,          \* which of "crash", "delete", "ack" the environment injects
    MaxCrashes,      \* bound on process crashes
    NoPlan, NoKey    \* null request and null key

Targets == Responses \cup TemplateDrafts
Roles   == {"worker", "recovery"} \cup Deliveries

ASSUME TargetsAssumption   == Responses \cap TemplateDrafts = {}
ASSUME DeliveryAssumption  == Deliveries \cap {"worker", "recovery"} = {}
ASSUME FillsAssumption     == Fills \subseteq {"onlyoffice", "native", "picture"}
ASSUME BoundAssumption     == MaxCrashes \in Nat
ASSUME FaultsAssumption    == Faults \subseteq {"crash", "delete", "ack"}

(* Object keys: the seed a target starts with, and the staged and final    *)
(* objects whose random keys an operation's metadata fixes at creation.    *)
Seed(t)   == [kind |-> "seed",   of |-> t]
Staged(o) == [kind |-> "staged", of |-> o]
Final(o)  == [kind |-> "final",  of |-> o]
Keys == {Seed(t) : t \in Targets} \cup {Staged(o) : o \in Operations}
            \cup {Final(o) : o \in Operations}

ASSUME NoKeyAssumption == NoKey \notin Keys

(* What a request asks for, with the document version it read.             *)
Plans == [target : Targets, action : {"save-draft", "submit", "save-template", "publish"},
          fill : Fills, base : Keys]

ASSUME NoPlanAssumption == NoPlan \notin Plans

VARIABLES
    plan,      \* the operation's immutable columns and metadata
    status,    \* Operation.status; "none" before the row is inserted
    stale,     \* updatedAt is at least operationTimeoutMs in the past
    claim,     \* its single-use CallbackClaim
    document,  \* the target's current draft document (key and object)
    phase,     \* Response.status or Form.status of the target
    records,   \* operations whose Submission or PublishedTemplate row exists
    store,     \* objects in RustFS
    pc,        \* program counter of each process of each operation
    serving,   \* startup reconciliation is over and the server listens
    crashes    \* crashes so far

vars == <<plan, status, stale, claim, document, phase, records, store, pc, serving, crashes>>
rows == <<plan, status, stale, claim, document, phase, records>>

Active(o)  == status[o] \in {"pending", "processing"}
Settled(o) == status[o] \in {"completed", "failed"}

(* The objects a committed row refers to: deleteObjectUnlessCanonical      *)
(* looks a key up in these tables.                                         *)
Canonical == ({document[t] : t \in Targets} \ {NoKey}) \cup {Final(o) : o \in records}

Init ==
    /\ plan = [o \in Operations |-> NoPlan]
    /\ status = [o \in Operations |-> "none"]
    /\ stale = [o \in Operations |-> FALSE]
    /\ claim = [o \in Operations |-> "none"]
    /\ document = [t \in Targets |-> Seed(t)]
    /\ phase = [t \in Targets |-> "draft"]
    /\ records = {}
    /\ store = {Seed(t) : t \in Targets}
    /\ pc = [p \in Operations \X Roles |-> "idle"]
    /\ serving = TRUE
    /\ crashes = 0

Goto(o, r, from, to) ==
    /\ pc[<<o, r>>] = from
    /\ pc' = [pc EXCEPT ![<<o, r>>] = to]

-----------------------------------------------------------------------------
(* Creating an operation                                                   *)

(* The route's early reads: the target is an editable draft, the request   *)
(* names its current document, and no operation is active on it.           *)
BeginRequest(o, t, a, f) ==
    /\ serving
    /\ plan[o] = NoPlan
    /\ IF t \in Responses THEN a \in {"save-draft", "submit"}
                          ELSE a \in {"save-template", "publish"} /\ f = "onlyoffice"
    /\ phase[t] = "draft"
    /\ \A other \in Operations : Active(other) => plan[other].target # t
    /\ plan' = [plan EXCEPT ![o] = [target |-> t, action |-> a, fill |-> f,
                                    base |-> document[t]]]
    /\ Goto(o, "worker", "idle", "create")
    /\ UNCHANGED <<status, stale, claim, document, phase, records, store, serving, crashes>>

(* Mutant of CreateOperation: the route's early check is trusted. *)
CreateOperationUnchecked(o) ==
    LET t == plan[o].target IN
    /\ Goto(o, "worker", "create",
            IF plan[o].fill = "picture" THEN "storeStaged" ELSE "launch")
    /\ IF plan[o].action = "submit"
       THEN /\ phase[t] = "draft"
            /\ phase' = [phase EXCEPT ![t] = "submitting"]
       ELSE phase' = phase
    /\ status' = [status EXCEPT ![o] = "pending"]
    /\ UNCHANGED <<plan, stale, claim, document, records, store, serving, crashes>>

(* The creating transaction: it repeats the check for an active operation  *)
(* (and a partial unique index backs it), and a submission also moves the  *)
(* Response from draft to submitting.  It does not compare the document.   *)
CreateOperation(o) ==
    LET t == plan[o].target IN
    /\ Goto(o, "worker", "create",
            IF plan[o].fill = "picture" THEN "storeStaged" ELSE "launch")
    /\ \A other \in Operations : Active(other) => plan[other].target # t
    /\ IF plan[o].action = "submit"
       THEN /\ phase[t] = "draft"
            /\ phase' = [phase EXCEPT ![t] = "submitting"]
       ELSE phase' = phase
    /\ status' = [status EXCEPT ![o] = "pending"]
    /\ UNCHANGED <<plan, stale, claim, document, records, store, serving, crashes>>

(* The transaction fails: a check of CreateOperation, the editor lease or  *)
(* the form's fill method.  Nothing was written.                           *)
RejectRequest(o) ==
    /\ Goto(o, "worker", "create", "idle")
    /\ plan' = [plan EXCEPT ![o] = NoPlan]
    /\ UNCHANGED <<status, stale, claim, document, phase, records, store, serving, crashes>>

(* A native form with picture fields stores the uploaded document before   *)
(* the background task starts, whatever happened to the row meanwhile.     *)
StoreStaged(o) ==
    /\ \/ /\ Goto(o, "worker", "storeStaged", "launch")
          /\ store' = store \cup {Staged(o)}
       \/ /\ Goto(o, "worker", "storeStaged", "fail")
          /\ store' \in {store, store \cup {Staged(o)}}
    /\ UNCHANGED <<rows, serving, crashes>>

-----------------------------------------------------------------------------
(* The background task: launchForceSave or processNativeResponseOperation  *)

LaunchForceSave(o) ==
    /\ pc[<<o, "worker">>] = "launch"
    /\ plan[o].fill = "onlyoffice"
    /\ IF status[o] = "pending"
       THEN /\ Goto(o, "worker", "launch", "forceSave")
            /\ status' = [status EXCEPT ![o] = "processing"]
            /\ stale' = [stale EXCEPT ![o] = FALSE]
            /\ claim' = [claim EXCEPT ![o] = "live"]
       ELSE /\ Goto(o, "worker", "launch", "idle")
            /\ UNCHANGED <<status, stale, claim>>
    /\ UNCHANGED <<plan, document, phase, records, store, serving, crashes>>

(* The command service accepts the save, reports that nothing changed, or  *)
(* fails; an answer lost after the save was accepted is a failure here.    *)
ForceSaveReturns(o) ==
    /\ \E to \in {"idle", "consume", "fail"} : Goto(o, "worker", "forceSave", to)
    /\ UNCHANGED <<rows, store, serving, crashes>>

ConsumeClaim(o) == claim' = [claim EXCEPT ![o] = IF @ = "live" THEN "consumed" ELSE @]

(* Nothing changed: the task consumes its own claim.                       *)
ConsumeForSnapshot(o) ==
    /\ Goto(o, "worker", "consume", CASE claim[o] = "live"     -> "snapshot"
                                      [] claim[o] = "consumed" -> "idle"
                                      [] OTHER                 -> "fail")
    /\ ConsumeClaim(o)
    /\ UNCHANGED <<plan, status, stale, document, phase, records, store, serving, crashes>>

(* It reads the stored snapshot of its own document key; a draft that has  *)
(* moved on, or an object that is gone, is an exception.                   *)
ReadSnapshot(o) ==
    /\ \/ /\ Goto(o, "worker", "snapshot", "finalize")
          /\ document[plan[o].target] = plan[o].base
          /\ plan[o].base \in store
       \/ Goto(o, "worker", "snapshot", "fail")
    /\ UNCHANGED <<rows, store, serving, crashes>>

LaunchNative(o) ==
    /\ pc[<<o, "worker">>] = "launch"
    /\ plan[o].fill # "onlyoffice"
    /\ IF status[o] = "pending"
       THEN /\ Goto(o, "worker", "launch", "native")
            /\ status' = [status EXCEPT ![o] = "processing"]
            /\ stale' = [stale EXCEPT ![o] = FALSE]
       ELSE /\ Goto(o, "worker", "launch", "idle")
            /\ UNCHANGED <<status, stale>>
    /\ UNCHANGED <<plan, claim, document, phase, records, store, serving, crashes>>

(* Whether the Response still awaits this operation: the check made before *)
(* the document is built and again before the completing transaction.      *)
Awaits(o) ==
    LET t == plan[o].target IN
    /\ document[t] = plan[o].base
    /\ phase[t] = IF plan[o].action = "submit" THEN "submitting" ELSE "draft"

BuildNative(o) ==
    /\ \/ /\ Goto(o, "worker", "native",
                  IF plan[o].fill = "picture" THEN "putFinal" ELSE "putStaged")
          /\ Awaits(o)
          /\ plan[o].fill = "picture" => Staged(o) \in store
       \/ Goto(o, "worker", "native", "catchStaged")
    /\ UNCHANGED <<rows, store, serving, crashes>>

-----------------------------------------------------------------------------
(* The callback route of the document server                               *)

(* A forced save, or a failure to save, is reported with the operation's   *)
(* claim; it may be delivered late, twice, or not at all.  The row is read *)
(* before the claim is consumed.                                           *)
DeliverCallback(o, d) ==
    /\ serving
    /\ claim[o] # "none"
    /\ Goto(o, d, "idle", IF Settled(o) THEN "callbackSettled" ELSE "callback")
    /\ UNCHANGED <<rows, store, serving, crashes>>

(* Mutant of ReceiveCallback: a consumed claim still authorises. *)
ReceiveCallbackAgain(o, d) ==
    /\ IF claim[o] \in {"live", "consumed"}
       THEN \E to \in {"finalize", "fail"} : Goto(o, d, "callback", to)
       ELSE Goto(o, d, "callback", "idle")
    /\ ConsumeClaim(o)
    /\ UNCHANGED <<plan, status, stale, document, phase, records, store, serving, crashes>>

ReceiveCallback(o, d) ==
    /\ IF claim[o] = "live"
       THEN \E to \in {"finalize", "fail"} : Goto(o, d, "callback", to)
       ELSE Goto(o, d, "callback", "idle")
    /\ ConsumeClaim(o)
    /\ UNCHANGED <<plan, status, stale, document, phase, records, store, serving, crashes>>

Cleanup(o) == IF status[o] = "completed" THEN "cleanup" ELSE "dropStaged"

ReceiveSettled(o, d) ==
    /\ Goto(o, d, "callbackSettled", IF claim[o] = "lapsed" THEN "idle" ELSE Cleanup(o))
    /\ ConsumeClaim(o)
    /\ UNCHANGED <<plan, status, stale, document, phase, records, store, serving, crashes>>

-----------------------------------------------------------------------------
(* finalizeCallback, and the tail the native task shares with it           *)

(* A settled row is only cleaned up; no usable document URL fails the      *)
(* operation, and so does a download that throws (in the caller's catch).  *)
Finalize(o, r) ==
    /\ IF Settled(o)
       THEN Goto(o, r, "finalize", Cleanup(o))
       ELSE \E to \in {"claimOperation", "fail"} : Goto(o, r, "finalize", to)
    /\ UNCHANGED <<rows, store, serving, crashes>>

ClaimOperation(o, r) ==
    /\ IF Active(o)
       THEN /\ Goto(o, r, "claimOperation", "putStaged")
            /\ status' = [status EXCEPT ![o] = "processing"]
            /\ stale' = [stale EXCEPT ![o] = FALSE]
       ELSE /\ Goto(o, r, "claimOperation", "idle")
            /\ UNCHANGED <<status, stale>>
    /\ UNCHANGED <<plan, claim, document, phase, records, store, serving, crashes>>

(* An upload that throws may have stored the object.                       *)
PutObject(o, r, from, key, to) ==
    /\ \/ Goto(o, r, from, to) /\ store' = store \cup {key}
       \/ Goto(o, r, from, "catchStaged") /\ store' \in {store, store \cup {key}}
    /\ UNCHANGED <<rows, serving, crashes>>

PutStaged(o, r) == PutObject(o, r, "putStaged", Staged(o), "putFinal")
PutFinal(o, r)  == PutObject(o, r, "putFinal", Final(o), "precheck")

Precheck(o, r) ==
    /\ \/ Goto(o, r, "precheck", "commit") /\ Awaits(o)
       \/ Goto(o, r, "precheck", "catchStaged")
    /\ UNCHANGED <<rows, store, serving, crashes>>

(* What the completing transaction checks again.  A submission relies on   *)
(* the Response being in submitting; a template save does not look at the  *)
(* form's status again.                                                    *)
StillAwaited(o) ==
    LET t == plan[o].target IN
    CASE plan[o].action = "save-draft"    -> phase[t] = "draft" /\ document[t] = plan[o].base
      [] plan[o].action = "submit"        -> phase[t] = "submitting"
      [] plan[o].action = "save-template" -> document[t] = plan[o].base
      [] plan[o].action = "publish"       -> phase[t] = "draft" /\ document[t] = plan[o].base

(* Mutant of MarkOperationCompleted: the row is completed whatever it is. *)
MarkCompletedUnchecked(o) == status' = [status EXCEPT ![o] = "completed"]

(* markOperationCompleted refuses a row that is no longer processing.      *)
MarkOperationCompleted(o) ==
    /\ status[o] = "processing"
    /\ status' = [status EXCEPT ![o] = "completed"]

(* A save makes the final object the draft document; a submission records  *)
(* it and clears the draft; a publication records it and keeps the draft.  *)
CompleteTarget(o) ==
    LET t == plan[o].target
        a == plan[o].action
    IN  /\ document' = CASE a \in {"save-draft", "save-template"} ->
                                [document EXCEPT ![t] = Final(o)]
                         [] a = "submit"  -> [document EXCEPT ![t] = NoKey]
                         [] a = "publish" -> document
        /\ phase' = CASE a = "submit"  -> [phase EXCEPT ![t] = "submitted"]
                      [] a = "publish" -> [phase EXCEPT ![t] = "published"]
                      [] OTHER         -> phase
        /\ records' = IF a \in {"submit", "publish"} THEN records \cup {o} ELSE records

(* The serializable completing transaction.  The client may lose the       *)
(* acknowledgement of a commit that took effect.                           *)
CommitCompletion(o, r) ==
    /\ \/ Goto(o, r, "commit", "cleanup")
       \/ "ack" \in Faults /\ Goto(o, r, "commit", "catchStaged")
    /\ StillAwaited(o)
    /\ MarkOperationCompleted(o)
    /\ CompleteTarget(o)
    /\ UNCHANGED <<plan, stale, claim, store, serving, crashes>>

(* The transaction aborts: a check fails, a serialization conflict, an     *)
(* unreachable database.                                                   *)
AbortCompletion(o, r) ==
    /\ Goto(o, r, "commit", "catchStaged")
    /\ UNCHANGED <<rows, store, serving, crashes>>

-----------------------------------------------------------------------------
(* Removing objects                                                        *)

(* deleteObjects swallows a failed deletion.                               *)
DeleteObjects(keys) ==
    \E kept \in IF "delete" \in Faults THEN SUBSET keys ELSE {{}} :
        store' = store \ (keys \ kept)

(* Mutant of CleanupKeys: the replaced draft is not listed. *)
CleanupStagedOnly(o) == {Staged(o)}

CleanupKeys(o) ==
    {Staged(o)} \cup IF plan[o].action = "publish" THEN {} ELSE {plan[o].base}

CleanupObjects(o, r) ==
    /\ Goto(o, r, "cleanup", "idle")
    /\ DeleteObjects(CleanupKeys(o))
    /\ UNCHANGED <<rows, serving, crashes>>

DropStaged(o, r) ==
    /\ \/ Goto(o, r, "catchStaged", "catchCheck")
       \/ Goto(o, r, "dropStaged", "dropCheck")
    /\ DeleteObjects({Staged(o)})
    /\ UNCHANGED <<rows, serving, crashes>>

(* Mutant of CheckCanonical: the references are not looked up. *)
CheckNothing(o, r) ==
    /\ \/ Goto(o, r, "catchCheck", "catchFinal")
       \/ Goto(o, r, "dropCheck", "dropFinal")
    /\ UNCHANGED <<rows, store, serving, crashes>>

(* deleteObjectUnlessCanonical reads the references first, deletes later.  *)
CheckCanonical(o, r) ==
    /\ \/ Goto(o, r, "catchCheck", IF Final(o) \in Canonical THEN "fail" ELSE "catchFinal")
       \/ Goto(o, r, "dropCheck", IF Final(o) \in Canonical THEN "idle" ELSE "dropFinal")
    /\ UNCHANGED <<rows, store, serving, crashes>>

DropFinal(o, r) ==
    /\ \/ Goto(o, r, "catchFinal", "fail")
       \/ Goto(o, r, "dropFinal", "idle")
    /\ DeleteObjects({Final(o)})
    /\ UNCHANGED <<rows, serving, crashes>>

-----------------------------------------------------------------------------
(* Failing an operation, and recovery                                      *)

(* Mutant of RollBackResponse: the Response stays in submitting. *)
RollBackNothing(o) == phase' = phase

(* A submission that was pending gives the Response back to its owner.     *)
RollBackResponse(o) ==
    LET t == plan[o].target IN
    phase' = IF plan[o].action = "submit" /\ phase[t] = "submitting"
             THEN [phase EXCEPT ![t] = "draft"] ELSE phase

(* Mutant of FailOperation: an exception fails the row whatever it is. *)
FailOperationUnchecked(o, r) ==
    /\ IF r = "recovery" => stale[o]
       THEN /\ Goto(o, r, "fail", "dropStaged")
            /\ status' = [status EXCEPT ![o] = "failed"]
            /\ RollBackResponse(o)
       ELSE /\ Goto(o, r, "fail", "idle")
            /\ UNCHANGED <<status, phase>>
    /\ UNCHANGED <<plan, stale, claim, document, records, store, serving, crashes>>

(* updateOperationFailed: only an active row fails, and expiry fails it    *)
(* only if it is still stale.                                              *)
FailOperation(o, r) ==
    /\ IF Active(o) /\ (r = "recovery" => stale[o])
       THEN /\ Goto(o, r, "fail", "dropStaged")
            /\ status' = [status EXCEPT ![o] = "failed"]
            /\ RollBackResponse(o)
       ELSE /\ Goto(o, r, "fail", "idle")
            /\ UNCHANGED <<status, phase>>
    /\ UNCHANGED <<plan, stale, claim, document, records, store, serving, crashes>>

(* Mutant of ExpireOperation: only activated operations expire. *)
ExpireProcessing(o) ==
    /\ status[o] = "processing" /\ stale[o]
    /\ Goto(o, "recovery", "idle", "fail")
    /\ UNCHANGED <<rows, store, serving, crashes>>

(* Expiry of a stale operation: by reconciliation, which runs at startup   *)
(* and every minute, or by whoever reads the operation.                    *)
ExpireOperation(o) ==
    /\ Active(o) /\ stale[o]
    /\ Goto(o, "recovery", "idle", "fail")
    /\ UNCHANGED <<rows, store, serving, crashes>>

(* GET /api/operations/:id cleans up behind a terminal operation.          *)
PollOperation(o) ==
    /\ serving
    /\ Settled(o)
    /\ Goto(o, "recovery", "idle", Cleanup(o))
    /\ UNCHANGED <<rows, store, serving, crashes>>

(* operationTimeoutMs pass since the row was last touched.                 *)
GrowStale(o) ==
    /\ Active(o) /\ ~stale[o]
    /\ stale' = [stale EXCEPT ![o] = TRUE]
    /\ UNCHANGED <<plan, status, claim, document, phase, records, store, pc, serving, crashes>>

(* A claim expires (and reconciliation deletes it) five minutes after the  *)
(* activation that touched the row, so later than an untouched row.        *)
LapseClaim(o) ==
    /\ claim[o] \in {"live", "consumed"}
    /\ Settled(o) \/ stale[o]
    /\ claim' = [claim EXCEPT ![o] = "lapsed"]
    /\ UNCHANGED <<plan, status, stale, document, phase, records, store, pc, serving, crashes>>

Crash ==
    /\ "crash" \in Faults
    /\ crashes < MaxCrashes
    /\ crashes' = crashes + 1
    /\ serving' = FALSE
    /\ pc' = [p \in Operations \X Roles |-> "idle"]
    /\ plan' = [o \in Operations |-> IF status[o] = "none" THEN NoPlan ELSE plan[o]]
    /\ UNCHANGED <<status, stale, claim, document, phase, records, store>>

(* The server listens once startup reconciliation has failed what is stale *)
Serve ==
    /\ ~serving
    /\ \A o \in Operations : pc[<<o, "recovery">>] = "idle" /\ ~(Active(o) /\ stale[o])
    /\ serving' = TRUE
    /\ UNCHANGED <<rows, store, pc, crashes>>

-----------------------------------------------------------------------------
Request(o) ==
    \/ \E t \in Targets, f \in Fills, a \in {"save-draft", "submit", "save-template", "publish"} :
            BeginRequest(o, t, a, f)
    \/ CreateOperation(o)
    \/ RejectRequest(o)
    \/ StoreStaged(o)

Worker(o) ==
    \/ LaunchForceSave(o)
    \/ ForceSaveReturns(o)
    \/ ConsumeForSnapshot(o)
    \/ ReadSnapshot(o)
    \/ LaunchNative(o)
    \/ BuildNative(o)

Callback(o, d) ==
    \/ DeliverCallback(o, d)
    \/ ReceiveCallback(o, d)
    \/ ReceiveSettled(o, d)

Process(o, r) ==
    \/ Finalize(o, r)
    \/ ClaimOperation(o, r)
    \/ PutStaged(o, r)
    \/ PutFinal(o, r)
    \/ Precheck(o, r)
    \/ CommitCompletion(o, r)
    \/ AbortCompletion(o, r)
    \/ CleanupObjects(o, r)
    \/ DropStaged(o, r)
    \/ CheckCanonical(o, r)
    \/ DropFinal(o, r)
    \/ FailOperation(o, r)

Passing(o) ==
    \/ ExpireOperation(o)
    \/ PollOperation(o)
    \/ GrowStale(o)
    \/ LapseClaim(o)

Next ==
    \/ \E o \in Operations :
         \/ Request(o)
         \/ Worker(o)
         \/ \E d \in Deliveries : Callback(o, d)
         \/ \E r \in Roles : Process(o, r)
         \/ Passing(o)
    \/ Crash
    \/ Serve

Spec == Init /\ [][Next]_vars

(* Time passes, the minute timer reconciles, and the database answers it.  *)
(* Nothing is assumed of the task, the document server or the client.      *)
Fairness ==
    /\ \A o \in Operations :
         /\ WF_vars(GrowStale(o))
         /\ WF_vars(ExpireOperation(o))
         /\ WF_vars(Process(o, "recovery"))
    /\ WF_vars(Serve)

FairSpec == Spec /\ Fairness

-----------------------------------------------------------------------------
(* Properties                                                              *)

PcValues == {"idle", "create", "storeStaged", "launch", "forceSave", "consume", "snapshot",
             "native", "callback", "callbackSettled", "finalize", "claimOperation",
             "putStaged", "putFinal", "precheck", "commit", "cleanup",
             "catchStaged", "catchCheck", "catchFinal", "fail",
             "dropStaged", "dropCheck", "dropFinal"}

(* Every variable has its type. *)
TypeOK ==
    /\ plan \in [Operations -> Plans \cup {NoPlan}]
    /\ status \in [Operations -> {"none", "pending", "processing", "completed", "failed"}]
    /\ stale \in [Operations -> BOOLEAN]
    /\ claim \in [Operations -> {"none", "live", "consumed", "lapsed"}]
    /\ document \in [Targets -> Keys \cup {NoKey}]
    /\ phase \in [Targets -> {"draft", "submitting", "submitted", "published"}]
    /\ records \subseteq Operations
    /\ store \subseteq Keys
    /\ pc \in [Operations \X Roles -> PcValues]
    /\ serving \in BOOLEAN
    /\ crashes \in Nat

(* The database never refers to a document that is gone: whatever races a  *)
(* late callback, a timeout's cleanup, a poll's cleanup, a lost            *)
(* acknowledgement and a crash run, no canonical object is deleted and no  *)
(* row commits before its object is stored.                                *)
CanonicalStored == Canonical \subseteq store

(* The one live operation of a target: a Response is in submitting exactly *)
(* while a submission is pending or processing, so a failed, expired or    *)
(* crashed submission always gives the draft back to its owner.            *)
SubmittingIffPending ==
    \A t \in Targets :
        (phase[t] = "submitting") <=>
            \E o \in Operations : Active(o) /\ plan[o].target = t /\ plan[o].action = "submit"

(* At most one process is between claiming and completing an operation,    *)
(* however many callbacks the document server repeats and even if the      *)
(* save task answers "no changes" at the same time.                        *)
Finalizing == {"finalize", "snapshot", "native", "claimOperation", "putStaged", "putFinal",
               "precheck", "commit", "catchStaged", "catchCheck", "catchFinal"}

OneFinalizer ==
    \A o \in Operations : \A r1, r2 \in Roles :
        pc[<<o, r1>>] \in Finalizing /\ pc[<<o, r2>>] \in Finalizing => r1 = r2

(* An operation's terminal status agrees with what it left in the other    *)
(* tables: a Submission or Published Template exists exactly for the       *)
(* completed submissions and publications, at most one per target, and     *)
(* no draft refers to the document of an operation that did not complete.  *)
OutcomeMatchesRows ==
    /\ \A o \in Operations :
          o \in records <=> status[o] = "completed" /\ plan[o].action \in {"submit", "publish"}
    /\ \A o1, o2 \in records : plan[o1].target = plan[o2].target => o1 = o2
    /\ \A t \in Targets, o \in Operations : document[t] = Final(o) => status[o] = "completed"

(* A terminal operation never changes again, and an operation that         *)
(* completes replaces or records the very version its request read: a save *)
(* that another save overtook does not overwrite it.                       *)
NoLostUpdate ==
    [][\A o \in Operations :
         /\ Settled(o) => status'[o] = status[o]
         /\ status[o] # "completed" /\ status'[o] = "completed"
                => document[plan[o].target] = plan[o].base]_vars

(* Every operation that was created reaches a terminal state, although the *)
(* save task or the document server may have vanished.                     *)
EveryOperationSettles ==
    \A o \in Operations : (status[o] = "pending") ~> Settled(o)

(* With no crash, no failed deletion and no lost acknowledgement, once     *)
(* nothing runs only canonical objects are left (plus the picture upload   *)
(* of a native form, which nothing removes when it ends after its          *)
(* operation failed).                                                      *)
AtRest == \A p \in Operations \X Roles : pc[p] = "idle"
Leftover == {Staged(o) : o \in {x \in Operations : plan[x] # NoPlan /\ plan[x].fill = "picture"}}

NoOrphansAtRest ==
    Faults \subseteq {"crash"} /\ crashes = 0 /\ AtRest /\ (\A o \in Operations : ~Active(o))
        => store \subseteq Canonical \cup Leftover

-----------------------------------------------------------------------------
(* The inductive invariant behind the safety properties                    *)

(* Which status each program counter can be reached in.                    *)
RowControl(o) ==
    /\ plan[o] = NoPlan => status[o] = "none"
    /\ status[o] \in {"none", "pending"} => claim[o] = "none"

ControlAt(o, r) ==
    LET at == pc[<<o, r>>] IN
    /\ at # "idle" => plan[o] # NoPlan
    /\ at \in {"create", "storeStaged", "launch"} => r = "worker"
    /\ at = "create" => status[o] = "none"
    /\ at \notin {"idle", "create"} => status[o] # "none"
    /\ at = "cleanup" => status[o] = "completed"
    /\ at \in {"dropStaged", "dropCheck", "dropFinal"} => status[o] = "failed"
    /\ at = "callbackSettled" => Settled(o)

ControlInv == \A o \in Operations : RowControl(o) /\ \A r \in Roles : ControlAt(o, r)

(* A live claim, or a row nobody has activated, has no finalizer yet.      *)
FinalizerInv ==
    /\ OneFinalizer
    /\ \A o \in Operations :
          claim[o] = "live" \/ status[o] \in {"none", "pending"}
            => \A r \in Roles : pc[<<o, r>>] \notin Finalizing

OneActiveOperation ==
    \A o1, o2 \in Operations :
        Active(o1) /\ Active(o2) /\ plan[o1].target = plan[o2].target => o1 = o2

TargetInv ==
    /\ OneActiveOperation
    /\ SubmittingIffPending
    /\ \A t \in Targets :
          /\ document[t] = NoKey => phase[t] = "submitted"
          /\ t \in Responses => phase[t] # "published"
          /\ t \in TemplateDrafts => phase[t] \in {"draft", "published"}
    /\ \A o \in Operations :
          plan[o] # NoPlan => (plan[o].target \in Responses
                                  <=> plan[o].action \in {"save-draft", "submit"})
    /\ \A o \in records : phase[plan[o].target] \in {"submitted", "published"}

(* Where document versions come from: the seed of the target, or the final *)
(* object of a completed save on it.                                       *)
SaveOf(o, t) ==
    /\ status[o] = "completed"
    /\ plan[o].target = t
    /\ plan[o].action \in {"save-draft", "save-template"}

VersionOf(key, t) == key = Seed(t) \/ \E o \in Operations : key = Final(o) /\ SaveOf(o, t)

VersionInv ==
    /\ \A t \in Targets : document[t] # NoKey => VersionOf(document[t], t)
    /\ \A o \in Operations : plan[o] # NoPlan => VersionOf(plan[o].base, plan[o].target)
    /\ \A o \in Operations :
          status[o] = "completed" /\ plan[o].action # "publish"
             => document[plan[o].target] # plan[o].base
    /\ \A o \in Operations, r \in Roles :
          pc[<<o, r>>] = "commit" /\ Active(o) => Awaits(o)

StoreInv ==
    /\ CanonicalStored
    /\ \A o \in Operations, r \in Roles :
          /\ pc[<<o, r>>] \in {"precheck", "commit"} /\ Active(o) => Final(o) \in store
          /\ pc[<<o, r>>] = "catchFinal" => Final(o) \notin Canonical

IndInv ==
    /\ TypeOK
    /\ ControlInv
    /\ FinalizerInv
    /\ TargetInv
    /\ OutcomeMatchesRows
    /\ VersionInv
    /\ StoreInv

-----------------------------------------------------------------------------
(* The abstract specification this one implements                          *)

AbstractRequest == [o \in Operations |-> IF status[o] = "none" THEN NoPlan ELSE plan[o]]
AbstractOutcome == [o \in Operations |-> IF Active(o) THEN "open" ELSE status[o]]

Outcomes == INSTANCE DocumentOutcomes
                WITH request <- AbstractRequest, outcome <- AbstractOutcome

(* To its clients an operation is one atomic effect: it is accepted, then  *)
(* completes on the version it was made from, or fails without a trace,    *)
(* whatever the task, the callbacks, timeouts and crashes did in between.  *)
ImplementsOutcomes == Outcomes!Spec
=============================================================================
