----------------------- MODULE OperationLifecycleProofs -----------------------
(***************************************************************************)
(* Proofs about OperationLifecycle for any sets of operations, targets and *)
(* deliveries and any bound on crashes.                                    *)
(***************************************************************************)
EXTENDS OperationLifecycle, TLAPS

(* Object keys of different kinds or owners differ. *)
LEMMA KeyFacts ==
    /\ \A t \in Targets : Seed(t) \in Keys
    /\ \A o \in Operations : Staged(o) \in Keys /\ Final(o) \in Keys
    /\ \A s, t : Seed(s) = Seed(t) => s = t
    /\ \A o, x : Final(o) = Final(x) => o = x
    /\ \A o, x : Final(o) # Staged(x) /\ Final(o) # Seed(x) /\ Staged(o) # Seed(x)
  BY DEF Seed, Staged, Final, Keys

USE DEF Roles

(* A request is made from a real document: a draft always has one.         *)
LEMMA RequestPlan ==
    ASSUME TypeOK, TargetInv, NEW o \in Operations, NEW t \in Targets, NEW f \in Fills,
           NEW a \in {"save-draft", "submit", "save-template", "publish"},
           BeginRequest(o, t, a, f)
    PROVE  [target |-> t, action |-> a, fill |-> f, base |-> document[t]] \in Plans
<1>1. document[t] \in Keys
  BY DEF TypeOK, TargetInv, BeginRequest
<1> QED BY <1>1 DEF Plans

(* Every variable keeps its type in every step.  A draft always has a      *)
(* document, so a request reads a real key: the one fact beyond types.     *)
LEMMA TypeStep ==
    ASSUME TypeOK, ControlInv, TargetInv, [Next]_vars
    PROVE  TypeOK'
<1> USE KeyFacts, NoPlanAssumption, NoKeyAssumption
<1>1. ASSUME NEW o \in Operations, NEW t \in Targets, NEW f \in Fills,
             NEW a \in {"save-draft", "submit", "save-template", "publish"},
             BeginRequest(o, t, a, f)
      PROVE  TypeOK'
  BY <1>1, RequestPlan DEF TypeOK, BeginRequest, Goto, PcValues
<1>2. ASSUME NEW o \in Operations, CreateOperation(o) PROVE TypeOK'
  BY <1>2 DEF TypeOK, CreateOperation, Goto, PcValues
<1>3. ASSUME NEW o \in Operations, RejectRequest(o) PROVE TypeOK'
  BY <1>3 DEF TypeOK, RejectRequest, Goto, PcValues
<1>4. ASSUME NEW o \in Operations, StoreStaged(o) PROVE TypeOK'
  BY <1>4 DEF TypeOK, StoreStaged, Goto, PcValues, rows
<1>5. ASSUME NEW o \in Operations, Worker(o) PROVE TypeOK'
  <2>1. CASE LaunchForceSave(o) \/ LaunchNative(o)
    <3>1. pc' \in [Operations \X Roles -> PcValues]
      BY <2>1 DEF TypeOK, LaunchForceSave, LaunchNative, Goto, PcValues
    <3> QED BY <2>1, <3>1 DEF TypeOK, LaunchForceSave, LaunchNative
  <2>2. CASE ForceSaveReturns(o) \/ ReadSnapshot(o)
    BY <2>2 DEF TypeOK, ForceSaveReturns, ReadSnapshot, Goto, PcValues, rows
  <2>3. CASE ConsumeForSnapshot(o)
    BY <2>3 DEF TypeOK, ConsumeForSnapshot, ConsumeClaim, Goto, PcValues
  <2>4. CASE BuildNative(o)
    BY <2>4 DEF TypeOK, BuildNative, Goto, PcValues, rows
  <2> QED BY <1>5, <2>1, <2>2, <2>3, <2>4 DEF Worker
<1>6. ASSUME NEW o \in Operations, NEW d \in Deliveries, Callback(o, d) PROVE TypeOK'
  <2>1. pc' \in [Operations \X Roles -> PcValues]
    BY <1>6 DEF TypeOK, Callback, DeliverCallback, ReceiveCallback, ReceiveSettled, Cleanup,
         Goto, PcValues
  <2> QED BY <1>6, <2>1 DEF TypeOK, Callback, DeliverCallback, ReceiveCallback, ReceiveSettled,
       ConsumeClaim, rows
<1>7. ASSUME NEW o \in Operations, NEW r \in Roles, Process(o, r) PROVE TypeOK'
  <2>1. CASE CommitCompletion(o, r)
    <3>1. pc' \in [Operations \X Roles -> PcValues]
      BY <2>1 DEF TypeOK, CommitCompletion, Goto, PcValues
    <3>2. status' \in [Operations -> {"none", "pending", "processing", "completed", "failed"}]
      BY <2>1 DEF TypeOK, CommitCompletion, MarkOperationCompleted
    <3> DEFINE t == plan[o].target
               a == plan[o].action
    <3>0. plan[o] \in Plans
      BY <2>1 DEF TypeOK, ControlInv, ControlAt, CommitCompletion, Goto
    <3>a. t \in Targets /\ a \in {"save-draft", "submit", "save-template", "publish"}
      BY <3>0 DEF Plans
    <3>3. document' \in [Targets -> Keys \cup {NoKey}]
      BY <2>1, <3>a DEF TypeOK, CommitCompletion, CompleteTarget
    <3>4. phase' \in [Targets -> {"draft", "submitting", "submitted", "published"}]
      BY <2>1, <3>a DEF TypeOK, CommitCompletion, CompleteTarget
    <3>5. records' \subseteq Operations
      BY <2>1 DEF TypeOK, CommitCompletion, CompleteTarget
    <3> QED BY <2>1, <3>1, <3>2, <3>3, <3>4, <3>5 DEF TypeOK, CommitCompletion
  <2>2. CASE FailOperation(o, r)
    <3>1. pc' \in [Operations \X Roles -> PcValues]
      BY <2>2 DEF TypeOK, FailOperation, Goto, PcValues
    <3>2. status' \in [Operations -> {"none", "pending", "processing", "completed", "failed"}]
      BY <2>2 DEF TypeOK, FailOperation
    <3>3. phase' \in [Targets -> {"draft", "submitting", "submitted", "published"}]
      BY <2>2 DEF TypeOK, FailOperation, RollBackResponse
    <3> QED BY <2>2, <3>1, <3>2, <3>3 DEF TypeOK, FailOperation
  <2>3. CASE Finalize(o, r) \/ ClaimOperation(o, r) \/ Precheck(o, r) \/ AbortCompletion(o, r)
    <3>1. pc' \in [Operations \X Roles -> PcValues]
      BY <2>3 DEF TypeOK, Finalize, ClaimOperation, Precheck, AbortCompletion, Cleanup, Goto,
           PcValues
    <3> QED BY <2>3, <3>1 DEF TypeOK, Finalize, ClaimOperation, Precheck, AbortCompletion, rows
  <2>4. CASE PutStaged(o, r) \/ PutFinal(o, r)
    BY <2>4 DEF TypeOK, PutStaged, PutFinal, PutObject, Goto, PcValues, rows
  <2>5. CASE CleanupObjects(o, r) \/ DropStaged(o, r) \/ CheckCanonical(o, r) \/ DropFinal(o, r)
    BY <2>5 DEF TypeOK, CleanupObjects, DropStaged, CheckCanonical, DropFinal, DeleteObjects,
         Goto, PcValues, rows
  <2> QED BY <1>7, <2>1, <2>2, <2>3, <2>4, <2>5 DEF Process
<1>8. ASSUME NEW o \in Operations, Passing(o) PROVE TypeOK'
  BY <1>8 DEF TypeOK, Passing, ExpireOperation, PollOperation, GrowStale, LapseClaim, Cleanup,
       Goto, PcValues, rows
<1>9. CASE Crash
  <2>1. pc' \in [Operations \X Roles -> PcValues]
    BY <1>9 DEF TypeOK, Crash, PcValues
  <2>2. plan' \in [Operations -> Plans \cup {NoPlan}]
    BY <1>9 DEF TypeOK, Crash
  <2>3. serving' \in BOOLEAN
    BY <1>9 DEF TypeOK, Crash
  <2>4. crashes' \in Nat
    BY <1>9 DEF TypeOK, Crash
  <2> QED BY <1>9, <2>1, <2>2, <2>3, <2>4 DEF TypeOK, Crash
<1>10. CASE Serve
  BY <1>10 DEF TypeOK, Serve, rows
<1>11. CASE UNCHANGED vars
  BY <1>11 DEF TypeOK, vars
<1> QED
  BY <1>1, <1>2, <1>3, <1>4, <1>5, <1>6, <1>7, <1>8, <1>9, <1>10, <1>11 DEF Next, Request

(* Goto moves one program counter and leaves the others where they are. *)
LEMMA GotoFacts ==
    ASSUME TypeOK, NEW o \in Operations, NEW r \in Roles, NEW from, NEW to, Goto(o, r, from, to)
    PROVE  /\ pc[<<o, r>>] = from
           /\ pc'[<<o, r>>] = to
           /\ \A x \in Operations, q \in Roles :
                 x # o \/ q # r => pc'[<<x, q>>] = pc[<<x, q>>]
  BY DEF TypeOK, Goto

(* A step of one process that keeps the status of its operation and moves  *)
(* to a program counter that status allows keeps ControlInv.               *)
LEMMA ControlMove ==
    ASSUME TypeOK, ControlInv, NEW o \in Operations, NEW r \in Roles, NEW from, NEW to,
           Goto(o, r, from, to), plan' = plan, status' = status,
           \A x \in Operations : claim[x] = "none" => claim'[x] = "none",
           from \notin {"idle", "create"} \/ Settled(o) \/ Active(o),
           to \notin {"create", "storeStaged"}, to = "launch" => r = "worker",
           to = "cleanup" => status[o] = "completed",
           to \in {"dropStaged", "dropCheck", "dropFinal"} => status[o] = "failed",
           to = "callbackSettled" => Settled(o)
    PROVE  ControlInv'
<1>1. /\ pc[<<o, r>>] = from
      /\ pc'[<<o, r>>] = to
      /\ \A x \in Operations, q \in Roles : x # o \/ q # r => pc'[<<x, q>>] = pc[<<x, q>>]
  BY GotoFacts
<1>2. ASSUME NEW x \in Operations PROVE RowControl(x)'
  BY DEF ControlInv, RowControl
<1>3. plan[o] # NoPlan /\ status[o] # "none"
  BY <1>1 DEF ControlInv, ControlAt, RowControl, Settled, Active
<1>4. ControlAt(o, r)'
  BY <1>1, <1>3 DEF ControlAt, Settled
<1>5. ASSUME NEW x \in Operations, NEW q \in Roles, x # o \/ q # r PROVE ControlAt(x, q)'
  <2>1. pc'[<<x, q>>] = pc[<<x, q>>]
    BY <1>1, <1>5
  <2> QED BY <2>1 DEF ControlInv, ControlAt, Settled
<1> QED BY <1>2, <1>4, <1>5 DEF ControlInv

(* So does a step that changes the status of an active operation: no other *)
(* process of it stands at a program counter of a settled one.             *)
LEMMA ControlChange ==
    ASSUME TypeOK, ControlInv, NEW o \in Operations, NEW r \in Roles, NEW from, NEW to,
           Goto(o, r, from, to), plan' = plan, Active(o),
           NEW new \in {"processing", "completed", "failed"},
           status' = [status EXCEPT ![o] = new],
           \A x \in Operations : x # o => claim'[x] = claim[x],
           to \notin {"create", "storeStaged", "launch", "callbackSettled"},
           to = "cleanup" => new = "completed",
           to \in {"dropStaged", "dropCheck", "dropFinal"} => new = "failed"
    PROVE  ControlInv'
<1>1. /\ pc[<<o, r>>] = from
      /\ pc'[<<o, r>>] = to
      /\ \A x \in Operations, q \in Roles : x # o \/ q # r => pc'[<<x, q>>] = pc[<<x, q>>]
  BY GotoFacts
<1>2. status'[o] = new /\ \A x \in Operations : x # o => status'[x] = status[x]
  BY DEF TypeOK
<1>3. plan[o] # NoPlan
  BY DEF ControlInv, RowControl, Active
<1>4. ASSUME NEW x \in Operations PROVE RowControl(x)'
  BY <1>2, <1>3 DEF ControlInv, RowControl
<1>5. ControlAt(o, r)'
  BY <1>1, <1>2, <1>3 DEF ControlAt, Settled
<1>6. ASSUME NEW x \in Operations, NEW q \in Roles, x # o \/ q # r PROVE ControlAt(x, q)'
  <2>1. pc'[<<x, q>>] = pc[<<x, q>>]
    BY <1>1, <1>6
  <2>2. CASE x # o
    BY <2>1, <2>2, <1>2 DEF ControlInv, ControlAt, Settled
  <2>3. CASE x = o
    BY <2>1, <2>3, <1>2, <1>3 DEF ControlInv, ControlAt, Settled, Active
  <2> QED BY <2>2, <2>3
<1> QED BY <1>4, <1>5, <1>6 DEF ControlInv

(* Program counters agree with the status of their operation. *)
LEMMA ControlStep ==
    ASSUME TypeOK, ControlInv, TargetInv, [Next]_vars
    PROVE  ControlInv'
<1>1. ASSUME NEW o \in Operations, NEW t \in Targets, NEW f \in Fills,
             NEW a \in {"save-draft", "submit", "save-template", "publish"},
             BeginRequest(o, t, a, f)
      PROVE  ControlInv'
  <2>1. plan'[o] # NoPlan /\ \A x \in Operations : x # o => plan'[x] = plan[x]
    <3>1. [target |-> t, action |-> a, fill |-> f, base |-> document[t]] # NoPlan
      BY <1>1, RequestPlan, NoPlanAssumption
    <3> QED BY <1>1, <3>1 DEF BeginRequest, TypeOK
  <2> QED BY <1>1, <2>1 DEF BeginRequest, ControlInv, RowControl, ControlAt, Settled, Goto, TypeOK
<1>2. ASSUME NEW o \in Operations, CreateOperation(o) PROVE ControlInv'
  <2>1. status'[o] = "pending" /\ \A x \in Operations : x # o => status'[x] = status[x]
    BY <1>2 DEF CreateOperation, TypeOK
  <2>2. \A q \in Roles : q # "worker" => pc[<<o, q>>] = "idle"
    BY <1>2 DEF CreateOperation, Goto, ControlInv, ControlAt
  <2>3. status[o] = "none" /\ plan[o] # NoPlan
    BY <1>2 DEF CreateOperation, Goto, ControlInv, ControlAt
  <2> QED BY <1>2, <2>1, <2>2, <2>3
          DEF CreateOperation, ControlInv, RowControl, ControlAt, Settled, Goto, TypeOK
<1>3. ASSUME NEW o \in Operations, RejectRequest(o) PROVE ControlInv'
  <2>1. \A q \in Roles : q # "worker" => pc[<<o, q>>] = "idle"
    BY <1>3 DEF RejectRequest, Goto, ControlInv, ControlAt
  <2>2. status[o] = "none"
    BY <1>3 DEF RejectRequest, Goto, ControlInv, ControlAt
  <2>3. \A x \in Operations : x # o => plan'[x] = plan[x]
    BY <1>3 DEF RejectRequest, TypeOK
  <2> QED BY <1>3, <2>1, <2>2, <2>3
          DEF RejectRequest, ControlInv, RowControl, ControlAt, Settled, Goto, TypeOK
<1>4. ASSUME NEW o \in Operations, StoreStaged(o) PROVE ControlInv'
  BY <1>4, ControlMove DEF StoreStaged, rows
<1>5. ASSUME NEW o \in Operations, LaunchForceSave(o) PROVE ControlInv'
  <2>1. CASE status[o] = "pending"
    <3>1. \A x \in Operations : x # o => claim'[x] = claim[x]
      BY <1>5, <2>1 DEF LaunchForceSave, TypeOK
    <3> QED BY <1>5, <2>1, <3>1, ControlChange DEF LaunchForceSave, Active
  <2>2. CASE status[o] # "pending"
    BY <1>5, <2>2, ControlMove DEF LaunchForceSave
  <2> QED BY <2>1, <2>2
<1>6. ASSUME NEW o \in Operations, LaunchNative(o) PROVE ControlInv'
  <2>1. CASE status[o] = "pending"
    BY <1>6, <2>1, ControlChange DEF LaunchNative, Active
  <2>2. CASE status[o] # "pending"
    BY <1>6, <2>2, ControlMove DEF LaunchNative
  <2> QED BY <2>1, <2>2
<1>7. ASSUME NEW o \in Operations,
             ForceSaveReturns(o) \/ ReadSnapshot(o) \/ BuildNative(o)
      PROVE  ControlInv'
  <2>1. CASE ForceSaveReturns(o)
    BY <2>1, ControlMove DEF ForceSaveReturns, rows
  <2>2. CASE ReadSnapshot(o)
    BY <2>2, ControlMove DEF ReadSnapshot, rows
  <2>3. CASE BuildNative(o)
    BY <2>3, ControlMove DEF BuildNative, rows
  <2> QED BY <1>7, <2>1, <2>2, <2>3
<1>8. ASSUME NEW o \in Operations, ConsumeClaim(o)
      PROVE  \A x \in Operations : claim[x] = "none" => claim'[x] = "none"
  BY <1>8 DEF ConsumeClaim, TypeOK
<1>9. ASSUME NEW o \in Operations, ConsumeForSnapshot(o) PROVE ControlInv'
  <2>1. PICK to \in {"snapshot", "idle", "fail"} : Goto(o, "worker", "consume", to)
    BY <1>9 DEF ConsumeForSnapshot
  <2> QED BY <1>9, <1>8, <2>1, ControlMove DEF ConsumeForSnapshot
<1>10. ASSUME NEW o \in Operations, NEW d \in Deliveries, DeliverCallback(o, d) PROVE ControlInv'
  <2>1. Settled(o) \/ Active(o)
    BY <1>10 DEF DeliverCallback, ControlInv, RowControl, Settled, Active, TypeOK
  <2> QED BY <1>10, <2>1, ControlMove DEF DeliverCallback, rows
<1>11. ASSUME NEW o \in Operations, NEW d \in Deliveries, ReceiveCallback(o, d) PROVE ControlInv'
  <2>1. PICK to \in {"finalize", "fail", "idle"} : Goto(o, d, "callback", to)
    BY <1>11 DEF ReceiveCallback
  <2> QED BY <1>11, <1>8, <2>1, ControlMove DEF ReceiveCallback
<1>12. ASSUME NEW o \in Operations, NEW d \in Deliveries, ReceiveSettled(o, d) PROVE ControlInv'
  <2>1. Settled(o)
    BY <1>12 DEF ReceiveSettled, Goto, ControlInv, ControlAt
  <2>2. PICK to : to \in {"idle", Cleanup(o)} /\ Goto(o, d, "callbackSettled", to)
    BY <1>12 DEF ReceiveSettled
  <2> QED BY <1>12, <1>8, <2>1, <2>2, ControlMove DEF ReceiveSettled, Cleanup, Settled
<1>13. ASSUME NEW o \in Operations, NEW r \in Roles, Finalize(o, r) PROVE ControlInv'
  <2>1. CASE Settled(o)
    BY <1>13, <2>1, ControlMove DEF Finalize, Cleanup, Settled, rows
  <2>2. CASE ~Settled(o)
    BY <1>13, <2>2, ControlMove DEF Finalize, rows
  <2> QED BY <2>1, <2>2
<1>14. ASSUME NEW o \in Operations, NEW r \in Roles, ClaimOperation(o, r) PROVE ControlInv'
  <2>1. CASE Active(o)
    BY <1>14, <2>1, ControlChange DEF ClaimOperation
  <2>2. CASE ~Active(o)
    BY <1>14, <2>2, ControlMove DEF ClaimOperation
  <2> QED BY <2>1, <2>2
<1>15. ASSUME NEW o \in Operations, NEW r \in Roles,
              PutStaged(o, r) \/ PutFinal(o, r) \/ Precheck(o, r) \/ AbortCompletion(o, r)
       PROVE  ControlInv'
  <2>1. CASE PutStaged(o, r)
    BY <2>1, ControlMove DEF PutStaged, PutObject, rows
  <2>2. CASE PutFinal(o, r)
    BY <2>2, ControlMove DEF PutFinal, PutObject, rows
  <2>3. CASE Precheck(o, r)
    BY <2>3, ControlMove DEF Precheck, rows
  <2>4. CASE AbortCompletion(o, r)
    BY <2>4, ControlMove DEF AbortCompletion, rows
  <2> QED BY <1>15, <2>1, <2>2, <2>3, <2>4
<1>16. ASSUME NEW o \in Operations, NEW r \in Roles, CommitCompletion(o, r) PROVE ControlInv'
  <2>1. plan' = plan /\ claim' = claim
    BY <1>16 DEF CommitCompletion
  <2>2. Active(o) /\ status' = [status EXCEPT ![o] = "completed"]
    BY <1>16 DEF CommitCompletion, MarkOperationCompleted, Active
  <2>3. PICK to \in {"cleanup", "catchStaged"} : Goto(o, r, "commit", to)
    BY <1>16 DEF CommitCompletion
  <2> QED BY <2>1, <2>2, <2>3, ControlChange
<1>17. ASSUME NEW o \in Operations, NEW r \in Roles, CleanupObjects(o, r) PROVE ControlInv'
  BY <1>17, ControlMove DEF CleanupObjects, rows
<1>18. ASSUME NEW o \in Operations, NEW r \in Roles,
              DropStaged(o, r) \/ CheckCanonical(o, r) \/ DropFinal(o, r)
       PROVE  ControlInv'
  <2>1. plan' = plan /\ status' = status /\ claim' = claim
    BY <1>18 DEF DropStaged, CheckCanonical, DropFinal, rows
  <2>2. \A from, to : Goto(o, r, from, to) /\ from \in {"dropStaged", "dropCheck"}
                         => status[o] = "failed"
    BY DEF Goto, ControlInv, ControlAt
  <2>3. CASE DropStaged(o, r)
    BY <2>1, <2>2, <2>3, ControlMove DEF DropStaged
  <2>4. CASE CheckCanonical(o, r)
    BY <2>1, <2>2, <2>4, ControlMove DEF CheckCanonical
  <2>5. CASE DropFinal(o, r)
    BY <2>1, <2>5, ControlMove DEF DropFinal
  <2> QED BY <1>18, <2>3, <2>4, <2>5
<1>19. ASSUME NEW o \in Operations, NEW r \in Roles, FailOperation(o, r) PROVE ControlInv'
  <2>1. CASE Active(o) /\ (r = "recovery" => stale[o])
    BY <1>19, <2>1, ControlChange DEF FailOperation
  <2>2. CASE ~(Active(o) /\ (r = "recovery" => stale[o]))
    BY <1>19, <2>2, ControlMove DEF FailOperation
  <2> QED BY <2>1, <2>2
<1>20. ASSUME NEW o \in Operations, ExpireOperation(o) PROVE ControlInv'
  BY <1>20, ControlMove DEF ExpireOperation, rows
<1>21. ASSUME NEW o \in Operations, PollOperation(o) PROVE ControlInv'
  BY <1>21, ControlMove DEF PollOperation, Cleanup, Settled, rows
<1>22. ASSUME NEW o \in Operations, GrowStale(o) \/ LapseClaim(o) PROVE ControlInv'
  <2>1. plan' = plan /\ status' = status /\ pc' = pc
    BY <1>22 DEF GrowStale, LapseClaim
  <2>2. \A x \in Operations : claim[x] = "none" => claim'[x] = "none"
    BY <1>22 DEF GrowStale, LapseClaim, TypeOK
  <2> QED BY <2>1, <2>2 DEF ControlInv, RowControl, ControlAt, Settled
<1>23. CASE Crash
  BY <1>23 DEF Crash, ControlInv, RowControl, ControlAt, Settled, TypeOK
<1>24. CASE Serve \/ UNCHANGED vars
  BY <1>24 DEF Serve, vars, rows, ControlInv, RowControl, ControlAt, Settled
<1> QED
  BY <1>1, <1>2, <1>3, <1>4, <1>5, <1>6, <1>7, <1>9, <1>10, <1>11, <1>12, <1>13, <1>14,
     <1>15, <1>16, <1>17, <1>18, <1>19, <1>20, <1>21, <1>22, <1>23, <1>24
     DEF Next, Request, Worker, Callback, Process, Passing

-----------------------------------------------------------------------------
(* One finalizer per operation                                             *)

(* A step that enters no finalizing program counter keeps FinalizerInv if  *)
(* it makes no claim live and no row pending.                              *)
Unclaimed(o) == claim[o] = "live" \/ status[o] \in {"none", "pending"}

LEMMA FinalizerKeep ==
    ASSUME TypeOK, FinalizerInv, NEW o \in Operations, NEW r \in Roles, NEW from, NEW to,
           Goto(o, r, from, to), to \in Finalizing => from \in Finalizing,
           \A x \in Operations : Unclaimed(x)' => Unclaimed(x)
    PROVE  FinalizerInv'
<1>1. /\ pc[<<o, r>>] = from
      /\ pc'[<<o, r>>] = to
      /\ \A x \in Operations, q \in Roles : x # o \/ q # r => pc'[<<x, q>>] = pc[<<x, q>>]
  BY GotoFacts
<1>2. ASSUME NEW x \in Operations, NEW q \in Roles, pc'[<<x, q>>] \in Finalizing
      PROVE  pc[<<x, q>>] \in Finalizing
  <2>1. CASE x = o /\ q = r
    BY <1>1, <1>2, <2>1
  <2>2. CASE x # o \/ q # r
    <3>1. pc'[<<x, q>>] = pc[<<x, q>>]
      BY <1>1, <2>2
    <3> QED BY <1>2, <3>1
  <2> QED BY <2>1, <2>2
<1> QED BY <1>2 DEF FinalizerInv, OneFinalizer, Unclaimed

(* A process enters them only while nobody has claimed the operation.      *)
LEMMA FinalizerEnter ==
    ASSUME TypeOK, FinalizerInv, NEW o \in Operations, NEW r \in Roles, NEW from, NEW to,
           Goto(o, r, from, to), Unclaimed(o), ~Unclaimed(o)',
           \A x \in Operations : Unclaimed(x)' => Unclaimed(x)
    PROVE  FinalizerInv'
<1>1. /\ pc[<<o, r>>] = from
      /\ pc'[<<o, r>>] = to
      /\ \A x \in Operations, q \in Roles : x # o \/ q # r => pc'[<<x, q>>] = pc[<<x, q>>]
  BY GotoFacts
<1>2. \A q \in Roles : pc[<<o, q>>] \notin Finalizing
  BY DEF FinalizerInv, Unclaimed
<1>3. \A q \in Roles : q # r => pc'[<<o, q>>] \notin Finalizing
  BY <1>1, <1>2
<1>4. OneFinalizer'
  BY <1>1, <1>3 DEF FinalizerInv, OneFinalizer
<1> QED BY <1>1, <1>4 DEF FinalizerInv, Unclaimed

LEMMA FinalizerStep ==
    ASSUME TypeOK, ControlInv, FinalizerInv, [Next]_vars
    PROVE  FinalizerInv'
<1>1. ASSUME NEW o \in Operations, Request(o) PROVE FinalizerInv'
  <2>1. ASSUME NEW t \in Targets, NEW f \in Fills, NEW a, BeginRequest(o, t, a, f)
        PROVE  FinalizerInv'
    BY <2>1, FinalizerKeep DEF BeginRequest, Unclaimed, Finalizing
  <2>2. CASE CreateOperation(o)
    <3>1. \A x \in Operations : Unclaimed(x)' => Unclaimed(x)
      <4>1. status[o] = "none"
        BY <2>2 DEF CreateOperation, Goto, ControlInv, ControlAt
      <4> QED BY <2>2, <4>1 DEF CreateOperation, Unclaimed, TypeOK
    <3>2. PICK to \in {"storeStaged", "launch"} : Goto(o, "worker", "create", to)
      BY <2>2 DEF CreateOperation
    <3> QED BY <3>1, <3>2, FinalizerKeep DEF Finalizing
  <2>3. CASE RejectRequest(o)
    BY <2>3, FinalizerKeep DEF RejectRequest, Unclaimed, Finalizing
  <2>4. CASE StoreStaged(o)
    BY <2>4, FinalizerKeep DEF StoreStaged, rows, Unclaimed, Finalizing
  <2> QED BY <1>1, <2>1, <2>2, <2>3, <2>4 DEF Request
<1>2. ASSUME NEW o \in Operations, ConsumeClaim(o), status' = status
      PROVE  /\ \A x \in Operations : Unclaimed(x)' => Unclaimed(x)
             /\ claim[o] = "live" => Unclaimed(o) /\ (RowControl(o) => ~Unclaimed(o)')
  BY <1>2 DEF ConsumeClaim, Unclaimed, RowControl, TypeOK
<1>3. ASSUME NEW o \in Operations, Worker(o) PROVE FinalizerInv'
  <2>1. CASE LaunchForceSave(o)
    <3>1. CASE status[o] = "pending"
      <4>1. \A x \in Operations : Unclaimed(x)' => Unclaimed(x)
        BY <2>1, <3>1 DEF LaunchForceSave, Unclaimed, TypeOK
      <4> QED BY <2>1, <3>1, <4>1, FinalizerKeep DEF LaunchForceSave, Finalizing
    <3>2. CASE status[o] # "pending"
      BY <2>1, <3>2, FinalizerKeep DEF LaunchForceSave, Unclaimed, Finalizing
    <3> QED BY <3>1, <3>2
  <2>2. CASE LaunchNative(o)
    <3>1. CASE status[o] = "pending"
      <4>1. \A x \in Operations : Unclaimed(x)' => Unclaimed(x)
        BY <2>2, <3>1 DEF LaunchNative, Unclaimed, TypeOK
      <4>2. Unclaimed(o) /\ ~Unclaimed(o)'
        BY <2>2, <3>1 DEF LaunchNative, Unclaimed, TypeOK, ControlInv, RowControl
      <4> QED BY <2>2, <3>1, <4>1, <4>2, FinalizerEnter DEF LaunchNative
    <3>2. CASE status[o] # "pending"
      BY <2>2, <3>2, FinalizerKeep DEF LaunchNative, Unclaimed, Finalizing
    <3> QED BY <3>1, <3>2
  <2>3. CASE ForceSaveReturns(o)
    BY <2>3, FinalizerKeep DEF ForceSaveReturns, rows, Unclaimed, Finalizing
  <2>4. CASE ConsumeForSnapshot(o)
    <3>1. CASE claim[o] = "live"
      BY <2>4, <3>1, <1>2, FinalizerEnter DEF ConsumeForSnapshot, ControlInv
    <3>2. CASE claim[o] # "live"
      <4>1. PICK to \in {"idle", "fail"} : Goto(o, "worker", "consume", to)
        BY <2>4, <3>2 DEF ConsumeForSnapshot
      <4> QED BY <2>4, <4>1, <1>2, FinalizerKeep DEF ConsumeForSnapshot, Finalizing
    <3> QED BY <3>1, <3>2
  <2>5. CASE ReadSnapshot(o)
    BY <2>5, FinalizerKeep DEF ReadSnapshot, rows, Unclaimed, Finalizing
  <2>6. CASE BuildNative(o)
    BY <2>6, FinalizerKeep DEF BuildNative, rows, Unclaimed, Finalizing
  <2> QED BY <1>3, <2>1, <2>2, <2>3, <2>4, <2>5, <2>6 DEF Worker
<1>4. ASSUME NEW o \in Operations, NEW d \in Deliveries, Callback(o, d) PROVE FinalizerInv'
  <2>1. CASE DeliverCallback(o, d)
    BY <2>1, FinalizerKeep DEF DeliverCallback, rows, Unclaimed, Finalizing
  <2>2. CASE ReceiveCallback(o, d)
    <3>1. CASE claim[o] = "live"
      <4>1. PICK to \in {"finalize", "fail"} : Goto(o, d, "callback", to)
        BY <2>2, <3>1 DEF ReceiveCallback
      <4> QED BY <2>2, <3>1, <4>1, <1>2, FinalizerEnter DEF ReceiveCallback, ControlInv
    <3>2. CASE claim[o] # "live"
      BY <2>2, <3>2, <1>2, FinalizerKeep DEF ReceiveCallback, Finalizing
    <3> QED BY <3>1, <3>2
  <2>3. CASE ReceiveSettled(o, d)
    <3>1. PICK to \in {"idle", "cleanup", "dropStaged"} : Goto(o, d, "callbackSettled", to)
      BY <2>3 DEF ReceiveSettled, Cleanup
    <3> QED BY <2>3, <3>1, <1>2, FinalizerKeep DEF ReceiveSettled, Finalizing
  <2> QED BY <1>4, <2>1, <2>2, <2>3 DEF Callback
<1>5. ASSUME NEW o \in Operations, NEW r \in Roles, Process(o, r) PROVE FinalizerInv'
  <2>1. CASE Finalize(o, r)
    <3>1. PICK to : Goto(o, r, "finalize", to)
      BY <2>1 DEF Finalize
    <3> QED BY <2>1, <3>1, FinalizerKeep DEF Finalize, rows, Unclaimed, Finalizing
  <2>2. CASE ClaimOperation(o, r)
    <3>1. PICK to : Goto(o, r, "claimOperation", to)
      BY <2>2 DEF ClaimOperation
    <3>2. \A x \in Operations : Unclaimed(x)' => Unclaimed(x)
      BY <2>2 DEF ClaimOperation, Unclaimed, TypeOK
    <3> QED BY <3>1, <3>2, FinalizerKeep DEF Finalizing
  <2>3. CASE PutStaged(o, r) \/ PutFinal(o, r)
    <3>1. PICK from, to : Goto(o, r, from, to) /\ from \in {"putStaged", "putFinal"}
      BY <2>3 DEF PutStaged, PutFinal, PutObject
    <3>2. \A x \in Operations : Unclaimed(x)' => Unclaimed(x)
      BY <2>3 DEF PutStaged, PutFinal, PutObject, rows, Unclaimed
    <3> QED BY <3>1, <3>2, FinalizerKeep DEF Finalizing
  <2>4. CASE Precheck(o, r) \/ AbortCompletion(o, r)
    <3>1. PICK from, to : Goto(o, r, from, to) /\ from \in {"precheck", "commit"}
      BY <2>4 DEF Precheck, AbortCompletion
    <3>2. \A x \in Operations : Unclaimed(x)' => Unclaimed(x)
      BY <2>4 DEF Precheck, AbortCompletion, rows, Unclaimed
    <3> QED BY <3>1, <3>2, FinalizerKeep DEF Finalizing
  <2>5. CASE CommitCompletion(o, r)
    <3>1. PICK to : Goto(o, r, "commit", to)
      BY <2>5 DEF CommitCompletion
    <3>2. \A x \in Operations : Unclaimed(x)' => Unclaimed(x)
      BY <2>5 DEF CommitCompletion, MarkOperationCompleted, Unclaimed, TypeOK
    <3> QED BY <3>1, <3>2, FinalizerKeep DEF Finalizing
  <2>6. CASE CleanupObjects(o, r) \/ DropStaged(o, r) \/ CheckCanonical(o, r) \/ DropFinal(o, r)
    <3>1. PICK from, to : Goto(o, r, from, to) /\ (to \in Finalizing => from \in Finalizing)
      BY <2>6 DEF CleanupObjects, DropStaged, CheckCanonical, DropFinal, Finalizing
    <3>2. \A x \in Operations : Unclaimed(x)' => Unclaimed(x)
      BY <2>6 DEF CleanupObjects, DropStaged, CheckCanonical, DropFinal, rows, Unclaimed
    <3> QED BY <3>1, <3>2, FinalizerKeep
  <2>7. CASE FailOperation(o, r)
    <3>1. PICK to \in {"dropStaged", "idle"} : Goto(o, r, "fail", to)
      BY <2>7 DEF FailOperation
    <3>2. \A x \in Operations : Unclaimed(x)' => Unclaimed(x)
      BY <2>7 DEF FailOperation, Unclaimed, TypeOK
    <3> QED BY <3>1, <3>2, FinalizerKeep DEF Finalizing
  <2> QED BY <1>5, <2>1, <2>2, <2>3, <2>4, <2>5, <2>6, <2>7 DEF Process
<1>6. ASSUME NEW o \in Operations, Passing(o) PROVE FinalizerInv'
  <2>1. CASE ExpireOperation(o)
    BY <2>1, FinalizerKeep DEF ExpireOperation, rows, Unclaimed, Finalizing
  <2>2. CASE PollOperation(o)
    BY <2>2, FinalizerKeep DEF PollOperation, Cleanup, rows, Unclaimed, Finalizing
  <2>3. CASE GrowStale(o) \/ LapseClaim(o)
    BY <2>3 DEF GrowStale, LapseClaim, FinalizerInv, OneFinalizer, TypeOK
  <2> QED BY <1>6, <2>1, <2>2, <2>3 DEF Passing
<1>7. CASE Crash
  <2>1. \A p \in Operations \X Roles : pc'[p] = "idle"
    BY <1>7 DEF Crash
  <2> QED BY <2>1 DEF FinalizerInv, OneFinalizer, Finalizing
<1>8. CASE Serve \/ UNCHANGED vars
  BY <1>8 DEF Serve, vars, rows, FinalizerInv, OneFinalizer
<1> QED BY <1>1, <1>3, <1>4, <1>5, <1>6, <1>7, <1>8 DEF Next

-----------------------------------------------------------------------------
(* Which steps write the rows that other operations read                   *)

(* A step that writes no document, phase or record, settles no operation   *)
(* and forgets only requests that were never accepted.                     *)
Quiet ==
    /\ UNCHANGED <<document, phase, records>>
    /\ \A x \in Operations : status'[x] = status[x] \/ (Active(x) /\ status'[x] = "processing")
    /\ \A x \in Operations : plan'[x] = plan[x] \/ (status[x] = "none" /\ plan'[x] = NoPlan)

LEMMA QuietFacts ==
    ASSUME ControlInv, Quiet, NEW x \in Operations
    PROVE  /\ Active(x)' <=> Active(x)
           /\ status'[x] = "completed" <=> status[x] = "completed"
           /\ status[x] # "none" => plan'[x] = plan[x]
           /\ plan'[x] # NoPlan => plan'[x] = plan[x]
  BY DEF Quiet, Active

LEMMA RowFrame ==
    ASSUME TypeOK, ControlInv, [Next]_vars
    PROVE  \/ \E o \in Operations, t \in Targets, f \in Fills,
                 a \in {"save-draft", "submit", "save-template", "publish"} :
                    BeginRequest(o, t, a, f)
           \/ \E o \in Operations : CreateOperation(o)
           \/ \E o \in Operations, r \in Roles : CommitCompletion(o, r) \/ FailOperation(o, r)
           \/ Quiet
<1>1. ASSUME NEW o \in Operations, RejectRequest(o) PROVE Quiet
  <2>1. status[o] = "none"
    BY <1>1 DEF RejectRequest, Goto, ControlInv, ControlAt
  <2> QED BY <1>1, <2>1 DEF RejectRequest, Quiet, TypeOK
<1>2. ASSUME NEW o \in Operations, StoreStaged(o) PROVE Quiet
  BY <1>2 DEF StoreStaged, Quiet, rows
<1>3. ASSUME NEW o \in Operations, Worker(o) PROVE Quiet
  BY <1>3 DEF Worker, LaunchForceSave, ForceSaveReturns, ConsumeForSnapshot, ReadSnapshot,
       LaunchNative, BuildNative, Quiet, Active, rows, TypeOK
<1>4. ASSUME NEW o \in Operations, NEW d \in Deliveries, Callback(o, d) PROVE Quiet
  BY <1>4 DEF Callback, DeliverCallback, ReceiveCallback, ReceiveSettled, Quiet, rows
<1>5. ASSUME NEW o \in Operations, NEW r \in Roles, Process(o, r)
      PROVE  CommitCompletion(o, r) \/ FailOperation(o, r) \/ Quiet
  <2>1. CASE ClaimOperation(o, r)
    BY <2>1 DEF ClaimOperation, Quiet, TypeOK
  <2>2. CASE PutStaged(o, r) \/ PutFinal(o, r)
    BY <2>2 DEF PutStaged, PutFinal, PutObject, Quiet, rows
  <2>3. CASE Finalize(o, r) \/ Precheck(o, r) \/ AbortCompletion(o, r)
    BY <2>3 DEF Finalize, Precheck, AbortCompletion, Quiet, rows
  <2>4. CASE CleanupObjects(o, r) \/ DropStaged(o, r) \/ CheckCanonical(o, r) \/ DropFinal(o, r)
    BY <2>4 DEF CleanupObjects, DropStaged, CheckCanonical, DropFinal, Quiet, rows
  <2> QED BY <1>5, <2>1, <2>2, <2>3, <2>4 DEF Process
<1>6. ASSUME NEW o \in Operations, Passing(o) PROVE Quiet
  BY <1>6 DEF Passing, ExpireOperation, PollOperation, GrowStale, LapseClaim, Quiet, rows
<1>7. CASE Crash
  BY <1>7 DEF Crash, Quiet
<1>8. CASE Serve \/ UNCHANGED vars
  BY <1>8 DEF Serve, vars, rows, Quiet
<1> QED BY <1>1, <1>2, <1>3, <1>4, <1>5, <1>6, <1>7, <1>8 DEF Next, Request

(* What an operation's row looks like before and after it completes. *)
LEMMA CommitFacts ==
    ASSUME TypeOK, ControlInv, TargetInv, NEW o \in Operations, NEW r \in Roles,
           CommitCompletion(o, r)
    PROVE  /\ plan' = plan /\ store' = store
           /\ pc[<<o, r>>] = "commit"
           /\ status[o] = "processing" /\ status'[o] = "completed"
           /\ \A x \in Operations : x # o => status'[x] = status[x]
           /\ plan[o] \in Plans
           /\ plan[o].target \in Targets /\ plan[o].base \in Keys
           /\ plan[o].action \in {"save-draft", "submit", "save-template", "publish"}
           /\ plan[o].target \in Responses <=> plan[o].action \in {"save-draft", "submit"}
           /\ Active(o) /\ ~Active(o)'
           /\ \A x \in Operations : x # o => (Active(x)' <=> Active(x))
           /\ \A x \in Operations : x # o /\ Active(x) => plan[x].target # plan[o].target
<1>1. plan' = plan /\ store' = store
  BY DEF CommitCompletion
<1>2. status[o] = "processing" /\ status' = [status EXCEPT ![o] = "completed"]
  BY DEF CommitCompletion, MarkOperationCompleted
<1>3. status'[o] = "completed" /\ \A x \in Operations : x # o => status'[x] = status[x]
  BY <1>2 DEF TypeOK
<1>4. pc[<<o, r>>] = "commit"
  BY DEF CommitCompletion, Goto
<1>5. plan[o] \in Plans /\ plan[o] # NoPlan
  BY <1>4 DEF TypeOK, ControlInv, ControlAt
<1>6. /\ plan[o].target \in Targets /\ plan[o].base \in Keys
      /\ plan[o].action \in {"save-draft", "submit", "save-template", "publish"}
  BY <1>5 DEF Plans
<1>7. plan[o].target \in Responses <=> plan[o].action \in {"save-draft", "submit"}
  BY <1>5 DEF TargetInv
<1>8. /\ Active(o) /\ ~Active(o)'
      /\ \A x \in Operations : x # o => (Active(x)' <=> Active(x))
  BY <1>2, <1>3 DEF Active
<1>9. \A x \in Operations : x # o /\ Active(x) => plan[x].target # plan[o].target
  BY <1>8 DEF TargetInv, OneActiveOperation
<1> QED BY <1>1, <1>2, <1>3, <1>4, <1>5, <1>6, <1>7, <1>8, <1>9

(* What completing an operation writes to its target, and to no other. *)
LEMMA CompleteFacts ==
    ASSUME TypeOK, NEW o \in Operations, plan[o].target \in Targets,
           plan[o].action \in {"save-draft", "submit", "save-template", "publish"},
           CompleteTarget(o)
    PROVE  /\ \A t \in Targets : t # plan[o].target =>
                 document'[t] = document[t] /\ phase'[t] = phase[t]
           /\ plan[o].action \in {"save-draft", "save-template"} =>
                 /\ document'[plan[o].target] = Final(o)
                 /\ phase' = phase /\ records' = records
           /\ plan[o].action = "submit" =>
                 /\ document'[plan[o].target] = NoKey
                 /\ phase'[plan[o].target] = "submitted"
                 /\ records' = records \cup {o}
           /\ plan[o].action = "publish" =>
                 /\ document' = document
                 /\ phase'[plan[o].target] = "published"
                 /\ records' = records \cup {o}
  BY DEF CompleteTarget, TypeOK

-----------------------------------------------------------------------------
(* The target invariant *)

LEMMA TargetStep ==
    ASSUME TypeOK, ControlInv, TargetInv, OutcomeMatchesRows, [Next]_vars
    PROVE  TargetInv'
<1>1. ASSUME NEW o \in Operations, NEW t \in Targets, NEW f \in Fills,
             NEW a \in {"save-draft", "submit", "save-template", "publish"},
             BeginRequest(o, t, a, f)
      PROVE  TargetInv'
  <2>1. status[o] = "none" /\ \A x \in Operations : x # o => plan'[x] = plan[x]
    BY <1>1 DEF BeginRequest, ControlInv, RowControl, TypeOK
  <2>2. UNCHANGED <<status, document, phase, records>>
    BY <1>1 DEF BeginRequest
  <2>3. \A x \in Operations : (Active(x)' <=> Active(x)) /\ (Active(x) => plan'[x] = plan[x])
    BY <2>1, <2>2 DEF Active
  <2>4. plan'[o].target \in Responses <=> plan'[o].action \in {"save-draft", "submit"}
    BY <1>1 DEF BeginRequest, TypeOK
  <2>5. \A x \in records : x \in Operations /\ x # o
    BY <2>1 DEF OutcomeMatchesRows, TypeOK
  <2>6. OneActiveOperation'
    BY <2>3 DEF TargetInv, OneActiveOperation
  <2>7. SubmittingIffPending'
    BY <2>2, <2>3 DEF TargetInv, SubmittingIffPending
  <2> QED BY <2>1, <2>2, <2>4, <2>5, <2>6, <2>7 DEF TargetInv
<1>2. ASSUME NEW o \in Operations, CreateOperation(o) PROVE TargetInv'
  <2> DEFINE t == plan[o].target
  <2>1. status'[o] = "pending" /\ \A x \in Operations : x # o => status'[x] = status[x]
    BY <1>2 DEF CreateOperation, TypeOK
  <2>2. UNCHANGED <<plan, document, records>>
    BY <1>2 DEF CreateOperation
  <2>3. plan[o] # NoPlan /\ status[o] = "none"
    BY <1>2 DEF CreateOperation, Goto, ControlInv, ControlAt
  <2>4. t \in Targets
    BY <2>3 DEF TypeOK, Plans
  <2>5. /\ ~Active(o) /\ Active(o)'
        /\ \A x \in Operations : x # o => (Active(x)' <=> Active(x))
        /\ \A x \in Operations : Active(x) => plan[x].target # t
    BY <1>2, <2>1, <2>3 DEF Active, CreateOperation
  <2>6. OneActiveOperation'
    BY <2>2, <2>5 DEF TargetInv, OneActiveOperation
  <2>7. CASE plan[o].action = "submit"
    <3>1. phase[t] = "draft" /\ phase'[t] = "submitting"
          /\ \A u \in Targets : u # t => phase'[u] = phase[u]
      BY <1>2, <2>4, <2>7 DEF CreateOperation, TypeOK
    <3>2. t \in Responses
      BY <2>3, <2>7 DEF TargetInv
    <3>3. SubmittingIffPending'
      <4>1. ASSUME NEW u \in Targets, u = t
            PROVE  /\ phase'[u] = "submitting"
                   /\ Active(o)' /\ plan'[o].target = u /\ plan'[o].action = "submit"
        BY <2>2, <2>5, <2>7, <3>1, <4>1
      <4>2. ASSUME NEW u \in Targets, u # t
            PROVE  (phase'[u] = "submitting") <=>
                   \E x \in Operations : Active(x)' /\ plan'[x].target = u
                                            /\ plan'[x].action = "submit"
        BY <2>2, <2>5, <3>1, <4>2 DEF TargetInv, SubmittingIffPending
      <4> QED BY <4>1, <4>2 DEF SubmittingIffPending
    <3>4. \A x \in records : phase'[plan[x].target] \in {"submitted", "published"}
      <4>1. \A x \in records : x \in Operations /\ plan[x].target # t
        BY <3>1 DEF TargetInv, TypeOK
      <4>2. \A x \in records : plan[x] # NoPlan
        BY DEF OutcomeMatchesRows, ControlInv, RowControl, TypeOK
      <4>3. \A x \in records : plan[x].target \in Targets
        BY <4>1, <4>2 DEF TypeOK, Plans
      <4> QED BY <3>1, <4>1, <4>3 DEF TargetInv
    <3> QED BY <2>2, <2>6, <3>1, <3>2, <3>3, <3>4, TargetsAssumption DEF TargetInv
  <2>8. CASE plan[o].action # "submit"
    <3>1. phase' = phase
      BY <1>2, <2>8 DEF CreateOperation
    <3>2. SubmittingIffPending'
      BY <2>2, <2>5, <2>8, <3>1 DEF TargetInv, SubmittingIffPending
    <3> QED BY <2>2, <2>6, <3>1, <3>2 DEF TargetInv
  <2> QED BY <2>7, <2>8
<1>3. ASSUME NEW o \in Operations, NEW r \in Roles, CommitCompletion(o, r) PROVE TargetInv'
  <2> DEFINE t == plan[o].target
  <2>0. /\ plan' = plan /\ plan[o].base \in Keys /\ t \in Targets
        /\ plan[o].action \in {"save-draft", "submit", "save-template", "publish"}
        /\ t \in Responses <=> plan[o].action \in {"save-draft", "submit"}
        /\ status[o] = "processing" /\ ~Active(o)'
        /\ \A x \in Operations : x # o => (Active(x)' <=> Active(x))
        /\ \A x \in Operations : x # o /\ Active(x) => plan[x].target # t
    BY <1>3, CommitFacts
  <2>1. StillAwaited(o) /\ CompleteTarget(o)
    BY <1>3 DEF CommitCompletion
  <2>2. OneActiveOperation'
    BY <2>0 DEF TargetInv, OneActiveOperation
  <2>3. /\ phase'[t] # "submitting"
        /\ \A u \in Targets : u # t => document'[u] = document[u] /\ phase'[u] = phase[u]
        /\ document'[t] = NoKey => phase'[t] = "submitted"
        /\ t \in Responses => phase'[t] # "published"
        /\ t \in TemplateDrafts => phase'[t] \in {"draft", "published"}
        /\ \A x \in records' : x = o \/ x \in records
        /\ o \in records' => phase'[t] \in {"submitted", "published"}
        /\ phase[t] \in {"submitted", "published"} => phase'[t] \in {"submitted", "published"}
    <3>0. o \notin records
      BY <2>0 DEF OutcomeMatchesRows
    <3>a. /\ \A u \in Targets : u # t => document'[u] = document[u] /\ phase'[u] = phase[u]
          /\ plan[o].action \in {"save-draft", "save-template"} =>
                document'[t] = Final(o) /\ phase' = phase /\ records' = records
          /\ plan[o].action = "submit" =>
                phase'[t] = "submitted" /\ records' = records \cup {o}
          /\ plan[o].action = "publish" =>
                document' = document /\ phase'[t] = "published" /\ records' = records \cup {o}
      BY <2>0, <2>1, CompleteFacts
    <3>b. Final(o) # NoKey /\ plan[o].base # NoKey
      BY <2>0, KeyFacts, NoKeyAssumption
    <3>c. t \in TemplateDrafts <=> t \notin Responses
      BY <2>0, TargetsAssumption DEF Targets
    <3> USE <2>0, <2>1, <3>a, <3>b, <3>c
    <3>1. CASE plan[o].action = "save-draft"
      BY <3>0, <3>1 DEF StillAwaited, TargetInv
    <3>2. CASE plan[o].action = "save-template"
      BY <3>0, <3>2 DEF StillAwaited, TargetInv, Targets
    <3>3. CASE plan[o].action = "submit"
      BY <3>0, <3>3 DEF StillAwaited, TargetInv
    <3>4. CASE plan[o].action = "publish"
      BY <3>0, <3>4 DEF StillAwaited, TargetInv
    <3> QED BY <3>1, <3>2, <3>3, <3>4
  <2>4. SubmittingIffPending'
    <3>1. ASSUME NEW u \in Targets
          PROVE  (phase'[u] = "submitting") <=>
                 \E x \in Operations : Active(x)' /\ plan'[x].target = u
                                          /\ plan'[x].action = "submit"
      <4>1. CASE u = t
        BY <2>0, <2>3, <4>1
      <4>2. CASE u # t
        BY <2>0, <2>3, <4>2 DEF TargetInv, SubmittingIffPending
      <4> QED BY <4>1, <4>2
    <3> QED BY <3>1 DEF SubmittingIffPending
  <2>5. \A u \in Targets :
          /\ document'[u] = NoKey => phase'[u] = "submitted"
          /\ u \in Responses => phase'[u] # "published"
          /\ u \in TemplateDrafts => phase'[u] \in {"draft", "published"}
    BY <2>3 DEF TargetInv
  <2>6. \A x \in records' : phase'[plan[x].target] \in {"submitted", "published"}
    <3>1. \A x \in records : plan[x] # NoPlan /\ x \in Operations
      BY DEF OutcomeMatchesRows, ControlInv, RowControl, TypeOK
    <3>2. \A x \in records : plan[x].target \in Targets
      BY <3>1 DEF TypeOK, Plans
    <3> QED BY <2>3, <3>2 DEF TargetInv
  <2>7. plan' = plan
    BY <1>3, CommitFacts
  <2> QED BY <2>2, <2>4, <2>5, <2>6, <2>7 DEF TargetInv
<1>4. ASSUME NEW o \in Operations, NEW r \in Roles, FailOperation(o, r) PROVE TargetInv'
  <2> DEFINE t == plan[o].target
  <2>1. UNCHANGED <<plan, document, records>>
    BY <1>4 DEF FailOperation
  <2>2. CASE UNCHANGED <<status, phase>>
    BY <2>1, <2>2 DEF TargetInv, OneActiveOperation, SubmittingIffPending, Active
  <2>3. CASE Active(o) /\ status' = [status EXCEPT ![o] = "failed"] /\ RollBackResponse(o)
    <3>1. /\ ~Active(o)'
          /\ \A x \in Operations : x # o => (Active(x)' <=> Active(x))
          /\ \A x \in Operations : x # o /\ Active(x) => plan[x].target # t
      BY <2>3 DEF Active, TypeOK, TargetInv, OneActiveOperation
    <3>2. plan[o] # NoPlan
      BY <2>3 DEF ControlInv, RowControl, Active
    <3>3. t \in Targets
      BY <3>2 DEF TypeOK, Plans
    <3>4. /\ \A u \in Targets : u # t => phase'[u] = phase[u]
          /\ phase'[t] = IF plan[o].action = "submit" /\ phase[t] = "submitting"
                         THEN "draft" ELSE phase[t]
      BY <2>3, <3>3 DEF RollBackResponse, TypeOK
    <3>5. OneActiveOperation'
      BY <2>1, <3>1 DEF TargetInv, OneActiveOperation
    <3>6. phase'[t] # "submitting"
      <4>1. phase[t] = "submitting" => plan[o].action = "submit"
        BY <3>1, <3>3 DEF TargetInv, SubmittingIffPending
      <4> QED BY <3>4, <4>1
    <3>7. SubmittingIffPending'
      <4>1. ASSUME NEW u \in Targets
            PROVE  (phase'[u] = "submitting") <=>
                   \E x \in Operations : Active(x)' /\ plan'[x].target = u
                                            /\ plan'[x].action = "submit"
        <5>1. CASE u = t
          BY <2>1, <3>1, <3>6, <5>1
        <5>2. CASE u # t
          BY <2>1, <3>1, <3>4, <5>2 DEF TargetInv, SubmittingIffPending
        <5> QED BY <5>1, <5>2
      <4> QED BY <4>1 DEF SubmittingIffPending
    <3>8. /\ document[t] = NoKey => phase'[t] = "submitted"
          /\ t \in Responses => phase'[t] # "published"
          /\ t \in TemplateDrafts => phase'[t] \in {"draft", "published"}
          /\ phase[t] \in {"submitted", "published"} => phase'[t] = phase[t]
      BY <3>3, <3>4 DEF TargetInv
    <3>9. \A x \in records : phase'[plan[x].target] \in {"submitted", "published"}
      <4>1. \A x \in records : plan[x] # NoPlan /\ x \in Operations
        BY DEF OutcomeMatchesRows, ControlInv, RowControl, TypeOK
      <4>2. \A x \in records : plan[x].target \in Targets
        BY <4>1 DEF TypeOK, Plans
      <4> QED BY <3>4, <3>8, <4>2 DEF TargetInv
    <3> QED BY <2>1, <3>4, <3>5, <3>7, <3>8, <3>9 DEF TargetInv
  <2> QED BY <1>4, <2>2, <2>3 DEF FailOperation
<1>5. CASE Quiet
  <2>1. UNCHANGED <<document, phase, records>>
    BY <1>5 DEF Quiet
  <2>2. \A x \in Operations : (Active(x)' <=> Active(x)) /\ (Active(x) => plan'[x] = plan[x])
    BY <1>5, QuietFacts DEF Active
  <2>3. \A x \in Operations : plan'[x] # NoPlan => plan'[x] = plan[x]
    BY <1>5, QuietFacts
  <2>4. \A x \in records : x \in Operations /\ plan'[x] = plan[x]
    BY <1>5, QuietFacts DEF OutcomeMatchesRows, TypeOK
  <2>5. OneActiveOperation'
    BY <2>2 DEF TargetInv, OneActiveOperation
  <2>6. SubmittingIffPending'
    BY <2>1, <2>2 DEF TargetInv, SubmittingIffPending
  <2> QED BY <2>1, <2>3, <2>4, <2>5, <2>6 DEF TargetInv
<1> QED BY <1>1, <1>2, <1>3, <1>4, <1>5, RowFrame

-----------------------------------------------------------------------------
(* Outcomes agree with rows *)

LEMMA OutcomeStep ==
    ASSUME TypeOK, ControlInv, TargetInv, OutcomeMatchesRows, [Next]_vars
    PROVE  OutcomeMatchesRows'
<1>1. ASSUME UNCHANGED <<document, records>>,
             \A x \in Operations : status'[x] = "completed" <=> status[x] = "completed",
             \A x \in Operations : status[x] = "completed" => plan'[x] = plan[x]
      PROVE  OutcomeMatchesRows'
  <2>1. \A x \in records : x \in Operations /\ plan'[x] = plan[x]
    BY <1>1 DEF OutcomeMatchesRows, TypeOK
  <2> QED BY <1>1, <2>1 DEF OutcomeMatchesRows
<1>2. ASSUME NEW o \in Operations, NEW t \in Targets, NEW f \in Fills,
             NEW a \in {"save-draft", "submit", "save-template", "publish"},
             BeginRequest(o, t, a, f)
      PROVE  OutcomeMatchesRows'
  <2>1. status[o] # "completed" /\ \A x \in Operations : x # o => plan'[x] = plan[x]
    BY <1>2 DEF BeginRequest, ControlInv, RowControl, TypeOK
  <2> QED BY <1>1, <1>2, <2>1 DEF BeginRequest
<1>3. ASSUME NEW o \in Operations, CreateOperation(o) PROVE OutcomeMatchesRows'
  <2>1. status[o] = "none"
    BY <1>3 DEF CreateOperation, Goto, ControlInv, ControlAt
  <2>2. \A x \in Operations : status'[x] = "completed" <=> status[x] = "completed"
    BY <1>3, <2>1 DEF CreateOperation, TypeOK
  <2> QED BY <1>1, <1>3, <2>2 DEF CreateOperation
<1>4. ASSUME NEW o \in Operations, NEW r \in Roles, FailOperation(o, r) PROVE OutcomeMatchesRows'
  <2>1. \A x \in Operations : status'[x] = "completed" <=> status[x] = "completed"
    BY <1>4 DEF FailOperation, Active, TypeOK
  <2> QED BY <1>1, <1>4, <2>1 DEF FailOperation
<1>5. CASE Quiet
  BY <1>1, <1>5, QuietFacts DEF Quiet
<1>6. ASSUME NEW o \in Operations, NEW r \in Roles, CommitCompletion(o, r)
      PROVE  OutcomeMatchesRows'
  <2> DEFINE t == plan[o].target
  <2>0. /\ plan' = plan /\ t \in Targets
        /\ plan[o].action \in {"save-draft", "submit", "save-template", "publish"}
        /\ status[o] = "processing" /\ status'[o] = "completed"
        /\ \A x \in Operations : x # o => status'[x] = status[x]
    BY <1>6, CommitFacts
  <2>1. StillAwaited(o) /\ CompleteTarget(o)
    BY <1>6 DEF CommitCompletion
  <2>2. /\ \A u \in Targets : u # t => document'[u] = document[u]
        /\ plan[o].action \in {"save-draft", "save-template"} =>
              document'[t] = Final(o) /\ records' = records
        /\ plan[o].action = "submit" => document'[t] = NoKey /\ records' = records \cup {o}
        /\ plan[o].action = "publish" => document' = document /\ records' = records \cup {o}
    BY <2>0, <2>1, CompleteFacts
  <2>3. ASSUME NEW x \in Operations
        PROVE  x \in records' <=> /\ status'[x] = "completed"
                                  /\ plan[x].action \in {"submit", "publish"}
    <3>1. CASE x = o
      <4>1. o \notin records
        BY <2>0 DEF OutcomeMatchesRows
      <4> QED BY <2>0, <2>2, <3>1, <4>1
    <3>2. CASE x # o
      BY <2>0, <2>2, <3>2 DEF OutcomeMatchesRows
    <3> QED BY <3>1, <3>2
  <2>4. ASSUME NEW x \in records', NEW y \in records', plan[x].target = plan[y].target
        PROVE  x = y
    <3>1. plan[o].action \in {"submit", "publish"} =>
             \A z \in records : plan[z].target # t
      <4>1. plan[o].action \in {"submit", "publish"} => phase[t] \in {"draft", "submitting"}
        BY <2>1 DEF StillAwaited
      <4> QED BY <4>1 DEF TargetInv
    <3> QED BY <2>0, <2>2, <2>4, <3>1 DEF OutcomeMatchesRows
  <2>5. ASSUME NEW u \in Targets, NEW x \in Operations, document'[u] = Final(x)
        PROVE  status'[x] = "completed"
    <3>1. document'[u] = document[u] \/ x = o
      BY <2>0, <2>2, <2>5, KeyFacts, NoKeyAssumption
    <3> QED BY <2>0, <2>5, <3>1 DEF OutcomeMatchesRows
  <2> QED BY <2>0, <2>3, <2>4, <2>5 DEF OutcomeMatchesRows
<1> QED BY <1>2, <1>3, <1>4, <1>5, <1>6, RowFrame

-----------------------------------------------------------------------------
(* Only a precheck, an upload and a reference check lead to the program    *)
(* counters that the version and store invariants speak of.                *)
Guarded == {"precheck", "commit", "catchFinal"}

LEMMA GuardedMove ==
    ASSUME TypeOK, NEW o \in Operations, NEW r \in Roles, NEW from, NEW to,
           Goto(o, r, from, to), to \notin Guarded,
           NEW x \in Operations, NEW q \in Roles, pc'[<<x, q>>] \in Guarded
    PROVE  pc[<<x, q>>] = pc'[<<x, q>>]
<1>1. /\ pc'[<<o, r>>] = to
      /\ x # o \/ q # r => pc'[<<x, q>>] = pc[<<x, q>>]
  BY GotoFacts
<1> QED BY <1>1

LEMMA GuardedFrame ==
    ASSUME TypeOK, [Next]_vars, NEW x \in Operations, NEW q \in Roles,
           pc'[<<x, q>>] \in Guarded
    PROVE  \/ pc[<<x, q>>] = pc'[<<x, q>>]
           \/ PutFinal(x, q) \/ Precheck(x, q) \/ CheckCanonical(x, q)
<1> DEFINE Same == pc[<<x, q>>] = pc'[<<x, q>>]
<1>1. ASSUME NEW o \in Operations, Request(o) PROVE Same
  <2>1. PICK from, to : Goto(o, "worker", from, to) /\ to \notin Guarded
    BY <1>1 DEF Request, BeginRequest, CreateOperation, RejectRequest, StoreStaged, Guarded
  <2> QED BY <2>1, GuardedMove
<1>2. ASSUME NEW o \in Operations, Worker(o) PROVE Same
  <2>1. PICK from, to : Goto(o, "worker", from, to) /\ to \notin Guarded
    BY <1>2 DEF Worker, LaunchForceSave, ForceSaveReturns, ConsumeForSnapshot, ReadSnapshot,
         LaunchNative, BuildNative, Guarded
  <2> QED BY <2>1, GuardedMove
<1>3. ASSUME NEW o \in Operations, NEW d \in Deliveries, Callback(o, d) PROVE Same
  <2>1. PICK from, to : Goto(o, d, from, to) /\ to \notin Guarded
    BY <1>3 DEF Callback, DeliverCallback, ReceiveCallback, ReceiveSettled, Cleanup, Guarded
  <2> QED BY <2>1, GuardedMove
<1>4. ASSUME NEW o \in Operations, NEW r \in Roles, Process(o, r),
             ~(PutFinal(o, r) \/ Precheck(o, r) \/ CheckCanonical(o, r))
      PROVE  Same
  <2>1. PICK from, to : Goto(o, r, from, to) /\ to \notin Guarded
    BY <1>4 DEF Process, Finalize, ClaimOperation, PutStaged, PutObject, CommitCompletion,
         AbortCompletion, CleanupObjects, DropStaged, DropFinal, FailOperation, Cleanup, Guarded
  <2> QED BY <2>1, GuardedMove
<1>5. ASSUME NEW o \in Operations, NEW r \in Roles, o # x \/ r # q,
             PutFinal(o, r) \/ Precheck(o, r) \/ CheckCanonical(o, r)
      PROVE  Same
  <2>1. PICK from, to : Goto(o, r, from, to)
    BY <1>5 DEF PutFinal, PutObject, Precheck, CheckCanonical
  <2>2. /\ pc[<<o, r>>] = from
        /\ pc'[<<o, r>>] = to
        /\ \A y \in Operations, p \in Roles : y # o \/ p # r => pc'[<<y, p>>] = pc[<<y, p>>]
    BY <2>1, GotoFacts
  <2> QED BY <1>5, <2>2
<1>6. ASSUME NEW o \in Operations, ExpireOperation(o) \/ PollOperation(o) PROVE Same
  <2>1. PICK from, to : Goto(o, "recovery", from, to) /\ to \notin Guarded
    BY <1>6 DEF ExpireOperation, PollOperation, Cleanup, Guarded
  <2> QED BY <2>1, GuardedMove
<1>7. ASSUME NEW o \in Operations, GrowStale(o) \/ LapseClaim(o) PROVE Same
  BY <1>7 DEF GrowStale, LapseClaim
<1>8. ~Crash
  BY DEF Crash, Guarded
<1>9. CASE Serve \/ UNCHANGED vars
  BY <1>9 DEF Serve, vars
<1> QED BY <1>1, <1>2, <1>3, <1>4, <1>5, <1>6, <1>7, <1>8, <1>9 DEF Next, Passing

-----------------------------------------------------------------------------
(* Versions: what a document was made from, and what awaits it *)

(* An accepted request has a plan. *)
LEMMA PlanFacts ==
    ASSUME TypeOK, ControlInv, NEW x \in Operations, status[x] # "none"
    PROVE  plan[x] # NoPlan /\ plan[x].target \in Targets /\ plan[x].base \in Keys
  BY DEF TypeOK, ControlInv, RowControl, Plans

(* A version stays one while completed operations stay completed. *)
VersionNext(key, t) ==
    \/ key = Seed(t)
    \/ \E o \in Operations : /\ key = Final(o)
                             /\ status'[o] = "completed"
                             /\ plan'[o].target = t
                             /\ plan'[o].action \in {"save-draft", "save-template"}

CompletedStay ==
    \A x \in Operations : status[x] = "completed" =>
        status'[x] = "completed" /\ plan'[x] = plan[x]

LEMMA VersionsStay ==
    ASSUME VersionInv, CompletedStay
    PROVE  /\ \A t \in Targets : document[t] # NoKey => VersionNext(document[t], t)
           /\ \A x \in Operations :
                 plan[x] # NoPlan => VersionNext(plan[x].base, plan[x].target)
  BY DEF VersionInv, CompletedStay, VersionOf, SaveOf, VersionNext

(* A process at the commit awaits the same version after a step that       *)
(* leaves its target's rows alone.                                         *)
LEMMA AwaitsStays ==
    ASSUME NEW x \in Operations, Awaits(x), plan'[x] = plan[x],
           document'[plan[x].target] = document[plan[x].target],
           phase'[plan[x].target] = phase[plan[x].target]
    PROVE  Awaits(x)'
  BY DEF Awaits

LEMMA VersionStep ==
    ASSUME TypeOK, ControlInv, TargetInv, OutcomeMatchesRows, VersionInv, [Next]_vars
    PROVE  VersionInv'
<1> DEFINE Waiting == \A x \in Operations, q \in Roles :
                         pc'[<<x, q>>] = "commit" /\ Active(x)' => Awaits(x)'
(* Whoever is at the commit after the step awaited its version before it.  *)
<1>0. ASSUME NEW x \in Operations, NEW q \in Roles, pc'[<<x, q>>] = "commit", Active(x)
      PROVE  Awaits(x)
  <2>1. ~PutFinal(x, q) /\ ~CheckCanonical(x, q)
    <3>1. ASSUME NEW from, NEW to, Goto(x, q, from, to) PROVE to = "commit"
      BY <1>0, <3>1, GotoFacts
    <3> QED BY <3>1 DEF PutFinal, PutObject, CheckCanonical
  <2>2. pc[<<x, q>>] = "commit" \/ Precheck(x, q)
    BY <1>0, <2>1, GuardedFrame DEF Guarded
  <2>3. CASE pc[<<x, q>>] = "commit"
    BY <1>0, <2>3 DEF VersionInv
  <2>4. CASE Precheck(x, q)
    <3>1. ~Goto(x, q, "precheck", "catchStaged")
      BY <1>0, GotoFacts
    <3> QED BY <2>4, <3>1 DEF Precheck
  <2> QED BY <2>2, <2>3, <2>4
(* The two clauses about versions, in terms of VersionNext. *)
<1> DEFINE Drafts == \A t \in Targets : document'[t] # NoKey => VersionNext(document'[t], t)
           Bases  == \A x \in Operations :
                        plan'[x] # NoPlan => VersionNext(plan'[x].base, plan'[x].target)
           Replaced == \A x \in Operations :
                          status'[x] = "completed" /\ plan'[x].action # "publish"
                             => document'[plan'[x].target] # plan'[x].base
<1>a. Drafts /\ Bases /\ Replaced /\ Waiting => VersionInv'
  BY DEF VersionInv, VersionNext, VersionOf, SaveOf
<1> HIDE DEF Waiting, Drafts, Bases, Replaced
<1>1. ASSUME NEW o \in Operations, NEW t \in Targets, NEW f \in Fills,
             NEW a \in {"save-draft", "submit", "save-template", "publish"},
             BeginRequest(o, t, a, f)
      PROVE  VersionInv'
  <2>1. /\ UNCHANGED <<status, document, phase>>
        /\ status[o] = "none"
        /\ plan'[o].target = t /\ plan'[o].base = document[t]
        /\ \A x \in Operations : x # o => plan'[x] = plan[x]
    BY <1>1 DEF BeginRequest, ControlInv, RowControl, TypeOK
  <2>2. CompletedStay
    BY <2>1 DEF CompletedStay
  <2>3. document[t] # NoKey
    BY <1>1 DEF BeginRequest, TargetInv
  <2>4. Drafts /\ Bases
    BY <2>1, <2>2, <2>3, VersionsStay DEF Drafts, Bases
  <2>5. Replaced
    BY <2>1 DEF Replaced, VersionInv
  <2>6. Waiting
    <3>1. ASSUME NEW x \in Operations, NEW q \in Roles, pc'[<<x, q>>] = "commit", Active(x)'
          PROVE  Awaits(x)'
      <4>1. Active(x) /\ x # o
        BY <2>1, <3>1 DEF Active
      <4> QED BY <1>0, <2>1, <3>1, <4>1, AwaitsStays
    <3> QED BY <3>1 DEF Waiting
  <2> QED BY <1>a, <2>4, <2>5, <2>6
<1>2. ASSUME NEW o \in Operations, CreateOperation(o) PROVE VersionInv'
  <2>1. /\ UNCHANGED <<plan, document>>
        /\ status[o] = "none" /\ status'[o] = "pending"
        /\ \A x \in Operations : x # o => status'[x] = status[x]
        /\ pc[<<o, "worker">>] = "create"
    BY <1>2 DEF CreateOperation, Goto, ControlInv, ControlAt, TypeOK
  <2>2. CompletedStay
    BY <2>1 DEF CompletedStay
  <2>3. Drafts /\ Bases
    BY <2>1, <2>2, VersionsStay DEF Drafts, Bases
  <2>4. Replaced
    BY <2>1 DEF Replaced, VersionInv
  <2>5. Waiting
    <3>1. ASSUME NEW x \in Operations, NEW q \in Roles, pc'[<<x, q>>] = "commit", Active(x)'
          PROVE  Awaits(x)'
      <4>1. x # o
        <5>1. PICK to \in {"storeStaged", "launch"} : Goto(o, "worker", "create", to)
          BY <1>2 DEF CreateOperation
        <5>2. \A r \in Roles : r # "worker" => pc[<<o, r>>] = "idle"
          BY <2>1 DEF ControlInv, ControlAt
        <5>3. /\ pc[<<o, "worker">>] = "create"
              /\ pc'[<<o, "worker">>] = to
              /\ \A y \in Operations, p \in Roles :
                    y # o \/ p # "worker" => pc'[<<y, p>>] = pc[<<y, p>>]
          BY <5>1, GotoFacts
        <5>4. \A r \in Roles : pc'[<<o, r>>] # "commit"
          BY <5>1, <5>2, <5>3
        <5> QED BY <3>1, <5>4
      <4>2. Active(x)
        BY <2>1, <3>1, <4>1 DEF Active
      <4>3. plan[x].target # plan[o].target
        BY <1>2, <4>2 DEF CreateOperation
      <4>4. plan[x].target \in Targets
        BY <4>2, PlanFacts DEF Active
      <4>5. phase'[plan[x].target] = phase[plan[x].target]
        BY <1>2, <4>3, <4>4 DEF CreateOperation, TypeOK
      <4> QED BY <1>0, <2>1, <3>1, <4>2, <4>5, AwaitsStays
    <3> QED BY <3>1 DEF Waiting
  <2> QED BY <1>a, <2>3, <2>4, <2>5
<1>3. ASSUME NEW o \in Operations, NEW r \in Roles, FailOperation(o, r) PROVE VersionInv'
  <2>1. UNCHANGED <<plan, document>>
    BY <1>3 DEF FailOperation
  <2>2. \A x \in Operations : /\ status'[x] = "completed" <=> status[x] = "completed"
                              /\ Active(x)' => Active(x)
    BY <1>3 DEF FailOperation, Active, TypeOK
  <2>3. CompletedStay
    BY <2>1, <2>2 DEF CompletedStay
  <2>4. Drafts /\ Bases
    BY <2>1, <2>3, VersionsStay DEF Drafts, Bases
  <2>5. Replaced
    BY <2>1, <2>2 DEF Replaced, VersionInv
  <2>6. Waiting
    <3>1. ASSUME NEW x \in Operations, NEW q \in Roles, pc'[<<x, q>>] = "commit", Active(x)'
          PROVE  Awaits(x)'
      <4>1. Active(x) /\ Awaits(x)
        BY <1>0, <2>2, <3>1
      <4>2. phase'[plan[x].target] = phase[plan[x].target]
        <5>1. CASE phase' = phase
          BY <5>1
        <5>2. CASE phase' # phase
          <6>1. /\ Active(o) /\ status' = [status EXCEPT ![o] = "failed"]
                /\ phase' = [phase EXCEPT ![plan[o].target] = "draft"]
            BY <1>3, <5>2 DEF FailOperation, RollBackResponse
          <6>2. x # o
            BY <3>1, <6>1 DEF Active, TypeOK
          <6>3. plan[x].target # plan[o].target
            BY <4>1, <6>1, <6>2 DEF TargetInv, OneActiveOperation
          <6>4. plan[x].target \in Targets
            BY <4>1, PlanFacts DEF Active
          <6> QED BY <6>1, <6>3, <6>4 DEF TypeOK
        <5> QED BY <5>1, <5>2
      <4> QED BY <2>1, <4>1, <4>2, AwaitsStays
    <3> QED BY <3>1 DEF Waiting
  <2> QED BY <1>a, <2>4, <2>5, <2>6
<1>4. CASE Quiet
  <2>1. UNCHANGED <<document, phase>>
    BY <1>4 DEF Quiet
  <2>2. \A x \in Operations : /\ Active(x)' <=> Active(x)
                              /\ status'[x] = "completed" <=> status[x] = "completed"
                              /\ status[x] # "none" => plan'[x] = plan[x]
                              /\ plan'[x] # NoPlan => plan'[x] = plan[x]
    BY <1>4, QuietFacts
  <2>3. CompletedStay
    BY <2>2 DEF CompletedStay
  <2>4. Drafts /\ Bases
    BY <2>1, <2>2, <2>3, VersionsStay DEF Drafts, Bases
  <2>5. Replaced
    BY <2>1, <2>2 DEF Replaced, VersionInv
  <2>6. Waiting
    <3>1. ASSUME NEW x \in Operations, NEW q \in Roles, pc'[<<x, q>>] = "commit", Active(x)'
          PROVE  Awaits(x)'
      <4>1. Active(x) /\ plan'[x] = plan[x]
        BY <2>2, <3>1 DEF Active
      <4> QED BY <1>0, <2>1, <3>1, <4>1, AwaitsStays
    <3> QED BY <3>1 DEF Waiting
  <2> QED BY <1>a, <2>4, <2>5, <2>6
<1>5. ASSUME NEW o \in Operations, NEW r \in Roles, CommitCompletion(o, r) PROVE VersionInv'
  <2> DEFINE t == plan[o].target
  <2>1. /\ plan' = plan /\ t \in Targets /\ plan[o].base \in Keys
        /\ plan[o].action \in {"save-draft", "submit", "save-template", "publish"}
        /\ status[o] = "processing" /\ status'[o] = "completed" /\ ~Active(o)'
        /\ \A x \in Operations : x # o => status'[x] = status[x] /\ (Active(x)' <=> Active(x))
        /\ \A x \in Operations : x # o /\ Active(x) => plan[x].target # t
    BY <1>5, CommitFacts
  <2>2. CompleteTarget(o)
    BY <1>5 DEF CommitCompletion
  <2>3. /\ \A u \in Targets : u # t => document'[u] = document[u] /\ phase'[u] = phase[u]
        /\ plan[o].action \in {"save-draft", "save-template"} => document'[t] = Final(o)
        /\ plan[o].action = "submit" => document'[t] = NoKey
        /\ plan[o].action = "publish" => document' = document
    BY <2>1, <2>2, CompleteFacts
  <2>4. CompletedStay
    BY <2>1 DEF CompletedStay
  <2>5. Drafts
    <3>1. ASSUME NEW u \in Targets, document'[u] # NoKey PROVE VersionNext(document'[u], u)
      <4>1. CASE document'[u] = document[u]
        BY <2>4, <3>1, <4>1, VersionsStay
      <4>2. CASE document'[u] # document[u]
        <5>1. /\ u = t /\ document'[t] = Final(o)
              /\ plan[o].action \in {"save-draft", "save-template"}
          BY <2>1, <2>3, <3>1, <4>2
        <5> QED BY <2>1, <5>1 DEF VersionNext
      <4> QED BY <4>1, <4>2
    <3> QED BY <3>1 DEF Drafts
  <2>6. Bases
    BY <2>1, <2>4, VersionsStay DEF Bases
  <2>7. Replaced
    <3>1. ASSUME NEW x \in Operations, status'[x] = "completed", plan[x].action # "publish"
          PROVE  document'[plan[x].target] # plan[x].base
      <4>0. status[x] # "none"
        BY <2>1, <3>1
      <4>1. /\ plan[x] # NoPlan /\ plan[x].target \in Targets
            /\ plan[x].base \in Keys /\ plan[x].base # NoKey
        BY <4>0, PlanFacts, NoKeyAssumption
      <4>2. plan[x].base # Final(o)
        <5>1. VersionOf(plan[x].base, plan[x].target)
          BY <4>1 DEF VersionInv
        <5> QED BY <2>1, <5>1, KeyFacts DEF VersionOf, SaveOf
      <4>3. CASE x = o
        BY <2>1, <2>3, <3>1, <4>1, <4>2, <4>3
      <4>4. CASE x # o
        <5>1. document[plan[x].target] # plan[x].base
          BY <2>1, <3>1, <4>4 DEF VersionInv
        <5>2. CASE plan[x].target = t
          BY <2>1, <2>3, <4>1, <4>2, <5>1, <5>2
        <5>3. CASE plan[x].target # t
          BY <2>3, <4>1, <5>1, <5>3
        <5> QED BY <5>2, <5>3
      <4> QED BY <4>3, <4>4
    <3> QED BY <2>1, <3>1 DEF Replaced
  <2>8. Waiting
    <3>1. ASSUME NEW x \in Operations, NEW q \in Roles, pc'[<<x, q>>] = "commit", Active(x)'
          PROVE  Awaits(x)'
      <4>1. x # o /\ Active(x)
        BY <2>1, <3>1
      <4>2. plan[x].target # t /\ plan[x].target \in Targets
        BY <2>1, <4>1, PlanFacts DEF Active
      <4> QED BY <1>0, <2>1, <2>3, <3>1, <4>1, <4>2, AwaitsStays
    <3> QED BY <3>1 DEF Waiting
  <2> QED BY <1>a, <2>5, <2>6, <2>7, <2>8
<1> QED BY <1>1, <1>2, <1>3, <1>4, <1>5, RowFrame

-----------------------------------------------------------------------------
(* The store *)

(* Canonical keys are drafts' versions or the objects of records. *)
LEMMA CanonicalKeys ==
    ASSUME VersionInv, NEW key \in Canonical
    PROVE  \/ \E t \in Targets : VersionOf(key, t) /\ document[t] = key
           \/ \E o \in records : key = Final(o)
  BY DEF VersionInv, Canonical

(* Only a completing transaction makes an object canonical. *)
LEMMA CanonicalFrame ==
    ASSUME TypeOK, ControlInv, TargetInv, [Next]_vars, NEW key \in Canonical', key \notin Canonical
    PROVE  \E o \in Operations, r \in Roles : CommitCompletion(o, r) /\ key = Final(o)
<1>1. ~UNCHANGED <<document, records>>
  BY DEF Canonical
<1>2. PICK o \in Operations, r \in Roles : CommitCompletion(o, r)
  BY <1>1, RowFrame DEF BeginRequest, CreateOperation, FailOperation, Quiet
<1>3. /\ plan[o].target \in Targets
      /\ plan[o].action \in {"save-draft", "submit", "save-template", "publish"}
      /\ CompleteTarget(o)
  BY <1>2, CommitFacts DEF CommitCompletion
<1>4. /\ \A t \in Targets : document'[t] \in {document[t], Final(o), NoKey}
      /\ records' \subseteq records \cup {o}
  <2>1. /\ \A t \in Targets : t # plan[o].target => document'[t] = document[t]
        /\ plan[o].action \in {"save-draft", "save-template"} =>
              document'[plan[o].target] = Final(o) /\ records' = records
        /\ plan[o].action = "submit" =>
              document'[plan[o].target] = NoKey /\ records' = records \cup {o}
        /\ plan[o].action = "publish" => document' = document /\ records' = records \cup {o}
    BY <1>3, CompleteFacts
  <2> QED BY <1>3, <2>1
<1>5. key = Final(o)
  BY <1>4 DEF Canonical
<1> QED BY <1>2, <1>5

(* Which steps remove which objects. *)
LEMMA StoreFrame ==
    ASSUME [Next]_vars, NEW key \in store, key \notin store'
    PROVE  \E o \in Operations, r \in Roles :
              \/ CleanupObjects(o, r) /\ key \in CleanupKeys(o)
              \/ DropStaged(o, r) /\ key = Staged(o)
              \/ DropFinal(o, r) /\ key = Final(o)
<1>1. store' # store
  OBVIOUS
<1>2. ASSUME NEW o \in Operations, Request(o) PROVE FALSE
  BY <1>2, <1>1 DEF Request, BeginRequest, CreateOperation, RejectRequest, StoreStaged
<1>3. ASSUME NEW o \in Operations, Worker(o) \/ Passing(o) PROVE FALSE
  BY <1>3, <1>1 DEF Worker, LaunchForceSave, ForceSaveReturns, ConsumeForSnapshot, ReadSnapshot,
     LaunchNative, BuildNative, Passing, ExpireOperation, PollOperation, GrowStale, LapseClaim
<1>4. ASSUME NEW o \in Operations, NEW d \in Deliveries, Callback(o, d) PROVE FALSE
  BY <1>4, <1>1 DEF Callback, DeliverCallback, ReceiveCallback, ReceiveSettled
<1>5. ASSUME NEW o \in Operations, NEW r \in Roles, Process(o, r)
      PROVE  CleanupObjects(o, r) \/ DropStaged(o, r) \/ DropFinal(o, r)
  <2>1. ~PutStaged(o, r) /\ ~PutFinal(o, r)
    BY DEF PutStaged, PutFinal, PutObject
  <2> QED BY <1>5, <1>1, <2>1 DEF Process, Finalize, ClaimOperation, Precheck, CommitCompletion,
       AbortCompletion, CheckCanonical, FailOperation
<1>6. ~Crash /\ ~Serve /\ ~UNCHANGED vars
  BY <1>1 DEF Crash, Serve, vars
<1>7. PICK o \in Operations, r \in Roles :
         CleanupObjects(o, r) \/ DropStaged(o, r) \/ DropFinal(o, r)
  BY <1>2, <1>3, <1>4, <1>5, <1>6 DEF Next
<1>8. ASSUME NEW keys, DeleteObjects(keys) PROVE key \in keys
  BY <1>8 DEF DeleteObjects
<1> QED BY <1>7, <1>8 DEF CleanupObjects, DropStaged, DropFinal

(* No operation becomes active by a step of another. *)
LEMMA ActiveFrame ==
    ASSUME TypeOK, ControlInv, [Next]_vars, NEW x \in Operations, Active(x)'
    PROVE  Active(x) \/ status[x] = "none"
<1>1. ASSUME NEW o \in Operations, CreateOperation(o) PROVE Active(x) \/ status[x] = "none"
  BY <1>1 DEF CreateOperation, Goto, ControlInv, ControlAt, Active, TypeOK
<1>2. ASSUME NEW o \in Operations, NEW r \in Roles, CommitCompletion(o, r) \/ FailOperation(o, r)
      PROVE  Active(x)
  <2>1. status'[x] = status[x] \/ status'[x] \in {"completed", "failed"}
    BY <1>2 DEF CommitCompletion, MarkOperationCompleted, FailOperation, TypeOK
  <2> QED BY <2>1 DEF Active
<1>3. ASSUME Quiet PROVE Active(x)
  BY <1>3, QuietFacts
<1>4. ASSUME status' = status PROVE Active(x)
  BY <1>4 DEF Active
<1> QED BY <1>1, <1>2, <1>3, <1>4, RowFrame DEF BeginRequest

LEMMA StoreStep ==
    ASSUME TypeOK, ControlInv, FinalizerInv, TargetInv, OutcomeMatchesRows, VersionInv, StoreInv,
           [Next]_vars
    PROVE  StoreInv'
(* What a cleanup removes is not canonical. *)
<1>1. ASSUME NEW o \in Operations PROVE Staged(o) \notin Canonical
  <2>1. \A t : ~VersionOf(Staged(o), t)
    BY KeyFacts DEF VersionOf
  <2>2. \A x : Staged(o) # Final(x)
    BY KeyFacts
  <2> QED BY <2>1, <2>2, CanonicalKeys
<1>2. ASSUME NEW o \in Operations, status[o] = "completed", plan[o].action # "publish"
      PROVE  plan[o].base \notin Canonical
  <2> DEFINE t == plan[o].target
  <2>1. VersionOf(plan[o].base, t) /\ document[t] # plan[o].base
    BY <1>2, PlanFacts DEF VersionInv
  <2>2. ASSUME NEW u \in Targets, VersionOf(plan[o].base, u), document[u] = plan[o].base
        PROVE  FALSE
    <3>1. u # t
      BY <2>1, <2>2
    <3> QED BY <2>1, <2>2, <3>1, KeyFacts DEF VersionOf, SaveOf
  <2>3. ASSUME NEW x \in records, plan[o].base = Final(x) PROVE FALSE
    <3>1. PICK y \in Operations : plan[o].base = Final(y) /\ SaveOf(y, t)
      BY <2>1, <2>3, KeyFacts DEF VersionOf
    <3>2. x = y
      BY <2>3, <3>1, KeyFacts
    <3> QED BY <2>3, <3>1, <3>2 DEF SaveOf, OutcomeMatchesRows
  <2> QED BY <2>2, <2>3, CanonicalKeys
<1>3. ASSUME NEW o \in Operations, status[o] = "failed" PROVE Final(o) \notin Canonical
  <2>1. \A t \in Targets : document[t] # Final(o)
    BY <1>3 DEF OutcomeMatchesRows
  <2>2. \A x \in records : Final(x) # Final(o)
    BY <1>3, KeyFacts DEF OutcomeMatchesRows
  <2> QED BY <2>1, <2>2 DEF Canonical
<1>4. ASSUME NEW o \in Operations, NEW r \in Roles, DropFinal(o, r)
      PROVE  pc[<<o, r>>] = "catchFinal" \/ status[o] = "failed"
  BY <1>4 DEF DropFinal, Goto, ControlInv, ControlAt
<1>5. CanonicalStored'
  <2>1. ASSUME NEW key \in Canonical', key \notin store' PROVE FALSE
    <3>1. CASE key \in Canonical
      <4>1. key \in store
        BY <3>1 DEF StoreInv, CanonicalStored
      <4>2. PICK o \in Operations, r \in Roles :
               \/ CleanupObjects(o, r) /\ key \in CleanupKeys(o)
               \/ DropStaged(o, r) /\ key = Staged(o)
               \/ DropFinal(o, r) /\ key = Final(o)
        BY <2>1, <4>1, StoreFrame
      <4>3. CASE CleanupObjects(o, r) /\ key \in CleanupKeys(o)
        <5>1. status[o] = "completed"
          BY <4>3 DEF CleanupObjects, Goto, ControlInv, ControlAt
        <5>2. key = Staged(o) \/ (plan[o].action # "publish" /\ key = plan[o].base)
          BY <4>3 DEF CleanupKeys
        <5> QED BY <3>1, <5>1, <5>2, <1>1, <1>2
      <4>4. CASE DropStaged(o, r) /\ key = Staged(o)
        BY <3>1, <4>4, <1>1
      <4>5. CASE DropFinal(o, r) /\ key = Final(o)
        BY <3>1, <4>5, <1>3, <1>4 DEF StoreInv
      <4> QED BY <4>2, <4>3, <4>4, <4>5
    <3>2. CASE key \notin Canonical
      <4>1. PICK o \in Operations, r \in Roles : CommitCompletion(o, r) /\ key = Final(o)
        BY <2>1, <3>2, CanonicalFrame
      <4>2. pc[<<o, r>>] = "commit" /\ Active(o) /\ store' = store
        BY <4>1, CommitFacts
      <4> QED BY <2>1, <4>1, <4>2 DEF StoreInv
    <3> QED BY <3>1, <3>2
  <2> QED BY <2>1 DEF CanonicalStored
<1>6. ASSUME NEW x \in Operations, NEW q \in Roles,
             pc'[<<x, q>>] \in {"precheck", "commit"}, Active(x)'
      PROVE  Final(x) \in store'
  <2>1. ASSUME NEW from, NEW to, Goto(x, q, from, to)
        PROVE  pc[<<x, q>>] = from /\ to \in {"precheck", "commit"}
    BY <1>6, <2>1, GotoFacts
  <2>2. CASE PutFinal(x, q)
    <3>1. ~Goto(x, q, "putFinal", "catchStaged")
      BY <2>1
    <3> QED BY <2>2, <3>1 DEF PutFinal, PutObject
  <2>3. ~CheckCanonical(x, q)
    BY <2>1 DEF CheckCanonical
  <2>4. CASE pc[<<x, q>>] = pc'[<<x, q>>] \/ Precheck(x, q)
    <3>1. pc[<<x, q>>] \in {"precheck", "commit"}
      BY <1>6, <2>1, <2>4 DEF Precheck
    <3>2. status[x] # "none"
      BY <3>1 DEF ControlInv, ControlAt
    <3>3. Active(x)
      BY <1>6, <3>2, ActiveFrame
    <3>4. Final(x) \in store
      BY <3>1, <3>3 DEF StoreInv
    <3>5. ASSUME Final(x) \notin store' PROVE FALSE
      <4>1. PICK o \in Operations, r \in Roles :
               \/ CleanupObjects(o, r) /\ Final(x) \in CleanupKeys(o)
               \/ DropStaged(o, r) /\ Final(x) = Staged(o)
               \/ DropFinal(o, r) /\ Final(x) = Final(o)
        BY <3>4, <3>5, StoreFrame
      <4>2. CASE CleanupObjects(o, r) /\ Final(x) \in CleanupKeys(o)
        <5>1. status[o] = "completed"
          BY <4>2 DEF CleanupObjects, Goto, ControlInv, ControlAt
        <5>2. Final(x) = plan[o].base
          BY <4>2, KeyFacts DEF CleanupKeys
        <5>3. VersionOf(plan[o].base, plan[o].target)
          BY <5>1, PlanFacts DEF VersionInv
        <5>4. PICK y \in Operations : plan[o].base = Final(y) /\ status[y] = "completed"
          BY <5>2, <5>3, KeyFacts DEF VersionOf, SaveOf
        <5>5. y = x
          BY <5>2, <5>4, KeyFacts
        <5> QED BY <3>3, <5>4, <5>5 DEF Active
      <4>3. CASE DropFinal(o, r) /\ Final(x) = Final(o)
        <5>1. o = x
          BY <4>3, KeyFacts
        <5>2. pc[<<x, r>>] = "catchFinal"
          BY <4>3, <5>1, <1>4, <3>3 DEF Active
        <5>3. r = q
          BY <3>1, <5>2 DEF FinalizerInv, OneFinalizer, Finalizing
        <5> QED BY <3>1, <5>2, <5>3
      <4> QED BY <4>1, <4>2, <4>3, KeyFacts
    <3> QED BY <3>5
  <2> QED BY <1>6, <2>2, <2>3, <2>4, GuardedFrame DEF Guarded
<1>7. ASSUME NEW x \in Operations, NEW q \in Roles, pc'[<<x, q>>] = "catchFinal"
      PROVE  Final(x) \notin Canonical'
  <2>1. ASSUME NEW from, NEW to, Goto(x, q, from, to) PROVE to = "catchFinal"
    BY <1>7, <2>1, GotoFacts
  <2>2. ~PutFinal(x, q) /\ ~Precheck(x, q)
    BY <2>1 DEF PutFinal, PutObject, Precheck
  <2>3. CASE CheckCanonical(x, q)
    <3>1. Goto(x, q, "catchCheck", IF Final(x) \in Canonical THEN "fail" ELSE "catchFinal")
          \/ Goto(x, q, "dropCheck", IF Final(x) \in Canonical THEN "idle" ELSE "dropFinal")
      BY <2>3 DEF CheckCanonical
    <3>2. Final(x) \notin Canonical
      BY <3>1, <2>1
    <3>3. Canonical' = Canonical
      BY <2>3 DEF CheckCanonical, rows, Canonical
    <3> QED BY <3>2, <3>3
  <2>4. CASE pc[<<x, q>>] = pc'[<<x, q>>]
    <3>1. Final(x) \notin Canonical /\ pc[<<x, q>>] = "catchFinal"
      BY <1>7, <2>4 DEF StoreInv
    <3>2. ASSUME Final(x) \in Canonical' PROVE FALSE
      <4>1. PICK o \in Operations, r \in Roles : CommitCompletion(o, r) /\ Final(x) = Final(o)
        BY <3>1, <3>2, CanonicalFrame
      <4>2. o = x /\ pc[<<o, r>>] = "commit"
        BY <4>1, CommitFacts, KeyFacts
      <4>3. r = q
        BY <3>1, <4>2 DEF FinalizerInv, OneFinalizer, Finalizing
      <4> QED BY <3>1, <4>2, <4>3
    <3> QED BY <3>2
  <2> QED BY <1>7, <2>2, <2>3, <2>4, GuardedFrame DEF Guarded
<1> QED BY <1>5, <1>6, <1>7 DEF StoreInv

-----------------------------------------------------------------------------
(* The theorems *)

LEMMA InitIndInv == Init => IndInv
<1> SUFFICES ASSUME Init PROVE IndInv
  OBVIOUS
<1> USE DEF Init
<1>1. TypeOK
  BY KeyFacts DEF TypeOK, PcValues
<1>2. /\ \A o \in Operations : status[o] = "none" /\ ~Active(o) /\ plan[o] = NoPlan
      /\ \A o \in Operations, r \in Roles : pc[<<o, r>>] = "idle"
      /\ \A t \in Targets : document[t] = Seed(t) /\ phase[t] = "draft" /\ Seed(t) # NoKey
  BY KeyFacts, NoKeyAssumption DEF Active
<1> USE <1>2
<1>3. ControlInv
  BY DEF ControlInv, RowControl, ControlAt, Settled
<1>4. FinalizerInv
  BY DEF FinalizerInv, OneFinalizer, Finalizing
<1>5. TargetInv
  BY TargetsAssumption DEF TargetInv, OneActiveOperation, SubmittingIffPending, Targets
<1>6. OutcomeMatchesRows
  BY KeyFacts DEF OutcomeMatchesRows
<1>7. VersionInv
  BY DEF VersionInv, VersionOf
<1>8. StoreInv
  BY DEF StoreInv, CanonicalStored, Canonical
<1> QED BY <1>1, <1>3, <1>4, <1>5, <1>6, <1>7, <1>8 DEF IndInv

LEMMA NextIndInv == IndInv /\ [Next]_vars => IndInv'
  BY TypeStep, ControlStep, FinalizerStep, TargetStep, OutcomeStep, VersionStep, StoreStep
     DEF IndInv

(* The inductive invariant holds in every reachable state, whatever the    *)
(* sets of operations, targets and deliveries and the number of crashes.   *)
THEOREM InductiveInvariant == Spec => []IndInv
  BY InitIndInv, NextIndInv, PTL DEF Spec

(* Type correctness. *)
THEOREM TypeCorrect == Spec => []TypeOK
<1>1. IndInv => TypeOK
  BY DEF IndInv
<1> QED BY <1>1, InductiveInvariant, PTL

(* No document a row refers to is ever deleted, and no row refers to one   *)
(* before it is stored.                                                    *)
THEOREM ReferencesSafe == Spec => []CanonicalStored
<1>1. IndInv => CanonicalStored
  BY DEF IndInv, StoreInv
<1> QED BY <1>1, InductiveInvariant, PTL

(* A Response is locked for exactly as long as its submission is running. *)
THEOREM SubmissionLocks == Spec => []SubmittingIffPending
<1>1. IndInv => SubmittingIffPending
  BY DEF IndInv, TargetInv
<1> QED BY <1>1, InductiveInvariant, PTL

(* Repeated callbacks never finalize an operation twice. *)
THEOREM FinalizerUnique == Spec => []OneFinalizer
<1>1. IndInv => OneFinalizer
  BY DEF IndInv, FinalizerInv
<1> QED BY <1>1, InductiveInvariant, PTL

(* The rows an operation leaves behind agree with its terminal status. *)
THEOREM OutcomesAgree == Spec => []OutcomeMatchesRows
<1>1. IndInv => OutcomeMatchesRows
  BY DEF IndInv
<1> QED BY <1>1, InductiveInvariant, PTL

(* Only a completing transaction completes an operation, and no step       *)
(* touches a settled one.                                                  *)
LEMMA SettledStays ==
    ASSUME TypeOK, ControlInv, [Next]_vars, NEW x \in Operations
    PROVE  /\ Settled(x) => status'[x] = status[x]
           /\ status[x] # "completed" /\ status'[x] = "completed"
                 => \E r \in Roles : CommitCompletion(x, r)
<1>1. ASSUME NEW o \in Operations, CreateOperation(o)
      PROVE  x # o => status'[x] = status[x]
  BY <1>1 DEF CreateOperation, TypeOK
<1>2. ASSUME NEW o \in Operations, CreateOperation(o)
      PROVE  x = o => status[x] = "none" /\ status'[x] = "pending"
  BY <1>2 DEF CreateOperation, Goto, ControlInv, ControlAt, TypeOK
<1>3. ASSUME NEW o \in Operations, NEW r \in Roles, CommitCompletion(o, r)
      PROVE  /\ x # o => status'[x] = status[x]
             /\ ~Settled(o)
  BY <1>3 DEF CommitCompletion, MarkOperationCompleted, Settled, TypeOK
<1>4. ASSUME NEW o \in Operations, NEW r \in Roles, FailOperation(o, r)
      PROVE  status'[x] = status[x] \/ (~Settled(x) /\ status'[x] = "failed")
  BY <1>4 DEF FailOperation, Settled, Active, TypeOK
<1>5. ASSUME Quiet
      PROVE  status'[x] = status[x] \/ (~Settled(x) /\ status'[x] = "processing")
  BY <1>5 DEF Quiet, Active, Settled
<1>6. ASSUME NEW o \in Operations, NEW t \in Targets, NEW f \in Fills,
             NEW a \in {"save-draft", "submit", "save-template", "publish"},
             BeginRequest(o, t, a, f)
      PROVE  status'[x] = status[x]
  BY <1>6 DEF BeginRequest
<1> QED BY <1>1, <1>2, <1>3, <1>4, <1>5, <1>6, RowFrame DEF Settled

(* A completed save, submission or publication replaces or records the     *)
(* version it was made from, and terminal operations never change.         *)
THEOREM UpdatesKept == Spec => NoLostUpdate
<1> DEFINE Kept == \A o \in Operations :
                      /\ Settled(o) => status'[o] = status[o]
                      /\ status[o] # "completed" /\ status'[o] = "completed"
                             => document[plan[o].target] = plan[o].base
<1>1. ASSUME IndInv, [Next]_vars PROVE Kept
  <2>1. ASSUME NEW o \in Operations, NEW r \in Roles, CommitCompletion(o, r)
        PROVE  document[plan[o].target] = plan[o].base
    <3>1. pc[<<o, r>>] = "commit" /\ Active(o)
      BY <1>1, <2>1, CommitFacts DEF IndInv
    <3> QED BY <1>1, <3>1 DEF IndInv, VersionInv, Awaits
  <2> QED BY <1>1, <2>1, SettledStays DEF IndInv
<1>2. IndInv /\ [Next]_vars => [Kept]_vars
  BY <1>1
<1> QED BY <1>2, InductiveInvariant, PTL DEF Spec, NoLostUpdate

-----------------------------------------------------------------------------
(* Refinement: each step is a step or a stutter of DocumentOutcomes *)

LEMMA RefinesInit == Init => Outcomes!Init
  BY DEF Init, Outcomes!Init, AbstractRequest, AbstractOutcome, Active, Outcomes!Targets,
     Targets, Outcomes!Seed, Seed

LEMMA RefinesNext ==
    ASSUME IndInv, [Next]_vars
    PROVE  [Outcomes!Next]_(Outcomes!abstractVars)
<1> USE DEF IndInv
<1>1. ASSUME UNCHANGED <<document, phase, records>>,
             \A x \in Operations : \/ status'[x] = status[x]
                                   \/ Active(x) /\ status'[x] = "processing",
             \A x \in Operations : status[x] # "none" => plan'[x] = plan[x]
      PROVE  UNCHANGED Outcomes!abstractVars
  <2>1. AbstractRequest' = AbstractRequest
    BY <1>1 DEF AbstractRequest, Active
  <2>2. AbstractOutcome' = AbstractOutcome
    BY <1>1 DEF AbstractOutcome, Active
  <2> QED BY <1>1, <2>1, <2>2 DEF Outcomes!abstractVars
<1>2. ASSUME NEW o \in Operations, NEW t \in Targets, NEW f \in Fills,
             NEW a \in {"save-draft", "submit", "save-template", "publish"},
             BeginRequest(o, t, a, f)
      PROVE  UNCHANGED Outcomes!abstractVars
  <2>1. status[o] = "none" /\ \A x \in Operations : x # o => plan'[x] = plan[x]
    BY <1>2 DEF BeginRequest, ControlInv, RowControl, TypeOK
  <2> QED BY <1>1, <1>2, <2>1 DEF BeginRequest
<1>3. CASE Quiet
  BY <1>1, <1>3, QuietFacts DEF Quiet
<1>4. ASSUME NEW o \in Operations, CreateOperation(o) PROVE Outcomes!Next
  <2>1. plan[o] \in Plans /\ plan[o] # NoPlan /\ status[o] = "none"
    BY <1>4 DEF CreateOperation, Goto, ControlInv, ControlAt, TypeOK
  <2>2. status'[o] = "pending" /\ \A x \in Operations : x # o => status'[x] = status[x]
    BY <1>4 DEF CreateOperation, TypeOK
  <2>3. AbstractRequest' = [AbstractRequest EXCEPT ![o] = plan[o]]
    BY <1>4, <2>1, <2>2 DEF AbstractRequest, CreateOperation
  <2>4. AbstractOutcome' = [AbstractOutcome EXCEPT ![o] = "open"]
    BY <2>2 DEF AbstractOutcome, Active
  <2>5. /\ AbstractOutcome[o] = "none"
        /\ \A x \in Operations :
              AbstractOutcome[x] = "open" => AbstractRequest[x].target # plan[o].target
    <3>1. \A x \in Operations :
             AbstractOutcome[x] = "open" => Active(x) /\ AbstractRequest[x] = plan[x]
      BY DEF AbstractOutcome, AbstractRequest, Active, TypeOK
    <3>2. \A x \in Operations : Active(x) => plan[x].target # plan[o].target
      BY <1>4 DEF CreateOperation
    <3>3. AbstractOutcome[o] = "none"
      BY <2>1 DEF AbstractOutcome, Active
    <3> QED BY <3>1, <3>2, <3>3
  <2>6. Outcomes!Accept(o, plan[o])
    BY <1>4, <2>3, <2>4, <2>5 DEF Outcomes!Accept, Outcomes!Submits, CreateOperation
  <2> QED BY <2>1, <2>6 DEF Outcomes!Next
<1>5. ASSUME NEW o \in Operations, NEW r \in Roles, CommitCompletion(o, r) PROVE Outcomes!Next
  <2>1. /\ plan' = plan /\ pc[<<o, r>>] = "commit" /\ Active(o)
        /\ plan[o].target \in Targets
        /\ plan[o].action \in {"save-draft", "submit", "save-template", "publish"}
        /\ status[o] = "processing" /\ status'[o] = "completed"
        /\ \A x \in Operations : x # o => status'[x] = status[x]
    BY <1>5, CommitFacts
  <2>2. Awaits(o) /\ CompleteTarget(o)
    BY <1>5, <2>1 DEF VersionInv, CommitCompletion
  <2>3. AbstractRequest' = AbstractRequest /\ AbstractRequest[o] = plan[o]
    BY <2>1 DEF AbstractRequest
  <2>4. AbstractOutcome' = [AbstractOutcome EXCEPT ![o] = "completed"]
        /\ AbstractOutcome[o] = "open"
    BY <2>1 DEF AbstractOutcome, Active
  <2>5. Outcomes!Complete(o)
    BY <2>1, <2>2, <2>3, <2>4
       DEF Awaits, CompleteTarget, Outcomes!Complete, Outcomes!Submits, Outcomes!Final, Final
  <2> QED BY <2>5 DEF Outcomes!Next
<1>6. ASSUME NEW o \in Operations, NEW r \in Roles, FailOperation(o, r)
      PROVE  Outcomes!Next \/ UNCHANGED Outcomes!abstractVars
  <2>1. UNCHANGED <<plan, document, records>>
    BY <1>6 DEF FailOperation
  <2>2. CASE UNCHANGED <<status, phase>>
    BY <1>1, <2>1, <2>2
  <2>3. CASE Active(o) /\ status' = [status EXCEPT ![o] = "failed"] /\ RollBackResponse(o)
    <3>1. status'[o] = "failed" /\ \A x \in Operations : x # o => status'[x] = status[x]
      BY <2>3 DEF TypeOK
    <3>2. AbstractRequest' = AbstractRequest /\ AbstractRequest[o] = plan[o]
      BY <2>1, <2>3, <3>1 DEF AbstractRequest, Active
    <3>3. AbstractOutcome' = [AbstractOutcome EXCEPT ![o] = "failed"]
          /\ AbstractOutcome[o] = "open"
      BY <2>3, <3>1 DEF AbstractOutcome, Active
    <3>4. plan[o].action = "submit" => phase[plan[o].target] = "submitting"
      <4>1. plan[o].target \in Targets
        BY <2>3, PlanFacts DEF Active
      <4> QED BY <2>3, <4>1 DEF TargetInv, SubmittingIffPending
    <3>5. Outcomes!Fail(o)
      BY <2>1, <2>3, <3>2, <3>3, <3>4 DEF RollBackResponse, Outcomes!Fail, Outcomes!Submits
    <3> QED BY <3>5 DEF Outcomes!Next
  <2> QED BY <1>6, <2>2, <2>3 DEF FailOperation
<1> QED BY <1>2, <1>3, <1>4, <1>5, <1>6, RowFrame

(* To its clients an operation is one atomic effect or none: the tasks,    *)
(* callbacks, timeouts and crashes implement DocumentOutcomes.             *)
THEOREM Refinement == Spec => ImplementsOutcomes
<1>1. IndInv /\ [Next]_vars => [Outcomes!Next]_(Outcomes!abstractVars)
  BY RefinesNext
<1> QED BY RefinesInit, <1>1, InductiveInvariant, PTL DEF Spec, ImplementsOutcomes, Outcomes!Spec

-----------------------------------------------------------------------------
(* No orphans: whatever is stored is referred to, or somebody owes its removal *)

(* Who still removes a staged object, a final object and a replaced draft. *)
StagedOwed == {"putFinal", "precheck", "commit", "catchStaged", "cleanup"}
FinalOwed  == {"precheck", "commit", "catchStaged", "catchCheck", "catchFinal"}
At(o, places) == \E r \in Roles : pc[<<o, r>>] \in places

OwedBy(o, key) ==
    \/ At(o, StagedOwed) /\ key = Staged(o)
    \/ At(o, FinalOwed) /\ key = Final(o)
    \/ At(o, {"cleanup"}) /\ key \in CleanupKeys(o)

Undisturbed == Faults \subseteq {"crash"} /\ crashes = 0

Accounted(key) == key \in Canonical \cup Leftover \/ \E o \in Operations : OwedBy(o, key)

OrphanInv ==
    /\ \A o \in Operations :
          /\ pc[<<o, "worker">>] = "storeStaged" => plan[o].fill = "picture"
          /\ Staged(o) \in store => status[o] # "none"
    /\ Undisturbed => \A key \in store : Accounted(key)

(* An undisturbed deletion removes what it was asked to. *)
LEMMA Deleted ==
    ASSUME Undisturbed, NEW keys, DeleteObjects(keys)
    PROVE  store' = store \ keys
  BY DEF Undisturbed, DeleteObjects

(* What an operation owes is still owed when none of its processes moves.  *)
LEMMA OwedStays ==
    ASSUME NEW x \in Operations, plan'[x] = plan[x],
           \A q \in Roles : pc'[<<x, q>>] = pc[<<x, q>>],
           NEW key, OwedBy(x, key)
    PROVE  OwedBy(x, key)'
  BY DEF OwedBy, At, CleanupKeys

(* A process that moves hands on what it owes, or has removed it.          *)
LEMMA OrphanMove ==
    ASSUME TypeOK, ControlInv, OrphanInv, NEW o \in Operations, NEW r \in Roles, NEW from, NEW to,
           Goto(o, r, from, to), UNCHANGED <<plan, document, records, crashes>>,
           \A x \in Operations : status[x] # "none" => status'[x] # "none",
           to = "storeStaged" => plan[o].fill = "picture",
           Staged(o) \in store' \ store => status[o] # "none",
           \A key \in store' \ store : \/ key = Staged(o) /\ (to \in StagedOwed \/ key \in Leftover)
                                       \/ key = Final(o) /\ to \in FinalOwed,
           Undisturbed =>
             /\ from \in StagedOwed /\ Staged(o) \in store' => to \in StagedOwed
             /\ from \in FinalOwed /\ Final(o) \in store' => to \in FinalOwed \/ Final(o) \in Canonical
             /\ from = "cleanup" => store' \cap CleanupKeys(o) = {}
    PROVE  OrphanInv'
<1>1. /\ pc[<<o, r>>] = from
      /\ pc'[<<o, r>>] = to
      /\ \A x \in Operations, q \in Roles : x # o \/ q # r => pc'[<<x, q>>] = pc[<<x, q>>]
  BY GotoFacts
<1>2. Canonical' = Canonical /\ Leftover' = Leftover
  BY DEF Canonical, Leftover
<1>3. ASSUME NEW x \in Operations
      PROVE  /\ pc'[<<x, "worker">>] = "storeStaged" => plan'[x].fill = "picture"
             /\ Staged(x) \in store' => status'[x] # "none"
  <2>1. Staged(x) \in store' \ store => x = o
    BY KeyFacts DEF Staged
  <2>2. pc'[<<x, "worker">>] = pc[<<x, "worker">>] \/ (x = o /\ pc'[<<x, "worker">>] = to)
    BY <1>1
  <2> QED BY <2>1, <2>2 DEF OrphanInv
<1>4. ASSUME Undisturbed, NEW key \in store' PROVE Accounted(key)'
  <2>1. CASE key \notin store
    <3>1. CASE key \in Leftover
      BY <1>2, <3>1 DEF Accounted
    <3>2. CASE key = Staged(o) /\ to \in StagedOwed
      BY <1>1, <3>2 DEF Accounted, OwedBy, At
    <3>3. CASE key = Final(o) /\ to \in FinalOwed
      BY <1>1, <3>3 DEF Accounted, OwedBy, At
    <3> QED BY <2>1, <3>1, <3>2, <3>3
  <2>2. CASE key \in Canonical \cup Leftover
    BY <1>2, <2>2 DEF Accounted
  <2>3. ASSUME NEW x \in Operations, OwedBy(x, key), x # o PROVE Accounted(key)'
    <3>1. OwedBy(x, key)'
      BY <1>1, <2>3, OwedStays
    <3> QED BY <3>1 DEF Accounted
  <2>4. ASSUME OwedBy(o, key) PROVE Accounted(key)'
    <3>1. ASSUME At(o, StagedOwed), key = Staged(o) PROVE At(o, StagedOwed)'
      <4>1. PICK q \in Roles : pc[<<o, q>>] \in StagedOwed
        BY <3>1 DEF At
      <4>2. pc'[<<o, q>>] \in StagedOwed
        BY <1>1, <1>4, <3>1, <4>1
      <4> QED BY <4>2 DEF At
    <3>2. ASSUME At(o, FinalOwed), key = Final(o) PROVE At(o, FinalOwed)' \/ key \in Canonical
      <4>1. PICK q \in Roles : pc[<<o, q>>] \in FinalOwed
        BY <3>2 DEF At
      <4>2. pc'[<<o, q>>] \in FinalOwed \/ key \in Canonical
        BY <1>1, <1>4, <3>2, <4>1
      <4> QED BY <4>2 DEF At
    <3>3. ASSUME At(o, {"cleanup"}), key \in CleanupKeys(o) PROVE At(o, {"cleanup"})'
      <4>1. PICK q \in Roles : pc[<<o, q>>] = "cleanup"
        BY <3>3 DEF At
      <4>2. pc'[<<o, q>>] = "cleanup"
        BY <1>1, <1>4, <3>3, <4>1
      <4> QED BY <4>2 DEF At
    <3>4. CleanupKeys(o)' = CleanupKeys(o)
      BY DEF CleanupKeys
    <3>5. CASE At(o, StagedOwed) /\ key = Staged(o)
      BY <3>1, <3>5 DEF Accounted, OwedBy
    <3>6. CASE At(o, FinalOwed) /\ key = Final(o)
      BY <1>2, <3>2, <3>6 DEF Accounted, OwedBy
    <3>7. CASE At(o, {"cleanup"}) /\ key \in CleanupKeys(o)
      BY <3>3, <3>4, <3>7 DEF Accounted, OwedBy
    <3> QED BY <2>4, <3>5, <3>6, <3>7 DEF OwedBy
  <2> QED BY <1>4, <2>1, <2>2, <2>3, <2>4 DEF OrphanInv, Accounted
<1> QED BY <1>3, <1>4 DEF OrphanInv, Undisturbed

(* A step that touches no object, no row and no process keeps the invariant. *)
LEMMA OrphanFrame ==
    ASSUME OrphanInv, UNCHANGED <<plan, status, document, records, store, pc, crashes>>
    PROVE  OrphanInv'
  BY DEF OrphanInv, Undisturbed, Accounted, OwedBy, At, CleanupKeys, Canonical, Leftover

(* A request that begins or is rejected has stored nothing. *)
LEMMA OrphanRequest ==
    ASSUME TypeOK, ControlInv, TargetInv, OrphanInv, NEW o \in Operations,
           \/ \E t \in Targets, f \in Fills, a \in {"save-draft", "submit", "save-template", "publish"} :
                 BeginRequest(o, t, a, f)
           \/ RejectRequest(o)
    PROVE  OrphanInv'
<1>1. /\ UNCHANGED <<status, document, records, store, crashes>>
      /\ \A x \in Operations : x # o => plan'[x] = plan[x]
      /\ plan[o] = NoPlan \/ plan'[o] = NoPlan
  BY DEF BeginRequest, RejectRequest, TypeOK
<1>2. PICK from, to : Goto(o, "worker", from, to) /\ to \in {"idle", "create"}
  BY DEF BeginRequest, RejectRequest
<1>3. /\ pc'[<<o, "worker">>] \in {"idle", "create"}
      /\ \A x \in Operations, q \in Roles : x # o \/ q # "worker" => pc'[<<x, q>>] = pc[<<x, q>>]
  <2>1. "worker" \in Roles
    OBVIOUS
  <2> HIDE DEF Roles
  <2> QED BY <1>2, <2>1, GotoFacts
<1>4. status[o] = "none" /\ \A q \in Roles : pc[<<o, q>>] \in {"idle", "create"}
  <2>1. CASE RejectRequest(o)
    <3>1. status[o] = "none"
      BY <2>1 DEF RejectRequest, Goto, ControlInv, ControlAt
    <3> QED BY <3>1 DEF ControlInv, ControlAt
  <2>2. CASE plan[o] = NoPlan
    BY <2>2 DEF ControlInv, ControlAt, RowControl
  <2> QED BY <2>1, <2>2 DEF BeginRequest
<1>5. Staged(o) \notin store
  BY <1>4 DEF OrphanInv
<1>7. ASSUME NEW x \in Operations
      PROVE  /\ pc'[<<x, "worker">>] = "storeStaged" => plan'[x].fill = "picture"
             /\ Staged(x) \in store' => status'[x] # "none"
  <2>1. x # o => pc'[<<x, "worker">>] = pc[<<x, "worker">>]
    BY <1>3
  <2> QED BY <1>1, <1>3, <2>1 DEF OrphanInv
<1>8. ASSUME Undisturbed, NEW key \in store PROVE Accounted(key)'
  <2>1. CASE key \in Canonical
    BY <1>1, <2>1 DEF Accounted, Canonical
  <2>2. ASSUME key \in Leftover PROVE key \in Leftover'
    <3>1. PICK x \in Operations : plan[x] # NoPlan /\ plan[x].fill = "picture" /\ key = Staged(x)
      BY <2>2 DEF Leftover
    <3>2. x # o
      BY <1>5, <1>8, <3>1
    <3> QED BY <1>1, <3>1, <3>2 DEF Leftover
  <2>3. ASSUME NEW x \in Operations, OwedBy(x, key) PROVE OwedBy(x, key)'
    <3>1. x # o
      BY <1>4, <2>3 DEF OwedBy, At, StagedOwed, FinalOwed
    <3> QED BY <1>1, <1>3, <2>3, <3>1, OwedStays
  <2> QED BY <1>8, <2>1, <2>2, <2>3 DEF OrphanInv, Accounted
<1> QED BY <1>1, <1>7, <1>8 DEF OrphanInv, Undisturbed

(* A completing transaction refers to the final object, and owes the draft *)
(* it replaces: the document its request has read.                         *)
LEMMA OrphanCommit ==
    ASSUME TypeOK, ControlInv, TargetInv, VersionInv, OrphanInv,
           NEW o \in Operations, NEW r \in Roles, CommitCompletion(o, r)
    PROVE  OrphanInv'
<1> DEFINE t == plan[o].target
<1>0. /\ plan' = plan /\ store' = store /\ crashes' = crashes
      /\ status'[o] = "completed" /\ \A x \in Operations : x # o => status'[x] = status[x]
      /\ t \in Targets /\ plan[o].action \in {"save-draft", "submit", "save-template", "publish"}
      /\ CompleteTarget(o)
  BY CommitFacts DEF CommitCompletion
<1>1. PICK to \in {"cleanup", "catchStaged"} :
         Goto(o, r, "commit", to) /\ (to = "catchStaged" => "ack" \in Faults)
  BY DEF CommitCompletion
<1>2. /\ pc[<<o, r>>] = "commit"
      /\ pc'[<<o, r>>] = to
      /\ \A x \in Operations, q \in Roles : x # o \/ q # r => pc'[<<x, q>>] = pc[<<x, q>>]
  BY <1>1, GotoFacts
<1>3. document[t] = plan[o].base
  <2>1. Active(o)
    BY CommitFacts
  <2> QED BY <1>2, <2>1 DEF VersionInv, Awaits
<1>4. ASSUME NEW x \in Operations
      PROVE  /\ pc'[<<x, "worker">>] = "storeStaged" => plan'[x].fill = "picture"
             /\ Staged(x) \in store' => status'[x] # "none"
  <2>1. pc'[<<x, "worker">>] = pc[<<x, "worker">>] \/ pc'[<<x, "worker">>] = to
    BY <1>2
  <2> QED BY <1>0, <2>1 DEF OrphanInv
<1>5. ASSUME Undisturbed, NEW key \in store PROVE Accounted(key)'
  <2>1. to = "cleanup" /\ pc'[<<o, r>>] = "cleanup"
    BY <1>1, <1>2, <1>5 DEF Undisturbed
  <2>2. At(o, {"cleanup"})' /\ At(o, StagedOwed)'
    BY <2>1 DEF At, StagedOwed
  <2>3. Final(o) \in Canonical'
    <3>1. CASE plan[o].action \in {"submit", "publish"}
      BY <1>0, <3>1, CompleteFacts DEF Canonical
    <3>2. CASE plan[o].action \in {"save-draft", "save-template"}
      <4>1. document'[t] = Final(o)
        BY <1>0, <3>2, CompleteFacts
      <4>2. Final(o) # NoKey
        BY KeyFacts, NoKeyAssumption
      <4> QED BY <1>0, <4>1, <4>2 DEF Canonical
    <3> QED BY <1>0, <3>1, <3>2
  <2>4. CASE key \in Canonical
    <3>1. key \in Canonical' \/ (plan[o].action # "publish" /\ key = document[t])
      <4>1. /\ \A u \in Targets : u # t => document'[u] = document[u]
            /\ plan[o].action = "publish" => document' = document
            /\ records \subseteq records'
        BY <1>0, CompleteFacts
      <4> QED BY <1>0, <2>4, <4>1 DEF Canonical
    <3>2. plan[o].action # "publish" => plan[o].base \in CleanupKeys(o)'
      BY <1>0 DEF CleanupKeys
    <3> QED BY <1>3, <2>2, <3>1, <3>2 DEF Accounted, OwedBy
  <2>5. CASE key \in Leftover
    BY <1>0, <2>5 DEF Leftover, Accounted
  <2>6. ASSUME NEW x \in Operations, x # o, OwedBy(x, key) PROVE OwedBy(x, key)'
    BY <1>0, <1>2, <2>6, OwedStays
  <2>7. ASSUME OwedBy(o, key) PROVE Accounted(key)'
    <3>1. CASE key = Staged(o)
      BY <2>2, <3>1 DEF Accounted, OwedBy
    <3>2. CASE key = Final(o)
      BY <2>3, <3>2 DEF Accounted
    <3>3. CASE key \in CleanupKeys(o)
      <4>1. CleanupKeys(o)' = CleanupKeys(o)
        BY <1>0 DEF CleanupKeys
      <4> QED BY <2>2, <3>3, <4>1 DEF Accounted, OwedBy
    <3> QED BY <2>7, <3>1, <3>2, <3>3 DEF OwedBy
  <2> QED BY <1>5, <2>4, <2>5, <2>6, <2>7 DEF OrphanInv, Accounted
<1> QED BY <1>0, <1>4, <1>5 DEF OrphanInv, Undisturbed

(* Whatever is stored is referred to or owed. *)
LEMMA OrphanStep ==
    ASSUME IndInv, OrphanInv, [Next]_vars
    PROVE  OrphanInv'
<1>0. TypeOK /\ ControlInv /\ TargetInv /\ VersionInv
  BY DEF IndInv
<1> USE DEF StagedOwed, FinalOwed
<1>1. ASSUME NEW o \in Operations, NEW t \in Targets, NEW f \in Fills,
             NEW a \in {"save-draft", "submit", "save-template", "publish"},
             BeginRequest(o, t, a, f)
      PROVE  OrphanInv'
  BY <1>0, <1>1, OrphanRequest
<1>2. ASSUME NEW o \in Operations, RejectRequest(o) PROVE OrphanInv'
  BY <1>0, <1>2, OrphanRequest
<1>3. ASSUME NEW o \in Operations, CreateOperation(o) PROVE OrphanInv'
  <2>1. PICK to \in {"storeStaged", "launch"} :
           Goto(o, "worker", "create", to) /\ (to = "storeStaged" => plan[o].fill = "picture")
    BY <1>3 DEF CreateOperation
  <2>2. \A x \in Operations : status[x] # "none" => status'[x] # "none"
    BY <1>0, <1>3 DEF CreateOperation, TypeOK
  <2> QED BY <1>0, <1>3, <2>1, <2>2, OrphanMove DEF CreateOperation
<1>4. ASSUME NEW o \in Operations, StoreStaged(o) PROVE OrphanInv'
  <2>1. PICK to \in {"launch", "fail"} : Goto(o, "worker", "storeStaged", to)
    BY <1>4 DEF StoreStaged
  <2>2. store' \in {store, store \cup {Staged(o)}}
    BY <1>4 DEF StoreStaged
  <2>3. plan[o] # NoPlan /\ plan[o].fill = "picture" /\ status[o] # "none"
    BY <1>0, <2>1 DEF Goto, OrphanInv, ControlInv, ControlAt
  <2>4. Staged(o) \in Leftover
    BY <2>3 DEF Leftover
  <2> QED BY <1>0, <1>4, <2>1, <2>2, <2>3, <2>4, OrphanMove DEF StoreStaged, rows
<1>5. ASSUME NEW o \in Operations, Worker(o) PROVE OrphanInv'
  <2>1. PICK from, to : Goto(o, "worker", from, to) /\ to # "storeStaged"
                        /\ from \in {"launch", "forceSave", "consume", "snapshot", "native"}
    BY <1>5 DEF Worker, LaunchForceSave, ForceSaveReturns, ConsumeForSnapshot, ReadSnapshot,
       LaunchNative, BuildNative
  <2>2. UNCHANGED <<plan, document, records, store, crashes>>
    BY <1>5 DEF Worker, LaunchForceSave, ForceSaveReturns, ConsumeForSnapshot, ReadSnapshot,
       LaunchNative, BuildNative, rows
  <2>3. \A x \in Operations : status[x] # "none" => status'[x] # "none"
    BY <1>0, <1>5 DEF Worker, LaunchForceSave, ForceSaveReturns, ConsumeForSnapshot, ReadSnapshot,
       LaunchNative, BuildNative, rows, TypeOK
  <2> QED BY <1>0, <2>1, <2>2, <2>3, OrphanMove
<1>6. ASSUME NEW o \in Operations, NEW d \in Deliveries, Callback(o, d) PROVE OrphanInv'
  <2>1. PICK from, to : Goto(o, d, from, to) /\ to # "storeStaged"
                        /\ from \in {"idle", "callback", "callbackSettled"}
    BY <1>6 DEF Callback, DeliverCallback, ReceiveCallback, ReceiveSettled, Cleanup
  <2>2. UNCHANGED <<plan, status, document, records, store, crashes>>
    BY <1>6 DEF Callback, DeliverCallback, ReceiveCallback, ReceiveSettled, rows
  <2> QED BY <1>0, <2>1, <2>2, OrphanMove
<1>7. ASSUME NEW o \in Operations, NEW r \in Roles, Process(o, r) PROVE OrphanInv'
  <2>1. CASE Finalize(o, r) \/ ClaimOperation(o, r) \/ FailOperation(o, r)
    <3>1. PICK from, to : /\ Goto(o, r, from, to) /\ to # "storeStaged"
                         /\ from \in {"finalize", "claimOperation", "fail"}
      BY <2>1 DEF Finalize, ClaimOperation, FailOperation, Cleanup
    <3>2. UNCHANGED <<plan, document, records, store, crashes>>
      BY <2>1 DEF Finalize, ClaimOperation, FailOperation, rows
    <3>3. \A x \in Operations : status[x] # "none" => status'[x] # "none"
      BY <1>0, <2>1 DEF Finalize, ClaimOperation, FailOperation, rows, TypeOK
    <3> QED BY <1>0, <3>1, <3>2, <3>3, OrphanMove
  <2>2. CASE PutStaged(o, r) \/ PutFinal(o, r)
    <3>1. PICK from \in {"putStaged", "putFinal"}, to \in {"putFinal", "precheck", "catchStaged"} :
             /\ Goto(o, r, from, to)
             /\ from = "putStaged" => to # "precheck" /\ store' \in {store, store \cup {Staged(o)}}
             /\ from = "putFinal" => to # "putFinal" /\ store' \in {store, store \cup {Final(o)}}
      BY <2>2 DEF PutStaged, PutFinal, PutObject
    <3>2. UNCHANGED <<plan, status, document, records, crashes>>
      BY <2>2 DEF PutStaged, PutFinal, PutObject, rows
    <3>3. status[o] # "none"
      BY <1>0, <3>1 DEF Goto, ControlInv, ControlAt
    <3> QED BY <1>0, <3>1, <3>2, <3>3, OrphanMove
  <2>3. CASE Precheck(o, r) \/ AbortCompletion(o, r)
    <3>1. PICK from \in {"precheck", "commit"}, to \in {"commit", "catchStaged"} : Goto(o, r, from, to)
      BY <2>3 DEF Precheck, AbortCompletion
    <3>2. UNCHANGED <<plan, status, document, records, store, crashes>>
      BY <2>3 DEF Precheck, AbortCompletion, rows
    <3> QED BY <1>0, <3>1, <3>2, OrphanMove
  <2>4. CASE CommitCompletion(o, r)
    BY <1>0, <2>4, OrphanCommit
  <2>5. CASE CleanupObjects(o, r)
    <3>1. Undisturbed => store' = store \ CleanupKeys(o)
      BY <2>5, Deleted DEF CleanupObjects
    <3>2. UNCHANGED <<plan, status, document, records, crashes>> /\ store' \subseteq store
          /\ Goto(o, r, "cleanup", "idle")
      BY <2>5 DEF CleanupObjects, DeleteObjects, rows
    <3>3. Staged(o) \in CleanupKeys(o)
      BY DEF CleanupKeys
    <3> QED BY <1>0, <3>1, <3>2, <3>3, OrphanMove
  <2>6. CASE DropStaged(o, r)
    <3>1. Undisturbed => store' = store \ {Staged(o)}
      BY <2>6, Deleted DEF DropStaged
    <3>2. UNCHANGED <<plan, status, document, records, crashes>> /\ store' \subseteq store
      BY <2>6 DEF DropStaged, DeleteObjects, rows
    <3>3. Goto(o, r, "catchStaged", "catchCheck") \/ Goto(o, r, "dropStaged", "dropCheck")
      BY <2>6 DEF DropStaged
    <3> QED BY <1>0, <3>1, <3>2, <3>3, OrphanMove
  <2>7. CASE CheckCanonical(o, r)
    <3>1. UNCHANGED <<plan, status, document, records, store, crashes>>
      BY <2>7 DEF CheckCanonical, rows
    <3>2. PICK from \in {"catchCheck", "dropCheck"}, to \in {"fail", "catchFinal", "idle", "dropFinal"} :
             /\ Goto(o, r, from, to)
             /\ from = "catchCheck" => to = "catchFinal" \/ Final(o) \in Canonical
      BY <2>7 DEF CheckCanonical
    <3> QED BY <1>0, <3>1, <3>2, OrphanMove
  <2>8. CASE DropFinal(o, r)
    <3>1. Undisturbed => store' = store \ {Final(o)}
      BY <2>8, Deleted DEF DropFinal
    <3>2. UNCHANGED <<plan, status, document, records, crashes>> /\ store' \subseteq store
      BY <2>8 DEF DropFinal, DeleteObjects, rows
    <3>3. Goto(o, r, "catchFinal", "fail") \/ Goto(o, r, "dropFinal", "idle")
      BY <2>8 DEF DropFinal
    <3> QED BY <1>0, <3>1, <3>2, <3>3, OrphanMove
  <2> QED BY <1>7, <2>1, <2>2, <2>3, <2>4, <2>5, <2>6, <2>7, <2>8 DEF Process
<1>8. ASSUME NEW o \in Operations, ExpireOperation(o) \/ PollOperation(o) PROVE OrphanInv'
  <2>1. PICK to : Goto(o, "recovery", "idle", to) /\ to # "storeStaged"
    BY <1>8 DEF ExpireOperation, PollOperation, Cleanup
  <2>2. UNCHANGED <<plan, status, document, records, store, crashes>>
    BY <1>8 DEF ExpireOperation, PollOperation, rows
  <2> QED BY <1>0, <2>1, <2>2, OrphanMove
<1>9. ASSUME NEW o \in Operations, GrowStale(o) \/ LapseClaim(o) PROVE OrphanInv'
  BY <1>9, OrphanFrame DEF GrowStale, LapseClaim
<1>10. CASE Crash
  <2>1. /\ ~Undisturbed'
        /\ \A o \in Operations : pc'[<<o, "worker">>] = "idle"
        /\ UNCHANGED <<store, status>>
    BY <1>0, <1>10 DEF Crash, Undisturbed, TypeOK
  <2> QED BY <2>1 DEF OrphanInv
<1>11. CASE Serve \/ UNCHANGED vars
  BY <1>11, OrphanFrame DEF Serve, vars, rows
<1> QED
  BY <1>1, <1>2, <1>3, <1>4, <1>5, <1>6, <1>7, <1>8, <1>9, <1>10, <1>11 DEF Next, Request, Passing

(* At the start only the documents of targets are stored. *)
LEMMA OrphanInit ==
    ASSUME Init
    PROVE  OrphanInv
<1>1. \A t \in Targets : Seed(t) \in Canonical
  BY KeyFacts, NoKeyAssumption DEF Init, Canonical
<1>2. \A o \in Operations : Staged(o) \notin store /\ pc[<<o, "worker">>] = "idle"
  BY KeyFacts DEF Init
<1>3. \A key \in store : key \in Canonical
  BY <1>1 DEF Init
<1> QED BY <1>2, <1>3 DEF OrphanInv, Accounted

(* Without a crash, a failed deletion or a lost acknowledgement nothing is *)
(* left in the store when the operations are over that no row refers to,   *)
(* but the picture uploads: every process removes what it has stored, and  *)
(* a committed one the draft it has replaced.                              *)
THEOREM NoOrphans == Spec => []NoOrphansAtRest
<1>1. Init => OrphanInv
  BY OrphanInit
<1>2. IndInv /\ OrphanInv /\ [Next]_vars => OrphanInv'
  BY OrphanStep
<1>3. OrphanInv => NoOrphansAtRest
  <2>1. AtRest => \A o \in Operations, r \in Roles : pc[<<o, r>>] = "idle"
    BY DEF AtRest
  <2>2. ASSUME AtRest, NEW o \in Operations, NEW key PROVE ~OwedBy(o, key)
    <3>1. ~At(o, StagedOwed) /\ ~At(o, FinalOwed) /\ ~At(o, {"cleanup"})
      BY <2>1, <2>2 DEF At, StagedOwed, FinalOwed
    <3> QED BY <3>1 DEF OwedBy
  <2> QED BY <2>2 DEF OrphanInv, NoOrphansAtRest, Undisturbed, Accounted
<1> QED BY <1>1, <1>2, <1>3, InductiveInvariant, PTL DEF Spec
=============================================================================
