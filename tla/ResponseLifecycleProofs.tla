------------------------ MODULE ResponseLifecycleProofs ------------------------
(***************************************************************************)
(* Proofs about ResponseLifecycle for any number of requests, editors and  *)
(* corrections.                                                            *)
(***************************************************************************)
EXTENDS ResponseLifecycle, TLAPS

(* The latest Submission of a submitted Response is a Submission.          *)
LEMMA LatestTyped ==
    ASSUME TypeOK, status = "submitted"
    PROVE  /\ LatestSubmission \in Attempts
           /\ LatestVersion \in Operations
<1>1. submissions \in Seq(Attempts) /\ submissions # <<>>
  BY DEF TypeOK
<1>2. LatestSubmission \in Attempts
  BY <1>1 DEF LatestSubmission, Last
<1>3. corrections # <<>> => Last(corrections) \in Corrections
  BY DEF TypeOK, Last
<1> QED BY <1>2, <1>3 DEF LatestVersion, Operations, Corrections

(* Every variable keeps its type, and every process its plan.              *)
LEMMA TypeStep ==
    ASSUME TypeOK, PlanInv, AttemptInv, SubmissionLock, [Next]_vars
    PROVE  TypeOK' /\ PlanInv'
<1> USE ProcessesAreDistinct DEF Goto, Finish, Remember, rows, Processes, Operations, Steps, Active
<1>1. ASSUME NEW s \in Starts, ReadForStart(s) PROVE TypeOK' /\ PlanInv'
  <2>1. plan'[s] \in Seeds
    BY <1>1, LatestTyped DEF ReadForStart, Seeds, TypeOK
  <2> QED BY <1>1, <2>1 DEF ReadForStart, TypeOK, PlanInv
<1>2. ASSUME NEW s \in Starts, CommitStart(s) PROVE TypeOK' /\ PlanInv'
  <2>1. plan[s] \in Seeds
    BY <1>2 DEF CommitStart, PlanInv
  <2> QED BY <1>2, <2>1 DEF CommitStart, Reopen, TypeOK, PlanInv, Drafts
<1>3. ASSUME NEW a \in Attempts, NEW action \in {"save", "submit"}, ReadForAttempt(a, action)
      PROVE  TypeOK' /\ PlanInv'
  <2>1. plan'[a] \in AttemptPlans
    BY <1>3 DEF ReadForAttempt, TypeOK, AttemptPlans
  <2> QED BY <1>3, <2>1 DEF ReadForAttempt, TypeOK, PlanInv
<1>4. ASSUME NEW a \in Attempts, CreateAttempt(a) PROVE TypeOK' /\ PlanInv'
  BY <1>4 DEF CreateAttempt, TypeOK, PlanInv
<1>5. ASSUME NEW a \in Attempts, CheckAttempt(a) PROVE TypeOK' /\ PlanInv'
  BY <1>5 DEF CheckAttempt, TypeOK, PlanInv
<1>6. ASSUME NEW a \in Attempts, CommitAttempt(a) PROVE TypeOK' /\ PlanInv'
  <2>1. CASE plan[a].action = "submit"
    <3>1. submissions' \in Seq(Attempts) /\ submissions' # <<>>
      BY <1>6, <2>1 DEF CommitAttempt, Submit, TypeOK
    <3> QED BY <1>6, <2>1, <3>1 DEF CommitAttempt, Submit, TypeOK, PlanInv
  <2>2. CASE plan[a].action # "submit"
    BY <1>6, <2>2 DEF CommitAttempt, SaveDraft, TypeOK, PlanInv, Drafts
  <2> QED BY <2>1, <2>2
<1>7. ASSUME NEW e \in Editors, ReadForEditor(e) PROVE TypeOK' /\ PlanInv'
  <2>1. plan'[e] \in Workspaces
    BY <1>7, LatestTyped DEF ReadForEditor, TypeOK, Workspaces
  <2> QED BY <1>7, <2>1 DEF ReadForEditor, TypeOK, PlanInv
<1>8. ASSUME NEW e \in Editors, ClaimWorkspace(e) PROVE TypeOK' /\ PlanInv'
  <2>1. lease' \in Leases
    BY <1>8 DEF ClaimWorkspace, PlanInv, Leases
  <2> QED BY <1>8, <2>1 DEF ClaimWorkspace, TypeOK, PlanInv
<1>9. ASSUME ExpireLease \/ DropLease PROVE TypeOK' /\ PlanInv'
  BY <1>9 DEF ExpireLease, DropLease, TypeOK, PlanInv, Leases
<1>10. ASSUME NEW c \in Amendments, ReadForAmendment(c) PROVE TypeOK' /\ PlanInv'
  <2>1. plan'[c] \in AmendmentPlans
    <3>1. lease \in Leases /\ lease.workspace.base \in Operations /\ lease.workspace.revision \in Nat
      BY <1>10, LatestTyped DEF ReadForAmendment, TypeOK, Leases
    <3> QED BY <1>10, <3>1, LatestTyped DEF ReadForAmendment, TypeOK, AmendmentPlans, Leases
  <2> QED BY <1>10, <2>1 DEF ReadForAmendment, TypeOK, PlanInv
<1>11. ASSUME NEW c \in Amendments, CreateAmendment(c) PROVE TypeOK' /\ PlanInv'
  BY <1>11 DEF CreateAmendment, TypeOK, PlanInv
<1>12. ASSUME NEW c \in Amendments, CommitAmendment(c) PROVE TypeOK' /\ PlanInv'
  <2>1. corrections' \in Seq(Corrections)
    <3>1. plan[c] \in AmendmentPlans
      BY <1>12 DEF CommitAmendment, PlanInv
    <3>2. [by |-> c, of |-> plan[c].of, base |-> plan[c].base] \in Corrections
      BY <1>12, <3>1, LatestTyped DEF CommitAmendment, AmendmentPlans, Corrections
    <3> QED BY <1>12, <3>2 DEF CommitAmendment, Amend, TypeOK
  <2>2. lease' \in Leases \cup {None}
    BY <1>12 DEF CommitAmendment, Amend, TypeOK, Leases
  <2> QED BY <1>12, <2>1, <2>2 DEF CommitAmendment, Amend, TypeOK, PlanInv
<1>13. ASSUME NEW p \in Processes, Refuse(p) PROVE TypeOK' /\ PlanInv'
  BY <1>13 DEF Refuse, TypeOK, PlanInv
<1>14. ASSUME NEW p \in Operations, FailOperation(p) PROVE TypeOK' /\ PlanInv'
  <2>1. draft # None <=> status' \in {"draft", "submitting"}
    BY <1>14 DEF FailOperation, TypeOK
  <2> QED BY <1>14, <2>1 DEF FailOperation, TypeOK, PlanInv
<1>15. CASE UNCHANGED vars
  BY <1>15 DEF vars, TypeOK, PlanInv
<1> QED BY <1>1, <1>2, <1>3, <1>4, <1>5, <1>6, <1>7, <1>8, <1>9, <1>10, <1>11, <1>12, <1>13, <1>14, <1>15
        DEF Next, Rest

(* The submission lock and the uniqueness of the active attempt are kept   *)
(* together: each step that frees the lock ends the attempt that held it.  *)
LEMMA LockStep ==
    ASSUME IndInv, [Next]_vars
    PROVE  SubmissionLock' /\ AttemptInv'
<1> USE ProcessesAreDistinct
    DEF IndInv, Goto, Finish, Remember, rows, Processes, Operations, Active, SubmissionLock, AttemptInv
<1>1. ASSUME NEW s \in Starts, ReadForStart(s) PROVE SubmissionLock' /\ AttemptInv'
  BY <1>1 DEF ReadForStart, TypeOK
<1>2. ASSUME NEW s \in Starts, CommitStart(s) PROVE SubmissionLock' /\ AttemptInv'
  BY <1>2 DEF CommitStart, Reopen, TypeOK
<1>3. ASSUME NEW a \in Attempts, NEW action \in {"save", "submit"}, ReadForAttempt(a, action)
      PROVE  SubmissionLock' /\ AttemptInv'
  BY <1>3 DEF ReadForAttempt, TypeOK
<1>4. ASSUME NEW a \in Attempts, CreateAttempt(a) PROVE SubmissionLock' /\ AttemptInv'
  BY <1>4 DEF CreateAttempt, NoneActive, TypeOK
<1>5. ASSUME NEW a \in Attempts, CheckAttempt(a) PROVE SubmissionLock' /\ AttemptInv'
  BY <1>5 DEF CheckAttempt, TypeOK
<1>6. ASSUME NEW a \in Attempts, CommitAttempt(a) PROVE SubmissionLock' /\ AttemptInv'
  BY <1>6 DEF CommitAttempt, Submit, SaveDraft, TypeOK
<1>7. ASSUME NEW e \in Editors, ReadForEditor(e) PROVE SubmissionLock' /\ AttemptInv'
  BY <1>7 DEF ReadForEditor, TypeOK
<1>8. ASSUME NEW e \in Editors, ClaimWorkspace(e) PROVE SubmissionLock' /\ AttemptInv'
  BY <1>8 DEF ClaimWorkspace, TypeOK
<1>9. ASSUME ExpireLease \/ DropLease PROVE SubmissionLock' /\ AttemptInv'
  BY <1>9 DEF ExpireLease, DropLease
<1>10. ASSUME NEW c \in Amendments, ReadForAmendment(c) PROVE SubmissionLock' /\ AttemptInv'
  BY <1>10 DEF ReadForAmendment, TypeOK
<1>11. ASSUME NEW c \in Amendments, CreateAmendment(c) PROVE SubmissionLock' /\ AttemptInv'
  BY <1>11 DEF CreateAmendment, TypeOK
<1>12. ASSUME NEW c \in Amendments, CommitAmendment(c) PROVE SubmissionLock' /\ AttemptInv'
  BY <1>12 DEF CommitAmendment, Amend, TypeOK
<1>13. ASSUME NEW p \in Processes, Refuse(p) PROVE SubmissionLock' /\ AttemptInv'
  BY <1>13 DEF Refuse, TypeOK
<1>14. ASSUME NEW p \in Operations, FailOperation(p) PROVE SubmissionLock' /\ AttemptInv'
  BY <1>14 DEF FailOperation, TypeOK
<1>15. CASE UNCHANGED vars
  BY <1>15 DEF vars
<1> QED BY <1>1, <1>2, <1>3, <1>4, <1>5, <1>6, <1>7, <1>8, <1>9, <1>10, <1>11, <1>12, <1>13, <1>14, <1>15
        DEF Next, Rest

(* The invariant holds in every reachable state: types, the plan of every  *)
(* process under way, the submission lock and the one active attempt.      *)
THEOREM LifecycleInvariant == Spec => []IndInv
<1>1. Init => IndInv
  BY ProcessesAreDistinct
     DEF Init, IndInv, TypeOK, PlanInv, SubmissionLock, AttemptInv, Active, Drafts, Seeds, Leases,
         Steps, Operations, Processes
<1>2. IndInv /\ [Next]_vars => IndInv'
  BY TypeStep, LockStep DEF IndInv
<1> QED BY <1>1, <1>2, PTL DEF Spec

(* Every variable has its type, and a draft exists exactly while the       *)
(* Response is not submitted.                                              *)
THEOREM LifecycleTyped == Spec => []TypeOK
  BY LifecycleInvariant, PTL DEF IndInv

(* A Response is in submitting exactly while a submission is active.       *)
THEOREM LockHeld == Spec => []SubmissionLock
  BY LifecycleInvariant, PTL DEF IndInv

(* No step changes the draft but the completion of an attempt made from it. *)
LEMMA DraftStep ==
    ASSUME IndInv, [Next]_vars, draft # None, draft' # draft
    PROVE  \E a \in Attempts : Active(a) /\ operation'[a] = "completed" /\ plan[a].base = draft
<1> USE DEF rows, Goto
<1>1. \E a \in Attempts : CommitAttempt(a)
  <2>1. ASSUME NEW s \in Starts, CommitStart(s) PROVE FALSE
    BY <2>1 DEF CommitStart, IndInv, TypeOK
  <2> QED BY <2>1 DEF Next, Rest, vars, ReadForStart, ReadForAttempt, CreateAttempt, CheckAttempt,
       ReadForEditor, ClaimWorkspace, ExpireLease, DropLease, ReadForAmendment, CreateAmendment,
       CommitAmendment, Amend, Refuse, FailOperation
<1>2. PICK a \in Attempts : CommitAttempt(a)
  BY <1>1
<1>3. plan[a].base = draft
  BY <1>2 DEF CommitAttempt, SaveDraft, IndInv, AttemptInv
<1>4. operation'[a] = "completed" /\ Active(a)
  BY <1>2 DEF CommitAttempt, IndInv, TypeOK, Operations
<1> QED BY <1>3, <1>4

(* Neither another tab nor a late operation of an earlier draft replaces   *)
(* or removes what the User has saved.                                     *)
THEOREM DraftsKept == Spec => NoDraftLost
<1>1. IndInv /\ [Next]_vars =>
        [draft # None /\ draft' # draft =>
           \E a \in Attempts : Active(a) /\ operation'[a] = "completed" /\ plan[a].base = draft]_vars
  BY DraftStep DEF vars, rows
<1> QED BY <1>1, LifecycleInvariant, PTL DEF Spec, NoDraftLost

(* Only the commit of a correction adds to the corrections, at their end.  *)
LEMMA CorrectionStep ==
    ASSUME IndInv, [Next]_vars, corrections' # corrections
    PROVE  \E c \in Amendments : CommitAmendment(c)
<1> USE DEF rows
<1>1. ASSUME NEW a \in Attempts, CommitAttempt(a) PROVE FALSE
  BY <1>1 DEF CommitAttempt, Submit, SaveDraft
<1>2. ASSUME NEW s \in Starts, CommitStart(s) PROVE FALSE
  BY <1>2 DEF CommitStart, Reopen
<1> QED BY <1>1, <1>2 DEF Next, Rest, vars, ReadForStart, ReadForAttempt, CreateAttempt, CheckAttempt,
     ReadForEditor, ClaimWorkspace, ExpireLease, DropLease, ReadForAmendment, CreateAmendment,
     Refuse, FailOperation

(* However many administrators correct, each correction is made from the   *)
(* one before it.                                                          *)
THEOREM ChainKept == Spec => []CorrectionsChained
<1>1. Init => CorrectionsChained
  BY DEF Init, CorrectionsChained
<1>2. IndInv /\ CorrectionsChained /\ [Next]_vars => CorrectionsChained'
  <2> SUFFICES ASSUME IndInv, CorrectionsChained, [Next]_vars, corrections' # corrections
               PROVE  CorrectionsChained'
    BY DEF CorrectionsChained
  <2>1. PICK c \in Amendments : CommitAmendment(c)
    BY CorrectionStep
  <2> DEFINE new == [by |-> c, of |-> plan[c].of, base |-> plan[c].base]
  <2>2. corrections' = Append(corrections, new) /\ corrections \in Seq(Corrections)
    BY <2>1 DEF CommitAmendment, Amend, IndInv, TypeOK
  <2>3. corrections # <<>> => new.base = corrections[Len(corrections)].by
    BY <2>1 DEF CommitAmendment, Last
  <2> HIDE DEF new
  <2> QED BY <2>2, <2>3 DEF CorrectionsChained
<1> QED BY <1>1, <1>2, LifecycleInvariant, PTL DEF Spec

(* No correction is committed while the User edits the Response.           *)
THEOREM EditingUncorrected == Spec => NoCorrectionWhileEditing
<1>1. IndInv /\ [Next]_vars => [corrections' # corrections => status = "submitted"]_vars
  BY CorrectionStep DEF CommitAmendment
<1> QED BY <1>1, LifecycleInvariant, PTL DEF Spec, NoCorrectionWhileEditing
===============================================================================
